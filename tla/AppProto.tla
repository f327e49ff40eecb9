------------------------------ MODULE AppProto ------------------------------
(***************************************************************************)
(* The messages and services of demo.proto as the shop's mobile app has    *)
(* them (src/demo/src/react-native-app/protos/demo.ts), written by another *)
(* version of the generator: its fromJSON knows one name per field.        *)
(***************************************************************************)
EXTENDS ProtoCodec

CartItem == <<One("productId", 10, "string"), One("quantity", 16, "int32")>>
AddItemRequest == <<One("userId", 10, "string"), One("item", 18, "CartItem")>>
EmptyCartRequest == <<One("userId", 10, "string")>>
GetCartRequest == <<One("userId", 10, "string")>>
Cart == <<One("userId", 10, "string"), Many("items", 18, "CartItem")>>
Empty == <<>>
ListRecommendationsRequest ==
  <<One("userId", 10, "string"), Many("productIds", 18, "string")>>
ListRecommendationsResponse == <<Many("productIds", 10, "string")>>
Product ==
  <<One("id", 10, "string"), One("name", 18, "string"),
    One("description", 26, "string"), One("picture", 34, "string"),
    One("priceUsd", 42, "Money"), Many("categories", 50, "string")>>
ListProductsResponse == <<Many("products", 10, "Product")>>
GetProductRequest == <<One("id", 10, "string")>>
SearchProductsRequest == <<One("query", 10, "string")>>
SearchProductsResponse == <<Many("results", 10, "Product")>>
GetQuoteRequest == <<One("address", 10, "Address"), Many("items", 18, "CartItem")>>
GetQuoteResponse == <<One("costUsd", 10, "Money")>>
ShipOrderRequest == <<One("address", 10, "Address"), Many("items", 18, "CartItem")>>
ShipOrderResponse == <<One("trackingId", 10, "string")>>
Address ==
  <<One("streetAddress", 10, "string"), One("city", 18, "string"),
    One("state", 26, "string"), One("country", 34, "string"),
    One("zipCode", 42, "string")>>
Money ==
  <<One("currencyCode", 10, "string"), One("units", 16, "int64"),
    One("nanos", 24, "int32")>>
GetSupportedCurrenciesResponse == <<Many("currencyCodes", 10, "string")>>
CurrencyConversionRequest == <<One("from", 10, "Money"), One("toCode", 18, "string")>>
CreditCardInfo ==
  <<One("creditCardNumber", 10, "string"), One("creditCardCvv", 16, "int32"),
    One("creditCardExpirationYear", 24, "int32"),
    One("creditCardExpirationMonth", 32, "int32")>>
ChargeRequest == <<One("amount", 10, "Money"), One("creditCard", 18, "CreditCardInfo")>>
ChargeResponse == <<One("transactionId", 10, "string")>>
OrderItem == <<One("item", 10, "CartItem"), One("cost", 18, "Money")>>
OrderResult ==
  <<One("orderId", 10, "string"), One("shippingTrackingId", 18, "string"),
    One("shippingCost", 26, "Money"), One("shippingAddress", 34, "Address"),
    Many("items", 42, "OrderItem")>>
SendOrderConfirmationRequest ==
  <<One("email", 10, "string"), One("order", 18, "OrderResult")>>
PlaceOrderRequest ==
  <<One("userId", 10, "string"), One("userCurrency", 18, "string"),
    One("address", 26, "Address"), One("email", 42, "string"),
    One("creditCard", 50, "CreditCardInfo")>>
PlaceOrderResponse == <<One("order", 10, "OrderResult")>>
AdRequest == <<Many("contextKeys", 10, "string")>>
AdResponse == <<Many("ads", 10, "Ad")>>
Ad == <<One("redirectUrl", 10, "string"), One("text", 18, "string")>>
Flag ==
  <<One("name", 10, "string"), One("description", 18, "string"),
    One("enabled", 24, "bool")>>
GetFlagRequest == <<One("name", 10, "string")>>
GetFlagResponse == <<One("flag", 10, "Flag")>>
CreateFlagRequest ==
  <<One("name", 10, "string"), One("description", 18, "string"),
    One("enabled", 24, "bool")>>
CreateFlagResponse == <<One("flag", 10, "Flag")>>
UpdateFlagRequest == <<One("name", 10, "string"), One("enabled", 16, "bool")>>
UpdateFlagResponse == <<>>
ListFlagsRequest == <<>>
ListFlagsResponse == <<Many("flag", 10, "Flag")>>
DeleteFlagRequest == <<One("name", 10, "string")>>
DeleteFlagResponse == <<>>

\* The messages by the names the functions above refer to each other by.
Messages ==
  [CartItem |-> CartItem, AddItemRequest |-> AddItemRequest,
   EmptyCartRequest |-> EmptyCartRequest, GetCartRequest |-> GetCartRequest,
   Cart |-> Cart, Empty |-> Empty,
   ListRecommendationsRequest |-> ListRecommendationsRequest,
   ListRecommendationsResponse |-> ListRecommendationsResponse, Product |-> Product,
   ListProductsResponse |-> ListProductsResponse,
   GetProductRequest |-> GetProductRequest,
   SearchProductsRequest |-> SearchProductsRequest,
   SearchProductsResponse |-> SearchProductsResponse,
   GetQuoteRequest |-> GetQuoteRequest, GetQuoteResponse |-> GetQuoteResponse,
   ShipOrderRequest |-> ShipOrderRequest, ShipOrderResponse |-> ShipOrderResponse,
   Address |-> Address, Money |-> Money,
   GetSupportedCurrenciesResponse |-> GetSupportedCurrenciesResponse,
   CurrencyConversionRequest |-> CurrencyConversionRequest,
   CreditCardInfo |-> CreditCardInfo, ChargeRequest |-> ChargeRequest,
   ChargeResponse |-> ChargeResponse, OrderItem |-> OrderItem,
   OrderResult |-> OrderResult,
   SendOrderConfirmationRequest |-> SendOrderConfirmationRequest,
   PlaceOrderRequest |-> PlaceOrderRequest, PlaceOrderResponse |-> PlaceOrderResponse,
   AdRequest |-> AdRequest, AdResponse |-> AdResponse, Ad |-> Ad, Flag |-> Flag,
   GetFlagRequest |-> GetFlagRequest, GetFlagResponse |-> GetFlagResponse,
   CreateFlagRequest |-> CreateFlagRequest, CreateFlagResponse |-> CreateFlagResponse,
   UpdateFlagRequest |-> UpdateFlagRequest, UpdateFlagResponse |-> UpdateFlagResponse,
   ListFlagsRequest |-> ListFlagsRequest, ListFlagsResponse |-> ListFlagsResponse,
   DeleteFlagRequest |-> DeleteFlagRequest, DeleteFlagResponse |-> DeleteFlagResponse]

----------------------------------------------------------------------------
\* The services: what each method sends and what it answers.
CartService ==
  [addItem |-> Call("AddItemRequest", "Empty"),
   getCart |-> Call("GetCartRequest", "Cart"),
   emptyCart |-> Call("EmptyCartRequest", "Empty")]
RecommendationService ==
  [listRecommendations |->
     Call("ListRecommendationsRequest", "ListRecommendationsResponse")]
ProductCatalogService ==
  [listProducts |-> Call("Empty", "ListProductsResponse"),
   getProduct |-> Call("GetProductRequest", "Product"),
   searchProducts |-> Call("SearchProductsRequest", "SearchProductsResponse")]
ShippingService ==
  [getQuote |-> Call("GetQuoteRequest", "GetQuoteResponse"),
   shipOrder |-> Call("ShipOrderRequest", "ShipOrderResponse")]
CurrencyService ==
  [getSupportedCurrencies |-> Call("Empty", "GetSupportedCurrenciesResponse"),
   convert |-> Call("CurrencyConversionRequest", "Money")]
PaymentService == [charge |-> Call("ChargeRequest", "ChargeResponse")]
EmailService ==
  [sendOrderConfirmation |-> Call("SendOrderConfirmationRequest", "Empty")]
CheckoutService == [placeOrder |-> Call("PlaceOrderRequest", "PlaceOrderResponse")]
AdService == [getAds |-> Call("AdRequest", "AdResponse")]
FeatureFlagService ==
  [getFlag |-> Call("GetFlagRequest", "GetFlagResponse"),
   createFlag |-> Call("CreateFlagRequest", "CreateFlagResponse"),
   updateFlag |-> Call("UpdateFlagRequest", "UpdateFlagResponse"),
   listFlags |-> Call("ListFlagsRequest", "ListFlagsResponse"),
   deleteFlag |-> Call("DeleteFlagRequest", "DeleteFlagResponse")]

Services ==
  [CartService |-> CartService, RecommendationService |-> RecommendationService,
   ProductCatalogService |-> ProductCatalogService,
   ShippingService |-> ShippingService, CurrencyService |-> CurrencyService,
   PaymentService |-> PaymentService, EmailService |-> EmailService,
   CheckoutService |-> CheckoutService, AdService |-> AdService,
   FeatureFlagService |-> FeatureFlagService]

================================================================================
