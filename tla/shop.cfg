SPECIFICATION Spec
CONSTANTS
  Products = {p1}
  Tabs = {t1}
  Requests = {1, 2, 3}
  MaxQuantity = 2
  NoCart = NoCart
INVARIANTS ViewCatchesUp OutcomeTold ChangesLand
