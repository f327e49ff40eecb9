----------------------------- MODULE MCProtoCodec -----------------------------
(* Every method of every service is called between peers built from either    *)
(* copy of demo.proto, with bounded messages: scalars at their default or not, *)
(* an int64 beyond the safe range, submessages absent, empty or full, lists of *)
(* at most two elements.                                                       *)
EXTENDS ProtoCodec, FiniteSets

Web == INSTANCE WebProto
App == INSTANCE AppProto

Copies == {"web", "app"}
Messages(copy) == IF copy = "web" THEN Web!Messages ELSE App!Messages
Services(copy) == IF copy = "web" THEN Web!Services ELSE App!Services

\* The message a method carries in a direction ("request" or "response").
Carries(copy, service, method, direction) == Services(copy)[service][method][direction]

\* Fields that are the same on the wire.
SameField(f, g) == f.name = g.name /\ f.tag = g.tag /\ f.type = g.type /\ f.many = g.many

\* The messages all of whose submessages are among others.
Above(messages, types) ==
  {t \in DOMAIN messages :
     \A i \in DOMAIN messages[t] :
       IsMessage(messages[t][i]) => messages[t][i].type \in types}

\* The two generated files have the same messages, with the same fields in the
\* same order, and the same methods; the app's has no second names.
ASSUME CopiesAgree ==
  /\ Services("web") = Services("app")
  /\ DOMAIN Messages("web") = DOMAIN Messages("app")
  /\ \A type \in DOMAIN Messages("web") :
       LET web == Messages("web")[type]
           app == Messages("app")[type]
       IN  /\ DOMAIN web = DOMAIN app
           /\ \A i \in DOMAIN web :
                SameField(web[i], app[i]) /\ app[i].aliases[2] = app[i].name

\* A field's names and its number are no other field's of the message.
ASSUME FieldsDiffer ==
  \A copy \in Copies : \A type \in DOMAIN Messages(copy) :
    LET fields == Messages(copy)[type]
    IN  /\ Len(fields) \in Nat /\ DOMAIN fields = 1..Len(fields)
        /\ \A i, j \in DOMAIN fields :
          /\ DOMAIN fields[i].aliases = 1..2 /\ fields[i].aliases[1] = fields[i].name
          /\ fields[i].tag \in Nat \ {0} /\ fields[i].tag % 8 \in {0, 2}
          /\ fields[i].tag \div 8 < 99
          /\ i # j => /\ fields[i].tag \div 8 # fields[j].tag \div 8
                      /\ \A k, l \in 1..2 : fields[i].aliases[k] # fields[j].aliases[l]

\* Messages nest at most four deep, and a list holds messages or strings.
ASSUME TablesNest ==
  \A copy \in Copies :
    LET messages == Messages(copy)
        Upon(types) == Above(messages, types)
    IN  /\ DOMAIN messages = Upon(Upon(Upon(Upon({}))))
        /\ \A type \in DOMAIN messages : \A i \in DOMAIN messages[type] :
             LET f == messages[type][i]
             IN  f.many => IsMessage(f) \/ f.type = "string"

\* The methods carry messages of the table.
ASSUME MethodsCarryMessages ==
  \A copy \in Copies : \A service \in DOMAIN Services(copy) :
    \A method \in DOMAIN Services(copy)[service], direction \in {"request", "response"} :
      Carries(copy, service, method, direction) \in DOMAIN Messages(copy)

VARIABLE call

Idle == [service |-> "none"]

\* A message with every field set, int64 fields to n.
FullWith(Inner(_), fields, n) ==
  LET Value(f) ==
        CASE f.type = "string" -> "x"
          [] f.type = "int32" -> 1
          [] f.type = "int64" -> n
          [] f.type = "bool" -> TRUE
          [] OTHER -> Inner(f.type)
      Set(f) == IF f.many THEN <<Value(f)>> ELSE Value(f)
  IN  [name \in Names(fields) |-> Set(FieldOf(fields, name))]

Full1(messages, type, n) ==
  FullWith(LAMBDA t : Undefined, messages[type], n)
Full2(messages, type, n) ==
  FullWith(LAMBDA t : Full1(messages, t, n), messages[type], n)
FullMessage(messages, type, n) ==
  FullWith(LAMBDA t : Full2(messages, t, n), messages[type], n)

FieldValues(messages, f) ==
  LET bare == Base(messages[f.type])
      Full(n) == FullMessage(messages, f.type, n)
      Lists == IF IsMessage(f)
               THEN {<<>>, <<bare>>, <<Full(1), bare>>, <<Full(1), Full(MaxSafe + 1)>>}
               ELSE {<<>>, <<"">>, <<"x", "">>}
      Values == CASE f.type = "string" -> {"", "x"}
                  [] f.type = "int32" -> {-1, 0, 1}
                  [] f.type = "int64" -> {-MaxSafe - 1, -MaxSafe, 0, MaxSafe, MaxSafe + 1}
                  [] f.type = "bool" -> {FALSE, TRUE}
                  [] OTHER -> {Undefined, bare, Full(1), Full(-MaxSafe - 1)}
  IN  IF f.many THEN Lists ELSE Values

\* The messages of a type that are tried, field by field.
Put(p, name, x) == [n \in DOMAIN p \cup {name} |-> IF n = name THEN x ELSE p[n]]

Widened(messages, partials, f) ==
  {Put(p, f.name, x) : p \in partials, x \in FieldValues(messages, f)}

Samples(messages, type) ==
  FoldLeft(LAMBDA partials, f : Widened(messages, partials, f), {<<>>}, messages[type])

\* Every int64 in a message is in the range a number holds.
SafeWith(Inner(_, _), fields, message) ==
  \A i \in DOMAIN fields :
    LET f == fields[i]
        given == Given(f, message[f.name])
    IN  \A k \in DOMAIN given :
          /\ IsMessage(f) => Inner(f.type, given[k])
          /\ f.type = "int64" => LongToNumber(given[k]) # Failed

Safe1(messages, type, message) ==
  SafeWith(LAMBDA t, x : TRUE, messages[type], message)
Safe2(messages, type, message) ==
  SafeWith(LAMBDA t, x : Safe1(messages, t, x), messages[type], message)
Safe3(messages, type, message) ==
  SafeWith(LAMBDA t, x : Safe2(messages, t, x), messages[type], message)
IsSafe(messages, type, message) ==
  SafeWith(LAMBDA t, x : Safe3(messages, t, x), messages[type], message)

Init == call = Idle

\* One message of a call, in one direction.
Sent ==
  /\ call = Idle
  /\ \E sender, receiver \in Copies : \E service \in DOMAIN Services(sender) :
       \E method \in DOMAIN Services(sender)[service],
          direction \in {"request", "response"} :
         \E message \in Samples(Messages(sender),
                                Carries(sender, service, method, direction)) :
           call' = [service |-> service, method |-> method, direction |-> direction,
                    sender |-> sender, receiver |-> receiver, message |-> message]

Done == call # Idle /\ call' = Idle

Next == Sent \/ Done

Spec == Init /\ [][Next]_call

----------------------------------------------------------------------------
SentType == Carries(call.sender, call.service, call.method, call.direction)
ReadType == Carries(call.receiver, call.service, call.method, call.direction)

\* A field this version does not know, and a known number in another wire type.
Strange(fields) ==
  {[tag |-> 794, payload |-> "?"]}
    \cup {[tag |-> (fields[i].tag \div 8) * 8 + 5, payload |-> "?"] : i \in DOMAIN fields}

\* The encoding as sent, or with a strange entry somewhere in it.
Received(wire, fields) ==
  {wire} \cup {InsertAt(wire, i, e) : i \in 1..(Len(wire) + 1), e \in Strange(fields)}

\* What a peer sends is what the other reads, whichever copy of the schema each
\* was built from, and what a newer peer adds to it is skipped without losing
\* what follows; an int64 that a number cannot hold fails the whole message
\* instead of changing it (demo.ts, longToNumber).
CopiesAgreeOnTheWire ==
  call # Idle =>
    LET wire == Encode(Messages(call.sender), SentType, call.message)
    IN  \A w \in Received(wire, Messages(call.receiver)[ReadType]) :
          Decode(Messages(call.receiver), ReadType, w)
            = IF IsSafe(Messages(call.sender), SentType, call.message)
              THEN call.message ELSE Failed

\* The object with its fields under the names of the .proto file.
Renamed(object) ==
  LET NewName(n) == FieldOf(Messages("web")[SentType], n).aliases[2]
  IN  [m \in {NewName(n) : n \in DOMAIN object} |->
         object[CHOOSE n \in DOMAIN object : NewName(n) = m]]

\* A message survives the other copy's JSON and fromPartial.  Under the names
\* of the .proto file the web tier still reads it whole; the app, generated
\* without them, reads the fields whose two names are one and drops the others.
CopiesAgreeOnJSON ==
  call # Idle =>
    LET object == ToJSON(Messages(call.sender), SentType, call.message)
        messages == Messages(call.receiver)
        fields == Messages("web")[SentType]
        Kept(n) == call.receiver = "web" \/ FieldOf(fields, n).aliases[2] = n
    IN  /\ FromJSON(messages, ReadType, object) = call.message
        /\ FromPartial(messages, ReadType, object) = call.message
        /\ FromJSON(messages, ReadType, Renamed(object))
             = [n \in Names(fields) |->
                  IF Kept(n) THEN call.message[n] ELSE Default(FieldOf(fields, n))]

================================================================================
