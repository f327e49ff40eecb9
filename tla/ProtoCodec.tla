------------------------------ MODULE ProtoCodec ------------------------------
(***************************************************************************)
(* What the generated message functions of the demo shop do: encode,       *)
(* decode, toJSON, fromJSON and fromPartial.  The generator writes them    *)
(* out once per message; here each is one operator, and WebProto and       *)
(* AppProto hold what differs from message to message: its fields.         *)
(*                                                                         *)
(* A message is a function from field names to values, an encoding is a    *)
(* sequence of [tag, payload], the payload of a submessage is itself an    *)
(* encoding.  Bytes and varints are the writer's and reader's business.    *)
(*                                                                         *)
(* The functions of a message call those of its submessages.  No message   *)
(* of demo.proto nests deeper than four (the assumption TablesNest of      *)
(* MCProtoCodec), so the recursion is written out: the operators that end  *)
(* in With say what one call does, given what the calls inside it do, and  *)
(* those numbered 1 to 4 are the calls on messages of that height.  The    *)
(* decoder's recursion limit of 100 is out of reach.                       *)
(***************************************************************************)
EXTENDS Integers, Sequences, SequencesExt

CONSTANTS
  Undefined,   \* an absent submessage
  Failed,      \* the call threw
  MaxSafe      \* Number.MAX_SAFE_INTEGER

ASSUME MaxSafeAssumption == MaxSafe \in Nat

\* A field, with the tag it is written under: 8 * its number + its wire type.
Field(name, alias, tag, type, many) ==
  [name |-> name, aliases |-> <<name, alias>>, tag |-> tag, type |-> type, many |-> many]

One(name, tag, type) == Field(name, name, tag, type, FALSE)
Many(name, tag, type) == Field(name, name, tag, type, TRUE)

\* Fields whose JSON is also read under their name in the .proto file.
OneAlias(name, alias, tag, type) == Field(name, alias, tag, type, FALSE)
ManyAlias(name, alias, tag, type) == Field(name, alias, tag, type, TRUE)

\* A method of a service.
Call(request, response) == [request |-> request, response |-> response]

Scalars == {"string", "int32", "int64", "bool"}
IsMessage(f) == f.type \notin Scalars

Default(f) ==
  IF f.many THEN <<>>
  ELSE CASE f.type = "string" -> ""
         [] f.type \in {"int32", "int64"} -> 0
         [] f.type = "bool" -> FALSE
         [] OTHER -> Undefined

Names(fields) == {fields[i].name : i \in DOMAIN fields}
FieldOf(fields, name) ==
  fields[CHOOSE i \in DOMAIN fields : fields[i].name = name]

\* createBase: every field at its default.
Base(fields) == [name \in Names(fields) |-> Default(FieldOf(fields, name))]

----------------------------------------------------------------------------
\* encode: the values of a field that are written, all of a list's or the one
\* that is not the default.
Given(f, x) == IF f.many THEN x ELSE IF x = Default(f) THEN <<>> ELSE <<x>>

Entry(f, payload) == [tag |-> f.tag, payload |-> payload]

\* Fields in the order of the table, one entry per value.
Written(fields, payloads) ==
  FlattenSeq([i \in DOMAIN fields |->
                [k \in DOMAIN payloads[i] |-> Entry(fields[i], payloads[i][k])]])

EncodeWith(Inner(_, _), fields, message) ==
  LET Payloads(f, given) ==
        IF IsMessage(f) THEN [k \in DOMAIN given |-> Inner(f.type, given[k])] ELSE given
  IN  Written(fields, [i \in DOMAIN fields |->
                         Payloads(fields[i], Given(fields[i], message[fields[i].name]))])

Encode1(messages, type, message) ==
  EncodeWith(LAMBDA t, x : x, messages[type], message)
Encode2(messages, type, message) ==
  EncodeWith(LAMBDA t, x : Encode1(messages, t, x), messages[type], message)
Encode3(messages, type, message) ==
  EncodeWith(LAMBDA t, x : Encode2(messages, t, x), messages[type], message)
Encode(messages, type, message) ==
  EncodeWith(LAMBDA t, x : Encode3(messages, t, x), messages[type], message)

----------------------------------------------------------------------------
\* Mutation: rounded into the range in place of the error.
LongToNumberClamped(n) ==
  IF n > MaxSafe THEN MaxSafe ELSE IF n < -MaxSafe THEN -MaxSafe ELSE n

LongToNumber(n) == IF n > MaxSafe \/ n < -MaxSafe THEN Failed ELSE n

\* Mutation: the number is enough, the wire type is not looked at.
ReadsNumber(f, tag) == tag \div 8 = f.tag \div 8

\* The case of field f takes an entry: its number and its wire type match.
Reads(f, tag) == tag \div 8 = f.tag \div 8 /\ tag = f.tag

Readers(fields, tag) == {i \in DOMAIN fields : Reads(fields[i], tag)}
Reader(fields, tag) == fields[CHOOSE i \in Readers(fields, tag) : TRUE]

\* One entry more, its value already read: it replaces the value before or joins
\* the list; an entry no case takes is skipped, a group's end or a zero stops.
Store(fields, acc, entry) ==
  LET f == Reader(fields, entry.tag)
      x == entry.payload
  IN  IF acc.stop THEN acc
      ELSE IF Readers(fields, entry.tag) = {}
      THEN [acc EXCEPT !.stop = entry.tag % 8 = 4 \/ entry.tag = 0]
      ELSE IF x = Failed THEN [message |-> Failed, stop |-> TRUE]
      ELSE [message |-> [acc.message EXCEPT ![f.name] = IF f.many THEN Append(@, x) ELSE x],
            stop |-> FALSE]

Start(fields) == [message |-> Base(fields), stop |-> FALSE]

Stored(fields, wire) ==
  FoldLeft(LAMBDA acc, entry : Store(fields, acc, entry), Start(fields), wire).message

DecodeWith(Inner(_, _), fields, wire) ==
  LET Value(f, payload) ==
        CASE IsMessage(f) -> Inner(f.type, payload)
          [] f.type = "int64" -> LongToNumber(payload)
          [] OTHER -> payload
      Opened(entry) ==
        IF Readers(fields, entry.tag) = {} THEN entry
        ELSE Entry(entry, Value(Reader(fields, entry.tag), entry.payload))
  IN  Stored(fields, [i \in DOMAIN wire |-> Opened(wire[i])])

Decode1(messages, type, wire) ==
  DecodeWith(LAMBDA t, x : x, messages[type], wire)
Decode2(messages, type, wire) ==
  DecodeWith(LAMBDA t, x : Decode1(messages, t, x), messages[type], wire)
Decode3(messages, type, wire) ==
  DecodeWith(LAMBDA t, x : Decode2(messages, t, x), messages[type], wire)
Decode(messages, type, wire) ==
  DecodeWith(LAMBDA t, x : Decode3(messages, t, x), messages[type], wire)

----------------------------------------------------------------------------
\* The calls inside toJSON, fromJSON and fromPartial: one for each submessage.
Inside(Inner(_, _), fields, object) ==
  [n \in DOMAIN object |->
     LET f == FieldOf(fields, n)
         x == object[n]
     IN  IF ~IsMessage(f) \/ x = Undefined THEN x
         ELSE IF f.many THEN [k \in DOMAIN x |-> Inner(f.type, x[k])]
         ELSE Inner(f.type, x)]

\* toJSON: an object with the fields that are not at their default.
Present(fields, message) ==
  {n \in Names(fields) : message[n] # Default(FieldOf(fields, n))}

ToJSONWith(Inner(_, _), fields, message) ==
  Restrict(Inside(Inner, fields, message), Present(fields, message))

ToJSON1(messages, type, message) ==
  ToJSONWith(LAMBDA t, x : x, messages[type], message)
ToJSON2(messages, type, message) ==
  ToJSONWith(LAMBDA t, x : ToJSON1(messages, t, x), messages[type], message)
ToJSON3(messages, type, message) ==
  ToJSONWith(LAMBDA t, x : ToJSON2(messages, t, x), messages[type], message)
ToJSON(messages, type, message) ==
  ToJSONWith(LAMBDA t, x : ToJSON3(messages, t, x), messages[type], message)

\* Mutation: the first name only.
AliasInFirst(f, object) == {k \in {1} : f.aliases[k] \in DOMAIN object}

\* The places of a field's names that the object sets.
AliasIn(f, object) == {k \in DOMAIN f.aliases : f.aliases[k] \in DOMAIN object}

\* fromJSON: the field under the first of its names that is set, or its default.
Picked(fields, object) ==
  [n \in Names(fields) |->
     LET f == FieldOf(fields, n)
     IN  IF AliasIn(f, object) = {} THEN Default(f)
         ELSE object[f.aliases[Min(AliasIn(f, object))]]]

FromJSON1(messages, type, object) ==
  Inside(LAMBDA t, x : x, messages[type], Picked(messages[type], object))
FromJSON2(messages, type, object) ==
  Inside(LAMBDA t, x : FromJSON1(messages, t, x), messages[type],
         Picked(messages[type], object))
FromJSON3(messages, type, object) ==
  Inside(LAMBDA t, x : FromJSON2(messages, t, x), messages[type],
         Picked(messages[type], object))
FromJSON(messages, type, object) ==
  Inside(LAMBDA t, x : FromJSON3(messages, t, x), messages[type],
         Picked(messages[type], object))

\* fromPartial: what the object has, defaults elsewhere.
Filled(fields, object) ==
  [n \in Names(fields) |->
     IF n \notin DOMAIN object \/ object[n] = Undefined THEN Default(FieldOf(fields, n))
     ELSE object[n]]

FromPartial1(messages, type, object) ==
  Inside(LAMBDA t, x : x, messages[type], Filled(messages[type], object))
FromPartial2(messages, type, object) ==
  Inside(LAMBDA t, x : FromPartial1(messages, t, x), messages[type],
         Filled(messages[type], object))
FromPartial3(messages, type, object) ==
  Inside(LAMBDA t, x : FromPartial2(messages, t, x), messages[type],
         Filled(messages[type], object))
FromPartial(messages, type, object) ==
  Inside(LAMBDA t, x : FromPartial3(messages, t, x), messages[type],
         Filled(messages[type], object))

================================================================================
