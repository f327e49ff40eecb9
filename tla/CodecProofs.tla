------------------------------ MODULE CodecProofs ------------------------------
(***************************************************************************)
(* Proofs about the message codec: what one copy of demo.proto writes, as  *)
(* an encoding or as JSON, the other reads back, for a message of any      *)
(* values and lists of any length; and so along the calls MCProtoCodec     *)
(* tries.                                                                  *)
(*                                                                         *)
(* One level, the calls inside taken as given:                             *)
(*   - the entries written for the first n fields are those for the first  *)
(*     n - 1 and one for each value of the last, by counting up the        *)
(*     fields; reading them gives these fields the values read and leaves  *)
(*     the others at their default, or fails if one of the values does;    *)
(*   - an entry that no field reads leaves what is read as it is, so one   *)
(*     may be put in anywhere;                                             *)
(*   - toJSON leaves out the fields at their default, and fromJSON and     *)
(*     fromPartial put the default back.                                   *)
(* Four levels: by counting up the height of a message, which the tables   *)
(* bound (TablesNest).  That the tables of the two copies agree, and that  *)
(* a field's names and number are its own, are assumptions of MCProtoCodec *)
(* which TLC evaluates (CopiesAgree, FieldsDiffer).                        *)
(*                                                                         *)
(* Undefined and Failed are model values: neither a scalar nor a function. *)
(***************************************************************************)
EXTENDS OperatorsProofs, MCOperators

--------------------------------------------------------------------------------
(* Sequences put together.                                                     *)

LEMMA SeqOfFunction ==
  ASSUME NEW V, NEW n \in Nat, NEW s \in [1..n -> V]
  PROVE  s \in Seq(V) /\ Len(s) = n
<1>1. s \in Seq(V)
  BY SeqDef
<1>2. Len(s) \in Nat /\ 1..Len(s) = 1..n
  BY <1>1, LenProperties
<1> QED
  BY <1>1, <1>2

IsList(s) == \E V : s \in Seq(V)

\* What FlattenSeq computes part by part.
Flattened(f, parts, m) ==
  f = [i \in 1..m |-> IF i = 1 THEN parts[i] ELSE f[i - 1] \o parts[i]]

LEMMA FlattenedExists ==
  ASSUME NEW n \in Nat, NEW parts
  PROVE  \E f : Flattened(f, parts, n)
<1> DEFINE P == {m \in 0..n : \E f : Flattened(f, parts, m)}
<1>1. 0 \in P
  <2>1. Flattened([i \in 1..0 |-> parts[i]], parts, 0)
    BY DEF Flattened
  <2> QED
    BY <2>1
<1>2. ASSUME NEW m \in 1..n, m - 1 \in P PROVE m \in P
  <2>1. PICK old : Flattened(old, parts, m - 1)
    BY <1>2
  <2> DEFINE last == IF m = 1 THEN parts[m] ELSE old[m - 1] \o parts[m]
             new == [i \in 1..m |-> IF i = m THEN last ELSE old[i]]
  <2>2. ASSUME NEW i \in 1..m
        PROVE  new[i] = IF i = 1 THEN parts[i] ELSE new[i - 1] \o parts[i]
    <3>1. CASE i = m
      <4>1. m # 1 => new[m - 1] = old[m - 1]
        OBVIOUS
      <4> QED
        BY <3>1, <4>1
    <3>2. CASE i # m
      <4>1. i \in 1..(m - 1) /\ new[i] = old[i] /\ (i # 1 => new[i - 1] = old[i - 1])
        BY <3>2
      <4> HIDE DEF new
      <4> QED
        BY <2>1, <4>1 DEF Flattened
    <3> QED
      BY <3>1, <3>2
  <2>3. new = [i \in 1..m |-> new[i]]
    OBVIOUS
  <2> HIDE DEF new
  <2>4. Flattened(new, parts, m)
    BY <2>2, <2>3 DEF Flattened
  <2> QED
    BY <2>4
<1> HIDE DEF P
<1>3. n \in P
  BY <1>1, <1>2, CountingUp
<1> QED
  BY <1>3 DEF P

\* The parts put together so far.
Parts(g, parts, n) ==
  g[0] = <<>> /\ \A i \in 1..n : g[i] = g[i - 1] \o parts[i]

LEMMA FlattenRuns ==
  ASSUME NEW V, NEW n \in Nat, NEW parts \in [1..n -> Seq(V)]
  PROVE  \E g : /\ Parts(g, parts, n)
                /\ \A i \in 0..n : g[i] \in Seq(V)
                /\ FlattenSeq(parts) = g[n]
<1>1. Len(parts) = n
  BY SeqOfFunction
<1> DEFINE f == CHOOSE f : Flattened(f, parts, n)
           g == [i \in 0..n |-> IF i = 0 THEN <<>> ELSE f[i]]
<1>2. Flattened(f, parts, n)
  BY FlattenedExists
<1>3. FlattenSeq(parts) = IF n = 0 THEN parts ELSE f[n]
  BY <1>1 DEF FlattenSeq, Flattened
<1> HIDE DEF f
<1>4. n = 0 => parts = <<>>
  BY <1>1, SeqOfFunction, EmptySeq
<1>5. FlattenSeq(parts) = g[n]
  BY <1>3, <1>4
<1>6. ASSUME NEW i \in 1..n PROVE g[i] = g[i - 1] \o parts[i]
  <2>1. f[i] = IF i = 1 THEN parts[i] ELSE f[i - 1] \o parts[i]
    BY <1>2 DEF Flattened
  <2>2. g[i] = f[i] /\ g[i - 1] = (IF i = 1 THEN <<>> ELSE f[i - 1])
    OBVIOUS
  <2>3. <<>> \o parts[i] = parts[i]
    BY ConcatEmptySeq
  <2> HIDE DEF g
  <2> QED
    BY <2>1, <2>2, <2>3
<1>7. g[0] = <<>>
  OBVIOUS
<1> HIDE DEF g
<1>8. \A i \in 0..n : g[i] \in Seq(V)
  <2> DEFINE P == {i \in 0..n : g[i] \in Seq(V)}
  <2>1. g[0] \in Seq(V)
    BY <1>7, EmptySeq
  <2>2. ASSUME NEW i \in 1..n, g[i - 1] \in Seq(V) PROVE g[i] \in Seq(V)
    <3>1. parts[i] \in Seq(V)
      OBVIOUS
    <3>2. g[i - 1] \o parts[i] \in Seq(V)
      BY <2>2, <3>1, ConcatProperties
    <3> QED
      BY <1>6, <3>2
  <2>3. 0 \in P /\ \A i \in 1..n : i - 1 \in P => i \in P
    BY <2>1, <2>2
  <2> HIDE DEF P
  <2>4. 0..n \subseteq P
    BY <2>3, CountingUp
  <2> QED
    BY <2>4 DEF P
<1> QED
  BY <1>5, <1>6, <1>7, <1>8 DEF Parts

--------------------------------------------------------------------------------
(* One level of a message on the wire: what is stored after each entry.        *)

\* n fields, told apart by their names and by their numbers.
Sound(fields, n) ==
  /\ n \in Nat /\ DOMAIN fields = 1..n
  /\ \A i \in 1..n : fields[i].tag \in Nat \ {0} /\ fields[i].tag % 8 \in {0, 2}
  /\ \A i, j \in 1..n :
       i # j => /\ fields[i].name # fields[j].name
                /\ fields[i].tag \div 8 # fields[j].tag \div 8

LEMMA TheField ==
  ASSUME NEW fields, NEW n, Sound(fields, n), NEW i \in 1..n
  PROVE  /\ FieldOf(fields, fields[i].name) = fields[i]
         /\ Readers(fields, fields[i].tag) = {i}
         /\ Reader(fields, fields[i].tag) = fields[i]
<1>1. FieldOf(fields, fields[i].name) = fields[i]
  <2>1. \A j \in DOMAIN fields : fields[j].name = fields[i].name <=> j = i
    BY DEF Sound
  <2>2. i \in DOMAIN fields
    BY DEF Sound
  <2> QED
    BY <2>1, <2>2 DEF FieldOf
<1>2. Readers(fields, fields[i].tag) = {i}
  BY DEF Readers, Reads, Sound
<1> QED
  BY <1>1, <1>2 DEF Reader

LEMMA TheNames ==
  ASSUME NEW fields, NEW n, Sound(fields, n)
  PROVE  \A name \in Names(fields) :
           \E i \in 1..n : name = fields[i].name /\ FieldOf(fields, name) = fields[i]
<1> SUFFICES ASSUME NEW name \in Names(fields)
             PROVE  \E i \in 1..n : name = fields[i].name /\ FieldOf(fields, name) = fields[i]
  OBVIOUS
<1>1. PICK i \in 1..n : name = fields[i].name
  BY DEF Names, Sound
<1> QED
  BY <1>1, TheField

\* For each of n fields a list of values.
IsLists(lists, n, V) == lists \in [1..n -> Seq(V)]

\* What a field reads from the list of its values.
ReadFrom(f, list) ==
  IF f.many THEN list ELSE IF list = <<>> THEN Default(f) ELSE list[Len(list)]

Place(fields, name) == CHOOSE i \in DOMAIN fields : fields[i].name = name

Fails(lists, n) == \E i \in 1..n : \E k \in DOMAIN lists[i] : lists[i][k] = Failed

\* What is stored after the i-th field has read the values lists[i].
State(fields, n, lists) ==
  IF Fails(lists, n) THEN [message |-> Failed, stop |-> TRUE]
  ELSE [message |-> [name \in Names(fields) |->
                       ReadFrom(FieldOf(fields, name), lists[Place(fields, name)])],
        stop |-> FALSE]

LEMMA ThePlace ==
  ASSUME NEW fields, NEW n, Sound(fields, n), NEW i \in 1..n
  PROVE  Place(fields, fields[i].name) = i
<1>1. \A j \in DOMAIN fields : fields[j].name = fields[i].name <=> j = i
  BY DEF Sound
<1>2. i \in DOMAIN fields
  BY DEF Sound
<1> QED
  BY <1>1, <1>2 DEF Place

LEMMA StateAtStart ==
  ASSUME NEW fields, NEW n, Sound(fields, n)
  PROVE  State(fields, n, [i \in 1..n |-> <<>>]) = Start(fields)
<1> DEFINE lists == [i \in 1..n |-> <<>>]
<1>1. ~Fails(lists, n)
  BY DEF Fails
<1>2. ASSUME NEW name \in Names(fields)
      PROVE  ReadFrom(FieldOf(fields, name), lists[Place(fields, name)])
               = Default(FieldOf(fields, name))
  <2>1. PICK i \in 1..n : name = fields[i].name
    BY TheNames
  <2>2. lists[Place(fields, name)] = <<>>
    BY <2>1, ThePlace
  <2> HIDE DEF lists
  <2> QED
    BY <2>2 DEF ReadFrom, Default
<1> HIDE DEF lists
<1> QED
  BY <1>1, <1>2 DEF State, Start, Base, lists

LEMMA StateAgrees ==
  ASSUME NEW fields, NEW n, Sound(fields, n), NEW l1, NEW l2,
         \A a \in 1..n : l1[a] = l2[a]
  PROVE  State(fields, n, l1) = State(fields, n, l2)
<1>1. Fails(l1, n) <=> Fails(l2, n)
  BY DEF Fails
<1>2. \A name \in Names(fields) : l1[Place(fields, name)] = l2[Place(fields, name)]
  BY TheNames, ThePlace
<1> QED
  BY <1>1, <1>2 DEF State

\* The i-th list has one value more.
Longer(more, lists, n, i, x) ==
  /\ more[i] = Append(lists[i], x)
  /\ \A a \in 1..n : a # i => more[a] = lists[a]

LEMMA StoreOneMore ==
  ASSUME NEW fields, NEW n, Sound(fields, n), NEW V, NEW lists, IsLists(lists, n, V),
         NEW i \in 1..n, NEW x \in V, NEW more, Longer(more, lists, n, i, x)
  PROVE  Store(fields, State(fields, n, lists), Entry(fields[i], x))
           = State(fields, n, more)
<1> DEFINE old == State(fields, n, lists)
           e == Entry(fields[i], x)
<1>1. e.tag = fields[i].tag /\ e.payload = x
  BY DEF Entry
<1> HIDE DEF e
<1>2. /\ Readers(fields, e.tag) = {i}
      /\ Reader(fields, e.tag) = fields[i]
  BY <1>1, TheField
<1>3. /\ \A j \in 1..n : j # i => more[j] = lists[j]
      /\ more[i] = Append(lists[i], x)
      /\ lists[i] \in Seq(V)
  BY DEF Longer, IsLists
<1>4. /\ DOMAIN more[i] = 1..(Len(lists[i]) + 1)
      /\ DOMAIN lists[i] = 1..Len(lists[i])
      /\ Len(more[i]) = Len(lists[i]) + 1 /\ Len(lists[i]) \in Nat
      /\ more[i][Len(lists[i]) + 1] = x
      /\ \A k \in DOMAIN lists[i] : more[i][k] = lists[i][k]
  BY <1>3
<1> SUFFICES Store(fields, old, e) = State(fields, n, more)
  BY DEF e
<1>5. Fails(more, n) <=> Fails(lists, n) \/ x = Failed
  <2>1. (\E k \in DOMAIN more[i] : more[i][k] = Failed)
          <=> (\E k \in DOMAIN lists[i] : lists[i][k] = Failed) \/ x = Failed
    BY <1>4
  <2>2. \A j \in 1..n : j # i => more[j] = lists[j]
    BY <1>3
  <2> QED
    BY <2>1, <2>2 DEF Fails
<1>6. CASE Fails(lists, n)
  BY <1>5, <1>6 DEF State, Store
<1>7. CASE ~Fails(lists, n) /\ x = Failed
  BY <1>1, <1>2, <1>5, <1>7 DEF State, Store
<1>8. CASE ~Fails(lists, n) /\ x # Failed
  <2>1. State(fields, n, more).stop = FALSE /\ old.stop = FALSE
    BY <1>5, <1>8 DEF State
  <2>2. ASSUME NEW name \in Names(fields)
        PROVE  ReadFrom(FieldOf(fields, name), more[Place(fields, name)])
                 = IF name = fields[i].name
                   THEN IF fields[i].many THEN Append(lists[i], x) ELSE x
                   ELSE old.message[name]
    <3>1. PICK j \in 1..n : name = fields[j].name /\ FieldOf(fields, name) = fields[j]
      BY TheNames
    <3>2. Place(fields, name) = j
      BY <3>1, ThePlace
    <3>3. old.message[name] = ReadFrom(fields[j], lists[j])
      BY <1>8, <3>1, <3>2 DEF State
    <3>4. CASE j = i
      <4>1. more[i] # <<>> /\ more[i][Len(more[i])] = x
        BY <1>4
      <4>2. ReadFrom(fields[i], more[i]) = IF fields[i].many THEN Append(lists[i], x) ELSE x
        BY <1>3, <4>1 DEF ReadFrom
      <4> QED
        BY <3>1, <3>2, <3>4, <4>2
    <3>5. CASE j # i
      <4>1. name # fields[i].name
        BY <3>1, <3>5 DEF Sound
      <4> QED
        BY <1>3, <3>1, <3>2, <3>3, <3>5, <4>1
    <3> QED
      BY <3>4, <3>5
  <2>3. fields[i].name \in Names(fields)
    BY DEF Names, Sound
  <2>4. old.message[fields[i].name] = ReadFrom(fields[i], lists[i])
    BY <1>8, <2>3, ThePlace, TheField DEF State
  <2>5. Store(fields, old, e)
          = [message |-> [old.message EXCEPT ![fields[i].name] =
               IF fields[i].many THEN Append(lists[i], x) ELSE x], stop |-> FALSE]
    BY <1>1, <1>2, <1>8, <2>1, <2>4 DEF Store, ReadFrom
  <2>6. old = [message |-> old.message, stop |-> FALSE]
         /\ old.message = [name \in Names(fields) |-> old.message[name]]
    BY <1>8 DEF State
  <2>7. State(fields, n, more)
          = [message |-> [name \in Names(fields) |->
                            ReadFrom(FieldOf(fields, name), more[Place(fields, name)])],
             stop |-> FALSE]
    BY <1>5, <1>8 DEF State
  <2> DEFINE msg == old.message
             name == fields[i].name
             y == IF fields[i].many THEN Append(lists[i], x) ELSE x
  <2>8. [msg EXCEPT ![name] = y]
          = [m \in Names(fields) |->
               ReadFrom(FieldOf(fields, m), more[Place(fields, m)])]
    <3> HIDE DEF old, msg
    <3>1. msg = [m \in Names(fields) |-> msg[m]]
      BY <2>6 DEF msg
    <3>2. \A m \in Names(fields) :
            ReadFrom(FieldOf(fields, m), more[Place(fields, m)])
              = IF m = name THEN y ELSE msg[m]
      BY <2>2 DEF msg
    <3> HIDE DEF name, y
    <3> QED
      BY <3>1, <3>2
  <2> QED
    BY <2>5, <2>7, <2>8
<1> QED
  BY <1>6, <1>7, <1>8

--------------------------------------------------------------------------------
(* One level of a message on the wire: all entries.                            *)

LEMMA StoredRuns ==
  ASSUME NEW len \in Nat, NEW fields, NEW wire, DOMAIN wire = 1..len
  PROVE  \E run : /\ Run(run, "entries", fields, wire, len)
                  /\ Stored(fields, wire) = run[len].message
<1> DEFINE Folds(it) == it = [s \in SUBSET (1..len) |->
                                IF s = {} THEN Start(fields)
                                ELSE Store(fields, it[s \ {Max(s)}], wire[Max(s)])]
           it == CHOOSE it : Folds(it)
<1>1. Stored(fields, wire) = it[1..len].message
  BY DEF Stored, FoldLeft, MapThenFoldSet
<1>2. \A f : Folded(f, "entries", fields, wire, len) <=> Folds(f)
  BY DEF Folded, Take, Begun
<1> HIDE DEF Folds
<1>3. Folded(it, "entries", fields, wire, len)
  BY <1>2, FoldedExists
<1> HIDE DEF it
<1>4. \E run : Run(run, "entries", fields, wire, len) /\ it[1..len] = run[len]
  BY <1>3, FoldedRuns
<1> QED
  BY <1>1, <1>4

Beginning(s, j) == [k \in 1..j |-> s[k]]

LEMMA Beginnings ==
  ASSUME NEW V, NEW s \in Seq(V)
  PROVE  /\ Beginning(s, 0) = <<>> /\ Beginning(s, Len(s)) = s
         /\ \A j \in 0..Len(s) : Beginning(s, j) \in Seq(V)
         /\ \A j \in 1..Len(s) : Beginning(s, j) = Append(Beginning(s, j - 1), s[j])
<1>1. Len(s) \in Nat /\ s \in [1..Len(s) -> V]
  BY LenProperties
<1>2. ASSUME NEW j \in 0..Len(s)
      PROVE  Beginning(s, j) \in Seq(V) /\ Len(Beginning(s, j)) = j
  <2>1. j \in Nat /\ Beginning(s, j) \in [1..j -> V]
    BY <1>1 DEF Beginning
  <2> QED
    BY <2>1, SeqOfFunction
<1>3. Beginning(s, 0) = <<>>
  BY <1>1, <1>2, EmptySeq
<1>4. Beginning(s, Len(s)) = s
  BY <1>1 DEF Beginning
<1>5. ASSUME NEW j \in 1..Len(s)
      PROVE  Beginning(s, j) = Append(Beginning(s, j - 1), s[j])
  <2> DEFINE b == Beginning(s, j - 1)
             t == Append(b, s[j])
  <2>1. b \in Seq(V) /\ Len(b) = j - 1 /\ s[j] \in V
    BY <1>1, <1>2
  <2>2. \A k \in 1..(j - 1) : b[k] = s[k]
    BY DEF Beginning
  <2> HIDE DEF b
  <2>3. t \in Seq(V) /\ Len(t) = j /\ \A k \in 1..j : t[k] = s[k]
    BY <1>1, <2>1, <2>2
  <2>4. t = [k \in 1..j |-> t[k]]
    BY <2>3, LenProperties
  <2> HIDE DEF t
  <2> QED
    BY <2>3, <2>4 DEF Beginning, t, b
<1> QED
  BY <1>2, <1>3, <1>4, <1>5

\* A wire whose entries hold the values read, in place of the payloads they are
\* read from, up to some place.
Reading(fields, n, wire, raw, payloads, values, upto) ==
  \A p \in 1..upto : \A i \in 1..n : \A k \in DOMAIN payloads[i] :
    raw[p] = Entry(fields[i], payloads[i][k]) => wire[p] = Entry(fields[i], values[i][k])

\* The values of the fields before the i-th, and j of its own.
ListsTo(o, n, i, j) ==
  [a \in 1..n |-> IF a < i THEN o[a] ELSE IF a = i THEN Beginning(o[a], j) ELSE <<>>]

LEMMA OneValueMore ==
  ASSUME NEW fields, NEW n, Sound(fields, n), NEW V, NEW o, IsLists(o, n, V),
         NEW i \in 1..n, NEW j \in 1..Len(o[i])
  PROVE  Store(fields, State(fields, n, ListsTo(o, n, i, j - 1)), Entry(fields[i], o[i][j]))
           = State(fields, n, ListsTo(o, n, i, j))
<1> DEFINE was == ListsTo(o, n, i, j - 1)
           now == ListsTo(o, n, i, j)
<1>1. n \in Nat /\ o[i] \in Seq(V) /\ Len(o[i]) \in Nat
  BY LenProperties DEF Sound, IsLists
<1>2. IsLists(was, n, V)
  <2>1. Beginning(o[i], j - 1) \in Seq(V) /\ <<>> \in Seq(V)
    BY <1>1, Beginnings, EmptySeq
  <2> QED
    BY <2>1 DEF ListsTo, IsLists
<1>3. Beginning(o[i], j) = Append(Beginning(o[i], j - 1), o[i][j])
  BY <1>1, Beginnings
<1>4. Longer(now, was, n, i, o[i][j])
  <2>1. now[i] = Beginning(o[i], j) /\ was[i] = Beginning(o[i], j - 1)
    BY <1>1 DEF ListsTo
  <2>2. \A a \in 1..n : a # i => now[a] = was[a]
    BY <1>1 DEF ListsTo
  <2> HIDE DEF was, now
  <2> QED
    BY <1>3, <2>1, <2>2 DEF Longer
<1>5. o[i][j] \in V
  BY <1>1, ElementOfSeq
<1> HIDE DEF was, now
<1>6. Store(fields, State(fields, n, was), Entry(fields[i], o[i][j])) = State(fields, n, now)
  BY <1>2, <1>4, <1>5, StoreOneMore
<1> QED
  BY <1>6 DEF was, now

\* After the first L entries come those of a field with some payloads.
Follows(raw, L, f, payloads) ==
  \A k \in 1..Len(payloads) : raw[L + k] = Entry(f, payloads[k])

\* L entries are read, those of the fields before the i-th; its own come next.
AtField(fields, n, e, o, i, L, raw, wire, run) ==
  /\ Len(o[i]) = Len(e[i]) /\ L \in Nat /\ Follows(raw, L, fields[i], e[i])
  /\ Run(run, "entries", fields, wire, L + Len(e[i]))
  /\ Reading(fields, n, wire, raw, e, o, L + Len(e[i]))
  /\ run[L] = State(fields, n, ListsTo(o, n, i, 0))

\* The entries of one field more.
LEMMA OneFieldMore ==
  ASSUME NEW fields, NEW n, Sound(fields, n), NEW V,
         NEW e, IsLists(e, n, V), NEW o, IsLists(o, n, V),
         NEW i \in 1..n, NEW L, NEW raw, NEW wire, NEW run,
         AtField(fields, n, e, o, i, L, raw, wire, run)
  PROVE  run[L + Len(e[i])] = State(fields, n, ListsTo(o, n, i, Len(e[i])))
<1> DEFINE len == Len(e[i])
           P == {j \in 0..len : run[L + j] = State(fields, n, ListsTo(o, n, i, j))}
<1> USE DEF AtField
<1>1. L \in Nat /\ len \in Nat /\ DOMAIN e[i] = 1..len
  BY LenProperties DEF IsLists
<1>2. 0 \in P
  BY <1>1
<1>3. ASSUME NEW j \in 1..len, j - 1 \in P PROVE j \in P
  <2>1. L + j \in 1..(L + len) /\ (L + j) - 1 = L + (j - 1)
    BY <1>1
  <2>2. run[L + j] = Store(fields, run[L + (j - 1)], wire[L + j])
    BY <2>1 DEF Run, Take
  <2>3. wire[L + j] = Entry(fields[i], o[i][j])
    <3>2. raw[L + j] = Entry(fields[i], e[i][j])
      BY DEF Follows
    <3> QED
      BY <1>1, <2>1, <3>2 DEF Reading
  <2>4. run[L + (j - 1)] = State(fields, n, ListsTo(o, n, i, j - 1))
    BY <1>3
  <2>5. Store(fields, State(fields, n, ListsTo(o, n, i, j - 1)), Entry(fields[i], o[i][j]))
          = State(fields, n, ListsTo(o, n, i, j))
    <3>1. j \in 1..Len(o[i])
      OBVIOUS
    <3> QED
      BY <3>1, OneValueMore
  <2> QED
    BY <2>2, <2>3, <2>4, <2>5
<1> HIDE DEF P, len
<1>4. 0..len \subseteq P
  BY <1>1, <1>2, <1>3, CountingUp
<1>5. len \in P
  BY <1>1, <1>4
<1> QED
  BY <1>5 DEF P, len

\* The values of the first i fields.
FieldsTo(o, n, i) == [a \in 1..n |-> IF a <= i THEN o[a] ELSE <<>>]

LEMMA ListsToEnds ==
  ASSUME NEW fields, NEW n, Sound(fields, n), NEW V, NEW o, IsLists(o, n, V), NEW i \in 1..n
  PROVE  /\ State(fields, n, FieldsTo(o, n, i - 1)) = State(fields, n, ListsTo(o, n, i, 0))
         /\ State(fields, n, FieldsTo(o, n, i)) = State(fields, n, ListsTo(o, n, i, Len(o[i])))
<1>1. n \in Nat /\ o[i] \in Seq(V)
  BY DEF Sound, IsLists
<1>2. Beginning(o[i], 0) = <<>> /\ Beginning(o[i], Len(o[i])) = o[i]
  BY <1>1, Beginnings
<1>3. \A a \in 1..n : FieldsTo(o, n, i - 1)[a] = ListsTo(o, n, i, 0)[a]
  BY <1>1, <1>2 DEF ListsTo, FieldsTo
<1>4. \A a \in 1..n : FieldsTo(o, n, i)[a] = ListsTo(o, n, i, Len(o[i]))[a]
  BY <1>1, <1>2 DEF ListsTo, FieldsTo
<1>5. State(fields, n, FieldsTo(o, n, i - 1)) = State(fields, n, ListsTo(o, n, i, 0))
  BY <1>3, StateAgrees
<1>6. State(fields, n, FieldsTo(o, n, i)) = State(fields, n, ListsTo(o, n, i, Len(o[i])))
  BY <1>4, StateAgrees
<1> QED
  BY <1>5, <1>6

\* What the fields have stored when the wire holds their values, all of the
\* fields in their order.
LEMMA ReadBack ==
  ASSUME NEW fields, NEW n, Sound(fields, n), NEW V,
         NEW e, IsLists(e, n, V), NEW o, IsLists(o, n, V), \A i \in 1..n : Len(o[i]) = Len(e[i]),
         NEW wire, DOMAIN wire = DOMAIN Written(fields, e),
         Reading(fields, n, wire, Written(fields, e), e, o, Len(Written(fields, e)))
  PROVE  /\ IsList(Written(fields, e))
         /\ DOMAIN wire = 1..Len(Written(fields, e))
         /\ Stored(fields, wire) = State(fields, n, o).message
<1> DEFINE E == {Entry(fields[i], x) : i \in 1..n, x \in V}
           parts == [i \in 1..n |-> [k \in DOMAIN e[i] |-> Entry(fields[i], e[i][k])]]
<1>1. n \in Nat /\ DOMAIN fields = 1..n
  BY DEF Sound
<1>2. ASSUME NEW i \in 1..n
      PROVE  /\ Len(e[i]) \in Nat /\ DOMAIN e[i] = 1..Len(e[i])
             /\ parts[i] \in Seq(E) /\ Len(parts[i]) = Len(e[i])
             /\ \A k \in 1..Len(e[i]) : parts[i][k] = Entry(fields[i], e[i][k])
  <2>1. e[i] \in Seq(V)
    BY DEF IsLists
  <2>2. Len(e[i]) \in Nat /\ DOMAIN e[i] = 1..Len(e[i]) /\ \A k \in 1..Len(e[i]) : e[i][k] \in V
    BY <2>1, LenProperties
  <2>3. parts[i] \in [1..Len(e[i]) -> E]
    BY <2>2
  <2> HIDE DEF E
  <2>4. parts[i] \in Seq(E) /\ Len(parts[i]) = Len(e[i])
    BY <2>2, <2>3, SeqOfFunction
  <2> QED
    BY <2>2, <2>4
<1>3. Written(fields, e) = FlattenSeq(parts)
  BY <1>1 DEF Written
<1>4. parts \in [1..n -> Seq(E)]
  <2>1. parts = [i \in 1..n |-> parts[i]]
    OBVIOUS
  <2> HIDE DEF parts, E
  <2> QED
    BY <1>2, <2>1
<1> HIDE DEF parts, E
<1>5. PICK g : /\ Parts(g, parts, n) /\ \A i \in 0..n : g[i] \in Seq(E)
               /\ FlattenSeq(parts) = g[n]
  BY <1>1, <1>4, FlattenRuns
<1>6. /\ g[n] \in Seq(E) /\ Len(g[n]) \in Nat /\ DOMAIN g[n] = 1..Len(g[n])
      /\ Written(fields, e) = g[n]
  BY <1>1, <1>3, <1>5, LenProperties
<1>7. DOMAIN wire = 1..Len(g[n])
  BY <1>6
<1>8. PICK run : /\ Run(run, "entries", fields, wire, Len(g[n]))
                 /\ Stored(fields, wire) = run[Len(g[n])].message
  BY <1>6, <1>7, StoredRuns
<1> DEFINE Upto(i) == State(fields, n, FieldsTo(o, n, i))
           IsRead(i) == /\ Run(run, "entries", fields, wire, Len(g[i]))
                       /\ Reading(fields, n, wire, g[i], e, o, Len(g[i]))
           P == {i \in 0..n : IsRead(i) => run[Len(g[i])] = Upto(i)}
<1>9. 0 \in P
  <2> SUFFICES ASSUME IsRead(0) PROVE run[Len(g[0])] = Upto(0)
    BY <1>1
  <2>1. Len(g[0]) = 0
    BY <1>5 DEF Parts
  <2>2. run[0] = Start(fields)
    BY DEF Run, Begun
  <2>3. Upto(0) = State(fields, n, [a \in 1..n |-> <<>>])
    <3>1. \A a \in 1..n : FieldsTo(o, n, 0)[a] = [b \in 1..n |-> <<>>][a]
      BY <1>1 DEF FieldsTo
    <3> QED
      BY <3>1, StateAgrees
  <2> QED
    BY <2>1, <2>2, <2>3, StateAtStart
<1>10. ASSUME NEW i \in 1..n, i - 1 \in P PROVE i \in P
  <2> SUFFICES ASSUME IsRead(i) PROVE run[Len(g[i])] = Upto(i)
    BY <1>1
  <2> DEFINE L == Len(g[i - 1])
             len == Len(e[i])
  <2>0. i - 1 \in 0..n
    BY <1>1
  <2>1. /\ g[i - 1] \in Seq(E) /\ g[i] = g[i - 1] \o parts[i]
        /\ L \in Nat /\ len \in Nat /\ parts[i] \in Seq(E) /\ Len(parts[i]) = len
    <3>1. g[i - 1] \in Seq(E)
      BY <1>5, <2>0
    <3>2. L \in Nat
      BY <3>1, LenProperties
    <3>3. g[i] = g[i - 1] \o parts[i]
      BY <1>5 DEF Parts
    <3> QED
      BY <1>2, <3>1, <3>2, <3>3
  <2> HIDE DEF L, len
  <2>2. /\ Len(g[i]) = L + len /\ \A p \in 1..L : g[i][p] = g[i - 1][p]
        /\ Follows(g[i], L, fields[i], e[i])
    <3> DEFINE s == g[i - 1]
               t == parts[i]
    <3>1. s \in Seq(E) /\ t \in Seq(E) /\ g[i] = s \o t /\ Len(s) = L /\ Len(t) = len
      BY <2>1 DEF L
    <3> HIDE DEF s, t
    <3>2. /\ Len(s \o t) = Len(s) + Len(t)
          /\ \A p \in 1..(Len(s) + Len(t)) : (s \o t)[p] = IF p <= Len(s) THEN s[p] ELSE t[p - Len(s)]
      BY <3>1, ConcatProperties
    <3>3. /\ \A p \in 1..L : p \in 1..(L + len) /\ p <= L
          /\ \A k \in 1..len : L + k \in 1..(L + len) /\ ~(L + k <= L) /\ (L + k) - L = k
      BY <2>1
    <3>4. Len(g[i]) = L + len /\ \A p \in 1..L : g[i][p] = s[p]
      BY <3>1, <3>2, <3>3
    <3>5. \A k \in 1..len : g[i][L + k] = t[k]
      BY <3>1, <3>2, <3>3
    <3>6. \A k \in 1..len : g[i][L + k] = Entry(fields[i], e[i][k])
      BY <1>2, <3>5 DEF t, len
    <3> QED
      BY <3>4, <3>6 DEF s, Follows, len
  <2>3. /\ Run(run, "entries", fields, wire, L + len)
        /\ Reading(fields, n, wire, g[i], e, o, L + len)
    BY <2>2
  <2>4. IsRead(i - 1)
    <3>1. Run(run, "entries", fields, wire, L)
      BY <2>1, <2>3 DEF Run
    <3>2. Reading(fields, n, wire, g[i - 1], e, o, L)
      <4>1. \A p \in 1..L : p \in 1..(L + len)
        BY <2>1
      <4> QED
        BY <2>2, <2>3, <4>1 DEF Reading
    <3> QED
      BY <3>1, <3>2 DEF L
  <2>5. run[L] = Upto(i - 1)
    BY <1>10, <2>0, <2>4 DEF L
  <2>6. Upto(i - 1) = State(fields, n, ListsTo(o, n, i, 0))
    BY <1>1, ListsToEnds
  <2>7. Upto(i) = State(fields, n, ListsTo(o, n, i, len))
    BY <1>1, ListsToEnds DEF len
  <2> HIDE DEF IsRead, Upto
  <2>8. run[L + len] = State(fields, n, ListsTo(o, n, i, len))
    <3>1. L \in Nat /\ Len(o[i]) = len /\ len = Len(e[i])
      BY <2>1 DEF len
    <3>2. run[L] = State(fields, n, ListsTo(o, n, i, 0))
      BY <2>5, <2>6
    <3>3. /\ Run(run, "entries", fields, wire, L + Len(e[i]))
          /\ Reading(fields, n, wire, g[i], e, o, L + Len(e[i]))
          /\ Len(o[i]) = Len(e[i])
      BY <2>3, <3>1
    <3>4. run[L + Len(e[i])] = State(fields, n, ListsTo(o, n, i, Len(e[i])))
      <4>1. AtField(fields, n, e, o, i, L, g[i], wire, run)
        BY <2>2, <3>1, <3>2, <3>3 DEF AtField
      <4> QED
        BY <4>1, OneFieldMore
    <3> QED
      BY <3>1, <3>4
  <2> QED
    BY <2>2, <2>7, <2>8
<1>11. n \in P
  <2> HIDE DEF P
  <2>1. 0..n \subseteq P
    BY <1>1, <1>9, <1>10, CountingUp
  <2> QED
    BY <1>1, <2>1
<1>12. IsRead(n)
  BY <1>6, <1>8
<1>13. Upto(n) = State(fields, n, o)
  <2>1. \A a \in 1..n : FieldsTo(o, n, n)[a] = o[a]
    BY <1>1 DEF FieldsTo
  <2> QED
    BY <2>1, StateAgrees
<1> HIDE DEF IsRead, Upto
<1>14. run[Len(g[n])] = State(fields, n, o)
  BY <1>11, <1>12, <1>13
<1>15. IsList(g[n])
  BY <1>6 DEF IsList
<1> QED
  BY <1>6, <1>7, <1>8, <1>14, <1>15

--------------------------------------------------------------------------------
(* One level of a message on the wire: an entry that no field reads.           *)

IsStored(acc) ==
  /\ acc = [message |-> acc.message, stop |-> acc.stop]
  /\ acc.stop \in BOOLEAN

LEMMA StoreKeeps ==
  ASSUME NEW fields, NEW acc, IsStored(acc), NEW entry
  PROVE  IsStored(Store(fields, acc, entry))
<1> DEFINE halts == entry.tag % 8 = 4 \/ entry.tag = 0
           f == Reader(fields, entry.tag)
           x == entry.payload
<1>1. [acc EXCEPT !.stop = halts] = [message |-> acc.message, stop |-> halts]
  BY DEF IsStored
<1>2. CASE acc.stop
  BY <1>2 DEF Store
<1>3. CASE ~acc.stop /\ Readers(fields, entry.tag) = {}
  BY <1>1, <1>3 DEF Store, IsStored
<1>4. CASE ~acc.stop /\ Readers(fields, entry.tag) # {} /\ entry.payload = Failed
  BY <1>4 DEF Store, IsStored
<1>5. CASE ~acc.stop /\ Readers(fields, entry.tag) # {} /\ entry.payload # Failed
  <2>1. Store(fields, acc, entry)
          = [message |-> [acc.message EXCEPT ![f.name] = IF f.many THEN Append(@, x) ELSE x],
             stop |-> FALSE]
    BY <1>5 DEF Store
  <2> HIDE DEF f, x
  <2> QED
    BY <2>1 DEF IsStored
<1> QED
  BY <1>2, <1>3, <1>4, <1>5

\* An entry that no field reads and that does not end the message.
Skipped(fields, entry) ==
  Readers(fields, entry.tag) = {} /\ entry.tag % 8 # 4 /\ entry.tag # 0

LEMMA StoreSkips ==
  ASSUME NEW fields, NEW acc, IsStored(acc), NEW entry, Skipped(fields, entry)
  PROVE  Store(fields, acc, entry) = acc
<1>1. CASE acc.stop
  BY <1>1 DEF Store
<1>2. CASE ~acc.stop
  <2>1. Store(fields, acc, entry) = [acc EXCEPT !.stop = FALSE]
    BY <1>2 DEF Store, Skipped
  <2>2. acc = [message |-> acc.message, stop |-> FALSE]
    BY <1>2 DEF IsStored
  <2> QED
    BY <2>1, <2>2
<1> QED
  BY <1>1, <1>2

\* The wire with one entry more, at place p.
Inserted(more, wire, len, p, entry) ==
  /\ DOMAIN more = 1..(len + 1)
  /\ \A j \in 1..(len + 1) :
       more[j] = IF j < p THEN wire[j] ELSE IF j = p THEN entry ELSE wire[j - 1]

LEMMA SkippedIsNothing ==
  ASSUME NEW fields, NEW len \in Nat, NEW wire, DOMAIN wire = 1..len,
         NEW p \in 1..(len + 1), NEW entry, Skipped(fields, entry),
         NEW more, Inserted(more, wire, len, p, entry)
  PROVE  Stored(fields, more) = Stored(fields, wire)
<1>1. PICK run : /\ Run(run, "entries", fields, wire, len)
                 /\ Stored(fields, wire) = run[len].message
  BY StoredRuns
<1>2. len + 1 \in Nat /\ DOMAIN more = 1..(len + 1)
  BY DEF Inserted
<1>3. PICK other : /\ Run(other, "entries", fields, more, len + 1)
                   /\ Stored(fields, more) = other[len + 1].message
  BY <1>2, StoredRuns
<1>4. \A i \in 1..len : run[i] = Store(fields, run[i - 1], wire[i])
  BY <1>1 DEF Run, Take
<1>5. \A i \in 1..(len + 1) : other[i] = Store(fields, other[i - 1], more[i])
  BY <1>3 DEF Run, Take
<1>6. run[0] = Start(fields) /\ other[0] = Start(fields)
  BY <1>1, <1>3 DEF Run, Begun
<1>7. \A i \in 0..len : IsStored(run[i])
  <2> DEFINE P == {i \in 0..len : IsStored(run[i])}
  <2>1. 0 \in P
    <3>1. IsStored(Start(fields))
      BY DEF Start, IsStored
    <3> QED
      BY <1>6, <3>1
  <2>2. ASSUME NEW i \in 1..len, i - 1 \in P PROVE i \in P
    BY <1>4, <2>2, StoreKeeps
  <2> HIDE DEF P
  <2>3. 0..len \subseteq P
    BY <2>1, <2>2, CountingUp
  <2> QED
    BY <2>3 DEF P
<1> DEFINE P == {i \in 0..(len + 1) : other[i] = run[IF i < p THEN i ELSE i - 1]}
<1>8. 0 \in P
  BY <1>6
<1>9. ASSUME NEW i \in 1..(len + 1), i - 1 \in P PROVE i \in P
  <2>1. other[i] = Store(fields, other[i - 1], more[i])
    BY <1>5
  <2>2. CASE i < p
    <3>1. i \in 1..len /\ i - 1 < p /\ more[i] = wire[i] /\ other[i - 1] = run[i - 1]
      BY <1>9, <2>2 DEF Inserted
    <3> QED
      BY <1>4, <2>1, <2>2, <3>1
  <2>3. CASE i = p
    <3>1. i - 1 \in 0..len /\ i - 1 < p /\ more[i] = entry /\ other[i - 1] = run[i - 1]
      BY <1>9, <2>3 DEF Inserted
    <3>2. Store(fields, run[i - 1], entry) = run[i - 1]
      BY <1>7, <3>1, StoreSkips
    <3> QED
      BY <2>1, <2>3, <3>1, <3>2
  <2>4. CASE i > p
    <3>1. /\ i - 1 \in 1..len /\ ~(i - 1 < p) /\ ~(i < p) /\ more[i] = wire[i - 1]
          /\ other[i - 1] = run[(i - 1) - 1]
      BY <1>9, <2>4 DEF Inserted
    <3>2. run[i - 1] = Store(fields, run[(i - 1) - 1], wire[i - 1])
      BY <1>4, <3>1
    <3> QED
      BY <2>1, <3>1, <3>2
  <2> QED
    BY <2>2, <2>3, <2>4
<1>10. len + 1 \in P
  <2> HIDE DEF P
  <2>1. 0..(len + 1) \subseteq P
    BY <1>2, <1>8, <1>9, CountingUp
  <2> QED
    BY <1>2, <2>1
<1>11. other[len + 1] = run[len]
  BY <1>10
<1> QED
  BY <1>1, <1>3, <1>11

--------------------------------------------------------------------------------
(* One level of a message on the wire: from a message to a message.            *)

LEMMA ListParts ==
  ASSUME NEW s, IsList(s)
  PROVE  Len(s) \in Nat /\ DOMAIN s = 1..Len(s) /\ s = [k \in 1..Len(s) |-> s[k]]
  BY LenProperties DEF IsList

LEMMA ListOfFunction ==
  ASSUME NEW len \in Nat, NEW s, DOMAIN s = 1..len, s = [k \in 1..len |-> s[k]]
  PROVE  IsList(s) /\ Len(s) = len
<1> DEFINE V == {s[k] : k \in 1..len}
<1>1. s \in [1..len -> V]
  OBVIOUS
<1> HIDE DEF V
<1> QED
  BY <1>1, SeqOfFunction DEF IsList

Elements(s) == {s[k] : k \in DOMAIN s}

LEMMA ListOfElements ==
  ASSUME NEW s, IsList(s), NEW V, Elements(s) \subseteq V
  PROVE  s \in Seq(V)
<1>1. Len(s) \in Nat /\ DOMAIN s = 1..Len(s) /\ s = [k \in 1..Len(s) |-> s[k]]
  BY ListParts
<1>2. \A k \in 1..Len(s) : s[k] \in V
  BY <1>1 DEF Elements
<1>3. s \in [1..Len(s) -> V]
  BY <1>1, <1>2
<1> QED
  BY <1>1, <1>3, SeqOfFunction

\* n lists.
AreLists(lists, n) ==
  lists = [i \in 1..n |-> lists[i]] /\ \A i \in 1..n : IsList(lists[i])

LEMMA ListsTogether ==
  ASSUME NEW n \in Nat, NEW e, AreLists(e, n), NEW o, AreLists(o, n)
  PROVE  \E V : IsLists(e, n, V) /\ IsLists(o, n, V)
<1> DEFINE V == UNION ({Elements(e[i]) : i \in 1..n} \cup {Elements(o[i]) : i \in 1..n})
<1>1. \A i \in 1..n : Elements(e[i]) \subseteq V /\ Elements(o[i]) \subseteq V
  OBVIOUS
<1> HIDE DEF V
<1>2. \A i \in 1..n : e[i] \in Seq(V) /\ o[i] \in Seq(V)
  BY <1>1, ListOfElements DEF AreLists
<1>3. e \in [1..n -> Seq(V)]
  BY <1>2 DEF AreLists
<1>4. o \in [1..n -> Seq(V)]
  BY <1>2 DEF AreLists
<1> QED
  BY <1>3, <1>4 DEF IsLists

\* A message has a value for each field, a list if the field is one.
Shaped(fields, n, m) ==
  /\ m = [name \in Names(fields) |-> m[name]]
  /\ \A i \in 1..n : fields[i].many => IsList(m[fields[i].name])

\* The values of the i-th field that are written.
GivenBy(fields, m, i) == Given(fields[i], m[fields[i].name])

LEMMA GivenIsList ==
  ASSUME NEW fields, NEW n, NEW m, Shaped(fields, n, m), NEW i \in 1..n
  PROVE  /\ IsList(GivenBy(fields, m, i))
         /\ ReadFrom(fields[i], GivenBy(fields, m, i)) = m[fields[i].name]
<1> DEFINE x == m[fields[i].name]
<1>1. CASE fields[i].many
  BY <1>1 DEF GivenBy, Given, ReadFrom, Shaped
<1>2. CASE ~fields[i].many /\ x = Default(fields[i])
  <2>1. GivenBy(fields, m, i) = <<>>
    BY <1>2 DEF GivenBy, Given
  <2>2. <<>> \in Seq({})
    BY EmptySeq
  <2> QED
    BY <1>2, <2>1, <2>2 DEF IsList, ReadFrom
<1>3. CASE ~fields[i].many /\ x # Default(fields[i])
  <2>1. GivenBy(fields, m, i) = <<x>>
    BY <1>3 DEF GivenBy, Given
  <2> HIDE DEF x
  <2>2. <<x>> \in Seq({x}) /\ Len(<<x>>) = 1 /\ <<x>> # <<>> /\ <<x>>[1] = x
    OBVIOUS
  <2> QED
    BY <1>3, <2>1, <2>2 DEF IsList, ReadFrom, x
<1> QED
  BY <1>1, <1>2, <1>3

\* The fields of a message read either what was given to them or Failed.
LEMMA StateOfMessage ==
  ASSUME NEW fields, NEW n, Sound(fields, n), NEW m, Shaped(fields, n, m),
         NEW o, \A i \in 1..n : IsList(o[i]) /\ Len(o[i]) = Len(GivenBy(fields, m, i)),
         \A i \in 1..n : \A k \in DOMAIN o[i] : o[i][k] \in {GivenBy(fields, m, i)[k], Failed}
  PROVE  State(fields, n, o).message = IF Fails(o, n) THEN Failed ELSE m
<1>1. CASE Fails(o, n)
  BY <1>1 DEF State
<1>2. CASE ~Fails(o, n)
  <2>1. ASSUME NEW i \in 1..n PROVE o[i] = GivenBy(fields, m, i)
    <3> DEFINE g == GivenBy(fields, m, i)
    <3>1. /\ Len(o[i]) \in Nat /\ DOMAIN o[i] = 1..Len(o[i])
          /\ o[i] = [k \in 1..Len(o[i]) |-> o[i][k]]
      BY ListParts
    <3>2. g = [k \in 1..Len(g) |-> g[k]] /\ Len(g) = Len(o[i])
      BY GivenIsList, ListParts
    <3>3. \A k \in 1..Len(o[i]) : o[i][k] = g[k]
      BY <1>2, <3>1 DEF Fails
    <3> HIDE DEF g
    <3> QED
      BY <3>1, <3>2, <3>3 DEF g
  <2>2. ASSUME NEW name \in Names(fields)
        PROVE  ReadFrom(FieldOf(fields, name), o[Place(fields, name)]) = m[name]
    <3>1. PICK i \in 1..n : name = fields[i].name /\ FieldOf(fields, name) = fields[i]
      BY TheNames
    <3>2. Place(fields, name) = i
      BY <3>1, ThePlace
    <3> QED
      BY <2>1, <3>1, <3>2, GivenIsList
  <2>3. State(fields, n, o).message
          = [name \in Names(fields) |->
               ReadFrom(FieldOf(fields, name), o[Place(fields, name)])]
    BY <1>2 DEF State
  <2>4. m = [name \in Names(fields) |-> m[name]]
    BY DEF Shaped
  <2> QED
    BY <1>2, <2>2, <2>3, <2>4
<1> QED
  BY <1>1, <1>2

--------------------------------------------------------------------------------
(* The calls on messages of height h; of height 0 there are none.              *)

EncodeAt(h, messages, type, m) ==
  CASE h = 1 -> Encode1(messages, type, m)
    [] h = 2 -> Encode2(messages, type, m)
    [] h = 3 -> Encode3(messages, type, m)
    [] h = 4 -> Encode(messages, type, m)
    [] OTHER -> m

DecodeAt(h, messages, type, wire) ==
  CASE h = 1 -> Decode1(messages, type, wire)
    [] h = 2 -> Decode2(messages, type, wire)
    [] h = 3 -> Decode3(messages, type, wire)
    [] h = 4 -> Decode(messages, type, wire)
    [] OTHER -> wire

SafeAt(h, messages, type, m) ==
  CASE h = 1 -> Safe1(messages, type, m)
    [] h = 2 -> Safe2(messages, type, m)
    [] h = 3 -> Safe3(messages, type, m)
    [] h = 4 -> IsSafe(messages, type, m)
    [] OTHER -> TRUE

PayloadsAt(h, messages, f, given) ==
  IF IsMessage(f) THEN [k \in DOMAIN given |-> EncodeAt(h, messages, f.type, given[k])]
  ELSE given

ValueAt(h, messages, f, payload) ==
  CASE IsMessage(f) -> DecodeAt(h, messages, f.type, payload)
    [] f.type = "int64" -> LongToNumber(payload)
    [] OTHER -> payload

OpenedAt(h, messages, fields, wire) ==
  [p \in DOMAIN wire |->
     IF Readers(fields, wire[p].tag) = {} THEN wire[p]
     ELSE Entry(wire[p], ValueAt(h, messages, Reader(fields, wire[p].tag), wire[p].payload))]

\* Whether one value of a field is in the range a number holds.
ValueIsSafe(h, messages, f, x) ==
  /\ IsMessage(f) => SafeAt(h, messages, f.type, x)
  /\ f.type = "int64" => LongToNumber(x) # Failed

LEMMA EncodeUnfolds ==
  ASSUME NEW h \in 1..4, NEW messages, NEW type, NEW m
  PROVE  EncodeAt(h, messages, type, m)
           = Written(messages[type],
                     [i \in DOMAIN messages[type] |->
                        PayloadsAt(h - 1, messages, messages[type][i],
                                   GivenBy(messages[type], m, i))])
<1> USE DEF PayloadsAt, EncodeWith, GivenBy
<1>1. CASE h = 1
  <2>1. \A t, x : EncodeAt(h - 1, messages, t, x) = x
    BY <1>1 DEF EncodeAt
  <2>2. EncodeAt(h, messages, type, m) = Encode1(messages, type, m)
    BY <1>1 DEF EncodeAt
  <2> QED
    BY <2>1, <2>2 DEF Encode1
<1>2. CASE h = 2
  <2>1. \A t, x : EncodeAt(h - 1, messages, t, x) = Encode1(messages, t, x)
    BY <1>2 DEF EncodeAt
  <2>2. EncodeAt(h, messages, type, m) = Encode2(messages, type, m)
    BY <1>2 DEF EncodeAt
  <2> QED
    BY <2>1, <2>2 DEF Encode2
<1>3. CASE h = 3
  <2>1. \A t, x : EncodeAt(h - 1, messages, t, x) = Encode2(messages, t, x)
    BY <1>3 DEF EncodeAt
  <2>2. EncodeAt(h, messages, type, m) = Encode3(messages, type, m)
    BY <1>3 DEF EncodeAt
  <2> QED
    BY <2>1, <2>2 DEF Encode3
<1>4. CASE h = 4
  <2>1. \A t, x : EncodeAt(h - 1, messages, t, x) = Encode3(messages, t, x)
    BY <1>4 DEF EncodeAt
  <2>2. EncodeAt(h, messages, type, m) = Encode(messages, type, m)
    BY <1>4 DEF EncodeAt
  <2> QED
    BY <2>1, <2>2 DEF Encode
<1> QED
  BY <1>1, <1>2, <1>3, <1>4

LEMMA DecodeUnfolds ==
  ASSUME NEW h \in 1..4, NEW messages, NEW type, NEW wire
  PROVE  DecodeAt(h, messages, type, wire)
           = Stored(messages[type], OpenedAt(h - 1, messages, messages[type], wire))
<1>1. CASE h = 1
  <2> DEFINE Value(f, x) == CASE IsMessage(f) -> x
                              [] f.type = "int64" -> LongToNumber(x)
                              [] OTHER -> x
             Opened(entry) == IF Readers(messages[type], entry.tag) = {} THEN entry
                              ELSE Entry(entry, Value(Reader(messages[type], entry.tag),
                                                      entry.payload))
  <2>1. \A f, x : ValueAt(h - 1, messages, f, x) = Value(f, x)
    BY <1>1 DEF DecodeAt, ValueAt
  <2>2. DecodeAt(h, messages, type, wire) = Decode1(messages, type, wire)
    BY <1>1 DEF DecodeAt
  <2>3. Decode1(messages, type, wire)
          = Stored(messages[type], [p \in DOMAIN wire |-> Opened(wire[p])])
    BY DEF Decode1, DecodeWith
  <2> HIDE DEF Value
  <2>4. OpenedAt(h - 1, messages, messages[type], wire)
          = [p \in DOMAIN wire |-> Opened(wire[p])]
    BY <2>1 DEF OpenedAt
  <2> QED
    BY <2>2, <2>3, <2>4
<1>2. CASE h = 2
  <2> DEFINE Value(f, x) == CASE IsMessage(f) -> Decode1(messages, f.type, x)
                              [] f.type = "int64" -> LongToNumber(x)
                              [] OTHER -> x
             Opened(entry) == IF Readers(messages[type], entry.tag) = {} THEN entry
                              ELSE Entry(entry, Value(Reader(messages[type], entry.tag),
                                                      entry.payload))
  <2>1. \A f, x : ValueAt(h - 1, messages, f, x) = Value(f, x)
    BY <1>2 DEF DecodeAt, ValueAt
  <2>2. DecodeAt(h, messages, type, wire) = Decode2(messages, type, wire)
    BY <1>2 DEF DecodeAt
  <2>3. Decode2(messages, type, wire)
          = Stored(messages[type], [p \in DOMAIN wire |-> Opened(wire[p])])
    BY DEF Decode2, DecodeWith
  <2> HIDE DEF Value
  <2>4. OpenedAt(h - 1, messages, messages[type], wire)
          = [p \in DOMAIN wire |-> Opened(wire[p])]
    BY <2>1 DEF OpenedAt
  <2> QED
    BY <2>2, <2>3, <2>4
<1>3. CASE h = 3
  <2> DEFINE Value(f, x) == CASE IsMessage(f) -> Decode2(messages, f.type, x)
                              [] f.type = "int64" -> LongToNumber(x)
                              [] OTHER -> x
             Opened(entry) == IF Readers(messages[type], entry.tag) = {} THEN entry
                              ELSE Entry(entry, Value(Reader(messages[type], entry.tag),
                                                      entry.payload))
  <2>1. \A f, x : ValueAt(h - 1, messages, f, x) = Value(f, x)
    BY <1>3 DEF DecodeAt, ValueAt
  <2>2. DecodeAt(h, messages, type, wire) = Decode3(messages, type, wire)
    BY <1>3 DEF DecodeAt
  <2>3. Decode3(messages, type, wire)
          = Stored(messages[type], [p \in DOMAIN wire |-> Opened(wire[p])])
    BY DEF Decode3, DecodeWith
  <2> HIDE DEF Value
  <2>4. OpenedAt(h - 1, messages, messages[type], wire)
          = [p \in DOMAIN wire |-> Opened(wire[p])]
    BY <2>1 DEF OpenedAt
  <2> QED
    BY <2>2, <2>3, <2>4
<1>4. CASE h = 4
  <2> DEFINE Value(f, x) == CASE IsMessage(f) -> Decode3(messages, f.type, x)
                              [] f.type = "int64" -> LongToNumber(x)
                              [] OTHER -> x
             Opened(entry) == IF Readers(messages[type], entry.tag) = {} THEN entry
                              ELSE Entry(entry, Value(Reader(messages[type], entry.tag),
                                                      entry.payload))
  <2>1. \A f, x : ValueAt(h - 1, messages, f, x) = Value(f, x)
    BY <1>4 DEF DecodeAt, ValueAt
  <2>2. DecodeAt(h, messages, type, wire) = Decode(messages, type, wire)
    BY <1>4 DEF DecodeAt
  <2>3. Decode(messages, type, wire)
          = Stored(messages[type], [p \in DOMAIN wire |-> Opened(wire[p])])
    BY DEF Decode, DecodeWith
  <2> HIDE DEF Value
  <2>4. OpenedAt(h - 1, messages, messages[type], wire)
          = [p \in DOMAIN wire |-> Opened(wire[p])]
    BY <2>1 DEF OpenedAt
  <2> QED
    BY <2>2, <2>3, <2>4
<1> QED
  BY <1>1, <1>2, <1>3, <1>4

LEMMA SafeUnfolds ==
  ASSUME NEW h \in 1..4, NEW messages, NEW type, NEW m
  PROVE  SafeAt(h, messages, type, m)
           <=> \A i \in DOMAIN messages[type] :
                 \A k \in DOMAIN GivenBy(messages[type], m, i) :
                   ValueIsSafe(h - 1, messages, messages[type][i],
                               GivenBy(messages[type], m, i)[k])
<1> USE DEF ValueIsSafe, SafeWith, GivenBy
<1>1. CASE h = 1
  <2>1. \A t, x : SafeAt(h - 1, messages, t, x) = TRUE
    BY <1>1 DEF SafeAt
  <2>2. SafeAt(h, messages, type, m) = Safe1(messages, type, m)
    BY <1>1 DEF SafeAt
  <2> QED
    BY <2>1, <2>2 DEF Safe1
<1>2. CASE h = 2
  <2>1. \A t, x : SafeAt(h - 1, messages, t, x) = Safe1(messages, t, x)
    BY <1>2 DEF SafeAt
  <2>2. SafeAt(h, messages, type, m) = Safe2(messages, type, m)
    BY <1>2 DEF SafeAt
  <2> QED
    BY <2>1, <2>2 DEF Safe2
<1>3. CASE h = 3
  <2>1. \A t, x : SafeAt(h - 1, messages, t, x) = Safe2(messages, t, x)
    BY <1>3 DEF SafeAt
  <2>2. SafeAt(h, messages, type, m) = Safe3(messages, type, m)
    BY <1>3 DEF SafeAt
  <2> QED
    BY <2>1, <2>2 DEF Safe3
<1>4. CASE h = 4
  <2>1. \A t, x : SafeAt(h - 1, messages, t, x) = Safe3(messages, t, x)
    BY <1>4 DEF SafeAt
  <2>2. SafeAt(h, messages, type, m) = IsSafe(messages, type, m)
    BY <1>4 DEF SafeAt
  <2> QED
    BY <2>1, <2>2 DEF IsSafe
<1> QED
  BY <1>1, <1>2, <1>3, <1>4

--------------------------------------------------------------------------------
(* The messages of a table.                                                    *)

\* A value of a field, or of its list: a scalar or a message.  Strings are
\* whatever neither stands for an absent message nor for a failure.
Element(Inner(_, _), f, x) ==
  /\ IsMessage(f) => Inner(f.type, x)
  /\ f.type = "string" => x \notin {Undefined, Failed}
  /\ f.type = "bool" => x \in BOOLEAN
  /\ f.type \in {"int32", "int64"} => x \in Int

\* A message has a value for each of its fields, the lists being lists.
FitsWith(Inner(_, _), fields, m) ==
  /\ m = [name \in Names(fields) |-> m[name]]
  /\ \A i \in DOMAIN fields :
       LET x == m[fields[i].name]
       IN  IF fields[i].many
           THEN IsList(x) /\ \A k \in DOMAIN x : Element(Inner, fields[i], x[k])
           ELSE x = Default(fields[i]) \/ Element(Inner, fields[i], x)

Fits1(messages, type, m) ==
  type \in DOMAIN messages /\ FitsWith(LAMBDA t, x : FALSE, messages[type], m)
Fits2(messages, type, m) ==
  type \in DOMAIN messages /\ FitsWith(LAMBDA t, x : Fits1(messages, t, x), messages[type], m)
Fits3(messages, type, m) ==
  type \in DOMAIN messages /\ FitsWith(LAMBDA t, x : Fits2(messages, t, x), messages[type], m)
Fits(messages, type, m) ==
  type \in DOMAIN messages /\ FitsWith(LAMBDA t, x : Fits3(messages, t, x), messages[type], m)

FitsAt(h, messages, type, m) ==
  CASE h = 1 -> Fits1(messages, type, m)
    [] h = 2 -> Fits2(messages, type, m)
    [] h = 3 -> Fits3(messages, type, m)
    [] h = 4 -> Fits(messages, type, m)
    [] OTHER -> FALSE

ElementAt(h, messages, f, x) ==
  /\ IsMessage(f) => FitsAt(h, messages, f.type, x)
  /\ f.type = "string" => x \notin {Undefined, Failed}
  /\ f.type = "bool" => x \in BOOLEAN
  /\ f.type \in {"int32", "int64"} => x \in Int

FieldFits(h, messages, f, x) ==
  IF f.many THEN IsList(x) /\ \A k \in DOMAIN x : ElementAt(h, messages, f, x[k])
  ELSE x = Default(f) \/ ElementAt(h, messages, f, x)

LEMMA FitsUnfolds ==
  ASSUME NEW h \in 1..4, NEW messages, NEW type, NEW m
  PROVE  FitsAt(h, messages, type, m)
           <=> /\ type \in DOMAIN messages
               /\ m = [name \in Names(messages[type]) |-> m[name]]
               /\ \A i \in DOMAIN messages[type] :
                    FieldFits(h - 1, messages, messages[type][i], m[messages[type][i].name])
<1> USE DEF FieldFits, FitsWith, Element
<1>1. CASE h = 1
  <2>1. \A f, x : ElementAt(h - 1, messages, f, x)
                    <=> /\ IsMessage(f) => FALSE
                        /\ f.type = "string" => x \notin {Undefined, Failed}
                        /\ f.type = "bool" => x \in BOOLEAN
                        /\ f.type \in {"int32", "int64"} => x \in Int
    BY <1>1 DEF FitsAt, ElementAt
  <2>2. FitsAt(h, messages, type, m) <=> Fits1(messages, type, m)
    BY <1>1 DEF FitsAt
  <2> QED
    BY <2>1, <2>2 DEF Fits1
<1>2. CASE h = 2
  <2>1. \A f, x : ElementAt(h - 1, messages, f, x)
                    <=> /\ IsMessage(f) => Fits1(messages, f.type, x)
                        /\ f.type = "string" => x \notin {Undefined, Failed}
                        /\ f.type = "bool" => x \in BOOLEAN
                        /\ f.type \in {"int32", "int64"} => x \in Int
    BY <1>2 DEF FitsAt, ElementAt
  <2>2. FitsAt(h, messages, type, m) <=> Fits2(messages, type, m)
    BY <1>2 DEF FitsAt
  <2> QED
    BY <2>1, <2>2 DEF Fits2
<1>3. CASE h = 3
  <2>1. \A f, x : ElementAt(h - 1, messages, f, x)
                    <=> /\ IsMessage(f) => Fits2(messages, f.type, x)
                        /\ f.type = "string" => x \notin {Undefined, Failed}
                        /\ f.type = "bool" => x \in BOOLEAN
                        /\ f.type \in {"int32", "int64"} => x \in Int
    BY <1>3 DEF FitsAt, ElementAt
  <2>2. FitsAt(h, messages, type, m) <=> Fits3(messages, type, m)
    BY <1>3 DEF FitsAt
  <2> QED
    BY <2>1, <2>2 DEF Fits3
<1>4. CASE h = 4
  <2>1. \A f, x : ElementAt(h - 1, messages, f, x)
                    <=> /\ IsMessage(f) => Fits3(messages, f.type, x)
                        /\ f.type = "string" => x \notin {Undefined, Failed}
                        /\ f.type = "bool" => x \in BOOLEAN
                        /\ f.type \in {"int32", "int64"} => x \in Int
    BY <1>4 DEF FitsAt, ElementAt
  <2>2. FitsAt(h, messages, type, m) <=> Fits(messages, type, m)
    BY <1>4 DEF FitsAt
  <2> QED
    BY <2>1, <2>2 DEF Fits
<1> QED
  BY <1>1, <1>2, <1>3, <1>4

\* Neither a scalar nor a message; of the strings, none of those that are tried.
NoValue(a) ==
  a \notin Int \cup BOOLEAN \cup {"", "x"} /\ a # [n \in DOMAIN a |-> a[n]]

LEMMA FitsIsFunction ==
  ASSUME NEW h \in 0..4, NEW messages, NEW type, NEW m, FitsAt(h, messages, type, m)
  PROVE  h \in 1..4 /\ m = [n \in DOMAIN m |-> m[n]]
<1>1. h # 0
  BY DEF FitsAt
<1>2. h \in 1..4
  BY <1>1
<1>3. m = [name \in Names(messages[type]) |-> m[name]]
  BY <1>2, FitsUnfolds
<1> QED
  BY <1>2, <1>3

LEMMA ElementIsValue ==
  ASSUME NEW h \in 0..4, NEW messages, NEW f, NEW x, ElementAt(h, messages, f, x),
         NEW a \in {Undefined, Failed}, NoValue(a)
  PROVE  x # a
<1>1. CASE IsMessage(f)
  <2>1. x = [n \in DOMAIN x |-> x[n]]
    <3>1. FitsAt(h, messages, f.type, x)
      BY <1>1 DEF ElementAt
    <3> QED
      BY <3>1, FitsIsFunction
  <2> QED
    BY <2>1 DEF NoValue
<1>2. CASE f.type = "string"
  BY <1>2 DEF ElementAt
<1>3. CASE f.type = "bool" \/ f.type \in {"int32", "int64"}
  <2>1. x \in Int \cup BOOLEAN
    BY <1>3 DEF ElementAt
  <2> QED
    BY <2>1 DEF NoValue
<1> QED
  BY <1>1, <1>2, <1>3 DEF IsMessage, Scalars

\* What is written of a message are values of its fields.
LEMMA GivenFits ==
  ASSUME NEW h \in 1..4, NEW messages, NEW type, NEW m, FitsAt(h, messages, type, m),
         NEW n, Sound(messages[type], n)
  PROVE  /\ Shaped(messages[type], n, m)
         /\ \A i \in 1..n : \A k \in DOMAIN GivenBy(messages[type], m, i) :
              ElementAt(h - 1, messages, messages[type][i], GivenBy(messages[type], m, i)[k])
<1> DEFINE fields == messages[type]
<1>1. /\ m = [name \in Names(fields) |-> m[name]]
      /\ \A i \in 1..n : FieldFits(h - 1, messages, fields[i], m[fields[i].name])
  BY FitsUnfolds DEF Sound
<1> HIDE DEF fields
<1>2. Shaped(fields, n, m)
  BY <1>1 DEF Shaped, FieldFits
<1>3. ASSUME NEW i \in 1..n, NEW k \in DOMAIN GivenBy(fields, m, i)
      PROVE  ElementAt(h - 1, messages, fields[i], GivenBy(fields, m, i)[k])
  <2> DEFINE x == m[fields[i].name]
  <2>1. FieldFits(h - 1, messages, fields[i], x)
    BY <1>1
  <2>2. CASE fields[i].many
    <3>1. GivenBy(fields, m, i) = x
      BY <2>2 DEF GivenBy, Given
    <3> QED
      BY <2>1, <2>2, <3>1, <1>3 DEF FieldFits
  <2>3. CASE ~fields[i].many
    <3>1. x # Default(fields[i]) /\ GivenBy(fields, m, i) = <<x>>
      <4>1. GivenBy(fields, m, i) = IF x = Default(fields[i]) THEN <<>> ELSE <<x>>
        BY <2>3 DEF GivenBy, Given
      <4>2. DOMAIN <<>> = {}
        OBVIOUS
      <4> QED
        BY <4>1, <4>2
    <3> HIDE DEF x
    <3>2. k = 1 /\ <<x>>[1] = x
      BY <1>3, <3>1
    <3> QED
      BY <2>1, <2>3, <3>1, <3>2 DEF FieldFits
  <2> QED
    BY <2>2, <2>3
<1> QED
  BY <1>2, <1>3 DEF fields

--------------------------------------------------------------------------------
(* From the wire of one copy to the other's message, level by level.           *)

\* The fields of two copies are the same on the wire.
SameFields(S, T) ==
  DOMAIN S = DOMAIN T /\ \A i \in DOMAIN S : SameField(S[i], T[i])

LEMMA SameFieldsWritten ==
  ASSUME NEW S, NEW T, SameFields(S, T)
  PROVE  /\ Names(S) = Names(T)
         /\ \A m : \A i \in DOMAIN S : GivenBy(S, m, i) = GivenBy(T, m, i)
         /\ \A e : Written(S, e) = Written(T, e)
<1>1. Names(S) = Names(T)
  BY DEF SameFields, SameField, Names
<1>2. ASSUME NEW m, NEW i \in DOMAIN S PROVE GivenBy(S, m, i) = GivenBy(T, m, i)
  BY DEF SameFields, SameField, GivenBy, Given, Default
<1>3. ASSUME NEW e PROVE Written(S, e) = Written(T, e)
  <2>1. \A i \in DOMAIN S : \A x : Entry(S[i], x) = Entry(T[i], x)
    BY DEF SameFields, SameField, Entry
  <2>2. [i \in DOMAIN S |-> [k \in DOMAIN e[i] |-> Entry(S[i], e[i][k])]]
          = [i \in DOMAIN T |-> [k \in DOMAIN e[i] |-> Entry(T[i], e[i][k])]]
    BY <2>1 DEF SameFields
  <2> QED
    BY <2>2 DEF Written
<1> QED
  BY <1>1, <1>2, <1>3

Payload(h, A, f, x) == IF IsMessage(f) THEN EncodeAt(h, A, f.type, x) ELSE x

\* Messages of height h come back, or fail for an int64 they cannot hold.
ComeBack(h, A, B) ==
  \A type, m : FitsAt(h, A, type, m) =>
    DecodeAt(h, B, type, EncodeAt(h, A, type, m))
      = IF SafeAt(h, A, type, m) THEN m ELSE Failed

LEMMA ValueComesBack ==
  ASSUME NEW h \in 0..3, NEW A, NEW B, ComeBack(h, A, B), NoValue(Failed),
         NEW f, NEW g, SameField(f, g), NEW x, ElementAt(h, A, f, x)
  PROVE  ValueAt(h, B, g, Payload(h, A, f, x)) = IF ValueIsSafe(h, A, f, x) THEN x ELSE Failed
<1>1. g.type = f.type /\ (IsMessage(g) <=> IsMessage(f))
  BY DEF SameField, IsMessage
<1>2. CASE IsMessage(f)
  <2>1. FitsAt(h, A, f.type, x)
    BY <1>2 DEF ElementAt, IsMessage, Scalars
  <2>2. DecodeAt(h, B, f.type, EncodeAt(h, A, f.type, x))
          = IF SafeAt(h, A, f.type, x) THEN x ELSE Failed
    BY <2>1 DEF ComeBack
  <2>3. ValueAt(h, B, g, Payload(h, A, f, x))
          = DecodeAt(h, B, f.type, EncodeAt(h, A, f.type, x))
    BY <1>1, <1>2 DEF ValueAt, Payload, IsMessage, Scalars
  <2>4. ValueIsSafe(h, A, f, x) <=> SafeAt(h, A, f.type, x)
    BY <1>2 DEF ValueIsSafe, IsMessage, Scalars
  <2> QED
    BY <2>2, <2>3, <2>4
<1>3. CASE ~IsMessage(f) /\ f.type = "int64"
  <2>1. h \in 0..4
    OBVIOUS
  <2>2. x # Failed
    BY <2>1, ElementIsValue
  <2> QED
    BY <1>1, <1>3, <2>2 DEF ValueAt, Payload, ValueIsSafe, LongToNumber
<1>4. CASE ~IsMessage(f) /\ f.type # "int64"
  BY <1>1, <1>4 DEF ValueAt, Payload, ValueIsSafe
<1> QED
  BY <1>2, <1>3, <1>4

LEMMA OpenedReads ==
  ASSUME NEW h, NEW B, NEW T, NEW n, Sound(T, n), NEW raw, NEW e, NEW o, NEW len \in Nat,
         DOMAIN raw = 1..len,
         \A i \in 1..n : \A k \in DOMAIN e[i] : o[i][k] = ValueAt(h, B, T[i], e[i][k])
  PROVE  Reading(T, n, OpenedAt(h, B, T, raw), raw, e, o, len)
<1> SUFFICES ASSUME NEW p \in 1..len, NEW i \in 1..n, NEW k \in DOMAIN e[i],
                    raw[p] = Entry(T[i], e[i][k])
             PROVE  OpenedAt(h, B, T, raw)[p] = Entry(T[i], o[i][k])
  BY DEF Reading
<1>1. raw[p].tag = T[i].tag /\ raw[p].payload = e[i][k]
  BY DEF Entry
<1>2. Readers(T, raw[p].tag) = {i} /\ Reader(T, raw[p].tag) = T[i]
  BY <1>1, TheField
<1>3. OpenedAt(h, B, T, raw)[p] = Entry(raw[p], ValueAt(h, B, T[i], e[i][k]))
  BY <1>1, <1>2 DEF OpenedAt
<1> QED
  BY <1>1, <1>3 DEF Entry

\* The tables of two copies: sound, and the same on the wire.
Copied(A, B) ==
  /\ DOMAIN A = DOMAIN B
  /\ \A type \in DOMAIN A :
       /\ Sound(A[type], Len(A[type])) /\ Sound(B[type], Len(A[type]))
       /\ SameFields(A[type], B[type])

\* What one call makes of the fields, and the other of that.
PayloadsOf(h, A, fields, m, n) == [i \in 1..n |-> PayloadsAt(h, A, fields[i], GivenBy(fields, m, i))]
ValuesOf(h, B, T, e, n) == [i \in 1..n |-> [k \in DOMAIN e[i] |-> ValueAt(h, B, T[i], e[i][k])]]

ListsMade(h, A, B, S, T, n, m) ==
  LET e == PayloadsOf(h, A, S, m, n)
      o == ValuesOf(h, B, T, e, n)
  IN  /\ AreLists(e, n) /\ AreLists(o, n)
      /\ \A i \in 1..n :
           /\ IsList(GivenBy(S, m, i))
           /\ Len(e[i]) = Len(GivenBy(S, m, i)) /\ Len(o[i]) = Len(e[i])
           /\ DOMAIN e[i] = DOMAIN GivenBy(S, m, i) /\ DOMAIN o[i] = DOMAIN e[i]
           /\ \A k \in DOMAIN e[i] :
                /\ e[i][k] = Payload(h, A, S[i], GivenBy(S, m, i)[k])
                /\ o[i][k] = ValueAt(h, B, T[i], e[i][k])

LEMMA PayloadLists ==
  ASSUME NEW h, NEW A, NEW B, NEW S, NEW T, NEW n \in Nat, NEW m,
         Shaped(S, n, m)
  PROVE  ListsMade(h, A, B, S, T, n, m)
<1> DEFINE e == PayloadsOf(h, A, S, m, n)
           o == ValuesOf(h, B, T, e, n)
<1>1. ASSUME NEW i \in 1..n
      PROVE  /\ IsList(GivenBy(S, m, i)) /\ IsList(e[i])
             /\ Len(e[i]) = Len(GivenBy(S, m, i))
             /\ DOMAIN e[i] = DOMAIN GivenBy(S, m, i)
             /\ \A k \in DOMAIN e[i] : e[i][k] = Payload(h, A, S[i], GivenBy(S, m, i)[k])
  <2> DEFINE g == GivenBy(S, m, i)
  <2>1. IsList(g)
    BY GivenIsList
  <2>2. e[i] = PayloadsAt(h, A, S[i], g)
    BY DEF PayloadsOf
  <2> HIDE DEF g, e
  <2>3. Len(g) \in Nat /\ DOMAIN g = 1..Len(g) /\ g = [k \in 1..Len(g) |-> g[k]]
    BY <2>1, ListParts
  <2>4. /\ DOMAIN e[i] = 1..Len(g) /\ e[i] = [k \in 1..Len(g) |-> e[i][k]]
        /\ \A k \in DOMAIN e[i] : e[i][k] = Payload(h, A, S[i], g[k])
    BY <2>2, <2>3 DEF PayloadsAt, Payload
  <2>5. IsList(e[i]) /\ Len(e[i]) = Len(g)
    BY <2>3, <2>4, ListOfFunction
  <2> QED
    BY <2>1, <2>3, <2>4, <2>5 DEF g
<1>2. e = [i \in 1..n |-> e[i]]
  BY DEF PayloadsOf
<1> HIDE DEF e
<1>3. ASSUME NEW i \in 1..n
      PROVE  /\ IsList(o[i]) /\ Len(o[i]) = Len(e[i]) /\ DOMAIN o[i] = DOMAIN e[i]
             /\ \A k \in DOMAIN e[i] : o[i][k] = ValueAt(h, B, T[i], e[i][k])
  <2>1. Len(e[i]) \in Nat /\ DOMAIN e[i] = 1..Len(e[i])
    BY <1>1, ListParts
  <2>2. o[i] = [k \in DOMAIN e[i] |-> ValueAt(h, B, T[i], e[i][k])]
    BY DEF ValuesOf
  <2> HIDE DEF o
  <2>3. DOMAIN o[i] = 1..Len(e[i]) /\ o[i] = [k \in 1..Len(e[i]) |-> o[i][k]]
    BY <2>1, <2>2
  <2>4. IsList(o[i]) /\ Len(o[i]) = Len(e[i])
    BY <2>1, <2>3, ListOfFunction
  <2> QED
    BY <2>1, <2>2, <2>3, <2>4
<1>4. o = [i \in 1..n |-> o[i]]
  BY DEF ValuesOf
<1> HIDE DEF o
<1>5. AreLists(e, n) /\ AreLists(o, n)
  BY <1>1, <1>2, <1>3, <1>4 DEF AreLists
<1> QED
  BY <1>1, <1>3, <1>5 DEF e, o, ListsMade

LEMMA WrittenIsList ==
  ASSUME NEW fields, NEW n, Sound(fields, n), NEW V, NEW e, IsLists(e, n, V)
  PROVE  IsList(Written(fields, e))
<1> DEFINE raw == Written(fields, e)
<1>1. Reading(fields, n, raw, raw, e, e, Len(raw))
  BY DEF Reading
<1>2. /\ DOMAIN raw = DOMAIN Written(fields, e) /\ \A i \in 1..n : Len(e[i]) = Len(e[i])
      /\ Reading(fields, n, raw, Written(fields, e), e, e, Len(Written(fields, e)))
  BY <1>1
<1> HIDE DEF raw
<1> QED
  BY <1>2, ReadBack

\* One level: the fields store what they are given, or the message fails.
LEMMA LevelComesBack ==
  ASSUME NEW h \in 1..4, NEW A, NEW B, Copied(A, B), ComeBack(h - 1, A, B), NoValue(Failed),
         NEW type, NEW m, FitsAt(h, A, type, m)
  PROVE  LET raw == EncodeAt(h, A, type, m)
         IN  /\ IsList(raw)
             /\ Stored(B[type], OpenedAt(h - 1, B, B[type], raw))
                  = IF SafeAt(h, A, type, m) THEN m ELSE Failed
<1> DEFINE S == A[type]
           T == B[type]
           n == Len(S)
           e == PayloadsOf(h - 1, A, T, m, n)
           o == ValuesOf(h - 1, B, T, e, n)
           raw == EncodeAt(h, A, type, m)
           wire == OpenedAt(h - 1, B, T, raw)
<1>1. type \in DOMAIN A /\ h - 1 \in 0..3 /\ h \in 0..4
  BY FitsUnfolds
<1>2. Sound(S, n) /\ Sound(T, n) /\ SameFields(S, T)
  BY <1>1 DEF Copied
<1>3. n \in Nat /\ DOMAIN S = 1..n /\ DOMAIN T = 1..n
  BY <1>2 DEF Sound
<1> HIDE DEF n
<1>4. /\ Names(S) = Names(T)
      /\ \A i \in 1..n : GivenBy(S, m, i) = GivenBy(T, m, i)
      /\ \A lists : Written(S, lists) = Written(T, lists)
      /\ \A i \in 1..n : SameField(S[i], T[i])
  BY <1>2, <1>3, SameFieldsWritten DEF SameFields
<1>5. /\ Shaped(S, n, m)
      /\ \A i \in 1..n : \A k \in DOMAIN GivenBy(S, m, i) :
           ElementAt(h - 1, A, S[i], GivenBy(S, m, i)[k])
  BY <1>2, GivenFits
<1>6. Shaped(T, n, m)
  BY <1>4, <1>5 DEF Shaped, SameField
<1>7. raw = Written(T, PayloadsOf(h - 1, A, S, m, n))
  BY <1>3, <1>4, EncodeUnfolds DEF PayloadsOf
<1>8. PayloadsOf(h - 1, A, S, m, n) = e
  <2>1. \A i \in 1..n : PayloadsAt(h - 1, A, S[i], GivenBy(S, m, i))
                          = PayloadsAt(h - 1, A, T[i], GivenBy(T, m, i))
    BY <1>4 DEF PayloadsAt, SameField, IsMessage
  <2> QED
    BY <2>1 DEF PayloadsOf
<1>9. raw = Written(T, e)
  BY <1>7, <1>8
<1>10. /\ AreLists(e, n) /\ AreLists(o, n)
       /\ \A i \in 1..n :
            /\ IsList(GivenBy(T, m, i))
            /\ Len(e[i]) = Len(GivenBy(T, m, i)) /\ Len(o[i]) = Len(e[i])
            /\ DOMAIN e[i] = DOMAIN GivenBy(T, m, i) /\ DOMAIN o[i] = DOMAIN e[i]
            /\ \A k \in DOMAIN e[i] :
                 /\ e[i][k] = Payload(h - 1, A, T[i], GivenBy(T, m, i)[k])
                 /\ o[i][k] = ValueAt(h - 1, B, T[i], e[i][k])
  <2> HIDE DEF S, T
  <2>1. ListsMade(h - 1, A, B, T, T, n, m)
    BY <1>3, <1>6, PayloadLists
  <2> QED
    BY <2>1 DEF ListsMade
<1> HIDE DEF e, o, raw, wire, S, T
<1>11. ASSUME NEW i \in 1..n, NEW k \in DOMAIN o[i]
       PROVE  /\ GivenBy(T, m, i)[k] # Failed
              /\ o[i][k] = IF ValueIsSafe(h - 1, A, S[i], GivenBy(T, m, i)[k])
                           THEN GivenBy(T, m, i)[k] ELSE Failed
  <2> DEFINE x == GivenBy(T, m, i)[k]
  <2>1. ElementAt(h - 1, A, S[i], x) /\ SameField(S[i], T[i])
    BY <1>4, <1>5, <1>10
  <2>2. o[i][k] = ValueAt(h - 1, B, T[i], Payload(h - 1, A, T[i], x))
    BY <1>10
  <2>3. Payload(h - 1, A, T[i], x) = Payload(h - 1, A, S[i], x)
    BY <2>1 DEF Payload, SameField, IsMessage
  <2> HIDE DEF x
  <2>4. h - 1 \in 0..4
    BY <1>1
  <2>5. x # Failed
    BY <2>1, <2>4, ElementIsValue
  <2>6. ValueAt(h - 1, B, T[i], Payload(h - 1, A, S[i], x))
          = IF ValueIsSafe(h - 1, A, S[i], x) THEN x ELSE Failed
    BY <1>1, <2>1, ValueComesBack
  <2> QED
    BY <2>2, <2>3, <2>5, <2>6 DEF x
<1>12. PICK V : IsLists(e, n, V) /\ IsLists(o, n, V)
  BY <1>3, <1>10, ListsTogether
<1>13. DOMAIN wire = DOMAIN Written(T, e)
  BY <1>9 DEF wire, OpenedAt
<1>14. /\ IsList(Written(T, e))
       /\ Len(Written(T, e)) \in Nat /\ DOMAIN Written(T, e) = 1..Len(Written(T, e))
  BY <1>2, <1>12, WrittenIsList, ListParts
<1>15. Reading(T, n, wire, Written(T, e), e, o, Len(Written(T, e)))
  <2>1. \A i \in 1..n : \A k \in DOMAIN e[i] : o[i][k] = ValueAt(h - 1, B, T[i], e[i][k])
    BY <1>10
  <2> QED
    BY <1>2, <1>9, <1>14, <2>1, OpenedReads DEF wire
<1>16. Stored(T, wire) = State(T, n, o).message
  BY <1>2, <1>10, <1>12, <1>13, <1>15, ReadBack
<1>17. State(T, n, o).message = IF Fails(o, n) THEN Failed ELSE m
  <2>1. /\ \A i \in 1..n : IsList(o[i]) /\ Len(o[i]) = Len(GivenBy(T, m, i))
        /\ \A i \in 1..n : \A k \in DOMAIN o[i] : o[i][k] \in {GivenBy(T, m, i)[k], Failed}
    BY <1>10, <1>11 DEF AreLists
  <2> QED
    BY <1>2, <1>6, <2>1, StateOfMessage
<1>18. Fails(o, n) <=> ~SafeAt(h, A, type, m)
  <2>1. SafeAt(h, A, type, m)
          <=> \A i \in 1..n : \A k \in DOMAIN GivenBy(S, m, i) :
                ValueIsSafe(h - 1, A, S[i], GivenBy(S, m, i)[k])
    BY <1>3, SafeUnfolds DEF S
  <2>2. \A i \in 1..n : DOMAIN o[i] = DOMAIN GivenBy(S, m, i) /\ GivenBy(S, m, i) = GivenBy(T, m, i)
    BY <1>4, <1>10
  <2>3. \A i \in 1..n : \A k \in DOMAIN o[i] :
          o[i][k] = Failed <=> ~ValueIsSafe(h - 1, A, S[i], GivenBy(T, m, i)[k])
    BY <1>11
  <2> QED
    BY <2>1, <2>2, <2>3 DEF Fails
<1> QED
  BY <1>9, <1>14, <1>16, <1>17, <1>18 DEF T, raw, wire

LEMMA AllComeBack ==
  ASSUME NEW A, NEW B, Copied(A, B), NoValue(Failed)
  PROVE  \A h \in 0..4 : ComeBack(h, A, B)
<1>1. ComeBack(0, A, B)
  BY DEF ComeBack, FitsAt
<1>2. ASSUME NEW h \in 1..4, ComeBack(h - 1, A, B) PROVE ComeBack(h, A, B)
  <2> SUFFICES ASSUME NEW type, NEW m, FitsAt(h, A, type, m)
               PROVE  DecodeAt(h, B, type, EncodeAt(h, A, type, m))
                        = IF SafeAt(h, A, type, m) THEN m ELSE Failed
    BY DEF ComeBack
  <2>1. Stored(B[type], OpenedAt(h - 1, B, B[type], EncodeAt(h, A, type, m)))
          = IF SafeAt(h, A, type, m) THEN m ELSE Failed
    BY <1>2, LevelComesBack
  <2> QED
    BY <2>1, DecodeUnfolds
<1>3. ComeBack(1, A, B)
  BY <1>1, <1>2
<1>4. ComeBack(2, A, B)
  BY <1>2, <1>3
<1>5. ComeBack(3, A, B)
  BY <1>2, <1>4
<1>6. ComeBack(4, A, B)
  BY <1>2, <1>5
<1> QED
  BY <1>1, <1>3, <1>4, <1>5, <1>6

--------------------------------------------------------------------------------
(* An entry more anywhere in an encoding.                                      *)

LEMMA InsertAtInserts ==
  ASSUME NEW s, IsList(s), NEW p \in 1..(Len(s) + 1), NEW x
  PROVE  Inserted(InsertAt(s, p, x), s, Len(s), p, x)
<1> DEFINE before == SubSeq(s, 1, p - 1)
           after == SubSeq(s, p, Len(s))
<1>1. PICK V : s \in Seq(V)
  BY DEF IsList
<1>2. Len(s) \in Nat
  BY <1>1, LenProperties
<1> DEFINE W == V \cup {x}
<1>3. s \in Seq(W)
  BY <1>1
<1>4. /\ before \in Seq(W) /\ Len(before) = p - 1
      /\ \A j \in 1..(p - 1) : before[j] = s[j]
  BY <1>2, <1>3, SubSeqProperties
<1>5. /\ after \in Seq(W) /\ Len(after) = Len(s) - p + 1
      /\ \A j \in 1..(Len(s) - p + 1) : after[j] = s[p + j - 1]
  BY <1>2, <1>3, SubSeqProperties
<1>6. <<x>> \in Seq(W) /\ Len(<<x>>) = 1 /\ <<x>>[1] = x
  OBVIOUS
<1>7. InsertAt(s, p, x) = (before \o <<x>>) \o after
  BY DEF InsertAt
<1> HIDE DEF before, after, W
<1>8. /\ before \o <<x>> \in Seq(W) /\ Len(before \o <<x>>) = p
      /\ \A j \in 1..p : (before \o <<x>>)[j] = IF j < p THEN s[j] ELSE x
  BY <1>2, <1>4, <1>6, ConcatProperties
<1> DEFINE start == before \o <<x>>
<1> HIDE DEF start
<1>9. start \in Seq(W) /\ Len(start) = p /\ \A j \in 1..p : start[j] = IF j < p THEN s[j] ELSE x
  BY <1>8 DEF start
<1>10. /\ start \o after \in Seq(W) /\ Len(start \o after) = p + (Len(s) - p + 1)
       /\ \A j \in 1..(p + (Len(s) - p + 1)) :
            (start \o after)[j] = IF j <= p THEN start[j] ELSE after[j - p]
  <2>1. /\ start \o after \in Seq(W) /\ Len(start \o after) = Len(start) + Len(after)
        /\ \A j \in 1..(Len(start) + Len(after)) :
             (start \o after)[j] = IF j <= Len(start) THEN start[j] ELSE after[j - Len(start)]
    BY <1>5, <1>9, ConcatProperties
  <2> QED
    BY <1>5, <1>9, <2>1
<1>11. p + (Len(s) - p + 1) = Len(s) + 1
  BY <1>2
<1>12. DOMAIN (start \o after) = 1..(Len(s) + 1)
  BY <1>10, <1>11, LenProperties
<1>13. ASSUME NEW j \in 1..(Len(s) + 1)
       PROVE  (start \o after)[j] = IF j < p THEN s[j] ELSE IF j = p THEN x ELSE s[j - 1]
  <2>1. CASE j <= p
    BY <1>9, <1>10, <1>11, <2>1
  <2>2. CASE ~(j <= p)
    <3>1. j - p \in 1..(Len(s) - p + 1) /\ p + (j - p) - 1 = j - 1
      BY <1>2, <2>2
    <3> QED
      BY <1>5, <1>10, <1>11, <2>2, <3>1
  <2> QED
    BY <2>1, <2>2
<1> QED
  BY <1>7, <1>12, <1>13 DEF Inserted, start

LEMMA OpenedSkips ==
  ASSUME NEW h, NEW B, NEW T, NEW raw, NEW len \in Nat, DOMAIN raw = 1..len,
         NEW p \in 1..(len + 1), NEW entry, Skipped(T, entry),
         NEW more, Inserted(more, raw, len, p, entry)
  PROVE  Stored(T, OpenedAt(h, B, T, more)) = Stored(T, OpenedAt(h, B, T, raw))
<1> DEFINE wide == OpenedAt(h, B, T, more)
           wire == OpenedAt(h, B, T, raw)
<1>1. DOMAIN wire = 1..len /\ DOMAIN wide = 1..(len + 1)
  BY DEF OpenedAt, Inserted
<1>2. ASSUME NEW j \in 1..(len + 1)
      PROVE  wide[j] = IF j < p THEN wire[j] ELSE IF j = p THEN entry ELSE wire[j - 1]
  <2>1. CASE j < p
    <3>1. more[j] = raw[j] /\ j \in DOMAIN raw /\ j \in DOMAIN more
      BY <2>1 DEF Inserted
    <3> QED
      BY <2>1, <3>1 DEF OpenedAt
  <2>2. CASE j = p
    <3>1. more[j] = entry /\ j \in DOMAIN more
      BY <2>2 DEF Inserted
    <3> QED
      BY <2>2, <3>1 DEF OpenedAt, Skipped
  <2>3. CASE j > p
    <3>1. more[j] = raw[j - 1] /\ j - 1 \in DOMAIN raw /\ j \in DOMAIN more
      BY <2>3 DEF Inserted
    <3> QED
      BY <2>3, <3>1 DEF OpenedAt
  <2> QED
    BY <2>1, <2>2, <2>3
<1> HIDE DEF wide, wire
<1>3. Inserted(wide, wire, len, p, entry)
  BY <1>1, <1>2 DEF Inserted
<1>4. Stored(T, wide) = Stored(T, wire)
  BY <1>1, <1>3, SkippedIsNothing
<1> QED
  BY <1>4 DEF wide, wire

\* Numbers below that of the field no copy knows.
Small(fields) == \A i \in DOMAIN fields : fields[i].tag \div 8 < 99

LEMMA StrangeIsSkipped ==
  ASSUME NEW fields, NEW n, Sound(fields, n), Small(fields), NEW entry \in Strange(fields)
  PROVE  Skipped(fields, entry)
<1>1. \A j \in DOMAIN fields : /\ fields[j].tag \in Nat \ {0} /\ fields[j].tag % 8 \in {0, 2}
                               /\ fields[j].tag \div 8 < 99
  BY DEF Sound, Small
<1>2. CASE entry.tag = 794
  <2>1. 794 \div 8 = 99 /\ 794 % 8 = 2
    OBVIOUS
  <2>2. \A j \in DOMAIN fields : ~Reads(fields[j], entry.tag)
    BY <1>1, <1>2, <2>1 DEF Reads
  <2> QED
    BY <1>2, <2>1, <2>2 DEF Skipped, Readers
<1>3. ASSUME NEW i \in DOMAIN fields, entry.tag = (fields[i].tag \div 8) * 8 + 5
      PROVE  Skipped(fields, entry)
  <2>1. fields[i].tag \div 8 \in Nat
    BY <1>1
  <2>2. /\ entry.tag \in Nat /\ entry.tag % 8 = 5
        /\ entry.tag \div 8 = fields[i].tag \div 8 /\ entry.tag # 0
    BY <1>3, <2>1
  <2>3. \A j \in DOMAIN fields : ~Reads(fields[j], entry.tag)
    BY <1>1, <2>2 DEF Reads
  <2> QED
    BY <2>2, <2>3 DEF Skipped, Readers
<1> QED
  BY <1>2, <1>3 DEF Strange

\* Every message of one copy, of any values and lists of any length, reads as it
\* is at the other, with an entry the other does not know anywhere in it or
\* without; one with an int64 that a number cannot hold fails.
THEOREM EveryMessageComesBack ==
  ASSUME NoValue(Failed), NEW A, NEW B, Copied(A, B), NEW type, NEW m, Fits(A, type, m),
         Small(B[type]), NEW wire \in Received(Encode(A, type, m), B[type])
  PROVE  Decode(B, type, wire) = IF IsSafe(A, type, m) THEN m ELSE Failed
<1> DEFINE raw == Encode(A, type, m)
<1>1. 4 \in 0..4 /\ 4 \in 1..4 /\ 4 - 1 = 3 /\ 3 \in 0..4
  OBVIOUS
<1>2. FitsAt(4, A, type, m) /\ type \in DOMAIN A
  <2>1. FitsAt(4, A, type, m)
    BY DEF FitsAt
  <2> QED
    BY <1>1, <2>1, FitsUnfolds
<1>3. raw = EncodeAt(4, A, type, m) /\ (SafeAt(4, A, type, m) <=> IsSafe(A, type, m))
  BY DEF EncodeAt, SafeAt
<1>4. ComeBack(3, A, B)
  BY <1>1, AllComeBack
<1>5. /\ IsList(raw)
      /\ Stored(B[type], OpenedAt(3, B, B[type], raw)) = IF IsSafe(A, type, m) THEN m ELSE Failed
  BY <1>1, <1>2, <1>3, <1>4, LevelComesBack
<1>6. Decode(B, type, wire) = Stored(B[type], OpenedAt(3, B, B[type], wire))
  <2>1. Decode(B, type, wire) = DecodeAt(4, B, type, wire)
    BY DEF DecodeAt
  <2> QED
    BY <1>1, <2>1, DecodeUnfolds
<1>7. CASE wire = raw
  BY <1>5, <1>6, <1>7
<1>8. ASSUME NEW p \in 1..(Len(raw) + 1), NEW entry \in Strange(B[type]),
             wire = InsertAt(raw, p, entry)
      PROVE  Stored(B[type], OpenedAt(3, B, B[type], wire))
               = Stored(B[type], OpenedAt(3, B, B[type], raw))
  <2>1. Inserted(wire, raw, Len(raw), p, entry)
    BY <1>5, <1>8, InsertAtInserts
  <2>2. Len(raw) \in Nat /\ DOMAIN raw = 1..Len(raw)
    BY <1>5, ListParts
  <2>3. Skipped(B[type], entry)
    BY <1>2, StrangeIsSkipped DEF Copied
  <2> HIDE DEF raw
  <2> QED
    BY <2>1, <2>2, <2>3, OpenedSkips
<1>9. wire = raw \/ \E p \in 1..(Len(raw) + 1), entry \in Strange(B[type]) :
                      wire = InsertAt(raw, p, entry)
  BY DEF Received
<1> QED
  BY <1>5, <1>6, <1>7, <1>8, <1>9

--------------------------------------------------------------------------------
(* JSON and fromPartial: the calls on messages of height h.                    *)

ToJSONAt(h, messages, type, m) ==
  CASE h = 1 -> ToJSON1(messages, type, m)
    [] h = 2 -> ToJSON2(messages, type, m)
    [] h = 3 -> ToJSON3(messages, type, m)
    [] h = 4 -> ToJSON(messages, type, m)
    [] OTHER -> m

FromJSONAt(h, messages, type, object) ==
  CASE h = 1 -> FromJSON1(messages, type, object)
    [] h = 2 -> FromJSON2(messages, type, object)
    [] h = 3 -> FromJSON3(messages, type, object)
    [] h = 4 -> FromJSON(messages, type, object)
    [] OTHER -> object

FromPartialAt(h, messages, type, object) ==
  CASE h = 1 -> FromPartial1(messages, type, object)
    [] h = 2 -> FromPartial2(messages, type, object)
    [] h = 3 -> FromPartial3(messages, type, object)
    [] h = 4 -> FromPartial(messages, type, object)
    [] OTHER -> object

\* What the calls inside make of one field's value.
ToInside(h, messages, f, x) ==
  IF ~IsMessage(f) \/ x = Undefined THEN x
  ELSE IF f.many THEN [k \in DOMAIN x |-> ToJSONAt(h, messages, f.type, x[k])]
  ELSE ToJSONAt(h, messages, f.type, x)

FromInside(h, messages, f, x) ==
  IF ~IsMessage(f) \/ x = Undefined THEN x
  ELSE IF f.many THEN [k \in DOMAIN x |-> FromJSONAt(h, messages, f.type, x[k])]
  ELSE FromJSONAt(h, messages, f.type, x)

PartInside(h, messages, f, x) ==
  IF ~IsMessage(f) \/ x = Undefined THEN x
  ELSE IF f.many THEN [k \in DOMAIN x |-> FromPartialAt(h, messages, f.type, x[k])]
  ELSE FromPartialAt(h, messages, f.type, x)

LEMMA ToJSONUnfolds ==
  ASSUME NEW h \in 1..4, NEW messages, NEW type, NEW m, DOMAIN m = Names(messages[type])
  PROVE  ToJSONAt(h, messages, type, m)
           = [n \in Present(messages[type], m) |->
                ToInside(h - 1, messages, FieldOf(messages[type], n), m[n])]
<1>0. \A n \in Present(messages[type], m) : n \in DOMAIN m
  BY DEF Present
<1> USE <1>0 DEF ToInside, Inside, ToJSONWith, Restrict
<1>1. CASE h = 1
  <2>1. \A t, x : ToJSONAt(h - 1, messages, t, x) = x
    BY <1>1 DEF ToJSONAt
  <2>2. ToJSONAt(h, messages, type, m) = ToJSON1(messages, type, m)
    BY <1>1 DEF ToJSONAt
  <2> QED
    BY <2>1, <2>2 DEF ToJSON1
<1>2. CASE h = 2
  <2>1. \A t, x : ToJSONAt(h - 1, messages, t, x) = ToJSON1(messages, t, x)
    BY <1>2 DEF ToJSONAt
  <2>2. ToJSONAt(h, messages, type, m) = ToJSON2(messages, type, m)
    BY <1>2 DEF ToJSONAt
  <2> QED
    BY <2>1, <2>2 DEF ToJSON2
<1>3. CASE h = 3
  <2>1. \A t, x : ToJSONAt(h - 1, messages, t, x) = ToJSON2(messages, t, x)
    BY <1>3 DEF ToJSONAt
  <2>2. ToJSONAt(h, messages, type, m) = ToJSON3(messages, type, m)
    BY <1>3 DEF ToJSONAt
  <2> QED
    BY <2>1, <2>2 DEF ToJSON3
<1>4. CASE h = 4
  <2>1. \A t, x : ToJSONAt(h - 1, messages, t, x) = ToJSON3(messages, t, x)
    BY <1>4 DEF ToJSONAt
  <2>2. ToJSONAt(h, messages, type, m) = ToJSON(messages, type, m)
    BY <1>4 DEF ToJSONAt
  <2> QED
    BY <2>1, <2>2 DEF ToJSON
<1> QED
  BY <1>1, <1>2, <1>3, <1>4

LEMMA FromJSONUnfolds ==
  ASSUME NEW h \in 1..4, NEW messages, NEW type, NEW object
  PROVE  FromJSONAt(h, messages, type, object)
           = [n \in Names(messages[type]) |->
                FromInside(h - 1, messages, FieldOf(messages[type], n),
                           Picked(messages[type], object)[n])]
<1> USE DEF FromInside, Inside, Picked
<1>1. CASE h = 1
  <2>1. \A t, x : FromJSONAt(h - 1, messages, t, x) = x
    BY <1>1 DEF FromJSONAt
  <2>2. FromJSONAt(h, messages, type, object) = FromJSON1(messages, type, object)
    BY <1>1 DEF FromJSONAt
  <2> QED
    BY <2>1, <2>2 DEF FromJSON1
<1>2. CASE h = 2
  <2>1. \A t, x : FromJSONAt(h - 1, messages, t, x) = FromJSON1(messages, t, x)
    BY <1>2 DEF FromJSONAt
  <2>2. FromJSONAt(h, messages, type, object) = FromJSON2(messages, type, object)
    BY <1>2 DEF FromJSONAt
  <2> QED
    BY <2>1, <2>2 DEF FromJSON2
<1>3. CASE h = 3
  <2>1. \A t, x : FromJSONAt(h - 1, messages, t, x) = FromJSON2(messages, t, x)
    BY <1>3 DEF FromJSONAt
  <2>2. FromJSONAt(h, messages, type, object) = FromJSON3(messages, type, object)
    BY <1>3 DEF FromJSONAt
  <2> QED
    BY <2>1, <2>2 DEF FromJSON3
<1>4. CASE h = 4
  <2>1. \A t, x : FromJSONAt(h - 1, messages, t, x) = FromJSON3(messages, t, x)
    BY <1>4 DEF FromJSONAt
  <2>2. FromJSONAt(h, messages, type, object) = FromJSON(messages, type, object)
    BY <1>4 DEF FromJSONAt
  <2> QED
    BY <2>1, <2>2 DEF FromJSON
<1> QED
  BY <1>1, <1>2, <1>3, <1>4

LEMMA FromPartialUnfolds ==
  ASSUME NEW h \in 1..4, NEW messages, NEW type, NEW object
  PROVE  FromPartialAt(h, messages, type, object)
           = [n \in Names(messages[type]) |->
                PartInside(h - 1, messages, FieldOf(messages[type], n),
                           Filled(messages[type], object)[n])]
<1> USE DEF PartInside, Inside, Filled
<1>1. CASE h = 1
  <2>1. \A t, x : FromPartialAt(h - 1, messages, t, x) = x
    BY <1>1 DEF FromPartialAt
  <2>2. FromPartialAt(h, messages, type, object) = FromPartial1(messages, type, object)
    BY <1>1 DEF FromPartialAt
  <2> QED
    BY <2>1, <2>2 DEF FromPartial1
<1>2. CASE h = 2
  <2>1. \A t, x : FromPartialAt(h - 1, messages, t, x) = FromPartial1(messages, t, x)
    BY <1>2 DEF FromPartialAt
  <2>2. FromPartialAt(h, messages, type, object) = FromPartial2(messages, type, object)
    BY <1>2 DEF FromPartialAt
  <2> QED
    BY <2>1, <2>2 DEF FromPartial2
<1>3. CASE h = 3
  <2>1. \A t, x : FromPartialAt(h - 1, messages, t, x) = FromPartial2(messages, t, x)
    BY <1>3 DEF FromPartialAt
  <2>2. FromPartialAt(h, messages, type, object) = FromPartial3(messages, type, object)
    BY <1>3 DEF FromPartialAt
  <2> QED
    BY <2>1, <2>2 DEF FromPartial3
<1>4. CASE h = 4
  <2>1. \A t, x : FromPartialAt(h - 1, messages, t, x) = FromPartial3(messages, t, x)
    BY <1>4 DEF FromPartialAt
  <2>2. FromPartialAt(h, messages, type, object) = FromPartial(messages, type, object)
    BY <1>4 DEF FromPartialAt
  <2> QED
    BY <2>1, <2>2 DEF FromPartial
<1> QED
  BY <1>1, <1>2, <1>3, <1>4

--------------------------------------------------------------------------------
(* From an object of one copy to the other's message, level by level.          *)

\* Messages of height h come back from their objects.
ObjectsComeBack(h, A, B) ==
  \A type, m : FitsAt(h, A, type, m) =>
    LET object == ToJSONAt(h, A, type, m)
    IN  /\ FromJSONAt(h, B, type, object) = m
        /\ FromPartialAt(h, B, type, object) = m

\* The object of a message is no scalar.
LEMMA ObjectIsFunction ==
  ASSUME NEW h \in 0..4, NEW A, NEW type, NEW m, FitsAt(h, A, type, m),
         NoValue(Undefined)
  PROVE  ToJSONAt(h, A, type, m) # Undefined
<1>1. h \in 1..4
  BY FitsIsFunction
<1>2. m = [name \in Names(A[type]) |-> m[name]]
  BY <1>1, FitsUnfolds
<1>3. DOMAIN m = Names(A[type])
  BY <1>2
<1> DEFINE object == ToJSONAt(h, A, type, m)
<1>4. object = [n \in Present(A[type], m) |-> ToInside(h - 1, A, FieldOf(A[type], n), m[n])]
  BY <1>1, <1>3, ToJSONUnfolds
<1> HIDE DEF object
<1>5. object = [n \in DOMAIN object |-> object[n]]
  BY <1>4
<1> QED
  BY <1>5 DEF NoValue, object

LEMMA EmptyOfNothing ==
  ASSUME NEW s, s = <<>>, NEW t, DOMAIN t = DOMAIN s, t = [k \in DOMAIN s |-> t[k]]
  PROVE  t = s
<1>1. DOMAIN s = {} /\ s = [k \in {} |-> s[k]]
  <2>1. s \in Seq({}) /\ Len(s) = 0
    BY EmptySeq
  <2>2. DOMAIN s = 1..0 /\ s = [k \in 1..0 |-> s[k]]
    BY <2>1, LenProperties
  <2> QED
    BY <2>2
<1>2. t = [k \in {} |-> t[k]]
  BY <1>1
<1> QED
  BY <1>1, <1>2

LEMMA DefaultStays ==
  ASSUME NEW h, NEW B, NEW g
  PROVE  /\ FromInside(h, B, g, Default(g)) = Default(g)
         /\ PartInside(h, B, g, Default(g)) = Default(g)
<1> DEFINE x == Default(g)
           back == [k \in DOMAIN x |-> FromJSONAt(h, B, g.type, x[k])]
           part == [k \in DOMAIN x |-> FromPartialAt(h, B, g.type, x[k])]
<1>1. CASE ~IsMessage(g)
  BY <1>1 DEF FromInside, PartInside
<1>2. CASE IsMessage(g) /\ ~g.many
  <2>1. x = Undefined
    BY <1>2 DEF Default, IsMessage, Scalars
  <2> QED
    BY <1>2, <2>1 DEF FromInside, PartInside
<1>3. CASE IsMessage(g) /\ g.many
  <2>1. x = <<>>
    BY <1>3 DEF Default
  <2>2. back = [k \in DOMAIN x |-> back[k]] /\ DOMAIN back = DOMAIN x
    OBVIOUS
  <2>3. part = [k \in DOMAIN x |-> part[k]] /\ DOMAIN part = DOMAIN x
    OBVIOUS
  <2>4. FromInside(h, B, g, x) \in {x, back} /\ PartInside(h, B, g, x) \in {x, part}
    BY <1>3 DEF FromInside, PartInside
  <2> HIDE DEF back, part, x
  <2>5. back = x
    BY <2>1, <2>2, EmptyOfNothing
  <2>6. part = x
    BY <2>1, <2>3, EmptyOfNothing
  <2> QED
    BY <2>4, <2>5, <2>6 DEF x
<1> QED
  BY <1>1, <1>2, <1>3

LEMMA ListComesBack ==
  ASSUME NEW h \in 0..3, NEW A, NEW B, ObjectsComeBack(h, A, B), NoValue(Undefined),
         NEW f, NEW g, SameField(f, g), IsMessage(f), f.many, NEW x, FieldFits(h, A, f, x)
  PROVE  LET y == ToInside(h, A, f, x)
         IN  y # Undefined /\ FromInside(h, B, g, y) = x /\ PartInside(h, B, g, y) = x
<1> DEFINE y == [k \in DOMAIN x |-> ToJSONAt(h, A, f.type, x[k])]
           back == [k \in DOMAIN y |-> FromJSONAt(h, B, g.type, y[k])]
           part == [k \in DOMAIN y |-> FromPartialAt(h, B, g.type, y[k])]
<1>1. g.type = f.type /\ IsMessage(g) /\ g.many
  BY DEF SameField, IsMessage
<1>2. IsList(x) /\ \A k \in DOMAIN x : FitsAt(h, A, f.type, x[k])
  BY DEF FieldFits, ElementAt
<1>3. DOMAIN x = 1..Len(x) /\ x = [k \in 1..Len(x) |-> x[k]]
  BY <1>2, ListParts
<1>4. x # Undefined
  BY <1>3 DEF NoValue
<1>5. y # Undefined
  <2>1. y = [k \in DOMAIN y |-> y[k]]
    OBVIOUS
  <2> HIDE DEF y
  <2> QED
    BY <2>1 DEF NoValue
<1>6. ToInside(h, A, f, x) = y
  BY <1>4 DEF ToInside
<1>7. \A k \in DOMAIN x : FromJSONAt(h, B, f.type, y[k]) = x[k]
                            /\ FromPartialAt(h, B, f.type, y[k]) = x[k]
  BY <1>2 DEF ObjectsComeBack
<1>8. DOMAIN y = DOMAIN x
  OBVIOUS
<1> HIDE DEF y
<1>9. back = x
  BY <1>1, <1>3, <1>7, <1>8
<1>10. part = x
  BY <1>1, <1>3, <1>7, <1>8
<1> QED
  BY <1>1, <1>5, <1>6, <1>9, <1>10 DEF FromInside, PartInside

LEMMA FieldComesBack ==
  ASSUME NEW h \in 0..3, NEW A, NEW B, ObjectsComeBack(h, A, B), NoValue(Undefined),
         NEW f, NEW g, SameField(f, g), NEW x, FieldFits(h, A, f, x), x # Default(f)
  PROVE  LET y == ToInside(h, A, f, x)
         IN  y # Undefined /\ FromInside(h, B, g, y) = x /\ PartInside(h, B, g, y) = x
<1> DEFINE y == ToInside(h, A, f, x)
<1>1. g.type = f.type /\ (IsMessage(g) <=> IsMessage(f)) /\ (g.many <=> f.many)
  BY DEF SameField, IsMessage
<1>2. h \in 0..4
  OBVIOUS
<1>3. CASE f.many /\ IsMessage(f)
  BY <1>3, ListComesBack
<1>4. CASE f.many /\ ~IsMessage(f)
  <2>1. y = x
    BY <1>4 DEF ToInside
  <2>2. IsList(x)
    BY <1>4 DEF FieldFits
  <2>3. x = [k \in 1..Len(x) |-> x[k]] /\ DOMAIN x = 1..Len(x)
    BY <2>2, ListParts
  <2>4. x # Undefined
    BY <2>3 DEF NoValue
  <2> QED
    BY <1>1, <1>4, <2>1, <2>4 DEF FromInside, PartInside
<1>5. CASE ~f.many /\ IsMessage(f)
  <2>1. ElementAt(h, A, f, x)
    BY <1>5 DEF FieldFits
  <2>2. FitsAt(h, A, f.type, x)
    BY <1>5, <2>1 DEF ElementAt
  <2>3. x # Undefined
    BY <1>2, <2>1, ElementIsValue
  <2>4. y = ToJSONAt(h, A, f.type, x)
    BY <1>5, <2>3 DEF ToInside
  <2>5. y # Undefined
    BY <1>2, <2>2, <2>4, ObjectIsFunction
  <2>6. FromJSONAt(h, B, f.type, y) = x /\ FromPartialAt(h, B, f.type, y) = x
    BY <2>2, <2>4 DEF ObjectsComeBack
  <2> QED
    BY <1>1, <1>5, <2>5, <2>6 DEF FromInside, PartInside
<1>6. CASE ~f.many /\ ~IsMessage(f)
  <2>1. ElementAt(h, A, f, x)
    BY <1>6 DEF FieldFits
  <2>2. x # Undefined
    BY <1>2, <2>1, ElementIsValue
  <2>3. y = x
    BY <1>6 DEF ToInside
  <2> QED
    BY <1>1, <1>6, <2>2, <2>3 DEF FromInside, PartInside
<1> QED
  BY <1>3, <1>4, <1>5, <1>6

\* A field's names, the second of which is for fromJSON, are no other field's.
OwnNames(fields, n) ==
  /\ \A i \in 1..n :
       DOMAIN fields[i].aliases = 1..2 /\ fields[i].aliases[1] = fields[i].name
  /\ \A i, j \in 1..n :
       i # j => \A k, l \in 1..2 : fields[i].aliases[k] # fields[j].aliases[l]

LEMMA PresentNames ==
  ASSUME NEW fields, NEW n, Sound(fields, n), NEW m
  PROVE  /\ \A i \in 1..n : fields[i].name \in Present(fields, m)
                              <=> m[fields[i].name] # Default(fields[i])
         /\ \A name \in Present(fields, m) : \E i \in 1..n : name = fields[i].name
<1>1. ASSUME NEW i \in 1..n
      PROVE  fields[i].name \in Present(fields, m) <=> m[fields[i].name] # Default(fields[i])
  <2>1. fields[i].name \in Names(fields)
    BY DEF Names, Sound
  <2>2. FieldOf(fields, fields[i].name) = fields[i]
    BY TheField
  <2> QED
    BY <2>1, <2>2 DEF Present
<1>2. ASSUME NEW name \in Present(fields, m) PROVE \E i \in 1..n : name = fields[i].name
  BY <1>2, TheNames DEF Present
<1> QED
  BY <1>1, <1>2

LEMMA PickedFirst ==
  ASSUME NEW S, NEW T, NEW n, Sound(S, n), Sound(T, n), SameFields(S, T), OwnNames(T, n),
         NEW m, NEW object, DOMAIN object = Present(S, m), NEW i \in 1..n
  PROVE  Picked(T, object)[S[i].name]
           = IF m[S[i].name] # Default(S[i]) THEN object[S[i].name] ELSE Default(T[i])
<1> DEFINE name == S[i].name
<1>1. /\ T[i].name = name /\ name \in Names(T) /\ FieldOf(T, name) = T[i]
      /\ DOMAIN S = 1..n /\ DOMAIN T = 1..n
  <2>1. T[i].name = name /\ DOMAIN S = 1..n /\ DOMAIN T = 1..n
    BY DEF Sound, SameFields, SameField
  <2>2. FieldOf(T, T[i].name) = T[i]
    BY TheField
  <2> QED
    BY <2>1, <2>2 DEF Names
<1>2. Picked(T, object)[name]
        = IF AliasIn(T[i], object) = {} THEN Default(T[i])
          ELSE object[T[i].aliases[Min(AliasIn(T[i], object))]]
  BY <1>1 DEF Picked
<1>3. CASE m[name] # Default(S[i])
  <2>1. name \in DOMAIN object
    BY <1>3, PresentNames
  <2>2. 1 \in AliasIn(T[i], object) /\ AliasIn(T[i], object) \subseteq 1..2
    BY <1>1, <2>1 DEF AliasIn, OwnNames
  <2>3. Min(AliasIn(T[i], object)) = 1
    BY <2>2 DEF Min
  <2>4. T[i].aliases[1] = name
    BY <1>1 DEF OwnNames
  <2> QED
    BY <1>2, <1>3, <2>2, <2>3, <2>4
<1>4. CASE m[name] = Default(S[i])
  <2>1. name \notin DOMAIN object
    BY <1>4, PresentNames
  <2>2. ASSUME NEW k \in 1..2 PROVE T[i].aliases[k] \notin DOMAIN object
    <3> SUFFICES ASSUME T[i].aliases[k] \in Present(S, m) PROVE FALSE
      OBVIOUS
    <3>1. PICK j \in 1..n : T[i].aliases[k] = S[j].name
      BY PresentNames
    <3>2. S[j].name = T[j].name
      BY <1>1 DEF SameFields, SameField
    <3>3. T[j].name = T[j].aliases[1] /\ 1 \in 1..2
      BY DEF OwnNames
    <3>4. j = i
      BY <3>1, <3>2, <3>3 DEF OwnNames
    <3> QED
      BY <1>1, <2>1, <3>1, <3>4
  <2>3. AliasIn(T[i], object) = {}
    BY <2>2 DEF AliasIn, OwnNames
  <2> QED
    BY <1>2, <1>4, <2>3
<1> QED
  BY <1>3, <1>4

LEMMA FilledFirst ==
  ASSUME NEW S, NEW T, NEW n, Sound(S, n), Sound(T, n), SameFields(S, T),
         NEW m, NEW object, DOMAIN object = Present(S, m), NEW i \in 1..n,
         m[S[i].name] # Default(S[i]) => object[S[i].name] # Undefined
  PROVE  Filled(T, object)[S[i].name]
           = IF m[S[i].name] # Default(S[i]) THEN object[S[i].name] ELSE Default(T[i])
<1> DEFINE name == S[i].name
<1>1. T[i].name = name /\ name \in Names(T) /\ FieldOf(T, name) = T[i]
  <2>1. T[i].name = name /\ DOMAIN S = 1..n /\ DOMAIN T = 1..n
    BY DEF Sound, SameFields, SameField
  <2>2. FieldOf(T, T[i].name) = T[i]
    BY TheField
  <2> QED
    BY <2>1, <2>2 DEF Names
<1>2. name \in DOMAIN object <=> m[name] # Default(S[i])
  BY PresentNames
<1> QED
  BY <1>1, <1>2 DEF Filled

LEMMA ObjectLevel ==
  ASSUME NEW h \in 1..4, NEW A, NEW B, Copied(A, B), ObjectsComeBack(h - 1, A, B),
         NoValue(Undefined), NEW type, NEW m, FitsAt(h, A, type, m), NEW n, n = Len(A[type])
  PROVE  LET S == A[type]
             T == B[type]
             object == ToJSONAt(h, A, type, m)
         IN  /\ Sound(S, n) /\ Sound(T, n) /\ SameFields(S, T) /\ Names(S) = Names(T)
             /\ m = [name \in Names(T) |-> m[name]]
             /\ DOMAIN object = Present(S, m)
             /\ \A i \in 1..n :
                  LET x == m[S[i].name]
                      y == object[S[i].name]
                  IN  /\ Default(S[i]) = Default(T[i])
                      /\ x # Default(S[i]) => /\ y # Undefined
                                              /\ FromInside(h - 1, B, T[i], y) = x
                                              /\ PartInside(h - 1, B, T[i], y) = x
<1> DEFINE S == A[type]
           T == B[type]
           object == ToJSONAt(h, A, type, m)
<1>1. /\ type \in DOMAIN A /\ m = [name \in Names(S) |-> m[name]]
      /\ \A i \in DOMAIN S : FieldFits(h - 1, A, S[i], m[S[i].name])
  BY FitsUnfolds
<1>2. Sound(S, n) /\ Sound(T, n) /\ SameFields(S, T)
  BY <1>1 DEF Copied
<1>3. Names(S) = Names(T) /\ DOMAIN S = 1..n
  BY <1>2, SameFieldsWritten DEF Sound
<1>4. DOMAIN m = Names(S)
  BY <1>1
<1>5. object = [name \in Present(S, m) |-> ToInside(h - 1, A, FieldOf(S, name), m[name])]
  BY <1>4, ToJSONUnfolds
<1> HIDE DEF object, S, T
<1>6. ASSUME NEW i \in 1..n, m[S[i].name] # Default(S[i])
      PROVE  LET y == object[S[i].name]
             IN  /\ y # Undefined
                 /\ FromInside(h - 1, B, T[i], y) = m[S[i].name]
                 /\ PartInside(h - 1, B, T[i], y) = m[S[i].name]
  <2> DEFINE x == m[S[i].name]
             y == object[S[i].name]
  <2>1. FieldFits(h - 1, A, S[i], x) /\ x # Default(S[i])
    BY <1>1, <1>3, <1>6
  <2>2. S[i].name \in Present(S, m) /\ FieldOf(S, S[i].name) = S[i]
    BY <1>2, <1>6, PresentNames, TheField
  <2>3. y = ToInside(h - 1, A, S[i], x)
    BY <1>5, <2>2
  <2>4. SameField(S[i], T[i]) /\ h - 1 \in 0..3
    BY <1>2, <1>3 DEF SameFields
  <2> HIDE DEF x, y
  <2>5. y # Undefined /\ FromInside(h - 1, B, T[i], y) = x /\ PartInside(h - 1, B, T[i], y) = x
    BY <2>1, <2>3, <2>4, FieldComesBack
  <2> QED
    BY <2>5 DEF x, y
<1>7. \A i \in 1..n : Default(S[i]) = Default(T[i])
  BY <1>2, <1>3 DEF SameFields, SameField, Default
<1>8. m = [name \in Names(T) |-> m[name]] /\ DOMAIN object = Present(S, m)
  BY <1>1, <1>3, <1>5
<1> QED
  BY <1>2, <1>3, <1>6, <1>7, <1>8 DEF S, T, object

\* Each table of B has names of its own.
NamedFields(A, B) == \A type \in DOMAIN A : OwnNames(B[type], Len(A[type]))

LEMMA LevelOfObjects ==
  ASSUME NEW h \in 1..4, NEW A, NEW B, Copied(A, B), NamedFields(A, B), NoValue(Undefined),
         ObjectsComeBack(h - 1, A, B)
  PROVE  ObjectsComeBack(h, A, B)
<1> SUFFICES ASSUME NEW type, NEW m, FitsAt(h, A, type, m)
             PROVE  /\ FromJSONAt(h, B, type, ToJSONAt(h, A, type, m)) = m
                    /\ FromPartialAt(h, B, type, ToJSONAt(h, A, type, m)) = m
  BY DEF ObjectsComeBack
<1> DEFINE S == A[type]
           T == B[type]
           n == Len(S)
           object == ToJSONAt(h, A, type, m)
<1>1. type \in DOMAIN A
  BY FitsUnfolds
<1>2. OwnNames(T, n)
  BY <1>1 DEF NamedFields
<1>3. /\ Sound(S, n) /\ Sound(T, n) /\ SameFields(S, T) /\ Names(S) = Names(T)
      /\ m = [name \in Names(T) |-> m[name]]
      /\ DOMAIN object = Present(S, m)
      /\ \A i \in 1..n :
           /\ Default(S[i]) = Default(T[i])
           /\ m[S[i].name] # Default(S[i])
                => /\ object[S[i].name] # Undefined
                   /\ FromInside(h - 1, B, T[i], object[S[i].name]) = m[S[i].name]
                   /\ PartInside(h - 1, B, T[i], object[S[i].name]) = m[S[i].name]
  BY ObjectLevel
<1>4. /\ FromJSONAt(h, B, type, object)
           = [name \in Names(T) |-> FromInside(h - 1, B, FieldOf(T, name), Picked(T, object)[name])]
      /\ FromPartialAt(h, B, type, object)
           = [name \in Names(T) |-> PartInside(h - 1, B, FieldOf(T, name), Filled(T, object)[name])]
  BY FromJSONUnfolds, FromPartialUnfolds
<1> HIDE DEF S, T, n, object
<1>5. ASSUME NEW name \in Names(T)
      PROVE  /\ FromInside(h - 1, B, FieldOf(T, name), Picked(T, object)[name]) = m[name]
             /\ PartInside(h - 1, B, FieldOf(T, name), Filled(T, object)[name]) = m[name]
  <2>1. PICK i \in 1..n : name = S[i].name
    BY <1>3, TheNames
  <2>2. FieldOf(T, name) = T[i]
    <3>1. T[i].name = S[i].name
      BY <1>3 DEF SameFields, SameField, Sound
    <3> QED
      BY <1>3, <2>1, <3>1, TheField
  <2>3. Picked(T, object)[S[i].name]
          = IF m[S[i].name] # Default(S[i]) THEN object[S[i].name] ELSE Default(T[i])
    BY <1>2, <1>3, PickedFirst
  <2>4. Filled(T, object)[S[i].name]
          = IF m[S[i].name] # Default(S[i]) THEN object[S[i].name] ELSE Default(T[i])
    BY <1>3, FilledFirst
  <2> QED
    BY <1>3, <2>1, <2>2, <2>3, <2>4, DefaultStays
<1> QED
  BY <1>3, <1>4, <1>5 DEF object

LEMMA AllObjectsComeBack ==
  ASSUME NEW A, NEW B, Copied(A, B), NamedFields(A, B), NoValue(Undefined)
  PROVE  \A h \in 0..4 : ObjectsComeBack(h, A, B)
<1>1. ObjectsComeBack(0, A, B)
  BY DEF ObjectsComeBack, FitsAt
<1>2. \A h \in 1..4 : ObjectsComeBack(h - 1, A, B) => ObjectsComeBack(h, A, B)
  BY LevelOfObjects
<1>3. ObjectsComeBack(1, A, B)
  BY <1>1, <1>2
<1>4. ObjectsComeBack(2, A, B)
  BY <1>2, <1>3
<1>5. ObjectsComeBack(3, A, B)
  BY <1>2, <1>4
<1>6. ObjectsComeBack(4, A, B)
  BY <1>2, <1>5
<1> QED
  BY <1>1, <1>3, <1>4, <1>5, <1>6

--------------------------------------------------------------------------------
(* An object under the names of the .proto file.                               *)

\* The fields of an object under their second names in W.
Under(W, object) ==
  [other \in {FieldOf(W, n).aliases[2] : n \in DOMAIN object} |->
     object[CHOOSE n \in DOMAIN object : FieldOf(W, n).aliases[2] = other]]

LEMMA UnderNames ==
  ASSUME NEW S, NEW W, NEW n, Sound(S, n), Sound(W, n), SameFields(S, W), OwnNames(W, n),
         NEW m, NEW object, DOMAIN object = Present(S, m)
  PROVE  /\ \A other \in DOMAIN Under(W, object) :
              \E i \in 1..n : other = W[i].aliases[2] /\ m[S[i].name] # Default(S[i])
         /\ \A i \in 1..n : m[S[i].name] # Default(S[i])
              => /\ W[i].aliases[2] \in DOMAIN Under(W, object)
                 /\ Under(W, object)[W[i].aliases[2]] = object[S[i].name]
<1>1. \A i \in 1..n : W[i].name = S[i].name
  BY DEF SameFields, SameField, Sound
<1>2. \A i \in 1..n : FieldOf(W, S[i].name) = W[i]
  BY <1>1, TheField
<1>3. \A name \in DOMAIN object :
        \E i \in 1..n : name = S[i].name /\ m[S[i].name] # Default(S[i])
  BY PresentNames
<1>4. ASSUME NEW other \in DOMAIN Under(W, object)
      PROVE  \E i \in 1..n : other = W[i].aliases[2] /\ m[S[i].name] # Default(S[i])
  <2>1. PICK name \in DOMAIN object : other = FieldOf(W, name).aliases[2]
    BY DEF Under
  <2> QED
    BY <1>2, <1>3, <2>1
<1>5. ASSUME NEW i \in 1..n, m[S[i].name] # Default(S[i])
      PROVE  /\ W[i].aliases[2] \in DOMAIN Under(W, object)
             /\ Under(W, object)[W[i].aliases[2]] = object[S[i].name]
  <2>1. S[i].name \in DOMAIN object /\ FieldOf(W, S[i].name) = W[i]
    BY <1>2, <1>5, PresentNames
  <2>2. \A name \in DOMAIN object :
          FieldOf(W, name).aliases[2] = W[i].aliases[2] => name = S[i].name
    <3> SUFFICES ASSUME NEW name \in DOMAIN object,
                        FieldOf(W, name).aliases[2] = W[i].aliases[2]
                 PROVE  name = S[i].name
      OBVIOUS
    <3>1. PICK j \in 1..n : name = S[j].name
      BY <1>3
    <3>2. W[j].aliases[2] = W[i].aliases[2] /\ 2 \in 1..2
      BY <1>2, <3>1
    <3>3. j = i
      BY <3>2 DEF OwnNames
    <3> QED
      BY <3>1, <3>3
  <2>3. (CHOOSE name \in DOMAIN object : FieldOf(W, name).aliases[2] = W[i].aliases[2])
          = S[i].name
    BY <2>1, <2>2
  <2>4. W[i].aliases[2] \in {FieldOf(W, name).aliases[2] : name \in DOMAIN object}
    BY <2>1
  <2> QED
    BY <2>3, <2>4 DEF Under
<1> QED
  BY <1>4, <1>5

\* The names a table has for a field are those W has.
NamesOf(T, W, n) ==
  \A i \in 1..n : /\ DOMAIN T[i].aliases = 1..2
                  /\ \A k \in 1..2 : \E l \in 1..2 : T[i].aliases[k] = W[i].aliases[l]

\* Whether a table knows the second name of a field.
Knows(T, W, i) == \E k \in 1..2 : T[i].aliases[k] = W[i].aliases[2]

LEMMA MinOfTwo ==
  ASSUME NEW s, s \subseteq 1..2, s # {}
  PROVE  Min(s) \in s
<1>1. CASE 1 \in s
  <2>1. \A y \in s : 1 =< y
    OBVIOUS
  <2> QED
    BY <1>1, <2>1 DEF Min
<1>2. CASE 1 \notin s
  <2>1. \A y \in s : y = 2
    <3>1. \A y \in 1..2 : y = 1 \/ y = 2
      OBVIOUS
    <3> QED
      BY <1>2, <3>1
  <2>2. 2 \in s
    <3>1. PICK y \in s : TRUE
      OBVIOUS
    <3> QED
      BY <2>1, <3>1
  <2>3. \A y \in s : 2 =< y
    BY <2>1
  <2> QED
    BY <2>2, <2>3 DEF Min
<1> QED
  BY <1>1, <1>2

LEMMA PickedUnder ==
  ASSUME NEW S, NEW T, NEW W, NEW n, Sound(S, n), Sound(T, n), Sound(W, n),
         SameFields(S, T), SameFields(S, W), OwnNames(W, n), NamesOf(T, W, n),
         NEW m, NEW object, DOMAIN object = Present(S, m), NEW i \in 1..n
  PROVE  Picked(T, Under(W, object))[S[i].name]
           = IF Knows(T, W, i) /\ m[S[i].name] # Default(S[i]) THEN object[S[i].name]
             ELSE Default(T[i])
<1> DEFINE name == S[i].name
           other == Under(W, object)
           found == AliasIn(T[i], other)
<1>1. T[i].name = name /\ name \in Names(T) /\ FieldOf(T, name) = T[i]
  <2>1. T[i].name = name /\ DOMAIN T = 1..n
    BY DEF Sound, SameFields, SameField
  <2>2. FieldOf(T, T[i].name) = T[i]
    BY TheField
  <2> QED
    BY <2>1, <2>2 DEF Names
<1>2. Picked(T, other)[name]
        = IF found = {} THEN Default(T[i]) ELSE other[T[i].aliases[Min(found)]]
  BY <1>1 DEF Picked
<1>3. /\ \A a \in DOMAIN other :
           \E j \in 1..n : a = W[j].aliases[2] /\ m[S[j].name] # Default(S[j])
      /\ m[name] # Default(S[i])
           => W[i].aliases[2] \in DOMAIN other /\ other[W[i].aliases[2]] = object[name]
  BY UnderNames
<1> HIDE DEF other
<1>4. ASSUME NEW k \in 1..2
      PROVE  k \in found <=> T[i].aliases[k] = W[i].aliases[2] /\ m[name] # Default(S[i])
  <2>1. k \in found <=> T[i].aliases[k] \in DOMAIN other
    BY DEF AliasIn, NamesOf
  <2>2. ASSUME T[i].aliases[k] \in DOMAIN other
        PROVE  T[i].aliases[k] = W[i].aliases[2] /\ m[name] # Default(S[i])
    <3>1. PICK j \in 1..n : T[i].aliases[k] = W[j].aliases[2] /\ m[S[j].name] # Default(S[j])
      BY <1>3, <2>2
    <3>2. PICK l \in 1..2 : T[i].aliases[k] = W[i].aliases[l]
      BY DEF NamesOf
    <3>3. j = i
      <4>1. W[i].aliases[l] = W[j].aliases[2] /\ 2 \in 1..2
        BY <3>1, <3>2
      <4> QED
        BY <4>1 DEF OwnNames
    <3> QED
      BY <3>1, <3>3
  <2> QED
    BY <1>3, <2>1, <2>2
<1>5. found \subseteq 1..2
  BY DEF AliasIn, NamesOf
<1> HIDE DEF found
<1>6. CASE Knows(T, W, i) /\ m[name] # Default(S[i])
  <2>1. found # {}
    BY <1>4, <1>6 DEF Knows
  <2>2. Min(found) \in found
    BY <1>5, <2>1, MinOfTwo
  <2>3. T[i].aliases[Min(found)] = W[i].aliases[2]
    BY <1>4, <1>5, <2>2
  <2> QED
    BY <1>2, <1>3, <1>6, <2>1, <2>3 DEF other
<1>7. CASE ~(Knows(T, W, i) /\ m[name] # Default(S[i]))
  <2>1. found = {}
    BY <1>4, <1>5, <1>7 DEF Knows
  <2> QED
    BY <1>2, <1>7, <2>1 DEF other
<1> QED
  BY <1>6, <1>7

\* JSON keeps every message of one copy, of any values, whole at the other.
THEOREM EveryObjectComesBack ==
  ASSUME NoValue(Undefined), NEW A, NEW B, Copied(A, B), NamedFields(A, B),
         NEW type, NEW m, Fits(A, type, m)
  PROVE  /\ FromJSON(B, type, ToJSON(A, type, m)) = m
         /\ FromPartial(B, type, ToJSON(A, type, m)) = m
<1>1. ObjectsComeBack(4, A, B)
  BY AllObjectsComeBack
<1>2. FitsAt(4, A, type, m)
  BY DEF FitsAt
<1>3. ToJSONAt(4, A, type, m) = ToJSON(A, type, m)
  BY DEF ToJSONAt
<1>4. \A object : /\ FromJSONAt(4, B, type, object) = FromJSON(B, type, object)
                  /\ FromPartialAt(4, B, type, object) = FromPartial(B, type, object)
  BY DEF FromJSONAt, FromPartialAt
<1> QED
  BY <1>1, <1>2, <1>3, <1>4 DEF ObjectsComeBack

LEMMA UnderComesBack ==
  ASSUME NoValue(Undefined), NEW A, NEW B, Copied(A, B), NamedFields(A, B),
         NEW type, NEW m, Fits(A, type, m), NEW n, n = Len(A[type]),
         NEW W, Sound(W, n), SameFields(A[type], W), OwnNames(W, n), NamesOf(B[type], W, n)
  PROVE  FromJSON(B, type, Under(W, ToJSON(A, type, m)))
           = [name \in Names(W) |->
                IF Knows(B[type], W, Place(W, name)) THEN m[name]
                ELSE Default(FieldOf(W, name))]
<1> DEFINE S == A[type]
           T == B[type]
           object == ToJSON(A, type, m)
           under == Under(W, object)
<1>1. ObjectsComeBack(3, A, B)
  BY AllObjectsComeBack
<1>2. FitsAt(4, A, type, m)
  BY DEF FitsAt
<1>3. ToJSONAt(4, A, type, m) = object
  BY DEF ToJSONAt
<1>4. FromJSON(B, type, under) = FromJSONAt(4, B, type, under)
  BY DEF FromJSONAt
<1>5. 4 \in 1..4 /\ 4 - 1 = 3
  OBVIOUS
<1> HIDE DEF object, under
<1>6. FromJSONAt(4, B, type, under)
        = [name \in Names(T) |-> FromInside(3, B, FieldOf(T, name), Picked(T, under)[name])]
  BY <1>5, FromJSONUnfolds
<1>7. /\ Sound(S, n) /\ Sound(T, n) /\ SameFields(S, T) /\ Names(S) = Names(T)
      /\ DOMAIN object = Present(S, m)
      /\ \A i \in 1..n :
           /\ Default(S[i]) = Default(T[i])
           /\ m[S[i].name] # Default(S[i])
                => FromInside(3, B, T[i], object[S[i].name]) = m[S[i].name]
  BY <1>1, <1>2, <1>3, <1>5, ObjectLevel
<1> HIDE DEF S, T
<1>8. Names(S) = Names(W) /\ SameFields(S, W)
  BY SameFieldsWritten DEF S
<1>9. ASSUME NEW name \in Names(W)
      PROVE  FromInside(3, B, FieldOf(T, name), Picked(T, under)[name])
               = IF Knows(T, W, Place(W, name)) THEN m[name] ELSE Default(FieldOf(W, name))
  <2>1. PICK i \in 1..n : name = W[i].name /\ FieldOf(W, name) = W[i]
    BY TheNames
  <2>2. Place(W, name) = i
    BY <2>1, ThePlace
  <2>3. S[i].name = name /\ T[i].name = name /\ Default(W[i]) = Default(S[i])
    <3>1. SameField(S[i], T[i]) /\ SameField(S[i], W[i])
      BY <1>7, <1>8 DEF SameFields, Sound
    <3> QED
      BY <2>1, <3>1 DEF SameField, Default
  <2>4. FieldOf(T, name) = T[i]
    BY <1>7, <2>3, TheField
  <2>5. Picked(T, under)[S[i].name]
          = IF Knows(T, W, i) /\ m[S[i].name] # Default(S[i]) THEN object[S[i].name]
            ELSE Default(T[i])
    BY <1>7, <1>8, PickedUnder DEF under, S, T
  <2> QED
    BY <1>7, <2>1, <2>2, <2>3, <2>4, <2>5, DefaultStays
<1> QED
  BY <1>4, <1>6, <1>7, <1>8, <1>9 DEF object, under, S, T

--------------------------------------------------------------------------------
(* The tables of demo.ts.                                                      *)

LEMMA TheTables ==
  ASSUME NEW a \in Copies, NEW b \in Copies
  PROVE  /\ Copied(Messages(a), Messages(b)) /\ NamedFields(Messages(a), Messages(b))
         /\ \A type \in DOMAIN Messages(b) : Small(Messages(b)[type])
<1> USE DEF Copies
<1>1. /\ DOMAIN Messages(a) = DOMAIN Messages(b)
      /\ \A type \in DOMAIN Messages(a) : SameFields(Messages(a)[type], Messages(b)[type])
  BY CopiesAgree DEF SameFields, SameField
<1>2. \A copy \in Copies : \A type \in DOMAIN Messages(copy) :
        LET fields == Messages(copy)[type]
        IN  Sound(fields, Len(fields)) /\ OwnNames(fields, Len(fields)) /\ Small(fields)
  <2> SUFFICES ASSUME NEW copy \in Copies, NEW type \in DOMAIN Messages(copy)
               PROVE  LET fields == Messages(copy)[type]
                      IN  /\ Sound(fields, Len(fields)) /\ OwnNames(fields, Len(fields))
                          /\ Small(fields)
    OBVIOUS
  <2> DEFINE fields == Messages(copy)[type]
             n == Len(fields)
  <2>1. /\ n \in Nat /\ DOMAIN fields = 1..n
        /\ \A i, j \in DOMAIN fields :
             /\ DOMAIN fields[i].aliases = 1..2 /\ fields[i].aliases[1] = fields[i].name
             /\ fields[i].tag \in Nat \ {0} /\ fields[i].tag % 8 \in {0, 2}
             /\ fields[i].tag \div 8 < 99
             /\ i # j => /\ fields[i].tag \div 8 # fields[j].tag \div 8
                         /\ \A k, l \in 1..2 : fields[i].aliases[k] # fields[j].aliases[l]
    BY FieldsDiffer
  <2> HIDE DEF fields, n
  <2>2. OwnNames(fields, n) /\ Small(fields)
    BY <2>1 DEF OwnNames, Small
  <2>3. \A i, j \in 1..n : i # j => fields[i].name # fields[j].name
    <3>1. 1 \in 1..2
      OBVIOUS
    <3> QED
      BY <2>1, <3>1
  <2>4. Sound(fields, n)
    BY <2>1, <2>3 DEF Sound
  <2> QED
    BY <2>2, <2>4 DEF fields, n
<1>3. ASSUME NEW type \in DOMAIN Messages(a)
      PROVE  Len(Messages(a)[type]) = Len(Messages(b)[type])
  <2> DEFINE S == Messages(a)[type]
             T == Messages(b)[type]
  <2>1. Sound(S, Len(S)) /\ Sound(T, Len(T)) /\ SameFields(S, T)
    BY <1>1, <1>2
  <2> HIDE DEF S, T
  <2>2. Len(S) \in Nat /\ Len(T) \in Nat /\ 1..Len(S) = 1..Len(T)
    BY <2>1 DEF Sound, SameFields
  <2>3. Len(S) = Len(T)
    BY <2>2
  <2> QED
    BY <2>3 DEF S, T
<1>4. Copied(Messages(a), Messages(b))
  BY <1>1, <1>2, <1>3 DEF Copied
<1>5. NamedFields(Messages(a), Messages(b))
  BY <1>1, <1>2, <1>3 DEF NamedFields
<1> QED
  BY <1>2, <1>4, <1>5

--------------------------------------------------------------------------------
(* The messages that are tried are messages of the tables.                     *)

\* The messages of height h at most.
AboveAt(h, messages) ==
  CASE h = 1 -> Above(messages, {})
    [] h = 2 -> Above(messages, Above(messages, {}))
    [] h = 3 -> Above(messages, Above(messages, Above(messages, {})))
    [] h = 4 -> Above(messages, Above(messages, Above(messages, Above(messages, {}))))
    [] OTHER -> {}

LEMMA AboveUnfolds ==
  ASSUME NEW h \in 1..4, NEW messages
  PROVE  AboveAt(h, messages) = Above(messages, AboveAt(h - 1, messages))
<1>1. CASE h = 1
  BY <1>1 DEF AboveAt
<1>2. CASE h = 2
  BY <1>2 DEF AboveAt
<1>3. CASE h = 3
  BY <1>3 DEF AboveAt
<1>4. CASE h = 4
  BY <1>4 DEF AboveAt
<1> QED
  BY <1>1, <1>2, <1>3, <1>4

LEMMA AboveMeans ==
  ASSUME NEW h \in 1..4, NEW messages, NEW type \in AboveAt(h, messages)
  PROVE  /\ type \in DOMAIN messages
         /\ \A i \in DOMAIN messages[type] :
              IsMessage(messages[type][i]) => messages[type][i].type \in AboveAt(h - 1, messages)
  BY AboveUnfolds DEF Above

\* What the tables keep to.
Plain(messages) ==
  \A type \in DOMAIN messages :
    /\ Sound(messages[type], Len(messages[type]))
    /\ \A i \in DOMAIN messages[type] :
         LET f == messages[type][i] IN f.many => IsMessage(f) \/ f.type = "string"

LEMMA BareFits ==
  ASSUME NEW h \in 1..4, NEW messages, Plain(messages), NEW type \in DOMAIN messages
  PROVE  FitsAt(h, messages, type, Base(messages[type]))
<1> DEFINE fields == messages[type]
           bare == Base(fields)
<1>1. bare = [name \in Names(fields) |-> bare[name]]
  BY DEF Base
<1>2. ASSUME NEW i \in DOMAIN fields
      PROVE  FieldFits(h - 1, messages, fields[i], bare[fields[i].name])
  <2>1. Sound(fields, Len(fields)) /\ i \in 1..Len(fields)
    BY DEF Plain, Sound
  <2>2. FieldOf(fields, fields[i].name) = fields[i]
    BY <2>1, TheField
  <2>3. fields[i].name \in Names(fields)
    BY DEF Names
  <2>4. bare[fields[i].name] = Default(fields[i])
    BY <2>2, <2>3 DEF Base
  <2> HIDE DEF bare, fields
  <2>5. CASE fields[i].many
    <3>1. bare[fields[i].name] = <<>>
      BY <2>4, <2>5 DEF Default
    <3>2. <<>> \in Seq({}) /\ DOMAIN <<>> = {}
      BY EmptySeq
    <3>3. IsList(<<>>)
      BY <3>2 DEF IsList
    <3> QED
      BY <2>5, <3>1, <3>2, <3>3 DEF FieldFits
  <2>6. CASE ~fields[i].many
    BY <2>4, <2>6 DEF FieldFits
  <2> QED
    BY <2>5, <2>6
<1> QED
  BY <1>1, <1>2, FitsUnfolds

FullAt(h, messages, type, n) ==
  CASE h = 1 -> Full1(messages, type, n)
    [] h = 2 -> Full2(messages, type, n)
    [] h = 3 -> FullMessage(messages, type, n)
    [] OTHER -> Undefined

FullValue(h, messages, f, n) ==
  CASE f.type = "string" -> "x"
    [] f.type = "int32" -> 1
    [] f.type = "int64" -> n
    [] f.type = "bool" -> TRUE
    [] OTHER -> FullAt(h, messages, f.type, n)

FullField(h, messages, f, n) ==
  IF f.many THEN <<FullValue(h, messages, f, n)>> ELSE FullValue(h, messages, f, n)

LEMMA FullUnfolds ==
  ASSUME NEW h \in 1..3, NEW messages, NEW type, NEW n
  PROVE  FullAt(h, messages, type, n)
           = [name \in Names(messages[type]) |->
                FullField(h - 1, messages, FieldOf(messages[type], name), n)]
<1> USE DEF FullField, FullValue, FullWith
<1>1. CASE h = 1
  <2>1. \A t : FullAt(h - 1, messages, t, n) = Undefined
    BY <1>1 DEF FullAt
  <2>2. FullAt(h, messages, type, n) = Full1(messages, type, n)
    BY <1>1 DEF FullAt
  <2> QED
    BY <2>1, <2>2 DEF Full1
<1>2. CASE h = 2
  <2>1. \A t : FullAt(h - 1, messages, t, n) = Full1(messages, t, n)
    BY <1>2 DEF FullAt
  <2>2. FullAt(h, messages, type, n) = Full2(messages, type, n)
    BY <1>2 DEF FullAt
  <2> QED
    BY <2>1, <2>2 DEF Full2
<1>3. CASE h = 3
  <2>1. \A t : FullAt(h - 1, messages, t, n) = Full2(messages, t, n)
    BY <1>3 DEF FullAt
  <2>2. FullAt(h, messages, type, n) = FullMessage(messages, type, n)
    BY <1>3 DEF FullAt
  <2> QED
    BY <2>1, <2>2 DEF FullMessage
<1> HIDE DEF FullField, FullValue, FullWith
<1> QED
  BY <1>1, <1>2, <1>3

\* Lists of one and two.
LEMMA ListOfOne ==
  ASSUME NEW x
  PROVE  IsList(<<x>>) /\ DOMAIN <<x>> = {1} /\ <<x>>[1] = x
<1>1. <<x>> \in Seq({x}) /\ DOMAIN <<x>> = {1} /\ <<x>>[1] = x
  OBVIOUS
<1> QED
  BY <1>1 DEF IsList

LEMMA ListOfTwo ==
  ASSUME NEW x, NEW y
  PROVE  IsList(<<x, y>>) /\ DOMAIN <<x, y>> = {1, 2} /\ <<x, y>>[1] = x /\ <<x, y>>[2] = y
<1>1. <<x, y>> \in Seq({x, y}) /\ DOMAIN <<x, y>> = {1, 2} /\ <<x, y>>[1] = x /\ <<x, y>>[2] = y
  OBVIOUS
<1> QED
  BY <1>1 DEF IsList

LEMMA FullFits ==
  ASSUME NoValue(Undefined), NoValue(Failed),
         NEW messages, Plain(messages), NEW n \in Int
  PROVE  \A h \in 1..3 : \A type \in AboveAt(h, messages) :
           FitsAt(h, messages, type, FullAt(h, messages, type, n))
<1> DEFINE P(h) == \A type \in AboveAt(h, messages) :
                     FitsAt(h, messages, type, FullAt(h, messages, type, n))
<1>1. P(0)
  BY DEF AboveAt
<1>2. ASSUME NEW h \in 1..3, P(h - 1) PROVE P(h)
  <2> SUFFICES ASSUME NEW type \in AboveAt(h, messages)
               PROVE  FitsAt(h, messages, type, FullAt(h, messages, type, n))
    OBVIOUS
  <2> DEFINE fields == messages[type]
             m == FullAt(h, messages, type, n)
  <2>1. h \in 1..4
    OBVIOUS
  <2>2. type \in DOMAIN messages
        /\ \A i \in DOMAIN fields : IsMessage(fields[i]) => fields[i].type \in AboveAt(h - 1, messages)
    BY <2>1, AboveMeans
  <2>3. m = [name \in Names(fields) |-> FullField(h - 1, messages, FieldOf(fields, name), n)]
    BY FullUnfolds
  <2>4. Sound(fields, Len(fields))
    BY <2>2 DEF Plain
  <2> HIDE DEF fields, m
  <2>5. ASSUME NEW i \in DOMAIN fields
        PROVE  FieldFits(h - 1, messages, fields[i], m[fields[i].name])
    <3> DEFINE f == fields[i]
               x == FullValue(h - 1, messages, f, n)
    <3>1. FieldOf(fields, f.name) = f /\ f.name \in Names(fields)
      <4>1. i \in 1..Len(fields)
        BY <2>4 DEF Sound
      <4> QED
        BY <2>4, <4>1, TheField DEF Names
    <3>2. m[f.name] = FullField(h - 1, messages, f, n)
      BY <2>3, <3>1
    <3>3. IsMessage(f) => f.type \in AboveAt(h - 1, messages)
      BY <2>2
    <3> HIDE DEF f
    <3>4. ElementAt(h - 1, messages, f, x)
      <4>1. CASE IsMessage(f)
        <5>1. x = FullAt(h - 1, messages, f.type, n)
          BY <4>1 DEF FullValue, IsMessage, Scalars
        <5>2. FitsAt(h - 1, messages, f.type, x)
          BY <1>2, <3>3, <4>1, <5>1
        <5> HIDE DEF x
        <5> QED
          BY <4>1, <5>2 DEF ElementAt, IsMessage, Scalars
      <4>2. CASE ~IsMessage(f)
        <5>1. f.type \in {"string", "int32", "int64", "bool"}
          BY <4>2 DEF IsMessage, Scalars
        <5>2. /\ f.type = "string" => x = "x"
              /\ f.type = "int32" => x = 1
              /\ f.type = "int64" => x = n
              /\ f.type = "bool" => x = TRUE
          BY DEF FullValue
        <5>3. "x" \notin {Undefined, Failed}
          BY DEF NoValue
        <5> HIDE DEF x
        <5>4. f.type = "string" => x \notin {Undefined, Failed}
          BY <5>2, <5>3
        <5>5. f.type = "bool" => x \in BOOLEAN
          BY <5>2
        <5>6. f.type \in {"int32", "int64"} => x \in Int
          BY <5>2
        <5> QED
          BY <4>2, <5>4, <5>5, <5>6 DEF ElementAt
      <4> QED
        BY <4>1, <4>2
    <3> HIDE DEF x
    <3>5. FieldFits(h - 1, messages, f, FullField(h - 1, messages, f, n))
      <4>1. CASE f.many
        BY <3>4, <4>1, ListOfOne DEF FieldFits, FullField, x
      <4>2. CASE ~f.many
        BY <3>4, <4>2 DEF FieldFits, FullField, x
      <4> QED
        BY <4>1, <4>2
    <3> QED
      BY <3>2, <3>5 DEF f
  <2>6. m = [name \in Names(fields) |-> m[name]]
    BY <2>3
  <2> QED
    BY <2>1, <2>2, <2>5, <2>6, FitsUnfolds DEF fields, m
<1> HIDE DEF P
<1>3. P(1)
  BY <1>1, <1>2
<1>4. P(2)
  BY <1>2, <1>3
<1>5. P(3)
  BY <1>2, <1>4
<1>6. \A h \in 1..3 : P(h)
  BY <1>3, <1>4, <1>5
<1> QED
  BY <1>6 DEF P

LEMMA ElementOfList ==
  ASSUME NEW h, NEW messages, NEW f, f.many, NEW x, NEW y,
         ElementAt(h, messages, f, x), ElementAt(h, messages, f, y)
  PROVE  /\ FieldFits(h, messages, f, <<x>>) /\ FieldFits(h, messages, f, <<x, y>>)
         /\ FieldFits(h, messages, f, <<>>)
<1>1. FieldFits(h, messages, f, <<x>>)
  BY ListOfOne DEF FieldFits
<1>2. FieldFits(h, messages, f, <<x, y>>)
  <2>1. /\ IsList(<<x, y>>) /\ DOMAIN <<x, y>> = {1, 2}
        /\ <<x, y>>[1] = x /\ <<x, y>>[2] = y
    BY ListOfTwo
  <2>2. \A k \in DOMAIN <<x, y>> : ElementAt(h, messages, f, <<x, y>>[k])
    BY <2>1
  <2> QED
    BY <2>1, <2>2 DEF FieldFits
<1>3. FieldFits(h, messages, f, <<>>)
  <2>1. <<>> \in Seq({}) /\ DOMAIN <<>> = {}
    BY EmptySeq
  <2>2. IsList(<<>>)
    BY <2>1 DEF IsList
  <2> QED
    BY <2>1, <2>2 DEF FieldFits
<1> QED
  BY <1>1, <1>2, <1>3

\* What FieldValues tries.
LEMMA ValuesTried ==
  ASSUME NEW messages, NEW f, NEW x \in FieldValues(messages, f)
  PROVE  LET bare == Base(messages[f.type])
             Full(n) == FullMessage(messages, f.type, n)
         IN  /\ f.many /\ IsMessage(f)
                  => x \in {<<>>, <<bare>>, <<Full(1), bare>>, <<Full(1), Full(MaxSafe + 1)>>}
             /\ f.many /\ ~IsMessage(f) => x \in {<<>>, <<"">>, <<"x", "">>}
             /\ ~f.many /\ IsMessage(f)
                  => x \in {Undefined, bare, Full(1), Full(-MaxSafe - 1)}
             /\ ~f.many /\ f.type = "string" => x \in {"", "x"}
             /\ ~f.many /\ f.type = "int32" => x \in {-1, 0, 1}
             /\ ~f.many /\ f.type = "int64"
                  => x \in {-MaxSafe - 1, -MaxSafe, 0, MaxSafe, MaxSafe + 1}
             /\ ~f.many /\ f.type = "bool" => x \in {FALSE, TRUE}
<1> DEFINE bare == Base(messages[f.type])
           Full(n) == FullMessage(messages, f.type, n)
<1>1. f.many /\ IsMessage(f)
        => x \in {<<>>, <<bare>>, <<Full(1), bare>>, <<Full(1), Full(MaxSafe + 1)>>}
  BY DEF FieldValues
<1>2. f.many /\ ~IsMessage(f) => x \in {<<>>, <<"">>, <<"x", "">>}
  BY DEF FieldValues
<1>3. ~f.many /\ IsMessage(f) => x \in {Undefined, bare, Full(1), Full(-MaxSafe - 1)}
  BY DEF FieldValues, IsMessage, Scalars
<1>4. ~f.many /\ f.type = "string" => x \in {"", "x"}
  BY DEF FieldValues
<1>5. ~f.many /\ f.type = "int32" => x \in {-1, 0, 1}
  BY DEF FieldValues
<1>6. ~f.many /\ f.type = "int64"
        => x \in {-MaxSafe - 1, -MaxSafe, 0, MaxSafe, MaxSafe + 1}
  BY DEF FieldValues
<1>7. ~f.many /\ f.type = "bool" => x \in {FALSE, TRUE}
  BY DEF FieldValues
<1> QED
  BY <1>1, <1>2, <1>3, <1>4, <1>5, <1>6, <1>7

LEMMA ValuesFit ==
  ASSUME NoValue(Undefined), NoValue(Failed), NEW messages, Plain(messages),
         NEW f, f.many => IsMessage(f) \/ f.type = "string",
         IsMessage(f) => f.type \in AboveAt(3, messages),
         NEW x \in FieldValues(messages, f)
  PROVE  FieldFits(3, messages, f, x)
<1> DEFINE bare == Base(messages[f.type])
           Full(n) == FullMessage(messages, f.type, n)
<1>1. /\ f.many /\ IsMessage(f)
           => x \in {<<>>, <<bare>>, <<Full(1), bare>>, <<Full(1), Full(MaxSafe + 1)>>}
      /\ f.many /\ ~IsMessage(f) => x \in {<<>>, <<"">>, <<"x", "">>}
      /\ ~f.many /\ IsMessage(f) => x \in {Undefined, bare, Full(1), Full(-MaxSafe - 1)}
      /\ ~f.many /\ f.type = "string" => x \in {"", "x"}
      /\ ~f.many /\ f.type = "int32" => x \in {-1, 0, 1}
      /\ ~f.many /\ f.type = "int64"
           => x \in {-MaxSafe - 1, -MaxSafe, 0, MaxSafe, MaxSafe + 1}
      /\ ~f.many /\ f.type = "bool" => x \in {FALSE, TRUE}
  BY ValuesTried
<1>2. ASSUME IsMessage(f)
      PROVE  /\ ElementAt(3, messages, f, bare)
             /\ \A n \in Int : ElementAt(3, messages, f, Full(n))
  <2>1. 3 \in 1..4 /\ 3 \in 1..3 /\ f.type \in AboveAt(3, messages)
    BY <1>2
  <2>2. f.type \in DOMAIN messages
    BY <2>1, AboveMeans
  <2>3. FitsAt(3, messages, f.type, bare)
    BY <2>1, <2>2, BareFits
  <2>4. ASSUME NEW n \in Int PROVE FitsAt(3, messages, f.type, Full(n))
    <3>1. FullAt(3, messages, f.type, n) = Full(n)
      BY DEF FullAt
    <3>2. FitsAt(3, messages, f.type, FullAt(3, messages, f.type, n))
      BY <2>1, FullFits
    <3> QED
      BY <3>1, <3>2
  <2> HIDE DEF bare, Full
  <2> QED
    BY <1>2, <2>3, <2>4 DEF ElementAt, IsMessage, Scalars
<1>3. 1 \in Int /\ MaxSafe + 1 \in Int /\ -MaxSafe - 1 \in Int /\ -MaxSafe \in Int /\ MaxSafe \in Int
  BY MaxSafeAssumption
<1> HIDE DEF bare, Full
<1>4. CASE f.many /\ IsMessage(f)
  <2>1. x \in {<<>>, <<bare>>, <<Full(1), bare>>, <<Full(1), Full(MaxSafe + 1)>>}
    BY <1>1, <1>4
  <2>2. ElementAt(3, messages, f, bare) /\ ElementAt(3, messages, f, Full(1))
        /\ ElementAt(3, messages, f, Full(MaxSafe + 1))
    BY <1>2, <1>3, <1>4
  <2>3. /\ FieldFits(3, messages, f, <<>>) /\ FieldFits(3, messages, f, <<bare>>)
        /\ FieldFits(3, messages, f, <<Full(1), bare>>)
    BY <1>4, <2>2, ElementOfList
  <2>4. FieldFits(3, messages, f, <<Full(1), Full(MaxSafe + 1)>>)
    BY <1>4, <2>2, ElementOfList
  <2> QED
    BY <2>1, <2>3, <2>4
<1>5. CASE f.many /\ ~IsMessage(f)
  <2>1. f.type = "string" /\ x \in {<<>>, <<"">>, <<"x", "">>}
    BY <1>1, <1>5
  <2>2. ElementAt(3, messages, f, "") /\ ElementAt(3, messages, f, "x")
    BY <1>5, <2>1 DEF ElementAt, NoValue
  <2>3. FieldFits(3, messages, f, <<>>) /\ FieldFits(3, messages, f, <<"">>)
    BY <1>5, <2>2, ElementOfList
  <2>4. FieldFits(3, messages, f, <<"x", "">>)
    BY <1>5, <2>2, ElementOfList
  <2> QED
    BY <2>1, <2>3, <2>4
<1>6. CASE ~f.many /\ IsMessage(f)
  <2>1. x \in {Undefined, bare, Full(1), Full(-MaxSafe - 1)}
    BY <1>1, <1>6
  <2>2. Default(f) = Undefined
    BY <1>6 DEF Default, IsMessage, Scalars
  <2>3. x = Undefined \/ ElementAt(3, messages, f, x)
    BY <1>2, <1>3, <1>6, <2>1
  <2> QED
    BY <1>6, <2>2, <2>3 DEF FieldFits
<1>7. CASE ~f.many /\ ~IsMessage(f)
  <2>1. f.type \in {"string", "int32", "int64", "bool"}
    BY <1>7 DEF IsMessage, Scalars
  <2>2. f.type = "string" => x \notin {Undefined, Failed}
    BY <1>1, <1>7 DEF NoValue
  <2>3. f.type = "int32" => x \in Int
    <3>1. \A y \in {-1, 0, 1} : y \in Int
      OBVIOUS
    <3>2. f.type = "int32" => x \in {-1, 0, 1}
      BY <1>1, <1>7
    <3> QED
      BY <3>1, <3>2
  <2>4. f.type = "int64" => x \in Int
    <3>1. \A y \in {-MaxSafe - 1, -MaxSafe, 0, MaxSafe, MaxSafe + 1} : y \in Int
      BY <1>3
    <3>2. f.type = "int64" => x \in {-MaxSafe - 1, -MaxSafe, 0, MaxSafe, MaxSafe + 1}
      BY <1>1, <1>7
    <3> QED
      BY <3>1, <3>2
  <2>5. f.type = "bool" => x \in BOOLEAN
    BY <1>1, <1>7
  <2>6. ElementAt(3, messages, f, x)
    BY <1>7, <2>2, <2>3, <2>4, <2>5 DEF ElementAt
  <2> QED
    BY <1>7, <2>6 DEF FieldFits
<1> QED
  BY <1>4, <1>5, <1>6, <1>7

LEMMA SamplesRuns ==
  ASSUME NEW n \in Nat, NEW messages, NEW type, DOMAIN messages[type] = 1..n
  PROVE  \E run : /\ Run(run, "samples", messages, messages[type], n)
                  /\ Samples(messages, type) = run[n]
<1> DEFINE fields == messages[type]
           Folds(it) == it = [s \in SUBSET (1..n) |->
                                IF s = {} THEN {<<>>}
                                ELSE Widened(messages, it[s \ {Max(s)}], fields[Max(s)])]
           it == CHOOSE it : Folds(it)
<1>1. Samples(messages, type) = it[1..n]
  BY DEF Samples, FoldLeft, MapThenFoldSet
<1>2. \A f : Folded(f, "samples", messages, fields, n) <=> Folds(f)
  BY DEF Folded, Take, Begun
<1> HIDE DEF Folds
<1>3. Folded(it, "samples", messages, fields, n)
  BY <1>2, FoldedExists
<1> HIDE DEF it
<1>4. \E run : Run(run, "samples", messages, fields, n) /\ it[1..n] = run[n]
  BY <1>3, FoldedRuns
<1> QED
  BY <1>1, <1>4

\* A message with its first i fields only.
Begins(messages, fields, i, p) ==
  /\ p = [name \in {fields[a].name : a \in 1..i} |-> p[name]]
  /\ \A a \in 1..i : p[fields[a].name] \in FieldValues(messages, fields[a])

LEMMA OneFieldTried ==
  ASSUME NEW messages, NEW fields, NEW n, Sound(fields, n), NEW i \in 1..n, NEW p,
         Begins(messages, fields, i - 1, p), NEW x \in FieldValues(messages, fields[i])
  PROVE  Begins(messages, fields, i, Put(p, fields[i].name, x))
<1> DEFINE name == fields[i].name
           old == {fields[a].name : a \in 1..(i - 1)}
           all == {fields[a].name : a \in 1..i}
           q == Put(p, name, x)
<1>1. p = [m \in old |-> p[m]] /\ DOMAIN p = old
  BY DEF Begins
<1>2. /\ \A a \in 1..i : a \in 1..n /\ (a = i \/ a \in 1..(i - 1))
      /\ \A a \in 1..(i - 1) : a \in 1..i /\ a # i
      /\ i \in 1..i
  BY DEF Sound
<1>3. name \notin old
  BY <1>2 DEF Sound
<1>4. old \cup {name} = all
  BY <1>2
<1>5. DOMAIN q = old \cup {name} /\ q = [m \in DOMAIN q |-> q[m]]
  BY <1>1 DEF Put
<1>6. q[name] = x /\ \A m \in old : q[m] = p[m]
  BY <1>1, <1>3 DEF Put
<1> HIDE DEF q
<1>7. ASSUME NEW a \in 1..i PROVE q[fields[a].name] \in FieldValues(messages, fields[a])
  <2>1. CASE a = i
    BY <1>6, <2>1
  <2>2. CASE a # i
    <3>1. a \in 1..(i - 1)
      BY <1>2, <2>2
    <3>2. fields[a].name \in old /\ p[fields[a].name] \in FieldValues(messages, fields[a])
      BY <3>1 DEF Begins
    <3> QED
      BY <1>6, <3>2
  <2> QED
    BY <2>1, <2>2
<1>8. q = [m \in all |-> q[m]]
  BY <1>4, <1>5
<1> QED
  BY <1>7, <1>8 DEF Begins, q

LEMMA SamplesBegin ==
  ASSUME NEW messages, NEW type, NEW n, Sound(messages[type], n)
  PROVE  \A p \in Samples(messages, type) : Begins(messages, messages[type], n, p)
<1> DEFINE fields == messages[type]
<1>1. n \in Nat /\ DOMAIN fields = 1..n
  BY DEF Sound
<1>2. PICK run : Run(run, "samples", messages, fields, n) /\ Samples(messages, type) = run[n]
  BY <1>1, SamplesRuns
<1> HIDE DEF fields
<1>3. /\ run[0] = {<<>>}
      /\ \A i \in 1..n : run[i] = Widened(messages, run[i - 1], fields[i])
  BY <1>2 DEF Run, Take, Begun
<1> DEFINE P == {i \in 0..n : \A p \in run[i] : Begins(messages, fields, i, p)}
<1>4. 0 \in P
  <2>1. Begins(messages, fields, 0, <<>>)
    <3>1. <<>> \in Seq({}) /\ Len(<<>>) = 0
      BY EmptySeq
    <3>2. <<>> = [k \in 1..0 |-> <<>>[k]]
      BY <3>1
    <3>3. 1..0 = {} /\ {fields[a].name : a \in 1..0} = {}
      OBVIOUS
    <3> QED
      BY <3>2, <3>3 DEF Begins
  <2> QED
    BY <1>1, <1>3, <2>1
<1>5. ASSUME NEW i \in 1..n, i - 1 \in P PROVE i \in P
  <2> SUFFICES ASSUME NEW q \in run[i] PROVE Begins(messages, fields, i, q)
    OBVIOUS
  <2>1. PICK p \in run[i - 1], x \in FieldValues(messages, fields[i]) :
          q = Put(p, fields[i].name, x)
    BY <1>3 DEF Widened
  <2>2. Begins(messages, fields, i - 1, p)
    BY <1>5
  <2>3. Begins(messages, fields, i, Put(p, fields[i].name, x))
    BY <2>2, OneFieldTried DEF fields
  <2> QED
    BY <2>1, <2>3
<1>6. n \in P
  <2> HIDE DEF P
  <2>1. 0..n \subseteq P
    BY <1>1, <1>4, <1>5, CountingUp
  <2> QED
    BY <1>1, <2>1
<1> QED
  BY <1>2, <1>6 DEF fields

\* What is tried is a message of the table, at most four deep.
LEMMA SamplesFit ==
  ASSUME NoValue(Undefined), NoValue(Failed), NEW messages, Plain(messages),
         NEW type \in AboveAt(4, messages), NEW m \in Samples(messages, type)
  PROVE  Fits(messages, type, m)
<1> DEFINE fields == messages[type]
           n == Len(fields)
<1>1. /\ 4 \in 1..4 /\ 4 - 1 = 3 /\ type \in DOMAIN messages
      /\ \A i \in DOMAIN fields : IsMessage(fields[i]) => fields[i].type \in AboveAt(3, messages)
  <2>1. 4 \in 1..4 /\ 4 - 1 = 3
    OBVIOUS
  <2> QED
    BY <2>1, AboveMeans
<1>2. Sound(fields, n)
  BY <1>1 DEF Plain
<1>3. Begins(messages, fields, n, m) /\ DOMAIN fields = 1..n
  BY <1>2, SamplesBegin DEF Sound
<1>4. \A i \in DOMAIN fields : FieldFits(3, messages, fields[i], m[fields[i].name])
  <2> SUFFICES ASSUME NEW i \in DOMAIN fields
               PROVE  FieldFits(3, messages, fields[i], m[fields[i].name])
    OBVIOUS
  <2>1. m[fields[i].name] \in FieldValues(messages, fields[i])
    BY <1>3 DEF Begins
  <2>2. /\ fields[i].many => IsMessage(fields[i]) \/ fields[i].type = "string"
        /\ IsMessage(fields[i]) => fields[i].type \in AboveAt(3, messages)
    BY <1>1 DEF Plain
  <2> QED
    BY <2>1, <2>2, ValuesFit
<1>5. m = [name \in Names(fields) |-> m[name]]
  BY <1>3 DEF Begins, Names
<1>6. FitsAt(4, messages, type, m)
  BY <1>1, <1>4, <1>5, FitsUnfolds
<1> QED
  BY <1>6 DEF FitsAt

--------------------------------------------------------------------------------
(* The calls.                                                                  *)

LEMMA TablesArePlain ==
  ASSUME NEW copy \in Copies
  PROVE  Plain(Messages(copy)) /\ AboveAt(4, Messages(copy)) = DOMAIN Messages(copy)
<1> DEFINE messages == Messages(copy)
<1>1. \A type \in DOMAIN messages : Sound(messages[type], Len(messages[type]))
  BY TheTables DEF Copied
<1>2. /\ DOMAIN messages
           = Above(messages, Above(messages, Above(messages, Above(messages, {}))))
      /\ \A type \in DOMAIN messages : \A i \in DOMAIN messages[type] :
           messages[type][i].many
             => IsMessage(messages[type][i]) \/ messages[type][i].type = "string"
  BY TablesNest
<1> HIDE DEF messages
<1>3. Plain(messages)
  BY <1>1, <1>2 DEF Plain
<1>4. AboveAt(4, messages) = DOMAIN messages
  BY <1>2 DEF AboveAt
<1> QED
  BY <1>3, <1>4 DEF messages

\* The call under way, if there is one, is of a method and carries a message that
\* is tried.
CallInv ==
  call # Idle =>
    /\ call.sender \in Copies /\ call.receiver \in Copies
    /\ SentType \in DOMAIN Messages(call.sender) /\ ReadType = SentType
    /\ call.message \in Samples(Messages(call.sender), SentType)

\* The call under way is always of a method both copies have, for the message
\* type both mean by it.
THEOREM CallInvariant == Spec => []CallInv
<1>1. Init => CallInv
  BY DEF Init, CallInv
<1>2. CallInv /\ [Next]_call => CallInv'
  <2> SUFFICES ASSUME CallInv, [Next]_call PROVE CallInv'
    OBVIOUS
  <2>1. CASE Sent
    <3>a. PICK sender \in Copies, receiver \in Copies :
            \E service \in DOMAIN Services(sender) :
              \E method \in DOMAIN Services(sender)[service],
                 direction \in {"request", "response"} :
                \E message \in Samples(Messages(sender),
                                       Carries(sender, service, method, direction)) :
                  call' = [service |-> service, method |-> method, direction |-> direction,
                           sender |-> sender, receiver |-> receiver, message |-> message]
      BY <2>1 DEF Sent
    <3>b. PICK service \in DOMAIN Services(sender) :
            \E method \in DOMAIN Services(sender)[service],
               direction \in {"request", "response"} :
              \E message \in Samples(Messages(sender),
                                     Carries(sender, service, method, direction)) :
                call' = [service |-> service, method |-> method, direction |-> direction,
                         sender |-> sender, receiver |-> receiver, message |-> message]
      BY <3>a
    <3>c. PICK method \in DOMAIN Services(sender)[service],
               direction \in {"request", "response"} :
            \E message \in Samples(Messages(sender),
                                   Carries(sender, service, method, direction)) :
              call' = [service |-> service, method |-> method, direction |-> direction,
                       sender |-> sender, receiver |-> receiver, message |-> message]
      BY <3>b
    <3>1. PICK message \in Samples(Messages(sender),
                                  Carries(sender, service, method, direction)) :
            call' = [service |-> service, method |-> method, direction |-> direction,
                     sender |-> sender, receiver |-> receiver, message |-> message]
      BY <3>c
    <3>2. /\ call'.sender = sender /\ call'.receiver = receiver /\ call'.message = message
          /\ call'.service = service /\ call'.method = method /\ call'.direction = direction
      BY <3>1
    <3>3. SentType' = Carries(sender, service, method, direction)
      BY <3>2 DEF SentType
    <3>4. ReadType' = Carries(receiver, service, method, direction)
      BY <3>2 DEF ReadType
    <3>5. Services(sender) = Services(receiver)
      BY CopiesAgree DEF Copies
    <3>6. Carries(sender, service, method, direction)
            = Carries(receiver, service, method, direction)
      BY <3>5 DEF Carries
    <3>7. Carries(sender, service, method, direction) \in DOMAIN Messages(sender)
      BY MethodsCarryMessages
    <3> QED
      BY <3>2, <3>3, <3>4, <3>6, <3>7 DEF CallInv
  <2>2. CASE Done
    BY <2>2 DEF Done, CallInv, Idle
  <2>3. CASE UNCHANGED call
    BY <2>3 DEF CallInv, SentType, ReadType, Carries, Services, Messages
  <2> QED
    BY <2>1, <2>2, <2>3 DEF Next
<1> QED
  BY <1>1, <1>2, PTL DEF Spec

LEMMA CallFits ==
  ASSUME NoValue(Undefined), NoValue(Failed), CallInv, call # Idle
  PROVE  /\ call.sender \in Copies /\ call.receiver \in Copies /\ ReadType = SentType
         /\ SentType \in DOMAIN Messages(call.sender)
         /\ Fits(Messages(call.sender), SentType, call.message)
<1>1. /\ call.sender \in Copies /\ call.receiver \in Copies
      /\ SentType \in DOMAIN Messages(call.sender) /\ ReadType = SentType
      /\ call.message \in Samples(Messages(call.sender), SentType)
  BY DEF CallInv
<1>2. /\ Plain(Messages(call.sender))
      /\ SentType \in AboveAt(4, Messages(call.sender))
  BY <1>1, TablesArePlain
<1> QED
  BY <1>1, <1>2, SamplesFit

\* A message reads at the other copy as it was sent, whatever entry a newer peer
\* adds to it; an int64 that a number cannot hold fails it.
THEOREM CopiesAgreeOnTheWireHolds ==
  ASSUME NoValue(Undefined), NoValue(Failed) PROVE Spec => []CopiesAgreeOnTheWire
<1>1. CallInv => CopiesAgreeOnTheWire
  <2> SUFFICES ASSUME CallInv, call # Idle,
                      NEW w \in Received(Encode(Messages(call.sender), SentType, call.message),
                                         Messages(call.receiver)[ReadType])
               PROVE  Decode(Messages(call.receiver), ReadType, w)
                        = IF IsSafe(Messages(call.sender), SentType, call.message)
                          THEN call.message ELSE Failed
    BY DEF CopiesAgreeOnTheWire
  <2> DEFINE A == Messages(call.sender)
             B == Messages(call.receiver)
             type == SentType
             m == call.message
  <2>1. /\ call.sender \in Copies /\ call.receiver \in Copies
        /\ ReadType = type /\ type \in DOMAIN A /\ Fits(A, type, m)
    BY CallFits
  <2>2. Copied(A, B) /\ Small(B[type])
    <3>1. Copied(A, B) /\ \A t \in DOMAIN B : Small(B[t])
      BY <2>1, TheTables
    <3> QED
      BY <2>1, <3>1 DEF Copied
  <2>3. w \in Received(Encode(A, type, m), B[type])
    BY <2>1
  <2> HIDE DEF A, B, type, m
  <2>4. Decode(B, type, w) = IF IsSafe(A, type, m) THEN m ELSE Failed
    BY <2>1, <2>2, <2>3, EveryMessageComesBack
  <2> QED
    BY <2>1, <2>4 DEF A, B, type, m
<1> QED
  BY <1>1, CallInvariant, PTL

\* JSON and fromPartial keep a message whole between the copies; under the names
\* of the .proto file the web tier reads it whole too, and the app the fields
\* that have one name.
THEOREM CopiesAgreeOnJSONHolds ==
  ASSUME NoValue(Undefined), NoValue(Failed) PROVE Spec => []CopiesAgreeOnJSON
<1>1. CallInv => CopiesAgreeOnJSON
  <2> SUFFICES ASSUME CallInv, call # Idle PROVE CopiesAgreeOnJSON
    BY DEF CopiesAgreeOnJSON
  <2> DEFINE A == Messages(call.sender)
             B == Messages(call.receiver)
             W == Messages("web")[SentType]
             T == B[SentType]
             type == SentType
             m == call.message
             n == Len(A[type])
             object == ToJSON(A, type, m)
             kept(name) == call.receiver = "web" \/ FieldOf(W, name).aliases[2] = name
  <2>1. /\ call.sender \in Copies /\ call.receiver \in Copies
        /\ ReadType = type /\ type \in DOMAIN A /\ Fits(A, type, m)
    BY CallFits
  <2>2. Copied(A, B) /\ NamedFields(A, B)
    BY <2>1, TheTables
  <2>3. FromJSON(B, type, object) = m /\ FromPartial(B, type, object) = m
    BY <2>1, <2>2, EveryObjectComesBack
  <2>4. /\ Sound(W, n) /\ SameFields(A[type], W) /\ OwnNames(W, n)
        /\ OwnNames(T, n)
    <3>1. "web" \in Copies
      BY DEF Copies
    <3>2. Copied(A, Messages("web")) /\ NamedFields(A, Messages("web"))
      BY <2>1, <3>1, TheTables
    <3> QED
      BY <2>1, <2>2, <3>2 DEF Copied, NamedFields
  <2>5. DOMAIN W = 1..n
    BY <2>4 DEF Sound
  <2>6. ASSUME NEW i \in 1..n
        PROVE  /\ \A k \in 1..2 : \E l \in 1..2 : T[i].aliases[k] = W[i].aliases[l]
               /\ Knows(T, W, i) <=> kept(W[i].name)
    <3>0. FieldOf(W, W[i].name) = W[i]
      BY <2>4, TheField
    <3>1. CASE call.receiver = "web"
      <4>1. T = W /\ 2 \in 1..2
        BY <3>1
      <4>2. kept(W[i].name)
        BY <3>1
      <4> HIDE DEF T, W, kept
      <4> QED
        BY <4>1, <4>2 DEF Knows
    <3>2. CASE call.receiver = "app"
      <4>1. T[i].aliases[2] = T[i].name /\ T[i].name = W[i].name
        BY <2>1, <2>2, <2>5, <3>2, CopiesAgree DEF Copied, SameField
      <4>2. T[i].aliases[1] = T[i].name /\ W[i].aliases[1] = W[i].name
        BY <2>4 DEF OwnNames
      <4>3. kept(W[i].name) <=> W[i].aliases[2] = W[i].name
        BY <3>0, <3>2
      <4> HIDE DEF T, W, kept
      <4>4. \A k \in 1..2 : T[i].aliases[k] = W[i].aliases[1]
        <5>1. \A k \in 1..2 : k = 1 \/ k = 2
          OBVIOUS
        <5> QED
          BY <4>1, <4>2, <5>1
      <4>5. 1 \in 1..2
        OBVIOUS
      <4> QED
        BY <4>2, <4>3, <4>4, <4>5 DEF Knows
    <3> QED
      BY <2>1, <3>1, <3>2 DEF Copies
  <2>7. NamesOf(T, W, n)
    BY <2>4, <2>6 DEF NamesOf, OwnNames
  <2>8. FromJSON(B, type, Under(W, object))
          = [name \in Names(W) |->
               IF Knows(T, W, Place(W, name)) THEN m[name] ELSE Default(FieldOf(W, name))]
    <3> HIDE DEF A, B, W, m, n
    <3> QED
      BY <2>1, <2>2, <2>4, <2>7, UnderComesBack DEF object, n
  <2>9. \A name \in Names(W) : Knows(T, W, Place(W, name)) <=> kept(name)
    <3> HIDE DEF T, W, kept, n
    <3> SUFFICES ASSUME NEW name \in Names(W)
                 PROVE  Knows(T, W, Place(W, name)) <=> kept(name)
      OBVIOUS
    <3>1. PICK i \in 1..n : name = W[i].name
      BY <2>4, TheNames
    <3>2. Place(W, name) = i
      BY <2>4, <3>1, ThePlace
    <3> QED
      BY <2>6, <3>1, <3>2
  <2>10. Renamed(object) = Under(W, object)
    BY DEF Renamed, Under
  <2>11. FromJSON(B, type, Renamed(object))
          = [name \in Names(W) |-> IF kept(name) THEN m[name] ELSE Default(FieldOf(W, name))]
    BY <2>8, <2>9, <2>10
  <2> QED
    BY <2>1, <2>3, <2>11 DEF CopiesAgreeOnJSON
<1> QED
  BY <1>1, CallInvariant, PTL

--------------------------------------------------------------------------------
(* The run.                                                                    *)

\* In the run operators the parts do not interact: each goes its own way, so what
\* is proved of a part's specification holds in the run.
THEOREM RunIsTheParts == OperatorsSpec => MinutesSpec /\ RulesSpec /\ SpansSpec /\ Spec
<1>1. OperatorsInit => MinutesInit /\ RulesInit /\ SpansInit /\ Init
  BY DEF OperatorsInit
<1>2. [OperatorsNext]_<<call, minutes, seen, rows>>
        => /\ [MinutesNext]_minutes /\ [RulesNext]_seen
           /\ [SpansNext]_rows /\ [Next]_call
  <2> SUFFICES ASSUME [OperatorsNext]_<<call, minutes, seen, rows>>
               PROVE  /\ MinutesNext \/ minutes' = minutes
                      /\ RulesNext \/ seen' = seen
                      /\ SpansNext \/ rows' = rows
                      /\ Next \/ call' = call
    OBVIOUS
  <2>1. CASE DetectorsMove
    BY <2>1 DEF DetectorsMove
  <2>2. CASE RulesMove
    BY <2>2 DEF RulesMove
  <2>3. CASE SpansMove
    BY <2>3 DEF SpansMove
  <2>4. CASE CodecMoves
    BY <2>4 DEF CodecMoves
  <2>5. CASE UNCHANGED <<call, minutes, seen, rows>>
    BY <2>5
  <2> QED
    BY <2>1, <2>2, <2>3, <2>4, <2>5 DEF OperatorsNext
<1> QED
  BY <1>1, <1>2, PTL DEF OperatorsSpec, MinutesSpec, RulesSpec, SpansSpec, Spec

================================================================================
