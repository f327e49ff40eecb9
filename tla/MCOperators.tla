---------------------------- MODULE MCOperators ----------------------------
(* The parts that compute a result from an input and keep no state of their   *)
(* own: the RED detectors, the rules of the incident engine, the reduction of *)
(* a batch of spans, and the message codec of the demo shop.  They do not     *)
(* interact, so one moves while the others are at rest.                       *)
EXTENDS MCProtoCodec, MCRedDetector, MCIncidentRules, MCSpanBatch

OperatorsInit == Init /\ MinutesInit /\ RulesInit /\ SpansInit

DetectorsMove ==
  /\ call = Idle /\ seen = {} /\ rows = <<>>
  /\ MinutesNext /\ UNCHANGED <<call, seen, rows>>

RulesMove ==
  /\ call = Idle /\ minutes = <<>> /\ rows = <<>>
  /\ RulesNext /\ UNCHANGED <<call, minutes, rows>>

SpansMove ==
  /\ call = Idle /\ minutes = <<>> /\ seen = {}
  /\ SpansNext /\ UNCHANGED <<call, minutes, seen>>

CodecMoves ==
  /\ minutes = <<>> /\ seen = {} /\ rows = <<>>
  /\ Next /\ UNCHANGED <<minutes, seen, rows>>

OperatorsNext == DetectorsMove \/ RulesMove \/ SpansMove \/ CodecMoves

OperatorsSpec == OperatorsInit /\ [][OperatorsNext]_<<call, minutes, seen, rows>>

================================================================================
