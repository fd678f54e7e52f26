------------------------------ MODULE StreamLife ------------------------------
(***************************************************************************)
(* What CMusikPlayer promises for the streams it opens, whoever touches    *)
(* them: a stream is opened once, becomes audible at most once, and is     *)
(* deleted once; nothing comes back after its deletion and no stream is    *)
(* lost without being deleted.                                             *)
(***************************************************************************)
EXTENDS Naturals

CONSTANT Stream
VARIABLE stage

Stages == {"unopened", "opening", "active", "deleted"}

Init == stage = [n \in Stream |-> "unopened"]

(* The player opens one stream at a time.                                  *)
Open(n) ==
    /\ stage[n] = "unopened"
    /\ \A m \in Stream : stage[m] # "opening"
    /\ stage' = [stage EXCEPT ![n] = "opening"]

Activate(n) ==
    /\ stage[n] = "opening"
    /\ stage' = [stage EXCEPT ![n] = "active"]

(* Streams are deleted together; a stream that never played may be one.    *)
Delete(S) ==
    /\ \A n \in S : stage[n] \in {"opening", "active"}
    /\ stage' = [n \in Stream |-> IF n \in S THEN "deleted" ELSE stage[n]]

Next == \/ \E n \in Stream : Open(n) \/ Activate(n)
        \/ \E S \in SUBSET Stream : Delete(S)

Spec == Init /\ [][Next]_stage
=============================================================================
