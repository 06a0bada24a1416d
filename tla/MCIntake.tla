------------------------------ MODULE MCIntake ------------------------------
(* Instances of Intake: requests that share a LOT, an inbound number, both   *)
(* or neither, and one that states another date for an inbound number.       *)
EXTENDS Intake

CONSTANTS k1, n1, n2, i1, i2, today, yesterday

Body(n, i, of) == [number |-> n, inbound |-> i, of |-> of]
MCRequests == {Body(n1, i1, today), Body(n2, i1, yesterday), Body(n1, i2, today)}

MCOneRequest == {Body(n1, i1, today)}

(* The keys are alike: let the first call have the first of them.           *)
FirstKey == call'[1].stage > 0 => call'[1].key = k1
=============================================================================
