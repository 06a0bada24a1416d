-------------------------- MODULE QualityDecision --------------------------
(***************************************************************************)
(* What inspection cases promise to the rest of the system: each gathers    *)
(* evidence, is decided at most once, on the evidence it has at that        *)
(* moment, and neither the evidence nor the decision of a decided case ever *)
(* changes.                                                                 *)
(***************************************************************************)
CONSTANTS
  Cases,
  Evidence,          \* everything a case can have gathered
  Decisions, None,   \* final decisions, and the absence of one
  Justified(_, _)    \* Justified(e, d): evidence e supports decision d

VARIABLES
  evidence,          \* case -> what it has gathered
  decision           \* case -> its final decision, or None

vars == <<evidence, decision>>

Undecided(c) == decision[c] = None

Init ==
  /\ evidence \in [Cases -> Evidence]
  /\ decision = [c \in Cases |-> None]

(* Evidence is replaced as a whole.                                         *)
Gather(c, e) ==
  /\ Undecided(c)
  /\ evidence' = [evidence EXCEPT ![c] = e]
  /\ UNCHANGED decision

Decide(c, d) ==
  /\ Undecided(c)
  /\ Justified(evidence[c], d)
  /\ decision' = [decision EXCEPT ![c] = d]
  /\ UNCHANGED evidence

Next ==
  \E c \in Cases :
    \/ \E e \in Evidence : Gather(c, e)
    \/ \E d \in Decisions : Decide(c, d)

Spec == Init /\ [][Next]_vars
=============================================================================
