---------------------------- MODULE Traceability ----------------------------
(***************************************************************************)
(* Which production lots a material LOT went into: the tables of migration    *)
(* 0012, load_traceability_graph (hyc_api/traceability_source.py), which reads *)
(* them in three statements of one transaction, and impact_scope               *)
(* (hyc_domain/traceability.py), which walks what was read.  Rows other        *)
(* transactions add between two of the statements are seen by the later one.   *)
(***************************************************************************)
EXTENDS NoValue, Naturals, Sequences, FiniteSets, SequencesExt

CONSTANTS
  Materials,     \* material LOTs, from which a trace starts
  Products,      \* production lots
  Deliveries     \* receipt_lot_allocations

ASSUME TraceAssumption ==
  None \notin Materials \cup Products /\ IsFiniteSet(Products)

VARIABLES
  target,     \* receipt_lot_allocations: allocation -> the LOT it belongs to, or None
  produced,   \* production_lots
  consumed,   \* material_lot_consumptions: <<allocation, production lot>>
  graph,      \* what the load has read so far
  walk        \* the traversal: where it starts, its queue, what it found

traceVars == <<target, produced, consumed, graph, walk>>
tables == <<target, produced, consumed>>

Nodes == Materials \cup Products
Unread == [target |-> [d \in Deliveries |-> None], consumed |-> {}, produced |-> {}]
AtRest == [step |-> "rest", start |-> None, visited |-> {}, pending |-> <<>>,
            impacted |-> {}, done |-> {}, before |-> {}]

TraceTypeOK ==
  /\ target \in [Deliveries -> Nodes \cup {None}]
  /\ produced \subseteq Products /\ consumed \subseteq Deliveries \X produced
  /\ graph.target \in [Deliveries -> Nodes \cup {None}]
  /\ graph.consumed \subseteq Deliveries \X Products /\ graph.produced \subseteq Products
  /\ walk.step \in {"rest", "consumptions", "lots", "walk"}
  /\ walk.pending \in Seq(Nodes) /\ walk.impacted \subseteq Products

InitTrace ==
  /\ target = [d \in Deliveries |-> None]
  /\ produced = {} /\ consumed = {}
  /\ graph = Unread /\ walk = AtRest

-----------------------------------------------------------------------------
(* trace_forward and its helpers: the production lots that consumed an        *)
(* allocation of a LOT, of those that are known.                              *)
Direct(t, c, p, lot) == {q \in p : \E d \in Deliveries : t[d] = lot /\ <<d, q>> \in c}

(* What is downstream of a LOT: the definition the traversal is checked by.    *)
Downstream(t, c, p, lot) ==
  LET reached[n \in 0 .. Cardinality(Products)] ==
        IF n = 0 THEN Direct(t, c, p, lot)
        ELSE reached[n - 1] \cup UNION {Direct(t, c, p, q) : q \in reached[n - 1]}
  IN reached[Cardinality(Products)]

-----------------------------------------------------------------------------
(* The tables: foreign keys, one consumption per pair, nothing is taken back.  *)
Allocate(d, lot) ==
  /\ target[d] = None /\ lot \in Materials \cup produced
  /\ target' = [target EXCEPT ![d] = lot]
  /\ UNCHANGED <<produced, consumed, graph, walk>>
Produce(q) ==
  /\ q \notin produced
  /\ produced' = produced \cup {q}
  /\ UNCHANGED <<target, consumed, graph, walk>>
Consume(d, q) ==
  /\ target[d] # None /\ q \in produced /\ <<d, q>> \notin consumed
  /\ consumed' = consumed \cup {<<d, q>>}
  /\ UNCHANGED <<target, produced, graph, walk>>

(* load_traceability_graph, statement by statement.                           *)
ReadAllocations(lot) ==
  /\ walk.step = "rest"
  /\ graph' = [Unread EXCEPT !.target = target]
  /\ walk' = [AtRest EXCEPT !.step = "consumptions", !.start = lot,
                             !.before = Downstream(target, consumed, produced, lot)]
  /\ UNCHANGED tables
ReadConsumptions ==
  /\ walk.step = "consumptions"
  /\ graph' = [graph EXCEPT !.consumed = consumed]
  /\ walk' = [walk EXCEPT !.step = "lots"]
  /\ UNCHANGED tables
ReadProductionLots ==
  /\ walk.step = "lots"
  /\ graph' = [graph EXCEPT !.produced = produced]
  /\ walk' = [walk EXCEPT !.step = "walk", !.visited = {walk.start},
                          !.pending = <<walk.start>>]
  /\ UNCHANGED tables

(* impact_scope: the next LOT of the queue.                                   *)
Forward(lot) ==                                           \* mutant
  IF lot = walk.start THEN Direct(graph.target, graph.consumed, graph.produced, lot) ELSE {}
ItselfToo(lot) ==                                         \* mutant
  {lot} \cup Direct(graph.target, graph.consumed, graph.produced, lot)
Consumers(lot) == Direct(graph.target, graph.consumed, graph.produced, lot)
LastOnly(lot) == {lot} \cup Consumers(lot)                   \* mutant
Visited(lot) == walk.visited \cup Consumers(lot)

VisitNext ==
  /\ walk.step = "walk" /\ walk.pending # <<>>
  /\ LET lot == Head(walk.pending) IN
     walk' = [walk EXCEPT !.impacted = @ \cup Consumers(lot), !.visited = Visited(lot),
                          !.done = @ \cup {lot},
                          !.pending = Tail(walk.pending)
                                        \o SetToSeq(Consumers(lot) \ walk.visited)]
  /\ UNCHANGED <<target, produced, consumed, graph>>
Answered ==
  /\ walk.step = "walk" /\ walk.pending = <<>>
  /\ walk' = AtRest /\ graph' = Unread
  /\ UNCHANGED tables

NextTrace ==
  \/ \E d \in Deliveries :
       (\E lot \in Nodes : Allocate(d, lot)) \/ (\E q \in Products : Consume(d, q))
  \/ \E q \in Products : Produce(q)
  \/ \E lot \in Materials : ReadAllocations(lot)
  \/ ReadConsumptions \/ ReadProductionLots \/ VisitNext \/ Answered

TraceSpec == InitTrace /\ [][NextTrace]_traceVars
-----------------------------------------------------------------------------
(* An answer names every production lot that was downstream when the load      *)
(* began, a cycle in the records or not, and none that is not downstream now:  *)
(* the three statements may see different moments and still invent nothing.    *)
ImpactIsDownstream ==
  walk.step = "walk" /\ walk.pending = <<>> =>
    /\ walk.before \subseteq walk.impacted
    /\ walk.impacted \subseteq Downstream(target, consumed, produced, walk.start)

(* A traversal visits no LOT twice, also when a production lot went into       *)
(* itself, and so ends after as many visits as there are LOTs.                 *)
NoLotTwice ==
  /\ \A i, j \in DOMAIN walk.pending : walk.pending[i] = walk.pending[j] => i = j
  /\ ToSet(walk.pending) \cap walk.done = {}

(* An answer is exact, and the traversal that makes it visits each LOT once.   *)
TraceIsExact == ImpactIsDownstream /\ NoLotTwice
=============================================================================
