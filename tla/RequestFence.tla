----------------------------- MODULE RequestFence -----------------------------
(***************************************************************************)
(* What the TP generation lifecycle promises to the engine, with the RPC   *)
(* transport, the scheduler and the cleanup protocol left out: a TP group  *)
(* of ranks serves one generation at a time; every rank adopts it, no rank *)
(* leaves it before all of them have been sealed (proved quiescent), all   *)
(* of them leave before the next generation is admitted, and a poisoned    *)
(* group never admits another one.                                         *)
(***************************************************************************)
EXTENDS Naturals

CONSTANT Ranks

VARIABLES
  gate,     \* answer of stability_request_admission_state
  served,   \* generations completed with an all-rank clean baseline
  using,    \* ranks that have adopted the generation being served
  sealed    \* every rank has proved the generation quiescent

vars == <<gate, served, using, sealed>>

TypeOK ==
  /\ gate \in {"ready", "busy", "poisoned"}
  /\ served \in Nat
  /\ using \subseteq Ranks
  /\ sealed \in BOOLEAN

Init ==
  /\ gate = "ready"
  /\ served = 0
  /\ using = {}
  /\ sealed = FALSE

\* The next generation is admitted only when no rank is inside another one.
\* A poison that arrives meanwhile may shut the gate at once.
Admit ==
  /\ gate = "ready"
  /\ using = {}
  /\ gate' \in {"busy", "poisoned"}
  /\ UNCHANGED <<served, using, sealed>>

Adopt(r) ==
  /\ gate # "ready"
  /\ ~sealed
  /\ r \notin using
  /\ using' = using \cup {r}
  /\ UNCHANGED <<gate, served, sealed>>

Seal ==
  /\ gate # "ready"
  /\ using = Ranks
  /\ ~sealed
  /\ sealed' = TRUE
  /\ UNCHANGED <<gate, served, using>>

Leave(r) ==
  /\ sealed
  /\ r \in using
  /\ using' = using \ {r}
  /\ UNCHANGED <<gate, served, sealed>>

Complete ==
  /\ gate = "busy"
  /\ sealed
  /\ using = {}
  /\ served' = served + 1
  /\ sealed' = FALSE
  /\ gate' \in {"ready", "poisoned"}
  /\ UNCHANGED using

\* Fail closed; there is no step out of "poisoned".
Poison ==
  /\ gate' = "poisoned"
  /\ UNCHANGED <<served, using, sealed>>

Next ==
  \/ Admit \/ Seal \/ Complete \/ Poison
  \/ \E r \in Ranks : Adopt(r) \/ Leave(r)

Spec == Init /\ [][Next]_vars

===============================================================================
