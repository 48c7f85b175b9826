---------------------------- MODULE OwnedContainer ----------------------------
(***************************************************************************)
(* What a supervisor promises the launcher about the container it owns,    *)
(* whatever the daemon answers and however often the supervisor crashes    *)
(* and is resumed: the container is claimed once and runs once, and the    *)
(* claim is given up only when it can never run again.                     *)
(***************************************************************************)
VARIABLES life,    \* "unclaimed", "claimed", "running" or "over"
          claim    \* "held", "orphaned" while no supervisor runs, or "released"

Init == life = "unclaimed" /\ claim = "held"

Claim ==
  /\ life = "unclaimed" /\ claim = "held"
  /\ life' = "claimed" /\ UNCHANGED claim

\* The daemon may carry out what it was told while nobody supervises.
Run ==
  /\ life = "claimed" /\ claim # "released"
  /\ life' = "running" /\ UNCHANGED claim

End ==
  /\ life = "running"
  /\ life' = "over" /\ UNCHANGED claim

Orphan ==
  /\ claim = "held"
  /\ claim' = "orphaned" /\ UNCHANGED life

Resume ==
  /\ claim = "orphaned"
  /\ claim' = "held" /\ UNCHANGED life

Release ==
  /\ claim = "held" /\ life # "running"
  /\ claim' = "released" /\ UNCHANGED life

Next == Claim \/ Run \/ End \/ Orphan \/ Resume \/ Release

Spec == Init /\ [][Next]_<<life, claim>>
===============================================================================
