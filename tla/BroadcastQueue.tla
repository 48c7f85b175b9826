---------------------------- MODULE BroadcastQueue ----------------------------
(***************************************************************************)
(* What a MessageQueue promises its users: one writer and a fixed set of   *)
(* readers share a bounded queue; every reader takes every message once,   *)
(* in the order of writing, at its own pace; nothing is dropped, and the   *)
(* slowest reader is at most Capacity messages behind the writer.          *)
(***************************************************************************)
EXTENDS Naturals

CONSTANTS Readers, Capacity

VARIABLES published,   \* messages written so far
          taken        \* reader -> messages it has taken

Init == published = 0 /\ taken = [r \in Readers |-> 0]

Publish ==
  /\ \A r \in Readers : published < taken[r] + Capacity
  /\ published' = published + 1 /\ UNCHANGED taken

Take(r) ==
  /\ taken[r] < published
  /\ taken' = [taken EXCEPT ![r] = @ + 1] /\ UNCHANGED published

Next == Publish \/ \E r \in Readers : Take(r)

Spec == Init /\ [][Next]_<<published, taken>>
===============================================================================
