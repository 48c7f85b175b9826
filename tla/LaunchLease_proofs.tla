--------------------------- MODULE LaunchLease_proofs ---------------------------
(***************************************************************************)
(* Proofs about LaunchLease, for every layout of homes, candidate          *)
(* directories and gates, and every number of launches, boots, crashes,    *)
(* resumes and faults: LaunchInv is an invariant; what follows of it for   *)
(* containers, for orphans and for claims.                                 *)
(***************************************************************************)
EXTENDS LaunchLease, TLAPS

\* The invariant holds at first.
LEMMA InitLaunchInv == Init => LaunchInv
<1> SUFFICES ASSUME Init PROVE LaunchInv
  OBVIOUS
<1> USE LaunchAssumption DEF Init
<1>1. TypeOK
  BY DEF TypeOK, Boots, Places, Lives, Receipts
<1>2. LeaseHeld
  BY DEF LeaseHeld, Admission, Owning
<1>3. ClaimedFirst
  BY DEF ClaimedFirst, Owning
<1>4. CheckedAlone /\ ClearedAlone /\ OneOwner /\ ActiveOwns
  BY DEF CheckedAlone, ClearedAlone, OneOwner, ActiveOwns, MayRun
<1> QED BY <1>1, <1>2, <1>3, <1>4 DEF LaunchInv

----
\* The types

\* From its claim on an instance has an intent, and only then.
LEMMA Claimed ==
  ASSUME TypeOK, ClaimedFirst, NEW l \in Launches
  PROVE  /\ at[l] \in Owning \union {"down"} => intent[l] \in Intents
         /\ intent[l] # NoIntent <=> at[l] \in Owning \union {"down"}
  BY DEF TypeOK, ClaimedFirst

LEMMA TypeStep == TypeOK /\ ClaimedFirst /\ [Next]_vars => TypeOK'
<1> SUFFICES ASSUME TypeOK, ClaimedFirst, [Next]_vars PROVE TypeOK'
  OBVIOUS
<1> USE LaunchAssumption DEF TypeOK, Boots, Places, Admission, Owning, Lives, Go
<1>1. ASSUME NEW l \in Launches,
             Acquire(l) \/ Admit(l) \/ Recheck(l) \/ Refuse(l) \/ Decline(l)
      PROVE  TypeOK'
  BY <1>1 DEF Acquire, Admit, Recheck, Gate, Refuse, Decline
<1>2. ASSUME NEW l \in Launches, Preflight(l) PROVE TypeOK'
  BY <1>2 DEF Preflight
<1>3. ASSUME NEW l \in Launches, NEW s \in BOOLEAN, Claim(l, s) PROVE TypeOK'
  BY <1>3 DEF Claim, Intents
<1>4. ASSUME NEW l \in Launches, Activate(l) \/ Begin(l) \/ Run(l) \/ End(l) \/ Crash(l)
      PROVE  TypeOK'
  BY <1>4 DEF Activate, Begin, Run, End, Crash
<1>5. ASSUME NEW l \in Launches, Observe(l) \/ Latch(l) \/ Release(l) \/ Resume(l)
      PROVE  TypeOK'
  <2>1. intent[l] \in Intents
    BY <1>5, Claimed DEF Observe, Latch, Release, Resume
  <2>2. \E i \in Intents : intent' = [intent EXCEPT ![l] = i]
    <3> USE <2>1 DEF Intents
    <3>1. CASE Observe(l)
      <4> WITNESS [intent[l] EXCEPT !.clean = FALSE] \in Intents
      <4> QED BY <3>1 DEF Observe
    <3>2. CASE Latch(l)
      <4> WITNESS [intent[l] EXCEPT !.fault = TRUE] \in Intents
      <4> QED BY <3>2 DEF Latch
    <3>3. CASE Release(l)
      <4> WITNESS [intent[l] EXCEPT !.clean = TRUE] \in Intents
      <4> QED BY <3>3 DEF Release
    <3>4. CASE Resume(l)
      <4>1. [intent[l] EXCEPT !.owner = @ + 1] \in Intents
        BY <3>4 DEF Resume
      <4> WITNESS [intent[l] EXCEPT !.owner = @ + 1] \in Intents
      <4> QED BY <3>4 DEF Resume
    <3> QED BY <1>5, <3>1, <3>2, <3>3, <3>4
  <2> QED BY <1>5, <2>2 DEF Observe, Latch, Release, Resume
<1>6. ASSUME NEW l \in Launches, Publish(l) PROVE TypeOK'
  <2>1. intent[l] \in Intents
    BY <1>6, Claimed DEF Publish
  <2> QED BY <1>6, <2>1 DEF Publish, Receipts
<1>7. CASE KernelFault
  BY <1>7 DEF KernelFault
<1>8. CASE Reboot
  BY <1>8 DEF Reboot
<1>9. CASE UNCHANGED vars
  BY <1>9 DEF vars
<1> QED BY <1>1, <1>2, <1>3, <1>4, <1>5, <1>6, <1>7, <1>8, <1>9 DEF Next

----
\* Lease and claim

LEMMA LeaseStep == TypeOK /\ LeaseHeld /\ ClaimedFirst /\ [Next]_vars => LeaseHeld'
<1> SUFFICES ASSUME TypeOK, LeaseHeld, ClaimedFirst, [Next]_vars PROVE LeaseHeld'
  OBVIOUS
<1> USE LaunchAssumption DEF TypeOK, LeaseHeld, Admission, Owning, Go
<1>1. ASSUME NEW l \in Launches, Acquire(l) \/ Resume(l) PROVE LeaseHeld'
  BY <1>1 DEF Acquire, Resume
<1>2. ASSUME NEW l \in Launches, Refuse(l) \/ Decline(l) \/ Release(l) \/ Crash(l)
      PROVE  LeaseHeld'
  BY <1>2 DEF Refuse, Decline, Release, Crash
<1>3. ASSUME NEW l \in Launches, Admit(l) \/ Preflight(l) \/ Recheck(l) PROVE LeaseHeld'
  BY <1>3 DEF Admit, Preflight, Recheck, Gate
<1>4. ASSUME NEW l \in Launches, NEW s \in BOOLEAN, Claim(l, s) PROVE LeaseHeld'
  BY <1>4 DEF Claim
<1>5. ASSUME NEW l \in Launches, Activate(l) \/ Begin(l) PROVE LeaseHeld'
  BY <1>5 DEF Activate, Begin
<1>6. ASSUME NEW l \in Launches,
             Run(l) \/ End(l) \/ Observe(l) \/ Latch(l) \/ Publish(l) \/ KernelFault
      PROVE  LeaseHeld'
  BY <1>6 DEF Run, End, Observe, Latch, Publish, KernelFault
<1>7. CASE Reboot
  BY <1>7 DEF Reboot
<1>8. CASE KernelFault \/ UNCHANGED vars
  BY <1>8 DEF KernelFault, vars
<1> QED BY <1>1, <1>2, <1>3, <1>4, <1>5, <1>6, <1>7, <1>8 DEF Next

LEMMA ClaimedStep == TypeOK /\ ClaimedFirst /\ [Next]_vars => ClaimedFirst'
<1> SUFFICES ASSUME TypeOK, ClaimedFirst, [Next]_vars PROVE ClaimedFirst'
  OBVIOUS
<1> USE LaunchAssumption DEF TypeOK, ClaimedFirst, Admission, Owning, Places, Lives, Go
<1>1. ASSUME NEW l \in Launches,
             Acquire(l) \/ Admit(l) \/ Preflight(l) \/ Recheck(l) \/ Refuse(l)
      PROVE  ClaimedFirst'
  BY <1>1 DEF Acquire, Admit, Preflight, Recheck, Gate, Refuse
<1>2. ASSUME NEW l \in Launches, NEW s \in BOOLEAN, Claim(l, s) PROVE ClaimedFirst'
  <2>1. [boot |-> boot, clean |-> s, fault |-> FALSE, owner |-> 0] # NoIntent
    BY DEF NoIntent, Boots
  <2> QED BY <1>2, <2>1 DEF Claim
<1>3. ASSUME NEW l \in Launches,
             Activate(l) \/ Begin(l) \/ Decline(l) \/ Run(l) \/ End(l) \/ Crash(l)
      PROVE  ClaimedFirst'
  BY <1>3 DEF Activate, Begin, Decline, Run, End, Crash
<1>4. ASSUME NEW l \in Launches, Observe(l) \/ Latch(l) \/ Release(l) \/ Resume(l)
      PROVE  ClaimedFirst'
  <2>1. intent[l] \in Intents /\ at[l] \in {"supervising", "down"}
    BY <1>4, Claimed DEF Observe, Latch, Release, Resume
  <2>2. /\ [intent[l] EXCEPT !.clean = FALSE] # NoIntent
        /\ [intent[l] EXCEPT !.clean = TRUE] # NoIntent
        /\ [intent[l] EXCEPT !.fault = TRUE] # NoIntent
        /\ [intent[l] EXCEPT !.owner = @ + 1] # NoIntent
    BY <2>1 DEF Intents, NoIntent, Boots
  <2>3. CASE Observe(l)
    BY <2>1, <2>2, <2>3 DEF Observe, Intents
  <2>4. CASE Latch(l)
    BY <2>1, <2>2, <2>4 DEF Latch, Intents
  <2>5. CASE Release(l)
    BY <2>1, <2>2, <2>5 DEF Release, Intents
  <2>6. CASE Resume(l)
    BY <2>1, <2>2, <2>6 DEF Resume, Intents
  <2> QED BY <1>4, <2>3, <2>4, <2>5, <2>6
<1>5. ASSUME NEW l \in Launches, Publish(l) PROVE ClaimedFirst'
  BY <1>5 DEF Publish
<1>6. CASE KernelFault \/ UNCHANGED vars
  BY <1>6 DEF KernelFault, vars
<1>7. CASE Reboot
  BY <1>7 DEF Reboot
<1> QED BY <1>1, <1>2, <1>3, <1>4, <1>5, <1>6, <1>7 DEF Next

----
\* Behind preflight and gate

\* Only a claim lets a launch run.
LEMMA NewOwner ==
  ASSUME LaunchInv, [Next]_vars, NEW l \in Launches, MayRun(l)'
  PROVE  MayRun(l) \/ Claim(l, FALSE)
<1> USE LaunchAssumption DEF LaunchInv, TypeOK, Places, Admission, Owning, Go, MayRun
<1>1. ASSUME NEW j \in Launches,
             \/ Acquire(j) \/ Admit(j) \/ Preflight(j) \/ Recheck(j) \/ Refuse(j)
             \/ Activate(j) \/ Begin(j) \/ Decline(j) \/ Run(j) \/ End(j) \/ Crash(j)
             \/ Publish(j)
      PROVE  MayRun(l)
  BY <1>1 DEF Acquire, Admit, Preflight, Recheck, Gate, Refuse, Activate, Begin, Decline,
              Run, End, Crash, Publish
<1>2. ASSUME NEW j \in Launches, Observe(j) \/ Latch(j) \/ Release(j) \/ Resume(j)
      PROVE  MayRun(l)
  BY <1>2 DEF Observe, Latch, Release, Resume
<1>3. ASSUME NEW j \in Launches, Claim(j, TRUE) \/ Claim(j, FALSE)
      PROVE  MayRun(l) \/ Claim(l, FALSE)
  BY <1>3 DEF Claim
<1>4. CASE KernelFault \/ UNCHANGED vars
  BY <1>4 DEF KernelFault, vars
<1>5. CASE Reboot
  <2>1. life'[l] \notin {"claimed", "running"} /\ at'[l] \in {"new", "down"}
    BY <1>5 DEF Reboot
  <2> QED BY <2>1
<1> QED BY <1>1, <1>2, <1>3, <1>4, <1>5 DEF Next

\* Who died with its create on the way stays on record.
LEMMA StaysUncertain == [Next]_vars => uncertain \subseteq uncertain'
  BY DEF Next, vars, Acquire, Admit, Preflight, Recheck, Gate, Refuse, Claim, Activate,
         Begin, Decline, Run, End, Observe, Latch, Release, Crash, Resume, Publish,
         KernelFault, Reboot

\* While a launch is behind the lease, whoever else may run could do so before.
LEMMA NobodyElse ==
  ASSUME LaunchInv, [Next]_vars, NEW l \in Launches, at[l] \in Admission \union Owning,
         NEW k \in Launches \ {l}, MayRun(k)'
  PROVE  MayRun(k)
<1>1. at[k] # "cleared"
  BY DEF LaunchInv, LeaseHeld, Admission
<1> QED BY <1>1, NewOwner DEF Claim, Go

LEMMA CheckedStep == LaunchInv /\ [Next]_vars => CheckedAlone'
<1> SUFFICES ASSUME LaunchInv, [Next]_vars, NEW l \in Launches, at'[l] = "checked",
                    NEW k \in Launches \ {l}, MayRun(k)'
             PROVE  k \in uncertain'
  BY DEF CheckedAlone
<1> USE LaunchAssumption DEF LaunchInv, TypeOK, Places, Go
<1>1. at[l] = "checked" \/ Preflight(l)
  BY DEF Next, vars, Acquire, Admit, Preflight, Recheck, Gate, Refuse, Claim, Activate,
         Begin, Decline, Run, End, Observe, Latch, Release, Crash, Resume, Publish,
         KernelFault, Reboot
<1>2. at[l] \in Admission
  BY <1>1 DEF Admission, Preflight
<1>3. MayRun(k)
  BY <1>2, NobodyElse
<1>4. k \in uncertain
  <2>1. CASE at[l] = "checked"
    BY <1>3, <2>1 DEF CheckedAlone
  <2>2. CASE Preflight(l)
    <3>1. life[k] # "running" /\ at[k] \notin Owning
      BY <1>2, <2>2 DEF Preflight, LeaseHeld
    <3>2. life[k] = "claimed"
      BY <1>3, <3>1 DEF MayRun, Owning
    <3> QED BY <3>1, <3>2 DEF ClaimedFirst, Owning
  <2> QED BY <1>1, <2>1, <2>2
<1> QED BY <1>4, StaysUncertain

\* What the gate has accounted for stays so while the launch behind it holds the lease.
LEMMA ClearedStep == LaunchInv /\ [Next]_vars => ClearedAlone'
<1> SUFFICES ASSUME LaunchInv, [Next]_vars, NEW l \in Launches, NEW k \in Launches \ {l},
                    at'[l] \in {"cleared", "intended"}
             PROVE  /\ MayRun(k)' => Unseen(k, l)'
                    /\ Sees(l, k) /\ intent'[k] # NoIntent => Accounted(k)'
  BY DEF ClearedAlone, Visible, Sees
<1> USE LaunchAssumption DEF LaunchInv, TypeOK, Places, Admission, Owning, Go
<1>1. at[l] \in {"cleared", "intended"} \/ Recheck(l)
  BY DEF Next, vars, Acquire, Admit, Preflight, Recheck, Gate, Refuse, Claim, Activate,
         Begin, Decline, Run, End, Observe, Latch, Release, Crash, Resume, Publish,
         KernelFault, Reboot
<1>2. lease = l /\ \A j \in Launches : at[j] \in Admission \union Owning => j = l
  BY <1>1 DEF LeaseHeld, Recheck, Gate
<1>3. MayRun(k)' => MayRun(k)
  BY <1>1, NobodyElse DEF Recheck, Gate
<1>4. CASE Recheck(l)
  <2>1. at[l] = "checked" /\ at[k] \notin Owning
    BY <1>2, <1>4 DEF Recheck, Gate
  <2>2. Sees(l, k) /\ intent[k] # NoIntent => Resolved(k)
    BY <1>4 DEF Recheck, Gate, Visible
  <2>3. Resolved(k) => life[k] \notin {"claimed", "running"} /\ Accounted(k)
    BY DEF Resolved, Reconciles, Accounted, ClaimedFirst
  <2>4. MayRun(k) => intent[k] # NoIntent /\ life[k] \in {"claimed", "running"}
    BY <2>1 DEF MayRun, ClaimedFirst
  <2>5. MayRun(k) => Unseen(k, l)
    BY <2>1, <2>2, <2>3, <2>4 DEF CheckedAlone, Unseen
  <2>6. UNCHANGED <<life, intent, receipts, boot, uncertain>>
    BY <1>4 DEF Recheck, Gate
  <2> QED BY <1>3, <2>2, <2>3, <2>5, <2>6 DEF Unseen, Sees, Accounted
<1>5. CASE at[l] \in {"cleared", "intended"}
  <2>1. MayRun(k)' => Unseen(k, l)'
    BY <1>3, <1>5, StaysUncertain DEF ClearedAlone, Unseen, Sees
  <2>2. Sees(l, k) /\ intent[k] # NoIntent => Accounted(k)
    BY <1>5 DEF ClearedAlone, Visible
  <2>3. at[k] \notin Admission \union Owning
    BY <1>2
  <2>4. intent'[k] = intent[k] /\ receipts \subseteq receipts' /\ boot' = boot
    <3>1. ASSUME NEW j \in Launches, Activate(j) \/ Begin(j) \/ Decline(j) \/ Observe(j)
                   \/ Latch(j) \/ Release(j) \/ Crash(j) \/ Resume(j)
          PROVE  FALSE
      BY <1>2, <1>5, <3>1 DEF Activate, Begin, Decline, Observe, Latch, Release, Crash, Resume
    <3>2. ~Reboot
      BY <1>5 DEF Reboot
    <3>3. ASSUME NEW j \in Launches, Claim(j, TRUE) \/ Claim(j, FALSE)
          PROVE  intent'[k] = intent[k] /\ UNCHANGED <<receipts, boot>>
      BY <2>3, <3>3 DEF Claim
    <3> QED BY <3>1, <3>2, <3>3 DEF Next, vars, Acquire, Admit, Preflight, Recheck, Gate,
               Refuse, Run, End, Publish, KernelFault
  <2>5. Sees(l, k) /\ intent'[k] # NoIntent => Accounted(k)'
    BY <2>2, <2>4 DEF Accounted
  <2> QED BY <2>1, <2>5
<1> QED BY <1>1, <1>4, <1>5

LEMMA OwnerStep == LaunchInv /\ [Next]_vars => OneOwner' /\ ActiveOwns'
<1> SUFFICES ASSUME LaunchInv, [Next]_vars PROVE OneOwner' /\ ActiveOwns'
  OBVIOUS
<1> USE DEF LaunchInv
<1>0. \A k, l \in Launches : Unseen(k, l) => Unseen(k, l)'
  BY StaysUncertain DEF Unseen, Sees
<1>1. OneOwner'
  <2> SUFFICES ASSUME NEW k \in Launches, NEW l \in Launches, MayRun(k)', MayRun(l)', k # l
               PROVE  Unseen(k, l)' \/ Unseen(l, k)'
    BY DEF OneOwner
  <2>1. CASE MayRun(k) /\ MayRun(l)
    BY <1>0, <2>1 DEF OneOwner
  <2>2. \A j \in Launches : Claim(j, FALSE) => at[j] = "cleared"
    BY DEF Claim, Go
  <2> QED BY <1>0, <2>1, <2>2, NewOwner DEF ClearedAlone, LeaseHeld, Admission
<1>2. ActiveOwns'
  <2> SUFFICES ASSUME NEW l \in Launches, MayRun(l)', at'[l] # "intended"
               PROVE  active'[home[l]] = l \/ Unseen(l, active[home[l]])'
    BY DEF ActiveOwns
  <2> USE LaunchAssumption DEF TypeOK, Places, Admission, Owning, Go
  <2>1. MayRun(l)
    BY NewOwner DEF Claim
  <2>2. CASE at[l] = "intended" /\ ~(\E j \in Launches : Activate(j))
    <3>1. life[l] = "unclaimed"
      BY <2>2 DEF ClaimedFirst
    <3>2. life'[l] # "unclaimed" => at[l] \in {"begun", "supervising", "down"}
      BY <3>1 DEF Next, vars, Acquire, Admit, Preflight, Recheck, Gate, Refuse, Claim,
        Begin, Decline, Run, End, Observe, Latch, Release, Crash, Resume, Publish,
        KernelFault, Reboot, Activate
    <3>3. at'[l] # "begun"
      BY <2>2 DEF Next, vars, Acquire, Admit, Preflight, Recheck, Gate, Refuse, Claim,
        Begin, Decline, Run, End, Observe, Latch, Release, Crash, Resume, Publish,
        KernelFault, Reboot
    <3> QED BY <2>2, <3>1, <3>2, <3>3 DEF MayRun
  <2>3. ASSUME NEW j \in Launches, Activate(j)
        PROVE  active'[home[l]] = l \/ Unseen(l, active[home[l]])'
    <3>1. at[j] = "intended" /\ active' = [active EXCEPT ![home[j]] = j]
      BY <2>3 DEF Activate
    <3>2. CASE home[j] = home[l]
      <4>1. active'[home[l]] = j
        BY <3>1, <3>2
      <4>2. j = l \/ Unseen(l, j)
        BY <2>1, <3>1 DEF ClearedAlone
      <4> QED BY <1>0, <4>1, <4>2
    <3>3. CASE home[j] # home[l]
      <4>1. active'[home[l]] = active[home[l]]
        BY <3>1, <3>3
      <4>2. at[l] # "intended"
        BY <3>1, <3>3 DEF LeaseHeld
      <4>3. active[home[l]] = l \/ Unseen(l, active[home[l]])
        BY <2>1, <4>2 DEF ActiveOwns
      <4> QED BY <4>1, <4>3, StaysUncertain DEF Unseen, Sees
    <3> QED BY <3>2, <3>3
  <2>4. CASE at[l] # "intended" /\ ~(\E j \in Launches : Activate(j))
    <3>1. active[home[l]] = l \/ Unseen(l, active[home[l]])
      BY <2>1, <2>4 DEF ActiveOwns
    <3>2. UNCHANGED active
      BY <2>4 DEF Next, vars, Acquire, Admit, Preflight, Recheck, Gate, Refuse, Claim,
        Begin, Decline, Run, End, Observe, Latch, Release, Crash, Resume, Publish,
        KernelFault, Reboot
    <3> QED BY <3>1, <3>2, StaysUncertain DEF Unseen, Sees
  <2> QED BY <2>2, <2>3, <2>4
<1> QED BY <1>1, <1>2

----
\* The theorems

\* Whatever the layout, and whatever crashes, faults, resumes and reboots happen: the lease
\* is held by the process that is past it, an instance is claimed before its container
\* exists, and who is behind preflight and gate, or may run, is alone but for what an
\* uncertain create has left where the gate does not look.
THEOREM LaunchInvariant == Spec => []LaunchInv
<1>1. LaunchInv /\ [Next]_vars => LaunchInv'
  BY TypeStep, LeaseStep, ClaimedStep, CheckedStep, ClearedStep, OwnerStep DEF LaunchInv
<1> QED BY InitLaunchInv, <1>1, PTL DEF Spec

\* Two containers have the GPU pair at the same time only if one of them is left from an
\* uncertain create that the other's gate did not look for.
THEOREM OneContainerAtATime == Spec => []OneContainer
<1>1. LaunchInv => OneContainer
  BY DEF LaunchInv, OneOwner, MayRun, OneContainer
<1> QED BY LaunchInvariant, <1>1, PTL

\* The lease and the preflight alone, with no gate anywhere: before the first crash two
\* containers never run together (nvidia-launch.py:135-137 leaves just these).
THEOREM LeaseSuffices ==
  Spec => [](crashes = 0 =>
    \A k, l \in Launches : life[k] = "running" /\ life[l] = "running" => k = l)
<1> DEFINE NoneUncertain == crashes = 0 => uncertain = {}
<1>1. Init => NoneUncertain
  BY DEF Init
<1>2. TypeOK /\ NoneUncertain /\ [Next]_vars => NoneUncertain'
  <2> SUFFICES ASSUME TypeOK, NoneUncertain, [Next]_vars, crashes' = 0 PROVE uncertain' = {}
    OBVIOUS
  <2>1. ASSUME NEW l \in Launches PROVE ~Crash(l)
    BY LaunchAssumption DEF Crash, TypeOK
  <2> QED BY <2>1 DEF Next, vars, Acquire, Admit, Preflight, Recheck, Gate, Refuse, Claim,
             Activate, Begin, Decline, Run, End, Observe, Latch, Release, Resume, Publish,
             KernelFault, Reboot
<1>3. LaunchInv => TypeOK
  BY DEF LaunchInv
<1>4. OneContainer /\ NoneUncertain => (crashes = 0 =>
        \A k, l \in Launches : life[k] = "running" /\ life[l] = "running" => k = l)
  BY DEF OneContainer, Unseen
<1> QED BY LaunchInvariant, OneContainerAtATime, <1>1, <1>2, <1>3, <1>4, PTL DEF Spec

\* A container that nobody supervises and that runs, or may, is the one that stop and resume
\* find in active.json of its home, unless the launch named there has not looked for it.
THEOREM OrphanReachable == Spec => []Reachable
<1>1. LaunchInv => Reachable
  BY DEF LaunchInv, ActiveOwns, MayRun, Reachable
<1> QED BY LaunchInvariant, <1>1, PTL

\* A claim is made only when every other instance that the gate looks at is accounted for.
THEOREM ClaimsAccounted == Spec => ClaimsReconciled
<1>1. LaunchInv /\ [Next]_vars =>
        [\A l \in Launches : intent[l] = NoIntent /\ intent'[l] # NoIntent =>
           \A k \in Visible(l) \ {l} : Accounted(k)]_vars
  <2> SUFFICES ASSUME LaunchInv, [Next]_vars, NEW l \in Launches,
                      intent[l] = NoIntent, intent'[l] # NoIntent,
                      NEW k \in Visible(l) \ {l}
               PROVE  Accounted(k)
    OBVIOUS
  <2>1. at[l] \notin Owning \union {"down"}
    BY DEF LaunchInv, ClaimedFirst
  <2>2. at[l] = "cleared"
    BY <2>1 DEF LaunchInv, TypeOK, Next, vars, Acquire, Admit, Preflight, Recheck, Gate,
      Refuse, Claim, Activate, Begin, Decline, Run, End, Observe, Latch, Release, Crash,
      Resume, Publish, KernelFault, Reboot, Go, Owning
  <2> QED BY <2>2 DEF LaunchInv, ClearedAlone
<1> QED BY LaunchInvariant, <1>1, PTL DEF Spec, ClaimsReconciled
===============================================================================
