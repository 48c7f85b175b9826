------------------------------ MODULE LaunchLease ------------------------------
(***************************************************************************)
(* Launches that compete for the one GPU pair: launcher.run with its       *)
(* lease, gate, preflight and durable ownership claim, its resume, the     *)
(* publication of reconciliation receipts, and around them the daemon that *)
(* carries out what a launch asked for, crashes, kernel faults and reboots.*)
(*                                                                         *)
(* A launch is one instance: the process that takes the lease for it, and  *)
(* any later process that resumes it.  How a supervisor drives its         *)
(* container is Supervisor's business; here a container does what          *)
(* OwnedContainer lets it do.  What preflight measures (GPU memory, ports, *)
(* images, hashes) may refuse a launch at any point; the running GPU       *)
(* container is the one part of it that later actions depend on.           *)
(***************************************************************************)
EXTENDS Naturals

CONSTANTS
  Launches, NoLaunch,
  Homes,          \* the profiles of the version directories under STORAGE_ROOT
  home,           \* where each launch keeps its state: ROOT/'runs', ROOT/'state'/name
  Candidates,     \* the homes in a directory named candidate*
  Gated,          \* launches of launcher.py itself; nvidia-launch.py has no gate
  MaxBoots, MaxCrashes, MaxResumes, MaxFaults   \* bounds

ASSUME LaunchAssumption ==
  /\ NoLaunch \notin Launches
  /\ home \in [Launches -> Homes] /\ Candidates \subseteq Homes /\ Gated \subseteq Launches
  /\ MaxBoots \in Nat \ {0}
  /\ MaxCrashes \in Nat /\ MaxResumes \in Nat /\ MaxFaults \in Nat

VARIABLES
  boot, faults,   \* the boot, and the kernel faults (Xid 8) in its journal
  lease,          \* who holds gpu.lock
  at,             \* where the process of each launch is
  life,           \* its container
  intent,         \* its intent.json
  cursor,         \* the kernel faults of this boot before its kernel_cursor
  active,         \* the launch that active.json of each home names
  receipts,       \* the reconciliation receipts published
  uncertain,      \* history: launches that died with their create still with the daemon
  crashes

vars == <<boot, faults, lease, at, life, intent, cursor, active, receipts, uncertain, crashes>>

Boots == 1 .. MaxBoots

\* What decides of an intent.json.  fault: a hardware fault is latched or in the first
\* incident; owner: which process the intent names.
Intents == [boot : Boots, clean : BOOLEAN, fault : BOOLEAN, owner : 0 .. MaxResumes]
NoIntent == [boot |-> 0]
Receipts == [launch : Launches, boot : Boots, intent : Intents, faults : 0 .. MaxFaults]

\* Before the claim; with the intent written; with active.json written too; in loop.
Admission == {"leased", "admitted", "checked", "cleared"}
Owning    == {"intended", "begun", "supervising"}
Places    == {"new", "down"} \union Admission \union Owning

\* void: it never ran and never will.
Lives == {"unclaimed", "claimed", "running", "exited", "void"}

Init ==
  /\ boot = 1 /\ faults = 0 /\ lease = NoLaunch
  /\ at = [l \in Launches |-> "new"] /\ life = [l \in Launches |-> "unclaimed"]
  /\ intent = [l \in Launches |-> NoIntent] /\ cursor = [l \in Launches |-> 0]
  /\ active = [h \in Homes |-> NoLaunch]
  /\ receipts = {} /\ uncertain = {} /\ crashes = 0

----
\* The gate

Go(l, from, to) == at[l] = from /\ at' = [at EXCEPT ![l] = to]

\* The gate of l looks at the instances of k's directory.
Sees(l, k) == l \in Gated /\ home[k] \in Candidates

\* campaign_intents: the intents the gate finds.
Visible(l) == {k \in Launches : Sees(l, k) /\ intent[k] # NoIntent}

\* Mutant: a receipt for an earlier boot, or for the intent before a resume.
ReconcilesAnyBoot(r, k) == r.launch = k /\ (intent[k].boot = boot => r.faults = faults)

\* validate_prior_boot_reconciliation, and restart_app_recovery.validate for this boot.
Reconciles(r, k) ==
  /\ r.launch = k /\ r.boot = boot
  /\ r.intent = intent[k] /\ life[k] = "exited"
  /\ intent[k].boot = boot => r.faults = faults /\ at[k] = "down"

\* Mutants: whoever runs no container; a verified cleanup whatever the faults.
ResolvedIdle(k) == life[k] # "running"
ResolvedCleanup(k) == intent[k].clean \/ \E r \in receipts : Reconciles(r, k)

Resolved(k) ==
  \/ intent[k].clean /\ ~intent[k].fault
  \/ \E r \in receipts : Reconciles(r, k)

----
\* A fresh launch

\* Mutant: the lock is shared.
AcquireShared(l) ==
  /\ Go(l, "new", "leased") /\ lease' = l
  /\ UNCHANGED <<boot, faults, life, intent, cursor, active, receipts, uncertain, crashes>>

\* flock(LOCK_EX | LOCK_NB); the kernel frees it when the process ends.
Acquire(l) ==
  /\ lease = NoLaunch /\ lease' = l
  /\ Go(l, "new", "leased")
  /\ UNCHANGED <<boot, faults, life, intent, cursor, active, receipts, uncertain, crashes>>

\* reject_unresolved_campaign_intents, before and after the preflight.
Gate(l, from, to) ==
  /\ Go(l, from, to)
  /\ \A k \in Visible(l) : Resolved(k)
  /\ UNCHANGED <<boot, faults, lease, life, intent, cursor, active, receipts, uncertain, crashes>>

Admit(l) == Gate(l, "leased", "admitted")
Recheck(l) == Gate(l, "checked", "cleared")

\* preflight: docker ps and inspect show no container that has the GPUs; the journal is
\* read up to here.
Preflight(l) ==
  /\ Go(l, "admitted", "checked")
  /\ \A k \in Launches : life[k] # "running"
  /\ cursor' = [cursor EXCEPT ![l] = faults]
  /\ UNCHANGED <<boot, faults, lease, life, intent, active, receipts, uncertain, crashes>>

\* Any refusal, an exception, or a death before the claim: the process ends.
Refuse(l) ==
  /\ at[l] \in Admission /\ at' = [at EXCEPT ![l] = "new"]
  /\ lease' = NoLaunch /\ cursor' = [cursor EXCEPT ![l] = 0]
  /\ UNCHANGED <<boot, faults, life, intent, active, receipts, uncertain, crashes>>

\* The first durable write of persist, intent.json: a claim, or at once the end of a launch
\* that was told to stop before begin.
Claim(l, stopped) ==
  /\ Go(l, "cleared", "intended")
  /\ intent' = [intent EXCEPT ![l] = [boot |-> boot, clean |-> stopped, fault |-> FALSE,
                                      owner |-> 0]]
  /\ UNCHANGED <<boot, faults, lease, life, cursor, active, receipts, uncertain, crashes>>

\* Mutant: active.json is left for a later persist.
ActivateLater(l) ==
  /\ Go(l, "intended", "begun")
  /\ UNCHANGED <<boot, faults, lease, life, intent, cursor, active, receipts, uncertain, crashes>>

\* Its second one: active.json.
Activate(l) ==
  /\ Go(l, "intended", "begun") /\ active' = [active EXCEPT ![home[l]] = l]
  /\ UNCHANGED <<boot, faults, lease, life, intent, cursor, receipts, uncertain, crashes>>

\* begin dispatches docker create, or raises before the daemon has heard of it.
Begin(l) ==
  /\ Go(l, "begun", "supervising") /\ ~intent[l].clean
  /\ life' = [life EXCEPT ![l] = "claimed"] \/ UNCHANGED life
  /\ UNCHANGED <<boot, faults, lease, intent, cursor, active, receipts, uncertain, crashes>>

\* begin does not dispatch, and the process ends.
Decline(l) ==
  /\ Go(l, "begun", "down") /\ lease' = NoLaunch
  /\ intent[l].clean
  /\ UNCHANGED <<boot, faults, life, intent, cursor, active, receipts, uncertain, crashes>>

----
\* The supervisor's loop, the container, and resume

\* The daemon carries out what it was told, whoever still waits for it.
Run(l) ==
  /\ life[l] = "claimed" /\ life' = [life EXCEPT ![l] = "running"]
  /\ UNCHANGED <<boot, faults, lease, at, intent, cursor, active, receipts, uncertain, crashes>>

End(l) ==
  /\ life[l] = "running" /\ life' = [life EXCEPT ![l] = "exited"]
  /\ UNCHANGED <<boot, faults, lease, at, intent, cursor, active, receipts, uncertain, crashes>>

\* A clean sample after the exit: the earlier verdict, if a resumed run has one, is withdrawn.
Observe(l) ==
  /\ at[l] = "supervising" /\ life[l] \in {"exited", "void"} /\ intent[l].clean
  /\ intent' = [intent EXCEPT ![l].clean = FALSE]
  /\ UNCHANGED <<boot, faults, lease, at, life, cursor, active, receipts, uncertain, crashes>>

\* monitor_kernel: the supervisor reads what is new in the journal, and latches it.
Latch(l) ==
  /\ at[l] = "supervising" /\ cursor[l] < faults
  /\ cursor' = [cursor EXCEPT ![l] = faults]
  /\ intent' = [intent EXCEPT ![l].fault = TRUE]
  /\ UNCHANGED <<boot, faults, lease, at, life, active, receipts, uncertain, crashes>>

\* The supervisor has read the journal and verifies the cleanup, releases and ends
\* (OwnedContainer's Release).
Release(l) ==
  /\ Go(l, "supervising", "down") /\ lease' = NoLaunch
  /\ life[l] # "running" /\ cursor[l] = faults /\ ~intent[l].fault
  /\ intent' = [intent EXCEPT ![l].clean = TRUE]
  /\ life' = [life EXCEPT ![l] = IF @ = "exited" THEN @ ELSE "void"]
  /\ UNCHANGED <<boot, faults, cursor, active, receipts, uncertain, crashes>>

\* The process dies; the container and what the daemon was told stay.
Crash(l) ==
  /\ crashes < MaxCrashes /\ crashes' = crashes + 1
  /\ at[l] \in Owning /\ at' = [at EXCEPT ![l] = "down"]
  /\ lease' = NoLaunch
  /\ uncertain' = IF life[l] = "claimed" THEN uncertain \union {l} ELSE uncertain
  /\ UNCHANGED <<boot, faults, life, intent, cursor, active, receipts>>

\* run with resume: no gate, the launch of its home's active.json, of this boot only.
Resume(l) ==
  /\ lease = NoLaunch /\ lease' = l
  /\ active[home[l]] = l /\ intent[l].boot = boot
  /\ Go(l, "down", "supervising")
  /\ intent[l].owner < MaxResumes /\ intent' = [intent EXCEPT ![l].owner = @ + 1]
  /\ UNCHANGED <<boot, faults, life, cursor, active, receipts, uncertain, crashes>>

----
\* Receipts, faults and reboots

\* publish: once for an instance and a boot, from evidence that its container has exited
\* and its supervisor is gone.  On a new boot the journal shows no fault; on the same boot
\* it shows what the receipt is for.
Publish(l) ==
  /\ at[l] = "down" /\ life[l] = "exited"
  /\ intent[l].boot = boot <=> faults > 0
  /\ \A r \in receipts : r.launch # l \/ r.boot # boot
  /\ receipts' = receipts \union
       {[launch |-> l, boot |-> boot, intent |-> intent[l], faults |-> faults]}
  /\ UNCHANGED <<boot, faults, lease, at, life, intent, cursor, active, uncertain, crashes>>

KernelFault ==
  /\ faults < MaxFaults /\ faults' = faults + 1
  /\ UNCHANGED <<boot, lease, at, life, intent, cursor, active, receipts, uncertain, crashes>>

Reboot ==
  /\ boot < MaxBoots /\ boot' = boot + 1
  /\ faults' = 0 /\ lease' = NoLaunch /\ cursor' = [l \in Launches |-> 0]
  /\ at' = [l \in Launches |-> IF intent[l] = NoIntent THEN "new" ELSE "down"]
  /\ life' = [l \in Launches |-> CASE life[l] = "running" -> "exited"
                                   [] life[l] = "claimed" -> "void"
                                   [] OTHER -> life[l]]
  /\ UNCHANGED <<intent, active, receipts, uncertain, crashes>>

Next ==
  \/ \E l \in Launches :
       \/ Acquire(l) \/ Admit(l) \/ Preflight(l) \/ Recheck(l) \/ Refuse(l)
       \/ Claim(l, TRUE) \/ Claim(l, FALSE) \/ Activate(l) \/ Begin(l) \/ Decline(l)
       \/ Run(l) \/ End(l) \/ Observe(l) \/ Latch(l) \/ Release(l) \/ Crash(l)
       \/ Resume(l) \/ Publish(l)
  \/ KernelFault \/ Reboot

Spec == Init /\ [][Next]_vars

----
\* Properties

TypeOK ==
  /\ boot \in Boots /\ faults \in 0 .. MaxFaults /\ crashes \in 0 .. MaxCrashes
  /\ lease \in Launches \union {NoLaunch}
  /\ active \in [Homes -> Launches \union {NoLaunch}]
  /\ at \in [Launches -> Places] /\ life \in [Launches -> Lives]
  /\ intent \in [Launches -> Intents \union {NoIntent}]
  /\ cursor \in [Launches -> 0 .. MaxFaults]
  /\ receipts \subseteq Receipts /\ uncertain \subseteq Launches

\* The one way past the lease: k died while its create was with the daemon, and the gate
\* of l does not look where k keeps its intent.
Unseen(k, l) == k \in uncertain /\ ~Sees(l, k)

\* Two containers hold the GPU pair at the same time only if one of them is left from an
\* uncertain create that the other's gate does not look for: never two launches of
\* launcher.py in candidate directories, and, of any launches at all, never before a launch
\* has died with its create on the way (launcher.py:158-167, 300-323).
OneContainer ==
  \A k, l \in Launches : life[k] = "running" /\ life[l] = "running" =>
    k = l \/ Unseen(k, l) \/ Unseen(l, k)

\* A container that runs, or still may, while nobody supervises it is the one that its
\* home's active.json names, so that stop and resume reach it, unless the launch named there
\* has not looked for it (launcher.py:265-277, 303-311).
Reachable ==
  \A l \in Launches : life[l] \in {"claimed", "running"} /\ at[l] = "down" =>
    active[home[l]] = l \/ Unseen(l, active[home[l]])

\* When a launch claims the GPUs, every earlier instance that its gate looks at has been
\* cleaned up with no hardware fault in its history, or has a receipt, valid for its present
\* intent, of the boot the claim is made on - although the gate was passed some steps before
\* and resumes, faults and reboots go on (launcher.py:243-263, 319-331).
Accounted(k) ==
  \/ intent[k].clean /\ ~intent[k].fault
  \/ \E r \in receipts : r.launch = k /\ r.boot = boot /\ r.intent = intent[k]
ClaimsReconciled ==
  [][\A l \in Launches : intent[l] = NoIntent /\ intent'[l] # NoIntent =>
       \A k \in Visible(l) \ {l} : Accounted(k)]_vars

----
\* The inductive invariant

\* A container that runs, or that may without its launch passing the gate again.
MayRun(l) ==
  \/ life[l] \in {"claimed", "running"}
  \/ at[l] \in {"intended", "begun"} /\ ~intent[l].clean

\* The lease is held by the process that is past it, and by no other.
LeaseHeld == \A l \in Launches : at[l] \in Admission \union Owning <=> lease = l

\* An instance has an intent from its claim on, and a container only after that; one
\* that is verified clean can never run again, and one whose process died during the
\* create is on record.
ClaimedFirst ==
  \A l \in Launches :
    /\ at[l] \in Owning \union {"down"} <=> intent[l] # NoIntent
    /\ at[l] \notin {"supervising", "down"} => life[l] = "unclaimed"
    /\ life[l] \in {"claimed", "running"} => ~intent[l].clean
    /\ at[l] = "down" /\ life[l] = "claimed" => l \in uncertain

\* Behind the preflight nobody else may run but what an uncertain create has left.
CheckedAlone ==
  \A l \in Launches : at[l] = "checked" =>
    \A k \in Launches \ {l} : MayRun(k) => k \in uncertain

\* Behind the second gate the launch has not seen it, and all that it sees is accounted for.
ClearedAlone ==
  \A l \in Launches : at[l] \in {"cleared", "intended"} =>
    /\ \A k \in Launches \ {l} : MayRun(k) => Unseen(k, l)
    /\ \A k \in Visible(l) \ {l} : Accounted(k)

OneOwner ==
  \A k, l \in Launches : MayRun(k) /\ MayRun(l) => k = l \/ Unseen(k, l) \/ Unseen(l, k)

\* Once active.json is written it names whoever may run in that home, or one that has not
\* looked for it.
ActiveOwns ==
  \A l \in Launches : MayRun(l) /\ at[l] # "intended" =>
    active[home[l]] = l \/ Unseen(l, active[home[l]])

\* What keeps a second container out, for any layout of homes and gates.
LaunchInv ==
  /\ TypeOK /\ LeaseHeld /\ ClaimedFirst
  /\ CheckedAlone /\ ClearedAlone /\ OneOwner /\ ActiveOwns
===============================================================================
