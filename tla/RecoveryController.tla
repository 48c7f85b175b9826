--------------------------- MODULE RecoveryController ---------------------------
(***************************************************************************)
(* The recovery worker: main's choice of a reason, cycle, stop_owned and   *)
(* the proof that readmits the GPUs, against a service that the gateway    *)
(* (external) may stop and start again at any time.                        *)
(*                                                                         *)
(* Instances are numbered; n is the one active.json names.  The unit has a *)
(* main process (a launcher before it has claimed, then the supervisor of  *)
(* n) and, while it stops, the waiter of ExecStop: owned-stop.py, for the  *)
(* instance that active.json named when it began, or Nobody.               *)
(*                                                                         *)
(* Each reading of the world is one step; deadlines and back-off delays    *)
(* pass at any time.  The transients that sustained() filters out do not   *)
(* appear: a condition here has lasted.                                    *)
(***************************************************************************)
EXTENDS Naturals

CONSTANTS
  Evidences,      \* what may go wrong: a subset of AllEvidences
  MaxStarts, MaxFaults, MaxFailures, MaxCrashes   \* bounds

\* A durable failure marker; an RPC that has stalled; an unresponsive API; a kernel fault;
\* one for which only a reboot helps; the supervisor dies.
AllEvidences == {"tp", "stall", "slow", "hardware", "reboot", "supervisor"}

ASSUME RecoveryAssumption ==
  /\ Evidences \subseteq AllEvidences
  /\ MaxStarts \in Nat /\ MaxFaults \in Nat /\ MaxFailures \in Nat /\ MaxCrashes \in Nat

VARIABLES
  n, container, supervisor, latched, clean, evidence,   \* the instance of active.json
  unit, launching, waiter,                              \* qwen27b.service
  hw,                                                   \* what observe makes of the hardware
  status, reconciled,                                   \* durable: recovery-status, receipts
  pc, reason, owned, target,                            \* the controller
  fresh,                                                \* a fault since the proof began
  starts, faults, failures, crashes

instance   == <<n, container, supervisor, latched, clean, evidence>>
service    == <<unit, launching, waiter>>
durable    == <<status, reconciled>>
controller == <<pc, reason, owned, target, fresh>>
counters   == <<starts, faults, failures, crashes>>
vars == <<instance, service, hw, durable, controller, counters>>

Nobody == 0
Instances == 1 .. MaxStarts + 1

States == {"IDLE", "RECOVERING", "RETRY_WAIT", "RECOVERED", "REBOOT_REQUIRED"}
Status(state, owner) == [state |-> state, owner |-> owner]
InProgress == status.state \in {"RECOVERING", "RETRY_WAIT"}
Pending == status.state \notin {"IDLE", "RECOVERED"}

Places == {"poll", "bind", "publish", "check", "stop", "rebind", "stop again", "wait",
           "escalate", "kill", "kill supervisor", "kill waiter", "drain", "lock", "proof", "seal"}

Init ==
  /\ n = 1 /\ container = "running" /\ supervisor = TRUE
  /\ latched = FALSE /\ clean = FALSE /\ evidence = "none"
  /\ unit = "active" /\ launching = FALSE /\ waiter = Nobody
  /\ hw = "healthy" /\ status = Status("IDLE", Nobody) /\ reconciled = {}
  /\ pc = "poll" /\ reason = "none" /\ owned = Nobody /\ target = Nobody
  /\ fresh = FALSE /\ starts = 0 /\ faults = 0 /\ failures = 0 /\ crashes = 0

----
\* Readings of the world

\* owned_rpc_stall and fatal_tp_marker: evidence bound to the admitted instance.
Fatal ==
  /\ supervisor
  /\ \/ evidence = "tp" /\ unit # "inactive"
     \/ evidence = "stall" /\ unit = "active" /\ container = "running"

\* admitted_backend_health, the quarantine of a supervisor, and an orphan.
Unhealthy   == evidence = "slow" /\ supervisor /\ unit = "active"
Quarantined == supervisor /\ container = "exited" /\ latched
Orphaned    == ~supervisor /\ ~clean /\ n \notin reconciled

\* check_stop_owner: active.json and the main process are still the owner's.
SameOwner(o) == n = o /\ ~launching

----
\* main

Goto(from, to) == pc = from /\ pc' = to

\* prefer_owned_fatal: a marker goes before the hardware, a stall does not, and neither
\* goes before a retry.
PrefersFatal == Fatal /\ IF hw = "hardware" THEN evidence = "tp" ELSE ~Pending

Poll ==
  /\ Goto("poll", "bind") /\ hw # "reboot"
  /\ \/ PrefersFatal /\ reason' = evidence
     \/ ~PrefersFatal /\ hw = "healthy" /\ Pending /\ reason' = "incomplete"
     \/ /\ ~PrefersFatal /\ (hw = "hardware" \/ ~Pending)
        /\ hw = "hardware" \/ Unhealthy \/ Quarantined \/ Orphaned
        /\ reason' = "other"
  /\ UNCHANGED <<instance, service, hw, durable, owned, target, fresh, counters>>

PollReboot ==
  /\ pc = "poll" /\ hw = "reboot"
  /\ status' = Status("REBOOT_REQUIRED", Nobody)
  /\ UNCHANGED <<instance, service, hw, reconciled, controller, counters>>

\* Mutant: a retry forgets its owner.
RetryForgets ==
  /\ status' = Status("RETRY_WAIT", Nobody)
  /\ pc' = "poll" /\ fresh' = FALSE /\ UNCHANGED <<reconciled, reason, owned, target>>

\* RecoveryOwnerChanged: this recovery belongs to an obsolete instance.
Stale ==
  /\ status' = Status("IDLE", Nobody)
  /\ pc' = "poll"
  /\ UNCHANGED <<instance, service, hw, reconciled, reason, owned, target, fresh, counters>>

\* Any other exception: status keeps the owner of a recovery in progress.
Retry ==
  /\ status' = Status("RETRY_WAIT", IF InProgress THEN status.owner ELSE Nobody)
  /\ pc' = "poll" /\ fresh' = FALSE /\ UNCHANGED <<reconciled, reason, owned, target>>

\* A command, a reading or a probe fails.
Fail ==
  /\ pc # "poll" /\ failures < MaxFailures /\ failures' = failures + 1
  /\ Retry
  /\ UNCHANGED <<instance, service, hw, starts, faults, crashes>>

\* The controller dies and is started again.
Crash ==
  /\ pc # "poll" /\ crashes < MaxCrashes /\ crashes' = crashes + 1
  /\ pc' = "poll" /\ reason' = "none" /\ owned' = Nobody /\ target' = Nobody /\ fresh' = FALSE
  /\ UNCHANGED <<instance, service, hw, durable, starts, faults, failures>>

----
\* cycle

\* The owner a retry is bound to.
Bound == IF InProgress THEN status.owner ELSE Nobody

BindStale == pc = "bind" /\ Bound # Nobody /\ ~SameOwner(Bound) /\ Stale

Fast == reason \in {"tp", "stall"}
Established == Fatal /\ evidence = reason /\ SameOwner(n)

\* The evidence is gone or another's: nothing is done.
BindGone ==
  /\ Goto("bind", "poll") /\ (Bound # Nobody => SameOwner(Bound))
  /\ Fast /\ ~Established
  /\ UNCHANGED <<instance, service, hw, durable, reason, owned, target, fresh, counters>>

Bind ==
  /\ Goto("bind", "publish") /\ (Bound # Nobody => SameOwner(Bound))
  /\ Fast => Established
  /\ owned' = IF Fast THEN n ELSE Bound
  /\ UNCHANGED <<instance, service, hw, durable, reason, target, fresh, counters>>

Publish ==
  /\ Goto("publish", "check")
  /\ status' = Status("RECOVERING", owned)
  /\ UNCHANGED <<instance, service, hw, reconciled, reason, owned, target, fresh, counters>>

Check ==
  /\ Goto("check", "stop") /\ (owned # Nobody => SameOwner(owned))
  /\ UNCHANGED <<instance, service, hw, durable, reason, owned, target, fresh, counters>>
CheckStale == pc = "check" /\ owned # Nobody /\ ~SameOwner(owned) /\ Stale

\* The unit is stopped, or its main process has gone: systemd runs ExecStop, whose
\* owned-stop.py waits for the instance that active.json names, be that the one of a
\* launcher which is still to claim or an older one.
ExecStop ==
  /\ unit' = IF unit = "active" THEN "deactivating" ELSE unit
  /\ waiter' = IF unit = "active" THEN n ELSE waiter

\* systemctl stop, by name.  The main process, launcher or supervisor, goes on meanwhile.
StopService == ExecStop /\ UNCHANGED launching
Stop(from, to) ==
  /\ Goto(from, to) /\ StopService
  /\ UNCHANGED <<instance, hw, durable, reason, owned, target, fresh, counters>>

StopFirst == Stop("stop", "rebind")
StopAgain == Stop("stop again", "wait")

----
\* stop_owned

\* Who to stop: the owner of the cycle, or whoever active.json names by now.
Wanted == IF owned # Nobody THEN owned ELSE n
Rebind ==
  /\ Goto("rebind", "stop again") /\ SameOwner(Wanted)
  /\ target' = Wanted
  /\ UNCHANGED <<instance, service, hw, durable, reason, owned, fresh, counters>>
RebindStale == pc = "rebind" /\ ~SameOwner(Wanted) /\ Stale

\* Every further check of the target.
TargetStale ==
  /\ pc \in {"wait", "escalate", "kill waiter", "drain"} /\ ~SameOwner(target) /\ Stale

Stopped ==
  /\ Goto("wait", "lock") /\ SameOwner(target)
  /\ unit = "inactive" /\ container = "exited"
  /\ UNCHANGED <<instance, service, hw, durable, reason, owned, target, fresh, counters>>

\* The unit is inactive and the container is not, or the deadline has passed.
Overdue ==
  /\ Goto("wait", "escalate") /\ SameOwner(target)
  /\ ~(unit = "inactive" /\ container = "exited")
  /\ UNCHANGED <<instance, service, hw, durable, reason, owned, target, fresh, counters>>

Escalate ==
  /\ Goto("escalate", "kill") /\ SameOwner(target)
  /\ UNCHANGED <<instance, service, hw, durable, reason, owned, target, fresh, counters>>

\* Mutant: whoever is current, not the exact owner.
VictimCurrent == n

\* docker kill and pidfd_send_signal take the exact container and process.
Victim == target

KillContainer ==
  /\ Goto("kill", "kill supervisor")
  /\ container' = IF n = Victim THEN "exited" ELSE container
  /\ UNCHANGED <<n, supervisor, latched, clean, evidence, service, hw, durable, reason,
                 owned, target, fresh, counters>>

KillSupervisor ==
  /\ Goto("kill supervisor", "kill waiter")
  /\ supervisor' = (supervisor /\ n # Victim)
  /\ UNCHANGED <<n, container, latched, clean, evidence, service, hw, durable, reason,
                 owned, target, fresh, counters>>

\* Mutant: the waiter of ExecStop is left to itself.
KillWaiterNever ==
  /\ Goto("kill waiter", "drain") /\ SameOwner(target) /\ container = "exited"
  /\ UNCHANGED <<instance, service, hw, durable, reason, owned, target, fresh, counters>>

KillWaiter ==
  /\ Goto("kill waiter", "drain") /\ SameOwner(target) /\ container = "exited"
  /\ waiter' = Nobody
  /\ UNCHANGED <<instance, unit, launching, hw, durable, reason, owned, target, fresh, counters>>

Drained ==
  /\ Goto("drain", "lock") /\ unit = "inactive"
  /\ UNCHANGED <<instance, service, hw, durable, reason, owned, target, fresh, counters>>
DrainOverdue ==
  /\ pc = "drain" /\ SameOwner(target) /\ unit # "inactive"
  /\ Retry
  /\ UNCHANGED <<instance, service, hw, counters>>

----
\* The proof, under the GPU lease

LeaseFree == ~supervisor /\ ~launching /\ pc \notin {"proof", "seal"}

Lock ==
  /\ Goto("lock", "proof") /\ LeaseFree
  /\ owned # Nobody => SameOwner(owned)
  /\ hw # "reboot"
  /\ UNCHANGED <<instance, service, hw, durable, reason, owned, target, fresh, counters>>
LockStale == pc = "lock" /\ LeaseFree /\ owned # Nobody /\ ~SameOwner(owned) /\ Stale
LockFails ==
  /\ pc = "lock"
  /\ ~LeaseFree \/ (hw = "reboot" /\ (owned # Nobody => SameOwner(owned)))
  /\ Retry
  /\ UNCHANGED <<instance, service, hw, counters>>

\* The probe passes and the quiet minute is over: the last reading of the kernel log.
Quiet ==
  /\ Goto("proof", "seal") /\ ~fresh /\ hw # "reboot"
  /\ UNCHANGED <<instance, service, hw, durable, reason, owned, target, fresh, counters>>

\* The log is read once more, for the cursor that observe starts from: what has been
\* logged since Quiet is passed over with what the probe has cleared.
Prove ==
  /\ Goto("seal", "poll") /\ container = "exited"
  /\ hw' = IF hw = "reboot" THEN hw ELSE "healthy"
  /\ reconciled' = reconciled \union {n} /\ status' = Status("RECOVERED", Nobody)
  /\ UNCHANGED <<instance, service, reason, owned, target, fresh, counters>>
ProofFails ==
  /\ \/ pc = "proof" /\ (fresh \/ hw = "reboot")
     \/ pc = "seal" /\ container # "exited"
  /\ Retry
  /\ UNCHANGED <<instance, service, hw, counters>>

----
\* The service, the gateway and the hardware (external)

\* systemd starts the unit; its launcher holds the lease until it claims or gives up.
Start ==
  /\ starts < MaxStarts /\ starts' = starts + 1
  /\ unit = "inactive" /\ LeaseFree
  /\ unit' = "active" /\ launching' = TRUE
  /\ UNCHANGED <<instance, waiter, hw, durable, controller, faults, failures, crashes>>

Launch ==
  /\ launching /\ container = "exited"
  /\ n' = n + 1 /\ container' = "running" /\ supervisor' = TRUE
  /\ latched' = FALSE /\ clean' = FALSE /\ evidence' = "none"
  /\ launching' = FALSE
  /\ UNCHANGED <<unit, waiter, hw, durable, controller, counters>>

\* It gives up, or has not claimed when systemd ends it after ExecStop.
LaunchFails ==
  /\ launching /\ launching' = FALSE /\ ExecStop
  /\ UNCHANGED <<instance, hw, durable, controller, counters>>

\* It ends by itself, or because the supervisor stops it.
ContainerEnds ==
  /\ container = "running" /\ container' = "exited"
  /\ UNCHANGED <<n, supervisor, latched, clean, evidence, service, hw, durable, controller,
                 counters>>

\* The supervisor ends after a verified cleanup; with a latched fault it stays.
SupervisorEnds ==
  /\ supervisor /\ container = "exited" /\ ~latched
  /\ supervisor' = FALSE /\ clean' = TRUE
  /\ unit' = "deactivating"
  /\ UNCHANGED <<n, container, latched, evidence, launching, waiter, hw, durable, controller,
                 counters>>

\* owned-stop.py waits for the verified cleanup, however long that takes.
WaiterEnds ==
  /\ waiter = n /\ clean /\ waiter' = Nobody
  /\ UNCHANGED <<instance, unit, launching, hw, durable, controller, counters>>

\* It raises when it would repeat a stop that was dispatched and finds the supervisor gone,
\* unless a latched fault keeps it waiting.  It may have waited for an instance that has
\* been replaced; a clean one it leaves alone.
WaiterRaises ==
  /\ waiter # Nobody /\ (waiter = n => ~supervisor /\ ~clean /\ ~latched)
  /\ waiter' = Nobody
  /\ UNCHANGED <<instance, unit, launching, hw, durable, controller, counters>>

UnitStops ==
  /\ unit = "deactivating" /\ ~supervisor /\ ~launching /\ waiter = Nobody
  /\ unit' = "inactive"
  /\ UNCHANGED <<instance, launching, waiter, hw, durable, controller, counters>>

GoesWrong(kind) ==
  kind \in Evidences /\ faults < MaxFaults /\ faults' = faults + 1

\* A stalled worker may fail for good.
Fault ==
  /\ supervisor
  /\ \E kind \in {"tp", "stall", "slow"} :
       /\ GoesWrong(kind) /\ evidence \in {"none", IF kind = "tp" THEN "stall" ELSE "none"}
       /\ evidence' = kind
  /\ UNCHANGED <<n, container, supervisor, latched, clean, service, hw, durable, controller,
                 starts, failures, crashes>>

\* A stalled worker may go on.
Resumes ==
  /\ evidence = "stall" /\ evidence' = "none"
  /\ UNCHANGED <<n, container, supervisor, latched, clean, service, hw, durable, controller,
                 counters>>

HardwareFault ==
  /\ \E kind \in {"hardware", "reboot"} : GoesWrong(kind) /\ hw # "reboot" /\ hw' = kind
  /\ latched' = (latched \/ supervisor) /\ fresh' = (fresh \/ pc = "proof")
  /\ UNCHANGED <<n, container, supervisor, clean, evidence, service, durable, pc, reason,
                 owned, target, starts, failures, crashes>>

SupervisorDies ==
  /\ GoesWrong("supervisor") /\ supervisor /\ supervisor' = FALSE /\ ExecStop
  /\ UNCHANGED <<n, container, latched, clean, evidence, launching, hw, durable, controller,
                 starts, failures, crashes>>

----
ControllerStep ==
  \/ Poll \/ PollReboot \/ BindStale \/ BindGone \/ Bind \/ Publish \/ Check \/ CheckStale
  \/ StopFirst \/ StopAgain \/ Rebind \/ RebindStale \/ TargetStale \/ Stopped \/ Overdue
  \/ Escalate \/ KillContainer \/ KillSupervisor \/ KillWaiter \/ Drained \/ DrainOverdue
  \/ Lock \/ LockStale \/ LockFails \/ Quiet \/ Prove \/ ProofFails

ServiceStep == Launch \/ LaunchFails \/ SupervisorEnds \/ WaiterEnds \/ UnitStops

Next ==
  \/ ControllerStep \/ Fail \/ Crash
  \/ ServiceStep \/ Start \/ ContainerEnds \/ WaiterRaises
  \/ Fault \/ Resumes \/ HardwareFault \/ SupervisorDies

Spec == Init /\ [][Next]_vars

\* main loops and is restarted by systemd; a launch, a release and a stopping unit end.
\* Nothing makes a container end.
FairSpec == Spec /\ WF_vars(ControllerStep) /\ WF_vars(ServiceStep)

----
\* Properties

TypeOK ==
  /\ n \in Instances /\ container \in {"running", "exited"}
  /\ supervisor \in BOOLEAN /\ latched \in BOOLEAN /\ clean \in BOOLEAN
  /\ evidence \in {"none", "tp", "stall", "slow"}
  /\ unit \in {"active", "deactivating", "inactive"}
  /\ launching \in BOOLEAN /\ waiter \in Instances \union {Nobody}
  /\ hw \in {"healthy", "hardware", "reboot"}
  /\ status.state \in States /\ status.owner \in Instances \union {Nobody}
  /\ status.owner # Nobody => InProgress
  /\ reconciled \subseteq Instances
  /\ pc \in Places /\ reason \in {"none", "tp", "stall", "incomplete", "other"}
  /\ owned \in Instances \union {Nobody} /\ target \in Instances \union {Nobody}
  /\ fresh \in BOOLEAN /\ starts \in 0 .. MaxStarts /\ faults \in 0 .. MaxFaults
  /\ failures \in 0 .. MaxFailures /\ crashes \in 0 .. MaxCrashes

\* A recovery that names an owner in its durable status kills no other instance, whatever
\* has been stopped and started since the owner was last checked (recovery.py:100-112).
KillsOwner ==
  [][\/ KillContainer /\ container' # container
     \/ KillSupervisor /\ supervisor' # supervisor
       => status.owner \in {n, Nobody}]_vars

\* A recovery in progress keeps its owner, through failures, retries and restarts of the
\* controller, until it has recovered or has found the owner gone; only the discovery that
\* a reboot is needed drops it (recovery.py:17-24, 212-230).
OwnerRetained ==
  [][InProgress /\ status.owner # Nobody =>
       \/ status'.state \in {"IDLE", "RECOVERED", "REBOOT_REQUIRED"}
       \/ status'.owner = status.owner]_vars

\* A recovery that has begun ends - unless a reboot is required - even if the container
\* ignores its stop, the supervisor stays in quarantine and ExecStop waits for a cleanup
\* that will never be verified (recovery.py:87-124, 370-378).
RecoveryEnds == Pending ~> (~Pending \/ hw = "reboot")
===============================================================================
