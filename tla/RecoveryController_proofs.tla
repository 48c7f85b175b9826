------------------------ MODULE RecoveryController_proofs ------------------------
(***************************************************************************)
(* Theorems about RecoveryController: type correctness, and the two        *)
(* properties that tie a recovery to its owner, for every set of evidences *)
(* and every number of starts, faults, failures and crashes.               *)
(*                                                                         *)
(* The properties read the durable status, the steps read the controller's *)
(* own variables; Binding says what ties the two together at each place of *)
(* cycle and stop_owned.                                                   *)
(***************************************************************************)
EXTENDS RecoveryController, TLAPS

InCycle == Places \ {"poll", "bind", "publish"}
InStop == {"stop again", "wait", "escalate", "kill", "kill supervisor", "kill waiter", "drain"}

\* Each launch has its start.
Started == n + (IF launching THEN 1 ELSE 0) <= starts + 1

\* Before it is published the owner is that of the retry, if there is one; after that the
\* status names the owner of the cycle, and the target, once bound, is that owner.
Binding ==
  /\ pc = "publish" => Bound \in {owned, Nobody}
  /\ pc \in InCycle => status = Status("RECOVERING", owned)
  /\ pc \in InStop => owned \in {target, Nobody}

Inv == TypeOK /\ Started /\ Binding

OwnerKept ==
  InProgress /\ status.owner # Nobody =>
    \/ status'.state \in {"IDLE", "RECOVERED", "REBOOT_REQUIRED"}
    \/ status'.owner = status.owner
OnlyTheOwner ==
  \/ KillContainer /\ container' # container
  \/ KillSupervisor /\ supervisor' # supervisor
    => status.owner \in {n, Nobody}

----
\* The initial state: no recovery, one instance.
LEMMA InitInv == Init => Inv
<1> SUFFICES ASSUME Init PROVE Inv
  OBVIOUS
<1> USE RecoveryAssumption DEF Init, RecoveryAssumption, Nobody, Status
<1>1. TypeOK
  <2>1. n \in Instances /\ status.state = "IDLE" /\ status.owner = Nobody /\ reconciled = {}
    BY DEF Instances
  <2>2. starts = 0 /\ faults = 0 /\ failures = 0 /\ crashes = 0
    OBVIOUS
  <2>3. /\ starts \in 0 .. MaxStarts /\ faults \in 0 .. MaxFaults
        /\ failures \in 0 .. MaxFailures /\ crashes \in 0 .. MaxCrashes
    BY <2>2
  <2> QED
    BY <2>1, <2>3 DEF TypeOK, States, Places
<1>2. Started
  BY DEF Started
<1>3. Binding
  BY DEF Binding, InCycle, InStop
<1> QED
  BY <1>1, <1>2, <1>3 DEF Inv

----
\* Type correctness, in parts.
InstanceOK ==
  /\ n \in Instances /\ container \in {"running", "exited"}
  /\ supervisor \in BOOLEAN /\ latched \in BOOLEAN /\ clean \in BOOLEAN
  /\ evidence \in {"none", "tp", "stall", "slow"}
ServiceOK ==
  /\ unit \in {"active", "deactivating", "inactive"}
  /\ launching \in BOOLEAN /\ waiter \in Instances \union {Nobody}
  /\ hw \in {"healthy", "hardware", "reboot"}
DurableOK ==
  /\ status.state \in States /\ status.owner \in Instances \union {Nobody}
  /\ status.owner # Nobody => InProgress
  /\ reconciled \subseteq Instances
ControllerOK ==
  /\ pc \in Places /\ reason \in {"none", "tp", "stall", "incomplete", "other"}
  /\ owned \in Instances \union {Nobody} /\ target \in Instances \union {Nobody}
  /\ fresh \in BOOLEAN
CountersOK ==
  /\ starts \in 0 .. MaxStarts /\ faults \in 0 .. MaxFaults
  /\ failures \in 0 .. MaxFailures /\ crashes \in 0 .. MaxCrashes

LEMMA TypeParts ==
  TypeOK <=> InstanceOK /\ ServiceOK /\ DurableOK /\ ControllerOK /\ CountersOK
  BY DEF TypeOK, InstanceOK, ServiceOK, DurableOK, ControllerOK, CountersOK

LEMMA TypePartsPrimed ==
  ASSUME InstanceOK', ServiceOK', DurableOK', ControllerOK', CountersOK'
  PROVE  TypeOK'
  BY DEF TypeOK, InstanceOK, ServiceOK, DurableOK, ControllerOK, CountersOK

\* What the controller does by itself, and what happens around it.
Controls == ControllerStep \/ Fail \/ Crash
Others ==
  \/ ServiceStep \/ Start \/ ContainerEnds \/ WaiterRaises
  \/ Fault \/ Resumes \/ HardwareFault \/ SupervisorDies

\* The parts of the invariant that only the controller disturbs.
Bookkeeping == DurableOK /\ ControllerOK /\ Binding

LEMMA OthersFrame ==
  ASSUME Others \/ UNCHANGED vars
  PROVE  UNCHANGED <<status, reconciled, pc, reason, owned, target>>
  BY DEF Others, ServiceStep, Launch, LaunchFails, SupervisorEnds, WaiterEnds, UnitStops, Start,
     ContainerEnds, WaiterRaises, Fault, Resumes, HardwareFault, SupervisorDies, ExecStop, vars, durable, controller

\* The three ways a cycle ends early.
LEMMA StaleStep == ASSUME Bookkeeping, Stale PROVE Bookkeeping' /\ OwnerKept
<1>1. status' = Status("IDLE", Nobody) /\ pc' = "poll"
  BY DEF Stale
<1>2. DurableOK'
  BY <1>1 DEF Stale, Bookkeeping, DurableOK, Status, States, InProgress, Instances
<1>3. ControllerOK'
  BY <1>1 DEF Stale, Bookkeeping, ControllerOK, Places, Instances
<1>4. Binding' /\ OwnerKept
  BY <1>1 DEF Binding, InCycle, InStop, OwnerKept, Status
<1> QED
  BY <1>2, <1>3, <1>4 DEF Bookkeeping

LEMMA RetryStep == ASSUME Bookkeeping, Retry PROVE Bookkeeping' /\ OwnerKept
<1>1. status' = Status("RETRY_WAIT", IF InProgress THEN status.owner ELSE Nobody)
  BY DEF Retry
<1>2. pc' = "poll" /\ fresh' = FALSE
  BY DEF Retry
<1>3. DurableOK'
  BY <1>1 DEF Retry, Bookkeeping, DurableOK, Status, States, InProgress, Instances
<1>4. ControllerOK'
  BY <1>2 DEF Retry, Bookkeeping, ControllerOK, Places, Instances
<1>5. Binding'
  BY <1>2 DEF Binding, InCycle, InStop
<1>6. OwnerKept
  BY <1>1 DEF OwnerKept, Status
<1> QED
  BY <1>3, <1>4, <1>5, <1>6 DEF Bookkeeping

LEMMA ControlsStep ==
  ASSUME Bookkeeping, n \in Instances, Controls
  PROVE  Bookkeeping' /\ OwnerKept
<1>a. DurableOK /\ ControllerOK /\ Binding
  BY DEF Bookkeeping
<1> USE DEF Goto
<1>1. CASE Poll
  <2>1. UNCHANGED <<status, reconciled, owned, target, fresh>> /\ pc' = "bind"
    BY <1>1 DEF Poll, durable
  <2>2. reason' \in {"none", "tp", "stall", "incomplete", "other"}
    BY <1>1 DEF Poll, PrefersFatal, Fatal
  <2> QED
    BY <1>a, <2>1, <2>2 DEF Bookkeeping, DurableOK, ControllerOK, Binding, OwnerKept, InProgress,
       Bound, InCycle, InStop, Places
<1>2. CASE PollReboot
  <2>1. status' = Status("REBOOT_REQUIRED", Nobody) /\ reconciled' = reconciled
    BY <1>2 DEF PollReboot
  <2>2. UNCHANGED <<pc, reason, owned, target, fresh>> /\ pc = "poll"
    BY <1>2 DEF PollReboot, controller
  <2>3. DurableOK' /\ OwnerKept
    BY <1>a, <2>1 DEF DurableOK, OwnerKept, Status, States, InProgress, Instances
  <2> QED
    BY <1>a, <2>2, <2>3 DEF Bookkeeping, ControllerOK, Binding, InCycle, InStop
<1>3. CASE BindStale \/ CheckStale \/ RebindStale \/ TargetStale \/ LockStale
  BY <1>3, StaleStep DEF BindStale, CheckStale, RebindStale, TargetStale, LockStale
<1>4. CASE DrainOverdue \/ LockFails \/ ProofFails \/ Fail
  BY <1>4, RetryStep DEF DrainOverdue, LockFails, ProofFails, Fail
<1>5. CASE BindGone
  BY <1>a, <1>5 DEF BindGone, Bookkeeping, DurableOK, ControllerOK, Binding, OwnerKept,
     InProgress, InCycle, InStop, Places, durable
<1>6. CASE Bind
  <2>1. UNCHANGED <<status, reconciled, reason, target, fresh>> /\ pc' = "publish"
    BY <1>6 DEF Bind, durable
  <2>2. owned' \in Instances \union {Nobody}
    BY <1>a, <1>6 DEF Bind, Bound, DurableOK
  <2>3. Bound \in {owned', Nobody}
    BY <1>6 DEF Bind, SameOwner
  <2> QED
    BY <1>a, <2>1, <2>2, <2>3 DEF Bookkeeping, DurableOK, ControllerOK, Binding, OwnerKept,
       InProgress, Bound, InCycle, InStop, Places
<1>7. CASE Publish
  <2>1. status' = Status("RECOVERING", owned) /\ pc = "publish" /\ pc' = "check"
    BY <1>7 DEF Publish
  <2>2. UNCHANGED <<reconciled, reason, owned, target, fresh>>
    BY <1>7 DEF Publish
  <2>3. DurableOK'
    BY <1>a, <2>1, <2>2 DEF DurableOK, ControllerOK, Status, States, InProgress, Instances
  <2>4. OwnerKept
    BY <1>a, <2>1 DEF OwnerKept, Binding, Bound, Status
  <2> QED
    BY <1>a, <2>1, <2>2, <2>3, <2>4 DEF Bookkeeping, ControllerOK, Binding, InCycle, InStop, Places
<1>8. CASE Rebind
  <2>1. UNCHANGED <<status, reconciled, reason, owned, fresh>> /\ pc = "rebind" /\ pc' = "stop again"
    BY <1>8 DEF Rebind, durable
  <2>2. target' \in Instances \union {Nobody} /\ owned \in {target', Nobody}
    BY <1>a, <1>8 DEF Rebind, Wanted, ControllerOK
  <2> QED
    BY <1>a, <2>1, <2>2 DEF Bookkeeping, DurableOK, ControllerOK, Binding, OwnerKept,
       InProgress, InCycle, InStop, Places
<1>9. CASE Check \/ StopFirst \/ StopAgain \/ Stopped \/ Overdue \/ Escalate \/ KillContainer
           \/ KillSupervisor \/ KillWaiter \/ Drained \/ Lock \/ Quiet
  <2>1. UNCHANGED <<status, reconciled, reason, owned, target, fresh>>
    BY <1>9 DEF Check, StopFirst, StopAgain, Stop, Stopped, Overdue, Escalate, KillContainer,
       KillSupervisor, KillWaiter, Drained, Lock, Quiet, durable
  <2>2. pc \in InCycle /\ pc' \in InCycle /\ (pc' \in InStop => pc \in InStop)
    BY <1>9 DEF Check, StopFirst, StopAgain, Stop, Stopped, Overdue, Escalate, KillContainer,
       KillSupervisor, KillWaiter, Drained, Lock, Quiet, InCycle, InStop, Places
  <2> QED
    BY <1>a, <2>1, <2>2 DEF Bookkeeping, DurableOK, ControllerOK, Binding, OwnerKept,
       InProgress, InCycle
<1>10. CASE Prove
  <2>1. status' = Status("RECOVERED", Nobody) /\ reconciled' = reconciled \union {n} /\ pc' = "poll"
    BY <1>10 DEF Prove
  <2>2. UNCHANGED <<reason, owned, target, fresh>>
    BY <1>10 DEF Prove
  <2>3. DurableOK' /\ OwnerKept
    BY <1>a, <2>1 DEF DurableOK, OwnerKept, Status, States, InProgress, Instances
  <2> QED
    BY <1>a, <2>1, <2>2, <2>3 DEF Bookkeeping, ControllerOK, Binding, InCycle, InStop, Places
<1>11. CASE Crash
  <2>1. UNCHANGED <<status, reconciled>> /\ pc' = "poll" /\ reason' = "none"
    BY <1>11 DEF Crash, durable
  <2>2. owned' = Nobody /\ target' = Nobody /\ fresh' = FALSE
    BY <1>11 DEF Crash
  <2> QED
    BY <1>a, <2>1, <2>2 DEF Bookkeeping, DurableOK, ControllerOK, Binding, OwnerKept,
       InProgress, InCycle, InStop, Places
<1> QED
  BY <1>1, <1>2, <1>3, <1>4, <1>5, <1>6, <1>7, <1>8, <1>9, <1>10, <1>11
  DEF Controls, ControllerStep

\* The launch that the counter of starts has room for.
LEMMA InstanceStep == ASSUME Inv, [Next]_vars PROVE InstanceOK'
<1> USE DEF InstanceOK
<1>1. InstanceOK /\ n \in Nat
  BY TypeParts DEF Inv, Instances
<1>2. CASE UNCHANGED instance \/ UNCHANGED vars
  BY <1>1, <1>2 DEF instance, vars, Instances
<1>3. CASE KillContainer \/ KillSupervisor
  BY <1>1, <1>3 DEF KillContainer, KillSupervisor, Instances
<1>4. CASE Launch
  <2>1. n + 1 \in Instances
    BY <1>1, <1>4, TypeParts, RecoveryAssumption
    DEF Launch, Inv, Started, CountersOK, Instances, RecoveryAssumption
  <2> QED
    BY <1>1, <1>4, <2>1 DEF Launch, Instances
<1>5. CASE SupervisorEnds \/ ContainerEnds \/ Resumes \/ SupervisorDies
  BY <1>1, <1>5 DEF SupervisorEnds, ContainerEnds, Resumes, SupervisorDies, ExecStop, Instances
<1>6. CASE Fault \/ HardwareFault
  BY <1>1, <1>6 DEF Fault, HardwareFault, Instances
<1> QED
  BY <1>2, <1>3, <1>4, <1>5, <1>6
  DEF Next, ControllerStep, ServiceStep, Poll, PollReboot, BindStale, BindGone, Bind, Publish,
      Check, CheckStale, StopFirst, StopAgain, Stop, Rebind, RebindStale, TargetStale, Stopped,
      Overdue, Escalate, KillWaiter, Drained, DrainOverdue, Lock, LockStale, LockFails, Quiet,
      Prove, ProofFails, Stale, Fail, Crash, LaunchFails, WaiterEnds,
      WaiterRaises, UnitStops, Start

\* What is left of the invariant is disturbed by single actions.
LEMMA ServiceTyped == ASSUME Inv, [Next]_vars PROVE ServiceOK'
<1>1. ServiceOK
  BY TypeParts DEF Inv
<1>2. CASE UNCHANGED <<service, hw>>
  BY <1>1, <1>2 DEF ServiceOK, service
<1>n. n \in Instances
  BY TypeParts DEF Inv, InstanceOK
<1>3. CASE StopFirst \/ StopAgain \/ LaunchFails \/ SupervisorDies
  BY <1>1, <1>n, <1>3
  DEF ServiceOK, StopFirst, StopAgain, Stop, StopService, LaunchFails, SupervisorDies, ExecStop
<1>4. CASE KillWaiter \/ Start \/ Launch \/ SupervisorEnds \/ WaiterEnds \/ WaiterRaises \/ UnitStops
  BY <1>1, <1>4
  DEF ServiceOK, KillWaiter, Start, Launch, SupervisorEnds, WaiterEnds, WaiterRaises, UnitStops
<1>5. CASE HardwareFault \/ Prove
  BY <1>1, <1>5 DEF ServiceOK, HardwareFault, Prove, service
<1> QED
  BY <1>2, <1>3, <1>4, <1>5
  DEF Next, ControllerStep, ServiceStep, Poll, PollReboot, BindStale, BindGone, Bind, Publish,
      Check, CheckStale, Rebind, RebindStale, TargetStale, Stopped, Overdue, Escalate,
      KillContainer, KillSupervisor, Drained, DrainOverdue, Lock, LockStale, LockFails, Quiet,
      ProofFails, Stale, Fail, Crash, ContainerEnds, Fault, Resumes, vars, service

LEMMA CountersTyped == ASSUME Inv, [Next]_vars PROVE CountersOK'
<1>1. CountersOK
  BY TypeParts DEF Inv
<1> USE RecoveryAssumption DEF RecoveryAssumption, CountersOK
<1>2. CASE UNCHANGED counters
  BY <1>1, <1>2 DEF counters
<1>3. CASE Fail \/ Crash \/ Start
  BY <1>1, <1>3 DEF Fail, Crash, Start
<1>4. CASE Fault \/ HardwareFault \/ SupervisorDies
  BY <1>1, <1>4 DEF Fault, HardwareFault, SupervisorDies, GoesWrong
<1> QED
  BY <1>2, <1>3, <1>4
  DEF Next, ControllerStep, ServiceStep, Poll, PollReboot, BindStale, BindGone, Bind, Publish,
      Check, CheckStale, StopFirst, StopAgain, Stop, Rebind, RebindStale, TargetStale, Stopped,
      Overdue, Escalate, KillContainer, KillSupervisor, KillWaiter, Drained, DrainOverdue, Lock,
      LockStale, LockFails, Quiet, Prove, ProofFails, Stale, Launch, LaunchFails, SupervisorEnds,
      WaiterEnds, WaiterRaises, UnitStops, ContainerEnds, Resumes, vars

LEMMA StartedStep == ASSUME Inv, [Next]_vars PROVE Started'
<1>1. n \in Nat /\ starts \in Nat /\ launching \in BOOLEAN /\ Started
  BY TypeParts DEF Inv, InstanceOK, ServiceOK, CountersOK, Instances
<1> USE DEF Started
<1>2. CASE UNCHANGED <<n, starts>> /\ launching' \in {FALSE, launching}
  <2>1. CASE launching' = launching
    BY <1>1, <1>2, <2>1
  <2>2. CASE launching' = FALSE
    <3>1. n <= starts + 1
      <4>1. CASE launching
        BY <1>1, <4>1
      <4>2. CASE ~launching
        BY <1>1, <4>2
      <4> QED
        BY <4>1, <4>2
    <3>2. n' = n /\ starts' = starts /\ ~launching'
      BY <1>2, <2>2
    <3>3. (IF launching' THEN 1 ELSE 0) = 0
      BY <3>2
    <3> QED
      BY <1>1, <3>1, <3>2, <3>3
  <2> QED
    BY <1>2, <2>1, <2>2
<1>3. CASE Start
  BY <1>1, <1>3 DEF Start, LeaseFree, instance
<1>4. CASE Launch
  BY <1>1, <1>4 DEF Launch, counters
<1> QED
  BY <1>2, <1>3, <1>4
  DEF Next, ControllerStep, ServiceStep, Poll, PollReboot, BindStale, BindGone, Bind, Publish,
      Check, CheckStale, StopFirst, StopAgain, Stop, StopService, Rebind, RebindStale,
      TargetStale, Stopped, Overdue, Escalate, KillContainer, KillSupervisor, KillWaiter,
      Drained, DrainOverdue, Lock, LockStale, LockFails, Quiet, Prove, ProofFails, Stale, Fail,
      Crash, LaunchFails, SupervisorEnds, WaiterEnds, UnitStops, ContainerEnds, Fault, Resumes,
      HardwareFault, SupervisorDies, ExecStop, WaiterRaises, vars, instance, service, counters

LEMMA Step == ASSUME Inv, [Next]_vars PROVE Inv' /\ OwnerKept
<1>1. Bookkeeping /\ n \in Instances
  BY TypeParts DEF Inv, Bookkeeping, InstanceOK
<1>2. Bookkeeping' /\ OwnerKept
  <2>1. CASE Controls
    BY <1>1, <2>1, ControlsStep
  <2>2. CASE Others \/ UNCHANGED vars
    <3>1. UNCHANGED <<status, reconciled, pc, reason, owned, target>>
      BY <2>2, OthersFrame
    <3>2. fresh' \in BOOLEAN
      BY <1>1, <2>2
      DEF Others, ServiceStep, Launch, LaunchFails, SupervisorEnds, WaiterEnds, UnitStops,
          Start, ContainerEnds, WaiterRaises, Fault, Resumes, HardwareFault, SupervisorDies, ExecStop, vars, controller,
          Bookkeeping, ControllerOK
    <3> QED
      BY <1>1, <3>1, <3>2 DEF Bookkeeping, DurableOK, ControllerOK, Binding, OwnerKept,
         InProgress, Bound
  <2> QED
    BY <2>1, <2>2 DEF Next, Controls, Others
<1>3. TypeOK'
  BY <1>2, TypePartsPrimed, InstanceStep, ServiceTyped, CountersTyped DEF Bookkeeping
<1> QED
  BY <1>2, <1>3, StartedStep DEF Inv, Bookkeeping

\* The owner that the status names is the target that is killed.
LEMMA KillStep == ASSUME Inv PROVE OnlyTheOwner
<1>1. ASSUME pc \in {"kill", "kill supervisor"}, n = target
      PROVE  status.owner \in {n, Nobody}
  <2>1. status = Status("RECOVERING", owned) /\ owned \in {target, Nobody}
    BY <1>1 DEF Inv, Binding, InCycle, InStop, Places
  <2> QED
    BY <1>1, <2>1 DEF Status
<1>2. ASSUME KillContainer, container' # container PROVE status.owner \in {n, Nobody}
  BY <1>1, <1>2 DEF KillContainer, Goto, Victim
<1>3. ASSUME KillSupervisor, supervisor' # supervisor PROVE status.owner \in {n, Nobody}
  <2>1. supervisor \in BOOLEAN
    BY TypeParts DEF Inv, InstanceOK
  <2> QED
    BY <1>1, <1>3, <2>1 DEF KillSupervisor, Goto, Victim
<1> QED
  BY <1>2, <1>3 DEF OnlyTheOwner

----
\* The status and the controller's own variables never come apart (recovery.py:212-252).
THEOREM RecoveryInvariant == Spec => []Inv
<1>1. Inv /\ [Next]_vars => Inv'
  BY Step
<1> QED
  BY InitInv, <1>1, PTL DEF Spec

\* Type correctness of the controller's durable and volatile state.
THEOREM TypeCorrect == Spec => []TypeOK
<1>1. Inv => TypeOK
  BY DEF Inv
<1> QED
  BY RecoveryInvariant, <1>1, PTL

\* A recovery in progress keeps its owner through failures, retries and restarts.
THEOREM OwnersRetained == Spec => OwnerRetained
<1>1. Inv /\ [Next]_vars => OwnerKept
  BY Step
<1> QED
  BY RecoveryInvariant, <1>1, PTL DEF Spec, OwnerRetained, OwnerKept

\* A recovery that names an owner kills no other instance.
THEOREM KillsOnlyOwner == Spec => KillsOwner
<1>1. Inv => OnlyTheOwner
  BY KillStep
<1> QED
  BY RecoveryInvariant, <1>1, PTL DEF Spec, KillsOwner, OnlyTheOwner
===============================================================================
