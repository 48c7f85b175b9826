# Formal models of the dual-GPU vLLM serving stack

This directory holds TLA+ models of the control logic that this repository adds
to or relies on in vLLM: the TP generation lifecycle, the executor and workers
that carry it out, the engine loop that admits requests to it, the
shared-memory queue between engine and workers, and the three programs around
the engine that keep one container on one pair of GPUs: supervisor, launcher and
recovery worker. TLC checks the models on small instances; TLAPS proves
the most important safety properties of each for every value of the constants.

Short names used below:

| name | path |
|---|---|
| `core.py` | `profiles/production-dense-recovery-20260923/overlay/vllm/v1/engine/core.py` |
| `multiproc_executor.py` | `profiles/production-dense-recovery-20260923/overlay/vllm/v1/executor/multiproc_executor.py` |
| `tp_lifecycle.py` | `runtime-build/overlay-graph006/vllm/v1/executor/tp_lifecycle.py` |
| `shm_broadcast.py` | `runtime-build/overlay-graph006/vllm/distributed/device_communicators/shm_broadcast.py` |
| `supervisor.py`, `launcher.py`, `publish_prior_boot_reconciliation.py`, `restart_app_recovery.py` | `profiles/production-dense-recovery-20260923/` |
| `recovery.py`, `owned-stop.py`, `nvidia-launch.py` | `profiles/production-dense-recovery-20260923/control-binding/` |

## 1. The system

A production instance is one container: an API server, one EngineCore process,
and two worker processes (TP2), one per GPU. It runs with
`VLLM_TP_GENERATION_LIFECYCLE=1`, `--no-async-scheduling`, `max_num_seqs=1` and
three speculative (MTP) tokens. A supervisor owns the container, a launcher
starts it under leases, and a recovery controller restarts it after a fault.

### Inventory

| component | state | operations | interacts with |
|---|---|---|---|
| **Generation lifecycle** (`tp_lifecycle.py`) | coordinator: phase, active token, last completed generation, resource registry, recovery state; per rank: participant phase, active token, last completed, registry | begin, mark running/completing/aborting, quiesce, prepare, commit, baseline, poison, rebuild | called by executor and workers; poisoned by two threads |
| **Executor and workers** (`multiproc_executor.py`) | broadcast queue, per-rank response queues, RPC ids and records, `is_failed`, `failure_callback`, pending finalizations | collective RPC (dispatch, collect, correlate, time out), admission fence, finalize, worker monitor, shutdown; worker busy loop | engine thread, monitor thread, worker processes over shared memory |
| **Engine loop** (`core.py`) | input queue, aborts queue, deferred-ADD FIFO, shutdown state, scheduler | admit, defer, refuse, abort, step, utility call, handle failure, shut down | input socket thread, output thread, signal handler, executor |
| **Supervisor** (`supervisor.py`) | durable: intent, startup receipt, first incident, stop request, attestation; volatile: the intent in memory, the samples of the post-exit window | begin, tick (inspect, stop, monitor, start, announce, exit, observe), incident, resume | docker, kernel journal, nvidia-smi, launcher, owned-stop |
| **Launcher and launch gate** (`launcher.py`, `nvidia-launch.py`, `p2p-gate.py`) | file lease, intents of every instance, `active.json`, reconciliation receipts | take the lease, gate, preflight, claim, run, resume, publish a receipt | supervisor, docker, systemd |
| **Recovery worker** (`recovery.py`, `owned-stop.py`) | durable status with the owner it is bound to, the proof that readmits the GPUs | observe, choose a reason, bind an owner, stop it and escalate, prove idleness, retry | systemd, docker, kernel log, hardware observer and gateway (both not in the repository) |
| **Runtime inspection** (`inspection/`) | one lock, the set of request ids seen, outcome-unknown flag | admission, collect, audit | engine utility RPC |
| **Shared-memory queue** (`shm_broadcast.py`) | ring of slots with reader flags | acquire write/read | executor and workers |
| API client, front end, telemetry, start-up guard, model runner, kernels, request adapter, inventory cache, public launcher, image and release tools, reference harness, legacy profile | see PROJECT.json | | |

### What is hard in it, and what makes each part correct

* *Lifecycle and executor.* Two threads write the coordinator's phase without a
  lock; the output rank answers before the other ranks have read the RPC; a rank
  may exit, hang or answer late at any point of a two-phase cleanup; final
  output, abort and worker cleanup of one request arrive at different moments.
  Correct means: between two generations every rank is clean; a generation
  begins only behind a complete fence; a rank retires a generation only after
  all have proved themselves quiescent; poison is final; no healthy
  interleaving poisons; every generation ends; a worker's death is reported.
* *Engine loop.* Aborts travel in two queues, one of which is cleared; the gate
  opens between a deferral and the next message; shutdown, poison, finishing and
  aborting compete to answer one request. Correct means: one answer per request
  at most, and one at least; first come, first served; one request in the
  scheduler; no abort lost; shutdown ends.
* *Queue.* Slots are shared without a lock; large messages leave the ring for a
  socket; notifications may be lost; readers die, time out and are shut down
  while they wait. Correct means: no torn or stale read, nothing lost, repeated
  or out of order, nobody waits for a notification that never comes.
* *Supervisor.* It may crash between any two durable writes, and between a write
  and the command it announces; commands may be carried out later or refused.
  Correct means: a container is claimed and runs once and is given up only when
  it can never run again; a kernel fault is never lost; nothing is admitted to a
  container on its way down; a stop completes, across a crash and a lost signal.
* *Launcher.* Launches race for the lease, minutes pass between a gate and the
  claim it allows, and a gate looks only into directories of a certain name.
  Correct means: one container on the GPU pair, an orphan is always reachable, and
  no claim over an unreconciled instance; how far each of them depends on what the
  gate sees is what the model is about.
* *Recovery.* Every reading is stale when it is used: the gateway may stop and
  start the service at any time. Correct means: a recovery kills the instance
  that failed and no other, stays with it through retries and restarts, and ends.

`PROJECT.json` lists each hazard at its line, with the properties that cover it
or the reason why none does yet.

## 2. Modules

Each line names a component's module, what it implements or relies on, and where
its proofs are. Every component has an `MC...` module with its TLC instances.

```
GenerationLifecycle   implements RequestFence     GenerationLifecycle_proofs, GenerationHealth_proofs
EngineAdmission       over RequestFence's gate    EngineAdmission_proofs
BroadcastRing         implements BroadcastQueue   BroadcastRing_proofs
Supervisor            implements OwnedContainer   Supervisor_proofs, SupervisorReceipt_proofs
LaunchLease           over OwnedContainer's life  LaunchLease_proofs
RecoveryController    over a numbered service     RecoveryController_proofs
```

The engine side and the host side meet at narrow interfaces. `EngineAdmission`
uses the executor only as `RequestFence` promises it; `GenerationLifecycle` uses
the queue as the reliable FIFO that `BroadcastQueue` promises (its limit on
length cannot bind there, since one call is outstanding at a time);
`LaunchLease` lets a container do what `OwnedContainer` allows; and
`RecoveryController` sees supervisor and launcher as a service whose instances
start, fail and end.

### GenerationLifecycle

One EngineCore thread with its executor and coordinator, the monitor thread and
one worker process per rank.

| model | code |
|---|---|
| `phase`, `active`, `owner`, `lastDone` | `GenerationCoordinator.phase`, `.active`, `.last_completed_generation` |
| `recovery` | `coordinator.recovery.state` |
| `owned` | ACTIVE records of the coordinator's registry: the scheduler's REQUEST_STATE is 0, an RPC is its id |
| `rpcs`, `cur` | the broadcast queue as the sequence of everything sent, and how far each rank has read |
| `resp` | the per-rank response queues |
| `call` | the one outstanding `collective_rpc`: its RPC, the ranks awaited, whether every reply so far is a clean proof, whether it was given a timeout |
| `wPhase`, `wActive`, `wDone`, `holds` | `RankLifecycleParticipant` and the requests the model runner of the rank holds |
| `alive` | a worker process is up, hung in a kernel or collective, or dead |
| `monitor` | how far the monitor thread has come: `is_failed`, poison, callback, shutdown |
| `engine` | `dead` once ENGINE_CORE_DEAD is sent |

`Admit`, `Begin`, `AdmitRefused` are `add_request`'s admission: fence, begin,
refusal. `Step`, `SampleStep`, `FinishStep`, `DraftStep`, `EndCall` are `step`
and `post_step`, one RPC after the other. `FinalizeStep`, `PrepareDone`,
`CommitDone`, `BaselineDone` are `stability_finalize_generation`. `Abort` and
`UtilityRpc` are the two other client requests that touch the lifecycle.
`ReceiveReply`, `CallTimeout`, `LateReply` are `get_response`. The `Worker...`
actions are the branches of `worker_busy_loop`, one whole pass each.

Between two actions of one thread every other thread may act. Finer
interleaving matters at one place, the phase writes: the coordinator takes no
lock, so `SetPhase` lets a poison by the monitor thread fall between the check
and the write, which covers it.

Abstractions: a generation is its number (request id and executor identity are
functions of it within one executor's lifetime); the queues are reliable FIFOs
without a limit; a rank's own RPC records open and close within one pass of the
worker loop, so no other thread sees them open; the reasons for an unclean rank
are one nondeterministic fault; telemetry, heartbeats and the diagnostic
watchdog leave no state. What is not there: start-up, the asynchronous output
thread, the in-process rebuild (no production code calls it).

### EngineAdmission

The busy loop at the grain of its queue operations. `pc` says where the engine
thread is: the head of the loop, the deferred admission, the waiting test, the
blocking `get`, the draining loop, the two halves of a step. The input thread
writes an ABORT in two actions (`SendAbort`, `QueueAbort`), the signal handler
in two (`Signal`, `Wakeup`), the monitor thread in two (`WorkerExit`,
`NotifyFailure`).

The executor is its gate, as `RequestFence` promises it: `ready`, `busy`,
`poisoned`. The gate opens again in the step that carries the finished request
to the workers, which is where `stability_finalize_generation` runs.
`replies` counts the final outputs sent for each request.

Abstractions: a request id is added once (an ADD for a request that the
scheduler has is a streaming update and does not reach admission); one client;
no data-parallel wave, pause or batch queue; a malformed request never leaves
the input thread; every call of the executor returns or fails (where `GenerationEnds` has
its exception, nothing of the loop would end either). `Update` chooses which of the running requests ends.

### RequestFence

The gate, the number of generations served, the set of ranks inside the current
one, and whether it is sealed (proved quiescent by all). `Admit` needs an open
gate and no rank inside; `Leave` needs the seal; `Complete` needs the seal and
no rank inside; poison is final. The refinement maps `gate` to the answer of
`stability_request_admission_state`, `served` to the last completed generation,
`using` to the ranks with an active token, `sealed` to "every rank is prepared
or has retired the active generation".

### BroadcastQueue and BroadcastRing

`MessageQueue` over `ShmRingBuffer`: one writer and its local readers. Each slot
has a chunk of data, a written flag and one read flag per reader. There is no
lock; the order in which the two sides touch the flags is the whole protocol, so
every access that the other side can tell apart is an action. `acquire_write` is
`Writable` (the check of all flags), `ClaimSlot` (written flag to 0), `WriteChunk`,
`ResetFlag` (one reader's flag at a time), `PublishSlot` (written flag to 1) and
`Notify`; `acquire_read` is `ReadFlag`, `ReadWritten`, the wait (`Spin`, `Park`,
`PollEnds`, `Wake`) and `Consume` or its failure. A message too large for a chunk
(`Large`) leaves a mark in its slot and goes over a socket (`SendPayload`, `Recv`).
`wait_until_ready`, `shutdown`, timeouts on both sides, an exception inside the
slot and the death of either side are there.

Abstractions: a message is its number; the memory fences of the code are taken to
make the accesses sequentially consistent; a notification is a flag that may be
lost. Not modelled: remote readers (production is one node), serialization.

`BroadcastQueue` is a bounded queue that every reader drains at its own pace; the
refinement maps `published` and `taken` to themselves and the capacity to the
number of slots.

### OwnedContainer and Supervisor

One supervisor, its container, the Docker daemon, the kernel journal and
`owned-stop.py`. The intent exists twice, `mem` in memory and `disk` in
`intent.json`; `persist` copies one to the other, and `Crash` may fall between any
two durable writes, or between a write and the dispatch it announces. `pc` names
that place. A docker command is dispatched to a client process (`ops`,
`stopClient`): what was dispatched is carried out at any later time, even under
no supervisor, or refused. `report` is the incident being written and where it
returns to; it passes through the intent, the first-incident record and the
receipt as `incident` does.

Abstractions: time is not counted (a delay or a deadline may pass at any moment),
except in the post-exit window, whose samples and gaps decide its outcome; an
incident's reason is its kind; images, labels and attestations are right unless
the "identity" trouble says otherwise. `Troubles` says which commands and
channels may fail.

A stop is asked for in two ways. `StopByHand` (`launcher.py stop`) writes the
request file and returns. `OwnedStop` (`owned-stop.py`, ExecStop of the unit) writes
it too and stays, which `waiting` says: as long as it runs, and the supervisor is
the process that the unit was started with (`Original`), it may repeat a lost SIGTERM
once (`RetryStop`), when the server answers and has no request running or waiting
(`~ busy`). It ends with the verified clean-up, or raises (`OwnedStopEnds`).

`OwnedContainer` says what launcher and recovery may rely on: claimed once, run
once, released only when it can never run again, orphaned by a crash and held
again after a resume.

### LaunchLease

Launches that compete for the GPU pair. A launch is one instance: the process
that takes the lease for it and any later process that resumes it. `run` is
`Acquire`, `Admit` (the gate), `Preflight`, `Recheck` (the gate again), `Claim`
(`intent.json`), `Activate` (`active.json`) and `Begin`, with `Crash` between any
two. `Resume` re-enters the launch that the `active.json` of its directory names;
`Reboot` ends every process and container and starts a new journal; `KernelFault`
adds to the journal of this boot.

What the gate sees depends on where it looks. Each launch keeps its state in the
directory of its version and profile (`home`); `campaign_intents` looks only into
directories named `candidate*` (`Candidates`); and only `launcher.py` has the gate
(`Gated`), since `nvidia-launch.py` replaces it by a function that does nothing.
`Sees(l, k)` combines the three. An intent that is seen has to be verified clean
with no fault in its history, or to have a receipt (`Publish`) for this boot and for
just this intent. The shipped directory, `production-dense-recovery-20260923`, is no
candidate, so there the gate sees nothing (see "Findings"); the directories that it was
written and tested for are candidates. The lease and the preflight hold for all.
What they cannot see is a create that is still with the daemon when its launch
dies: `uncertain` records these launches, and the properties name them as the one
way past the lease (`Unseen`).

Abstractions: what `preflight` measures (memory, ports, hashes) may refuse at any
point; the one part of it on which later actions depend is the running container.

### RecoveryController

The recovery worker against a service that others stop and start. Instances are
numbered; `n` is the one `active.json` names. `Poll` is `main`'s choice of a reason
(stalled RPC, failure marker, hardware, unhealthy API, quarantine, orphan,
incomplete recovery, in the code's order of precedence); `Bind...`, `Publish`,
`Check...`, `Stop...`, `Lock...` are `cycle`; `Rebind`, `Stopped`, `Escalate`,
`Kill...`, `Drained` are `stop_owned`; `Quiet` and `Prove` are the two halves of
`proof`. Each reading of the world is one step, so the world may change between a
reading and the act that rests on it. `fresh` records a fault since the last
reading of the kernel log. `Stale`, `Retry`, `Fail` are the three ways a cycle is
left; `Crash` restarts the worker, which then has only its status file.

The service is systemd's unit, a main process (launcher or supervisor), the
waiter of ExecStop, and the container. ExecStop runs when the unit is stopped or its
main process has gone, and its waiter follows the instance that `active.json` names
at that moment, which is an older one while a launcher has not claimed yet. A unit is
inactive when main process and waiter have ended. Starting it (the gateway's part) and the
hardware observer are not in the repository; they are modelled from what
`recovery.py` and `owned-stop.py` expect of them and marked external.

Abstractions: the transients that `sustained()` filters out do not appear (a
condition has lasted), and back-off delays and deadlines pass at any time.
Driver reset, forensics and the CUDA probe are one step of the proof that may fail.

## 3. Runs

| run | instance | distinct states | shows |
|---|---|---|---|
| `lifecycle_safety` | 2 ranks, 2 requests, up to 2 steps each, 1 utility call, 1 fault | 646 000 | safety properties, the inductive invariants of the proofs and the refinement |
| `lifecycle_live` | 2 ranks, 2 requests, 1 step, 1 utility call with or without a timeout, 1 fault | 129 000 | every generation ends; a death is reported |
| `lifecycle_poison` | 1 request, 1 fault | - | finding 1, a counterexample |
| `admission_safety` | 3 requests (one sent to be aborted at once), FIFO of 1, 1 abort, shutdown, 1 fault of any kind | 667 000 | safety of the loop, the inductive invariant of its proofs |
| `admission_live` | 2 requests, FIFO of 1, draining shutdown, 1 abort, 1 utility call, 1 fault | 302 000 | every request is answered; shutdown ends |
| `admission_stranded` | 3 requests, FIFO of 2, a failed fence | - | finding 2, a counterexample |
| `ring_safety` | 2 readers, 3 slots, 5 messages, two of them by socket, 1 fault of six kinds | 567 000 | flags alone keep writer and readers apart; order; the refinement |
| `ring_live` | 2 readers, 2 slots, 3 messages, a reader's death or a lost payload | 111 000 | delivery, end of an enqueue, end of a shut-down reader |
| `supervisor_crash` | every trouble, 1 of them, 1 kernel fault, 1 crash | 2 552 000 | durable state, the pursuit of a stop and the refinement, across crashes |
| `supervisor_live` | failing inspections, refusals, monitor failures and exits, 1 fault, no crash | 250 000 | the stop of a request or an incident ends the container, a lost one is repeated, a fault is latched, no incident leaves READY |
| `launch_safety` | 2 launches in a candidate directory, 1 without a gate in another, 2 boots, 2 crashes, 1 resume, 1 kernel fault | 4 113 000 | one container, orphans reachable, claims reconciled, but for what a gate cannot see |
| `recovery_live` | 2 starts, 2 faults of any kind, 1 failing command, 1 crash | 479 000 | only the owner is killed, the owner is kept, recovery ends |

Bounds and why they suffice. Two ranks is the only topology the code admits
(`multiproc_executor.py:280`). Two requests in sequence are the least with a
generation after another one, a stale reply, an abort of the wrong request; the
admission model needs a third, so that one runs, one waits and one overtakes.
`MaxSteps` = 2 gives a step that ends the request and one that does not.
`MaxUtility` = 1 puts a utility call inside or between generations; in the
admission model it has no state of its own. `MaxFaults` bounds crashes, hangs,
late replies and unclean proofs together: with 1 any single failure meets any
interleaving.
Three slots and five messages make the writer lap the ring while one reader is
at its tail and the other at its head, and make a large message (2) lie one lap
before another (5). Three launches: one that left an orphan, one that holds the
lease, one that waits, one of them in another directory than the rest and without
a gate; two boots for a receipt of an earlier one. Three
instances of the service (`MaxStarts` = 2) let a successor take the place of the
owner, and another the successor's, during one recovery. The gap of the
supervisor's post-exit window is cut at the number of samples that decides it.
The theorems have none of these bounds.

No run checks for deadlock: clients may stop sending, a dead engine stays dead,
a released container leaves nothing to do, so every model may stop. That nothing
else stops is what the liveness properties say.

Fairness. `FairSpec` has weak fairness on each thread or process as a whole: the
engine thread, the monitor thread, each worker's loop (a hung or dead worker is
not enabled), in the admission model the input thread, the signal callback and
the monitor callback, in the ring the writer and each reader, and in `Supervisor` and
`RecoveryController` the supervisor, the daemon carrying out what it accepted, systemd and the
recovery worker. Each is scheduled as long as it can run and takes no lock for
longer than a queue operation. Nothing is assumed of clients or faults.
`CallTimeout` is part of the engine thread: a deadline passes if the answer never
comes. Three cases deserve a word.

* `Supervisor` has strong fairness on `IntendStop` and on the tick that
  monitors. A tick branches on what `inspect` returned and on whether three
  seconds have passed since the last monitoring; a loop that ticks for ever takes
  each branch again and again, while weak fairness of the whole loop would let it
  take one of them only.
* A container that was started boots, and one whose stop was carried out exits
  (`Boots`, `Exits`: the server ends on a SIGTERM that its handlers receive; docker
  stop waits without a limit and never kills). A running `owned-stop.py` looks again
  every two seconds, which is the weak fairness of `RetryStop`; it is enabled only
  with that process there, its supervisor the original one and the server at rest.
  That the server comes to rest is nobody's promise, so it is the premise of
  `LostStopRetried`. Nor is it that a crashed supervisor is resumed (an operator does
  it, by hand): the liveness properties are checked without a crash, and what a
  resume owes to a stop of its predecessor is the safety property `StopFollowed`.
* `RecoveryController` assumes nothing of the container: it may run for ever
  unless killed, which is what the escalation is for.

Each property has a mutant, a definition of the code with a plausible bug (a
fence of one rank, a written flag that stays set, a shared lock, a kill by
present identity rather than by the owner's), under which TLC finds it violated;
the mutants sit beside the definitions they change.

### Findings

1. **A poison at admission is not reported** (`lifecycle_poison`). When the
   admission fence of an ADD fails, the handler answers that request and goes on
   (`core.py:1791-1799`): a poisoned engine with
   no running request stays up. The failure handler's
   docstring (`core.py:1671-1673`) says that just this is to be avoided; the
   comment of the ADD handler says that it is intended. One of them is wrong.
2. **Deferred requests are stranded** (`admission_stranded`). One deferred ADD
   is admitted per pass of the loop (`core.py:1609`). If its fence fails, the
   rest of the FIFO stays where it is, and with no work left the engine blocks
   for client input, against `core.py:105-106`. Any later message that makes the
   loop turn flushes the FIFO; without one its clients wait for ever.
   `AddsAnswered` therefore holds for every fault but this one, which
   `admission_live` leaves out.

Two more weaknesses stand in the properties as their exceptions.

`OneContainer` and `Reachable` excuse a container from an uncertain create that the
other launch's gate does not look for (`Unseen`). That is not a corner: `campaign_intents`
looks into `candidate*` directories (`launcher.py:161`), and runs are written to
`ROOT/'runs'` (`launcher.py:324`), where the shipped `ROOT` is
`production-dense-recovery-20260923` (`owned-stop.py:12`). The gate sees none of the
instances of its own directory, and `nvidia-launch.py:136-137` leaves it out anyway. A
launch that dies with its create on the way can therefore be replaced, while
`launcher.py:316-317` says "Never create a replacement until reconciled"; both
containers may then run. Dropping `Unseen` from `OneContainer` makes `launch_safety`
show it. `LeaseSuffices` says what remains: it takes a launch or a supervisor that has
died.

`GenerationEnds` excuses calls without a timeout.
`take_draft_token_ids` passes none (`multiproc_executor.py:607-611`), nor do
`profile`, the LoRA and cache calls and sleep (`core.py:972-988`, `1109-1154`), and
`collective_rpc` of the engine hands on `None` by default (`core.py:1156-1163`). A rank
that hangs in one of these, the utility made while a generation is open, blocks the
engine until a worker process exits (`Unbounded`).

### Where the properties end

Some properties hold only under a constant's value; a reader can see the limit by
changing it. No document of the repository promises the stronger property.

| change | then violated | because |
|---|---|---|
| `ring_safety`: add `"payload timeout"` to `Faults` | `InOrder` | `dequeue` gives its slot back before it waits for the payload (`shm_broadcast.py:991`); a payload that comes late answers the next large dequeue |
| `ring_live`: add `"writer death"` to `Faults` | `ShutdownEnds` | a reader that waits for the payload of a dead writer looks only at that socket, not at the shutdown (`shm_broadcast.py:1002`, `726`) |
| `supervisor_live`: `MaxCrashes` = 1 | `ReceiptFollowsIncident`, and `ExitRevokes` if it is added | the mapping is forgotten durably before the receipt is revoked (`supervisor.py:457-459`); the resumed supervisor sees nothing mapped; an incident is durable before it revokes the receipt |
| | `StopCompletes`, `FaultLatched`, `LostStopRetried` | a supervisor that crashed is resumed by hand, which no fairness brings about, and `owned-stop.py` does not follow a resumed one |
| `supervisor_live`: add `"popen"` to `Troubles` | `StopCompletes` | the stop is recorded as dispatched before its client is started (`supervisor.py:452-454`) and not tried again |

`StopCompletes` and `LostStopRetried` leave one case to each other and one to nobody:
a stop by hand whose SIGTERM is lost at start-up (`SignalLost`) has no process that
repeats it, docker stop waits for ever, and the container serves on until somebody
runs `owned-stop.py` or the recovery kills it.

Four more are allowed by `RecoveryController` and exclude no property that is
checked there: an INCOMPLETE_RECOVERY retry that never was bound to an owner stops
the instance it finds, healthy or not (`recovery.py:212-245`); a fault logged
between the last reading of the kernel log and the new cursor is passed over
(`recovery.py:167-188`); and the unit is stopped by name after its owner was
checked (`recovery.py:234-236`). And outside a recovery, a launch that gives up leaves
ExecStop waiting for the instance before it; if that one was never verified clean,
the unit goes on deactivating until a later recovery kills the waiter
(`owned-stop.py:46-79`).

## 4. Proofs

Every theorem holds for every value of the constants that satisfies the
assumptions of its module. These are weak: the output rank is a rank,
`NoRequest` and `NoLaunch` are no request and no launch, the ring has a slot,
bounds are naturals, every launch has a home, and candidates and gated launches are
any of the homes and launches.

| module | theorem | property |
|---|---|---|
| `GenerationLifecycle_proofs` | `Invariance`, `TypeCorrect` | `Spec => []IInv`, `[]TypeOK` |
| | `QuiescentBetweenHolds` | `Spec => []QuiescentBetween` |
| | `AdmissionFencedHolds`, `CommitUnanimousHolds`, `PoisonFinalHolds` | `Spec => AdmissionFenced`, `CommitUnanimous`, `PoisonFinal` |
| | `Refinement` | `Spec => FenceSpec` |
| `GenerationHealth_proofs` | `LifecycleInvariant` | `Spec => []LifecycleInv` |
| | `NoOrphan`, `HealthyHolds` | `Spec => []NoOrphanGeneration`, `[]HealthyServes` |
| | `NeverWedged` | `Spec => []NotWedged`, the safety half of `GenerationEnds` |
| `BroadcastRing_proofs` | `RingInvariant`, `TypeCorrect` | `Spec => []RingInv`, `[]TypeOK` |
| | `NoTornReads` | `Spec => []NoTornRead` |
| | `RingImplementsQueue` | `Spec => ImplementsQueue` |
| | `MessagesInOrder` | `Patient => (Spec => []InOrder)` |
| | `NobodyStuckHolds` | `Spec => []NobodyStuck`, the safety half of `Delivered` and `EnqueueEnds` |
| `Supervisor_proofs` | `SupervisorInvariant`, `TypeCorrect` | `Spec => []SupervisorInv`, `[]TypeOK` |
| | `FaultsHeld`, `CursorLatched`, `ReceiptFallsFirst` | `Spec => []FaultHeld`, `[]CursorBehindLatch`, `[]RevokedBeforeStop` |
| | `StopPursued` | `Spec => []StopFollowed`, part of the safety half of `StopCompletes` |
| | `SupervisorOwns` | `Spec => ImplementsOwned` |
| `SupervisorReceipt_proofs` | `UncrashedInvariant` | `Spec => []UncrashedInv` |
| | `ReceiptRevoked`, `WindowRevoked` | `Spec => [](crashes = 0 => ...)` of `ReceiptFollowsIncident`, `ExitRevokes` |
| `LaunchLease_proofs` | `LaunchInvariant` | `Spec => []LaunchInv` |
| | `OneContainerAtATime`, `OrphanReachable`, `ClaimsAccounted` | `Spec => []OneContainer`, `[]Reachable`, `ClaimsReconciled`, for any layout of directories and gates |
| | `LeaseSuffices` | `Spec => [](crashes = 0 => ...)`: one container at most, with no gate at all |
| `RecoveryController_proofs` | `RecoveryInvariant`, `TypeCorrect` | `Spec => []Inv`, `[]TypeOK` |
| | `OwnersRetained`, `KillsOnlyOwner` | `Spec => OwnerRetained`, `KillsOwner` |
| `EngineAdmission_proofs` | `AdmissionInvariant`, `TypeCorrect` | `Spec => []AdmissionInv`, `[]TypeOK` |
| | `AnsweredOnceHolds`, `OneAtATimeHolds` | `Spec => []AnsweredOnce`, `[]OneAtATime` |
| | `FirstComeFirstServedHolds`, `AbortHonouredHolds` | `Spec => []FirstComeFirstServed`, `[]AbortHonoured` |
| | `StrandedOnlyByFence` | `FenceHolds => (Spec => []BlocksClean)` |

Some theorems hold under one of two named hypotheses or before the first crash:
`Patient` (no receive gives up on its payload), `FenceHolds` (no admission fence fails), `crashes = 0`. Each is a limit that TLC
shows to be one: see finding 2 and "Where the properties end".

**Lifecycle.** The properties are not inductive. The obvious strengthening, "in
phase p every rank is in state s", is false: a poison may overwrite the phase at
any moment while the ranks go on reading what was sent before. A poison never
touches the active generation nor the log of sent RPCs, so `IInv` says where each
rank stands from these two:

* `CoordOK`: phase, recovery state and active generation agree; where the engine
  thread's write has covered a poison, `is_failed` is set.
* `CallOK`: the outstanding call is the last message of the log and belongs to
  the active generation.
* `StageOK`: what kind the last message is (`LastOp`) tells the stage: after a
  cleanup message the scheduler is empty, after commit no record is open.
* `UnreadOK(r)`, `RankOK(r)`: what the rank has not read yet, and its phase,
  token and requests, by `LastOp` and by whether it has read it.
* `ReplyOK(r)`, `ProofOK(r)`: a good prepare reply, in the queue or taken, comes
  from a prepared rank; a control reply that was taken comes from a rank that
  has read everything.

The step lemmas go action by action for the coordinator, the call and the
stage. For the ranks they first sort all steps into a few kinds (`StepKinds`):
nothing of a rank's concern, an RPC inside a generation, an RPC between
generations, commit or baseline after a full proof, begin, end, a worker's own
step; and treat each kind once. The refinement maps each kind to a step of
`RequestFence` or to a stutter.

**Open generations.** `IInv` says where the ranks stand; it does not say what
the engine is still waiting for. `GenerationHealth_proofs` adds three parts.

* `OwnerOK`: with the engine up, the one request of an open generation is
  scheduled or finished, or in the cleanup output being executed, or the cleanup
  has begun. Nothing that ends, aborts or refuses a call drops it in between.
* `StagePhase`, `AwaitOK(r)`: a poison aside, the phase is that of the last
  message sent; and a rank that is waited for has that message unread, or its
  reply in the queue, or is down. The phase is needed because `Accepts` looks at
  it: a reply retired as stale must not be the one that was waited for.
  `NeverWedged` follows: what remains of `GenerationEnds` is fairness. Its
  exception is a rank that hangs in a call without a timeout.
* `HealthOK`: as long as nothing has failed (`faults = 0`), everybody is up, no
  call was ever given up, and so a queue holds only the reply of the outstanding
  call, one at most, and of a rank that is waited for (`AnswerOK`); it says what
  the call accepts (`Good`), which for a prepare needs that the rank holds no
  request (`HoldsOK`). The rank that lags is the hard case: nobody waits for a
  rank other than the output rank to run the final execute, but it reads its
  queue in order, so it has run it when it reads the prepare (`RanFinal`,
  `FinalOK`), and the coordinator has no record open by then (`RecordsOK`).

The proof of `HealthOK` sorts the steps of a healthy group into kinds first
(`HealthyKinds`), as the one of `IInv` does: a failing step is not among them.

**Admission.** The argument is a line. The requests that were admitted, the one
being added, those in the FIFO and those in the input queue stand, in this order,
as they were sent (`PartsOK`: each part is in order; `LineOK`: and before the
next part; `AddingOK`: the request being added stands where it came from, the head
of the FIFO or the head of the queue). `OpenOK` closes the one gap through which a
later request could overtake: with requests in the FIFO and an open gate, the
next thing to happen is the admission of the first of them. As the order is
strict, nobody stands in two places, and so `AnswerOK` (who waits or runs has no
answer yet) is kept by every action that answers. `AloneOK` sorts the request that
is left in the scheduler into running, finished or carried. `AbortOK`: an ABORT
stands behind its ADD in the input queue or is yet to be put there, so that no
request can come in after its abort was taken.

`StrandedOnlyByFence` bounds finding 2. `WorkOK` says that a generation under way,
or poisoned inside, leaves work in the scheduler, which keeps the engine from
blocking; `NotifyOK` that the report of a worker's exit is in the input queue until
the engine ends by it; `BlockOK` that the waiting loop is entered with requests in
the FIFO only behind one of these or with an ADD in hand. What is left is the fence
that fails for the ADD in hand: `FenceHolds` excludes just that, and then an engine
that blocks has nothing left to do (`BlocksClean`).

**Ring.** A slot's flags mean something only relative to how far writer and
readers have come. `RingInv` says so:
`WindowOK(r)` keeps each reader at most a lap behind, at the index that says how
far; `SlotOK(s)` says that a written slot holds the message of the current lap
(`Last(s)`) and that each flag tells whether its reader has taken it; `WriterOK`
covers the slot that the caller is filling, and `ReaderOK(r)` what a reader that
has seen its flag clear may rely on. The arithmetic that two numbers less than a
ring apart never share a slot is in lemmas of its own. The second part of the
invariant, `StreamInv`, is about the socket: it holds for each reader, in order,
exactly the large messages that were sent and that the reader has not received
(`SocketOK`), and a reader has one outcome per slot taken but for the message it is
receiving (`OutcomesOK`). So the payload that arrives is that of the slot. A receive
that gives up leaves its payload behind, and none of this outlives it: hence
`Patient`. Both parts give `NobodyStuckHolds`: a reader that is behind has its message
at hand whatever notification was lost, the writer finds the ring full only for a
reader a whole lap behind, and (with `Patient`) a payload that is waited for is in
the socket, still to be sent, or lost with a writer that died before sending it.

**Supervisor.** Crashes make memory and disk part ways at every place, so each
part of the invariant speaks of one record and of the places (`pc`) where it is
being written: `LatchInv` (what was read is latched on disk and in memory, with the
cursor behind it), `ReportInv` (an incident returns to its caller), `RevokeInv`
(no READY receipt over a dispatched stop), `LifeInv` (each command and each state of
the container is announced on disk; one start; the post-exit window is entered only
when the container cannot run again), `FollowInv` (a resumed process is told to stop, and
a stop recorded in memory is being dispatched, has a client of this process, or raised).
Each has one lemma per group of actions.

The receipt needs more, and only before the first crash (`crashes = 0`): then disk
and memory agree between writes, and `UncrashedInv` can say, place by place, where
READY may stand. `IncidentHeld`: with a failure recorded, only inside the incident
that is about to revoke it. `PublishHeld`: READY is announced once, after the
mapping was published, and not while a monitor pass from the validation is under
way. `MappedHeld`: over a forgotten mapping, only on the way to the write that
withdraws it. `ObserveHeld`: never from the exit code on. The four need one another:
whether the first or a second incident is being reported decides who revokes.

**Launches.** `LeaseHeld`: the process past the lease holds it. `ClaimedFirst`: an
intent precedes any container. `CheckedAlone`: the preflight has found no container, so
whoever may still run beside a launch that is past it has an uncertain create.
`ClearedAlone`: past the second gate it is one that the gate does not look for, because
everything it looked at is clean, reconciled or ended, and nothing but the holder of the
lease changes that. `OneOwner` and `ActiveOwns` carry this on beyond the claim. None of
them assumes a gate: where it sees nothing they say only what the lease and the
preflight give. `LeaseSuffices` then needs no more than that nothing is uncertain
before the first crash.

**Recovery.** `Inv` adds to the types that each launch has its start (`Started`)
and that, at each place of a cycle, the durable status and the controller's
variables name the same owner (`Binding`).

### Only model-checked

The liveness properties: neither fairness nor ENABLED is within the prover's reach
(`NeverWedged` is what can be said of `GenerationEnds` without them, `NobodyStuckHolds`
of `Delivered` and `EnqueueEnds`, `StopPursued` of `StopCompletes`). Every safety
property, action property and refinement that a run checks is a theorem, save
`WaitsOnlyForGeneration`, which is false (finding 2).

That the engine's gate is `RequestFence`'s, and that the executor's queue is a FIFO,
is by construction of `EngineAdmission` and `GenerationLifecycle`, not by a proof of
composition.

The runs check the inductive invariants `LifecycleInv` (which contains `IInv`),
`AdmissionInv`, `RingInv` and `LaunchInv` as well; type correctness is part of each.
For supervisor and recovery the invariants, and `StrandInv` of the admission loop,
are proved only; so is `ExitRevokes`.

## 5. Not modelled, and what comes next

Next, in order of importance:

1. `GenerationCoordinator`: the lifecycle library under calls in any order, with
   the in-process rebuild and the recovery controller of `tp_lifecycle.py`, which
   no production code calls.
2. `AsyncOutput`: the worker's output thread, which async scheduling would need
   and production turns off.
3. `register_failure_callback` against the monitor's detection: three lines at
   start-up, before any request can arrive.
4. The runtime inspection plugin: one lock and a memory of request ids, read only.
5. Proofs: the rest of the safety half of the supervisor's liveness (`StopPursued` says
   who pursues a stop, not yet that supervisor or daemon always has a next step), and that `EngineAdmission` moves its gate only as
   `RequestFence` allows.

Not planned. Nearly all of the repository's lines are copies of upstream files
that an overlay replaces as a whole for a small change (the model runner, the
attention backends, FlashInfer's GEMM, the API front end); they are numerical
code or plumbing whose control is that of the calls listed here, and so the share
of lines that the modules translate is small although the repository's own
protocols are covered. Likewise stateless conversions (request adapter), one-shot
scripts over files (image, release and verification tools), telemetry, the legacy
profile (an earlier copy of the production one) and the reference harness.
