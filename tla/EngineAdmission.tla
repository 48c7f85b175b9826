---------------------------- MODULE EngineAdmission ----------------------------
(***************************************************************************)
(* EngineCoreProc's busy loop: how it admits, defers, rejects and aborts   *)
(* requests, steps the one that runs and shuts down, over the input queue, *)
(* the aborts queue and the deferred-ADD FIFO.  Around it run the client   *)
(* and the input socket thread, the executor's monitor thread and the      *)
(* shutdown signal handler.                                                *)
(*                                                                         *)
(* The executor is reduced to what GenerationLifecycle proves it to offer  *)
(* (RequestFence): a gate that is ready, busy with one generation or       *)
(* poisoned for good.  The gate opens again in the step after the one that *)
(* hands the finished request to the workers.  A request id is added once, *)
(* so no ADD is a streaming update.  Production has one engine (no data    *)
(* parallel wave), a blocking input queue, no pause, and speculative       *)
(* decoding, with a draft RPC after every step that executed tokens.       *)
(***************************************************************************)
EXTENDS Naturals, Sequences, FiniteSets

CONSTANTS
  Requests,
  NoRequest,
  Immediate,     \* requests sent with abort_immediately
  Capacity,      \* _stability_deferred_add_capacity
  DrainOnStop,   \* shutdown_timeout > 0: running requests may finish
  FaultKinds,    \* which faults may happen; see Fault
  MaxSteps, MaxAborts, MaxUtility, MaxFaults   \* bounds

ASSUME AdmissionRequests == NoRequest \notin Requests /\ Immediate \subseteq Requests
ASSUME AdmissionBounds ==
  /\ Capacity \in Nat /\ MaxSteps \in Nat \ {0}
  /\ MaxAborts \in Nat /\ MaxUtility \in Nat /\ MaxFaults \in Nat
  /\ DrainOnStop \in BOOLEAN
  /\ FaultKinds \subseteq {"fence", "scheduler", "step", "utility", "worker"}

VARIABLES
  \* the client and the input socket thread
  sent,        \* requests whose ADD has been sent, in order
  aborting,    \* requests whose ABORT has been sent
  reading,     \* an ABORT put in aborts_queue and not yet in input_queue
  waking,      \* a shutdown signal whose WAKEUP is not yet in input_queue
  inbox,       \* input_queue
  aborts,      \* aborts_queue
  replies,     \* request -> final outputs sent to its client
  \* EngineCoreProc
  pc,          \* where the engine thread is
  adding,      \* the request of the ADD being handled, NoRequest for none
  deferred,    \* _stability_deferred_adds
  admitted,    \* requests for which a generation began, in order
  shutdown,    \* shutdown_state
  \* the scheduler
  running,     \* scheduler.requests
  finished,    \* scheduler.finished_req_ids
  carried,     \* finished_req_ids of the scheduler output being executed
  steps,       \* model steps of the running request
  \* the executor
  gate,        \* stability_request_admission_state
  monitor,     \* "watching", "poisoned" or "notified"
  utilities, faults

clientVars    == <<sent, aborting, reading, waking>>
schedulerVars == <<running, finished, carried, steps>>
executorVars  == <<gate, monitor>>
counters      == <<utilities, faults>>
vars == <<clientVars, inbox, aborts, replies, pc, adding, deferred, admitted, shutdown,
          schedulerVars, executorVars, counters>>

\* pc: the head of run_busy_loop; in _process_input_queue the deferred admission, the
\* waiting loop's test, its blocking get and the draining loop; the two halves of step
\* around the model execution.
Places == {"top", "deferred", "wait", "get", "drain", "step", "update", "exited", "dead"}
Stopped == pc \in {"exited", "dead"}

Message(type, q) == [type |-> type, req |-> q]

Init ==
  /\ sent = <<>> /\ aborting = {} /\ reading = NoRequest /\ waking = FALSE
  /\ inbox = <<>> /\ aborts = {}
  /\ replies = [q \in Requests |-> 0]
  /\ pc = "top" /\ adding = NoRequest
  /\ deferred = <<>> /\ admitted = <<>>
  /\ shutdown = "RUNNING"
  /\ running = {} /\ finished = {} /\ carried = {} /\ steps = 0
  /\ gate = "ready" /\ monitor = "watching"
  /\ utilities = 0 /\ faults = 0

SentSet == {sent[i] : i \in 1 .. Len(sent)}
Deferred == {deferred[i] : i \in 1 .. Len(deferred)}

has_work == running \cup finished # {}

Fault(kind) ==
  /\ kind \in FaultKinds
  /\ faults < MaxFaults
  /\ faults' = faults + 1

\* A FIFO without the request q, which it holds once at most.
Without(fifo, q) ==
  IF \A i \in 1 .. Len(fifo) : fifo[i] # q THEN fifo
  ELSE LET at == CHOOSE i \in 1 .. Len(fifo) : fifo[i] = q IN
       [i \in 1 .. Len(fifo) - 1 |-> IF i < at THEN fifo[i] ELSE fifo[i + 1]]

Answer(reqs) == replies' = [q \in Requests |-> replies[q] + IF q \in reqs THEN 1 ELSE 0]

-------------------------------------------------------------------------------
(* The client, the input thread, the signal handler and the monitor thread      *)

SendAdd(q) ==
  /\ q \notin SentSet
  /\ sent' = Append(sent, q)
  /\ inbox' = Append(inbox, Message("ADD", q))
  /\ UNCHANGED <<aborting, reading, waking, aborts, replies, pc, adding, deferred, admitted,
                 shutdown, schedulerVars, executorVars, counters>>

\* process_input_sockets puts an ABORT in aborts_queue first, ...
SendAbort(q) ==
  /\ q \in SentSet \ aborting
  /\ Cardinality(aborting) < MaxAborts
  /\ reading = NoRequest
  /\ aborting' = aborting \cup {q}
  /\ aborts' = aborts \cup {q}
  /\ reading' = q
  /\ UNCHANGED <<sent, waking, inbox, replies, pc, adding, deferred, admitted, shutdown,
                 schedulerVars, executorVars, counters>>

\* ... then in input_queue.
QueueAbort ==
  /\ reading # NoRequest
  /\ inbox' = Append(inbox, Message("ABORT", reading))
  /\ reading' = NoRequest
  /\ UNCHANGED <<sent, aborting, waking, aborts, replies, pc, adding, deferred, admitted, shutdown,
                 schedulerVars, executorVars, counters>>

SendUtility ==
  /\ utilities < MaxUtility
  /\ utilities' = utilities + 1
  /\ inbox' = Append(inbox, Message("UTILITY", NoRequest))
  /\ UNCHANGED <<clientVars, aborts, replies, pc, adding, deferred, admitted, shutdown,
                 schedulerVars, executorVars, faults>>

\* Mutant: the handler only sets the state.
SignalQuiet ==
  /\ shutdown = "RUNNING"
  /\ shutdown' = "REQUESTED"
  /\ UNCHANGED <<clientVars, inbox, aborts, replies, pc, adding, deferred, admitted,
                 schedulerVars, executorVars, counters>>

\* SIGTERM: the handler sets the state, ...
Signal ==
  /\ shutdown = "RUNNING"
  /\ shutdown' = "REQUESTED"
  /\ waking' = TRUE
  /\ UNCHANGED <<sent, aborting, reading, inbox, aborts, replies, pc, adding, deferred,
                 admitted, schedulerVars, executorVars, counters>>

\* ... and its callback thread wakes up an engine that waits for input.
Wakeup ==
  /\ waking
  /\ waking' = FALSE
  /\ inbox' = Append(inbox, Message("WAKEUP", NoRequest))
  /\ UNCHANGED <<sent, aborting, reading, aborts, replies, pc, adding, deferred, admitted,
                 shutdown, schedulerVars, executorVars, counters>>

\* A worker exits: the monitor thread poisons the group, ...
WorkerExit ==
  /\ monitor = "watching"
  /\ Fault("worker")
  /\ monitor' = "poisoned"
  /\ gate' = "poisoned"
  /\ UNCHANGED <<clientVars, inbox, aborts, replies, pc, adding, deferred, admitted,
                 shutdown, schedulerVars, utilities>>

\* ... then runs the failure callback.
NotifyFailure ==
  /\ monitor = "poisoned"
  /\ monitor' = "notified"
  /\ inbox' = Append(inbox, Message("EXECUTOR_FAILED", NoRequest))
  /\ UNCHANGED <<clientVars, aborts, replies, pc, adding, deferred, admitted, shutdown,
                 schedulerVars, gate, counters>>

-------------------------------------------------------------------------------
(* The head of run_busy_loop                                                    *)

\* Mutant: the shutdown answers the deferred requests and keeps them.
HandleShutdownKeeps ==
  /\ pc = "top"
  /\ IF shutdown = "REQUESTED"
     THEN LET cut == IF DrainOnStop THEN {} ELSE running IN
          /\ shutdown' = "SHUTTING_DOWN"
          /\ Answer(Deferred \cup cut)
          /\ running' = running \ cut
          /\ finished' = finished \cup cut
     ELSE UNCHANGED <<shutdown, replies, running, finished>>
  /\ pc' = IF shutdown # "RUNNING" /\ ~has_work THEN "exited" ELSE "deferred"
  /\ UNCHANGED <<clientVars, inbox, aborts, adding, deferred, admitted, carried, steps,
                 executorVars, counters>>

\* _handle_shutdown.
HandleShutdown ==
  /\ pc = "top"
  /\ IF shutdown = "REQUESTED"
     THEN LET cut == IF DrainOnStop THEN {} ELSE running IN
          /\ shutdown' = "SHUTTING_DOWN"
          /\ Answer(Deferred \cup cut)
          /\ deferred' = <<>>
          /\ running' = running \ cut
          /\ finished' = finished \cup cut
     ELSE UNCHANGED <<shutdown, replies, deferred, running, finished>>
  /\ pc' = IF shutdown # "RUNNING" /\ ~has_work THEN "exited" ELSE "deferred"
  /\ UNCHANGED <<clientVars, inbox, aborts, adding, admitted, carried, steps, executorVars,
                 counters>>

\* Mutant: the call is lost from the head of _process_input_queue.
AdmitDeferredLost ==
  /\ pc = "deferred"
  /\ pc' = "wait"
  /\ UNCHANGED <<clientVars, inbox, aborts, replies, adding, deferred, admitted, shutdown,
                 schedulerVars, executorVars, counters>>

\* Mutant: new input goes first.
AdmitDeferredLast ==
  /\ pc = "deferred"
  /\ pc' = "wait"
  /\ IF deferred # <<>> /\ gate = "ready" /\ inbox = <<>>
     THEN adding' = Head(deferred) /\ deferred' = Tail(deferred)
     ELSE UNCHANGED <<adding, deferred>>
  /\ UNCHANGED <<clientVars, inbox, aborts, replies, admitted, shutdown, schedulerVars,
                 executorVars, counters>>

\* _stability_admit_one_deferred_add: one request of the FIFO, once per loop.
AdmitDeferred ==
  /\ pc = "deferred"
  /\ pc' = "wait"
  /\ CASE deferred = <<>> \/ gate = "busy" -> UNCHANGED <<deferred, adding, replies>>
       [] deferred # <<>> /\ gate = "poisoned" ->
            /\ Answer(Deferred)
            /\ deferred' = <<>>
            /\ UNCHANGED adding
       [] deferred # <<>> /\ gate = "ready" ->
            /\ adding' = Head(deferred)
            /\ deferred' = Tail(deferred)
            /\ UNCHANGED replies
  /\ UNCHANGED <<clientVars, inbox, aborts, admitted, shutdown, schedulerVars, executorVars,
                 counters>>

-------------------------------------------------------------------------------
(* _process_input_queue and _handle_client_request                              *)

\* The waiting loop: with work or a shutdown it ends; else the thread blocks for the
\* next message, after clearing aborts_queue if there is none.
WaitForInput ==
  /\ pc = "wait" /\ adding = NoRequest
  /\ IF has_work \/ shutdown # "RUNNING"
     THEN pc' = "drain" /\ UNCHANGED aborts
     ELSE pc' = "get" /\ aborts' = IF inbox = <<>> THEN {} ELSE aborts
  /\ UNCHANGED <<clientVars, inbox, replies, adding, deferred, admitted, shutdown,
                 schedulerVars, executorVars, counters>>

StopDraining ==
  /\ pc = "drain" /\ adding = NoRequest /\ inbox = <<>>
  /\ pc' = "step"
  /\ UNCHANGED <<clientVars, inbox, aborts, replies, adding, deferred, admitted, shutdown,
                 schedulerVars, executorVars, counters>>

\* The next message, in either loop.
Take(type) ==
  /\ pc \in {"get", "drain"} /\ adding = NoRequest
  /\ inbox # <<>>
  /\ Head(inbox).type = type
  /\ inbox' = Tail(inbox)
  /\ pc' = IF type = "EXECUTOR_FAILED" THEN "dead" ELSE IF pc = "get" THEN "wait" ELSE pc

TakeWakeup ==
  /\ Take("WAKEUP")
  /\ UNCHANGED <<clientVars, aborts, replies, adding, deferred, admitted, shutdown,
                 schedulerVars, executorVars, counters>>

TakeAdd ==
  /\ Take("ADD")
  /\ adding' = Head(inbox).req
  /\ UNCHANGED <<clientVars, aborts, replies, deferred, admitted, shutdown,
                 schedulerVars, executorVars, counters>>

\* Mutant: an ABORT only reaches the scheduler.
TakeAbortRunning ==
  /\ Take("ABORT")
  /\ LET q == Head(inbox).req IN
     /\ running' = running \ {q}
     /\ finished' = finished \cup (running \cap {q})
  /\ UNCHANGED <<clientVars, aborts, replies, adding, deferred, admitted, shutdown, carried,
                 steps, executorVars, counters>>

\* An ABORT leaves the FIFO with an answer; what runs is ended in the scheduler,
\* without one.
TakeAbort ==
  /\ Take("ABORT")
  /\ LET q == Head(inbox).req IN
     /\ Answer({q} \cap Deferred)
     /\ deferred' = Without(deferred, q)
     /\ running' = running \ {q}
     /\ finished' = finished \cup (running \cap {q})
  /\ UNCHANGED <<clientVars, aborts, adding, admitted, shutdown, carried, steps,
                 executorVars, counters>>

\* A utility call answers its caller whatever happens; inside a generation a failed
\* RPC poisons the group.
TakeUtility ==
  /\ Take("UTILITY")
  /\ \/ UNCHANGED <<gate, faults>>
     \/ /\ shutdown = "RUNNING" /\ gate = "busy"
        /\ Fault("utility")
        /\ gate' = "poisoned"
  /\ UNCHANGED <<clientVars, aborts, replies, adding, deferred, admitted, shutdown,
                 schedulerVars, monitor, utilities>>

TakeFailure ==
  /\ Take("EXECUTOR_FAILED")
  /\ UNCHANGED <<clientVars, aborts, replies, adding, deferred, admitted, shutdown,
                 schedulerVars, executorVars, counters>>

\* The ADD is answered without being admitted: shutdown, an immediate abort behind
\* a busy group, a full FIFO, or a poisoned group.
Refused(q) ==
  \/ shutdown # "RUNNING"
  \/ gate = "busy" /\ (q \in Immediate \/ Len(deferred) >= Capacity)
  \/ gate = "poisoned"

RefuseAdd ==
  /\ adding # NoRequest
  /\ Refused(adding)
  /\ Answer({adding})
  /\ adding' = NoRequest
  /\ UNCHANGED <<clientVars, inbox, aborts, pc, deferred, admitted, shutdown, schedulerVars,
                 executorVars, counters>>

DeferAdd ==
  /\ adding # NoRequest
  /\ ~Refused(adding)
  /\ gate = "busy"
  /\ deferred' = Append(deferred, adding)
  /\ adding' = NoRequest
  /\ UNCHANGED <<clientVars, inbox, aborts, replies, pc, admitted, shutdown, schedulerVars,
                 executorVars, counters>>

\* add_request: a generation begins and the scheduler takes the request, which may
\* have been sent only to be aborted.
BeginAdd ==
  /\ adding # NoRequest
  /\ ~Refused(adding)
  /\ gate = "ready"
  /\ gate' = "busy"
  /\ admitted' = Append(admitted, adding)
  /\ running' = running \cup ({adding} \ Immediate)
  /\ finished' = finished \cup ({adding} \cap Immediate)
  /\ steps' = 0
  /\ adding' = NoRequest
  /\ UNCHANGED <<clientVars, inbox, aborts, replies, pc, deferred, shutdown, carried,
                 monitor, counters>>

\* The admission fence fails: the group is poisoned and this one ADD is answered.
FenceFails ==
  /\ adding # NoRequest
  /\ ~Refused(adding)
  /\ gate = "ready"
  /\ Fault("fence")
  /\ gate' = "poisoned"
  /\ Answer({adding})
  /\ adding' = NoRequest
  /\ UNCHANGED <<clientVars, inbox, aborts, pc, deferred, admitted, shutdown, schedulerVars,
                 monitor, utilities>>

\* The scheduler refuses a request whose generation has begun.
SchedulerFails ==
  /\ adding # NoRequest
  /\ ~Refused(adding)
  /\ gate = "ready"
  /\ Fault("scheduler")
  /\ gate' = "poisoned"
  /\ pc' = "dead"
  /\ UNCHANGED <<clientVars, inbox, aborts, replies, adding, deferred, admitted, shutdown,
                 schedulerVars, monitor, utilities>>

-------------------------------------------------------------------------------
(* _process_engine_step                                                         *)

\* Mutant: the finished requests stay in the scheduler when an output takes them.
ExecuteKeeps ==
  /\ pc = "step"
  /\ IF ~has_work
     THEN pc' = "top" /\ UNCHANGED <<carried, steps>>
     ELSE /\ pc' = IF gate = "poisoned" THEN "dead" ELSE "update"
          /\ carried' = finished
          /\ steps' = IF running # {} THEN steps + 1 ELSE steps
  /\ UNCHANGED <<clientVars, inbox, aborts, replies, adding, deferred, admitted, shutdown,
                 running, finished, executorVars, counters>>

\* schedule and execute; a poisoned group refuses the RPC and the engine dies.
Execute ==
  /\ pc = "step"
  /\ IF ~has_work
     THEN /\ pc' = "top"
          /\ UNCHANGED <<finished, carried, steps>>
     ELSE /\ pc' = IF gate = "poisoned" THEN "dead" ELSE "update"
          /\ carried' = finished
          /\ finished' = {}
          /\ steps' = IF running # {} THEN steps + 1 ELSE steps
  /\ UNCHANGED <<clientVars, inbox, aborts, replies, adding, deferred, admitted, shutdown,
                 running, executorVars, counters>>

\* Mutant: the gate opens with the final output, before the workers' cleanup.
UpdateEarly ==
  /\ pc = "update"
  /\ aborts' = {}
  /\ LET kept == running \ aborts IN
     \E done \in SUBSET kept :
       /\ steps >= MaxSteps => done = kept
       /\ Answer(done)
       /\ running' = kept \ done
       /\ finished' = finished \cup (running \ running')
  /\ pc' = "top"
  /\ gate' = IF gate = "busy" /\ running' = {} THEN "ready" ELSE gate
  /\ carried' = {}
  /\ UNCHANGED <<clientVars, inbox, adding, deferred, admitted, shutdown, steps, monitor,
                 counters>>

\* _process_aborts_queue, update_from_output, and the end of the generation when the
\* output carried its finished request; else the draft RPC of post_step, which a
\* poisoned group refuses.
Update ==
  /\ pc = "update"
  /\ aborts' = {}
  /\ LET kept == running \ aborts IN
     \E done \in SUBSET kept :
       /\ steps >= MaxSteps => done = kept
       /\ Answer(done)
       /\ running' = kept \ done
       /\ finished' = finished \cup (running \ running')
  /\ IF carried = {}
     THEN pc' = (IF gate = "poisoned" THEN "dead" ELSE "top") /\ UNCHANGED gate
     ELSE IF gate = "busy" /\ running' = {}
          THEN pc' = "top" /\ gate' = "ready"
          ELSE pc' = "dead" /\ gate' = "poisoned"
  /\ carried' = {}
  /\ UNCHANGED <<clientVars, inbox, adding, deferred, admitted, shutdown, steps, monitor,
                 counters>>

\* An RPC of the step, the cleanup proof or the draft collection fails, or meets a
\* group that has been poisoned meanwhile.
StepFails ==
  /\ pc = "update"
  /\ Fault("step") \/ (gate = "poisoned" /\ UNCHANGED faults)
  /\ gate' = "poisoned"
  /\ pc' = "dead"
  /\ UNCHANGED <<clientVars, inbox, aborts, replies, adding, deferred, admitted, shutdown,
                 schedulerVars, monitor, utilities>>

-------------------------------------------------------------------------------
Engine ==
  \/ HandleShutdown \/ AdmitDeferred
  \/ WaitForInput \/ StopDraining
  \/ TakeWakeup \/ TakeAdd \/ TakeAbort \/ TakeUtility \/ TakeFailure
  \/ RefuseAdd \/ DeferAdd \/ BeginAdd
  \/ Execute \/ Update

Clients == SendUtility \/ \E q \in Requests : SendAdd(q) \/ SendAbort(q)

Failures == FenceFails \/ SchedulerFails \/ StepFails \/ WorkerExit

Helpers == QueueAbort \/ NotifyFailure \/ Wakeup

Next == ~Stopped /\ (Engine \/ Helpers \/ Clients \/ Signal \/ Failures)

Spec == Init /\ [][Next]_vars

\* Every thread goes on running: the engine's, the input socket's, the monitor and the
\* signal callback's.
FairSpec ==
  /\ Spec
  /\ WF_vars(~Stopped /\ Engine)
  /\ WF_vars(~Stopped /\ QueueAbort)
  /\ WF_vars(~Stopped /\ NotifyFailure)
  /\ WF_vars(~Stopped /\ Wakeup)

-------------------------------------------------------------------------------
(* Properties                                                                   *)

Messages == [type : {"ADD", "ABORT", "UTILITY", "WAKEUP", "EXECUTOR_FAILED"},
             req : Requests \cup {NoRequest}]

\* The type invariant.
TypeOK ==
  /\ sent \in Seq(Requests) /\ aborting \subseteq Requests
  /\ reading \in Requests \cup {NoRequest} /\ waking \in BOOLEAN
  /\ inbox \in Seq(Messages) /\ aborts \subseteq Requests
  /\ replies \in [Requests -> Nat]
  /\ pc \in Places /\ adding \in Requests \cup {NoRequest}
  /\ deferred \in Seq(Requests) /\ admitted \in Seq(Requests)
  /\ shutdown \in {"RUNNING", "REQUESTED", "SHUTTING_DOWN"}
  /\ running \subseteq Requests /\ finished \subseteq Requests /\ carried \subseteq Requests
  /\ steps \in Nat
  /\ gate \in {"ready", "busy", "poisoned"}
  /\ monitor \in {"watching", "poisoned", "notified"}
  /\ utilities \in Nat /\ faults \in Nat

\* A client gets at most one final output for its request, whichever of finishing,
\* aborts in two queues, flushes, refusals and shutdown meet.
AnsweredOnce == \A q \in Requests : replies[q] <= 1

\* The scheduler, its next cleanup output and the one in flight hold one request
\* altogether, and none when the gate is open: the next generation never meets a
\* leftover of the last.
OneAtATime ==
  /\ Cardinality(running \cup finished \cup carried) <= 1
  /\ gate = "ready" => running \cup finished \cup carried = {}

\* Generations begin in the order in which the requests were sent, although an ADD
\* may be deferred and a later one find the gate open.
FirstComeFirstServed ==
  \A i, j \in 1 .. Len(admitted) : i < j =>
    \E k, l \in 1 .. Len(sent) : k < l /\ sent[k] = admitted[i] /\ sent[l] = admitted[j]

\* An abort is never lost between its two queues, one of which the engine clears:
\* once no copy of it is left to read, its request neither runs nor waits to run.
AbortHonoured ==
  \A q \in aborting :
    \/ Stopped
    \/ reading = q
    \/ \E i \in 1 .. Len(inbox) : inbox[i] = Message("ABORT", q)
    \/ q \notin running \cup Deferred /\ adding # q

\* A deferred ADD waits only while a generation is under way: an engine that blocks
\* for client input has an empty FIFO or a busy group.
WaitsOnlyForGeneration ==
  pc = "get" /\ inbox = <<>> /\ deferred # <<>> => gate = "busy"

\* Every request is answered, unless its client has aborted it or the engine has
\* ended (its clients then see ENGINE_CORE_DEAD or the exit of the process).
AddsAnswered ==
  \A q \in Requests : q \in SentSet ~> replies[q] > 0 \/ q \in aborting \/ Stopped

\* A requested shutdown ends the engine, also behind deferred, running and aborted
\* requests and a poisoned group.
ShutdownEnds == shutdown = "REQUESTED" ~> Stopped

===============================================================================
