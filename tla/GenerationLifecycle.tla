-------------------------- MODULE GenerationLifecycle --------------------------
(***************************************************************************)
(* One EngineCore thread, its MultiprocExecutor and GenerationCoordinator, *)
(* the executor's worker-monitor thread, and the TP ranks (WorkerProc with *)
(* a RankLifecycleParticipant each), over the broadcast RPC queue and the  *)
(* per-rank response queues, as EngineCore.step drives them: with          *)
(* --no-async-scheduling the engine has one collective RPC outstanding.    *)
(*                                                                         *)
(* A generation is named by its number: its request id and the executor    *)
(* identity are functions of it within one executor's lifetime.  The       *)
(* broadcast queue is the sequence of everything ever sent (rpc_id is the  *)
(* position) with one read cursor per rank.  A rank's own RPC records are  *)
(* opened and closed inside one pass of worker_busy_loop, so no other      *)
(* thread sees them open.  Telemetry, heartbeats and the diagnostic        *)
(* watchdog leave no state here.  A fault is any step that a healthy group *)
(* does not take.  Three bounds: MaxFaults, MaxSteps (the model steps of   *)
(* one request, its length limit) and MaxUtility (utility calls).          *)
(***************************************************************************)
EXTENDS Naturals, Sequences, FiniteSets

CONSTANTS
  Ranks,        \* the TP ranks
  OutputRank,   \* the rank whose reply execute_model and friends wait for
  Requests,     \* request ids, each added once
  NoRequest,
  SpecDecode,   \* check_for_draft_tokens: a draft RPC follows every step
  MaxSteps, MaxUtility, MaxFaults

ASSUME RanksAssumption == OutputRank \in Ranks
ASSUME RequestsAssumption == NoRequest \notin Requests
ASSUME BoundsAssumption ==
  /\ SpecDecode \in BOOLEAN
  /\ MaxSteps \in Nat \ {0}
  /\ MaxUtility \in Nat
  /\ MaxFaults \in Nat

VARIABLES
  \* GenerationCoordinator
  phase,      \* coordinator.phase
  recovery,   \* coordinator.recovery.state
  active,     \* coordinator.active.generation, 0 for None
  owner,      \* coordinator.active.request_id, NoRequest for None
  lastDone,   \* coordinator.last_completed_generation
  owned,      \* ACTIVE registry records: 0 is REQUEST_STATE, n is RPC n
  \* EngineCore and its scheduler
  engine,     \* "up", or "dead" once ENGINE_CORE_DEAD is sent
  scheduled,  \* scheduler.requests
  finished,   \* scheduler.finished_req_ids, for the next scheduler output
  submitted,  \* requests whose ADD reached add_request
  steps,      \* model steps of the active generation
  call,       \* the outstanding collective_rpc of the engine thread
  \* transport
  rpcs,       \* everything enqueued on rpc_broadcast_mq
  cur,        \* rank -> messages it has dequeued
  resp,       \* rank -> response queue
  \* WorkerProc and RankLifecycleParticipant
  wPhase, wActive, wDone,
  holds,      \* rank -> requests with runner state
  alive,      \* rank -> "up", "hung" or "dead"
  \* the monitor thread, and the bounds
  monitor, utilities, faults

coordVars  == <<phase, recovery, active, owner, lastDone, owned>>
engineVars == <<engine, scheduled, finished, submitted, steps>>
rankVars   == <<cur, wPhase, wActive, wDone, holds, alive>>
vars == <<coordVars, engineVars, call, rpcs, resp, rankVars,
          monitor, utilities, faults>>

WorkPhases == {"BEGIN", "RUNNING", "COMPLETING", "ABORTING"}
Phases == WorkPhases \cup {"IDLE", "QUIESCING", "PREPARED", "BASELINE_VERIFY",
                           "CLEAN_COMPLETE", "POISONED"}
StepOps    == {"execute", "sample", "draft"}
FenceOps   == {"admission_fence", "baseline_fence"}
ControlOps == {"prepare", "commit"} \cup FenceOps
Ops        == StepOps \cup ControlOps \cup {"utility"}

NoCall == [op |-> "none", id |-> 0, gen |-> 0, await |-> {}, clean |-> TRUE,
           req |-> NoRequest, fin |-> {}, timed |-> TRUE]

Init ==
  /\ phase = "IDLE" /\ recovery = "READY"
  /\ active = 0 /\ owner = NoRequest /\ lastDone = 0 /\ owned = {}
  /\ engine = "up"
  /\ scheduled = {} /\ finished = {} /\ submitted = {} /\ steps = 0
  /\ call = NoCall
  /\ rpcs = <<>>
  /\ cur = [r \in Ranks |-> 0]
  /\ resp = [r \in Ranks |-> <<>>]
  /\ wPhase = [r \in Ranks |-> "IDLE"]
  /\ wActive = [r \in Ranks |-> 0]
  /\ wDone = [r \in Ranks |-> 0]
  /\ holds = [r \in Ranks |-> {}]
  /\ alive = [r \in Ranks |-> "up"]
  /\ monitor = "watching"
  /\ utilities = 0 /\ faults = 0

-------------------------------------------------------------------------------
(* The coordinator and the poison decision                                 *)

\* Mutant: is_failed is set after the group has been poisoned.
isFailedLate == monitor \in {"notified", "closed"}

\* is_failed; it is set before the monitor thread poisons the group.
isFailed == monitor # "watching"

\* Mutant: the next request is accepted before the cleanup of the last one.
CanAcceptEarly == phase \in {"IDLE", "CLEAN_COMPLETE", "COMPLETING"}

CanAccept == phase \in {"IDLE", "CLEAN_COMPLETE"}

\* Mutant: admission reads the phase and not recovery.state.
AdmissionByPhase ==
  IF phase = "POISONED" THEN "poisoned" ELSE IF CanAccept THEN "ready" ELSE "busy"

AdmissionState ==
  IF phase = "POISONED" \/ recovery # "READY" THEN "poisoned"
  ELSE IF CanAccept THEN "ready" ELSE "busy"

\* _stability_poison: nothing is released or cleared.
Poison ==
  /\ phase' = "POISONED"
  /\ recovery' = "POISONED"

\* A phase write of the engine thread.  The coordinator takes no lock: the
\* monitor thread's poison may fall between the check that precedes the write
\* and the write, which then covers it; recovery.state keeps it.
SetPhase(p) ==
  /\ phase' = p
  /\ \/ UNCHANGED <<recovery, monitor>>
     \/ /\ p # phase
        /\ monitor \in {"watching", "detected"}
        /\ \E r \in Ranks : alive[r] = "dead"
        /\ monitor' = "poisoned"
        /\ recovery' = "POISONED"

MarkRunning(p) == IF p = "BEGIN" THEN "RUNNING" ELSE p
MarkAborting(p) == IF MarkRunning(p) = "RUNNING" THEN "ABORTING" ELSE p
MarkCompleting(p) == IF MarkRunning(p) = "RUNNING" THEN "COMPLETING" ELSE p

Fault ==
  /\ faults < MaxFaults
  /\ faults' = faults + 1

-------------------------------------------------------------------------------
(* collective_rpc                                                          *)

Idle == engine = "up" /\ call = NoCall

NextRpc == Len(rpcs) + 1

\* Whether collective_rpc is given a timeout.  take_draft_token_ids passes none,
\* nor do most utilities (profile, the LoRA and cache calls, sleep); check_health
\* does, and EngineCore.collective_rpc hands on whatever its caller chose.
Deadlines(op) ==
  CASE op = "draft" -> {FALSE} [] op = "utility" -> BOOLEAN [] OTHER -> {TRUE}

\* Enqueue one RPC; waits is the set of ranks whose reply completes it.
Send(op, gen, waits, req, fin) ==
  /\ rpcs' = Append(rpcs, [op |-> op, gen |-> gen, fin |-> fin, add |-> scheduled])
  /\ \E timed \in Deadlines(op) :
       call' = [op |-> op, id |-> NextRpc, gen |-> gen, await |-> waits,
                clean |-> TRUE, req |-> req, fin |-> fin, timed |-> timed]

\* An exception leaves the outstanding call.  An ADD and a utility call are
\* answered with an error by their handlers; in a step it reaches
\* run_engine_core, which sends ENGINE_CORE_DEAD.
Raise ==
  /\ call' = NoCall
  /\ engine' = IF call.op \in {"admission_fence", "utility"} THEN engine ELSE "dead"

\* _stability_accept_response_envelope: correlation with the awaited RPC, and
\* for a data reply also the phase that accept_response demands.
Accepts(m) ==
  /\ m.id = call.id
  /\ call.op \in ControlOps \/ phase \in WorkPhases

\* What the reply adds to the fence proof: RankFenceState.quiescence_failures,
\* and for a fence the completed generation RankFenceValidator compares.
CleanReply(m) ==
  /\ m.quiet
  /\ m.act = 0
  /\ m.done <= call.gen
  /\ call.op \in FenceOps => m.done = call.gen

\* A utility call outside a generation carries no envelope, nor does its reply.
Bare(m) == m.op = "utility" /\ m.gen = 0

\* Mutant: the last reply does not close the RPC's record.
TakeReplyLeak(r, m) ==
  /\ call' = [call EXCEPT !.await = @ \ {r},
                         !.clean = @ /\ (call.op \in ControlOps => CleanReply(m))]
  /\ UNCHANGED <<phase, recovery, engine, owned>>

\* An accepted reply; the last awaited one closes the RPC's record.
TakeReply(r, m) ==
  /\ call' = [call EXCEPT !.await = @ \ {r},
                         !.clean = @ /\ (call.op \in ControlOps => CleanReply(m))]
  /\ owned' = IF call.await = {r} THEN owned \ {call.id} ELSE owned
  /\ UNCHANGED <<phase, recovery, engine>>

\* get_response reads a rank's response queue.  (The code reads the awaited
\* ranks in order; each has its own queue, so the order is immaterial.)
ReceiveReply(r) ==
  /\ engine = "up"
  /\ r \in call.await
  /\ resp[r] # <<>>
  /\ resp' = [resp EXCEPT ![r] = Tail(@)]
  /\ LET m == Head(resp[r]) IN
     \/ \* no envelope was asked for: a reply with one cannot be unpacked
        /\ Bare(call)
        /\ IF Bare(m) THEN TakeReply(r, m) ELSE Raise /\ UNCHANGED <<phase, recovery, owned>>
     \/ \* the reply omits its envelope, or the control function raised
        /\ ~Bare(call)
        /\ Bare(m) \/ (Accepts(m) /\ ~m.ok)
        /\ Poison /\ Raise
        /\ UNCHANGED owned
     \/ \* a stale reply is retired by reading it, or finds the group poisoned
        /\ ~Bare(call) /\ ~Bare(m) /\ ~Accepts(m)
        /\ IF phase = "POISONED" THEN Raise ELSE UNCHANGED <<call, engine>>
        /\ UNCHANGED <<phase, recovery, owned>>
     \/ ~Bare(call) /\ ~Bare(m) /\ Accepts(m) /\ m.ok /\ TakeReply(r, m)
  /\ UNCHANGED <<active, owner, lastDone, scheduled, finished, submitted, steps,
                 rpcs, rankVars, monitor, utilities, faults>>

\* collective_rpc gives up.  A bare utility call has no lifecycle proof to lose.
CallFails ==
  /\ IF Bare(call) THEN UNCHANGED <<phase, recovery>> ELSE Poison
  /\ Raise
  /\ UNCHANGED <<active, owner, lastDone, owned, scheduled, finished, submitted,
                 steps, rpcs, resp, rankVars, monitor, utilities>>

\* Mutant: sample_tokens passes no timeout either.
HasDeadlineExecute == call.timed /\ call.op # "sample"

\* Without a timeout the response queues are read with no limit.
HasDeadline == call.timed

\* An awaited rank will never answer: the deadline passes, or the executor's
\* shutdown closes the response queues under the reader.
CallTimeout ==
  /\ engine = "up"
  /\ \E r \in call.await : alive[r] # "up" /\ resp[r] = <<>>
  /\ HasDeadline \/ monitor = "closed"
  /\ CallFails
  /\ UNCHANGED faults

\* The deadline passes before a healthy but slow rank answers.
LateReply ==
  /\ engine = "up"
  /\ call.await # {}
  /\ HasDeadline
  /\ CallFails
  /\ Fault

\* The call has every reply it waits for.
Completed(op) ==
  /\ engine = "up"
  /\ call.op = op
  /\ call.await = {}

-------------------------------------------------------------------------------
(* EngineCore: admission                                                   *)

\* Mutant: the admission fence waits for the output rank alone.
AdmitOneRank(q) ==
  /\ Idle
  /\ q \notin submitted
  /\ AdmissionState = "ready"
  /\ submitted' = submitted \cup {q}
  /\ ~isFailed
  /\ Send("admission_fence", lastDone, {OutputRank}, q, {})
  /\ UNCHANGED <<phase, recovery>>
  /\ UNCHANGED <<active, owner, lastDone, owned, engine, scheduled, finished, steps,
                 resp, rankVars, monitor, utilities, faults>>

\* An ADD reaches add_request: fence every rank before the next generation.
Admit(q) ==
  /\ Idle
  /\ q \notin submitted
  /\ AdmissionState = "ready"
  /\ submitted' = submitted \cup {q}
  /\ \/ /\ isFailed
        /\ Poison
        /\ UNCHANGED <<call, rpcs>>
     \/ /\ ~isFailed
        /\ Send("admission_fence", lastDone, Ranks, q, {})
        /\ UNCHANGED <<phase, recovery>>
  /\ UNCHANGED <<active, owner, lastDone, owned, engine, scheduled, finished, steps,
                 resp, rankVars, monitor, utilities, faults>>

\* The fence is proved: the coordinator allocates the generation and the
\* scheduler takes the request, or raises and the engine dies.
Begin ==
  /\ Completed("admission_fence")
  /\ call.clean
  /\ AdmissionState = "ready"
  /\ active' = lastDone + 1
  /\ owner' = call.req
  /\ owned' = owned \cup {0}
  /\ steps' = 0
  /\ call' = NoCall
  /\ \/ /\ SetPhase("BEGIN")
        /\ scheduled' = scheduled \cup {call.req}
        /\ UNCHANGED <<engine, faults>>
     \/ /\ Fault
        /\ Poison
        /\ engine' = "dead"
        /\ UNCHANGED <<scheduled, monitor>>
  /\ UNCHANGED <<lastDone, finished, submitted, rpcs, resp, rankVars, utilities>>

\* A rank failed the fence, or the group was poisoned meanwhile: the ADD is
\* answered with an error and the engine goes on.
AdmitRefused ==
  /\ Completed("admission_fence")
  /\ ~call.clean \/ AdmissionState # "ready"
  /\ Poison
  /\ call' = NoCall
  /\ UNCHANGED <<active, owner, lastDone, owned, engineVars, rpcs, resp, rankVars,
                 monitor, utilities, faults>>

-------------------------------------------------------------------------------
(* EngineCore: steps, aborts and utility calls                             *)

\* A request-scoped RPC is refused by a failed executor or a poisoned group;
\* in another phase that has stopped dispatching it poisons the group.
StepRpcRefused ==
  /\ isFailed \/ phase \notin WorkPhases
  /\ IF isFailed THEN UNCHANGED <<phase, recovery>> ELSE Poison
  /\ engine' = "dead"
  /\ call' = NoCall
  /\ UNCHANGED <<owned, rpcs, monitor>>

StepRpc(op, fin) ==
  \/ StepRpcRefused
  \/ /\ ~isFailed
     /\ phase \in WorkPhases
     /\ SetPhase(MarkRunning(phase))
     /\ Send(op, active, {OutputRank}, owner, fin)
     /\ owned' = owned \cup {NextRpc}
     /\ UNCHANGED engine

\* step: schedule, then execute_model.
Step ==
  /\ Idle
  /\ scheduled \cup finished # {}
  /\ StepRpc("execute", finished)
  /\ finished' = {}
  /\ steps' = IF scheduled # {} THEN steps + 1 ELSE steps
  /\ UNCHANGED <<active, owner, lastDone, scheduled, submitted, resp, rankVars,
                 utilities, faults>>

\* Tokens were scheduled: the model output is None, and they are sampled.
SampleStep ==
  /\ Completed("execute")
  /\ call.fin = {}
  /\ StepRpc("sample", {})
  /\ UNCHANGED <<active, owner, lastDone, scheduled, finished, submitted, steps, resp,
                 rankVars, utilities, faults>>

\* _process_aborts_queue and update_from_output end the request or not; its
\* final output is reported at once or discovered at the cleanup boundary.
FinishStep ==
  /\ Completed("sample")
  /\ \/ /\ steps < MaxSteps
        /\ UNCHANGED <<phase, recovery, monitor, scheduled, finished>>
     \/ /\ \E p \in {phase, MarkCompleting(phase), MarkAborting(phase)} : SetPhase(p)
        /\ finished' = finished \cup scheduled
        /\ scheduled' = {}
  /\ call' = IF SpecDecode THEN [NoCall EXCEPT !.op = "post_step"] ELSE NoCall
  /\ UNCHANGED <<active, owner, lastDone, owned, engine, submitted, steps, rpcs, resp,
                 rankVars, utilities, faults>>

\* post_step collects the draft tokens.
DraftStep ==
  /\ Completed("post_step")
  /\ StepRpc("draft", {})
  /\ UNCHANGED <<active, owner, lastDone, scheduled, finished, submitted, steps, resp,
                 rankVars, utilities, faults>>

\* A draft or utility reply only ends its call.
EndCall ==
  /\ Completed("draft") \/ Completed("utility")
  /\ call' = NoCall
  /\ UNCHANGED <<coordVars, engineVars, rpcs, resp, rankVars, monitor, utilities, faults>>

\* Mutant: the aborted request never reaches the cleanup output.
AbortForgotten ==
  /\ Idle
  /\ owner # NoRequest
  /\ scheduled' = {}
  /\ SetPhase(MarkAborting(phase))
  /\ UNCHANGED <<active, owner, lastDone, owned, engine, finished, submitted, steps, call,
                 rpcs, resp, rankVars, utilities, faults>>

\* ABORT of the owner, which may have finished already.
Abort ==
  /\ Idle
  /\ owner # NoRequest
  /\ finished' = finished \cup scheduled
  /\ scheduled' = {}
  /\ SetPhase(MarkAborting(phase))
  /\ UNCHANGED <<active, owner, lastDone, owned, engine, submitted, steps, call, rpcs,
                 resp, rankVars, utilities, faults>>

\* A client's utility call that runs a collective RPC on every rank; the client
\* gets the exception when it is refused.
UtilityRpc ==
  /\ Idle
  /\ utilities < MaxUtility
  /\ utilities' = utilities + 1
  /\ \/ /\ isFailed \/ phase = "POISONED"
        /\ UNCHANGED <<phase, recovery, monitor, owned, call, rpcs>>
     \/ /\ ~isFailed
        /\ phase # "POISONED"
        /\ Send("utility", active, Ranks, NoRequest, {})
        /\ IF active = 0
           THEN UNCHANGED <<phase, recovery, monitor, owned>>
           ELSE /\ SetPhase(MarkRunning(phase))
                /\ owned' = owned \cup {NextRpc}
  /\ UNCHANGED <<active, owner, lastDone, engineVars, resp, rankVars, faults>>

-------------------------------------------------------------------------------
(* stability_finalize_generation: prepare, commit and fence every rank     *)

\* Mutant: a control RPC waits for the output rank alone.
NextControlOneRank(p, op) ==
  /\ phase' = p
  /\ Send(op, active, {OutputRank}, owner, {})
  /\ UNCHANGED <<recovery, engine>>

NextControl(p, op) ==
  /\ phase' = p
  /\ Send(op, active, Ranks, owner, {})
  /\ UNCHANGED <<recovery, engine>>

\* A failed proof poisons the group and reaches run_engine_core.
FailFinalize ==
  /\ Poison
  /\ engine' = "dead"
  /\ call' = NoCall
  /\ UNCHANGED rpcs

\* The cleanup output has been executed: no request may be left in the scheduler.
FinalizeStep ==
  /\ Completed("execute")
  /\ call.fin # {}
  /\ owned' = IF scheduled = {} THEN owned \ {0} ELSE owned
  /\ IF scheduled = {} /\ MarkCompleting(phase) \in {"COMPLETING", "ABORTING"} /\ ~isFailed
     THEN NextControl("QUIESCING", "prepare")
     ELSE FailFinalize
  /\ UNCHANGED <<active, owner, lastDone, scheduled, finished, submitted, steps, resp,
                 rankVars, monitor, utilities, faults>>

\* Mutant: phase two does not look at the proofs.
PrepareDoneUnproved ==
  /\ Completed("prepare")
  /\ IF owned = {} /\ phase = "QUIESCING" /\ ~isFailed
     THEN NextControl("PREPARED", "commit")
     ELSE FailFinalize
  /\ UNCHANGED <<active, owner, lastDone, owned, scheduled, finished, submitted, steps,
                 resp, rankVars, monitor, utilities, faults>>

\* Phase two only after every rank's proof, and with no open record left.
PrepareDone ==
  /\ Completed("prepare")
  /\ IF call.clean /\ owned = {} /\ phase = "QUIESCING" /\ ~isFailed
     THEN NextControl("PREPARED", "commit")
     ELSE FailFinalize
  /\ UNCHANGED <<active, owner, lastDone, owned, scheduled, finished, submitted, steps,
                 resp, rankVars, monitor, utilities, faults>>

CommitDone ==
  /\ Completed("commit")
  /\ IF call.clean /\ phase = "PREPARED" /\ ~isFailed
     THEN NextControl("BASELINE_VERIFY", "baseline_fence")
     ELSE FailFinalize
  /\ UNCHANGED <<active, owner, lastDone, owned, scheduled, finished, submitted, steps,
                 resp, rankVars, monitor, utilities, faults>>

BaselineDone ==
  /\ Completed("baseline_fence")
  /\ \/ /\ call.clean /\ phase = "BASELINE_VERIFY"
        /\ lastDone' = active
        /\ active' = 0
        /\ owner' = NoRequest
        /\ SetPhase("CLEAN_COMPLETE")
        /\ call' = NoCall
        /\ UNCHANGED <<engine, rpcs>>
     \/ /\ ~(call.clean /\ phase = "BASELINE_VERIFY")
        /\ FailFinalize
        /\ UNCHANGED <<active, owner, lastDone, monitor>>
  /\ UNCHANGED <<owned, scheduled, finished, submitted, steps, resp, rankVars,
                 utilities, faults>>

-------------------------------------------------------------------------------
(* worker_busy_loop                                                        *)

HasRpc(r) == alive[r] = "up" /\ cur[r] < Len(rpcs)
Rpc(r) == rpcs[cur[r] + 1]

Reply(r, ok, done, act, quiet) ==
  resp' = [resp EXCEPT ![r] =
             Append(@, [id |-> cur[r] + 1, op |-> Rpc(r).op, gen |-> Rpc(r).gen,
                        ok |-> ok, done |-> done, act |-> act, quiet |-> quiet])]

Dequeue(r) == cur' = [cur EXCEPT ![r] = @ + 1]

rankRest == <<coordVars, engineVars, call, rpcs, monitor, utilities>>

\* The rank runs this generation, or can adopt it as the next one.
MayRun(r, gen) ==
  \/ wActive[r] = gen /\ wPhase[r] = "RUNNING"
  \/ wActive[r] = 0 /\ wPhase[r] \in {"IDLE", "CLEAN_COMPLETE"} /\ gen = wDone[r] + 1

\* A data RPC; the worker process exits rather than answer a rejected envelope.
WorkerData(r) ==
  /\ HasRpc(r)
  /\ Rpc(r).op \in StepOps \cup {"utility"} /\ ~Bare(Rpc(r))
  /\ Dequeue(r)
  /\ IF MayRun(r, Rpc(r).gen)
     THEN /\ wPhase' = [wPhase EXCEPT ![r] = "RUNNING"]
          /\ wActive' = [wActive EXCEPT ![r] = Rpc(r).gen]
          /\ holds' = IF Rpc(r).op = "execute"
                      THEN [holds EXCEPT ![r] = (@ \ Rpc(r).fin) \cup Rpc(r).add]
                      ELSE holds
          /\ IF Rpc(r).op = "utility" \/ r = OutputRank
             THEN Reply(r, TRUE, 0, 0, TRUE)
             ELSE UNCHANGED resp
          /\ UNCHANGED alive
     ELSE /\ alive' = [alive EXCEPT ![r] = "dead"]
          /\ UNCHANGED <<wPhase, wActive, holds, resp>>
  /\ UNCHANGED <<rankRest, wDone, faults>>

\* A model-global RPC has no envelope and touches no lifecycle state.
WorkerBare(r) ==
  /\ HasRpc(r)
  /\ Bare(Rpc(r))
  /\ Dequeue(r)
  /\ Reply(r, TRUE, 0, 0, TRUE)
  /\ UNCHANGED <<rankRest, wPhase, wActive, wDone, holds, alive, faults>>

\* An unclean fact that only the snapshot sees: swap in use, a pending event.
Unclean(bad) == IF bad THEN Fault ELSE UNCHANGED faults

\* Phase one: a rank with request state left stays where it is.  A pending CUDA
\* event counts as such; a swap violation fails the proof but not the phase.
WorkerPrepare(r) ==
  /\ HasRpc(r)
  /\ Rpc(r).op = "prepare"
  /\ Dequeue(r)
  /\ \E pending, swap \in BOOLEAN :
       LET mine == wActive[r] = Rpc(r).gen
           busy == holds[r] # {} \/ pending
       IN
       /\ Unclean(pending \/ swap)
       /\ wPhase' = IF mine /\ ~busy THEN [wPhase EXCEPT ![r] = "PREPARED"] ELSE wPhase
       /\ Reply(r, mine, wDone[r], IF busy THEN wActive[r] ELSE 0, ~busy /\ ~swap)
  /\ UNCHANGED <<rankRest, wActive, wDone, holds, alive>>

\* Phase two retires the local metadata of a prepared rank; a repeat is a no-op.
WorkerCommit(r) ==
  /\ HasRpc(r)
  /\ Rpc(r).op = "commit"
  /\ Dequeue(r)
  /\ \E bad \in BOOLEAN :
       /\ Unclean(bad)
       /\ LET gen == Rpc(r).gen
              again == wPhase[r] = "CLEAN_COMPLETE" /\ wDone[r] = gen
              prepared == wActive[r] = gen /\ wPhase[r] = "PREPARED"
          IN
          /\ IF prepared
             THEN /\ wPhase' = [wPhase EXCEPT ![r] = "CLEAN_COMPLETE"]
                  /\ wActive' = [wActive EXCEPT ![r] = 0]
                  /\ wDone' = [wDone EXCEPT ![r] = gen]
             ELSE UNCHANGED <<wPhase, wActive, wDone>>
          /\ Reply(r, again \/ prepared, gen, 0, holds[r] = {} /\ ~bad)
  /\ UNCHANGED <<rankRest, holds, alive>>

WorkerFence(r) ==
  /\ HasRpc(r)
  /\ Rpc(r).op \in FenceOps
  /\ Dequeue(r)
  /\ \E bad \in BOOLEAN :
       /\ Unclean(bad)
       /\ Reply(r, TRUE, wDone[r], wActive[r], holds[r] = {} /\ ~bad)
  /\ UNCHANGED <<rankRest, wPhase, wActive, wDone, holds, alive>>

\* A worker process exits, or its main thread never returns from a collective.
CrashWorker(r) ==
  /\ alive[r] # "dead"
  /\ Fault
  /\ alive' = [alive EXCEPT ![r] = "dead"]
  /\ UNCHANGED <<rankRest, cur, resp, wPhase, wActive, wDone, holds>>

HangWorker(r) ==
  /\ alive[r] = "up"
  /\ Fault
  /\ alive' = [alive EXCEPT ![r] = "hung"]
  /\ UNCHANGED <<rankRest, cur, resp, wPhase, wActive, wDone, holds>>

-------------------------------------------------------------------------------
(* The monitor thread, and the engine's end                                *)

\* A process sentinel fires: is_failed first, then the poison, then the
\* callback that queues EXECUTOR_FAILED.
MonitorDetect ==
  /\ monitor = "watching"
  /\ \E r \in Ranks : alive[r] = "dead"
  /\ monitor' = "detected"
  /\ UNCHANGED <<coordVars, engineVars, call, rpcs, resp, rankVars, utilities, faults>>

MonitorPoison ==
  /\ monitor = "detected"
  /\ monitor' = "poisoned"
  /\ Poison
  /\ UNCHANGED <<active, owner, lastDone, owned, engineVars, call, rpcs, resp, rankVars,
                 utilities, faults>>

MonitorNotify ==
  /\ monitor = "poisoned"
  /\ monitor' = "notified"
  /\ UNCHANGED <<coordVars, engineVars, call, rpcs, resp, rankVars, utilities, faults>>

\* MultiprocExecutor.shutdown, by the monitor thread or by run_engine_core:
\* every worker is terminated and the queues are closed.
Shutdown ==
  /\ monitor = "notified" \/ (engine = "dead" /\ monitor # "closed")
  /\ monitor' = "closed"
  /\ alive' = [r \in Ranks |-> "dead"]
  /\ UNCHANGED <<coordVars, engineVars, call, rpcs, resp, cur, wPhase, wActive, wDone,
                 holds, utilities, faults>>

\* Mutant: the callback's event is lost once the executor is shut down.
ExecutorFailedLost ==
  /\ Idle
  /\ monitor = "notified"
  /\ engine' = "dead"
  /\ UNCHANGED <<coordVars, scheduled, finished, submitted, steps, call, rpcs, resp,
                 rankVars, monitor, utilities, faults>>

\* The input queue delivers EXECUTOR_FAILED.
ExecutorFailed ==
  /\ Idle
  /\ monitor \in {"notified", "closed"}
  /\ engine' = "dead"
  /\ UNCHANGED <<coordVars, scheduled, finished, submitted, steps, call, rpcs, resp,
                 rankVars, monitor, utilities, faults>>

-------------------------------------------------------------------------------
EngineThread ==
  \/ \E r \in Ranks : ReceiveReply(r)
  \/ CallTimeout
  \/ Begin \/ AdmitRefused
  \/ Step \/ SampleStep \/ FinishStep \/ DraftStep \/ EndCall
  \/ FinalizeStep \/ PrepareDone \/ CommitDone \/ BaselineDone
  \/ ExecutorFailed

Clients == (\E q \in Requests : Admit(q)) \/ Abort \/ UtilityRpc

Worker(r) ==
  WorkerData(r) \/ WorkerBare(r) \/ WorkerPrepare(r) \/ WorkerCommit(r) \/ WorkerFence(r)

MonitorThread == MonitorDetect \/ MonitorPoison \/ MonitorNotify \/ Shutdown

Faults == LateReply \/ \E r \in Ranks : CrashWorker(r) \/ HangWorker(r)

Next ==
  \/ EngineThread \/ Clients \/ MonitorThread \/ Faults
  \/ \E r \in Ranks : Worker(r)

Spec == Init /\ [][Next]_vars

\* Every thread goes on running; clients and faults are free not to act.
FairSpec ==
  /\ Spec
  /\ WF_vars(EngineThread)
  /\ WF_vars(MonitorThread)
  /\ \A r \in Ranks : WF_vars(Worker(r))

-------------------------------------------------------------------------------
(* Properties                                                              *)

Rpcs == [op : Ops, gen : Nat, fin : SUBSET Requests, add : SUBSET Requests]
Replies == [id : Nat, op : Ops, gen : Nat, ok : BOOLEAN, done : Nat, act : Nat,
            quiet : BOOLEAN]
Calls == [op : Ops \cup {"none", "post_step"}, id : Nat, gen : Nat,
          await : SUBSET Ranks, clean : BOOLEAN, req : Requests \cup {NoRequest},
          fin : SUBSET Requests, timed : BOOLEAN]

CoordType ==
  /\ phase \in Phases
  /\ recovery \in {"READY", "POISONED"}
  /\ active \in Nat /\ lastDone \in Nat
  /\ owner \in Requests \cup {NoRequest}
  /\ owned \subseteq Nat

EngineType ==
  /\ engine \in {"up", "dead"}
  /\ scheduled \subseteq Requests /\ finished \subseteq Requests
  /\ submitted \subseteq Requests
  /\ steps \in Nat

LinkType ==
  /\ call \in Calls
  /\ rpcs \in Seq(Rpcs)
  /\ resp \in [Ranks -> Seq(Replies)]

RankType ==
  /\ cur \in [Ranks -> Nat]
  /\ wPhase \in [Ranks -> {"IDLE", "RUNNING", "PREPARED", "CLEAN_COMPLETE"}]
  /\ wActive \in [Ranks -> Nat] /\ wDone \in [Ranks -> Nat]
  /\ holds \in [Ranks -> SUBSET Requests]
  /\ alive \in [Ranks -> {"up", "hung", "dead"}]

BoundType ==
  /\ monitor \in {"watching", "detected", "poisoned", "notified", "closed"}
  /\ utilities \in 0..MaxUtility /\ faults \in 0..MaxFaults

\* The type invariant.
TypeOK == CoordType /\ EngineType /\ LinkType /\ RankType /\ BoundType

\* While the coordinator has no active generation (before the first request,
\* between two, and after a refused ADD), every rank has retired the last one
\* and keeps no request state, whatever RPC it has still to read.
QuiescentBetween ==
  active = 0 =>
    \A r \in Ranks : wActive[r] = 0 /\ wDone[r] = lastDone /\ holds[r] = {}

\* A generation begins only when every rank has read everything that was sent
\* to it, so nothing sent before (a utility call that timed out, say) can reach
\* a rank inside the generation.
AdmissionFenced ==
  [][active' # 0 /\ active' # active =>
       \A r \in Ranks : cur[r] = Len(rpcs)]_vars

\* Phase two of the cleanup: a rank retires a generation only when every rank has
\* proved itself quiescent or has retired it too, with no request state on any
\* rank, none in the scheduler, and no RPC record open in the parent.
RetireSealed ==
  \A r \in Ranks : wDone'[r] # wDone[r] =>
    /\ \A s \in Ranks :
         /\ wDone[s] = wDone'[r] \/ (wPhase[s] = "PREPARED" /\ wActive[s] = wDone'[r])
         /\ holds[s] = {}
    /\ scheduled = {} /\ owned = {}

CommitUnanimous == [][RetireSealed]_vars

\* Once the group is poisoned, by the engine thread or by the monitor thread, it is
\* poisoned for admission for good, although the monitor thread's phase write may be
\* overwritten by the engine thread.
PoisonFinal ==
  [][AdmissionState = "poisoned" \/ (monitor # "poisoned" /\ monitor' = "poisoned") =>
       AdmissionState' = "poisoned"]_vars

\* The engine never waits for client input with a generation open that no
\* scheduler entry will ever finish.
NoOrphanGeneration ==
  Idle /\ active # 0 => scheduled \cup finished = {owner}

\* No interleaving of steps, final outputs, aborts, utility calls and lagging
\* ranks makes a healthy group poison itself, reject an RPC or stop.
HealthyServes ==
  faults = 0 =>
    /\ AdmissionState # "poisoned"
    /\ engine = "up"
    /\ \A r \in Ranks : alive[r] = "up"

\* The outstanding call has no deadline, and a rank it waits for hangs with nothing
\* to collect from it: only the exit of a worker ends this wait.
Unbounded ==
  ~call.timed /\ \E r \in call.await : alive[r] = "hung" /\ resp[r] = <<>>

\* Every generation ends: a clean baseline, or an engine that reported its death.
\* The exception is a rank that hangs in a call without a timeout: a draft RPC, or
\* a utility call that is made while the generation is open.
GenerationEnds ==
  active # 0 ~> active = 0 \/ engine = "dead" \/ Unbounded

\* A worker's exit ends the engine, whatever the engine thread is doing.
DeathReported ==
  (\E r \in Ranks : alive[r] = "dead") ~> engine = "dead"

\* Poison reaches the EngineDead handler.
PoisonReported ==
  phase = "POISONED" ~> engine = "dead"

\* The engine sees the group as RequestFence promises it.
Fence == INSTANCE RequestFence WITH
  gate <- AdmissionState,
  served <- lastDone,
  using <- {r \in Ranks : wActive[r] # 0},
  sealed <- active # 0 /\ \A r \in Ranks : wPhase[r] = "PREPARED" \/ wDone[r] = active

FenceSpec == Fence!Spec

===============================================================================
