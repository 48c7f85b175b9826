----------------------- MODULE GenerationHealth_proofs ------------------------
(***************************************************************************)
(* Three things about GenerationLifecycle that its inductive invariant     *)
(* IInv does not carry, for every set of ranks and requests and every      *)
(* value of the bounds: no open generation is forgotten by the scheduler,  *)
(* nobody waits for an answer that cannot come, and a group without a      *)
(* fault never poisons itself.                                             *)
(*                                                                         *)
(* The first follows the one request of the generation from the scheduler  *)
(* to the cleanup output, through the outstanding call.  The second finds, *)
(* for every rank a call waits for, its message unread, its reply in the   *)
(* queue, or the rank down.  The third has to say where every reply comes  *)
(* from: in a healthy group no call is ever given up, so the only replies  *)
(* in a queue are those of the outstanding call, at most one per rank, and *)
(* each is what the call accepts; a rank other than the output rank may    *)
(* lag behind with messages that nobody awaits, but it has run the final   *)
(* execute before it reads the prepare.                                    *)
(***************************************************************************)
EXTENDS GenerationLifecycle_proofs

\* The cleanup output is being executed: its call carries the finished request.
Finalizing == call.op = "execute" /\ call.fin # {}

\* The one request of the generation is in the scheduler, in one place.
Held ==
  \/ scheduled = {owner} /\ finished = {}
  \/ scheduled = {} /\ finished = {owner}

\* The request of an open generation is in the scheduler, on its way to the ranks
\* in the cleanup output, or the cleanup has begun.
OwnerOK ==
  /\ active = 0 <=> owner = NoRequest
  /\ engine = "up" /\ active # 0 =>
       IF Finalizing
       THEN scheduled = {} /\ finished = {} /\ call.fin = {owner}
       ELSE call.op \in CleanupOps \/ Held

OwnerInv == IInv /\ OwnerOK

\* The phase of an open generation is that of its last message, or a poison.
StagePhase ==
  active # 0 =>
    \/ phase = "POISONED"
    \/ phase \in WorkPhases /\ LastOp \notin CleanupOps
    \/ LastOp = "prepare" /\ phase = "QUIESCING"
    \/ LastOp = "commit" /\ phase = "PREPARED"
    \/ LastOp = "baseline_fence" /\ phase = "BASELINE_VERIFY"

\* A rank that is waited for has the message to read, or its reply is in the queue,
\* or it is down.
AwaitOK(r) ==
  r \in call.await =>
    /\ call.op \in Ops
    /\ call.op \in StepOps => r = OutputRank
    /\ \/ alive[r] # "up"
       \/ cur[r] < Len(rpcs)
       \/ \E k \in 1 .. Len(resp[r]) : resp[r][k].id = Len(rpcs)

AwaitInv == OwnerInv /\ StagePhase /\ \A r \in Ranks : AwaitOK(r)

\* Nothing has failed, and nobody has noticed a failure.
GroupUp ==
  /\ recovery = "READY" /\ engine = "up" /\ monitor = "watching"
  /\ \A r \in Ranks : alive[r] = "up"
  /\ call.clean

\* The phase of an open generation is that of its last message.
PhaseOK ==
  active # 0 =>
    CASE LastOp = "prepare"        -> phase = "QUIESCING"
      [] LastOp = "commit"         -> phase = "PREPARED"
      [] LastOp = "baseline_fence" -> phase = "BASELINE_VERIFY"
      [] OTHER                     -> phase \in WorkPhases

\* The only open records are the request's and that of the outstanding data RPC;
\* the prepare finds none.
RecordsOK ==
  /\ owned \subseteq {0} \cup (IF call.await = {} THEN {} ELSE {call.id})
  /\ call.op \in ControlOps => owned \subseteq {0}
  /\ active # 0 /\ LastOp = "prepare" => owned = {}

\* The message is the cleanup output of this generation.
Final(m) == m.op = "execute" /\ m.gen = active /\ m.fin = {owner} /\ m.add = {}

\* The cleanup output is the last message, or the last but the prepare.
FinalOK ==
  /\ call.op = "execute" => rpcs[Len(rpcs)].fin = call.fin
  /\ active # 0 /\ Finalizing => Final(rpcs[Len(rpcs)])
  /\ active # 0 /\ LastOp = "prepare" => Len(rpcs) > 1 /\ Final(rpcs[Len(rpcs) - 1])

\* The rank has run the cleanup output and not yet read the prepare.
RanFinal(r) ==
  \/ Finalizing /\ cur[r] = Len(rpcs)
  \/ LastOp = "prepare" /\ cur[r] + 1 = Len(rpcs)

\* What a rank holds is the request of the generation, and nothing once it has run
\* the cleanup output.
HoldsOK(r) ==
  /\ active # 0 => holds[r] \subseteq {owner}
  /\ active # 0 =>
       \A i \in (cur[r] + 1) .. Len(rpcs) : rpcs[i].add \subseteq {owner}
  /\ active # 0 /\ RanFinal(r) => wActive[r] = active /\ holds[r] = {}

\* The message is one that this rank answers.
Answers(r, m) == m.op \notin StepOps \/ r = OutputRank

\* The reply is what the outstanding call waits for.
Good(m) ==
  /\ m.id = call.id /\ m.op = call.op /\ m.gen = call.gen /\ m.ok
  /\ call.op \in ControlOps => CleanReply(m)

\* A rank the call waits for has the message to read or its one reply in the queue,
\* and no other rank has any.
AnswerOK(r) ==
  /\ \A i \in (cur[r] + 1) .. Len(rpcs) :
       Answers(r, rpcs[i]) => i = Len(rpcs) /\ call.op \in Ops /\ r \in call.await
  /\ resp[r] # <<>> =>
       /\ call.op \in Ops /\ r \in call.await
       /\ cur[r] = Len(rpcs) /\ Len(resp[r]) = 1 /\ Good(resp[r][1])

HealthOK ==
  faults = 0 =>
    /\ GroupUp /\ PhaseOK /\ RecordsOK /\ FinalOK
    /\ \A r \in Ranks : HoldsOK(r) /\ AnswerOK(r)

HealthInv == OwnerInv /\ HealthOK

\* All three together, as the run checks them.
LifecycleInv == OwnerInv /\ StagePhase /\ (\A r \in Ranks : AwaitOK(r)) /\ HealthOK

-------------------------------------------------------------------------------
(* The request of the open generation                                          *)

\* The request follows its generation initially.
LEMMA OwnerInit == Init => OwnerOK
  BY DEF Init, OwnerOK

\* A step that leaves the request where it is, and neither sends nor opens
\* anything, keeps its place; a death of the engine keeps nothing to say.
LEMMA OwnerFrame ==
  ASSUME OwnerOK, UNCHANGED <<active, owner>>,
         \/ engine' = "dead"
         \/ /\ UNCHANGED <<engine, scheduled, finished>>
            /\ \/ call'.op = call.op /\ call'.fin = call.fin
               \/ call'.op # "execute" /\ call.op \notin {"execute"} \cup CleanupOps
  PROVE  OwnerOK'
  BY DEF OwnerOK, Finalizing, Held

\* A message that is not the cleanup output or of the cleanup keeps it too.
LEMMA OwnerSend ==
  ASSUME TypeOK, OwnerOK, UNCHANGED <<active, owner, engine, scheduled, finished>>,
         NEW op \in Ops, NEW gen \in Nat, NEW waits \in SUBSET Ranks,
         NEW req \in Requests \cup {NoRequest},
         Send(op, gen, waits, req, {}),
         active = 0 \/ op \in CleanupOps \/ (~Finalizing /\ call.op \notin CleanupOps)
  PROVE  OwnerOK'
<1>1. {} \in SUBSET Requests
  OBVIOUS
<1>2. call'.op = op /\ call'.fin = {}
  BY <1>1, SendCall
<1> QED BY <1>2 DEF OwnerOK, Finalizing, Held

\* Every step keeps the request in its place; one case per action.
LEMMA OwnerNext ==
  ASSUME OwnerInv, [Next]_vars
  PROVE  OwnerOK'
<1>0. TypeOK /\ CoordOK /\ CallOK /\ StageOK /\ OwnerOK
  BY DEF OwnerInv, IInv
<1>1. CASE UNCHANGED vars
  BY <1>0, <1>1, OwnerFrame DEF vars, coordVars, engineVars
<1>2. CASE CallTimeout \/ LateReply
  <2>1. UNCHANGED <<active, owner, scheduled, finished>> /\ Raise
    BY <1>2 DEF CallTimeout, LateReply, CallFails
  <2> QED BY <1>0, <2>1, OwnerFrame DEF Raise, NoCall, CleanupOps
<1>3. CASE AdmitRefused
  <2>1. UNCHANGED <<active, owner, engine, scheduled, finished>> /\ call' = NoCall
    BY <1>3 DEF AdmitRefused, engineVars
  <2> QED BY <1>0, <1>3, <2>1, OwnerFrame DEF AdmitRefused, Completed, NoCall, CleanupOps
<1>4. CASE Begin
  <2>1. /\ active = 0 /\ call.req \in Requests /\ scheduled = {} /\ finished = {}
        /\ active' = lastDone + 1 /\ owner' = call.req /\ finished' = finished
        /\ call' = NoCall
        /\ scheduled' = scheduled \cup {call.req} \/ engine' = "dead"
    BY <1>0, <1>4
    DEF Begin, Completed, CallOK, StageOK, Ops, StepOps, ControlOps, FenceOps
  <2>2. active' # 0 /\ owner' # NoRequest
    BY <1>0, <2>1, RequestsAssumption DEF TypeOK, CoordType
  <2> QED BY <2>1, <2>2 DEF OwnerOK, Finalizing, Held, NoCall
<1>5. CASE Step
  <2>1. /\ UNCHANGED <<active, owner, scheduled>> /\ finished' = {}
        /\ StepRpc("execute", finished) /\ engine = "up" /\ call = NoCall
    BY <1>5 DEF Step, Idle
  <2>2. CASE engine' = "dead"
    BY <1>0, <2>1, <2>2, OwnerFrame
  <2>3. CASE active # 0 /\ Send("execute", active, {OutputRank}, owner, finished)
    <3>1. call'.op = "execute" /\ call'.fin = finished
      BY <1>0, <2>3, SendArgs, SendCall
    <3>2. Held
      BY <1>0, <2>1, <2>3 DEF OwnerOK, Finalizing, NoCall, CleanupOps
    <3> QED BY <1>0, <2>1, <2>3, <3>1, <3>2 DEF OwnerOK, Finalizing, Held
  <2> QED BY <1>0, <2>1, <2>2, <2>3, SendArgs, StepRpcCall DEF StepOps
<1>6. CASE SampleStep \/ DraftStep
  <2>1. PICK op \in {"sample", "draft"} : StepRpc(op, {})
    BY <1>6 DEF SampleStep, DraftStep
  <2>2. /\ UNCHANGED <<active, owner, scheduled, finished>>
        /\ ~Finalizing /\ call.op \notin CleanupOps
    BY <1>6 DEF SampleStep, DraftStep, Completed, Finalizing, CleanupOps
  <2>3. CASE engine' = "dead"
    BY <1>0, <2>2, <2>3, OwnerFrame
  <2>4. CASE engine' = engine /\ Send(op, active, {OutputRank}, owner, {})
    BY <1>0, <2>2, <2>4, SendArgs, OwnerSend
  <2> QED BY <1>0, <2>1, <2>3, <2>4, SendArgs, StepRpcCall DEF StepOps
<1>7. CASE FinishStep
  <2>1. /\ UNCHANGED <<active, owner, engine>> /\ call.op = "sample" /\ finished = {}
        /\ call'.op \notin {"execute"} \cup CleanupOps
        /\ \/ UNCHANGED <<scheduled, finished>>
           \/ scheduled' = {} /\ finished' = finished \cup scheduled
    BY <1>0, <1>7 DEF FinishStep, Completed, StageOK, NoCall, CleanupOps
  <2> QED BY <1>0, <2>1 DEF OwnerOK, Finalizing, Held, CleanupOps
<1>8. CASE EndCall
  <2>1. /\ UNCHANGED <<active, owner, engine, scheduled, finished>> /\ call' = NoCall
        /\ call.op \in {"draft", "utility"}
    BY <1>8 DEF EndCall, Completed, coordVars, engineVars
  <2> QED BY <1>0, <2>1, OwnerFrame DEF NoCall, CleanupOps
<1>9. CASE FinalizeStep \/ PrepareDone \/ CommitDone
  <2>1. /\ UNCHANGED <<active, owner, scheduled, finished>>
        /\ \/ engine' = "dead"
           \/ \E op \in CleanupOps : Send(op, active, Ranks, owner, {}) /\ engine' = engine
    BY <1>9 DEF FinalizeStep, PrepareDone, CommitDone, NextControl, FailFinalize, CleanupOps
  <2>2. CASE engine' = "dead"
    BY <1>0, <2>1, <2>2, OwnerFrame
  <2>3. ASSUME NEW op \in CleanupOps, Send(op, active, Ranks, owner, {}), engine' = engine
        PROVE  OwnerOK'
    <3>1. op \in Ops
      BY DEF CleanupOps, Ops, ControlOps, FenceOps
    <3> QED BY <1>0, <2>1, <2>3, <3>1, SendArgs, OwnerSend
  <2> QED BY <2>1, <2>2, <2>3
<1>10. CASE BaselineDone
  <2>1. \/ active' = 0 /\ owner' = NoRequest
        \/ UNCHANGED <<active, owner>> /\ engine' = "dead"
    BY <1>10 DEF BaselineDone, FailFinalize
  <2> QED BY <1>0, <2>1 DEF OwnerOK
<1>11. CASE ExecutorFailed
  BY <1>0, <1>11, OwnerFrame DEF ExecutorFailed, coordVars
<1>12. CASE Abort
  <2>1. /\ UNCHANGED <<active, owner, engine, call>> /\ call = NoCall
        /\ scheduled' = {} /\ finished' = finished \cup scheduled
    BY <1>12 DEF Abort, Idle
  <2> QED BY <1>0, <2>1 DEF OwnerOK, Finalizing, Held, NoCall, CleanupOps
<1>13. CASE UtilityRpc
  <2>1. /\ UNCHANGED <<active, owner, engine, scheduled, finished>>
        /\ ~Finalizing /\ call.op \notin CleanupOps
    BY <1>13 DEF UtilityRpc, engineVars, Idle, NoCall, Finalizing, CleanupOps
  <2>2. CASE UNCHANGED call
    BY <1>0, <2>1, <2>2, OwnerFrame
  <2>3. CASE Send("utility", active, Ranks, NoRequest, {})
    BY <1>0, <2>1, <2>3, SendArgs, OwnerSend
  <2> QED BY <1>13, <2>2, <2>3 DEF UtilityRpc
<1>14. CASE MonitorThread
  BY <1>0, <1>14, OwnerFrame
  DEF MonitorThread, MonitorDetect, MonitorPoison, MonitorNotify, Shutdown, coordVars, engineVars
<1>15. CASE \E q \in Requests : Admit(q)
  <2>1. PICK q \in Requests : Admit(q)
    BY <1>15
  <2>2. active = 0 /\ UNCHANGED <<active, owner, scheduled, finished, engine>>
    BY <1>0, <2>1 DEF Admit, AdmissionState, CoordOK
  <2>3. CASE UNCHANGED call
    BY <1>0, <2>2, <2>3, OwnerFrame
  <2>4. CASE Send("admission_fence", lastDone, Ranks, q, {})
    BY <1>0, <2>2, <2>4, SendArgs, OwnerSend
  <2> QED BY <2>1, <2>3, <2>4 DEF Admit
<1>16. CASE \E r \in Ranks : ReceiveReply(r)
  <2>1. PICK r \in Ranks : ReceiveReply(r)
    BY <1>16
  <2>2. UNCHANGED <<active, owner, scheduled, finished>>
    BY <2>1 DEF ReceiveReply
  <2>3. CASE TakeReply(r, Head(resp[r]))
    <3>1. call'.op = call.op /\ call'.fin = call.fin /\ engine' = engine
      BY <1>0, <2>3, TakeCall DEF TakeReply
    <3> QED BY <1>0, <2>2, <3>1, OwnerFrame
  <2>4. CASE UNCHANGED <<call, engine>>
    BY <1>0, <2>2, <2>4, OwnerFrame
  <2>5. CASE Raise
    BY <1>0, <2>2, <2>5, OwnerFrame DEF Raise, NoCall, CleanupOps
  <2> QED BY <2>1, <2>3, <2>4, <2>5 DEF ReceiveReply
<1>17. CASE \E r \in Ranks : CrashWorker(r) \/ HangWorker(r)
  BY <1>0, <1>17, OwnerFrame DEF CrashWorker, HangWorker, rankRest, coordVars, engineVars
<1>18. CASE \E r \in Ranks : Worker(r)
  BY <1>0, <1>18, OwnerFrame
  DEF Worker, WorkerData, WorkerBare, WorkerPrepare, WorkerCommit, WorkerFence, rankRest,
      coordVars, engineVars
<1> QED
  BY <1>1, <1>2, <1>3, <1>4, <1>5, <1>6, <1>7, <1>8, <1>9, <1>10, <1>11, <1>12, <1>13,
     <1>14, <1>15, <1>16, <1>17, <1>18
  DEF Next, EngineThread, Clients, Faults

\* The engine waits for client input only with the open request in its scheduler.
THEOREM NoOrphan == Spec => []NoOrphanGeneration
<1>1. Init => OwnerInv
  BY IInvInit, OwnerInit DEF OwnerInv
<1>2. OwnerInv /\ [Next]_vars => OwnerInv'
  BY IInvNext, OwnerNext DEF OwnerInv
<1>3. OwnerInv => NoOrphanGeneration
  BY DEF OwnerInv, OwnerOK, NoOrphanGeneration, Idle, Finalizing, Held, NoCall, CleanupOps
<1> QED BY <1>1, <1>2, <1>3, PTL DEF Spec

-------------------------------------------------------------------------------
(* Nobody waits for an answer that cannot come                                 *)

\* The phase agrees initially, and nobody is waited for.
LEMMA AwaitInit == Init => StagePhase /\ \A r \in Ranks : AwaitOK(r)
  BY DEF Init, StagePhase, AwaitOK, NoCall

\* A step that keeps the phase, or poisons, or moves within the work phases, agrees.
LEMMA StageFrame ==
  ASSUME StagePhase, active' = active, rpcs' = rpcs,
         \/ phase' \in {phase, "POISONED"}
         \/ phase \in WorkPhases /\ phase' \in WorkPhases
  PROVE  StagePhase'
  BY DEF StagePhase, LastOp, WorkPhases

\* The marks of the coordinator lead from one work phase to another, or nowhere.
LEMMA Marks ==
  /\ MarkRunning(phase) = phase \/ (phase \in WorkPhases /\ MarkRunning(phase) \in WorkPhases)
  /\ MarkAborting(phase) = phase \/ (phase \in WorkPhases /\ MarkAborting(phase) \in WorkPhases)
  /\ MarkCompleting(phase) = phase
       \/ (phase \in WorkPhases /\ MarkCompleting(phase) \in WorkPhases)
  BY DEF MarkRunning, MarkAborting, MarkCompleting, WorkPhases

\* So does a request-scoped RPC.
LEMMA StageStepRpc ==
  ASSUME TypeOK, CoordOK, StagePhase, NEW op \in StepOps, NEW fin \in SUBSET Requests,
         StepRpc(op, fin), active' = active
  PROVE  StagePhase'
<1>1. CASE StepRpcRefused
  BY <1>1, StageFrame DEF StepRpcRefused, Poison
<1>2. CASE ~StepRpcRefused
  <2>1. /\ phase \in WorkPhases /\ SetPhase(MarkRunning(phase))
        /\ Send(op, active, {OutputRank}, owner, fin)
    BY <1>2 DEF StepRpc
  <2>2. LastOp' = op
    BY <2>1, SendArgs, SendCall DEF StepOps
  <2>3. phase' \in WorkPhases
    BY <2>1, Marks DEF SetPhase
  <2> QED BY <2>2, <2>3 DEF StagePhase, StepOps, CleanupOps
<1> QED BY <1>1, <1>2

\* Every step keeps the phase of an open generation in agreement with its last
\* message; one case per action.
LEMMA StagePhaseNext ==
  ASSUME AwaitInv, [Next]_vars
  PROVE  StagePhase'
<1>0. TypeOK /\ CoordOK /\ CallOK /\ StageOK /\ StagePhase
  BY DEF AwaitInv, OwnerInv, IInv
<1>1. CASE UNCHANGED vars
  BY <1>0, <1>1, StageFrame DEF vars, coordVars
<1>2. CASE CallTimeout \/ LateReply \/ AdmitRefused
  BY <1>0, <1>2, StageFrame DEF CallTimeout, LateReply, CallFails, AdmitRefused, Poison
<1>3. CASE Begin
  <2>1. LastOp' = "admission_fence" /\ phase' \in {"BEGIN", "POISONED"}
    BY <1>0, <1>3
    DEF Begin, SetPhase, Poison, Completed, CallOK, LastOp, Ops, ControlOps, FenceOps
  <2> QED BY <2>1 DEF StagePhase, WorkPhases, CleanupOps
<1>4. CASE Step
  <2>1. StepRpc("execute", finished) /\ active' = active /\ finished \in SUBSET Requests
    BY <1>0, <1>4, SendArgs DEF Step
  <2> QED BY <1>0, <2>1, StageStepRpc DEF StepOps
<1>5. CASE SampleStep \/ DraftStep
  <2>1. PICK op \in {"sample", "draft"} : StepRpc(op, {}) /\ active' = active
    BY <1>5 DEF SampleStep, DraftStep
  <2> QED BY <1>0, <2>1, SendArgs, StageStepRpc DEF StepOps
<1>6. CASE FinishStep
  <2>1. /\ active' = active /\ rpcs' = rpcs
        /\ phase' \in {phase, MarkCompleting(phase), MarkAborting(phase)}
    BY <1>6 DEF FinishStep, SetPhase
  <2> QED BY <1>0, <2>1, Marks, StageFrame
<1>7. CASE EndCall
  BY <1>0, <1>7, StageFrame DEF EndCall, coordVars
<1>8. CASE FinalizeStep \/ PrepareDone \/ CommitDone
  <2>1. CASE FailFinalize
    BY <1>0, <1>8, <2>1, StageFrame DEF FinalizeStep, PrepareDone, CommitDone, FailFinalize, Poison
  <2>2. ASSUME NEW op \in {"prepare", "commit", "baseline_fence"},
               NextControl(IF op = "prepare" THEN "QUIESCING"
                           ELSE IF op = "commit" THEN "PREPARED" ELSE "BASELINE_VERIFY", op)
        PROVE  StagePhase'
    <3>1. Send(op, active, Ranks, owner, {}) /\ op \in Ops
      BY <2>2 DEF NextControl, Ops, ControlOps, FenceOps
    <3>2. LastOp' = op
      BY <1>0, <3>1, SendArgs, SendCall
    <3> QED BY <2>2, <3>2 DEF NextControl, StagePhase
  <2> QED BY <1>8, <2>1, <2>2 DEF FinalizeStep, PrepareDone, CommitDone
<1>9. CASE BaselineDone
  <2>1. active' = 0 \/ (active' = active /\ rpcs' = rpcs /\ phase' = "POISONED")
    BY <1>9 DEF BaselineDone, FailFinalize, Poison
  <2> QED BY <1>0, <2>1, StageFrame DEF StagePhase
<1>10. CASE ExecutorFailed
  BY <1>0, <1>10, StageFrame DEF ExecutorFailed, coordVars
<1>11. CASE Abort
  <2>1. active' = active /\ rpcs' = rpcs /\ phase' = MarkAborting(phase)
    BY <1>11 DEF Abort, SetPhase
  <2> QED BY <1>0, <2>1, Marks, StageFrame
<1>12. CASE UtilityRpc
  <2>1. active' = active
    BY <1>12 DEF UtilityRpc
  <2>2. CASE UNCHANGED <<phase, rpcs>>
    BY <1>0, <2>1, <2>2, StageFrame
  <2>3. CASE Send("utility", active, Ranks, NoRequest, {}) /\ active # 0
    <3>1. LastOp' = "utility"
      BY <1>0, <2>3, SendArgs, SendCall
    <3>2. phase' = MarkRunning(phase) /\ phase # "POISONED"
      BY <1>12, <2>3 DEF UtilityRpc, SetPhase, Send
    <3>3. LastOp \notin CleanupOps
      BY <1>0, <1>12, <2>3 DEF UtilityRpc, Idle, NoCall, StageOK, CleanupOps
    <3>4. phase' \in WorkPhases
      BY <1>0, <2>3, <3>2, <3>3, Marks DEF StagePhase, CleanupOps
    <3> QED BY <3>1, <3>4 DEF StagePhase, CleanupOps
  <2>4. CASE active = 0
    BY <2>1, <2>4 DEF StagePhase
  <2> QED BY <1>12, <2>2, <2>3, <2>4 DEF UtilityRpc
<1>13. CASE MonitorThread
  BY <1>0, <1>13, StageFrame
  DEF MonitorThread, MonitorDetect, MonitorPoison, MonitorNotify, Shutdown, coordVars, Poison
<1>14. CASE \E q \in Requests : Admit(q)
  BY <1>0, <1>14 DEF Admit, AdmissionState, CoordOK, StagePhase
<1>15. CASE \E r \in Ranks : ReceiveReply(r)
  <2>1. active' = active /\ rpcs' = rpcs /\ phase' \in {phase, "POISONED"}
    BY <1>15 DEF ReceiveReply, TakeReply, Poison
  <2> QED BY <1>0, <2>1, StageFrame
<1>16. CASE \E r \in Ranks : CrashWorker(r) \/ HangWorker(r)
  BY <1>0, <1>16, StageFrame DEF CrashWorker, HangWorker, rankRest, coordVars
<1>17. CASE \E r \in Ranks : Worker(r)
  BY <1>0, <1>17, StageFrame
  DEF Worker, WorkerData, WorkerBare, WorkerPrepare, WorkerCommit, WorkerFence, rankRest, coordVars
<1> QED
  BY <1>1, <1>2, <1>3, <1>4, <1>5, <1>6, <1>7, <1>8, <1>9, <1>10, <1>11, <1>12, <1>13,
     <1>14, <1>15, <1>16, <1>17
  DEF Next, EngineThread, Clients, Faults

\* A step that neither sends, reads nor answers keeps what a rank is waited for; the
\* rank may go down.
LEMMA AwaitFrame ==
  ASSUME NEW r \in Ranks, AwaitOK(r), UNCHANGED <<rpcs, cur, resp>>,
         alive'[r] = alive[r] \/ alive'[r] # "up",
         call' = call \/ call'.await = {}
  PROVE  AwaitOK(r)'
  BY DEF AwaitOK

\* A message that was just sent is unread.
LEMMA AwaitSend ==
  ASSUME IInv, NEW r \in Ranks, cur' = cur,
         NEW op \in Ops, NEW gen \in Nat, NEW waits \in SUBSET Ranks,
         NEW req \in Requests \cup {NoRequest}, NEW fin \in SUBSET Requests,
         Send(op, gen, waits, req, fin), op \in StepOps => waits = {OutputRank}
  PROVE  AwaitOK(r)'
<1>1. TypeOK /\ cur[r] \in Nat /\ Len(rpcs) \in Nat /\ cur[r] <= Len(rpcs)
  BY LenType DEF IInv, RankOK
<1>2. Len(rpcs') = Len(rpcs) + 1
  BY <1>1, SendType
<1>3. call'.op = op /\ call'.await = waits
  BY <1>1, SendCall
<1> QED BY <1>1, <1>2, <1>3 DEF AwaitOK

\* A request-scoped RPC, dispatched or refused.
LEMMA AwaitStepRpc ==
  ASSUME IInv, NEW r \in Ranks, AwaitOK(r), UNCHANGED <<cur, resp, alive>>,
         NEW op \in StepOps, NEW fin \in SUBSET Requests, StepRpc(op, fin)
  PROVE  AwaitOK(r)'
<1>1. TypeOK /\ CoordOK
  BY DEF IInv
<1>2. CASE call' = NoCall /\ rpcs' = rpcs
  BY <1>2, AwaitFrame DEF NoCall
<1>3. CASE Send(op, active, {OutputRank}, owner, fin)
  BY <1>1, <1>3, SendArgs, AwaitSend DEF StepOps
<1> QED BY <1>1, <1>2, <1>3, StepRpcCall

\* Reading a reply: the one to the outstanding call is taken, or the call raises.
LEMMA AwaitReceive ==
  ASSUME AwaitInv, NEW r \in Ranks, NEW s \in Ranks, ReceiveReply(s)
  PROVE  AwaitOK(r)'
<1>0. TypeOK /\ CallOK /\ StagePhase /\ AwaitOK(r) /\ AwaitOK(s)
  BY DEF AwaitInv, OwnerInv, IInv
<1> DEFINE m == Head(resp[s])
<1>1. /\ UNCHANGED <<rpcs, cur, alive>> /\ s \in call.await
      /\ resp[s] # <<>> /\ resp' = [resp EXCEPT ![s] = Tail(@)]
  BY DEF ReceiveReply, rankVars
<1>2. /\ m = resp[s][1] /\ Len(resp'[s]) = Len(resp[s]) - 1
      /\ \A k \in 1 .. Len(resp'[s]) : resp'[s][k] = resp[s][k + 1]
      /\ r # s => resp'[r] = resp[r]
  BY <1>0, <1>1, ReceiveType
<1>3. Len(resp[s]) \in Nat
  BY <1>0, LenType
<1>4. CASE Raise
  BY <1>4 DEF Raise, NoCall, AwaitOK
<1>5. CASE TakeReply(s, m)
  <2>1. call'.op = call.op /\ call'.await = call.await \ {s}
    BY <1>0, <1>5, TakeCall
  <2> QED BY <1>0, <1>1, <1>2, <2>1 DEF AwaitOK
<1>6. CASE UNCHANGED call /\ ~Bare(call) /\ ~Accepts(m) /\ phase # "POISONED"
  <2>1. call.op \in Ops /\ call.id = Len(rpcs) /\ LastOp = call.op
    BY <1>0, <1>1 DEF AwaitOK, CallOK, LastOp
  <2>2. m.id # Len(rpcs)
    <3>1. CASE call.op \in ControlOps
      BY <1>6, <2>1, <3>1 DEF Accepts
    <3>2. CASE call.op \notin ControlOps
      <4>1. active # 0 /\ LastOp \notin CleanupOps
        BY <1>0, <1>6, <2>1, <3>2
        DEF CallOK, Bare, Ops, StepOps, ControlOps, FenceOps, CleanupOps
      <4>2. phase \in WorkPhases
        BY <1>0, <1>6, <4>1 DEF StagePhase, CleanupOps
      <4> QED BY <1>6, <2>1, <4>2 DEF Accepts
    <3> QED BY <3>1, <3>2
  <2>3. ASSUME NEW k \in 1 .. Len(resp[s]), resp[s][k].id = Len(rpcs)
        PROVE  \E j \in 1 .. Len(resp'[s]) : resp'[s][j].id = Len(rpcs)
    <3>1. k # 1
      BY <1>2, <2>2, <2>3
    <3>2. k - 1 \in 1 .. Len(resp'[s]) /\ (k - 1) + 1 = k
      BY <1>2, <1>3, <3>1
    <3> QED BY <1>2, <2>3, <3>2
  <2> HIDE DEF m
  <2>4. CASE r = s
    BY <1>0, <1>1, <1>6, <2>3, <2>4 DEF AwaitOK
  <2>5. CASE r # s
    BY <1>0, <1>1, <1>2, <1>6, <2>5 DEF AwaitOK
  <2> QED BY <2>4, <2>5
<1> QED BY <1>4, <1>5, <1>6 DEF ReceiveReply

\* Reading a message: the awaited one is answered, or the rank exits.
LEMMA AwaitWorker ==
  ASSUME AwaitInv, NEW r \in Ranks, NEW s \in Ranks, Worker(s)
  PROVE  AwaitOK(r)'
<1>0. TypeOK /\ CallOK /\ RInv(s) /\ AwaitOK(r) /\ AwaitOK(s)
  BY DEF AwaitInv, OwnerInv, IInv, RInv
<1>1. /\ HasRpc(s) /\ cur[s] + 1 \in 1 .. Len(rpcs) /\ cur'[s] = cur[s] + 1
      /\ UNCHANGED <<rpcs, call>>
      /\ \A t \in Ranks \ {s} : cur'[t] = cur[t] /\ resp'[t] = resp[t]
  BY <1>0, WorkerFrame
<1>2. cur[s] \in Nat /\ Len(rpcs) \in Nat
  BY <1>0, LenType
<1>3. alive' = alive \/ alive' = [alive EXCEPT ![s] = "dead"]
  BY DEF Worker, WorkerData, WorkerBare, WorkerPrepare, WorkerCommit, WorkerFence, rankRest
<1>4. \A t \in Ranks : alive'[t] = alive[t] \/ alive'[t] # "up"
  BY <1>0, <1>3 DEF TypeOK, RankType
<1>5. CASE r # s
  BY <1>0, <1>1, <1>4, <1>5 DEF AwaitOK
<1>6. CASE r = s /\ (s \notin call.await \/ cur'[s] < Len(rpcs))
  BY <1>0, <1>1, <1>6 DEF AwaitOK
<1>7. CASE r = s /\ s \in call.await /\ ~(cur'[s] < Len(rpcs))
  <2>1. /\ cur[s] + 1 = Len(rpcs) /\ call.op \in Ops /\ Rpc(s).op = call.op
        /\ call.op \in StepOps => s = OutputRank
    BY <1>0, <1>1, <1>2, <1>7 DEF AwaitOK, CallOK, Rpc
  <2>2. \/ \E ok \in BOOLEAN, done \in Nat, act \in Nat, quiet \in BOOLEAN :
             Reply(s, ok, done, act, quiet)
        \/ alive'[s] # "up"
    <3>1. CASE WorkerData(s)
      <4>1. Rpc(s).op = "utility" \/ s = OutputRank
        BY <2>1, <3>1 DEF WorkerData
      <4>2. Reply(s, TRUE, 0, 0, TRUE) \/ alive' = [alive EXCEPT ![s] = "dead"]
        BY <3>1, <4>1 DEF WorkerData
      <4> QED BY <1>0, <4>2 DEF TypeOK, RankType
    <3>2. CASE WorkerBare(s)
      BY <3>2 DEF WorkerBare
    <3>3. wDone[s] \in Nat /\ wActive[s] \in Nat
      BY <1>0 DEF TypeOK, RankType
    <3>4. CASE WorkerPrepare(s)
      <4>1. PICK pending \in BOOLEAN, swap \in BOOLEAN :
              Reply(s, wActive[s] = Rpc(s).gen, wDone[s],
                    IF holds[s] # {} \/ pending THEN wActive[s] ELSE 0,
                    ~(holds[s] # {} \/ pending) /\ ~swap)
        BY <3>4 DEF WorkerPrepare
      <4>2. /\ (wActive[s] = Rpc(s).gen) \in BOOLEAN
            /\ (~(holds[s] # {} \/ pending) /\ ~swap) \in BOOLEAN
        OBVIOUS
      <4>3. (IF holds[s] # {} \/ pending THEN wActive[s] ELSE 0) \in Nat
        BY <3>3
      <4> QED BY <3>3, <4>1, <4>2, <4>3
    <3>5. CASE WorkerCommit(s)
      <4>1. PICK ok \in BOOLEAN, quiet \in BOOLEAN : Reply(s, ok, Rpc(s).gen, 0, quiet)
        BY <3>5 DEF WorkerCommit
      <4>2. Rpc(s).gen \in Nat
        BY <1>0, <1>1, RpcType DEF Rpcs
      <4> QED BY <4>1, <4>2
    <3>6. CASE WorkerFence(s)
      <4>1. PICK quiet \in BOOLEAN : Reply(s, TRUE, wDone[s], wActive[s], quiet)
        BY <3>6 DEF WorkerFence
      <4> QED BY <3>3, <4>1
    <3> QED BY <3>1, <3>2, <3>4, <3>5, <3>6 DEF Worker
  <2>3. CASE alive'[s] # "up"
    BY <1>0, <1>1, <1>7, <2>1, <2>3 DEF AwaitOK
  <2>4. ASSUME NEW ok \in BOOLEAN, NEW done \in Nat, NEW act \in Nat, NEW quiet \in BOOLEAN,
               Reply(s, ok, done, act, quiet)
        PROVE  AwaitOK(r)'
    <3>1. resp'[s][Len(resp'[s])].id = cur[s] + 1 /\ Len(resp'[s]) = Len(resp[s]) + 1
      BY <1>0, <1>1, <2>4, ReplyType
    <3>2. Len(resp'[s]) \in 1 .. Len(resp'[s])
      BY <1>0, <3>1, LenType
    <3> QED BY <1>1, <1>7, <2>1, <3>1, <3>2 DEF AwaitOK
  <2> QED BY <2>2, <2>3, <2>4
<1> QED BY <1>5, <1>6, <1>7

\* Every step keeps an answer for whoever is waited for; one case per action.
LEMMA AwaitNext ==
  ASSUME AwaitInv, [Next]_vars, NEW r \in Ranks
  PROVE  AwaitOK(r)'
<1>0. IInv /\ TypeOK /\ CoordOK /\ AwaitOK(r)
  BY DEF AwaitInv, OwnerInv, IInv
<1>1. CASE UNCHANGED vars
  BY <1>0, <1>1, AwaitFrame DEF vars, rankVars
<1>2. CASE CallTimeout \/ LateReply \/ AdmitRefused \/ Begin \/ EndCall \/ FinishStep
  BY <1>0, <1>2, AwaitFrame
  DEF CallTimeout, LateReply, CallFails, Raise, AdmitRefused, Begin, EndCall, FinishStep,
      NoCall, rankVars
<1>3. CASE Step
  <2>1. /\ StepRpc("execute", finished) /\ finished \in SUBSET Requests
        /\ UNCHANGED <<cur, resp, alive>>
    BY <1>0, <1>3, SendArgs DEF Step, rankVars
  <2> QED BY <1>0, <2>1, AwaitStepRpc DEF StepOps
<1>4. CASE SampleStep \/ DraftStep
  <2>1. PICK op \in {"sample", "draft"} : StepRpc(op, {}) /\ UNCHANGED <<cur, resp, alive>>
    BY <1>4 DEF SampleStep, DraftStep, rankVars
  <2> QED BY <1>0, <2>1, SendArgs, AwaitStepRpc DEF StepOps
<1>5. CASE FinalizeStep \/ PrepareDone \/ CommitDone
  <2>1. UNCHANGED <<cur, resp, alive>>
    BY <1>5 DEF FinalizeStep, PrepareDone, CommitDone, rankVars
  <2>2. CASE FailFinalize
    BY <1>0, <2>1, <2>2, AwaitFrame DEF FailFinalize, NoCall
  <2>3. ASSUME NEW op \in CleanupOps, Send(op, active, Ranks, owner, {})
        PROVE  AwaitOK(r)'
    <3>1. op \in Ops /\ op \notin StepOps
      BY DEF CleanupOps, Ops, StepOps, ControlOps, FenceOps
    <3> QED BY <1>0, <2>1, <2>3, <3>1, SendArgs, AwaitSend
  <2> QED BY <1>5, <2>2, <2>3 DEF FinalizeStep, PrepareDone, CommitDone, NextControl, CleanupOps
<1>6. CASE BaselineDone
  BY <1>0, <1>6, AwaitFrame DEF BaselineDone, FailFinalize, NoCall, rankVars
<1>7. CASE ExecutorFailed \/ Abort
  BY <1>0, <1>7, AwaitFrame DEF ExecutorFailed, Abort, rankVars
<1>8. CASE UtilityRpc
  <2>1. UNCHANGED <<cur, resp, alive>>
    BY <1>8 DEF UtilityRpc, rankVars
  <2>2. CASE UNCHANGED <<call, rpcs>>
    BY <1>0, <2>1, <2>2, AwaitFrame
  <2>3. CASE Send("utility", active, Ranks, NoRequest, {})
    BY <1>0, <2>1, <2>3, SendArgs, AwaitSend DEF StepOps
  <2> QED BY <1>8, <2>2, <2>3 DEF UtilityRpc
<1>9. CASE MonitorThread
  BY <1>0, <1>9, AwaitFrame
  DEF MonitorThread, MonitorDetect, MonitorPoison, MonitorNotify, Shutdown, rankVars
<1>10. CASE \E q \in Requests : Admit(q)
  <2>1. PICK q \in Requests : Admit(q)
    BY <1>10
  <2>2. UNCHANGED <<cur, resp, alive>>
    BY <2>1 DEF Admit, rankVars
  <2>3. CASE UNCHANGED <<call, rpcs>>
    BY <1>0, <2>2, <2>3, AwaitFrame
  <2>4. CASE Send("admission_fence", lastDone, Ranks, q, {})
    BY <1>0, <2>2, <2>4, SendArgs, AwaitSend DEF StepOps
  <2> QED BY <2>1, <2>3, <2>4 DEF Admit
<1>11. CASE \E s \in Ranks : ReceiveReply(s)
  BY <1>11, AwaitReceive
<1>12. CASE \E s \in Ranks : CrashWorker(s) \/ HangWorker(s)
  <2>1. PICK s \in Ranks : CrashWorker(s) \/ HangWorker(s)
    BY <1>12
  <2>2. UNCHANGED <<rpcs, cur, resp, call>> /\ (alive'[r] = alive[r] \/ alive'[r] # "up")
    BY <1>0, <2>1 DEF CrashWorker, HangWorker, rankRest, TypeOK, RankType
  <2> QED BY <1>0, <2>2, AwaitFrame
<1>13. CASE \E s \in Ranks : Worker(s)
  BY <1>13, AwaitWorker
<1> QED
  BY <1>1, <1>2, <1>3, <1>4, <1>5, <1>6, <1>7, <1>8, <1>9, <1>10, <1>11, <1>12, <1>13
  DEF Next, EngineThread, Clients, Faults

\* A rank will not answer any more, and the call ends all the same: by its deadline,
\* or by the monitor thread, which has still to close the executor.
Ends(r) ==
  \/ alive[r] # "up" /\ (HasDeadline \/ monitor = "closed")
  \/ alive[r] = "dead" /\ monitor # "closed"

\* With a generation open somebody can always move: the scheduler has its request,
\* the outstanding call is complete, or an awaited rank has a reply to collect, a
\* message to read, or a failure that ends the call.  The exception is that of
\* GenerationEnds, whose safety half this is.
NotWedged ==
  engine = "up" /\ active # 0 =>
    \/ call = NoCall /\ scheduled \cup finished # {}
    \/ call.op # "none" /\ call.await = {}
    \/ call.await # {} /\ \A r \in call.await : resp[r] # <<>> \/ HasRpc(r) \/ Ends(r)
    \/ Unbounded

\* AwaitInv is an invariant of the lifecycle.
THEOREM AwaitInvariant == Spec => []AwaitInv
<1>1. Init => AwaitInv
  BY IInvInit, OwnerInit, AwaitInit DEF AwaitInv, OwnerInv
<1>2. AwaitInv /\ [Next]_vars => AwaitInv'
  BY IInvNext, OwnerNext, StagePhaseNext, AwaitNext DEF AwaitInv, OwnerInv
<1> QED BY <1>1, <1>2, PTL DEF Spec

\* An open generation never waits for what cannot come.
THEOREM NeverWedged == Spec => []NotWedged
<1>1. AwaitInv => NotWedged
  <2> SUFFICES ASSUME AwaitInv, engine = "up", active # 0
      PROVE  \/ call = NoCall /\ scheduled \cup finished # {}
             \/ call.op # "none" /\ call.await = {}
             \/ call.await # {} /\ \A r \in call.await : resp[r] # <<>> \/ HasRpc(r) \/ Ends(r)
             \/ Unbounded
    BY DEF NotWedged
  <2>0. TypeOK /\ CallOK /\ CoordOK /\ OwnerOK
    BY DEF AwaitInv, OwnerInv, IInv
  <2>1. CASE call.op = "none"
    BY <2>0, <2>1 DEF OwnerOK, CallOK, Finalizing, Held, CleanupOps, NoCall
  <2>2. CASE call.op # "none" /\ call.await = {}
    BY <2>2
  <2>3. CASE call.await # {} /\ ~Unbounded
    <3>1. ASSUME NEW r \in call.await
          PROVE  resp[r] # <<>> \/ HasRpc(r) \/ Ends(r)
      <4>1. r \in Ranks /\ AwaitOK(r) /\ alive[r] \in {"up", "hung", "dead"}
        BY <2>0, <3>1 DEF AwaitInv, TypeOK, LinkType, Calls, RankType
      <4>2. CASE alive[r] = "up"
        BY <3>1, <4>1, <4>2, LenType DEF AwaitOK, HasRpc
      <4>3. CASE alive[r] = "hung"
        <5>1. call.timed \/ resp[r] # <<>>
          BY <2>3, <3>1, <4>3 DEF Unbounded
        <5> QED BY <4>3, <5>1 DEF Ends, HasDeadline
      <4>4. CASE alive[r] = "dead"
        BY <4>4 DEF Ends
      <4> QED BY <4>1, <4>2, <4>3, <4>4
    <3> QED BY <2>3, <3>1
  <2> QED BY <2>1, <2>2, <2>3
<1> QED BY <1>1, AwaitInvariant, PTL

-------------------------------------------------------------------------------
(* The steps of a healthy group                                                *)

\* What holds of a state in which nothing has failed.
Healthy == HealthInv /\ faults = 0

\* Nothing of the group's health changes.
Keeps == UNCHANGED <<recovery, engine, monitor, alive>>

\* Nothing is sent or read; a call without an outstanding reply may end.
Pause ==
  /\ UNCHANGED <<active, owner, lastDone, owned, rpcs, resp, rankVars>>
  /\ phase' = phase \/ (phase \in WorkPhases /\ phase' \in WorkPhases)
  /\ \/ call' = call
     \/ /\ call.await = {} /\ ~Finalizing
        /\ call' \in {NoCall, [NoCall EXCEPT !.op = "post_step"]}

\* One message is sent, and nothing is outstanding.
Ask(op, gen, req, fin) ==
  /\ Send(op, gen, IF op \in StepOps THEN {OutputRank} ELSE Ranks, req, fin)
  /\ UNCHANGED <<active, owner, lastDone, resp, rankVars>>
  /\ call.await = {}
  /\ IF op = "admission_fence" THEN active = 0 ELSE gen = active
  /\ fin # {} => op = "execute" /\ fin = {owner} /\ scheduled = {}
  /\ Finalizing <=> op = "prepare"
  /\ active # 0 =>
       CASE op = "prepare"        -> phase' = "QUIESCING"
         [] op = "commit"         -> phase' = "PREPARED"
         [] op = "baseline_fence" -> phase' = "BASELINE_VERIFY"
         [] OTHER                 -> phase' \in WorkPhases
  /\ owned' \subseteq owned \cup (IF op \in ControlOps THEN {} ELSE {NextRpc})
  /\ op = "prepare" => owned' = {}

\* The generation is opened, and the call that fenced the ranks ends.
Open ==
  /\ UNCHANGED <<lastDone, rpcs, resp, rankVars>>
  /\ call.op = "admission_fence" /\ call.await = {} /\ call' = NoCall
  /\ active = 0 /\ active' # 0 /\ phase' \in WorkPhases
  /\ owned' = owned \cup {0}

\* The generation is closed.
Close ==
  /\ UNCHANGED <<owned, rpcs, resp, rankVars>>
  /\ call.op = "baseline_fence" /\ call.await = {} /\ call' = NoCall
  /\ active' = 0

\* A reply is taken.
Take(r) ==
  /\ TakeReply(r, Head(resp[r]))
  /\ r \in call.await /\ resp[r] # <<>>
  /\ resp' = [resp EXCEPT ![r] = Tail(@)]
  /\ UNCHANGED <<active, owner, lastDone, rpcs, rankVars>>

\* A rank reads a message and goes on.
Work(r) ==
  /\ Worker(r)
  /\ UNCHANGED <<phase, active, owner, lastDone, owned, rpcs, call>>

HealthyKinds ==
  /\ Keeps
  /\ \/ Pause
     \/ \E op \in Ops, gen \in Nat, req \in Requests \cup {NoRequest},
           fin \in SUBSET Requests : Ask(op, gen, req, fin)
     \/ Open
     \/ Close
     \/ \E r \in Ranks : Take(r) \/ Work(r)

\* What the invariant says of a healthy state, put together.
LEMMA HealthyState ==
  ASSUME Healthy
  PROVE  /\ TypeOK /\ CoordOK /\ CallOK /\ StageOK /\ OwnerOK
         /\ GroupUp /\ PhaseOK /\ RecordsOK /\ FinalOK
         /\ \A r \in Ranks : RInv(r) /\ HoldsOK(r) /\ AnswerOK(r)
         /\ ~isFailed /\ phase # "POISONED"
         /\ active = 0 => AdmissionState = "ready"
         /\ call.op \in Ops => LastOp = call.op
         /\ active # 0 /\ call.op \notin CleanupOps =>
              LastOp \notin CleanupOps /\ phase \in WorkPhases
<1>1. /\ TypeOK /\ CoordOK /\ CallOK /\ StageOK /\ OwnerOK
      /\ GroupUp /\ PhaseOK /\ RecordsOK /\ FinalOK
      /\ \A r \in Ranks : RInv(r) /\ HoldsOK(r) /\ AnswerOK(r)
  BY DEF Healthy, HealthInv, HealthOK, OwnerInv, IInv, RInv
<1>2. ~isFailed /\ phase # "POISONED"
  BY <1>1 DEF GroupUp, CoordOK, isFailed
<1>3. active = 0 => AdmissionState = "ready"
  BY <1>1, <1>2 DEF GroupUp, CoordOK, AdmissionState, CanAccept
<1>4. call.op \in Ops => LastOp = call.op
  BY <1>1 DEF CallOK, LastOp
<1>5. active # 0 /\ call.op \notin CleanupOps => LastOp \notin CleanupOps
  BY <1>1 DEF StageOK, GroupUp
<1>6. active # 0 /\ LastOp \notin CleanupOps => phase \in WorkPhases
  BY <1>1 DEF PhaseOK, CleanupOps
<1> QED BY <1>1, <1>2, <1>3, <1>4, <1>5, <1>6

\* A phase write of a healthy group is only that.
LEMMA HealthySetPhase ==
  ASSUME Healthy, NEW p, SetPhase(p)
  PROVE  phase' = p /\ UNCHANGED <<recovery, monitor>>
  BY HealthyState DEF GroupUp, SetPhase

\* The request, while the generation runs: in the scheduler or in the next output.
LEMMA HealthyHeld ==
  ASSUME Healthy, active # 0
  PROVE  /\ scheduled = {} \/ scheduled = {owner}
         /\ call.op \notin CleanupOps /\ ~Finalizing /\ finished # {} =>
              finished = {owner} /\ scheduled = {}
         /\ Finalizing => scheduled = {}
<1>1. call.op \in CleanupOps => scheduled = {}
  BY HealthyState DEF StageOK, CleanupOps, Ops, ControlOps, FenceOps
<1> QED BY <1>1, HealthyState DEF OwnerOK, Held, GroupUp

\* A request-scoped RPC of a healthy group is sent.
LEMMA HealthyStepRpc ==
  ASSUME Healthy, active # 0, call.op \notin CleanupOps, ~Finalizing, call.await = {},
         NEW op \in StepOps, NEW fin \in SUBSET Requests, StepRpc(op, fin),
         fin # {} => op = "execute" /\ fin = {owner} /\ scheduled = {},
         UNCHANGED <<active, owner, lastDone, resp, rankVars>>
  PROVE  Keeps /\ op \in Ops /\ active \in Nat /\ Ask(op, active, owner, fin)
<1>1. phase \in WorkPhases /\ ~isFailed
  BY HealthyState
<1>2. /\ SetPhase(MarkRunning(phase)) /\ UNCHANGED engine
      /\ Send(op, active, {OutputRank}, owner, fin)
      /\ owned' = owned \cup {NextRpc}
  BY <1>1 DEF StepRpc, StepRpcRefused
<1>3. phase' \in WorkPhases /\ UNCHANGED <<recovery, monitor>>
  BY <1>1, <1>2, HealthySetPhase DEF MarkRunning, WorkPhases
<1>4. op \in Ops /\ active \in Nat
  BY HealthyState, SendArgs DEF StepOps
<1> QED BY <1>2, <1>3, <1>4 DEF Keeps, Ask, rankVars, StepOps, ControlOps, FenceOps

\* The first reply in a healthy queue is one the outstanding call takes.
LEMMA HealthyReply ==
  ASSUME Healthy, NEW r \in Ranks, ReceiveReply(r)
  PROVE  Good(Head(resp[r])) /\ TakeReply(r, Head(resp[r]))
<1> DEFINE m == Head(resp[r])
<1>1. resp[r] # <<>> /\ m = resp[r][1]
  BY HealthyState, ReceiveType DEF ReceiveReply
<1>2. Good(m) /\ call.op \in Ops
  BY <1>1, HealthyState DEF AnswerOK
<1> HIDE DEF m
<1>3. Bare(m) <=> Bare(call)
  BY <1>2 DEF Good, Bare
<1>4. ~Bare(call) => Accepts(m)
  <2>1. call.op \notin ControlOps /\ ~Bare(call) => active # 0 /\ call.op \notin CleanupOps
    BY <1>2, HealthyState
    DEF CallOK, Bare, Ops, StepOps, ControlOps, FenceOps, CleanupOps
  <2> QED BY <1>2, <2>1, HealthyState DEF Good, Accepts
<1>5. m.ok
  BY <1>2 DEF Good
<1>6. TakeReply(r, m)
  BY <1>3, <1>4, <1>5 DEF ReceiveReply, m
<1> QED BY <1>2, <1>6 DEF m

\* A worker of a healthy group runs what it reads.
LEMMA HealthyRun ==
  ASSUME Healthy, NEW r \in Ranks, WorkerData(r)
  PROVE  MayRun(r, Rpc(r).gen)
<1>1. /\ active # 0 /\ Rpc(r).gen = active /\ Rpc(r).op \in StepOps \cup {"utility"}
      /\ LastOp \notin {"commit", "baseline_fence"}
  BY HealthyState, NextMessage DEF WorkerData, Bare, FenceOps, StepOps, CleanupOps
<1>2. active = lastDone + 1
  BY <1>1, HealthyState DEF CoordOK
<1>3. LastOp = "prepare" => cur[r] + 1 # Len(rpcs)
  BY <1>1, HealthyState, RpcType DEF LastOp, Rpc, StepOps, WorkerData
<1>4. wDone[r] = lastDone /\ (Out(r) \/ (wActive[r] = active /\ wPhase[r] = "RUNNING"))
  BY <1>1, <1>3, HealthyState, LenType DEF RInv, RankOK, WorkerData, HasRpc
<1> QED BY <1>1, <1>2, <1>4 DEF MayRun, Out

\* What a step of a healthy group does that does not break it.
LEMMA HealthyStep ==
  ASSUME Healthy, [Next]_vars, faults' = 0
  PROVE  HealthyKinds
<1>0. /\ TypeOK /\ CoordOK /\ CallOK /\ StageOK /\ OwnerOK
      /\ GroupUp /\ PhaseOK /\ RecordsOK /\ FinalOK
      /\ ~isFailed /\ phase # "POISONED" /\ faults = 0
      /\ engine = "up" /\ monitor = "watching" /\ call.clean
      /\ \A r \in Ranks : alive[r] = "up"
  BY HealthyState DEF GroupUp, Healthy
<1>00. ~Fault
  BY <1>0 DEF Fault
<1>1. CASE UNCHANGED vars
  BY <1>1 DEF vars, coordVars, engineVars, rankVars, HealthyKinds, Keeps, Pause
<1>2. CASE CallTimeout \/ LateReply
  <2>1. call.await \subseteq Ranks
    BY <1>0 DEF TypeOK, LinkType, Calls
  <2> QED BY <1>0, <1>00, <1>2, <2>1 DEF CallTimeout, LateReply
<1>3. CASE AdmitRefused
  <2>1. active = 0
    BY <1>0, <1>3 DEF AdmitRefused, Completed, CallOK, Ops, ControlOps, FenceOps
  <2> QED BY <1>0, <1>3, <2>1, HealthyState DEF AdmitRefused
<1>4. CASE Begin
  <2>1. active = 0 /\ active' # 0
    BY <1>0, <1>4
    DEF Begin, Completed, CallOK, Ops, ControlOps, FenceOps, TypeOK, CoordType
  <2>2. SetPhase("BEGIN") /\ UNCHANGED engine
    BY <1>00, <1>4 DEF Begin
  <2>3. phase' = "BEGIN" /\ Keeps
    BY <1>4, <2>2, HealthySetPhase DEF Begin, rankVars, Keeps
  <2>4. Open
    BY <1>4, <2>1, <2>3 DEF Begin, Completed, Open, WorkPhases
  <2> QED BY <2>3, <2>4 DEF HealthyKinds
<1>5. CASE Step
  <2>1. /\ call.op \notin CleanupOps /\ ~Finalizing /\ call.await = {}
        /\ StepRpc("execute", finished) /\ finished \in SUBSET Requests
        /\ UNCHANGED <<active, owner, lastDone, resp, rankVars>>
    BY <1>0, <1>5, SendArgs DEF Step, Idle, NoCall, CleanupOps, Finalizing
  <2>2. active # 0
    BY <1>0, <1>5 DEF Step, StageOK
  <2>3. finished # {} => finished = {owner} /\ scheduled = {}
    BY <2>1, <2>2, HealthyHeld
  <2>4. Keeps /\ "execute" \in Ops /\ active \in Nat /\ Ask("execute", active, owner, finished)
    BY <2>1, <2>2, <2>3, HealthyStepRpc DEF StepOps
  <2> QED BY <1>0, <2>1, <2>4, SendArgs DEF HealthyKinds
<1>6. CASE SampleStep \/ DraftStep
  <2>1. PICK op \in {"sample", "draft"} : StepRpc(op, {})
    BY <1>6 DEF SampleStep, DraftStep
  <2>2. /\ call.op \notin CleanupOps /\ ~Finalizing /\ call.await = {} /\ active # 0
        /\ UNCHANGED <<active, owner, lastDone, resp, rankVars>>
    BY <1>0, <1>6
    DEF SampleStep, DraftStep, Completed, CleanupOps, Finalizing, CallOK, Ops, StepOps
  <2>3. Keeps /\ op \in Ops /\ active \in Nat /\ Ask(op, active, owner, {})
    BY <2>1, <2>2, HealthyStepRpc DEF StepOps
  <2> QED BY <1>0, <2>3, SendArgs DEF HealthyKinds
<1>7. CASE FinishStep
  <2>1. active # 0 /\ call.op = "sample" /\ call.await = {}
    BY <1>0, <1>7 DEF FinishStep, Completed, CallOK, Ops, StepOps
  <2>2. phase \in WorkPhases
    BY <2>1, HealthyState DEF CleanupOps
  <2>3. phase' \in WorkPhases /\ UNCHANGED <<recovery, monitor>>
    <3>1. CASE UNCHANGED <<phase, recovery, monitor>>
      BY <2>2, <3>1
    <3>2. CASE \E p \in {phase, MarkCompleting(phase), MarkAborting(phase)} : SetPhase(p)
      BY <2>2, <3>2, HealthySetPhase DEF MarkCompleting, MarkAborting, MarkRunning, WorkPhases
    <3> QED BY <1>7, <3>1, <3>2 DEF FinishStep
  <2>4. UNCHANGED <<active, owner, lastDone, owned, rpcs, resp, rankVars, engine>>
    BY <1>7 DEF FinishStep
  <2>5. call' \in {NoCall, [NoCall EXCEPT !.op = "post_step"]}
    BY <1>7 DEF FinishStep
  <2>6. Pause /\ Keeps
    BY <2>1, <2>2, <2>3, <2>4, <2>5 DEF Pause, Keeps, rankVars, Finalizing
  <2> QED BY <2>6 DEF HealthyKinds
<1>8. CASE EndCall
  BY <1>8 DEF EndCall, Completed, coordVars, engineVars, rankVars, HealthyKinds, Keeps, Pause, Finalizing
<1>9. CASE FinalizeStep
  <2>1. Finalizing /\ call.await = {} /\ active # 0 /\ LastOp = "execute" /\ call.op = "execute"
    BY <1>0, <1>9, HealthyState DEF FinalizeStep, Completed, Finalizing, CallOK, Ops, StepOps
  <2>2. scheduled = {} /\ phase \in WorkPhases /\ owned \subseteq {0}
    BY <1>0, <2>1, HealthyHeld, HealthyState DEF RecordsOK, CleanupOps
  <2>3. MarkCompleting(phase) \in {"COMPLETING", "ABORTING"}
    BY <2>2 DEF MarkCompleting, MarkRunning, WorkPhases
  <2>4. NextControl("QUIESCING", "prepare") /\ owned' = {}
    BY <1>0, <1>9, <2>2, <2>3 DEF FinalizeStep
  <2>5. UNCHANGED <<active, owner, lastDone, resp, rankVars, monitor>>
    BY <1>9 DEF FinalizeStep
  <2>6. Ask("prepare", active, owner, {}) /\ Keeps
    BY <2>1, <2>4, <2>5 DEF NextControl, Ask, Keeps, rankVars, StepOps, ControlOps
  <2> QED BY <1>0, <2>6, SendArgs DEF HealthyKinds
<1>10. CASE PrepareDone
  <2>1. ~Finalizing /\ call.await = {} /\ active # 0 /\ LastOp = "prepare"
    BY <1>0, <1>10, HealthyState DEF PrepareDone, Completed, Finalizing, CallOK, Ops, ControlOps, CleanupOps
  <2>2. owned = {} /\ phase = "QUIESCING"
    BY <1>0, <2>1 DEF RecordsOK, PhaseOK
  <2>3. NextControl("PREPARED", "commit")
    BY <1>0, <1>10, <2>2 DEF PrepareDone
  <2>4. UNCHANGED <<active, owner, lastDone, owned, resp, rankVars, monitor>>
    BY <1>10 DEF PrepareDone
  <2>5. Ask("commit", active, owner, {}) /\ Keeps
    BY <2>1, <2>3, <2>4 DEF NextControl, Ask, Keeps, rankVars, StepOps, ControlOps
  <2> QED BY <1>0, <2>5, SendArgs DEF HealthyKinds
<1>11. CASE CommitDone
  <2>1. ~Finalizing /\ call.await = {} /\ active # 0 /\ LastOp = "commit"
    BY <1>0, <1>11, HealthyState DEF CommitDone, Completed, Finalizing, CallOK, Ops, ControlOps, CleanupOps
  <2>2. phase = "PREPARED"
    BY <1>0, <2>1 DEF PhaseOK
  <2>3. NextControl("BASELINE_VERIFY", "baseline_fence")
    BY <1>0, <1>11, <2>2 DEF CommitDone
  <2>4. UNCHANGED <<active, owner, lastDone, owned, resp, rankVars, monitor>>
    BY <1>11 DEF CommitDone
  <2>5. Ask("baseline_fence", active, owner, {}) /\ Keeps
    BY <2>1, <2>3, <2>4 DEF NextControl, Ask, Keeps, rankVars, StepOps, ControlOps, FenceOps
  <2> QED BY <1>0, <2>5, SendArgs DEF HealthyKinds
<1>12. CASE BaselineDone
  <2>1. active # 0 /\ LastOp = "baseline_fence" /\ call.await = {} /\ call.op = "baseline_fence"
    BY <1>0, <1>12, HealthyState DEF BaselineDone, Completed, CallOK, Ops, ControlOps, FenceOps, CleanupOps
  <2>2. phase = "BASELINE_VERIFY"
    BY <1>0, <2>1 DEF PhaseOK
  <2>3. SetPhase("CLEAN_COMPLETE") /\ active' = 0 /\ call' = NoCall /\ UNCHANGED <<engine, rpcs>>
    BY <1>0, <1>12, <2>2 DEF BaselineDone
  <2>4. Keeps
    BY <1>12, <2>3, HealthySetPhase DEF BaselineDone, Keeps, rankVars
  <2>5. Close
    BY <1>12, <2>1, <2>3 DEF BaselineDone, Close
  <2> QED BY <2>4, <2>5 DEF HealthyKinds
<1>13. CASE ExecutorFailed \/ MonitorThread
  BY <1>0, <1>13
  DEF ExecutorFailed, MonitorThread, MonitorDetect, MonitorPoison, MonitorNotify, Shutdown
<1>14. CASE Abort
  <2>1. active # 0 /\ call.op \notin CleanupOps
    BY <1>0, <1>14 DEF Abort, OwnerOK, Idle, NoCall, CleanupOps
  <2>2. phase \in WorkPhases
    BY <2>1, HealthyState
  <2>3. phase' \in WorkPhases /\ UNCHANGED <<recovery, monitor>>
    BY <1>14, <2>2, HealthySetPhase DEF Abort, MarkAborting, MarkRunning, WorkPhases
  <2>4. UNCHANGED <<active, owner, lastDone, owned, rpcs, resp, rankVars, engine, call>>
    BY <1>14 DEF Abort
  <2> QED BY <2>2, <2>3, <2>4 DEF HealthyKinds, Pause, Keeps, rankVars
<1>15. CASE UtilityRpc
  <2>1. /\ Send("utility", active, Ranks, NoRequest, {})
        /\ call.await = {} /\ ~Finalizing /\ call.op \notin CleanupOps
        /\ UNCHANGED <<active, owner, lastDone, resp, rankVars, engine>>
    BY <1>0, <1>15 DEF UtilityRpc, Idle, NoCall, Finalizing, engineVars, CleanupOps
  <2>2. CASE active = 0
    <3>1. UNCHANGED <<recovery, monitor, owned>>
      BY <1>0, <1>15, <2>2 DEF UtilityRpc
    <3>2. Ask("utility", active, NoRequest, {}) /\ Keeps
      BY <2>1, <2>2, <3>1 DEF Ask, Keeps, rankVars, StepOps, ControlOps
    <3> QED BY <1>0, <3>2, SendArgs DEF HealthyKinds
  <2>3. CASE active # 0
    <3>1. SetPhase(MarkRunning(phase)) /\ owned' = owned \cup {NextRpc}
      BY <1>0, <1>15, <2>3 DEF UtilityRpc
    <3>2. phase \in WorkPhases
      BY <2>1, <2>3, HealthyState
    <3>3. phase' \in WorkPhases /\ UNCHANGED <<recovery, monitor>>
      BY <3>1, <3>2, HealthySetPhase DEF MarkRunning, WorkPhases
    <3>4. Ask("utility", active, NoRequest, {}) /\ Keeps
      BY <2>1, <2>3, <3>1, <3>3 DEF Ask, Keeps, rankVars, StepOps, ControlOps, FenceOps
    <3> QED BY <1>0, <3>4, SendArgs DEF HealthyKinds
  <2> QED BY <2>2, <2>3
<1>16. CASE \E q \in Requests : Admit(q)
  <2>1. PICK q \in Requests : Admit(q)
    BY <1>16
  <2>2. active = 0 /\ call.await = {} /\ ~Finalizing
    BY <1>0, <2>1 DEF Admit, AdmissionState, CoordOK, Idle, NoCall, Finalizing
  <2>3. /\ Send("admission_fence", lastDone, Ranks, q, {})
        /\ UNCHANGED <<recovery, active, owner, lastDone, owned, engine, resp, rankVars, monitor>>
    BY <1>0, <2>1 DEF Admit
  <2>4. Ask("admission_fence", lastDone, q, {}) /\ Keeps
    BY <2>2, <2>3 DEF Ask, Keeps, rankVars, StepOps, ControlOps, FenceOps
  <2> QED BY <1>0, <2>4, SendArgs DEF HealthyKinds
<1>17. CASE \E r \in Ranks : ReceiveReply(r)
  <2>1. PICK r \in Ranks : ReceiveReply(r)
    BY <1>17
  <2>2. TakeReply(r, Head(resp[r]))
    BY <2>1, HealthyReply
  <2>3. Take(r) /\ Keeps
    BY <2>1, <2>2 DEF ReceiveReply, TakeReply, Take, Keeps, rankVars
  <2> QED BY <2>3 DEF HealthyKinds
<1>18. CASE \E r \in Ranks : CrashWorker(r) \/ HangWorker(r)
  BY <1>00, <1>18 DEF CrashWorker, HangWorker
<1>19. CASE \E r \in Ranks : Worker(r)
  <2>1. PICK r \in Ranks : Worker(r)
    BY <1>19
  <2>2. /\ UNCHANGED <<phase, active, owner, lastDone, owned, rpcs, call>>
        /\ UNCHANGED <<recovery, engine, monitor>>
    BY <2>1
    DEF Worker, WorkerData, WorkerBare, WorkerPrepare, WorkerCommit, WorkerFence, rankRest,
        coordVars, engineVars
  <2>3. UNCHANGED alive
    BY <2>1, HealthyRun
    DEF Worker, WorkerData, WorkerBare, WorkerPrepare, WorkerCommit, WorkerFence
  <2> QED BY <2>1, <2>2, <2>3 DEF HealthyKinds, Work, Keeps
<1> QED
  BY <1>1, <1>2, <1>3, <1>4, <1>5, <1>6, <1>7, <1>8, <1>9, <1>10, <1>11, <1>12, <1>13,
     <1>14, <1>15, <1>16, <1>17, <1>18, <1>19
  DEF Next, EngineThread, Clients, Faults

-------------------------------------------------------------------------------
(* A healthy group stays healthy, part by part                                 *)

\* What Ask leaves: the new message at the end of the log, and its call.
LEMMA AskSent ==
  ASSUME Healthy, NEW op \in Ops, NEW gen \in Nat, NEW req \in Requests \cup {NoRequest},
         NEW fin \in SUBSET Requests, Ask(op, gen, req, fin)
  PROVE  /\ call'.op = op /\ call'.gen = gen /\ call'.fin = fin /\ call'.clean
         /\ call'.await = IF op \in StepOps THEN {OutputRank} ELSE Ranks
         /\ call'.id = Len(rpcs) + 1 /\ LastOp' = op
         /\ Len(rpcs) \in Nat /\ Len(rpcs') = Len(rpcs) + 1
         /\ \A i \in 1 .. Len(rpcs) : rpcs'[i] = rpcs[i]
         /\ rpcs'[Len(rpcs) + 1] = [op |-> op, gen |-> gen, fin |-> fin, add |-> scheduled]
<1> DEFINE waits == IF op \in StepOps THEN {OutputRank} ELSE Ranks
<1>1. TypeOK /\ waits \in SUBSET Ranks /\ Send(op, gen, waits, req, fin)
  BY HealthyState, RanksAssumption DEF Ask
<1> HIDE DEF waits
<1>2. Len(rpcs) \in Nat
  BY <1>1 DEF TypeOK, LinkType
<1>3. /\ Len(rpcs') = Len(rpcs) + 1
      /\ \A i \in 1 .. Len(rpcs) : rpcs'[i] = rpcs[i]
      /\ rpcs'[Len(rpcs) + 1] = [op |-> op, gen |-> gen, fin |-> fin, add |-> scheduled]
  BY <1>1, SendType
<1>4. /\ call'.op = op /\ call'.gen = gen /\ call'.fin = fin /\ call'.clean
      /\ call'.await = waits /\ call'.id = Len(rpcs') /\ LastOp' = op
  BY <1>1, SendCall
<1> QED BY <1>2, <1>3, <1>4 DEF waits

\* Taking a reply leaves the call but for the rank it waited for.
LEMMA TakeKeeps ==
  ASSUME Healthy, NEW r \in Ranks, Take(r)
  PROVE  /\ call'.op = call.op /\ call'.id = call.id /\ call'.gen = call.gen
         /\ call'.fin = call.fin /\ call'.await = call.await \ {r} /\ call'.clean
         /\ phase' = phase /\ LastOp' = LastOp
         /\ resp'[r] = <<>> /\ \A s \in Ranks \ {r} : resp'[s] = resp[s]
         /\ cur[r] = Len(rpcs)
<1>1. TypeOK /\ AnswerOK(r) /\ call.clean
  BY HealthyState DEF GroupUp
<1>2. /\ resp[r] # <<>> /\ Len(resp[r]) = 1 /\ Good(resp[r][1]) /\ cur[r] = Len(rpcs)
  BY <1>1 DEF AnswerOK, Take
<1>3. /\ Head(resp[r]) = resp[r][1]
      /\ resp' \in [Ranks -> Seq(Replies)] /\ Len(resp'[r]) = Len(resp[r]) - 1
      /\ \A s \in Ranks \ {r} : resp'[s] = resp[s]
  BY <1>1, <1>2, ReceiveType DEF Take
<1>4. resp'[r] = <<>>
  <2>1. resp'[r] \in Seq(Replies)
    BY <1>3
  <2> QED BY <1>2, <1>3, <2>1
<1>5. /\ call'.op = call.op /\ call'.id = call.id /\ call'.gen = call.gen
      /\ call'.fin = call.fin /\ call'.await = call.await \ {r}
  BY <1>1, TakeCall DEF Take
<1>6. call'.clean
  <2>1. call.op \in ControlOps => CleanReply(Head(resp[r]))
    BY <1>2, <1>3 DEF Good
  <2>2. call.await \ {r} = call.await \ {r} /\ call \in Calls
    BY <1>1 DEF TypeOK, LinkType
  <2> QED BY <1>1, <2>1, <2>2 DEF Take, TakeReply, Calls
<1>7. phase' = phase /\ LastOp' = LastOp
  BY DEF Take, TakeReply, LastOp
<1> QED BY <1>2, <1>3, <1>4, <1>5, <1>6, <1>7

\* The health of the group, its phase and its records.
LEMMA GroupKept ==
  ASSUME Healthy, HealthyKinds
  PROVE  GroupUp' /\ PhaseOK' /\ RecordsOK'
<1>0. /\ TypeOK /\ CallOK /\ GroupUp /\ PhaseOK /\ RecordsOK
      /\ recovery' = "READY" /\ engine' = "up" /\ monitor' = "watching"
      /\ \A r \in Ranks : alive'[r] = "up"
  BY HealthyState DEF HealthyKinds, Keeps, GroupUp
<1>1. CASE Pause
  <2>1. LastOp' = LastOp /\ UNCHANGED <<active, owned>>
    BY <1>1 DEF Pause, LastOp
  <2>2. call'.clean
    BY <1>0, <1>1 DEF Pause, GroupUp, NoCall
  <2>3. PhaseOK'
    BY <1>0, <1>1, <2>1 DEF Pause, PhaseOK, WorkPhases
  <2>4. RecordsOK'
    BY <1>0, <1>1, <2>1 DEF Pause, RecordsOK, NoCall, ControlOps, FenceOps
  <2> QED BY <1>0, <2>2, <2>3, <2>4 DEF GroupUp
<1>2. ASSUME NEW op \in Ops, NEW gen \in Nat, NEW req \in Requests \cup {NoRequest},
             NEW fin \in SUBSET Requests, Ask(op, gen, req, fin)
      PROVE  GroupUp' /\ PhaseOK' /\ RecordsOK'
  <2>1. /\ call'.op = op /\ call'.clean /\ LastOp' = op /\ call'.id = Len(rpcs) + 1
        /\ call'.await = IF op \in StepOps THEN {OutputRank} ELSE Ranks
    BY <1>2, AskSent
  <2>2. call'.await # {}
    BY <2>1, RanksAssumption
  <2>3. owned \subseteq {0}
    BY <1>0, <1>2 DEF Ask, RecordsOK
  <2>4. PhaseOK'
    BY <1>2, <2>1 DEF Ask, PhaseOK
  <2>5. RecordsOK'
    BY <1>2, <2>1, <2>2, <2>3 DEF Ask, RecordsOK, NextRpc
  <2> QED BY <1>0, <2>1, <2>4, <2>5 DEF GroupUp
<1>3. CASE Open
  <2>1. LastOp' = "admission_fence"
    BY <1>3, HealthyState DEF Open, LastOp, Ops, ControlOps, FenceOps
  <2> QED BY <1>0, <1>3, <2>1 DEF Open, NoCall, GroupUp, PhaseOK, RecordsOK, WorkPhases, ControlOps, FenceOps
<1>4. CASE Close
  BY <1>0, <1>4 DEF Close, NoCall, GroupUp, PhaseOK, RecordsOK, ControlOps, FenceOps
<1>5. ASSUME NEW r \in Ranks, Take(r)
      PROVE  GroupUp' /\ PhaseOK' /\ RecordsOK'
  <2>1. /\ call'.op = call.op /\ call'.id = call.id /\ call'.await = call.await \ {r}
        /\ call'.clean /\ phase' = phase /\ LastOp' = LastOp /\ active' = active
    BY <1>5, TakeKeeps DEF Take
  <2>2. owned' = IF call.await = {r} THEN owned \ {call.id} ELSE owned
    BY <1>5 DEF Take, TakeReply
  <2>3. r \in call.await
    BY <1>5 DEF Take
  <2>4. RecordsOK'
    BY <1>0, <2>1, <2>2, <2>3 DEF RecordsOK
  <2> QED BY <1>0, <2>1, <2>4 DEF GroupUp, PhaseOK
<1>6. CASE \E r \in Ranks : Work(r)
  BY <1>0, <1>6 DEF Work, GroupUp, PhaseOK, RecordsOK, LastOp
<1> QED BY <1>1, <1>2, <1>3, <1>4, <1>5, <1>6 DEF HealthyKinds

\* The cleanup output is at the end of the log.
LEMMA FinalKept ==
  ASSUME Healthy, HealthyKinds
  PROVE  FinalOK'
<1>0. TypeOK /\ CallOK /\ FinalOK /\ Len(rpcs) \in Nat
  BY HealthyState DEF TypeOK, LinkType
<1>1. CASE Pause
  BY <1>0, <1>1 DEF Pause, FinalOK, Final, Finalizing, NoCall, LastOp
<1>2. ASSUME NEW op \in Ops, NEW gen \in Nat, NEW req \in Requests \cup {NoRequest},
             NEW fin \in SUBSET Requests, Ask(op, gen, req, fin)
      PROVE  FinalOK'
  <2>1. /\ call'.op = op /\ call'.fin = fin /\ LastOp' = op
        /\ Len(rpcs') = Len(rpcs) + 1 /\ \A i \in 1 .. Len(rpcs) : rpcs'[i] = rpcs[i]
        /\ rpcs'[Len(rpcs')] = [op |-> op, gen |-> gen, fin |-> fin, add |-> scheduled]
    BY <1>2, AskSent
  <2>2. /\ rpcs'[Len(rpcs')].op = op /\ rpcs'[Len(rpcs')].gen = gen
        /\ rpcs'[Len(rpcs')].fin = fin /\ rpcs'[Len(rpcs')].add = scheduled
    BY <2>1
  <2>3. active' # 0 /\ Finalizing' => Final(rpcs[Len(rpcs)])'
    BY <1>2, <2>1, <2>2 DEF Ask, Finalizing, Final
  <2>4. ASSUME active' # 0, op = "prepare"
        PROVE  Len(rpcs') > 1 /\ Final(rpcs[Len(rpcs) - 1])'
    <3>1. Finalizing /\ active' = active /\ owner' = owner
      BY <1>2, <2>4 DEF Ask
    <3>2. Len(rpcs) \in 1 .. Len(rpcs) /\ Final(rpcs[Len(rpcs)])
      <4>1. rpcs # <<>> /\ rpcs \in Seq(Rpcs)
        BY <1>0, <3>1 DEF Finalizing, CallOK, Ops, StepOps, TypeOK, LinkType
      <4> QED BY <1>0, <2>4, <3>1, <4>1 DEF FinalOK
    <3>3. rpcs'[Len(rpcs') - 1] = rpcs[Len(rpcs)]
      BY <1>0, <2>1, <3>2
    <3> QED BY <1>0, <2>1, <3>1, <3>2, <3>3 DEF Final
  <2> QED BY <2>1, <2>2, <2>3, <2>4 DEF FinalOK
<1>3. CASE Open
  <2>1. LastOp' = "admission_fence"
    BY <1>3, HealthyState DEF Open, LastOp, Ops, ControlOps, FenceOps
  <2> QED BY <1>3, <2>1 DEF Open, NoCall, FinalOK, Finalizing
<1>4. CASE Close
  BY <1>4 DEF Close, NoCall, FinalOK, Finalizing
<1>5. ASSUME NEW r \in Ranks, Take(r)
      PROVE  FinalOK'
  BY <1>0, <1>5, TakeKeeps DEF Take, FinalOK, Final, Finalizing
<1>6. CASE \E r \in Ranks : Work(r)
  BY <1>0, <1>6 DEF Work, FinalOK, Final, Finalizing, LastOp
<1> QED BY <1>1, <1>2, <1>3, <1>4, <1>5, <1>6 DEF HealthyKinds

\* Nobody is waited for: no reply is queued, and no unread message has one to come.
LEMMA NothingAwaited ==
  ASSUME Healthy, NEW r \in Ranks, call.await = {}
  PROVE  /\ resp[r] = <<>>
         /\ \A i \in (cur[r] + 1) .. Len(rpcs) : ~Answers(r, rpcs[i])
  BY HealthyState DEF AnswerOK

\* Between generations a fence that has every answer has been read by every rank.
LEMMA FenceRead ==
  ASSUME Healthy, NEW r \in Ranks, call.op \in ControlOps, call.await = {}
  PROVE  cur[r] = Len(rpcs)
  BY HealthyState DEF RInv, ProofOK

\* A rank that is not the one moving keeps what it holds and what it owes.
LEMMA WorkOther ==
  ASSUME Healthy, NEW r \in Ranks, NEW s \in Ranks \ {r}, Work(r)
  PROVE  HoldsOK(s)' /\ AnswerOK(s)'
<1>1. /\ UNCHANGED <<active, owner, rpcs, call>> /\ LastOp' = LastOp
      /\ cur'[s] = cur[s] /\ wActive'[s] = wActive[s] /\ holds'[s] = holds[s]
      /\ resp'[s] = resp[s]
  BY HealthyState, WorkerFrame DEF Work
<1>2. HoldsOK(s) /\ AnswerOK(s)
  BY HealthyState
<1>3. HoldsOK(s)'
  BY <1>1, <1>2 DEF HoldsOK, RanFinal, Finalizing
<1>4. AnswerOK(s)'
  BY <1>1, <1>2 DEF AnswerOK, Good, CleanReply
<1> QED BY <1>3, <1>4

\* Where the message that a rank reads stands, and what its unread messages keep.
LEMMA WorkRead ==
  ASSUME Healthy, NEW r \in Ranks, Work(r)
  PROVE  /\ HasRpc(r) /\ cur[r] + 1 \in 1 .. Len(rpcs) /\ cur[r] \in Nat
         /\ cur'[r] = cur[r] + 1
         /\ UNCHANGED <<active, owner, lastDone, rpcs, call>> /\ LastOp' = LastOp
         /\ Rpc(r) = rpcs[cur[r] + 1]
         /\ active # 0 => holds[r] \subseteq {owner} /\ Rpc(r).add \subseteq {owner}
         /\ Answers(r, Rpc(r)) =>
              cur[r] + 1 = Len(rpcs) /\ call.op \in Ops /\ r \in call.await
         /\ resp[r] = <<>>
<1>1. /\ HasRpc(r) /\ cur[r] + 1 \in 1 .. Len(rpcs)
      /\ UNCHANGED <<active, owner, lastDone, rpcs, call>> /\ LastOp' = LastOp
      /\ cur'[r] = cur[r] + 1
  BY HealthyState, WorkerFrame DEF Work
<1>2. cur[r] \in Nat /\ Len(rpcs) \in Nat
  BY HealthyState, LenType
<1>3. cur[r] + 1 \in (cur[r] + 1) .. Len(rpcs) /\ cur[r] # Len(rpcs)
  BY <1>1, <1>2
<1>4. HoldsOK(r) /\ AnswerOK(r) /\ Rpc(r) = rpcs[cur[r] + 1]
  BY HealthyState DEF Rpc
<1>5. active # 0 => holds[r] \subseteq {owner} /\ Rpc(r).add \subseteq {owner}
  BY <1>3, <1>4 DEF HoldsOK
<1>6. /\ Answers(r, Rpc(r)) =>
           cur[r] + 1 = Len(rpcs) /\ call.op \in Ops /\ r \in call.await
      /\ resp[r] = <<>>
  BY <1>3, <1>4 DEF AnswerOK
<1> QED BY <1>1, <1>2, <1>4, <1>5, <1>6

\* Reading without answering keeps what the rank owes.
LEMMA WorkSilent ==
  ASSUME Healthy, NEW r \in Ranks, Work(r), UNCHANGED resp
  PROVE  AnswerOK(r)'
<1>1. /\ cur[r] + 1 \in 1 .. Len(rpcs) /\ cur[r] \in Nat
      /\ cur'[r] = cur[r] + 1 /\ UNCHANGED <<rpcs, call>> /\ resp[r] = <<>>
  BY WorkRead
<1> QED BY <1>1, HealthyState DEF AnswerOK

\* So does reading with the answer that is waited for.
LEMMA WorkAnswers ==
  ASSUME Healthy, NEW r \in Ranks, Work(r), Answers(r, Rpc(r)),
         NEW done \in Nat, NEW act \in Nat, NEW quiet \in BOOLEAN,
         Reply(r, TRUE, done, act, quiet),
         Rpc(r).op \in ControlOps =>
           /\ quiet /\ act = 0 /\ done <= Rpc(r).gen
           /\ Rpc(r).op \in FenceOps => done = Rpc(r).gen
  PROVE  AnswerOK(r)'
<1> DEFINE m == [id |-> cur[r] + 1, op |-> Rpc(r).op, gen |-> Rpc(r).gen,
                 ok |-> TRUE, done |-> done, act |-> act, quiet |-> quiet]
<1>1. /\ cur[r] + 1 \in 1 .. Len(rpcs) /\ cur[r] \in Nat
      /\ cur'[r] = cur[r] + 1 /\ UNCHANGED <<rpcs, call>>
      /\ Rpc(r) = rpcs[cur[r] + 1] /\ resp[r] = <<>>
      /\ cur[r] + 1 = Len(rpcs) /\ call.op \in Ops /\ r \in call.await
  BY WorkRead
<1>2. call.id = Len(rpcs) /\ Rpc(r).op = call.op /\ Rpc(r).gen = call.gen
  BY <1>1, HealthyState DEF CallOK
<1>3. resp'[r] = <<m>>
  <2>1. resp \in [Ranks -> Seq(Replies)]
    BY HealthyState DEF TypeOK, LinkType
  <2>2. resp'[r] = Append(resp[r], m)
    BY <2>1 DEF Reply
  <2> QED BY <1>1, <2>2
<1>4. Len(resp'[r]) = 1 /\ resp'[r][1] = m
  BY <1>3
<1>5. /\ resp'[r][1].id = cur[r] + 1 /\ resp'[r][1].op = Rpc(r).op
      /\ resp'[r][1].gen = Rpc(r).gen /\ resp'[r][1].ok
      /\ resp'[r][1].done = done /\ resp'[r][1].act = act /\ resp'[r][1].quiet = quiet
  BY <1>4
<1> HIDE DEF m
<1>6. Good(resp[r][1])'
  BY <1>1, <1>2, <1>5 DEF Good, CleanReply
<1> QED BY <1>1, <1>4, <1>6 DEF AnswerOK

\* A rank that has read the cleanup output, and only then, has nothing left.
LEMMA WorkHolds ==
  ASSUME Healthy, NEW r \in Ranks, Work(r)
  PROVE  HoldsOK(r)'
<1>1. /\ HasRpc(r) /\ cur[r] + 1 \in 1 .. Len(rpcs) /\ cur[r] \in Nat
      /\ cur'[r] = cur[r] + 1
      /\ UNCHANGED <<active, owner, rpcs, call>> /\ LastOp' = LastOp
      /\ Rpc(r) = rpcs[cur[r] + 1]
      /\ active # 0 => holds[r] \subseteq {owner} /\ Rpc(r).add \subseteq {owner}
  BY WorkRead
<1>2. /\ TypeOK /\ StageOK /\ FinalOK /\ RInv(r) /\ HoldsOK(r)
      /\ call.op \in Ops => LastOp = call.op
  BY HealthyState
<1>3. /\ DOMAIN wActive = Ranks /\ DOMAIN holds = Ranks
  BY <1>2 DEF TypeOK, RankType
<1>4. \A i \in (cur'[r] + 1) .. Len(rpcs') :
         active' # 0 => rpcs'[i].add \subseteq {owner'}
  BY <1>1, <1>2 DEF HoldsOK
<1>5. active # 0 /\ RanFinal(r)' => Final(Rpc(r))
  <2>1. CASE Finalizing' /\ cur'[r] = Len(rpcs')
    BY <1>1, <1>2, <2>1 DEF FinalOK, Finalizing
  <2>2. CASE LastOp' = "prepare" /\ cur'[r] + 1 = Len(rpcs')
    <3>1. cur[r] + 1 = Len(rpcs) - 1
      BY <1>1, <2>2
    <3> QED BY <1>1, <1>2, <2>2, <3>1 DEF FinalOK
  <2> QED BY <2>1, <2>2 DEF RanFinal
<1>6. CASE WorkerData(r)
  <2>1. /\ wActive' = [wActive EXCEPT ![r] = Rpc(r).gen]
        /\ holds' = IF Rpc(r).op = "execute"
                    THEN [holds EXCEPT ![r] = (@ \ Rpc(r).fin) \cup Rpc(r).add]
                    ELSE holds
    BY <1>6, HealthyRun DEF WorkerData
  <2>2. /\ wActive'[r] = Rpc(r).gen
        /\ holds'[r] = IF Rpc(r).op = "execute"
                       THEN (holds[r] \ Rpc(r).fin) \cup Rpc(r).add ELSE holds[r]
    BY <1>3, <2>1
  <2>3. active # 0 => holds'[r] \subseteq {owner}
    BY <1>1, <2>2
  <2>4. active # 0 /\ Final(Rpc(r)) => wActive'[r] = active /\ holds'[r] = {}
    BY <1>1, <2>2 DEF Final
  <2> QED BY <1>1, <1>4, <1>5, <2>3, <2>4 DEF HoldsOK
<1>7. CASE ~WorkerData(r)
  <2>1. holds' = holds
    BY <1>7 DEF Work, Worker, WorkerBare, WorkerPrepare, WorkerCommit, WorkerFence
  <2>2. active # 0 => ~Final(Rpc(r))
    <3>1. WorkerBare(r) => active = 0
      BY <1>1, <1>2, NextMessage DEF WorkerBare, Bare
    <3>2. WorkerBare(r) \/ Rpc(r).op \in ControlOps
      BY <1>7 DEF Work, Worker, WorkerBare, WorkerPrepare, WorkerCommit, WorkerFence, ControlOps
    <3> QED BY <3>1, <3>2 DEF Final, ControlOps, FenceOps
  <2> QED BY <1>1, <1>4, <1>5, <2>1, <2>2 DEF HoldsOK
<1> QED BY <1>6, <1>7

\* Whatever a rank reads, it owes no reply but the one that is waited for.
LEMMA WorkOwes ==
  ASSUME Healthy, NEW r \in Ranks, Work(r), faults' = 0
  PROVE  AnswerOK(r)'
<1>1. /\ HasRpc(r) /\ cur[r] + 1 \in 1 .. Len(rpcs) /\ cur[r] \in Nat
      /\ Rpc(r) = rpcs[cur[r] + 1]
  BY WorkRead
<1>2. TypeOK /\ CoordOK /\ StageOK /\ RInv(r) /\ HoldsOK(r) /\ faults = 0
  BY HealthyState DEF Healthy
<1>3. ~Fault
  BY <1>2 DEF Fault
<1>4. wDone[r] \in Nat /\ wActive[r] \in Nat /\ Rpc(r).gen \in Nat /\ lastDone \in Nat
  BY <1>2, RpcType, <1>1 DEF TypeOK, CoordType, RankType, Rpcs
<1>5. CASE WorkerData(r)
  <2>1. \/ resp' = resp
        \/ Reply(r, TRUE, 0, 0, TRUE) /\ (Rpc(r).op = "utility" \/ r = OutputRank)
    BY <1>5, HealthyRun DEF WorkerData
  <2>2. Rpc(r).op \notin ControlOps
    BY <1>5 DEF WorkerData, StepOps, ControlOps, FenceOps
  <2>3. Rpc(r).op = "utility" \/ r = OutputRank => Answers(r, Rpc(r))
    BY DEF Answers, StepOps
  <2> QED BY <2>1, <2>2, <2>3, WorkSilent, WorkAnswers
<1>6. CASE WorkerBare(r)
  <2>1. Reply(r, TRUE, 0, 0, TRUE) /\ Answers(r, Rpc(r)) /\ Rpc(r).op \notin ControlOps
    BY <1>6 DEF WorkerBare, Bare, Answers, StepOps, ControlOps, FenceOps
  <2> QED BY <2>1, WorkAnswers
<1>7. CASE WorkerPrepare(r)
  <2>1. /\ active # 0 /\ Rpc(r).gen = active /\ cur[r] + 1 = Len(rpcs) /\ LastOp = "prepare"
        /\ Rpc(r).op = "prepare"
    BY <1>1, <1>2, <1>7, NextMessage DEF WorkerPrepare, FenceOps, CleanupOps
  <2>2. wActive[r] = active /\ holds[r] = {}
    BY <1>2, <2>1 DEF HoldsOK, RanFinal
  <2>3. Reply(r, TRUE, wDone[r], 0, TRUE)
    <3>1. PICK pending \in BOOLEAN, swap \in BOOLEAN :
            LET mine == wActive[r] = Rpc(r).gen
                busy == holds[r] # {} \/ pending
            IN
            /\ Unclean(pending \/ swap)
            /\ Reply(r, mine, wDone[r], IF busy THEN wActive[r] ELSE 0, ~busy /\ ~swap)
      BY <1>7 DEF WorkerPrepare
    <3>2. pending = FALSE /\ swap = FALSE
      BY <1>3, <3>1 DEF Unclean
    <3>3. (wActive[r] = Rpc(r).gen) = TRUE /\ (holds[r] # {} \/ pending) = FALSE
      BY <2>1, <2>2, <3>2
    <3> QED BY <3>1, <3>2, <3>3
  <2>4. wDone[r] = lastDone /\ active = lastDone + 1
    BY <1>2, <2>1 DEF RInv, RankOK, CoordOK
  <2>5. wDone[r] <= Rpc(r).gen
    BY <1>4, <2>1, <2>4
  <2>6. Answers(r, Rpc(r)) /\ Rpc(r).op \notin FenceOps
    BY <2>1 DEF Answers, StepOps, FenceOps
  <2> QED BY <1>4, <2>3, <2>5, <2>6, WorkAnswers
<1>8. CASE WorkerCommit(r)
  <2>1. /\ active # 0 /\ Rpc(r).gen = active /\ cur[r] + 1 = Len(rpcs) /\ LastOp = "commit"
        /\ Rpc(r).op = "commit"
    BY <1>1, <1>2, <1>8, NextMessage DEF WorkerCommit, FenceOps, CleanupOps
  <2>2. wActive[r] = active /\ wPhase[r] = "PREPARED" /\ holds[r] = {}
    BY <1>1, <1>2, <2>1, LenType DEF RInv, RankOK
  <2>3. Reply(r, TRUE, Rpc(r).gen, 0, TRUE)
    <3>1. PICK bad \in BOOLEAN :
            /\ Unclean(bad)
            /\ LET again == wPhase[r] = "CLEAN_COMPLETE" /\ wDone[r] = Rpc(r).gen
                   prepared == wActive[r] = Rpc(r).gen /\ wPhase[r] = "PREPARED"
               IN Reply(r, again \/ prepared, Rpc(r).gen, 0, holds[r] = {} /\ ~bad)
      BY <1>8 DEF WorkerCommit
    <3>2. bad = FALSE
      BY <1>3, <3>1 DEF Unclean
    <3>3. /\ (\/ wPhase[r] = "CLEAN_COMPLETE" /\ wDone[r] = Rpc(r).gen
              \/ wActive[r] = Rpc(r).gen /\ wPhase[r] = "PREPARED") = TRUE
          /\ (holds[r] = {} /\ ~bad) = TRUE
      BY <2>1, <2>2, <3>2
    <3> QED BY <3>1, <3>3
  <2>4. Answers(r, Rpc(r)) /\ Rpc(r).gen <= Rpc(r).gen
    BY <1>4, <2>1 DEF Answers, StepOps
  <2> QED BY <1>4, <2>3, <2>4, WorkAnswers
<1>9. CASE WorkerFence(r)
  <2>1. /\ active # 0 => cur[r] + 1 = Len(rpcs) /\ LastOp = "baseline_fence"
        /\ active # 0 => Rpc(r).gen = active
    BY <1>1, <1>2, <1>9, NextMessage DEF WorkerFence, FenceOps, StepOps, CleanupOps
  <2>2. wActive[r] = 0 /\ holds[r] = {} /\ wDone[r] = Rpc(r).gen
    <3>1. CASE active # 0
      BY <1>2, <2>1, <3>1 DEF RInv, RankOK
    <3>2. CASE active = 0
      <4>1. Answers(r, Rpc(r))
        BY <1>9 DEF WorkerFence, Answers, FenceOps, StepOps
      <4>2. cur[r] + 1 = Len(rpcs) /\ call.op \in Ops
        BY <4>1, WorkRead
      <4>3. Rpc(r).gen = call.gen /\ Rpc(r).op = call.op
        BY <1>1, <4>2, HealthyState DEF CallOK
      <4>4. call.gen = lastDone
        BY <1>9, <3>2, <4>2, <4>3, HealthyState
        DEF WorkerFence, CallOK, FenceOps, StepOps, CleanupOps
      <4> QED BY <1>2, <3>2, <4>3, <4>4 DEF RInv, RankOK, Out
    <3> QED BY <3>1, <3>2
  <2>3. Reply(r, TRUE, wDone[r], 0, TRUE)
    <3>1. PICK bad \in BOOLEAN :
            Unclean(bad) /\ Reply(r, TRUE, wDone[r], wActive[r], holds[r] = {} /\ ~bad)
      BY <1>9 DEF WorkerFence
    <3>2. (holds[r] = {} /\ ~bad) = TRUE
      BY <1>3, <2>2, <3>1 DEF Unclean
    <3> QED BY <2>2, <3>1, <3>2
  <2>4. Answers(r, Rpc(r))
    BY <1>9 DEF WorkerFence, Answers, FenceOps, StepOps
  <2>5. wDone[r] <= Rpc(r).gen
    BY <1>4, <2>2
  <2> QED BY <1>4, <2>2, <2>3, <2>4, <2>5, WorkAnswers
<1> QED BY <1>5, <1>6, <1>7, <1>8, <1>9 DEF Work, Worker

\* What every rank holds, and what it owes.
LEMMA RanksKept ==
  ASSUME Healthy, HealthyKinds, faults' = 0, NEW r \in Ranks
  PROVE  HoldsOK(r)' /\ AnswerOK(r)'
<1>0. /\ TypeOK /\ CallOK /\ StageOK /\ RInv(r) /\ HoldsOK(r) /\ AnswerOK(r)
      /\ cur[r] \in Nat /\ Len(rpcs) \in Nat /\ cur[r] <= Len(rpcs)
  BY HealthyState, LenType DEF RInv, RankOK
<1>1. CASE Pause
  <2>1. UNCHANGED <<active, owner, rpcs, resp, cur, wActive, holds>> /\ LastOp' = LastOp
    BY <1>1 DEF Pause, rankVars, LastOp
  <2>2. CASE call' = call
    <3>1. HoldsOK(r)'
      BY <1>0, <2>1, <2>2 DEF HoldsOK, RanFinal, Finalizing
    <3>2. AnswerOK(r)'
      BY <1>0, <2>1, <2>2 DEF AnswerOK, Good, CleanReply
    <3> QED BY <3>1, <3>2
  <2>3. CASE call.await = {} /\ call' \in {NoCall, [NoCall EXCEPT !.op = "post_step"]}
    <3>1. ~Finalizing'
      BY <2>3 DEF Finalizing, NoCall
    <3>2. HoldsOK(r)'
      BY <1>0, <2>1, <3>1 DEF HoldsOK, RanFinal
    <3>3. AnswerOK(r)'
      BY <2>1, <2>3, NothingAwaited DEF AnswerOK, Answers
    <3> QED BY <3>2, <3>3
  <2> QED BY <1>1, <2>2, <2>3 DEF Pause
<1>2. ASSUME NEW op \in Ops, NEW gen \in Nat, NEW req \in Requests \cup {NoRequest},
             NEW fin \in SUBSET Requests, Ask(op, gen, req, fin)
      PROVE  HoldsOK(r)' /\ AnswerOK(r)'
  <2>1. /\ UNCHANGED <<active, owner, resp, cur, wActive, holds>> /\ call.await = {}
        /\ Finalizing <=> op = "prepare"
    BY <1>2 DEF Ask, rankVars
  <2>2. /\ call'.op = op /\ LastOp' = op /\ Len(rpcs') = Len(rpcs) + 1
        /\ call'.await = IF op \in StepOps THEN {OutputRank} ELSE Ranks
        /\ \A i \in 1 .. Len(rpcs) : rpcs'[i] = rpcs[i]
        /\ rpcs'[Len(rpcs) + 1].op = op /\ rpcs'[Len(rpcs) + 1].add = scheduled
    <3>1. rpcs'[Len(rpcs) + 1] = [op |-> op, gen |-> gen, fin |-> fin, add |-> scheduled]
      BY <1>2, AskSent
    <3>2. rpcs'[Len(rpcs) + 1].op = op /\ rpcs'[Len(rpcs) + 1].add = scheduled
      BY <3>1
    <3> QED BY <1>2, <3>2, AskSent
  <2>3. active # 0 => \A i \in (cur'[r] + 1) .. Len(rpcs') : rpcs'[i].add \subseteq {owner'}
    <3> SUFFICES ASSUME active # 0, NEW i \in (cur[r] + 1) .. (Len(rpcs) + 1)
                 PROVE  rpcs'[i].add \subseteq {owner}
      BY <2>1, <2>2
    <3>1. CASE i = Len(rpcs) + 1
      BY <2>2, <3>1, HealthyHeld
    <3>2. CASE i # Len(rpcs) + 1
      <4>1. i \in (cur[r] + 1) .. Len(rpcs) /\ i \in 1 .. Len(rpcs)
        BY <1>0, <3>2
      <4> QED BY <1>0, <2>2, <4>1 DEF HoldsOK
    <3> QED BY <3>1, <3>2
  <2>4. RanFinal(r)' => RanFinal(r)
    BY <1>0, <2>1, <2>2 DEF RanFinal
  <2>5. HoldsOK(r)'
    BY <1>0, <2>1, <2>3, <2>4 DEF HoldsOK
  <2>6. ASSUME NEW i \in (cur[r] + 1) .. (Len(rpcs) + 1), Answers(r, rpcs'[i])
        PROVE  i = Len(rpcs) + 1 /\ r \in call'.await
    <3>1. CASE i = Len(rpcs) + 1
      BY <2>2, <2>6, <3>1 DEF Answers
    <3>2. CASE i # Len(rpcs) + 1
      <4>1. i \in (cur[r] + 1) .. Len(rpcs) /\ i \in 1 .. Len(rpcs)
        BY <1>0, <3>2
      <4> QED BY <2>1, <2>2, <2>6, <4>1, NothingAwaited
    <3> QED BY <3>1, <3>2
  <2>7. resp'[r] = <<>>
    BY <2>1, NothingAwaited
  <2>8. AnswerOK(r)'
    BY <2>1, <2>2, <2>6, <2>7 DEF AnswerOK, Answers
  <2> QED BY <2>5, <2>8
<1>3. CASE Open
  <2>1. /\ UNCHANGED <<rpcs, resp, cur, wActive, holds>> /\ LastOp' = LastOp
        /\ call.op = "admission_fence" /\ call.await = {} /\ call' = NoCall /\ active = 0
    BY <1>3 DEF Open, rankVars, LastOp
  <2>2. cur[r] = Len(rpcs) /\ LastOp = "admission_fence" /\ holds[r] = {}
    BY <1>0, <2>1, FenceRead, HealthyState DEF RInv, RankOK, Ops, ControlOps, FenceOps
  <2>3. HoldsOK(r)'
    BY <1>0, <2>1, <2>2 DEF HoldsOK, RanFinal, Finalizing, NoCall
  <2>4. AnswerOK(r)'
    BY <1>0, <2>1, <2>2, NothingAwaited DEF AnswerOK
  <2> QED BY <2>3, <2>4
<1>4. CASE Close
  <2>1. UNCHANGED <<rpcs, resp, cur>> /\ call.await = {} /\ active' = 0
    BY <1>4 DEF Close, rankVars
  <2>2. HoldsOK(r)'
    BY <2>1 DEF HoldsOK
  <2>3. AnswerOK(r)'
    BY <2>1, NothingAwaited DEF AnswerOK, Answers
  <2> QED BY <2>2, <2>3
<1>5. ASSUME NEW s \in Ranks, Take(s)
      PROVE  HoldsOK(r)' /\ AnswerOK(r)'
  <2>1. /\ UNCHANGED <<active, owner, rpcs, cur, wActive, holds>> /\ LastOp' = LastOp
        /\ call'.op = call.op /\ call'.id = call.id /\ call'.gen = call.gen
        /\ call'.fin = call.fin /\ call'.await = call.await \ {s}
        /\ resp'[s] = <<>> /\ (r # s => resp'[r] = resp[r]) /\ cur[s] = Len(rpcs)
    BY <1>5, TakeKeeps DEF Take, rankVars
  <2>2. HoldsOK(r)'
    BY <1>0, <2>1 DEF HoldsOK, RanFinal, Finalizing
  <2>3. CASE r = s
    <3>1. \A i \in (cur'[r] + 1) .. Len(rpcs') : FALSE
      BY <1>0, <2>1, <2>3
    <3> QED BY <2>1, <2>2, <2>3, <3>1 DEF AnswerOK
  <2>4. CASE r # s
    <3>1. /\ UNCHANGED <<rpcs, cur>> /\ resp'[r] = resp[r] /\ call'.op = call.op
          /\ r \in call.await => r \in call'.await
      BY <2>1, <2>4
    <3>2. Good(resp[r][1]) => Good(resp[r][1])'
      BY <2>1, <3>1 DEF Good, CleanReply
    <3>3. AnswerOK(r)'
      BY <1>0, <3>1, <3>2 DEF AnswerOK, Answers
    <3> QED BY <2>2, <3>3
  <2> QED BY <2>2, <2>3, <2>4
<1>6. ASSUME NEW s \in Ranks, Work(s)
      PROVE  HoldsOK(r)' /\ AnswerOK(r)'
  BY <1>6, WorkOther, WorkHolds, WorkOwes
<1> QED BY <1>1, <1>2, <1>3, <1>4, <1>5, <1>6 DEF HealthyKinds

\* A group that starts without a fault is healthy.
LEMMA HealthInit == Init => HealthOK
<1> SUFFICES ASSUME Init PROVE HealthOK
  OBVIOUS
<1>1. GroupUp /\ PhaseOK /\ RecordsOK /\ FinalOK
  BY DEF Init, GroupUp, PhaseOK, RecordsOK, FinalOK, Finalizing, NoCall, LastOp, ControlOps, FenceOps
<1>2. \A r \in Ranks : HoldsOK(r) /\ AnswerOK(r)
  BY DEF Init, HoldsOK, AnswerOK
<1> QED BY <1>1, <1>2 DEF HealthOK

\* A fault is never taken back.
LEMMA FaultsKept ==
  ASSUME TypeOK, [Next]_vars, faults' = 0
  PROVE  faults = 0
<1>1. faults' \in {faults, faults + 1}
  BY DEF Next, vars, EngineThread, Clients, MonitorThread, Faults, Worker, ReceiveReply,
         CallTimeout, LateReply, CallFails, Begin, AdmitRefused, Step, SampleStep, FinishStep,
         DraftStep, EndCall, FinalizeStep, PrepareDone, CommitDone, BaselineDone,
         ExecutorFailed, Admit, Abort, UtilityRpc, WorkerData, WorkerBare, WorkerPrepare,
         WorkerCommit, WorkerFence, Unclean, Fault, CrashWorker, HangWorker, MonitorDetect,
         MonitorPoison, MonitorNotify, Shutdown
<1>2. faults \in Nat
  BY BoundsAssumption DEF TypeOK, BoundType
<1> QED BY <1>1, <1>2

\* Every step keeps a group without a fault healthy.
LEMMA HealthNext ==
  ASSUME HealthInv, [Next]_vars
  PROVE  HealthOK'
<1> SUFFICES ASSUME faults' = 0 PROVE HealthOK'
  BY DEF HealthOK
<1>1. Healthy
  BY FaultsKept DEF HealthInv, OwnerInv, IInv, Healthy
<1>2. HealthyKinds
  BY <1>1, HealthyStep
<1> QED BY <1>1, <1>2, GroupKept, FinalKept, RanksKept DEF HealthOK

\* The group is healthy for as long as nothing has failed.
THEOREM HealthInvariant == Spec => []HealthInv
<1>1. Init => HealthInv
  BY IInvInit, OwnerInit, HealthInit DEF HealthInv, OwnerInv
<1>2. HealthInv /\ [Next]_vars => HealthInv'
  BY IInvNext, OwnerNext, HealthNext DEF HealthInv, OwnerInv
<1> QED BY <1>1, <1>2, PTL DEF Spec

\* A group without a fault never poisons itself, never rejects an RPC and never
\* stops, whatever the interleaving of the engine, its clients and lagging ranks.
THEOREM HealthyHolds == Spec => []HealthyServes
<1>1. HealthInv => HealthyServes
  <2> SUFFICES ASSUME HealthInv, faults = 0
               PROVE  /\ AdmissionState # "poisoned" /\ engine = "up"
                      /\ \A r \in Ranks : alive[r] = "up"
    BY DEF HealthyServes
  <2>1. Healthy
    BY DEF Healthy
  <2> QED BY <2>1, HealthyState DEF GroupUp, AdmissionState
<1> QED BY <1>1, HealthInvariant, PTL

\* Everything the run checks at once.
THEOREM LifecycleInvariant == Spec => []LifecycleInv
<1>1. AwaitInv /\ HealthInv => LifecycleInv
  BY DEF AwaitInv, HealthInv, LifecycleInv
<1> QED BY <1>1, AwaitInvariant, HealthInvariant, PTL

===============================================================================
