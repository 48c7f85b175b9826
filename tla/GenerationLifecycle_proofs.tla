---------------------- MODULE GenerationLifecycle_proofs ----------------------
(***************************************************************************)
(* Proofs about GenerationLifecycle, for every set of ranks and requests   *)
(* and every value of the bounds.                                          *)
(*                                                                         *)
(* The phase cannot carry the induction: a poison may overwrite it at any  *)
(* moment, and ranks go on reading what was sent.  What a poison never     *)
(* touches are the active generation and the log of sent RPCs, so the      *)
(* inductive invariant says where each rank stands from those two: what is *)
(* unread, and what the last message, LastOp, is.                          *)
(***************************************************************************)
EXTENDS GenerationLifecycle, TLAPS

LastOp == IF rpcs = <<>> THEN "none" ELSE rpcs[Len(rpcs)].op
CleanupOps == {"prepare", "commit", "baseline_fence"}

\* The phase, the recovery state and the active generation agree.
CoordOK ==
  /\ phase = "POISONED" => recovery = "POISONED"
  /\ recovery = "POISONED" => phase = "POISONED" \/ isFailed
  /\ phase \in {"QUIESCING", "PREPARED", "BASELINE_VERIFY"} => recovery = "READY"
  /\ active = 0 => phase \in {"IDLE", "CLEAN_COMPLETE", "POISONED"}
  /\ active # 0 => ~CanAccept /\ active = lastDone + 1

\* The outstanding call is the last message of the log, and belongs to the
\* active generation.
CallOK ==
  /\ call.op = "none" => call = NoCall
  /\ call.op = "post_step" => active # 0 /\ call.await = {}
  /\ call.op \in Ops =>
       /\ call.id = Len(rpcs) /\ rpcs # <<>>
       /\ rpcs[Len(rpcs)].op = call.op /\ rpcs[Len(rpcs)].gen = call.gen
       /\ call.op = "admission_fence" =>
            active = 0 /\ call.gen = lastDone /\ call.req \in Requests
       /\ call.op # "admission_fence" => call.gen = active
       /\ call.op \in StepOps \cup CleanupOps => active # 0

\* What the last message says of the stage the generation is in.
StageOK ==
  /\ active = 0 =>
       /\ LastOp \in {"none", "admission_fence", "baseline_fence", "utility"}
       /\ scheduled = {} /\ finished = {}
  /\ active # 0 => LastOp # "none"
  /\ active # 0 /\ LastOp \in CleanupOps =>
       /\ rpcs[Len(rpcs)].gen = active
       /\ scheduled = {} /\ finished = {}
       /\ engine = "up" => call.op \in CleanupOps
  /\ active # 0 /\ LastOp \in {"commit", "baseline_fence"} => owned = {}
  /\ call.op \in {"execute", "sample"} => finished = {}

\* The messages a rank has still to read when the generation runs.
UnreadOK(r) ==
  \A i \in (cur[r] + 1) .. Len(rpcs) :
    IF active = 0
    THEN /\ rpcs[i].op \in FenceOps \cup {"utility"}
         /\ rpcs[i].op = "utility" => rpcs[i].gen = 0
    ELSE \/ rpcs[i].op \in StepOps \cup {"utility"} /\ rpcs[i].gen = active
         \/ i = Len(rpcs) /\ rpcs[i].op \in CleanupOps

Out(r) == wActive[r] = 0 /\ wPhase[r] \in {"IDLE", "CLEAN_COMPLETE"}

\* Where a rank stands.
RankOK(r) ==
  /\ cur[r] <= Len(rpcs)
  /\ active = 0 => Out(r) /\ wDone[r] = lastDone /\ holds[r] = {}
  /\ active # 0 /\ LastOp \notin {"commit", "baseline_fence"} =>
       /\ wDone[r] = lastDone
       /\ \/ Out(r)
          \/ wActive[r] = active /\ wPhase[r] = "RUNNING"
          \/ /\ wActive[r] = active /\ wPhase[r] = "PREPARED"
             /\ LastOp = "prepare" /\ cur[r] = Len(rpcs) /\ holds[r] = {}
  /\ active # 0 /\ LastOp = "commit" =>
       /\ holds[r] = {}
       /\ \/ /\ cur[r] + 1 = Len(rpcs) /\ wDone[r] = lastDone
             /\ wActive[r] = active /\ wPhase[r] = "PREPARED"
          \/ /\ cur[r] = Len(rpcs) /\ wDone[r] = active
             /\ wActive[r] = 0 /\ wPhase[r] = "CLEAN_COMPLETE"
  /\ active # 0 /\ LastOp = "baseline_fence" =>
       /\ holds[r] = {} /\ wDone[r] = active
       /\ wActive[r] = 0 /\ wPhase[r] = "CLEAN_COMPLETE"
       /\ Len(rpcs) <= cur[r] + 1

\* A reply is to a message the rank has read, and a good reply to the last
\* prepare comes from a prepared rank.
ReplyOK(r) ==
  \A k \in 1 .. Len(resp[r]) :
    /\ resp[r][k].id <= cur[r]
    /\ /\ resp[r][k].id = Len(rpcs) /\ LastOp = "prepare"
       /\ resp[r][k].ok /\ resp[r][k].quiet
       => wPhase[r] = "PREPARED"

\* So does a reply that the outstanding control call has already taken.
ProofOK(r) ==
  call.op \in ControlOps /\ r \notin call.await =>
    /\ cur[r] = Len(rpcs)
    /\ call.op = "prepare" /\ call.clean => wPhase[r] = "PREPARED"

IInv ==
  /\ TypeOK
  /\ CoordOK /\ CallOK /\ StageOK
  /\ \A r \in Ranks : UnreadOK(r) /\ RankOK(r) /\ ReplyOK(r) /\ ProofOK(r)

-------------------------------------------------------------------------------
\* The initial state is well typed.
LEMMA TypeInit == Init => TypeOK
  BY RequestsAssumption, BoundsAssumption
  DEF Init, TypeOK, CoordType, EngineType, LinkType, RankType, BoundType, Phases, WorkPhases, Calls, NoCall, Ops, Rpcs

\* Both values of the call without an RPC are calls: none, and the pause before the
\* draft RPC of post_step.
LEMMA NoCallType == NoCall \in Calls /\ [NoCall EXCEPT !.op = "post_step"] \in Calls
  BY DEF NoCall, Calls

\* Taking a reply (get_response) leaves a well-typed call.
LEMMA AnswerType ==
  ASSUME call \in Calls, NEW r \in Ranks, NEW clean
  PROVE  [call EXCEPT !.await = @ \ {r}, !.clean = @ /\ clean] \in Calls
  BY DEF Calls

\* Sending keeps the log and the call well typed.
LEMMA SendType ==
  ASSUME TypeOK,
         NEW op \in Ops, NEW gen \in Nat, NEW waits \in SUBSET Ranks,
         NEW req \in Requests \cup {NoRequest}, NEW fin \in SUBSET Requests,
         Send(op, gen, waits, req, fin)
  PROVE  /\ rpcs' \in Seq(Rpcs)
         /\ call' \in Calls
         /\ Len(rpcs') = Len(rpcs) + 1
         /\ \A i \in 1 .. Len(rpcs) : rpcs'[i] = rpcs[i]
         /\ rpcs'[Len(rpcs')] = [op |-> op, gen |-> gen, fin |-> fin, add |-> scheduled]
<1> DEFINE m == [op |-> op, gen |-> gen, fin |-> fin, add |-> scheduled]
<1>1. m \in Rpcs /\ rpcs \in Seq(Rpcs) /\ rpcs' = Append(rpcs, m)
  BY DEF TypeOK, EngineType, LinkType, Send, Rpcs
<1>2. call' \in Calls
  <2>1. PICK timed \in Deadlines(op) :
          call' = [op |-> op, id |-> NextRpc, gen |-> gen, await |-> waits,
                   clean |-> TRUE, req |-> req, fin |-> fin, timed |-> timed]
    BY DEF Send
  <2>2. timed \in BOOLEAN
    BY DEF Deadlines
  <2> QED BY <1>1, <2>1, <2>2 DEF Calls, Ops, NextRpc
<1> QED BY <1>1, <1>2

\* Removing the head of a response queue keeps the others as they are.
LEMMA ReceiveType ==
  ASSUME TypeOK, NEW r \in Ranks, resp[r] # <<>>,
         resp' = [resp EXCEPT ![r] = Tail(@)]
  PROVE  /\ resp' \in [Ranks -> Seq(Replies)]
         /\ Head(resp[r]) \in Replies
         /\ Head(resp[r]) = resp[r][1]
         /\ Len(resp'[r]) = Len(resp[r]) - 1
         /\ \A k \in 1 .. Len(resp'[r]) : resp'[r][k] = resp[r][k + 1]
         /\ \A s \in Ranks \ {r} : resp'[s] = resp[s]
<1>1. resp[r] \in Seq(Replies) /\ resp \in [Ranks -> Seq(Replies)]
  BY DEF TypeOK, LinkType
<1>2. /\ Tail(resp[r]) \in Seq(Replies)
      /\ Head(resp[r]) \in Replies
      /\ Head(resp[r]) = resp[r][1]
      /\ Len(Tail(resp[r])) = Len(resp[r]) - 1
      /\ \A k \in 1 .. Len(Tail(resp[r])) : Tail(resp[r])[k] = resp[r][k + 1]
  BY <1>1
<1> QED BY <1>1, <1>2

\* Appending a reply keeps what the queues held.
LEMMA ReplyType ==
  ASSUME TypeOK, NEW r \in Ranks, HasRpc(r),
         NEW ok \in BOOLEAN, NEW done \in Nat, NEW act \in Nat, NEW quiet \in BOOLEAN,
         Reply(r, ok, done, act, quiet)
  PROVE  /\ resp' \in [Ranks -> Seq(Replies)]
         /\ Len(resp'[r]) = Len(resp[r]) + 1
         /\ \A k \in 1 .. Len(resp[r]) : resp'[r][k] = resp[r][k]
         /\ resp'[r][Len(resp'[r])].id = cur[r] + 1
         /\ resp'[r][Len(resp'[r])].ok = ok
         /\ resp'[r][Len(resp'[r])].quiet = quiet
         /\ \A s \in Ranks \ {r} : resp'[s] = resp[s]
<1> DEFINE m == [id |-> cur[r] + 1, op |-> Rpc(r).op, gen |-> Rpc(r).gen,
                 ok |-> ok, done |-> done, act |-> act, quiet |-> quiet]
<1>1. resp[r] \in Seq(Replies) /\ resp \in [Ranks -> Seq(Replies)] /\ cur[r] \in Nat
  BY DEF TypeOK, LinkType, RankType
<1>2. rpcs \in Seq(Rpcs) /\ cur[r] + 1 \in 1 .. Len(rpcs)
  BY <1>1 DEF TypeOK, LinkType, HasRpc
<1>3. Rpc(r) \in Rpcs
  BY <1>2 DEF Rpc
<1>4. m \in Replies
  BY <1>1, <1>3 DEF Replies, Rpcs
<1>5. resp' = [resp EXCEPT ![r] = Append(resp[r], m)]
  BY DEF Reply
<1>6. /\ Append(resp[r], m) \in Seq(Replies)
      /\ Len(Append(resp[r], m)) = Len(resp[r]) + 1
      /\ \A k \in 1 .. Len(resp[r]) : Append(resp[r], m)[k] = resp[r][k]
      /\ Append(resp[r], m)[Len(resp[r]) + 1] = m
  BY <1>1, <1>4
<1>7. resp'[r] = Append(resp[r], m) /\ \A s \in Ranks \ {r} : resp'[s] = resp[s]
  BY <1>1, <1>5
<1>8. resp'[r][Len(resp'[r])] = m
  BY <1>6, <1>7
<1>9. resp' \in [Ranks -> Seq(Replies)]
  BY <1>1, <1>5, <1>6
<1> HIDE DEF m
<1>10. m.id = cur[r] + 1 /\ m.ok = ok /\ m.quiet = quiet
  BY DEF m
<1> QED BY <1>6, <1>7, <1>8, <1>9, <1>10

\* The message a rank is about to read is one of the log.
LEMMA RpcType ==
  ASSUME TypeOK, NEW r \in Ranks, HasRpc(r)
  PROVE  Rpc(r) \in Rpcs /\ cur[r] + 1 \in 1 .. Len(rpcs)
  BY DEF TypeOK, LinkType, RankType, HasRpc, Rpc

\* A request-scoped RPC, dispatched or refused, keeps the types of what it writes.
LEMMA StepRpcType ==
  ASSUME TypeOK, NEW op \in StepOps, NEW fin \in SUBSET Requests, StepRpc(op, fin)
  PROVE  /\ rpcs' \in Seq(Rpcs) /\ call' \in Calls /\ owned' \subseteq Nat
         /\ phase' \in Phases /\ recovery' \in {"READY", "POISONED"}
         /\ engine' \in {"up", "dead"}
         /\ monitor' \in {"watching", "detected", "poisoned", "notified", "closed"}
<1>1. CASE StepRpcRefused
  BY <1>1, NoCallType
  DEF StepRpcRefused, Poison, Phases, TypeOK, CoordType, EngineType, LinkType, BoundType
<1>2. CASE ~StepRpcRefused
  <2>1. /\ Send(op, active, {OutputRank}, owner, fin)
        /\ op \in Ops /\ {OutputRank} \in SUBSET Ranks
        /\ active \in Nat /\ owner \in Requests \cup {NoRequest}
    BY <1>2, RanksAssumption DEF StepRpc, Ops, TypeOK, CoordType
  <2>2. rpcs' \in Seq(Rpcs) /\ call' \in Calls
    BY <2>1, SendType
  <2>3. NextRpc \in Nat
    BY DEF NextRpc, TypeOK, LinkType
  <2>4. owned' \subseteq Nat /\ engine' \in {"up", "dead"}
    BY <1>2, <2>3 DEF StepRpc, TypeOK, CoordType, EngineType
  <2>5. /\ phase' \in Phases /\ recovery' \in {"READY", "POISONED"}
        /\ monitor' \in {"watching", "detected", "poisoned", "notified", "closed"}
    BY <1>2 DEF StepRpc, SetPhase, MarkRunning, Phases, WorkPhases, TypeOK, CoordType,
                BoundType
  <2> QED BY <2>2, <2>4, <2>5
<1> QED BY <1>1, <1>2

\* Type correctness of every step.
LEMMA TypeNext ==
  ASSUME TypeOK, CallOK, [Next]_vars
  PROVE  TypeOK'
<1> USE DEF TypeOK
<1>1. CASE UNCHANGED vars
  BY <1>1 DEF vars, coordVars, engineVars, rankVars, CoordType, EngineType, LinkType,
              RankType, BoundType, Calls, Replies
<1>2. CASE CallTimeout
  <2>1. CoordType'
    BY <1>2 DEF CallTimeout, CallFails, CoordType, Poison, Phases
  <2>2. EngineType'
    BY <1>2 DEF CallTimeout, CallFails, EngineType, Raise
  <2>3. LinkType'
    BY <1>2, NoCallType DEF CallTimeout, CallFails, LinkType, Raise, coordVars
  <2>4. RankType' /\ BoundType'
    BY <1>2 DEF CallTimeout, CallFails, RankType, BoundType, coordVars, engineVars, rankVars
  <2> QED BY <2>1, <2>2, <2>3, <2>4
<1>3. CASE LateReply
  <2>1. CoordType'
    BY <1>3 DEF LateReply, CallFails, CoordType, Poison, Phases
  <2>2. EngineType'
    BY <1>3 DEF LateReply, CallFails, EngineType, Raise
  <2>3. LinkType'
    BY <1>3, NoCallType DEF LateReply, CallFails, LinkType, Raise
  <2>4. BoundType'
    BY <1>3, BoundsAssumption DEF LateReply, CallFails, BoundType, Fault
  <2>5. RankType'
    BY <1>3 DEF LateReply, CallFails, RankType, coordVars, engineVars, rankVars
  <2> QED BY <2>1, <2>2, <2>3, <2>4, <2>5
<1>4. CASE AdmitRefused
  <2>1. CoordType'
    BY <1>4 DEF AdmitRefused, CoordType, Poison, Phases
  <2>2. LinkType'
    BY <1>4, NoCallType DEF AdmitRefused, LinkType
  <2>3. EngineType' /\ RankType' /\ BoundType'
    BY <1>4 DEF AdmitRefused, EngineType, RankType, BoundType, coordVars, engineVars, rankVars
  <2> QED BY <2>1, <2>2, <2>3
<1>5. CASE Begin
  <2>1. call.req \in Requests
    BY <1>5 DEF Begin, Completed, CallOK, Ops, ControlOps, FenceOps
  <2>2. CoordType'
    BY <1>5, <2>1 DEF Begin, CoordType, SetPhase, Poison, Phases, WorkPhases
  <2>3. EngineType'
    BY <1>5, <2>1 DEF Begin, EngineType
  <2>4. LinkType'
    BY <1>5, NoCallType DEF Begin, LinkType
  <2>5. RankType'
    BY <1>5 DEF Begin, RankType, rankVars
  <2>6. BoundType'
    BY <1>5, BoundsAssumption DEF Begin, BoundType, SetPhase, Fault
  <2> QED BY <2>2, <2>3, <2>4, <2>5, <2>6
<1>6. CASE FinishStep
  <2>1. CoordType'
    BY <1>6 DEF FinishStep, CoordType, SetPhase, MarkCompleting, MarkAborting, MarkRunning, Phases, WorkPhases
  <2>2. EngineType'
    BY <1>6 DEF FinishStep, EngineType
  <2>3. LinkType'
    BY <1>6, NoCallType DEF FinishStep, LinkType
  <2>4. BoundType'
    BY <1>6 DEF FinishStep, BoundType, SetPhase
  <2>5. RankType'
    BY <1>6 DEF FinishStep, RankType, coordVars, engineVars, rankVars
  <2> QED BY <2>1, <2>2, <2>3, <2>4, <2>5
<1>7. CASE EndCall
  <2>1. LinkType'
    BY <1>7, NoCallType DEF EndCall, LinkType
  <2>2. CoordType' /\ EngineType' /\ RankType' /\ BoundType'
    BY <1>7 DEF EndCall, CoordType, EngineType, RankType, BoundType, coordVars, engineVars, rankVars
  <2> QED BY <2>1, <2>2
<1>8. CASE ExecutorFailed
  <2>1. EngineType'
    BY <1>8 DEF ExecutorFailed, EngineType
  <2>2. CoordType' /\ LinkType' /\ RankType' /\ BoundType'
    BY <1>8 DEF ExecutorFailed, CoordType, LinkType, RankType, BoundType, coordVars, engineVars, rankVars
  <2> QED BY <2>1, <2>2
<1>9. CASE Abort
  <2>1. CoordType'
    BY <1>9 DEF Abort, CoordType, SetPhase, MarkAborting, MarkRunning, Phases, WorkPhases
  <2>2. EngineType'
    BY <1>9 DEF Abort, EngineType
  <2>3. BoundType'
    BY <1>9 DEF Abort, BoundType, SetPhase
  <2>4. LinkType' /\ RankType'
    BY <1>9 DEF Abort, LinkType, RankType, coordVars, engineVars, rankVars
  <2> QED BY <2>1, <2>2, <2>3, <2>4
<1>10. CASE MonitorDetect
  <2>1. BoundType'
    BY <1>10 DEF MonitorDetect, BoundType
  <2>2. CoordType' /\ EngineType' /\ LinkType' /\ RankType'
    BY <1>10 DEF MonitorDetect, CoordType, EngineType, LinkType, RankType, coordVars, engineVars, rankVars
  <2> QED BY <2>1, <2>2
<1>11. CASE MonitorPoison
  <2>1. CoordType'
    BY <1>11 DEF MonitorPoison, CoordType, Poison, Phases
  <2>2. BoundType'
    BY <1>11 DEF MonitorPoison, BoundType
  <2>3. EngineType' /\ LinkType' /\ RankType'
    BY <1>11 DEF MonitorPoison, EngineType, LinkType, RankType, coordVars, engineVars, rankVars
  <2> QED BY <2>1, <2>2, <2>3
<1>12. CASE MonitorNotify
  <2>1. BoundType'
    BY <1>12 DEF MonitorNotify, BoundType
  <2>2. CoordType' /\ EngineType' /\ LinkType' /\ RankType'
    BY <1>12 DEF MonitorNotify, CoordType, EngineType, LinkType, RankType, coordVars, engineVars, rankVars
  <2> QED BY <2>1, <2>2
<1>13. CASE Shutdown
  <2>1. RankType'
    BY <1>13 DEF Shutdown, RankType
  <2>2. BoundType'
    BY <1>13 DEF Shutdown, BoundType
  <2>3. CoordType' /\ EngineType' /\ LinkType'
    BY <1>13 DEF Shutdown, CoordType, EngineType, LinkType, coordVars, engineVars, rankVars
  <2> QED BY <2>1, <2>2, <2>3
<1>14. CASE \E q \in Requests : Admit(q)
  <2>1. PICK q \in Requests : Admit(q)
    BY <1>14
  <2>2. rpcs' \in Seq(Rpcs) /\ call' \in Calls
    <3>1. CASE Send("admission_fence", lastDone, Ranks, q, {})
      <4>1. /\ "admission_fence" \in Ops /\ lastDone \in Nat
            /\ q \in Requests \cup {NoRequest} /\ {} \in SUBSET Requests
            /\ Ranks \in SUBSET Ranks
        BY DEF Ops, ControlOps, FenceOps, CoordType
      <4> QED BY <3>1, <4>1, SendType
    <3>2. CASE UNCHANGED <<call, rpcs>>
      BY <3>2 DEF LinkType
    <3> QED BY <2>1, <3>1, <3>2 DEF Admit
  <2>3. CoordType'
    BY <2>1 DEF Admit, CoordType, Poison, Phases
  <2>4. EngineType'
    BY <2>1 DEF Admit, EngineType
  <2>5. LinkType'
    BY <2>1, <2>2 DEF Admit, LinkType
  <2>6. RankType' /\ BoundType'
    BY <2>1 DEF Admit, RankType, BoundType, coordVars, engineVars, rankVars
  <2> QED BY <2>3, <2>4, <2>5, <2>6
<1>15. CASE FinalizeStep
  <2>1. rpcs' \in Seq(Rpcs) /\ call' \in Calls
    <3>1. CASE NextControl("QUIESCING", "prepare")
      <4>1. /\ "prepare" \in Ops /\ active \in Nat /\ owner \in Requests \cup {NoRequest}
            /\ Ranks \in SUBSET Ranks /\ {} \in SUBSET Requests
        BY DEF Ops, ControlOps, FenceOps, CoordType
      <4>2. Send("prepare", active, Ranks, owner, {})
        BY <3>1 DEF NextControl
      <4> QED BY <4>1, <4>2, SendType
    <3>2. CASE FailFinalize
      BY <3>2, NoCallType DEF FailFinalize, LinkType
    <3> QED BY <1>15, <3>1, <3>2 DEF FinalizeStep
  <2>2. CoordType'
    BY <1>15 DEF FinalizeStep, CoordType, NextControl, FailFinalize, Poison, Phases
  <2>3. EngineType'
    BY <1>15 DEF FinalizeStep, EngineType, NextControl, FailFinalize
  <2>4. LinkType'
    BY <1>15, <2>1 DEF FinalizeStep, LinkType
  <2>5. RankType' /\ BoundType'
    BY <1>15 DEF FinalizeStep, RankType, BoundType, coordVars, engineVars, rankVars
  <2> QED BY <2>2, <2>3, <2>4, <2>5
<1>16. CASE PrepareDone
  <2>1. rpcs' \in Seq(Rpcs) /\ call' \in Calls
    <3>1. CASE NextControl("PREPARED", "commit")
      <4>1. /\ "commit" \in Ops /\ active \in Nat /\ owner \in Requests \cup {NoRequest}
            /\ Ranks \in SUBSET Ranks /\ {} \in SUBSET Requests
        BY DEF Ops, ControlOps, FenceOps, CoordType
      <4>2. Send("commit", active, Ranks, owner, {})
        BY <3>1 DEF NextControl
      <4> QED BY <4>1, <4>2, SendType
    <3>2. CASE FailFinalize
      BY <3>2, NoCallType DEF FailFinalize, LinkType
    <3> QED BY <1>16, <3>1, <3>2 DEF PrepareDone
  <2>2. CoordType'
    BY <1>16 DEF PrepareDone, CoordType, NextControl, FailFinalize, Poison, Phases
  <2>3. EngineType'
    BY <1>16 DEF PrepareDone, EngineType, NextControl, FailFinalize
  <2>4. LinkType'
    BY <1>16, <2>1 DEF PrepareDone, LinkType
  <2>5. RankType' /\ BoundType'
    BY <1>16 DEF PrepareDone, RankType, BoundType, coordVars, engineVars, rankVars
  <2> QED BY <2>2, <2>3, <2>4, <2>5
<1>17. CASE CommitDone
  <2>1. rpcs' \in Seq(Rpcs) /\ call' \in Calls
    <3>1. CASE NextControl("BASELINE_VERIFY", "baseline_fence")
      <4>1. /\ "baseline_fence" \in Ops /\ active \in Nat /\ owner \in Requests \cup {NoRequest}
            /\ Ranks \in SUBSET Ranks /\ {} \in SUBSET Requests
        BY DEF Ops, ControlOps, FenceOps, CoordType
      <4>2. Send("baseline_fence", active, Ranks, owner, {})
        BY <3>1 DEF NextControl
      <4> QED BY <4>1, <4>2, SendType
    <3>2. CASE FailFinalize
      BY <3>2, NoCallType DEF FailFinalize, LinkType
    <3> QED BY <1>17, <3>1, <3>2 DEF CommitDone
  <2>2. CoordType'
    BY <1>17 DEF CommitDone, CoordType, NextControl, FailFinalize, Poison, Phases
  <2>3. EngineType'
    BY <1>17 DEF CommitDone, EngineType, NextControl, FailFinalize
  <2>4. LinkType'
    BY <1>17, <2>1 DEF CommitDone, LinkType
  <2>5. RankType' /\ BoundType'
    BY <1>17 DEF CommitDone, RankType, BoundType, coordVars, engineVars, rankVars
  <2> QED BY <2>2, <2>3, <2>4, <2>5
<1>18. CASE BaselineDone
  <2>1. CoordType'
    BY <1>18 DEF BaselineDone, CoordType, FailFinalize, SetPhase, Poison, Phases
  <2>2. EngineType'
    BY <1>18 DEF BaselineDone, EngineType, FailFinalize
  <2>3. LinkType'
    BY <1>18, NoCallType DEF BaselineDone, LinkType, FailFinalize
  <2>4. BoundType'
    BY <1>18 DEF BaselineDone, BoundType, SetPhase
  <2>5. RankType'
    BY <1>18 DEF BaselineDone, RankType, coordVars, engineVars, rankVars
  <2> QED BY <2>1, <2>2, <2>3, <2>4, <2>5
<1>19. CASE Step
  <2>1. StepRpc("execute", finished) /\ finished \in SUBSET Requests /\ "execute" \in StepOps
    BY <1>19 DEF Step, StepOps, EngineType
  <2>2. /\ rpcs' \in Seq(Rpcs) /\ call' \in Calls /\ owned' \subseteq Nat
        /\ phase' \in Phases /\ recovery' \in {"READY", "POISONED"}
        /\ engine' \in {"up", "dead"}
        /\ monitor' \in {"watching", "detected", "poisoned", "notified", "closed"}
    BY <2>1, StepRpcType
  <2>3. CoordType'
    BY <1>19, <2>2 DEF Step, CoordType
  <2>4. EngineType'
    BY <1>19, <2>2 DEF Step, EngineType
  <2>5. LinkType'
    BY <1>19, <2>2 DEF Step, LinkType
  <2>6. BoundType'
    BY <1>19, <2>2 DEF Step, BoundType
  <2>7. RankType'
    BY <1>19 DEF Step, RankType, coordVars, engineVars, rankVars
  <2> QED BY <2>3, <2>4, <2>5, <2>6, <2>7
<1>20. CASE SampleStep
  <2>1. StepRpc("sample", {}) /\ {} \in SUBSET Requests /\ "sample" \in StepOps
    BY <1>20 DEF SampleStep, StepOps, EngineType
  <2>2. /\ rpcs' \in Seq(Rpcs) /\ call' \in Calls /\ owned' \subseteq Nat
        /\ phase' \in Phases /\ recovery' \in {"READY", "POISONED"}
        /\ engine' \in {"up", "dead"}
        /\ monitor' \in {"watching", "detected", "poisoned", "notified", "closed"}
    BY <2>1, StepRpcType
  <2>3. CoordType'
    BY <1>20, <2>2 DEF SampleStep, CoordType
  <2>4. EngineType'
    BY <1>20, <2>2 DEF SampleStep, EngineType
  <2>5. LinkType'
    BY <1>20, <2>2 DEF SampleStep, LinkType
  <2>6. BoundType'
    BY <1>20, <2>2 DEF SampleStep, BoundType
  <2>7. RankType'
    BY <1>20 DEF SampleStep, RankType, coordVars, engineVars, rankVars
  <2> QED BY <2>3, <2>4, <2>5, <2>6, <2>7
<1>21. CASE DraftStep
  <2>1. StepRpc("draft", {}) /\ {} \in SUBSET Requests /\ "draft" \in StepOps
    BY <1>21 DEF DraftStep, StepOps, EngineType
  <2>2. /\ rpcs' \in Seq(Rpcs) /\ call' \in Calls /\ owned' \subseteq Nat
        /\ phase' \in Phases /\ recovery' \in {"READY", "POISONED"}
        /\ engine' \in {"up", "dead"}
        /\ monitor' \in {"watching", "detected", "poisoned", "notified", "closed"}
    BY <2>1, StepRpcType
  <2>3. CoordType'
    BY <1>21, <2>2 DEF DraftStep, CoordType
  <2>4. EngineType'
    BY <1>21, <2>2 DEF DraftStep, EngineType
  <2>5. LinkType'
    BY <1>21, <2>2 DEF DraftStep, LinkType
  <2>6. BoundType'
    BY <1>21, <2>2 DEF DraftStep, BoundType
  <2>7. RankType'
    BY <1>21 DEF DraftStep, RankType, coordVars, engineVars, rankVars
  <2> QED BY <2>3, <2>4, <2>5, <2>6, <2>7
<1>22. CASE UtilityRpc
  <2>1. rpcs' \in Seq(Rpcs) /\ call' \in Calls /\ NextRpc \in Nat
    <3>1. CASE Send("utility", active, Ranks, NoRequest, {})
      <4>1. /\ "utility" \in Ops /\ active \in Nat
            /\ NoRequest \in Requests \cup {NoRequest} /\ {} \in SUBSET Requests
            /\ Ranks \in SUBSET Ranks
        BY DEF Ops, CoordType
      <4>2. NextRpc \in Nat
        BY DEF NextRpc, LinkType
      <4> QED BY <3>1, <4>1, <4>2, SendType
    <3>2. CASE UNCHANGED <<call, rpcs>>
      BY <3>2 DEF NextRpc, LinkType
    <3> QED BY <1>22, <3>1, <3>2 DEF UtilityRpc
  <2>2. CoordType'
    BY <1>22, <2>1 DEF UtilityRpc, CoordType, MarkRunning, SetPhase, Phases, WorkPhases
  <2>3. EngineType'
    BY <1>22 DEF UtilityRpc, EngineType, engineVars
  <2>4. LinkType'
    BY <1>22, <2>1 DEF UtilityRpc, LinkType
  <2>5. BoundType'
    BY <1>22, BoundsAssumption DEF UtilityRpc, BoundType, SetPhase
  <2>6. RankType'
    BY <1>22 DEF UtilityRpc, RankType, coordVars, engineVars, rankVars
  <2> QED BY <2>2, <2>3, <2>4, <2>5, <2>6
<1>23. CASE \E r \in Ranks : ReceiveReply(r)
  <2>1. PICK r \in Ranks : ReceiveReply(r)
    BY <1>23
  <2>2. resp' \in [Ranks -> Seq(Replies)]
    BY <2>1, ReceiveType DEF ReceiveReply
  <2>3. call' \in Calls
    <3>1. call' = call \/ call' = NoCall \/ TakeReply(r, Head(resp[r]))
      BY <2>1 DEF ReceiveReply, Raise
    <3>2. CASE TakeReply(r, Head(resp[r]))
      BY <3>2, AnswerType DEF TakeReply, LinkType
    <3> QED BY <3>1, <3>2, NoCallType DEF LinkType
  <2>4. CoordType'
    BY <2>1 DEF ReceiveReply, CoordType, TakeReply, Poison, Phases
  <2>5. EngineType'
    BY <2>1 DEF ReceiveReply, EngineType, TakeReply, Raise
  <2>6. LinkType'
    BY <2>1, <2>2, <2>3 DEF ReceiveReply, LinkType
  <2>7. RankType' /\ BoundType'
    BY <2>1 DEF ReceiveReply, RankType, BoundType, coordVars, engineVars, rankVars
  <2> QED BY <2>4, <2>5, <2>6, <2>7
<1>24. CASE \E r \in Ranks : CrashWorker(r) \/ HangWorker(r)
  <2>1. RankType' /\ BoundType'
    BY <1>24, BoundsAssumption DEF CrashWorker, HangWorker, Fault, rankRest, RankType, BoundType
  <2>2. CoordType' /\ EngineType' /\ LinkType'
    BY <1>24 DEF CrashWorker, HangWorker, rankRest, CoordType, EngineType, LinkType, coordVars, engineVars, rankVars
  <2> QED BY <2>1, <2>2
<1>25. CASE \E r \in Ranks : Worker(r)
  <2>1. PICK r \in Ranks : Worker(r)
    BY <1>25
  <2>2. UNCHANGED rankRest /\ HasRpc(r) /\ Dequeue(r)
    BY <2>1 DEF Worker, WorkerData, WorkerBare, WorkerPrepare, WorkerCommit, WorkerFence
  <2>3. Rpc(r) \in Rpcs /\ Rpc(r).gen \in Nat /\ Rpc(r).fin \subseteq Requests
        /\ Rpc(r).add \subseteq Requests /\ wDone[r] \in Nat /\ wActive[r] \in Nat
    BY <2>2, RpcType DEF Rpcs, RankType
  <2>4. CoordType' /\ EngineType'
    BY <2>2 DEF rankRest, CoordType, EngineType, coordVars, engineVars
  <2>5. call' \in Calls /\ rpcs' \in Seq(Rpcs)
    BY <2>2 DEF rankRest, LinkType
  <2>6. cur' \in [Ranks -> Nat]
    BY <2>2 DEF Dequeue, RankType
  <2>7. faults' \in 0 .. MaxFaults
    <3>1. faults' = faults \/ Fault
      BY <2>1 DEF Worker, WorkerData, WorkerBare, WorkerPrepare, WorkerCommit, WorkerFence,
                  Unclean
    <3> QED BY <3>1, BoundsAssumption DEF Fault, BoundType
  <2>8. BoundType'
    BY <2>2, <2>7 DEF rankRest, BoundType
  <2>9. CASE WorkerData(r)
    <3>1. resp' \in [Ranks -> Seq(Replies)]
      BY <2>2, <2>9, ReplyType DEF WorkerData, LinkType
    <3>2. RankType'
      <4>1. wPhase' \in [Ranks -> {"IDLE", "RUNNING", "PREPARED", "CLEAN_COMPLETE"}]
        BY <2>9 DEF WorkerData, RankType
      <4>2. wActive' \in [Ranks -> Nat] /\ wDone' \in [Ranks -> Nat]
        BY <2>3, <2>9 DEF WorkerData, RankType
      <4>3. holds' \in [Ranks -> SUBSET Requests]
        <5>1. holds \in [Ranks -> SUBSET Requests]
          BY DEF RankType
        <5>2. \/ holds' = holds
              \/ holds' = [holds EXCEPT ![r] = (@ \ Rpc(r).fin) \cup Rpc(r).add]
          BY <2>9 DEF WorkerData
        <5> QED BY <2>3, <5>1, <5>2
      <4>4. alive' \in [Ranks -> {"up", "hung", "dead"}]
        BY <2>9 DEF WorkerData, RankType
      <4> QED BY <2>6, <4>1, <4>2, <4>3, <4>4 DEF RankType
    <3> QED BY <2>4, <2>5, <2>8, <3>1, <3>2 DEF LinkType
  <2>10. CASE WorkerBare(r)
    <3>1. resp' \in [Ranks -> Seq(Replies)]
      BY <2>2, <2>10, ReplyType DEF WorkerBare
    <3>2. RankType'
      BY <2>6, <2>10 DEF WorkerBare, RankType
    <3> QED BY <2>4, <2>5, <2>8, <3>1, <3>2 DEF LinkType
  <2>11. CASE WorkerPrepare(r)
    <3>1. PICK ok \in BOOLEAN, act \in Nat, quiet \in BOOLEAN :
            Reply(r, ok, wDone[r], act, quiet)
      BY <2>3, <2>11 DEF WorkerPrepare
    <3>2. resp' \in [Ranks -> Seq(Replies)]
      BY <2>2, <2>3, <3>1, ReplyType
    <3>3. RankType'
      BY <2>6, <2>11 DEF WorkerPrepare, RankType
    <3> QED BY <2>4, <2>5, <2>8, <3>2, <3>3 DEF LinkType
  <2>12. CASE WorkerCommit(r)
    <3>1. PICK ok \in BOOLEAN, quiet \in BOOLEAN : Reply(r, ok, Rpc(r).gen, 0, quiet)
      BY <2>12 DEF WorkerCommit
    <3>2. resp' \in [Ranks -> Seq(Replies)]
      BY <2>2, <2>3, <3>1, ReplyType
    <3>3. RankType'
      BY <2>3, <2>6, <2>12 DEF WorkerCommit, RankType
    <3> QED BY <2>4, <2>5, <2>8, <3>2, <3>3 DEF LinkType
  <2>13. CASE WorkerFence(r)
    <3>1. resp' \in [Ranks -> Seq(Replies)]
      BY <2>2, <2>3, <2>13, ReplyType DEF WorkerFence
    <3>2. RankType'
      BY <2>6, <2>13 DEF WorkerFence, RankType
    <3> QED BY <2>4, <2>5, <2>8, <3>1, <3>2 DEF LinkType
  <2> QED BY <2>1, <2>9, <2>10, <2>11, <2>12, <2>13 DEF Worker
<1> QED
  BY <1>1, <1>2, <1>3, <1>4, <1>5, <1>6, <1>7, <1>8, <1>9, <1>10, <1>11, <1>12, <1>13, <1>14, <1>15, <1>16, <1>17, <1>18, <1>19, <1>20, <1>21, <1>22, <1>23, <1>24, <1>25
  DEF Next, EngineThread, Clients, MonitorThread, Faults

\* Every step keeps the phase, the recovery state and the active generation in
\* agreement; one case per action.
LEMMA CoordNext ==
  ASSUME TypeOK, CoordOK, CallOK, [Next]_vars
  PROVE  CoordOK'
<1> USE DEF TypeOK
<1>1. CASE UNCHANGED vars
  BY <1>1 DEF vars, coordVars, engineVars, rankVars, CoordOK, isFailed, CanAccept
<1>2. CASE CallTimeout
  BY <1>2 DEF CallTimeout, CallFails, Poison, CoordOK, isFailed, CanAccept
<1>3. CASE LateReply
  BY <1>3 DEF LateReply, CallFails, Poison, CoordOK, isFailed, CanAccept
<1>4. CASE AdmitRefused
  BY <1>4 DEF AdmitRefused, Poison, CoordOK, isFailed, CanAccept
<1>5. CASE Begin
  <2>1. /\ recovery = "READY" /\ phase \in {"IDLE", "CLEAN_COMPLETE"}
        /\ active' = lastDone + 1 /\ lastDone' = lastDone /\ lastDone \in Nat
    BY <1>5 DEF Begin, AdmissionState, CanAccept, CoordType
  <2>2. CASE SetPhase("BEGIN")
    BY <2>1, <2>2 DEF SetPhase, CoordOK, isFailed, CanAccept
  <2>3. CASE Poison
    BY <2>1, <2>3 DEF Poison, CoordOK, isFailed, CanAccept
  <2> QED BY <1>5, <2>2, <2>3 DEF Begin
<1>6. CASE Step
  BY <1>6 DEF Step, StepRpc, StepRpcRefused, SetPhase, MarkRunning, WorkPhases, Poison, CoordOK, isFailed, CanAccept
<1>7. CASE SampleStep
  BY <1>7 DEF SampleStep, StepRpc, StepRpcRefused, SetPhase, MarkRunning, WorkPhases, Poison, CoordOK, isFailed, CanAccept
<1>8. CASE FinishStep
  BY <1>8 DEF FinishStep, SetPhase, MarkCompleting, MarkAborting, MarkRunning, CoordOK, isFailed, CanAccept
<1>9. CASE DraftStep
  BY <1>9 DEF DraftStep, StepRpc, StepRpcRefused, SetPhase, MarkRunning, WorkPhases, Poison, CoordOK, isFailed, CanAccept
<1>10. CASE EndCall
  BY <1>10 DEF EndCall, coordVars, CoordOK, isFailed, CanAccept
<1>11. CASE FinalizeStep
  BY <1>11 DEF FinalizeStep, Completed, CallOK, Ops, StepOps, ControlOps, CleanupOps, CoordType, NextControl, FailFinalize, Poison, MarkCompleting, MarkRunning, CoordOK, isFailed, CanAccept
<1>12. CASE PrepareDone
  BY <1>12 DEF PrepareDone, Completed, CallOK, Ops, StepOps, ControlOps, CleanupOps, CoordType, NextControl, FailFinalize, Poison, MarkCompleting, MarkRunning, CoordOK, isFailed, CanAccept
<1>13. CASE CommitDone
  BY <1>13 DEF CommitDone, Completed, CallOK, Ops, StepOps, ControlOps, CleanupOps, CoordType, NextControl, FailFinalize, Poison, MarkCompleting, MarkRunning, CoordOK, isFailed, CanAccept
<1>14. CASE BaselineDone
  BY <1>14 DEF BaselineDone, FailFinalize, SetPhase, Poison, CoordOK, isFailed, CanAccept
<1>15. CASE ExecutorFailed
  BY <1>15 DEF ExecutorFailed, coordVars, CoordOK, isFailed, CanAccept
<1>16. CASE Abort
  BY <1>16 DEF Abort, SetPhase, MarkAborting, MarkRunning, CoordOK, isFailed, CanAccept
<1>17. CASE UtilityRpc
  BY <1>17 DEF UtilityRpc, SetPhase, MarkRunning, CoordOK, isFailed, CanAccept
<1>18. CASE MonitorDetect
  BY <1>18 DEF MonitorDetect, coordVars, CoordOK, isFailed, CanAccept
<1>19. CASE MonitorPoison
  BY <1>19 DEF MonitorPoison, Poison, CoordOK, isFailed, CanAccept
<1>20. CASE MonitorNotify
  BY <1>20 DEF MonitorNotify, coordVars, CoordOK, isFailed, CanAccept
<1>21. CASE Shutdown
  BY <1>21 DEF Shutdown, coordVars, CoordOK, isFailed, CanAccept
<1>22. CASE \E q \in Requests : Admit(q)
  BY <1>22 DEF Admit, Poison, CoordOK, isFailed, CanAccept
<1>23. CASE \E r \in Ranks : ReceiveReply(r)
  BY <1>23 DEF ReceiveReply, TakeReply, Poison, CoordOK, isFailed, CanAccept
<1>24. CASE \E r \in Ranks : CrashWorker(r) \/ HangWorker(r)
  BY <1>24 DEF CrashWorker, HangWorker, rankRest, coordVars, CoordOK, isFailed, CanAccept
<1>25. CASE \E r \in Ranks : Worker(r)
  BY <1>25 DEF Worker, WorkerData, WorkerBare, WorkerPrepare, WorkerCommit, WorkerFence, rankRest, coordVars, CoordOK, isFailed, CanAccept
<1> QED
  BY <1>1, <1>2, <1>3, <1>4, <1>5, <1>6, <1>7, <1>8, <1>9, <1>10, <1>11, <1>12, <1>13, <1>14, <1>15, <1>16, <1>17, <1>18, <1>19, <1>20, <1>21, <1>22, <1>23, <1>24, <1>25
  DEF Next, EngineThread, Clients, MonitorThread, Faults

\* What Send leaves in the call and at the end of the log.
LEMMA SendCall ==
  ASSUME TypeOK,
         NEW op \in Ops, NEW gen \in Nat, NEW waits \in SUBSET Ranks,
         NEW req \in Requests \cup {NoRequest}, NEW fin \in SUBSET Requests,
         Send(op, gen, waits, req, fin)
  PROVE  /\ call'.op = op /\ call'.gen = gen /\ call'.await = waits
         /\ call'.clean /\ call'.req = req /\ call'.fin = fin
         /\ call'.id = Len(rpcs') /\ rpcs' # <<>>
         /\ rpcs'[Len(rpcs')].op = op /\ rpcs'[Len(rpcs')].gen = gen
         /\ LastOp' = op
<1>1. /\ Len(rpcs') = Len(rpcs) + 1 /\ Len(rpcs) \in Nat /\ rpcs' \in Seq(Rpcs)
      /\ rpcs'[Len(rpcs')] = [op |-> op, gen |-> gen, fin |-> fin, add |-> scheduled]
  BY SendType DEF TypeOK, LinkType
<1>2. /\ call'.op = op /\ call'.id = Len(rpcs) + 1 /\ call'.gen = gen
      /\ call'.await = waits /\ call'.clean /\ call'.req = req /\ call'.fin = fin
  BY DEF Send, NextRpc
<1>3. rpcs' # <<>>
  BY <1>1
<1> QED BY <1>1, <1>2, <1>3 DEF LastOp

\* The membership facts that SendType and SendCall ask for.
LEMMA SendArgs ==
  ASSUME TypeOK
  PROVE  /\ Ops = {"execute", "sample", "draft", "prepare", "commit", "admission_fence",
                   "baseline_fence", "utility"}
         /\ active \in Nat /\ lastDone \in Nat
         /\ owner \in Requests \cup {NoRequest} /\ NoRequest \in Requests \cup {NoRequest}
         /\ Ranks \in SUBSET Ranks /\ {OutputRank} \in SUBSET Ranks
         /\ finished \in SUBSET Requests /\ {} \in SUBSET Requests
  BY RanksAssumption
  DEF Ops, StepOps, ControlOps, FenceOps, TypeOK, CoordType, EngineType

\* A step RPC is refused, or sent within the active generation.
LEMMA StepRpcCall ==
  ASSUME TypeOK, CoordOK, NEW op \in StepOps, NEW fin \in SUBSET Requests, StepRpc(op, fin)
  PROVE  \/ call' = NoCall /\ engine' = "dead" /\ UNCHANGED <<owned, rpcs>>
         \/ /\ active # 0 /\ engine' = engine
            /\ Send(op, active, {OutputRank}, owner, fin)
            /\ owned' = owned \cup {NextRpc}
  BY DEF StepRpc, StepRpcRefused, CoordOK, WorkPhases, CanAccept

\* An accepted reply changes only what the call still waits for.
LEMMA TakeCall ==
  ASSUME TypeOK, NEW r \in Ranks, NEW m, TakeReply(r, m)
  PROVE  /\ call'.op = call.op /\ call'.id = call.id /\ call'.gen = call.gen
         /\ call'.req = call.req /\ call'.fin = call.fin
         /\ call'.await = call.await \ {r}
         /\ call'.clean => call.clean /\ (call.op \in ControlOps => CleanReply(m))
<1> DEFINE d == call.clean /\ (call.op \in ControlOps => CleanReply(m))
<1>1. call' = [call EXCEPT !.await = call.await \ {r}, !.clean = d]
  BY DEF TakeReply
<1>2. call \in Calls
  BY DEF TypeOK, LinkType
<1> HIDE DEF d
<1>3. call'.clean = d
  BY <1>1, <1>2 DEF Calls
<1>4. /\ call'.op = call.op /\ call'.id = call.id /\ call'.gen = call.gen
      /\ call'.req = call.req /\ call'.fin = call.fin
      /\ call'.await = call.await \ {r}
  BY <1>1, <1>2 DEF Calls
<1> QED BY <1>3, <1>4 DEF d

\* Every step keeps the outstanding call at the end of the log; one case per action.
LEMMA CallNext ==
  ASSUME TypeOK, CoordOK, CallOK, [Next]_vars
  PROVE  CallOK'
<1>1. CASE UNCHANGED vars
  BY <1>1 DEF vars, coordVars, engineVars, rankVars, CallOK
<1>2. CASE CallTimeout
  BY <1>2 DEF CallTimeout, CallFails, Raise, CallOK, NoCall, Ops, StepOps, ControlOps, FenceOps, CleanupOps
<1>3. CASE LateReply
  BY <1>3 DEF LateReply, CallFails, Raise, CallOK, NoCall, Ops, StepOps, ControlOps, FenceOps, CleanupOps
<1>4. CASE AdmitRefused
  BY <1>4 DEF AdmitRefused, CallFails, Raise, CallOK, NoCall, Ops, StepOps, ControlOps, FenceOps, CleanupOps
<1>5. CASE Begin
  BY <1>5 DEF Begin, CallFails, Raise, CallOK, NoCall, Ops, StepOps, ControlOps, FenceOps, CleanupOps
<1>6. CASE Step
  <2>1. StepRpc("execute", finished) /\ UNCHANGED <<active, lastDone>>
    BY <1>6 DEF Step
  <2>2. CASE call' = NoCall
    BY <2>2 DEF CallOK, NoCall, Ops, StepOps, ControlOps, FenceOps, CleanupOps
  <2>3. CASE active # 0 /\ Send("execute", active, {OutputRank}, owner, finished)
    BY <2>1, <2>3, SendArgs, SendCall DEF CallOK, NoCall, Ops, StepOps, ControlOps, FenceOps, CleanupOps
  <2> QED BY <2>1, <2>2, <2>3, SendArgs, StepRpcCall DEF StepOps
<1>7. CASE SampleStep
  <2>1. StepRpc("sample", {}) /\ UNCHANGED <<active, lastDone>>
    BY <1>7 DEF SampleStep
  <2>2. CASE call' = NoCall
    BY <2>2 DEF CallOK, NoCall, Ops, StepOps, ControlOps, FenceOps, CleanupOps
  <2>3. CASE active # 0 /\ Send("sample", active, {OutputRank}, owner, {})
    BY <2>1, <2>3, SendArgs, SendCall DEF CallOK, NoCall, Ops, StepOps, ControlOps, FenceOps, CleanupOps
  <2> QED BY <2>1, <2>2, <2>3, SendArgs, StepRpcCall DEF StepOps
<1>8. CASE FinishStep
  BY <1>8 DEF FinishStep, Completed, CallOK, NoCall, Ops, StepOps, ControlOps, FenceOps, CleanupOps
<1>9. CASE DraftStep
  <2>1. StepRpc("draft", {}) /\ UNCHANGED <<active, lastDone>>
    BY <1>9 DEF DraftStep
  <2>2. CASE call' = NoCall
    BY <2>2 DEF CallOK, NoCall, Ops, StepOps, ControlOps, FenceOps, CleanupOps
  <2>3. CASE active # 0 /\ Send("draft", active, {OutputRank}, owner, {})
    BY <2>1, <2>3, SendArgs, SendCall DEF CallOK, NoCall, Ops, StepOps, ControlOps, FenceOps, CleanupOps
  <2> QED BY <2>1, <2>2, <2>3, SendArgs, StepRpcCall DEF StepOps
<1>10. CASE EndCall
  BY <1>10 DEF EndCall, CallFails, Raise, CallOK, NoCall, Ops, StepOps, ControlOps, FenceOps, CleanupOps
<1>11. CASE FinalizeStep
  <2>1. active # 0 /\ UNCHANGED <<active, lastDone>>
    BY <1>11 DEF FinalizeStep, Completed, CallOK, NoCall, Ops, StepOps, ControlOps, FenceOps, CleanupOps
  <2>2. CASE FailFinalize
    BY <2>2 DEF FailFinalize, CallOK, NoCall, Ops, StepOps, ControlOps, FenceOps, CleanupOps
  <2>3. CASE Send("prepare", active, Ranks, owner, {})
    BY <2>1, <2>3, SendArgs, SendCall DEF CallOK, NoCall, Ops, StepOps, ControlOps, FenceOps, CleanupOps
  <2> QED BY <1>11, <2>2, <2>3 DEF FinalizeStep, NextControl
<1>12. CASE PrepareDone
  <2>1. active # 0 /\ UNCHANGED <<active, lastDone>>
    BY <1>12 DEF PrepareDone, Completed, CallOK, NoCall, Ops, StepOps, ControlOps, FenceOps, CleanupOps
  <2>2. CASE FailFinalize
    BY <2>2 DEF FailFinalize, CallOK, NoCall, Ops, StepOps, ControlOps, FenceOps, CleanupOps
  <2>3. CASE Send("commit", active, Ranks, owner, {})
    BY <2>1, <2>3, SendArgs, SendCall DEF CallOK, NoCall, Ops, StepOps, ControlOps, FenceOps, CleanupOps
  <2> QED BY <1>12, <2>2, <2>3 DEF PrepareDone, NextControl
<1>13. CASE CommitDone
  <2>1. active # 0 /\ UNCHANGED <<active, lastDone>>
    BY <1>13 DEF CommitDone, Completed, CallOK, NoCall, Ops, StepOps, ControlOps, FenceOps, CleanupOps
  <2>2. CASE FailFinalize
    BY <2>2 DEF FailFinalize, CallOK, NoCall, Ops, StepOps, ControlOps, FenceOps, CleanupOps
  <2>3. CASE Send("baseline_fence", active, Ranks, owner, {})
    BY <2>1, <2>3, SendArgs, SendCall DEF CallOK, NoCall, Ops, StepOps, ControlOps, FenceOps, CleanupOps
  <2> QED BY <1>13, <2>2, <2>3 DEF CommitDone, NextControl
<1>14. CASE BaselineDone
  BY <1>14 DEF BaselineDone, FailFinalize, CallOK, NoCall, Ops, StepOps, ControlOps, FenceOps, CleanupOps
<1>15. CASE ExecutorFailed
  BY <1>15 DEF ExecutorFailed, coordVars, engineVars, rankVars, CallOK
<1>16. CASE Abort
  BY <1>16 DEF Abort, coordVars, engineVars, rankVars, CallOK
<1>17. CASE UtilityRpc
  <2>1. UNCHANGED <<active, lastDone>>
    BY <1>17 DEF UtilityRpc
  <2>2. CASE UNCHANGED <<call, rpcs>>
    BY <2>1, <2>2 DEF CallOK
  <2>3. CASE Send("utility", active, Ranks, NoRequest, {})
    BY <2>1, <2>3, SendArgs, SendCall DEF CallOK, NoCall, Ops, StepOps, ControlOps, FenceOps, CleanupOps
  <2> QED BY <1>17, <2>2, <2>3 DEF UtilityRpc
<1>18. CASE MonitorDetect
  BY <1>18 DEF MonitorDetect, coordVars, engineVars, rankVars, CallOK
<1>19. CASE MonitorPoison
  BY <1>19 DEF MonitorPoison, coordVars, engineVars, rankVars, CallOK
<1>20. CASE MonitorNotify
  BY <1>20 DEF MonitorNotify, coordVars, engineVars, rankVars, CallOK
<1>21. CASE Shutdown
  BY <1>21 DEF Shutdown, coordVars, engineVars, rankVars, CallOK
<1>22. CASE \E q \in Requests : Admit(q)
  <2>1. PICK q \in Requests : Admit(q)
    BY <1>22
  <2>2. active = 0 /\ UNCHANGED <<active, lastDone>>
    BY <2>1 DEF Admit, AdmissionState, CoordOK
  <2>3. CASE UNCHANGED <<call, rpcs>>
    BY <2>2, <2>3 DEF CallOK
  <2>4. CASE Send("admission_fence", lastDone, Ranks, q, {})
    BY <2>2, <2>4, SendArgs, SendCall DEF CallOK, NoCall, Ops, StepOps, ControlOps, FenceOps, CleanupOps
  <2> QED BY <2>1, <2>3, <2>4 DEF Admit
<1>23. CASE \E r \in Ranks : ReceiveReply(r)
  <2>1. PICK r \in Ranks : ReceiveReply(r)
    BY <1>23
  <2>2. UNCHANGED <<active, lastDone, rpcs>>
    BY <2>1 DEF ReceiveReply
  <2>3. \/ call' = call \/ call' = NoCall \/ TakeReply(r, Head(resp[r]))
    BY <2>1 DEF ReceiveReply, Raise
  <2>4. CASE TakeReply(r, Head(resp[r]))
    <3>1. /\ call'.op = call.op /\ call'.id = call.id /\ call'.gen = call.gen
          /\ call'.req = call.req /\ call'.await = call.await \ {r}
      BY <2>4, TakeCall
    <3>2. call.op # "none"
      BY <2>1 DEF ReceiveReply, CallOK, NoCall
    <3> QED BY <2>2, <3>1, <3>2 DEF CallOK
  <2>5. CASE call' = call
    BY <2>2, <2>5 DEF CallOK
  <2>6. CASE call' = NoCall
    BY <2>6 DEF CallOK, NoCall, Ops, StepOps, ControlOps, FenceOps, CleanupOps
  <2> QED BY <2>3, <2>4, <2>5, <2>6
<1>24. CASE \E r \in Ranks : CrashWorker(r) \/ HangWorker(r)
  BY <1>24 DEF CrashWorker, HangWorker, rankRest, coordVars, CallOK
<1>25. CASE \E r \in Ranks : Worker(r)
  BY <1>25 DEF Worker, WorkerData, WorkerBare, WorkerPrepare, WorkerCommit, WorkerFence, rankRest, coordVars, CallOK
<1> QED
  BY <1>1, <1>2, <1>3, <1>4, <1>5, <1>6, <1>7, <1>8, <1>9, <1>10, <1>11, <1>12, <1>13, <1>14, <1>15, <1>16, <1>17, <1>18, <1>19, <1>20, <1>21, <1>22, <1>23, <1>24, <1>25
  DEF Next, EngineThread, Clients, MonitorThread, Faults

\* Every step keeps what the last message says of the stage; one case per action.
LEMMA StageNext ==
  ASSUME TypeOK, CoordOK, CallOK, StageOK, [Next]_vars
  PROVE  StageOK'
<1> USE DEF TypeOK
<1>1. CASE UNCHANGED vars
  BY <1>1 DEF vars, coordVars, engineVars, rankVars, StageOK, LastOp
<1>2. CASE CallTimeout
  <2>1. UNCHANGED <<active, owned, scheduled, finished, rpcs>> /\ Raise /\ engine = "up"
    BY <1>2 DEF CallTimeout, CallFails
  <2> QED BY <2>1 DEF Raise, NoCall, LastOp, StageOK, CleanupOps
<1>3. CASE LateReply
  <2>1. UNCHANGED <<active, owned, scheduled, finished, rpcs>> /\ Raise /\ engine = "up"
    BY <1>3 DEF LateReply, CallFails
  <2> QED BY <2>1 DEF Raise, NoCall, LastOp, StageOK, CleanupOps
<1>4. CASE AdmitRefused
  <2>1. UNCHANGED <<active, owned, scheduled, finished, rpcs>> /\ call' = NoCall /\ active = 0
    BY <1>4 DEF AdmitRefused, engineVars, Completed, CallOK, NoCall, Ops, StepOps, ControlOps, FenceOps
  <2> QED BY <2>1 DEF NoCall, LastOp, StageOK, CleanupOps
<1>5. CASE Begin
  <2>1. UNCHANGED rpcs /\ call' = NoCall /\ LastOp = "admission_fence"
    BY <1>5 DEF Begin, Completed, CallOK, LastOp, NoCall, Ops, StepOps, ControlOps, FenceOps
  <2>2. active' # 0
    BY <1>5 DEF Begin, CoordType
  <2> QED BY <2>1, <2>2 DEF NoCall, LastOp, StageOK, CleanupOps
<1>6. CASE Step
  <2>1. StepRpc("execute", finished) /\ UNCHANGED active
    BY <1>6 DEF Step
  <2>2. finished' = {} /\ scheduled' = scheduled /\ scheduled \cup finished # {}
    BY <1>6 DEF Step
  <2>3. CASE call' = NoCall /\ engine' = "dead" /\ UNCHANGED <<owned, rpcs>>
    BY <2>1, <2>2, <2>3 DEF LastOp, NoCall, StageOK, CleanupOps
  <2>4. CASE active # 0 /\ Send("execute", active, {OutputRank}, owner, finished)
    <3>1. LastOp' = "execute" /\ call'.op = "execute"
      BY <2>4, SendArgs, SendCall
    <3> QED BY <2>1, <2>2, <2>4, <3>1 DEF StageOK, CleanupOps
  <2> QED BY <2>1, <2>3, <2>4, SendArgs, StepRpcCall DEF StepOps
<1>7. CASE SampleStep
  <2>1. StepRpc("sample", {}) /\ UNCHANGED active
    BY <1>7 DEF SampleStep
  <2>2. finished = {} /\ UNCHANGED <<scheduled, finished>> /\ LastOp = "execute"
    BY <1>7 DEF SampleStep, Completed, CallOK, StageOK, LastOp, NoCall, Ops, StepOps, ControlOps, FenceOps
  <2>3. CASE call' = NoCall /\ engine' = "dead" /\ UNCHANGED <<owned, rpcs>>
    BY <2>1, <2>2, <2>3 DEF LastOp, NoCall, StageOK, CleanupOps
  <2>4. CASE active # 0 /\ Send("sample", active, {OutputRank}, owner, {})
    <3>1. LastOp' = "sample" /\ call'.op = "sample"
      BY <2>4, SendArgs, SendCall
    <3> QED BY <2>1, <2>2, <2>4, <3>1 DEF StageOK, CleanupOps
  <2> QED BY <2>1, <2>3, <2>4, SendArgs, StepRpcCall DEF StepOps
<1>8. CASE FinishStep
  <2>1. /\ UNCHANGED <<active, owned, rpcs, engine>> /\ call'.op \notin Ops
        /\ active # 0 /\ LastOp = "sample"
    BY <1>8 DEF FinishStep, Completed, CallOK, LastOp, NoCall, Ops, StepOps, ControlOps, FenceOps
  <2> QED BY <2>1 DEF LastOp, Ops, StepOps, StageOK, CleanupOps
<1>9. CASE DraftStep
  <2>1. StepRpc("draft", {}) /\ UNCHANGED active
    BY <1>9 DEF DraftStep
  <2>2. UNCHANGED <<scheduled, finished>> /\ active # 0
    BY <1>9 DEF DraftStep, Completed, CallOK, StageOK, NoCall, Ops, StepOps, ControlOps, FenceOps
  <2>3. CASE call' = NoCall /\ engine' = "dead" /\ UNCHANGED <<owned, rpcs>>
    BY <2>1, <2>2, <2>3 DEF LastOp, NoCall, StageOK, CleanupOps
  <2>4. CASE active # 0 /\ Send("draft", active, {OutputRank}, owner, {})
    <3>1. LastOp' = "draft" /\ call'.op = "draft"
      BY <2>4, SendArgs, SendCall
    <3> QED BY <2>1, <2>2, <2>4, <3>1 DEF StageOK, CleanupOps
  <2> QED BY <2>1, <2>3, <2>4, SendArgs, StepRpcCall DEF StepOps
<1>10. CASE EndCall
  <2>1. /\ UNCHANGED <<active, owned, scheduled, finished, rpcs, engine>>
        /\ call' = NoCall /\ call.op \in {"draft", "utility"} /\ LastOp = call.op
    BY <1>10 DEF EndCall, Completed, coordVars, engineVars, CallOK, LastOp, NoCall, Ops, StepOps, ControlOps, FenceOps
  <2> QED BY <2>1 DEF NoCall, LastOp, StageOK, CleanupOps
<1>11. CASE FinalizeStep
  <2>1. /\ active # 0 /\ UNCHANGED <<active, scheduled, finished>>
        /\ call.op = "execute" /\ LastOp = "execute"
        /\ owned' \subseteq owned
    BY <1>11 DEF FinalizeStep, Completed, LastOp, CallOK, NoCall, Ops, StepOps, ControlOps, FenceOps, CleanupOps
  <2>2. CASE FailFinalize
    BY <2>1, <2>2 DEF FailFinalize, NoCall, LastOp, StageOK, CleanupOps
  <2>3. CASE Send("prepare", active, Ranks, owner, {}) /\ scheduled = {} /\ UNCHANGED engine
    <3>1. LastOp' = "prepare" /\ call'.op = "prepare" /\ rpcs'[Len(rpcs')].gen = active
      BY <2>3, SendArgs, SendCall
    <3> QED BY <2>1, <2>3, <3>1 DEF StageOK, CleanupOps
  <2> QED BY <1>11, <2>2, <2>3 DEF FinalizeStep, NextControl
<1>12. CASE PrepareDone
  <2>1. /\ active # 0 /\ UNCHANGED <<active, scheduled, finished>>
        /\ call.op = "prepare" /\ LastOp = "prepare"
        /\ owned' \subseteq owned
    BY <1>12 DEF PrepareDone, Completed, LastOp, CallOK, NoCall, Ops, StepOps, ControlOps, FenceOps, CleanupOps
  <2>2. CASE FailFinalize
    BY <2>1, <2>2 DEF FailFinalize, NoCall, LastOp, StageOK, CleanupOps
  <2>3. CASE Send("commit", active, Ranks, owner, {}) /\ owned' = {} /\ UNCHANGED engine
    <3>1. LastOp' = "commit" /\ call'.op = "commit" /\ rpcs'[Len(rpcs')].gen = active
      BY <2>3, SendArgs, SendCall
    <3> QED BY <2>1, <2>3, <3>1 DEF StageOK, CleanupOps
  <2> QED BY <1>12, <2>2, <2>3 DEF PrepareDone, NextControl
<1>13. CASE CommitDone
  <2>1. /\ active # 0 /\ UNCHANGED <<active, scheduled, finished>>
        /\ call.op = "commit" /\ LastOp = "commit"
        /\ owned' \subseteq owned
    BY <1>13 DEF CommitDone, Completed, LastOp, CallOK, NoCall, Ops, StepOps, ControlOps, FenceOps, CleanupOps
  <2>2. CASE FailFinalize
    BY <2>1, <2>2 DEF FailFinalize, NoCall, LastOp, StageOK, CleanupOps
  <2>3. CASE Send("baseline_fence", active, Ranks, owner, {}) /\ TRUE /\ UNCHANGED engine
    <3>1. LastOp' = "baseline_fence" /\ call'.op = "baseline_fence" /\ rpcs'[Len(rpcs')].gen = active
      BY <2>3, SendArgs, SendCall
    <3> QED BY <2>1, <2>3, <3>1 DEF StageOK, CleanupOps
  <2> QED BY <1>13, <2>2, <2>3 DEF CommitDone, NextControl
<1>14. CASE BaselineDone
  <2>1. /\ UNCHANGED <<owned, rpcs, scheduled, finished>> /\ call' = NoCall /\ active # 0
        /\ active' = 0 \/ (UNCHANGED active /\ engine' = "dead")
    BY <1>14 DEF BaselineDone, FailFinalize, Completed, LastOp, CallOK, NoCall, Ops, StepOps, ControlOps, FenceOps, CleanupOps
  <2>2. LastOp = "baseline_fence"
    BY <1>14 DEF BaselineDone, Completed, LastOp, CallOK, NoCall, Ops, StepOps, ControlOps, FenceOps, CleanupOps
  <2> QED BY <2>1, <2>2 DEF LastOp, NoCall, StageOK, CleanupOps
<1>15. CASE ExecutorFailed
  BY <1>15 DEF ExecutorFailed, coordVars, engineVars, rankVars, StageOK, LastOp
<1>16. CASE Abort
  <2>1. /\ UNCHANGED <<active, owned, call, rpcs, engine>>
        /\ finished' = finished \cup scheduled /\ scheduled' = {}
        /\ call.op = "none" /\ engine = "up"
    BY <1>16 DEF Abort, Idle, NoCall
  <2> QED BY <2>1 DEF LastOp, StageOK, CleanupOps
<1>17. CASE UtilityRpc
  <2>1. UNCHANGED <<active, scheduled, finished, engine>> /\ call.op = "none"
    BY <1>17 DEF UtilityRpc, engineVars, Idle, NoCall
  <2>2. CASE UNCHANGED <<owned, call, rpcs>>
    BY <2>1, <2>2 DEF LastOp, StageOK, CleanupOps
  <2>3. CASE Send("utility", active, Ranks, NoRequest, {})
    <3>1. LastOp' = "utility" /\ call'.op = "utility"
      BY <2>3, SendArgs, SendCall
    <3> QED BY <2>1, <3>1 DEF StageOK, CleanupOps
  <2> QED BY <1>17, <2>2, <2>3 DEF UtilityRpc
<1>18. CASE MonitorDetect
  BY <1>18 DEF MonitorDetect, coordVars, engineVars, rankVars, StageOK, LastOp
<1>19. CASE MonitorPoison
  BY <1>19 DEF MonitorPoison, coordVars, engineVars, rankVars, StageOK, LastOp
<1>20. CASE MonitorNotify
  BY <1>20 DEF MonitorNotify, coordVars, engineVars, rankVars, StageOK, LastOp
<1>21. CASE Shutdown
  BY <1>21 DEF Shutdown, coordVars, engineVars, rankVars, StageOK, LastOp
<1>22. CASE \E q \in Requests : Admit(q)
  <2>1. PICK q \in Requests : Admit(q)
    BY <1>22
  <2>2. active = 0 /\ UNCHANGED <<active, owned, scheduled, finished, engine>>
    BY <2>1 DEF Admit, AdmissionState, CoordOK
  <2>3. CASE UNCHANGED <<call, rpcs>>
    BY <2>2, <2>3 DEF LastOp, StageOK, CleanupOps
  <2>4. CASE Send("admission_fence", lastDone, Ranks, q, {})
    <3>1. LastOp' = "admission_fence" /\ call'.op = "admission_fence"
      BY <2>4, SendArgs, SendCall
    <3> QED BY <2>2, <3>1 DEF StageOK, CleanupOps
  <2> QED BY <2>1, <2>3, <2>4 DEF Admit
<1>23. CASE \E r \in Ranks : ReceiveReply(r)
  <2>1. PICK r \in Ranks : ReceiveReply(r)
    BY <1>23
  <2>2. UNCHANGED <<active, rpcs, scheduled, finished>> /\ engine = "up" /\ owned' \subseteq owned
    BY <2>1 DEF ReceiveReply, TakeReply
  <2>3. UNCHANGED <<call, engine>> \/ Raise \/ TakeReply(r, Head(resp[r]))
    BY <2>1 DEF ReceiveReply
  <2>4. CASE TakeReply(r, Head(resp[r]))
    <3>1. call'.op = call.op /\ engine' = engine
      BY <2>4, TakeCall DEF TakeReply
    <3> QED BY <2>2, <3>1 DEF LastOp, StageOK, CleanupOps
  <2>5. CASE UNCHANGED <<call, engine>>
    BY <2>2, <2>5 DEF LastOp, StageOK, CleanupOps
  <2>6. CASE Raise
    BY <2>2, <2>6 DEF Raise, NoCall, LastOp, StageOK, CleanupOps
  <2> QED BY <2>3, <2>4, <2>5, <2>6
<1>24. CASE \E r \in Ranks : CrashWorker(r) \/ HangWorker(r)
  BY <1>24 DEF CrashWorker, HangWorker, rankRest, coordVars, engineVars, StageOK, LastOp
<1>25. CASE \E r \in Ranks : Worker(r)
  BY <1>25 DEF Worker, WorkerData, WorkerBare, WorkerPrepare, WorkerCommit, WorkerFence, rankRest, coordVars, engineVars, StageOK, LastOp
<1> QED
  BY <1>1, <1>2, <1>3, <1>4, <1>5, <1>6, <1>7, <1>8, <1>9, <1>10, <1>11, <1>12, <1>13, <1>14, <1>15, <1>16, <1>17, <1>18, <1>19, <1>20, <1>21, <1>22, <1>23, <1>24, <1>25
  DEF Next, EngineThread, Clients, MonitorThread, Faults

-------------------------------------------------------------------------------
(* Every step leaves the ranks and the log alone, or appends one message, or    *)
(* opens or closes a generation, or is a rank's.                                *)

rankState == <<cur, wPhase, wActive, wDone, holds>>

Quiet ==
  /\ UNCHANGED <<active, lastDone, rpcs, rankState>> /\ LastOp' = LastOp
  /\ \/ UNCHANGED resp /\ (call' = call \/ call'.op \notin ControlOps)
     \/ \E r \in Ranks : ReceiveReply(r)

Sent(op) ==
  /\ UNCHANGED <<active, lastDone, rankState, resp>>
  /\ Len(rpcs') = Len(rpcs) + 1
  /\ \A i \in 1 .. Len(rpcs) : rpcs'[i] = rpcs[i]
  /\ rpcs'[Len(rpcs')].op = op /\ LastOp' = op /\ call'.op = op
  /\ op # "admission_fence" => rpcs'[Len(rpcs')].gen = active
  /\ op \in ControlOps => call'.await = Ranks

\* What Sent abbreviates follows from Send.
LEMMA SendSent ==
  ASSUME TypeOK,
         NEW op \in Ops, NEW gen \in Nat, NEW waits \in SUBSET Ranks,
         NEW req \in Requests \cup {NoRequest}, NEW fin \in SUBSET Requests,
         Send(op, gen, waits, req, fin),
         op # "admission_fence" => gen = active,
         op \in ControlOps => waits = Ranks,
         UNCHANGED <<active, lastDone, rankState, resp>>
  PROVE  Sent(op)
  BY SendCall, SendType DEF Sent

\* A message sent in a generation that has not begun its cleanup.
SentStep(op) == op \in StepOps \cup {"utility", "prepare"} /\ Sent(op) /\ LastOp \notin CleanupOps

\* A message sent between generations.
SentBetween(op) == op \in {"utility", "admission_fence"} /\ Sent(op) /\ active = 0

\* The second and the third message of the cleanup, each after the answers to the
\* one before it.
SentAfter(op, prev) ==
  /\ Sent(op) /\ active # 0 /\ LastOp = prev
  /\ call.op = prev /\ call.await = {} /\ call.clean

Kinds ==
  \/ Quiet
  \/ \E op \in Ops : active # 0 /\ SentStep(op)
  \/ \E op \in Ops : SentBetween(op)
  \/ SentAfter("commit", "prepare")
  \/ SentAfter("baseline_fence", "commit")
  \/ Begin
  \/ BaselineDone
  \/ \E r \in Ranks : Worker(r)

\* Every step is of one of the few kinds a rank can tell apart: nothing of its
\* concern, an RPC of a stage is sent, the baseline is reached, or a worker moves.
LEMMA StepKinds ==
  ASSUME TypeOK, CoordOK, CallOK, StageOK, [Next]_vars
  PROVE  Kinds
<1>1. CASE UNCHANGED vars
  BY <1>1 DEF vars, coordVars, engineVars, rankVars, Kinds, Quiet, LastOp, rankState
<1>2. CASE CallTimeout
  BY <1>2 DEF CallTimeout, CallFails, Raise, NoCall, ControlOps, FenceOps, rankVars, rankState, Kinds, Quiet, LastOp
<1>3. CASE LateReply
  BY <1>3 DEF LateReply, CallFails, Raise, NoCall, ControlOps, FenceOps, rankVars, rankState, Kinds, Quiet, LastOp
<1>4. CASE AdmitRefused
  BY <1>4 DEF AdmitRefused, NoCall, ControlOps, FenceOps, coordVars, engineVars, rankVars, rankState, Kinds, Quiet, LastOp
<1>5. CASE Begin
  BY <1>5 DEF Kinds
<1>6. CASE Step
  <2>1. StepRpc("execute", finished) /\ UNCHANGED <<active, lastDone, rankState, resp>>
    BY <1>6 DEF Step, rankVars, rankState
  <2>2. active # 0 => LastOp \notin CleanupOps
    BY <1>6 DEF Step, StageOK
  <2>3. CASE UNCHANGED rpcs /\ (call' = NoCall \/ call' = call)
    BY <2>1, <2>3 DEF Kinds, Quiet, LastOp, NoCall, ControlOps, FenceOps
  <2>4. CASE active # 0 /\ Send("execute", active, {OutputRank}, owner, finished)
    <3>1. Sent("execute")
      BY <2>1, <2>4, SendArgs, SendSent DEF ControlOps, FenceOps
    <3> QED BY <2>2, <2>4, <3>1, SendArgs DEF Kinds, SentStep, StepOps
  <2> QED BY <2>1, <2>3, <2>4, SendArgs, StepRpcCall DEF StepOps
<1>7. CASE SampleStep
  <2>1. StepRpc("sample", {}) /\ UNCHANGED <<active, lastDone, rankState, resp>>
    BY <1>7 DEF SampleStep, rankVars, rankState
  <2>2. active # 0 => LastOp \notin CleanupOps
    BY <1>7 DEF SampleStep, Completed, CallOK, LastOp, NoCall, Ops, StepOps, ControlOps, FenceOps, CleanupOps
  <2>3. CASE UNCHANGED rpcs /\ (call' = NoCall \/ call' = call)
    BY <2>1, <2>3 DEF Kinds, Quiet, LastOp, NoCall, ControlOps, FenceOps
  <2>4. CASE active # 0 /\ Send("sample", active, {OutputRank}, owner, {})
    <3>1. Sent("sample")
      BY <2>1, <2>4, SendArgs, SendSent DEF ControlOps, FenceOps
    <3> QED BY <2>2, <2>4, <3>1, SendArgs DEF Kinds, SentStep, StepOps
  <2> QED BY <2>1, <2>3, <2>4, SendArgs, StepRpcCall DEF StepOps
<1>8. CASE FinishStep
  BY <1>8 DEF FinishStep, NoCall, ControlOps, FenceOps, coordVars, engineVars, rankVars, rankState, Kinds, Quiet, LastOp
<1>9. CASE DraftStep
  <2>1. StepRpc("draft", {}) /\ UNCHANGED <<active, lastDone, rankState, resp>>
    BY <1>9 DEF DraftStep, rankVars, rankState
  <2>2. active # 0 => LastOp \notin CleanupOps
    BY <1>9 DEF DraftStep, Completed, StageOK, CallOK, NoCall, Ops, StepOps, ControlOps, FenceOps, CleanupOps
  <2>3. CASE UNCHANGED rpcs /\ (call' = NoCall \/ call' = call)
    BY <2>1, <2>3 DEF Kinds, Quiet, LastOp, NoCall, ControlOps, FenceOps
  <2>4. CASE active # 0 /\ Send("draft", active, {OutputRank}, owner, {})
    <3>1. Sent("draft")
      BY <2>1, <2>4, SendArgs, SendSent DEF ControlOps, FenceOps
    <3> QED BY <2>2, <2>4, <3>1, SendArgs DEF Kinds, SentStep, StepOps
  <2> QED BY <2>1, <2>3, <2>4, SendArgs, StepRpcCall DEF StepOps
<1>10. CASE EndCall
  BY <1>10 DEF EndCall, NoCall, ControlOps, FenceOps, coordVars, engineVars, rankVars, rankState, Kinds, Quiet, LastOp
<1>11. CASE FinalizeStep
  <2>1. /\ active # 0 /\ UNCHANGED <<active, lastDone, rankState, resp>>
        /\ LastOp = "execute"
    BY <1>11 DEF FinalizeStep, rankVars, rankState, Completed, LastOp, CallOK, NoCall, Ops, StepOps, ControlOps, FenceOps
  <2>2. CASE UNCHANGED rpcs /\ (call' = NoCall \/ call' = call)
    BY <2>1, <2>2 DEF Kinds, Quiet, LastOp, NoCall, ControlOps, FenceOps
  <2>3. CASE Send("prepare", active, Ranks, owner, {})
    <3>1. Sent("prepare")
      BY <2>1, <2>3, SendArgs, SendSent
    <3> QED BY <2>1, <3>1, SendArgs DEF Kinds, SentStep, CleanupOps
  <2> QED BY <1>11, <2>2, <2>3 DEF FinalizeStep, NextControl, FailFinalize
<1>12. CASE PrepareDone
  <2>1. /\ active # 0 /\ UNCHANGED <<active, lastDone, rankState, resp>>
        /\ LastOp = "prepare" /\ call.op = "prepare" /\ call.await = {}
    BY <1>12 DEF PrepareDone, rankVars, rankState, Completed, LastOp, CallOK, NoCall, Ops, StepOps, ControlOps, FenceOps, CleanupOps
  <2>2. CASE UNCHANGED rpcs /\ (call' = NoCall \/ call' = call)
    BY <2>1, <2>2 DEF Kinds, Quiet, LastOp, NoCall, ControlOps, FenceOps
  <2>3. CASE Send("commit", active, Ranks, owner, {}) /\ call.clean
    <3>1. Sent("commit")
      BY <2>1, <2>3, SendArgs, SendSent
    <3> QED BY <2>1, <2>3, <3>1 DEF Kinds, SentAfter
  <2> QED BY <1>12, <2>2, <2>3 DEF PrepareDone, NextControl, FailFinalize
<1>13. CASE CommitDone
  <2>1. /\ active # 0 /\ UNCHANGED <<active, lastDone, rankState, resp>>
        /\ LastOp = "commit" /\ call.op = "commit" /\ call.await = {}
    BY <1>13 DEF CommitDone, rankVars, rankState, Completed, LastOp, CallOK, NoCall, Ops, StepOps, ControlOps, FenceOps, CleanupOps
  <2>2. CASE UNCHANGED rpcs /\ (call' = NoCall \/ call' = call)
    BY <2>1, <2>2 DEF Kinds, Quiet, LastOp, NoCall, ControlOps, FenceOps
  <2>3. CASE Send("baseline_fence", active, Ranks, owner, {}) /\ call.clean
    <3>1. Sent("baseline_fence")
      BY <2>1, <2>3, SendArgs, SendSent
    <3> QED BY <2>1, <2>3, <3>1 DEF Kinds, SentAfter
  <2> QED BY <1>13, <2>2, <2>3 DEF CommitDone, NextControl, FailFinalize
<1>14. CASE BaselineDone
  BY <1>14 DEF Kinds
<1>15. CASE ExecutorFailed
  BY <1>15 DEF ExecutorFailed, NoCall, ControlOps, FenceOps, coordVars, engineVars, rankVars, rankState, Kinds, Quiet, LastOp
<1>16. CASE Abort
  BY <1>16 DEF Abort, NoCall, ControlOps, FenceOps, coordVars, engineVars, rankVars, rankState, Kinds, Quiet, LastOp
<1>17. CASE UtilityRpc
  <2>1. UNCHANGED <<active, lastDone, rankState, resp>>
    BY <1>17 DEF UtilityRpc, rankVars, rankState
  <2>2. active # 0 => LastOp \notin CleanupOps
    BY <1>17 DEF UtilityRpc, Idle, NoCall, StageOK, CleanupOps
  <2>3. CASE UNCHANGED rpcs /\ (call' = NoCall \/ call' = call)
    BY <2>1, <2>3 DEF Kinds, Quiet, LastOp, NoCall, ControlOps, FenceOps
  <2>4. CASE Send("utility", active, Ranks, NoRequest, {})
    <3>1. Sent("utility")
      BY <2>1, <2>4, SendArgs, SendSent
    <3> QED BY <2>2, <3>1, SendArgs DEF Kinds, SentStep, SentBetween
  <2> QED BY <1>17, <2>3, <2>4 DEF UtilityRpc
<1>18. CASE MonitorDetect
  BY <1>18 DEF MonitorDetect, NoCall, ControlOps, FenceOps, coordVars, engineVars, rankVars, rankState, Kinds, Quiet, LastOp
<1>19. CASE MonitorPoison
  BY <1>19 DEF MonitorPoison, NoCall, ControlOps, FenceOps, coordVars, engineVars, rankVars, rankState, Kinds, Quiet, LastOp
<1>20. CASE MonitorNotify
  BY <1>20 DEF MonitorNotify, NoCall, ControlOps, FenceOps, coordVars, engineVars, rankVars, rankState, Kinds, Quiet, LastOp
<1>21. CASE Shutdown
  BY <1>21 DEF Shutdown, NoCall, ControlOps, FenceOps, coordVars, engineVars, rankVars, rankState, Kinds, Quiet, LastOp
<1>22. CASE \E q \in Requests : Admit(q)
  <2>1. PICK q \in Requests : Admit(q)
    BY <1>22
  <2>2. active = 0 /\ UNCHANGED <<active, lastDone, rankState, resp>>
    BY <2>1 DEF Admit, AdmissionState, CoordOK, rankVars, rankState
  <2>3. CASE UNCHANGED rpcs /\ (call' = NoCall \/ call' = call)
    BY <2>2, <2>3 DEF Kinds, Quiet, LastOp, NoCall, ControlOps, FenceOps
  <2>4. CASE Send("admission_fence", lastDone, Ranks, q, {})
    <3>1. Sent("admission_fence")
      BY <2>2, <2>4, SendArgs, SendSent
    <3> QED BY <2>2, <3>1, SendArgs DEF Kinds, SentBetween
  <2> QED BY <2>1, <2>3, <2>4 DEF Admit
<1>23. CASE \E r \in Ranks : ReceiveReply(r)
  BY <1>23 DEF ReceiveReply, rankVars, rankState, Kinds, Quiet, LastOp
<1>24. CASE \E r \in Ranks : CrashWorker(r) \/ HangWorker(r)
  BY <1>24 DEF CrashWorker, HangWorker, rankRest, coordVars, rankState, Kinds, Quiet, LastOp
<1>25. CASE \E r \in Ranks : Worker(r)
  BY <1>25 DEF Kinds
<1> QED
  BY <1>1, <1>2, <1>3, <1>4, <1>5, <1>6, <1>7, <1>8, <1>9, <1>10, <1>11, <1>12, <1>13, <1>14, <1>15, <1>16, <1>17, <1>18, <1>19, <1>20, <1>21, <1>22, <1>23, <1>24, <1>25
  DEF Next, EngineThread, Clients, MonitorThread, Faults

-------------------------------------------------------------------------------
(* One rank under the steps of the others                                      *)

RInv(r) == UnreadOK(r) /\ RankOK(r) /\ ReplyOK(r) /\ ProofOK(r)

\* The numbers the ranks are compared with are naturals.
LEMMA LenType ==
  ASSUME TypeOK, NEW r \in Ranks
  PROVE  /\ cur[r] \in Nat /\ Len(rpcs) \in Nat /\ Len(resp[r]) \in Nat
         /\ lastDone \in Nat /\ active \in Nat
  BY DEF TypeOK, CoordType, LinkType, RankType

\* A step that sends nothing and moves no worker keeps the invariant of a rank.
LEMMA QuietRank ==
  ASSUME TypeOK, CallOK, NEW r \in Ranks, RInv(r), Quiet
  PROVE  RInv(r)'
<1>1. /\ UNCHANGED <<active, lastDone, rpcs, cur, wPhase, wActive, wDone, holds>>
      /\ LastOp' = LastOp
  BY DEF Quiet, rankState
<1>2. UnreadOK(r)' /\ RankOK(r)'
  BY <1>1 DEF RInv, UnreadOK, RankOK, Out
<1>3. CASE UNCHANGED resp /\ (call' = call \/ call'.op \notin ControlOps)
  BY <1>1, <1>2, <1>3 DEF RInv, ReplyOK, ProofOK
<1>4. CASE \E s \in Ranks : ReceiveReply(s)
  <2>1. PICK s \in Ranks : ReceiveReply(s)
    BY <1>4
  <2>2. resp[s] # <<>> /\ resp' = [resp EXCEPT ![s] = Tail(@)]
    BY <2>1 DEF ReceiveReply
  <2>3. ReplyOK(r)'
    <3>1. CASE r = s
      <4>1. /\ Len(resp'[r]) = Len(resp[r]) - 1
            /\ \A k \in 1 .. Len(resp'[r]) : resp'[r][k] = resp[r][k + 1]
        BY <2>2, <3>1, ReceiveType
      <4>2. Len(resp[r]) \in Nat
        BY LenType
      <4>3. \A k \in 1 .. Len(resp'[r]) : k + 1 \in 1 .. Len(resp[r])
        BY <4>1, <4>2
      <4> QED BY <1>1, <4>1, <4>3 DEF RInv, ReplyOK
    <3>2. CASE r # s
      <4>1. resp'[r] = resp[r]
        BY <2>2, <3>2, ReceiveType
      <4> QED BY <1>1, <4>1 DEF RInv, ReplyOK
    <3> QED BY <3>1, <3>2
  <2>4. ProofOK(r)'
    <3>1. CASE call' = call \/ call' = NoCall
      BY <1>1, <3>1 DEF RInv, ProofOK, NoCall, ControlOps, FenceOps
    <3> DEFINE m == Head(resp[s])
    <3>2. CASE TakeReply(s, m) /\ Accepts(m) /\ m.ok /\ call.op \in ControlOps
      <4>1. /\ call'.op = call.op /\ call'.await = call.await \ {s}
            /\ call'.clean => call.clean /\ CleanReply(m)
        BY <3>2, TakeCall
      <4>2. CASE r # s
        BY <1>1, <4>1, <4>2 DEF RInv, ProofOK
      <4>3. CASE r = s
        <5>1. m.ok /\ m.id = call.id
          BY <3>2 DEF Accepts
        <5>2. call.id = Len(rpcs) /\ (call.op = "prepare" => LastOp = "prepare")
          BY <3>2 DEF CallOK, LastOp, Ops
        <5>3. 1 \in 1 .. Len(resp[r]) /\ m = resp[r][1]
          BY <2>2, <4>3, ReceiveType DEF TypeOK, LinkType
        <5>4. m.id <= cur[r] /\ (m.id = Len(rpcs) /\ LastOp = "prepare" /\ m.ok /\ m.quiet
                                 => wPhase[r] = "PREPARED")
          BY <5>3 DEF RInv, ReplyOK
        <5>5. cur[r] = Len(rpcs)
          BY <5>1, <5>2, <5>4, LenType DEF RInv, RankOK
        <5>6. call.op = "prepare" /\ call'.clean => wPhase[r] = "PREPARED"
          BY <4>1, <5>1, <5>2, <5>4 DEF CleanReply
        <5> QED BY <1>1, <4>1, <5>5, <5>6 DEF ProofOK
      <4> QED BY <4>2, <4>3
    <3>3. CASE TakeReply(s, m) /\ call.op \notin ControlOps
      BY <3>3, TakeCall DEF ProofOK
    <3>4. \/ call' = call \/ call' = NoCall
          \/ TakeReply(s, m) /\ (call.op \notin ControlOps \/ (Accepts(m) /\ m.ok))
      BY <2>1 DEF ReceiveReply, Raise, Bare, ControlOps, FenceOps
    <3> QED BY <3>1, <3>2, <3>3, <3>4
  <2> QED BY <1>2, <2>3, <2>4 DEF RInv
<1> QED BY <1>3, <1>4 DEF Quiet

\* What every message leaves alone.
LEMMA SentRank ==
  ASSUME TypeOK, NEW r \in Ranks, RInv(r), NEW op \in Ops, Sent(op)
  PROVE  ReplyOK(r)' /\ ProofOK(r)'
<1>1. Len(rpcs') = Len(rpcs) + 1 /\ UNCHANGED <<cur, resp>>
  BY DEF Sent, rankState
<1>2. cur[r] <= Len(rpcs) /\ \A k \in 1 .. Len(resp[r]) : resp[r][k].id <= cur[r]
  BY DEF RInv, RankOK, ReplyOK
<1>3. \A k \in 1 .. Len(resp[r]) : resp[r][k].id \in Nat
  <2>1. resp[r] \in Seq(Replies)
    BY DEF TypeOK, LinkType
  <2>2. \A k \in 1 .. Len(resp[r]) : resp[r][k] \in Replies
    BY <2>1
  <2> QED BY <2>2 DEF Replies
<1>4. ReplyOK(r)'
  BY <1>1, <1>2, <1>3, LenType DEF ReplyOK
<1> QED BY <1>4 DEF Sent, ProofOK

\* So does the sending of an RPC inside a generation, up to prepare, ...
LEMMA SentStepRank ==
  ASSUME TypeOK, NEW r \in Ranks, RInv(r), NEW op \in Ops, active # 0, SentStep(op)
  PROVE  UnreadOK(r)' /\ RankOK(r)'
<1>1. /\ Len(rpcs') = Len(rpcs) + 1
      /\ UNCHANGED <<active, lastDone, cur, wPhase, wActive, wDone, holds>>
      /\ \A i \in 1 .. Len(rpcs) : rpcs'[i] = rpcs[i]
      /\ rpcs'[Len(rpcs')].op = op /\ rpcs'[Len(rpcs')].gen = active /\ LastOp' = op
      /\ op \in {"execute", "sample", "draft", "utility", "prepare"}
  BY DEF Sent, rankState, SentStep, StepOps
<1>2. LastOp \notin CleanupOps
  BY DEF SentStep
<1>3. RankOK(r)'
  BY <1>1, <1>2, LenType DEF RInv, RankOK, Out, CleanupOps
<1>4. UnreadOK(r)'
  <2> SUFFICES ASSUME NEW i \in (cur[r] + 1) .. Len(rpcs')
               PROVE  \/ rpcs'[i].op \in StepOps \cup {"utility"} /\ rpcs'[i].gen = active
                      \/ i = Len(rpcs') /\ rpcs'[i].op \in CleanupOps
    BY <1>1 DEF UnreadOK
  <2>1. CASE i = Len(rpcs')
    BY <1>1, <2>1 DEF StepOps, CleanupOps
  <2>2. CASE i # Len(rpcs')
    <3>1. i \in (cur[r] + 1) .. Len(rpcs) /\ i \in 1 .. Len(rpcs)
      BY <1>1, <2>2, LenType
    <3>2. i = Len(rpcs) => rpcs[i].op = LastOp
      BY <3>1 DEF LastOp
    <3>3. rpcs[i].op \in StepOps \cup {"utility"} /\ rpcs[i].gen = active
      BY <1>2, <3>1, <3>2 DEF RInv, UnreadOK
    <3> QED BY <1>1, <3>1, <3>3
  <2> QED BY <2>1, <2>2
<1> QED BY <1>3, <1>4

\* ... of an RPC between two generations, ...
LEMMA SentBetweenRank ==
  ASSUME TypeOK, NEW r \in Ranks, RInv(r), NEW op \in Ops, SentBetween(op)
  PROVE  UnreadOK(r)' /\ RankOK(r)'
<1>1. /\ Len(rpcs') = Len(rpcs) + 1
      /\ UNCHANGED <<active, lastDone, cur, wPhase, wActive, wDone, holds>>
      /\ \A i \in 1 .. Len(rpcs) : rpcs'[i] = rpcs[i]
      /\ rpcs'[Len(rpcs')].op = op /\ (op = "utility" => rpcs'[Len(rpcs')].gen = 0)
      /\ op \in {"utility", "admission_fence"} /\ active = 0
  BY DEF Sent, rankState, SentBetween
<1>2. RankOK(r)'
  BY <1>1, LenType DEF RInv, RankOK, Out
<1>3. UnreadOK(r)'
  <2> SUFFICES ASSUME NEW i \in (cur[r] + 1) .. Len(rpcs')
               PROVE  /\ rpcs'[i].op \in FenceOps \cup {"utility"}
                      /\ rpcs'[i].op = "utility" => rpcs'[i].gen = 0
    BY <1>1 DEF UnreadOK
  <2>1. CASE i = Len(rpcs')
    BY <1>1, <2>1 DEF FenceOps
  <2>2. CASE i # Len(rpcs')
    <3>1. i \in (cur[r] + 1) .. Len(rpcs) /\ i \in 1 .. Len(rpcs)
      BY <1>1, <2>2, LenType
    <3> QED BY <1>1, <3>1 DEF RInv, UnreadOK
  <2> QED BY <2>1, <2>2
<1> QED BY <1>2, <1>3

\* ... and of commit and of the baseline fence, after the proof of every rank.
LEMMA SentAfterRank ==
  ASSUME TypeOK, NEW r \in Ranks, RInv(r),
         SentAfter("commit", "prepare") \/ SentAfter("baseline_fence", "commit")
  PROVE  UnreadOK(r)' /\ RankOK(r)'
<1>1. PICK op \in {"commit", "baseline_fence"} : Sent(op) /\ LastOp = IF op = "commit" THEN "prepare" ELSE "commit"
  BY DEF SentAfter
<1>2. /\ Len(rpcs') = Len(rpcs) + 1
      /\ UNCHANGED <<active, lastDone, cur, wPhase, wActive, wDone, holds>>
      /\ rpcs'[Len(rpcs')].op = op /\ LastOp' = op /\ active # 0
  BY <1>1 DEF Sent, rankState, SentAfter
<1>3. cur[r] = Len(rpcs) /\ (op = "commit" => wPhase[r] = "PREPARED")
  BY <1>1 DEF SentAfter, RInv, ProofOK, ControlOps, FenceOps
<1>4. UnreadOK(r)'
  BY <1>2, <1>3, LenType DEF UnreadOK, CleanupOps
<1>5. RankOK(r)'
  BY <1>1, <1>2, <1>3, LenType DEF RInv, RankOK, Out
<1> QED BY <1>4, <1>5

\* A generation begins and ends with nothing left for the rank to read.
LEMMA BeginRank ==
  ASSUME TypeOK, CallOK, NEW r \in Ranks, RInv(r), Begin
  PROVE  RInv(r)'
<1>1. /\ UNCHANGED <<lastDone, rpcs, resp, cur, wPhase, wActive, wDone, holds>>
      /\ active' = lastDone + 1 /\ call' = NoCall
  BY DEF Begin, rankVars
<1>2. active = 0 /\ LastOp = "admission_fence" /\ LastOp' = LastOp /\ cur[r] = Len(rpcs)
  BY <1>1 DEF Begin, Completed, CallOK, LastOp, Ops, RInv, ProofOK, ControlOps, FenceOps
<1>3. active' # 0
  BY <1>1, LenType
<1>4. UnreadOK(r)'
  BY <1>1, <1>2, LenType DEF UnreadOK
<1>5. RankOK(r)'
  BY <1>1, <1>2, <1>3 DEF RInv, RankOK, Out
<1>6. ReplyOK(r)' /\ ProofOK(r)'
  BY <1>1, <1>2 DEF RInv, ReplyOK, ProofOK, NoCall, ControlOps, FenceOps
<1> QED BY <1>4, <1>5, <1>6 DEF RInv

\* The end of the generation finds every rank out of it, or poisons the group.
LEMMA BaselineRank ==
  ASSUME TypeOK, CallOK, NEW r \in Ranks, RInv(r), BaselineDone
  PROVE  RInv(r)'
<1>1. /\ UNCHANGED <<rpcs, resp, cur, wPhase, wActive, wDone, holds>>
      /\ call' = NoCall /\ LastOp' = LastOp
  BY DEF BaselineDone, FailFinalize, rankVars, LastOp
<1>2. active # 0 /\ LastOp = "baseline_fence" /\ cur[r] = Len(rpcs)
  BY DEF BaselineDone, Completed, CallOK, LastOp, Ops, CleanupOps, RInv, ProofOK, ControlOps,
         FenceOps
<1>3. \/ active' = 0 /\ lastDone' = active
      \/ active' = active /\ lastDone' = lastDone
  BY DEF BaselineDone
<1>4. UnreadOK(r)'
  BY <1>1, <1>2, LenType DEF UnreadOK
<1>5. RankOK(r)'
  BY <1>1, <1>2, <1>3, LenType DEF RInv, RankOK, Out
<1>6. ReplyOK(r)' /\ ProofOK(r)'
  BY <1>1, <1>2 DEF RInv, ReplyOK, ProofOK, NoCall, ControlOps, FenceOps
<1> QED BY <1>4, <1>5, <1>6 DEF RInv

-------------------------------------------------------------------------------
(* One rank under its own steps, and under another rank's                      *)

\* A worker step reads one message and leaves the parent and the other ranks alone.
LEMMA WorkerFrame ==
  ASSUME TypeOK, NEW r \in Ranks, Worker(r)
  PROVE  /\ HasRpc(r) /\ cur[r] + 1 \in 1 .. Len(rpcs)
         /\ UNCHANGED <<active, lastDone, rpcs, call>> /\ LastOp' = LastOp
         /\ cur' = [cur EXCEPT ![r] = @ + 1] /\ cur'[r] = cur[r] + 1
         /\ \A s \in Ranks \ {r} :
              /\ cur'[s] = cur[s] /\ wPhase'[s] = wPhase[s] /\ wActive'[s] = wActive[s]
              /\ wDone'[s] = wDone[s] /\ holds'[s] = holds[s] /\ resp'[s] = resp[s]
<1>1. /\ HasRpc(r) /\ Dequeue(r)
      /\ UNCHANGED rankRest
  BY DEF Worker, WorkerData, WorkerBare, WorkerPrepare, WorkerCommit, WorkerFence
<1>2. cur[r] + 1 \in 1 .. Len(rpcs)
  BY <1>1, RpcType
<1>3. UNCHANGED <<active, lastDone, rpcs, call>> /\ LastOp' = LastOp
  BY <1>1 DEF rankRest, coordVars, LastOp
<1>4. cur' = [cur EXCEPT ![r] = @ + 1] /\ cur'[r] = cur[r] + 1
  BY <1>1 DEF Dequeue, TypeOK, RankType
<1>5. ASSUME NEW s \in Ranks \ {r}
      PROVE  resp'[s] = resp[s]
  <2>1. resp' = resp \/ \E m : resp' = [resp EXCEPT ![r] = m]
    BY DEF Worker, WorkerData, WorkerBare, WorkerPrepare, WorkerCommit, WorkerFence, Reply
  <2> QED BY <2>1 DEF TypeOK, LinkType
<1>6. ASSUME NEW s \in Ranks \ {r}
      PROVE  /\ cur'[s] = cur[s] /\ wPhase'[s] = wPhase[s] /\ wActive'[s] = wActive[s]
             /\ wDone'[s] = wDone[s] /\ holds'[s] = holds[s]
  <2>1. cur'[s] = cur[s]
    BY <1>4 DEF TypeOK, RankType
  <2>2. /\ wPhase' = wPhase \/ \E x : wPhase' = [wPhase EXCEPT ![r] = x]
        /\ wActive' = wActive \/ \E x : wActive' = [wActive EXCEPT ![r] = x]
        /\ wDone' = wDone \/ \E x : wDone' = [wDone EXCEPT ![r] = x]
        /\ holds' = holds \/ \E x : holds' = [holds EXCEPT ![r] = x]
    BY DEF Worker, WorkerData, WorkerBare, WorkerPrepare, WorkerCommit, WorkerFence
  <2> QED BY <2>1, <2>2 DEF TypeOK, RankType
<1> QED BY <1>1, <1>2, <1>3, <1>4, <1>5, <1>6

\* A worker's step keeps the invariant of the other ranks.
LEMMA WorkerOther ==
  ASSUME TypeOK, NEW r \in Ranks, NEW s \in Ranks \ {r}, RInv(s), Worker(r)
  PROVE  RInv(s)'
  BY WorkerFrame DEF RInv, UnreadOK, RankOK, ReplyOK, ProofOK, Out

\* The message a rank reads, and where the rank stands when it reads it.
LEMMA NextMessage ==
  ASSUME TypeOK, StageOK, NEW r \in Ranks, RInv(r), HasRpc(r)
  PROVE  /\ active = 0 => /\ Rpc(r).op \in FenceOps \cup {"utility"}
                          /\ Rpc(r).op = "utility" => Rpc(r).gen = 0
         /\ active # 0 => Rpc(r).gen = active
         /\ active # 0 /\ Rpc(r).op \notin CleanupOps =>
              /\ Rpc(r).op \in StepOps \cup {"utility"}
              /\ LastOp \notin {"commit", "baseline_fence"}
         /\ active # 0 /\ Rpc(r).op \in CleanupOps =>
              cur[r] + 1 = Len(rpcs) /\ LastOp = Rpc(r).op
<1>1. cur[r] + 1 \in (cur[r] + 1) .. Len(rpcs) /\ cur[r] + 1 \in 1 .. Len(rpcs)
  BY RpcType, LenType
<1>2. IF active = 0
      THEN /\ Rpc(r).op \in FenceOps \cup {"utility"}
           /\ Rpc(r).op = "utility" => Rpc(r).gen = 0
      ELSE \/ Rpc(r).op \in StepOps \cup {"utility"} /\ Rpc(r).gen = active
           \/ cur[r] + 1 = Len(rpcs) /\ Rpc(r).op \in CleanupOps
  BY <1>1 DEF RInv, UnreadOK, Rpc
<1>3. cur[r] + 1 = Len(rpcs) => Rpc(r).op = LastOp /\ Rpc(r).gen = rpcs[Len(rpcs)].gen
  BY <1>1 DEF Rpc, LastOp
<1>4. active # 0 /\ LastOp \in {"commit", "baseline_fence"} => cur[r] + 1 = Len(rpcs)
  BY <1>1, LenType DEF RInv, RankOK
<1> QED BY <1>2, <1>3, <1>4 DEF StageOK, StepOps, CleanupOps

\* A reply of the rank is to the message it has just read.
LEMMA ReplyNew ==
  ASSUME TypeOK, NEW r \in Ranks, RInv(r), HasRpc(r), Worker(r),
         NEW ok \in BOOLEAN, NEW done \in Nat, NEW act \in Nat, NEW quiet \in BOOLEAN,
         Reply(r, ok, done, act, quiet),
         cur[r] + 1 = Len(rpcs) /\ LastOp = "prepare" /\ ok /\ quiet
           => wPhase'[r] = "PREPARED"
  PROVE  ReplyOK(r)'
<1>1. /\ Len(resp'[r]) = Len(resp[r]) + 1
      /\ \A k \in 1 .. Len(resp[r]) : resp'[r][k] = resp[r][k]
      /\ resp'[r][Len(resp'[r])].id = cur[r] + 1
      /\ resp'[r][Len(resp'[r])].ok = ok
      /\ resp'[r][Len(resp'[r])].quiet = quiet
  BY ONLY TypeOK, HasRpc(r), Reply(r, ok, done, act, quiet), ReplyType
<1>2. Len(resp[r]) \in Nat /\ cur[r] \in Nat /\ Len(rpcs) \in Nat
  BY LenType
<1>3. cur'[r] = cur[r] + 1 /\ LastOp' = LastOp /\ rpcs' = rpcs /\ cur[r] + 1 \in 1 .. Len(rpcs)
  BY WorkerFrame
<1>4. \A k \in 1 .. Len(resp[r]) : resp[r][k].id \in Nat /\ resp[r][k].id <= cur[r]
  <2>1. resp[r] \in Seq(Replies)
    BY DEF TypeOK, LinkType
  <2>2. \A k \in 1 .. Len(resp[r]) : resp[r][k] \in Replies
    BY <2>1
  <2> QED BY <2>2 DEF Replies, RInv, ReplyOK
<1>5. ASSUME NEW k \in 1 .. Len(resp'[r])
      PROVE  /\ resp'[r][k].id <= cur'[r]
             /\ /\ resp'[r][k].id = Len(rpcs) /\ LastOp = "prepare"
                /\ resp'[r][k].ok /\ resp'[r][k].quiet
                => wPhase'[r] = "PREPARED"
  <2>1. CASE k \in 1 .. Len(resp[r])
    <3>1. resp'[r][k] = resp[r][k] /\ resp[r][k].id \in Nat /\ resp[r][k].id <= cur[r]
      BY <1>1, <1>4, <2>1
    <3>2. cur[r] < Len(rpcs)
      BY <1>2, <1>3
    <3> QED BY <1>2, <1>3, <3>1, <3>2
  <2>2. CASE k = Len(resp'[r])
    <3>1. resp'[r][k].id = cur'[r]
      BY <1>1, <1>3, <2>2
    <3>2. resp'[r][k].id = cur[r] + 1 /\ resp'[r][k].ok = ok /\ resp'[r][k].quiet = quiet
      BY <1>1, <2>2
    <3> QED BY <1>2, <1>3, <3>1, <3>2
  <2>3. k \in 1 .. Len(resp[r]) \/ k = Len(resp'[r])
    BY ONLY <1>1, <1>2, k \in 1 .. Len(resp'[r])
  <2> QED BY <2>1, <2>2, <2>3
<1> QED BY <1>3, <1>5 DEF ReplyOK

\* A worker's step keeps the invariant of its own rank; one case per RPC kind.
LEMMA WorkerOwn ==
  ASSUME TypeOK, StageOK, NEW r \in Ranks, RInv(r), Worker(r)
  PROVE  RInv(r)'
<1>1. /\ HasRpc(r) /\ cur[r] + 1 \in 1 .. Len(rpcs)
      /\ UNCHANGED <<active, lastDone, rpcs, call>> /\ LastOp' = LastOp
      /\ cur'[r] = cur[r] + 1
  BY WorkerFrame
<1>2. UnreadOK(r)' /\ ProofOK(r)'
  BY <1>1, LenType DEF RInv, UnreadOK, ProofOK
<1>3. /\ cur \in [Ranks -> Nat] /\ wActive \in [Ranks -> Nat] /\ wDone \in [Ranks -> Nat]
      /\ DOMAIN wPhase = Ranks /\ DOMAIN holds = Ranks
  BY DEF TypeOK, RankType
<1>4. CASE WorkerData(r)
  <2>1. /\ active # 0 /\ Rpc(r).op \in StepOps \cup {"utility"} /\ Rpc(r).gen = active
        /\ LastOp \notin {"commit", "baseline_fence"} /\ wDone' = wDone
    BY <1>1, <1>4, NextMessage DEF WorkerData, Bare, FenceOps, StepOps, CleanupOps
  <2>2. LastOp = "prepare" => cur[r] + 1 # Len(rpcs)
    BY <1>1, <2>1 DEF LastOp, Rpc, StepOps
  <2>3. \/ wActive'[r] = active /\ wPhase'[r] = "RUNNING"
        \/ wActive'[r] = wActive[r] /\ wPhase'[r] = wPhase[r]
    BY <1>3, <1>4, <2>1 DEF WorkerData
  <2>4. RankOK(r)'
    BY <1>1, <2>1, <2>2, <2>3, LenType DEF RInv, RankOK, Out
  <2>5. ReplyOK(r)'
    <3>1. CASE Reply(r, TRUE, 0, 0, TRUE)
      BY <1>1, <2>2, <3>1, ReplyNew
    <3>2. CASE UNCHANGED resp
      <4>1. \A k \in 1 .. Len(resp[r]) : resp[r][k].id \in Nat /\ resp[r][k].id <= cur[r]
        <5>1. resp[r] \in Seq(Replies)
          BY DEF TypeOK, LinkType
        <5>2. \A k \in 1 .. Len(resp[r]) : resp[r][k] \in Replies
          BY <5>1
        <5> QED BY <5>2 DEF Replies, RInv, ReplyOK
      <4> QED BY <1>1, <2>2, <3>2, <4>1, LenType DEF ReplyOK
    <3> QED BY <1>4, <3>1, <3>2 DEF WorkerData
  <2> QED BY <1>2, <2>4, <2>5 DEF RInv
<1>5. CASE WorkerBare(r)
  <2>1. active = 0 /\ UNCHANGED <<wPhase, wActive, wDone, holds>>
    BY <1>1, <1>5, NextMessage DEF WorkerBare, Bare
  <2>2. RankOK(r)'
    BY <1>1, <2>1, LenType DEF RInv, RankOK, Out
  <2>3. LastOp = "prepare" => cur[r] + 1 # Len(rpcs)
    BY <1>1, <1>5 DEF WorkerBare, Bare, LastOp, Rpc
  <2>4. ReplyOK(r)'
    BY <1>1, <1>5, <2>3, ReplyNew DEF WorkerBare
  <2> QED BY <1>2, <2>2, <2>4 DEF RInv
<1>6. CASE WorkerPrepare(r)
  <2>1. /\ active # 0 /\ Rpc(r).gen = active /\ cur[r] + 1 = Len(rpcs) /\ LastOp = "prepare"
        /\ UNCHANGED <<wActive, wDone, holds>>
    BY <1>1, <1>6, NextMessage DEF WorkerPrepare, FenceOps, CleanupOps
  <2>2. PICK busy \in BOOLEAN, swap \in BOOLEAN :
          /\ holds[r] # {} => busy
          /\ wPhase' = IF wActive[r] = active /\ ~busy
                       THEN [wPhase EXCEPT ![r] = "PREPARED"] ELSE wPhase
          /\ Reply(r, wActive[r] = active, wDone[r], IF busy THEN wActive[r] ELSE 0,
                   ~busy /\ ~swap)
    <3>1. PICK pending \in BOOLEAN, swap \in BOOLEAN :
            LET mine == wActive[r] = Rpc(r).gen
                busy == holds[r] # {} \/ pending
            IN
            /\ wPhase' = IF mine /\ ~busy THEN [wPhase EXCEPT ![r] = "PREPARED"] ELSE wPhase
            /\ Reply(r, mine, wDone[r], IF busy THEN wActive[r] ELSE 0, ~busy /\ ~swap)
      BY <1>6 DEF WorkerPrepare
    <3> QED BY <2>1, <3>1
  <2>3. wPhase'[r] = IF wActive[r] = active /\ ~busy THEN "PREPARED" ELSE wPhase[r]
    BY <1>3, <2>2
  <2>4. RankOK(r)'
    BY <1>1, <2>1, <2>2, <2>3, LenType DEF RInv, RankOK, Out
  <2>5. (IF busy THEN wActive[r] ELSE 0) \in Nat /\ wDone[r] \in Nat
    BY <1>3
  <2>6. ReplyOK(r)'
    BY <1>1, <2>2, <2>3, <2>5, ReplyNew
  <2> QED BY <1>2, <2>4, <2>6 DEF RInv
<1>7. CASE WorkerCommit(r)
  <2>1. /\ active # 0 /\ Rpc(r).gen = active /\ cur[r] + 1 = Len(rpcs) /\ LastOp = "commit"
        /\ holds' = holds
    BY <1>1, <1>7, NextMessage DEF WorkerCommit, FenceOps, CleanupOps
  <2>2. wActive[r] = active /\ wPhase[r] = "PREPARED" /\ holds[r] = {}
    BY <2>1, LenType DEF RInv, RankOK
  <2>3. /\ wPhase' = [wPhase EXCEPT ![r] = "CLEAN_COMPLETE"]
        /\ wActive' = [wActive EXCEPT ![r] = 0]
        /\ wDone' = [wDone EXCEPT ![r] = active]
    BY <1>7, <2>1, <2>2 DEF WorkerCommit
  <2>4. RankOK(r)'
    BY <1>1, <1>3, <2>1, <2>2, <2>3, LenType DEF RInv, RankOK, Out
  <2>5. PICK ok \in BOOLEAN, quiet \in BOOLEAN : Reply(r, ok, active, 0, quiet)
    BY <1>7, <2>1 DEF WorkerCommit
  <2>6. ReplyOK(r)'
    BY <1>1, <2>1, <2>5, LenType, ReplyNew
  <2> QED BY <1>2, <2>4, <2>6 DEF RInv
<1>8. CASE WorkerFence(r)
  <2>1. /\ Rpc(r).op \in FenceOps /\ UNCHANGED <<wPhase, wActive, wDone, holds>>
        /\ active # 0 => cur[r] + 1 = Len(rpcs) /\ LastOp = "baseline_fence"
    BY <1>1, <1>8, NextMessage DEF WorkerFence, FenceOps, StepOps, CleanupOps
  <2>2. RankOK(r)'
    BY <1>1, <2>1, LenType DEF RInv, RankOK, Out
  <2>3. LastOp = "prepare" => cur[r] + 1 # Len(rpcs)
    BY <1>1, <2>1 DEF FenceOps, LastOp, Rpc
  <2>4. PICK quiet \in BOOLEAN : Reply(r, TRUE, wDone[r], wActive[r], quiet)
    BY <1>8 DEF WorkerFence
  <2>5. ReplyOK(r)'
    BY <1>1, <1>3, <2>3, <2>4, ReplyNew
  <2> QED BY <1>2, <2>2, <2>5 DEF RInv
<1> QED BY <1>4, <1>5, <1>6, <1>7, <1>8 DEF Worker

-------------------------------------------------------------------------------
(* The inductive invariant                                                     *)

\* The invariant of the ranks holds initially.
LEMMA RankInit == Init => \A r \in Ranks : RInv(r)
  BY DEF Init, RInv, UnreadOK, RankOK, ReplyOK, ProofOK, Out, NoCall, ControlOps, FenceOps

\* Every step keeps the invariant of every rank.
LEMMA RankNext ==
  ASSUME TypeOK, CoordOK, CallOK, StageOK, \A r \in Ranks : RInv(r), [Next]_vars
  PROVE  \A r \in Ranks : RInv(r)'
<1> SUFFICES ASSUME NEW r \in Ranks PROVE RInv(r)'
  OBVIOUS
<1>1. RInv(r)
  OBVIOUS
<1>2. CASE Quiet
  BY <1>1, <1>2, QuietRank
<1>3. CASE \E op \in Ops : active # 0 /\ SentStep(op)
  BY <1>1, <1>3, SentRank, SentStepRank DEF SentStep, RInv
<1>4. CASE \E op \in Ops : SentBetween(op)
  BY <1>1, <1>4, SentRank, SentBetweenRank DEF SentBetween, RInv
<1>5. CASE SentAfter("commit", "prepare") \/ SentAfter("baseline_fence", "commit")
  <2>1. \E op \in Ops : Sent(op)
    BY <1>5 DEF SentAfter, Ops, ControlOps, FenceOps
  <2> QED BY <1>1, <1>5, <2>1, SentRank, SentAfterRank DEF RInv
<1>6. CASE Begin
  BY <1>1, <1>6, BeginRank
<1>7. CASE BaselineDone
  BY <1>1, <1>7, BaselineRank
<1>8. CASE \E s \in Ranks : Worker(s)
  BY <1>1, <1>8, WorkerOwn, WorkerOther
<1> QED BY <1>2, <1>3, <1>4, <1>5, <1>6, <1>7, <1>8, StepKinds DEF Kinds

\* The inductive invariant holds initially.
LEMMA IInvInit == Init => IInv
<1> SUFFICES ASSUME Init PROVE IInv
  OBVIOUS
<1>1. CoordOK /\ CallOK /\ StageOK
  BY DEF Init, CoordOK, CallOK, StageOK, NoCall, LastOp, CanAccept, CleanupOps, Ops, StepOps,
         ControlOps, FenceOps
<1> QED BY <1>1, TypeInit, RankInit DEF IInv, RInv

\* Every step keeps the inductive invariant.
LEMMA IInvNext == IInv /\ [Next]_vars => IInv'
  BY TypeNext, CoordNext, CallNext, StageNext, RankNext DEF IInv, RInv

\* No step takes recovery.state back from POISONED.
LEMMA RecoveryKept ==
  ASSUME recovery = "POISONED", [Next]_vars
  PROVE  recovery' = "POISONED"
<1>1. CASE UNCHANGED vars
  BY <1>1 DEF vars, coordVars, engineVars, rankVars
<1>2. CASE CallTimeout
  BY <1>2 DEF CallTimeout, CallFails, Poison
<1>3. CASE LateReply
  BY <1>3 DEF LateReply, CallFails, Poison
<1>4. CASE AdmitRefused
  BY <1>4 DEF AdmitRefused, Poison
<1>5. CASE Begin
  BY <1>5 DEF Begin, SetPhase, Poison
<1>6. CASE Step
  BY <1>6 DEF Step, StepRpc, StepRpcRefused, SetPhase, Poison
<1>7. CASE SampleStep
  BY <1>7 DEF SampleStep, StepRpc, StepRpcRefused, SetPhase, Poison
<1>8. CASE FinishStep
  BY <1>8 DEF FinishStep, SetPhase, Poison
<1>9. CASE DraftStep
  BY <1>9 DEF DraftStep, StepRpc, StepRpcRefused, SetPhase, Poison
<1>10. CASE EndCall
  BY <1>10 DEF EndCall, coordVars
<1>11. CASE FinalizeStep
  BY <1>11 DEF FinalizeStep, NextControl, FailFinalize, SetPhase, Poison
<1>12. CASE PrepareDone
  BY <1>12 DEF PrepareDone, NextControl, FailFinalize, SetPhase, Poison
<1>13. CASE CommitDone
  BY <1>13 DEF CommitDone, NextControl, FailFinalize, SetPhase, Poison
<1>14. CASE BaselineDone
  BY <1>14 DEF BaselineDone, NextControl, FailFinalize, SetPhase, Poison
<1>15. CASE ExecutorFailed
  BY <1>15 DEF ExecutorFailed, coordVars
<1>16. CASE Abort
  BY <1>16 DEF Abort, SetPhase, Poison
<1>17. CASE UtilityRpc
  BY <1>17 DEF UtilityRpc, SetPhase, Poison
<1>18. CASE MonitorDetect
  BY <1>18 DEF MonitorDetect, coordVars
<1>19. CASE MonitorPoison
  BY <1>19 DEF MonitorPoison, Poison
<1>20. CASE MonitorNotify
  BY <1>20 DEF MonitorNotify, coordVars
<1>21. CASE Shutdown
  BY <1>21 DEF Shutdown, coordVars
<1>22. CASE \E q \in Requests : Admit(q)
  BY <1>22 DEF Admit, Poison
<1>23. CASE \E r \in Ranks : ReceiveReply(r)
  BY <1>23 DEF ReceiveReply, TakeReply, Poison
<1>24. CASE \E r \in Ranks : CrashWorker(r) \/ HangWorker(r)
  BY <1>24 DEF CrashWorker, HangWorker, rankRest, coordVars
<1>25. CASE \E r \in Ranks : Worker(r)
  BY <1>25 DEF Worker, WorkerData, WorkerBare, WorkerPrepare, WorkerCommit, WorkerFence, rankRest, coordVars
<1> QED
  BY <1>1, <1>2, <1>3, <1>4, <1>5, <1>6, <1>7, <1>8, <1>9, <1>10, <1>11, <1>12, <1>13, <1>14, <1>15, <1>16, <1>17, <1>18, <1>19, <1>20, <1>21, <1>22, <1>23, <1>24, <1>25
  DEF Next, EngineThread, Clients, MonitorThread, Faults

\* The poison of the monitor thread reaches recovery.state, also when the engine
\* thread overwrites its phase.
LEMMA MonitorPoisons ==
  ASSUME monitor # "poisoned", monitor' = "poisoned", [Next]_vars
  PROVE  recovery' = "POISONED"
<1>1. CASE UNCHANGED vars
  BY <1>1 DEF vars, coordVars, engineVars, rankVars
<1>2. CASE CallTimeout
  BY <1>2 DEF CallTimeout, CallFails
<1>3. CASE LateReply
  BY <1>3 DEF LateReply, CallFails
<1>4. CASE AdmitRefused
  BY <1>4 DEF AdmitRefused
<1>5. CASE Begin
  BY <1>5 DEF Begin, SetPhase, Poison
<1>6. CASE Step
  BY <1>6 DEF Step, StepRpc, StepRpcRefused, SetPhase, Poison
<1>7. CASE SampleStep
  BY <1>7 DEF SampleStep, StepRpc, StepRpcRefused, SetPhase, Poison
<1>8. CASE FinishStep
  BY <1>8 DEF FinishStep, SetPhase, Poison
<1>9. CASE DraftStep
  BY <1>9 DEF DraftStep, StepRpc, StepRpcRefused, SetPhase, Poison
<1>10. CASE EndCall
  BY <1>10 DEF EndCall, coordVars
<1>11. CASE FinalizeStep
  BY <1>11 DEF FinalizeStep, SetPhase, Poison
<1>12. CASE PrepareDone
  BY <1>12 DEF PrepareDone, SetPhase, Poison
<1>13. CASE CommitDone
  BY <1>13 DEF CommitDone, SetPhase, Poison
<1>14. CASE BaselineDone
  BY <1>14 DEF BaselineDone, SetPhase, Poison
<1>15. CASE ExecutorFailed
  BY <1>15 DEF ExecutorFailed, coordVars
<1>16. CASE Abort
  BY <1>16 DEF Abort, SetPhase, Poison
<1>17. CASE UtilityRpc
  BY <1>17 DEF UtilityRpc, SetPhase, Poison
<1>18. CASE MonitorDetect
  BY <1>18 DEF MonitorDetect, coordVars
<1>19. CASE MonitorPoison
  BY <1>19 DEF MonitorPoison, Poison
<1>20. CASE MonitorNotify
  BY <1>20 DEF MonitorNotify, coordVars
<1>21. CASE Shutdown
  BY <1>21 DEF Shutdown, coordVars
<1>22. CASE \E q \in Requests : Admit(q)
  BY <1>22 DEF Admit, Poison
<1>23. CASE \E r \in Ranks : ReceiveReply(r)
  BY <1>23 DEF ReceiveReply, TakeReply, Poison
<1>24. CASE \E r \in Ranks : CrashWorker(r) \/ HangWorker(r)
  BY <1>24 DEF CrashWorker, HangWorker, rankRest, coordVars
<1>25. CASE \E r \in Ranks : Worker(r)
  BY <1>25 DEF Worker, WorkerData, WorkerBare, WorkerPrepare, WorkerCommit, WorkerFence, rankRest, coordVars
<1> QED
  BY <1>1, <1>2, <1>3, <1>4, <1>5, <1>6, <1>7, <1>8, <1>9, <1>10, <1>11, <1>12, <1>13, <1>14, <1>15, <1>16, <1>17, <1>18, <1>19, <1>20, <1>21, <1>22, <1>23, <1>24, <1>25
  DEF Next, EngineThread, Clients, MonitorThread, Faults

-------------------------------------------------------------------------------
(* The theorems                                                                *)

\* Every reachable state satisfies the inductive invariant.
THEOREM Invariance == Spec => []IInv
  BY IInvInit, IInvNext, PTL DEF Spec

\* The state of the coordinator, the engine, the link and the ranks is well typed.
THEOREM TypeCorrect == Spec => []TypeOK
<1>1. IInv => TypeOK
  BY DEF IInv
<1> QED BY <1>1, Invariance, PTL

\* Between two generations no rank keeps anything of the last one, whatever it has
\* still to read: RankOK, for an empty active generation.
THEOREM QuiescentBetweenHolds == Spec => []QuiescentBetween
<1>1. IInv => QuiescentBetween
  BY DEF IInv, RankOK, Out, QuiescentBetween
<1> QED BY <1>1, Invariance, PTL

\* A generation begins only when every rank has read every earlier message: the
\* answers to the admission fence are proof that the broadcast queue is drained.
THEOREM AdmissionFencedHolds == Spec => AdmissionFenced
<1>1. ASSUME IInv, [Next]_vars, active' # 0 /\ active' # active
      PROVE  \A r \in Ranks : cur[r] = Len(rpcs)
  <2>1. Begin \/ UNCHANGED active \/ active' = 0
    <3>1. Kinds
      BY <1>1, StepKinds DEF IInv
    <3> QED BY <3>1, WorkerFrame, <1>1
        DEF Kinds, Quiet, SentStep, SentBetween, SentAfter, Sent, BaselineDone, IInv
  <2>2. Begin
    BY <1>1, <2>1
  <2> QED BY <1>1, <2>2 DEF IInv, Begin, Completed, ProofOK, ControlOps, FenceOps
<1> QED BY <1>1, Invariance, PTL DEF Spec, AdmissionFenced

\* A rank retires a generation only when every rank is sealed, no rank holds request
\* state, the scheduler is empty and the parent has no open record: only the commit
\* retires a rank, and it is sent after every rank's proof of the prepare.
THEOREM CommitUnanimousHolds == Spec => CommitUnanimous
<1>1. ASSUME IInv, [Next]_vars, NEW r \in Ranks, wDone'[r] # wDone[r]
      PROVE  /\ \A s \in Ranks :
                  /\ \/ wDone[s] = wDone'[r]
                     \/ wPhase[s] = "PREPARED" /\ wActive[s] = wDone'[r]
                  /\ holds[s] = {}
             /\ scheduled = {} /\ owned = {}
  <2>1. PICK s \in Ranks : Worker(s)
    <3>1. Kinds
      BY <1>1, StepKinds DEF IInv
    <3> QED BY <1>1, <3>1
        DEF Kinds, Quiet, SentStep, SentBetween, SentAfter, Sent, rankState, Begin,
            BaselineDone, rankVars
  <2>2. s = r
    BY <1>1, <2>1, WorkerFrame DEF IInv
  <2>3. WorkerCommit(r)
    BY <1>1, <2>1, <2>2
    DEF Worker, WorkerData, WorkerBare, WorkerPrepare, WorkerFence
  <2>4. RInv(r) /\ HasRpc(r) /\ TypeOK /\ StageOK
    BY <1>1, <2>3 DEF IInv, RInv, WorkerCommit
  <2>5. active # 0 /\ Rpc(r).gen = active /\ LastOp = "commit"
    BY <2>3, <2>4, NextMessage DEF WorkerCommit, FenceOps, CleanupOps
  <2>6. wDone'[r] = active
    BY <1>1, <2>3, <2>4, <2>5 DEF WorkerCommit, TypeOK, RankType
  <2>7. scheduled = {} /\ owned = {}
    BY <2>4, <2>5 DEF StageOK, CleanupOps
  <2> QED BY <1>1, <2>5, <2>6, <2>7 DEF IInv, RankOK
<1>2. IInv /\ [Next]_vars => RetireSealed
  BY <1>1 DEF RetireSealed
<1> QED BY <1>2, Invariance, PTL DEF Spec, CommitUnanimous

\* Poison is final for admission: a phase write of the engine thread may cover the
\* monitor thread's poison, but recovery.state keeps it.
THEOREM PoisonFinalHolds == Spec => PoisonFinal
<1>1. ASSUME IInv, [Next]_vars,
             AdmissionState = "poisoned" \/ (monitor # "poisoned" /\ monitor' = "poisoned")
      PROVE  AdmissionState' = "poisoned"
  <2>1. CASE AdmissionState = "poisoned"
    <3>1. recovery = "POISONED"
      BY <1>1, <2>1 DEF AdmissionState, IInv, CoordOK, TypeOK, CoordType
    <3>2. recovery' = "POISONED"
      BY <1>1, <3>1, RecoveryKept
    <3> QED BY <3>2 DEF AdmissionState
  <2>2. CASE monitor # "poisoned" /\ monitor' = "poisoned"
    BY <1>1, <2>2, MonitorPoisons DEF AdmissionState
  <2> QED BY <1>1, <2>1, <2>2
<1> QED BY <1>1, Invariance, PTL DEF Spec, PoisonFinal

-------------------------------------------------------------------------------
(* The refinement of RequestFence                                              *)

using == {r \in Ranks : wActive[r] # 0}
sealed == active # 0 /\ \A r \in Ranks : wPhase[r] = "PREPARED" \/ wDone[r] = active

\* The clean end of a generation.
CleanEnd ==
  /\ Completed("baseline_fence") /\ phase = "BASELINE_VERIFY"
  /\ lastDone' = active /\ active' = 0
  /\ SetPhase("CLEAN_COMPLETE")

\* A step that neither opens nor closes a generation may only shut the gate.
GateOK == Begin \/ CleanEnd \/ AdmissionState' \in {AdmissionState, "poisoned"}

\* What every step may do to the gate that admission reads, RequestFence's gate; one
\* case per action.
LEMMA GateNext ==
  ASSUME TypeOK, CoordOK, CallOK, StageOK, [Next]_vars
  PROVE  GateOK
<1>1. CASE UNCHANGED vars
  BY <1>1 DEF vars, coordVars, engineVars, rankVars, GateOK, AdmissionState, CanAccept
<1>2. CASE CallTimeout
  BY <1>2 DEF CallTimeout, CallFails, Poison, GateOK, AdmissionState, CanAccept
<1>3. CASE LateReply
  BY <1>3 DEF LateReply, CallFails, Poison, GateOK, AdmissionState, CanAccept
<1>4. CASE AdmitRefused
  BY <1>4 DEF AdmitRefused, Poison, GateOK, AdmissionState, CanAccept
<1>5. CASE Begin
  BY <1>5 DEF Begin, FailFinalize, Poison, GateOK, AdmissionState, CanAccept
<1>6. CASE Step
  BY <1>6 DEF Step, StepRpc, StepRpcRefused, SetPhase, MarkRunning, WorkPhases, Poison, GateOK, AdmissionState, CanAccept
<1>7. CASE SampleStep
  BY <1>7 DEF SampleStep, StepRpc, StepRpcRefused, SetPhase, MarkRunning, WorkPhases, Poison, GateOK, AdmissionState, CanAccept
<1>8. CASE FinishStep
  BY <1>8 DEF FinishStep, SetPhase, MarkRunning, MarkAborting, MarkCompleting, Poison, GateOK, AdmissionState, CanAccept
<1>9. CASE DraftStep
  BY <1>9 DEF DraftStep, StepRpc, StepRpcRefused, SetPhase, MarkRunning, WorkPhases, Poison, GateOK, AdmissionState, CanAccept
<1>10. CASE EndCall
  BY <1>10 DEF EndCall, coordVars, GateOK, AdmissionState, CanAccept
<1>11. CASE FinalizeStep
  BY <1>11 DEF FinalizeStep, NextControl, FailFinalize, Poison, MarkCompleting, MarkRunning, GateOK, AdmissionState, CanAccept
<1>12. CASE PrepareDone
  BY <1>12 DEF PrepareDone, NextControl, FailFinalize, SetPhase, Poison, GateOK, AdmissionState, CanAccept
<1>13. CASE CommitDone
  BY <1>13 DEF CommitDone, NextControl, FailFinalize, SetPhase, Poison, GateOK, AdmissionState, CanAccept
<1>14. CASE BaselineDone
  BY <1>14 DEF BaselineDone, CleanEnd, FailFinalize, Poison, GateOK, AdmissionState, CanAccept
<1>15. CASE ExecutorFailed
  BY <1>15 DEF ExecutorFailed, coordVars, GateOK, AdmissionState, CanAccept
<1>16. CASE Abort
  BY <1>16 DEF Abort, SetPhase, MarkRunning, MarkAborting, MarkCompleting, Poison, GateOK, AdmissionState, CanAccept
<1>17. CASE UtilityRpc
  BY <1>17 DEF UtilityRpc, SetPhase, MarkRunning, MarkAborting, MarkCompleting, Poison, GateOK, AdmissionState, CanAccept
<1>18. CASE MonitorDetect
  BY <1>18 DEF MonitorDetect, coordVars, GateOK, AdmissionState, CanAccept
<1>19. CASE MonitorPoison
  BY <1>19 DEF MonitorPoison, Poison, GateOK, AdmissionState, CanAccept
<1>20. CASE MonitorNotify
  BY <1>20 DEF MonitorNotify, coordVars, GateOK, AdmissionState, CanAccept
<1>21. CASE Shutdown
  BY <1>21 DEF Shutdown, coordVars, GateOK, AdmissionState, CanAccept
<1>22. CASE \E q \in Requests : Admit(q)
  BY <1>22 DEF Admit, Poison, GateOK, AdmissionState, CanAccept
<1>23. CASE \E r \in Ranks : ReceiveReply(r)
  BY <1>23 DEF ReceiveReply, TakeReply, Poison, GateOK, AdmissionState, CanAccept
<1>24. CASE \E r \in Ranks : CrashWorker(r) \/ HangWorker(r)
  BY <1>24 DEF CrashWorker, HangWorker, rankRest, coordVars, GateOK, AdmissionState, CanAccept
<1>25. CASE \E r \in Ranks : Worker(r)
  BY <1>25 DEF Worker, WorkerData, WorkerBare, WorkerPrepare, WorkerCommit, WorkerFence, rankRest, coordVars, GateOK, AdmissionState, CanAccept
<1> QED
  BY <1>1, <1>2, <1>3, <1>4, <1>5, <1>6, <1>7, <1>8, <1>9, <1>10, <1>11, <1>12, <1>13, <1>14, <1>15, <1>16, <1>17, <1>18, <1>19, <1>20, <1>21, <1>22, <1>23, <1>24, <1>25
  DEF Next, EngineThread, Clients, MonitorThread, Faults

\* A step that moves no rank and leaves or shuts the gate is a step of RequestFence.
LEMMA FenceFrame ==
  ASSUME UNCHANGED <<active, lastDone, wPhase, wActive, wDone>>,
         AdmissionState' \in {AdmissionState, "poisoned"}
  PROVE  [Fence!Next]_Fence!vars
<1>1. using' = using /\ sealed' = sealed /\ lastDone' = lastDone
  BY DEF using, sealed
<1> QED BY <1>1 DEF Fence!Next, Fence!Poison, Fence!vars, using, sealed

\* The step of a rank refines Adopt, Seal, Leave or nothing.
LEMMA FenceWorker ==
  ASSUME IInv, NEW r \in Ranks, Worker(r), AdmissionState' = AdmissionState
  PROVE  [Fence!Next]_Fence!vars
<1>1. /\ TypeOK /\ CoordOK /\ StageOK /\ RInv(r) /\ HasRpc(r) /\ lastDone' = lastDone
      /\ active' = active /\ cur[r] + 1 \in 1 .. Len(rpcs)
  BY WorkerFrame DEF IInv, RInv
<1>2. /\ wActive \in [Ranks -> Nat] /\ wDone \in [Ranks -> Nat] /\ DOMAIN wPhase = Ranks
      /\ active # 0 => AdmissionState # "ready" /\ active = lastDone + 1
      /\ lastDone \in Nat /\ active \in Nat /\ cur[r] \in Nat /\ Len(rpcs) \in Nat
  BY <1>1, LenType DEF TypeOK, RankType, AdmissionState, CoordOK
<1>3. CASE UNCHANGED <<wPhase, wActive, wDone>>
  BY <1>1, <1>3, FenceFrame
<1>4. CASE WorkerData(r) /\ MayRun(r, Rpc(r).gen) /\ wActive[r] # active
  <2>1. /\ active # 0 /\ Rpc(r).gen = active
        /\ LastOp \notin {"commit", "baseline_fence"}
    BY <1>1, <1>4, NextMessage DEF WorkerData, Bare, FenceOps, StepOps, CleanupOps
  <2>2. wActive[r] = 0 /\ wPhase[r] # "PREPARED" /\ wDone[r] = lastDone
    BY <1>1, <1>2, <1>4, <2>1 DEF MayRun, RInv, RankOK
  <2>3. /\ wActive' = [wActive EXCEPT ![r] = active]
        /\ wPhase' = [wPhase EXCEPT ![r] = "RUNNING"] /\ wDone' = wDone
    BY <1>4, <2>1 DEF WorkerData
  <2>4. using' = using \cup {r} /\ r \notin using
    BY <1>2, <2>1, <2>2, <2>3 DEF using
  <2>5. sealed = FALSE /\ sealed' = FALSE
    BY <1>1, <1>2, <2>2, <2>3 DEF sealed
  <2> QED BY <1>1, <1>2, <2>1, <2>4, <2>5 DEF Fence!Next, Fence!Adopt, using, sealed
<1>5. CASE WorkerData(r) /\ MayRun(r, Rpc(r).gen) /\ wActive[r] = active
  <2>1. Rpc(r).gen = active /\ active # 0
    BY <1>1, <1>5, NextMessage DEF WorkerData, Bare, FenceOps, StepOps, CleanupOps
  <2>2. wPhase[r] = "RUNNING"
    BY <1>5, <2>1 DEF MayRun
  <2>3. UNCHANGED <<wPhase, wActive, wDone>>
    <3>1. /\ wPhase' = [wPhase EXCEPT ![r] = "RUNNING"]
          /\ wActive' = [wActive EXCEPT ![r] = active] /\ wDone' = wDone
      BY <1>5, <2>1 DEF WorkerData
    <3>2. wPhase = [s \in Ranks |-> wPhase[s]] /\ wActive = [s \in Ranks |-> wActive[s]]
      BY <1>1 DEF TypeOK, RankType
    <3>3. wPhase' = wPhase
      BY <2>2, <3>1, <3>2
    <3>4. wActive' = wActive
      BY <1>5, <3>1, <3>2
    <3> QED BY <3>1, <3>3, <3>4
  <2> QED BY <1>3, <2>3
<1>6. CASE WorkerPrepare(r) /\ wPhase' # wPhase
  <2>1. /\ active # 0 /\ Rpc(r).gen = active /\ cur[r] + 1 = Len(rpcs) /\ LastOp = "prepare"
    BY <1>1, <1>6, NextMessage DEF WorkerPrepare, FenceOps, CleanupOps
  <2>2. /\ wActive[r] = active /\ UNCHANGED <<wActive, wDone>>
        /\ wPhase' = [wPhase EXCEPT ![r] = "PREPARED"]
    BY <1>6, <2>1 DEF WorkerPrepare
  <2>3. wPhase[r] # "PREPARED" /\ wDone[r] = lastDone
    BY <1>1, <1>2, <2>1 DEF RInv, RankOK, Out
  <2>4. sealed = FALSE /\ using' = using
    BY <1>2, <2>2, <2>3 DEF sealed, using
  <2>5. sealed' \in BOOLEAN /\ (sealed' => using = Ranks)
    <3>1. \A s \in Ranks : wDone[s] = lastDone /\ (wPhase[s] = "PREPARED" => wActive[s] = active)
      BY <2>1 DEF IInv, RankOK, Out
    <3>2. ASSUME sealed', NEW s \in Ranks PROVE wActive[s] # 0
      BY <1>1, <1>2, <2>1, <2>2, <3>1, <3>2 DEF sealed
    <3> QED BY <3>2 DEF sealed, using
  <2> QED BY <1>1, <1>2, <2>1, <2>4, <2>5
      DEF Fence!Next, Fence!Seal, Fence!vars, using, sealed
<1>7. CASE WorkerCommit(r)
  <2>1. /\ active # 0 /\ Rpc(r).gen = active /\ cur[r] + 1 = Len(rpcs) /\ LastOp = "commit"
    BY <1>1, <1>7, NextMessage DEF WorkerCommit, FenceOps, CleanupOps
  <2>2. wActive[r] = active /\ wPhase[r] = "PREPARED"
    BY <1>1, <1>2, <2>1 DEF RInv, RankOK
  <2>3. /\ wPhase' = [wPhase EXCEPT ![r] = "CLEAN_COMPLETE"]
        /\ wActive' = [wActive EXCEPT ![r] = 0]
        /\ wDone' = [wDone EXCEPT ![r] = active]
    BY <1>7, <2>1, <2>2 DEF WorkerCommit
  <2>4. using' = using \ {r} /\ r \in using
    BY <1>2, <2>1, <2>2, <2>3 DEF using
  <2>5. \A s \in Ranks : wPhase[s] = "PREPARED" \/ wDone[s] = active
    BY <2>1 DEF IInv, RankOK
  <2>6. sealed = TRUE /\ sealed' = TRUE
    BY <1>1, <1>2, <2>1, <2>3, <2>5 DEF sealed
  <2> QED BY <1>1, <2>4, <2>6 DEF Fence!Next, Fence!Leave, using, sealed
<1> QED
  BY <1>3, <1>4, <1>5, <1>6, <1>7
  DEF Worker, WorkerData, WorkerBare, WorkerPrepare, WorkerFence

\* The lifecycle implements the fence that the engine relies on: one generation at a
\* time, sealed on every rank before any rank leaves it, left by every rank before
\* the next is admitted, and never another one after a poison.
THEOREM Refinement == Spec => FenceSpec
<1>1. Init => Fence!Init
  BY DEF Init, Fence!Init, AdmissionState, CanAccept
<1>2. IInv /\ [Next]_vars => [Fence!Next]_Fence!vars
  <2> SUFFICES ASSUME IInv, [Next]_vars PROVE [Fence!Next]_Fence!vars
    OBVIOUS
  <2>1. TypeOK /\ CoordOK /\ CallOK /\ StageOK /\ \A r \in Ranks : RInv(r)
    BY DEF IInv, RInv
  <2>2. GateOK /\ Kinds
    BY <2>1, GateNext, StepKinds
  <2>3. CASE Begin
    <3>1. /\ active = 0 /\ active' = lastDone + 1 /\ AdmissionState = "ready"
          /\ UNCHANGED <<lastDone, wPhase, wActive, wDone>>
      BY <2>1, <2>3 DEF Begin, Completed, CallOK, Ops, ControlOps, FenceOps, rankVars
    <3>2. AdmissionState' \in {"busy", "poisoned"}
      BY <2>3 DEF Begin, SetPhase, Poison, AdmissionState, CanAccept
    <3>3. using = {} /\ using' = {}
      BY <2>1, <3>1 DEF using, RInv, RankOK, Out
    <3>4. sealed = FALSE /\ sealed' = FALSE
      <4>1. wDone[OutputRank] = lastDone /\ wPhase[OutputRank] # "PREPARED"
        BY <2>1, <3>1, RanksAssumption DEF RInv, RankOK, Out
      <4>2. lastDone \in Nat
        BY <2>1 DEF TypeOK, CoordType
      <4> QED BY <3>1, <4>1, <4>2, RanksAssumption DEF sealed
    <3> QED BY <3>1, <3>2, <3>3, <3>4 DEF Fence!Next, Fence!Admit, using, sealed
  <2>4. CASE CleanEnd
    <3>1. /\ BaselineDone /\ active # 0 /\ LastOp = "baseline_fence"
      <4>1. active # 0 /\ LastOp = "baseline_fence"
        BY <2>1, <2>4 DEF CleanEnd, Completed, CallOK, LastOp, Ops, CleanupOps, ControlOps, FenceOps
      <4>2. active' = 0
        BY <2>4 DEF CleanEnd
      <4> QED BY <2>1, <2>2, <4>1, <4>2, WorkerFrame
          DEF Kinds, Quiet, SentStep, SentBetween, SentAfter, Sent, Begin, TypeOK, CoordType
    <3>2. UNCHANGED <<wPhase, wActive, wDone>> /\ lastDone' = active /\ active' = 0
      BY <2>4, <3>1 DEF CleanEnd, BaselineDone, rankVars
    <3>3. using = {} /\ using' = {}
      BY <2>1, <3>1, <3>2 DEF using, RInv, RankOK
    <3>4. sealed = TRUE /\ sealed' = FALSE
      BY <2>1, <3>1, <3>2 DEF sealed, RInv, RankOK
    <3>5. active = lastDone + 1 /\ recovery = "READY" /\ phase = "BASELINE_VERIFY"
      BY <2>1, <2>4, <3>1 DEF CoordOK, CleanEnd, TypeOK, CoordType
    <3>6. AdmissionState = "busy" /\ AdmissionState' \in {"ready", "poisoned"}
      BY <2>4, <3>5 DEF CleanEnd, SetPhase, AdmissionState, CanAccept
    <3> QED BY <3>2, <3>3, <3>4, <3>5, <3>6 DEF Fence!Next, Fence!Complete, using, sealed
  <2>5. CASE ~Begin /\ ~CleanEnd
    <3>1. AdmissionState' \in {AdmissionState, "poisoned"}
      BY <2>2, <2>5 DEF GateOK
    <3>2. CASE \E r \in Ranks : Worker(r)
      <4>1. PICK r \in Ranks : Worker(r)
        BY <3>2
      <4>2. AdmissionState' = AdmissionState
        BY <4>1 DEF Worker, WorkerData, WorkerBare, WorkerPrepare, WorkerCommit, WorkerFence,
                    rankRest, coordVars, AdmissionState, CanAccept
      <4> QED BY <4>1, <4>2, FenceWorker
    <3>3. CASE ~(\E r \in Ranks : Worker(r))
      <4>1. UNCHANGED <<active, lastDone, wPhase, wActive, wDone>>
        BY <2>2, <2>5, <3>3
        DEF Kinds, Quiet, SentStep, SentBetween, SentAfter, Sent, rankState, BaselineDone,
            CleanEnd, rankVars
      <4> QED BY <3>1, <4>1, FenceFrame
    <3> QED BY <3>2, <3>3
  <2> QED BY <2>3, <2>4, <2>5
<1> QED BY <1>1, <1>2, Invariance, PTL DEF Spec, FenceSpec, Fence!Spec

===============================================================================
