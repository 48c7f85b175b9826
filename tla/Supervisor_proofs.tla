--------------------------- MODULE Supervisor_proofs ---------------------------
(***************************************************************************)
(* What Supervisor guarantees for every value of its constants: its types; *)
(* that it implements OwnedContainer; that a kernel fault once read keeps  *)
(* the claim for ever; that the receipt falls before the stop is           *)
(* dispatched; and that a stop is pursued across crashes.  The inductive   *)
(* invariant has six independent parts, each with one lemma that shows     *)
(* every step preserving it.                                               *)
(***************************************************************************)
EXTENDS Supervisor, TLAPS

\* The latch outlives the cursor: what was read is latched on disk and in memory, and
\* nothing latched reaches the release.
LatchInv ==
  /\ disk.hardware => mem.hardware
  /\ mem.cursor = disk.cursor
  /\ disk.cursor > 0 => disk.hardware
  /\ readFaults > 0 => disk.hardware
  /\ pc \in {"begin", "release", "released"} => readFaults = 0

\* An incident returns to its caller, never into the middle of another operation.
ReportInv == report.next \in {"tick", "cursor", "monitored", "decide", "stop", "kernel"}

\* Once a stop is dispatched the process that announces READY is told to stop.
RevokeInv ==
  /\ "stop" \in ops \/ (container = "stopping" /\ ~ retried) =>
       receipt # "READY" /\ (stopRequested \/ pc = "down")
  /\ pc \in {"withdraw", "halt"} => stopRequested
  /\ pc = "halt" => receipt # "READY"

Beyond == container \in {"starting", "serving", "stopping", "exited"}
PostExit == {"exit", "exited", "exit code", "observe", "release", "released"}

\* The container has exited, or nothing has told it to start.
Over == container = "exited" \/ ~ mem.start

\* Every command and every state of the container is announced on disk; a start is
\* dispatched once; and post_exit is entered only when the container cannot run again.
LifeInv ==
  /\ mem.create = disk.create /\ mem.start = disk.start
  /\ container # "none" \/ "create" \in ops \/ pc = "create" => mem.create
  /\ Beyond \/ "start" \in ops \/ pc = "start" => mem.start
  /\ Beyond \/ pc = "start" => "start" \notin ops
  /\ pc = "start" => ~ Beyond
  /\ seen = "exited" => container = "exited"
  /\ after = "observe" \/ pc \in PostExit => Over
  /\ pc \in {"decide", "start"} => after = "decide"
  /\ pc \in {"incident", "revoke", "mark"} /\ report.next = "decide" => after = "decide"
  /\ pc = "begin" => ~ mem.create /\ ~ mem.start

\* A resumed supervisor is told to stop; a stop recorded in memory is being dispatched, has
\* a client of this process, or raised in its tick.
FollowInv ==
  /\ Alive /\ crashes > 0 => stopRequested
  /\ Alive /\ mem.stop =>
       pc \in {"withdraw", "halt"} \/ stopClient # "none" \/ "exception" \in mem.counted

SupervisorInv == TypeOK /\ LatchInv /\ ReportInv /\ RevokeInv /\ LifeInv /\ FollowInv

----
\* TypeOK, in parts.
Marks == {"none", "quarantine", "exit code", "deadline"}
IntentsOK == disk \in Intents /\ mem \in Intents
ReportOK == report \in [hardware : BOOLEAN, fresh : BOOLEAN, next : Places, mark : Marks]
WindowOK == window \in [samples : 0 .. 3, elapsed : 0 .. 2]
FilesOK ==
  /\ receipt \in {"none", "READY", "UNQUALIFIED"} /\ first \in {"none", "soft", "hardware"}
  /\ stopFile \in BOOLEAN /\ attested \in BOOLEAN
PlaceOK == pc \in Places
ProcessOK ==
  /\ stopRequested \in BOOLEAN /\ broken \in BOOLEAN
  /\ seen \in {"none", "created", "starting", "serving", "stopping", "exited"}
  /\ after \in {"tick", "decide", "fresh", "observe"}
DockerOK ==
  /\ container \in {"none", "created", "starting", "serving", "stopping", "exited"}
  /\ failed \in BOOLEAN /\ ops \subseteq {"create", "start", "stop"}
  /\ stopClient \in {"none", "pending", "ok", "failed"}
  /\ waiting \in BOOLEAN /\ retried \in BOOLEAN /\ busy \in BOOLEAN
CountsOK == faults \in Nat /\ readFaults \in Nat /\ troubles \in Nat /\ crashes \in Nat

LEMMA TypeParts ==
  TypeOK <=> /\ IntentsOK /\ ReportOK /\ WindowOK /\ FilesOK /\ PlaceOK /\ ProcessOK
             /\ DockerOK /\ CountsOK
  BY DEF TypeOK, IntentsOK, ReportOK, WindowOK, FilesOK, PlaceOK, ProcessOK, DockerOK,
         CountsOK, Marks

LEMMA TroubleCounted ==
  ASSUME CountsOK, NEW kind, Trouble(kind)
  PROVE  troubles' \in Nat
  BY DEF Trouble, CountsOK

LEMMA SampledTyped ==
  ASSUME WindowOK, NEW gap \in 0 .. MaxGap
  PROVE  Sampled(gap) \in [samples : 0 .. 3, elapsed : 0 .. 2]
<1>1. window.samples \in 0 .. 3 /\ window.elapsed \in 0 .. 2 /\ gap \in Nat
  BY SupervisorBounds DEF WindowOK, SupervisorBounds
<1>2. CASE window.samples = 0 \/ gap > 2
  BY <1>2 DEF Sampled
<1>3. CASE ~ (window.samples = 0 \/ gap > 2)
  <2> DEFINE s == IF window.samples < 3 THEN window.samples + 1 ELSE 3
             e == IF window.elapsed + gap < 2 THEN window.elapsed + gap ELSE 2
  <2>1. s \in 0 .. 3 /\ e \in 0 .. 2
    BY <1>1
  <2>2. Sampled(gap) = [samples |-> s, elapsed |-> e]
    BY <1>3 DEF Sampled
  <2>. QED
    BY <2>1, <2>2
<1>. QED
  BY <1>2, <1>3

LEMMA IncidentTyped ==
  ASSUME NEW m \in Intents, NEW reason \in Reasons, NEW hardware \in BOOLEAN,
         NEW mark, NEW next, Incident(reason, hardware, m, mark, next)
  PROVE  IntentsOK'
<1>1. m.counted \union {reason} \in SUBSET Reasons
  BY DEF Intents
<1>2. (m.hardware \/ hardware) \in BOOLEAN
  OBVIOUS
<1>3. [m EXCEPT !.failure = TRUE, !.mapped = FALSE, !.hardware = @ \/ hardware,
                !.counted = @ \union {reason}] \in Intents
  BY <1>1, <1>2 DEF Intents
<1>. QED
  BY <1>3 DEF Incident, Persist, IntentsOK

LEMMA IncidentReport ==
  ASSUME NEW m, NEW reason, NEW hardware \in BOOLEAN,
         NEW mark \in Marks, NEW next \in Places, Incident(reason, hardware, m, mark, next)
  PROVE  ReportOK' /\ WindowOK'
  BY DEF Incident, ReportOK, WindowOK, NoWindow

LEMMA IntentsTyped ==
  ASSUME IntentsOK, ReportOK, DockerOK, CountsOK, [Next]_vars
  PROVE  IntentsOK'
<1>1. ASSUME RecordFirst \/ RevokeReceipt \/ DispatchCreate \/ ChannelsClear \/ Monitored
             \/ DispatchStart \/ DecideExit \/ NothingToPublish \/ ValidateMapping
             \/ MappingBlocked \/ AnnounceReady \/ ReadyStands
      PROVE  UNCHANGED <<disk, mem>>
  BY <1>1
     DEF RecordFirst, RevokeReceipt, DispatchCreate, ChannelsClear, Monitored,
         DispatchStart, DecideExit, NothingToPublish, ValidateMapping, MappingBlocked,
         AnnounceReady, ReadyStands
<1>2. ASSUME Unready \/ NoStopDue \/ WithdrawReceipt \/ DispatchStop \/ RevokeAtExit
             \/ NothingMapped \/ Release \/ CreateRaises \/ JournalFails \/ ChannelFails
             \/ DaemonCreates \/ DaemonStarts
      PROVE  UNCHANGED <<disk, mem>>
  BY <1>2
     DEF Unready, NoStopDue, WithdrawReceipt, DispatchStop, RevokeAtExit, NothingMapped,
         Release, CreateRaises, JournalFails, ChannelFails, DaemonCreates, DaemonStarts
<1>3. ASSUME DaemonStops \/ StopClientEnds \/ DaemonRefuses \/ Boots \/ Exits
             \/ EndsByItself \/ KernelFault \/ Attest \/ RequestStop \/ Load \/ OwnedStopEnds \/ Signal
             \/ RetryStop
      PROVE  UNCHANGED <<disk, mem>>
  BY <1>3
     DEF DaemonStops, StopClientEnds, DaemonRefuses, Boots, Exits, EndsByItself,
         KernelFault, Attest, RequestStop, StopByHand, OwnedStop, Load, OwnedStopEnds, Signal, RetryStop
<1>4. CASE UNCHANGED <<disk, mem>>
  BY <1>4, IntentsOK DEF IntentsOK
<1>5. CASE Mark
  <2> DEFINE m == CASE report.mark = "none" -> mem
                    [] report.mark = "quarantine" -> [mem EXCEPT !.state = "OTHER"]
                    [] report.mark = "exit code" -> [mem EXCEPT !.exitRecorded = TRUE]
                    [] report.mark = "deadline" -> [mem EXCEPT !.deadline = TRUE]
  <2>1. report.mark \in Marks
    BY ReportOK DEF ReportOK
  <2>2. /\ mem \in Intents /\ [mem EXCEPT !.state = "OTHER"] \in Intents
        /\ [mem EXCEPT !.exitRecorded = TRUE] \in Intents
        /\ [mem EXCEPT !.deadline = TRUE] \in Intents
    BY IntentsOK DEF IntentsOK, Intents
  <2>3. m \in Intents
    BY <2>1, <2>2 DEF Marks
  <2>. QED
    BY <1>5, <2>3 DEF Mark, Persist, IntentsOK
<1>6. CASE BeginStopped
  BY <1>6, IntentsOK DEF BeginStopped, Persist, IntentsOK, Intents
<1>7. CASE Begin
  BY <1>7, IntentsOK DEF Begin, Persist, IntentsOK, Intents
<1>8. CASE Tick
  <2>1. /\ pc = "tick"
        /\ stopRequested' = (stopRequested \/ stopFile)
        /\ seen' = container
        /\ broken' = FALSE
        /\ UNCHANGED <<first, stopFile, attested, report, window, dockerVars, worldVars, counters>>
    BY <1>8 DEF Tick
  <2>2. CASE container = "none"
    <3>1. /\ Persist([Polled EXCEPT !.state = "OTHER"])
          /\ pc' = "kernel"
          /\ after' = "tick"
          /\ UNCHANGED receipt
      BY <1>8, <2>2 DEF Tick
    <3>. QED
      BY <3>1, IntentsOK, DockerOK, CountsOK DEF Persist, Polled, IntentsOK, DockerOK, CountsOK, Intents
  <2>3. CASE container # "none"
    <3>1. /\ Persist([Polled EXCEPT !.known = TRUE])
          /\ after' = "decide"
          /\ pc' \in {"decide", "kernel"}
          /\ receipt' \in {receipt, "UNQUALIFIED"}
      BY <1>8, <2>3 DEF Tick
    <3>. QED
      BY <3>1, IntentsOK, DockerOK, CountsOK DEF Persist, Polled, IntentsOK, DockerOK, CountsOK, Intents
  <2>. QED
    BY <1>8, <2>2, <2>3
<1>9. CASE ReadJournal
  <2>1. /\ pc = "kernel"
        /\ readFaults' = faults
        /\ UNCHANGED <<fileVars, seen, after, broken, dockerVars, faults, waiting, retried, busy, counters>>
    BY <1>9 DEF ReadJournal
  <2>2. CASE faults > mem.cursor
    <3>1. /\ Incident("kernel fault", TRUE, mem, "none", "cursor")
      BY <1>9, <2>2 DEF ReadJournal
    <3>. QED
      BY <3>1, IntentsOK, IncidentTyped DEF IntentsOK, Reasons
  <2>3. CASE ~ faults > mem.cursor
    <3>1. /\ pc' = "cursor"
          /\ UNCHANGED <<disk, mem, stopRequested, window, report>>
      BY <1>9, <2>3 DEF ReadJournal
    <3>. QED
      BY <2>1, <2>3, <3>1, IntentsOK DEF IntentsOK
  <2>. QED
    BY <1>9, <2>2, <2>3
<1>10. CASE AdvanceCursor
  BY <1>10, IntentsOK, CountsOK DEF AdvanceCursor, Persist, IntentsOK, CountsOK, Intents
<1>11. CASE MonitorRaises
  <2>1. CASE after = "tick"
    <3>1. /\ TickRaises(mem)
      BY <1>11, <2>1 DEF MonitorRaises
    <3>. QED
      BY <3>1, IntentsOK, IncidentTyped DEF IntentsOK, Reasons, TickRaises
  <2>2. CASE after = "decide"
    <3>1. /\ Incident("monitor", FALSE, mem, "none", "decide")
      BY <1>11, <2>2 DEF MonitorRaises
    <3>. QED
      BY <3>1, IntentsOK, IncidentTyped DEF IntentsOK, Reasons
  <2>3. CASE after = "fresh"
    <3>1. /\ Incident("mapping", FALSE, mem, "none", "stop")
      BY <1>11, <2>3 DEF MonitorRaises
    <3>. QED
      BY <3>1, IntentsOK, IncidentTyped DEF IntentsOK, Reasons
  <2>4. CASE after = "observe"
    <3>1. /\ Incident("post-exit", FALSE, mem, "quarantine", "tick")
      BY <1>11, <2>4 DEF MonitorRaises
    <3>. QED
      BY <3>1, IntentsOK, IncidentTyped DEF IntentsOK, Reasons
  <2>. QED
    BY <1>11, <2>1, <2>2, <2>3, <2>4 DEF MonitorRaises
<1>12. CASE ObserveRunning
  <2>1. /\ Goto("decide", "publish")
        /\ UNCHANGED <<first, stopFile, attested, procVars, dockerVars, worldVars, counters>>
    BY <1>12 DEF ObserveRunning, Goto
  <2>2. CASE mem.observed
    <3>1. /\ UNCHANGED <<disk, mem, receipt>>
      BY <1>12, <2>2 DEF ObserveRunning
    <3>. QED
      BY <2>1, <2>2, <3>1, IntentsOK DEF IntentsOK
  <2>3. CASE ~ mem.observed
    <3>1. /\ Persist([mem EXCEPT !.state = "RUNNING", !.observed = TRUE])
          /\ receipt' = "UNQUALIFIED"
      BY <1>12, <2>3 DEF ObserveRunning
    <3>. QED
      BY <3>1, IntentsOK, DockerOK, CountsOK DEF Persist, Polled, IntentsOK, DockerOK, CountsOK, Intents
  <2>. QED
    BY <1>12, <2>2, <2>3
<1>13. CASE IntendStart
  BY <1>13, IntentsOK DEF IntendStart, Persist, IntentsOK, Intents
<1>14. CASE StartUncertain
  BY <1>14, IntentsOK DEF StartUncertain, Persist, IntentsOK, Intents
<1>15. CASE RecordMapping
  BY <1>15, IntentsOK DEF RecordMapping, Persist, IntentsOK, Intents
<1>16. CASE MappingRejected
  BY <1>16, IntentsOK, IncidentTyped DEF MappingRejected, IntentsOK, Reasons
<1>17. CASE WithdrawMapping
  BY <1>17, IntentsOK DEF WithdrawMapping, Persist, IntentsOK, Intents
<1>18. CASE ReadyBlocked
  BY <1>18, IntentsOK DEF ReadyBlocked, Persist, IntentsOK, Intents
<1>19. CASE IntendStop
  BY <1>19, IntentsOK DEF IntendStop, Persist, IntentsOK, Intents
<1>20. CASE ForgetMapping
  BY <1>20, IntentsOK DEF ForgetMapping, Persist, IntentsOK, Intents
<1>21. CASE CheckExitCode
  <2>1. /\ pc = "exit code"
        /\ after' = "observe"
        /\ broken' = FALSE
        /\ UNCHANGED <<fileVars, seen, dockerVars, worldVars, counters>>
    BY <1>21 DEF CheckExitCode
  <2>2. CASE seen = "exited" /\ failed /\ ~ mem.exitRecorded
    <3>1. /\ Incident("exit code", FALSE, mem, "exit code", "kernel")
      BY <1>21, <2>2 DEF CheckExitCode
    <3>. QED
      BY <3>1, IntentsOK, IncidentTyped DEF IntentsOK, Reasons
  <2>3. CASE ~ (seen = "exited" /\ failed /\ ~ mem.exitRecorded)
    <3>1. /\ pc' = "kernel"
          /\ UNCHANGED <<disk, mem, stopRequested, window, report>>
      BY <1>21, <2>3 DEF CheckExitCode
    <3>. QED
      BY <2>1, <2>3, <3>1, IntentsOK DEF IntentsOK
  <2>. QED
    BY <1>21, <2>2, <2>3
<1>22. CASE HardwareLatched
  BY <1>22, IntentsOK DEF HardwareLatched, Persist, IntentsOK, Intents
<1>23. CASE CleanSample
  <2>1. /\ pc = "observe"
        /\ ~ mem.hardware
        /\ \E gap \in 0 .. MaxGap : window' = Sampled(gap)
        /\ UNCHANGED <<fileVars, stopRequested, seen, monitorVars, dockerVars, worldVars, counters>>
    BY <1>23 DEF CleanSample
  <2>2. CASE Complete(window')
    <3>1. /\ pc' = "release"
          /\ Persist([mem EXCEPT !.state = "OTHER", !.cleanup = TRUE])
      BY <1>23, <2>2 DEF CleanSample
    <3>. QED
      BY <3>1, IntentsOK, DockerOK, CountsOK DEF Persist, Polled, IntentsOK, DockerOK, CountsOK, Intents
  <2>3. CASE ~ Complete(window')
    <3>1. /\ pc' = "tick"
          /\ Persist([mem EXCEPT !.state = "OBSERVING"])
      BY <1>23, <2>3 DEF CleanSample
    <3>. QED
      BY <3>1, IntentsOK, DockerOK, CountsOK DEF Persist, Polled, IntentsOK, DockerOK, CountsOK, Intents
  <2>. QED
    BY <1>23, <2>2, <2>3
<1>24. CASE InspectFails
  <2>1. Polled \in Intents
    BY IntentsOK, DockerOK DEF Polled, IntentsOK, DockerOK, Intents
  <2>. QED
    BY <1>24, <2>1, IncidentTyped DEF InspectFails, TickRaises, Reasons
<1>25. CASE HardwareDiffers
  BY <1>25, IntentsOK, IncidentTyped DEF HardwareDiffers, IntentsOK, Reasons
<1>26. CASE ContainerLogsError
  BY <1>26, IntentsOK, IncidentTyped DEF ContainerLogsError, IntentsOK, Reasons
<1>27. CASE StartRaises
  BY <1>27, IntentsOK, IncidentTyped DEF StartRaises, TickRaises, IntentsOK, Reasons
<1>28. CASE StopRaises
  BY <1>28, IntentsOK, IncidentTyped DEF StopRaises, TickRaises, IntentsOK, Reasons
<1>29. CASE StopOverdue
  BY <1>29, IntentsOK, IncidentTyped DEF StopOverdue, IntentsOK, Reasons
<1>30. CASE NotIdle
  BY <1>30, IntentsOK, IncidentTyped DEF NotIdle, IntentsOK, Reasons
<1>31. CASE Settling
  BY <1>31, IntentsOK DEF Settling, Persist, IntentsOK, Intents
<1>32. CASE Crash
  BY <1>32, IntentsOK DEF Crash, IntentsOK
<1>33. CASE Resume
  <2>1. (disk.hardware \/ first = "hardware") \in BOOLEAN
    OBVIOUS
  <2>2. Resumed \in Intents
    BY <2>1, IntentsOK DEF Resumed, IntentsOK, Intents
  <2>. QED
    BY <1>33, <2>2, IntentsOK DEF Resume, IntentsOK
<1>34. CASE UNCHANGED vars
  BY <1>4, <1>34 DEF vars
<1>. QED
  BY <1>1, <1>2, <1>3, <1>4, <1>5, <1>6, <1>7, <1>8, <1>9, <1>10, <1>11, <1>12, <1>13,
     <1>14, <1>15, <1>16, <1>17, <1>18, <1>19, <1>20, <1>21, <1>22, <1>23, <1>24, <1>25,
     <1>26, <1>27, <1>28, <1>29, <1>30, <1>31, <1>32, <1>33, <1>34
     DEF Next, SupervisorStep, TroubleStep, DaemonStep, WorldStep

LEMMA ReportTyped ==
  ASSUME ReportOK, [Next]_vars
  PROVE  ReportOK'
<1>1. ASSUME RecordFirst \/ RevokeReceipt \/ Mark \/ BeginStopped \/ Begin
             \/ DispatchCreate \/ Tick \/ AdvanceCursor \/ ChannelsClear \/ Monitored
             \/ ObserveRunning \/ IntendStart
      PROVE  UNCHANGED report
  BY <1>1
     DEF RecordFirst, RevokeReceipt, Mark, BeginStopped, Begin, DispatchCreate, Tick,
         AdvanceCursor, ChannelsClear, Monitored, ObserveRunning, IntendStart, monitorVars,
         procVars
<1>2. ASSUME DispatchStart \/ DecideExit \/ StartUncertain \/ NothingToPublish
             \/ ValidateMapping \/ RecordMapping \/ MappingBlocked \/ AnnounceReady
             \/ WithdrawMapping \/ ReadyStands \/ ReadyBlocked \/ Unready
      PROVE  UNCHANGED report
  BY <1>2
     DEF DispatchStart, DecideExit, StartUncertain, NothingToPublish, ValidateMapping,
         RecordMapping, MappingBlocked, AnnounceReady, WithdrawMapping, ReadyStands,
         ReadyBlocked, Unready, monitorVars, procVars
<1>3. ASSUME NoStopDue \/ IntendStop \/ WithdrawReceipt \/ DispatchStop \/ ForgetMapping
             \/ RevokeAtExit \/ NothingMapped \/ HardwareLatched \/ CleanSample \/ Release
             \/ CreateRaises \/ JournalFails
      PROVE  UNCHANGED report
  BY <1>3
     DEF NoStopDue, IntendStop, WithdrawReceipt, DispatchStop, ForgetMapping, RevokeAtExit,
         NothingMapped, HardwareLatched, CleanSample, Release, CreateRaises, JournalFails,
         monitorVars, procVars
<1>4. ASSUME ChannelFails \/ Settling \/ DaemonCreates \/ DaemonStarts \/ DaemonStops
             \/ StopClientEnds \/ DaemonRefuses \/ Boots \/ Exits \/ EndsByItself
             \/ KernelFault \/ Attest
      PROVE  UNCHANGED report
  BY <1>4
     DEF ChannelFails, Settling, DaemonCreates, DaemonStarts, DaemonStops, StopClientEnds,
         DaemonRefuses, Boots, Exits, EndsByItself, KernelFault, Attest, monitorVars,
         procVars
<1>5. ASSUME RequestStop \/ Load \/ OwnedStopEnds \/ Signal \/ RetryStop \/ Resume
      PROVE  UNCHANGED report
  BY <1>5 DEF RequestStop, StopByHand, OwnedStop, Load, OwnedStopEnds, Signal, RetryStop, Resume, monitorVars, procVars
<1>6. CASE UNCHANGED report
  BY <1>6, ReportOK DEF ReportOK
<1>7. CASE ReadJournal
  <2>1. /\ pc = "kernel"
        /\ readFaults' = faults
        /\ UNCHANGED <<fileVars, seen, after, broken, dockerVars, faults, waiting, retried, busy, counters>>
    BY <1>7 DEF ReadJournal
  <2>2. CASE faults > mem.cursor
    <3>1. /\ Incident("kernel fault", TRUE, mem, "none", "cursor")
      BY <1>7, <2>2 DEF ReadJournal
    <3>. QED
      BY <3>1, IncidentReport DEF Marks, Places
  <2>3. CASE ~ faults > mem.cursor
    <3>1. /\ pc' = "cursor"
          /\ UNCHANGED <<disk, mem, stopRequested, window, report>>
      BY <1>7, <2>3 DEF ReadJournal
    <3>. QED
      BY <2>1, <2>3, <3>1, ReportOK DEF ReportOK, Places, Marks
  <2>. QED
    BY <1>7, <2>2, <2>3
<1>8. CASE MonitorRaises
  <2>1. CASE after = "tick"
    <3>1. /\ TickRaises(mem)
      BY <1>8, <2>1 DEF MonitorRaises
    <3>. QED
      BY <3>1, IncidentReport DEF Marks, Places, TickRaises
  <2>2. CASE after = "decide"
    <3>1. /\ Incident("monitor", FALSE, mem, "none", "decide")
      BY <1>8, <2>2 DEF MonitorRaises
    <3>. QED
      BY <3>1, IncidentReport DEF Marks, Places
  <2>3. CASE after = "fresh"
    <3>1. /\ Incident("mapping", FALSE, mem, "none", "stop")
      BY <1>8, <2>3 DEF MonitorRaises
    <3>. QED
      BY <3>1, IncidentReport DEF Marks, Places
  <2>4. CASE after = "observe"
    <3>1. /\ Incident("post-exit", FALSE, mem, "quarantine", "tick")
      BY <1>8, <2>4 DEF MonitorRaises
    <3>. QED
      BY <3>1, IncidentReport DEF Marks, Places
  <2>. QED
    BY <1>8, <2>1, <2>2, <2>3, <2>4 DEF MonitorRaises
<1>9. CASE MappingRejected
  BY <1>9, IncidentReport DEF MappingRejected, Marks, Places
<1>10. CASE CheckExitCode
  <2>1. /\ pc = "exit code"
        /\ after' = "observe"
        /\ broken' = FALSE
        /\ UNCHANGED <<fileVars, seen, dockerVars, worldVars, counters>>
    BY <1>10 DEF CheckExitCode
  <2>2. CASE seen = "exited" /\ failed /\ ~ mem.exitRecorded
    <3>1. /\ Incident("exit code", FALSE, mem, "exit code", "kernel")
      BY <1>10, <2>2 DEF CheckExitCode
    <3>. QED
      BY <3>1, IncidentReport DEF Marks, Places
  <2>3. CASE ~ (seen = "exited" /\ failed /\ ~ mem.exitRecorded)
    <3>1. /\ pc' = "kernel"
          /\ UNCHANGED <<disk, mem, stopRequested, window, report>>
      BY <1>10, <2>3 DEF CheckExitCode
    <3>. QED
      BY <2>1, <2>3, <3>1, ReportOK DEF ReportOK, Places, Marks
  <2>. QED
    BY <1>10, <2>2, <2>3
<1>11. CASE InspectFails
  BY <1>11, IncidentReport DEF InspectFails, TickRaises, Marks, Places
<1>12. CASE HardwareDiffers
  BY <1>12, IncidentReport DEF HardwareDiffers, Marks, Places
<1>13. CASE ContainerLogsError
  BY <1>13, IncidentReport DEF ContainerLogsError, Marks, Places
<1>14. CASE StartRaises
  BY <1>14, IncidentReport DEF StartRaises, TickRaises, Marks, Places
<1>15. CASE StopRaises
  BY <1>15, IncidentReport DEF StopRaises, TickRaises, Marks, Places
<1>16. CASE StopOverdue
  BY <1>16, IncidentReport DEF StopOverdue, Marks, Places
<1>17. CASE NotIdle
  BY <1>17, IncidentReport DEF NotIdle, Marks, Places
<1>18. CASE Crash
  BY <1>18, ReportOK DEF Crash, NoWindow, NoReport, ReportOK, Places, Marks
<1>19. CASE UNCHANGED vars
  BY <1>6, <1>19 DEF vars, monitorVars, procVars
<1>. QED
  BY <1>1, <1>2, <1>3, <1>4, <1>5, <1>6, <1>7, <1>8, <1>9, <1>10, <1>11, <1>12, <1>13,
     <1>14, <1>15, <1>16, <1>17, <1>18, <1>19
     DEF Next, SupervisorStep, TroubleStep, DaemonStep, WorldStep

LEMMA WindowTyped ==
  ASSUME WindowOK, [Next]_vars
  PROVE  WindowOK'
<1>1. ASSUME RecordFirst \/ RevokeReceipt \/ Mark \/ BeginStopped \/ Begin
             \/ DispatchCreate \/ Tick \/ AdvanceCursor \/ ChannelsClear \/ Monitored
             \/ ObserveRunning \/ IntendStart
      PROVE  UNCHANGED window
  BY <1>1
     DEF RecordFirst, RevokeReceipt, Mark, BeginStopped, Begin, DispatchCreate, Tick,
         AdvanceCursor, ChannelsClear, Monitored, ObserveRunning, IntendStart, procVars
<1>2. ASSUME DispatchStart \/ DecideExit \/ StartUncertain \/ NothingToPublish
             \/ ValidateMapping \/ RecordMapping \/ MappingBlocked \/ AnnounceReady
             \/ WithdrawMapping \/ ReadyStands \/ ReadyBlocked \/ Unready
      PROVE  UNCHANGED window
  BY <1>2
     DEF DispatchStart, DecideExit, StartUncertain, NothingToPublish, ValidateMapping,
         RecordMapping, MappingBlocked, AnnounceReady, WithdrawMapping, ReadyStands,
         ReadyBlocked, Unready, procVars
<1>3. ASSUME NoStopDue \/ IntendStop \/ WithdrawReceipt \/ DispatchStop \/ ForgetMapping
             \/ RevokeAtExit \/ NothingMapped \/ HardwareLatched \/ Release
             \/ CreateRaises \/ JournalFails \/ ChannelFails
      PROVE  UNCHANGED window
  BY <1>3
     DEF NoStopDue, IntendStop, WithdrawReceipt, DispatchStop, ForgetMapping, RevokeAtExit,
         NothingMapped, HardwareLatched, Release, CreateRaises, JournalFails, ChannelFails,
         procVars
<1>4. ASSUME DaemonCreates \/ DaemonStarts \/ DaemonStops \/ StopClientEnds
             \/ DaemonRefuses \/ Boots \/ Exits \/ EndsByItself \/ KernelFault \/ Attest
             \/ RequestStop \/ Load \/ OwnedStopEnds \/ Signal
      PROVE  UNCHANGED window
  BY <1>4
     DEF DaemonCreates, DaemonStarts, DaemonStops, StopClientEnds, DaemonRefuses, Boots,
         Exits, EndsByItself, KernelFault, Attest, RequestStop, StopByHand, OwnedStop, Load, OwnedStopEnds, Signal, procVars
<1>5. ASSUME RetryStop \/ Resume
      PROVE  UNCHANGED window
  BY <1>5 DEF RetryStop, Resume, procVars
<1>6. CASE UNCHANGED window
  BY <1>6, WindowOK DEF WindowOK
<1>7. CASE ReadJournal
  <2>1. /\ pc = "kernel"
        /\ readFaults' = faults
        /\ UNCHANGED <<fileVars, seen, after, broken, dockerVars, faults, waiting, retried, busy, counters>>
    BY <1>7 DEF ReadJournal
  <2>2. CASE faults > mem.cursor
    <3>1. /\ Incident("kernel fault", TRUE, mem, "none", "cursor")
      BY <1>7, <2>2 DEF ReadJournal
    <3>. QED
      BY <3>1, IncidentReport DEF Marks, Places
  <2>3. CASE ~ faults > mem.cursor
    <3>1. /\ pc' = "cursor"
          /\ UNCHANGED <<disk, mem, stopRequested, window, report>>
      BY <1>7, <2>3 DEF ReadJournal
    <3>. QED
      BY <2>1, <2>3, <3>1, WindowOK DEF WindowOK
  <2>. QED
    BY <1>7, <2>2, <2>3
<1>8. CASE MonitorRaises
  <2>1. CASE after = "tick"
    <3>1. /\ TickRaises(mem)
      BY <1>8, <2>1 DEF MonitorRaises
    <3>. QED
      BY <3>1, IncidentReport DEF Marks, Places, TickRaises
  <2>2. CASE after = "decide"
    <3>1. /\ Incident("monitor", FALSE, mem, "none", "decide")
      BY <1>8, <2>2 DEF MonitorRaises
    <3>. QED
      BY <3>1, IncidentReport DEF Marks, Places
  <2>3. CASE after = "fresh"
    <3>1. /\ Incident("mapping", FALSE, mem, "none", "stop")
      BY <1>8, <2>3 DEF MonitorRaises
    <3>. QED
      BY <3>1, IncidentReport DEF Marks, Places
  <2>4. CASE after = "observe"
    <3>1. /\ Incident("post-exit", FALSE, mem, "quarantine", "tick")
      BY <1>8, <2>4 DEF MonitorRaises
    <3>. QED
      BY <3>1, IncidentReport DEF Marks, Places
  <2>. QED
    BY <1>8, <2>1, <2>2, <2>3, <2>4 DEF MonitorRaises
<1>9. CASE MappingRejected
  BY <1>9, IncidentReport DEF MappingRejected, Marks, Places
<1>10. CASE CheckExitCode
  <2>1. /\ pc = "exit code"
        /\ after' = "observe"
        /\ broken' = FALSE
        /\ UNCHANGED <<fileVars, seen, dockerVars, worldVars, counters>>
    BY <1>10 DEF CheckExitCode
  <2>2. CASE seen = "exited" /\ failed /\ ~ mem.exitRecorded
    <3>1. /\ Incident("exit code", FALSE, mem, "exit code", "kernel")
      BY <1>10, <2>2 DEF CheckExitCode
    <3>. QED
      BY <3>1, IncidentReport DEF Marks, Places
  <2>3. CASE ~ (seen = "exited" /\ failed /\ ~ mem.exitRecorded)
    <3>1. /\ pc' = "kernel"
          /\ UNCHANGED <<disk, mem, stopRequested, window, report>>
      BY <1>10, <2>3 DEF CheckExitCode
    <3>. QED
      BY <2>1, <2>3, <3>1, WindowOK DEF WindowOK
  <2>. QED
    BY <1>10, <2>2, <2>3
<1>11. CASE CleanSample
  <2>1. /\ pc = "observe"
        /\ ~ mem.hardware
        /\ \E gap \in 0 .. MaxGap : window' = Sampled(gap)
        /\ UNCHANGED <<fileVars, stopRequested, seen, monitorVars, dockerVars, worldVars, counters>>
    BY <1>11 DEF CleanSample
  <2>2. CASE Complete(window')
    <3>1. /\ pc' = "release"
          /\ Persist([mem EXCEPT !.state = "OTHER", !.cleanup = TRUE])
      BY <1>11, <2>2 DEF CleanSample
    <3>. QED
      BY <2>1, SampledTyped, WindowOK DEF WindowOK
  <2>3. CASE ~ Complete(window')
    <3>1. /\ pc' = "tick"
          /\ Persist([mem EXCEPT !.state = "OBSERVING"])
      BY <1>11, <2>3 DEF CleanSample
    <3>. QED
      BY <2>1, SampledTyped, WindowOK DEF WindowOK
  <2>. QED
    BY <1>11, <2>2, <2>3
<1>12. CASE InspectFails
  BY <1>12, IncidentReport DEF InspectFails, TickRaises, Marks, Places
<1>13. CASE HardwareDiffers
  BY <1>13, IncidentReport DEF HardwareDiffers, Marks, Places
<1>14. CASE ContainerLogsError
  BY <1>14, IncidentReport DEF ContainerLogsError, Marks, Places
<1>15. CASE StartRaises
  BY <1>15, IncidentReport DEF StartRaises, TickRaises, Marks, Places
<1>16. CASE StopRaises
  BY <1>16, IncidentReport DEF StopRaises, TickRaises, Marks, Places
<1>17. CASE StopOverdue
  BY <1>17, IncidentReport DEF StopOverdue, Marks, Places
<1>18. CASE NotIdle
  BY <1>18, IncidentReport DEF NotIdle, Marks, Places
<1>19. CASE Settling
  BY <1>19, WindowOK DEF Settling, NoWindow, WindowOK
<1>20. CASE Crash
  BY <1>20, WindowOK DEF Crash, NoWindow, NoReport, WindowOK
<1>21. CASE UNCHANGED vars
  BY <1>6, <1>21 DEF vars, procVars
<1>. QED
  BY <1>1, <1>2, <1>3, <1>4, <1>5, <1>6, <1>7, <1>8, <1>9, <1>10, <1>11, <1>12, <1>13,
     <1>14, <1>15, <1>16, <1>17, <1>18, <1>19, <1>20, <1>21
     DEF Next, SupervisorStep, TroubleStep, DaemonStep, WorldStep

LEMMA FilesTyped ==
  ASSUME FilesOK, [Next]_vars
  PROVE  FilesOK'
<1>1. ASSUME Mark \/ BeginStopped \/ Begin \/ DispatchCreate \/ ReadJournal
             \/ AdvanceCursor \/ ChannelsClear \/ Monitored \/ MonitorRaises
             \/ IntendStart \/ DispatchStart \/ DecideExit
      PROVE  UNCHANGED <<receipt, first, stopFile, attested>>
  BY <1>1
     DEF Mark, BeginStopped, Begin, DispatchCreate, ReadJournal, AdvanceCursor,
         ChannelsClear, Monitored, MonitorRaises, IntendStart, DispatchStart, DecideExit,
         fileVars
<1>2. ASSUME StartUncertain \/ NothingToPublish \/ ValidateMapping \/ RecordMapping
             \/ MappingRejected \/ MappingBlocked \/ WithdrawMapping \/ ReadyStands
             \/ ReadyBlocked \/ NoStopDue \/ IntendStop \/ DispatchStop
      PROVE  UNCHANGED <<receipt, first, stopFile, attested>>
  BY <1>2
     DEF StartUncertain, NothingToPublish, ValidateMapping, RecordMapping, MappingRejected,
         MappingBlocked, WithdrawMapping, ReadyStands, ReadyBlocked, NoStopDue, IntendStop,
         DispatchStop, fileVars
<1>3. ASSUME ForgetMapping \/ NothingMapped \/ CheckExitCode \/ HardwareLatched
             \/ CleanSample \/ CreateRaises \/ InspectFails \/ JournalFails
             \/ ChannelFails \/ HardwareDiffers \/ ContainerLogsError \/ StartRaises
      PROVE  UNCHANGED <<receipt, first, stopFile, attested>>
  BY <1>3
     DEF ForgetMapping, NothingMapped, CheckExitCode, HardwareLatched, CleanSample,
         CreateRaises, InspectFails, JournalFails, ChannelFails, HardwareDiffers,
         ContainerLogsError, StartRaises, fileVars
<1>4. ASSUME StopRaises \/ StopOverdue \/ NotIdle \/ Settling \/ DaemonCreates
             \/ DaemonStarts \/ DaemonStops \/ StopClientEnds \/ DaemonRefuses \/ Boots
             \/ Exits \/ EndsByItself
      PROVE  UNCHANGED <<receipt, first, stopFile, attested>>
  BY <1>4
     DEF StopRaises, StopOverdue, NotIdle, Settling, DaemonCreates, DaemonStarts,
         DaemonStops, StopClientEnds, DaemonRefuses, Boots, Exits, EndsByItself, fileVars
<1>5. ASSUME KernelFault \/ Signal \/ Load \/ RetryStop \/ OwnedStopEnds \/ Crash \/ Resume
      PROVE  UNCHANGED <<receipt, first, stopFile, attested>>
  BY <1>5 DEF KernelFault, Signal, Load, RetryStop, OwnedStopEnds, Crash, Resume, fileVars
<1>6. CASE UNCHANGED <<receipt, first, stopFile, attested>>
  BY <1>6, FilesOK DEF FilesOK
<1>7. CASE RecordFirst
  BY <1>7, FilesOK DEF RecordFirst, FilesOK
<1>8. CASE RevokeReceipt
  BY <1>8, FilesOK DEF RevokeReceipt, FilesOK
<1>9. CASE Tick
  <2>1. /\ pc = "tick"
        /\ stopRequested' = (stopRequested \/ stopFile)
        /\ seen' = container
        /\ broken' = FALSE
        /\ UNCHANGED <<first, stopFile, attested, report, window, dockerVars, worldVars, counters>>
    BY <1>9 DEF Tick
  <2>2. CASE container = "none"
    <3>1. /\ Persist([Polled EXCEPT !.state = "OTHER"])
          /\ pc' = "kernel"
          /\ after' = "tick"
          /\ UNCHANGED receipt
      BY <1>9, <2>2 DEF Tick
    <3>. QED
      BY <2>1, <2>2, <3>1, FilesOK DEF FilesOK
  <2>3. CASE container # "none"
    <3>1. /\ Persist([Polled EXCEPT !.known = TRUE])
          /\ after' = "decide"
          /\ pc' \in {"decide", "kernel"}
          /\ receipt' \in {receipt, "UNQUALIFIED"}
      BY <1>9, <2>3 DEF Tick
    <3>. QED
      BY <2>1, <2>3, <3>1, FilesOK DEF FilesOK
  <2>. QED
    BY <1>9, <2>2, <2>3
<1>10. CASE ObserveRunning
  <2>1. /\ Goto("decide", "publish")
        /\ UNCHANGED <<first, stopFile, attested, procVars, dockerVars, worldVars, counters>>
    BY <1>10 DEF ObserveRunning, Goto
  <2>2. CASE mem.observed
    <3>1. /\ UNCHANGED <<disk, mem, receipt>>
      BY <1>10, <2>2 DEF ObserveRunning
    <3>. QED
      BY <2>1, <2>2, <3>1, FilesOK DEF FilesOK
  <2>3. CASE ~ mem.observed
    <3>1. /\ Persist([mem EXCEPT !.state = "RUNNING", !.observed = TRUE])
          /\ receipt' = "UNQUALIFIED"
      BY <1>10, <2>3 DEF ObserveRunning
    <3>. QED
      BY <2>1, <2>3, <3>1, FilesOK DEF FilesOK
  <2>. QED
    BY <1>10, <2>2, <2>3
<1>11. CASE AnnounceReady
  BY <1>11, FilesOK DEF AnnounceReady, FilesOK
<1>12. CASE Unready
  BY <1>12, FilesOK DEF Unready, FilesOK
<1>13. CASE WithdrawReceipt
  BY <1>13, FilesOK DEF WithdrawReceipt, FilesOK
<1>14. CASE RevokeAtExit
  BY <1>14, FilesOK DEF RevokeAtExit, FilesOK
<1>15. CASE Release
  BY <1>15, FilesOK DEF Release, FilesOK
<1>16. CASE Attest
  BY <1>16, FilesOK DEF Attest, FilesOK
<1>17. CASE RequestStop
  BY <1>17, FilesOK DEF RequestStop, StopByHand, OwnedStop, FilesOK
<1>18. CASE UNCHANGED vars
  BY <1>6, <1>18 DEF vars, fileVars
<1>. QED
  BY <1>1, <1>2, <1>3, <1>4, <1>5, <1>6, <1>7, <1>8, <1>9, <1>10, <1>11, <1>12, <1>13,
     <1>14, <1>15, <1>16, <1>17, <1>18
     DEF Next, SupervisorStep, TroubleStep, DaemonStep, WorldStep

LEMMA PlaceTyped ==
  ASSUME PlaceOK, ProcessOK, ReportOK, [Next]_vars
  PROVE  PlaceOK'
<1>1. ASSUME DaemonCreates \/ DaemonStarts \/ DaemonStops \/ StopClientEnds
             \/ DaemonRefuses \/ Boots \/ Exits \/ EndsByItself \/ KernelFault \/ Attest
             \/ RequestStop \/ Load \/ OwnedStopEnds \/ Signal
      PROVE  UNCHANGED pc
  BY <1>1
     DEF DaemonCreates, DaemonStarts, DaemonStops, StopClientEnds, DaemonRefuses, Boots,
         Exits, EndsByItself, KernelFault, Attest, RequestStop, StopByHand, OwnedStop, Load, OwnedStopEnds, Signal
<1>2. ASSUME RetryStop
      PROVE  UNCHANGED pc
  BY <1>2 DEF RetryStop
<1>3. CASE UNCHANGED pc
  BY <1>3, PlaceOK DEF PlaceOK
<1>4. CASE RecordFirst
  BY <1>4, PlaceOK DEF RecordFirst, Goto, PlaceOK, Places
<1>5. CASE RevokeReceipt
  BY <1>5, PlaceOK DEF RevokeReceipt, Goto, PlaceOK, Places
<1>6. CASE Mark
  BY <1>6, ReportOK DEF Mark, Goto, PlaceOK, Places, ReportOK
<1>7. CASE BeginStopped
  BY <1>7, PlaceOK DEF BeginStopped, Goto, PlaceOK, Places
<1>8. CASE Begin
  BY <1>8, PlaceOK DEF Begin, Goto, PlaceOK, Places
<1>9. CASE DispatchCreate
  BY <1>9, PlaceOK DEF DispatchCreate, Goto, PlaceOK, Places
<1>10. CASE Tick
  <2>1. /\ pc = "tick"
        /\ stopRequested' = (stopRequested \/ stopFile)
        /\ seen' = container
        /\ broken' = FALSE
        /\ UNCHANGED <<first, stopFile, attested, report, window, dockerVars, worldVars, counters>>
    BY <1>10 DEF Tick
  <2>2. CASE container = "none"
    <3>1. /\ Persist([Polled EXCEPT !.state = "OTHER"])
          /\ pc' = "kernel"
          /\ after' = "tick"
          /\ UNCHANGED receipt
      BY <1>10, <2>2 DEF Tick
    <3>. QED
      BY <2>1, <2>2, <3>1, PlaceOK DEF PlaceOK, Places
  <2>3. CASE container # "none"
    <3>1. /\ Persist([Polled EXCEPT !.known = TRUE])
          /\ after' = "decide"
          /\ pc' \in {"decide", "kernel"}
          /\ receipt' \in {receipt, "UNQUALIFIED"}
      BY <1>10, <2>3 DEF Tick
    <3>. QED
      BY <2>1, <2>3, <3>1, PlaceOK DEF PlaceOK, Places
  <2>. QED
    BY <1>10, <2>2, <2>3
<1>11. CASE ReadJournal
  <2>1. /\ pc = "kernel"
        /\ readFaults' = faults
        /\ UNCHANGED <<fileVars, seen, after, broken, dockerVars, faults, waiting, retried, busy, counters>>
    BY <1>11 DEF ReadJournal
  <2>2. CASE faults > mem.cursor
    <3>1. /\ Incident("kernel fault", TRUE, mem, "none", "cursor")
      BY <1>11, <2>2 DEF ReadJournal
    <3>. QED
      BY <2>1, <2>2, <3>1, PlaceOK DEF Incident, PlaceOK, Places
  <2>3. CASE ~ faults > mem.cursor
    <3>1. /\ pc' = "cursor"
          /\ UNCHANGED <<disk, mem, stopRequested, window, report>>
      BY <1>11, <2>3 DEF ReadJournal
    <3>. QED
      BY <2>1, <2>3, <3>1, PlaceOK DEF PlaceOK, Places
  <2>. QED
    BY <1>11, <2>2, <2>3
<1>12. CASE AdvanceCursor
  BY <1>12, PlaceOK DEF AdvanceCursor, Goto, PlaceOK, Places
<1>13. CASE ChannelsClear
  BY <1>13, PlaceOK DEF ChannelsClear, Goto, PlaceOK, Places
<1>14. CASE Monitored
  BY <1>14, ProcessOK DEF Monitored, Goto, PlaceOK, Places, ProcessOK
<1>15. CASE MonitorRaises
  <2>1. CASE after = "tick"
    <3>1. /\ TickRaises(mem)
      BY <1>15, <2>1 DEF MonitorRaises
    <3>. QED
      BY <1>15, <2>1, <3>1, PlaceOK DEF MonitorRaises, TickRaises, Incident, PlaceOK, Places
  <2>2. CASE after = "decide"
    <3>1. /\ Incident("monitor", FALSE, mem, "none", "decide")
      BY <1>15, <2>2 DEF MonitorRaises
    <3>. QED
      BY <1>15, <2>2, <3>1, PlaceOK DEF MonitorRaises, Incident, PlaceOK, Places
  <2>3. CASE after = "fresh"
    <3>1. /\ Incident("mapping", FALSE, mem, "none", "stop")
      BY <1>15, <2>3 DEF MonitorRaises
    <3>. QED
      BY <1>15, <2>3, <3>1, PlaceOK DEF MonitorRaises, Incident, PlaceOK, Places
  <2>4. CASE after = "observe"
    <3>1. /\ Incident("post-exit", FALSE, mem, "quarantine", "tick")
      BY <1>15, <2>4 DEF MonitorRaises
    <3>. QED
      BY <1>15, <2>4, <3>1, PlaceOK DEF MonitorRaises, Incident, PlaceOK, Places
  <2>. QED
    BY <1>15, <2>1, <2>2, <2>3, <2>4 DEF MonitorRaises
<1>16. CASE ObserveRunning
  BY <1>16, PlaceOK DEF ObserveRunning, Goto, PlaceOK, Places
<1>17. CASE IntendStart
  BY <1>17, PlaceOK DEF IntendStart, Goto, PlaceOK, Places
<1>18. CASE DispatchStart
  BY <1>18, PlaceOK DEF DispatchStart, Goto, PlaceOK, Places
<1>19. CASE DecideExit
  BY <1>19, PlaceOK DEF DecideExit, Goto, PlaceOK, Places
<1>20. CASE StartUncertain
  BY <1>20, PlaceOK DEF StartUncertain, Goto, PlaceOK, Places
<1>21. CASE NothingToPublish
  BY <1>21, PlaceOK DEF NothingToPublish, Goto, PlaceOK, Places
<1>22. CASE ValidateMapping
  BY <1>22, PlaceOK DEF ValidateMapping, Goto, PlaceOK, Places
<1>23. CASE RecordMapping
  BY <1>23, PlaceOK DEF RecordMapping, Goto, PlaceOK, Places
<1>24. CASE MappingRejected
  BY <1>24, PlaceOK DEF MappingRejected, Incident, PlaceOK, Places
<1>25. CASE MappingBlocked
  BY <1>25, PlaceOK DEF MappingBlocked, Goto, PlaceOK, Places
<1>26. CASE AnnounceReady
  BY <1>26, PlaceOK DEF AnnounceReady, Goto, PlaceOK, Places
<1>27. CASE WithdrawMapping
  BY <1>27, PlaceOK DEF WithdrawMapping, Goto, PlaceOK, Places
<1>28. CASE ReadyStands
  BY <1>28, PlaceOK DEF ReadyStands, Goto, PlaceOK, Places
<1>29. CASE ReadyBlocked
  BY <1>29, PlaceOK DEF ReadyBlocked, Goto, PlaceOK, Places
<1>30. CASE Unready
  BY <1>30, PlaceOK DEF Unready, Goto, PlaceOK, Places
<1>31. CASE NoStopDue
  BY <1>31, PlaceOK DEF NoStopDue, Goto, PlaceOK, Places
<1>32. CASE IntendStop
  BY <1>32, PlaceOK DEF IntendStop, Goto, PlaceOK, Places
<1>33. CASE WithdrawReceipt
  BY <1>33, PlaceOK DEF WithdrawReceipt, Goto, PlaceOK, Places
<1>34. CASE DispatchStop
  BY <1>34, PlaceOK DEF DispatchStop, Goto, PlaceOK, Places
<1>35. CASE ForgetMapping
  BY <1>35, PlaceOK DEF ForgetMapping, Goto, PlaceOK, Places
<1>36. CASE RevokeAtExit
  BY <1>36, PlaceOK DEF RevokeAtExit, Goto, PlaceOK, Places
<1>37. CASE NothingMapped
  BY <1>37, PlaceOK DEF NothingMapped, Goto, PlaceOK, Places
<1>38. CASE CheckExitCode
  <2>1. /\ pc = "exit code"
        /\ after' = "observe"
        /\ broken' = FALSE
        /\ UNCHANGED <<fileVars, seen, dockerVars, worldVars, counters>>
    BY <1>38 DEF CheckExitCode
  <2>2. CASE seen = "exited" /\ failed /\ ~ mem.exitRecorded
    <3>1. /\ Incident("exit code", FALSE, mem, "exit code", "kernel")
      BY <1>38, <2>2 DEF CheckExitCode
    <3>. QED
      BY <2>1, <2>2, <3>1, PlaceOK DEF Incident, PlaceOK, Places
  <2>3. CASE ~ (seen = "exited" /\ failed /\ ~ mem.exitRecorded)
    <3>1. /\ pc' = "kernel"
          /\ UNCHANGED <<disk, mem, stopRequested, window, report>>
      BY <1>38, <2>3 DEF CheckExitCode
    <3>. QED
      BY <2>1, <2>3, <3>1, PlaceOK DEF PlaceOK, Places
  <2>. QED
    BY <1>38, <2>2, <2>3
<1>39. CASE HardwareLatched
  BY <1>39, PlaceOK DEF HardwareLatched, Goto, PlaceOK, Places
<1>40. CASE CleanSample
  <2>1. /\ pc = "observe"
        /\ ~ mem.hardware
        /\ \E gap \in 0 .. MaxGap : window' = Sampled(gap)
        /\ UNCHANGED <<fileVars, stopRequested, seen, monitorVars, dockerVars, worldVars, counters>>
    BY <1>40 DEF CleanSample
  <2>2. CASE Complete(window')
    <3>1. /\ pc' = "release"
          /\ Persist([mem EXCEPT !.state = "OTHER", !.cleanup = TRUE])
      BY <1>40, <2>2 DEF CleanSample
    <3>. QED
      BY <2>1, <2>2, <3>1, PlaceOK DEF PlaceOK, Places
  <2>3. CASE ~ Complete(window')
    <3>1. /\ pc' = "tick"
          /\ Persist([mem EXCEPT !.state = "OBSERVING"])
      BY <1>40, <2>3 DEF CleanSample
    <3>. QED
      BY <2>1, <2>3, <3>1, PlaceOK DEF PlaceOK, Places
  <2>. QED
    BY <1>40, <2>2, <2>3
<1>41. CASE Release
  BY <1>41, PlaceOK DEF Release, Goto, PlaceOK, Places
<1>42. CASE CreateRaises
  BY <1>42, PlaceOK DEF CreateRaises, Goto, PlaceOK, Places
<1>43. CASE InspectFails
  BY <1>43, PlaceOK DEF InspectFails, TickRaises, Incident, PlaceOK, Places
<1>44. CASE JournalFails
  BY <1>44, PlaceOK DEF JournalFails, Goto, PlaceOK, Places
<1>45. CASE ChannelFails
  BY <1>45, PlaceOK DEF ChannelFails, Goto, PlaceOK, Places
<1>46. CASE HardwareDiffers
  BY <1>46, PlaceOK DEF HardwareDiffers, Incident, PlaceOK, Places
<1>47. CASE ContainerLogsError
  BY <1>47, PlaceOK DEF ContainerLogsError, Incident, PlaceOK, Places
<1>48. CASE StartRaises
  BY <1>48, PlaceOK DEF StartRaises, TickRaises, Incident, PlaceOK, Places
<1>49. CASE StopRaises
  BY <1>49, PlaceOK DEF StopRaises, TickRaises, Incident, PlaceOK, Places
<1>50. CASE StopOverdue
  BY <1>50, PlaceOK DEF StopOverdue, Incident, PlaceOK, Places
<1>51. CASE NotIdle
  BY <1>51, PlaceOK DEF NotIdle, Incident, PlaceOK, Places
<1>52. CASE Settling
  BY <1>52, PlaceOK DEF Settling, Goto, PlaceOK, Places
<1>53. CASE Crash
  BY <1>53, PlaceOK DEF Crash, Alive, PlaceOK, Places
<1>54. CASE Resume
  BY <1>54, PlaceOK DEF Resume, Goto, PlaceOK, Places
<1>55. CASE UNCHANGED vars
  BY <1>3, <1>55 DEF vars
<1>. QED
  BY <1>1, <1>2, <1>3, <1>4, <1>5, <1>6, <1>7, <1>8, <1>9, <1>10, <1>11, <1>12, <1>13,
     <1>14, <1>15, <1>16, <1>17, <1>18, <1>19, <1>20, <1>21, <1>22, <1>23, <1>24, <1>25,
     <1>26, <1>27, <1>28, <1>29, <1>30, <1>31, <1>32, <1>33, <1>34, <1>35, <1>36, <1>37,
     <1>38, <1>39, <1>40, <1>41, <1>42, <1>43, <1>44, <1>45, <1>46, <1>47, <1>48, <1>49,
     <1>50, <1>51, <1>52, <1>53, <1>54, <1>55
     DEF Next, SupervisorStep, TroubleStep, DaemonStep, WorldStep

LEMMA ProcessTyped ==
  ASSUME FilesOK, ProcessOK, DockerOK, [Next]_vars
  PROVE  ProcessOK'
<1>1. ASSUME RecordFirst \/ RevokeReceipt \/ Mark \/ BeginStopped \/ Begin
             \/ DispatchCreate \/ AdvanceCursor \/ ChannelsClear \/ Monitored
             \/ ObserveRunning \/ IntendStart \/ DispatchStart
      PROVE  UNCHANGED <<stopRequested, broken, seen, after>>
  BY <1>1
     DEF RecordFirst, RevokeReceipt, Mark, BeginStopped, Begin, DispatchCreate,
         AdvanceCursor, ChannelsClear, Monitored, ObserveRunning, IntendStart,
         DispatchStart, monitorVars, procVars
<1>2. ASSUME DecideExit \/ StartUncertain \/ RecordMapping \/ AnnounceReady \/ ReadyStands
             \/ Unready \/ NoStopDue \/ IntendStop \/ WithdrawReceipt \/ DispatchStop
             \/ ForgetMapping \/ RevokeAtExit
      PROVE  UNCHANGED <<stopRequested, broken, seen, after>>
  BY <1>2
     DEF DecideExit, StartUncertain, RecordMapping, AnnounceReady, ReadyStands, Unready,
         NoStopDue, IntendStop, WithdrawReceipt, DispatchStop, ForgetMapping, RevokeAtExit,
         monitorVars, procVars
<1>3. ASSUME NothingMapped \/ HardwareLatched \/ CleanSample \/ Release \/ Settling
             \/ DaemonCreates \/ DaemonStarts \/ DaemonStops \/ StopClientEnds
             \/ DaemonRefuses \/ Boots \/ Exits
      PROVE  UNCHANGED <<stopRequested, broken, seen, after>>
  BY <1>3
     DEF NothingMapped, HardwareLatched, CleanSample, Release, Settling, DaemonCreates,
         DaemonStarts, DaemonStops, StopClientEnds, DaemonRefuses, Boots, Exits,
         monitorVars, procVars
<1>4. ASSUME EndsByItself \/ KernelFault \/ Attest \/ RequestStop \/ Load \/ OwnedStopEnds \/ RetryStop
      PROVE  UNCHANGED <<stopRequested, broken, seen, after>>
  BY <1>4
     DEF EndsByItself, KernelFault, Attest, RequestStop, StopByHand, OwnedStop, Load, OwnedStopEnds, RetryStop, monitorVars, procVars
<1>5. CASE UNCHANGED <<stopRequested, broken, seen, after>>
  BY <1>5, ProcessOK DEF ProcessOK
<1>6. CASE Tick
  <2>1. /\ pc = "tick"
        /\ stopRequested' = (stopRequested \/ stopFile)
        /\ seen' = container
        /\ broken' = FALSE
        /\ UNCHANGED <<first, stopFile, attested, report, window, dockerVars, worldVars, counters>>
    BY <1>6 DEF Tick
  <2>2. CASE container = "none"
    <3>1. /\ Persist([Polled EXCEPT !.state = "OTHER"])
          /\ pc' = "kernel"
          /\ after' = "tick"
          /\ UNCHANGED receipt
      BY <1>6, <2>2 DEF Tick
    <3>. QED
      BY <2>1, <2>2, <3>1, ProcessOK, DockerOK, FilesOK DEF ProcessOK, DockerOK, FilesOK
  <2>3. CASE container # "none"
    <3>1. /\ Persist([Polled EXCEPT !.known = TRUE])
          /\ after' = "decide"
          /\ pc' \in {"decide", "kernel"}
          /\ receipt' \in {receipt, "UNQUALIFIED"}
      BY <1>6, <2>3 DEF Tick
    <3>. QED
      BY <2>1, <2>3, <3>1, ProcessOK, DockerOK, FilesOK DEF ProcessOK, DockerOK, FilesOK
  <2>. QED
    BY <1>6, <2>2, <2>3
<1>7. CASE ReadJournal
  <2>1. /\ pc = "kernel"
        /\ readFaults' = faults
        /\ UNCHANGED <<fileVars, seen, after, broken, dockerVars, faults, waiting, retried, busy, counters>>
    BY <1>7 DEF ReadJournal
  <2>2. CASE faults > mem.cursor
    <3>1. /\ Incident("kernel fault", TRUE, mem, "none", "cursor")
      BY <1>7, <2>2 DEF ReadJournal
    <3>. QED
      BY <2>1, <2>2, <3>1, ProcessOK DEF Incident, ProcessOK
  <2>3. CASE ~ faults > mem.cursor
    <3>1. /\ pc' = "cursor"
          /\ UNCHANGED <<disk, mem, stopRequested, window, report>>
      BY <1>7, <2>3 DEF ReadJournal
    <3>. QED
      BY <2>1, <2>3, <3>1, ProcessOK DEF ProcessOK
  <2>. QED
    BY <1>7, <2>2, <2>3
<1>8. CASE MonitorRaises
  <2>1. CASE after = "tick"
    <3>1. /\ TickRaises(mem)
      BY <1>8, <2>1 DEF MonitorRaises
    <3>. QED
      BY <1>8, <2>1, <3>1, ProcessOK DEF MonitorRaises, TickRaises, Incident, ProcessOK
  <2>2. CASE after = "decide"
    <3>1. /\ Incident("monitor", FALSE, mem, "none", "decide")
      BY <1>8, <2>2 DEF MonitorRaises
    <3>. QED
      BY <1>8, <2>2, <3>1, ProcessOK DEF MonitorRaises, Incident, ProcessOK
  <2>3. CASE after = "fresh"
    <3>1. /\ Incident("mapping", FALSE, mem, "none", "stop")
      BY <1>8, <2>3 DEF MonitorRaises
    <3>. QED
      BY <1>8, <2>3, <3>1, ProcessOK DEF MonitorRaises, Incident, ProcessOK
  <2>4. CASE after = "observe"
    <3>1. /\ Incident("post-exit", FALSE, mem, "quarantine", "tick")
      BY <1>8, <2>4 DEF MonitorRaises
    <3>. QED
      BY <1>8, <2>4, <3>1, ProcessOK DEF MonitorRaises, Incident, ProcessOK
  <2>. QED
    BY <1>8, <2>1, <2>2, <2>3, <2>4 DEF MonitorRaises
<1>9. CASE NothingToPublish
  BY <1>9, ProcessOK, FilesOK
     DEF NothingToPublish, PollStop, monitorVars, ProcessOK, FilesOK
<1>10. CASE ValidateMapping
  BY <1>10, ProcessOK DEF ValidateMapping, ProcessOK
<1>11. CASE MappingRejected
  BY <1>11, ProcessOK DEF MappingRejected, Incident, ProcessOK
<1>12. CASE MappingBlocked
  BY <1>12, ProcessOK, FilesOK DEF MappingBlocked, PollStop, monitorVars, ProcessOK, FilesOK
<1>13. CASE WithdrawMapping
  BY <1>13, ProcessOK, FilesOK
     DEF WithdrawMapping, PollStop, monitorVars, ProcessOK, FilesOK
<1>14. CASE ReadyBlocked
  BY <1>14, ProcessOK, FilesOK DEF ReadyBlocked, PollStop, monitorVars, ProcessOK, FilesOK
<1>15. CASE CheckExitCode
  <2>1. /\ pc = "exit code"
        /\ after' = "observe"
        /\ broken' = FALSE
        /\ UNCHANGED <<fileVars, seen, dockerVars, worldVars, counters>>
    BY <1>15 DEF CheckExitCode
  <2>2. CASE seen = "exited" /\ failed /\ ~ mem.exitRecorded
    <3>1. /\ Incident("exit code", FALSE, mem, "exit code", "kernel")
      BY <1>15, <2>2 DEF CheckExitCode
    <3>. QED
      BY <2>1, <2>2, <3>1, ProcessOK DEF Incident, ProcessOK
  <2>3. CASE ~ (seen = "exited" /\ failed /\ ~ mem.exitRecorded)
    <3>1. /\ pc' = "kernel"
          /\ UNCHANGED <<disk, mem, stopRequested, window, report>>
      BY <1>15, <2>3 DEF CheckExitCode
    <3>. QED
      BY <2>1, <2>3, <3>1, ProcessOK DEF ProcessOK
  <2>. QED
    BY <1>15, <2>2, <2>3
<1>16. CASE CreateRaises
  BY <1>16, ProcessOK DEF CreateRaises, monitorVars, ProcessOK
<1>17. CASE InspectFails
  BY <1>17, ProcessOK DEF InspectFails, TickRaises, Incident, ProcessOK
<1>18. CASE JournalFails
  BY <1>18, ProcessOK DEF JournalFails, ProcessOK
<1>19. CASE ChannelFails
  BY <1>19, ProcessOK DEF ChannelFails, ProcessOK
<1>20. CASE HardwareDiffers
  BY <1>20, ProcessOK DEF HardwareDiffers, Incident, ProcessOK
<1>21. CASE ContainerLogsError
  BY <1>21, ProcessOK DEF ContainerLogsError, Incident, ProcessOK
<1>22. CASE StartRaises
  BY <1>22, ProcessOK DEF StartRaises, TickRaises, Incident, ProcessOK
<1>23. CASE StopRaises
  BY <1>23, ProcessOK DEF StopRaises, TickRaises, Incident, ProcessOK
<1>24. CASE StopOverdue
  BY <1>24, ProcessOK DEF StopOverdue, Incident, ProcessOK
<1>25. CASE NotIdle
  BY <1>25, ProcessOK DEF NotIdle, Incident, ProcessOK
<1>26. CASE Signal
  BY <1>26, ProcessOK DEF Signal, monitorVars, ProcessOK
<1>27. CASE Crash
  BY <1>27, ProcessOK DEF Crash, ProcessOK
<1>28. CASE Resume
  BY <1>28, ProcessOK DEF Resume, monitorVars, ProcessOK
<1>29. CASE UNCHANGED vars
  BY <1>5, <1>29 DEF vars, monitorVars, procVars
<1>. QED
  BY <1>1, <1>2, <1>3, <1>4, <1>5, <1>6, <1>7, <1>8, <1>9, <1>10, <1>11, <1>12, <1>13,
     <1>14, <1>15, <1>16, <1>17, <1>18, <1>19, <1>20, <1>21, <1>22, <1>23, <1>24, <1>25,
     <1>26, <1>27, <1>28, <1>29
     DEF Next, SupervisorStep, TroubleStep, DaemonStep, WorldStep

LEMMA DockerTyped ==
  ASSUME DockerOK, [Next]_vars
  PROVE  DockerOK'
<1>1. ASSUME RecordFirst \/ RevokeReceipt \/ Mark \/ BeginStopped \/ Begin \/ Tick
             \/ ReadJournal \/ AdvanceCursor \/ ChannelsClear \/ Monitored
             \/ MonitorRaises \/ ObserveRunning
      PROVE  UNCHANGED <<container, failed, ops, stopClient, waiting, retried, busy>>
  BY <1>1
     DEF RecordFirst, RevokeReceipt, Mark, BeginStopped, Begin, Tick, ReadJournal,
         AdvanceCursor, ChannelsClear, Monitored, MonitorRaises, ObserveRunning, dockerVars,
         worldVars
<1>2. ASSUME IntendStart \/ DecideExit \/ StartUncertain \/ NothingToPublish
             \/ ValidateMapping \/ RecordMapping \/ MappingRejected \/ MappingBlocked
             \/ AnnounceReady \/ WithdrawMapping \/ ReadyStands \/ ReadyBlocked
      PROVE  UNCHANGED <<container, failed, ops, stopClient, waiting, retried, busy>>
  BY <1>2
     DEF IntendStart, DecideExit, StartUncertain, NothingToPublish, ValidateMapping,
         RecordMapping, MappingRejected, MappingBlocked, AnnounceReady, WithdrawMapping,
         ReadyStands, ReadyBlocked, dockerVars, worldVars
<1>3. ASSUME Unready \/ NoStopDue \/ IntendStop \/ WithdrawReceipt \/ ForgetMapping
             \/ RevokeAtExit \/ NothingMapped \/ CheckExitCode \/ HardwareLatched
             \/ CleanSample \/ Release \/ CreateRaises
      PROVE  UNCHANGED <<container, failed, ops, stopClient, waiting, retried, busy>>
  BY <1>3
     DEF Unready, NoStopDue, IntendStop, WithdrawReceipt, ForgetMapping, RevokeAtExit,
         NothingMapped, CheckExitCode, HardwareLatched, CleanSample, Release, CreateRaises,
         dockerVars, worldVars
<1>4. ASSUME InspectFails \/ JournalFails \/ ChannelFails \/ HardwareDiffers
             \/ ContainerLogsError \/ StartRaises \/ StopRaises \/ StopOverdue \/ NotIdle
             \/ Settling \/ KernelFault \/ Attest
      PROVE  UNCHANGED <<container, failed, ops, stopClient, waiting, retried, busy>>
  BY <1>4
     DEF InspectFails, JournalFails, ChannelFails, HardwareDiffers, ContainerLogsError,
         StartRaises, StopRaises, StopOverdue, NotIdle, Settling, KernelFault, Attest,
         dockerVars, worldVars
<1>5. ASSUME StopByHand \/ Signal \/ Resume
      PROVE  UNCHANGED <<container, failed, ops, stopClient, waiting, retried, busy>>
  BY <1>5 DEF StopByHand, Signal, Resume, dockerVars, worldVars
<1>6. CASE UNCHANGED <<container, failed, ops, stopClient, waiting, retried, busy>>
  BY <1>6, DockerOK DEF DockerOK
<1>7. CASE DispatchCreate
  BY <1>7, DockerOK DEF DispatchCreate, worldVars, DockerOK
<1>8. CASE DispatchStart
  BY <1>8, DockerOK DEF DispatchStart, worldVars, DockerOK
<1>9. CASE DispatchStop
  BY <1>9, DockerOK DEF DispatchStop, worldVars, DockerOK
<1>10. CASE DaemonCreates
  BY <1>10, DockerOK DEF DaemonCreates, Executes, worldVars, DockerOK
<1>11. CASE DaemonStarts
  BY <1>11, DockerOK DEF DaemonStarts, Executes, worldVars, DockerOK
<1>12. CASE DaemonStops
  BY <1>12, DockerOK DEF DaemonStops, Executes, worldVars, DockerOK
<1>13. CASE StopClientEnds
  BY <1>13, DockerOK DEF StopClientEnds, worldVars, DockerOK
<1>14. CASE DaemonRefuses
  BY <1>14, DockerOK DEF DaemonRefuses, worldVars, DockerOK
<1>15. CASE Boots
  BY <1>15, DockerOK DEF Boots, worldVars, DockerOK
<1>16. CASE Exits
  BY <1>16, DockerOK DEF Exits, worldVars, DockerOK
<1>17. CASE EndsByItself
  BY <1>17, DockerOK DEF EndsByItself, worldVars, DockerOK
<1>18. CASE RetryStop
  BY <1>18, DockerOK DEF RetryStop, DockerOK
<1>19. CASE Crash
  BY <1>19, DockerOK DEF Crash, worldVars, DockerOK
<1>20. CASE OwnedStop \/ Load \/ OwnedStopEnds
  BY <1>20, DockerOK DEF OwnedStop, Load, OwnedStopEnds, dockerVars, DockerOK
<1>21. CASE UNCHANGED vars
  BY <1>6, <1>21 DEF vars, dockerVars, worldVars
<1>. QED
  BY <1>1, <1>2, <1>3, <1>4, <1>5, <1>6, <1>7, <1>8, <1>9, <1>10, <1>11, <1>12, <1>13,
     <1>14, <1>15, <1>16, <1>17, <1>18, <1>19, <1>20, <1>21
     DEF Next, SupervisorStep, TroubleStep, DaemonStep, WorldStep, RequestStop

LEMMA CountsTyped ==
  ASSUME CountsOK, [Next]_vars
  PROVE  CountsOK'
<1>1. ASSUME RecordFirst \/ RevokeReceipt \/ Mark \/ BeginStopped \/ Begin
             \/ DispatchCreate \/ Tick \/ AdvanceCursor \/ ChannelsClear \/ Monitored
             \/ MonitorRaises \/ ObserveRunning
      PROVE  UNCHANGED <<faults, readFaults, troubles, crashes>>
  BY <1>1
     DEF RecordFirst, RevokeReceipt, Mark, BeginStopped, Begin, DispatchCreate, Tick,
         AdvanceCursor, ChannelsClear, Monitored, MonitorRaises, ObserveRunning, worldVars,
         counters
<1>2. ASSUME IntendStart \/ DispatchStart \/ DecideExit \/ StartUncertain
             \/ NothingToPublish \/ ValidateMapping \/ RecordMapping \/ MappingRejected
             \/ MappingBlocked \/ AnnounceReady \/ WithdrawMapping \/ ReadyStands
      PROVE  UNCHANGED <<faults, readFaults, troubles, crashes>>
  BY <1>2
     DEF IntendStart, DispatchStart, DecideExit, StartUncertain, NothingToPublish,
         ValidateMapping, RecordMapping, MappingRejected, MappingBlocked, AnnounceReady,
         WithdrawMapping, ReadyStands, worldVars, counters
<1>3. ASSUME ReadyBlocked \/ Unready \/ NoStopDue \/ IntendStop \/ WithdrawReceipt
             \/ DispatchStop \/ ForgetMapping \/ RevokeAtExit \/ NothingMapped
             \/ CheckExitCode \/ HardwareLatched \/ CleanSample
      PROVE  UNCHANGED <<faults, readFaults, troubles, crashes>>
  BY <1>3
     DEF ReadyBlocked, Unready, NoStopDue, IntendStop, WithdrawReceipt, DispatchStop,
         ForgetMapping, RevokeAtExit, NothingMapped, CheckExitCode, HardwareLatched,
         CleanSample, worldVars, counters
<1>4. ASSUME Release \/ StopOverdue \/ DaemonCreates \/ DaemonStarts \/ DaemonStops
             \/ StopClientEnds \/ Boots \/ Exits \/ Attest \/ RequestStop \/ Signal
             \/ Load
      PROVE  UNCHANGED <<faults, readFaults, troubles, crashes>>
  BY <1>4
     DEF Release, StopOverdue, DaemonCreates, DaemonStarts, DaemonStops, StopClientEnds,
         Boots, Exits, Attest, RequestStop, StopByHand, OwnedStop, Signal, Load, worldVars, counters
<1>5. ASSUME Resume
      PROVE  UNCHANGED <<faults, readFaults, troubles, crashes>>
  BY <1>5 DEF Resume, worldVars, counters
<1>6. CASE UNCHANGED <<faults, readFaults, troubles, crashes>>
  BY <1>6, CountsOK, TroubleCounted DEF CountsOK
<1>7. CASE ReadJournal
  BY <1>7, CountsOK, TroubleCounted DEF ReadJournal, counters, CountsOK
<1>8. CASE CreateRaises
  BY <1>8, CountsOK, TroubleCounted DEF CreateRaises, worldVars, CountsOK
<1>9. CASE InspectFails
  BY <1>9, CountsOK, TroubleCounted DEF InspectFails, worldVars, CountsOK
<1>10. CASE JournalFails
  BY <1>10, CountsOK, TroubleCounted DEF JournalFails, worldVars, CountsOK
<1>11. CASE ChannelFails
  BY <1>11, CountsOK, TroubleCounted DEF ChannelFails, worldVars, CountsOK
<1>12. CASE HardwareDiffers
  BY <1>12, CountsOK, TroubleCounted DEF HardwareDiffers, worldVars, CountsOK
<1>13. CASE ContainerLogsError
  BY <1>13, CountsOK, TroubleCounted DEF ContainerLogsError, worldVars, CountsOK
<1>14. CASE StartRaises
  BY <1>14, CountsOK, TroubleCounted DEF StartRaises, worldVars, CountsOK
<1>15. CASE StopRaises
  BY <1>15, CountsOK, TroubleCounted DEF StopRaises, worldVars, CountsOK
<1>16. CASE NotIdle
  BY <1>16, CountsOK, TroubleCounted DEF NotIdle, worldVars, CountsOK
<1>17. CASE Settling
  BY <1>17, CountsOK, TroubleCounted DEF Settling, worldVars, CountsOK
<1>18. CASE DaemonRefuses
  BY <1>18, CountsOK, TroubleCounted DEF DaemonRefuses, worldVars, CountsOK
<1>19. CASE EndsByItself
  BY <1>19, CountsOK, TroubleCounted DEF EndsByItself, worldVars, CountsOK
<1>20. CASE KernelFault
  BY <1>20, CountsOK, TroubleCounted DEF KernelFault, counters, CountsOK
<1>21. CASE Crash
  BY <1>21, CountsOK, TroubleCounted DEF Crash, worldVars, CountsOK
<1>22. CASE RetryStop
  BY <1>22, CountsOK, TroubleCounted DEF RetryStop, CountsOK
<1>23. CASE OwnedStopEnds
  BY <1>23, CountsOK, TroubleCounted DEF OwnedStopEnds, CountsOK
<1>24. CASE UNCHANGED vars
  BY <1>6, <1>24 DEF vars, worldVars, counters
<1>. QED
  BY <1>1, <1>2, <1>3, <1>4, <1>5, <1>6, <1>7, <1>8, <1>9, <1>10, <1>11, <1>12, <1>13,
     <1>14, <1>15, <1>16, <1>17, <1>18, <1>19, <1>20, <1>21, <1>22, <1>23, <1>24
     DEF Next, SupervisorStep, TroubleStep, DaemonStep, WorldStep

LEMMA TypeStep ==
  ASSUME TypeOK, [Next]_vars
  PROVE  TypeOK'
<1>1. /\ IntentsOK /\ ReportOK /\ WindowOK /\ FilesOK /\ PlaceOK /\ ProcessOK /\ DockerOK
      /\ CountsOK
  BY TypeParts
<1>2. /\ IntentsOK' /\ ReportOK' /\ WindowOK' /\ FilesOK' /\ PlaceOK' /\ ProcessOK'
      /\ DockerOK' /\ CountsOK'
  BY <1>1, IntentsTyped, ReportTyped, WindowTyped, FilesTyped, PlaceTyped, ProcessTyped,
     DockerTyped, CountsTyped
<1>. QED
  BY <1>2 DEF TypeOK, IntentsOK, ReportOK, WindowOK, FilesOK, PlaceOK, ProcessOK, DockerOK,
              CountsOK, Marks

----
LEMMA ReportStep ==
  ASSUME ReportInv, [Next]_vars
  PROVE  ReportInv'
<1>1. ASSUME RecordFirst \/ RevokeReceipt \/ Mark \/ BeginStopped \/ Begin
             \/ DispatchCreate \/ Tick \/ AdvanceCursor \/ ChannelsClear \/ Monitored
             \/ ObserveRunning \/ IntendStart
      PROVE  UNCHANGED report
  BY <1>1
     DEF RecordFirst, RevokeReceipt, Mark, BeginStopped, Begin, DispatchCreate, Tick,
         AdvanceCursor, ChannelsClear, Monitored, ObserveRunning, IntendStart, monitorVars,
         procVars
<1>2. ASSUME DispatchStart \/ DecideExit \/ StartUncertain \/ NothingToPublish
             \/ ValidateMapping \/ RecordMapping \/ MappingBlocked \/ AnnounceReady
             \/ WithdrawMapping \/ ReadyStands \/ ReadyBlocked \/ Unready
      PROVE  UNCHANGED report
  BY <1>2
     DEF DispatchStart, DecideExit, StartUncertain, NothingToPublish, ValidateMapping,
         RecordMapping, MappingBlocked, AnnounceReady, WithdrawMapping, ReadyStands,
         ReadyBlocked, Unready, monitorVars, procVars
<1>3. ASSUME NoStopDue \/ IntendStop \/ WithdrawReceipt \/ DispatchStop \/ ForgetMapping
             \/ RevokeAtExit \/ NothingMapped \/ HardwareLatched \/ CleanSample \/ Release
             \/ CreateRaises \/ JournalFails
      PROVE  UNCHANGED report
  BY <1>3
     DEF NoStopDue, IntendStop, WithdrawReceipt, DispatchStop, ForgetMapping, RevokeAtExit,
         NothingMapped, HardwareLatched, CleanSample, Release, CreateRaises, JournalFails,
         monitorVars, procVars
<1>4. ASSUME ChannelFails \/ Settling \/ DaemonCreates \/ DaemonStarts \/ DaemonStops
             \/ StopClientEnds \/ DaemonRefuses \/ Boots \/ Exits \/ EndsByItself
             \/ KernelFault \/ Attest
      PROVE  UNCHANGED report
  BY <1>4
     DEF ChannelFails, Settling, DaemonCreates, DaemonStarts, DaemonStops, StopClientEnds,
         DaemonRefuses, Boots, Exits, EndsByItself, KernelFault, Attest, monitorVars,
         procVars
<1>5. ASSUME RequestStop \/ Load \/ OwnedStopEnds \/ Signal \/ RetryStop \/ Resume
      PROVE  UNCHANGED report
  BY <1>5 DEF RequestStop, StopByHand, OwnedStop, Load, OwnedStopEnds, Signal, RetryStop, Resume, monitorVars, procVars
<1>6. CASE UNCHANGED report
  BY <1>6, ReportInv DEF ReportInv
<1>7. CASE ReadJournal
  <2>1. /\ pc = "kernel"
        /\ readFaults' = faults
        /\ UNCHANGED <<fileVars, seen, after, broken, dockerVars, faults, waiting, retried, busy, counters>>
    BY <1>7 DEF ReadJournal
  <2>2. CASE faults > mem.cursor
    <3>1. /\ Incident("kernel fault", TRUE, mem, "none", "cursor")
      BY <1>7, <2>2 DEF ReadJournal
    <3>. QED
      BY <2>1, <2>2, <3>1, ReportInv DEF Incident, NoWindow, ReportInv
  <2>3. CASE ~ faults > mem.cursor
    <3>1. /\ pc' = "cursor"
          /\ UNCHANGED <<disk, mem, stopRequested, window, report>>
      BY <1>7, <2>3 DEF ReadJournal
    <3>. QED
      BY <2>1, <2>3, <3>1, ReportInv DEF ReportInv
  <2>. QED
    BY <1>7, <2>2, <2>3
<1>8. CASE MonitorRaises
  <2>1. CASE after = "tick"
    <3>1. /\ TickRaises(mem)
      BY <1>8, <2>1 DEF MonitorRaises
    <3>. QED
      BY <1>8, <2>1, <3>1, ReportInv
         DEF MonitorRaises, TickRaises, Incident, NoWindow, ReportInv
  <2>2. CASE after = "decide"
    <3>1. /\ Incident("monitor", FALSE, mem, "none", "decide")
      BY <1>8, <2>2 DEF MonitorRaises
    <3>. QED
      BY <1>8, <2>2, <3>1, ReportInv DEF MonitorRaises, Incident, NoWindow, ReportInv
  <2>3. CASE after = "fresh"
    <3>1. /\ Incident("mapping", FALSE, mem, "none", "stop")
      BY <1>8, <2>3 DEF MonitorRaises
    <3>. QED
      BY <1>8, <2>3, <3>1, ReportInv DEF MonitorRaises, Incident, NoWindow, ReportInv
  <2>4. CASE after = "observe"
    <3>1. /\ Incident("post-exit", FALSE, mem, "quarantine", "tick")
      BY <1>8, <2>4 DEF MonitorRaises
    <3>. QED
      BY <1>8, <2>4, <3>1, ReportInv DEF MonitorRaises, Incident, NoWindow, ReportInv
  <2>. QED
    BY <1>8, <2>1, <2>2, <2>3, <2>4 DEF MonitorRaises
<1>9. CASE MappingRejected
  BY <1>9, ReportInv DEF MappingRejected, Incident, NoWindow, ReportInv
<1>10. CASE CheckExitCode
  <2>1. /\ pc = "exit code"
        /\ after' = "observe"
        /\ broken' = FALSE
        /\ UNCHANGED <<fileVars, seen, dockerVars, worldVars, counters>>
    BY <1>10 DEF CheckExitCode
  <2>2. CASE seen = "exited" /\ failed /\ ~ mem.exitRecorded
    <3>1. /\ Incident("exit code", FALSE, mem, "exit code", "kernel")
      BY <1>10, <2>2 DEF CheckExitCode
    <3>. QED
      BY <2>1, <2>2, <3>1, ReportInv DEF Incident, NoWindow, ReportInv
  <2>3. CASE ~ (seen = "exited" /\ failed /\ ~ mem.exitRecorded)
    <3>1. /\ pc' = "kernel"
          /\ UNCHANGED <<disk, mem, stopRequested, window, report>>
      BY <1>10, <2>3 DEF CheckExitCode
    <3>. QED
      BY <2>1, <2>3, <3>1, ReportInv DEF ReportInv
  <2>. QED
    BY <1>10, <2>2, <2>3
<1>11. CASE InspectFails
  BY <1>11, ReportInv DEF InspectFails, TickRaises, Incident, NoWindow, ReportInv
<1>12. CASE HardwareDiffers
  BY <1>12, ReportInv DEF HardwareDiffers, Incident, NoWindow, ReportInv
<1>13. CASE ContainerLogsError
  BY <1>13, ReportInv DEF ContainerLogsError, Incident, NoWindow, ReportInv
<1>14. CASE StartRaises
  BY <1>14, ReportInv DEF StartRaises, TickRaises, Incident, NoWindow, ReportInv
<1>15. CASE StopRaises
  BY <1>15, ReportInv DEF StopRaises, TickRaises, Incident, NoWindow, ReportInv
<1>16. CASE StopOverdue
  BY <1>16, ReportInv DEF StopOverdue, Incident, NoWindow, ReportInv
<1>17. CASE NotIdle
  BY <1>17, ReportInv DEF NotIdle, Incident, NoWindow, ReportInv
<1>18. CASE Crash
  BY <1>18, ReportInv DEF Crash, NoWindow, NoReport, ReportInv
<1>19. CASE UNCHANGED vars
  BY <1>6, <1>19 DEF vars, monitorVars, procVars
<1>. QED
  BY <1>1, <1>2, <1>3, <1>4, <1>5, <1>6, <1>7, <1>8, <1>9, <1>10, <1>11, <1>12, <1>13,
     <1>14, <1>15, <1>16, <1>17, <1>18, <1>19
     DEF Next, SupervisorStep, TroubleStep, DaemonStep, WorldStep

LEMMA LatchStep ==
  ASSUME TypeOK, LatchInv, ReportInv, [Next]_vars
  PROVE  LatchInv'
<1>1. ASSUME DaemonCreates \/ DaemonStarts \/ DaemonStops \/ StopClientEnds
             \/ DaemonRefuses \/ Boots \/ Exits \/ EndsByItself \/ KernelFault \/ Attest
             \/ RequestStop \/ Load \/ OwnedStopEnds \/ Signal
      PROVE  UNCHANGED <<disk, mem, readFaults, pc>>
  BY <1>1
     DEF DaemonCreates, DaemonStarts, DaemonStops, StopClientEnds, DaemonRefuses, Boots,
         Exits, EndsByItself, KernelFault, Attest, RequestStop, StopByHand, OwnedStop, Load, OwnedStopEnds, Signal, worldVars
<1>2. ASSUME RetryStop
      PROVE  UNCHANGED <<disk, mem, readFaults, pc>>
  BY <1>2 DEF RetryStop
<1>3. CASE UNCHANGED <<disk, mem, readFaults, pc>>
  BY <1>3, LatchInv, TypeOK DEF LatchInv
<1>4. CASE RecordFirst
  BY <1>4, LatchInv, TypeOK DEF RecordFirst, Goto, worldVars, LatchInv, TypeOK, Intents
<1>5. CASE RevokeReceipt
  BY <1>5, LatchInv, TypeOK DEF RevokeReceipt, Goto, worldVars, LatchInv, TypeOK, Intents
<1>6. CASE Mark
  BY <1>6, LatchInv, TypeOK, ReportInv
     DEF Mark, Goto, Persist, worldVars, LatchInv, TypeOK, Intents, ReportInv
<1>7. CASE BeginStopped
  BY <1>7, LatchInv, TypeOK
     DEF BeginStopped, Goto, Persist, worldVars, LatchInv, TypeOK, Intents
<1>8. CASE Begin
  BY <1>8, LatchInv, TypeOK DEF Begin, Goto, Persist, worldVars, LatchInv, TypeOK, Intents
<1>9. CASE DispatchCreate
  BY <1>9, LatchInv, TypeOK DEF DispatchCreate, Goto, worldVars, LatchInv, TypeOK, Intents
<1>10. CASE Tick
  <2>1. /\ pc = "tick"
        /\ stopRequested' = (stopRequested \/ stopFile)
        /\ seen' = container
        /\ broken' = FALSE
        /\ UNCHANGED <<first, stopFile, attested, report, window, dockerVars, worldVars, counters>>
    BY <1>10 DEF Tick
  <2>2. CASE container = "none"
    <3>1. /\ Persist([Polled EXCEPT !.state = "OTHER"])
          /\ pc' = "kernel"
          /\ after' = "tick"
          /\ UNCHANGED receipt
      BY <1>10, <2>2 DEF Tick
    <3>. QED
      BY <2>1, <2>2, <3>1, LatchInv, TypeOK
         DEF Persist, Polled, worldVars, LatchInv, TypeOK, Intents
  <2>3. CASE container # "none"
    <3>1. /\ Persist([Polled EXCEPT !.known = TRUE])
          /\ after' = "decide"
          /\ pc' \in {"decide", "kernel"}
          /\ receipt' \in {receipt, "UNQUALIFIED"}
      BY <1>10, <2>3 DEF Tick
    <3>. QED
      BY <2>1, <2>3, <3>1, LatchInv, TypeOK
         DEF Persist, Polled, worldVars, LatchInv, TypeOK, Intents
  <2>. QED
    BY <1>10, <2>2, <2>3
<1>11. CASE ReadJournal
  <2>1. /\ pc = "kernel"
        /\ readFaults' = faults
        /\ UNCHANGED <<fileVars, seen, after, broken, dockerVars, faults, waiting, retried, busy, counters>>
    BY <1>11 DEF ReadJournal
  <2>2. CASE faults > mem.cursor
    <3>1. /\ Incident("kernel fault", TRUE, mem, "none", "cursor")
      BY <1>11, <2>2 DEF ReadJournal
    <3>2. disk'.hardware /\ mem' = disk' /\ pc' = "incident"
      BY <3>1, TypeOK DEF Incident, Persist, TypeOK, Intents
    <3>. QED
      BY <3>2 DEF LatchInv
  <2>3. CASE ~ faults > mem.cursor
    <3>1. /\ pc' = "cursor"
          /\ UNCHANGED <<disk, mem, stopRequested, window, report>>
      BY <1>11, <2>3 DEF ReadJournal
    <3>2. faults \in Nat /\ mem.cursor \in Nat
      BY TypeOK DEF TypeOK, Intents
    <3>3. readFaults' > 0 => mem.cursor > 0
      BY <2>1, <2>3, <3>2
    <3>4. pc' \notin {"begin", "release", "released"} /\ UNCHANGED <<disk, mem>>
      BY <3>1
    <3>. QED
      BY <3>3, <3>4, LatchInv DEF LatchInv
  <2>. QED
    BY <1>11, <2>2, <2>3
<1>12. CASE AdvanceCursor
  BY <1>12, LatchInv, TypeOK
     DEF AdvanceCursor, Goto, Persist, worldVars, LatchInv, TypeOK, Intents
<1>13. CASE ChannelsClear
  BY <1>13, LatchInv, TypeOK DEF ChannelsClear, Goto, worldVars, LatchInv, TypeOK, Intents
<1>14. CASE Monitored
  BY <1>14, LatchInv, TypeOK DEF Monitored, Goto, worldVars, LatchInv, TypeOK, Intents
<1>15. CASE MonitorRaises
  <2>1. CASE after = "tick"
    <3>1. /\ TickRaises(mem)
      BY <1>15, <2>1 DEF MonitorRaises
    <3>. QED
      BY <1>15, <2>1, <3>1, LatchInv, TypeOK
         DEF MonitorRaises, TickRaises, Incident, Persist, worldVars, LatchInv, TypeOK,
             Intents
  <2>2. CASE after = "decide"
    <3>1. /\ Incident("monitor", FALSE, mem, "none", "decide")
      BY <1>15, <2>2 DEF MonitorRaises
    <3>. QED
      BY <1>15, <2>2, <3>1, LatchInv, TypeOK
         DEF MonitorRaises, Incident, Persist, worldVars, LatchInv, TypeOK, Intents
  <2>3. CASE after = "fresh"
    <3>1. /\ Incident("mapping", FALSE, mem, "none", "stop")
      BY <1>15, <2>3 DEF MonitorRaises
    <3>. QED
      BY <1>15, <2>3, <3>1, LatchInv, TypeOK
         DEF MonitorRaises, Incident, Persist, worldVars, LatchInv, TypeOK, Intents
  <2>4. CASE after = "observe"
    <3>1. /\ Incident("post-exit", FALSE, mem, "quarantine", "tick")
      BY <1>15, <2>4 DEF MonitorRaises
    <3>. QED
      BY <1>15, <2>4, <3>1, LatchInv, TypeOK
         DEF MonitorRaises, Incident, Persist, worldVars, LatchInv, TypeOK, Intents
  <2>. QED
    BY <1>15, <2>1, <2>2, <2>3, <2>4 DEF MonitorRaises
<1>16. CASE ObserveRunning
  <2>1. /\ Goto("decide", "publish")
        /\ UNCHANGED <<first, stopFile, attested, procVars, dockerVars, worldVars, counters>>
    BY <1>16 DEF ObserveRunning, Goto
  <2>2. CASE mem.observed
    <3>1. /\ UNCHANGED <<disk, mem, receipt>>
      BY <1>16, <2>2 DEF ObserveRunning
    <3>. QED
      BY <2>1, <2>2, <3>1, LatchInv, TypeOK DEF Goto, worldVars, LatchInv, TypeOK, Intents
  <2>3. CASE ~ mem.observed
    <3>1. /\ Persist([mem EXCEPT !.state = "RUNNING", !.observed = TRUE])
          /\ receipt' = "UNQUALIFIED"
      BY <1>16, <2>3 DEF ObserveRunning
    <3>. QED
      BY <2>1, <2>3, <3>1, LatchInv, TypeOK
         DEF Goto, Persist, worldVars, LatchInv, TypeOK, Intents
  <2>. QED
    BY <1>16, <2>2, <2>3
<1>17. CASE IntendStart
  BY <1>17, LatchInv, TypeOK
     DEF IntendStart, Goto, Persist, worldVars, LatchInv, TypeOK, Intents
<1>18. CASE DispatchStart
  BY <1>18, LatchInv, TypeOK DEF DispatchStart, Goto, worldVars, LatchInv, TypeOK, Intents
<1>19. CASE DecideExit
  BY <1>19, LatchInv, TypeOK DEF DecideExit, Goto, worldVars, LatchInv, TypeOK, Intents
<1>20. CASE StartUncertain
  BY <1>20, LatchInv, TypeOK
     DEF StartUncertain, Goto, Persist, worldVars, LatchInv, TypeOK, Intents
<1>21. CASE NothingToPublish
  BY <1>21, LatchInv, TypeOK
     DEF NothingToPublish, Goto, worldVars, LatchInv, TypeOK, Intents
<1>22. CASE ValidateMapping
  BY <1>22, LatchInv, TypeOK DEF ValidateMapping, Goto, worldVars, LatchInv, TypeOK, Intents
<1>23. CASE RecordMapping
  BY <1>23, LatchInv, TypeOK
     DEF RecordMapping, Goto, Persist, worldVars, LatchInv, TypeOK, Intents
<1>24. CASE MappingRejected
  BY <1>24, LatchInv, TypeOK
     DEF MappingRejected, Incident, Persist, worldVars, LatchInv, TypeOK, Intents
<1>25. CASE MappingBlocked
  BY <1>25, LatchInv, TypeOK DEF MappingBlocked, Goto, worldVars, LatchInv, TypeOK, Intents
<1>26. CASE AnnounceReady
  BY <1>26, LatchInv, TypeOK DEF AnnounceReady, Goto, worldVars, LatchInv, TypeOK, Intents
<1>27. CASE WithdrawMapping
  BY <1>27, LatchInv, TypeOK
     DEF WithdrawMapping, Goto, Persist, worldVars, LatchInv, TypeOK, Intents
<1>28. CASE ReadyStands
  BY <1>28, LatchInv, TypeOK DEF ReadyStands, Goto, worldVars, LatchInv, TypeOK, Intents
<1>29. CASE ReadyBlocked
  BY <1>29, LatchInv, TypeOK
     DEF ReadyBlocked, Goto, Persist, worldVars, LatchInv, TypeOK, Intents
<1>30. CASE Unready
  BY <1>30, LatchInv, TypeOK DEF Unready, Goto, worldVars, LatchInv, TypeOK, Intents
<1>31. CASE NoStopDue
  BY <1>31, LatchInv, TypeOK DEF NoStopDue, Goto, worldVars, LatchInv, TypeOK, Intents
<1>32. CASE IntendStop
  BY <1>32, LatchInv, TypeOK
     DEF IntendStop, Goto, Persist, worldVars, LatchInv, TypeOK, Intents
<1>33. CASE WithdrawReceipt
  BY <1>33, LatchInv, TypeOK DEF WithdrawReceipt, Goto, worldVars, LatchInv, TypeOK, Intents
<1>34. CASE DispatchStop
  BY <1>34, LatchInv, TypeOK DEF DispatchStop, Goto, worldVars, LatchInv, TypeOK, Intents
<1>35. CASE ForgetMapping
  BY <1>35, LatchInv, TypeOK
     DEF ForgetMapping, Goto, Persist, worldVars, LatchInv, TypeOK, Intents
<1>36. CASE RevokeAtExit
  BY <1>36, LatchInv, TypeOK DEF RevokeAtExit, Goto, worldVars, LatchInv, TypeOK, Intents
<1>37. CASE NothingMapped
  BY <1>37, LatchInv, TypeOK DEF NothingMapped, Goto, worldVars, LatchInv, TypeOK, Intents
<1>38. CASE CheckExitCode
  <2>1. /\ pc = "exit code"
        /\ after' = "observe"
        /\ broken' = FALSE
        /\ UNCHANGED <<fileVars, seen, dockerVars, worldVars, counters>>
    BY <1>38 DEF CheckExitCode
  <2>2. CASE seen = "exited" /\ failed /\ ~ mem.exitRecorded
    <3>1. /\ Incident("exit code", FALSE, mem, "exit code", "kernel")
      BY <1>38, <2>2 DEF CheckExitCode
    <3>. QED
      BY <2>1, <2>2, <3>1, LatchInv, TypeOK
         DEF Incident, Persist, worldVars, LatchInv, TypeOK, Intents
  <2>3. CASE ~ (seen = "exited" /\ failed /\ ~ mem.exitRecorded)
    <3>1. /\ pc' = "kernel"
          /\ UNCHANGED <<disk, mem, stopRequested, window, report>>
      BY <1>38, <2>3 DEF CheckExitCode
    <3>. QED
      BY <2>1, <2>3, <3>1, LatchInv, TypeOK DEF worldVars, LatchInv, TypeOK, Intents
  <2>. QED
    BY <1>38, <2>2, <2>3
<1>39. CASE HardwareLatched
  BY <1>39, LatchInv, TypeOK
     DEF HardwareLatched, Goto, Persist, worldVars, LatchInv, TypeOK, Intents
<1>40. CASE CleanSample
  <2>1. /\ pc = "observe"
        /\ ~ mem.hardware
        /\ \E gap \in 0 .. MaxGap : window' = Sampled(gap)
        /\ UNCHANGED <<fileVars, stopRequested, seen, monitorVars, dockerVars, worldVars, counters>>
    BY <1>40 DEF CleanSample
  <2>2. CASE Complete(window')
    <3>1. /\ pc' = "release"
          /\ Persist([mem EXCEPT !.state = "OTHER", !.cleanup = TRUE])
      BY <1>40, <2>2 DEF CleanSample
    <3>2. /\ mem'.hardware = mem.hardware /\ mem'.cursor = mem.cursor
          /\ disk'.hardware = mem.hardware /\ disk'.cursor = mem.cursor
      BY <3>1, TypeOK DEF Persist, TypeOK, Intents
    <3>3. ~ readFaults > 0
      BY <2>1, LatchInv DEF LatchInv
    <3>4. readFaults \in Nat
      BY TypeOK DEF TypeOK
    <3>5. readFaults = 0
      BY <3>3, <3>4
    <3>6. UNCHANGED readFaults
      BY <2>1 DEF worldVars
    <3>. QED
      BY <2>1, <3>1, <3>2, <3>5, <3>6, LatchInv DEF LatchInv
  <2>3. CASE ~ Complete(window')
    <3>1. /\ pc' = "tick"
          /\ Persist([mem EXCEPT !.state = "OBSERVING"])
      BY <1>40, <2>3 DEF CleanSample
    <3>. QED
      BY <2>1, <2>3, <3>1, LatchInv, TypeOK
         DEF Persist, worldVars, LatchInv, TypeOK, Intents
  <2>. QED
    BY <1>40, <2>2, <2>3
<1>41. CASE Release
  BY <1>41, LatchInv, TypeOK DEF Release, Goto, worldVars, LatchInv, TypeOK, Intents
<1>42. CASE CreateRaises
  BY <1>42, LatchInv, TypeOK DEF CreateRaises, Goto, worldVars, LatchInv, TypeOK, Intents
<1>43. CASE InspectFails
  BY <1>43, LatchInv, TypeOK
     DEF InspectFails, TickRaises, Incident, Persist, Polled, worldVars, LatchInv, TypeOK,
         Intents
<1>44. CASE JournalFails
  BY <1>44, LatchInv, TypeOK DEF JournalFails, Goto, worldVars, LatchInv, TypeOK, Intents
<1>45. CASE ChannelFails
  BY <1>45, LatchInv, TypeOK DEF ChannelFails, Goto, worldVars, LatchInv, TypeOK, Intents
<1>46. CASE HardwareDiffers
  BY <1>46, LatchInv, TypeOK
     DEF HardwareDiffers, Incident, Persist, worldVars, LatchInv, TypeOK, Intents
<1>47. CASE ContainerLogsError
  BY <1>47, LatchInv, TypeOK
     DEF ContainerLogsError, Incident, Persist, worldVars, LatchInv, TypeOK, Intents
<1>48. CASE StartRaises
  BY <1>48, LatchInv, TypeOK
     DEF StartRaises, TickRaises, Incident, Persist, worldVars, LatchInv, TypeOK, Intents
<1>49. CASE StopRaises
  BY <1>49, LatchInv, TypeOK
     DEF StopRaises, TickRaises, Incident, Persist, worldVars, LatchInv, TypeOK, Intents
<1>50. CASE StopOverdue
  BY <1>50, LatchInv, TypeOK
     DEF StopOverdue, Incident, Persist, worldVars, LatchInv, TypeOK, Intents
<1>51. CASE NotIdle
  BY <1>51, LatchInv, TypeOK
     DEF NotIdle, Incident, Persist, worldVars, LatchInv, TypeOK, Intents
<1>52. CASE Settling
  BY <1>52, LatchInv, TypeOK
     DEF Settling, Goto, Persist, worldVars, LatchInv, TypeOK, Intents
<1>53. CASE Crash
  BY <1>53, LatchInv, TypeOK DEF Crash, Alive, worldVars, LatchInv, TypeOK, Intents
<1>54. CASE Resume
  BY <1>54, LatchInv, TypeOK DEF Resume, Goto, Resumed, worldVars, LatchInv, TypeOK, Intents
<1>55. CASE UNCHANGED vars
  BY <1>3, <1>55 DEF vars, worldVars
<1>. QED
  BY <1>1, <1>2, <1>3, <1>4, <1>5, <1>6, <1>7, <1>8, <1>9, <1>10, <1>11, <1>12, <1>13,
     <1>14, <1>15, <1>16, <1>17, <1>18, <1>19, <1>20, <1>21, <1>22, <1>23, <1>24, <1>25,
     <1>26, <1>27, <1>28, <1>29, <1>30, <1>31, <1>32, <1>33, <1>34, <1>35, <1>36, <1>37,
     <1>38, <1>39, <1>40, <1>41, <1>42, <1>43, <1>44, <1>45, <1>46, <1>47, <1>48, <1>49,
     <1>50, <1>51, <1>52, <1>53, <1>54, <1>55
     DEF Next, SupervisorStep, TroubleStep, DaemonStep, WorldStep

LEMMA RevokeStep ==
  ASSUME TypeOK, RevokeInv, ReportInv, [Next]_vars
  PROVE  RevokeInv'
<1>1. ASSUME StopClientEnds \/ KernelFault \/ Attest \/ RequestStop \/ Load \/ OwnedStopEnds
      PROVE  UNCHANGED <<ops, container, retried, receipt, stopRequested, pc>>
  BY <1>1
     DEF StopClientEnds, KernelFault, Attest, RequestStop, StopByHand, OwnedStop, Load, OwnedStopEnds, fileVars, procVars, worldVars,
         dockerVars
<1>2. CASE UNCHANGED <<ops, container, retried, receipt, stopRequested, pc>>
  BY <1>2, RevokeInv DEF RevokeInv
<1>3. CASE RecordFirst
  BY <1>3, RevokeInv DEF RecordFirst, Goto, procVars, dockerVars, worldVars, RevokeInv
<1>4. CASE RevokeReceipt
  BY <1>4, RevokeInv DEF RevokeReceipt, Goto, procVars, dockerVars, worldVars, RevokeInv
<1>5. CASE Mark
  BY <1>5, RevokeInv, ReportInv
     DEF Mark, Goto, fileVars, procVars, dockerVars, worldVars, RevokeInv, ReportInv
<1>6. CASE BeginStopped
  BY <1>6, RevokeInv
     DEF BeginStopped, Goto, fileVars, procVars, dockerVars, worldVars, RevokeInv
<1>7. CASE Begin
  BY <1>7, RevokeInv DEF Begin, Goto, fileVars, procVars, dockerVars, worldVars, RevokeInv
<1>8. CASE DispatchCreate
  BY <1>8, RevokeInv DEF DispatchCreate, Goto, fileVars, procVars, worldVars, RevokeInv
<1>9. CASE Tick
  BY <1>9, RevokeInv DEF Tick, dockerVars, worldVars, RevokeInv
<1>10. CASE ReadJournal
  BY <1>10, RevokeInv DEF ReadJournal, Incident, fileVars, dockerVars, RevokeInv
<1>11. CASE AdvanceCursor
  BY <1>11, RevokeInv
     DEF AdvanceCursor, Goto, fileVars, procVars, dockerVars, worldVars, RevokeInv
<1>12. CASE ChannelsClear
  BY <1>12, RevokeInv
     DEF ChannelsClear, Goto, fileVars, procVars, dockerVars, worldVars, RevokeInv
<1>13. CASE Monitored
  BY <1>13, RevokeInv, TypeOK
     DEF Monitored, Goto, fileVars, procVars, dockerVars, worldVars, RevokeInv, TypeOK
<1>14. CASE MonitorRaises
  BY <1>14, RevokeInv
     DEF MonitorRaises, TickRaises, Incident, fileVars, dockerVars, worldVars, RevokeInv
<1>15. CASE ObserveRunning
  BY <1>15, RevokeInv DEF ObserveRunning, Goto, procVars, dockerVars, worldVars, RevokeInv
<1>16. CASE IntendStart
  BY <1>16, RevokeInv
     DEF IntendStart, Goto, fileVars, procVars, dockerVars, worldVars, RevokeInv
<1>17. CASE DispatchStart
  BY <1>17, RevokeInv DEF DispatchStart, Goto, fileVars, procVars, worldVars, RevokeInv
<1>18. CASE DecideExit
  BY <1>18, RevokeInv
     DEF DecideExit, Goto, fileVars, procVars, dockerVars, worldVars, RevokeInv
<1>19. CASE StartUncertain
  BY <1>19, RevokeInv
     DEF StartUncertain, Goto, fileVars, procVars, dockerVars, worldVars, RevokeInv
<1>20. CASE NothingToPublish
  BY <1>20, RevokeInv
     DEF NothingToPublish, Blocked, Goto, PollStop, fileVars, dockerVars, worldVars,
         RevokeInv
<1>21. CASE ValidateMapping
  BY <1>21, RevokeInv
     DEF ValidateMapping, Blocked, Goto, fileVars, dockerVars, worldVars, RevokeInv
<1>22. CASE RecordMapping
  BY <1>22, RevokeInv
     DEF RecordMapping, Blocked, Goto, fileVars, procVars, dockerVars, worldVars, RevokeInv
<1>23. CASE MappingRejected
  BY <1>23, RevokeInv
     DEF MappingRejected, Incident, fileVars, dockerVars, worldVars, RevokeInv
<1>24. CASE MappingBlocked
  BY <1>24, RevokeInv
     DEF MappingBlocked, Blocked, Goto, PollStop, fileVars, dockerVars, worldVars, RevokeInv
<1>25. CASE AnnounceReady
  BY <1>25, RevokeInv
     DEF AnnounceReady, Blocked, Goto, procVars, dockerVars, worldVars, RevokeInv
<1>26. CASE WithdrawMapping
  BY <1>26, RevokeInv
     DEF WithdrawMapping, Blocked, Goto, PollStop, fileVars, dockerVars, worldVars,
         RevokeInv
<1>27. CASE ReadyStands
  BY <1>27, RevokeInv
     DEF ReadyStands, Blocked, Goto, fileVars, procVars, dockerVars, worldVars, RevokeInv
<1>28. CASE ReadyBlocked
  BY <1>28, RevokeInv
     DEF ReadyBlocked, Blocked, Goto, PollStop, fileVars, dockerVars, worldVars, RevokeInv
<1>29. CASE Unready
  BY <1>29, RevokeInv DEF Unready, Goto, procVars, dockerVars, worldVars, RevokeInv
<1>30. CASE NoStopDue
  BY <1>30, RevokeInv
     DEF NoStopDue, Goto, fileVars, procVars, dockerVars, worldVars, RevokeInv
<1>31. CASE IntendStop
  BY <1>31, RevokeInv
     DEF IntendStop, StopDue, Goto, fileVars, procVars, dockerVars, worldVars, RevokeInv
<1>32. CASE WithdrawReceipt
  BY <1>32, RevokeInv DEF WithdrawReceipt, Goto, procVars, dockerVars, worldVars, RevokeInv
<1>33. CASE DispatchStop
  BY <1>33, RevokeInv DEF DispatchStop, Goto, fileVars, procVars, worldVars, RevokeInv
<1>34. CASE ForgetMapping
  BY <1>34, RevokeInv
     DEF ForgetMapping, Goto, fileVars, procVars, dockerVars, worldVars, RevokeInv
<1>35. CASE RevokeAtExit
  BY <1>35, RevokeInv DEF RevokeAtExit, Goto, procVars, dockerVars, worldVars, RevokeInv
<1>36. CASE NothingMapped
  BY <1>36, RevokeInv
     DEF NothingMapped, Goto, fileVars, procVars, dockerVars, worldVars, RevokeInv
<1>37. CASE CheckExitCode
  BY <1>37, RevokeInv
     DEF CheckExitCode, Incident, fileVars, dockerVars, worldVars, RevokeInv
<1>38. CASE HardwareLatched
  BY <1>38, RevokeInv
     DEF HardwareLatched, Goto, fileVars, procVars, dockerVars, worldVars, RevokeInv
<1>39. CASE CleanSample
  BY <1>39, RevokeInv DEF CleanSample, fileVars, dockerVars, worldVars, RevokeInv
<1>40. CASE Release
  BY <1>40, RevokeInv DEF Release, Goto, procVars, dockerVars, worldVars, RevokeInv
<1>41. CASE CreateRaises
  BY <1>41, RevokeInv DEF CreateRaises, Goto, fileVars, dockerVars, worldVars, RevokeInv
<1>42. CASE InspectFails
  BY <1>42, RevokeInv
     DEF InspectFails, TickRaises, Incident, fileVars, dockerVars, worldVars, RevokeInv
<1>43. CASE JournalFails
  BY <1>43, RevokeInv DEF JournalFails, Goto, fileVars, dockerVars, worldVars, RevokeInv
<1>44. CASE ChannelFails
  BY <1>44, RevokeInv DEF ChannelFails, Goto, fileVars, dockerVars, worldVars, RevokeInv
<1>45. CASE HardwareDiffers
  BY <1>45, RevokeInv
     DEF HardwareDiffers, Incident, fileVars, dockerVars, worldVars, RevokeInv
<1>46. CASE ContainerLogsError
  BY <1>46, RevokeInv
     DEF ContainerLogsError, Incident, fileVars, dockerVars, worldVars, RevokeInv
<1>47. CASE StartRaises
  BY <1>47, RevokeInv
     DEF StartRaises, TickRaises, Incident, fileVars, dockerVars, worldVars, RevokeInv
<1>48. CASE StopRaises
  BY <1>48, RevokeInv
     DEF StopRaises, TickRaises, Incident, fileVars, dockerVars, worldVars, RevokeInv
<1>49. CASE StopOverdue
  BY <1>49, RevokeInv DEF StopOverdue, Incident, fileVars, dockerVars, worldVars, RevokeInv
<1>50. CASE NotIdle
  BY <1>50, RevokeInv DEF NotIdle, Incident, fileVars, dockerVars, worldVars, RevokeInv
<1>51. CASE Settling
  BY <1>51, RevokeInv DEF Settling, Goto, fileVars, dockerVars, worldVars, RevokeInv
<1>52. CASE DaemonCreates
  BY <1>52, RevokeInv DEF DaemonCreates, Executes, fileVars, procVars, worldVars, RevokeInv
<1>53. CASE DaemonStarts
  BY <1>53, RevokeInv DEF DaemonStarts, Executes, fileVars, procVars, worldVars, RevokeInv
<1>54. CASE DaemonStops
  BY <1>54, RevokeInv DEF DaemonStops, Executes, fileVars, procVars, worldVars, RevokeInv
<1>55. CASE DaemonRefuses
  BY <1>55, RevokeInv DEF DaemonRefuses, fileVars, procVars, worldVars, RevokeInv
<1>56. CASE Boots
  BY <1>56, RevokeInv DEF Boots, fileVars, procVars, worldVars, RevokeInv
<1>57. CASE Exits
  BY <1>57, RevokeInv DEF Exits, fileVars, procVars, worldVars, RevokeInv
<1>58. CASE EndsByItself
  BY <1>58, RevokeInv DEF EndsByItself, fileVars, procVars, worldVars, RevokeInv
<1>59. CASE Signal
  BY <1>59, RevokeInv DEF Signal, Alive, fileVars, dockerVars, worldVars, RevokeInv
<1>60. CASE RetryStop
  BY <1>60, RevokeInv DEF RetryStop, Alive, fileVars, procVars, RevokeInv
<1>61. CASE Crash
  BY <1>61, RevokeInv DEF Crash, Alive, fileVars, worldVars, RevokeInv
<1>62. CASE Resume
  BY <1>62, RevokeInv DEF Resume, Goto, fileVars, dockerVars, worldVars, RevokeInv
<1>63. CASE UNCHANGED vars
  BY <1>2, <1>63 DEF vars, fileVars, procVars, dockerVars, worldVars
<1>. QED
  BY <1>1, <1>2, <1>3, <1>4, <1>5, <1>6, <1>7, <1>8, <1>9, <1>10, <1>11, <1>12, <1>13,
     <1>14, <1>15, <1>16, <1>17, <1>18, <1>19, <1>20, <1>21, <1>22, <1>23, <1>24, <1>25,
     <1>26, <1>27, <1>28, <1>29, <1>30, <1>31, <1>32, <1>33, <1>34, <1>35, <1>36, <1>37,
     <1>38, <1>39, <1>40, <1>41, <1>42, <1>43, <1>44, <1>45, <1>46, <1>47, <1>48, <1>49,
     <1>50, <1>51, <1>52, <1>53, <1>54, <1>55, <1>56, <1>57, <1>58, <1>59, <1>60, <1>61,
     <1>62, <1>63
     DEF Next, SupervisorStep, TroubleStep, DaemonStep, WorldStep

LEMMA LifeStep ==
  ASSUME TypeOK, LifeInv, ReportInv, [Next]_vars
  PROVE  LifeInv'
<1>1. ASSUME StopClientEnds \/ KernelFault \/ Attest \/ RequestStop \/ Load \/ OwnedStopEnds \/ Signal
      PROVE  UNCHANGED <<disk, mem, pc, container, ops, seen, after, report>>
  BY <1>1
     DEF StopClientEnds, KernelFault, Attest, RequestStop, StopByHand, OwnedStop, Load, OwnedStopEnds, Signal, monitorVars, procVars,
         dockerVars
<1>2. CASE UNCHANGED <<disk, mem, pc, container, ops, seen, after, report>>
  BY <1>2, LifeInv, TypeOK DEF LifeInv, Over, Beyond, PostExit
<1>3. CASE RecordFirst
  BY <1>3, LifeInv, TypeOK
     DEF RecordFirst, Goto, monitorVars, procVars, dockerVars, LifeInv, TypeOK, Intents,
         Over, Beyond, PostExit
<1>4. CASE RevokeReceipt
  BY <1>4, LifeInv, TypeOK
     DEF RevokeReceipt, Goto, monitorVars, procVars, dockerVars, LifeInv, TypeOK, Intents,
         Over, Beyond, PostExit
<1>5. CASE Mark
  BY <1>5, LifeInv, TypeOK, ReportInv
     DEF Mark, Goto, Persist, monitorVars, procVars, dockerVars, LifeInv, TypeOK, Intents,
         Over, Beyond, PostExit, ReportInv
<1>6. CASE BeginStopped
  BY <1>6, LifeInv, TypeOK
     DEF BeginStopped, Goto, Persist, monitorVars, procVars, dockerVars, LifeInv, TypeOK,
         Intents, Over, Beyond, PostExit
<1>7. CASE Begin
  BY <1>7, LifeInv, TypeOK
     DEF Begin, Goto, Persist, monitorVars, procVars, dockerVars, LifeInv, TypeOK, Intents,
         Over, Beyond, PostExit
<1>8. CASE DispatchCreate
  BY <1>8, LifeInv, TypeOK
     DEF DispatchCreate, Goto, monitorVars, procVars, LifeInv, TypeOK, Intents, Over,
         Beyond, PostExit
<1>9. CASE Tick
  <2>1. /\ pc = "tick"
        /\ stopRequested' = (stopRequested \/ stopFile)
        /\ seen' = container
        /\ broken' = FALSE
        /\ UNCHANGED <<first, stopFile, attested, report, window, dockerVars, worldVars, counters>>
    BY <1>9 DEF Tick
  <2>2. CASE container = "none"
    <3>1. /\ Persist([Polled EXCEPT !.state = "OTHER"])
          /\ pc' = "kernel"
          /\ after' = "tick"
          /\ UNCHANGED receipt
      BY <1>9, <2>2 DEF Tick
    <3>. QED
      BY <2>1, <2>2, <3>1, LifeInv, TypeOK
         DEF Persist, Polled, dockerVars, LifeInv, TypeOK, Intents, Over, Beyond, PostExit
  <2>3. CASE container # "none"
    <3>1. /\ Persist([Polled EXCEPT !.known = TRUE])
          /\ after' = "decide"
          /\ pc' \in {"decide", "kernel"}
          /\ receipt' \in {receipt, "UNQUALIFIED"}
      BY <1>9, <2>3 DEF Tick
    <3>. QED
      BY <2>1, <2>3, <3>1, LifeInv, TypeOK
         DEF Persist, Polled, dockerVars, LifeInv, TypeOK, Intents, Over, Beyond, PostExit
  <2>. QED
    BY <1>9, <2>2, <2>3
<1>10. CASE ReadJournal
  <2>1. /\ pc = "kernel"
        /\ readFaults' = faults
        /\ UNCHANGED <<fileVars, seen, after, broken, dockerVars, faults, waiting, retried, busy, counters>>
    BY <1>10 DEF ReadJournal
  <2>2. CASE faults > mem.cursor
    <3>1. /\ Incident("kernel fault", TRUE, mem, "none", "cursor")
      BY <1>10, <2>2 DEF ReadJournal
    <3>. QED
      BY <2>1, <2>2, <3>1, LifeInv, TypeOK
         DEF Incident, Persist, NoWindow, dockerVars, LifeInv, TypeOK, Intents, Over,
             Beyond, PostExit
  <2>3. CASE ~ faults > mem.cursor
    <3>1. /\ pc' = "cursor"
          /\ UNCHANGED <<disk, mem, stopRequested, window, report>>
      BY <1>10, <2>3 DEF ReadJournal
    <3>. QED
      BY <2>1, <2>3, <3>1, LifeInv, TypeOK
         DEF dockerVars, LifeInv, TypeOK, Intents, Over, Beyond, PostExit
  <2>. QED
    BY <1>10, <2>2, <2>3
<1>11. CASE AdvanceCursor
  BY <1>11, LifeInv, TypeOK
     DEF AdvanceCursor, Goto, Persist, monitorVars, procVars, dockerVars, LifeInv, TypeOK,
         Intents, Over, Beyond, PostExit
<1>12. CASE ChannelsClear
  BY <1>12, LifeInv, TypeOK
     DEF ChannelsClear, Goto, monitorVars, procVars, dockerVars, LifeInv, TypeOK, Intents,
         Over, Beyond, PostExit
<1>13. CASE Monitored
  BY <1>13, LifeInv, TypeOK
     DEF Monitored, Goto, monitorVars, procVars, dockerVars, LifeInv, TypeOK, Intents, Over,
         Beyond, PostExit
<1>14. CASE MonitorRaises
  <2>1. CASE after = "tick"
    <3>1. /\ TickRaises(mem)
      BY <1>14, <2>1 DEF MonitorRaises
    <3>. QED
      BY <1>14, <2>1, <3>1, LifeInv, TypeOK
         DEF MonitorRaises, TickRaises, Incident, Persist, NoWindow, dockerVars, LifeInv,
             TypeOK, Intents, Over, Beyond, PostExit
  <2>2. CASE after = "decide"
    <3>1. /\ Incident("monitor", FALSE, mem, "none", "decide")
      BY <1>14, <2>2 DEF MonitorRaises
    <3>. QED
      BY <1>14, <2>2, <3>1, LifeInv, TypeOK
         DEF MonitorRaises, Incident, Persist, NoWindow, dockerVars, LifeInv, TypeOK,
             Intents, Over, Beyond, PostExit
  <2>3. CASE after = "fresh"
    <3>1. /\ Incident("mapping", FALSE, mem, "none", "stop")
      BY <1>14, <2>3 DEF MonitorRaises
    <3>. QED
      BY <1>14, <2>3, <3>1, LifeInv, TypeOK
         DEF MonitorRaises, Incident, Persist, NoWindow, dockerVars, LifeInv, TypeOK,
             Intents, Over, Beyond, PostExit
  <2>4. CASE after = "observe"
    <3>1. /\ Incident("post-exit", FALSE, mem, "quarantine", "tick")
      BY <1>14, <2>4 DEF MonitorRaises
    <3>. QED
      BY <1>14, <2>4, <3>1, LifeInv, TypeOK
         DEF MonitorRaises, Incident, Persist, NoWindow, dockerVars, LifeInv, TypeOK,
             Intents, Over, Beyond, PostExit
  <2>. QED
    BY <1>14, <2>1, <2>2, <2>3, <2>4 DEF MonitorRaises
<1>15. CASE ObserveRunning
  <2>1. /\ Goto("decide", "publish")
        /\ UNCHANGED <<first, stopFile, attested, procVars, dockerVars, worldVars, counters>>
    BY <1>15 DEF ObserveRunning, Goto
  <2>2. CASE mem.observed
    <3>1. /\ UNCHANGED <<disk, mem, receipt>>
      BY <1>15, <2>2 DEF ObserveRunning
    <3>. QED
      BY <2>1, <2>2, <3>1, LifeInv, TypeOK
         DEF Goto, monitorVars, procVars, dockerVars, LifeInv, TypeOK, Intents, Over,
             Beyond, PostExit
  <2>3. CASE ~ mem.observed
    <3>1. /\ Persist([mem EXCEPT !.state = "RUNNING", !.observed = TRUE])
          /\ receipt' = "UNQUALIFIED"
      BY <1>15, <2>3 DEF ObserveRunning
    <3>. QED
      BY <2>1, <2>3, <3>1, LifeInv, TypeOK
         DEF Goto, Persist, monitorVars, procVars, dockerVars, LifeInv, TypeOK, Intents,
             Over, Beyond, PostExit
  <2>. QED
    BY <1>15, <2>2, <2>3
<1>16. CASE IntendStart
  BY <1>16, LifeInv, TypeOK
     DEF IntendStart, Goto, Persist, monitorVars, procVars, dockerVars, LifeInv, TypeOK,
         Intents, Over, Beyond, PostExit
<1>17. CASE DispatchStart
  BY <1>17, LifeInv, TypeOK
     DEF DispatchStart, Goto, monitorVars, procVars, LifeInv, TypeOK, Intents, Over, Beyond,
         PostExit
<1>18. CASE DecideExit
  BY <1>18, LifeInv, TypeOK
     DEF DecideExit, Goto, monitorVars, procVars, dockerVars, LifeInv, TypeOK, Intents,
         Over, Beyond, PostExit
<1>19. CASE StartUncertain
  BY <1>19, LifeInv, TypeOK
     DEF StartUncertain, Goto, Persist, monitorVars, procVars, dockerVars, LifeInv, TypeOK,
         Intents, Over, Beyond, PostExit
<1>20. CASE NothingToPublish
  BY <1>20, LifeInv, TypeOK
     DEF NothingToPublish, Goto, monitorVars, dockerVars, LifeInv, TypeOK, Intents, Over,
         Beyond, PostExit
<1>21. CASE ValidateMapping
  BY <1>21, LifeInv, TypeOK
     DEF ValidateMapping, Goto, dockerVars, LifeInv, TypeOK, Intents, Over, Beyond, PostExit
<1>22. CASE RecordMapping
  BY <1>22, LifeInv, TypeOK
     DEF RecordMapping, Goto, Persist, monitorVars, procVars, dockerVars, LifeInv, TypeOK,
         Intents, Over, Beyond, PostExit
<1>23. CASE MappingRejected
  BY <1>23, LifeInv, TypeOK
     DEF MappingRejected, Incident, Persist, NoWindow, dockerVars, LifeInv, TypeOK, Intents,
         Over, Beyond, PostExit
<1>24. CASE MappingBlocked
  BY <1>24, LifeInv, TypeOK
     DEF MappingBlocked, Goto, monitorVars, dockerVars, LifeInv, TypeOK, Intents, Over,
         Beyond, PostExit
<1>25. CASE AnnounceReady
  BY <1>25, LifeInv, TypeOK
     DEF AnnounceReady, Goto, monitorVars, procVars, dockerVars, LifeInv, TypeOK, Intents,
         Over, Beyond, PostExit
<1>26. CASE WithdrawMapping
  BY <1>26, LifeInv, TypeOK
     DEF WithdrawMapping, Goto, Persist, monitorVars, dockerVars, LifeInv, TypeOK, Intents,
         Over, Beyond, PostExit
<1>27. CASE ReadyStands
  BY <1>27, LifeInv, TypeOK
     DEF ReadyStands, Goto, monitorVars, procVars, dockerVars, LifeInv, TypeOK, Intents,
         Over, Beyond, PostExit
<1>28. CASE ReadyBlocked
  BY <1>28, LifeInv, TypeOK
     DEF ReadyBlocked, Goto, Persist, monitorVars, dockerVars, LifeInv, TypeOK, Intents,
         Over, Beyond, PostExit
<1>29. CASE Unready
  BY <1>29, LifeInv, TypeOK
     DEF Unready, Goto, monitorVars, procVars, dockerVars, LifeInv, TypeOK, Intents, Over,
         Beyond, PostExit
<1>30. CASE NoStopDue
  BY <1>30, LifeInv, TypeOK
     DEF NoStopDue, Goto, monitorVars, procVars, dockerVars, LifeInv, TypeOK, Intents, Over,
         Beyond, PostExit
<1>31. CASE IntendStop
  BY <1>31, LifeInv, TypeOK
     DEF IntendStop, Goto, Persist, monitorVars, procVars, dockerVars, LifeInv, TypeOK,
         Intents, Over, Beyond, PostExit
<1>32. CASE WithdrawReceipt
  BY <1>32, LifeInv, TypeOK
     DEF WithdrawReceipt, Goto, monitorVars, procVars, dockerVars, LifeInv, TypeOK, Intents,
         Over, Beyond, PostExit
<1>33. CASE DispatchStop
  BY <1>33, LifeInv, TypeOK
     DEF DispatchStop, Goto, monitorVars, procVars, LifeInv, TypeOK, Intents, Over, Beyond,
         PostExit
<1>34. CASE ForgetMapping
  BY <1>34, LifeInv, TypeOK
     DEF ForgetMapping, Goto, Persist, monitorVars, procVars, dockerVars, LifeInv, TypeOK,
         Intents, Over, Beyond, PostExit
<1>35. CASE RevokeAtExit
  BY <1>35, LifeInv, TypeOK
     DEF RevokeAtExit, Goto, monitorVars, procVars, dockerVars, LifeInv, TypeOK, Intents,
         Over, Beyond, PostExit
<1>36. CASE NothingMapped
  BY <1>36, LifeInv, TypeOK
     DEF NothingMapped, Goto, monitorVars, procVars, dockerVars, LifeInv, TypeOK, Intents,
         Over, Beyond, PostExit
<1>37. CASE CheckExitCode
  <2>1. /\ pc = "exit code"
        /\ after' = "observe"
        /\ broken' = FALSE
        /\ UNCHANGED <<fileVars, seen, dockerVars, worldVars, counters>>
    BY <1>37 DEF CheckExitCode
  <2>2. CASE seen = "exited" /\ failed /\ ~ mem.exitRecorded
    <3>1. /\ Incident("exit code", FALSE, mem, "exit code", "kernel")
      BY <1>37, <2>2 DEF CheckExitCode
    <3>. QED
      BY <2>1, <2>2, <3>1, LifeInv, TypeOK
         DEF Incident, Persist, NoWindow, dockerVars, LifeInv, TypeOK, Intents, Over,
             Beyond, PostExit
  <2>3. CASE ~ (seen = "exited" /\ failed /\ ~ mem.exitRecorded)
    <3>1. /\ pc' = "kernel"
          /\ UNCHANGED <<disk, mem, stopRequested, window, report>>
      BY <1>37, <2>3 DEF CheckExitCode
    <3>. QED
      BY <2>1, <2>3, <3>1, LifeInv, TypeOK
         DEF dockerVars, LifeInv, TypeOK, Intents, Over, Beyond, PostExit
  <2>. QED
    BY <1>37, <2>2, <2>3
<1>38. CASE HardwareLatched
  BY <1>38, LifeInv, TypeOK
     DEF HardwareLatched, Goto, Persist, monitorVars, procVars, dockerVars, LifeInv, TypeOK,
         Intents, Over, Beyond, PostExit
<1>39. CASE CleanSample
  <2>1. /\ pc = "observe"
        /\ ~ mem.hardware
        /\ \E gap \in 0 .. MaxGap : window' = Sampled(gap)
        /\ UNCHANGED <<fileVars, stopRequested, seen, monitorVars, dockerVars, worldVars, counters>>
    BY <1>39 DEF CleanSample
  <2>2. CASE Complete(window')
    <3>1. /\ pc' = "release"
          /\ Persist([mem EXCEPT !.state = "OTHER", !.cleanup = TRUE])
      BY <1>39, <2>2 DEF CleanSample
    <3>. QED
      BY <2>1, <2>2, <3>1, LifeInv, TypeOK
         DEF Persist, monitorVars, dockerVars, LifeInv, TypeOK, Intents, Over, Beyond,
             PostExit
  <2>3. CASE ~ Complete(window')
    <3>1. /\ pc' = "tick"
          /\ Persist([mem EXCEPT !.state = "OBSERVING"])
      BY <1>39, <2>3 DEF CleanSample
    <3>. QED
      BY <2>1, <2>3, <3>1, LifeInv, TypeOK
         DEF Persist, monitorVars, dockerVars, LifeInv, TypeOK, Intents, Over, Beyond,
             PostExit
  <2>. QED
    BY <1>39, <2>2, <2>3
<1>40. CASE Release
  BY <1>40, LifeInv, TypeOK
     DEF Release, Goto, monitorVars, procVars, dockerVars, LifeInv, TypeOK, Intents, Over,
         Beyond, PostExit
<1>41. CASE CreateRaises
  BY <1>41, LifeInv, TypeOK
     DEF CreateRaises, Goto, monitorVars, dockerVars, LifeInv, TypeOK, Intents, Over,
         Beyond, PostExit
<1>42. CASE InspectFails
  BY <1>42, LifeInv, TypeOK
     DEF InspectFails, TickRaises, Incident, Persist, NoWindow, Polled, dockerVars, LifeInv,
         TypeOK, Intents, Over, Beyond, PostExit
<1>43. CASE JournalFails
  BY <1>43, LifeInv, TypeOK
     DEF JournalFails, Goto, dockerVars, LifeInv, TypeOK, Intents, Over, Beyond, PostExit
<1>44. CASE ChannelFails
  BY <1>44, LifeInv, TypeOK
     DEF ChannelFails, Goto, dockerVars, LifeInv, TypeOK, Intents, Over, Beyond, PostExit
<1>45. CASE HardwareDiffers
  BY <1>45, LifeInv, TypeOK
     DEF HardwareDiffers, Incident, Persist, NoWindow, dockerVars, LifeInv, TypeOK, Intents,
         Over, Beyond, PostExit
<1>46. CASE ContainerLogsError
  BY <1>46, LifeInv, TypeOK
     DEF ContainerLogsError, Incident, Persist, NoWindow, dockerVars, LifeInv, TypeOK,
         Intents, Over, Beyond, PostExit
<1>47. CASE StartRaises
  BY <1>47, LifeInv, TypeOK
     DEF StartRaises, TickRaises, Incident, Persist, NoWindow, dockerVars, LifeInv, TypeOK,
         Intents, Over, Beyond, PostExit
<1>48. CASE StopRaises
  BY <1>48, LifeInv, TypeOK
     DEF StopRaises, TickRaises, Incident, Persist, NoWindow, dockerVars, LifeInv, TypeOK,
         Intents, Over, Beyond, PostExit
<1>49. CASE StopOverdue
  BY <1>49, LifeInv, TypeOK
     DEF StopOverdue, Incident, Persist, NoWindow, dockerVars, LifeInv, TypeOK, Intents,
         Over, Beyond, PostExit
<1>50. CASE NotIdle
  BY <1>50, LifeInv, TypeOK
     DEF NotIdle, Incident, Persist, NoWindow, dockerVars, LifeInv, TypeOK, Intents, Over,
         Beyond, PostExit
<1>51. CASE Settling
  BY <1>51, LifeInv, TypeOK
     DEF Settling, Goto, NoWindow, Persist, monitorVars, dockerVars, LifeInv, TypeOK,
         Intents, Over, Beyond, PostExit
<1>52. CASE DaemonCreates
  BY <1>52, LifeInv, TypeOK
     DEF DaemonCreates, Executes, monitorVars, procVars, LifeInv, TypeOK, Intents, Over,
         Beyond, PostExit
<1>53. CASE DaemonStarts
  BY <1>53, LifeInv, TypeOK
     DEF DaemonStarts, Executes, monitorVars, procVars, LifeInv, TypeOK, Intents, Over,
         Beyond, PostExit
<1>54. CASE DaemonStops
  BY <1>54, LifeInv, TypeOK
     DEF DaemonStops, Executes, monitorVars, procVars, LifeInv, TypeOK, Intents, Over,
         Beyond, PostExit
<1>55. CASE DaemonRefuses
  BY <1>55, LifeInv, TypeOK
     DEF DaemonRefuses, monitorVars, procVars, LifeInv, TypeOK, Intents, Over, Beyond,
         PostExit
<1>56. CASE Boots
  BY <1>56, LifeInv, TypeOK
     DEF Boots, monitorVars, procVars, LifeInv, TypeOK, Intents, Over, Beyond, PostExit
<1>57. CASE Exits
  BY <1>57, LifeInv, TypeOK
     DEF Exits, monitorVars, procVars, LifeInv, TypeOK, Intents, Over, Beyond, PostExit
<1>58. CASE EndsByItself
  BY <1>58, LifeInv, TypeOK
     DEF EndsByItself, monitorVars, procVars, LifeInv, TypeOK, Intents, Over, Beyond,
         PostExit
<1>59. CASE RetryStop
  BY <1>59, LifeInv, TypeOK
     DEF RetryStop, Alive, monitorVars, procVars, LifeInv, TypeOK, Intents, Over, Beyond,
         PostExit
<1>60. CASE Crash
  BY <1>60, LifeInv, TypeOK
     DEF Crash, Alive, NoWindow, NoReport, LifeInv, TypeOK, Intents, Over, Beyond, PostExit
<1>61. CASE Resume
  BY <1>61, LifeInv, TypeOK
     DEF Resume, Goto, Resumed, monitorVars, dockerVars, LifeInv, TypeOK, Intents, Over,
         Beyond, PostExit
<1>62. CASE UNCHANGED vars
  BY <1>2, <1>62 DEF vars, monitorVars, procVars, dockerVars
<1>. QED
  BY <1>1, <1>2, <1>3, <1>4, <1>5, <1>6, <1>7, <1>8, <1>9, <1>10, <1>11, <1>12, <1>13,
     <1>14, <1>15, <1>16, <1>17, <1>18, <1>19, <1>20, <1>21, <1>22, <1>23, <1>24, <1>25,
     <1>26, <1>27, <1>28, <1>29, <1>30, <1>31, <1>32, <1>33, <1>34, <1>35, <1>36, <1>37,
     <1>38, <1>39, <1>40, <1>41, <1>42, <1>43, <1>44, <1>45, <1>46, <1>47, <1>48, <1>49,
     <1>50, <1>51, <1>52, <1>53, <1>54, <1>55, <1>56, <1>57, <1>58, <1>59, <1>60, <1>61,
     <1>62
     DEF Next, SupervisorStep, TroubleStep, DaemonStep, WorldStep

----
\* The refinement

LEMMA OwnedStep ==
  ASSUME LifeInv, ReportInv, IntentsOK, ReportOK, ProcessOK, [Next]_vars
  PROVE  [Owned!Next]_<<Life, Hold>>
<1>1. ASSUME StopClientEnds \/ DaemonRefuses \/ KernelFault \/ Attest \/ RequestStop \/ Load \/ OwnedStopEnds
             \/ Signal
      PROVE  UNCHANGED <<disk, pc, container>>
  BY <1>1
     DEF StopClientEnds, DaemonRefuses, KernelFault, Attest, RequestStop, StopByHand, OwnedStop, Load, OwnedStopEnds, Signal, dockerVars
<1>2. CASE UNCHANGED <<disk, pc, container>>
  BY <1>2, LifeInv, IntentsOK DEF Life, Hold
<1>3. CASE RecordFirst
  BY <1>3, LifeInv, IntentsOK
     DEF RecordFirst, Goto, dockerVars, LifeInv, IntentsOK, Intents, Life, Hold
<1>4. CASE RevokeReceipt
  BY <1>4, LifeInv, IntentsOK
     DEF RevokeReceipt, Goto, dockerVars, LifeInv, IntentsOK, Intents, Life, Hold
<1>5. CASE Mark
  BY <1>5, LifeInv, ReportInv, ReportOK, IntentsOK
     DEF Mark, Goto, Persist, dockerVars, LifeInv, IntentsOK, Intents, ReportInv, ReportOK,
         Marks, Life, Hold, Owned!Next
<1>6. CASE BeginStopped
  BY <1>6, LifeInv, IntentsOK
     DEF BeginStopped, Goto, Persist, dockerVars, LifeInv, IntentsOK, Intents, Beyond,
         Running, Over, PostExit, Life, Hold, Owned!Next, Owned!Release
<1>7. CASE Begin
  BY <1>7, LifeInv, IntentsOK
     DEF Begin, Goto, Persist, dockerVars, LifeInv, IntentsOK, Intents, Beyond, Running,
         Life, Hold, Owned!Next, Owned!Claim
<1>8. CASE DispatchCreate
  BY <1>8, LifeInv, IntentsOK
     DEF DispatchCreate, Goto, LifeInv, IntentsOK, Intents, Life, Hold
<1>9. CASE Tick
  <2>1. /\ pc = "tick"
        /\ stopRequested' = (stopRequested \/ stopFile)
        /\ seen' = container
        /\ broken' = FALSE
        /\ UNCHANGED <<first, stopFile, attested, report, window, dockerVars, worldVars, counters>>
    BY <1>9 DEF Tick
  <2>2. CASE container = "none"
    <3>1. /\ Persist([Polled EXCEPT !.state = "OTHER"])
          /\ pc' = "kernel"
          /\ after' = "tick"
          /\ UNCHANGED receipt
      BY <1>9, <2>2 DEF Tick
    <3>. QED
      BY <2>1, <2>2, <3>1, LifeInv, IntentsOK
         DEF Persist, Polled, dockerVars, LifeInv, IntentsOK, Intents, Life, Hold
  <2>3. CASE container # "none"
    <3>1. /\ Persist([Polled EXCEPT !.known = TRUE])
          /\ after' = "decide"
          /\ pc' \in {"decide", "kernel"}
          /\ receipt' \in {receipt, "UNQUALIFIED"}
      BY <1>9, <2>3 DEF Tick
    <3>. QED
      BY <2>1, <2>3, <3>1, LifeInv, IntentsOK
         DEF Persist, Polled, dockerVars, LifeInv, IntentsOK, Intents, Life, Hold
  <2>. QED
    BY <1>9, <2>2, <2>3
<1>10. CASE ReadJournal
  <2>1. /\ pc = "kernel"
        /\ readFaults' = faults
        /\ UNCHANGED <<fileVars, seen, after, broken, dockerVars, faults, waiting, retried, busy, counters>>
    BY <1>10 DEF ReadJournal
  <2>2. CASE faults > mem.cursor
    <3>1. /\ Incident("kernel fault", TRUE, mem, "none", "cursor")
      BY <1>10, <2>2 DEF ReadJournal
    <3>. QED
      BY <2>1, <2>2, <3>1, LifeInv, IntentsOK
         DEF Incident, Persist, dockerVars, LifeInv, IntentsOK, Intents, Life, Hold
  <2>3. CASE ~ faults > mem.cursor
    <3>1. /\ pc' = "cursor"
          /\ UNCHANGED <<disk, mem, stopRequested, window, report>>
      BY <1>10, <2>3 DEF ReadJournal
    <3>. QED
      BY <2>1, <2>3, <3>1, LifeInv, IntentsOK
         DEF dockerVars, LifeInv, IntentsOK, Intents, Life, Hold
  <2>. QED
    BY <1>10, <2>2, <2>3
<1>11. CASE AdvanceCursor
  BY <1>11, LifeInv, IntentsOK
     DEF AdvanceCursor, Goto, Persist, dockerVars, LifeInv, IntentsOK, Intents, Life, Hold
<1>12. CASE ChannelsClear
  BY <1>12, LifeInv, IntentsOK
     DEF ChannelsClear, Goto, dockerVars, LifeInv, IntentsOK, Intents, Life, Hold
<1>13. CASE Monitored
  BY <1>13, LifeInv, ProcessOK
     DEF Monitored, Goto, dockerVars, LifeInv, ProcessOK, Life, Hold, Owned!Next
<1>14. CASE MonitorRaises
  <2>1. CASE after = "tick"
    <3>1. /\ TickRaises(mem)
      BY <1>14, <2>1 DEF MonitorRaises
    <3>. QED
      BY <1>14, <2>1, <3>1, LifeInv, IntentsOK
         DEF MonitorRaises, TickRaises, Incident, Persist, dockerVars, LifeInv, IntentsOK,
             Intents, Life, Hold
  <2>2. CASE after = "decide"
    <3>1. /\ Incident("monitor", FALSE, mem, "none", "decide")
      BY <1>14, <2>2 DEF MonitorRaises
    <3>. QED
      BY <1>14, <2>2, <3>1, LifeInv, IntentsOK
         DEF MonitorRaises, Incident, Persist, dockerVars, LifeInv, IntentsOK, Intents,
             Life, Hold
  <2>3. CASE after = "fresh"
    <3>1. /\ Incident("mapping", FALSE, mem, "none", "stop")
      BY <1>14, <2>3 DEF MonitorRaises
    <3>. QED
      BY <1>14, <2>3, <3>1, LifeInv, IntentsOK
         DEF MonitorRaises, Incident, Persist, dockerVars, LifeInv, IntentsOK, Intents,
             Life, Hold
  <2>4. CASE after = "observe"
    <3>1. /\ Incident("post-exit", FALSE, mem, "quarantine", "tick")
      BY <1>14, <2>4 DEF MonitorRaises
    <3>. QED
      BY <1>14, <2>4, <3>1, LifeInv, IntentsOK
         DEF MonitorRaises, Incident, Persist, dockerVars, LifeInv, IntentsOK, Intents,
             Life, Hold
  <2>. QED
    BY <1>14, <2>1, <2>2, <2>3, <2>4 DEF MonitorRaises
<1>15. CASE ObserveRunning
  <2>1. /\ Goto("decide", "publish")
        /\ UNCHANGED <<first, stopFile, attested, procVars, dockerVars, worldVars, counters>>
    BY <1>15 DEF ObserveRunning, Goto
  <2>2. CASE mem.observed
    <3>1. /\ UNCHANGED <<disk, mem, receipt>>
      BY <1>15, <2>2 DEF ObserveRunning
    <3>. QED
      BY <2>1, <2>2, <3>1, LifeInv, IntentsOK
         DEF Goto, dockerVars, LifeInv, IntentsOK, Intents, Life, Hold
  <2>3. CASE ~ mem.observed
    <3>1. /\ Persist([mem EXCEPT !.state = "RUNNING", !.observed = TRUE])
          /\ receipt' = "UNQUALIFIED"
      BY <1>15, <2>3 DEF ObserveRunning
    <3>. QED
      BY <2>1, <2>3, <3>1, LifeInv, IntentsOK
         DEF Goto, Persist, dockerVars, LifeInv, IntentsOK, Intents, Life, Hold
  <2>. QED
    BY <1>15, <2>2, <2>3
<1>16. CASE IntendStart
  BY <1>16, LifeInv, IntentsOK
     DEF IntendStart, Goto, Persist, dockerVars, LifeInv, IntentsOK, Intents, Life, Hold
<1>17. CASE DispatchStart
  BY <1>17, LifeInv, IntentsOK
     DEF DispatchStart, Goto, LifeInv, IntentsOK, Intents, Life, Hold
<1>18. CASE DecideExit
  BY <1>18, LifeInv, IntentsOK
     DEF DecideExit, Goto, dockerVars, LifeInv, IntentsOK, Intents, Life, Hold
<1>19. CASE StartUncertain
  BY <1>19, LifeInv, IntentsOK
     DEF StartUncertain, Goto, Persist, dockerVars, LifeInv, IntentsOK, Intents, Life, Hold
<1>20. CASE NothingToPublish
  BY <1>20, LifeInv, IntentsOK
     DEF NothingToPublish, Goto, dockerVars, LifeInv, IntentsOK, Intents, Life, Hold
<1>21. CASE ValidateMapping
  BY <1>21, LifeInv, IntentsOK
     DEF ValidateMapping, Goto, dockerVars, LifeInv, IntentsOK, Intents, Life, Hold
<1>22. CASE RecordMapping
  BY <1>22, LifeInv, IntentsOK
     DEF RecordMapping, Goto, Persist, dockerVars, LifeInv, IntentsOK, Intents, Life, Hold
<1>23. CASE MappingRejected
  BY <1>23, LifeInv, IntentsOK
     DEF MappingRejected, Incident, Persist, dockerVars, LifeInv, IntentsOK, Intents, Life,
         Hold
<1>24. CASE MappingBlocked
  BY <1>24, LifeInv, IntentsOK
     DEF MappingBlocked, Goto, dockerVars, LifeInv, IntentsOK, Intents, Life, Hold
<1>25. CASE AnnounceReady
  BY <1>25, LifeInv, IntentsOK
     DEF AnnounceReady, Goto, dockerVars, LifeInv, IntentsOK, Intents, Life, Hold
<1>26. CASE WithdrawMapping
  BY <1>26, LifeInv, IntentsOK
     DEF WithdrawMapping, Goto, Persist, dockerVars, LifeInv, IntentsOK, Intents, Life, Hold
<1>27. CASE ReadyStands
  BY <1>27, LifeInv, IntentsOK
     DEF ReadyStands, Goto, dockerVars, LifeInv, IntentsOK, Intents, Life, Hold
<1>28. CASE ReadyBlocked
  BY <1>28, LifeInv, IntentsOK
     DEF ReadyBlocked, Goto, Persist, dockerVars, LifeInv, IntentsOK, Intents, Life, Hold
<1>29. CASE Unready
  BY <1>29, LifeInv, IntentsOK
     DEF Unready, Goto, dockerVars, LifeInv, IntentsOK, Intents, Life, Hold
<1>30. CASE NoStopDue
  BY <1>30, LifeInv, IntentsOK
     DEF NoStopDue, Goto, dockerVars, LifeInv, IntentsOK, Intents, Life, Hold
<1>31. CASE IntendStop
  BY <1>31, LifeInv, IntentsOK
     DEF IntendStop, Goto, Persist, dockerVars, LifeInv, IntentsOK, Intents, Life, Hold
<1>32. CASE WithdrawReceipt
  BY <1>32, LifeInv, IntentsOK
     DEF WithdrawReceipt, Goto, dockerVars, LifeInv, IntentsOK, Intents, Life, Hold
<1>33. CASE DispatchStop
  BY <1>33, LifeInv, IntentsOK
     DEF DispatchStop, Goto, LifeInv, IntentsOK, Intents, Life, Hold
<1>34. CASE ForgetMapping
  BY <1>34, LifeInv, IntentsOK
     DEF ForgetMapping, Goto, Persist, dockerVars, LifeInv, IntentsOK, Intents, Life, Hold
<1>35. CASE RevokeAtExit
  BY <1>35, LifeInv, IntentsOK
     DEF RevokeAtExit, Goto, dockerVars, LifeInv, IntentsOK, Intents, Life, Hold
<1>36. CASE NothingMapped
  BY <1>36, LifeInv, IntentsOK
     DEF NothingMapped, Goto, dockerVars, LifeInv, IntentsOK, Intents, Life, Hold
<1>37. CASE CheckExitCode
  <2>1. /\ pc = "exit code"
        /\ after' = "observe"
        /\ broken' = FALSE
        /\ UNCHANGED <<fileVars, seen, dockerVars, worldVars, counters>>
    BY <1>37 DEF CheckExitCode
  <2>2. CASE seen = "exited" /\ failed /\ ~ mem.exitRecorded
    <3>1. /\ Incident("exit code", FALSE, mem, "exit code", "kernel")
      BY <1>37, <2>2 DEF CheckExitCode
    <3>. QED
      BY <2>1, <2>2, <3>1, LifeInv, IntentsOK
         DEF Incident, Persist, dockerVars, LifeInv, IntentsOK, Intents, Life, Hold
  <2>3. CASE ~ (seen = "exited" /\ failed /\ ~ mem.exitRecorded)
    <3>1. /\ pc' = "kernel"
          /\ UNCHANGED <<disk, mem, stopRequested, window, report>>
      BY <1>37, <2>3 DEF CheckExitCode
    <3>. QED
      BY <2>1, <2>3, <3>1, LifeInv, IntentsOK
         DEF dockerVars, LifeInv, IntentsOK, Intents, Life, Hold
  <2>. QED
    BY <1>37, <2>2, <2>3
<1>38. CASE HardwareLatched
  BY <1>38, LifeInv, IntentsOK
     DEF HardwareLatched, Goto, Persist, dockerVars, LifeInv, IntentsOK, Intents, Life, Hold
<1>39. CASE CleanSample
  <2>1. /\ pc = "observe"
        /\ ~ mem.hardware
        /\ \E gap \in 0 .. MaxGap : window' = Sampled(gap)
        /\ UNCHANGED <<fileVars, stopRequested, seen, monitorVars, dockerVars, worldVars, counters>>
    BY <1>39 DEF CleanSample
  <2>2. CASE Complete(window')
    <3>1. /\ pc' = "release"
          /\ Persist([mem EXCEPT !.state = "OTHER", !.cleanup = TRUE])
      BY <1>39, <2>2 DEF CleanSample
    <3>. QED
      BY <2>1, <2>2, <3>1, LifeInv, IntentsOK
         DEF Persist, dockerVars, LifeInv, IntentsOK, Intents, Life, Hold
  <2>3. CASE ~ Complete(window')
    <3>1. /\ pc' = "tick"
          /\ Persist([mem EXCEPT !.state = "OBSERVING"])
      BY <1>39, <2>3 DEF CleanSample
    <3>. QED
      BY <2>1, <2>3, <3>1, LifeInv, IntentsOK
         DEF Persist, dockerVars, LifeInv, IntentsOK, Intents, Life, Hold
  <2>. QED
    BY <1>39, <2>2, <2>3
<1>40. CASE Release
  BY <1>40, LifeInv
     DEF Release, Goto, dockerVars, LifeInv, Over, PostExit, Beyond, Running, Life, Hold,
         Owned!Next, Owned!Release
<1>41. CASE CreateRaises
  BY <1>41, LifeInv, IntentsOK
     DEF CreateRaises, Goto, dockerVars, LifeInv, IntentsOK, Intents, Life, Hold
<1>42. CASE InspectFails
  BY <1>42, LifeInv, IntentsOK
     DEF InspectFails, TickRaises, Incident, Persist, Polled, dockerVars, LifeInv, IntentsOK,
         Intents, Life, Hold
<1>43. CASE JournalFails
  BY <1>43, LifeInv, IntentsOK
     DEF JournalFails, Goto, dockerVars, LifeInv, IntentsOK, Intents, Life, Hold
<1>44. CASE ChannelFails
  BY <1>44, LifeInv, IntentsOK
     DEF ChannelFails, Goto, dockerVars, LifeInv, IntentsOK, Intents, Life, Hold
<1>45. CASE HardwareDiffers
  BY <1>45, LifeInv, IntentsOK
     DEF HardwareDiffers, Incident, Persist, dockerVars, LifeInv, IntentsOK, Intents, Life,
         Hold
<1>46. CASE ContainerLogsError
  BY <1>46, LifeInv, IntentsOK
     DEF ContainerLogsError, Incident, Persist, dockerVars, LifeInv, IntentsOK, Intents,
         Life, Hold
<1>47. CASE StartRaises
  BY <1>47, LifeInv, IntentsOK
     DEF StartRaises, TickRaises, Incident, Persist, dockerVars, LifeInv, IntentsOK,
         Intents, Life, Hold
<1>48. CASE StopRaises
  BY <1>48, LifeInv, IntentsOK
     DEF StopRaises, TickRaises, Incident, Persist, dockerVars, LifeInv, IntentsOK, Intents,
         Life, Hold
<1>49. CASE StopOverdue
  BY <1>49, LifeInv, IntentsOK
     DEF StopOverdue, Incident, Persist, dockerVars, LifeInv, IntentsOK, Intents, Life, Hold
<1>50. CASE NotIdle
  BY <1>50, LifeInv, IntentsOK
     DEF NotIdle, Incident, Persist, dockerVars, LifeInv, IntentsOK, Intents, Life, Hold
<1>51. CASE Settling
  BY <1>51, LifeInv, IntentsOK
     DEF Settling, Goto, Persist, dockerVars, LifeInv, IntentsOK, Intents, Life, Hold
<1>52. CASE DaemonCreates
  BY <1>52, LifeInv
     DEF DaemonCreates, Executes, LifeInv, Running, Beyond, Life, Hold, Owned!Next,
         Owned!Claim
<1>53. CASE DaemonStarts
  BY <1>53, LifeInv
     DEF DaemonStarts, Executes, LifeInv, Running, Beyond, Over, PostExit, Life, Hold,
         Owned!Next, Owned!Run
<1>54. CASE DaemonStops
  <2>1. (Running(container) /\ Running(container')) \/ container' = container
    BY <1>54 DEF DaemonStops, Running
  <2>. QED
    BY <1>54, <2>1 DEF DaemonStops, Life, Hold
<1>55. CASE Boots
  BY <1>55, LifeInv DEF Boots, LifeInv, Running, Beyond, Life, Hold, Owned!Next
<1>56. CASE Exits
  BY <1>56, LifeInv DEF Exits, LifeInv, Running, Beyond, Life, Hold, Owned!Next, Owned!End
<1>57. CASE EndsByItself
  BY <1>57, LifeInv
     DEF EndsByItself, LifeInv, Running, Beyond, Life, Hold, Owned!Next, Owned!End
<1>58. CASE RetryStop
  BY <1>58, LifeInv DEF RetryStop, LifeInv, Running, Beyond, Life, Hold, Owned!Next
<1>59. CASE Crash
  BY <1>59, LifeInv DEF Crash, LifeInv, Running, Alive, Life, Hold, Owned!Next, Owned!Orphan
<1>60. CASE Resume
  BY <1>60, LifeInv
     DEF Resume, Goto, Resumed, dockerVars, LifeInv, Running, Life, Hold, Owned!Next,
         Owned!Resume
<1>61. CASE UNCHANGED vars
  BY <1>2, <1>61 DEF vars, dockerVars
<1>. QED
  BY <1>1, <1>2, <1>3, <1>4, <1>5, <1>6, <1>7, <1>8, <1>9, <1>10, <1>11, <1>12, <1>13,
     <1>14, <1>15, <1>16, <1>17, <1>18, <1>19, <1>20, <1>21, <1>22, <1>23, <1>24, <1>25,
     <1>26, <1>27, <1>28, <1>29, <1>30, <1>31, <1>32, <1>33, <1>34, <1>35, <1>36, <1>37,
     <1>38, <1>39, <1>40, <1>41, <1>42, <1>43, <1>44, <1>45, <1>46, <1>47, <1>48, <1>49,
     <1>50, <1>51, <1>52, <1>53, <1>54, <1>55, <1>56, <1>57, <1>58, <1>59, <1>60, <1>61
     DEF Next, SupervisorStep, TroubleStep, DaemonStep, WorldStep

----
\* The stop, pursued.

\* What most steps of the supervisor do for FollowInv: nothing is forgotten.
PursuitKept ==
  /\ Alive /\ pc \notin {"withdraw", "halt"}
  /\ stopRequested => stopRequested'
  /\ UNCHANGED <<crashes, stopClient>>
  /\ mem'.stop = mem.stop /\ mem.counted \subseteq mem'.counted

LEMMA IncidentPursues ==
  ASSUME NEW m \in Intents, m.stop = mem.stop, m.counted = mem.counted, NEW reason,
         NEW hardware, NEW mark, NEW next, Incident(reason, hardware, m, mark, next)
  PROVE  stopRequested' /\ mem'.stop = mem.stop /\ mem'.counted = mem.counted \union {reason}
  BY DEF Incident, Persist, Intents

LEMMA PolledStop ==
  ASSUME PollStop
  PROVE  stopRequested => stopRequested'
  BY Zenon DEF PollStop

LEMMA PlainPursuit ==
  ASSUME \/ RecordFirst \/ RevokeReceipt \/ DispatchCreate \/ ChannelsClear \/ Monitored
         \/ DispatchStart \/ DecideExit \/ NothingToPublish \/ ValidateMapping
         \/ MappingBlocked \/ AnnounceReady \/ ReadyStands \/ Unready \/ NoStopDue
         \/ RevokeAtExit \/ NothingMapped \/ CreateRaises \/ JournalFails \/ ChannelFails
  PROVE  PursuitKept
<1>1. CASE RecordFirst \/ RevokeReceipt \/ DispatchCreate
  BY <1>1
     DEF RecordFirst, RevokeReceipt, DispatchCreate, Goto, procVars, dockerVars, counters,
         PursuitKept, Alive
<1>2. CASE ChannelsClear \/ Monitored \/ DispatchStart \/ DecideExit
  BY <1>2
     DEF ChannelsClear, Monitored, DispatchStart, DecideExit, Goto, procVars, dockerVars,
         counters, PursuitKept, Alive
<1>3. CASE NothingToPublish \/ MappingBlocked
  BY <1>3, PolledStop
     DEF NothingToPublish, MappingBlocked, Goto, dockerVars, counters, PursuitKept, Alive
<1>4. CASE ValidateMapping \/ AnnounceReady \/ ReadyStands
  BY <1>4
     DEF ValidateMapping, AnnounceReady, ReadyStands, Goto, procVars, dockerVars, counters,
         PursuitKept, Alive
<1>5. CASE Unready \/ NoStopDue
  BY <1>5 DEF Unready, NoStopDue, Goto, procVars, dockerVars, counters, PursuitKept, Alive
<1>6. CASE RevokeAtExit
  BY <1>6 DEF RevokeAtExit, Goto, procVars, dockerVars, counters, PursuitKept, Alive
<1>7. CASE NothingMapped
  BY <1>7 DEF NothingMapped, Goto, procVars, dockerVars, counters, PursuitKept, Alive
<1>8. CASE CreateRaises
  BY <1>8 DEF CreateRaises, Goto, dockerVars, PursuitKept, Alive
<1>9. CASE JournalFails \/ ChannelFails
  BY <1>9 DEF JournalFails, ChannelFails, Goto, dockerVars, PursuitKept, Alive
<1>. QED
  BY <1>1, <1>2, <1>3, <1>4, <1>5, <1>6, <1>7, <1>8, <1>9

LEMMA WritingPursuit ==
  ASSUME IntentsOK, ReportOK, DockerOK,
         \/ Mark \/ Begin \/ AdvanceCursor \/ IntendStart \/ StartUncertain \/ RecordMapping
         \/ WithdrawMapping \/ ReadyBlocked \/ ForgetMapping \/ HardwareLatched \/ Settling
         \/ Tick \/ ObserveRunning \/ CleanSample
  PROVE  PursuitKept
<1>. USE DEF IntentsOK, Intents
<1>1. CASE Mark
  <2>1. report.mark \in Marks
    BY ReportOK DEF ReportOK
  <2>. QED
    BY <1>1, <2>1, IntentsOK
       DEF Mark, Marks, Goto, Persist, procVars, dockerVars, counters, PursuitKept, Alive
<1>2. CASE Begin \/ AdvanceCursor \/ IntendStart \/ StartUncertain
  BY <1>2, IntentsOK
     DEF Begin, AdvanceCursor, IntendStart, StartUncertain, Goto, Persist, procVars,
         dockerVars, counters, PursuitKept, Alive
<1>3. CASE WithdrawMapping \/ ReadyBlocked
  BY <1>3, IntentsOK, PolledStop
     DEF WithdrawMapping, ReadyBlocked, Goto, Persist, dockerVars, counters,
         PursuitKept, Alive
<1>4. CASE RecordMapping
  BY <1>4, IntentsOK
     DEF RecordMapping, Goto, Persist, procVars, dockerVars, counters, PursuitKept, Alive
<1>5. CASE ForgetMapping
  BY <1>5, IntentsOK
     DEF ForgetMapping, Goto, Persist, procVars, dockerVars, counters, PursuitKept, Alive
<1>6. CASE HardwareLatched
  BY <1>6, IntentsOK
     DEF HardwareLatched, Goto, Persist, procVars, dockerVars, counters, PursuitKept, Alive
<1>7. CASE Settling
  BY <1>7, IntentsOK DEF Settling, Goto, Persist, dockerVars, PursuitKept, Alive
<1>8. CASE Tick
  <2>1. /\ pc = "tick" /\ stopRequested' = (stopRequested \/ stopFile)
        /\ UNCHANGED <<dockerVars, counters>>
    BY <1>8 DEF Tick
  <2>2. mem' = [Polled EXCEPT !.state = "OTHER"] \/ mem' = [Polled EXCEPT !.known = TRUE]
    BY <1>8 DEF Tick, Persist
  <2>3. mem'.stop = mem.stop /\ mem'.counted = mem.counted
    BY <2>2, IntentsOK DEF Polled
  <2>. QED
    BY <2>1, <2>3 DEF dockerVars, counters, PursuitKept, Alive
<1>9. CASE ObserveRunning
  <2>1. mem'.stop = mem.stop /\ mem'.counted = mem.counted
    BY <1>9, IntentsOK DEF ObserveRunning, Persist
  <2>. QED
    BY <1>9, <2>1 DEF ObserveRunning, Goto, procVars, dockerVars, counters, PursuitKept, Alive
<1>10. CASE CleanSample
  <2>1. mem'.stop = mem.stop /\ mem'.counted = mem.counted
    BY <1>10, IntentsOK DEF CleanSample, Persist
  <2>. QED
    BY <1>10, <2>1 DEF CleanSample, dockerVars, counters, PursuitKept, Alive
<1>. QED
  BY <1>1, <1>2, <1>3, <1>4, <1>5, <1>6, <1>7, <1>8, <1>9, <1>10

LEMMA IncidentPursuit ==
  ASSUME IntentsOK, DockerOK,
         \/ ReadJournal \/ MonitorRaises \/ MappingRejected \/ CheckExitCode \/ InspectFails
         \/ HardwareDiffers \/ ContainerLogsError \/ StartRaises \/ StopOverdue \/ NotIdle
  PROVE  PursuitKept
<1>1. mem \in Intents
  BY IntentsOK DEF IntentsOK
<1>2. Polled \in Intents /\ Polled.stop = mem.stop /\ Polled.counted = mem.counted
  BY <1>1, DockerOK DEF Polled, DockerOK, Intents
<1>3. CASE ReadJournal \/ CheckExitCode
  BY <1>1, <1>3, IncidentPursues
     DEF ReadJournal, CheckExitCode, dockerVars, counters, PursuitKept, Alive
<1>4. CASE MonitorRaises
  BY <1>1, <1>4, IncidentPursues
     DEF MonitorRaises, TickRaises, dockerVars, counters, PursuitKept, Alive
<1>5. CASE InspectFails
  BY <1>2, <1>5, IncidentPursues
     DEF InspectFails, TickRaises, dockerVars, PursuitKept, Alive
<1>6. CASE MappingRejected \/ HardwareDiffers \/ ContainerLogsError
  BY <1>1, <1>6, IncidentPursues
     DEF MappingRejected, HardwareDiffers, ContainerLogsError, dockerVars, counters,
         PursuitKept, Alive
<1>7. CASE StartRaises \/ StopOverdue \/ NotIdle
  BY <1>1, <1>7, IncidentPursues
     DEF StartRaises, TickRaises, StopOverdue, NotIdle, dockerVars, counters, PursuitKept,
         Alive
<1>. QED
  BY <1>3, <1>4, <1>5, <1>6, <1>7

LEMMA FollowStep ==
  ASSUME TypeOK, FollowInv, [Next]_vars
  PROVE  FollowInv'
<1>. USE DEF FollowInv
<1>1. IntentsOK /\ ReportOK /\ DockerOK
  BY TypeParts
<1>2. CASE PursuitKept
  BY <1>2 DEF PursuitKept
<1>3. CASE BeginStopped \/ Release \/ Crash
  BY <1>3 DEF BeginStopped, Release, Crash, Goto, Alive
<1>4. CASE IntendStop
  BY <1>4 DEF IntendStop, Goto, procVars, counters, Alive
<1>5. CASE WithdrawReceipt
  BY <1>5 DEF WithdrawReceipt, Goto, procVars, counters, Alive
<1>6. CASE DispatchStop
  BY <1>6 DEF DispatchStop, Goto, procVars, counters, Alive
<1>7. CASE StopRaises
  BY <1>1, <1>7, IncidentPursues DEF StopRaises, TickRaises, IntentsOK
<1>8. CASE Resume
  <2>1. Alive' => stopRequested' /\ ~ mem'.stop
    BY <1>1, <1>8 DEF Resume, Resumed, IntentsOK, Intents
  <2>. QED
    BY <2>1
<1>9. CASE UNCHANGED <<pc, mem, stopRequested, stopClient, crashes>>
  BY <1>9 DEF Alive
<1>10. CASE DaemonCreates \/ DaemonStarts \/ DaemonStops \/ Boots \/ Exits \/ EndsByItself
  BY <1>9, <1>10
     DEF DaemonCreates, DaemonStarts, DaemonStops, Boots, Exits, EndsByItself, procVars,
         counters
<1>11. CASE KernelFault \/ Attest \/ RequestStop \/ Load \/ RetryStop \/ OwnedStopEnds
  BY <1>9, <1>11
     DEF KernelFault, Attest, RequestStop, StopByHand, OwnedStop, Load, RetryStop,
         OwnedStopEnds, procVars, dockerVars, counters
<1>12. CASE Signal
  BY <1>12 DEF Signal, dockerVars, counters, Alive
<1>13. CASE StopClientEnds
  BY <1>13 DEF StopClientEnds, procVars, counters, Alive
<1>14. CASE DaemonRefuses
  BY <1>14 DEF DaemonRefuses, procVars, Alive
<1>15. CASE UNCHANGED vars
  BY <1>9, <1>15 DEF vars, procVars, dockerVars, counters
<1>. QED
  BY <1>1, <1>2, <1>3, <1>4, <1>5, <1>6, <1>7, <1>8, <1>10, <1>11, <1>12, <1>13, <1>14,
     <1>15, PlainPursuit, WritingPursuit, IncidentPursuit
     DEF Next, SupervisorStep, TroubleStep, DaemonStep, WorldStep

----
LEMMA SupervisorInit == Init => SupervisorInv
<1> SUFFICES ASSUME Init PROVE SupervisorInv
  OBVIOUS
<1>1. IntentsOK /\ CountsOK
  BY DEF Init, IntentsOK, CountsOK, Intents, NewIntent
<1>2. ReportOK /\ WindowOK
  BY DEF Init, ReportOK, WindowOK, NoReport, NoWindow, Places, Marks
<1>3. FilesOK /\ PlaceOK /\ ProcessOK /\ DockerOK
  BY DEF Init, FilesOK, PlaceOK, ProcessOK, DockerOK, Places
<1>4. TypeOK
  BY <1>1, <1>2, <1>3, TypeParts
<1>5. LatchInv /\ LifeInv
  BY DEF Init, LatchInv, LifeInv, Over, Beyond, PostExit, NewIntent
<1>6. ReportInv /\ RevokeInv
  BY DEF Init, ReportInv, RevokeInv, NoReport
<1>7. FollowInv
  BY DEF Init, FollowInv, NewIntent
<1>. QED
  BY <1>4, <1>5, <1>6, <1>7 DEF SupervisorInv

\* The six parts hold in every reachable state: the invariant the theorems below rest on.
THEOREM SupervisorInvariant == Spec => []SupervisorInv
<1>1. SupervisorInv /\ [Next]_vars => SupervisorInv'
  BY TypeStep, LatchStep, ReportStep, RevokeStep, LifeStep, FollowStep DEF SupervisorInv
<1>. QED
  BY <1>1, SupervisorInit, PTL DEF Spec

\* Every variable keeps its type, the fields of the intent in memory and on disk included.
THEOREM TypeCorrect == Spec => []TypeOK
<1>1. SupervisorInv => TypeOK
  BY DEF SupervisorInv
<1>. QED
  BY <1>1, SupervisorInvariant, PTL

\* Once monitor_kernel has read a fault, no crash, resume or clean sample leads to the
\* release of the claim.
THEOREM FaultsHeld == Spec => []FaultHeld
<1>1. SupervisorInv => FaultHeld
  BY DEF SupervisorInv, LatchInv, FaultHeld
<1>. QED
  BY <1>1, SupervisorInvariant, PTL

\* The durable journal cursor never passes a fault that is not latched durably.
THEOREM CursorLatched == Spec => []CursorBehindLatch
<1>1. SupervisorInv => CursorBehindLatch
  BY DEF SupervisorInv, LatchInv, CursorBehindLatch
<1>. QED
  BY <1>1, SupervisorInvariant, PTL

\* request_stop_if_needed: no READY receipt stands over a stop that is dispatched.
THEOREM ReceiptFallsFirst == Spec => []RevokedBeforeStop
<1>1. SupervisorInv => RevokedBeforeStop
  BY DEF SupervisorInv, RevokeInv, RevokedBeforeStop
<1>. QED
  BY <1>1, SupervisorInvariant, PTL

\* request_stop_if_needed and resume: no running container waits for a stop that was lost
\* with the client of a crashed supervisor.
THEOREM StopPursued == Spec => []StopFollowed
<1>1. SupervisorInv => StopFollowed
  BY DEF SupervisorInv, FollowInv, StopFollowed, StopDue
<1>. QED
  BY <1>1, SupervisorInvariant, PTL

\* However the commands and crashes fall, the container is claimed once and runs once,
\* and the claim is released only when it can never run again.
THEOREM SupervisorOwns == Spec => ImplementsOwned
<1>1. Init => Owned!Init
  BY DEF Init, Owned!Init, Life, Hold, NewIntent
<1>2. SupervisorInv /\ [Next]_vars => [Owned!Next]_<<Life, Hold>>
  BY TypeParts, OwnedStep DEF SupervisorInv
<1>. QED
  BY <1>1, <1>2, SupervisorInvariant, PTL DEF Spec, ImplementsOwned, Owned!Spec
================================================================================
