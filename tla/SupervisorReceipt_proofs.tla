----------------------- MODULE SupervisorReceipt_proofs -----------------------
(***************************************************************************)
(* Where a READY receipt can stand, as long as the supervisor has not      *)
(* crashed: it never outlives an incident, nor reaches the post-exit       *)
(* window.  (A crash between two durable writes breaks both, so every      *)
(* statement here is about the behaviours, or the part of a behaviour,     *)
(* before the first crash.)                                                *)
(*                                                                         *)
(* The receipt is written in eight places and the intent in forty; the     *)
(* invariant says, for each field that the writes of READY and UNQUALIFIED *)
(* depend on, at which places of the tick the two may disagree.            *)
(***************************************************************************)
EXTENDS Supervisor_proofs

\* An incident sets failure before it records or revokes anything, and only the first of
\* its kind revokes: by the time of a second one the receipt has fallen.
InIncident == pc \in {"incident", "revoke"}
IncidentHeld ==
  /\ first # "none" \/ mem.counted # {} \/ InIncident => mem.failure
  /\ mem.failure /\ receipt = "READY" => InIncident /\ report.fresh

\* A monitor pass under way, the incidents that return to it included.
Reporting == pc \in {"incident", "revoke", "mark"}
InPass ==
  \/ pc \in {"kernel", "cursor", "channels", "monitored"}
  \/ Reporting /\ report.next \in {"kernel", "cursor", "monitored"}

\* READY is announced once, after the mapping is recorded as published; until then, from
\* the validation on, nothing is READY.
PublishHeld ==
  /\ receipt = "READY" => mem.published
  /\ pc = "announce" => mem.published /\ receipt # "READY"
  /\ pc = "fresh" \/ (after = "fresh" /\ InPass) => receipt # "READY"
  /\ Reporting /\ report.next = "kernel" => after = "observe"

\* The intent forgets the mapping only on the way to a write of the receipt.
MappedHeld ==
  /\ receipt = "READY" => mem.mapped \/ InIncident \/ pc \in {"unready", "withdraw", "exited"}
  /\ pc \in {"announce", "recheck"} => mem.mapped

\* Between the exit code and the sample, and while the intent says "observing", nothing is
\* READY.
ObserveHeld ==
  /\ after = "observe" =>
       /\ receipt # "READY"
       /\ \/ InPass \/ pc \in {"observe", "tick", "release", "released"}
          \/ Reporting /\ report.next = "tick"
  /\ pc = "observe" => after = "observe"
  /\ pc = "exit code" => receipt # "READY"
  /\ mem.state = "OBSERVING" => receipt # "READY"

\* Before the first crash memory and disk agree, and the four parts hold.
UncrashedInv ==
  crashes = 0 =>
    /\ pc # "down" /\ disk = mem
    /\ IncidentHeld /\ PublishHeld /\ MappedHeld /\ ObserveHeld

----
\* What the four parts speak of; the daemon and the world leave it alone.
receiptVars == <<disk, mem, receipt, first, pc, after, report>>

LEMMA QuietStep ==
  ASSUME \/ DaemonCreates
         \/ DaemonStarts
         \/ DaemonStops
         \/ StopClientEnds
         \/ DaemonRefuses
         \/ Boots
         \/ Exits
         \/ EndsByItself
         \/ KernelFault
         \/ Attest
         \/ RequestStop
         \/ Load
         \/ OwnedStopEnds
         \/ Signal
         \/ RetryStop
         \/ UNCHANGED vars
  PROVE  UNCHANGED receiptVars
<1>1. CASE DaemonCreates
  BY <1>1 DEF DaemonCreates, fileVars, procVars, monitorVars, worldVars, counters,
              receiptVars
<1>2. CASE DaemonStarts
  BY <1>2 DEF DaemonStarts, fileVars, procVars, monitorVars, worldVars, counters,
              receiptVars
<1>3. CASE DaemonStops
  BY <1>3 DEF DaemonStops, fileVars, procVars, monitorVars, worldVars, counters,
              receiptVars
<1>4. CASE StopClientEnds
  BY <1>4 DEF StopClientEnds, fileVars, procVars, monitorVars, worldVars, counters,
              receiptVars
<1>5. CASE DaemonRefuses
  BY <1>5 DEF DaemonRefuses, fileVars, procVars, monitorVars, worldVars, receiptVars
<1>6. CASE Boots
  BY <1>6 DEF Boots, fileVars, procVars, monitorVars, worldVars, counters, receiptVars
<1>7. CASE Exits
  BY <1>7 DEF Exits, fileVars, procVars, monitorVars, worldVars, counters, receiptVars
<1>8. CASE EndsByItself
  BY <1>8 DEF EndsByItself, fileVars, procVars, monitorVars, worldVars, receiptVars
<1>9. CASE KernelFault
  BY <1>9 DEF KernelFault, fileVars, procVars, monitorVars, dockerVars, counters,
              receiptVars
<1>10. CASE Attest
  BY <1>10 DEF Attest, procVars, monitorVars, dockerVars, worldVars, counters,
               receiptVars
<1>11. CASE RequestStop
  BY <1>11 DEF RequestStop, StopByHand, OwnedStop, procVars, monitorVars, dockerVars, worldVars, counters,
               receiptVars
<1>12. CASE Signal
  BY <1>12 DEF Signal, fileVars, monitorVars, dockerVars, worldVars, counters,
               receiptVars
<1>13. CASE RetryStop
  BY <1>13 DEF RetryStop, fileVars, procVars, monitorVars, counters, receiptVars
<1>14. CASE Load \/ OwnedStopEnds
  BY <1>14 DEF Load, OwnedStopEnds, fileVars, procVars, monitorVars, receiptVars
<1>15. CASE UNCHANGED vars
  BY <1>15 DEF vars, fileVars, procVars, monitorVars, receiptVars
<1>. QED
  BY <1>1, <1>2, <1>3, <1>4, <1>5, <1>6, <1>7, <1>8, <1>9, <1>10, <1>11, <1>12, <1>13,
     <1>14, <1>15

LEMMA MarkWrites ==
  ASSUME IntentsOK, ReportOK, Mark
  PROVE  /\ pc = "mark" /\ pc' = report.next
         /\ mem'.failure = mem.failure /\ mem'.counted = mem.counted
         /\ mem'.mapped = mem.mapped /\ mem'.published = mem.published
         /\ mem'.state \in {mem.state, "OTHER"}
         /\ UNCHANGED <<receipt, first, after, report>>
<1>1. pc = "mark" /\ pc' = report.next /\ UNCHANGED <<receipt, first, after, report>>
  BY DEF Mark, Goto, fileVars, procVars, monitorVars
<1>2. \/ mem' = mem \/ mem' = [mem EXCEPT !.state = "OTHER"]
      \/ mem' = [mem EXCEPT !.exitRecorded = TRUE] \/ mem' = [mem EXCEPT !.deadline = TRUE]
  BY DEF Mark, Persist, ReportOK, Marks
<1>. QED
  BY <1>1, <1>2 DEF IntentsOK, Intents

LEMMA CrashesKept ==
  ASSUME [Next]_vars, ~ Crash
  PROVE  crashes' = crashes
<1>1. CASE RecordFirst \/ RevokeReceipt \/ Mark \/ BeginStopped \/ Begin
           \/ DispatchCreate \/ Tick \/ ReadJournal \/ AdvanceCursor \/ ChannelsClear
           \/ Monitored
  BY <1>1
     DEF RecordFirst, RevokeReceipt, Mark, BeginStopped, Begin,
         DispatchCreate, Tick, ReadJournal, AdvanceCursor, ChannelsClear,
         Monitored, counters
<1>2. CASE MonitorRaises \/ ObserveRunning \/ IntendStart \/ DispatchStart \/ DecideExit
           \/ StartUncertain \/ NothingToPublish \/ ValidateMapping \/ RecordMapping
           \/ MappingRejected \/ MappingBlocked
  BY <1>2
     DEF MonitorRaises, ObserveRunning, IntendStart, DispatchStart,
         DecideExit, StartUncertain, NothingToPublish, ValidateMapping,
         RecordMapping, MappingRejected, MappingBlocked, TickRaises, counters
<1>3. CASE AnnounceReady \/ WithdrawMapping \/ ReadyStands \/ ReadyBlocked \/ Unready
           \/ NoStopDue \/ IntendStop \/ WithdrawReceipt \/ DispatchStop
           \/ ForgetMapping \/ RevokeAtExit
  BY <1>3
     DEF AnnounceReady, WithdrawMapping, ReadyStands, ReadyBlocked, Unready,
         NoStopDue, IntendStop, WithdrawReceipt, DispatchStop, ForgetMapping,
         RevokeAtExit, counters
<1>4. CASE NothingMapped \/ CheckExitCode \/ HardwareLatched \/ CleanSample \/ Release
           \/ CreateRaises \/ InspectFails \/ JournalFails \/ ChannelFails
           \/ HardwareDiffers \/ ContainerLogsError
  BY <1>4
     DEF NothingMapped, CheckExitCode, HardwareLatched, CleanSample, Release,
         CreateRaises, InspectFails, JournalFails, ChannelFails,
         HardwareDiffers, ContainerLogsError, counters, Trouble, TickRaises
<1>5. CASE StartRaises \/ StopRaises \/ StopOverdue \/ NotIdle \/ Settling
           \/ DaemonCreates \/ DaemonStarts \/ DaemonStops \/ StopClientEnds
           \/ DaemonRefuses \/ Boots
  BY <1>5
     DEF StartRaises, StopRaises, StopOverdue, NotIdle, Settling,
         DaemonCreates, DaemonStarts, DaemonStops, StopClientEnds,
         DaemonRefuses, Boots, Trouble, TickRaises, counters
<1>6. CASE Exits \/ EndsByItself \/ KernelFault \/ Attest \/ RequestStop \/ Signal
           \/ Load \/ RetryStop \/ OwnedStopEnds \/ Resume
  BY <1>6
     DEF Exits, EndsByItself, KernelFault, Attest, RequestStop, StopByHand, OwnedStop, Signal,
         Load, RetryStop, OwnedStopEnds, Resume, counters, Trouble
<1>7. CASE UNCHANGED vars
  BY <1>7 DEF vars, counters
<1>. QED
  BY <1>1, <1>2, <1>3, <1>4, <1>5, <1>6, <1>7
     DEF Next, SupervisorStep, TroubleStep, DaemonStep, WorldStep

\* As long as the process lives, what is in memory is on disk.
LEMMA DurableStep ==
  ASSUME disk = mem, ReportInv, ProcessOK, pc # "down", ~ Crash, [Next]_vars
  PROVE  disk' = mem' /\ pc' # "down"
<1>1. CASE UNCHANGED receiptVars
  BY <1>1 DEF receiptVars
<1>2. CASE RecordFirst
  BY <1>2 DEF RecordFirst, Goto
<1>3. CASE RevokeReceipt
  BY <1>3 DEF RevokeReceipt, Goto
<1>4. CASE Mark
  BY <1>4, ReportInv DEF Mark, Goto, Persist, ReportInv
<1>5. CASE BeginStopped
  BY <1>5 DEF BeginStopped, Goto, Persist
<1>6. CASE Begin
  BY <1>6 DEF Begin, Goto, Persist
<1>7. CASE DispatchCreate
  BY <1>7 DEF DispatchCreate, Goto
<1>8. CASE Tick
  <2>1. pc' \in {"kernel", "decide"}
    BY <1>8 DEF Tick
  <2>2. \/ Persist([Polled EXCEPT !.state = "OTHER"])
        \/ Persist([Polled EXCEPT !.known = TRUE])
    BY <1>8 DEF Tick
  <2>. QED
    BY <2>1, <2>2 DEF Persist
<1>9. CASE ReadJournal
  BY <1>9 DEF ReadJournal, Incident, Persist
<1>10. CASE AdvanceCursor
  BY <1>10 DEF AdvanceCursor, Goto, Persist
<1>11. CASE ChannelsClear
  BY <1>11 DEF ChannelsClear, Goto
<1>12. CASE Monitored
  BY <1>12, ProcessOK DEF Monitored, Goto, ProcessOK
<1>13. CASE MonitorRaises
  BY <1>13 DEF MonitorRaises, TickRaises, Incident, Persist
<1>14. CASE ObserveRunning
  BY <1>14 DEF ObserveRunning, Goto, Persist
<1>15. CASE IntendStart
  BY <1>15 DEF IntendStart, Goto, Persist
<1>16. CASE DispatchStart
  BY <1>16 DEF DispatchStart, Goto
<1>17. CASE DecideExit
  BY <1>17 DEF DecideExit, Goto
<1>18. CASE StartUncertain
  BY <1>18 DEF StartUncertain, Goto, Persist
<1>19. CASE NothingToPublish
  BY <1>19 DEF NothingToPublish, Goto
<1>20. CASE ValidateMapping
  BY <1>20 DEF ValidateMapping, Goto
<1>21. CASE RecordMapping
  BY <1>21 DEF RecordMapping, Goto, Persist
<1>22. CASE MappingRejected
  BY <1>22 DEF MappingRejected, Incident, Persist
<1>23. CASE MappingBlocked
  BY <1>23 DEF MappingBlocked, Goto
<1>24. CASE AnnounceReady
  BY <1>24 DEF AnnounceReady, Goto
<1>25. CASE WithdrawMapping
  BY <1>25 DEF WithdrawMapping, Goto, Persist
<1>26. CASE ReadyStands
  BY <1>26 DEF ReadyStands, Goto
<1>27. CASE ReadyBlocked
  BY <1>27 DEF ReadyBlocked, Goto, Persist
<1>28. CASE Unready
  BY <1>28 DEF Unready, Goto
<1>29. CASE NoStopDue
  BY <1>29 DEF NoStopDue, Goto
<1>30. CASE IntendStop
  BY <1>30 DEF IntendStop, Goto, Persist
<1>31. CASE WithdrawReceipt
  BY <1>31 DEF WithdrawReceipt, Goto
<1>32. CASE DispatchStop
  BY <1>32 DEF DispatchStop, Goto
<1>33. CASE ForgetMapping
  BY <1>33 DEF ForgetMapping, Goto, Persist
<1>34. CASE RevokeAtExit
  BY <1>34 DEF RevokeAtExit, Goto
<1>35. CASE NothingMapped
  BY <1>35 DEF NothingMapped, Goto
<1>36. CASE CheckExitCode
  BY <1>36 DEF CheckExitCode, Incident, Persist
<1>37. CASE HardwareLatched
  BY <1>37 DEF HardwareLatched, Goto, Persist
<1>38. CASE CleanSample
  BY <1>38 DEF CleanSample, Persist
<1>39. CASE Release
  BY <1>39 DEF Release, Goto
<1>40. CASE CreateRaises
  BY <1>40 DEF CreateRaises, Goto
<1>41. CASE InspectFails
  BY <1>41 DEF InspectFails, TickRaises, Incident, Persist
<1>42. CASE JournalFails
  BY <1>42 DEF JournalFails, Goto
<1>43. CASE ChannelFails
  BY <1>43 DEF ChannelFails, Goto
<1>44. CASE HardwareDiffers
  BY <1>44 DEF HardwareDiffers, Incident, Persist
<1>45. CASE ContainerLogsError
  BY <1>45 DEF ContainerLogsError, Incident, Persist
<1>46. CASE StartRaises
  BY <1>46 DEF StartRaises, TickRaises, Incident, Persist
<1>47. CASE StopRaises
  BY <1>47 DEF StopRaises, TickRaises, Incident, Persist
<1>48. CASE StopOverdue
  BY <1>48 DEF StopOverdue, Incident, Persist
<1>49. CASE NotIdle
  BY <1>49 DEF NotIdle, Incident, Persist
<1>50. CASE Settling
  BY <1>50 DEF Settling, Goto, Persist
<1>51. ~ Resume
  BY DEF Resume, Goto
<1>. QED
  BY QuietStep, <1>1, <1>2, <1>3, <1>4, <1>5, <1>6, <1>7, <1>8, <1>9, <1>10, <1>11,
                <1>12, <1>13, <1>14, <1>15, <1>16, <1>17, <1>18, <1>19, <1>20, <1>21,
                <1>22, <1>23, <1>24, <1>25, <1>26, <1>27, <1>28, <1>29, <1>30, <1>31,
                <1>32, <1>33, <1>34, <1>35, <1>36, <1>37, <1>38, <1>39, <1>40, <1>41,
                <1>42, <1>43, <1>44, <1>45, <1>46, <1>47, <1>48, <1>49, <1>50, <1>51
     DEF Next, SupervisorStep, TroubleStep, DaemonStep, WorldStep

\* An incident finds READY only if none of its kind came before, and then revokes it.
LEMMA IncidentStep ==
  ASSUME IntentsOK, ReportOK, ReportInv, ProcessOK, IncidentHeld, pc # "down", ~ Crash,
         [Next]_vars
  PROVE  IncidentHeld'
<1>1. CASE UNCHANGED receiptVars
  BY <1>1, IncidentHeld DEF receiptVars, IncidentHeld, InIncident
<1>2. CASE RecordFirst
  BY <1>2, IncidentHeld
     DEF RecordFirst, Goto, procVars, monitorVars, IncidentHeld, InIncident
<1>3. CASE RevokeReceipt
  BY <1>3, IncidentHeld
     DEF RevokeReceipt, Goto, procVars, monitorVars, IncidentHeld, InIncident
<1>4. CASE Mark
  BY <1>4, MarkWrites, IncidentHeld, IntentsOK, ReportOK, ReportInv
     DEF fileVars, IncidentHeld, InIncident, ReportInv
<1>5. CASE BeginStopped
  BY <1>5, IncidentHeld, IntentsOK
     DEF BeginStopped, Goto, Persist, fileVars, procVars, monitorVars, IncidentHeld,
         InIncident, IntentsOK, Intents
<1>6. CASE Begin
  BY <1>6, IncidentHeld, IntentsOK
     DEF Begin, Goto, Persist, fileVars, procVars, monitorVars, IncidentHeld,
         InIncident, IntentsOK, Intents
<1>7. CASE DispatchCreate
  BY <1>7, IncidentHeld
     DEF DispatchCreate, Goto, fileVars, procVars, monitorVars, IncidentHeld, InIncident
<1>8. CASE Tick
  <2>1. pc = "tick" /\ receipt' \in {receipt, "UNQUALIFIED"} /\ UNCHANGED <<first, report>>
    BY <1>8 DEF Tick, Goto
  <2>2. CASE Persist([Polled EXCEPT !.state = "OTHER"]) /\ pc' = "kernel" /\ after' = "tick"
    BY <2>1, <2>2, IncidentHeld, IntentsOK
       DEF Persist, Polled, fileVars, IncidentHeld, InIncident, IntentsOK, Intents
  <2>3. CASE /\ Persist([Polled EXCEPT !.known = TRUE]) /\ after' = "decide"
             /\ pc' \in {"decide", "kernel"}
    BY <2>1, <2>3, IncidentHeld, IntentsOK
       DEF Persist, Polled, fileVars, IncidentHeld, InIncident, IntentsOK, Intents
  <2>. QED
    BY <1>8, <2>2, <2>3 DEF Tick
<1>9. CASE ReadJournal
  <2>1. pc = "kernel" /\ UNCHANGED <<fileVars, after>>
    BY <1>9 DEF ReadJournal, Goto
  <2>2. CASE Incident("kernel fault", TRUE, mem, "none", "cursor")
    BY <2>1, <2>2, IncidentHeld, IntentsOK
       DEF Incident, Persist, fileVars, IncidentHeld, InIncident, IntentsOK, Intents
  <2>3. CASE pc' = "cursor" /\ UNCHANGED <<mem, report>>
    BY <2>1, <2>3, IncidentHeld, IntentsOK
       DEF fileVars, IncidentHeld, InIncident, IntentsOK, Intents
  <2>. QED
    BY <1>9, <2>2, <2>3 DEF ReadJournal
<1>10. CASE AdvanceCursor
  BY <1>10, IncidentHeld, IntentsOK
     DEF AdvanceCursor, Goto, Persist, fileVars, procVars, monitorVars, IncidentHeld,
         InIncident, IntentsOK, Intents
<1>11. CASE ChannelsClear
  BY <1>11, IncidentHeld
     DEF ChannelsClear, Goto, fileVars, procVars, monitorVars, IncidentHeld, InIncident
<1>12. CASE Monitored
  BY <1>12, IncidentHeld, ProcessOK
     DEF Monitored, Goto, fileVars, procVars, monitorVars, IncidentHeld, InIncident,
         ProcessOK
<1>13. CASE MonitorRaises
  <2>1. pc = "monitored" /\ UNCHANGED <<fileVars, after>>
    BY <1>13 DEF MonitorRaises, Goto
  <2>2. CASE after = "tick" /\ TickRaises(mem)
    BY <2>1, <2>2, IncidentHeld, IntentsOK
       DEF TickRaises, Incident, Persist, fileVars, IncidentHeld, InIncident,
           IntentsOK, Intents
  <2>3. CASE after = "decide" /\ Incident("monitor", FALSE, mem, "none", "decide")
    BY <2>1, <2>3, IncidentHeld, IntentsOK
       DEF Incident, Persist, fileVars, IncidentHeld, InIncident, IntentsOK, Intents
  <2>4. CASE after = "fresh" /\ Incident("mapping", FALSE, mem, "none", "stop")
    BY <2>1, <2>4, IncidentHeld, IntentsOK
       DEF Incident, Persist, fileVars, IncidentHeld, InIncident, IntentsOK, Intents
  <2>5. CASE after = "observe" /\ Incident("post-exit", FALSE, mem, "quarantine", "tick")
    BY <2>1, <2>5, IncidentHeld, IntentsOK
       DEF Incident, Persist, fileVars, IncidentHeld, InIncident, IntentsOK, Intents
  <2>. QED
    BY <1>13, <2>2, <2>3, <2>4, <2>5 DEF MonitorRaises
<1>14. CASE ObserveRunning
  BY <1>14, IncidentHeld, IntentsOK
     DEF ObserveRunning, Goto, Persist, procVars, monitorVars, IncidentHeld,
         InIncident, IntentsOK, Intents
<1>15. CASE IntendStart
  BY <1>15, IncidentHeld, IntentsOK
     DEF IntendStart, Goto, Persist, fileVars, procVars, monitorVars, IncidentHeld,
         InIncident, IntentsOK, Intents
<1>16. CASE DispatchStart
  BY <1>16, IncidentHeld
     DEF DispatchStart, Goto, fileVars, procVars, monitorVars, IncidentHeld, InIncident
<1>17. CASE DecideExit
  BY <1>17, IncidentHeld
     DEF DecideExit, Goto, fileVars, procVars, monitorVars, IncidentHeld, InIncident
<1>18. CASE StartUncertain
  BY <1>18, IncidentHeld, IntentsOK
     DEF StartUncertain, Goto, Persist, fileVars, procVars, monitorVars, IncidentHeld,
         InIncident, IntentsOK, Intents
<1>19. CASE NothingToPublish
  BY <1>19, IncidentHeld
     DEF NothingToPublish, Goto, PollStop, fileVars, monitorVars, IncidentHeld,
         InIncident
<1>20. CASE ValidateMapping
  BY <1>20, IncidentHeld
     DEF ValidateMapping, Blocked, Goto, fileVars, IncidentHeld, InIncident
<1>21. CASE RecordMapping
  BY <1>21, IncidentHeld, IntentsOK
     DEF RecordMapping, Blocked, Goto, Persist, fileVars, procVars, monitorVars,
         IncidentHeld, InIncident, IntentsOK, Intents
<1>22. CASE MappingRejected
  BY <1>22, IncidentHeld, IntentsOK
     DEF MappingRejected, Running, Incident, Persist, fileVars, IncidentHeld,
         InIncident, IntentsOK, Intents
<1>23. CASE MappingBlocked
  BY <1>23, IncidentHeld
     DEF MappingBlocked, Goto, PollStop, fileVars, monitorVars, IncidentHeld, InIncident
<1>24. CASE AnnounceReady
  BY <1>24, IncidentHeld
     DEF AnnounceReady, Blocked, Goto, procVars, monitorVars, IncidentHeld, InIncident
<1>25. CASE WithdrawMapping
  BY <1>25, IncidentHeld, IntentsOK
     DEF WithdrawMapping, Goto, PollStop, Persist, fileVars, monitorVars, IncidentHeld,
         InIncident, IntentsOK, Intents
<1>26. CASE ReadyStands
  BY <1>26, IncidentHeld
     DEF ReadyStands, Goto, fileVars, procVars, monitorVars, IncidentHeld, InIncident
<1>27. CASE ReadyBlocked
  BY <1>27, IncidentHeld, IntentsOK
     DEF ReadyBlocked, Goto, PollStop, Persist, fileVars, monitorVars, IncidentHeld,
         InIncident, IntentsOK, Intents
<1>28. CASE Unready
  BY <1>28, IncidentHeld
     DEF Unready, Goto, procVars, monitorVars, IncidentHeld, InIncident
<1>29. CASE NoStopDue
  BY <1>29, IncidentHeld
     DEF NoStopDue, Goto, fileVars, procVars, monitorVars, IncidentHeld, InIncident
<1>30. CASE IntendStop
  BY <1>30, IncidentHeld, IntentsOK
     DEF IntendStop, StopDue, Goto, Persist, fileVars, procVars, monitorVars,
         IncidentHeld, InIncident, IntentsOK, Intents
<1>31. CASE WithdrawReceipt
  BY <1>31, IncidentHeld
     DEF WithdrawReceipt, Goto, procVars, monitorVars, IncidentHeld, InIncident
<1>32. CASE DispatchStop
  BY <1>32, IncidentHeld
     DEF DispatchStop, Goto, fileVars, procVars, monitorVars, IncidentHeld, InIncident
<1>33. CASE ForgetMapping
  BY <1>33, IncidentHeld, IntentsOK
     DEF ForgetMapping, Goto, Persist, fileVars, procVars, monitorVars, IncidentHeld,
         InIncident, IntentsOK, Intents
<1>34. CASE RevokeAtExit
  BY <1>34, IncidentHeld
     DEF RevokeAtExit, Goto, procVars, monitorVars, IncidentHeld, InIncident
<1>35. CASE NothingMapped
  BY <1>35, IncidentHeld
     DEF NothingMapped, Goto, fileVars, procVars, monitorVars, IncidentHeld, InIncident
<1>36. CASE CheckExitCode
  <2>1. pc = "exit code" /\ after' = "observe" /\ UNCHANGED fileVars
    BY <1>36 DEF CheckExitCode, Goto
  <2>2. CASE Incident("exit code", FALSE, mem, "exit code", "kernel")
    BY <2>1, <2>2, IncidentHeld, IntentsOK
       DEF Incident, Persist, fileVars, IncidentHeld, InIncident, IntentsOK, Intents
  <2>3. CASE pc' = "kernel" /\ UNCHANGED <<mem, report>>
    BY <2>1, <2>3, IncidentHeld, IntentsOK
       DEF fileVars, IncidentHeld, InIncident, IntentsOK, Intents
  <2>. QED
    BY <1>36, <2>2, <2>3 DEF CheckExitCode
<1>37. CASE HardwareLatched
  BY <1>37, IncidentHeld, IntentsOK
     DEF HardwareLatched, Goto, Persist, fileVars, procVars, monitorVars, IncidentHeld,
         InIncident, IntentsOK, Intents
<1>38. CASE CleanSample
  <2>1. pc = "observe" /\ UNCHANGED <<fileVars, monitorVars>>
    BY <1>38 DEF CleanSample, Goto
  <2>2. CASE pc' = "release" /\ Persist([mem EXCEPT !.state = "OTHER", !.cleanup = TRUE])
    BY <2>1, <2>2, IncidentHeld, IntentsOK
       DEF Persist, monitorVars, fileVars, IncidentHeld, InIncident, IntentsOK, Intents
  <2>3. CASE pc' = "tick" /\ Persist([mem EXCEPT !.state = "OBSERVING"])
    BY <2>1, <2>3, IncidentHeld, IntentsOK
       DEF Persist, monitorVars, fileVars, IncidentHeld, InIncident, IntentsOK, Intents
  <2>. QED
    BY <1>38, <2>2, <2>3 DEF CleanSample
<1>39. CASE Release
  BY <1>39, IncidentHeld
     DEF Release, Goto, procVars, monitorVars, IncidentHeld, InIncident
<1>40. CASE CreateRaises
  BY <1>40, IncidentHeld
     DEF CreateRaises, Goto, Trouble, fileVars, monitorVars, IncidentHeld, InIncident
<1>41. CASE InspectFails
  BY <1>41, IncidentHeld, IntentsOK
     DEF InspectFails, Trouble, TickRaises, Incident, Persist, Polled, fileVars,
         IncidentHeld, InIncident, IntentsOK, Intents
<1>42. CASE JournalFails
  BY <1>42, IncidentHeld
     DEF JournalFails, Goto, Trouble, fileVars, IncidentHeld, InIncident
<1>43. CASE ChannelFails
  BY <1>43, IncidentHeld
     DEF ChannelFails, Goto, Trouble, fileVars, IncidentHeld, InIncident
<1>44. CASE HardwareDiffers
  BY <1>44, IncidentHeld, IntentsOK
     DEF HardwareDiffers, Trouble, Incident, Persist, fileVars, IncidentHeld,
         InIncident, IntentsOK, Intents
<1>45. CASE ContainerLogsError
  BY <1>45, IncidentHeld, IntentsOK
     DEF ContainerLogsError, Trouble, Incident, Persist, fileVars, IncidentHeld,
         InIncident, IntentsOK, Intents
<1>46. CASE StartRaises
  BY <1>46, IncidentHeld, IntentsOK
     DEF StartRaises, Trouble, TickRaises, Incident, Persist, fileVars, IncidentHeld,
         InIncident, IntentsOK, Intents
<1>47. CASE StopRaises
  BY <1>47, IncidentHeld, IntentsOK
     DEF StopRaises, Trouble, TickRaises, Incident, Persist, fileVars, IncidentHeld,
         InIncident, IntentsOK, Intents
<1>48. CASE StopOverdue
  BY <1>48, IncidentHeld, IntentsOK
     DEF StopOverdue, Incident, Persist, fileVars, IncidentHeld, InIncident, IntentsOK,
         Intents
<1>49. CASE NotIdle
  BY <1>49, IncidentHeld, IntentsOK
     DEF NotIdle, Trouble, Incident, Persist, fileVars, IncidentHeld, InIncident,
         IntentsOK, Intents
<1>50. CASE Settling
  BY <1>50, IncidentHeld, IntentsOK
     DEF Settling, Goto, Trouble, Persist, fileVars, monitorVars, IncidentHeld,
         InIncident, IntentsOK, Intents
<1>51. ~ Resume
  BY DEF Resume, Goto
<1>. QED
  BY QuietStep, <1>1, <1>2, <1>3, <1>4, <1>5, <1>6, <1>7, <1>8, <1>9, <1>10, <1>11,
                <1>12, <1>13, <1>14, <1>15, <1>16, <1>17, <1>18, <1>19, <1>20, <1>21,
                <1>22, <1>23, <1>24, <1>25, <1>26, <1>27, <1>28, <1>29, <1>30, <1>31,
                <1>32, <1>33, <1>34, <1>35, <1>36, <1>37, <1>38, <1>39, <1>40, <1>41,
                <1>42, <1>43, <1>44, <1>45, <1>46, <1>47, <1>48, <1>49, <1>50, <1>51
     DEF Next, SupervisorStep, TroubleStep, DaemonStep, WorldStep

\* READY is written once, by AnnounceReady, from the place that follows RecordMapping.
LEMMA PublishStep ==
  ASSUME IntentsOK, ReportOK, ReportInv, ProcessOK, PublishHeld, pc # "down", ~ Crash,
         [Next]_vars
  PROVE  PublishHeld'
<1>1. CASE UNCHANGED receiptVars
  BY <1>1, PublishHeld DEF receiptVars, PublishHeld, InPass, Reporting
<1>2. CASE RecordFirst
  BY <1>2, PublishHeld
     DEF RecordFirst, Goto, procVars, monitorVars, PublishHeld, InPass, Reporting
<1>3. CASE RevokeReceipt
  BY <1>3, PublishHeld
     DEF RevokeReceipt, Goto, procVars, monitorVars, PublishHeld, InPass, Reporting
<1>4. CASE Mark
  BY <1>4, MarkWrites, PublishHeld, IntentsOK, ReportOK, ReportInv
     DEF fileVars, PublishHeld, InPass, Reporting, ReportInv
<1>5. CASE BeginStopped
  BY <1>5, PublishHeld, IntentsOK
     DEF BeginStopped, Goto, Persist, fileVars, procVars, monitorVars, PublishHeld,
         InPass, Reporting, IntentsOK, Intents
<1>6. CASE Begin
  BY <1>6, PublishHeld, IntentsOK
     DEF Begin, Goto, Persist, fileVars, procVars, monitorVars, PublishHeld, InPass,
         Reporting, IntentsOK, Intents
<1>7. CASE DispatchCreate
  BY <1>7, PublishHeld
     DEF DispatchCreate, Goto, fileVars, procVars, monitorVars, PublishHeld, InPass,
         Reporting
<1>8. CASE Tick
  <2>1. pc = "tick" /\ receipt' \in {receipt, "UNQUALIFIED"} /\ UNCHANGED <<first, report>>
    BY <1>8 DEF Tick, Goto
  <2>2. CASE Persist([Polled EXCEPT !.state = "OTHER"]) /\ pc' = "kernel" /\ after' = "tick"
    BY <2>1, <2>2, PublishHeld, IntentsOK
       DEF Persist, Polled, fileVars, PublishHeld, InPass, Reporting, IntentsOK, Intents
  <2>3. CASE /\ Persist([Polled EXCEPT !.known = TRUE]) /\ after' = "decide"
             /\ pc' \in {"decide", "kernel"}
    BY <2>1, <2>3, PublishHeld, IntentsOK
       DEF Persist, Polled, fileVars, PublishHeld, InPass, Reporting, IntentsOK, Intents
  <2>. QED
    BY <1>8, <2>2, <2>3 DEF Tick
<1>9. CASE ReadJournal
  <2>1. pc = "kernel" /\ UNCHANGED <<fileVars, after>>
    BY <1>9 DEF ReadJournal, Goto
  <2>2. CASE Incident("kernel fault", TRUE, mem, "none", "cursor")
    BY <2>1, <2>2, PublishHeld, IntentsOK
       DEF Incident, Persist, fileVars, PublishHeld, InPass, Reporting, IntentsOK,
           Intents
  <2>3. CASE pc' = "cursor" /\ UNCHANGED <<mem, report>>
    BY <2>1, <2>3, PublishHeld, IntentsOK
       DEF fileVars, PublishHeld, InPass, Reporting, IntentsOK, Intents
  <2>. QED
    BY <1>9, <2>2, <2>3 DEF ReadJournal
<1>10. CASE AdvanceCursor
  BY <1>10, PublishHeld, IntentsOK
     DEF AdvanceCursor, Goto, Persist, fileVars, procVars, monitorVars, PublishHeld,
         InPass, Reporting, IntentsOK, Intents
<1>11. CASE ChannelsClear
  BY <1>11, PublishHeld
     DEF ChannelsClear, Goto, fileVars, procVars, monitorVars, PublishHeld, InPass,
         Reporting
<1>12. CASE Monitored
  BY <1>12, PublishHeld, ProcessOK
     DEF Monitored, Goto, fileVars, procVars, monitorVars, PublishHeld, InPass,
         Reporting, ProcessOK
<1>13. CASE MonitorRaises
  <2>1. pc = "monitored" /\ UNCHANGED <<fileVars, after>>
    BY <1>13 DEF MonitorRaises, Goto
  <2>2. CASE after = "tick" /\ TickRaises(mem)
    BY <2>1, <2>2, PublishHeld, IntentsOK
       DEF TickRaises, Incident, Persist, fileVars, PublishHeld, InPass, Reporting,
           IntentsOK, Intents
  <2>3. CASE after = "decide" /\ Incident("monitor", FALSE, mem, "none", "decide")
    BY <2>1, <2>3, PublishHeld, IntentsOK
       DEF Incident, Persist, fileVars, PublishHeld, InPass, Reporting, IntentsOK,
           Intents
  <2>4. CASE after = "fresh" /\ Incident("mapping", FALSE, mem, "none", "stop")
    BY <2>1, <2>4, PublishHeld, IntentsOK
       DEF Incident, Persist, fileVars, PublishHeld, InPass, Reporting, IntentsOK,
           Intents
  <2>5. CASE after = "observe" /\ Incident("post-exit", FALSE, mem, "quarantine", "tick")
    BY <2>1, <2>5, PublishHeld, IntentsOK
       DEF Incident, Persist, fileVars, PublishHeld, InPass, Reporting, IntentsOK,
           Intents
  <2>. QED
    BY <1>13, <2>2, <2>3, <2>4, <2>5 DEF MonitorRaises
<1>14. CASE ObserveRunning
  BY <1>14, PublishHeld, IntentsOK
     DEF ObserveRunning, Goto, Persist, procVars, monitorVars, PublishHeld, InPass,
         Reporting, IntentsOK, Intents
<1>15. CASE IntendStart
  BY <1>15, PublishHeld, IntentsOK
     DEF IntendStart, Goto, Persist, fileVars, procVars, monitorVars, PublishHeld,
         InPass, Reporting, IntentsOK, Intents
<1>16. CASE DispatchStart
  BY <1>16, PublishHeld
     DEF DispatchStart, Goto, fileVars, procVars, monitorVars, PublishHeld, InPass,
         Reporting
<1>17. CASE DecideExit
  BY <1>17, PublishHeld
     DEF DecideExit, Goto, fileVars, procVars, monitorVars, PublishHeld, InPass,
         Reporting
<1>18. CASE StartUncertain
  BY <1>18, PublishHeld, IntentsOK
     DEF StartUncertain, Goto, Persist, fileVars, procVars, monitorVars, PublishHeld,
         InPass, Reporting, IntentsOK, Intents
<1>19. CASE NothingToPublish
  BY <1>19, PublishHeld
     DEF NothingToPublish, Goto, PollStop, fileVars, monitorVars, PublishHeld, InPass,
         Reporting
<1>20. CASE ValidateMapping
  BY <1>20, PublishHeld
     DEF ValidateMapping, Blocked, Goto, fileVars, PublishHeld, InPass, Reporting
<1>21. CASE RecordMapping
  BY <1>21, PublishHeld, IntentsOK
     DEF RecordMapping, Blocked, Goto, Persist, fileVars, procVars, monitorVars,
         PublishHeld, InPass, Reporting, IntentsOK, Intents
<1>22. CASE MappingRejected
  BY <1>22, PublishHeld, IntentsOK
     DEF MappingRejected, Running, Incident, Persist, fileVars, PublishHeld, InPass,
         Reporting, IntentsOK, Intents
<1>23. CASE MappingBlocked
  BY <1>23, PublishHeld
     DEF MappingBlocked, Goto, PollStop, fileVars, monitorVars, PublishHeld, InPass,
         Reporting
<1>24. CASE AnnounceReady
  BY <1>24, PublishHeld
     DEF AnnounceReady, Blocked, Goto, procVars, monitorVars, PublishHeld, InPass,
         Reporting
<1>25. CASE WithdrawMapping
  BY <1>25, PublishHeld, IntentsOK
     DEF WithdrawMapping, Goto, PollStop, Persist, fileVars, monitorVars, PublishHeld,
         InPass, Reporting, IntentsOK, Intents
<1>26. CASE ReadyStands
  BY <1>26, PublishHeld
     DEF ReadyStands, Goto, fileVars, procVars, monitorVars, PublishHeld, InPass,
         Reporting
<1>27. CASE ReadyBlocked
  BY <1>27, PublishHeld, IntentsOK
     DEF ReadyBlocked, Goto, PollStop, Persist, fileVars, monitorVars, PublishHeld,
         InPass, Reporting, IntentsOK, Intents
<1>28. CASE Unready
  BY <1>28, PublishHeld
     DEF Unready, Goto, procVars, monitorVars, PublishHeld, InPass, Reporting
<1>29. CASE NoStopDue
  BY <1>29, PublishHeld
     DEF NoStopDue, Goto, fileVars, procVars, monitorVars, PublishHeld, InPass,
         Reporting
<1>30. CASE IntendStop
  BY <1>30, PublishHeld, IntentsOK
     DEF IntendStop, StopDue, Goto, Persist, fileVars, procVars, monitorVars,
         PublishHeld, InPass, Reporting, IntentsOK, Intents
<1>31. CASE WithdrawReceipt
  BY <1>31, PublishHeld
     DEF WithdrawReceipt, Goto, procVars, monitorVars, PublishHeld, InPass, Reporting
<1>32. CASE DispatchStop
  BY <1>32, PublishHeld
     DEF DispatchStop, Goto, fileVars, procVars, monitorVars, PublishHeld, InPass,
         Reporting
<1>33. CASE ForgetMapping
  BY <1>33, PublishHeld, IntentsOK
     DEF ForgetMapping, Goto, Persist, fileVars, procVars, monitorVars, PublishHeld,
         InPass, Reporting, IntentsOK, Intents
<1>34. CASE RevokeAtExit
  BY <1>34, PublishHeld
     DEF RevokeAtExit, Goto, procVars, monitorVars, PublishHeld, InPass, Reporting
<1>35. CASE NothingMapped
  BY <1>35, PublishHeld
     DEF NothingMapped, Goto, fileVars, procVars, monitorVars, PublishHeld, InPass,
         Reporting
<1>36. CASE CheckExitCode
  <2>1. pc = "exit code" /\ after' = "observe" /\ UNCHANGED fileVars
    BY <1>36 DEF CheckExitCode, Goto
  <2>2. CASE Incident("exit code", FALSE, mem, "exit code", "kernel")
    BY <2>1, <2>2, PublishHeld, IntentsOK
       DEF Incident, Persist, fileVars, PublishHeld, InPass, Reporting, IntentsOK,
           Intents
  <2>3. CASE pc' = "kernel" /\ UNCHANGED <<mem, report>>
    BY <2>1, <2>3, PublishHeld, IntentsOK
       DEF fileVars, PublishHeld, InPass, Reporting, IntentsOK, Intents
  <2>. QED
    BY <1>36, <2>2, <2>3 DEF CheckExitCode
<1>37. CASE HardwareLatched
  BY <1>37, PublishHeld, IntentsOK
     DEF HardwareLatched, Goto, Persist, fileVars, procVars, monitorVars, PublishHeld,
         InPass, Reporting, IntentsOK, Intents
<1>38. CASE CleanSample
  <2>1. pc = "observe" /\ UNCHANGED <<fileVars, monitorVars>>
    BY <1>38 DEF CleanSample, Goto
  <2>2. CASE pc' = "release" /\ Persist([mem EXCEPT !.state = "OTHER", !.cleanup = TRUE])
    BY <2>1, <2>2, PublishHeld, IntentsOK
       DEF Persist, monitorVars, fileVars, PublishHeld, InPass, Reporting, IntentsOK,
           Intents
  <2>3. CASE pc' = "tick" /\ Persist([mem EXCEPT !.state = "OBSERVING"])
    BY <2>1, <2>3, PublishHeld, IntentsOK
       DEF Persist, monitorVars, fileVars, PublishHeld, InPass, Reporting, IntentsOK,
           Intents
  <2>. QED
    BY <1>38, <2>2, <2>3 DEF CleanSample
<1>39. CASE Release
  BY <1>39, PublishHeld
     DEF Release, Goto, procVars, monitorVars, PublishHeld, InPass, Reporting
<1>40. CASE CreateRaises
  BY <1>40, PublishHeld
     DEF CreateRaises, Goto, Trouble, fileVars, monitorVars, PublishHeld, InPass,
         Reporting
<1>41. CASE InspectFails
  BY <1>41, PublishHeld, IntentsOK
     DEF InspectFails, Trouble, TickRaises, Incident, Persist, Polled, fileVars,
         PublishHeld, InPass, Reporting, IntentsOK, Intents
<1>42. CASE JournalFails
  BY <1>42, PublishHeld
     DEF JournalFails, Goto, Trouble, fileVars, PublishHeld, InPass, Reporting
<1>43. CASE ChannelFails
  BY <1>43, PublishHeld
     DEF ChannelFails, Goto, Trouble, fileVars, PublishHeld, InPass, Reporting
<1>44. CASE HardwareDiffers
  BY <1>44, PublishHeld, IntentsOK
     DEF HardwareDiffers, Trouble, Incident, Persist, fileVars, PublishHeld, InPass,
         Reporting, IntentsOK, Intents
<1>45. CASE ContainerLogsError
  BY <1>45, PublishHeld, IntentsOK
     DEF ContainerLogsError, Trouble, Incident, Persist, fileVars, PublishHeld, InPass,
         Reporting, IntentsOK, Intents
<1>46. CASE StartRaises
  BY <1>46, PublishHeld, IntentsOK
     DEF StartRaises, Trouble, TickRaises, Incident, Persist, fileVars, PublishHeld,
         InPass, Reporting, IntentsOK, Intents
<1>47. CASE StopRaises
  BY <1>47, PublishHeld, IntentsOK
     DEF StopRaises, Trouble, TickRaises, Incident, Persist, fileVars, PublishHeld,
         InPass, Reporting, IntentsOK, Intents
<1>48. CASE StopOverdue
  BY <1>48, PublishHeld, IntentsOK
     DEF StopOverdue, Incident, Persist, fileVars, PublishHeld, InPass, Reporting,
         IntentsOK, Intents
<1>49. CASE NotIdle
  BY <1>49, PublishHeld, IntentsOK
     DEF NotIdle, Trouble, Incident, Persist, fileVars, PublishHeld, InPass, Reporting,
         IntentsOK, Intents
<1>50. CASE Settling
  BY <1>50, PublishHeld, IntentsOK
     DEF Settling, Goto, Trouble, Persist, fileVars, monitorVars, PublishHeld, InPass,
         Reporting, IntentsOK, Intents
<1>51. ~ Resume
  BY DEF Resume, Goto
<1>. QED
  BY QuietStep, <1>1, <1>2, <1>3, <1>4, <1>5, <1>6, <1>7, <1>8, <1>9, <1>10, <1>11,
                <1>12, <1>13, <1>14, <1>15, <1>16, <1>17, <1>18, <1>19, <1>20, <1>21,
                <1>22, <1>23, <1>24, <1>25, <1>26, <1>27, <1>28, <1>29, <1>30, <1>31,
                <1>32, <1>33, <1>34, <1>35, <1>36, <1>37, <1>38, <1>39, <1>40, <1>41,
                <1>42, <1>43, <1>44, <1>45, <1>46, <1>47, <1>48, <1>49, <1>50, <1>51
     DEF Next, SupervisorStep, TroubleStep, DaemonStep, WorldStep

\* Whatever forgets the mapping is followed by a write of the receipt.
LEMMA MappedStep ==
  ASSUME IntentsOK, ReportOK, ReportInv, ProcessOK, IncidentHeld, PublishHeld,
         MappedHeld, pc # "down", ~ Crash, [Next]_vars
  PROVE  MappedHeld'
<1>1. CASE UNCHANGED receiptVars
  BY <1>1, MappedHeld DEF receiptVars, MappedHeld, InIncident
<1>2. CASE RecordFirst
  BY <1>2, MappedHeld
     DEF RecordFirst, Goto, procVars, monitorVars, MappedHeld, InIncident
<1>3. CASE RevokeReceipt
  BY <1>3, MappedHeld, IncidentHeld
     DEF RevokeReceipt, Goto, procVars, monitorVars, MappedHeld, InIncident,
         IncidentHeld
<1>4. CASE Mark
  BY <1>4, MarkWrites, MappedHeld, IntentsOK, ReportOK, ReportInv, IncidentHeld
     DEF fileVars, MappedHeld, InIncident, ReportInv, IncidentHeld
<1>5. CASE BeginStopped
  BY <1>5, MappedHeld, IntentsOK
     DEF BeginStopped, Goto, Persist, fileVars, procVars, monitorVars, MappedHeld,
         InIncident, IntentsOK, Intents
<1>6. CASE Begin
  BY <1>6, MappedHeld, IntentsOK
     DEF Begin, Goto, Persist, fileVars, procVars, monitorVars, MappedHeld, InIncident,
         IntentsOK, Intents
<1>7. CASE DispatchCreate
  BY <1>7, MappedHeld
     DEF DispatchCreate, Goto, fileVars, procVars, monitorVars, MappedHeld, InIncident
<1>8. CASE Tick
  <2>1. pc = "tick" /\ receipt' \in {receipt, "UNQUALIFIED"} /\ UNCHANGED <<first, report>>
    BY <1>8 DEF Tick, Goto
  <2>2. CASE Persist([Polled EXCEPT !.state = "OTHER"]) /\ pc' = "kernel" /\ after' = "tick"
    BY <2>1, <2>2, MappedHeld, IntentsOK
       DEF Persist, Polled, fileVars, MappedHeld, InIncident, IntentsOK, Intents
  <2>3. CASE /\ Persist([Polled EXCEPT !.known = TRUE]) /\ after' = "decide"
             /\ pc' \in {"decide", "kernel"}
    BY <2>1, <2>3, MappedHeld, IntentsOK
       DEF Persist, Polled, fileVars, MappedHeld, InIncident, IntentsOK, Intents
  <2>. QED
    BY <1>8, <2>2, <2>3 DEF Tick
<1>9. CASE ReadJournal
  <2>1. pc = "kernel" /\ UNCHANGED <<fileVars, after>>
    BY <1>9 DEF ReadJournal, Goto
  <2>2. CASE Incident("kernel fault", TRUE, mem, "none", "cursor")
    BY <2>1, <2>2, MappedHeld, IntentsOK
       DEF Incident, Persist, fileVars, MappedHeld, InIncident, IntentsOK, Intents
  <2>3. CASE pc' = "cursor" /\ UNCHANGED <<mem, report>>
    BY <2>1, <2>3, MappedHeld, IntentsOK
       DEF fileVars, MappedHeld, InIncident, IntentsOK, Intents
  <2>. QED
    BY <1>9, <2>2, <2>3 DEF ReadJournal
<1>10. CASE AdvanceCursor
  BY <1>10, MappedHeld, IntentsOK
     DEF AdvanceCursor, Goto, Persist, fileVars, procVars, monitorVars, MappedHeld,
         InIncident, IntentsOK, Intents
<1>11. CASE ChannelsClear
  BY <1>11, MappedHeld
     DEF ChannelsClear, Goto, fileVars, procVars, monitorVars, MappedHeld, InIncident
<1>12. CASE Monitored
  BY <1>12, MappedHeld, ProcessOK
     DEF Monitored, Goto, fileVars, procVars, monitorVars, MappedHeld, InIncident,
         ProcessOK
<1>13. CASE MonitorRaises
  <2>1. pc = "monitored" /\ UNCHANGED <<fileVars, after>>
    BY <1>13 DEF MonitorRaises, Goto
  <2>2. CASE after = "tick" /\ TickRaises(mem)
    BY <2>1, <2>2, MappedHeld, IntentsOK
       DEF TickRaises, Incident, Persist, fileVars, MappedHeld, InIncident, IntentsOK,
           Intents
  <2>3. CASE after = "decide" /\ Incident("monitor", FALSE, mem, "none", "decide")
    BY <2>1, <2>3, MappedHeld, IntentsOK
       DEF Incident, Persist, fileVars, MappedHeld, InIncident, IntentsOK, Intents
  <2>4. CASE after = "fresh" /\ Incident("mapping", FALSE, mem, "none", "stop")
    BY <2>1, <2>4, MappedHeld, IntentsOK
       DEF Incident, Persist, fileVars, MappedHeld, InIncident, IntentsOK, Intents
  <2>5. CASE after = "observe" /\ Incident("post-exit", FALSE, mem, "quarantine", "tick")
    BY <2>1, <2>5, MappedHeld, IntentsOK
       DEF Incident, Persist, fileVars, MappedHeld, InIncident, IntentsOK, Intents
  <2>. QED
    BY <1>13, <2>2, <2>3, <2>4, <2>5 DEF MonitorRaises
<1>14. CASE ObserveRunning
  BY <1>14, MappedHeld, IntentsOK
     DEF ObserveRunning, Goto, Persist, procVars, monitorVars, MappedHeld, InIncident,
         IntentsOK, Intents
<1>15. CASE IntendStart
  BY <1>15, MappedHeld, IntentsOK
     DEF IntendStart, Goto, Persist, fileVars, procVars, monitorVars, MappedHeld,
         InIncident, IntentsOK, Intents
<1>16. CASE DispatchStart
  BY <1>16, MappedHeld
     DEF DispatchStart, Goto, fileVars, procVars, monitorVars, MappedHeld, InIncident
<1>17. CASE DecideExit
  BY <1>17, MappedHeld
     DEF DecideExit, Goto, fileVars, procVars, monitorVars, MappedHeld, InIncident
<1>18. CASE StartUncertain
  BY <1>18, MappedHeld, IntentsOK
     DEF StartUncertain, Goto, Persist, fileVars, procVars, monitorVars, MappedHeld,
         InIncident, IntentsOK, Intents
<1>19. CASE NothingToPublish
  BY <1>19, MappedHeld
     DEF NothingToPublish, Goto, PollStop, fileVars, monitorVars, MappedHeld, InIncident
<1>20. CASE ValidateMapping
  BY <1>20, MappedHeld
     DEF ValidateMapping, Blocked, Goto, fileVars, MappedHeld, InIncident
<1>21. CASE RecordMapping
  BY <1>21, MappedHeld, IntentsOK
     DEF RecordMapping, Blocked, Goto, Persist, fileVars, procVars, monitorVars,
         MappedHeld, InIncident, IntentsOK, Intents
<1>22. CASE MappingRejected
  BY <1>22, MappedHeld, IntentsOK
     DEF MappingRejected, Running, Incident, Persist, fileVars, MappedHeld, InIncident,
         IntentsOK, Intents
<1>23. CASE MappingBlocked
  BY <1>23, MappedHeld
     DEF MappingBlocked, Goto, PollStop, fileVars, monitorVars, MappedHeld, InIncident
<1>24. CASE AnnounceReady
  BY <1>24, MappedHeld, PublishHeld
     DEF AnnounceReady, Blocked, Goto, procVars, monitorVars, MappedHeld, InIncident,
         PublishHeld
<1>25. CASE WithdrawMapping
  BY <1>25, MappedHeld, IntentsOK, PublishHeld
     DEF WithdrawMapping, Goto, PollStop, Persist, fileVars, monitorVars, MappedHeld,
         InIncident, IntentsOK, Intents, PublishHeld
<1>26. CASE ReadyStands
  BY <1>26, MappedHeld
     DEF ReadyStands, Goto, fileVars, procVars, monitorVars, MappedHeld, InIncident
<1>27. CASE ReadyBlocked
  BY <1>27, MappedHeld, IntentsOK
     DEF ReadyBlocked, Goto, PollStop, Persist, fileVars, monitorVars, MappedHeld,
         InIncident, IntentsOK, Intents
<1>28. CASE Unready
  BY <1>28, MappedHeld DEF Unready, Goto, procVars, monitorVars, MappedHeld, InIncident
<1>29. CASE NoStopDue
  BY <1>29, MappedHeld
     DEF NoStopDue, Goto, fileVars, procVars, monitorVars, MappedHeld, InIncident
<1>30. CASE IntendStop
  BY <1>30, MappedHeld, IntentsOK
     DEF IntendStop, StopDue, Goto, Persist, fileVars, procVars, monitorVars,
         MappedHeld, InIncident, IntentsOK, Intents
<1>31. CASE WithdrawReceipt
  BY <1>31, MappedHeld
     DEF WithdrawReceipt, Goto, procVars, monitorVars, MappedHeld, InIncident
<1>32. CASE DispatchStop
  BY <1>32, MappedHeld
     DEF DispatchStop, Goto, fileVars, procVars, monitorVars, MappedHeld, InIncident
<1>33. CASE ForgetMapping
  BY <1>33, MappedHeld, IntentsOK
     DEF ForgetMapping, Goto, Persist, fileVars, procVars, monitorVars, MappedHeld,
         InIncident, IntentsOK, Intents
<1>34. CASE RevokeAtExit
  BY <1>34, MappedHeld
     DEF RevokeAtExit, Goto, procVars, monitorVars, MappedHeld, InIncident
<1>35. CASE NothingMapped
  BY <1>35, MappedHeld
     DEF NothingMapped, Goto, fileVars, procVars, monitorVars, MappedHeld, InIncident
<1>36. CASE CheckExitCode
  <2>1. pc = "exit code" /\ after' = "observe" /\ UNCHANGED fileVars
    BY <1>36 DEF CheckExitCode, Goto
  <2>2. CASE Incident("exit code", FALSE, mem, "exit code", "kernel")
    BY <2>1, <2>2, MappedHeld, IntentsOK
       DEF Incident, Persist, fileVars, MappedHeld, InIncident, IntentsOK, Intents
  <2>3. CASE pc' = "kernel" /\ UNCHANGED <<mem, report>>
    BY <2>1, <2>3, MappedHeld, IntentsOK
       DEF fileVars, MappedHeld, InIncident, IntentsOK, Intents
  <2>. QED
    BY <1>36, <2>2, <2>3 DEF CheckExitCode
<1>37. CASE HardwareLatched
  BY <1>37, MappedHeld, IntentsOK
     DEF HardwareLatched, Goto, Persist, fileVars, procVars, monitorVars, MappedHeld,
         InIncident, IntentsOK, Intents
<1>38. CASE CleanSample
  <2>1. pc = "observe" /\ UNCHANGED <<fileVars, monitorVars>>
    BY <1>38 DEF CleanSample, Goto
  <2>2. CASE pc' = "release" /\ Persist([mem EXCEPT !.state = "OTHER", !.cleanup = TRUE])
    BY <2>1, <2>2, MappedHeld, IntentsOK
       DEF Persist, monitorVars, fileVars, MappedHeld, InIncident, IntentsOK, Intents
  <2>3. CASE pc' = "tick" /\ Persist([mem EXCEPT !.state = "OBSERVING"])
    BY <2>1, <2>3, MappedHeld, IntentsOK
       DEF Persist, monitorVars, fileVars, MappedHeld, InIncident, IntentsOK, Intents
  <2>. QED
    BY <1>38, <2>2, <2>3 DEF CleanSample
<1>39. CASE Release
  BY <1>39, MappedHeld DEF Release, Goto, procVars, monitorVars, MappedHeld, InIncident
<1>40. CASE CreateRaises
  BY <1>40, MappedHeld
     DEF CreateRaises, Goto, Trouble, fileVars, monitorVars, MappedHeld, InIncident
<1>41. CASE InspectFails
  BY <1>41, MappedHeld, IntentsOK
     DEF InspectFails, Trouble, TickRaises, Incident, Persist, Polled, fileVars,
         MappedHeld, InIncident, IntentsOK, Intents
<1>42. CASE JournalFails
  BY <1>42, MappedHeld DEF JournalFails, Goto, Trouble, fileVars, MappedHeld, InIncident
<1>43. CASE ChannelFails
  BY <1>43, MappedHeld DEF ChannelFails, Goto, Trouble, fileVars, MappedHeld, InIncident
<1>44. CASE HardwareDiffers
  BY <1>44, MappedHeld, IntentsOK
     DEF HardwareDiffers, Trouble, Incident, Persist, fileVars, MappedHeld, InIncident,
         IntentsOK, Intents
<1>45. CASE ContainerLogsError
  BY <1>45, MappedHeld, IntentsOK
     DEF ContainerLogsError, Trouble, Incident, Persist, fileVars, MappedHeld,
         InIncident, IntentsOK, Intents
<1>46. CASE StartRaises
  BY <1>46, MappedHeld, IntentsOK
     DEF StartRaises, Trouble, TickRaises, Incident, Persist, fileVars, MappedHeld,
         InIncident, IntentsOK, Intents
<1>47. CASE StopRaises
  BY <1>47, MappedHeld, IntentsOK
     DEF StopRaises, Trouble, TickRaises, Incident, Persist, fileVars, MappedHeld,
         InIncident, IntentsOK, Intents
<1>48. CASE StopOverdue
  BY <1>48, MappedHeld, IntentsOK
     DEF StopOverdue, Incident, Persist, fileVars, MappedHeld, InIncident, IntentsOK,
         Intents
<1>49. CASE NotIdle
  BY <1>49, MappedHeld, IntentsOK
     DEF NotIdle, Trouble, Incident, Persist, fileVars, MappedHeld, InIncident,
         IntentsOK, Intents
<1>50. CASE Settling
  BY <1>50, MappedHeld, IntentsOK
     DEF Settling, Goto, Trouble, Persist, fileVars, monitorVars, MappedHeld,
         InIncident, IntentsOK, Intents
<1>51. ~ Resume
  BY DEF Resume, Goto
<1>. QED
  BY QuietStep, <1>1, <1>2, <1>3, <1>4, <1>5, <1>6, <1>7, <1>8, <1>9, <1>10, <1>11,
                <1>12, <1>13, <1>14, <1>15, <1>16, <1>17, <1>18, <1>19, <1>20, <1>21,
                <1>22, <1>23, <1>24, <1>25, <1>26, <1>27, <1>28, <1>29, <1>30, <1>31,
                <1>32, <1>33, <1>34, <1>35, <1>36, <1>37, <1>38, <1>39, <1>40, <1>41,
                <1>42, <1>43, <1>44, <1>45, <1>46, <1>47, <1>48, <1>49, <1>50, <1>51
     DEF Next, SupervisorStep, TroubleStep, DaemonStep, WorldStep

\* The window is entered from post_exit, past the revocation that follows the mapping.
LEMMA ObserveStep ==
  ASSUME IntentsOK, ReportOK, ReportInv, ProcessOK, MappedHeld, ObserveHeld,
         pc # "down", ~ Crash, [Next]_vars
  PROVE  ObserveHeld'
<1>1. CASE UNCHANGED receiptVars
  BY <1>1, ObserveHeld DEF receiptVars, ObserveHeld, InPass, Reporting
<1>2. CASE RecordFirst
  BY <1>2, ObserveHeld
     DEF RecordFirst, Goto, procVars, monitorVars, ObserveHeld, InPass, Reporting
<1>3. CASE RevokeReceipt
  BY <1>3, ObserveHeld
     DEF RevokeReceipt, Goto, procVars, monitorVars, ObserveHeld, InPass, Reporting
<1>4. CASE Mark
  BY <1>4, MarkWrites, ObserveHeld, IntentsOK, ReportOK, ReportInv
     DEF fileVars, ObserveHeld, InPass, Reporting, ReportInv
<1>5. CASE BeginStopped
  BY <1>5, ObserveHeld, IntentsOK
     DEF BeginStopped, Goto, Persist, fileVars, procVars, monitorVars, ObserveHeld,
         InPass, Reporting, IntentsOK, Intents
<1>6. CASE Begin
  BY <1>6, ObserveHeld, IntentsOK
     DEF Begin, Goto, Persist, fileVars, procVars, monitorVars, ObserveHeld, InPass,
         Reporting, IntentsOK, Intents
<1>7. CASE DispatchCreate
  BY <1>7, ObserveHeld
     DEF DispatchCreate, Goto, fileVars, procVars, monitorVars, ObserveHeld, InPass,
         Reporting
<1>8. CASE Tick
  <2>1. pc = "tick" /\ receipt' \in {receipt, "UNQUALIFIED"} /\ UNCHANGED <<first, report>>
    BY <1>8 DEF Tick, Goto
  <2>2. CASE Persist([Polled EXCEPT !.state = "OTHER"]) /\ pc' = "kernel" /\ after' = "tick"
    BY <2>1, <2>2, ObserveHeld, IntentsOK
       DEF Persist, Polled, fileVars, ObserveHeld, InPass, Reporting, IntentsOK, Intents
  <2>3. CASE /\ Persist([Polled EXCEPT !.known = TRUE]) /\ after' = "decide"
             /\ pc' \in {"decide", "kernel"}
    BY <2>1, <2>3, ObserveHeld, IntentsOK
       DEF Persist, Polled, fileVars, ObserveHeld, InPass, Reporting, IntentsOK, Intents
  <2>. QED
    BY <1>8, <2>2, <2>3 DEF Tick
<1>9. CASE ReadJournal
  <2>1. pc = "kernel" /\ UNCHANGED <<fileVars, after>>
    BY <1>9 DEF ReadJournal, Goto
  <2>2. CASE Incident("kernel fault", TRUE, mem, "none", "cursor")
    BY <2>1, <2>2, ObserveHeld, IntentsOK
       DEF Incident, Persist, fileVars, ObserveHeld, InPass, Reporting, IntentsOK,
           Intents
  <2>3. CASE pc' = "cursor" /\ UNCHANGED <<mem, report>>
    BY <2>1, <2>3, ObserveHeld, IntentsOK
       DEF fileVars, ObserveHeld, InPass, Reporting, IntentsOK, Intents
  <2>. QED
    BY <1>9, <2>2, <2>3 DEF ReadJournal
<1>10. CASE AdvanceCursor
  BY <1>10, ObserveHeld, IntentsOK
     DEF AdvanceCursor, Goto, Persist, fileVars, procVars, monitorVars, ObserveHeld,
         InPass, Reporting, IntentsOK, Intents
<1>11. CASE ChannelsClear
  BY <1>11, ObserveHeld
     DEF ChannelsClear, Goto, fileVars, procVars, monitorVars, ObserveHeld, InPass,
         Reporting
<1>12. CASE Monitored
  BY <1>12, ObserveHeld, ProcessOK
     DEF Monitored, Goto, fileVars, procVars, monitorVars, ObserveHeld, InPass,
         Reporting, ProcessOK
<1>13. CASE MonitorRaises
  <2>1. pc = "monitored" /\ UNCHANGED <<fileVars, after>>
    BY <1>13 DEF MonitorRaises, Goto
  <2>2. CASE after = "tick" /\ TickRaises(mem)
    BY <2>1, <2>2, ObserveHeld, IntentsOK
       DEF TickRaises, Incident, Persist, fileVars, ObserveHeld, InPass, Reporting,
           IntentsOK, Intents
  <2>3. CASE after = "decide" /\ Incident("monitor", FALSE, mem, "none", "decide")
    BY <2>1, <2>3, ObserveHeld, IntentsOK
       DEF Incident, Persist, fileVars, ObserveHeld, InPass, Reporting, IntentsOK,
           Intents
  <2>4. CASE after = "fresh" /\ Incident("mapping", FALSE, mem, "none", "stop")
    BY <2>1, <2>4, ObserveHeld, IntentsOK
       DEF Incident, Persist, fileVars, ObserveHeld, InPass, Reporting, IntentsOK,
           Intents
  <2>5. CASE after = "observe" /\ Incident("post-exit", FALSE, mem, "quarantine", "tick")
    BY <2>1, <2>5, ObserveHeld, IntentsOK
       DEF Incident, Persist, fileVars, ObserveHeld, InPass, Reporting, IntentsOK,
           Intents
  <2>. QED
    BY <1>13, <2>2, <2>3, <2>4, <2>5 DEF MonitorRaises
<1>14. CASE ObserveRunning
  BY <1>14, ObserveHeld, IntentsOK
     DEF ObserveRunning, Goto, Persist, procVars, monitorVars, ObserveHeld, InPass,
         Reporting, IntentsOK, Intents
<1>15. CASE IntendStart
  BY <1>15, ObserveHeld, IntentsOK
     DEF IntendStart, Goto, Persist, fileVars, procVars, monitorVars, ObserveHeld,
         InPass, Reporting, IntentsOK, Intents
<1>16. CASE DispatchStart
  BY <1>16, ObserveHeld
     DEF DispatchStart, Goto, fileVars, procVars, monitorVars, ObserveHeld, InPass,
         Reporting
<1>17. CASE DecideExit
  BY <1>17, ObserveHeld
     DEF DecideExit, Goto, fileVars, procVars, monitorVars, ObserveHeld, InPass,
         Reporting
<1>18. CASE StartUncertain
  BY <1>18, ObserveHeld, IntentsOK
     DEF StartUncertain, Goto, Persist, fileVars, procVars, monitorVars, ObserveHeld,
         InPass, Reporting, IntentsOK, Intents
<1>19. CASE NothingToPublish
  BY <1>19, ObserveHeld
     DEF NothingToPublish, Goto, PollStop, fileVars, monitorVars, ObserveHeld, InPass,
         Reporting
<1>20. CASE ValidateMapping
  BY <1>20, ObserveHeld
     DEF ValidateMapping, Blocked, Goto, fileVars, ObserveHeld, InPass, Reporting
<1>21. CASE RecordMapping
  BY <1>21, ObserveHeld, IntentsOK
     DEF RecordMapping, Blocked, Goto, Persist, fileVars, procVars, monitorVars,
         ObserveHeld, InPass, Reporting, IntentsOK, Intents
<1>22. CASE MappingRejected
  BY <1>22, ObserveHeld, IntentsOK
     DEF MappingRejected, Running, Incident, Persist, fileVars, ObserveHeld, InPass,
         Reporting, IntentsOK, Intents
<1>23. CASE MappingBlocked
  BY <1>23, ObserveHeld
     DEF MappingBlocked, Goto, PollStop, fileVars, monitorVars, ObserveHeld, InPass,
         Reporting
<1>24. CASE AnnounceReady
  BY <1>24, ObserveHeld
     DEF AnnounceReady, Blocked, Goto, procVars, monitorVars, ObserveHeld, InPass,
         Reporting
<1>25. CASE WithdrawMapping
  BY <1>25, ObserveHeld, IntentsOK
     DEF WithdrawMapping, Goto, PollStop, Persist, fileVars, monitorVars, ObserveHeld,
         InPass, Reporting, IntentsOK, Intents
<1>26. CASE ReadyStands
  BY <1>26, ObserveHeld
     DEF ReadyStands, Goto, fileVars, procVars, monitorVars, ObserveHeld, InPass,
         Reporting
<1>27. CASE ReadyBlocked
  BY <1>27, ObserveHeld, IntentsOK
     DEF ReadyBlocked, Goto, PollStop, Persist, fileVars, monitorVars, ObserveHeld,
         InPass, Reporting, IntentsOK, Intents
<1>28. CASE Unready
  BY <1>28, ObserveHeld
     DEF Unready, Goto, procVars, monitorVars, ObserveHeld, InPass, Reporting
<1>29. CASE NoStopDue
  BY <1>29, ObserveHeld
     DEF NoStopDue, Goto, fileVars, procVars, monitorVars, ObserveHeld, InPass,
         Reporting
<1>30. CASE IntendStop
  BY <1>30, ObserveHeld, IntentsOK
     DEF IntendStop, StopDue, Goto, Persist, fileVars, procVars, monitorVars,
         ObserveHeld, InPass, Reporting, IntentsOK, Intents
<1>31. CASE WithdrawReceipt
  BY <1>31, ObserveHeld
     DEF WithdrawReceipt, Goto, procVars, monitorVars, ObserveHeld, InPass, Reporting
<1>32. CASE DispatchStop
  BY <1>32, ObserveHeld
     DEF DispatchStop, Goto, fileVars, procVars, monitorVars, ObserveHeld, InPass,
         Reporting
<1>33. CASE ForgetMapping
  BY <1>33, ObserveHeld, IntentsOK
     DEF ForgetMapping, Goto, Persist, fileVars, procVars, monitorVars, ObserveHeld,
         InPass, Reporting, IntentsOK, Intents
<1>34. CASE RevokeAtExit
  BY <1>34, ObserveHeld
     DEF RevokeAtExit, Goto, procVars, monitorVars, ObserveHeld, InPass, Reporting
<1>35. CASE NothingMapped
  BY <1>35, ObserveHeld, MappedHeld
     DEF NothingMapped, Goto, fileVars, procVars, monitorVars, ObserveHeld, InPass,
         Reporting, MappedHeld, InIncident
<1>36. CASE CheckExitCode
  <2>1. pc = "exit code" /\ after' = "observe" /\ UNCHANGED fileVars
    BY <1>36 DEF CheckExitCode, Goto
  <2>2. CASE Incident("exit code", FALSE, mem, "exit code", "kernel")
    BY <2>1, <2>2, ObserveHeld, IntentsOK
       DEF Incident, Persist, fileVars, ObserveHeld, InPass, Reporting, IntentsOK,
           Intents
  <2>3. CASE pc' = "kernel" /\ UNCHANGED <<mem, report>>
    BY <2>1, <2>3, ObserveHeld, IntentsOK
       DEF fileVars, ObserveHeld, InPass, Reporting, IntentsOK, Intents
  <2>. QED
    BY <1>36, <2>2, <2>3 DEF CheckExitCode
<1>37. CASE HardwareLatched
  BY <1>37, ObserveHeld, IntentsOK
     DEF HardwareLatched, Goto, Persist, fileVars, procVars, monitorVars, ObserveHeld,
         InPass, Reporting, IntentsOK, Intents
<1>38. CASE CleanSample
  <2>1. pc = "observe" /\ UNCHANGED <<fileVars, monitorVars>>
    BY <1>38 DEF CleanSample, Goto
  <2>2. CASE pc' = "release" /\ Persist([mem EXCEPT !.state = "OTHER", !.cleanup = TRUE])
    BY <2>1, <2>2, ObserveHeld, IntentsOK
       DEF Persist, monitorVars, fileVars, ObserveHeld, InPass, Reporting, IntentsOK,
           Intents
  <2>3. CASE pc' = "tick" /\ Persist([mem EXCEPT !.state = "OBSERVING"])
    BY <2>1, <2>3, ObserveHeld, IntentsOK
       DEF Persist, monitorVars, fileVars, ObserveHeld, InPass, Reporting, IntentsOK,
           Intents
  <2>. QED
    BY <1>38, <2>2, <2>3 DEF CleanSample
<1>39. CASE Release
  BY <1>39, ObserveHeld
     DEF Release, Goto, procVars, monitorVars, ObserveHeld, InPass, Reporting
<1>40. CASE CreateRaises
  BY <1>40, ObserveHeld
     DEF CreateRaises, Goto, Trouble, fileVars, monitorVars, ObserveHeld, InPass,
         Reporting
<1>41. CASE InspectFails
  BY <1>41, ObserveHeld, IntentsOK
     DEF InspectFails, Trouble, TickRaises, Incident, Persist, Polled, fileVars,
         ObserveHeld, InPass, Reporting, IntentsOK, Intents
<1>42. CASE JournalFails
  BY <1>42, ObserveHeld
     DEF JournalFails, Goto, Trouble, fileVars, ObserveHeld, InPass, Reporting
<1>43. CASE ChannelFails
  BY <1>43, ObserveHeld
     DEF ChannelFails, Goto, Trouble, fileVars, ObserveHeld, InPass, Reporting
<1>44. CASE HardwareDiffers
  BY <1>44, ObserveHeld, IntentsOK
     DEF HardwareDiffers, Trouble, Incident, Persist, fileVars, ObserveHeld, InPass,
         Reporting, IntentsOK, Intents
<1>45. CASE ContainerLogsError
  BY <1>45, ObserveHeld, IntentsOK
     DEF ContainerLogsError, Trouble, Incident, Persist, fileVars, ObserveHeld, InPass,
         Reporting, IntentsOK, Intents
<1>46. CASE StartRaises
  BY <1>46, ObserveHeld, IntentsOK
     DEF StartRaises, Trouble, TickRaises, Incident, Persist, fileVars, ObserveHeld,
         InPass, Reporting, IntentsOK, Intents
<1>47. CASE StopRaises
  BY <1>47, ObserveHeld, IntentsOK
     DEF StopRaises, Trouble, TickRaises, Incident, Persist, fileVars, ObserveHeld,
         InPass, Reporting, IntentsOK, Intents
<1>48. CASE StopOverdue
  BY <1>48, ObserveHeld, IntentsOK
     DEF StopOverdue, Incident, Persist, fileVars, ObserveHeld, InPass, Reporting,
         IntentsOK, Intents
<1>49. CASE NotIdle
  BY <1>49, ObserveHeld, IntentsOK
     DEF NotIdle, Trouble, Incident, Persist, fileVars, ObserveHeld, InPass, Reporting,
         IntentsOK, Intents
<1>50. CASE Settling
  BY <1>50, ObserveHeld, IntentsOK
     DEF Settling, Goto, Trouble, Persist, fileVars, monitorVars, ObserveHeld, InPass,
         Reporting, IntentsOK, Intents
<1>51. ~ Resume
  BY DEF Resume, Goto
<1>. QED
  BY QuietStep, <1>1, <1>2, <1>3, <1>4, <1>5, <1>6, <1>7, <1>8, <1>9, <1>10, <1>11,
                <1>12, <1>13, <1>14, <1>15, <1>16, <1>17, <1>18, <1>19, <1>20, <1>21,
                <1>22, <1>23, <1>24, <1>25, <1>26, <1>27, <1>28, <1>29, <1>30, <1>31,
                <1>32, <1>33, <1>34, <1>35, <1>36, <1>37, <1>38, <1>39, <1>40, <1>41,
                <1>42, <1>43, <1>44, <1>45, <1>46, <1>47, <1>48, <1>49, <1>50, <1>51
     DEF Next, SupervisorStep, TroubleStep, DaemonStep, WorldStep

----
LEMMA UncrashedStep ==
  ASSUME SupervisorInv, UncrashedInv, [Next]_vars
  PROVE  UncrashedInv'
<1> SUFFICES ASSUME crashes' = 0
             PROVE  /\ pc' # "down" /\ disk' = mem'
                    /\ IncidentHeld' /\ PublishHeld' /\ MappedHeld' /\ ObserveHeld'
  BY DEF UncrashedInv
<1>1. IntentsOK /\ ReportOK /\ ProcessOK /\ CountsOK /\ ReportInv
  BY TypeParts DEF SupervisorInv
<1>2. ~ Crash
  BY <1>1 DEF Crash, CountsOK
<1>3. crashes = 0
  BY <1>2, CrashesKept
<1>4. /\ pc # "down" /\ disk = mem
      /\ IncidentHeld /\ PublishHeld /\ MappedHeld /\ ObserveHeld
  BY <1>3 DEF UncrashedInv
<1>5. pc' # "down" /\ disk' = mem'
  BY <1>1, <1>2, <1>4, DurableStep
<1>6. IncidentHeld' /\ PublishHeld'
  BY <1>1, <1>2, <1>4, IncidentStep, PublishStep
<1>7. MappedHeld' /\ ObserveHeld'
  BY <1>1, <1>2, <1>4, MappedStep, ObserveStep
<1>. QED
  BY <1>5, <1>6, <1>7

\* Until the first crash the places where READY and the intent disagree are the ones that
\* the four parts name.
THEOREM UncrashedInvariant == Spec => []UncrashedInv
<1>1. Init => UncrashedInv
  BY DEF Init, NewIntent, NoReport, UncrashedInv, IncidentHeld, InIncident, PublishHeld,
         InPass, Reporting, MappedHeld, ObserveHeld
<1>2. SupervisorInv /\ UncrashedInv /\ [Next]_vars => UncrashedInv'
  BY UncrashedStep
<1>. QED
  BY <1>1, <1>2, SupervisorInvariant, PTL DEF Spec

\* incident revokes the receipt whatever it interrupts, the announcement included: in a
\* supervisor that has not crashed no tick begins with READY after an incident.
THEOREM ReceiptRevoked == Spec => [](crashes = 0 => ReceiptFollowsIncident)
<1>1. UncrashedInv => (crashes = 0 => ReceiptFollowsIncident)
  BY DEF UncrashedInv, IncidentHeld, InIncident, ReceiptFollowsIncident
<1>. QED
  BY <1>1, UncrashedInvariant, PTL

\* post_exit revokes the receipt before the first clean sample: in a supervisor that has
\* not crashed nothing is READY while the intent says that the exit is being observed.
THEOREM WindowRevoked == Spec => [](crashes = 0 => ExitRevokes)
<1>1. UncrashedInv => (crashes = 0 => ExitRevokes)
  BY DEF UncrashedInv, ObserveHeld, ExitRevokes
<1>. QED
  BY <1>1, UncrashedInvariant, PTL
===============================================================================
