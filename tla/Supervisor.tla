------------------------------ MODULE Supervisor ------------------------------
(***************************************************************************)
(* The supervisor that owns one container: begin, tick and everything tick *)
(* calls, launcher.run's resume, and around it the Docker daemon and its   *)
(* container, the kernel journal, the owned-stop script and crashes of the *)
(* supervisor process.                                                     *)
(*                                                                         *)
(* The intent exists twice: in memory (mem) and in intent.json (disk);     *)
(* persist copies one to the other, and a crash may fall between any two   *)
(* durable writes or between a write and the dispatch it announces.  A     *)
(* Docker command is dispatched to a client process: what was dispatched   *)
(* may be carried out by the daemon at any later time, or refused.         *)
(*                                                                         *)
(* Time is not counted, except in the post-exit window (units of 30 s): a  *)
(* delay or deadline may pass at any moment.  The reason of an incident is *)
(* its kind.  The image, labels and identity fields are the right ones; a  *)
(* kernel fault is one of the hardware (a storage fault is a "log").       *)
(***************************************************************************)
EXTENDS Naturals

CONSTANTS
  Troubles,      \* which of TroubleKinds may happen
  MaxTroubles, MaxFaults, MaxCrashes, MaxGap   \* bounds

\* docker inspect fails; the client process cannot be started; the daemon refuses a
\* command; a monitoring channel fails; the GPU identity differs; the container logs an
\* error; it ends by itself; the GPUs are not idle after the exit, or still settling.
TroubleKinds == {"inspect", "popen", "refuse", "monitor", "identity", "log", "exit",
                 "busy", "settling"}

ASSUME SupervisorBounds ==
  /\ Troubles \subseteq TroubleKinds
  /\ MaxTroubles \in Nat /\ MaxFaults \in Nat /\ MaxCrashes \in Nat /\ MaxGap \in Nat

VARIABLES
  \* durable
  disk,        \* intent.json
  receipt,     \* startup-receipt.json: "none", "READY" or "UNQUALIFIED"
  first,       \* first-incident.json: "none", "soft" or "hardware"
  stopFile,    \* stop-request.json exists
  attested,    \* mapping-attestation.json exists
  \* the supervisor process
  pc, mem,
  stopRequested,
  seen,        \* what inspect returned in this tick
  after,       \* where monitor returns to
  broken,      \* a monitoring channel has failed in this pass
  report,      \* the incident being written, and where it returns to
  window,      \* post_exit_samples and the time since post_exit_start
  \* docker
  container,   \* none, created, starting, serving, stopping, exited
  failed,      \* the container ended with an exit code other than 0
  ops,         \* commands dispatched and not yet carried out
  stopClient,  \* the CLI process of docker stop
  \* the rest
  faults,      \* kernel faults in the journal
  readFaults,  \* how many of them a journal read has returned
  waiting,     \* an owned-stop process follows the stop of the unit
  retried,     \* owned-stop has recorded, and sent, its one SIGTERM
  busy,        \* the server has requests running or waiting
  troubles, crashes

fileVars   == <<receipt, first, stopFile, attested>>
monitorVars == <<after, broken, report>>
procVars   == <<stopRequested, seen, monitorVars, window>>
dockerVars == <<container, failed, ops, stopClient>>
worldVars  == <<faults, readFaults, waiting, retried, busy>>
counters   == <<troubles, crashes>>
vars == <<disk, fileVars, pc, mem, procVars, dockerVars, worldVars, counters>>

Reasons == {"kernel fault", "hardware identity", "monitor", "log", "exit code",
            "post-exit", "mapping", "stop deadline", "exception"}
Running(c) == c \in {"starting", "serving", "stopping"}

\* The fields of the intent that control depends on.  counted: incident_counts.
Intents == [create : BOOLEAN, start : BOOLEAN, stop : BOOLEAN, known : BOOLEAN,
            state : {"OTHER", "RUNNING", "OBSERVING"}, observed : BOOLEAN,
            failure : BOOLEAN, hardware : BOOLEAN, counted : SUBSET Reasons,
            mapped : BOOLEAN, published : BOOLEAN, exitRecorded : BOOLEAN,
            deadline : BOOLEAN, cursor : Nat, cleanup : BOOLEAN,
            stopOutcome : {"none", "pending", "ok", "failed"}]

NewIntent == [create |-> FALSE, start |-> FALSE, stop |-> FALSE, known |-> FALSE,
              state |-> "OTHER", observed |-> FALSE,
              failure |-> FALSE, hardware |-> FALSE, counted |-> {},
              mapped |-> FALSE, published |-> FALSE, exitRecorded |-> FALSE,
              deadline |-> FALSE, cursor |-> 0, cleanup |-> FALSE,
              stopOutcome |-> "none"]

NoWindow == [samples |-> 0, elapsed |-> 0]
NoReport == [hardware |-> FALSE, fresh |-> FALSE, mark |-> "none", next |-> "tick"]

\* Where the supervisor is: before a durable write, a dispatch or a reading of the world.
Places == {"begin", "create", "tick", "kernel", "cursor", "channels", "monitored",
           "incident", "revoke", "mark", "decide", "start", "publish", "fresh", "announce",
           "recheck", "unready", "stop", "withdraw", "halt", "exit", "exited", "exit code",
           "observe", "release", "released", "down"}
Alive == pc \notin {"released", "down"}

Init ==
  /\ disk = NewIntent /\ mem = NewIntent
  /\ receipt = "none" /\ first = "none" /\ stopFile = FALSE /\ attested = FALSE
  /\ pc = "begin" /\ stopRequested = FALSE /\ seen = "none" /\ after = "tick"
  /\ broken = FALSE /\ report = NoReport /\ window = NoWindow
  /\ container = "none" /\ failed = FALSE /\ ops = {} /\ stopClient = "none"
  /\ faults = 0 /\ readFaults = 0 /\ waiting = FALSE /\ retried = FALSE /\ busy = FALSE
  /\ troubles = 0 /\ crashes = 0

----
\* Helpers

Persist(m) == mem' = m /\ disk' = m

Goto(from, to) == pc = from /\ pc' = to

Trouble(kind) == kind \in Troubles /\ troubles < MaxTroubles /\ troubles' = troubles + 1

\* Mutant: a later incident forgets an earlier hardware fault.
IncidentForgets(reason, hardware, m, mark, next) ==
  /\ Persist([m EXCEPT !.failure = TRUE, !.mapped = FALSE,
                       !.hardware = hardware, !.counted = @ \union {reason}])
  /\ stopRequested' = TRUE /\ window' = NoWindow
  /\ report' = [hardware |-> hardware, fresh |-> reason \notin m.counted,
                mark |-> mark, next |-> next]
  /\ pc' = "incident"

\* incident, as far as its first durable write: m is the intent it starts from, mark what
\* the caller persists when it returns.
Incident(reason, hardware, m, mark, next) ==
  /\ Persist([m EXCEPT !.failure = TRUE, !.mapped = FALSE,
                       !.hardware = @ \/ hardware, !.counted = @ \union {reason}])
  /\ stopRequested' = TRUE /\ window' = NoWindow
  /\ report' = [hardware |-> hardware, fresh |-> reason \notin m.counted,
                mark |-> mark, next |-> next]
  /\ pc' = "incident"

\* tick's except clause.
TickRaises(m) == Incident("exception", FALSE, m, "quarantine", "tick")

\* The rest of incident: the first-incident record, once; then, for a new reason only,
\* the receipt.
RecordFirst ==
  /\ Goto("incident", "revoke")
  /\ first' = IF first # "none" THEN first ELSE IF report.hardware THEN "hardware" ELSE "soft"
  /\ UNCHANGED <<disk, mem, receipt, stopFile, attested, procVars, dockerVars, worldVars, counters>>

\* Mutant: only a hardware fault revokes the receipt.
RevokeHardwareOnly ==
  /\ Goto("revoke", "mark")
  /\ receipt' = IF report.fresh /\ report.hardware THEN "UNQUALIFIED" ELSE receipt
  /\ UNCHANGED <<disk, mem, first, stopFile, attested, procVars, dockerVars, worldVars, counters>>

RevokeReceipt ==
  /\ Goto("revoke", "mark")
  /\ receipt' = IF report.fresh THEN "UNQUALIFIED" ELSE receipt
  /\ UNCHANGED <<disk, mem, first, stopFile, attested, procVars, dockerVars, worldVars, counters>>

\* What the caller of incident persists.
Mark ==
  /\ Goto("mark", report.next)
  /\ Persist(CASE report.mark = "none" -> mem
               [] report.mark = "quarantine" -> [mem EXCEPT !.state = "OTHER"]
               [] report.mark = "exit code" -> [mem EXCEPT !.exitRecorded = TRUE]
               [] report.mark = "deadline" -> [mem EXCEPT !.deadline = TRUE])
  /\ UNCHANGED <<fileVars, procVars, dockerVars, worldVars, counters>>

----
\* begin

BeginStopped ==
  /\ stopRequested /\ Goto("begin", "released")
  /\ Persist([mem EXCEPT !.cleanup = TRUE])
  /\ UNCHANGED <<fileVars, procVars, dockerVars, worldVars, counters>>

Begin ==
  /\ ~ stopRequested /\ Goto("begin", "create")
  /\ Persist([mem EXCEPT !.create = TRUE])
  /\ UNCHANGED <<fileVars, procVars, dockerVars, worldVars, counters>>

DispatchCreate ==
  /\ Goto("create", "tick")
  /\ ops' = ops \union {"create"}
  /\ UNCHANGED <<disk, mem, fileVars, procVars, container, failed, stopClient, worldVars, counters>>

\* run catches it: hold the leases, stop, reconcile.
CreateRaises ==
  /\ Goto("create", "tick") /\ Trouble("popen")
  /\ stopRequested' = TRUE
  /\ UNCHANGED <<disk, mem, fileVars, seen, monitorVars, window, dockerVars, worldVars, crashes>>

----
\* tick: poll the stop request and the clients, inspect

Polled == [mem EXCEPT !.stopOutcome = stopClient]

\* Mutant: the monitor runs only before the start.
MonitorBeforeStart(c) == ~ stopRequested' /\ ~ mem.start

\* The monitor pass before the decision is due, and may be skipped when the last one was
\* less than three seconds ago.
MonitorDue(c) == Running(c) \/ (~ stopRequested' /\ ~ mem.start)

Tick ==
  /\ pc = "tick"
  /\ stopRequested' = (stopRequested \/ stopFile)
  /\ seen' = container /\ broken' = FALSE
  /\ IF container = "none"
     THEN /\ Persist([Polled EXCEPT !.state = "OTHER"])
          /\ pc' = "kernel" /\ after' = "tick" /\ UNCHANGED receipt
     ELSE /\ Persist([Polled EXCEPT !.known = TRUE])
          /\ receipt' = IF mem.known THEN receipt ELSE "UNQUALIFIED"
          /\ after' = "decide"
          /\ \/ pc' = "decide"
             \/ MonitorDue(container) /\ pc' = "kernel"
  /\ UNCHANGED <<first, stopFile, attested, report, window, dockerVars, worldVars, counters>>

InspectFails ==
  /\ pc = "tick" /\ Trouble("inspect")
  /\ TickRaises(Polled)
  /\ UNCHANGED <<fileVars, seen, after, broken, dockerVars, worldVars, crashes>>

----
\* monitor: three channels; the failure of one does not suppress the others

\* monitor_kernel: the evidence and the incident come before the durable cursor.
ReadJournal ==
  /\ pc = "kernel"
  /\ readFaults' = faults
  /\ IF faults > mem.cursor
     THEN Incident("kernel fault", TRUE, mem, "none", "cursor")
     ELSE pc' = "cursor" /\ UNCHANGED <<disk, mem, stopRequested, window, report>>
  /\ UNCHANGED <<fileVars, seen, after, broken, dockerVars, faults, waiting, retried, busy,
                 counters>>

JournalFails ==
  /\ Goto("kernel", "channels") /\ Trouble("monitor")
  /\ broken' = TRUE
  /\ UNCHANGED <<disk, mem, fileVars, stopRequested, seen, after, report, window, dockerVars,
                 worldVars, crashes>>

AdvanceCursor ==
  /\ Goto("cursor", "channels")
  /\ Persist([mem EXCEPT !.cursor = readFaults])
  /\ UNCHANGED <<fileVars, procVars, dockerVars, worldVars, counters>>

\* monitor_gpu and monitor_container.
ChannelsClear ==
  /\ Goto("channels", "monitored")
  /\ UNCHANGED <<disk, mem, fileVars, procVars, dockerVars, worldVars, counters>>

ChannelFails ==
  /\ Goto("channels", "monitored") /\ Trouble("monitor")
  /\ broken' = TRUE
  /\ UNCHANGED <<disk, mem, fileVars, stopRequested, seen, after, report, window, dockerVars,
                 worldVars, crashes>>

HardwareDiffers ==
  /\ pc = "channels" /\ Trouble("identity")
  /\ Incident("hardware identity", TRUE, mem, "none", "monitored") /\ broken' = TRUE
  /\ UNCHANGED <<fileVars, seen, after, dockerVars, worldVars, crashes>>

ContainerLogsError ==
  /\ pc = "channels" /\ seen # "none" /\ Trouble("log")
  /\ Incident("log", FALSE, mem, "none", "monitored")
  /\ UNCHANGED <<fileVars, seen, after, broken, dockerVars, worldVars, crashes>>

Monitored ==
  /\ ~ broken /\ Goto("monitored", after)
  /\ UNCHANGED <<disk, mem, fileVars, procVars, dockerVars, worldVars, counters>>

\* A failed channel, as the callers of monitor take it.
MonitorRaises ==
  /\ broken /\ pc = "monitored"
  /\ \/ after = "tick" /\ TickRaises(mem)
     \/ after = "decide" /\ Incident("monitor", FALSE, mem, "none", "decide")
     \/ after = "fresh" /\ Incident("mapping", FALSE, mem, "none", "stop")
     \/ after = "observe" /\ Incident("post-exit", FALSE, mem, "quarantine", "tick")
  /\ UNCHANGED <<fileVars, seen, after, broken, dockerVars, worldVars, counters>>

----
\* tick: the decision, on what inspect returned

ObserveRunning ==
  /\ Running(seen) /\ Goto("decide", "publish")
  /\ IF mem.observed THEN UNCHANGED <<disk, mem, receipt>>
     ELSE /\ Persist([mem EXCEPT !.state = "RUNNING", !.observed = TRUE])
          /\ receipt' = "UNQUALIFIED"
  /\ UNCHANGED <<first, stopFile, attested, procVars, dockerVars, worldVars, counters>>

IntendStart ==
  /\ ~ Running(seen) /\ ~ mem.start /\ ~ stopRequested /\ Goto("decide", "start")
  /\ Persist([mem EXCEPT !.start = TRUE])
  /\ UNCHANGED <<fileVars, procVars, dockerVars, worldVars, counters>>

DispatchStart ==
  /\ Goto("start", "tick")
  /\ ops' = ops \union {"start"}
  /\ UNCHANGED <<disk, mem, fileVars, procVars, container, failed, stopClient, worldVars, counters>>

StartRaises ==
  /\ pc = "start" /\ Trouble("popen") /\ TickRaises(mem)
  /\ UNCHANGED <<fileVars, seen, after, broken, dockerVars, worldVars, crashes>>

\* Mutant: any container that does not run has exited.
DecideExitNotRunning ==
  /\ ~ Running(seen) /\ (mem.start \/ stopRequested)
  /\ Goto("decide", "exit")
  /\ UNCHANGED <<disk, mem, fileVars, procVars, dockerVars, worldVars, counters>>

\* Never started and told to stop, or exited after its start.
DecideExit ==
  /\ \/ ~ Running(seen) /\ ~ mem.start /\ stopRequested
     \/ mem.start /\ seen = "exited"
  /\ Goto("decide", "exit")
  /\ UNCHANGED <<disk, mem, fileVars, procVars, dockerVars, worldVars, counters>>

\* "created" after an uncertain start is no proof that it will never run.
StartUncertain ==
  /\ mem.start /\ seen = "created" /\ Goto("decide", "tick")
  /\ Persist([mem EXCEPT !.state = "OTHER"])
  /\ UNCHANGED <<fileVars, procVars, dockerVars, worldVars, counters>>

----
\* maybe_publish_mapping_ready

\* readiness_blocked
Blocked ==
  \/ stopRequested \/ stopFile \/ mem.state # "RUNNING"
  \/ mem.failure \/ mem.cleanup \/ mem.stop \/ first # "none"

PollStop == stopRequested' = (stopRequested \/ stopFile)

NothingToPublish ==
  /\ Blocked \/ mem.published \/ ~ attested
  /\ Goto("publish", "stop") /\ PollStop
  /\ UNCHANGED <<disk, mem, fileVars, seen, monitorVars, window, dockerVars, worldVars, counters>>

ValidateMapping ==
  /\ ~ Blocked /\ ~ mem.published /\ attested
  /\ Goto("publish", "kernel") /\ after' = "fresh" /\ broken' = FALSE
  /\ UNCHANGED <<disk, mem, fileVars, stopRequested, seen, report, window, dockerVars, worldVars,
                 counters>>

\* A fresh inspect after the slow validation and the forced monitor pass.
RecordMapping ==
  /\ ~ Blocked /\ Running(container) /\ Goto("fresh", "announce")
  /\ Persist([mem EXCEPT !.mapped = TRUE, !.published = TRUE])
  /\ UNCHANGED <<fileVars, procVars, dockerVars, worldVars, counters>>

MappingRejected ==
  /\ pc = "fresh" /\ ~ Running(container)
  /\ Incident("mapping", FALSE, mem, "none", "stop")
  /\ UNCHANGED <<fileVars, seen, after, broken, dockerVars, worldVars, counters>>

MappingBlocked ==
  /\ Blocked /\ Running(container) /\ Goto("fresh", "stop") /\ PollStop
  /\ UNCHANGED <<disk, mem, fileVars, seen, monitorVars, window, dockerVars, worldVars, counters>>

AnnounceReady ==
  /\ ~ Blocked /\ Goto("announce", "recheck")
  /\ receipt' = "READY"
  /\ UNCHANGED <<disk, mem, first, stopFile, attested, procVars, dockerVars, worldVars, counters>>

WithdrawMapping ==
  /\ Blocked /\ Goto("announce", "stop") /\ PollStop
  /\ Persist([mem EXCEPT !.mapped = FALSE, !.published = FALSE])
  /\ UNCHANGED <<fileVars, seen, monitorVars, window, dockerVars, worldVars, counters>>

ReadyStands ==
  /\ ~ Blocked /\ Goto("recheck", "stop")
  /\ UNCHANGED <<disk, mem, fileVars, procVars, dockerVars, worldVars, counters>>

ReadyBlocked ==
  /\ Blocked /\ Goto("recheck", "unready") /\ PollStop
  /\ Persist([mem EXCEPT !.mapped = FALSE])
  /\ UNCHANGED <<fileVars, seen, monitorVars, window, dockerVars, worldVars, counters>>

Unready ==
  /\ Goto("unready", "stop") /\ receipt' = "UNQUALIFIED"
  /\ UNCHANGED <<disk, mem, first, stopFile, attested, procVars, dockerVars, worldVars, counters>>

----
\* request_stop_if_needed

\* A stop under way is waited for; a failed client is retried after 30 s.
NoStopDue ==
  /\ ~ stopRequested \/ mem.stop
  /\ Goto("stop", "tick")
  /\ UNCHANGED <<disk, mem, fileVars, procVars, dockerVars, worldVars, counters>>

StopOverdue ==
  /\ stopRequested /\ mem.stop /\ ~ mem.deadline /\ pc = "stop"
  /\ Incident("stop deadline", FALSE, mem, "deadline", "stop")
  /\ UNCHANGED <<fileVars, seen, after, broken, dockerVars, worldVars, counters>>

\* Mutant: a stop that docker has refused is not dispatched again.
StopDueOnce == stopRequested /\ ~ mem.stop

StopDue == stopRequested /\ (~ mem.stop \/ mem.stopOutcome = "failed")

\* Mutant: the stop is dispatched with the receipt still standing.
IntendStopReady ==
  /\ StopDue /\ Goto("stop", "halt")
  /\ Persist([mem EXCEPT !.stop = TRUE, !.mapped = FALSE, !.state = "OTHER"])
  /\ UNCHANGED <<fileVars, procVars, dockerVars, worldVars, counters>>

IntendStop ==
  /\ StopDue /\ Goto("stop", "withdraw")
  /\ Persist([mem EXCEPT !.stop = TRUE, !.mapped = FALSE, !.state = "OTHER"])
  /\ UNCHANGED <<fileVars, procVars, dockerVars, worldVars, counters>>

WithdrawReceipt ==
  /\ Goto("withdraw", "halt") /\ receipt' = "UNQUALIFIED"
  /\ UNCHANGED <<disk, mem, first, stopFile, attested, procVars, dockerVars, worldVars, counters>>

DispatchStop ==
  /\ Goto("halt", "tick")
  /\ ops' = ops \union {"stop"} /\ stopClient' = "pending"
  /\ UNCHANGED <<disk, mem, fileVars, procVars, container, failed, worldVars, counters>>

StopRaises ==
  /\ pc = "halt" /\ Trouble("popen") /\ TickRaises(mem)
  /\ UNCHANGED <<fileVars, seen, after, broken, dockerVars, worldVars, crashes>>

----
\* post_exit

ForgetMapping ==
  /\ mem.mapped /\ Goto("exit", "exited")
  /\ Persist([mem EXCEPT !.mapped = FALSE])
  /\ UNCHANGED <<fileVars, procVars, dockerVars, worldVars, counters>>

RevokeAtExit ==
  /\ Goto("exited", "exit code") /\ receipt' = "UNQUALIFIED"
  /\ UNCHANGED <<disk, mem, first, stopFile, attested, procVars, dockerVars, worldVars, counters>>

NothingMapped ==
  /\ ~ mem.mapped /\ Goto("exit", "exit code")
  /\ UNCHANGED <<disk, mem, fileVars, procVars, dockerVars, worldVars, counters>>

\* The forced monitor pass follows either way.
CheckExitCode ==
  /\ pc = "exit code" /\ after' = "observe" /\ broken' = FALSE
  /\ IF seen = "exited" /\ failed /\ ~ mem.exitRecorded
     THEN Incident("exit code", FALSE, mem, "exit code", "kernel")
     ELSE pc' = "kernel" /\ UNCHANGED <<disk, mem, stopRequested, window, report>>
  /\ UNCHANGED <<fileVars, seen, dockerVars, worldVars, counters>>

\* A compute process or memory that has not come back.
NotIdle ==
  /\ pc = "observe"
  /\ Trouble("busy") \/ (Running(container) /\ UNCHANGED troubles)
  /\ Incident("post-exit", FALSE, mem, "quarantine", "tick")
  /\ UNCHANGED <<fileVars, seen, after, broken, dockerVars, worldVars, crashes>>

Settling ==
  /\ ~ mem.hardware /\ Goto("observe", "tick") /\ Trouble("settling")
  /\ window' = NoWindow /\ Persist([mem EXCEPT !.state = "OTHER"])
  /\ UNCHANGED <<fileVars, stopRequested, seen, monitorVars, dockerVars, worldVars, crashes>>

HardwareLatched ==
  /\ mem.hardware /\ ~ Running(container) /\ Goto("observe", "tick")
  /\ Persist([mem EXCEPT !.state = "OTHER"])
  /\ UNCHANGED <<fileVars, procVars, dockerVars, worldVars, counters>>

\* One clean sample, gap after the last one; more than two units apart starts again.
\* Counting stops at what is required.
Sampled(gap) ==
  IF window.samples = 0 \/ gap > 2 THEN [samples |-> 1, elapsed |-> 0]
  ELSE [samples |-> IF window.samples < 3 THEN window.samples + 1 ELSE 3,
        elapsed |-> IF window.elapsed + gap < 2 THEN window.elapsed + gap ELSE 2]

Complete(w) == w.elapsed >= 2 /\ w.samples >= 3

\* Mutant: clean samples outlive the latch.
CleanSampleLatched ==
  /\ pc = "observe" /\ ~ Running(container)
  /\ \E gap \in 0 .. MaxGap : window' = Sampled(gap)
  /\ IF Complete(window')
     THEN pc' = "release" /\ Persist([mem EXCEPT !.state = "OTHER", !.cleanup = TRUE])
     ELSE pc' = "tick" /\ Persist([mem EXCEPT !.state = "OBSERVING"])
  /\ UNCHANGED <<fileVars, stopRequested, seen, monitorVars, dockerVars, worldVars, counters>>

CleanSample ==
  /\ pc = "observe" /\ ~ mem.hardware /\ ~ Running(container)
  /\ \E gap \in 0 .. MaxGap : window' = Sampled(gap)
  /\ IF Complete(window')
     THEN pc' = "release" /\ Persist([mem EXCEPT !.state = "OTHER", !.cleanup = TRUE])
     ELSE pc' = "tick" /\ Persist([mem EXCEPT !.state = "OBSERVING"])
  /\ UNCHANGED <<fileVars, stopRequested, seen, monitorVars, dockerVars, worldVars, counters>>

Release ==
  /\ Goto("release", "released") /\ receipt' = "UNQUALIFIED"
  /\ UNCHANGED <<disk, mem, first, stopFile, attested, procVars, dockerVars, worldVars, counters>>

----
\* Crash and launcher.run's resume

\* The process dies between any two actions.  Its clients die with it; the daemon keeps
\* what it was told.
Crash ==
  /\ Alive /\ crashes < MaxCrashes /\ crashes' = crashes + 1
  /\ pc' = "down" /\ mem' = disk
  /\ stopRequested' = FALSE /\ seen' = "none" /\ window' = NoWindow
  /\ after' = "tick" /\ broken' = FALSE /\ report' = NoReport
  /\ stopClient' = "none"
  /\ UNCHANGED <<disk, fileVars, container, failed, ops, worldVars, troubles>>

\* Mutant: the resumed supervisor takes the stop of its predecessor for its own.
ResumedStopping == [disk EXCEPT !.hardware = @ \/ first = "hardware"]

\* resume reconciles this run and stops it; it never begins or starts anything.
Resumed == [disk EXCEPT !.stop = FALSE, !.hardware = @ \/ first = "hardware"]

Resume ==
  /\ disk.create /\ Goto("down", "tick")
  /\ mem' = Resumed /\ stopRequested' = TRUE
  /\ UNCHANGED <<disk, fileVars, seen, monitorVars, window, dockerVars, worldVars, counters>>

----
\* The Docker daemon and the container

Executes(op) == op \in ops /\ ops' = ops \ {op}

DaemonCreates ==
  /\ Executes("create") /\ container = "none"
  /\ container' = "created"
  /\ UNCHANGED <<disk, fileVars, pc, mem, procVars, failed, stopClient, worldVars, counters>>

DaemonStarts ==
  /\ Executes("start") /\ container = "created"
  /\ container' = "starting"
  /\ UNCHANGED <<disk, fileVars, pc, mem, procVars, failed, stopClient, worldVars, counters>>

\* docker stop --timeout -1: one SIGTERM, and no kill.  Before the server has installed
\* its handlers the signal may be consumed by the initialization.
DaemonStops ==
  /\ Executes("stop")
  /\ container' \in IF container = "starting" THEN {"starting", "stopping"}
                    ELSE IF container = "serving" THEN {"stopping"} ELSE {container}
  /\ UNCHANGED <<disk, fileVars, pc, mem, procVars, failed, stopClient, worldVars, counters>>

DaemonRefuses ==
  /\ Trouble("refuse")
  /\ \E op \in ops :
       /\ ops' = ops \ {op}
       /\ stopClient' = IF op = "stop" /\ stopClient = "pending" THEN "failed" ELSE stopClient
  /\ UNCHANGED <<disk, fileVars, pc, mem, procVars, container, failed, worldVars, crashes>>

\* docker stop returns when the container has exited.
StopClientEnds ==
  /\ stopClient = "pending" /\ "stop" \notin ops /\ ~ Running(container)
  /\ stopClient' = "ok"
  /\ UNCHANGED <<disk, fileVars, pc, mem, procVars, container, failed, ops, worldVars, counters>>

Boots ==
  /\ container = "starting" /\ container' = "serving"
  /\ UNCHANGED <<disk, fileVars, pc, mem, procVars, failed, ops, stopClient, worldVars, counters>>

Exits ==
  /\ container = "stopping" /\ container' = "exited"
  /\ UNCHANGED <<disk, fileVars, pc, mem, procVars, failed, ops, stopClient, worldVars, counters>>

\* With exit code 0 or another.
EndsByItself ==
  /\ container \in {"starting", "serving"} /\ Trouble("exit")
  /\ container' = "exited" /\ failed' \in BOOLEAN
  /\ UNCHANGED <<disk, fileVars, pc, mem, procVars, ops, stopClient, worldVars, crashes>>

----
\* The kernel, the inspector, systemd and owned-stop

KernelFault ==
  /\ faults < MaxFaults /\ faults' = faults + 1
  /\ UNCHANGED <<disk, fileVars, pc, mem, procVars, dockerVars, readFaults, waiting, retried, busy,
                 counters>>

Attest ==
  /\ container = "serving" /\ ~ attested /\ attested' = TRUE
  /\ UNCHANGED <<disk, receipt, first, stopFile, pc, mem, procVars, dockerVars, worldVars,
                 counters>>

\* The process that systemd started for the unit is the supervisor of this container; a
\* resumed one is another process.
Original == Alive /\ crashes = 0

\* launcher.py stop writes the request and returns.
StopByHand ==
  /\ disk.create /\ ~ stopFile /\ stopFile' = TRUE
  /\ UNCHANGED <<disk, receipt, first, attested, pc, mem, procVars, dockerVars, worldVars,
                 counters>>

\* ExecStop of the unit, run when it is stopped or its process has died, or by hand:
\* owned-stop writes the request and stays to follow the stop.
OwnedStop ==
  /\ disk.create /\ ~ waiting
  /\ stopFile' = TRUE /\ waiting' = TRUE
  /\ UNCHANGED <<disk, receipt, first, attested, pc, mem, procVars, dockerVars, faults, readFaults,
                 retried, busy, counters>>

RequestStop == StopByHand \/ OwnedStop

\* Requests arrive at the server and are answered; an owned-stop process is who looks.
Load ==
  /\ container = "serving" /\ waiting /\ busy' = ~ busy
  /\ UNCHANGED <<disk, fileVars, pc, mem, procVars, dockerVars, faults, readFaults, waiting,
                 retried, counters>>

Signal ==
  /\ Alive /\ ~ stopRequested /\ stopRequested' = TRUE
  /\ UNCHANGED <<disk, fileVars, pc, mem, seen, monitorVars, window, dockerVars, worldVars,
                 counters>>

\* Mutant: the retry is refused once the stop has been dispatched.
RetryBeforeStop ==
  /\ waiting /\ ~ retried
  /\ ~ disk.stop /\ ~ disk.cleanup /\ ~ disk.hardware

\* retry_eligible, in the loop of an owned-stop process.
RetryEligible ==
  /\ waiting /\ ~ retried
  /\ disk.stop /\ ~ disk.cleanup /\ ~ disk.hardware

\* The one SIGTERM, recorded before it is sent.  docker kill may fail, and is not repeated.
RetryStop ==
  /\ RetryEligible /\ Original /\ container = "serving" /\ ~ busy
  /\ retried' = TRUE
  /\ \/ container' = "stopping" /\ UNCHANGED troubles
     \/ Trouble("refuse") /\ UNCHANGED container
  /\ UNCHANGED <<disk, fileVars, pc, mem, procVars, failed, ops, stopClient, faults, readFaults,
                 waiting, busy, crashes>>

\* owned-stop ends when the clean-up is verified, and raises when the supervisor is not the
\* unit's process any more or a docker inspect of its own fails.
OwnedStopEnds ==
  /\ waiting /\ waiting' = FALSE
  /\ \/ (disk.cleanup \/ (RetryEligible /\ ~ Original)) /\ UNCHANGED troubles
     \/ RetryEligible /\ Trouble("inspect")
  /\ UNCHANGED <<disk, fileVars, pc, mem, procVars, dockerVars, faults, readFaults, retried, busy,
                 crashes>>

----
SupervisorStep ==
  \/ RecordFirst \/ RevokeReceipt \/ Mark \/ BeginStopped \/ Begin \/ DispatchCreate \/ Tick
  \/ ReadJournal \/ AdvanceCursor \/ ChannelsClear \/ Monitored \/ MonitorRaises
  \/ ObserveRunning \/ IntendStart \/ DispatchStart \/ DecideExit \/ StartUncertain
  \/ NothingToPublish \/ ValidateMapping \/ RecordMapping \/ MappingRejected \/ MappingBlocked
  \/ AnnounceReady \/ WithdrawMapping \/ ReadyStands \/ ReadyBlocked \/ Unready
  \/ NoStopDue \/ IntendStop \/ WithdrawReceipt \/ DispatchStop
  \/ ForgetMapping \/ RevokeAtExit \/ NothingMapped \/ CheckExitCode
  \/ HardwareLatched \/ CleanSample \/ Release

TroubleStep ==
  \/ CreateRaises \/ InspectFails \/ JournalFails \/ ChannelFails \/ HardwareDiffers
  \/ ContainerLogsError \/ StartRaises \/ StopRaises \/ StopOverdue \/ NotIdle \/ Settling

DaemonStep == DaemonCreates \/ DaemonStarts \/ DaemonStops \/ StopClientEnds

WorldStep ==
  \/ DaemonRefuses \/ Boots \/ Exits \/ EndsByItself \/ KernelFault \/ Attest
  \/ RequestStop \/ Signal \/ Load \/ RetryStop \/ OwnedStopEnds

Next == SupervisorStep \/ TroubleStep \/ DaemonStep \/ WorldStep \/ Crash \/ Resume

Spec == Init /\ [][Next]_vars

\* The loop ticks every two seconds, the daemon answers, a container boots and ends after
\* SIGTERM, the retry of a failed stop comes due, the monitor, which only a pass less than
\* three seconds old holds back, runs on some tick, and an owned-stop process looks again
\* every two seconds.
Fairness ==
  /\ WF_vars(SupervisorStep) /\ WF_vars(DaemonStep) /\ WF_vars(Boots) /\ WF_vars(Exits)
  /\ WF_vars(RetryStop) /\ SF_vars(IntendStop) /\ SF_vars(Tick /\ pc' = "kernel")
FairSpec == Spec /\ Fairness

----
\* Properties

TypeOK ==
  /\ disk \in Intents /\ mem \in Intents
  /\ receipt \in {"none", "READY", "UNQUALIFIED"} /\ first \in {"none", "soft", "hardware"}
  /\ stopFile \in BOOLEAN /\ attested \in BOOLEAN
  /\ pc \in Places /\ stopRequested \in BOOLEAN
  /\ container \in {"none", "created", "starting", "serving", "stopping", "exited"}
  /\ seen \in {"none", "created", "starting", "serving", "stopping", "exited"}
  /\ after \in {"tick", "decide", "fresh", "observe"} /\ broken \in BOOLEAN
  /\ report \in [hardware : BOOLEAN, fresh : BOOLEAN, next : Places,
                 mark : {"none", "quarantine", "exit code", "deadline"}]
  /\ window \in [samples : 0 .. 3, elapsed : 0 .. 2]
  /\ failed \in BOOLEAN /\ ops \subseteq {"create", "start", "stop"}
  /\ stopClient \in {"none", "pending", "ok", "failed"}
  /\ faults \in Nat /\ readFaults \in Nat
  /\ waiting \in BOOLEAN /\ retried \in BOOLEAN /\ busy \in BOOLEAN
  /\ troubles \in Nat /\ crashes \in Nat

\* The supervisor owns one container for one run: whatever commands are lost, late or
\* refused, and wherever it crashes and is resumed, the container runs once, and the
\* claim is never released while it runs or can still come to run.
Life ==
  IF ~ disk.create THEN "unclaimed"
  ELSE IF Running(container) THEN "running"
  ELSE IF container = "exited" THEN "over" ELSE "claimed"
Hold ==
  IF pc = "down" THEN "orphaned" ELSE IF pc = "released" THEN "released" ELSE "held"
Owned == INSTANCE OwnedContainer WITH life <- Life, claim <- Hold
ImplementsOwned == Owned!Spec

\* "a crash repeats records instead of losing the first kernel fault": once a read of the
\* journal has returned a fault, no crash, resume or clean sample leads to a release.
FaultHeld == pc = "released" => readFaults = 0

\* The durable cursor never passes a fault that is not latched durably.
CursorBehindLatch == disk.cursor > 0 => disk.hardware

\* The receipt is withdrawn before the stop is dispatched and stays withdrawn, so that
\* nothing is admitted to a container on its way down.  (Owned-stop, whose clock is its
\* own, may send its SIGTERM between the stop intent and the withdrawal.)
RevokedBeforeStop ==
  "stop" \in ops \/ (container = "stopping" /\ ~ retried) => receipt # "READY"

\* An incident revokes the receipt, whatever it interrupts: as long as the supervisor has
\* not crashed between the two writes, a READY receipt at the head of a tick means that no
\* incident has been recorded.
ReceiptFollowsIncident == pc = "tick" /\ receipt = "READY" => first = "none" /\ ~ mem.failure

\* While the post-exit window runs no READY receipt is left for admission, as long as the
\* supervisor has not crashed: the mapping is forgotten durably before the receipt falls,
\* and a supervisor that is resumed in between finds nothing mapped and leaves READY.
ExitRevokes == disk.state = "OBSERVING" => receipt # "READY"

\* Once a stop has been dispatched, or the supervisor has been resumed, a running container
\* never waits for a stop that nobody pursues: it is due, being dispatched, or with a docker
\* client of this very process - unless a tick raised, as it does when the client cannot be
\* started.  The mark of a supervisor that crashed, whose client died with it, is not taken
\* for a stop under way (launcher.py:313-314, supervisor.py:437-454).
StopFollowed ==
  Alive /\ Running(container) /\ (mem.stop \/ crashes > 0) =>
    \/ StopDue \/ pc \in {"withdraw", "halt"} \/ stopClient # "none"
    \/ "exception" \in mem.counted

\* docker stop waits, without a limit, for a container that has not heard its SIGTERM.
SignalLost ==
  stopClient = "pending" /\ "stop" \notin ops /\ container \in {"starting", "serving"}

\* A stop that was asked for by a request file or a signal, or that an incident calls for,
\* ends the container, though docker stop may be refused and come due again - if its client
\* can be started at all (a dispatch that raises is recorded as made, and not repeated).
\* The one exception is a SIGTERM lost at start-up.
StopCompletes ==
  (stopFile \/ stopRequested \/ disk.failure) /\ Running(container) ~>
    container = "exited" \/ SignalLost

\* The one SIGTERM of owned-stop has been spent in vain.
RetryFailed == retried /\ container = "serving"

\* A SIGTERM lost at start-up does not leave the container running for good while an
\* owned-stop process follows the stop and the server comes to rest: the second one
\* comes, once, unless a latched hardware fault forbids it.
LostStopRetried ==
  <>[]~ busy =>
    (SignalLost /\ waiting ~> container = "exited" \/ disk.hardware \/ ~ waiting \/ RetryFailed)

\* A kernel fault under a running container is latched durably, in the loop or after the
\* exit: no run of clean samples reaches the release before the journal is read again.
FaultLatched == faults > 0 /\ Running(container) ~> disk.hardware
===============================================================================
