---------------------------- MODULE BroadcastRing -----------------------------
(***************************************************************************)
(* MessageQueue over ShmRingBuffer: one writer and its local readers share *)
(* a ring of slots, each with a chunk of data, a written flag and one read *)
(* flag per reader.  There is no lock: the order in which the two sides    *)
(* read and write those flags is the whole protocol, so every access of a  *)
(* flag by one side that the other side can tell apart is an action.  The  *)
(* memory fences make the accesses sequentially consistent.                *)
(*                                                                         *)
(* A message is its number in the order of writing.  A message too large   *)
(* for its chunk (Large) leaves only a mark in the slot and travels over a *)
(* publish-subscribe socket, where a message sent before a reader has      *)
(* subscribed is lost to it.  Notifications of idle readers may be lost.   *)
(* Not modelled: remote readers (a socket only, unused on one node).       *)
(***************************************************************************)
EXTENDS Naturals, Sequences

CONSTANTS
  Readers,
  Slots,         \* max_chunks
  Large,         \* messages that overflow their chunk
  Faults,        \* which of FaultKinds may happen
  MaxMessages, MaxFaults   \* bounds

\* The writer's deadline passes; the caller's write or read inside the slot raises; the
\* reader's deadline passes before the slot is readable, or while it waits for the
\* payload; a process dies.
FaultKinds == {"write timeout", "write raises", "read raises", "read timeout",
               "payload timeout", "reader death", "writer death"}

ASSUME RingConstants ==
  /\ Slots \in Nat \ {0} /\ MaxMessages \in Nat /\ MaxFaults \in Nat
  /\ Large \subseteq Nat \ {0} /\ Faults \subseteq FaultKinds

VARIABLES
  \* shared memory
  written,     \* slot -> written_flag
  read,        \* slot -> reader -> its read flag
  chunk,       \* slot -> the message in its data, 0 for nothing complete
  \* sockets
  subscribed,  \* readers whose subscription has reached local_socket
  payloads,    \* reader -> what local_socket holds for it; Ready is the READY message
  notified,    \* readers with a pending notification
  \* the writer
  wAt, wIdx, published,
  \* the readers
  rAt, rIdx,
  taken,       \* reader -> slots it has marked as read
  got,         \* reader -> what each dequeue that consumed a slot ended with
  stopping,    \* readers on which shutdown() was called
  faults

memoryVars == <<written, read, chunk>>
socketVars == <<subscribed, payloads, notified>>
writerVars == <<wAt, wIdx, published>>
readerVars == <<rAt, rIdx, taken, got, stopping>>
vars == <<memoryVars, socketVars, writerVars, readerVars, faults>>

SlotSet == 0 .. Slots - 1

NextSlot(i) == IF i + 1 = Slots THEN 0 ELSE i + 1
Failed == 0     \* outcome of a dequeue that raised after its slot was consumed
Ready == 0

\* Writer: wait_until_ready; outside enqueue; in acquire_write's loop; the slot is the
\* caller's; the flags are being reset; the payload is due; the notification is due.
WriterPlaces == {"joining", "idle", "check", "write", "reset", "payload", "notify", "dead"}
\* Reader: not subscribed; wait_until_ready; outside dequeue; about to read its own flag;
\* has read it as 0; the check failed; in poll; inside the slot; in recv; raised
\* "cancelled".
ReaderPlaces == {"connecting", "joining", "idle", "check", "flagged", "wait", "parked",
                 "reading", "recv", "cancelled", "dead"}
Gone(r) == rAt[r] \in {"cancelled", "dead"}

Init ==
  /\ written = [s \in SlotSet |-> FALSE]
  /\ read = [s \in SlotSet |-> [r \in Readers |-> FALSE]]
  /\ chunk = [s \in SlotSet |-> 0]
  /\ subscribed = {} /\ payloads = [r \in Readers |-> <<>>] /\ notified = {}
  /\ wAt = "joining" /\ wIdx = 0 /\ published = 0
  /\ rAt = [r \in Readers |-> "connecting"] /\ rIdx = [r \in Readers |-> 0]
  /\ taken = [r \in Readers |-> 0] /\ got = [r \in Readers |-> <<>>]
  /\ stopping = {} /\ faults = 0

Fault(kind) == kind \in Faults /\ faults < MaxFaults /\ faults' = faults + 1

----
\* The writer

\* local_socket.send: only those already subscribed will see the message.
Broadcast(m) ==
  payloads' = [r \in Readers |-> IF r \in subscribed THEN Append(payloads[r], m)
                                                     ELSE payloads[r]]

\* Mutant: one subscription is enough.
SomeSubscribed == subscribed # {}

\* wait_until_ready: one subscription received per local reader, then READY.
AllSubscribed == subscribed = Readers

WriterReady ==
  /\ wAt = "joining" /\ AllSubscribed
  /\ Broadcast(Ready) /\ wAt' = "idle"
  /\ UNCHANGED <<memoryVars, subscribed, notified, wIdx, published, readerVars, faults>>

Enqueue ==
  /\ wAt = "idle" /\ published < MaxMessages
  /\ wAt' = "check"
  /\ UNCHANGED <<memoryVars, socketVars, wIdx, published, readerVars, faults>>

\* Mutant: the slot is free again as soon as one reader has read it.
WritableOnce(s) == ~ written[s] \/ \E r \in Readers : read[s][r]

\* check(): not written, or every reader flag is set.  Only the writer clears a flag, so
\* its reads of the flags, one after the other, are as good as one.
Writable(s) == ~ written[s] \/ \A r \in Readers : read[s][r]

WriteTimeout ==
  /\ wAt = "check" /\ ~ Writable(wIdx) /\ Fault("write timeout")
  /\ wAt' = "idle"
  /\ UNCHANGED <<memoryVars, socketVars, wIdx, published, readerVars>>

\* Mutant: the written flag is left set while the chunk is filled.
ClaimSlotWritten ==
  /\ wAt = "check" /\ Writable(wIdx)
  /\ wAt' = "write"
  /\ UNCHANGED <<written, read, chunk, socketVars, wIdx, published, readerVars, faults>>

ClaimSlot ==
  /\ wAt = "check" /\ Writable(wIdx)
  /\ written' = [written EXCEPT ![wIdx] = FALSE] /\ wAt' = "write"
  /\ UNCHANGED <<read, chunk, socketVars, wIdx, published, readerVars, faults>>

WriteChunk ==
  /\ wAt = "write"
  /\ chunk' = [chunk EXCEPT ![wIdx] = published + 1] /\ wAt' = "reset"
  /\ UNCHANGED <<written, read, socketVars, wIdx, published, readerVars, faults>>

\* The body of `with acquire_write` raises: the slot stays unwritten and is next again.
WriteRaises ==
  /\ wAt = "write" /\ Fault("write raises")
  /\ chunk' = [chunk EXCEPT ![wIdx] = 0] /\ wAt' = "idle"
  /\ UNCHANGED <<written, read, socketVars, wIdx, published, readerVars>>

\* One iteration of the loop that resets the read flags; which is first does not matter.
ResetFlag ==
  /\ wAt = "reset"
  /\ \E r \in Readers :
       read[wIdx][r] /\ read' = [read EXCEPT ![wIdx] = [@ EXCEPT ![r] = FALSE]]
  /\ UNCHANGED <<written, chunk, socketVars, writerVars, readerVars, faults>>

FlagsReset == \A r \in Readers : ~ read[wIdx][r]

PublishSlot ==
  /\ wAt = "reset" /\ FlagsReset
  /\ written' = [written EXCEPT ![wIdx] = TRUE]
  /\ wIdx' = NextSlot(wIdx) /\ published' = published + 1
  /\ wAt' = IF published' \in Large THEN "payload" ELSE "notify"
  /\ UNCHANGED <<read, chunk, socketVars, readerVars, faults>>

SendPayload ==
  /\ wAt = "payload"
  /\ Broadcast(published) /\ wAt' = "notify"
  /\ UNCHANGED <<memoryVars, subscribed, notified, wIdx, published, readerVars, faults>>

\* A notification reaches any of the readers, or none.
Notify ==
  /\ wAt = "notify"
  /\ \E S \in SUBSET Readers : notified' = notified \union S
  /\ wAt' = "idle"
  /\ UNCHANGED <<memoryVars, subscribed, payloads, wIdx, published, readerVars, faults>>

WriterDies ==
  /\ wAt \notin {"joining", "dead"} /\ Fault("writer death")
  /\ wAt' = "dead"
  /\ UNCHANGED <<memoryVars, socketVars, wIdx, published, readerVars>>

WriterStep ==
  \/ WriterReady \/ ClaimSlot \/ WriteChunk \/ ResetFlag \/ PublishSlot
  \/ SendPayload \/ Notify

----
\* The readers

Goto(r, from, to) == rAt[r] = from /\ rAt' = [rAt EXCEPT ![r] = to]

Connect(r) ==
  /\ Goto(r, "connecting", "joining") /\ subscribed' = subscribed \union {r}
  /\ UNCHANGED <<memoryVars, payloads, notified, writerVars, rIdx, taken, got, stopping, faults>>

ReaderReady(r) ==
  /\ Goto(r, "joining", "idle")
  /\ payloads[r] # <<>> /\ payloads' = [payloads EXCEPT ![r] = Tail(@)]
  /\ UNCHANGED <<memoryVars, subscribed, notified, writerVars, rIdx, taken, got, stopping, faults>>

Dequeue(r) ==
  /\ Goto(r, "idle", "check")
  /\ UNCHANGED <<memoryVars, socketVars, writerVars, rIdx, taken, got, stopping, faults>>

\* check() reads its own flag first and the written flag second.
ReadFlag(r) ==
  /\ Goto(r, "check", IF read[rIdx[r]][r] THEN "wait" ELSE "flagged")
  /\ UNCHANGED <<memoryVars, socketVars, writerVars, rIdx, taken, got, stopping, faults>>

ReadWritten(r) ==
  /\ Goto(r, "flagged", IF written[rIdx[r]] THEN "reading" ELSE "wait")
  /\ UNCHANGED <<memoryVars, socketVars, writerVars, rIdx, taken, got, stopping, faults>>

\* Mutant: shutting_down is not looked at.
AfterWaitAgain(r) == "check"

\* SpinCondition.wait: a reader that read recently yields, another polls its sockets.
\* Either way it sees shutting_down next.
AfterWait(r) == IF r \in stopping THEN "cancelled" ELSE "check"

Spin(r) ==
  /\ Goto(r, "wait", AfterWait(r))
  /\ UNCHANGED <<memoryVars, socketVars, writerVars, rIdx, taken, got, stopping, faults>>

Park(r) ==
  /\ Goto(r, "wait", "parked")
  /\ UNCHANGED <<memoryVars, socketVars, writerVars, rIdx, taken, got, stopping, faults>>

\* Mutant: the poll waits for a notification without the recheck.
PollEndsNotified(r) == r \in stopping \/ r \in notified

\* The poll ends: by a cancellation, a notification, or because the recheck interval has
\* passed, which may be at any time.
PollEnds(r) == TRUE

Wake(r) ==
  /\ PollEnds(r) /\ Goto(r, "parked", AfterWait(r))
  /\ notified' = IF r \in stopping THEN notified ELSE notified \ {r}
  /\ UNCHANGED <<memoryVars, subscribed, payloads, writerVars, rIdx, taken, got, stopping, faults>>

ReadTimeout(r) ==
  /\ Goto(r, "wait", "idle") /\ Fault("read timeout")
  /\ UNCHANGED <<memoryVars, socketVars, writerVars, rIdx, taken, got, stopping>>

\* Mutant: the reader goes on without marking the slot.
ConsumeUnmarked(r) ==
  /\ rIdx' = [rIdx EXCEPT ![r] = NextSlot(@)]
  /\ taken' = [taken EXCEPT ![r] = @ + 1]
  /\ UNCHANGED read

\* The finally clause of acquire_read: mark the slot, go to the next.
Consume(r) ==
  /\ read' = [read EXCEPT ![rIdx[r]] = [@ EXCEPT ![r] = TRUE]]
  /\ rIdx' = [rIdx EXCEPT ![r] = NextSlot(@)]
  /\ taken' = [taken EXCEPT ![r] = @ + 1]

Outcome(r, m) == got' = [got EXCEPT ![r] = Append(@, m)]

FinishRead(r) ==
  /\ chunk[rIdx[r]] \notin Large /\ Goto(r, "reading", "idle")
  /\ Consume(r) /\ Outcome(r, chunk[rIdx[r]])
  /\ UNCHANGED <<written, chunk, socketVars, writerVars, stopping, faults>>

FinishOverflow(r) ==
  /\ chunk[rIdx[r]] \in Large /\ Goto(r, "reading", "recv")
  /\ Consume(r)
  /\ UNCHANGED <<written, chunk, socketVars, writerVars, got, stopping, faults>>

ReadRaises(r) ==
  /\ chunk[rIdx[r]] \notin Large /\ Goto(r, "reading", "idle") /\ Fault("read raises")
  /\ Consume(r) /\ Outcome(r, Failed)
  /\ UNCHANGED <<written, chunk, socketVars, writerVars, stopping>>

\* MessageQueue.recv on local_socket: it does not look at shutting_down.
Recv(r) ==
  /\ payloads[r] # <<>> /\ Goto(r, "recv", "idle")
  /\ Outcome(r, Head(payloads[r])) /\ payloads' = [payloads EXCEPT ![r] = Tail(@)]
  /\ UNCHANGED <<memoryVars, subscribed, notified, writerVars, rIdx, taken, stopping, faults>>

PayloadTimeout(r) ==
  /\ payloads[r] = <<>> /\ Goto(r, "recv", "idle") /\ Fault("payload timeout")
  /\ Outcome(r, Failed)
  /\ UNCHANGED <<memoryVars, socketVars, writerVars, rIdx, taken, stopping>>

\* shutdown(), from another thread of the reader's process.
Shutdown(r) ==
  /\ r \notin stopping /\ rAt[r] \notin {"connecting", "joining"} /\ ~ Gone(r)
  /\ stopping' = stopping \union {r}
  /\ UNCHANGED <<memoryVars, socketVars, writerVars, rAt, rIdx, taken, got, faults>>

ReaderDies(r) ==
  /\ ~ Gone(r) /\ rAt[r] \notin {"connecting", "joining"} /\ Fault("reader death")
  /\ rAt' = [rAt EXCEPT ![r] = "dead"]
  /\ UNCHANGED <<memoryVars, socketVars, writerVars, rIdx, taken, got, stopping>>

ReaderStep(r) ==
  \/ Connect(r) \/ ReaderReady(r) \/ Dequeue(r) \/ ReadFlag(r) \/ ReadWritten(r)
  \/ Spin(r) \/ Park(r) \/ Wake(r) \/ FinishRead(r) \/ FinishOverflow(r) \/ Recv(r)

----
Next ==
  \/ WriterStep \/ Enqueue \/ WriteTimeout \/ WriteRaises \/ WriterDies
  \/ \E r \in Readers :
       \/ ReaderStep(r) \/ ReadTimeout(r) \/ ReadRaises(r) \/ PayloadTimeout(r)
       \/ Shutdown(r) \/ ReaderDies(r)

Spec == Init /\ [][Next]_vars

\* A process that runs goes on: the writer inside enqueue, a reader in its loop.
Fairness == WF_vars(WriterStep) /\ \A r \in Readers : WF_vars(ReaderStep(r))
FairSpec == Spec /\ Fairness

----
\* Properties

TypeOK ==
  /\ written \in [SlotSet -> BOOLEAN]
  /\ read \in [SlotSet -> [Readers -> BOOLEAN]]
  /\ chunk \in [SlotSet -> Nat]
  /\ subscribed \subseteq Readers /\ notified \subseteq Readers
  /\ payloads \in [Readers -> Seq(Nat)]
  /\ wAt \in WriterPlaces /\ wIdx \in SlotSet /\ published \in Nat
  /\ rAt \in [Readers -> ReaderPlaces] /\ rIdx \in [Readers -> SlotSet]
  /\ taken \in [Readers -> Nat] /\ got \in [Readers -> Seq(Nat)]
  /\ stopping \subseteq Readers /\ faults \in Nat

\* A reader is never inside the slot that the writer is filling, and what it reads is
\* the message it expects next, complete: the lock-free order of flag accesses in
\* acquire_write and acquire_read is enough, at every lap of the ring, whatever raises
\* inside a slot and whoever dies.
NoTornRead == \A r \in Readers : rAt[r] = "reading" =>
  /\ ~ (wAt \in {"write", "reset"} /\ rIdx[r] = wIdx)
  /\ chunk[rIdx[r]] = taken[r] + 1

\* Every dequeue that consumed a slot returned that slot's message or raised: small
\* messages through the ring and large ones through the socket never change places.
InOrder == \A r \in Readers : \A i \in DOMAIN got[r] : got[r][i] \in {i, Failed}

\* The ring is a bounded broadcast queue: nothing is dropped or read twice, and the
\* writer never laps a reader, a dead one included.
Queue == INSTANCE BroadcastQueue WITH Capacity <- Slots
ImplementsQueue == Queue!Spec

\* Every reader that goes on takes every published message, though its notification was
\* lost and though another reader has died or stopped.
Delivered == \A r \in Readers : \A k \in 1 .. MaxMessages :
  published >= k ~> taken[r] >= k \/ Gone(r)

\* An enqueue ends unless a reader has gone: only the writer pays for a reader that
\* has stopped.
EnqueueEnds == wAt = "check" ~> wAt # "check" \/ \E r \in Readers : Gone(r)

\* shutdown() wakes the reader so that it can clean up: its loop ends.
ShutdownEnds == \A r \in Readers : r \in stopping ~> Gone(r)
===============================================================================
