------------------------- MODULE BroadcastRing_proofs -------------------------
(***************************************************************************)
(* Proofs about BroadcastRing, for every set of readers, every number of   *)
(* slots, every choice of overflowing messages and of faults.              *)
(*                                                                         *)
(* The flags alone do not say which message a slot holds.  The inductive   *)
(* invariant reads that off the writer's position: going round from wIdx,  *)
(* the slots hold the last messages published, oldest first, so that each  *)
(* flag of a slot is a statement about how much its reader has taken.  A   *)
(* second part says what a reader's socket holds: the large messages that  *)
(* were sent and that it has not received, in order, so that the next one  *)
(* is the payload of the slot it has just taken.                           *)
(***************************************************************************)
EXTENDS BroadcastRing, Integers, SequenceTheorems, TLAPS

\* How many slots s is past the writer's position, going round, and so the number of the
\* last message published in s (below 1: none yet).
Ahead(s) == IF s >= wIdx THEN s - wIdx ELSE s + Slots - wIdx
Last(s) == published + 1 + Ahead(s) - Slots

\* A reader is at most a lap behind, at the slot that says how far.
WindowOK(r) ==
  /\ taken[r] <= published /\ published <= taken[r] + Slots
  /\ rIdx[r] = IF published - taken[r] <= wIdx THEN wIdx + taken[r] - published
                                              ELSE wIdx + taken[r] + Slots - published

\* A written slot holds its message and each flag says whether its reader has taken it;
\* a slot other than the writer's that is not written was never written; and a slot the
\* writer has taken back has been taken by every reader.
SlotOK(s) ==
  /\ written[s] =>
       /\ Last(s) >= 1 /\ chunk[s] = Last(s)
       /\ \A r \in Readers : read[s][r] <=> taken[r] >= Last(s)
  /\ ~ written[s] =>
       /\ \A r \in Readers : taken[r] >= Last(s)
       /\ s # wIdx => Last(s) < 1 /\ \A r \in Readers : ~ read[s][r]

\* While the slot is the caller's it is not written, and then it holds the next message.
WriterOK ==
  /\ wAt \in {"write", "reset"} => ~ written[wIdx]
  /\ wAt = "reset" => chunk[wIdx] = published + 1

\* A reader that has seen its flag clear, or is inside the slot, can rely on it.
ReaderOK(r) ==
  /\ rAt[r] \in {"flagged", "reading"} => ~ read[rIdx[r]][r]
  /\ rAt[r] = "reading" => written[rIdx[r]]

FlagsInv ==
  /\ TypeOK /\ WriterOK
  /\ \A r \in Readers : WindowOK(r) /\ ReaderOK(r)
  /\ \A s \in SlotSet : SlotOK(s)

\* What travels over the socket, and the first of it that a reader has not yet received.
OnSocket == Large \union {Ready}
Due(r) == IF rAt[r] \in {"connecting", "joining"} THEN 0
          ELSE IF rAt[r] = "recv" THEN taken[r] ELSE taken[r] + 1
Sent(m) == m < published \/ (m = published /\ wAt \notin {"joining", "payload", "dead"})

\* Until the writer is ready nothing moves, and from then on it reaches every reader.
JoinOK ==
  /\ wAt = "joining" =>
       published = 0 /\ \A r \in Readers :
         payloads[r] = <<>> /\ rAt[r] \in {"connecting", "joining"}
  /\ wAt # "joining" => subscribed = Readers
  /\ wAt = "payload" => published \in Large

\* The socket holds, in order, exactly what is due: all that was sent, nothing that was
\* received, and nothing that is still to be sent.
SocketOK(r) ==
  /\ \A i \in 1 .. Len(payloads[r]) :
       /\ payloads[r][i] \in OnSocket /\ Due(r) <= payloads[r][i]
       /\ payloads[r][i] < published \/ (payloads[r][i] = published /\ wAt # "payload")
  /\ \A i, j \in 1 .. Len(payloads[r]) : i < j => payloads[r][i] < payloads[r][j]
  /\ \A m \in OnSocket : Due(r) <= m /\ Sent(m) =>
       \E i \in 1 .. Len(payloads[r]) : payloads[r][i] = m
  /\ wAt = "payload" => Due(r) <= published

\* One outcome per slot taken, except for the message that is being received.
OutcomesOK(r) ==
  /\ rAt[r] \in {"connecting", "joining"} => taken[r] = 0
  /\ Len(got[r]) = IF rAt[r] = "recv" THEN taken[r] - 1 ELSE taken[r]
  /\ rAt[r] = "recv" => taken[r] \in Large

\* A dequeue that gives up on its payload leaves it in the socket, for the next one to
\* take: none of this outlives a payload timeout.
Patient == "payload timeout" \notin Faults
StreamInv ==
  Patient =>
    /\ JoinOK /\ InOrder
    /\ \A r \in Readers : ~ Gone(r) => SocketOK(r) /\ OutcomesOK(r)

RingInv == FlagsInv /\ StreamInv

-------------------------------------------------------------------------------
LEMMA NextSlotType == \A i \in SlotSet : NextSlot(i) \in SlotSet
  BY RingConstants DEF SlotSet, NextSlot

LEMMA BroadcastType ==
  ASSUME TypeOK, NEW m \in Nat, Broadcast(m)
  PROVE  payloads' \in [Readers -> Seq(Nat)]
  BY DEF TypeOK, Broadcast

LEMMA FaultType == \A kind : TypeOK /\ Fault(kind) => faults' \in Nat
  BY DEF TypeOK, Fault

LEMMA OutcomeType ==
  ASSUME TypeOK, NEW r \in Readers, NEW m \in Nat, Outcome(r, m)
  PROVE  got' \in [Readers -> Seq(Nat)]
  BY DEF TypeOK, Outcome

LEMMA ConsumeType ==
  ASSUME TypeOK, NEW r \in Readers, Consume(r)
  PROVE  /\ read' \in [SlotSet -> [Readers -> BOOLEAN]]
         /\ rIdx' \in [Readers -> SlotSet] /\ taken' \in [Readers -> Nat]
  BY NextSlotType DEF TypeOK, Consume

LEMMA TypeInit == Init => TypeOK
  BY RingConstants DEF Init, TypeOK, SlotSet, WriterPlaces, ReaderPlaces

LEMMA TypeWriter ==
  ASSUME TypeOK, WriterStep \/ Enqueue \/ WriteTimeout \/ WriteRaises \/ WriterDies
  PROVE  TypeOK'
<1> USE DEF TypeOK, WriterPlaces, memoryVars, socketVars, writerVars, readerVars
<1>1. CASE WriterReady
  BY <1>1, BroadcastType DEF WriterReady, Ready
<1>2. CASE ClaimSlot
  BY <1>2 DEF ClaimSlot
<1>3. CASE WriteChunk
  BY <1>3 DEF WriteChunk
<1>4. CASE ResetFlag
  BY <1>4 DEF ResetFlag
<1>5. CASE PublishSlot
  BY <1>5, NextSlotType DEF PublishSlot
<1>6. CASE SendPayload
  BY <1>6, BroadcastType DEF SendPayload
<1>7. CASE Notify
  BY <1>7 DEF Notify
<1>8. CASE Enqueue \/ WriteTimeout \/ WriterDies
  BY <1>8, FaultType DEF Enqueue, WriteTimeout, WriterDies
<1>9. CASE WriteRaises
  BY <1>9, FaultType DEF WriteRaises
<1> QED BY <1>1, <1>2, <1>3, <1>4, <1>5, <1>6, <1>7, <1>8, <1>9 DEF WriterStep

LEMMA TypeReader ==
  ASSUME TypeOK, NEW r \in Readers,
         \/ ReaderStep(r) \/ ReadTimeout(r) \/ ReadRaises(r) \/ PayloadTimeout(r)
         \/ Shutdown(r) \/ ReaderDies(r)
  PROVE  TypeOK'
<1> USE DEF TypeOK, ReaderPlaces, Goto, memoryVars, socketVars, writerVars, readerVars
<1>1. CASE Connect(r) \/ Dequeue(r) \/ ReadFlag(r) \/ ReadWritten(r)
  BY <1>1 DEF Connect, Dequeue, ReadFlag, ReadWritten
<1>8. CASE ReaderReady(r)
  <2>1. payloads[r] \in Seq(Nat) /\ payloads[r] # <<>>
    BY <1>8 DEF ReaderReady
  <2>2. Tail(payloads[r]) \in Seq(Nat)
    BY <2>1
  <2> QED BY <1>8, <2>2 DEF ReaderReady
<1>2. CASE Spin(r) \/ Park(r) \/ Wake(r)
  BY <1>2 DEF Spin, Park, Wake, AfterWait
<1>3. CASE FinishRead(r)
  <2>1. chunk[rIdx[r]] \in Nat
    OBVIOUS
  <2> QED BY <1>3, <2>1, ConsumeType, OutcomeType DEF FinishRead
<1>4. CASE FinishOverflow(r)
  BY <1>4, ConsumeType DEF FinishOverflow
<1>5. CASE Recv(r)
  <2>1. payloads[r] \in Seq(Nat) /\ payloads[r] # <<>>
    BY <1>5 DEF Recv
  <2>2. Head(payloads[r]) \in Nat /\ Tail(payloads[r]) \in Seq(Nat)
    BY <2>1
  <2> QED BY <1>5, <2>2 DEF Recv, Outcome
<1>6. CASE ReadRaises(r)
  <2>1. Failed \in Nat /\ got' \in [Readers -> Seq(Nat)]
    BY <1>6, OutcomeType DEF ReadRaises, Failed
  <2> QED BY <1>6, <2>1, ConsumeType, FaultType DEF ReadRaises
<1>9. CASE PayloadTimeout(r)
  <2>1. Failed \in Nat /\ got' \in [Readers -> Seq(Nat)]
    BY <1>9, OutcomeType DEF PayloadTimeout, Failed
  <2> QED BY <1>9, <2>1, FaultType DEF PayloadTimeout
<1>7. CASE ReadTimeout(r) \/ Shutdown(r) \/ ReaderDies(r)
  BY <1>7, FaultType DEF ReadTimeout, Shutdown, ReaderDies
<1> QED BY <1>1, <1>2, <1>3, <1>4, <1>5, <1>6, <1>7, <1>8, <1>9 DEF ReaderStep

LEMMA TypeNext == TypeOK /\ [Next]_vars => TypeOK'
<1> SUFFICES ASSUME TypeOK, [Next]_vars PROVE TypeOK'
  OBVIOUS
<1>1. CASE UNCHANGED vars
  BY <1>1 DEF vars, TypeOK, memoryVars, socketVars, writerVars, readerVars
<1> QED BY <1>1, TypeWriter, TypeReader DEF Next

\* The state stays well typed.
THEOREM TypeCorrect == Spec => []TypeOK
  BY TypeInit, TypeNext, PTL DEF Spec

-------------------------------------------------------------------------------
\* A step that leaves the slots and the positions alone keeps what is said of them.
LEMMA SlotsFrame ==
  ASSUME FlagsInv, TypeOK',
         UNCHANGED <<written, read, chunk, wIdx, published, rIdx, taken>>
  PROVE  /\ \A r \in Readers : WindowOK(r)'
         /\ \A s \in SlotSet : SlotOK(s)'
  BY DEF FlagsInv, WindowOK, SlotOK, Ahead, Last

\* A reader at a clear flag in a written slot expects the message in it.
LEMMA ExpectedMessage ==
  ASSUME FlagsInv, NEW r \in Readers, written[rIdx[r]], ~ read[rIdx[r]][r]
  PROVE  /\ taken[r] < published
         /\ chunk[rIdx[r]] = taken[r] + 1 /\ Last(rIdx[r]) = taken[r] + 1
<1>1. /\ rIdx[r] \in 0 .. Slots - 1 /\ wIdx \in 0 .. Slots - 1
      /\ taken[r] \in Nat /\ published \in Nat /\ Slots \in Nat \ {0}
  BY RingConstants DEF FlagsInv, TypeOK, SlotSet
<1>2. taken[r] < Last(rIdx[r]) /\ chunk[rIdx[r]] = Last(rIdx[r])
  BY <1>1 DEF FlagsInv, TypeOK, SlotOK, Last, Ahead
<1>3. WindowOK(r)
  BY DEF FlagsInv
<1> QED BY <1>1, <1>2, <1>3 DEF WindowOK, Last, Ahead

LEMMA FlagsInit == Init => FlagsInv
<1> SUFFICES ASSUME Init PROVE FlagsInv
  OBVIOUS
<1>1. TypeOK
  BY TypeInit
<1>2. WriterOK
  BY DEF Init, WriterOK
<1>3. \A r \in Readers : WindowOK(r) /\ ReaderOK(r)
  <2> SUFFICES ASSUME NEW r \in Readers PROVE WindowOK(r) /\ ReaderOK(r)
    OBVIOUS
  <2>1. taken[r] = 0 /\ published = 0 /\ rIdx[r] = 0 /\ wIdx = 0 /\ rAt[r] = "connecting"
    BY DEF Init
  <2> QED BY <2>1, RingConstants DEF WindowOK, ReaderOK
<1>4. \A s \in SlotSet : SlotOK(s)
  BY RingConstants DEF Init, SlotOK, Last, Ahead, SlotSet
<1> QED BY <1>1, <1>2, <1>3, <1>4 DEF FlagsInv

LEMMA WriterKeeps ==
  ASSUME FlagsInv, TypeOK',
         WriterStep \/ Enqueue \/ WriteTimeout \/ WriteRaises \/ WriterDies
  PROVE  FlagsInv'
<1> USE DEF memoryVars, socketVars, writerVars, readerVars
<1>0. /\ TypeOK /\ WriterOK /\ wIdx \in SlotSet
      /\ \A r \in Readers : WindowOK(r) /\ ReaderOK(r) /\ rIdx[r] \in SlotSet
      /\ \A s \in SlotSet : SlotOK(s)
  BY DEF FlagsInv, TypeOK
<1>1. CASE WriterReady \/ Enqueue \/ WriteTimeout \/ SendPayload \/ Notify \/ WriterDies
  <2>1. UNCHANGED <<written, read, chunk, wIdx, published, rIdx, taken, rAt>>
    BY <1>1 DEF WriterReady, Enqueue, WriteTimeout, SendPayload, Notify, WriterDies
  <2>2. wAt' \notin {"write", "reset"}
    BY <1>1 DEF WriterReady, Enqueue, WriteTimeout, SendPayload, Notify, WriterDies
  <2> QED BY <1>0, <2>1, <2>2, SlotsFrame DEF FlagsInv, WriterOK, ReaderOK
<1>2. CASE ClaimSlot
  <2>1. \A r \in Readers : WindowOK(r)'
    BY <1>0, <1>2 DEF ClaimSlot, WindowOK
  <2>2. \A r \in Readers : ReaderOK(r)'
    BY <1>0, <1>2 DEF ClaimSlot, ReaderOK, Writable, TypeOK
  <2>3. WriterOK'
    BY <1>0, <1>2 DEF ClaimSlot, WriterOK, TypeOK
  <2>4. \A s \in SlotSet : SlotOK(s)'
    BY <1>0, <1>2 DEF ClaimSlot, SlotOK, Last, Ahead, Writable, TypeOK
  <2> QED BY <2>1, <2>2, <2>3, <2>4 DEF FlagsInv
<1>3. CASE WriteChunk \/ WriteRaises
  <2>1. /\ UNCHANGED <<written, read, wIdx, published, rIdx, taken, rAt>>
        /\ ~ written[wIdx] /\ \A s \in SlotSet \ {wIdx} : chunk'[s] = chunk[s]
        /\ wAt' = "reset" => chunk'[wIdx] = published + 1
    BY <1>0, <1>3 DEF WriteChunk, WriteRaises, WriterOK, TypeOK
  <2>2. wAt' \in {"idle", "reset"}
    BY <1>3 DEF WriteChunk, WriteRaises
  <2>3. \A s \in SlotSet : SlotOK(s)'
    BY <1>0, <2>1 DEF SlotOK, Last, Ahead
  <2> QED BY <1>0, <2>1, <2>2, <2>3 DEF FlagsInv, WriterOK, ReaderOK, WindowOK
<1>4. CASE ResetFlag
  <2>1. /\ UNCHANGED <<written, chunk, wAt, wIdx, published, rIdx, taken, rAt>>
        /\ ~ written[wIdx]
        /\ \A s \in SlotSet \ {wIdx} : read'[s] = read[s]
        /\ \A r \in Readers : read'[wIdx][r] => read[wIdx][r]
    BY <1>0, <1>4 DEF ResetFlag, WriterOK, TypeOK
  <2>2. \A s \in SlotSet : SlotOK(s)'
    BY <1>0, <2>1 DEF SlotOK, Last, Ahead
  <2>3. \A r \in Readers : ReaderOK(r)'
    BY <1>0, <2>1 DEF ReaderOK
  <2> QED BY <1>0, <2>1, <2>2, <2>3 DEF FlagsInv, WriterOK, WindowOK
<1>5. CASE PublishSlot
  <2>1. /\ UNCHANGED <<read, chunk, rIdx, taken, rAt>> /\ published' = published + 1
        /\ wIdx' = NextSlot(wIdx) /\ wAt' \notin {"write", "reset"}
        /\ written' = [written EXCEPT ![wIdx] = TRUE]
        /\ ~ written[wIdx] /\ chunk[wIdx] = published + 1
        /\ \A r \in Readers : ~ read[wIdx][r]
    BY <1>0, <1>5 DEF PublishSlot, WriterOK, FlagsReset
  <2>2. /\ wIdx \in 0 .. Slots - 1 /\ published \in Nat /\ Slots \in Nat \ {0}
        /\ \A r \in Readers : taken[r] \in Nat
    BY <1>0, RingConstants DEF TypeOK, SlotSet
  <2>3. \A r \in Readers : taken[r] + Slots >= published + 1
    <3>1. Last(wIdx) = published + 1 - Slots
      BY <2>2 DEF Last, Ahead
    <3> QED BY <1>0, <2>1, <2>2, <3>1 DEF SlotOK
  <2>4. \A r \in Readers : WindowOK(r)'
    BY <1>0, <2>1, <2>2, <2>3 DEF WindowOK, NextSlot
  <2>5. \A s \in SlotSet \ {wIdx} : Last(s)' = Last(s)
    BY <2>1, <2>2 DEF Last, Ahead, NextSlot, SlotSet
  <2>7. \A s \in SlotSet : SlotOK(s)'
    <3> SUFFICES ASSUME NEW s \in SlotSet PROVE SlotOK(s)'
      OBVIOUS
    <3>1. CASE s = wIdx
      <4>1. Last(s)' = published + 1
        BY <2>1, <2>2, <3>1 DEF Last, Ahead, NextSlot
      <4>2. \A r \in Readers : taken[r] <= published
        BY <1>0 DEF WindowOK
      <4> QED BY <1>0, <2>1, <2>2, <3>1, <4>1, <4>2 DEF SlotOK, TypeOK
    <3>2. CASE s # wIdx
      <4>1. Last(s)' = Last(s) /\ written'[s] = written[s] /\ SlotOK(s)
        BY <1>0, <2>1, <2>5, <3>2 DEF TypeOK
      <4> QED BY <2>1, <3>2, <4>1 DEF SlotOK
    <3> QED BY <3>1, <3>2
  <2>8. \A r \in Readers : ReaderOK(r)'
    BY <1>0, <2>1 DEF ReaderOK, TypeOK
  <2> QED BY <2>1, <2>4, <2>7, <2>8 DEF FlagsInv, WriterOK
<1> QED BY <1>1, <1>2, <1>3, <1>4, <1>5 DEF WriterStep

\* Marking the slot moves the reader one message on.
LEMMA ConsumeKeeps ==
  ASSUME FlagsInv, TypeOK', NEW r \in Readers, rAt[r] = "reading", rAt'[r] \in {"idle", "recv"},
         \A q \in Readers \ {r} : rAt'[q] = rAt[q],
         Consume(r), UNCHANGED <<written, chunk, wAt, wIdx, published>>
  PROVE  FlagsInv'
<1>0. /\ TypeOK /\ WriterOK /\ wIdx \in SlotSet
      /\ \A q \in Readers : WindowOK(q) /\ ReaderOK(q) /\ rIdx[q] \in SlotSet
      /\ \A s \in SlotSet : SlotOK(s)
  BY DEF FlagsInv, TypeOK
<1>1. written[rIdx[r]] /\ ~ read[rIdx[r]][r]
  BY <1>0 DEF ReaderOK
<1>2. taken[r] < published /\ Last(rIdx[r]) = taken[r] + 1
  BY <1>1, ExpectedMessage
<1>3. /\ wIdx \in 0 .. Slots - 1 /\ published \in Nat /\ Slots \in Nat \ {0}
      /\ \A q \in Readers : taken[q] \in Nat /\ rIdx[q] \in 0 .. Slots - 1
  BY <1>0, RingConstants DEF TypeOK, SlotSet
<1>4. /\ \A q \in Readers \ {r} : rIdx'[q] = rIdx[q] /\ taken'[q] = taken[q]
      /\ rIdx'[r] = NextSlot(rIdx[r]) /\ taken'[r] = taken[r] + 1
      /\ \A s \in SlotSet : \A q \in Readers \ {r} : read'[s][q] = read[s][q]
      /\ \A s \in SlotSet \ {rIdx[r]} : read'[s][r] = read[s][r]
      /\ read'[rIdx[r]][r]
  BY <1>0 DEF Consume, TypeOK
<1>5. \A s \in SlotSet : Last(s)' = Last(s)
  BY DEF Last, Ahead
<1>6. \A q \in Readers : WindowOK(q)'
  <2> SUFFICES ASSUME NEW q \in Readers PROVE WindowOK(q)'
    OBVIOUS
  <2>1. CASE q = r
    <3>1. /\ taken[r] <= published /\ published <= taken[r] + Slots
          /\ rIdx[r] = IF published - taken[r] <= wIdx THEN wIdx + taken[r] - published
                                                   ELSE wIdx + taken[r] + Slots - published
      BY <1>0 DEF WindowOK
    <3>2. rIdx'[r] = IF rIdx[r] + 1 = Slots THEN 0 ELSE rIdx[r] + 1
      BY <1>4 DEF NextSlot
    <3>3. taken'[r] = taken[r] + 1
      BY <1>4
    <3>4. /\ taken'[r] <= published /\ published <= taken'[r] + Slots
          /\ rIdx'[r] = IF published - taken'[r] <= wIdx THEN wIdx + taken'[r] - published
                                                    ELSE wIdx + taken'[r] + Slots - published
      BY <1>2, <1>3, <3>1, <3>2, <3>3
    <3> QED BY <2>1, <3>4 DEF WindowOK
  <2>2. CASE q # r
    BY <1>0, <1>4, <2>2 DEF WindowOK
  <2> QED BY <2>1, <2>2
<1>7. \A q \in Readers : ReaderOK(q)'
  BY <1>0, <1>4 DEF ReaderOK
<1>8. \A s \in SlotSet : SlotOK(s)'
  <2> SUFFICES ASSUME NEW s \in SlotSet PROVE SlotOK(s)'
    OBVIOUS
  <2>1. SlotOK(s) /\ Last(s) \in Int
    BY <1>0, <1>3 DEF Last, Ahead, SlotSet
  <2>2. CASE s = rIdx[r]
    BY <1>1, <1>2, <1>3, <1>4, <1>5, <2>1, <2>2 DEF SlotOK
  <2>3. CASE s # rIdx[r]
    <3>1. Last(s) # taken[r] + 1
      BY <1>2, <1>3, <2>3 DEF Last, Ahead, SlotSet
    <3> QED BY <1>3, <1>4, <1>5, <2>1, <2>3, <3>1 DEF SlotOK
  <2> QED BY <2>2, <2>3
<1> QED BY <1>0, <1>6, <1>7, <1>8 DEF FlagsInv, WriterOK

LEMMA ReaderKeeps ==
  ASSUME FlagsInv, TypeOK', NEW r \in Readers,
         \/ ReaderStep(r) \/ ReadTimeout(r) \/ ReadRaises(r) \/ PayloadTimeout(r)
         \/ Shutdown(r) \/ ReaderDies(r)
  PROVE  FlagsInv'
<1> USE DEF memoryVars, socketVars, writerVars, readerVars
<1>0. TypeOK /\ WriterOK /\ \A q \in Readers : ReaderOK(q)
  BY DEF FlagsInv
<1>1. CASE FinishRead(r) \/ FinishOverflow(r) \/ ReadRaises(r)
  <2>1. /\ rAt[r] = "reading" /\ rAt'[r] \in {"idle", "recv"}
        /\ \A q \in Readers \ {r} : rAt'[q] = rAt[q]
        /\ Consume(r) /\ UNCHANGED <<written, chunk, wAt, wIdx, published>>
    BY <1>0, <1>1 DEF FinishRead, FinishOverflow, ReadRaises, Goto, TypeOK
  <2> QED BY <2>1, ConsumeKeeps
<1>2. CASE
           \/ Connect(r) \/ ReaderReady(r) \/ Dequeue(r) \/ ReadFlag(r) \/ ReadWritten(r)
           \/ Spin(r) \/ Park(r) \/ Wake(r) \/ Recv(r)
           \/ ReadTimeout(r) \/ PayloadTimeout(r) \/ Shutdown(r) \/ ReaderDies(r)
  <2>1. UNCHANGED <<written, read, chunk, wAt, wIdx, published, rIdx, taken>>
    BY <1>2 DEF Connect, ReaderReady, Dequeue, ReadFlag, ReadWritten, Spin, Park, Wake, Recv,
       ReadTimeout, PayloadTimeout, Shutdown, ReaderDies
  <2>2. /\ \A q \in Readers \ {r} : rAt'[q] = rAt[q]
        /\ rAt'[r] = "flagged" /\ rAt[r] # "flagged" => ~ read[rIdx[r]][r]
        /\ rAt'[r] = "reading" /\ rAt[r] # "reading" =>
             rAt[r] = "flagged" /\ written[rIdx[r]]
    BY <1>0, <1>2 DEF Connect, ReaderReady, Dequeue, ReadFlag, ReadWritten, Spin, Park, Wake,
       Recv, ReadTimeout, PayloadTimeout, Shutdown, ReaderDies, Goto, AfterWait, TypeOK
  <2>3. \A q \in Readers : ReaderOK(q)'
    BY <1>0, <2>1, <2>2 DEF ReaderOK
  <2> QED BY <1>0, <2>1, <2>3, SlotsFrame DEF FlagsInv, WriterOK
<1> QED BY <1>1, <1>2 DEF ReaderStep

\* The ring invariant is inductive.
LEMMA FlagsInvariant == Spec => []FlagsInv
<1>1. FlagsInv /\ [Next]_vars => FlagsInv'
  <2> SUFFICES ASSUME FlagsInv, [Next]_vars PROVE FlagsInv'
    OBVIOUS
  <2>1. TypeOK'
    BY TypeNext DEF FlagsInv
  <2>2. CASE UNCHANGED vars
    BY <2>1, <2>2, SlotsFrame DEF vars, memoryVars, writerVars, readerVars, FlagsInv, WriterOK,
       ReaderOK
  <2> QED BY <2>1, <2>2, WriterKeeps, ReaderKeeps DEF Next
<1> QED BY <1>1, FlagsInit, PTL DEF Spec

\* acquire_write and acquire_read never meet in one slot, and a reader reads the complete
\* message it expects.
THEOREM NoTornReads == Spec => []NoTornRead
<1>1. FlagsInv => NoTornRead
  <2> SUFFICES ASSUME FlagsInv, NEW r \in Readers, rAt[r] = "reading"
               PROVE  /\ ~ (wAt \in {"write", "reset"} /\ rIdx[r] = wIdx)
                      /\ chunk[rIdx[r]] = taken[r] + 1
    BY DEF NoTornRead
  <2>1. written[rIdx[r]] /\ ~ read[rIdx[r]][r]
    BY DEF FlagsInv, ReaderOK
  <2> QED BY <2>1, ExpectedMessage DEF FlagsInv, WriterOK
<1> QED BY <1>1, FlagsInvariant, PTL

\* The ring implements the bounded broadcast queue: a publication is a Publish with room
\* for it, marking a slot is a Take, everything else is invisible.
THEOREM RingImplementsQueue == Spec => ImplementsQueue
<1>1. Init => Queue!Init
  BY DEF Init, Queue!Init
<1>2. FlagsInv /\ TypeOK' /\ [Next]_vars => [Queue!Next]_<<published, taken>>
  <2> SUFFICES ASSUME FlagsInv, [Next]_vars PROVE [Queue!Next]_<<published, taken>>
    OBVIOUS
  <2> USE DEF memoryVars, socketVars, writerVars, readerVars
  <2>1. CASE PublishSlot
    <3>1. /\ published \in Nat /\ Slots \in Nat \ {0} /\ wIdx \in 0 .. Slots - 1
          /\ \A r \in Readers : taken[r] \in Nat
      BY RingConstants DEF FlagsInv, TypeOK, SlotSet
    <3>2. Last(wIdx) = published + 1 - Slots /\ wIdx \in SlotSet
      BY <3>1 DEF Last, Ahead, SlotSet
    <3>3. \A r \in Readers : taken[r] >= Last(wIdx)
      BY <2>1, <3>2 DEF PublishSlot, FlagsInv, WriterOK, SlotOK
    <3>4. \A r \in Readers : published < taken[r] + Slots
      BY <3>1, <3>2, <3>3
    <3> QED BY <2>1, <3>4 DEF PublishSlot, Queue!Next, Queue!Publish
  <2>2. ASSUME NEW r \in Readers, FinishRead(r) \/ FinishOverflow(r) \/ ReadRaises(r)
        PROVE  Queue!Next
    <3>1. written[rIdx[r]] /\ ~ read[rIdx[r]][r]
      BY <2>2 DEF FinishRead, FinishOverflow, ReadRaises, Goto, FlagsInv, ReaderOK
    <3>2. taken[r] < published
      BY <3>1, ExpectedMessage
    <3> QED BY <2>2, <3>2 DEF FinishRead, FinishOverflow, ReadRaises, Consume, Queue!Next,
               Queue!Take
  <2>3. ASSUME NEW r \in Readers,
               \/ Connect(r) \/ ReaderReady(r) \/ Dequeue(r) \/ ReadFlag(r) \/ ReadWritten(r)
               \/ Spin(r) \/ Park(r) \/ Wake(r) \/ Recv(r)
               \/ ReadTimeout(r) \/ PayloadTimeout(r) \/ Shutdown(r) \/ ReaderDies(r)
        PROVE  UNCHANGED <<published, taken>>
    BY <2>3 DEF Connect, ReaderReady, Dequeue, ReadFlag, ReadWritten, Spin, Park, Wake, Recv,
       ReadTimeout, PayloadTimeout, Shutdown, ReaderDies
  <2>4. CASE \/ WriterReady \/ ClaimSlot \/ WriteChunk \/ ResetFlag \/ SendPayload \/ Notify
             \/ Enqueue \/ WriteTimeout \/ WriteRaises \/ WriterDies
    BY <2>4 DEF WriterReady, ClaimSlot, WriteChunk, ResetFlag, SendPayload, Notify, Enqueue,
       WriteTimeout, WriteRaises, WriterDies
  <2>5. CASE UNCHANGED vars
    BY <2>5 DEF vars
  <2> QED BY <2>1, <2>2, <2>3, <2>4, <2>5 DEF Next, WriterStep, ReaderStep
<1>3. FlagsInv => TypeOK
  BY DEF FlagsInv
<1> QED BY <1>1, <1>2, <1>3, FlagsInvariant, PTL DEF Spec, ImplementsQueue, Queue!Spec

-------------------------------------------------------------------------------
LEMMA StreamTypes ==
  ASSUME TypeOK, NEW r \in Readers
  PROVE  /\ payloads[r] \in Seq(Nat) /\ Len(payloads[r]) \in Nat
         /\ \A i \in 1 .. Len(payloads[r]) : payloads[r][i] \in Nat
         /\ got[r] \in Seq(Nat) /\ Len(got[r]) \in Nat
         /\ taken[r] \in Nat /\ published \in Nat /\ OnSocket \subseteq Nat
         /\ Large \subseteq Nat \ {0} /\ chunk[rIdx[r]] \in Nat
  BY RingConstants DEF TypeOK, OnSocket, Ready

\* The socket of a reader stays right when nothing on it moves and nothing more is sent.
LEMMA SocketFrame ==
  ASSUME NEW r \in Readers, SocketOK(r),
         payloads'[r] = payloads[r], Due(r)' = Due(r), published' = published,
         \A m \in OnSocket : Sent(m)' => Sent(m), wAt' = "payload" => wAt = "payload"
  PROVE  SocketOK(r)'
  BY DEF SocketOK, OnSocket

LEMMA OutcomesFrame ==
  ASSUME NEW r \in Readers, OutcomesOK(r), got'[r] = got[r], taken'[r] = taken[r],
         rAt'[r] = rAt[r]
  PROVE  OutcomesOK(r)'
  BY DEF OutcomesOK

\* A message appended to what is due, larger than all of it.
LEMMA SocketAppend ==
  ASSUME TypeOK, NEW r \in Readers, SocketOK(r), NEW n \in OnSocket,
         n = published, Due(r) <= n,
         \A i \in 1 .. Len(payloads[r]) : payloads[r][i] < n,
         payloads'[r] = Append(payloads[r], n), Due(r)' = Due(r), published' = published,
         \A m \in OnSocket : Sent(m)' => Sent(m) \/ m = n, wAt' # "payload"
  PROVE  SocketOK(r)'
<1>1. /\ Len(payloads'[r]) = Len(payloads[r]) + 1 /\ payloads'[r][Len(payloads[r]) + 1] = n
      /\ \A i \in 1 .. Len(payloads[r]) : payloads'[r][i] = payloads[r][i]
      /\ Len(payloads[r]) \in Nat
  BY StreamTypes
<1>2. \A i \in 1 .. Len(payloads'[r]) : i \in 1 .. Len(payloads[r]) \/ i = Len(payloads[r]) + 1
  BY <1>1
<1>3. \A i \in 1 .. Len(payloads'[r]) :
        /\ payloads'[r][i] \in OnSocket /\ Due(r)' <= payloads'[r][i]
        /\ payloads'[r][i] < published' \/ (payloads'[r][i] = published' /\ wAt' # "payload")
  BY <1>1, <1>2 DEF SocketOK
<1>4. \A i, j \in 1 .. Len(payloads'[r]) : i < j => payloads'[r][i] < payloads'[r][j]
  BY <1>1, <1>2 DEF SocketOK
<1>5. \A m \in OnSocket : Due(r)' <= m /\ Sent(m)' =>
        \E i \in 1 .. Len(payloads'[r]) : payloads'[r][i] = m
  <2> SUFFICES ASSUME NEW m \in OnSocket, Due(r)' <= m, Sent(m)'
               PROVE  \E i \in 1 .. Len(payloads'[r]) : payloads'[r][i] = m
    OBVIOUS
  <2>1. CASE m = n
    BY <1>1, <2>1
  <2>2. CASE Sent(m)
    <3>1. PICK i \in 1 .. Len(payloads[r]) : payloads[r][i] = m
      BY <2>2 DEF SocketOK
    <3> QED BY <1>1, <3>1
  <2> QED BY <2>1, <2>2
<1> QED BY <1>3, <1>4, <1>5 DEF SocketOK, OnSocket

\* What is received first is the least of what is due, and the rest is due after it.
LEMMA SocketTail ==
  ASSUME TypeOK, NEW r \in Readers, SocketOK(r), payloads[r] # <<>>,
         payloads'[r] = Tail(payloads[r]), published' = published, wAt' = wAt,
         Due(r)' = Head(payloads[r]) + 1
  PROVE  SocketOK(r)'
<1>1. /\ Len(payloads'[r]) = Len(payloads[r]) - 1 /\ Len(payloads[r]) \in Nat \ {0}
      /\ \A i \in 1 .. Len(payloads'[r]) : payloads'[r][i] = payloads[r][i + 1]
      /\ Head(payloads[r]) = payloads[r][1] /\ Head(payloads[r]) \in Nat
  BY StreamTypes
<1>2. \A i \in 1 .. Len(payloads'[r]) :
        i \in 1 .. Len(payloads[r]) /\ i + 1 \in 1 .. Len(payloads[r]) /\ 1 < i + 1
  BY <1>1
<1>3. \A i \in 1 .. Len(payloads'[r]) :
        /\ payloads'[r][i] \in OnSocket /\ Due(r)' <= payloads'[r][i]
        /\ payloads'[r][i] < published' \/ (payloads'[r][i] = published' /\ wAt' # "payload")
  <2>1. 1 \in 1 .. Len(payloads[r])
    BY <1>1
  <2> QED BY <1>1, <1>2, <2>1, StreamTypes DEF SocketOK
<1>4. \A i, j \in 1 .. Len(payloads'[r]) : i < j => payloads'[r][i] < payloads'[r][j]
  BY <1>1, <1>2 DEF SocketOK
<1>5. \A m \in OnSocket : Due(r)' <= m /\ Sent(m)' =>
        \E i \in 1 .. Len(payloads'[r]) : payloads'[r][i] = m
  <2> SUFFICES ASSUME NEW m \in OnSocket, Due(r)' <= m, Sent(m)'
               PROVE  \E i \in 1 .. Len(payloads'[r]) : payloads'[r][i] = m
    OBVIOUS
  <2>1. Sent(m) /\ m \in Nat /\ Head(payloads[r]) < m
    BY <1>1, StreamTypes DEF Sent
  <2>2. Due(r) <= Head(payloads[r]) /\ Due(r) \in Nat
    BY <1>1, StreamTypes DEF SocketOK, Due
  <2>3. PICK k \in 1 .. Len(payloads[r]) : payloads[r][k] = m
    BY <1>1, <2>1, <2>2 DEF SocketOK
  <2>4. k # 1 /\ k - 1 \in 1 .. Len(payloads'[r]) /\ (k - 1) + 1 = k
    BY <1>1, <2>1, <2>3
  <2> QED BY <1>1, <2>3, <2>4
<1>6. wAt' = "payload" => Due(r)' <= published'
  <2>1. 1 \in 1 .. Len(payloads[r])
    BY <1>1
  <2> QED BY <1>1, <2>1, StreamTypes DEF SocketOK
<1> QED BY <1>3, <1>4, <1>5, <1>6 DEF SocketOK, OnSocket

\* The stream of a reader that can still move.
StreamOK(r) == ~ Gone(r) => SocketOK(r) /\ OutcomesOK(r)

LEMMA StreamWriter ==
  ASSUME FlagsInv, JoinOK, InOrder, \A r \in Readers : StreamOK(r),
         WriterStep \/ Enqueue \/ WriteTimeout \/ WriteRaises \/ WriterDies
  PROVE  JoinOK' /\ InOrder' /\ \A r \in Readers : StreamOK(r)'
<1> USE DEF memoryVars, socketVars, writerVars, readerVars
<1>1. TypeOK
  BY DEF FlagsInv
<1>2. UNCHANGED <<rAt, taken, got, subscribed>> /\ \A r \in Readers : Due(r)' = Due(r)
  BY DEF WriterStep, WriterReady, ClaimSlot, WriteChunk, ResetFlag, PublishSlot, SendPayload,
         Notify, Enqueue, WriteTimeout, WriteRaises, WriterDies, Due
<1>3. InOrder'
  BY <1>2 DEF InOrder
<1>4. \A r \in Readers : ~ Gone(r) => OutcomesOK(r)'
  BY <1>2, OutcomesFrame DEF StreamOK
<1>5. ASSUME JoinOK', \A r \in Readers : SocketOK(r) => SocketOK(r)'
      PROVE  JoinOK' /\ InOrder' /\ \A r \in Readers : StreamOK(r)'
  BY <1>2, <1>3, <1>4, <1>5 DEF StreamOK, Gone
<1>6. CASE \/ ClaimSlot \/ WriteChunk \/ ResetFlag \/ Notify \/ Enqueue \/ WriteTimeout
           \/ WriteRaises \/ WriterDies
  <2>1. /\ UNCHANGED <<payloads, published>>
        /\ wAt \notin {"joining", "dead"} /\ wAt' \notin {"joining", "payload"}
        /\ wAt' = "dead" \/ wAt # "payload"
    BY <1>6 DEF ClaimSlot, WriteChunk, ResetFlag, Notify, Enqueue, WriteTimeout, WriteRaises,
                WriterDies
  <2>2. \A m \in OnSocket : Sent(m)' => Sent(m)
    BY <2>1 DEF Sent
  <2>3. \A r \in Readers : SocketOK(r) => SocketOK(r)'
    BY <1>2, <2>1, <2>2, SocketFrame
  <2>4. JoinOK'
    BY <1>2, <2>1 DEF JoinOK
  <2> QED BY <1>5, <2>3, <2>4
<1>7. CASE PublishSlot
  <2>1. /\ payloads' = payloads /\ published' = published + 1 /\ wAt = "reset"
        /\ wAt' = IF published' \in Large THEN "payload" ELSE "notify"
        /\ published \in Nat
    BY <1>1, <1>7 DEF PublishSlot, TypeOK
  <2>2. \A m \in OnSocket : Sent(m)' => Sent(m)
    BY <2>1, RingConstants DEF Sent, OnSocket, Ready
  <2>3. \A r \in Readers : SocketOK(r) => SocketOK(r)'
    <3> SUFFICES ASSUME NEW r \in Readers, SocketOK(r) PROVE SocketOK(r)'
      OBVIOUS
    <3>1. \A i \in 1 .. Len(payloads[r]) : payloads[r][i] \in Nat /\ payloads[r][i] <= published
      BY <1>1, <2>1, StreamTypes DEF SocketOK
    <3>2. Due(r) <= published + 1
      <4>1. taken[r] <= published /\ taken[r] \in Nat
        BY <1>1 DEF FlagsInv, WindowOK, TypeOK
      <4> QED BY <2>1, <4>1 DEF Due
    <3> QED BY <1>2, <2>1, <2>2, <3>1, <3>2 DEF SocketOK, OnSocket
  <2>4. JoinOK'
    BY <1>2, <2>1 DEF JoinOK
  <2> QED BY <1>5, <2>3, <2>4
<1>8. CASE SendPayload
  <2>1. /\ wAt = "payload" /\ wAt' = "notify" /\ published' = published
        /\ published \in OnSocket /\ subscribed = Readers
        /\ \A r \in Readers : payloads'[r] = Append(payloads[r], published)
    BY <1>8 DEF SendPayload, Broadcast, JoinOK, OnSocket
  <2>2. \A m \in OnSocket : Sent(m)' => Sent(m) \/ m = published
    BY <2>1 DEF Sent
  <2>3. \A r \in Readers : SocketOK(r) => SocketOK(r)'
    <3> SUFFICES ASSUME NEW r \in Readers, SocketOK(r) PROVE SocketOK(r)'
      OBVIOUS
    <3>1. \A i \in 1 .. Len(payloads[r]) : payloads[r][i] < published
      BY <2>1 DEF SocketOK
    <3>2. Due(r) <= published
      BY <2>1 DEF SocketOK
    <3> QED BY <1>1, <1>2, <2>1, <2>2, <3>1, <3>2, SocketAppend
  <2>4. JoinOK'
    BY <1>2, <2>1 DEF JoinOK
  <2> QED BY <1>5, <2>3, <2>4
<1>9. CASE WriterReady
  <2>1. /\ wAt = "joining" /\ wAt' = "idle" /\ published' = published /\ published = 0
        /\ subscribed = Readers
        /\ \A r \in Readers : /\ payloads[r] = <<>> /\ payloads'[r] = Append(payloads[r], 0)
                              /\ rAt[r] \in {"connecting", "joining"}
    BY <1>9 DEF WriterReady, AllSubscribed, Broadcast, JoinOK, Ready
  <2>2. \A m \in OnSocket : Sent(m)' => Sent(m) \/ m = 0
    BY <2>1 DEF Sent
  <2>3. \A r \in Readers : SocketOK(r) => SocketOK(r)'
    <3> SUFFICES ASSUME NEW r \in Readers, SocketOK(r) PROVE SocketOK(r)'
      OBVIOUS
    <3>1. Due(r) = 0 /\ 0 \in OnSocket /\ \A i \in 1 .. Len(payloads[r]) : payloads[r][i] < 0
      BY <2>1 DEF Due, OnSocket, Ready
    <3> QED BY <1>1, <1>2, <2>1, <2>2, <3>1, SocketAppend
  <2>4. JoinOK'
    BY <1>2, <2>1 DEF JoinOK
  <2> QED BY <1>5, <2>3, <2>4
<1> QED BY <1>6, <1>7, <1>8, <1>9 DEF WriterStep

\* What a step of one reader leaves of the others.
LEMMA OthersKeep ==
  ASSUME NEW r \in Readers, NEW q \in Readers, StreamOK(q),
         rAt'[q] = rAt[q], taken'[q] = taken[q], got'[q] = got[q],
         payloads'[q] = payloads[q], published' = published, wAt' = wAt
  PROVE  StreamOK(q)'
<1>1. Due(q)' = Due(q) /\ \A m \in OnSocket : Sent(m)' => Sent(m)
  BY DEF Due, Sent
<1>2. SocketOK(q) => SocketOK(q)'
  BY <1>1, SocketFrame
<1>3. OutcomesOK(q) => OutcomesOK(q)'
  BY OutcomesFrame
<1> QED BY <1>2, <1>3 DEF StreamOK, Gone

\* An outcome appended where it belongs keeps the order.
LEMMA OrderAppend ==
  ASSUME TypeOK, InOrder, NEW r \in Readers, NEW m \in Nat, Outcome(r, m),
         m \in {Len(got[r]) + 1, Failed}
  PROVE  InOrder' /\ Len(got'[r]) = Len(got[r]) + 1
<1>1. /\ got'[r] = Append(got[r], m) /\ \A q \in Readers \ {r} : got'[q] = got[q]
      /\ got[r] \in Seq(Nat)
  BY DEF Outcome, TypeOK
<1>2. /\ Len(got'[r]) = Len(got[r]) + 1 /\ Len(got[r]) \in Nat
      /\ got'[r][Len(got[r]) + 1] = m
      /\ \A i \in 1 .. Len(got[r]) : got'[r][i] = got[r][i]
      /\ DOMAIN got'[r] = 1 .. Len(got[r]) + 1 /\ DOMAIN got[r] = 1 .. Len(got[r])
  BY <1>1
<1>3. \A i \in DOMAIN got'[r] : got'[r][i] \in {i, Failed}
  BY <1>2 DEF InOrder
<1> QED BY <1>1, <1>2, <1>3 DEF InOrder

\* A reader that waits for a payload receives the message whose slot it took.
LEMMA HeadExpected ==
  ASSUME FlagsInv, NEW r \in Readers, SocketOK(r), OutcomesOK(r), rAt[r] = "recv",
         payloads[r] # <<>>
  PROVE  Head(payloads[r]) = taken[r]
<1>1. /\ Head(payloads[r]) = payloads[r][1] /\ 1 \in 1 .. Len(payloads[r])
      /\ payloads[r][1] \in Nat /\ Len(payloads[r]) \in Nat
      /\ taken[r] \in Nat /\ published \in Nat
  BY StreamTypes DEF FlagsInv
<1>2. taken[r] <= payloads[r][1] /\ payloads[r][1] <= published /\ taken[r] \in OnSocket
  BY <1>1 DEF SocketOK, OutcomesOK, Due, OnSocket
<1>3. CASE taken[r] = published
  BY <1>1, <1>2, <1>3
<1>4. CASE taken[r] # published
  <2>1. PICK i \in 1 .. Len(payloads[r]) : payloads[r][i] = taken[r]
    BY <1>1, <1>2, <1>4 DEF SocketOK, Due, Sent
  <2>2. i = 1 \/ payloads[r][1] < payloads[r][i]
    BY <1>1 DEF SocketOK
  <2> QED BY <1>1, <1>2, <2>1, <2>2
<1> QED BY <1>3, <1>4

LEMMA StreamReader ==
  ASSUME FlagsInv, Patient, JoinOK, InOrder,
         \A q \in Readers : StreamOK(q), NEW r \in Readers,
         \/ ReaderStep(r) \/ ReadTimeout(r) \/ ReadRaises(r) \/ PayloadTimeout(r)
         \/ Shutdown(r) \/ ReaderDies(r)
  PROVE  JoinOK' /\ InOrder' /\ \A q \in Readers : StreamOK(q)'
<1> USE DEF memoryVars, socketVars, writerVars, readerVars
<1>1. TypeOK /\ StreamOK(r)
  BY DEF FlagsInv
<1>2. /\ published' = published /\ wAt' = wAt
      /\ \A q \in Readers \ {r} : /\ rAt'[q] = rAt[q] /\ taken'[q] = taken[q]
                                  /\ got'[q] = got[q] /\ payloads'[q] = payloads[q]
  BY <1>1 DEF ReaderStep, Connect, ReaderReady, Dequeue, ReadFlag, ReadWritten, Spin, Park,
       Wake, FinishRead, FinishOverflow, Recv, ReadTimeout, ReadRaises, PayloadTimeout,
       Shutdown, ReaderDies, Goto, Consume, Outcome, TypeOK
<1>3. \A q \in Readers \ {r} : StreamOK(q)'
  BY <1>2, OthersKeep
<1>4. JoinOK'
  <2>1. subscribed \subseteq subscribed' /\ subscribed' \subseteq Readers
    BY <1>1 DEF ReaderStep, Connect, ReaderReady, Dequeue, ReadFlag, ReadWritten, Spin, Park,
       Wake, FinishRead, FinishOverflow, Recv, ReadTimeout, ReadRaises, PayloadTimeout,
       Shutdown, ReaderDies, TypeOK
  <2>2. ASSUME wAt = "joining"
        PROVE  payloads'[r] = <<>> /\ rAt'[r] \in {"connecting", "joining"}
    <3>1. payloads[r] = <<>> /\ rAt[r] \in {"connecting", "joining"}
      BY <2>2 DEF JoinOK
    <3> QED BY <1>1, <3>1 DEF ReaderStep, Connect, ReaderReady, Dequeue, ReadFlag, ReadWritten,
          Spin, Park, Wake, FinishRead, FinishOverflow, Recv, ReadTimeout, ReadRaises,
          PayloadTimeout, Shutdown, ReaderDies, Goto, TypeOK
  <2> QED BY <1>2, <2>1, <2>2 DEF JoinOK
<1>5. ASSUME InOrder', StreamOK(r)'
      PROVE  JoinOK' /\ InOrder' /\ \A q \in Readers : StreamOK(q)'
  BY <1>3, <1>4, <1>5
<1>6. \A m \in OnSocket : Sent(m)' => Sent(m)
  BY <1>2 DEF Sent
<1>7. CASE \/ Connect(r) \/ Dequeue(r) \/ ReadFlag(r) \/ ReadWritten(r) \/ Spin(r) \/ Park(r)
           \/ Wake(r) \/ ReadTimeout(r) \/ Shutdown(r) \/ ReaderDies(r)
  <2>1. UNCHANGED <<payloads, got, taken>>
    BY <1>7 DEF Connect, Dequeue, ReadFlag, ReadWritten, Spin, Park, Wake, ReadTimeout,
                Shutdown, ReaderDies
  <2>2. \/ Gone(r)'
        \/ rAt'[r] = rAt[r] \/ (rAt[r] = "connecting" /\ rAt'[r] = "joining")
        \/ /\ rAt[r] \notin {"connecting", "joining", "recv", "cancelled", "dead"}
           /\ rAt'[r] \notin {"connecting", "joining", "recv"}
    BY <1>1, <1>7 DEF Connect, Dequeue, ReadFlag, ReadWritten, Spin, Park, Wake, ReadTimeout,
                      Shutdown, ReaderDies, Goto, AfterWait, Gone, TypeOK
  <2>3. ASSUME Gone(r)' PROVE StreamOK(r)'
    BY <2>3 DEF StreamOK
  <2>4. ASSUME ~ Gone(r)' PROVE StreamOK(r)'
    <3>1. Due(r)' = Due(r) /\ ~ Gone(r)
      BY <2>1, <2>2, <2>4 DEF Due, Gone
    <3>2. SocketOK(r)'
      BY <1>1, <1>2, <1>6, <2>1, <3>1, SocketFrame DEF StreamOK
    <3>3. OutcomesOK(r)'
      BY <1>1, <2>1, <2>2, <2>4, <3>1 DEF StreamOK, OutcomesOK, Gone
    <3> QED BY <3>2, <3>3 DEF StreamOK
  <2>5. InOrder'
    BY <2>1 DEF InOrder
  <2> QED BY <1>5, <2>3, <2>4, <2>5
<1>8. CASE ReaderReady(r)
  <2>1. /\ rAt[r] = "joining" /\ rAt'[r] = "idle" /\ payloads[r] # <<>>
        /\ payloads'[r] = Tail(payloads[r]) /\ UNCHANGED <<got, taken>>
    BY <1>1, <1>8 DEF ReaderReady, Goto, TypeOK
  <2>2. SocketOK(r) /\ OutcomesOK(r)
    BY <1>1, <2>1 DEF StreamOK, Gone
  <2>3. taken[r] = 0 /\ Due(r) = 0 /\ Due(r)' = 1
    BY <2>1, <2>2 DEF OutcomesOK, Due
  <2>4. Head(payloads[r]) = 0
    <3>1. /\ Head(payloads[r]) = payloads[r][1] /\ 1 \in 1 .. Len(payloads[r])
          /\ payloads[r][1] \in Nat /\ Len(payloads[r]) \in Nat /\ published \in Nat
      BY <1>1, <2>1, StreamTypes
    <3>2. 0 \in OnSocket
      BY DEF OnSocket, Ready
    <3>3. CASE published = 0
      BY <2>2, <3>1, <3>3 DEF SocketOK
    <3>4. CASE published # 0
      <4>1. PICK i \in 1 .. Len(payloads[r]) : payloads[r][i] = 0
        BY <2>2, <2>3, <3>1, <3>2, <3>4 DEF SocketOK, Sent
      <4>2. i = 1 \/ payloads[r][1] < payloads[r][i]
        BY <2>2, <3>1 DEF SocketOK
      <4> QED BY <3>1, <4>1, <4>2
    <3> QED BY <3>3, <3>4
  <2>5. SocketOK(r)'
    BY <1>1, <1>2, <2>1, <2>2, <2>3, <2>4, SocketTail
  <2>6. OutcomesOK(r)'
    BY <2>1, <2>2 DEF OutcomesOK
  <2>7. InOrder'
    BY <2>1 DEF InOrder
  <2> QED BY <1>5, <2>5, <2>6, <2>7 DEF StreamOK
<1>9. CASE FinishRead(r) \/ FinishOverflow(r) \/ ReadRaises(r)
  <2>1. /\ rAt[r] = "reading" /\ payloads' = payloads /\ taken'[r] = taken[r] + 1
        /\ written[rIdx[r]] /\ ~ read[rIdx[r]][r]
    BY <1>1, <1>9 DEF FinishRead, FinishOverflow, ReadRaises, Goto, Consume, FlagsInv, ReaderOK,
                      TypeOK
  <2>2. chunk[rIdx[r]] = taken[r] + 1 /\ taken[r] < published
    BY <2>1, ExpectedMessage
  <2>3. SocketOK(r) /\ Len(got[r]) = taken[r] /\ Due(r) = taken[r] + 1
    BY <1>1, <2>1 DEF StreamOK, Gone, OutcomesOK, Due
  <2>4. /\ taken[r] \in Nat /\ published \in Nat /\ OnSocket \subseteq Nat
        /\ \A i \in 1 .. Len(payloads[r]) : payloads[r][i] \in Nat
    BY <1>1, StreamTypes
  <2>5. CASE FinishOverflow(r)
    <3>1. rAt'[r] = "recv" /\ got' = got /\ taken[r] + 1 \in Large
      BY <1>1, <2>2, <2>5 DEF FinishOverflow, Goto, TypeOK
    <3>2. Due(r)' = Due(r)
      BY <2>1, <2>3, <3>1 DEF Due
    <3>3. SocketOK(r)'
      BY <1>2, <1>6, <2>1, <2>3, <3>2, SocketFrame
    <3>4. OutcomesOK(r)'
      BY <2>1, <2>3, <2>4, <3>1 DEF OutcomesOK
    <3>5. InOrder'
      BY <3>1 DEF InOrder
    <3> QED BY <1>5, <3>3, <3>4, <3>5 DEF StreamOK
  <2>6. CASE FinishRead(r) \/ ReadRaises(r)
    <3>1. rAt'[r] = "idle" /\ taken[r] + 1 \notin Large
      BY <1>1, <2>2, <2>6 DEF FinishRead, ReadRaises, Goto, TypeOK
    <3>2. Outcome(r, taken[r] + 1) \/ Outcome(r, Failed)
      BY <2>2, <2>6 DEF FinishRead, ReadRaises
    <3>3. InOrder' /\ Len(got'[r]) = taken[r] + 1
      BY <1>1, <2>3, <2>4, <3>2, OrderAppend DEF Failed
    <3>4. Due(r)' = taken[r] + 2
      BY <2>1, <2>4, <3>1 DEF Due
    <3>5. taken[r] + 1 \notin OnSocket
      BY <2>4, <3>1 DEF OnSocket, Ready
    <3>6. \A i \in 1 .. Len(payloads[r]) : Due(r)' <= payloads[r][i]
      BY <2>3, <2>4, <3>4, <3>5 DEF SocketOK
    <3>7. wAt = "payload" => Due(r)' <= published
      BY <2>2, <2>4, <3>1, <3>4 DEF JoinOK
    <3>8. SocketOK(r)'
      <4>1. \A m \in OnSocket : Due(r)' <= m => Due(r) <= m
        <5> SUFFICES ASSUME NEW m \in OnSocket, Due(r)' <= m PROVE Due(r) <= m
          OBVIOUS
        <5>1. m \in Nat /\ taken[r] \in Nat
          BY <2>4
        <5> QED BY <2>3, <3>4, <5>1
      <4>2. \A m \in OnSocket : Due(r)' <= m /\ Sent(m)' =>
              \E i \in 1 .. Len(payloads'[r]) : payloads'[r][i] = m
        BY <1>6, <2>1, <2>3, <4>1 DEF SocketOK
      <4>3. \A i \in 1 .. Len(payloads'[r]) :
              /\ payloads'[r][i] \in OnSocket /\ Due(r)' <= payloads'[r][i]
              /\ \/ payloads'[r][i] < published'
                 \/ payloads'[r][i] = published' /\ wAt' # "payload"
        BY <1>2, <2>1, <2>3, <3>6 DEF SocketOK
      <4>4. \A i, j \in 1 .. Len(payloads'[r]) : i < j => payloads'[r][i] < payloads'[r][j]
        BY <2>1, <2>3 DEF SocketOK
      <4> QED BY <1>2, <3>7, <4>2, <4>3, <4>4 DEF SocketOK, OnSocket
    <3>9. OutcomesOK(r)'
      BY <2>1, <3>1, <3>3 DEF OutcomesOK
    <3> QED BY <1>5, <3>3, <3>8, <3>9 DEF StreamOK
  <2> QED BY <1>9, <2>5, <2>6
<1>10. CASE Recv(r)
  <2>1. /\ rAt[r] = "recv" /\ rAt'[r] = "idle" /\ payloads[r] # <<>> /\ taken' = taken
        /\ payloads'[r] = Tail(payloads[r]) /\ Outcome(r, Head(payloads[r]))
    BY <1>1, <1>10 DEF Recv, Goto, TypeOK
  <2>2. SocketOK(r) /\ OutcomesOK(r)
    BY <1>1, <2>1 DEF StreamOK, Gone
  <2>3. Head(payloads[r]) = taken[r] /\ taken[r] \in Nat
    BY <1>1, <2>1, <2>2, HeadExpected, StreamTypes
  <2>4. Len(got[r]) + 1 = taken[r]
    BY <1>1, <2>1, <2>2, <2>3, StreamTypes DEF OutcomesOK
  <2>5. InOrder' /\ Len(got'[r]) = taken[r]
    BY <1>1, <2>1, <2>3, <2>4, OrderAppend
  <2>6. SocketOK(r)'
    <3>1. Due(r)' = Head(payloads[r]) + 1
      BY <2>1, <2>3 DEF Due
    <3> QED BY <1>1, <1>2, <2>1, <2>2, <3>1, SocketTail
  <2>7. OutcomesOK(r)'
    BY <2>1, <2>5 DEF OutcomesOK
  <2> QED BY <1>5, <2>5, <2>6, <2>7 DEF StreamOK
<1>11. ~ PayloadTimeout(r)
  BY DEF PayloadTimeout, Fault, Patient
<1> QED BY <1>7, <1>8, <1>9, <1>10, <1>11 DEF ReaderStep

\* The flags, and what they say of the slots, with the stream that each reader receives
\* through the ring and the socket together.
THEOREM RingInvariant == Spec => []RingInv
<1>1. Init => RingInv
  <2> SUFFICES ASSUME Init PROVE StreamInv
    BY FlagsInit DEF RingInv
  <2>1. /\ payloads = [r \in Readers |-> <<>>] /\ got = [r \in Readers |-> <<>>]
        /\ taken = [r \in Readers |-> 0] /\ rAt = [r \in Readers |-> "connecting"]
        /\ wAt = "joining" /\ published = 0
    BY DEF Init
  <2>2. JoinOK /\ InOrder
    BY <2>1 DEF JoinOK, InOrder
  <2>3. ASSUME NEW r \in Readers PROVE SocketOK(r) /\ OutcomesOK(r)
    <3>1. SocketOK(r)
      BY <2>1, RingConstants DEF SocketOK, OnSocket, Ready, Sent
    <3>2. OutcomesOK(r)
      BY <2>1 DEF OutcomesOK
    <3> QED BY <3>1, <3>2
  <2> QED BY <2>2, <2>3 DEF StreamInv
<1>2. RingInv /\ FlagsInv' /\ [Next]_vars => RingInv'
  <2> SUFFICES ASSUME RingInv, FlagsInv', [Next]_vars PROVE StreamInv'
    BY DEF RingInv
  <2> SUFFICES ASSUME Patient
               PROVE  JoinOK' /\ InOrder' /\ \A r \in Readers : StreamOK(r)'
    BY DEF StreamInv, StreamOK
  <2>1. FlagsInv /\ JoinOK /\ InOrder /\ \A r \in Readers : StreamOK(r)
    BY DEF RingInv, StreamInv, StreamOK
  <2>2. CASE UNCHANGED vars
    <3>1. UNCHANGED <<payloads, subscribed, wAt, published, rAt, taken, got>>
      BY <2>2 DEF vars, memoryVars, socketVars, writerVars, readerVars
    <3>2. JoinOK' /\ InOrder'
      BY <2>1, <3>1 DEF JoinOK, InOrder
    <3> QED BY <2>1, <3>1, <3>2, OthersKeep
  <2> QED BY <2>1, <2>2, StreamWriter, StreamReader DEF Next
<1> QED BY <1>1, <1>2, FlagsInvariant, PTL DEF Spec

\* Small messages through the ring and large ones through the socket never change places:
\* as long as no receive gives up on its payload, every dequeue that consumed a slot ended
\* with the message of that slot, or raised in the caller's hands.
THEOREM MessagesInOrder == Patient => (Spec => []InOrder)
<1> SUFFICES ASSUME Patient PROVE Spec => []InOrder
  OBVIOUS
<1>1. RingInv => InOrder
  BY DEF RingInv, StreamInv
<1> QED BY <1>1, RingInvariant, PTL

-------------------------------------------------------------------------------
\* The reader's next message is in its slot and has only to be taken.
Takeable(r) == written[rIdx[r]] /\ ~ read[rIdx[r]][r]

\* The reader's next large message is in its socket, or will be when the writer sends it.
Received(r) == payloads[r] # <<>>
ToBeSent(r) == wAt \in {"payload", "dead"} /\ taken[r] = published

\* Whoever waits, waits for somebody who can move: a reader behind the writer has its
\* message at hand, whatever notification was lost; the writer finds the ring full only
\* for a reader a whole lap behind; and a payload that is waited for is in the socket
\* unless the writer is about to send it or has died before it did.
NobodyStuck ==
  /\ \A r \in Readers : taken[r] < published => Takeable(r)
  /\ wAt = "check" /\ ~ Writable(wIdx) =>
       \E r \in Readers : taken[r] + Slots = published /\ Takeable(r)
  /\ Patient => \A r \in Readers : rAt[r] = "recv" => Received(r) \/ ToBeSent(r)

\* A reader that is behind is at a slot that holds the message it expects.
LEMMA BehindTakeable ==
  ASSUME FlagsInv, NEW r \in Readers, taken[r] < published
  PROVE  Takeable(r)
<1>1. /\ rIdx[r] \in 0 .. Slots - 1 /\ wIdx \in 0 .. Slots - 1 /\ rIdx[r] \in SlotSet
      /\ taken[r] \in Nat /\ published \in Nat /\ Slots \in Nat \ {0}
  BY RingConstants DEF FlagsInv, TypeOK, SlotSet
<1>2. WindowOK(r) /\ SlotOK(rIdx[r])
  BY <1>1 DEF FlagsInv
<1>3. Last(rIdx[r]) = taken[r] + 1
  BY <1>1, <1>2 DEF WindowOK, Last, Ahead
<1>4. ~ (taken[r] >= Last(rIdx[r]))
  BY <1>1, <1>3
<1> QED BY <1>2, <1>4 DEF SlotOK, Takeable

\* The ring is full for the writer when some reader has the whole of it still to take.
LEMMA FullBehind ==
  ASSUME FlagsInv, ~ Writable(wIdx)
  PROVE  \E r \in Readers : taken[r] + Slots = published
<1>1. /\ wIdx \in 0 .. Slots - 1 /\ wIdx \in SlotSet
      /\ published \in Nat /\ Slots \in Nat \ {0} /\ \A r \in Readers : taken[r] \in Nat
  BY RingConstants DEF FlagsInv, TypeOK, SlotSet
<1>2. PICK r \in Readers : written[wIdx] /\ ~ read[wIdx][r]
  BY DEF Writable
<1>3. SlotOK(wIdx) /\ WindowOK(r)
  BY <1>1 DEF FlagsInv
<1>4. Last(wIdx) = published + 1 - Slots
  BY <1>1 DEF Last, Ahead
<1>5. ~ (taken[r] >= Last(wIdx)) /\ published <= taken[r] + Slots
  BY <1>2, <1>3 DEF SlotOK, WindowOK
<1> QED BY <1>1, <1>4, <1>5

\* A payload that is waited for has been sent and not received, or is still to be sent.
LEMMA RecvServed ==
  ASSUME RingInv, Patient, NEW r \in Readers, rAt[r] = "recv"
  PROVE  Received(r) \/ ToBeSent(r)
<1>1. TypeOK /\ JoinOK /\ SocketOK(r) /\ OutcomesOK(r) /\ WindowOK(r)
  BY DEF RingInv, FlagsInv, StreamInv, Gone
<1>2. taken[r] \in OnSocket /\ Due(r) = taken[r]
  BY <1>1 DEF OutcomesOK, OnSocket, Due
<1>3. taken[r] \in Nat /\ published \in Nat /\ taken[r] <= published
  BY <1>1 DEF TypeOK, WindowOK
<1>4. wAt # "joining"
  BY <1>1 DEF JoinOK
<1>5. CASE Sent(taken[r])
  <2>1. \E i \in 1 .. Len(payloads[r]) : payloads[r][i] = taken[r]
    BY <1>1, <1>2, <1>3, <1>5 DEF SocketOK
  <2>2. payloads[r] # <<>>
    BY <2>1, EmptySeq
  <2> QED BY <2>2 DEF Received
<1>6. CASE ~ Sent(taken[r])
  BY <1>3, <1>4, <1>6 DEF Sent, ToBeSent
<1> QED BY <1>5, <1>6

\* The safety half of Delivered and EnqueueEnds, for every number of readers, slots and
\* messages: with notifications lost, readers dead and writes that raise, nobody waits for
\* what nobody will do.
THEOREM NobodyStuckHolds == Spec => []NobodyStuck
<1>1. RingInv => NobodyStuck
  <2> SUFFICES ASSUME RingInv PROVE NobodyStuck
    OBVIOUS
  <2>0. FlagsInv
    BY DEF RingInv
  <2>1. \A r \in Readers : taken[r] < published => Takeable(r)
    BY <2>0, BehindTakeable
  <2>2. ASSUME ~ Writable(wIdx)
        PROVE  \E r \in Readers : taken[r] + Slots = published /\ Takeable(r)
    <3>1. PICK r \in Readers : taken[r] + Slots = published
      BY <2>0, <2>2, FullBehind
    <3>2. taken[r] < published
      BY <2>0, <3>1, RingConstants DEF FlagsInv, TypeOK
    <3> QED BY <2>1, <3>1, <3>2
  <2>3. Patient => \A r \in Readers : rAt[r] = "recv" => Received(r) \/ ToBeSent(r)
    BY RecvServed
  <2> QED BY <2>1, <2>2, <2>3 DEF NobodyStuck
<1> QED BY <1>1, RingInvariant, PTL

===============================================================================
