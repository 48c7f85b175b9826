------------------------- MODULE EngineAdmission_proofs -------------------------
(***************************************************************************)
(* Theorems about EngineAdmission: its types, one answer per request, one  *)
(* request at a time, first come first served and no abort lost, for every *)
(* set of requests, every capacity of the FIFO and every fault.            *)
(*                                                                         *)
(* The argument is a line: the admitted requests, the one being added, the *)
(* deferred ones and those in the input queue stand in the order in which  *)
(* they were sent.  That no request stands in two places, and so that none *)
(* is answered twice, follows from the order being strict.                 *)
(*                                                                         *)
(* The last section is about who may be left waiting: the FIFO of a        *)
(* blocked engine is empty, but for a failed admission fence.              *)
(***************************************************************************)
EXTENDS EngineAdmission, TLAPS, SequenceTheorems, FiniteSetTheorems

Before(p, q) == \E k, l \in 1 .. Len(sent) : k < l /\ sent[k] = p /\ sent[l] = q
Ordered(line) == \A i, j \in 1 .. Len(line) : i < j => Before(line[i], line[j])

Admitted == {admitted[i] : i \in 1 .. Len(admitted)}
Queued == {q \in Requests : \E i \in 1 .. Len(inbox) : inbox[i] = Message("ADD", q)}
AbortQueued(q) == \E i \in 1 .. Len(inbox) : inbox[i] = Message("ABORT", q)

DeferredOnce == \A i, j \in 1 .. Len(deferred) : deferred[i] = deferred[j] => i = j
SentOnce == \A i, j \in 1 .. Len(sent) : sent[i] = sent[j] => i = j

InboxOrdered ==
  \A p, q \in Requests : \A i, j \in 1 .. Len(inbox) :
    i < j /\ inbox[i] = Message("ADD", p) /\ inbox[j] = Message("ADD", q) => Before(p, q)

\* Each part of the line is in order.
PartsOK ==
  /\ Ordered(admitted) /\ Ordered(deferred)
  /\ InboxOrdered

\* Nobody is in the line who was not sent; and each part stands before the next.
LineOK ==
  /\ Admitted \cup Deferred \cup Queued \subseteq SentSet
  /\ \A p \in Admitted, q \in Deferred \cup Queued : Before(p, q)
  /\ \A p \in Deferred, q \in Queued : Before(p, q)

\* The request being added stands between admitted and queued.  If it came from the FIFO
\* it is before the rest of it and the group is not busy; if it came from the input queue
\* it is behind the FIFO, and it is not admitted while others wait there.
FromFifo == gate # "busy" /\ \A q \in Deferred : Before(adding, q)
FromInbox ==
  /\ gate = "ready" => deferred = <<>> \/ shutdown # "RUNNING"
  /\ \A q \in Deferred : Before(q, adding)
AddingOK ==
  adding # NoRequest =>
    /\ pc \in {"wait", "drain", "dead"}
    /\ adding \in SentSet
    /\ \A p \in Admitted : Before(p, adding)
    /\ \A q \in Queued : Before(adding, q)
    /\ FromFifo \/ FromInbox

\* Requests wait behind an open gate only until the next pass takes up the first of them.
OpenOK ==
  gate = "ready" /\ deferred # <<>> =>
    \/ shutdown # "RUNNING" \/ pc \in {"top", "deferred", "dead"}
    \/ adding # NoRequest /\ \A q \in Deferred : Before(adding, q)

\* Who stands in the line or runs has no answer yet.
Waiting(q) == q \in Deferred \cup Queued \cup running \/ adding = q
AnswerOK ==
  /\ running \subseteq Admitted
  /\ \A q \in Requests :
       /\ replies[q] <= 1
       /\ Waiting(q) \/ q \notin SentSet => replies[q] = 0

\* A generation is over for the scheduler before its cleanup goes out, and that before
\* the gate opens.
AloneOK ==
  /\ \A p, q \in running \cup finished \cup carried : p = q
  /\ running \cap finished = {} /\ carried \cap (running \cup finished) = {}
  /\ gate = "ready" => running \cup finished \cup carried = {}

\* The input queue holds a request's ABORT behind its ADD, unless it has yet to get there.
AddCovered(q) ==
  \A i \in 1 .. Len(inbox) : inbox[i] = Message("ADD", q) =>
    \E j \in i .. Len(inbox) : inbox[j] = Message("ABORT", q)
AbortOK ==
  /\ aborting \subseteq SentSet
  /\ \A q \in aborting :
       /\ reading = q \/ AddCovered(q)
       /\ Stopped \/ reading = q \/ AbortQueued(q) \/ ~Waiting(q)

LineInv == SentOnce /\ PartsOK /\ LineOK /\ AddingOK /\ OpenOK
AdmissionInv == TypeOK /\ LineInv /\ AnswerOK /\ AloneOK /\ AbortOK

-------------------------------------------------------------------------------
(* Types                                                                        *)

LEMMA InitType == Init => TypeOK
<1>1. <<>> \in Seq(Requests) /\ <<>> \in Seq(Messages)
  BY EmptySeq
<1> SUFFICES ASSUME Init PROVE TypeOK
  OBVIOUS
<1>2. waking \in BOOLEAN
  BY DEF Init
<1>3. sent \in Seq(Requests) /\ deferred \in Seq(Requests) /\ admitted \in Seq(Requests)
  BY <1>1 DEF Init
<1>4. inbox \in Seq(Messages)
  BY <1>1 DEF Init
<1>5. replies \in [Requests -> Nat]
  BY DEF Init
<1> QED BY <1>2, <1>3, <1>4, <1>5 DEF Init, TypeOK, Places

LEMMA ClientType ==
  ASSUME TypeOK, Clients \/ Helpers \/ Signal \/ WorkerExit
  PROVE  TypeOK'
<1>1. CASE Clients
  <2>1. CASE SendUtility
    BY <2>1 DEF SendUtility, TypeOK, Messages, Message, clientVars, schedulerVars, executorVars
  <2>2. ASSUME NEW q \in Requests, SendAdd(q) PROVE TypeOK'
    BY <2>2 DEF SendAdd, TypeOK, Messages, Message, counters, schedulerVars, executorVars
  <2>3. ASSUME NEW q \in Requests, SendAbort(q) PROVE TypeOK'
    BY <2>3 DEF SendAbort, TypeOK, counters, schedulerVars, executorVars
  <2> QED BY <1>1, <2>1, <2>2, <2>3 DEF Clients
<1>2. CASE Helpers
  <2>1. CASE QueueAbort
    BY <2>1 DEF QueueAbort, TypeOK, Messages, Message, counters, schedulerVars, executorVars
  <2>2. CASE NotifyFailure
    BY <2>2 DEF NotifyFailure, TypeOK, Messages, Message, counters, schedulerVars, clientVars
  <2>3. CASE Wakeup
    <3>1. waking' \in BOOLEAN
      BY <2>3 DEF Wakeup
    <3> QED BY <2>3, <3>1
        DEF Wakeup, TypeOK, Messages, Message, counters, schedulerVars, executorVars
  <2> QED BY <1>2, <2>1, <2>2, <2>3 DEF Helpers
<1>3. CASE Signal
  BY <1>3 DEF Signal, TypeOK, counters, schedulerVars, executorVars
<1>4. CASE WorkerExit
  BY <1>4 DEF WorkerExit, Fault, TypeOK, clientVars, schedulerVars
<1> QED BY <1>1, <1>2, <1>3, <1>4

\* The next message of the input queue.
LEMMA TailType ==
  ASSUME TypeOK, NEW type, Take(type)
  PROVE  /\ inbox' \in Seq(Messages) /\ Head(inbox) \in Messages /\ pc' \in Places
         /\ inbox[1] = Head(inbox) /\ Len(inbox) \in Nat \ {0}
         /\ Len(inbox') = Len(inbox) - 1
         /\ \A i \in 1 .. Len(inbox') : inbox'[i] = inbox[i + 1]
<1>1. inbox \in Seq(Messages) /\ inbox # <<>> /\ inbox' = Tail(inbox)
  BY DEF TypeOK, Take
<1>2. pc' \in Places
  BY DEF Take, TypeOK, Places
<1>3. /\ Head(inbox) \in Messages /\ Tail(inbox) \in Seq(Messages)
      /\ Len(Tail(inbox)) = Len(inbox) - 1
      /\ \A i \in 1 .. Len(Tail(inbox)) : Tail(inbox)[i] = inbox[i + 1]
  BY <1>1, HeadTailProperties
<1> QED BY <1>1, <1>2, <1>3, EmptySeq

\* Without removes a request of the FIFO and leaves the others as they are.
LEMMA FifoLine ==
  ASSUME TypeOK, DeferredOnce, NEW q, deferred' = Without(deferred, q)
  PROVE  /\ deferred' \in Seq(Requests)
         /\ \A i \in 1 .. Len(deferred') :
              \E j \in 1 .. Len(deferred) : deferred[j] # q /\ deferred'[i] = deferred[j]
         /\ \A j \in 1 .. Len(deferred) : deferred[j] # q =>
              \E i \in 1 .. Len(deferred') : deferred'[i] = deferred[j]
         /\ \A i, j \in 1 .. Len(deferred') : i < j =>
              \E k, l \in 1 .. Len(deferred) :
                k < l /\ deferred'[i] = deferred[k] /\ deferred'[j] = deferred[l]
<1>0. deferred \in Seq(Requests)
  BY DEF TypeOK
<1>1. CASE \A i \in 1 .. Len(deferred) : deferred[i] # q
  BY <1>0, <1>1 DEF Without
<1>2. CASE \E i \in 1 .. Len(deferred) : deferred[i] = q
  <2> DEFINE at == CHOOSE i \in 1 .. Len(deferred) : deferred[i] = q
             e(i) == IF i < at THEN deferred[i] ELSE deferred[i + 1]
             rest == [i \in 1 .. Len(deferred) - 1 |-> e(i)]
  <2>1. at \in 1 .. Len(deferred) /\ deferred[at] = q
    BY <1>2
  <2>2. Len(deferred) \in Nat /\ Len(deferred) - 1 \in Nat
    BY <1>0, <2>1, LenProperties
  <2>3. deferred' = rest
    BY <1>2 DEF Without
  <2> HIDE DEF at
  <2>4. \A i \in 1 .. Len(deferred) - 1 : e(i) \in Requests
    BY <1>0, <2>1, <2>2, ElementOfSeq
  <2>5. rest \in Seq(Requests)
    <3> HIDE DEF e
    <3> QED BY <2>2, <2>4, IsASeq
  <2>6. Len(rest) = Len(deferred) - 1 /\ \A i \in 1 .. Len(rest) : rest[i] = e(i)
    BY <2>2, <2>5, LenProperties
  <2> HIDE DEF rest
  <2>7. \A i \in 1 .. Len(rest) : \E j \in 1 .. Len(deferred) : deferred[j] # q /\ rest[i] = deferred[j]
    <3> TAKE i \in 1 .. Len(rest)
    <3>1. CASE i < at
      BY <3>1, <2>1, <2>2, <2>6 DEF DeferredOnce
    <3>2. CASE ~(i < at)
      BY <3>2, <2>1, <2>2, <2>6 DEF DeferredOnce
    <3> QED BY <3>1, <3>2
  <2>8. \A j \in 1 .. Len(deferred) : deferred[j] # q => \E i \in 1 .. Len(rest) : rest[i] = deferred[j]
    <3> TAKE j \in 1 .. Len(deferred)
    <3> HAVE deferred[j] # q
    <3>1. CASE j < at
      BY <3>1, <2>1, <2>2, <2>6
    <3>2. CASE j > at
      <4>1. j - 1 \in 1 .. Len(rest) /\ rest[j - 1] = deferred[(j - 1) + 1]
        BY <3>2, <2>1, <2>2, <2>6
      <4> QED BY <4>1
    <3> QED BY <3>1, <3>2, <2>1, <2>2
  <2>9. \A i, j \in 1 .. Len(rest) : i < j =>
          \E k, l \in 1 .. Len(deferred) : k < l /\ rest[i] = deferred[k] /\ rest[j] = deferred[l]
    <3> TAKE i, j \in 1 .. Len(rest)
    <3> HAVE i < j
    <3> DEFINE up(x) == IF x < at THEN x ELSE x + 1
    <3>1. up(i) \in 1 .. Len(deferred) /\ up(j) \in 1 .. Len(deferred) /\ up(i) < up(j)
      BY <2>1, <2>2, <2>6
    <3>2. rest[i] = deferred[up(i)] /\ rest[j] = deferred[up(j)]
      BY <2>6
    <3> HIDE DEF up
    <3> QED BY <3>1, <3>2
  <2> QED BY <2>3, <2>5, <2>7, <2>8, <2>9
<1> QED BY <1>1, <1>2

LEMMA AnswerType ==
  ASSUME TypeOK, NEW reqs, Answer(reqs)
  PROVE  /\ replies' \in [Requests -> Nat]
         /\ \A q \in Requests : replies'[q] = replies[q] + IF q \in reqs THEN 1 ELSE 0
  BY DEF TypeOK, Answer

LEMMA HeadType ==
  ASSUME TypeOK, deferred # <<>>
  PROVE  /\ Head(deferred) \in Requests /\ Tail(deferred) \in Seq(Requests)
         /\ Len(deferred) \in Nat \ {0} /\ Len(Tail(deferred)) = Len(deferred) - 1
         /\ Head(deferred) = deferred[1]
         /\ \A i \in 1 .. Len(Tail(deferred)) : Tail(deferred)[i] = deferred[i + 1]
<1>1. deferred \in Seq(Requests)
  BY DEF TypeOK
<1> QED BY <1>1, HeadTailProperties, EmptySeq

LEMMA LoopType ==
  ASSUME TypeOK, HandleShutdown \/ AdmitDeferred \/ WaitForInput \/ StopDraining
  PROVE  TypeOK'
<1>0. waking \in BOOLEAN /\ <<>> \in Seq(Requests)
  BY EmptySeq DEF TypeOK
<1>1. CASE HandleShutdown
  <2>1. replies' \in [Requests -> Nat]
    BY <1>1, AnswerType DEF HandleShutdown, TypeOK
  <2>2. deferred' \in Seq(Requests)
    BY <1>0, <1>1 DEF HandleShutdown, TypeOK
  <2> QED BY <1>1, <2>1, <2>2
      DEF HandleShutdown, TypeOK, Places, clientVars, executorVars, counters
<1>2. CASE AdmitDeferred
  <2>1. replies' \in [Requests -> Nat]
    BY <1>2, AnswerType DEF AdmitDeferred, TypeOK
  <2>2. deferred' \in Seq(Requests) /\ adding' \in Requests \cup {NoRequest}
    BY <1>0, <1>2, HeadType DEF AdmitDeferred, TypeOK
  <2> QED BY <1>2, <2>1, <2>2
      DEF AdmitDeferred, TypeOK, Places, clientVars, schedulerVars, executorVars, counters
<1>3. CASE WaitForInput
  BY <1>3 DEF WaitForInput, TypeOK, Places, clientVars, schedulerVars, executorVars, counters
<1>4. CASE StopDraining
  BY <1>4 DEF StopDraining, TypeOK, Places, clientVars, schedulerVars, executorVars, counters
<1> QED BY <1>1, <1>2, <1>3, <1>4

LEMMA TakeType ==
  ASSUME TypeOK, DeferredOnce,
         TakeWakeup \/ TakeAdd \/ TakeAbort \/ TakeUtility \/ TakeFailure
  PROVE  TypeOK'
<1>1. CASE TakeWakeup
  BY <1>1, TailType DEF TakeWakeup, TypeOK, clientVars, schedulerVars, executorVars, counters
<1>2. CASE TakeAdd
  BY <1>2, TailType
  DEF TakeAdd, TypeOK, Messages, clientVars, schedulerVars, executorVars, counters
<1>3. CASE TakeAbort
  <2> DEFINE q == Head(inbox).req
  <2>1. inbox' \in Seq(Messages) /\ pc' \in Places
    BY <1>3, TailType DEF TakeAbort
  <2>2. replies' \in [Requests -> Nat]
    BY <1>3, AnswerType DEF TakeAbort
  <2>3. deferred' = Without(deferred, q)
    BY <1>3 DEF TakeAbort
  <2>4. deferred' \in Seq(Requests)
    <3> HIDE DEF q
    <3> QED BY <2>3, FifoLine
  <2> QED BY <1>3, <2>1, <2>2, <2>4 DEF TakeAbort, TypeOK, clientVars, executorVars, counters
<1>4. CASE TakeUtility
  BY <1>4, TailType DEF TakeUtility, TypeOK, Fault, clientVars, schedulerVars
<1>5. CASE TakeFailure
  BY <1>5, TailType DEF TakeFailure, TypeOK, clientVars, schedulerVars, executorVars, counters
<1> QED BY <1>1, <1>2, <1>3, <1>4, <1>5

LEMMA AddType ==
  ASSUME TypeOK, RefuseAdd \/ DeferAdd \/ BeginAdd \/ FenceFails \/ SchedulerFails
  PROVE  TypeOK'
<1>0. adding # NoRequest => adding \in Requests
  BY DEF TypeOK
<1>1. CASE RefuseAdd
  <2>1. replies' \in [Requests -> Nat]
    BY <1>1, AnswerType DEF RefuseAdd
  <2> QED BY <1>1, <2>1 DEF RefuseAdd, TypeOK, clientVars, schedulerVars, executorVars, counters
<1>2. CASE DeferAdd
  BY <1>0, <1>2, AppendProperties
  DEF DeferAdd, TypeOK, clientVars, schedulerVars, executorVars, counters
<1>3. CASE BeginAdd
  BY <1>0, <1>3, AppendProperties DEF BeginAdd, TypeOK, clientVars, counters
<1>4. CASE FenceFails
  <2>1. replies' \in [Requests -> Nat]
    BY <1>4, AnswerType DEF FenceFails
  <2> QED BY <1>4, <2>1 DEF FenceFails, Fault, TypeOK, clientVars, schedulerVars
<1>5. CASE SchedulerFails
  BY <1>5 DEF SchedulerFails, Fault, TypeOK, Places, clientVars, schedulerVars
<1> QED BY <1>1, <1>2, <1>3, <1>4, <1>5

LEMMA StepType ==
  ASSUME TypeOK, Execute \/ Update \/ StepFails
  PROVE  TypeOK'
<1>1. CASE Execute
  BY <1>1 DEF Execute, TypeOK, Places, clientVars, executorVars, counters
<1>2. CASE Update
  <2>1. PICK done \in SUBSET (running \ aborts) :
          /\ Answer(done) /\ running' = (running \ aborts) \ done
          /\ finished' = finished \cup (running \ running')
    BY <1>2 DEF Update
  <2>2. replies' \in [Requests -> Nat]
    BY <2>1, AnswerType
  <2> QED BY <1>2, <2>1, <2>2 DEF Update, TypeOK, Places, clientVars, counters
<1>3. CASE StepFails
  BY <1>3 DEF StepFails, Fault, TypeOK, Places, clientVars, schedulerVars
<1> QED BY <1>1, <1>2, <1>3

\* Every step keeps the types.
LEMMA TypeStep ==
  ASSUME TypeOK, DeferredOnce, [Next]_vars
  PROVE  TypeOK'
<1>1. CASE UNCHANGED vars
  BY <1>1 DEF vars, TypeOK, clientVars, schedulerVars, executorVars, counters
<1>2. CASE Next
  BY <1>2, ClientType, LoopType, TakeType, AddType, StepType DEF Next, Engine, Failures
<1> QED BY <1>1, <1>2

-------------------------------------------------------------------------------
(* The order of sending                                                         *)

LEMMA BeforeStrict ==
  ASSUME TypeOK, SentOnce, NEW p, NEW q, Before(p, q)
  PROVE  p # q /\ p \in SentSet /\ q \in SentSet
<1>1. PICK k, l \in 1 .. Len(sent) : k < l /\ sent[k] = p /\ sent[l] = q
  BY DEF Before
<1>2. Len(sent) \in Nat
  BY LenProperties DEF TypeOK
<1> QED BY <1>1, <1>2 DEF SentOnce, SentSet

LEMMA BeforeKept ==
  ASSUME sent' = sent
  PROVE  /\ \A p, q : Before(p, q) <=> Before(p, q)'
         /\ SentSet' = SentSet /\ (SentOnce => SentOnce')
  BY DEF Before, SentSet, SentOnce

LEMMA BeforeGrows ==
  ASSUME TypeOK, NEW r \in Requests, sent' = Append(sent, r)
  PROVE  /\ \A p, q : Before(p, q) => Before(p, q)'
         /\ \A p \in SentSet : Before(p, r)'
         /\ SentSet' = SentSet \cup {r}
         /\ SentOnce /\ r \notin SentSet => SentOnce'
<1>1. /\ Len(sent) \in Nat /\ Len(sent') = Len(sent) + 1 /\ sent'[Len(sent) + 1] = r
      /\ \A i \in 1 .. Len(sent) : sent'[i] = sent[i]
  BY AppendProperties, LenProperties DEF TypeOK
<1>2. \A p, q : Before(p, q) => Before(p, q)'
  <2> SUFFICES ASSUME NEW p, NEW q, NEW k \in 1 .. Len(sent), NEW l \in 1 .. Len(sent),
                      k < l, sent[k] = p, sent[l] = q
               PROVE  \E i, j \in 1 .. Len(sent') : i < j /\ sent'[i] = p /\ sent'[j] = q
    BY DEF Before
  <2>1. k \in 1 .. Len(sent') /\ l \in 1 .. Len(sent') /\ sent'[k] = p /\ sent'[l] = q
    BY <1>1
  <2> QED BY <2>1
<1>3. \A p \in SentSet : Before(p, r)'
  <2> SUFFICES ASSUME NEW k \in 1 .. Len(sent)
               PROVE  \E i, j \in 1 .. Len(sent') : i < j /\ sent'[i] = sent[k] /\ sent'[j] = r
    BY DEF Before, SentSet
  <2>1. k \in 1 .. Len(sent') /\ Len(sent) + 1 \in 1 .. Len(sent') /\ k < Len(sent) + 1
    BY <1>1
  <2> QED BY <1>1, <2>1
<1>4. SentSet' = SentSet \cup {r}
  <2>1. \A x : x \in SentSet' => x \in SentSet \cup {r}
    BY <1>1 DEF SentSet
  <2>2. \A i \in 1 .. Len(sent) : sent[i] \in SentSet'
    BY <1>1 DEF SentSet
  <2>3. r \in SentSet'
    BY <1>1 DEF SentSet
  <2>4. SentSet \subseteq SentSet'
    BY <2>2 DEF SentSet
  <2> QED BY <2>1, <2>3, <2>4
<1>5. SentOnce /\ r \notin SentSet => SentOnce'
  BY <1>1 DEF SentOnce, SentSet
<1> QED BY <1>2, <1>3, <1>4, <1>5

LEMMA OrderedOnce ==
  ASSUME TypeOK, SentOnce, Ordered(deferred)
  PROVE  DeferredOnce
<1> SUFFICES ASSUME NEW i \in 1 .. Len(deferred), NEW j \in 1 .. Len(deferred),
                    deferred[i] = deferred[j], i < j
             PROVE  FALSE
  <2>1. Len(deferred) \in Nat
    BY LenProperties DEF TypeOK
  <2> QED BY <2>1 DEF DeferredOnce
<1>1. Before(deferred[i], deferred[j])
  BY DEF Ordered
<1> QED BY <1>1, BeforeStrict

\* Who leaves the FIFO leaves the others in order.
LEMMA FifoShrinks ==
  ASSUME TypeOK, SentOnce, Ordered(deferred), sent' = sent,
         \/ deferred' = deferred \/ deferred' = <<>>
         \/ deferred # <<>> /\ deferred' = Tail(deferred)
         \/ \E q : deferred' = Without(deferred, q)
  PROVE  Ordered(deferred)' /\ Deferred' \subseteq Deferred
<1>0. \A p, q : Before(p, q) <=> Before(p, q)'
  BY BeforeKept
<1>1. CASE deferred' = deferred
  BY <1>0, <1>1 DEF Ordered, Deferred
<1>2. CASE deferred' = <<>>
  BY <1>2 DEF Ordered, Deferred
<1>3. CASE deferred # <<>> /\ deferred' = Tail(deferred)
  <2>1. /\ Len(deferred) \in Nat \ {0} /\ Len(deferred') = Len(deferred) - 1
        /\ \A i \in 1 .. Len(deferred') : deferred'[i] = deferred[i + 1]
    BY <1>3, HeadType
  <2>2. Ordered(deferred)'
    BY <1>0, <2>1 DEF Ordered
  <2>3. Deferred' \subseteq Deferred
    BY <2>1 DEF Deferred
  <2> QED BY <2>2, <2>3
<1>4. ASSUME NEW q, deferred' = Without(deferred, q)
      PROVE  Ordered(deferred)' /\ Deferred' \subseteq Deferred
  <2>1. DeferredOnce
    BY OrderedOnce
  <2>2. /\ \A i \in 1 .. Len(deferred') : \E j \in 1 .. Len(deferred) : deferred'[i] = deferred[j]
        /\ \A i, j \in 1 .. Len(deferred') : i < j =>
             \E k, l \in 1 .. Len(deferred) :
               k < l /\ deferred'[i] = deferred[k] /\ deferred'[j] = deferred[l]
    BY <1>4, <2>1, FifoLine
  <2>3. Ordered(deferred)'
    BY <1>0, <2>2 DEF Ordered
  <2>4. Deferred' \subseteq Deferred
    BY <2>2 DEF Deferred
  <2> QED BY <2>3, <2>4
<1> QED BY <1>1, <1>2, <1>3, <1>4

\* An aborted request is gone from the FIFO, and only it.
LEMMA FifoWithout ==
  ASSUME TypeOK, DeferredOnce, NEW q, deferred' = Without(deferred, q)
  PROVE  Deferred' = Deferred \ {q}
<1>1. /\ \A i \in 1 .. Len(deferred') :
           \E j \in 1 .. Len(deferred) : deferred[j] # q /\ deferred'[i] = deferred[j]
      /\ \A j \in 1 .. Len(deferred) : deferred[j] # q =>
           \E i \in 1 .. Len(deferred') : deferred'[i] = deferred[j]
  BY FifoLine
<1>2. \A x : x \in Deferred' => x \in Deferred \ {q}
  BY <1>1 DEF Deferred
<1>3. \A x : x \in Deferred \ {q} => x \in Deferred'
  BY <1>1 DEF Deferred
<1> QED BY <1>2, <1>3

LEMMA FifoGrows ==
  ASSUME TypeOK, NEW r \in Requests, deferred' = Append(deferred, r)
  PROVE  /\ Deferred' = Deferred \cup {r}
         /\ sent' = sent /\ Ordered(deferred) /\ (\A p \in Deferred : Before(p, r)) => Ordered(deferred)'
<1>1. /\ Len(deferred) \in Nat /\ Len(deferred') = Len(deferred) + 1
      /\ deferred'[Len(deferred) + 1] = r
      /\ \A i \in 1 .. Len(deferred) : deferred'[i] = deferred[i]
  BY AppendProperties, LenProperties DEF TypeOK
<1>2. Deferred' = Deferred \cup {r}
  <2>1. \A x : x \in Deferred' => x \in Deferred \cup {r}
    BY <1>1 DEF Deferred
  <2>2. \A i \in 1 .. Len(deferred) : deferred[i] \in Deferred'
    BY <1>1 DEF Deferred
  <2>3. r \in Deferred'
    BY <1>1 DEF Deferred
  <2>4. Deferred \subseteq Deferred'
    BY <2>2 DEF Deferred
  <2> QED BY <2>1, <2>3, <2>4
<1>3. ASSUME sent' = sent, Ordered(deferred), \A p \in Deferred : Before(p, r)
      PROVE  Ordered(deferred)'
  <2> SUFFICES ASSUME NEW i \in 1 .. Len(deferred'), NEW j \in 1 .. Len(deferred'), i < j
               PROVE  \E k, l \in 1 .. Len(sent) :
                        k < l /\ sent[k] = deferred'[i] /\ sent[l] = deferred'[j]
    BY <1>3 DEF Ordered, Before
  <2>1. i \in 1 .. Len(deferred) /\ deferred'[i] = deferred[i] /\ deferred[i] \in Deferred
    BY <1>1 DEF Deferred
  <2>2. j \in 1 .. Len(deferred) \/ deferred'[j] = r
    BY <1>1
  <2>3. Before(deferred[i], deferred'[j])
    BY <1>1, <1>3, <2>1, <2>2 DEF Ordered
  <2> QED BY <2>1, <2>3 DEF Before
<1> QED BY <1>2, <1>3

LEMMA AdmittedGrows ==
  ASSUME TypeOK, NEW r \in Requests, admitted' = Append(admitted, r)
  PROVE  /\ Admitted' = Admitted \cup {r}
         /\ sent' = sent /\ Ordered(admitted) /\ (\A p \in Admitted : Before(p, r)) => Ordered(admitted)'
<1>1. /\ Len(admitted) \in Nat /\ Len(admitted') = Len(admitted) + 1
      /\ admitted'[Len(admitted) + 1] = r
      /\ \A i \in 1 .. Len(admitted) : admitted'[i] = admitted[i]
  BY AppendProperties, LenProperties DEF TypeOK
<1>2. Admitted' = Admitted \cup {r}
  <2>1. \A x : x \in Admitted' => x \in Admitted \cup {r}
    BY <1>1 DEF Admitted
  <2>2. \A i \in 1 .. Len(admitted) : admitted[i] \in Admitted'
    BY <1>1 DEF Admitted
  <2>3. r \in Admitted'
    BY <1>1 DEF Admitted
  <2>4. Admitted \subseteq Admitted'
    BY <2>2 DEF Admitted
  <2> QED BY <2>1, <2>3, <2>4
<1>3. ASSUME sent' = sent, Ordered(admitted), \A p \in Admitted : Before(p, r)
      PROVE  Ordered(admitted)'
  <2> SUFFICES ASSUME NEW i \in 1 .. Len(admitted'), NEW j \in 1 .. Len(admitted'), i < j
               PROVE  \E k, l \in 1 .. Len(sent) :
                        k < l /\ sent[k] = admitted'[i] /\ sent[l] = admitted'[j]
    BY <1>3 DEF Ordered, Before
  <2>1. i \in 1 .. Len(admitted) /\ admitted'[i] = admitted[i] /\ admitted[i] \in Admitted
    BY <1>1 DEF Admitted
  <2>2. j \in 1 .. Len(admitted) \/ admitted'[j] = r
    BY <1>1
  <2>3. Before(admitted[i], admitted'[j])
    BY <1>1, <1>3, <2>1, <2>2 DEF Ordered
  <2> QED BY <2>1, <2>3 DEF Before
<1> QED BY <1>2, <1>3

-------------------------------------------------------------------------------
(* The input queue                                                              *)

\* The other threads, but for an ADD, put other messages in the queue.
LEMMA OtherMessages ==
  ASSUME TypeOK,
         \/ SendUtility \/ \E q \in Requests : SendAbort(q)
         \/ Helpers \/ Signal \/ WorkerExit \/ SchedulerFails \/ StepFails
  PROVE  inbox' = inbox \/ \E m \in Messages : m.type # "ADD" /\ inbox' = Append(inbox, m)
<1>1. CASE SendUtility
  <2>1. Message("UTILITY", NoRequest) \in Messages /\ Message("UTILITY", NoRequest).type # "ADD"
    BY DEF Message, Messages
  <2> QED BY <1>1, <2>1 DEF SendUtility
<1>2. CASE QueueAbort
  <2>1. Message("ABORT", reading) \in Messages /\ Message("ABORT", reading).type # "ADD"
    BY DEF Message, Messages, TypeOK
  <2> QED BY <1>2, <2>1 DEF QueueAbort
<1>3. CASE NotifyFailure
  <2>1. /\ Message("EXECUTOR_FAILED", NoRequest) \in Messages
        /\ Message("EXECUTOR_FAILED", NoRequest).type # "ADD"
    BY DEF Message, Messages
  <2> QED BY <1>3, <2>1 DEF NotifyFailure
<1>4. CASE Wakeup
  <2>1. Message("WAKEUP", NoRequest) \in Messages /\ Message("WAKEUP", NoRequest).type # "ADD"
    BY DEF Message, Messages
  <2> QED BY <1>4, <2>1 DEF Wakeup
<1>5. CASE \/ \E q \in Requests : SendAbort(q)
           \/ Signal \/ WorkerExit \/ SchedulerFails \/ StepFails
  BY <1>5 DEF SendAbort, Signal, WorkerExit, SchedulerFails, StepFails
<1> QED BY <1>1, <1>2, <1>3, <1>4, <1>5 DEF Helpers

\* Neither the other messages nor taking one puts anybody in the line.
LEMMA InboxShrinks ==
  ASSUME TypeOK, InboxOrdered, sent' = sent,
         \/ inbox' = inbox
         \/ \E m \in Messages : m.type # "ADD" /\ inbox' = Append(inbox, m)
         \/ \E type : Take(type)
  PROVE  InboxOrdered' /\ Queued' \subseteq Queued
<1>0. /\ \A p, q : Before(p, q) <=> Before(p, q)'
      /\ \A q : Message("ADD", q).type = "ADD"
  BY BeforeKept DEF Message
<1>1. CASE inbox' = inbox
  BY <1>0, <1>1 DEF InboxOrdered, Queued
<1>2. ASSUME NEW m \in Messages, m.type # "ADD", inbox' = Append(inbox, m)
      PROVE  InboxOrdered' /\ Queued' \subseteq Queued
  <2>1. /\ Len(inbox) \in Nat /\ Len(inbox') = Len(inbox) + 1
        /\ inbox'[Len(inbox) + 1] = m
        /\ \A i \in 1 .. Len(inbox) : inbox'[i] = inbox[i]
    BY <1>2, AppendProperties, LenProperties DEF TypeOK
  <2>2. \A q : m # Message("ADD", q)
    BY <1>0, <1>2
  <2>3. \A q : \A i \in 1 .. Len(inbox') : inbox'[i] = Message("ADD", q) =>
          i \in 1 .. Len(inbox) /\ inbox[i] = Message("ADD", q)
    BY <2>1, <2>2
  <2>4. InboxOrdered'
    BY <1>0, <2>3 DEF InboxOrdered
  <2>5. Queued' \subseteq Queued
    BY <2>3 DEF Queued
  <2> QED BY <2>4, <2>5
<1>3. ASSUME NEW type, Take(type)
      PROVE  InboxOrdered' /\ Queued' \subseteq Queued
  <2>1. /\ Len(inbox) \in Nat \ {0} /\ Len(inbox') = Len(inbox) - 1
        /\ \A i \in 1 .. Len(inbox') : inbox'[i] = inbox[i + 1]
    BY <1>3, TailType
  <2>2. InboxOrdered'
    BY <1>0, <2>1 DEF InboxOrdered
  <2>3. Queued' \subseteq Queued
    BY <2>1 DEF Queued
  <2> QED BY <2>2, <2>3
<1> QED BY <1>1, <1>2, <1>3

\* The first ADD of the queue stands before the others in it.
LEMMA InboxHead ==
  ASSUME TypeOK, InboxOrdered, Take("ADD"), Head(inbox).req \in Requests
  PROVE  /\ Head(inbox).req \in Queued
         /\ \A q \in Queued' : Before(Head(inbox).req, q)
<1> DEFINE h == Head(inbox).req
<1>1. /\ Len(inbox) \in Nat \ {0} /\ Len(inbox') = Len(inbox) - 1
      /\ \A i \in 1 .. Len(inbox') : inbox'[i] = inbox[i + 1]
      /\ inbox[1] = Head(inbox) /\ Head(inbox) \in Messages
  BY TailType
<1>2. inbox[1] = Message("ADD", h)
  BY <1>1 DEF Take, Message, Messages
<1> HIDE DEF h
<1>3. h \in Requests
  BY DEF h
<1>4. h \in Queued
  BY <1>1, <1>2, <1>3 DEF Queued
<1>5. \A q \in Queued' : Before(h, q)
  <2> SUFFICES ASSUME NEW q \in Requests, NEW i \in 1 .. Len(inbox'), inbox'[i] = Message("ADD", q)
               PROVE  Before(h, q)
    BY DEF Queued
  <2>1. 1 \in 1 .. Len(inbox) /\ i + 1 \in 1 .. Len(inbox) /\ 1 < i + 1 /\ inbox[i + 1] = Message("ADD", q)
    BY <1>1
  <2> QED BY <1>2, <1>3, <2>1 DEF InboxOrdered
<1> QED BY <1>4, <1>5 DEF h

LEMMA InboxGrows ==
  ASSUME TypeOK, SentOnce, InboxOrdered, Queued \subseteq SentSet, NEW r \in Requests, SendAdd(r)
  PROVE  InboxOrdered' /\ Queued' = Queued \cup {r}
<1>1. sent' = Append(sent, r) /\ inbox' = Append(inbox, Message("ADD", r))
  BY DEF SendAdd
<1>2. Message("ADD", r) \in Messages
  BY DEF Message, Messages
<1>3. /\ Len(inbox) \in Nat /\ Len(inbox') = Len(inbox) + 1
      /\ inbox'[Len(inbox) + 1] = Message("ADD", r)
      /\ \A i \in 1 .. Len(inbox) : inbox'[i] = inbox[i]
  BY <1>1, <1>2, AppendProperties, LenProperties DEF TypeOK
<1>4. /\ \A p, q : Before(p, q) => Before(p, q)'
      /\ \A p \in SentSet : Before(p, r)'
  BY <1>1, BeforeGrows
<1>5. \A q : Message("ADD", q) = Message("ADD", r) => q = r
  BY DEF Message
<1>6. InboxOrdered'
  <2> SUFFICES ASSUME NEW p \in Requests, NEW q \in Requests, NEW i \in 1 .. Len(inbox'),
                      NEW j \in 1 .. Len(inbox'), i < j,
                      inbox'[i] = Message("ADD", p), inbox'[j] = Message("ADD", q)
               PROVE  Before(p, q)'
    BY DEF InboxOrdered
  <2>1. i \in 1 .. Len(inbox) /\ inbox[i] = Message("ADD", p)
    BY <1>3
  <2>2. CASE j \in 1 .. Len(inbox)
    BY <1>3, <1>4, <2>1, <2>2 DEF InboxOrdered
  <2>3. CASE j = Len(inbox) + 1
    BY <1>3, <1>4, <1>5, <2>1, <2>3 DEF Queued
  <2> QED BY <1>3, <2>2, <2>3
<1>7. Queued' = Queued \cup {r}
  <2>1. \A q \in Queued' : q \in Queued \cup {r}
    BY <1>3, <1>5 DEF Queued
  <2>2. \A q \in Queued : q \in Queued'
    BY <1>3 DEF Queued
  <2>3. r \in Queued'
    BY <1>3 DEF Queued
  <2> QED BY <2>1, <2>2, <2>3
<1> QED BY <1>6, <1>7

-------------------------------------------------------------------------------
(* The line                                                                     *)

\* A step that only lets requests leave the FIFO and the input queue keeps their order.
LEMMA LineShrinks ==
  ASSUME TypeOK, LineInv, sent' = sent, admitted' = admitted,
         \/ deferred' = deferred \/ deferred' = <<>>
         \/ deferred # <<>> /\ deferred' = Tail(deferred)
         \/ \E q : deferred' = Without(deferred, q),
         \/ inbox' = inbox
         \/ \E m \in Messages : m.type # "ADD" /\ inbox' = Append(inbox, m)
         \/ \E type : Take(type)
  PROVE  /\ SentOnce' /\ PartsOK' /\ LineOK'
         /\ Deferred' \subseteq Deferred /\ Queued' \subseteq Queued
<1>1. Ordered(deferred)' /\ Deferred' \subseteq Deferred
  BY FifoShrinks DEF LineInv, PartsOK
<1>2. InboxOrdered' /\ Queued' \subseteq Queued
  BY InboxShrinks DEF LineInv, PartsOK
<1>3. /\ \A p, q : Before(p, q) <=> Before(p, q)'
      /\ SentSet' = SentSet /\ SentOnce'
  BY BeforeKept DEF LineInv
<1>4. Ordered(admitted)' /\ Admitted' = Admitted
  BY <1>3 DEF LineInv, PartsOK, Ordered, Admitted
<1>5. LineOK'
  BY <1>1, <1>2, <1>3, <1>4 DEF LineInv, LineOK
<1> QED BY <1>1, <1>2, <1>3, <1>4, <1>5 DEF PartsOK


\* A step of another thread leaves the request being added at its place.
LEMMA AddingKept ==
  ASSUME TypeOK, LineInv, admitted' = admitted, deferred' = deferred, adding' = adding,
         \A p, q : Before(p, q) => Before(p, q)',
         SentSet \subseteq SentSet',
         \A q \in Queued' : q \in Queued \/ \A p \in SentSet : Before(p, q)',
         pc' \in {pc, "dead"}, gate' \in {gate, "poisoned"},
         shutdown # "RUNNING" => shutdown' # "RUNNING"
  PROVE  AddingOK' /\ OpenOK'
<1>1. Admitted' = Admitted /\ Deferred' = Deferred
  BY DEF Admitted, Deferred
<1>2. gate' = "ready" => gate = "ready"
  OBVIOUS
<1>3. OpenOK'
  BY <1>1, <1>2 DEF LineInv, OpenOK
<1>4. AddingOK'
  <2> SUFFICES ASSUME adding # NoRequest
               PROVE  /\ pc' \in {"wait", "drain", "dead"}
                      /\ adding \in SentSet'
                      /\ \A p \in Admitted' : Before(p, adding)'
                      /\ \A q \in Queued' : Before(adding, q)'
                      /\ FromFifo' \/ FromInbox'
    BY DEF AddingOK
  <2>1. /\ pc \in {"wait", "drain", "dead"} /\ adding \in SentSet
        /\ \A p \in Admitted : Before(p, adding)
        /\ \A q \in Queued : Before(adding, q)
        /\ FromFifo \/ FromInbox
    BY DEF LineInv, AddingOK
  <2>2. FromFifo => FromFifo'
    BY <1>1 DEF FromFifo
  <2>3. FromInbox => FromInbox'
    BY <1>1, <1>2 DEF FromInbox
  <2>4. \A q \in Queued' : Before(adding, q)'
    BY <2>1
  <2> QED BY <1>1, <2>1, <2>2, <2>3, <2>4
<1> QED BY <1>3, <1>4

\* The steps of the other threads and the engine's death.
LEMMA ThreadLine ==
  ASSUME TypeOK, LineInv, Clients \/ Helpers \/ Signal \/ WorkerExit \/ SchedulerFails \/ StepFails
  PROVE  LineInv'
<1>1. ASSUME NEW r \in Requests, SendAdd(r) PROVE LineInv'
  <2>1. /\ sent' = Append(sent, r) /\ r \notin SentSet /\ admitted' = admitted
        /\ deferred' = deferred /\ adding' = adding /\ pc' = pc /\ gate' = gate
        /\ shutdown' = shutdown
    BY <1>1 DEF SendAdd, executorVars
  <2>2. InboxOrdered' /\ Queued' = Queued \cup {r}
    BY <1>1, InboxGrows DEF LineInv, PartsOK, LineOK
  <2>3. /\ \A p, q : Before(p, q) => Before(p, q)'
        /\ \A p \in SentSet : Before(p, r)'
        /\ SentSet' = SentSet \cup {r} /\ SentOnce'
    BY <2>1, BeforeGrows DEF LineInv
  <2>4. Ordered(admitted)' /\ Ordered(deferred)' /\ Admitted' = Admitted /\ Deferred' = Deferred
    BY <2>1, <2>3 DEF LineInv, PartsOK, Ordered, Admitted, Deferred
  <2>5. LineOK'
    BY <2>2, <2>3, <2>4 DEF LineInv, LineOK
  <2>6. AddingOK' /\ OpenOK'
    BY <2>1, <2>2, <2>3, AddingKept
  <2> QED BY <2>2, <2>3, <2>4, <2>5, <2>6 DEF LineInv, PartsOK
<1>2. ASSUME \/ SendUtility \/ \E q \in Requests : SendAbort(q)
             \/ Helpers \/ Signal \/ WorkerExit \/ SchedulerFails \/ StepFails
      PROVE  LineInv'
  <2>1. /\ sent' = sent /\ admitted' = admitted /\ deferred' = deferred /\ adding' = adding
        /\ pc' \in {pc, "dead"} /\ gate' \in {gate, "poisoned"}
        /\ shutdown # "RUNNING" => shutdown' # "RUNNING"
    BY <1>2 DEF SendUtility, SendAbort, Helpers, QueueAbort, NotifyFailure, Wakeup, Signal,
                WorkerExit, SchedulerFails, StepFails, clientVars, executorVars
  <2>2. inbox' = inbox \/ \E m \in Messages : m.type # "ADD" /\ inbox' = Append(inbox, m)
    BY <1>2, OtherMessages
  <2>3. SentOnce' /\ PartsOK' /\ LineOK' /\ Queued' \subseteq Queued
    BY <2>1, <2>2, LineShrinks
  <2>4. (\A p, q : Before(p, q) => Before(p, q)') /\ SentSet' = SentSet
    BY <2>1, BeforeKept
  <2>5. AddingOK' /\ OpenOK'
    BY <2>1, <2>3, <2>4, AddingKept
  <2> QED BY <2>3, <2>5 DEF LineInv
<1> QED BY <1>1, <1>2 DEF Clients


\* The steps of the loop, outside an ADD.
LEMMA LoopLine ==
  ASSUME TypeOK, LineInv,
         HandleShutdown \/ AdmitDeferred \/ WaitForInput \/ StopDraining \/ Execute \/ Update
  PROVE  LineInv'
<1>1. adding = NoRequest
  BY DEF LineInv, AddingOK, HandleShutdown, AdmitDeferred, WaitForInput, StopDraining, Execute, Update
<1>2. /\ sent' = sent /\ admitted' = admitted /\ inbox' = inbox
      /\ \/ deferred' = deferred \/ deferred' = <<>>
         \/ deferred # <<>> /\ deferred' = Tail(deferred)
  <2>1. CASE HandleShutdown
    BY <2>1 DEF HandleShutdown, clientVars
  <2>2. CASE AdmitDeferred
    BY <2>2 DEF AdmitDeferred, clientVars, TypeOK
  <2>3. CASE WaitForInput \/ StopDraining \/ Execute
    BY <2>3 DEF WaitForInput, StopDraining, Execute, clientVars
  <2>4. CASE Update
    BY <2>4 DEF Update, clientVars
  <2> QED BY <2>1, <2>2, <2>3, <2>4
<1>3. /\ SentOnce' /\ PartsOK' /\ LineOK'
      /\ Deferred' \subseteq Deferred /\ Queued' \subseteq Queued
  BY <1>2, LineShrinks
<1>4. CASE AdmitDeferred /\ deferred # <<>> /\ gate = "ready"
  <2>1. /\ pc' = "wait" /\ adding' = Head(deferred) /\ deferred' = Tail(deferred) /\ gate' = gate
    BY <1>4 DEF AdmitDeferred, executorVars
  <2>2. PICK h \in Requests : h = Head(deferred)
    BY <1>4, HeadType
  <2>3. /\ Len(deferred) \in Nat \ {0} /\ Len(deferred') = Len(deferred) - 1
        /\ h = deferred[1] /\ adding' = h
        /\ \A i \in 1 .. Len(deferred') : deferred'[i] = deferred[i + 1]
    BY <1>4, <2>1, <2>2, HeadType
  <2>4. h \in Deferred /\ Admitted' = Admitted
    BY <1>2, <2>3 DEF Deferred, Admitted
  <2>5. (\A p, q : Before(p, q) <=> Before(p, q)') /\ SentSet' = SentSet
    BY <1>2, BeforeKept
  <2>6. \A q \in Deferred' : Before(h, q)'
    <3>1. \A i \in 1 .. Len(deferred') : Before(h, deferred[i + 1])
      BY <2>3 DEF LineInv, PartsOK, Ordered
    <3>2. \A q \in Deferred' : Before(h, q)
      BY <2>3, <3>1 DEF Deferred
    <3> QED BY <2>5, <3>2
  <2>7. \A q \in Deferred' : Before(adding, q)'
    BY <2>3, <2>6 DEF Before
  <2>8. FromFifo'
    BY <1>4, <2>1, <2>7 DEF FromFifo
  <2>9. AddingOK'
    <3>1. adding' \in SentSet'
      BY <2>3, <2>4, <2>5 DEF LineInv, LineOK
    <3>2. \A p \in Admitted' : Before(p, h)'
      BY <2>4, <2>5 DEF LineInv, LineOK
    <3>3. \A q \in Queued' : Before(h, q)'
      BY <1>3, <2>4, <2>5 DEF LineInv, LineOK
    <3>4. /\ \A p \in Admitted' : Before(p, adding)'
          /\ \A q \in Queued' : Before(adding, q)'
      BY <2>3, <3>2, <3>3 DEF Before
    <3> QED BY <2>1, <2>8, <3>1, <3>4 DEF AddingOK
  <2>10. OpenOK'
    <3>1. adding' # NoRequest
      BY <2>1, HeadType, <1>4, AdmissionRequests
    <3> QED BY <2>7, <3>1 DEF OpenOK
  <2> QED BY <1>3, <2>9, <2>10 DEF LineInv
<1>5. CASE ~(AdmitDeferred /\ deferred # <<>> /\ gate = "ready")
  <2>1. adding' = NoRequest
    BY <1>1, <1>5 DEF HandleShutdown, AdmitDeferred, WaitForInput, StopDraining, Execute, Update, TypeOK
  <2>2. AddingOK'
    BY <2>1 DEF AddingOK
  <2>3. OpenOK'
    <3>1. CASE HandleShutdown
      BY <1>1, <3>1 DEF HandleShutdown, OpenOK, executorVars
    <3>2. CASE AdmitDeferred
      BY <1>5, <3>2 DEF AdmitDeferred, OpenOK, executorVars, TypeOK
    <3>3. CASE WaitForInput \/ StopDraining \/ Execute
      <4>1. /\ pc \in {"wait", "drain", "step"} /\ gate' = gate /\ deferred' = deferred
            /\ shutdown' = shutdown
        BY <3>3 DEF WaitForInput, StopDraining, Execute, executorVars
      <4> QED BY <1>1, <4>1 DEF LineInv, OpenOK
    <3>4. CASE Update
      <4>1. pc' \in {"top", "dead"}
        BY <3>4 DEF Update
      <4> QED BY <4>1 DEF OpenOK
    <3> QED BY <3>1, <3>2, <3>3, <3>4
  <2> QED BY <1>3, <2>2, <2>3 DEF LineInv
<1> QED BY <1>4, <1>5

\* A message leaves the input queue.
LEMMA TakeLine ==
  ASSUME TypeOK, LineInv, TakeWakeup \/ TakeAdd \/ TakeAbort \/ TakeUtility \/ TakeFailure
  PROVE  LineInv'
<1>1. PICK type : Take(type)
  BY DEF TakeWakeup, TakeAdd, TakeAbort, TakeUtility, TakeFailure
<1>2. /\ sent' = sent /\ admitted' = admitted /\ shutdown' = shutdown
      /\ gate' \in {gate, "poisoned"}
      /\ deferred' = deferred \/ \E q : deferred' = Without(deferred, q)
  BY DEF TakeWakeup, TakeAdd, TakeAbort, TakeUtility, TakeFailure, clientVars, executorVars
<1>3. /\ SentOnce' /\ PartsOK' /\ LineOK'
      /\ Deferred' \subseteq Deferred /\ Queued' \subseteq Queued
  BY <1>1, <1>2, LineShrinks
<1>4. pc \in {"get", "drain"} /\ adding = NoRequest
  BY <1>1 DEF Take
<1>5. deferred = <<>> => deferred' = <<>>
  <2>1. Len(<<>>) = 0
    BY EmptySeq
  <2> QED BY <1>2, <2>1 DEF Without
<1>6. OpenOK'
  BY <1>2, <1>4, <1>5 DEF LineInv, OpenOK
<1>7. CASE ~TakeAdd
  <2>1. adding' = NoRequest
    BY <1>4, <1>7 DEF TakeWakeup, TakeAbort, TakeUtility, TakeFailure
  <2> QED BY <1>3, <1>6, <2>1 DEF LineInv, AddingOK
<1>8. CASE TakeAdd
  <2> DEFINE h == Head(inbox).req
  <2>1. /\ Take("ADD") /\ adding' = h /\ deferred' = deferred /\ gate' = gate
        /\ pc' \in {"wait", "drain"}
    BY <1>8, <1>4 DEF TakeAdd, Take, executorVars
  <2> HIDE DEF h
  <2>2. CASE h = NoRequest
    BY <1>3, <1>6, <2>1, <2>2 DEF LineInv, AddingOK
  <2>3. CASE h # NoRequest
    <3>1. h \in Requests
      BY <2>1, <2>3, TailType DEF Messages, h
    <3>2. h \in Queued /\ \A q \in Queued' : Before(h, q)
      BY <2>1, <3>1, InboxHead DEF LineInv, PartsOK, h
    <3>3. (\A p, q : Before(p, q) <=> Before(p, q)') /\ SentSet' = SentSet
      BY <1>2, BeforeKept
    <3>4. Admitted' = Admitted /\ Deferred' = Deferred
      BY <1>2, <2>1 DEF Admitted, Deferred
    <3>5. adding' \in SentSet'
      BY <2>1, <3>2, <3>3 DEF LineInv, LineOK
    <3>6. \A p \in Admitted' : Before(p, adding)'
      BY <2>1, <3>2, <3>3, <3>4 DEF LineInv, LineOK, Before
    <3>7. \A q \in Queued' : Before(adding, q)'
      BY <2>1, <3>2, <3>3 DEF Before
    <3>8. FromInbox'
      <4>1. gate = "ready" => deferred = <<>> \/ shutdown # "RUNNING"
        BY <1>4 DEF LineInv, OpenOK
      <4>2. \A q \in Deferred' : Before(q, adding)'
        BY <2>1, <3>2, <3>3, <3>4 DEF LineInv, LineOK, Before
      <4> QED BY <1>2, <2>1, <4>1, <4>2 DEF FromInbox
    <3>9. AddingOK'
      BY <2>1, <3>5, <3>6, <3>7, <3>8 DEF AddingOK
    <3> QED BY <1>3, <1>6, <3>9 DEF LineInv
  <2> QED BY <2>2, <2>3
<1> QED BY <1>7, <1>8

\* The request being added is refused, goes to the end of the FIFO, or begins.
LEMMA AddLine ==
  ASSUME TypeOK, LineInv, RefuseAdd \/ DeferAdd \/ BeginAdd \/ FenceFails
  PROVE  LineInv'
<1>0. /\ adding \in Requests /\ adding' = NoRequest /\ sent' = sent /\ inbox' = inbox
      /\ shutdown' = shutdown
  BY DEF RefuseAdd, DeferAdd, BeginAdd, FenceFails, clientVars, TypeOK
<1>1. AddingOK'
  BY <1>0 DEF AddingOK
<1>2. CASE RefuseAdd \/ FenceFails
  <2>1. admitted' = admitted /\ deferred' = deferred
    BY <1>2 DEF RefuseAdd, FenceFails
  <2>2. SentOnce' /\ PartsOK' /\ LineOK'
    BY <1>0, <2>1, LineShrinks
  <2>3. OpenOK'
    BY <1>2 DEF RefuseAdd, FenceFails, Refused, OpenOK, executorVars
  <2> QED BY <1>1, <2>2, <2>3 DEF LineInv
<1>3. /\ (\A p, q : Before(p, q) <=> Before(p, q)') /\ SentSet' = SentSet /\ SentOnce'
  BY <1>0, BeforeKept DEF LineInv
<1>4. InboxOrdered' /\ Queued' = Queued
  BY <1>0, <1>3 DEF LineInv, PartsOK, InboxOrdered, Queued
<1>5. /\ adding \in SentSet /\ \A p \in Admitted : Before(p, adding)
      /\ \A q \in Queued : Before(adding, q)
      /\ FromFifo \/ FromInbox
  BY <1>0, AdmissionRequests DEF LineInv, AddingOK
<1>6. CASE DeferAdd
  <2>1. /\ deferred' = Append(deferred, adding) /\ admitted' = admitted /\ gate = "busy"
        /\ gate' = gate
    BY <1>6 DEF DeferAdd, executorVars
  <2>2. \A p \in Deferred : Before(p, adding)
    BY <1>5, <2>1 DEF FromFifo, FromInbox
  <2>3. Ordered(deferred)' /\ Deferred' = Deferred \cup {adding}
    BY <1>0, <2>1, <2>2, FifoGrows DEF LineInv, PartsOK
  <2>4. Ordered(admitted)' /\ Admitted' = Admitted
    BY <1>3, <2>1 DEF LineInv, PartsOK, Ordered, Admitted
  <2>5. LineOK'
    BY <1>3, <1>4, <1>5, <2>3, <2>4 DEF LineInv, LineOK
  <2>6. OpenOK'
    BY <2>1 DEF OpenOK
  <2> QED BY <1>1, <1>3, <1>4, <2>3, <2>4, <2>5, <2>6 DEF LineInv, PartsOK
<1>7. CASE BeginAdd
  <2>1. /\ admitted' = Append(admitted, adding) /\ deferred' = deferred /\ gate = "ready"
        /\ gate' = "busy" /\ shutdown = "RUNNING"
    BY <1>7 DEF BeginAdd, Refused
  <2>2. \A q \in Deferred : Before(adding, q)
    <3>1. CASE FromFifo
      BY <3>1 DEF FromFifo
    <3>2. CASE FromInbox
      <4>1. deferred = <<>> /\ Len(<<>>) = 0
        BY <2>1, <3>2, EmptySeq DEF FromInbox
      <4> QED BY <4>1 DEF Deferred
    <3> QED BY <1>5, <3>1, <3>2
  <2>3. Ordered(admitted)' /\ Admitted' = Admitted \cup {adding}
    BY <1>0, <1>5, <2>1, AdmittedGrows DEF LineInv, PartsOK
  <2>4. Ordered(deferred)' /\ Deferred' = Deferred
    BY <1>3, <2>1 DEF LineInv, PartsOK, Ordered, Deferred
  <2>5. LineOK'
    BY <1>3, <1>4, <1>5, <2>2, <2>3, <2>4 DEF LineInv, LineOK
  <2>6. OpenOK'
    BY <2>1 DEF OpenOK
  <2> QED BY <1>1, <1>3, <1>4, <2>3, <2>4, <2>5, <2>6 DEF LineInv, PartsOK
<1> QED BY <1>2, <1>6, <1>7

LEMMA LineStep ==
  ASSUME TypeOK, LineInv, [Next]_vars
  PROVE  LineInv'
<1>1. CASE UNCHANGED vars
  <2>1. /\ sent' = sent /\ admitted' = admitted /\ deferred' = deferred /\ inbox' = inbox
        /\ adding' = adding /\ pc' = pc /\ gate' = gate /\ shutdown' = shutdown
    BY <1>1 DEF vars, clientVars, executorVars
  <2>2. SentOnce' /\ PartsOK' /\ LineOK' /\ Queued' \subseteq Queued
    BY <2>1, LineShrinks
  <2>3. (\A p, q : Before(p, q) => Before(p, q)') /\ SentSet' = SentSet
    BY <2>1, BeforeKept
  <2>4. AddingOK' /\ OpenOK'
    BY <2>1, <2>2, <2>3, AddingKept
  <2> QED BY <2>2, <2>4 DEF LineInv
<1>2. CASE Next
  BY <1>2, ThreadLine, LoopLine, TakeLine, AddLine DEF Next, Engine, Failures
<1> QED BY <1>1, <1>2


-------------------------------------------------------------------------------
(* Answers                                                                      *)

\* A step puts nobody in the line, and who is answered leaves it.
Served ==
  /\ running' \subseteq Admitted'
  /\ \A q \in Requests :
       /\ Waiting(q)' => Waiting(q)
       /\ \/ replies'[q] = replies[q]
          \/ replies'[q] = replies[q] + 1 /\ Waiting(q) /\ ~Waiting(q)'

\* Nobody stands in two places.
LEMMA Apart ==
  ASSUME TypeOK, LineInv, AnswerOK
  PROVE  /\ \A q \in Requests : Waiting(q) => q \in SentSet
         /\ running \cap (Deferred \cup Queued) = {} /\ Deferred \cap Queued = {}
         /\ adding \notin Deferred \cup Queued \cup running
<1>1. \A p, q : Before(p, q) => p # q
  BY BeforeStrict DEF LineInv
<1>2. running \subseteq Admitted /\ Admitted \cup Deferred \cup Queued \subseteq SentSet
  BY DEF LineInv, LineOK, AnswerOK
<1>3. running \cap (Deferred \cup Queued) = {} /\ Deferred \cap Queued = {}
  BY <1>1, <1>2 DEF LineInv, LineOK
<1>4. adding # NoRequest => adding \in SentSet /\ adding \notin Deferred \cup Queued \cup running
  BY <1>1, <1>2 DEF LineInv, AddingOK, FromFifo, FromInbox
<1>5. adding = NoRequest => adding \notin Deferred \cup Queued \cup running
  <2>1. Deferred \subseteq Requests
    BY ElementOfSeq DEF TypeOK, Deferred
  <2> QED BY <2>1, AdmissionRequests DEF TypeOK, Queued
<1>6. \A q \in Requests : Waiting(q) => q \in SentSet
  BY <1>2, <1>4, AdmissionRequests DEF Waiting
<1> QED BY <1>3, <1>4, <1>5, <1>6

LEMMA AnswerStep ==
  ASSUME TypeOK, TypeOK', LineInv, AnswerOK, Served, SentSet' = SentSet
  PROVE  AnswerOK'
<1> SUFFICES ASSUME NEW q \in Requests
             PROVE  /\ replies'[q] <= 1
                    /\ Waiting(q)' \/ q \notin SentSet' => replies'[q] = 0
  BY DEF AnswerOK, Served
<1>1. replies[q] \in Nat /\ replies'[q] \in Nat
  BY DEF TypeOK
<1>2. replies[q] <= 1 /\ (Waiting(q) \/ q \notin SentSet => replies[q] = 0)
  BY DEF AnswerOK
<1>3. /\ Waiting(q)' => Waiting(q)
      /\ \/ replies'[q] = replies[q]
         \/ replies'[q] = replies[q] + 1 /\ Waiting(q) /\ ~Waiting(q)'
  BY DEF Served
<1>4. Waiting(q) => q \in SentSet
  BY Apart
<1> QED BY <1>1, <1>2, <1>3, <1>4

\* A step that answers nobody and lets nobody in.
LEMMA ServesNobody ==
  ASSUME AnswerOK, replies' = replies, running' \subseteq running, admitted' = admitted,
         adding' = adding, deferred' = deferred, Queued' \subseteq Queued
  PROVE  Served
  BY DEF Served, Waiting, Deferred, Admitted, AnswerOK

LEMMA ThreadServes ==
  ASSUME TypeOK, LineInv, AnswerOK,
         \/ SendUtility \/ \E q \in Requests : SendAbort(q)
         \/ Helpers \/ Signal \/ WorkerExit \/ SchedulerFails \/ StepFails
         \/ WaitForInput \/ StopDraining \/ Execute
         \/ TakeWakeup \/ TakeUtility \/ TakeFailure
  PROVE  Served
<1>1. \/ inbox' = inbox
      \/ \E m \in Messages : m.type # "ADD" /\ inbox' = Append(inbox, m)
      \/ \E type : Take(type)
  <2>1. CASE WaitForInput \/ StopDraining \/ Execute
    BY <2>1 DEF WaitForInput, StopDraining, Execute
  <2>2. CASE TakeWakeup \/ TakeUtility \/ TakeFailure
    BY <2>2 DEF TakeWakeup, TakeUtility, TakeFailure
  <2> QED BY <2>1, <2>2, OtherMessages
<1>2. /\ sent' = sent /\ replies' = replies /\ running' = running /\ admitted' = admitted
      /\ adding' = adding /\ deferred' = deferred
  BY DEF SendUtility, SendAbort, Helpers, QueueAbort, NotifyFailure, Wakeup, Signal, WorkerExit,
         SchedulerFails, StepFails, WaitForInput, StopDraining, Execute,
         TakeWakeup, TakeUtility, TakeFailure, clientVars, schedulerVars
<1>3. Queued' \subseteq Queued
  BY <1>1, <1>2, InboxShrinks DEF LineInv, PartsOK
<1> QED BY <1>2, <1>3, ServesNobody

LEMMA LoopServes ==
  ASSUME TypeOK, LineInv, AnswerOK, HandleShutdown \/ AdmitDeferred \/ Update
  PROVE  Served
<1>1. /\ inbox' = inbox /\ admitted' = admitted /\ adding = NoRequest
  BY DEF LineInv, AddingOK, HandleShutdown, AdmitDeferred, Update
<1>2. Queued' = Queued /\ Admitted' = Admitted
  BY <1>1 DEF Queued, Admitted
<1>3. /\ running \subseteq Admitted
      /\ running \cap (Deferred \cup Queued) = {} /\ Deferred \cap Queued = {}
  BY Apart DEF AnswerOK
<1>4. deferred' = <<>> => Deferred' = {}
  <2>1. Len(<<>>) = 0
    BY EmptySeq
  <2> QED BY <2>1 DEF Deferred
<1>5. deferred' = deferred => Deferred' = Deferred
  BY DEF Deferred
<1>6. CASE HandleShutdown
  <2>1. adding' = NoRequest
    BY <1>1, <1>6 DEF HandleShutdown
  <2>2. CASE shutdown = "REQUESTED"
    <3> DEFINE cut == IF DrainOnStop THEN {} ELSE running
    <3>1. /\ Answer(Deferred \cup cut) /\ deferred' = <<>> /\ running' = running \ cut
          /\ cut \subseteq running
      BY <1>6, <2>2 DEF HandleShutdown
    <3> HIDE DEF cut
    <3>2. \A q \in Requests : replies'[q] = replies[q] + IF q \in Deferred \cup cut THEN 1 ELSE 0
      BY <3>1, AnswerType
    <3>3. \A q \in Requests : Waiting(q)' <=> q \in Queued \cup (running \ cut)
      BY <1>2, <1>4, <2>1, <3>1, AdmissionRequests DEF Waiting
    <3>4. \A q \in Requests : replies[q] \in Nat
      BY DEF TypeOK
    <3> QED BY <1>2, <1>3, <3>1, <3>2, <3>3, <3>4 DEF Served, Waiting
  <2>3. CASE shutdown # "REQUESTED"
    <3>1. replies' = replies /\ deferred' = deferred /\ running' = running /\ adding' = adding
      BY <1>6, <2>3 DEF HandleShutdown
    <3> QED BY <1>1, <1>2, <3>1, ServesNobody
  <2> QED BY <2>2, <2>3
<1>7. CASE AdmitDeferred
  <2>1. running' = running
    BY <1>7 DEF AdmitDeferred, schedulerVars
  <2>2. CASE deferred = <<>> \/ gate = "busy"
    <3>1. replies' = replies /\ deferred' = deferred /\ adding' = adding
      BY <1>7, <2>2 DEF AdmitDeferred
    <3> QED BY <1>1, <1>2, <2>1, <3>1, ServesNobody
  <2>3. CASE deferred # <<>> /\ gate = "poisoned"
    <3>1. Answer(Deferred) /\ deferred' = <<>> /\ adding' = NoRequest
      BY <1>1, <1>7, <2>3 DEF AdmitDeferred
    <3>2. \A q \in Requests : replies'[q] = replies[q] + IF q \in Deferred THEN 1 ELSE 0
      BY <3>1, AnswerType
    <3>3. \A q \in Requests : Waiting(q)' <=> q \in Queued \cup running
      BY <1>2, <1>4, <2>1, <3>1, AdmissionRequests DEF Waiting
    <3>4. \A q \in Requests : replies[q] \in Nat
      BY DEF TypeOK
    <3> QED BY <1>2, <1>3, <2>1, <3>2, <3>3, <3>4 DEF Served, Waiting
  <2>4. CASE deferred # <<>> /\ gate = "ready"
    <3>1. replies' = replies /\ deferred' = Tail(deferred) /\ adding' = Head(deferred)
      BY <1>7, <2>4 DEF AdmitDeferred
    <3>2. Deferred' \subseteq Deferred /\ adding' \in Deferred
      BY <2>4, <3>1, HeadType DEF Deferred
    <3> QED BY <1>2, <1>3, <2>1, <3>1, <3>2 DEF Served, Waiting
  <2> QED BY <2>2, <2>3, <2>4 DEF TypeOK
<1>8. CASE Update
  <2>1. PICK done \in SUBSET (running \ aborts) :
          Answer(done) /\ running' = (running \ aborts) \ done
    BY <1>8 DEF Update
  <2>2. deferred' = deferred /\ adding' = NoRequest
    BY <1>1, <1>8 DEF Update
  <2>3. \A q \in Requests : replies'[q] = replies[q] + IF q \in done THEN 1 ELSE 0
    BY <2>1, AnswerType
  <2>4. \A q \in Requests : Waiting(q)' <=> q \in Deferred \cup Queued \cup ((running \ aborts) \ done)
    BY <1>2, <1>5, <2>1, <2>2, AdmissionRequests DEF Waiting
  <2>5. \A q \in Requests : replies[q] \in Nat
    BY DEF TypeOK
  <2> QED BY <1>2, <1>3, <2>1, <2>3, <2>4, <2>5 DEF Served, Waiting
<1> QED BY <1>6, <1>7, <1>8


LEMMA TakeServes ==
  ASSUME TypeOK, LineInv, AnswerOK, TakeAdd \/ TakeAbort
  PROVE  Served
<1>1. PICK type : Take(type)
  BY DEF TakeAdd, TakeAbort
<1>2. /\ sent' = sent /\ admitted' = admitted /\ adding = NoRequest
  BY <1>1 DEF TakeAdd, TakeAbort, Take, clientVars
<1>3. Queued' \subseteq Queued /\ Admitted' = Admitted
  BY <1>1, <1>2, InboxShrinks DEF LineInv, PartsOK, Admitted
<1>4. /\ running \subseteq Admitted
      /\ running \cap (Deferred \cup Queued) = {} /\ Deferred \cap Queued = {}
  BY Apart DEF AnswerOK
<1>5. CASE TakeAdd
  <2>1. /\ Take("ADD") /\ adding' = Head(inbox).req /\ replies' = replies /\ running' = running
        /\ Deferred' = Deferred
    BY <1>5 DEF TakeAdd, schedulerVars, Deferred
  <2>2. \A q \in Requests : adding' = q => q \in Queued
    BY <2>1, InboxHead DEF LineInv, PartsOK
  <2> QED BY <1>3, <1>4, <2>1, <2>2 DEF Served, Waiting
<1>6. CASE TakeAbort
  <2> DEFINE r == Head(inbox).req
  <2>1. /\ Answer({r} \cap Deferred) /\ deferred' = Without(deferred, r)
        /\ running' = running \ {r} /\ adding' = NoRequest
    BY <1>2, <1>6 DEF TakeAbort
  <2> HIDE DEF r
  <2>2. DeferredOnce
    BY OrderedOnce DEF LineInv, PartsOK
  <2>3. Deferred' = Deferred \ {r}
    BY <2>1, <2>2, FifoWithout
  <2>4. \A q \in Requests : replies'[q] = replies[q] + IF q \in {r} \cap Deferred THEN 1 ELSE 0
    BY <2>1, AnswerType
  <2>5. \A q \in Requests : Waiting(q)' <=> q \in (Deferred \ {r}) \cup Queued' \cup (running \ {r})
    BY <2>1, <2>3, AdmissionRequests DEF Waiting
  <2>6. \A q \in Requests : replies[q] \in Nat
    BY DEF TypeOK
  <2> QED BY <1>3, <1>4, <2>1, <2>4, <2>5, <2>6 DEF Served, Waiting
<1> QED BY <1>5, <1>6

LEMMA AddServes ==
  ASSUME TypeOK, LineInv, AnswerOK, RefuseAdd \/ DeferAdd \/ BeginAdd \/ FenceFails
  PROVE  Served
<1>1. adding \in Requests /\ adding' = NoRequest /\ inbox' = inbox
  BY DEF RefuseAdd, DeferAdd, BeginAdd, FenceFails, TypeOK
<1>2. Queued' = Queued
  BY <1>1 DEF Queued
<1>3. running \subseteq Admitted /\ adding \notin Deferred \cup Queued \cup running
  BY Apart DEF AnswerOK
<1>4. CASE RefuseAdd \/ FenceFails
  <2>1. /\ Answer({adding}) /\ running' = running /\ Deferred' = Deferred /\ Admitted' = Admitted
    BY <1>4 DEF RefuseAdd, FenceFails, schedulerVars, Deferred, Admitted
  <2>2. \A q \in Requests : replies'[q] = replies[q] + IF q \in {adding} THEN 1 ELSE 0
    BY <2>1, AnswerType
  <2>3. \A q \in Requests : Waiting(q)' <=> q \in Deferred \cup Queued \cup running
    BY <1>1, <1>2, <2>1, AdmissionRequests DEF Waiting
  <2>4. \A q \in Requests : replies[q] \in Nat
    BY DEF TypeOK
  <2> QED BY <1>1, <1>3, <2>1, <2>2, <2>3, <2>4 DEF Served, Waiting
<1>5. CASE DeferAdd
  <2>1. /\ deferred' = Append(deferred, adding) /\ replies' = replies /\ running' = running
        /\ Admitted' = Admitted
    BY <1>5 DEF DeferAdd, schedulerVars, Admitted
  <2>2. Deferred' = Deferred \cup {adding}
    BY <1>1, <2>1, FifoGrows
  <2> QED BY <1>1, <1>2, <1>3, <2>1, <2>2, AdmissionRequests DEF Served, Waiting
<1>6. CASE BeginAdd
  <2>1. /\ admitted' = Append(admitted, adding) /\ replies' = replies
        /\ running' = running \cup ({adding} \ Immediate) /\ Deferred' = Deferred
    BY <1>6 DEF BeginAdd, Deferred
  <2>2. Admitted' = Admitted \cup {adding}
    BY <1>1, <2>1, AdmittedGrows
  <2> QED BY <1>1, <1>2, <1>3, <2>1, <2>2, AdmissionRequests DEF Served, Waiting
<1> QED BY <1>4, <1>5, <1>6

\* Every step but the sending of an ADD serves who is in the line.
LEMMA Serves ==
  ASSUME TypeOK, LineInv, AnswerOK, Next, ~(\E r \in Requests : SendAdd(r))
  PROVE  Served /\ sent' = sent
<1>1. Served
  BY ThreadServes, LoopServes, TakeServes, AddServes DEF Next, Engine, Clients, Failures
<1>2. sent' = sent
  <2>1. CASE Clients \/ Helpers \/ Signal
    <3>1. CASE SendUtility \/ \E q \in Requests : SendAbort(q)
      BY <3>1 DEF SendUtility, SendAbort, clientVars
    <3>2. CASE Helpers \/ Signal
      BY <3>2 DEF Helpers, QueueAbort, NotifyFailure, Wakeup, Signal, clientVars
    <3> QED BY <2>1, <3>1, <3>2 DEF Clients
  <2>2. CASE Failures
    BY <2>2 DEF Failures, FenceFails, SchedulerFails, StepFails, WorkerExit, clientVars
  <2>3. CASE Engine
    <3>1. CASE HandleShutdown \/ AdmitDeferred
      <4>1. CASE HandleShutdown
        BY <4>1 DEF HandleShutdown, clientVars
      <4>2. CASE AdmitDeferred
        BY <4>2 DEF AdmitDeferred, clientVars
      <4> QED BY <3>1, <4>1, <4>2
    <3>2. CASE WaitForInput \/ StopDraining \/ Execute \/ Update
      BY <3>2 DEF WaitForInput, StopDraining, Execute, Update, clientVars
    <3>3. CASE TakeWakeup \/ TakeAdd \/ TakeAbort \/ TakeUtility \/ TakeFailure
      BY <3>3 DEF TakeWakeup, TakeAdd, TakeAbort, TakeUtility, TakeFailure, clientVars
    <3>4. CASE RefuseAdd \/ DeferAdd \/ BeginAdd
      BY <3>4 DEF RefuseAdd, DeferAdd, BeginAdd, clientVars
    <3> QED BY <2>3, <3>1, <3>2, <3>3, <3>4 DEF Engine
  <2> QED BY <2>1, <2>2, <2>3 DEF Next
<1> QED BY <1>1, <1>2

LEMMA AnswersStep ==
  ASSUME TypeOK, TypeOK', LineInv, AnswerOK, [Next]_vars
  PROVE  AnswerOK'
<1>1. CASE UNCHANGED vars
  <2>1. /\ replies' = replies /\ running' = running /\ admitted' = admitted
        /\ adding' = adding /\ deferred' = deferred /\ Queued' = Queued /\ SentSet' = SentSet
    BY <1>1 DEF vars, clientVars, schedulerVars, Queued, SentSet
  <2> QED BY <2>1, ServesNobody, AnswerStep
<1>2. ASSUME NEW r \in Requests, SendAdd(r) PROVE AnswerOK'
  <2>1. /\ sent' = Append(sent, r) /\ r \notin SentSet /\ replies' = replies
        /\ running' = running /\ Admitted' = Admitted /\ Deferred' = Deferred /\ adding' = adding
    BY <1>2 DEF SendAdd, schedulerVars, Admitted, Deferred
  <2>2. Queued' = Queued \cup {r}
    BY <1>2, InboxGrows DEF LineInv, PartsOK, LineOK
  <2>3. SentSet' = SentSet \cup {r}
    BY <2>1, BeforeGrows
  <2> QED BY <2>1, <2>2, <2>3 DEF AnswerOK, Waiting
<1>3. CASE Next /\ ~(\E r \in Requests : SendAdd(r))
  <2>1. Served /\ sent' = sent
    BY <1>3, Serves
  <2> QED BY <2>1, BeforeKept, AnswerStep
<1> QED BY <1>1, <1>2, <1>3


-------------------------------------------------------------------------------
(* One request at a time                                                        *)

LEMMA AloneStep ==
  ASSUME TypeOK, AloneOK, [Next]_vars
  PROVE  AloneOK'
<1>1. CASE \/ UNCHANGED vars
           \/ SendUtility \/ \E q \in Requests : SendAdd(q) \/ SendAbort(q)
           \/ Helpers \/ Signal \/ WorkerExit \/ SchedulerFails \/ StepFails \/ FenceFails
           \/ AdmitDeferred \/ WaitForInput \/ StopDraining
           \/ TakeWakeup \/ TakeAdd \/ TakeUtility \/ TakeFailure
           \/ RefuseAdd \/ DeferAdd
  <2>1. running' = running /\ finished' = finished /\ carried' = carried /\ gate' \in {gate, "poisoned"}
    <3>1. CASE UNCHANGED vars
      BY <3>1 DEF vars, schedulerVars, executorVars
    <3>2. CASE \/ SendUtility \/ \E q \in Requests : SendAdd(q) \/ SendAbort(q)
               \/ Helpers \/ Signal
      BY <3>2 DEF SendUtility, SendAdd, SendAbort, Helpers, QueueAbort, NotifyFailure, Wakeup,
                  Signal, schedulerVars, executorVars
    <3>3. CASE WorkerExit \/ SchedulerFails \/ StepFails \/ FenceFails
      BY <3>3 DEF WorkerExit, SchedulerFails, StepFails, FenceFails, schedulerVars
    <3>4. CASE AdmitDeferred
      BY <3>4 DEF AdmitDeferred, schedulerVars, executorVars
    <3>5. CASE WaitForInput \/ StopDraining
      BY <3>5 DEF WaitForInput, StopDraining, schedulerVars, executorVars
    <3>6. CASE TakeWakeup \/ TakeAdd \/ TakeUtility \/ TakeFailure
      BY <3>6 DEF TakeWakeup, TakeAdd, TakeUtility, TakeFailure, schedulerVars, executorVars
    <3>7. CASE RefuseAdd \/ DeferAdd
      BY <3>7 DEF RefuseAdd, DeferAdd, schedulerVars, executorVars
    <3> QED BY <1>1, <3>1, <3>2, <3>3, <3>4, <3>5, <3>6, <3>7
  <2> QED BY <2>1 DEF AloneOK
<1>2. CASE HandleShutdown \/ TakeAbort
  <2>1. PICK cut \in SUBSET running :
          running' = running \ cut /\ finished' = finished \cup cut
    <3>1. CASE HandleShutdown
      BY <3>1 DEF HandleShutdown
    <3>2. CASE TakeAbort
      <4> DEFINE q == Head(inbox).req
      <4>1. running' = running \ {q} /\ finished' = finished \cup (running \cap {q})
        BY <3>2 DEF TakeAbort
      <4>2. running' = running \ (running \cap {q})
        BY <4>1
      <4> QED BY <4>1, <4>2
    <3> QED BY <1>2, <3>1, <3>2
  <2>2. carried' = carried /\ gate' = gate
    BY <1>2 DEF HandleShutdown, TakeAbort, executorVars
  <2>3. /\ running' \cup finished' \cup carried' = running \cup finished \cup carried
        /\ running' \cup finished' = running \cup finished
        /\ running' \cap finished' = {}
    BY <2>1, <2>2 DEF AloneOK
  <2> QED BY <2>2, <2>3 DEF AloneOK
<1>3. CASE BeginAdd
  <2>1. running \cup finished \cup carried = {}
    BY <1>3 DEF BeginAdd, AloneOK
  <2>2. /\ running' = running \cup ({adding} \ Immediate)
        /\ finished' = finished \cup ({adding} \cap Immediate)
        /\ carried' = carried /\ gate' = "busy"
    BY <1>3 DEF BeginAdd
  <2> QED BY <2>1, <2>2 DEF AloneOK
<1>4. CASE Execute
  <2>1. /\ running' = running /\ gate' = gate
        /\ \/ finished' = finished /\ carried' = carried
           \/ finished' = {} /\ carried' = finished
    BY <1>4 DEF Execute, executorVars
  <2> QED BY <2>1 DEF AloneOK
<1>5. CASE Update
  <2>1. PICK done \in SUBSET (running \ aborts) :
          running' = (running \ aborts) \ done /\ finished' = finished \cup (running \ running')
    BY <1>5 DEF Update
  <2>2. carried' = {} /\ (gate' = "ready" => gate = "ready" \/ carried # {})
    BY <1>5 DEF Update
  <2>3. /\ running' \cup finished' = running \cup finished
        /\ running' \cap finished' = {}
    BY <2>1 DEF AloneOK
  <2>4. carried # {} => running \cup finished = {}
    BY DEF AloneOK
  <2> QED BY <2>2, <2>3, <2>4 DEF AloneOK
<1> QED BY <1>1, <1>2, <1>3, <1>4, <1>5 DEF Next, Engine, Clients, Failures

-------------------------------------------------------------------------------
(* Aborts                                                                       *)

\* A message at the end of the queue disturbs no ABORT in it.
LEMMA AbortAppend ==
  ASSUME TypeOK, NEW m \in Messages, inbox' = Append(inbox, m), NEW q
  PROVE  /\ AbortQueued(q) => AbortQueued(q)'
         /\ AddCovered(q) /\ m # Message("ADD", q) => AddCovered(q)'
         /\ m = Message("ABORT", q) => AbortQueued(q)' /\ AddCovered(q)'
<1>1. /\ Len(inbox) \in Nat /\ Len(inbox') = Len(inbox) + 1
      /\ inbox'[Len(inbox) + 1] = m
      /\ \A i \in 1 .. Len(inbox) : inbox'[i] = inbox[i]
  BY AppendProperties, LenProperties DEF TypeOK
<1>2. AbortQueued(q) => AbortQueued(q)'
  BY <1>1 DEF AbortQueued
<1>3. AddCovered(q) /\ m # Message("ADD", q) => AddCovered(q)'
  <2> SUFFICES ASSUME AddCovered(q), m # Message("ADD", q), NEW i \in 1 .. Len(inbox'),
                      inbox'[i] = Message("ADD", q)
               PROVE  \E j \in i .. Len(inbox') : inbox'[j] = Message("ABORT", q)
    BY DEF AddCovered
  <2>1. i \in 1 .. Len(inbox) /\ inbox[i] = Message("ADD", q)
    BY <1>1
  <2>2. PICK j \in i .. Len(inbox) : inbox[j] = Message("ABORT", q)
    BY <2>1 DEF AddCovered
  <2>3. j \in i .. Len(inbox') /\ inbox'[j] = Message("ABORT", q)
    BY <1>1, <2>1, <2>2
  <2> QED BY <2>3
<1>4. m = Message("ABORT", q) => AbortQueued(q)' /\ AddCovered(q)'
  BY <1>1 DEF AbortQueued, AddCovered
<1> QED BY <1>2, <1>3, <1>4

\* Taking a message loses no ABORT but the one that is taken.
LEMMA AbortTaken ==
  ASSUME TypeOK, NEW type, Take(type), NEW q
  PROVE  /\ AbortQueued(q) => AbortQueued(q)' \/ Head(inbox) = Message("ABORT", q)
         /\ AddCovered(q) => AddCovered(q)'
         /\ AddCovered(q) /\ q \in Queued' => AbortQueued(q)'
<1>1. /\ Len(inbox) \in Nat \ {0} /\ Len(inbox') = Len(inbox) - 1
      /\ \A i \in 1 .. Len(inbox') : inbox'[i] = inbox[i + 1]
      /\ inbox[1] = Head(inbox)
  BY TailType
<1>2. \A j \in 2 .. Len(inbox) : j - 1 \in 1 .. Len(inbox') /\ inbox'[j - 1] = inbox[j]
  <2> TAKE j \in 2 .. Len(inbox)
  <2>1. j - 1 \in 1 .. Len(inbox') /\ (j - 1) + 1 = j
    BY <1>1
  <2> QED BY <1>1, <2>1
<1>3. AbortQueued(q) => AbortQueued(q)' \/ Head(inbox) = Message("ABORT", q)
  <2> SUFFICES ASSUME NEW j \in 1 .. Len(inbox), inbox[j] = Message("ABORT", q), j # 1
               PROVE  AbortQueued(q)'
    BY <1>1 DEF AbortQueued
  <2>1. j \in 2 .. Len(inbox)
    BY <1>1
  <2> QED BY <1>2, <2>1 DEF AbortQueued
<1>4. ASSUME AddCovered(q), NEW i \in 1 .. Len(inbox'), inbox'[i] = Message("ADD", q)
      PROVE  \E j \in i .. Len(inbox') : inbox'[j] = Message("ABORT", q)
  <2>1. i + 1 \in 1 .. Len(inbox) /\ inbox[i + 1] = Message("ADD", q)
    BY <1>1, <1>4
  <2>2. PICK j \in i + 1 .. Len(inbox) : inbox[j] = Message("ABORT", q)
    BY <1>4, <2>1 DEF AddCovered
  <2>3. j \in 2 .. Len(inbox) /\ j - 1 \in i .. Len(inbox')
    BY <1>1, <2>2
  <2> QED BY <1>2, <2>2, <2>3
<1>5. AddCovered(q) => AddCovered(q)'
  BY <1>4 DEF AddCovered
<1>6. AddCovered(q) /\ q \in Queued' => AbortQueued(q)'
  <2> SUFFICES ASSUME AddCovered(q), NEW i \in 1 .. Len(inbox'), inbox'[i] = Message("ADD", q)
               PROVE  AbortQueued(q)'
    BY DEF Queued
  <2>1. PICK j \in i .. Len(inbox') : inbox'[j] = Message("ABORT", q)
    BY <1>4
  <2>2. j \in 1 .. Len(inbox')
    BY <2>1
  <2> QED BY <2>1, <2>2 DEF AbortQueued
<1> QED BY <1>3, <1>5, <1>6


\* A step that leaves the pending ABORTs where they are, or serves them.
LEMMA AbortKept ==
  ASSUME AbortOK, ~Stopped, aborting' = aborting, reading' = reading, SentSet' = SentSet,
         \A q \in aborting :
           /\ AddCovered(q) => AddCovered(q)'
           /\ Waiting(q)' => Waiting(q)
           /\ AbortQueued(q) => reading = q \/ AbortQueued(q)' \/ ~Waiting(q)'
  PROVE  AbortOK'
  BY DEF AbortOK

LEMMA AbortStep ==
  ASSUME TypeOK, LineInv, AnswerOK, AbortOK, Next
  PROVE  AbortOK'
<1>0. ~Stopped /\ aborting \subseteq Requests
  BY DEF Next, TypeOK
<1>1. ASSUME NEW r \in Requests, SendAdd(r) PROVE AbortOK'
  <2>1. /\ sent' = Append(sent, r) /\ r \notin SentSet /\ inbox' = Append(inbox, Message("ADD", r))
        /\ running' = running /\ Deferred' = Deferred /\ adding' = adding
        /\ reading' = reading /\ aborting' = aborting
    BY <1>1 DEF SendAdd, schedulerVars, Deferred
  <2>2. Queued' = Queued \cup {r}
    BY <1>1, InboxGrows DEF LineInv, PartsOK, LineOK
  <2>3. SentSet' = SentSet \cup {r}
    BY <2>1, BeforeGrows
  <2>4. Message("ADD", r) \in Messages
    BY DEF Message, Messages
  <2>5. ASSUME NEW q \in aborting
        PROVE  /\ AddCovered(q) => AddCovered(q)'
               /\ AbortQueued(q) => AbortQueued(q)'
               /\ Waiting(q)' => Waiting(q)
    <3>1. q # r
      BY <2>1 DEF AbortOK
    <3>2. Message("ADD", r) # Message("ADD", q)
      BY <3>1 DEF Message
    <3>3. Waiting(q)' => Waiting(q)
      BY <2>1, <2>2, <3>1 DEF Waiting
    <3> QED BY <2>1, <2>4, <3>2, <3>3, AbortAppend
  <2> QED BY <1>0, <2>1, <2>3, <2>5 DEF AbortOK
<1>2. CASE ~(\E r \in Requests : SendAdd(r))
  <2>1. /\ \A q \in aborting : Waiting(q)' => Waiting(q)
        /\ SentSet' = SentSet
    BY <1>0, <1>2, Serves, BeforeKept DEF Served
  <2>2. ASSUME NEW r \in Requests, SendAbort(r) PROVE AbortOK'
    <3>1. /\ r \in SentSet /\ reading = NoRequest /\ aborting' = aborting \cup {r} /\ reading' = r
          /\ inbox' = inbox /\ pc' = pc
          /\ Deferred' = Deferred /\ running' = running /\ adding' = adding
      BY <2>2 DEF SendAbort, schedulerVars, Deferred
    <3>2. \A q : (AddCovered(q) => AddCovered(q)') /\ (AbortQueued(q) => AbortQueued(q)')
      BY <3>1 DEF AddCovered, AbortQueued
    <3>3. \A q \in aborting : reading # q
      BY <1>0, <3>1, AdmissionRequests
    <3> QED BY <1>0, <2>1, <3>1, <3>2, <3>3 DEF AbortOK
  <2>3. CASE QueueAbort
    <3>1. /\ reading \in Requests /\ inbox' = Append(inbox, Message("ABORT", reading))
          /\ reading' = NoRequest /\ aborting' = aborting
      BY <2>3 DEF QueueAbort, TypeOK
    <3>2. Message("ABORT", reading) \in Messages
      BY <3>1 DEF Message, Messages
    <3>3. ASSUME NEW q \in aborting
          PROVE  /\ AddCovered(q)'
                 /\ AbortQueued(q)' \/ ~Waiting(q)'
      <4>1. CASE q = reading
        BY <3>1, <3>2, <4>1, AbortAppend
      <4>2. CASE q # reading
        <5>1. Message("ABORT", reading) # Message("ADD", q)
          BY DEF Message
        <5>2. /\ AddCovered(q) => AddCovered(q)'
              /\ AbortQueued(q) => AbortQueued(q)'
          BY <3>1, <3>2, <5>1, AbortAppend
        <5> QED BY <1>0, <2>1, <4>2, <5>2 DEF AbortOK
      <4> QED BY <4>1, <4>2
    <3> QED BY <2>1, <3>1, <3>3 DEF AbortOK
  <2>4. CASE \/ SendUtility \/ NotifyFailure \/ Wakeup \/ Signal \/ Failures
    <3>1. aborting' = aborting /\ reading' = reading
      BY <2>4 DEF SendUtility, NotifyFailure, Wakeup, Signal, Failures, FenceFails,
                  SchedulerFails, StepFails, WorkerExit, clientVars
    <3>2. inbox' = inbox \/ \E m \in Messages : m.type # "ADD" /\ inbox' = Append(inbox, m)
      <4>1. CASE FenceFails
        BY <4>1 DEF FenceFails
      <4>2. CASE ~FenceFails
        BY <2>4, <4>2, OtherMessages DEF Helpers, Failures
      <4> QED BY <4>1, <4>2
    <3>3. ASSUME NEW q \in aborting
          PROVE  (AddCovered(q) => AddCovered(q)') /\ (AbortQueued(q) => AbortQueued(q)')
      <4>1. CASE inbox' = inbox
        BY <4>1 DEF AddCovered, AbortQueued
      <4>2. ASSUME NEW m \in Messages, m.type # "ADD", inbox' = Append(inbox, m)
            PROVE  (AddCovered(q) => AddCovered(q)') /\ (AbortQueued(q) => AbortQueued(q)')
        <5>1. m # Message("ADD", q)
          BY <4>2 DEF Message
        <5> QED BY <4>2, <5>1, AbortAppend
      <4> QED BY <3>2, <4>1, <4>2
    <3> QED BY <1>0, <2>1, <3>1, <3>3, AbortKept
  <2>5. CASE \/ HandleShutdown \/ AdmitDeferred \/ WaitForInput \/ StopDraining
             \/ RefuseAdd \/ DeferAdd \/ BeginAdd \/ Execute \/ Update
    <3>1. aborting' = aborting /\ reading' = reading /\ inbox' = inbox
      <4>1. CASE HandleShutdown
        BY <4>1 DEF HandleShutdown, clientVars
      <4>2. CASE AdmitDeferred
        BY <4>2 DEF AdmitDeferred, clientVars
      <4>3. CASE WaitForInput \/ StopDraining \/ Execute \/ Update
        BY <4>3 DEF WaitForInput, StopDraining, Execute, Update, clientVars
      <4>4. CASE RefuseAdd \/ DeferAdd \/ BeginAdd
        BY <4>4 DEF RefuseAdd, DeferAdd, BeginAdd, clientVars
      <4> QED BY <2>5, <4>1, <4>2, <4>3, <4>4
    <3>2. \A q : (AddCovered(q) => AddCovered(q)') /\ (AbortQueued(q) => AbortQueued(q)')
      BY <3>1 DEF AddCovered, AbortQueued
    <3> QED BY <1>0, <2>1, <3>1, <3>2, AbortKept
  <2>6. CASE TakeWakeup \/ TakeAdd \/ TakeAbort \/ TakeUtility \/ TakeFailure
    <3>1. aborting' = aborting /\ reading' = reading
      BY <2>6 DEF TakeWakeup, TakeAdd, TakeAbort, TakeUtility, TakeFailure, clientVars
    <3>2. PICK type : Take(type) /\ (type = "ABORT" => TakeAbort)
      BY <2>6 DEF TakeWakeup, TakeAdd, TakeAbort, TakeUtility, TakeFailure
    <3>3. ASSUME NEW q \in aborting
          PROVE  /\ AddCovered(q) => AddCovered(q)'
                 /\ AbortQueued(q) => reading = q \/ AbortQueued(q)' \/ ~Waiting(q)'
      <4>1. /\ AbortQueued(q) => AbortQueued(q)' \/ Head(inbox) = Message("ABORT", q)
            /\ AddCovered(q) => AddCovered(q)'
            /\ AddCovered(q) /\ q \in Queued' => AbortQueued(q)'
        BY <3>2, AbortTaken
      <4>2. reading = q \/ AddCovered(q)
        BY DEF AbortOK
      <4>3. ASSUME Head(inbox) = Message("ABORT", q), q \notin Queued' PROVE ~Waiting(q)'
        <5>1. TakeAbort /\ Head(inbox).req = q /\ adding = NoRequest
          BY <3>2, <4>3 DEF Take, Message
        <5>2. deferred' = Without(deferred, q) /\ running' = running \ {q} /\ adding' = NoRequest
          BY <5>1 DEF TakeAbort
        <5>3. DeferredOnce
          BY OrderedOnce DEF LineInv, PartsOK
        <5>4. Deferred' = Deferred \ {q}
          BY <5>2, <5>3, FifoWithout
        <5> QED BY <1>0, <4>3, <5>2, <5>4, AdmissionRequests DEF Waiting
      <4> QED BY <4>1, <4>2, <4>3
    <3> QED BY <1>0, <2>1, <3>1, <3>3, AbortKept
  <2> QED BY <1>2, <2>2, <2>3, <2>4, <2>5, <2>6 DEF Next, Engine, Clients, Helpers
<1> QED BY <1>1, <1>2

-------------------------------------------------------------------------------
(* The theorems                                                                 *)

LEMMA InitInv == Init => AdmissionInv
<1> SUFFICES ASSUME Init PROVE AdmissionInv
  OBVIOUS
<1>1. Len(<<>>) = 0
  BY EmptySeq
<1>2. LineInv
  BY <1>1 DEF Init, LineInv, SentOnce, PartsOK, Ordered, InboxOrdered, LineOK, AddingOK, OpenOK,
              Admitted, Deferred, Queued, SentSet
<1>3. AnswerOK
  BY DEF Init, AnswerOK
<1>4. AloneOK /\ AbortOK
  BY DEF Init, AloneOK, AbortOK, SentSet
<1> QED BY <1>2, <1>3, <1>4, InitType DEF AdmissionInv

LEMMA StepInv == AdmissionInv /\ [Next]_vars => AdmissionInv'
<1> SUFFICES ASSUME AdmissionInv, [Next]_vars PROVE AdmissionInv'
  OBVIOUS
<1>1. TypeOK /\ LineInv /\ AnswerOK /\ AloneOK /\ AbortOK
  BY DEF AdmissionInv
<1>2. TypeOK'
  BY <1>1, OrderedOnce, TypeStep DEF LineInv, PartsOK
<1>3. LineInv' /\ AnswerOK' /\ AloneOK'
  BY <1>1, <1>2, LineStep, AnswersStep, AloneStep
<1>4. AbortOK'
  <2>1. CASE UNCHANGED vars
    BY <1>1, <2>1 DEF vars, clientVars, schedulerVars, AbortOK, AddCovered, AbortQueued, Waiting,
                      Stopped, SentSet, Deferred, Queued
  <2>2. CASE Next
    BY <1>1, <2>2, AbortStep
  <2> QED BY <2>1, <2>2
<1> QED BY <1>2, <1>3, <1>4 DEF AdmissionInv

\* The strengthening is inductive: the line of requests stays in order, whatever the
\* clients send and abort, the workers do and the signals interrupt.
THEOREM AdmissionInvariant == Spec => []AdmissionInv
  BY InitInv, StepInv, PTL DEF Spec

\* The engine's state is of its types: in particular the FIFO holds requests only and
\* the engine thread is at one of its places.
THEOREM TypeCorrect == Spec => []TypeOK
<1>1. AdmissionInv => TypeOK
  BY DEF AdmissionInv
<1> QED BY <1>1, AdmissionInvariant, PTL

\* A client gets at most one final output for its request.
THEOREM AnsweredOnceHolds == Spec => []AnsweredOnce
<1>1. AdmissionInv => AnsweredOnce
  BY DEF AdmissionInv, AnswerOK, AnsweredOnce
<1> QED BY <1>1, AdmissionInvariant, PTL

\* The scheduler and its cleanup outputs hold one request, and none at an open gate.
THEOREM OneAtATimeHolds == Spec => []OneAtATime
<1>1. AdmissionInv => OneAtATime
  <2> DEFINE held == running \cup finished \cup carried
  <2> SUFFICES ASSUME AloneOK PROVE OneAtATime
    BY DEF AdmissionInv
  <2>1. \A p, q \in held : p = q
    BY DEF AloneOK
  <2>2. gate = "ready" => held = {}
    BY DEF AloneOK
  <2> HIDE DEF held
  <2>3. Cardinality(held) <= 1
    <3>1. CASE held = {}
      BY <3>1, FS_EmptySet
    <3>2. ASSUME NEW p \in held PROVE Cardinality(held) <= 1
      <4>1. held = {p}
        BY <2>1, <3>2
      <4> QED BY <4>1, FS_Singleton
    <3> QED BY <3>1, <3>2
  <2> QED BY <2>2, <2>3 DEF OneAtATime, held
<1> QED BY <1>1, AdmissionInvariant, PTL

\* Generations begin in the order in which the requests were sent.
THEOREM FirstComeFirstServedHolds == Spec => []FirstComeFirstServed
<1>1. AdmissionInv => FirstComeFirstServed
  BY DEF AdmissionInv, LineInv, PartsOK, Ordered, Before, FirstComeFirstServed
<1> QED BY <1>1, AdmissionInvariant, PTL

\* No abort is lost between its two queues.
THEOREM AbortHonouredHolds == Spec => []AbortHonoured
<1>1. AdmissionInv => AbortHonoured
  BY DEF AdmissionInv, AbortOK, AbortQueued, Waiting, AbortHonoured
<1> QED BY <1>1, AdmissionInvariant, PTL

-------------------------------------------------------------------------------
(* Who waits behind a blocked engine                                            *)

\* The admission fence never fails.
FenceHolds == "fence" \notin FaultKinds

\* A generation under way has its request in the scheduler or in the cleanup output
\* being executed, and so has a group that was poisoned inside one.
WorkOK ==
  /\ carried # {} => pc \in {"update", "dead"}
  /\ gate = "busy" => has_work \/ carried # {}
  /\ gate = "poisoned" => Stopped \/ monitor # "watching" \/ has_work \/ carried # {}

\* The report of a worker's exit is in the input queue until the engine ends by it.
FailureQueued == \E i \in 1 .. Len(inbox) : inbox[i].type = "EXECUTOR_FAILED"
NotifyOK == monitor = "notified" => Stopped \/ FailureQueued

\* The engine comes to block with requests in the FIFO only after a worker's exit.
BlockOK ==
  /\ pc = "wait" /\ deferred # <<>> =>
       adding # NoRequest \/ has_work \/ monitor # "watching" \/ shutdown # "RUNNING"
  /\ pc = "get" => ~has_work /\ (deferred # <<>> => monitor # "watching")

StrandInv == AdmissionInv /\ WorkOK /\ NotifyOK /\ BlockOK

\* An engine that blocks for client input has an empty FIFO, an empty scheduler and an
\* open gate, unless the monitor thread has a worker's exit still to report.
BlocksClean ==
  pc = "get" /\ inbox = <<>> /\ monitor # "poisoned" =>
    deferred = <<>> /\ ~has_work /\ gate = "ready"

\* The report of the failure is taken or stays in the queue.
LEMMA FailureTaken ==
  ASSUME TypeOK, NEW type, Take(type)
  PROVE  FailureQueued => type = "EXECUTOR_FAILED" \/ FailureQueued'
<1>1. /\ Len(inbox) \in Nat \ {0} /\ Len(inbox') = Len(inbox) - 1
      /\ \A i \in 1 .. Len(inbox') : inbox'[i] = inbox[i + 1]
      /\ inbox[1] = Head(inbox)
  BY TailType
<1> SUFFICES ASSUME NEW j \in 1 .. Len(inbox), inbox[j].type = "EXECUTOR_FAILED",
                    type # "EXECUTOR_FAILED"
             PROVE  FailureQueued'
  BY DEF FailureQueued
<1>2. j # 1
  BY <1>1 DEF Take
<1>3. j - 1 \in 1 .. Len(inbox') /\ (j - 1) + 1 = j
  BY <1>1, <1>2
<1> QED BY <1>1, <1>3 DEF FailureQueued

\* A new message leaves it there, or is it.
LEMMA FailureAppend ==
  ASSUME TypeOK, NEW m \in Messages, inbox' = Append(inbox, m)
  PROVE  FailureQueued \/ m.type = "EXECUTOR_FAILED" => FailureQueued'
<1>1. /\ Len(inbox) \in Nat /\ Len(inbox') = Len(inbox) + 1
      /\ inbox'[Len(inbox) + 1] = m
      /\ \A i \in 1 .. Len(inbox) : inbox'[i] = inbox[i]
  BY AppendProperties, LenProperties DEF TypeOK
<1> QED BY <1>1 DEF FailureQueued

\* The report is kept by every step but the one that ends the engine.
LEMMA NotifyStep ==
  ASSUME TypeOK, NotifyOK, [Next]_vars
  PROVE  NotifyOK'
<1>1. CASE UNCHANGED vars
  BY <1>1 DEF vars, executorVars, NotifyOK, Stopped, FailureQueued
<1>2. CASE ~Stopped /\ Helpers
  <2>1. CASE QueueAbort
    <3>1. Message("ABORT", reading) \in Messages
      BY <2>1 DEF QueueAbort, Message, Messages, TypeOK
    <3> QED BY <1>2, <2>1, <3>1, FailureAppend DEF QueueAbort, executorVars, NotifyOK
  <2>2. CASE NotifyFailure
    <3>1. /\ Message("EXECUTOR_FAILED", NoRequest) \in Messages
          /\ Message("EXECUTOR_FAILED", NoRequest).type = "EXECUTOR_FAILED"
      BY DEF Message, Messages
    <3> QED BY <2>2, <3>1, FailureAppend DEF NotifyFailure, NotifyOK
  <2>3. CASE Wakeup
    <3>1. Message("WAKEUP", NoRequest) \in Messages
      BY DEF Message, Messages
    <3> QED BY <1>2, <2>3, <3>1, FailureAppend DEF Wakeup, executorVars, NotifyOK
  <2> QED BY <1>2, <2>1, <2>2, <2>3 DEF Helpers
<1>3. CASE ~Stopped /\ Clients
  <2>1. CASE SendUtility
    <3>1. Message("UTILITY", NoRequest) \in Messages
      BY DEF Message, Messages
    <3> QED BY <1>3, <2>1, <3>1, FailureAppend DEF SendUtility, executorVars, NotifyOK
  <2>2. ASSUME NEW q \in Requests, SendAdd(q) PROVE NotifyOK'
    <3>1. Message("ADD", q) \in Messages
      BY DEF Message, Messages
    <3> QED BY <1>3, <2>2, <3>1, FailureAppend DEF SendAdd, executorVars, NotifyOK
  <2>3. ASSUME NEW q \in Requests, SendAbort(q) PROVE NotifyOK'
    BY <1>3, <2>3 DEF SendAbort, executorVars, NotifyOK, FailureQueued
  <2> QED BY <1>3, <2>1, <2>2, <2>3 DEF Clients
<1>4. CASE ~Stopped /\ (TakeWakeup \/ TakeAdd \/ TakeAbort \/ TakeUtility \/ TakeFailure)
  <2>1. /\ monitor' = monitor
        /\ \E type \in {"WAKEUP", "ADD", "ABORT", "UTILITY", "EXECUTOR_FAILED"} : Take(type)
    BY <1>4 DEF TakeWakeup, TakeAdd, TakeAbort, TakeUtility, TakeFailure, executorVars
  <2>2. PICK type \in {"WAKEUP", "ADD", "ABORT", "UTILITY", "EXECUTOR_FAILED"} : Take(type)
    BY <2>1
  <2>3. type = "EXECUTOR_FAILED" => pc' = "dead"
    BY <2>2 DEF Take
  <2> QED BY <1>4, <2>1, <2>2, <2>3, FailureTaken DEF NotifyOK, Stopped
<1>5. CASE /\ ~Stopped
           /\ \/ HandleShutdown \/ AdmitDeferred \/ WaitForInput \/ StopDraining
              \/ RefuseAdd \/ DeferAdd \/ BeginAdd \/ Execute \/ Update
              \/ Signal \/ Failures
  <2>1. inbox' = inbox /\ (monitor' = "notified" => monitor = "notified")
    BY <1>5
    DEF HandleShutdown, AdmitDeferred, WaitForInput, StopDraining, RefuseAdd, DeferAdd,
        BeginAdd, Execute, Update, Signal, Failures, FenceFails, SchedulerFails, StepFails,
        WorkerExit, executorVars
  <2> QED BY <1>5, <2>1 DEF NotifyOK, FailureQueued
<1> QED BY <1>1, <1>2, <1>3, <1>4, <1>5 DEF Next, Engine

\* A generation keeps its request until its cleanup output has been executed, and the
\* engine blocks behind nobody.
LEMMA StrandStep ==
  ASSUME FenceHolds, TypeOK, LineInv, WorkOK, BlockOK, [Next]_vars
  PROVE  WorkOK' /\ BlockOK'
<1>1. CASE UNCHANGED vars
  BY <1>1 DEF vars, executorVars, schedulerVars, WorkOK, BlockOK, Stopped, has_work
<1>2. CASE ~Stopped /\ (Helpers \/ Clients \/ Signal)
  <2>1. /\ UNCHANGED <<pc, adding, deferred, gate, running, finished, carried>>
        /\ monitor' = monitor \/ (monitor = "poisoned" /\ monitor' = "notified")
        /\ shutdown' = shutdown \/ shutdown' = "REQUESTED"
    BY <1>2
    DEF Helpers, QueueAbort, NotifyFailure, Wakeup, Clients, SendUtility, SendAdd, SendAbort,
        Signal, executorVars, schedulerVars
  <2> QED BY <2>1 DEF WorkOK, BlockOK, Stopped, has_work
<1>3. CASE WorkerExit
  BY <1>3 DEF WorkerExit, schedulerVars, WorkOK, BlockOK, Stopped, has_work
<1>4. CASE SchedulerFails \/ StepFails
  BY <1>4 DEF SchedulerFails, StepFails, schedulerVars, WorkOK, BlockOK, Stopped, has_work
<1>5. CASE FenceFails
  BY <1>5 DEF FenceFails, Fault, FenceHolds
<1>6. CASE HandleShutdown
  <2>1. /\ has_work' = has_work /\ pc = "top" /\ pc' \in {"exited", "deferred"}
        /\ UNCHANGED <<carried, gate, monitor>>
    BY <1>6 DEF HandleShutdown, has_work, executorVars
  <2> QED BY <2>1 DEF WorkOK, BlockOK, Stopped
<1>7. CASE AdmitDeferred
  <2>1. /\ pc = "deferred" /\ pc' = "wait"
        /\ UNCHANGED <<carried, gate, monitor, running, finished>>
        /\ deferred' # <<>> => gate = "busy" \/ (adding' = Head(deferred) /\ deferred # <<>>)
    BY <1>7 DEF AdmitDeferred, schedulerVars, executorVars, TypeOK
  <2>2. deferred # <<>> => Head(deferred) # NoRequest
    BY HeadType, AdmissionRequests DEF TypeOK
  <2> QED BY <2>1, <2>2 DEF WorkOK, BlockOK, Stopped, has_work
<1>8. CASE WaitForInput \/ StopDraining
  BY <1>8 DEF WaitForInput, StopDraining, schedulerVars, executorVars, WorkOK, BlockOK, Stopped,
              has_work
<1>9. CASE TakeWakeup \/ TakeAdd \/ TakeUtility \/ TakeFailure
  <2>1. /\ UNCHANGED <<deferred, shutdown, monitor, running, finished, carried>>
        /\ pc \in {"get", "drain"} /\ adding = NoRequest
        /\ pc' \in {pc, "dead"} \/ (pc = "get" /\ pc' = "wait")
        /\ gate' = gate \/ (gate = "busy" /\ gate' = "poisoned")
    BY <1>9 DEF TakeWakeup, TakeAdd, TakeUtility, TakeFailure, Take, schedulerVars, executorVars
  <2> QED BY <2>1 DEF WorkOK, BlockOK, Stopped, has_work
<1>10. CASE TakeAbort
  <2>1. /\ UNCHANGED <<shutdown, monitor, gate, carried>> /\ has_work' = has_work
        /\ pc \in {"get", "drain"} /\ adding = NoRequest
        /\ pc' = pc \/ (pc = "get" /\ pc' = "wait")
    <3>1. running' \cup finished' = running \cup finished
      BY <1>10 DEF TakeAbort
    <3> QED BY <1>10, <3>1 DEF TakeAbort, Take, executorVars, has_work
  <2>2. deferred = <<>> => deferred' = <<>>
    BY <1>10, EmptySeq DEF TakeAbort, Without
  <2> QED BY <2>1, <2>2 DEF WorkOK, BlockOK, Stopped
<1>11. CASE RefuseAdd \/ DeferAdd
  <2>1. /\ UNCHANGED <<pc, gate, monitor, shutdown, running, finished, carried>>
        /\ adding # NoRequest
        /\ gate # "ready" \/ shutdown # "RUNNING"
    BY <1>11 DEF RefuseAdd, DeferAdd, Refused, schedulerVars, executorVars
  <2>2. pc \in {"wait", "drain", "dead"}
    BY <2>1 DEF LineInv, AddingOK
  <2> QED BY <2>1, <2>2 DEF WorkOK, BlockOK, Stopped, has_work, TypeOK
<1>12. CASE BeginAdd
  <2>1. /\ UNCHANGED <<pc, monitor, carried>> /\ gate' = "busy"
        /\ adding \in running' \cup finished' /\ adding # NoRequest
    BY <1>12 DEF BeginAdd
  <2>2. pc \in {"wait", "drain", "dead"}
    BY <2>1 DEF LineInv, AddingOK
  <2> QED BY <2>1, <2>2 DEF WorkOK, BlockOK, has_work
<1>13. CASE Execute
  BY <1>13 DEF Execute, executorVars, WorkOK, BlockOK, Stopped, has_work
<1>14. CASE Update
  <2>1. /\ pc = "update" /\ pc' \in {"top", "dead"} /\ carried' = {}
        /\ gate' \in {gate, "ready", "poisoned"}
        /\ gate' = "poisoned" => pc' = "dead"
        /\ gate' = "busy" => carried = {}
    BY <1>14 DEF Update
  <2>2. running' \cup finished' = running \cup finished
    BY <1>14 DEF Update
  <2> QED BY <2>1, <2>2 DEF WorkOK, BlockOK, Stopped, has_work
<1> QED
  BY <1>1, <1>2, <1>3, <1>4, <1>5, <1>6, <1>7, <1>8, <1>9, <1>10, <1>11, <1>12, <1>13, <1>14
  DEF Next, Engine, Failures

\* Requests are stranded in the FIFO of a blocked engine by a failed fence and by nothing
\* else: while the fences hold, an engine that blocks has nothing left to do.
THEOREM StrandedOnlyByFence == FenceHolds => (Spec => []BlocksClean)
<1> SUFFICES ASSUME FenceHolds PROVE Spec => []BlocksClean
  OBVIOUS
<1>1. Init => StrandInv
  BY InitInv DEF Init, StrandInv, WorkOK, NotifyOK, BlockOK, has_work
<1>2. StrandInv /\ [Next]_vars => StrandInv'
  BY StepInv, NotifyStep, StrandStep DEF StrandInv, AdmissionInv
<1>3. StrandInv => BlocksClean
  <2> SUFFICES ASSUME StrandInv, pc = "get", inbox = <<>>, monitor # "poisoned"
               PROVE  deferred = <<>> /\ ~has_work /\ gate = "ready"
    BY DEF BlocksClean
  <2>1. ~FailureQueued
    BY EmptySeq DEF FailureQueued
  <2>2. monitor = "watching"
    BY <2>1 DEF StrandInv, NotifyOK, Stopped, AdmissionInv, TypeOK
  <2> QED BY <2>2 DEF StrandInv, BlockOK, WorkOK, Stopped, AdmissionInv, TypeOK
<1> QED BY <1>1, <1>2, <1>3, PTL DEF Spec

===============================================================================
