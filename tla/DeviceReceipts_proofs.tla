-------------------------- MODULE DeviceReceipts_proofs --------------------------
(***************************************************************************)
(* Machine-checked proofs about DeviceReceipts, for any number of           *)
(* recipients, segments, re-queue checks, sends, re-queues, mishaps and     *)
(* overlapping recoveries.                                                  *)
(*                                                                         *)
(* A batch exists in up to four places at once (on disk, in memory, in the  *)
(* hands of a finalizing thread, in the plan of a recovery), and these      *)
(* copies disagree after a failed write.  The argument is about every copy: *)
(* none of them is ever too optimistic about a recipient it does not list   *)
(* as failed.                                                               *)
(***************************************************************************)
EXTENDS DeviceReceipts, TLAPS

\* A thread in state x holds b as a copy of the batch of send s.
Holds(x, s, b) ==
    \/ x.at = "handing" /\ x.send = s /\ x.batch = b
    \/ x.at = "recovering" /\ x.plan[s] = b

\* b is a copy of the batch of send s.
IsCopy(s, b) ==
    \/ b = batches[s] \/ b = live[s]
    \/ \E t \in Threads : Holds(thread[t], s, b)

\* What a copy may claim: the parts it does not wait for any more were sent, or
\* their recipient is listed.
Agrees(s, b) ==
    /\ s \in Started
    /\ b.token = sentFor[s]
    /\ \A r \in Recipients \ b.failures : okParts[s][r] + b.remaining[r] >= Parts

CopiesAgree == \A s \in Sends, b \in Batch : IsCopy(s, b) => Agrees(s, b)

\* What a report about send s may claim.
ReportIsTrue(s, report) ==
    /\ s \in Started
    /\ report.token = sentFor[s]
    /\ report.failures = {} => Vouched(s)

Messages == {p.message : p \in posts} \cup late

ReportsAreTrue ==
    /\ \A s \in Sends : receipts[s] # None => ReportIsTrue(s, receipts[s])
    /\ \A m \in Messages : ReportIsTrue(m.send, m.report)

\* A batch leaves memory for a receipt when nothing is owed, or is cut short.
HandedIsOver ==
    \A t \in Threads : thread[t].at = "handing" =>
        AllOver(thread[t].batch) \/ thread[t].send \in cutShort

\* A recipient's parts go to the radio once: results and results owed are never more.
PartsCounted ==
    \A s \in Sends, r \in Recipients :
        /\ okParts[s][r] + radio[s][r] <= Parts
        /\ s \notin Started => okParts[s][r] = 0 /\ radio[s][r] = 0

\* A dispatch loop works on a batch of its own, which stays in memory; what it has not
\* come to yet is not with the radio.
LoopsApart ==
    \A t \in Threads : thread[t].at = "dispatching" =>
        /\ thread[t].send \in Started \ complete
        /\ live[thread[t].send] # None
        /\ \A r \in thread[t].todo :
              okParts[thread[t].send][r] = 0 /\ radio[thread[t].send][r] = 0
        /\ \A u \in Threads \ {t} :
              thread[u].at = "dispatching" => thread[u].send # thread[t].send

\* A thread about to remove a batch has not got hold of one that is being dispatched.
FinalizingApart ==
    \A t \in Threads : thread[t].at = "finalizing" =>
        /\ thread[t].send \in Started
        /\ \A u \in Threads : thread[u].at = "dispatching" => thread[u].send # thread[t].send

DispatchedOnce ==
    /\ PartsCounted
    /\ complete \subseteq Started
    /\ LoopsApart
    /\ FinalizingApart

\* Cycle tokens in circulation were minted, and nothing was sent before the trigger.
TokensMinted ==
    /\ \A s \in Sends : sentFor[s] <= token
    /\ \A t \in Threads : thread[t].at \in {"listed", "cleared"} =>
          thread[t].token <= token /\ item # "none"
    /\ item = "none" => sends = 0

WithdrawnIsResolved == item = "WITHDRAWN" => resolved

\* An answer that makes the handset drop its receipt: the console has the outcome of
\* the current cycle, or the cycle is over.
AnswersAreFinal ==
    \A p \in posts : p.answer \in {"ok", "gone"} =>
        ~(item = "QUEUED" /\ sentFor[p.message.send] = token)

IndInv ==
    /\ TypeOK
    /\ CopiesAgree
    /\ ReportsAreTrue
    /\ HandedIsOver
    /\ DispatchedOnce
    /\ TokensMinted
    /\ WithdrawnIsResolved
    /\ AnswersAreFinal
    /\ SentMeansTexted
    /\ SentInItsCycle
    /\ NothingForgotten

--------------------------------------------------------------------------------

USE PartsPositive, BoundsAreNat DEF Sends, Tokens

LEMMA MainThreads == "main" \in Threads /\ "alert" \in Threads /\ Checks \subseteq Threads
BY DEF Threads

\* The empty slot is neither a batch nor a receipt.
LEMMA NoneIsNothing == None \notin Batch /\ None \notin Receipt
BY DEF None, Batch, Receipt

\* What is known of a thread, by what it does.
LEMMA ThreadShape ==
    ASSUME TypeOK, NEW t \in Threads
    PROVE  /\ thread[t].at \in {"listed", "cleared"} => thread[t].token \in Tokens
           /\ thread[t].at = "dispatching" =>
                 thread[t].send \in Sends /\ thread[t].todo \in SUBSET Recipients
           /\ thread[t].at \in {"checking", "finalizing"} => thread[t].send \in Sends
           /\ thread[t].at = "handing" => thread[t].send \in Sends /\ thread[t].batch \in Batch
           /\ thread[t].at = "recovering" => thread[t].plan \in Slots(Batch)
BY DEF TypeOK, Thread, Idle

LEMMA IndInvInit == Init => IndInv
<1> SUFFICES ASSUME Init
             PROVE  IndInv
  OBVIOUS
<1> USE DEF Init
<1>1. TypeOK
  <2>1. {batches, live} \subseteq Slots(Batch) /\ receipts \in Slots(Receipt)
    BY DEF Slots, Empty
  <2>2. thread \in [Threads -> Thread]
    BY DEF Thread
  <2>3. {radio, okParts} \subseteq [Sends -> [Recipients -> 0..Parts]]
    BY DEF Zero
  <2>4. sentFor \in [Sends -> Tokens]
    OBVIOUS
  <2>5. /\ item \in {"none", "QUEUED", "SENT", "DEAD_LETTER", "WITHDRAWN"}
        /\ resolved \in BOOLEAN
        /\ complete \subseteq Sends /\ posts \subseteq Post /\ late \subseteq Message
    OBVIOUS
  <2>6. token \in Tokens /\ sends \in 0..MaxSends /\ mishaps \in 0..MaxMishaps /\ overlaps \in 0..MaxOverlaps
    OBVIOUS
  <2>7. QED BY <2>1, <2>2, <2>3, <2>4, <2>5, <2>6 DEF TypeOK
<1>2. CopiesAgree
  BY NoneIsNothing DEF CopiesAgree, IsCopy, Holds, Empty, Idle
<1>3. ReportsAreTrue /\ HandedIsOver
  BY DEF ReportsAreTrue, Messages, HandedIsOver, Empty, Idle
<1>4. DispatchedOnce
  BY DEF DispatchedOnce, PartsCounted, LoopsApart, FinalizingApart, Zero, Idle
<1>5. TokensMinted /\ WithdrawnIsResolved /\ AnswersAreFinal
  BY DEF TokensMinted, WithdrawnIsResolved, AnswersAreFinal, Idle
<1>6. SentMeansTexted /\ SentInItsCycle /\ NothingForgotten
  BY DEF SentMeansTexted, SentInItsCycle, NothingForgotten, Started
<1>7. QED BY <1>1, <1>2, <1>3, <1>4, <1>5, <1>6 DEF IndInv

--------------------------------------------------------------------------------
(* Types.                                                                  *)

LEMMA PersistTyped ==
    ASSUME TypeOK, NEW s \in Sends, live'[s] \in Batch, PersistBatch(s)
    PROVE  batches' \in Slots(Batch) /\ mishaps' \in 0..MaxMishaps
<1>1. [batches EXCEPT ![s] = live'[s]] \in Slots(Batch)
  BY DEF TypeOK, Slots
<1>2. mishaps \in 0..MaxMishaps /\ batches \in Slots(Batch)
  BY DEF TypeOK
<1>3. CASE UNCHANGED batches /\ Mishap
  BY <1>2, <1>3 DEF Mishap
<1>4. QED BY <1>1, <1>2, <1>3 DEF PersistBatch

\* The forms a thread, and an updated batch, can take.
LEMMA ThreadForms ==
    /\ Idle \in Thread
    /\ \A k \in Tokens : {[at |-> "listed", token |-> k], [at |-> "cleared", token |-> k]} \subseteq Thread
    /\ \A s \in Sends, T \in SUBSET Recipients : [at |-> "dispatching", send |-> s, todo |-> T] \in Thread
    /\ \A s \in Sends : {[at |-> "checking", send |-> s], [at |-> "finalizing", send |-> s]} \subseteq Thread
    /\ \A s \in Sends, b \in Batch : [at |-> "handing", send |-> s, batch |-> b] \in Thread
    /\ \A m \in Slots(Batch) : [at |-> "recovering", plan |-> m] \in Thread
BY DEF Thread

LEMMA ThreadUpdate ==
    ASSUME TypeOK, NEW t \in Threads
    PROVE  /\ \A x \in Thread : [thread EXCEPT ![t] = x] \in [Threads -> Thread]
           /\ thread[t].at = "listed" => [thread[t] EXCEPT !.at = "cleared"] \in Thread
           /\ \A r \in Recipients : thread[t].at = "dispatching" =>
                 [thread[t] EXCEPT !.todo = @ \ {r}] \in Thread
           /\ \A s \in Sends : thread[t].at = "recovering" =>
                 [thread[t] EXCEPT !.plan[s] = None] \in Thread
<1> USE DEF TypeOK
<1>1. \A x \in Thread : [thread EXCEPT ![t] = x] \in [Threads -> Thread]
  OBVIOUS
<1>2. ASSUME thread[t].at = "listed"
      PROVE  [thread[t] EXCEPT !.at = "cleared"] \in Thread
  <2>1. thread[t] \in [at : {"listed", "cleared"}, token : Tokens]
    BY <1>2 DEF Thread, Idle
  <2>2. [thread[t] EXCEPT !.at = "cleared"] \in [at : {"listed", "cleared"}, token : Tokens]
    BY <2>1
  <2>3. QED BY <2>2 DEF Thread
<1>3. ASSUME NEW r \in Recipients, thread[t].at = "dispatching"
      PROVE  [thread[t] EXCEPT !.todo = @ \ {r}] \in Thread
  <2>1. thread[t] \in [at : {"dispatching"}, send : Sends, todo : SUBSET Recipients]
    <3>1. thread[t].at = "dispatching" /\ thread[t] \in Thread
      BY <1>3
    <3>2. QED BY <3>1 DEF Thread, Idle
  <2>2. [thread[t] EXCEPT !.todo = @ \ {r}]
           \in [at : {"dispatching"}, send : Sends, todo : SUBSET Recipients]
    BY <2>1
  <2>3. QED BY <2>2 DEF Thread
<1>4. ASSUME NEW s \in Sends, thread[t].at = "recovering"
      PROVE  [thread[t] EXCEPT !.plan[s] = None] \in Thread
  <2>1. thread[t] \in [at : {"recovering"}, plan : Slots(Batch)]
    BY <1>4 DEF Thread, Idle
  <2>2. [thread[t].plan EXCEPT ![s] = None] \in Slots(Batch)
    BY <2>1 DEF Slots
  <2>3. [thread[t] EXCEPT !.plan[s] = None] \in [at : {"recovering"}, plan : Slots(Batch)]
    BY <2>1, <2>2
  <2>4. QED BY <2>3 DEF Thread
<1>5. QED BY <1>1, <1>2, <1>3, <1>4

LEMMA SlotUpdate ==
    ASSUME NEW S, NEW m \in Slots(S), NEW s \in Sends, NEW x \in S \cup {None}
    PROVE  [m EXCEPT ![s] = x] \in Slots(S)
BY DEF Slots

\* What an immediate failure, a radio result and the watchdog make of a batch.
LEMMA BatchForms ==
    ASSUME NEW b \in Batch, NEW r \in Recipients
    PROVE  /\ FailedAtOnce(b, r) \in Batch
           /\ \A ok \in BOOLEAN : Counted(b, r, ok) \in Batch
<1>1. b.remaining[r] \in 0..Parts
  BY DEF Batch
<1>2. FailedAtOnce(b, r) \in Batch
  <2>1. [b.remaining EXCEPT ![r] = 0] \in [Recipients -> 0..Parts]
    BY DEF Batch
  <2>2. b.failures \cup {r} \in SUBSET Recipients
    BY DEF Batch
  <2>3. QED BY <2>1, <2>2 DEF Batch, FailedAtOnce
<1>3. (IF b.remaining[r] = 0 THEN 0 ELSE b.remaining[r] - 1) \in 0..Parts
  BY <1>1
<1>4. \A ok \in BOOLEAN : Counted(b, r, ok) \in Batch
  BY <1>3 DEF Batch, Counted
<1>5. QED BY <1>2, <1>4

LEMMA RosterForm ==
    ASSUME NEW k \in Tokens, NEW divided \in BOOLEAN
    PROVE  Roster(k, divided) \in Batch
BY DEF Roster, Batch

LEMMA TimedOutForm ==
    ASSUME NEW b \in Batch
    PROVE  TimedOut(b) \in Batch
<1>1. [r \in Recipients |-> 0] \in [Recipients -> 0..Parts]
  OBVIOUS
<1>2. b.failures \cup {r \in Recipients : b.remaining[r] > 0} \in SUBSET Recipients
  BY DEF Batch
<1>3. QED BY <1>1, <1>2 DEF Batch, TimedOut

LEMMA TypeKept ==
    ASSUME TypeOK, [Next]_vars, DispatchedOnce
    PROVE  TypeOK'
<1> USE DEF TypeOK
<1>1. ASSUME Requeue \/ Resolve
      PROVE  TypeOK'
  <2>1. item' \in {"QUEUED", "SENT", "DEAD_LETTER", "WITHDRAWN"} /\ resolved' \in BOOLEAN
    BY <1>1 DEF Requeue, Resolve
  <2>2. token' \in Tokens
    BY <1>1 DEF Requeue, Resolve
  <2>3. UNCHANGED <<durable, memory, network, radio, history, mishaps>>
    BY <1>1 DEF Requeue, Resolve
  <2>4. QED BY <2>1, <2>2, <2>3 DEF durable, memory, network, history
<1>2. ASSUME NEW p \in posts, HandleDeviceReceipt(p)
      PROVE  TypeOK'
  <2>1. Verdict(p.message.report)[1] \in {"SENT", "WITHDRAWN", "DEAD_LETTER", "QUEUED"}
    BY DEF Verdict
  <2>2. Verdict(p.message.report)[2] \in {"ok", "gone", "conflict"}
    BY DEF Verdict
  <2>3. [p EXCEPT !.answer = Verdict(p.message.report)[2]] \in Post
    BY <2>2 DEF Post
  <2>4. QED BY <1>2, <2>1, <2>3 DEF HandleDeviceReceipt, durable, memory, history
<1>3. ASSUME NEW m \in late, HandleLateReceipt(m)
      PROVE  TypeOK'
  <2>1. Verdict(m.report)[1] \in {"SENT", "WITHDRAWN", "DEAD_LETTER", "QUEUED"}
    BY DEF Verdict
  <2>2. QED BY <1>3, <2>1 DEF HandleLateReceipt, durable, memory, history
<1>4. ASSUME NEW p \in posts, ReceiveAnswer(p) \/ PostFails(p)
      PROVE  TypeOK'
  <2>1. p.message \in Message
    BY DEF Post
  <2>2. Awaited({p}) \subseteq Message
    BY <2>1 DEF Awaited
  <2>3. p.message.send \in Sends
    BY <2>1 DEF Message
  <2>4. [receipts EXCEPT ![p.message.send] = None] \in Slots(Receipt)
    BY <2>3, SlotUpdate
  <2>5. receipts' \in Slots(Receipt)
    BY <1>4, <2>4 DEF ReceiveAnswer, PostFails, durable
  <2>6. posts' \subseteq Post /\ late' \subseteq Message
    BY <1>4, <2>2 DEF ReceiveAnswer, PostFails
  <2>7. mishaps' \in 0..MaxMishaps
    BY <1>4 DEF ReceiveAnswer, PostFails, Mishap
  <2>8. UNCHANGED <<console, batches, memory, radio, history>>
    BY <1>4 DEF ReceiveAnswer, PostFails, durable
  <2>9. QED BY <2>5, <2>6, <2>7, <2>8 DEF console, memory, history
<1>5. ASSUME Crash
      PROVE  TypeOK'
  <2>1. Awaited(posts) \subseteq Message
    BY DEF Awaited, Post
  <2>2. Empty \in Slots(Batch)
    BY DEF Empty, Slots
  <2>3. thread' \in [Threads -> Thread]
    BY <1>5, ThreadForms DEF Crash
  <2>4. QED BY <1>5, <2>1, <2>2, <2>3 DEF Crash, Mishap, console, durable, history
<1>6. ASSUME NEW s \in Sends, NEW r \in Recipients, NEW ok \in BOOLEAN, OnSendResult(s, r, ok)
      PROVE  TypeOK'
  <2>1. /\ radio[s][r] \in 0..Parts /\ okParts[s][r] \in 0..Parts /\ radio[s][r] > 0
        /\ okParts[s][r] + radio[s][r] <= Parts
    BY <1>6 DEF OnSendResult, DispatchedOnce, PartsCounted
  <2>2. radio' \in [Sends -> [Recipients -> 0..Parts]]
    BY <1>6, <2>1 DEF OnSendResult
  <2>3. okParts' \in [Sends -> [Recipients -> 0..Parts]]
    BY <1>6, <2>1 DEF OnSendResult
  <2>4. BatchOf(s) # None => BatchOf(s) \in Batch
    BY DEF BatchOf, Slots
  <2>5. CASE BatchOf(s) = None /\ UNCHANGED <<memory, batches, mishaps>>
    BY <1>6, <2>2, <2>3, <2>5 DEF OnSendResult, memory, console, network
  <2>6. CASE BatchOf(s) # None /\ live' = [live EXCEPT ![s] = Counted(BatchOf(s), r, ok)]
    <3>1. Counted(BatchOf(s), r, ok) \in Batch
      BY <2>4, <2>6, BatchForms
    <3>2. live' \in Slots(Batch) /\ live'[s] \in Batch
      BY <2>6, <3>1, SlotUpdate DEF Slots
    <3>3. thread' \in [Threads -> Thread]
      BY <1>6, <2>6, ThreadForms, ThreadUpdate, MainThreads DEF OnSendResult
    <3>5. complete' \subseteq Sends
      BY <1>6, <2>6 DEF OnSendResult, memory
    <3>6. batches' \in Slots(Batch) /\ mishaps' \in 0..MaxMishaps
      BY <1>6, <2>6, <3>2, PersistTyped DEF OnSendResult
    <3>7. UNCHANGED <<console, receipts, network, sentFor, sends, cutShort, overlaps>>
      BY <1>6 DEF OnSendResult
    <3>8. QED BY <2>2, <2>3, <3>2, <3>3, <3>5, <3>6, <3>7 DEF console, network
  <2>7. QED BY <1>6, <2>5, <2>6 DEF OnSendResult
<1>7. ASSUME NEW s \in Sends, OnWatchdog(s)
      PROVE  TypeOK'
  <2> DEFINE b == TimedOut(live[s])
  <2>1. live[s] \in Batch
    BY <1>7 DEF OnWatchdog, Slots
  <2>2. b \in Batch
    BY <2>1, TimedOutForm
  <2>3. live' = [live EXCEPT ![s] = b]
    BY <1>7 DEF OnWatchdog
  <2> HIDE DEF b
  <2>4. live' \in Slots(Batch) /\ live'[s] \in Batch
    BY <2>2, <2>3, SlotUpdate DEF Slots
  <2>6. thread' \in [Threads -> Thread]
    BY <1>7, ThreadForms, ThreadUpdate, MainThreads DEF OnWatchdog
  <2>7. batches' \in Slots(Batch) /\ mishaps' \in 0..MaxMishaps
    BY <1>7, <2>4, PersistTyped DEF OnWatchdog
  <2>8. UNCHANGED <<console, receipts, complete, network, radio, history>>
    BY <1>7 DEF OnWatchdog
  <2>9. QED BY <2>4, <2>6, <2>7, <2>8 DEF console, network, history
<1>8. ASSUME NEW s \in Sends, PostReceipt(s)
      PROVE  TypeOK'
  <2>1. [message |-> [send |-> s, report |-> receipts[s]], answer |-> "awaited"] \in Post
    BY <1>8 DEF PostReceipt, Slots, Post, Message
  <2>2. QED BY <1>8, <2>1 DEF PostReceipt, console, durable, memory, history
<1>9. ASSUME TriggerAlert \/ ResumeOver
      PROVE  TypeOK'
  <2>1. 0 \in Tokens
    OBVIOUS
  <2>2. thread' \in [Threads -> Thread]
    BY <1>9, <2>1, ThreadForms, ThreadUpdate, MainThreads DEF TriggerAlert, ResumeOver
  <2>3. item' \in {"none", "QUEUED", "SENT", "DEAD_LETTER", "WITHDRAWN"}
    BY <1>9 DEF TriggerAlert, ResumeOver, console
  <2>4. UNCHANGED <<token, resolved, durable, live, complete, network, radio, history, mishaps>>
    BY <1>9 DEF TriggerAlert, ResumeOver, console
  <2>5. QED BY <2>2, <2>3, <2>4 DEF durable, network, history
<1>10. ASSUME NEW t \in Threads, ThreadStep(t)
       PROVE  TypeOK'
  <2>1. ASSUME PlanRecovery(t)
        PROVE  TypeOK'
    <3> DEFINE kept == [s \in Sends |-> IF batches[s] # None /\ receipts[s] = None
                                        THEN batches[s] ELSE None]
    <3>1. kept \in Slots(Batch)
      BY DEF Slots
    <3>2. batches' = kept /\ thread' = [thread EXCEPT ![t] = [at |-> "recovering", plan |-> kept]]
      BY <2>1 DEF PlanRecovery
    <3> HIDE DEF kept
    <3>3. thread' \in [Threads -> Thread]
      BY <3>1, <3>2, ThreadForms, ThreadUpdate
    <3>4. overlaps' \in 0..MaxOverlaps
      BY <2>1 DEF PlanRecovery
    <3>5. UNCHANGED <<console, receipts, live, complete, network, radio, okParts, sentFor, sends,
                      cutShort, mishaps>>
      BY <2>1 DEF PlanRecovery
    <3>6. QED BY <3>1, <3>2, <3>3, <3>4, <3>5 DEF console, network
  <2>2. ASSUME FetchPendingItems(t) \/ CheckDeferred(t) \/ SendAborted(t)
        PROVE  TypeOK'
    <3>1. thread' \in [Threads -> Thread]
      BY <2>2, ThreadForms, ThreadUpdate DEF FetchPendingItems, CheckDeferred, SendAborted
    <3>2. QED BY <2>2, <3>1 DEF FetchPendingItems, CheckDeferred, SendAborted, console,
                                durable, network, history
  <2>3. ASSUME NEW divided \in BOOLEAN, SendAlert(t, divided)
        PROVE  TypeOK'
    <3>1. thread[t].token \in Tokens
      BY <2>3, ThreadShape DEF SendAlert
    <3>2. Roster(thread[t].token, divided) \in Batch /\ sends + 1 \in Sends
      BY <2>3, <3>1, RosterForm DEF SendAlert
    <3>3. batches' \in Slots(Batch) /\ live' \in Slots(Batch)
      <4> DEFINE b == Roster(thread[t].token, divided)
      <4>1. batches' = [batches EXCEPT ![sends + 1] = b] /\ live' = [live EXCEPT ![sends + 1] = b]
        BY <2>3 DEF SendAlert
      <4>2. b \in Batch
        BY <3>2
      <4> HIDE DEF b
      <4>3. QED BY <3>2, <4>1, <4>2, SlotUpdate
    <3>4. thread' \in [Threads -> Thread]
      BY <2>3, <3>2, ThreadForms, ThreadUpdate DEF SendAlert
    <3>5. sentFor' \in [Sends -> Tokens] /\ sends' \in 0..MaxSends
      BY <2>3, <3>1 DEF SendAlert
    <3>6. QED BY <2>3, <3>3, <3>4, <3>5 DEF SendAlert, console, network
  <2>4. ASSUME NEW r \in Recipients, DispatchTo(t, r)
        PROVE  TypeOK'
    <3>1. thread' \in [Threads -> Thread]
      <4>1. thread' = [thread EXCEPT ![t] = [thread[t] EXCEPT !.todo = @ \ {r}]]
        BY <2>4 DEF DispatchTo
      <4>2. [thread[t] EXCEPT !.todo = @ \ {r}] \in Thread
        BY <2>4, ThreadUpdate DEF DispatchTo
      <4>3. QED BY <4>1, <4>2, ThreadUpdate
    <3>2. thread[t].send \in Sends
      BY <2>4, ThreadShape DEF DispatchTo
    <3>3. radio' \in [Sends -> [Recipients -> 0..Parts]]
      BY <2>4, <3>2 DEF DispatchTo
    <3>4. QED BY <2>4, <3>1, <3>3 DEF DispatchTo, console, durable, network, history
  <2>5. ASSUME NEW r \in Recipients, RecordImmediateFailure(t, r)
        PROVE  TypeOK'
    <3> DEFINE s == thread[t].send
               b == FailedAtOnce(live[s], r)
    <3>1. thread' \in [Threads -> Thread]
      <4>1. thread' = [thread EXCEPT ![t] = [thread[t] EXCEPT !.todo = @ \ {r}]]
        BY <2>5 DEF RecordImmediateFailure
      <4>2. [thread[t] EXCEPT !.todo = @ \ {r}] \in Thread
        BY <2>5, ThreadUpdate DEF RecordImmediateFailure
      <4>3. QED BY <4>1, <4>2, ThreadUpdate
    <3>2. s \in Sends
      BY <2>5, ThreadShape DEF RecordImmediateFailure
    <3>3. live' = [live EXCEPT ![s] = b]
      BY <2>5 DEF RecordImmediateFailure
    <3>4. live[s] \in Batch
      BY <2>5, <3>2 DEF RecordImmediateFailure, DispatchedOnce, LoopsApart, Slots
    <3>5. b \in Batch
      BY <3>4, BatchForms
    <3> HIDE DEF b, s
    <3>6. live' \in Slots(Batch) /\ live'[s] \in Batch
      BY <3>2, <3>3, <3>5, SlotUpdate DEF Slots
    <3>8. batches' \in Slots(Batch) /\ mishaps' \in 0..MaxMishaps
      BY <2>5, <3>2, <3>6, PersistTyped DEF RecordImmediateFailure, s
    <3>9. UNCHANGED <<console, receipts, complete, network, radio, history>>
      BY <2>5 DEF RecordImmediateFailure
    <3>10. QED BY <3>1, <3>6, <3>8, <3>9 DEF console, network, history
  <2>6. ASSUME FinishDispatch(t)
        PROVE  TypeOK'
    <3>1. thread[t].send \in Sends
      BY <2>6, ThreadShape DEF FinishDispatch
    <3>2. thread' \in [Threads -> Thread]
      BY <2>6, <3>1, ThreadForms, ThreadUpdate DEF FinishDispatch
    <3>3. QED BY <2>6, <3>1, <3>2 DEF FinishDispatch, console, durable, network, history
  <2>7. ASSUME FinalizeIfComplete(t)
        PROVE  TypeOK'
    <3>1. thread[t].send \in Sends
      BY <2>7, ThreadShape DEF FinalizeIfComplete
    <3>2. thread' \in [Threads -> Thread]
      BY <2>7, <3>1, ThreadForms, ThreadUpdate DEF FinalizeIfComplete
    <3>3. QED BY <2>7, <3>2 DEF FinalizeIfComplete, console, durable, network, history
  <2>10. ASSUME Finalize(t)
         PROVE  TypeOK'
    <3> DEFINE s == thread[t].send
    <3>1. s \in Sends
      BY <2>10, ThreadShape DEF Finalize
    <3>2. live[s] # None => live[s] \in Batch
      BY <3>1 DEF Slots
    <3>3. thread' \in [Threads -> Thread]
      BY <2>10, <3>1, <3>2, ThreadForms, ThreadUpdate DEF Finalize
    <3>4. live' \in Slots(Batch)
      BY <2>10, <3>1, SlotUpdate DEF Finalize
    <3>5. complete' \subseteq Sends /\ cutShort' \subseteq Sends
      BY <2>10, <3>1 DEF Finalize
    <3>6. QED BY <2>10, <3>3, <3>4, <3>5 DEF Finalize, console, durable, network
  <2>8. ASSUME FinalizeBatch(t)
        PROVE  TypeOK'
    <3> DEFINE s == thread[t].send
               b == thread[t].batch
    <3>1. s \in Sends /\ b \in Batch
      BY <2>8, ThreadShape DEF FinalizeBatch
    <3>2. [token |-> b.token, failures |-> b.failures] \in Receipt
      BY <3>1 DEF Batch, Receipt
    <3>3. /\ [batches EXCEPT ![s] = None] \in Slots(Batch)
          /\ [receipts EXCEPT ![s] = [token |-> b.token, failures |-> b.failures]] \in Slots(Receipt)
      BY <3>1, <3>2, SlotUpdate
    <3>4. thread' \in [Threads -> Thread]
      BY <2>8, ThreadForms, ThreadUpdate DEF FinalizeBatch
    <3>5. batches' \in Slots(Batch) /\ receipts' \in Slots(Receipt)
      <4>1. \/ UNCHANGED durable
            \/ /\ batches' = [batches EXCEPT ![s] = None]
               /\ receipts' = [receipts EXCEPT ![s] = [token |-> b.token, failures |-> b.failures]]
        BY <2>8 DEF FinalizeBatch
      <4> HIDE DEF s, b
      <4>2. QED BY <3>3, <4>1 DEF durable
    <3>8. mishaps' \in 0..MaxMishaps
      BY <2>8 DEF FinalizeBatch, Mishap
    <3>6. UNCHANGED <<console, live, complete, network, radio, history>>
      BY <2>8 DEF FinalizeBatch
    <3>7. QED BY <3>4, <3>5, <3>6, <3>8 DEF console, network, history
  <2>9. ASSUME NEW s \in Sends, RecoverBatch(t, s)
        PROVE  TypeOK'
    <3>1. thread' \in [Threads -> Thread]
      <4>1. thread' = [thread EXCEPT ![t] = [thread[t] EXCEPT !.plan[s] = None]]
        BY <2>9 DEF RecoverBatch
      <4>2. [thread[t] EXCEPT !.plan[s] = None] \in Thread
        BY <2>9, ThreadUpdate DEF RecoverBatch
      <4>3. QED BY <4>1, <4>2, ThreadUpdate
    <3>2. thread[t].plan[s] \in Batch
      BY <2>9, ThreadShape DEF RecoverBatch, Slots
    <3>3. live' \in Slots(Batch)
      BY <2>9, <3>2, SlotUpdate DEF RecoverBatch
    <3>4. QED BY <2>9, <3>1, <3>3 DEF RecoverBatch, console, durable, network, history
  <2>11. QED BY <1>10, <2>1, <2>2, <2>3, <2>4, <2>5, <2>6, <2>7, <2>8, <2>9, <2>10 DEF ThreadStep
<1>11. CASE UNCHANGED vars
  BY <1>11 DEF vars, console, durable, memory, network, history
<1>12. QED BY <1>1, <1>2, <1>3, <1>4, <1>5, <1>6, <1>7, <1>8, <1>9, <1>10, <1>11
           DEF Next, BatchStep

--------------------------------------------------------------------------------
(* Copies of batches.                                                      *)

\* What copies and reports are measured against only grows.
HistoryGrows ==
    /\ sends <= sends'
    /\ \A s \in Started : sentFor'[s] = sentFor[s]
    /\ \A s \in Sends, r \in Recipients : okParts[s][r] <= okParts'[s][r]
    /\ cutShort \subseteq cutShort'

LEMMA HistoryUnchanged ==
    ASSUME TypeOK, UNCHANGED <<okParts, sentFor, sends>>, cutShort \subseteq cutShort'
    PROVE  HistoryGrows
BY DEF HistoryGrows, TypeOK

LEMMA HistoryGrowsStep ==
    ASSUME TypeOK, [Next]_vars
    PROVE  HistoryGrows
<1> USE DEF HistoryGrows, TypeOK
<1>1. ASSUME NEW t \in Threads, NEW divided \in BOOLEAN, SendAlert(t, divided)
      PROVE  HistoryGrows
  <2>1. /\ sends' = sends + 1 /\ UNCHANGED <<okParts, cutShort>>
        /\ sentFor' = [sentFor EXCEPT ![sends + 1] = thread[t].token]
    BY <1>1 DEF SendAlert
  <2>2. \A s \in Started : s # sends + 1
    BY DEF Started
  <2>3. \A s \in Started : sentFor'[s] = sentFor[s]
    BY <2>1, <2>2
  <2>4. \A s \in Sends, r \in Recipients : okParts[s][r] \in 0..Parts
    OBVIOUS
  <2>5. QED BY <2>1, <2>3, <2>4
<1>2. ASSUME NEW s \in Sends, NEW r \in Recipients, NEW ok \in BOOLEAN, OnSendResult(s, r, ok)
      PROVE  HistoryGrows
  <2>1. okParts[s][r] <= IF ok THEN okParts[s][r] + 1 ELSE okParts[s][r]
    OBVIOUS
  <2>2. okParts' = [okParts EXCEPT ![s][r] = IF ok THEN okParts[s][r] + 1 ELSE okParts[s][r]]
    BY <1>2 DEF OnSendResult
  <2>3. ASSUME NEW z \in Sends, NEW q \in Recipients
        PROVE  okParts[z][q] <= okParts'[z][q]
    <3>1. okParts[z][q] \in 0..Parts
      OBVIOUS
    <3>2. CASE z = s /\ q = r
      BY <2>1, <2>2, <3>2
    <3>3. CASE z # s
      <4>1. okParts'[z] = okParts[z]
        BY <2>2, <3>3
      <4>2. QED BY <3>1, <4>1
    <3>4. CASE z = s /\ q # r
      <4>1. okParts'[s] = [okParts[s] EXCEPT ![r] = IF ok THEN okParts[s][r] + 1 ELSE okParts[s][r]]
        BY <2>2
      <4>2. okParts'[s][q] = okParts[s][q]
        BY <3>4, <4>1
      <4>3. QED BY <3>1, <3>4, <4>2
    <3>5. QED BY <3>2, <3>3, <3>4
  <2>4. UNCHANGED <<sentFor, sends, cutShort>>
    BY <1>2 DEF OnSendResult
  <2>5. QED BY <2>3, <2>4
<1>3. ASSUME UNCHANGED <<okParts, sentFor, sends>>, cutShort \subseteq cutShort'
      PROVE  HistoryGrows
  BY <1>3, HistoryUnchanged
<1>4. ASSUME NEW t \in Threads, ThreadStep(t), \A divided \in BOOLEAN : ~SendAlert(t, divided)
      PROVE  UNCHANGED <<okParts, sentFor, sends>> /\ cutShort \subseteq cutShort'
  BY <1>4 DEF ThreadStep, PlanRecovery, FetchPendingItems, CheckDeferred, SendAborted, DispatchTo,
              RecordImmediateFailure, FinishDispatch, FinalizeIfComplete, Finalize, FinalizeBatch,
              RecoverBatch, history
<1>5. ASSUME NEW s \in Sends, OnWatchdog(s) \/ PostReceipt(s)
      PROVE  UNCHANGED <<okParts, sentFor, sends>> /\ cutShort \subseteq cutShort'
  BY <1>5 DEF OnWatchdog, PostReceipt, history
<1>6. ASSUME \/ Requeue \/ Resolve \/ TriggerAlert \/ ResumeOver \/ Crash
             \/ \E p \in posts : HandleDeviceReceipt(p) \/ ReceiveAnswer(p) \/ PostFails(p)
             \/ \E m \in late : HandleLateReceipt(m)
             \/ UNCHANGED vars
      PROVE  UNCHANGED <<okParts, sentFor, sends>> /\ cutShort \subseteq cutShort'
  BY <1>6 DEF Requeue, Resolve, TriggerAlert, ResumeOver, Crash, HandleDeviceReceipt, ReceiveAnswer,
              PostFails, HandleLateReceipt, vars, history
<1>7. QED BY <1>1, <1>2, <1>3, <1>4, <1>5, <1>6 DEF Next, BatchStep

LEMMA StartedGrows ==
    ASSUME TypeOK, TypeOK', HistoryGrows
    PROVE  Started \subseteq Started' /\ Started \subseteq Sends
<1>1. sends \in 0..MaxSends /\ sends' \in Nat /\ sends <= sends'
  BY DEF TypeOK, HistoryGrows
<1>2. QED BY <1>1 DEF Started

\* A copy that was right stays right.
LEMMA AgreementKept ==
    ASSUME TypeOK, TypeOK', HistoryGrows, NEW s \in Sends, NEW b \in Batch, Agrees(s, b)
    PROVE  Agrees(s, b)'
<1>1. \A r \in Recipients : /\ okParts[s][r] \in Nat /\ okParts'[s][r] \in Nat
                            /\ b.remaining[r] \in Nat
  BY DEF TypeOK, Batch
<1>2. s \in Started /\ sends \in Nat /\ sends' \in Nat
  BY DEF Agrees, TypeOK
<1>3. QED BY <1>1, <1>2 DEF Agrees, HistoryGrows, Started

\* A step that makes new copies only where they are right keeps all copies right.
LEMMA CopiesKeptIf ==
    ASSUME TypeOK, TypeOK', HistoryGrows, CopiesAgree,
           \A s \in Sends, b \in Batch : IsCopy(s, b)' => IsCopy(s, b) \/ Agrees(s, b)'
    PROVE  CopiesAgree'
<1> SUFFICES ASSUME NEW s \in Sends, NEW b \in Batch, IsCopy(s, b)'
             PROVE  Agrees(s, b)'
  BY DEF CopiesAgree
<1>1. CASE IsCopy(s, b)
  <2>1. Agrees(s, b)
    BY <1>1 DEF CopiesAgree
  <2>2. QED BY <2>1, AgreementKept
<1>2. QED BY <1>1

\* What one thread's step may add to the copies.
LEMMA OneThreadCopies ==
    ASSUME TypeOK, NEW t \in Threads, NEW x, thread' = [thread EXCEPT ![t] = x],
           NEW s \in Sends, NEW b \in Batch, IsCopy(s, b)'
    PROVE  b = batches'[s] \/ b = live'[s] \/ Holds(x, s, b) \/ IsCopy(s, b)
<1>1. ASSUME NEW u \in Threads, Holds(thread[u], s, b)'
      PROVE  Holds(x, s, b) \/ IsCopy(s, b)
  <2>1. CASE u = t
    BY <1>1, <2>1 DEF Holds, TypeOK
  <2>2. CASE u # t
    BY <1>1, <2>2 DEF Holds, TypeOK, IsCopy
  <2>3. QED BY <2>1, <2>2
<1>2. QED BY <1>1 DEF IsCopy

\* A step that touches neither the records nor the memory, and lets no thread take a
\* batch.
LEMMA NoCopyTaken ==
    ASSUME TypeOK, NEW t \in Threads, NEW x, thread' = [thread EXCEPT ![t] = x],
           x.at \notin {"handing", "recovering"}, UNCHANGED <<batches, live>>
    PROVE  \A s \in Sends, b \in Batch : IsCopy(s, b)' => IsCopy(s, b)
<1> SUFFICES ASSUME NEW s \in Sends, NEW b \in Batch, IsCopy(s, b)'
             PROVE  IsCopy(s, b)
  OBVIOUS
<1>1. b = batches'[s] \/ b = live'[s] \/ Holds(x, s, b) \/ IsCopy(s, b)
  BY OneThreadCopies
<1>2. QED BY <1>1 DEF Holds, IsCopy

\* A step that writes a new version of one batch into memory, and perhaps to disk.
LEMMA NewVersion ==
    ASSUME TypeOK, NEW t \in Threads, NEW x, thread' = [thread EXCEPT ![t] = x],
           x.at \notin {"handing", "recovering"},
           NEW z \in Sends, NEW n \in Batch, Agrees(z, n)',
           live' = [live EXCEPT ![z] = n],
           batches' = [batches EXCEPT ![z] = n] \/ UNCHANGED batches
    PROVE  \A s \in Sends, b \in Batch : IsCopy(s, b)' => IsCopy(s, b) \/ Agrees(s, b)'
<1> SUFFICES ASSUME NEW s \in Sends, NEW b \in Batch, IsCopy(s, b)'
             PROVE  IsCopy(s, b) \/ Agrees(s, b)'
  OBVIOUS
<1>1. b = batches'[s] \/ b = live'[s] \/ Holds(x, s, b) \/ IsCopy(s, b)
  BY OneThreadCopies
<1>2. ~Holds(x, s, b)
  BY DEF Holds
<1>3. /\ batches'[s] \in {batches[s], n} /\ live'[s] \in {live[s], n}
      /\ s # z => batches'[s] = batches[s] /\ live'[s] = live[s]
  BY DEF TypeOK, Slots
<1>4. CASE s = z /\ b = n
  BY <1>4
<1>5. CASE b = batches[s] \/ b = live[s]
  BY <1>5 DEF IsCopy
<1>6. QED BY <1>1, <1>2, <1>3, <1>4, <1>5

\* The new versions are right: a fresh roster, a failure, a radio result, a timeout.
LEMMA RosterAgrees ==
    ASSUME TypeOK, NEW t \in Threads, NEW divided \in BOOLEAN, SendAlert(t, divided),
           NEW s, s = sends + 1, NEW b, b = Roster(thread[t].token, divided)
    PROVE  Agrees(s, b)'
<1>1. thread[t].token \in Tokens /\ sends \in 0..MaxSends /\ s \in Sends
  BY ThreadShape DEF SendAlert, TypeOK
<1>2. /\ sends' = s /\ sentFor' = [sentFor EXCEPT ![s] = thread[t].token]
      /\ okParts' = okParts
  BY DEF SendAlert
<1>3. s \in Started' /\ sentFor'[s] = b.token
  BY <1>1, <1>2 DEF Started, TypeOK, Roster
<1>4. \A r \in Recipients \ b.failures : b.remaining[r] = Parts
  BY DEF Roster
<1>5. \A r \in Recipients : okParts'[s][r] \in 0..Parts
  BY <1>1, <1>2 DEF TypeOK
<1>6. QED BY <1>3, <1>4, <1>5 DEF Agrees

LEMMA FailureAgrees ==
    ASSUME NEW s \in Sends, NEW b \in Batch, NEW r \in Recipients, Agrees(s, b)
    PROVE  Agrees(s, FailedAtOnce(b, r))
<1> DEFINE n == FailedAtOnce(b, r)
<1>1. n.token = b.token /\ n.failures = b.failures \cup {r}
  BY DEF FailedAtOnce, Batch
<1>2. \A q \in Recipients \ {r} : n.remaining[q] = b.remaining[q]
  BY DEF FailedAtOnce, Batch
<1> HIDE DEF n
<1>3. \A q \in Recipients \ n.failures : q # r /\ q \notin b.failures
  BY <1>1
<1>4. \A q \in Recipients \ n.failures : okParts[s][q] + n.remaining[q] >= Parts
  BY <1>2, <1>3 DEF Agrees
<1>5. QED BY <1>1, <1>4 DEF Agrees, n

LEMMA TimeoutAgrees ==
    ASSUME NEW s \in Sends, NEW b \in Batch, Agrees(s, b)
    PROVE  Agrees(s, TimedOut(b))
<1> DEFINE n == TimedOut(b)
<1>1. n.token = b.token /\ \A q \in Recipients : n.remaining[q] = 0
  BY DEF TimedOut, Batch
<1>2. \A q \in Recipients \ n.failures : q \notin b.failures /\ b.remaining[q] = 0
  BY DEF TimedOut, Batch
<1> HIDE DEF n
<1>3. \A q \in Recipients \ n.failures : okParts[s][q] + n.remaining[q] >= Parts
  BY <1>1, <1>2 DEF Agrees
<1>4. QED BY <1>1, <1>3 DEF Agrees, n

LEMMA ResultAgrees ==
    ASSUME TypeOK, NEW s \in Sends, NEW b \in Batch, NEW r \in Recipients, NEW ok \in BOOLEAN,
           Agrees(s, b), OnSendResult(s, r, ok), NEW n, n = Counted(b, r, ok)
    PROVE  Agrees(s, n)'
<1>1. /\ n.token = b.token /\ n.failures = IF ok THEN b.failures ELSE b.failures \cup {r}
      /\ n.remaining[r] = IF b.remaining[r] = 0 THEN 0 ELSE b.remaining[r] - 1
  BY DEF Counted, Batch
<1>2. \A q \in Recipients \ {r} : n.remaining[q] = b.remaining[q]
  BY DEF Counted, Batch
<1>3. \A q \in Recipients : okParts[s][q] \in 0..Parts /\ b.remaining[q] \in 0..Parts
  <2>1. okParts[s] \in [Recipients -> 0..Parts]
    BY DEF TypeOK
  <2>2. b.remaining \in [Recipients -> 0..Parts]
    BY DEF Batch
  <2>3. QED BY <2>1, <2>2
<1>4. okParts'[s] = [okParts[s] EXCEPT ![r] = IF ok THEN @ + 1 ELSE @]
  BY DEF OnSendResult, TypeOK
<1>5. okParts'[s][r] = (IF ok THEN okParts[s][r] + 1 ELSE okParts[s][r])
  BY <1>4 DEF TypeOK
<1>6. \A q \in Recipients \ {r} : okParts'[s][q] = okParts[s][q]
  BY <1>4 DEF TypeOK
<1>7. \A q \in Recipients \ b.failures : okParts[s][q] + b.remaining[q] >= Parts
  BY DEF Agrees
<1>8. ASSUME NEW q \in Recipients \ n.failures
      PROVE  okParts'[s][q] + n.remaining[q] >= Parts
  <2>1. q \notin b.failures
    BY <1>1, <1>8
  <2>2. CASE q = r
    BY <1>1, <1>3, <1>5, <1>7, <1>8, <2>1, <2>2
  <2>3. CASE q # r
    BY <1>2, <1>6, <1>7, <2>1, <2>3
  <2>4. QED BY <2>2, <2>3
<1>9. s \in Started' /\ sentFor'[s] = n.token
  BY <1>1 DEF Agrees, OnSendResult, Started
<1>10. QED BY <1>8, <1>9 DEF Agrees

LEMMA CopiesKept ==
    ASSUME TypeOK, TypeOK', CopiesAgree, DispatchedOnce, [Next]_vars
    PROVE  CopiesAgree'
<1> DEFINE Fine == \A s \in Sends, b \in Batch : IsCopy(s, b)' => IsCopy(s, b) \/ Agrees(s, b)'
<1> SUFFICES Fine
  BY HistoryGrowsStep, CopiesKeptIf
<1>0. HistoryGrows
  BY HistoryGrowsStep
<1>1. ASSUME UNCHANGED <<batches, live, thread>>
      PROVE  Fine
  BY <1>1 DEF IsCopy
<1>2. ASSUME \/ Requeue \/ Resolve
             \/ \E p \in posts : HandleDeviceReceipt(p) \/ ReceiveAnswer(p) \/ PostFails(p)
             \/ \E m \in late : HandleLateReceipt(m)
             \/ \E s \in Sends : PostReceipt(s)
             \/ UNCHANGED vars
      PROVE  UNCHANGED <<batches, live, thread>>
  BY <1>2 DEF Requeue, Resolve, HandleDeviceReceipt, ReceiveAnswer, PostFails, HandleLateReceipt,
              PostReceipt, vars, memory, durable
<1>3. ASSUME Crash
      PROVE  Fine
  <2>1. UNCHANGED batches /\ live' = Empty /\ thread' = [t \in Threads |-> Idle]
    BY <1>3 DEF Crash, durable
  <2>2. \A s \in Sends, b \in Batch : b # live'[s]
    BY <2>1, NoneIsNothing DEF Empty
  <2>3. \A t \in Threads, s \in Sends, b \in Batch : ~Holds(thread[t], s, b)'
    BY <2>1 DEF Holds, Idle
  <2>4. QED BY <2>1, <2>2, <2>3 DEF IsCopy
<1>4. ASSUME TriggerAlert \/ ResumeOver
      PROVE  Fine
  <2>0. PICK t \in Threads : \E x : /\ thread' = [thread EXCEPT ![t] = x]
                                    /\ x.at \notin {"handing", "recovering"}
    BY <1>4, MainThreads DEF TriggerAlert, ResumeOver, Idle
  <2>1. PICK x : thread' = [thread EXCEPT ![t] = x] /\ x.at \notin {"handing", "recovering"}
    BY <2>0
  <2>2. UNCHANGED <<batches, live>>
    BY <1>4 DEF TriggerAlert, ResumeOver, durable
  <2>3. QED BY <2>1, <2>2, NoCopyTaken
<1>5. ASSUME NEW s \in Sends, NEW r \in Recipients, NEW ok \in BOOLEAN, OnSendResult(s, r, ok)
      PROVE  Fine
  <2>1. CASE UNCHANGED <<memory, batches>>
    BY <1>1, <2>1 DEF memory
  <2>2. CASE BatchOf(s) # None /\ live' = [live EXCEPT ![s] = Counted(BatchOf(s), r, ok)]
    <3> DEFINE x == [at |-> "checking", send |-> s]
    <3>1. PICK b : b = BatchOf(s)
      OBVIOUS
    <3>2. PICK n : n = Counted(b, r, ok)
      OBVIOUS
    <3>3. b \in Batch /\ IsCopy(s, b)
      BY <2>2, <3>1 DEF BatchOf, IsCopy, TypeOK, Slots
    <3>4. n \in Batch
      BY <3>2, <3>3, BatchForms
    <3>5. Agrees(s, n)'
      BY <1>5, <3>2, <3>3, ResultAgrees DEF CopiesAgree
    <3>6. live' = [live EXCEPT ![s] = n] /\ live'[s] = n
      BY <2>2, <3>1, <3>2 DEF TypeOK, Slots
    <3>7. thread' = [thread EXCEPT !["main"] = x] /\ PersistBatch(s)
      BY <1>5, <2>2 DEF OnSendResult
    <3>8. batches' = [batches EXCEPT ![s] = n] \/ UNCHANGED batches
      BY <3>6, <3>7 DEF PersistBatch
    <3>9. x.at \notin {"handing", "recovering"}
      OBVIOUS
    <3> HIDE DEF x
    <3>10. QED BY <3>4, <3>5, <3>6, <3>7, <3>8, <3>9, NewVersion, MainThreads
  <2>3. QED BY <1>5, <2>1, <2>2 DEF OnSendResult
<1>6. ASSUME NEW s \in Sends, OnWatchdog(s)
      PROVE  Fine
  <2> DEFINE x == [at |-> "checking", send |-> s]
  <2>1. PICK b : b = live[s]
    OBVIOUS
  <2>2. PICK n : n = TimedOut(b)
    OBVIOUS
  <2>3. b \in Batch /\ IsCopy(s, b)
    BY <1>6, <2>1 DEF OnWatchdog, IsCopy, TypeOK, Slots
  <2>4. n \in Batch
    BY <2>2, <2>3, TimedOutForm
  <2>5. Agrees(s, b) /\ Agrees(s, n)
    BY <2>2, <2>3, TimeoutAgrees DEF CopiesAgree
  <2>6. Agrees(s, n)'
    BY <1>0, <2>4, <2>5, AgreementKept
  <2>7. live' = [live EXCEPT ![s] = n] /\ live'[s] = n
    BY <1>6, <2>1, <2>2 DEF OnWatchdog, TypeOK, Slots
  <2>8. thread' = [thread EXCEPT !["main"] = x] /\ PersistBatch(s)
    BY <1>6 DEF OnWatchdog
  <2>9. batches' = [batches EXCEPT ![s] = n] \/ UNCHANGED batches
    BY <2>7, <2>8 DEF PersistBatch
  <2>10. x.at \notin {"handing", "recovering"}
    OBVIOUS
  <2> HIDE DEF x
  <2>11. QED BY <2>4, <2>6, <2>7, <2>8, <2>9, <2>10, NewVersion, MainThreads
<1>7. ASSUME NEW t \in Threads, ThreadStep(t)
      PROVE  Fine
  <2>1. ASSUME FetchPendingItems(t) \/ CheckDeferred(t) \/ SendAborted(t) \/ FinishDispatch(t)
               \/ FinalizeIfComplete(t) \/ \E r \in Recipients : DispatchTo(t, r)
        PROVE  Fine
    <3>1. UNCHANGED <<batches, live>>
      BY <2>1 DEF FetchPendingItems, CheckDeferred, SendAborted, FinishDispatch, FinalizeIfComplete,
                  DispatchTo, durable
    <3>2. PICK x : thread' = [thread EXCEPT ![t] = x] /\ x.at \notin {"handing", "recovering"}
      <4> DEFINE list == IF item = "QUEUED" /\ ~resolved THEN [at |-> "listed", token |-> token]
                         ELSE Idle
                 check == [at |-> "checking", send |-> thread[t].send]
                 final == [at |-> "finalizing", send |-> thread[t].send]
      <4>0. {list.at, check.at, final.at, Idle.at}
               \subseteq {"listed", "checking", "finalizing", "idle"}
        BY DEF Idle
      <4>1. CASE FetchPendingItems(t) \/ SendAborted(t) \/ FinishDispatch(t) \/ FinalizeIfComplete(t)
        <5>1. \/ thread' = [thread EXCEPT ![t] = list] \/ thread' = [thread EXCEPT ![t] = check]
              \/ thread' = [thread EXCEPT ![t] = Idle] \/ thread' = [thread EXCEPT ![t] = final]
          BY <4>1 DEF FetchPendingItems, SendAborted, FinishDispatch, FinalizeIfComplete
        <5> HIDE DEF list, check, final
        <5>2. QED BY <4>0, <5>1
      <4>2. CASE CheckDeferred(t)
        <5>1. [thread[t] EXCEPT !.at = "cleared"].at = "cleared"
          BY <4>2 DEF CheckDeferred, TypeOK, Thread, Idle
        <5>2. \/ thread' = [thread EXCEPT ![t] = [thread[t] EXCEPT !.at = "cleared"]]
              \/ thread' = [thread EXCEPT ![t] = Idle]
          BY <4>2 DEF CheckDeferred
        <5>3. QED BY <4>0, <5>1, <5>2
      <4>3. CASE \E r \in Recipients : DispatchTo(t, r)
        <5>1. PICK r \in Recipients : DispatchTo(t, r)
          BY <4>3
        <5>2. thread' = [thread EXCEPT ![t] = [thread[t] EXCEPT !.todo = @ \ {r}]]
          BY <5>1 DEF DispatchTo
        <5>3. [thread[t] EXCEPT !.todo = @ \ {r}].at = "dispatching"
          BY <5>1 DEF DispatchTo, TypeOK, Thread, Idle
        <5>4. QED BY <5>2, <5>3
      <4>4. QED BY <2>1, <4>1, <4>2, <4>3
    <3>3. QED BY <3>1, <3>2, NoCopyTaken
  <2>2. ASSUME NEW divided \in BOOLEAN, SendAlert(t, divided)
        PROVE  Fine
    <3>1. PICK s : s = sends + 1
      OBVIOUS
    <3>2. PICK n : n = Roster(thread[t].token, divided)
      OBVIOUS
    <3>3. s \in Sends /\ n \in Batch
      BY <2>2, <3>1, <3>2, ThreadShape, RosterForm DEF SendAlert
    <3>4. Agrees(s, n)'
      BY <2>2, <3>1, <3>2, RosterAgrees
    <3>5. live' = [live EXCEPT ![s] = n] /\ batches' = [batches EXCEPT ![s] = n]
      BY <2>2, <3>1, <3>2 DEF SendAlert
    <3>6. PICK x : thread' = [thread EXCEPT ![t] = x] /\ x.at = "dispatching"
      <4> DEFINE y == [at |-> "dispatching", send |-> sends + 1, todo |-> IF divided THEN Recipients ELSE {}]
      <4>1. thread' = [thread EXCEPT ![t] = y] /\ y.at = "dispatching"
        BY <2>2 DEF SendAlert
      <4> HIDE DEF y
      <4>2. QED BY <4>1
    <3>7. QED BY <3>3, <3>4, <3>5, <3>6, NewVersion
  <2>3. ASSUME NEW r \in Recipients, RecordImmediateFailure(t, r)
        PROVE  Fine
    <3>1. PICK s : s = thread[t].send
      OBVIOUS
    <3>2. PICK b : b = live[s]
      OBVIOUS
    <3>3. PICK n : n = FailedAtOnce(b, r)
      OBVIOUS
    <3>4. s \in Sends
      BY <2>3, <3>1, ThreadShape DEF RecordImmediateFailure
    <3>5. b # None
      BY <2>3, <3>1, <3>2 DEF RecordImmediateFailure, DispatchedOnce, LoopsApart
    <3>6. b \in Batch /\ IsCopy(s, b)
      BY <3>2, <3>4, <3>5 DEF IsCopy, TypeOK, Slots
    <3>7. n \in Batch
      BY <3>3, <3>6, BatchForms
    <3>8. Agrees(s, b) /\ Agrees(s, n)
      BY <3>3, <3>4, <3>6, FailureAgrees DEF CopiesAgree
    <3>9. Agrees(s, n)'
      BY <1>0, <3>4, <3>7, <3>8, AgreementKept
    <3>10. live' = [live EXCEPT ![s] = n] /\ live'[s] = n
      BY <2>3, <3>1, <3>2, <3>3, <3>4 DEF RecordImmediateFailure, TypeOK, Slots
    <3>11. PersistBatch(s)
      BY <2>3, <3>1 DEF RecordImmediateFailure
    <3>12. batches' = [batches EXCEPT ![s] = n] \/ UNCHANGED batches
      BY <3>10, <3>11 DEF PersistBatch
    <3>13. PICK x : thread' = [thread EXCEPT ![t] = x] /\ x.at = "dispatching"
      <4>1. thread' = [thread EXCEPT ![t] = [thread[t] EXCEPT !.todo = @ \ {r}]]
        BY <2>3 DEF RecordImmediateFailure
      <4>2. [thread[t] EXCEPT !.todo = @ \ {r}].at = "dispatching"
        BY <2>3 DEF RecordImmediateFailure, TypeOK, Thread, Idle
      <4>3. QED BY <4>1, <4>2
    <3>14. QED BY <3>4, <3>7, <3>9, <3>10, <3>12, <3>13, NewVersion
  <2>4. ASSUME Finalize(t)
        PROVE  Fine
    <3>1. PICK z : z = thread[t].send
      OBVIOUS
    <3>2. z \in Sends
      BY <2>4, <3>1, ThreadShape DEF Finalize
    <3>3. CASE thread' = [thread EXCEPT ![t] = [at |-> "handing", send |-> z, batch |-> live[z]]]
      <4>1. live' = [live EXCEPT ![z] = None]
        BY <2>4, <3>1 DEF Finalize
      <4>2. UNCHANGED batches
        BY <2>4 DEF Finalize, durable
      <4>3. SUFFICES ASSUME NEW s \in Sends, NEW b \in Batch, IsCopy(s, b)'
                     PROVE  IsCopy(s, b)
        OBVIOUS
      <4>4. PICK x : x = [at |-> "handing", send |-> z, batch |-> live[z]]
        OBVIOUS
      <4>5. b = batches'[s] \/ b = live'[s] \/ Holds(x, s, b) \/ IsCopy(s, b)
        BY <3>3, <4>3, <4>4, OneThreadCopies
      <4>6. Holds(x, s, b) => b = live[s]
        BY <4>4 DEF Holds
      <4>7. b = live'[s] => b = live[s]
        BY <4>1, NoneIsNothing DEF TypeOK, Slots
      <4>8. QED BY <4>2, <4>5, <4>6, <4>7 DEF IsCopy
    <3>4. CASE thread' = [thread EXCEPT ![t] = Idle] /\ live[z] = None
      <4>1. live' = live
        BY <2>4, <3>1, <3>4 DEF Finalize, TypeOK, Slots
      <4>2. QED BY <2>4, <3>4, <4>1, NoCopyTaken DEF Finalize, durable, Idle
    <3>5. QED BY <2>4, <3>1, <3>3, <3>4 DEF Finalize
  <2>5. ASSUME FinalizeBatch(t)
        PROVE  Fine
    <3>1. SUFFICES ASSUME NEW s \in Sends, NEW b \in Batch, IsCopy(s, b)'
                   PROVE  IsCopy(s, b)
      OBVIOUS
    <3>2. thread' = [thread EXCEPT ![t] = Idle] /\ UNCHANGED live
      BY <2>5 DEF FinalizeBatch
    <3>3. ~Holds(Idle, s, b)
      BY DEF Holds, Idle
    <3>4. b = batches'[s] => b = batches[s]
      BY <2>5, NoneIsNothing DEF FinalizeBatch, durable, TypeOK, Slots
    <3>5. QED BY <3>1, <3>2, <3>3, <3>4, OneThreadCopies DEF IsCopy
  <2>6. ASSUME PlanRecovery(t)
        PROVE  Fine
    <3>1. SUFFICES ASSUME NEW s \in Sends, NEW b \in Batch, IsCopy(s, b)'
                   PROVE  IsCopy(s, b)
      OBVIOUS
    <3>2. PICK kept : /\ batches' = kept /\ \A z \in Sends : kept[z] \in {batches[z], None}
                      /\ thread' = [thread EXCEPT ![t] = [at |-> "recovering", plan |-> kept]]
      BY <2>6 DEF PlanRecovery
    <3>3. UNCHANGED live
      BY <2>6 DEF PlanRecovery
    <3>4. PICK x : x = [at |-> "recovering", plan |-> kept]
      OBVIOUS
    <3>5. b = batches'[s] \/ b = live'[s] \/ Holds(x, s, b) \/ IsCopy(s, b)
      BY <3>1, <3>2, <3>4, OneThreadCopies
    <3>6. b = kept[s] => b = batches[s]
      BY <3>2, NoneIsNothing
    <3>7. Holds(x, s, b) => b = kept[s]
      BY <3>4 DEF Holds
    <3>8. QED BY <3>2, <3>3, <3>5, <3>6, <3>7 DEF IsCopy
  <2>7. ASSUME NEW z \in Sends, RecoverBatch(t, z)
        PROVE  Fine
    <3>1. SUFFICES ASSUME NEW s \in Sends, NEW b \in Batch, IsCopy(s, b)'
                   PROVE  IsCopy(s, b)
      OBVIOUS
    <3>2. PICK x : x = [thread[t] EXCEPT !.plan[z] = None]
      OBVIOUS
    <3>3. thread' = [thread EXCEPT ![t] = x]
      BY <2>7, <3>2 DEF RecoverBatch
    <3>4. b = batches'[s] \/ b = live'[s] \/ Holds(x, s, b) \/ IsCopy(s, b)
      BY <3>1, <3>3, OneThreadCopies
    <3>5. thread[t].at = "recovering" /\ thread[t].plan \in Slots(Batch)
      BY <2>7, ThreadShape DEF RecoverBatch
    <3>6. thread[t] \in [at : {"recovering"}, plan : Slots(Batch)]
      <4>1. thread[t].at = "recovering" /\ thread[t] \in Thread
        BY <3>5 DEF TypeOK
      <4>2. QED BY <4>1 DEF Thread, Idle
    <3>7. x.at = "recovering" /\ x.plan[s] \in {thread[t].plan[s], None}
      BY <3>2, <3>6 DEF Slots
    <3>8. Holds(x, s, b) => Holds(thread[t], s, b)
      BY <3>5, <3>7, NoneIsNothing DEF Holds
    <3>9. b = live'[s] => b = live[s] \/ Holds(thread[t], s, b)
      BY <2>7, <3>5 DEF RecoverBatch, Holds, TypeOK, Slots
    <3>10. UNCHANGED batches
      BY <2>7 DEF RecoverBatch, durable
    <3>11. QED BY <3>4, <3>8, <3>9, <3>10 DEF IsCopy
  <2>8. QED BY <1>7, <2>1, <2>2, <2>3, <2>4, <2>5, <2>6, <2>7 DEF ThreadStep
<1>8. QED BY <1>1, <1>2, <1>3, <1>4, <1>5, <1>6, <1>7 DEF Next, BatchStep

--------------------------------------------------------------------------------
(* Reports.                                                                *)

LEMMA ReportStaysTrue ==
    ASSUME TypeOK, TypeOK', HistoryGrows, NEW s \in Sends, NEW report, ReportIsTrue(s, report)
    PROVE  ReportIsTrue(s, report)'
<1>1. \A r \in Recipients : okParts[s][r] \in 0..Parts /\ okParts'[s][r] \in 0..Parts
  BY DEF TypeOK
<1>2. \A r \in Recipients : okParts[s][r] <= okParts'[s][r]
  BY DEF HistoryGrows
<1>3. Vouched(s) => Vouched(s)'
  BY <1>1, <1>2 DEF ReachedAll, Vouched, HistoryGrows
<1>4. s \in Started' /\ sentFor'[s] = sentFor[s]
  BY DEF ReportIsTrue, HistoryGrows, Started, TypeOK
<1>5. QED BY <1>3, <1>4 DEF ReportIsTrue

\* finalizeBatch writes the truth: a batch with nothing owed and nothing failed
\* reached everybody, and one with something owed was cut short.
LEMMA FinalReportIsTrue ==
    ASSUME TypeOK, CopiesAgree, HandedIsOver, DispatchedOnce, NEW t \in Threads,
           thread[t].at = "handing"
    PROVE  ReportIsTrue(thread[t].send, [token |-> thread[t].batch.token,
                                         failures |-> thread[t].batch.failures])
<1> DEFINE s == thread[t].send
           b == thread[t].batch
<1>1. s \in Sends /\ b \in Batch
  BY ThreadShape
<1>2. Agrees(s, b)
  BY <1>1 DEF CopiesAgree, IsCopy, Holds
<1>3. ASSUME b.failures = {}, AllOver(b), NEW r \in Recipients
      PROVE  okParts[s][r] = Parts
  <2>1. b.remaining[r] = 0
    BY <1>3 DEF AllOver
  <2>2. okParts[s][r] + b.remaining[r] >= Parts
    BY <1>2, <1>3 DEF Agrees
  <2>3. okParts[s][r] \in 0..Parts
    BY <1>1 DEF TypeOK
  <2>4. QED BY <2>1, <2>2, <2>3
<1>4. b.failures = {} => Vouched(s)
  BY <1>3 DEF HandedIsOver, Vouched, ReachedAll
<1>5. QED BY <1>2, <1>4 DEF ReportIsTrue, Agrees

LEMMA ReportsKept ==
    ASSUME TypeOK, TypeOK', CopiesAgree, HandedIsOver, DispatchedOnce, ReportsAreTrue,
           [Next]_vars
    PROVE  ReportsAreTrue'
<1>0. HistoryGrows
  BY HistoryGrowsStep
<1>1. \A m \in Messages : m.send \in Sends
  BY DEF Messages, TypeOK, Post, Message
<1>2. ASSUME UNCHANGED receipts, Messages' \subseteq Messages
      PROVE  ReportsAreTrue'
  BY <1>0, <1>1, <1>2, ReportStaysTrue DEF ReportsAreTrue
<1>3. ASSUME NEW t \in Threads, FinalizeBatch(t), ~UNCHANGED durable
      PROVE  ReportsAreTrue'
  <2> DEFINE n == [token |-> thread[t].batch.token, failures |-> thread[t].batch.failures]
  <2>1. PICK s : s = thread[t].send
    OBVIOUS
  <2>2. PICK report : report = n
    OBVIOUS
  <2>3. s \in Sends
    BY <1>3, <2>1, ThreadShape DEF FinalizeBatch
  <2>4. ReportIsTrue(s, report)'
    BY <1>0, <1>3, <2>1, <2>2, <2>3, FinalReportIsTrue, ReportStaysTrue DEF FinalizeBatch
  <2>5. receipts' = [receipts EXCEPT ![s] = report]
    BY <1>3, <2>1, <2>2 DEF FinalizeBatch
  <2>6. Messages' = Messages
    BY <1>3 DEF FinalizeBatch, network, Messages
  <2> HIDE DEF n
  <2>7. \A z \in Sends : receipts'[z] # None => ReportIsTrue(z, receipts[z])'
    <3> SUFFICES ASSUME NEW z \in Sends, receipts'[z] # None
                 PROVE  ReportIsTrue(z, receipts[z])'
      OBVIOUS
    <3>1. CASE z = s
      BY <2>4, <2>5, <3>1 DEF TypeOK, Slots
    <3>2. CASE z # s
      <4>1. receipts'[z] = receipts[z]
        BY <2>5, <3>2 DEF TypeOK, Slots
      <4>2. ReportIsTrue(z, receipts[z])
        BY <4>1 DEF ReportsAreTrue
      <4>3. PICK c : c = receipts[z]
        OBVIOUS
      <4>4. ReportIsTrue(z, c)'
        BY <1>0, <4>2, <4>3, ReportStaysTrue
      <4>5. QED BY <4>1, <4>3, <4>4
    <3>3. QED BY <3>1, <3>2
  <2>8. \A m \in Messages' : ReportIsTrue(m.send, m.report)'
    BY <1>0, <1>1, <2>6, ReportStaysTrue DEF ReportsAreTrue
  <2>9. QED BY <2>7, <2>8 DEF ReportsAreTrue
<1>4. ASSUME NEW p \in posts, ReceiveAnswer(p)
      PROVE  ReportsAreTrue'
  <2>1. \A s \in Sends : receipts'[s] \in {receipts[s], None}
    BY <1>4 DEF ReceiveAnswer, TypeOK, Slots
  <2>2. Messages' \subseteq Messages
    BY <1>4 DEF ReceiveAnswer, Messages
  <2>3. ASSUME NEW s \in Sends, receipts'[s] # None
        PROVE  ReportIsTrue(s, receipts[s])'
    <3>1. PICK c : c = receipts[s]
      OBVIOUS
    <3>2. receipts'[s] = c /\ ReportIsTrue(s, c)
      BY <2>1, <2>3, <3>1 DEF ReportsAreTrue
    <3>3. QED BY <1>0, <3>2, ReportStaysTrue
  <2>4. QED BY <1>0, <1>1, <2>2, <2>3, ReportStaysTrue DEF ReportsAreTrue
<1>5. ASSUME NEW s \in Sends, PostReceipt(s)
      PROVE  ReportsAreTrue'
  <2>1. PICK c : c = receipts[s]
    OBVIOUS
  <2>2. ReportIsTrue(s, c)
    BY <1>5, <2>1 DEF PostReceipt, ReportsAreTrue
  <2>3. Messages' \subseteq Messages \cup {[send |-> s, report |-> c]}
    BY <1>5, <2>1 DEF PostReceipt, Messages
  <2>4. UNCHANGED receipts
    BY <1>5 DEF PostReceipt, durable
  <2>5. \A m \in Messages' : m.send \in Sends /\ ReportIsTrue(m.send, m.report)
    BY <1>1, <2>2, <2>3 DEF ReportsAreTrue
  <2>6. QED BY <1>0, <2>4, <2>5, ReportStaysTrue DEF ReportsAreTrue
<1>6. ASSUME NEW p \in posts, HandleDeviceReceipt(p) \/ PostFails(p)
      PROVE  UNCHANGED receipts /\ Messages' \subseteq Messages
  <2>1. UNCHANGED receipts
    BY <1>6 DEF HandleDeviceReceipt, PostFails, durable
  <2>2. CASE PostFails(p)
    <3>1. posts' \subseteq posts /\ late' \subseteq late \cup Awaited({p})
      BY <2>2 DEF PostFails
    <3>2. Awaited({p}) \subseteq Messages
      BY DEF Awaited, Messages
    <3>3. QED BY <2>1, <3>1, <3>2 DEF Messages
  <2>3. CASE HandleDeviceReceipt(p)
    <3> DEFINE q == [p EXCEPT !.answer = Verdict(p.message.report)[2]]
    <3>1. q.message = p.message
      BY DEF TypeOK, Post
    <3>2. posts' = (posts \ {p}) \cup {q} /\ late' = late
      BY <2>3 DEF HandleDeviceReceipt
    <3> HIDE DEF q
    <3>3. QED BY <2>1, <3>1, <3>2 DEF Messages
  <2>4. QED BY <1>6, <2>2, <2>3
<1>7. ASSUME \/ \E m \in late : HandleLateReceipt(m)
             \/ Crash
      PROVE  UNCHANGED receipts /\ Messages' \subseteq Messages
  BY <1>7 DEF HandleLateReceipt, Crash, durable, Messages, Awaited
<1>8. ASSUME \/ Requeue \/ Resolve \/ TriggerAlert \/ ResumeOver
             \/ \E s \in Sends : OnWatchdog(s)
             \/ \E s \in Sends, r \in Recipients, ok \in BOOLEAN : OnSendResult(s, r, ok)
             \/ UNCHANGED vars
      PROVE  UNCHANGED <<receipts, network>>
  BY <1>8 DEF Requeue, Resolve, TriggerAlert, ResumeOver, OnWatchdog, OnSendResult, vars, durable
<1>9. ASSUME NEW t \in Threads, ThreadStep(t), ~FinalizeBatch(t)
      PROVE  UNCHANGED <<receipts, network>>
  BY <1>9 DEF ThreadStep, PlanRecovery, FetchPendingItems, CheckDeferred, SendAlert, SendAborted,
              DispatchTo, RecordImmediateFailure, FinishDispatch, FinalizeIfComplete, Finalize,
              RecoverBatch, durable
<1>10. ASSUME NEW t \in Threads, FinalizeBatch(t), UNCHANGED durable
       PROVE  UNCHANGED <<receipts, network>>
  BY <1>10 DEF FinalizeBatch, durable
<1>11. ASSUME UNCHANGED <<receipts, network>>
       PROVE  ReportsAreTrue'
  BY <1>2, <1>11 DEF Messages, network
<1>12. QED BY <1>2, <1>3, <1>4, <1>5, <1>6, <1>7, <1>8, <1>9, <1>10, <1>11 DEF Next, BatchStep

--------------------------------------------------------------------------------
(* Dispatch loops.                                                         *)

LEMMA HandedKept ==
    ASSUME TypeOK, HandedIsOver, [Next]_vars
    PROVE  HandedIsOver'
<1> USE DEF HandedIsOver
<1>0. cutShort \subseteq cutShort'
  BY HistoryGrowsStep DEF HistoryGrows
<1>1. ASSUME NEW t \in Threads, NEW x, thread' = [thread EXCEPT ![t] = x],
             x.at = "handing" => AllOver(x.batch) \/ x.send \in cutShort'
      PROVE  HandedIsOver'
  BY <1>0, <1>1 DEF TypeOK, AllOver
<1>2. ASSUME NEW t \in Threads, NEW x, thread' = [thread EXCEPT ![t] = x], x.at # "handing"
      PROVE  HandedIsOver'
  BY <1>1, <1>2
<1>3. ASSUME UNCHANGED thread
      PROVE  HandedIsOver'
  BY <1>0, <1>3 DEF AllOver
<1>4. ASSUME Crash
      PROVE  HandedIsOver'
  BY <1>4 DEF Crash, Idle
<1>5. ASSUME \/ Requeue \/ Resolve
             \/ \E p \in posts : HandleDeviceReceipt(p) \/ ReceiveAnswer(p) \/ PostFails(p)
             \/ \E m \in late : HandleLateReceipt(m)
             \/ \E s \in Sends : PostReceipt(s)
             \/ UNCHANGED vars
      PROVE  UNCHANGED thread
  BY <1>5 DEF Requeue, Resolve, HandleDeviceReceipt, ReceiveAnswer, PostFails, HandleLateReceipt,
              PostReceipt, vars, memory
<1>6. ASSUME TriggerAlert \/ ResumeOver
      PROVE  HandedIsOver'
  BY <1>2, <1>6, MainThreads DEF TriggerAlert, ResumeOver, Idle
<1>7. ASSUME NEW s \in Sends, \/ \E r \in Recipients, ok \in BOOLEAN : OnSendResult(s, r, ok)
                              \/ OnWatchdog(s)
      PROVE  HandedIsOver'
  <2>1. UNCHANGED thread \/ thread' = [thread EXCEPT !["main"] = [at |-> "checking", send |-> s]]
    BY <1>7 DEF OnSendResult, OnWatchdog, memory
  <2>2. [at |-> "checking", send |-> s].at # "handing"
    OBVIOUS
  <2>3. QED BY <1>2, <1>3, <2>1, <2>2, MainThreads
<1>8. ASSUME NEW t \in Threads, ThreadStep(t)
      PROVE  HandedIsOver'
  <2>1. CASE PlanRecovery(t) \/ FetchPendingItems(t) \/ SendAborted(t) \/ FinishDispatch(t)
             \/ FinalizeBatch(t) \/ FinalizeIfComplete(t)
             \/ \E divided \in BOOLEAN : SendAlert(t, divided)
    <3>1. /\ thread' = [thread EXCEPT ![t] = thread'[t]]
          /\ thread'[t].at # "handing"
      BY <2>1 DEF PlanRecovery, FetchPendingItems, SendAborted, FinishDispatch, FinalizeBatch,
                  FinalizeIfComplete, SendAlert, Idle, TypeOK
    <3>2. PICK x : x = thread'[t]
      OBVIOUS
    <3>3. QED BY <1>2, <3>1, <3>2
  <2>2. CASE CheckDeferred(t)
    <3>1. [thread[t] EXCEPT !.at = "cleared"].at = "cleared"
      BY <2>2 DEF CheckDeferred, TypeOK, Thread, Idle
    <3>2. PICK x : x = [thread[t] EXCEPT !.at = "cleared"]
      OBVIOUS
    <3>3. thread' = [thread EXCEPT ![t] = x] \/ thread' = [thread EXCEPT ![t] = Idle]
      BY <2>2, <3>2 DEF CheckDeferred
    <3>4. x.at # "handing" /\ Idle.at # "handing"
      BY <3>1, <3>2 DEF Idle
    <3>5. QED BY <1>2, <3>3, <3>4
  <2>3. CASE \E r \in Recipients : DispatchTo(t, r) \/ RecordImmediateFailure(t, r)
    <3>1. PICK r \in Recipients : DispatchTo(t, r) \/ RecordImmediateFailure(t, r)
      BY <2>3
    <3>2. thread' = [thread EXCEPT ![t] = [thread[t] EXCEPT !.todo = @ \ {r}]]
      BY <3>1 DEF DispatchTo, RecordImmediateFailure
    <3>3. [thread[t] EXCEPT !.todo = @ \ {r}].at = "dispatching"
      BY <3>1 DEF DispatchTo, RecordImmediateFailure, TypeOK, Thread, Idle
    <3>4. QED BY <1>2, <3>2, <3>3
  <2>4. CASE \E s \in Sends : RecoverBatch(t, s)
    <3>1. PICK s \in Sends : RecoverBatch(t, s)
      BY <2>4
    <3>2. thread' = [thread EXCEPT ![t] = [thread[t] EXCEPT !.plan[s] = None]]
      BY <3>1 DEF RecoverBatch
    <3>3. [thread[t] EXCEPT !.plan[s] = None].at = "recovering"
      BY <3>1 DEF RecoverBatch, TypeOK, Thread, Idle
    <3>4. QED BY <1>2, <3>2, <3>3
  <2>5. CASE Finalize(t)
    <3>1. PICK s : s = thread[t].send
      OBVIOUS
    <3>2. PICK x : x = [at |-> "handing", send |-> s, batch |-> live[s]]
      OBVIOUS
    <3>3. \/ thread' = [thread EXCEPT ![t] = Idle]
          \/ live[s] # None /\ thread' = [thread EXCEPT ![t] = x]
      BY <2>5, <3>1, <3>2 DEF Finalize
    <3>4. live[s] # None => AllOver(live[s]) \/ s \in cutShort'
      BY <2>5, <3>1 DEF Finalize
    <3>5. live[s] # None => AllOver(x.batch) \/ x.send \in cutShort'
      BY <3>2, <3>4
    <3>6. QED BY <1>1, <1>2, <3>3, <3>5 DEF Idle
  <2>6. QED BY <1>8, <2>1, <2>2, <2>3, <2>4, <2>5 DEF ThreadStep
<1>9. QED BY <1>3, <1>4, <1>5, <1>6, <1>7, <1>8 DEF Next, BatchStep

\* A radio result, and a hand-over to the radio, concern one recipient of one send.
LEMMA ResultElsewhere ==
    ASSUME TypeOK, NEW s \in Sends, NEW r \in Recipients, NEW ok, OnSendResult(s, r, ok),
           NEW z \in Sends, NEW q \in Recipients, z # s \/ q # r
    PROVE  radio'[z][q] = radio[z][q] /\ okParts'[z][q] = okParts[z][q]
<1>1. /\ radio' = [radio EXCEPT ![s][r] = radio[s][r] - 1]
      /\ okParts' = [okParts EXCEPT ![s][r] = IF ok THEN okParts[s][r] + 1 ELSE okParts[s][r]]
  BY DEF OnSendResult
<1>2. CASE z # s
  <2>1. radio'[z] = radio[z] /\ okParts'[z] = okParts[z]
    BY <1>1, <1>2 DEF TypeOK
  <2>2. QED BY <2>1
<1>3. CASE z = s /\ q # r
  <2>1. /\ radio'[s] = [radio[s] EXCEPT ![r] = radio[s][r] - 1]
        /\ okParts'[s] = [okParts[s] EXCEPT ![r] = IF ok THEN okParts[s][r] + 1 ELSE okParts[s][r]]
    BY <1>1 DEF TypeOK
  <2>2. QED BY <1>3, <2>1 DEF TypeOK
<1>4. QED BY <1>2, <1>3

LEMMA DispatchElsewhere ==
    ASSUME TypeOK, NEW t \in Threads, NEW r \in Recipients, DispatchTo(t, r),
           NEW z \in Sends, NEW q \in Recipients, z # thread[t].send \/ q # r
    PROVE  radio'[z][q] = radio[z][q] /\ okParts'[z][q] = okParts[z][q]
<1>1. radio' = [radio EXCEPT ![thread[t].send][r] = Parts] /\ UNCHANGED okParts
  BY DEF DispatchTo, history
<1>2. thread[t].send \in Sends
  BY ThreadShape DEF DispatchTo
<1>3. CASE z # thread[t].send
  <2>1. radio'[z] = radio[z]
    BY <1>1, <1>3 DEF TypeOK
  <2>2. QED BY <1>1, <2>1
<1>4. CASE z = thread[t].send /\ q # r
  <2>1. radio'[z] = [radio[z] EXCEPT ![r] = Parts]
    BY <1>1, <1>2, <1>4 DEF TypeOK
  <2>2. QED BY <1>1, <1>4, <2>1 DEF TypeOK
<1>5. QED BY <1>3, <1>4

LEMMA PartsCountedKept ==
    ASSUME TypeOK, TypeOK', DispatchedOnce, [Next]_vars
    PROVE  PartsCounted'
<1> USE DEF DispatchedOnce
<1>0. PartsCounted /\ LoopsApart /\ HistoryGrows
  BY HistoryGrowsStep
<1>1. ASSUME UNCHANGED <<radio, okParts>>
      PROVE  PartsCounted'
  <2>1. \A s \in Sends : s \notin Started' => s \notin Started
    BY <1>0, StartedGrows
  <2>2. QED BY <1>0, <1>1, <2>1 DEF PartsCounted
<1>2. ASSUME NEW s \in Sends, NEW r \in Recipients, NEW ok \in BOOLEAN, OnSendResult(s, r, ok)
      PROVE  PartsCounted'
  <2>1. /\ radio[s][r] \in 0..Parts /\ okParts[s][r] \in 0..Parts /\ radio[s][r] > 0
        /\ okParts[s][r] + radio[s][r] <= Parts /\ s \in Started
    BY <1>2 DEF OnSendResult, PartsCounted, TypeOK
  <2>2. /\ radio' = [radio EXCEPT ![s][r] = radio[s][r] - 1]
        /\ okParts' = [okParts EXCEPT ![s][r] = IF ok THEN okParts[s][r] + 1 ELSE okParts[s][r]]
        /\ Started' = Started
    BY <1>2 DEF OnSendResult, Started
  <2>3. okParts'[s][r] + radio'[s][r] <= Parts
    <3>1. radio'[s][r] = radio[s][r] - 1
      BY <2>2 DEF TypeOK
    <3>2. okParts'[s][r] = IF ok THEN okParts[s][r] + 1 ELSE okParts[s][r]
      BY <2>2 DEF TypeOK
    <3>3. QED BY <2>1, <3>1, <3>2
  <2>4. \A z \in Sends, q \in Recipients : z # s \/ q # r =>
            radio'[z][q] = radio[z][q] /\ okParts'[z][q] = okParts[z][q]
    BY <1>2, ResultElsewhere
  <2>5. QED BY <1>0, <2>1, <2>2, <2>3, <2>4 DEF PartsCounted
<1>3. ASSUME NEW t \in Threads, NEW r \in Recipients, DispatchTo(t, r)
      PROVE  PartsCounted'
  <2>1. PICK s : s = thread[t].send
    OBVIOUS
  <2>2. s \in Started /\ okParts[s][r] = 0 /\ s \in Sends
    BY <1>0, <1>3, <2>1, ThreadShape DEF DispatchTo, LoopsApart
  <2>3. radio' = [radio EXCEPT ![s][r] = Parts] /\ UNCHANGED <<okParts, sends>>
    BY <1>3, <2>1 DEF DispatchTo, history
  <2>4. radio'[s][r] = Parts
    BY <2>2, <2>3 DEF TypeOK
  <2>5. \A z \in Sends, q \in Recipients : z # s \/ q # r => radio'[z][q] = radio[z][q]
    BY <1>3, <2>1, DispatchElsewhere
  <2>6. Started' = Started
    BY <2>3 DEF Started
  <2>7. QED BY <1>0, <2>2, <2>3, <2>4, <2>5, <2>6 DEF PartsCounted
<1>4. ASSUME NEW t \in Threads, ThreadStep(t), \A r \in Recipients : ~DispatchTo(t, r)
      PROVE  UNCHANGED <<radio, okParts>>
  BY <1>4 DEF ThreadStep, PlanRecovery, FetchPendingItems, CheckDeferred, SendAlert, SendAborted,
              RecordImmediateFailure, FinishDispatch, FinalizeIfComplete, Finalize, FinalizeBatch,
              RecoverBatch, history
<1>5. ASSUME \/ Requeue \/ Resolve \/ TriggerAlert \/ ResumeOver \/ Crash
             \/ \E s \in Sends : OnWatchdog(s) \/ PostReceipt(s)
             \/ \E p \in posts : HandleDeviceReceipt(p) \/ ReceiveAnswer(p) \/ PostFails(p)
             \/ \E m \in late : HandleLateReceipt(m)
             \/ UNCHANGED vars
      PROVE  UNCHANGED <<radio, okParts>>
  BY <1>5 DEF Requeue, Resolve, TriggerAlert, ResumeOver, Crash, OnWatchdog, PostReceipt,
              HandleDeviceReceipt, ReceiveAnswer, PostFails, HandleLateReceipt, vars, history
<1>6. QED BY <1>1, <1>2, <1>3, <1>4, <1>5 DEF Next, BatchStep

\* Only batches of sends that were started are in memory.
LEMMA CompleteKept ==
    ASSUME TypeOK, TypeOK', CopiesAgree, DispatchedOnce, [Next]_vars
    PROVE  (complete \subseteq Started)'
<1> USE DEF DispatchedOnce
<1>0. HistoryGrows
  BY HistoryGrowsStep
<1>1. Started \subseteq Started'
  BY <1>0, StartedGrows
<1>2. ASSUME complete' \subseteq complete
      PROVE  (complete \subseteq Started)'
  BY <1>1, <1>2
<1>3. ASSUME NEW s \in Sends, NEW r \in Recipients, NEW ok \in BOOLEAN, OnSendResult(s, r, ok)
      PROVE  (complete \subseteq Started)'
  <2>1. BatchOf(s) # None => BatchOf(s) \in Batch /\ IsCopy(s, BatchOf(s))
    BY DEF BatchOf, IsCopy, TypeOK, Slots
  <2>2. BatchOf(s) # None => s \in Started
    BY <2>1 DEF CopiesAgree, Agrees
  <2>3. \/ complete' = complete
        \/ BatchOf(s) # None /\ complete' = complete \cup {s}
    BY <1>3 DEF OnSendResult, memory
  <2>4. QED BY <1>1, <1>2, <2>2, <2>3
<1>4. ASSUME NEW t \in Threads, NEW s \in Sends, RecoverBatch(t, s)
      PROVE  (complete \subseteq Started)'
  <2>1. thread[t].plan[s] \in Batch
    BY <1>4, ThreadShape DEF RecoverBatch, Slots
  <2>2. IsCopy(s, thread[t].plan[s])
    BY <1>4 DEF IsCopy, Holds, RecoverBatch
  <2>3. s \in Started
    BY <2>1, <2>2 DEF CopiesAgree, Agrees
  <2>4. complete' \subseteq complete \cup {s}
    BY <1>4 DEF RecoverBatch
  <2>5. QED BY <1>1, <2>3, <2>4
<1>5. ASSUME NEW t \in Threads, FinishDispatch(t)
      PROVE  (complete \subseteq Started)'
  <2>1. thread[t].send \in Started
    BY <1>5 DEF FinishDispatch, LoopsApart
  <2>2. complete' = complete \cup {thread[t].send}
    BY <1>5 DEF FinishDispatch
  <2>3. QED BY <1>1, <2>1, <2>2
<1>6. ASSUME NEW t \in Threads, ThreadStep(t), ~FinishDispatch(t),
             \A s \in Sends : ~RecoverBatch(t, s)
      PROVE  complete' \subseteq complete
  BY <1>6 DEF ThreadStep, PlanRecovery, FetchPendingItems, CheckDeferred, SendAlert, SendAborted,
              DispatchTo, RecordImmediateFailure, FinalizeIfComplete, Finalize, FinalizeBatch
<1>7. ASSUME \/ Requeue \/ Resolve \/ TriggerAlert \/ ResumeOver \/ Crash
             \/ \E s \in Sends : OnWatchdog(s) \/ PostReceipt(s)
             \/ \E p \in posts : HandleDeviceReceipt(p) \/ ReceiveAnswer(p) \/ PostFails(p)
             \/ \E m \in late : HandleLateReceipt(m)
             \/ UNCHANGED vars
      PROVE  complete' \subseteq complete
  BY <1>7 DEF Requeue, Resolve, TriggerAlert, ResumeOver, Crash, OnWatchdog, PostReceipt,
              HandleDeviceReceipt, ReceiveAnswer, PostFails, HandleLateReceipt, vars, memory
<1>8. QED BY <1>2, <1>3, <1>4, <1>5, <1>6, <1>7 DEF Next, BatchStep

\* Every loop still running was running, and has no more to do.
LoopsShrink ==
    \A t \in Threads : thread'[t].at = "dispatching" =>
        /\ thread[t].at = "dispatching" /\ thread'[t].send = thread[t].send
        /\ thread'[t].todo \subseteq thread[t].todo

\* Its batch is still in memory and incomplete, its recipients untouched.
LoopStands(t) ==
    LET s == thread[t].send IN
    /\ s \in Started' \ complete' /\ live'[s] # None
    /\ \A r \in thread'[t].todo : okParts'[s][r] = 0 /\ radio'[s][r] = 0

LEMMA LoopsKeptIf ==
    ASSUME LoopsApart, LoopsShrink,
           \A t \in Threads : thread[t].at = "dispatching" /\ thread'[t].at = "dispatching"
                => LoopStands(t)
    PROVE  LoopsApart'
BY DEF LoopsApart, LoopsShrink, LoopStands

LEMMA OneLoopShrinks ==
    ASSUME TypeOK, NEW t \in Threads, NEW x, thread' = [thread EXCEPT ![t] = x],
           x.at = "dispatching" => /\ thread[t].at = "dispatching" /\ x.send = thread[t].send
                                   /\ x.todo \subseteq thread[t].todo
    PROVE  LoopsShrink
BY DEF TypeOK, LoopsShrink

LEMMA LoopsShrinkStep ==
    ASSUME TypeOK, [Next]_vars, \A t \in Threads, divided \in BOOLEAN : ~SendAlert(t, divided)
    PROVE  LoopsShrink
<1>2. ASSUME NEW t \in Threads, NEW x, thread' = [thread EXCEPT ![t] = x], x.at # "dispatching"
      PROVE  LoopsShrink
  BY <1>2, OneLoopShrinks
<1>3. ASSUME UNCHANGED thread
      PROVE  LoopsShrink
  BY <1>3 DEF LoopsShrink
<1>4. ASSUME Crash
      PROVE  LoopsShrink
  BY <1>4 DEF Crash, Idle, LoopsShrink
<1>5. ASSUME \/ Requeue \/ Resolve
             \/ \E p \in posts : HandleDeviceReceipt(p) \/ ReceiveAnswer(p) \/ PostFails(p)
             \/ \E m \in late : HandleLateReceipt(m)
             \/ \E s \in Sends : PostReceipt(s)
             \/ UNCHANGED vars
      PROVE  UNCHANGED thread
  BY <1>5 DEF Requeue, Resolve, HandleDeviceReceipt, ReceiveAnswer, PostFails, HandleLateReceipt,
              PostReceipt, vars, memory
<1>6. ASSUME TriggerAlert \/ ResumeOver
      PROVE  LoopsShrink
  BY <1>2, <1>6, MainThreads DEF TriggerAlert, ResumeOver, Idle
<1>7. ASSUME NEW s \in Sends, \/ \E r \in Recipients, ok \in BOOLEAN : OnSendResult(s, r, ok)
                              \/ OnWatchdog(s)
      PROVE  LoopsShrink
  <2>1. UNCHANGED thread \/ thread' = [thread EXCEPT !["main"] = [at |-> "checking", send |-> s]]
    BY <1>7 DEF OnSendResult, OnWatchdog, memory
  <2>2. [at |-> "checking", send |-> s].at # "dispatching"
    OBVIOUS
  <2>3. QED BY <1>2, <1>3, <2>1, <2>2, MainThreads
<1>8. ASSUME NEW t \in Threads, ThreadStep(t)
      PROVE  LoopsShrink
  <2>1. CASE PlanRecovery(t) \/ FetchPendingItems(t) \/ SendAborted(t) \/ FinishDispatch(t)
             \/ FinalizeBatch(t) \/ FinalizeIfComplete(t) \/ Finalize(t)
    <3>1. /\ thread' = [thread EXCEPT ![t] = thread'[t]]
          /\ thread'[t].at # "dispatching"
      BY <2>1 DEF PlanRecovery, FetchPendingItems, SendAborted, FinishDispatch, FinalizeBatch,
                  FinalizeIfComplete, Finalize, Idle, TypeOK
    <3>2. PICK x : x = thread'[t]
      OBVIOUS
    <3>3. QED BY <1>2, <3>1, <3>2
  <2>2. CASE CheckDeferred(t)
    <3>1. [thread[t] EXCEPT !.at = "cleared"].at = "cleared"
      BY <2>2 DEF CheckDeferred, TypeOK, Thread, Idle
    <3>2. \/ thread' = [thread EXCEPT ![t] = [thread[t] EXCEPT !.at = "cleared"]]
          \/ thread' = [thread EXCEPT ![t] = Idle]
      BY <2>2 DEF CheckDeferred
    <3>3. Idle.at # "dispatching"
      BY DEF Idle
    <3>4. QED BY <1>2, <3>1, <3>2, <3>3
  <2>3. CASE \E r \in Recipients : DispatchTo(t, r) \/ RecordImmediateFailure(t, r)
    <3>1. PICK r \in Recipients : DispatchTo(t, r) \/ RecordImmediateFailure(t, r)
      BY <2>3
    <3>2. thread' = [thread EXCEPT ![t] = [thread[t] EXCEPT !.todo = @ \ {r}]]
      BY <3>1 DEF DispatchTo, RecordImmediateFailure
    <3>3. thread[t] \in [at : {"dispatching"}, send : Sends, todo : SUBSET Recipients]
      <4>1. thread[t].at = "dispatching" /\ thread[t] \in Thread
        BY <3>1 DEF DispatchTo, RecordImmediateFailure, TypeOK
      <4>2. QED BY <4>1 DEF Thread, Idle
    <3>4. PICK x : x = [thread[t] EXCEPT !.todo = @ \ {r}]
      OBVIOUS
    <3>5. x.send = thread[t].send /\ x.todo \subseteq thread[t].todo
      BY <3>3, <3>4
    <3>6. QED BY <3>2, <3>3, <3>4, <3>5, OneLoopShrinks
  <2>4. CASE \E s \in Sends : RecoverBatch(t, s)
    <3>1. PICK s \in Sends : RecoverBatch(t, s)
      BY <2>4
    <3>2. thread' = [thread EXCEPT ![t] = [thread[t] EXCEPT !.plan[s] = None]]
      BY <3>1 DEF RecoverBatch
    <3>3. [thread[t] EXCEPT !.plan[s] = None].at = "recovering"
      BY <3>1 DEF RecoverBatch, TypeOK, Thread, Idle
    <3>4. QED BY <1>2, <3>2, <3>3
  <2>6. QED BY <1>8, <2>1, <2>2, <2>3, <2>4 DEF ThreadStep
<1>9. QED BY <1>3, <1>4, <1>5, <1>6, <1>7, <1>8 DEF Next, BatchStep

\* A thread about to remove a batch was about to before, or has just found it complete.
FinalizingStays(t) ==
    thread'[t].at = "finalizing" =>
        thread[t].at = "finalizing" /\ thread'[t].send = thread[t].send

LEMMA FinalizingStaysStep ==
    ASSUME TypeOK, [Next]_vars, NEW t \in Threads, ~FinalizeIfComplete(t)
    PROVE  FinalizingStays(t)
<1> USE DEF FinalizingStays
<1>1. ASSUME NEW u \in Threads, NEW x, thread' = [thread EXCEPT ![u] = x],
             u = t => x.at # "finalizing"
      PROVE  FinalizingStays(t)
  BY <1>1 DEF TypeOK
<1>2. ASSUME UNCHANGED thread
      PROVE  FinalizingStays(t)
  BY <1>2
<1>3. ASSUME Crash
      PROVE  FinalizingStays(t)
  BY <1>3 DEF Crash, Idle
<1>4. ASSUME \/ Requeue \/ Resolve
             \/ \E p \in posts : HandleDeviceReceipt(p) \/ ReceiveAnswer(p) \/ PostFails(p)
             \/ \E m \in late : HandleLateReceipt(m)
             \/ \E s \in Sends : PostReceipt(s)
             \/ UNCHANGED vars
      PROVE  UNCHANGED thread
  BY <1>4 DEF Requeue, Resolve, HandleDeviceReceipt, ReceiveAnswer, PostFails, HandleLateReceipt,
              PostReceipt, vars, memory
<1>5. ASSUME TriggerAlert \/ ResumeOver
      PROVE  FinalizingStays(t)
  BY <1>1, <1>5, MainThreads DEF TriggerAlert, ResumeOver, Idle
<1>6. ASSUME NEW s \in Sends, \/ \E r \in Recipients, ok \in BOOLEAN : OnSendResult(s, r, ok)
                              \/ OnWatchdog(s)
      PROVE  FinalizingStays(t)
  <2>1. UNCHANGED thread \/ thread' = [thread EXCEPT !["main"] = [at |-> "checking", send |-> s]]
    BY <1>6 DEF OnSendResult, OnWatchdog, memory
  <2>2. [at |-> "checking", send |-> s].at # "finalizing"
    OBVIOUS
  <2>3. QED BY <1>1, <1>2, <2>1, <2>2, MainThreads
<1>7. ASSUME NEW u \in Threads, ThreadStep(u)
      PROVE  FinalizingStays(t)
  <2>1. CASE \/ PlanRecovery(u) \/ FetchPendingItems(u) \/ SendAborted(u) \/ FinishDispatch(u)
             \/ Finalize(u) \/ FinalizeBatch(u) \/ \E divided \in BOOLEAN : SendAlert(u, divided)
    <3>1. /\ thread' = [thread EXCEPT ![u] = thread'[u]]
          /\ thread'[u].at # "finalizing"
      BY <2>1 DEF PlanRecovery, FetchPendingItems, SendAborted, FinishDispatch, Finalize,
                  FinalizeBatch, SendAlert, Idle, TypeOK
    <3>2. PICK x : x = thread'[u]
      OBVIOUS
    <3>3. QED BY <1>1, <3>1, <3>2
  <2>2. CASE CheckDeferred(u)
    <3>1. [thread[u] EXCEPT !.at = "cleared"].at = "cleared"
      BY <2>2 DEF CheckDeferred, TypeOK, Thread, Idle
    <3>2. \/ thread' = [thread EXCEPT ![u] = [thread[u] EXCEPT !.at = "cleared"]]
          \/ thread' = [thread EXCEPT ![u] = Idle]
      BY <2>2 DEF CheckDeferred
    <3>3. QED BY <1>1, <3>1, <3>2 DEF Idle
  <2>3. CASE \E r \in Recipients : DispatchTo(u, r) \/ RecordImmediateFailure(u, r)
    <3>1. PICK r \in Recipients : DispatchTo(u, r) \/ RecordImmediateFailure(u, r)
      BY <2>3
    <3>2. thread' = [thread EXCEPT ![u] = [thread[u] EXCEPT !.todo = @ \ {r}]]
      BY <3>1 DEF DispatchTo, RecordImmediateFailure
    <3>3. [thread[u] EXCEPT !.todo = @ \ {r}].at = "dispatching"
      BY <3>1 DEF DispatchTo, RecordImmediateFailure, TypeOK, Thread, Idle
    <3>4. QED BY <1>1, <3>2, <3>3
  <2>4. CASE \E s \in Sends : RecoverBatch(u, s)
    <3>1. PICK s \in Sends : RecoverBatch(u, s)
      BY <2>4
    <3>2. thread' = [thread EXCEPT ![u] = [thread[u] EXCEPT !.plan[s] = None]]
      BY <3>1 DEF RecoverBatch
    <3>3. [thread[u] EXCEPT !.plan[s] = None].at = "recovering"
      BY <3>1 DEF RecoverBatch, TypeOK, Thread, Idle
    <3>4. QED BY <1>1, <3>2, <3>3
  <2>5. CASE FinalizeIfComplete(u)
    <3>1. PICK x : thread' = [thread EXCEPT ![u] = x]
      BY <2>5 DEF FinalizeIfComplete
    <3>2. u # t
      BY <2>5
    <3>3. QED BY <1>1, <3>1, <3>2
  <2>6. QED BY <1>7, <2>1, <2>2, <2>3, <2>4, <2>5 DEF ThreadStep
<1>8. QED BY <1>2, <1>3, <1>4, <1>5, <1>6, <1>7 DEF Next, BatchStep

LEMMA FinalizingKept ==
    ASSUME TypeOK, TypeOK', DispatchedOnce, [Next]_vars
    PROVE  FinalizingApart'
<1> USE DEF DispatchedOnce
<1>1. HistoryGrows /\ Started \subseteq Started'
  BY HistoryGrowsStep, StartedGrows
<1>2. ASSUME NEW t \in Threads, FinalizeIfComplete(t)
      PROVE  FinalizingApart'
  <2>1. PICK x : x = [at |-> "finalizing", send |-> thread[t].send]
    OBVIOUS
  <2>2. \/ thread' = [thread EXCEPT ![t] = Idle]
        \/ thread[t].send \in complete /\ thread' = [thread EXCEPT ![t] = x]
    BY <1>2, <2>1 DEF FinalizeIfComplete
  <2>3. x.at = "finalizing" /\ x.send = thread[t].send
    BY <2>1
  <2>4. CASE thread' = [thread EXCEPT ![t] = Idle]
    BY <1>1, <2>4 DEF FinalizingApart, Idle, TypeOK
  <2>5. CASE thread[t].send \in complete /\ thread' = [thread EXCEPT ![t] = x]
    <3>1. \A u \in Threads : thread[u].at = "dispatching" => thread[u].send # x.send
      BY <2>3, <2>5 DEF LoopsApart
    <3>2. x.send \in Started
      BY <2>3, <2>5
    <3>3. \A u \in Threads : u # t => thread'[u] = thread[u]
      BY <2>5 DEF TypeOK
    <3>4. thread'[t] = x
      BY <2>5 DEF TypeOK
    <3>5. QED BY <1>1, <2>3, <3>1, <3>2, <3>3, <3>4 DEF FinalizingApart
  <2>6. QED BY <2>2, <2>4, <2>5
<1>3. ASSUME \A t \in Threads : FinalizingStays(t), LoopsShrink
      PROVE  FinalizingApart'
  BY <1>1, <1>3 DEF FinalizingApart, FinalizingStays, LoopsShrink
<1>4. ASSUME \A t \in Threads : FinalizingStays(t),
             NEW u \in Threads, NEW divided \in BOOLEAN, SendAlert(u, divided)
      PROVE  FinalizingApart'
  <2>1. PICK x : x = [at |-> "dispatching", send |-> sends + 1,
                      todo |-> IF divided THEN Recipients ELSE {}]
    OBVIOUS
  <2>2. thread' = [thread EXCEPT ![u] = x] /\ x.at = "dispatching" /\ x.send = sends + 1
    BY <1>4, <2>1 DEF SendAlert
  <2>3. sends + 1 \notin Started
    BY DEF Started, TypeOK
  <2>4. \A v \in Threads : thread'[v].at = "dispatching" =>
            \/ thread[v].at = "dispatching" /\ thread'[v].send = thread[v].send
            \/ thread'[v].send = sends + 1
    BY <2>2 DEF TypeOK
  <2>5. QED BY <1>1, <1>4, <2>3, <2>4 DEF FinalizingApart, FinalizingStays
<1>5. CASE \A t \in Threads : ~FinalizeIfComplete(t)
  <2>1. \A t \in Threads : FinalizingStays(t)
    BY <1>5, FinalizingStaysStep
  <2>2. QED BY <1>3, <1>4, <2>1, LoopsShrinkStep
<1>6. QED BY <1>2, <1>5

LEMMA LoopsKept ==
    ASSUME TypeOK, TypeOK', DispatchedOnce, [Next]_vars
    PROVE  LoopsApart'
<1> USE DEF DispatchedOnce
<1>0. HistoryGrows /\ Started \subseteq Started'
  BY HistoryGrowsStep, StartedGrows
<1>1. \A t \in Threads : thread[t].at = "dispatching" =>
          thread[t].send \in Sends /\ thread[t].todo \subseteq Recipients
  BY ThreadShape
<1>2. ASSUME NEW t \in Threads, NEW divided \in BOOLEAN, SendAlert(t, divided)
      PROVE  LoopsApart'
  <2>1. PICK s : s = sends + 1
    OBVIOUS
  <2>2. /\ s \in Sends /\ s \notin Started
        /\ sends' = s /\ UNCHANGED <<complete, radio, okParts>>
    BY <1>2, <2>1 DEF SendAlert, Started, TypeOK
  <2>3. PICK x : x = [at |-> "dispatching", send |-> s, todo |-> IF divided THEN Recipients ELSE {}]
    OBVIOUS
  <2>4. thread' = [thread EXCEPT ![t] = x] /\ x.send = s /\ x.todo \subseteq Recipients
    BY <1>2, <2>1, <2>3 DEF SendAlert
  <2>5. \A u \in Threads \ {t} : thread'[u] = thread[u]
    BY <2>4 DEF TypeOK
  <2>6. thread'[t].send = s /\ thread'[t].todo \subseteq Recipients
    BY <2>4 DEF TypeOK
  <2>7. s \in Started' /\ s \notin complete'
    BY <2>2 DEF Started, TypeOK
  <2>8. live'[s] # None
    <3>1. PICK n : n = Roster(thread[t].token, divided)
      OBVIOUS
    <3>2. live' = [live EXCEPT ![s] = n]
      BY <1>2, <2>1, <3>1 DEF SendAlert
    <3>3. n \in Batch
      BY <1>2, <3>1, ThreadShape, RosterForm DEF SendAlert
    <3>4. QED BY <2>2, <3>2, <3>3, NoneIsNothing DEF TypeOK, Slots
  <2>9. \A z \in Sends \ {s} : live'[z] = live[z]
    BY <1>2, <2>1 DEF SendAlert, TypeOK, Slots
  <2>10. \A r \in Recipients : okParts'[s][r] = 0 /\ radio'[s][r] = 0
    BY <2>2 DEF PartsCounted
  <2>11. SUFFICES ASSUME NEW u \in Threads, thread'[u].at = "dispatching"
                  PROVE  /\ thread'[u].send \in Started' \ complete'
                         /\ live'[thread'[u].send] # None
                         /\ \A r \in thread'[u].todo : okParts'[thread'[u].send][r] = 0
                                                    /\ radio'[thread'[u].send][r] = 0
                         /\ \A v \in Threads \ {u} : thread'[v].at = "dispatching" =>
                                thread'[v].send # thread'[u].send
    BY DEF LoopsApart
  <2>12. \A v \in Threads \ {t} : thread'[v].at = "dispatching" => thread'[v].send # s
    BY <2>2, <2>5 DEF LoopsApart
  <2>13. CASE u = t
    BY <2>6, <2>7, <2>8, <2>10, <2>12, <2>13
  <2>14. CASE u # t
    <3>1. thread'[u] = thread[u] /\ thread[u].send # s /\ thread[u].send \in Sends
      BY <1>1, <2>5, <2>11, <2>12, <2>14
    <3>2. live'[thread[u].send] # None
      BY <2>9, <2>11, <3>1 DEF LoopsApart
    <3>3. QED BY <1>0, <2>2, <2>5, <2>6, <2>11, <2>14, <3>1, <3>2 DEF LoopsApart
  <2>15. QED BY <2>13, <2>14
<1>3. ASSUME LoopsShrink,
             \A t \in Threads : thread[t].at = "dispatching" /\ thread'[t].at = "dispatching"
                => LoopStands(t)
      PROVE  LoopsApart'
  BY <1>3, LoopsKeptIf
<1>4. ASSUME LoopsShrink, UNCHANGED <<live, complete, radio, okParts>>
      PROVE  LoopsApart'
  BY <1>0, <1>3, <1>4 DEF LoopStands, LoopsApart, LoopsShrink
<1>5. ASSUME LoopsShrink, NEW t \in Threads, thread[t].at = "dispatching",
             thread'[t].at = "dispatching"
      PROVE  /\ thread[t].send \in Sends /\ thread[t].send \in Started \ complete
             /\ thread[t].send \in Started' /\ live[thread[t].send] # None
             /\ thread'[t].todo \subseteq Recipients /\ thread'[t].todo \subseteq thread[t].todo
             /\ \A r \in thread'[t].todo : okParts[thread[t].send][r] = 0
                                        /\ radio[thread[t].send][r] = 0
  BY <1>0, <1>1, <1>5 DEF LoopsShrink, LoopsApart
<1>6. ASSUME NEW s \in Sends, NEW n \in Batch, live' = [live EXCEPT ![s] = n],
             NEW z \in Sends, live[z] # None
      PROVE  live'[z] # None
  BY <1>6, NoneIsNothing DEF TypeOK, Slots
<1>7. ASSUME LoopsShrink, NEW s \in Sends, NEW r \in Recipients, NEW ok \in BOOLEAN,
             OnSendResult(s, r, ok)
      PROVE  LoopsApart'
  <2> SUFFICES ASSUME NEW t \in Threads, thread[t].at = "dispatching",
                      thread'[t].at = "dispatching"
               PROVE  LoopStands(t)
    BY <1>3, <1>7
  <2>1. PICK z : z = thread[t].send
    OBVIOUS
  <2>2. /\ z \in Sends /\ z \in Started' \ complete /\ live[z] # None
        /\ thread'[t].todo \subseteq Recipients
        /\ \A q \in thread'[t].todo : okParts[z][q] = 0 /\ radio[z][q] = 0
    BY <1>5, <1>7, <2>1
  <2>3. live'[z] # None
    <3>1. CASE UNCHANGED memory
      BY <2>2, <3>1 DEF memory
    <3>2. CASE BatchOf(s) # None /\ live' = [live EXCEPT ![s] = Counted(BatchOf(s), r, ok)]
      <4>1. BatchOf(s) \in Batch
        BY <3>2 DEF BatchOf, TypeOK, Slots
      <4>2. Counted(BatchOf(s), r, ok) \in Batch
        BY <4>1, BatchForms
      <4>3. QED BY <1>6, <2>2, <3>2, <4>2
    <3>3. QED BY <1>7, <3>1, <3>2 DEF OnSendResult
  <2>4. z \notin complete'
    BY <1>7, <2>2 DEF OnSendResult, memory
  <2>5. \A q \in thread'[t].todo : okParts'[z][q] = 0 /\ radio'[z][q] = 0
    <3> SUFFICES ASSUME NEW q \in thread'[t].todo
                 PROVE  okParts'[z][q] = 0 /\ radio'[z][q] = 0
      OBVIOUS
    <3>1. okParts[z][q] = 0 /\ radio[z][q] = 0 /\ q \in Recipients
      BY <2>2
    <3>2. z # s \/ q # r
      BY <1>7, <3>1 DEF OnSendResult
    <3>3. QED BY <1>7, <2>2, <3>1, <3>2, ResultElsewhere
  <2>6. QED BY <2>1, <2>2, <2>3, <2>4, <2>5 DEF LoopStands
<1>8. ASSUME LoopsShrink, NEW u \in Threads, NEW r \in Recipients, DispatchTo(u, r)
      PROVE  LoopsApart'
  <2> SUFFICES ASSUME NEW t \in Threads, thread[t].at = "dispatching",
                      thread'[t].at = "dispatching"
               PROVE  LoopStands(t)
    BY <1>3, <1>8
  <2>1. PICK z : z = thread[t].send
    OBVIOUS
  <2>2. /\ z \in Sends /\ z \in Started' \ complete /\ live[z] # None
        /\ thread'[t].todo \subseteq Recipients
        /\ \A q \in thread'[t].todo : okParts[z][q] = 0 /\ radio[z][q] = 0
    BY <1>5, <1>8, <2>1
  <2>3. UNCHANGED <<live, complete>>
    BY <1>8 DEF DispatchTo
  <2>4. ASSUME NEW q \in thread'[t].todo
        PROVE  z # thread[u].send \/ q # r
    <3>1. CASE t = u
      <4>1. thread' = [thread EXCEPT ![u] = [thread[u] EXCEPT !.todo = @ \ {r}]]
        BY <1>8 DEF DispatchTo
      <4>2. thread[u] \in [at : {"dispatching"}, send : Sends, todo : SUBSET Recipients]
        <5>1. thread[u].at = "dispatching" /\ thread[u] \in Thread
          BY <1>8 DEF DispatchTo, TypeOK
        <5>2. QED BY <5>1 DEF Thread, Idle
      <4>3. thread'[u].todo = thread[u].todo \ {r}
        BY <4>1, <4>2 DEF TypeOK
      <4>4. QED BY <2>4, <3>1, <4>3
    <3>2. CASE t # u
      BY <1>8, <2>1, <3>2 DEF DispatchTo, LoopsApart
    <3>3. QED BY <3>1, <3>2
  <2>5. \A q \in thread'[t].todo : okParts'[z][q] = 0 /\ radio'[z][q] = 0
    BY <1>8, <2>2, <2>4, DispatchElsewhere
  <2>6. QED BY <2>1, <2>2, <2>3, <2>5 DEF LoopStands
<1>9. ASSUME LoopsShrink, UNCHANGED <<okParts, radio>>,
             \A t \in Threads : thread[t].at = "dispatching" /\ thread'[t].at = "dispatching" =>
                 live'[thread[t].send] # None /\ thread[t].send \notin complete'
      PROVE  LoopsApart'
  BY <1>3, <1>5, <1>9 DEF LoopStands
<1>10. ASSUME LoopsShrink, NEW s \in Sends, OnWatchdog(s)
       PROVE  LoopsApart'
  <2>1. TimedOut(live[s]) \in Batch
    BY <1>10, TimedOutForm DEF OnWatchdog, TypeOK, Slots
  <2>2. live' = [live EXCEPT ![s] = TimedOut(live[s])] /\ UNCHANGED <<complete, radio, okParts>>
    BY <1>10 DEF OnWatchdog, history
  <2>3. PICK n : n = TimedOut(live[s])
    OBVIOUS
  <2>4. QED BY <1>5, <1>6, <1>9, <1>10, <2>1, <2>2, <2>3
<1>11. ASSUME LoopsShrink, NEW u \in Threads, NEW r \in Recipients, RecordImmediateFailure(u, r)
       PROVE  LoopsApart'
  <2>1. PICK n : n = FailedAtOnce(live[thread[u].send], r)
    OBVIOUS
  <2>2. thread[u].send \in Sends /\ live[thread[u].send] # None
    BY <1>1, <1>11 DEF RecordImmediateFailure, LoopsApart
  <2>3. n \in Batch
    BY <2>1, <2>2, BatchForms DEF TypeOK, Slots
  <2>4. /\ live' = [live EXCEPT ![thread[u].send] = n]
        /\ UNCHANGED <<complete, radio, okParts>>
    BY <1>11, <2>1 DEF RecordImmediateFailure, history
  <2>5. QED BY <1>5, <1>6, <1>9, <1>11, <2>2, <2>3, <2>4
<1>12. ASSUME LoopsShrink, NEW u \in Threads, FinishDispatch(u)
       PROVE  LoopsApart'
  <2>1. /\ complete' = complete \cup {thread[u].send} /\ UNCHANGED <<live, radio, okParts>>
        /\ thread'[u].at = "checking" /\ thread[u].at = "dispatching"
    BY <1>12 DEF FinishDispatch, history, TypeOK
  <2>2. \A t \in Threads : thread[t].at = "dispatching" /\ thread'[t].at = "dispatching"
            => thread[t].send # thread[u].send
    BY <2>1 DEF LoopsApart
  <2>3. QED BY <1>5, <1>9, <1>12, <2>1, <2>2
<1>13. ASSUME LoopsShrink, NEW u \in Threads, Finalize(u)
       PROVE  LoopsApart'
  <2>1. UNCHANGED <<radio, okParts>> /\ complete' \subseteq complete
    BY <1>13 DEF Finalize, history
  <2>2. \A z \in Sends : z # thread[u].send => live'[z] = live[z]
    BY <1>13 DEF Finalize, TypeOK, Slots
  <2>3. \A t \in Threads : thread[t].at = "dispatching" => thread[t].send # thread[u].send
    BY <1>13 DEF Finalize, FinalizingApart
  <2>4. QED BY <1>5, <1>9, <1>13, <2>1, <2>2, <2>3
<1>14. ASSUME LoopsShrink, NEW u \in Threads, NEW s \in Sends, RecoverBatch(u, s)
       PROVE  LoopsApart'
  <2>1. UNCHANGED <<radio, okParts>>
    BY <1>14 DEF RecoverBatch, history
  <2>2. \A z \in Sends : live[z] # None => live'[z] = live[z] /\ (z \in complete' => z \in complete)
    BY <1>14 DEF RecoverBatch, TypeOK, Slots
  <2>3. QED BY <1>5, <1>9, <1>14, <2>1, <2>2
<1>15. ASSUME Crash
       PROVE  LoopsApart'
  BY <1>15 DEF Crash, Idle, LoopsApart
<1>16. ASSUME NEW t \in Threads,
              \/ PlanRecovery(t) \/ FetchPendingItems(t) \/ CheckDeferred(t) \/ SendAborted(t)
              \/ FinalizeIfComplete(t) \/ FinalizeBatch(t)
       PROVE  UNCHANGED <<live, complete, radio, okParts>>
  BY <1>16 DEF PlanRecovery, FetchPendingItems, CheckDeferred, SendAborted, FinalizeIfComplete,
               FinalizeBatch, history
<1>17. ASSUME \/ Requeue \/ Resolve \/ TriggerAlert \/ ResumeOver
              \/ \E s \in Sends : PostReceipt(s)
              \/ \E p \in posts : HandleDeviceReceipt(p) \/ ReceiveAnswer(p) \/ PostFails(p)
              \/ \E m \in late : HandleLateReceipt(m)
              \/ UNCHANGED vars
       PROVE  UNCHANGED <<live, complete, radio, okParts>>
  BY <1>17 DEF Requeue, Resolve, TriggerAlert, ResumeOver, PostReceipt, HandleDeviceReceipt,
               ReceiveAnswer, PostFails, HandleLateReceipt, vars, memory, history
<1>18. CASE \E t \in Threads, divided \in BOOLEAN : SendAlert(t, divided)
  BY <1>2, <1>18
<1>19. CASE \A t \in Threads, divided \in BOOLEAN : ~SendAlert(t, divided)
  <2>1. LoopsShrink
    BY <1>19, LoopsShrinkStep
  <2>2. QED BY <1>4, <1>7, <1>8, <1>10, <1>11, <1>12, <1>13, <1>14, <1>15, <1>16, <1>17, <1>19, <2>1
            DEF Next, ThreadStep, BatchStep
<1>20. QED BY <1>18, <1>19

--------------------------------------------------------------------------------
(* The console.                                                            *)

\* What a receipt does to the item, and what the handset hears.
LEMMA VerdictForms ==
    ASSUME TypeOK, NEW report, NEW v, v = Verdict(report)
    PROVE  /\ v[1] \in {"SENT", "WITHDRAWN", "DEAD_LETTER", "QUEUED"}
           /\ item = "SENT" => v[1] = "SENT"
           /\ v[1] = "SENT" /\ item # "SENT" =>
                 /\ report.failures = {}
                 /\ \/ item = "none" \/ item = "WITHDRAWN"
                    \/ item = "QUEUED" /\ (token = 0 \/ report.token = token)
           /\ v[1] = "QUEUED" => item = "QUEUED" /\ report.token # token
           /\ v[1] = "WITHDRAWN" => item = "WITHDRAWN"
BY DEF Verdict, TypeOK

\* A step of the console is an operator's, the trigger, or the arrival of a report.
LEMMA ConsoleSteps ==
    ASSUME TypeOK, [Next]_vars
    PROVE  \/ UNCHANGED console
           \/ Requeue \/ Resolve \/ TriggerAlert
           \/ \E m \in Messages : item' = Verdict(m.report)[1] /\ UNCHANGED <<token, resolved>>
<1>1. ASSUME NEW p \in posts, HandleDeviceReceipt(p)
      PROVE  \E m \in Messages : item' = Verdict(m.report)[1] /\ UNCHANGED <<token, resolved>>
  <2>1. p.message \in Messages
    BY DEF Messages
  <2>2. QED BY <1>1, <2>1 DEF HandleDeviceReceipt
<1>2. ASSUME NEW m \in late, HandleLateReceipt(m)
      PROVE  \E n \in Messages : item' = Verdict(n.report)[1] /\ UNCHANGED <<token, resolved>>
  BY <1>2 DEF HandleLateReceipt, Messages
<1>3. ASSUME \/ ResumeOver \/ Crash
             \/ \E t \in Threads : ThreadStep(t)
             \/ \E s \in Sends : BatchStep(s)
             \/ \E p \in posts : ReceiveAnswer(p) \/ PostFails(p)
             \/ UNCHANGED vars
      PROVE  UNCHANGED console
  <2>1. ASSUME NEW t \in Threads, ThreadStep(t)
        PROVE  UNCHANGED console
    BY <2>1 DEF ThreadStep, PlanRecovery, FetchPendingItems, CheckDeferred, SendAlert, SendAborted,
                DispatchTo, RecordImmediateFailure, FinishDispatch, FinalizeIfComplete, Finalize,
                FinalizeBatch, RecoverBatch
  <2>2. ASSUME NEW s \in Sends, BatchStep(s)
        PROVE  UNCHANGED console
    BY <2>2 DEF BatchStep, OnSendResult, OnWatchdog, PostReceipt
  <2>3. QED BY <1>3, <2>1, <2>2 DEF ResumeOver, Crash, ReceiveAnswer, PostFails, vars
<1>4. QED BY <1>1, <1>2, <1>3 DEF Next

\* The item is QUEUED because it was, in the same cycle, or a cycle has just begun.
LEMMA QueuedBefore ==
    ASSUME TypeOK, [Next]_vars, item' = "QUEUED"
    PROVE  \/ item = "QUEUED" /\ token' = token
           \/ Requeue \/ TriggerAlert
<1>1. CASE UNCHANGED console
  BY <1>1 DEF console
<1>2. CASE Resolve
  BY <1>2 DEF Resolve
<1>3. ASSUME NEW m \in Messages, item' = Verdict(m.report)[1] /\ UNCHANGED <<token, resolved>>
      PROVE  item = "QUEUED" /\ token' = token
  BY <1>3, VerdictForms
<1>4. QED BY <1>1, <1>2, <1>3, ConsoleSteps

\* Nothing is on its way before the trigger.
LEMMA NothingBeforeTrigger ==
    ASSUME TypeOK, ReportsAreTrue, TokensMinted, item = "none"
    PROVE  Started = {} /\ Messages = {}
<1>1. Started = {}
  BY DEF TokensMinted, Started
<1>2. QED BY <1>1 DEF ReportsAreTrue, ReportIsTrue

LEMMA WithdrawnKept ==
    ASSUME TypeOK, WithdrawnIsResolved, [Next]_vars
    PROVE  WithdrawnIsResolved'
<1> USE DEF WithdrawnIsResolved
<1>1. CASE UNCHANGED console
  BY <1>1 DEF console
<1>2. CASE Requeue \/ Resolve \/ TriggerAlert
  BY <1>2 DEF Requeue, Resolve, TriggerAlert
<1>3. ASSUME NEW m \in Messages, item' = Verdict(m.report)[1] /\ UNCHANGED <<token, resolved>>
      PROVE  WithdrawnIsResolved'
  BY <1>3, VerdictForms
<1>4. QED BY <1>1, <1>2, <1>3, ConsoleSteps

LEMMA VouchedKept ==
    ASSUME TypeOK, TypeOK', HistoryGrows, NEW s \in Sends, Vouched(s)
    PROVE  Vouched(s)'
<1>1. \A r \in Recipients : okParts[s][r] \in 0..Parts /\ okParts'[s][r] \in 0..Parts
  BY DEF TypeOK
<1>2. \A r \in Recipients : okParts[s][r] <= okParts'[s][r]
  BY DEF HistoryGrows
<1>3. QED BY <1>1, <1>2 DEF ReachedAll, Vouched, HistoryGrows

\* The item becomes SENT by a report that is true.
LEMMA SentByTrueReport ==
    ASSUME TypeOK, [Next]_vars, ReportsAreTrue, TokensMinted, item' = "SENT", item # "SENT"
    PROVE  \E s \in Started : /\ Vouched(s)
                              /\ UNCHANGED <<token, resolved>>
                              /\ \/ item = "WITHDRAWN"
                                 \/ token = 0 \/ sentFor[s] = token
<1>1. ~UNCHANGED console /\ ~Requeue /\ ~Resolve /\ ~TriggerAlert
  BY DEF console, Requeue, Resolve, TriggerAlert
<1>2. PICK m \in Messages : item' = Verdict(m.report)[1] /\ UNCHANGED <<token, resolved>>
  BY <1>1, ConsoleSteps
<1>3. ReportIsTrue(m.send, m.report) /\ item # "none"
  BY <1>2, NothingBeforeTrigger DEF ReportsAreTrue
<1>4. PICK v : v = Verdict(m.report)
  OBVIOUS
<1>5. /\ m.report.failures = {}
      /\ item = "WITHDRAWN" \/ token = 0 \/ m.report.token = token
  BY <1>2, <1>3, <1>4, VerdictForms
<1>6. QED BY <1>2, <1>3, <1>5 DEF ReportIsTrue

LEMMA SentMeansTextedKept ==
    ASSUME TypeOK, TypeOK', ReportsAreTrue, TokensMinted, SentMeansTexted, [Next]_vars
    PROVE  SentMeansTexted'
<1>1. HistoryGrows /\ Started \subseteq Started' /\ Started \subseteq Sends
  BY HistoryGrowsStep, StartedGrows
<1>2. SUFFICES ASSUME item' = "SENT"
               PROVE  \E s \in Started : Vouched(s)
  BY <1>1, VouchedKept DEF SentMeansTexted
<1>3. QED BY <1>2, SentByTrueReport DEF SentMeansTexted

LEMMA SentInItsCycleKept ==
    ASSUME TypeOK, TypeOK', ReportsAreTrue, TokensMinted, WithdrawnIsResolved, SentInItsCycle,
           [Next]_vars
    PROVE  SentInItsCycle'
<1>1. HistoryGrows /\ Started \subseteq Started' /\ Started \subseteq Sends
  BY HistoryGrowsStep, StartedGrows
<1>2. SUFFICES ASSUME item' = "SENT", ~resolved', token' > 0
               PROVE  \E s \in Started : sentFor[s] = token' /\ Vouched(s)
  <2>1. \A s \in Started : sentFor'[s] = sentFor[s]
    BY <1>1 DEF HistoryGrows
  <2>2. QED BY <1>1, <2>1, VouchedKept DEF SentInItsCycle
<1>3. CASE item = "SENT"
  <2>1. UNCHANGED <<token, resolved>>
    <3>1. ~Requeue /\ ~Resolve /\ ~TriggerAlert
      BY <1>2, <1>3 DEF Requeue, Resolve, TriggerAlert
    <3>2. QED BY <3>1, ConsoleSteps DEF console
  <2>2. QED BY <1>2, <1>3, <2>1 DEF SentInItsCycle
<1>4. CASE item # "SENT"
  <2>1. PICK s \in Started : /\ Vouched(s)
                             /\ UNCHANGED <<token, resolved>>
                             /\ item = "WITHDRAWN" \/ token = 0 \/ sentFor[s] = token
    BY <1>2, <1>4, SentByTrueReport
  <2>2. item # "WITHDRAWN" /\ token # 0
    BY <1>2, <2>1 DEF WithdrawnIsResolved
  <2>3. QED BY <2>1, <2>2
<1>5. QED BY <1>3, <1>4

LEMMA TokensKept ==
    ASSUME TypeOK, TypeOK', ReportsAreTrue, TokensMinted, [Next]_vars
    PROVE  TokensMinted'
<1> DEFINE Listed(x) == x.at \in {"listed", "cleared"}
<1>1. token <= token' /\ (item' = "none" => item = "none")
  <2>1. CASE UNCHANGED console
    BY <2>1 DEF console, TypeOK
  <2>2. CASE Requeue \/ Resolve \/ TriggerAlert
    BY <2>2 DEF Requeue, Resolve, TriggerAlert, TypeOK
  <2>3. ASSUME NEW m \in Messages, item' = Verdict(m.report)[1] /\ UNCHANGED <<token, resolved>>
        PROVE  token <= token' /\ (item' = "none" => item = "none")
    <3>1. item' # "none"
      BY <2>3, VerdictForms
    <3>2. QED BY <2>3, <3>1 DEF TypeOK
  <2>4. QED BY <2>1, <2>2, <2>3, ConsoleSteps
\* A thread that lists after the step did so before, or has just been given the token.
<1>2. ASSUME \A t \in Threads : Listed(thread'[t]) =>
                \/ Listed(thread[t]) /\ thread'[t].token = thread[t].token
                \/ thread'[t].token <= token' /\ item' # "none"
      PROVE  \A t \in Threads : Listed(thread'[t]) => thread'[t].token <= token' /\ item' # "none"
  <2>1. \A t \in Threads : Listed(thread[t]) => thread[t].token \in Nat /\ thread[t].token <= token
    BY ThreadShape DEF TokensMinted
  <2>2. token \in Nat /\ token' \in Nat
    BY DEF TypeOK
  <2>3. QED BY <1>1, <1>2, <2>1, <2>2 DEF TokensMinted
<1>3. ASSUME NEW t \in Threads, NEW x, thread' = [thread EXCEPT ![t] = x],
             Listed(x) => \/ Listed(thread[t]) /\ x.token = thread[t].token
                          \/ x.token <= token' /\ item' # "none"
      PROVE  \A u \in Threads : Listed(thread'[u]) =>
                \/ Listed(thread[u]) /\ thread'[u].token = thread[u].token
                \/ thread'[u].token <= token' /\ item' # "none"
  BY <1>3 DEF TypeOK
<1> DEFINE Threads1 == \A t \in Threads : Listed(thread'[t]) => thread'[t].token <= token' /\ item' # "none"
           Sends1 == \A s \in Sends : sentFor'[s] <= token'
           None1 == item' = "none" => sends' = 0
<1>4. SUFFICES Threads1 /\ Sends1 /\ None1
  BY DEF TokensMinted
<1>5. Sends1 /\ None1
  <2>1. ASSUME UNCHANGED <<sentFor, sends>>
        PROVE  Sends1 /\ None1
    <3>0. sentFor \in [Sends -> Tokens]
      BY DEF TypeOK
    <3>1. \A s \in Sends : sentFor[s] \in Nat /\ sentFor[s] <= token
      BY <3>0 DEF TokensMinted
    <3>2. token \in Nat /\ token' \in Nat
      BY DEF TypeOK
    <3>3. QED BY <1>1, <2>1, <3>1, <3>2 DEF TokensMinted
  <2>2. ASSUME NEW t \in Threads, NEW divided \in BOOLEAN, SendAlert(t, divided)
        PROVE  Sends1 /\ None1
    <3>1. thread[t].token \in Tokens /\ thread[t].token <= token /\ item # "none"
      BY <2>2, ThreadShape DEF SendAlert, TokensMinted
    <3>2. UNCHANGED <<token, item>> /\ sentFor' = [sentFor EXCEPT ![sends + 1] = thread[t].token]
      BY <2>2 DEF SendAlert, console
    <3>3. QED BY <3>1, <3>2 DEF TokensMinted, TypeOK
  <2>3. ASSUME NEW t \in Threads, ThreadStep(t), \A divided \in BOOLEAN : ~SendAlert(t, divided)
        PROVE  UNCHANGED <<sentFor, sends>>
    BY <2>3 DEF ThreadStep, PlanRecovery, FetchPendingItems, CheckDeferred, SendAborted, DispatchTo,
                RecordImmediateFailure, FinishDispatch, FinalizeIfComplete, Finalize, FinalizeBatch,
                RecoverBatch, history
  <2>4. ASSUME \/ Requeue \/ Resolve \/ TriggerAlert \/ ResumeOver \/ Crash
               \/ \E s \in Sends : BatchStep(s)
               \/ \E p \in posts : HandleDeviceReceipt(p) \/ ReceiveAnswer(p) \/ PostFails(p)
               \/ \E m \in late : HandleLateReceipt(m)
               \/ UNCHANGED vars
        PROVE  UNCHANGED <<sentFor, sends>>
    BY <2>4 DEF Requeue, Resolve, TriggerAlert, ResumeOver, Crash, BatchStep, OnSendResult, OnWatchdog,
                PostReceipt, HandleDeviceReceipt, ReceiveAnswer, PostFails, HandleLateReceipt, vars,
                history
  <2>5. QED BY <2>1, <2>2, <2>3, <2>4 DEF Next
<1>6. ASSUME UNCHANGED thread
      PROVE  Threads1
  BY <1>2, <1>6
<1>7. ASSUME NEW t \in Threads, NEW x, thread' = [thread EXCEPT ![t] = x], ~Listed(x)
      PROVE  Threads1
  BY <1>2, <1>3, <1>7
<1>8. ASSUME Crash
      PROVE  Threads1
  BY <1>8 DEF Crash, Idle
<1>9. ASSUME \/ Requeue \/ Resolve
             \/ \E p \in posts : HandleDeviceReceipt(p) \/ ReceiveAnswer(p) \/ PostFails(p)
             \/ \E m \in late : HandleLateReceipt(m)
             \/ \E s \in Sends : PostReceipt(s)
             \/ UNCHANGED vars
      PROVE  UNCHANGED thread
  BY <1>9 DEF Requeue, Resolve, HandleDeviceReceipt, ReceiveAnswer, PostFails, HandleLateReceipt,
              PostReceipt, vars, memory
<1>10. ASSUME ResumeOver
       PROVE  Threads1
  BY <1>7, <1>10, MainThreads DEF ResumeOver, Idle
<1>11. ASSUME TriggerAlert
       PROVE  Threads1
  <2>1. PICK x : x = [at |-> "cleared", token |-> 0]
    OBVIOUS
  <2>2. thread' = [thread EXCEPT !["alert"] = x] /\ x.token = 0 /\ item' = "QUEUED"
    BY <1>11, <2>1 DEF TriggerAlert
  <2>3. 0 <= token'
    BY DEF TypeOK
  <2>4. QED BY <1>2, <1>3, <2>2, <2>3, MainThreads
<1>12. ASSUME NEW s \in Sends, \/ \E r \in Recipients, ok \in BOOLEAN : OnSendResult(s, r, ok)
                               \/ OnWatchdog(s)
       PROVE  Threads1
  <2>1. UNCHANGED thread \/ thread' = [thread EXCEPT !["main"] = [at |-> "checking", send |-> s]]
    BY <1>12 DEF OnSendResult, OnWatchdog, memory
  <2>2. ~Listed([at |-> "checking", send |-> s])
    OBVIOUS
  <2>3. QED BY <1>6, <1>7, <2>1, <2>2, MainThreads
<1>13. ASSUME NEW t \in Threads, ThreadStep(t)
       PROVE  Threads1
  <2>1. CASE \/ PlanRecovery(t) \/ SendAborted(t) \/ FinishDispatch(t) \/ FinalizeBatch(t)
             \/ FinalizeIfComplete(t) \/ Finalize(t)
             \/ \E divided \in BOOLEAN : SendAlert(t, divided)
    <3>1. thread' = [thread EXCEPT ![t] = thread'[t]] /\ ~Listed(thread'[t])
      BY <2>1 DEF PlanRecovery, SendAborted, FinishDispatch, FinalizeBatch, FinalizeIfComplete,
                  Finalize, SendAlert, Idle, TypeOK
    <3>2. PICK x : x = thread'[t]
      OBVIOUS
    <3>3. QED BY <1>7, <3>1, <3>2
  <2>2. CASE FetchPendingItems(t)
    <3>1. PICK x : x = IF item = "QUEUED" /\ ~resolved THEN [at |-> "listed", token |-> token] ELSE Idle
      OBVIOUS
    <3>2. thread' = [thread EXCEPT ![t] = x] /\ UNCHANGED <<item, token>>
      BY <2>2, <3>1 DEF FetchPendingItems, console
    <3>3. Listed(x) => x.token <= token' /\ item' # "none"
      BY <3>1, <3>2 DEF Idle, TypeOK
    <3>4. QED BY <1>2, <1>3, <3>2, <3>3
  <2>3. CASE CheckDeferred(t)
    <3>1. PICK x : x = [thread[t] EXCEPT !.at = "cleared"]
      OBVIOUS
    <3>2. x.token = thread[t].token /\ Listed(thread[t])
      <4>1. thread[t].at = "listed" /\ thread[t] \in Thread
        BY <2>3 DEF CheckDeferred, TypeOK
      <4>2. QED BY <3>1, <4>1 DEF Thread, Idle
    <3>3. thread' = [thread EXCEPT ![t] = x] \/ thread' = [thread EXCEPT ![t] = Idle]
      BY <2>3, <3>1 DEF CheckDeferred
    <3>4. ~Listed(Idle)
      BY DEF Idle
    <3>5. QED BY <1>2, <1>3, <1>7, <3>2, <3>3, <3>4
  <2>4. CASE \E r \in Recipients : DispatchTo(t, r) \/ RecordImmediateFailure(t, r)
    <3>1. PICK r \in Recipients : DispatchTo(t, r) \/ RecordImmediateFailure(t, r)
      BY <2>4
    <3>2. thread' = [thread EXCEPT ![t] = [thread[t] EXCEPT !.todo = @ \ {r}]]
      BY <3>1 DEF DispatchTo, RecordImmediateFailure
    <3>3. [thread[t] EXCEPT !.todo = @ \ {r}].at = "dispatching"
      BY <3>1 DEF DispatchTo, RecordImmediateFailure, TypeOK, Thread, Idle
    <3>4. QED BY <1>7, <3>2, <3>3
  <2>5. CASE \E s \in Sends : RecoverBatch(t, s)
    <3>1. PICK s \in Sends : RecoverBatch(t, s)
      BY <2>5
    <3>2. thread' = [thread EXCEPT ![t] = [thread[t] EXCEPT !.plan[s] = None]]
      BY <3>1 DEF RecoverBatch
    <3>3. [thread[t] EXCEPT !.plan[s] = None].at = "recovering"
      BY <3>1 DEF RecoverBatch, TypeOK, Thread, Idle
    <3>4. QED BY <1>7, <3>2, <3>3
  <2>6. QED BY <1>13, <2>1, <2>2, <2>3, <2>4, <2>5 DEF ThreadStep
<1>14. Threads1
  BY <1>6, <1>8, <1>9, <1>10, <1>11, <1>12, <1>13 DEF Next, BatchStep
<1>15. QED BY <1>5, <1>14

LEMMA AnswersKept ==
    ASSUME TypeOK, TypeOK', ReportsAreTrue, TokensMinted, AnswersAreFinal, [Next]_vars
    PROVE  AnswersAreFinal'
<1> DEFINE Owed(s) == item = "QUEUED" /\ sentFor[s] = token
           Final(p) == p.answer \in {"ok", "gone"}
<1>0. HistoryGrows /\ Started \subseteq Sends
  BY HistoryGrowsStep, StartedGrows
<1>1. \A p \in posts : p.message \in Messages /\ p.message.send \in Started
  BY DEF Messages, ReportsAreTrue, ReportIsTrue
\* What is not owed stays so.
<1>2. ASSUME NEW s \in Started, ~Owed(s)
      PROVE  ~(item' = "QUEUED" /\ sentFor'[s] = token')
  <2>1. sentFor'[s] = sentFor[s]
    BY <1>0 DEF HistoryGrows
  <2>2. CASE Requeue
    <3>1. sentFor[s] \in Nat /\ token \in Nat /\ sentFor[s] <= token /\ token' = token + 1
      BY <1>0, <2>2 DEF Requeue, TokensMinted, TypeOK
    <3>2. QED BY <2>1, <3>1
  <2>3. ~TriggerAlert
    BY <1>2, NothingBeforeTrigger DEF TriggerAlert
  <2>4. QED BY <1>2, <2>1, <2>2, <2>3, QueuedBefore
<1>3. ASSUME NEW p \in posts, Final(p)
      PROVE  ~(item' = "QUEUED" /\ sentFor'[p.message.send] = token')
  BY <1>1, <1>2, <1>3 DEF AnswersAreFinal
<1>4. ASSUME \A p \in posts' : Final(p) => p \in posts
      PROVE  AnswersAreFinal'
  BY <1>3, <1>4 DEF AnswersAreFinal
<1>5. ASSUME NEW p \in posts, HandleDeviceReceipt(p)
      PROVE  AnswersAreFinal'
  <2>1. PICK v : v = Verdict(p.message.report)
    OBVIOUS
  <2>2. PICK q : q = [p EXCEPT !.answer = v[2]]
    OBVIOUS
  <2>3. /\ item' = v[1] /\ posts' = (posts \ {p}) \cup {q} /\ UNCHANGED <<token, sentFor>>
    BY <1>5, <2>1, <2>2 DEF HandleDeviceReceipt, history
  <2>4. q.message = p.message /\ q.answer = v[2]
    BY <2>2 DEF TypeOK, Post
  <2>5. p.message.report.token = sentFor[p.message.send]
    BY <1>1 DEF ReportsAreTrue, ReportIsTrue
  <2>6. ~(item' = "QUEUED" /\ sentFor'[q.message.send] = token')
    BY <2>1, <2>3, <2>4, <2>5, VerdictForms
  <2>7. QED BY <1>3, <2>3, <2>6 DEF AnswersAreFinal
<1>6. ASSUME \/ \E p \in posts : ReceiveAnswer(p) \/ PostFails(p)
             \/ Crash
      PROVE  posts' \subseteq posts
  BY <1>6 DEF ReceiveAnswer, PostFails, Crash
<1>7. ASSUME NEW s \in Sends, PostReceipt(s)
      PROVE  \A p \in posts' : Final(p) => p \in posts
  BY <1>7 DEF PostReceipt
<1>8. ASSUME \/ Requeue \/ Resolve \/ TriggerAlert \/ ResumeOver
             \/ \E s \in Sends : OnWatchdog(s)
             \/ \E s \in Sends, r \in Recipients, ok \in BOOLEAN : OnSendResult(s, r, ok)
             \/ \E m \in late : HandleLateReceipt(m)
             \/ UNCHANGED vars
      PROVE  UNCHANGED posts
  BY <1>8 DEF Requeue, Resolve, TriggerAlert, ResumeOver, OnWatchdog, OnSendResult,
              HandleLateReceipt, vars, network
<1>9. ASSUME NEW t \in Threads, ThreadStep(t)
      PROVE  UNCHANGED posts
  BY <1>9 DEF ThreadStep, PlanRecovery, FetchPendingItems, CheckDeferred, SendAlert, SendAborted,
              DispatchTo, RecordImmediateFailure, FinishDispatch, FinalizeIfComplete, Finalize,
              FinalizeBatch, RecoverBatch, network
<1>10. QED BY <1>4, <1>5, <1>6, <1>7, <1>8, <1>9 DEF Next, BatchStep

\* Nothing leaves the disk but a batch for its receipt, and a receipt for an answer.
LEMMA NothingForgottenKept ==
    ASSUME TypeOK, TypeOK', ReportsAreTrue, TokensMinted, AnswersAreFinal, NothingForgotten,
           LoopsApart, [Next]_vars
    PROVE  NothingForgotten'
<1> DEFINE Kept(s) == batches[s] # None \/ receipts[s] # None
           KeptNext(s) == batches'[s] # None \/ receipts'[s] # None
<1>0. HistoryGrows /\ Started \subseteq Sends
  BY HistoryGrowsStep, StartedGrows
<1>1. SUFFICES ASSUME NEW s \in Started', item' = "QUEUED", sentFor'[s] = token'
               PROVE  KeptNext(s)
  BY DEF NothingForgotten
<1>2. s \in Sends
  BY DEF Started, TypeOK
<1>3. ASSUME NEW t \in Threads, NEW divided \in BOOLEAN, SendAlert(t, divided)
      PROVE  KeptNext(s)
  <2>1. PICK n : n = Roster(thread[t].token, divided)
    OBVIOUS
  <2>2. PICK z : z = sends + 1
    OBVIOUS
  <2>3. batches' = [batches EXCEPT ![z] = n] /\ sends' = z /\ z \in Sends
        /\ sentFor' = [sentFor EXCEPT ![z] = thread[t].token] /\ UNCHANGED <<receipts, item, token>>
    BY <1>3, <2>1, <2>2 DEF SendAlert, console
  <2>4. n # None
    BY <1>3, <2>1, ThreadShape, RosterForm, NoneIsNothing DEF SendAlert
  <2>5. CASE s = z
    BY <2>3, <2>4, <2>5 DEF TypeOK, Slots
  <2>6. CASE s # z
    <3>1. s \in Started
      BY <2>2, <2>3, <2>6 DEF Started, TypeOK
    <3>2. batches'[s] = batches[s] /\ sentFor'[s] = sentFor[s]
      BY <1>2, <2>3, <2>6 DEF TypeOK, Slots
    <3>3. QED BY <1>1, <2>3, <3>1, <3>2 DEF NothingForgotten
  <2>7. QED BY <2>5, <2>6
\* Otherwise the send is not new, and it was owed before.
<1>4. ASSUME \A t \in Threads, divided \in BOOLEAN : ~SendAlert(t, divided)
      PROVE  s \in Started /\ item = "QUEUED" /\ sentFor[s] = token /\ Kept(s)
  <2>1. UNCHANGED <<sends, sentFor>>
    <3>1. ASSUME NEW t \in Threads, ThreadStep(t)
          PROVE  UNCHANGED <<sends, sentFor>>
      BY <1>4, <3>1 DEF ThreadStep, PlanRecovery, FetchPendingItems, CheckDeferred, SendAborted,
            DispatchTo, RecordImmediateFailure, FinishDispatch, FinalizeIfComplete, Finalize, FinalizeBatch,
            RecoverBatch, history
    <3>2. ASSUME NEW z \in Sends, BatchStep(z)
          PROVE  UNCHANGED <<sends, sentFor>>
      BY <3>2 DEF BatchStep, OnSendResult, OnWatchdog, PostReceipt, history
    <3>3. QED BY <3>1, <3>2 DEF Next, Requeue, Resolve, TriggerAlert, ResumeOver, Crash,
                 HandleDeviceReceipt, ReceiveAnswer, PostFails, HandleLateReceipt, vars, history
  <2>2. s \in Started
    BY <2>1 DEF Started
  <2>3. ~Requeue
    <3>1. sentFor[s] \in Nat /\ token \in Nat /\ sentFor[s] <= token
      BY <1>2 DEF TokensMinted, TypeOK
    <3>2. QED BY <1>1, <2>1, <3>1 DEF Requeue
  <2>4. ~TriggerAlert
    BY <2>2, NothingBeforeTrigger DEF TriggerAlert
  <2>5. item = "QUEUED" /\ token' = token
    BY <1>1, <2>3, <2>4, QueuedBefore
  <2>6. QED BY <1>1, <2>1, <2>2, <2>5 DEF NothingForgotten
<1>5. ASSUME UNCHANGED durable, Kept(s)
      PROVE  KeptNext(s)
  BY <1>5 DEF durable
<1>6. ASSUME NEW z \in Sends, NEW n \in Batch, Kept(s), UNCHANGED receipts,
             live' = [live EXCEPT ![z] = n], PersistBatch(z)
      PROVE  KeptNext(s)
  <2>1. live'[z] = n
    BY <1>6 DEF TypeOK, Slots
  <2>2. batches' = [batches EXCEPT ![z] = n] \/ UNCHANGED batches
    BY <1>6, <2>1 DEF PersistBatch
  <2>3. QED BY <1>2, <1>6, <2>2, NoneIsNothing DEF TypeOK, Slots
<1>7. ASSUME NEW z \in Sends, NEW r \in Recipients, NEW ok \in BOOLEAN, OnSendResult(z, r, ok), Kept(s)
      PROVE  KeptNext(s)
  <2>1. UNCHANGED receipts
    BY <1>7 DEF OnSendResult
  <2>2. CASE UNCHANGED batches
    BY <1>7, <2>1, <2>2
  <2>3. CASE BatchOf(z) # None /\ live' = [live EXCEPT ![z] = Counted(BatchOf(z), r, ok)] /\ PersistBatch(z)
    <3>1. BatchOf(z) \in Batch
      BY <2>3 DEF BatchOf, TypeOK, Slots
    <3>2. Counted(BatchOf(z), r, ok) \in Batch
      BY <3>1, BatchForms
    <3>3. QED BY <1>6, <1>7, <2>1, <2>3, <3>2
  <2>4. QED BY <1>7, <2>2, <2>3 DEF OnSendResult
<1>8. ASSUME NEW z \in Sends, OnWatchdog(z), Kept(s)
      PROVE  KeptNext(s)
  <2>1. TimedOut(live[z]) \in Batch
    BY <1>8, TimedOutForm DEF OnWatchdog, TypeOK, Slots
  <2>2. live' = [live EXCEPT ![z] = TimedOut(live[z])] /\ PersistBatch(z) /\ UNCHANGED receipts
    BY <1>8 DEF OnWatchdog
  <2>3. QED BY <1>6, <1>8, <2>1, <2>2
<1>9. ASSUME NEW t \in Threads, NEW r \in Recipients, RecordImmediateFailure(t, r), Kept(s)
      PROVE  KeptNext(s)
  <2>1. PICK z : z = thread[t].send
    OBVIOUS
  <2>2. z \in Sends /\ live[z] # None
    BY <1>9, <2>1, ThreadShape DEF RecordImmediateFailure, LoopsApart
  <2>3. FailedAtOnce(live[z], r) \in Batch
    BY <2>2, BatchForms DEF TypeOK, Slots
  <2>4. live' = [live EXCEPT ![z] = FailedAtOnce(live[z], r)] /\ PersistBatch(z) /\ UNCHANGED receipts
    BY <1>9, <2>1 DEF RecordImmediateFailure
  <2>5. QED BY <1>6, <1>9, <2>2, <2>3, <2>4
<1>10. ASSUME NEW t \in Threads, FinalizeBatch(t), Kept(s)
       PROVE  KeptNext(s)
  <2>1. PICK z : z = thread[t].send
    OBVIOUS
  <2>2. PICK n : n = [token |-> thread[t].batch.token, failures |-> thread[t].batch.failures]
    OBVIOUS
  <2>3. thread[t].batch \in Batch
    BY <1>10, ThreadShape DEF FinalizeBatch
  <2>4. n # None
    BY <2>2, <2>3, NoneIsNothing DEF Batch, Receipt
  <2>5. \/ UNCHANGED durable
        \/ batches' = [batches EXCEPT ![z] = None] /\ receipts' = [receipts EXCEPT ![z] = n]
    BY <1>10, <2>1, <2>2 DEF FinalizeBatch
  <2>6. QED BY <1>2, <1>5, <1>10, <2>4, <2>5 DEF TypeOK, Slots
<1>11. ASSUME NEW t \in Threads, PlanRecovery(t), Kept(s)
       PROVE  KeptNext(s)
  <2>1. UNCHANGED receipts /\ (receipts[s] = None => batches'[s] = batches[s])
    BY <1>2, <1>11 DEF PlanRecovery
  <2>2. QED BY <1>11, <2>1
<1>12. ASSUME NEW p \in posts, ReceiveAnswer(p), Kept(s), item = "QUEUED", sentFor[s] = token
       PROVE  KeptNext(s)
  <2>1. p.answer \in {"ok", "gone"} => p.message.send # s
    BY <1>12 DEF AnswersAreFinal
  <2>2. UNCHANGED batches /\ receipts'[s] = receipts[s]
    BY <1>2, <1>12, <2>1 DEF ReceiveAnswer, TypeOK, Slots
  <2>3. QED BY <1>12, <2>2
<1>13. ASSUME NEW t \in Threads, \/ FetchPendingItems(t) \/ CheckDeferred(t) \/ SendAborted(t)
                                 \/ \E r \in Recipients : DispatchTo(t, r)
                                 \/ FinishDispatch(t) \/ FinalizeIfComplete(t) \/ Finalize(t)
                                 \/ \E z \in Sends : RecoverBatch(t, z)
       PROVE  UNCHANGED durable
  BY <1>13 DEF FetchPendingItems, CheckDeferred, SendAborted, DispatchTo, FinishDispatch,
               FinalizeIfComplete, Finalize, RecoverBatch
<1>14. ASSUME \/ Requeue \/ Resolve \/ TriggerAlert \/ ResumeOver \/ Crash
              \/ \E z \in Sends : PostReceipt(z)
              \/ \E p \in posts : HandleDeviceReceipt(p) \/ PostFails(p)
              \/ \E m \in late : HandleLateReceipt(m)
              \/ UNCHANGED vars
       PROVE  UNCHANGED durable
  BY <1>14 DEF Requeue, Resolve, TriggerAlert, ResumeOver, Crash, PostReceipt,
               HandleDeviceReceipt, PostFails, HandleLateReceipt, vars
<1>15. CASE \E t \in Threads, divided \in BOOLEAN : SendAlert(t, divided)
  BY <1>3, <1>15
<1>16. CASE \A t \in Threads, divided \in BOOLEAN : ~SendAlert(t, divided)
  <2>1. item = "QUEUED" /\ sentFor[s] = token /\ Kept(s)
    BY <1>4, <1>16
  <2>2. QED BY <1>5, <1>7, <1>8, <1>9, <1>10, <1>11, <1>12, <1>13, <1>14, <1>16, <2>1
            DEF Next, ThreadStep, BatchStep
<1>17. QED BY <1>15, <1>16

--------------------------------------------------------------------------------
(* Theorems.                                                               *)

LEMMA IndInvNext == IndInv /\ [Next]_vars => IndInv'
<1> SUFFICES ASSUME IndInv, [Next]_vars
             PROVE  IndInv'
  OBVIOUS
<1> USE DEF IndInv
<1>1. TypeOK'
  BY TypeKept
<1>2. CopiesAgree' /\ ReportsAreTrue' /\ HandedIsOver'
  BY <1>1, CopiesKept, ReportsKept, HandedKept
<1>3. DispatchedOnce'
  BY <1>1, PartsCountedKept, CompleteKept, LoopsKept, FinalizingKept DEF DispatchedOnce
<1>4. TokensMinted' /\ WithdrawnIsResolved' /\ AnswersAreFinal'
  BY <1>1, TokensKept, WithdrawnKept, AnswersKept
<1>5. SentMeansTexted' /\ SentInItsCycle'
  BY <1>1, SentMeansTextedKept, SentInItsCycleKept
<1>6. NothingForgotten'
  BY <1>1, NothingForgottenKept DEF DispatchedOnce
<1>7. QED BY <1>1, <1>2, <1>3, <1>4, <1>5, <1>6

LEMMA IndInvHolds == Spec => []IndInv
BY IndInvInit, IndInvNext, PTL DEF Spec

\* The stores, threads and counters of the handset and the console's row keep their
\* types.
THEOREM TypeCorrect == Spec => []TypeOK
BY IndInvHolds, PTL DEF IndInv

\* DispatchRoster and finalizeBatch: whatever died, raced, overlapped or came late, the
\* console shows SENT only when some send reached every recipient, or was taken out of memory
\* with results still owed, re-adopted between finalizeIfComplete's check and finalize.
THEOREM SentMeansTextedHolds == Spec => []SentMeansTexted
BY IndInvHolds, PTL DEF IndInv

\* POST /cas/incidents/:id/device-receipt: after a re-queue, receipts of superseded
\* batches do not make the item of an open incident SENT; what does is a send of the
\* current cycle that reached every recipient or was cut short as above.
THEOREM SentInItsCycleHolds == Spec => []SentInItsCycle
BY IndInvHolds, PTL DEF IndInv

\* ReceiptDurability: what was texted in the current cycle is on disk, as a batch or as a
\* receipt, until the console has its outcome.
THEOREM NothingForgottenHolds == Spec => []NothingForgotten
BY IndInvHolds, PTL DEF IndInv
================================================================================
