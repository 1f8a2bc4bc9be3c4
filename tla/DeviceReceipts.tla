----------------------------- MODULE DeviceReceipts -----------------------------
(***************************************************************************)
(* Device-direct SMS: the handset texts the responders over its own SIM    *)
(* and reports the outcome to the console (DeviceSmsSender.kt with its     *)
(* durable core ReceiptDurability.kt, and the console half of routes/cas.ts*)
(* that it talks to).  One incident, whose SMS item the handset delivers.  *)
(*                                                                         *)
(* A send is a batch: it is persisted before the first part goes to the    *)
(* radio, updated by each radio result, and handed over to a receipt that  *)
(* is retried until the console answers 2xx or 410.  The alert thread and  *)
(* any number of "check re-queued" threads run at the same time as radio   *)
(* callbacks, watchdog timers, recovery after a restart and receipt posts. *)
(* A process death erases everything but the two persisted maps.  Requests *)
(* and answers may be delayed or lost.  A definition marked "Mutant of X"  *)
(* is X with a bug it could have had; no behaviour uses it.                *)
(***************************************************************************)
EXTENDS Naturals, FiniteSets

CONSTANTS
    Recipients,     \* the responders the alert goes to
    Parts,          \* SMS segments per recipient
    Checks,         \* threads started by the "check re-queued" button
    MaxSends,       \* bound: batches started in a behaviour
    MaxRequeues,    \* bound: operator re-queues
    MaxMishaps,     \* bound: process deaths, failed writes and late requests
    MaxOverlaps     \* bound: recoveries that read a batch still in memory

ASSUME PartsPositive == Parts \in Nat \ {0}
ASSUME BoundsAreNat == {MaxSends, MaxRequeues, MaxMishaps, MaxOverlaps} \subseteq Nat
ASSUME ChecksAreNew == Checks \cap {"main", "alert"} = {}

Sends == 1..MaxSends

\* The main thread runs radio callbacks, watchdogs and the recovery of onResume.
Threads == {"main", "alert"} \cup Checks

VARIABLES
    item,       \* the console's SMS row: its state
    token,      \* its device_cycle_token, 0 for null
    resolved,   \* the incident is resolved
    batches,    \* persisted unfinished batches ("sms_batches")
    receipts,   \* persisted receipts not yet accepted ("pending_receipts")
    live,       \* in-memory batches
    complete,   \* in-memory batches whose dispatch loop is over
    thread,     \* what each thread is doing
    posts,      \* receipt posts under way, with the console's answer if it came
    late,       \* requests nobody waits for, which may still reach the console
    radio,      \* parts handed to the radio, their results owed
    okParts,    \* parts the radio sent, per send and recipient
    sentFor,    \* the cycle token each send was started for
    sends,      \* number of sends started
    cutShort,   \* sends whose batch went into a receipt with results still owed
    mishaps,    \* number of mishaps so far
    overlaps    \* number of overlapping recoveries so far

console == <<item, token, resolved>>
durable == <<batches, receipts>>
network == <<posts, late>>
history == <<okParts, sentFor, sends, cutShort, overlaps>>
memory == <<live, complete, thread>>

vars == <<console, durable, memory, network, radio, history, mishaps>>

--------------------------------------------------------------------------------

Tokens == 0..MaxRequeues

\* An empty slot of a map.
None == [none |-> TRUE]

\* PendingBatch: parts without a result yet, and the recipients that failed.
Batch == [token : Tokens, remaining : [Recipients -> 0..Parts],
          failures : SUBSET Recipients]

\* PendingReceipt, the payload of a report, carries the batch's results.
Receipt == [token : Tokens, failures : SUBSET Recipients]

Message == [send : Sends, report : Receipt]

\* A post: what it says, and the answer it has got.
Post == [message : Message, answer : {"awaited", "ok", "gone", "conflict"}]

Idle == [at |-> "idle"]

Slots(S) == [Sends -> S \cup {None}]

Empty == [s \in Sends |-> None]

\* sendRequeued and sendAlert, finalizeIfComplete and finalize, and recovery.
Thread == {Idle}
    \cup [at : {"listed", "cleared"}, token : Tokens]
    \cup [at : {"dispatching"}, send : Sends, todo : SUBSET Recipients]
    \cup [at : {"checking", "finalizing"}, send : Sends]
    \cup [at : {"handing"}, send : Sends, batch : Batch]
    \cup [at : {"recovering"}, plan : Slots(Batch)]

Zero == [s \in Sends |-> [r \in Recipients |-> 0]]

Started == 1..sends

Init ==
    /\ item = "none" /\ token = 0 /\ resolved = FALSE
    /\ batches = Empty /\ receipts = Empty
    /\ live = Empty /\ complete = {}
    /\ thread = [t \in Threads |-> Idle]
    /\ posts = {} /\ late = {}
    /\ radio = Zero /\ okParts = Zero
    /\ sentFor = [s \in Sends |-> 0]
    /\ sends = 0 /\ cutShort = {}
    /\ mishaps = 0 /\ overlaps = 0

--------------------------------------------------------------------------------
(* Console: operators and responders.                                      *)

\* POST /cas/outbox/:id/requeue mints a fresh cycle token.
Requeue ==
    /\ item = "DEAD_LETTER"
    /\ ~resolved
    /\ token < MaxRequeues
    /\ item' = "QUEUED"
    /\ token' = token + 1
    /\ UNCHANGED <<resolved, durable, memory, network, radio, history, mishaps>>

Resolve ==
    /\ item # "none"
    /\ ~resolved
    /\ resolved' = TRUE
    /\ item' = IF item = "QUEUED" THEN "WITHDRAWN" ELSE item
    /\ UNCHANGED <<token, durable, memory, network, radio, history, mishaps>>

\* Mutant of Verdict: the cycle token of the receipt is not looked at.
VerdictOfAnyCycle(report) ==
    CASE item \in {"SENT", "DEAD_LETTER"} ->
            <<item, IF item = "SENT" THEN "ok" ELSE "conflict">>
      [] OTHER -> <<IF report.failures = {} THEN "SENT"
                    ELSE IF item = "QUEUED" THEN "DEAD_LETTER" ELSE item, "ok">>

\* Which state the receipt leaves the item in, and how the console answers.
Verdict(report) ==
    CASE item = "SENT" -> <<"SENT", "ok">>
      [] item = "WITHDRAWN" ->
            <<IF report.failures = {} THEN "SENT" ELSE "WITHDRAWN", "ok">>
      [] item = "DEAD_LETTER" -> <<"DEAD_LETTER", "conflict">>
      [] item = "QUEUED" /\ token # 0 /\ report.token # token -> <<"QUEUED", "gone">>
      [] OTHER ->
            <<IF report.failures = {} THEN "SENT" ELSE "DEAD_LETTER", "ok">>

\* POST /cas/incidents/:id/device-receipt.
HandleDeviceReceipt(p) ==
    /\ p \in posts /\ p.answer = "awaited"
    /\ item' = Verdict(p.message.report)[1]
    /\ posts' = (posts \ {p})
                   \cup {[p EXCEPT !.answer = Verdict(p.message.report)[2]]}
    /\ UNCHANGED <<token, resolved, durable, memory, late, radio, history, mishaps>>

\* The same, for a request the handset has given up or died on.
HandleLateReceipt(m) ==
    /\ m \in late
    /\ item' = Verdict(m.report)[1]
    /\ late' = late \ {m}
    /\ UNCHANGED <<token, resolved, durable, memory, posts, radio, history, mishaps>>

--------------------------------------------------------------------------------
(* The sending threads.                                                    *)

\* The alert thread's trigger POST succeeds: the console has queued the item, and
\* the thread goes on to fetch the capture policy before it texts anybody.
TriggerAlert ==
    /\ item = "none"
    /\ thread["alert"] = Idle
    /\ item' = "QUEUED"
    /\ thread' = [thread EXCEPT !["alert"] = [at |-> "cleared", token |-> 0]]
    /\ UNCHANGED <<token, resolved, durable, live, complete,
                   network, radio, history, mishaps>>

\* sendRequeued, after a recovery, asks for the device-pending list.
FetchPendingItems(t) ==
    /\ t \in Checks
    /\ thread[t] = [at |-> "recovering", plan |-> Empty]
    /\ thread' = [thread EXCEPT ![t] = IF item = "QUEUED" /\ ~resolved
                                      THEN [at |-> "listed", token |-> token]
                                      ELSE Idle]
    /\ UNCHANGED <<console, durable, live, complete, network, radio, history,
                   mishaps>>

\* The handset still owes the incident an answer.
DeferRequeue ==
    \E s \in Sends : live[s] # None \/ batches[s] # None \/ receipts[s] # None

\* With the list in hand, sendRequeued looks for unfinished batches and receipts.
CheckDeferred(t) ==
    /\ thread[t].at = "listed"
    /\ thread' = [thread EXCEPT ![t] = IF DeferRequeue THEN Idle
                                                       ELSE [@ EXCEPT !.at = "cleared"]]
    /\ UNCHANGED <<console, durable, live, complete, network,
                   radio, history, mishaps>>

\* Mutant of Roster: parts are counted only when they are handed to the radio.
RosterUncounted(tok, divided) ==
    [token |-> tok, remaining |-> [r \in Recipients |-> 0],
     failures |-> IF divided THEN {} ELSE Recipients]

\* The roster sendAlert persists: all parts owed, or a body that cannot be divided.
Roster(tok, divided) ==
    [token |-> tok,
     remaining |-> [r \in Recipients |-> IF divided THEN Parts ELSE 0],
     failures |-> IF divided THEN {} ELSE Recipients]

\* sendAlert, up to the durable record.
SendAlert(t, divided) ==
    LET s == sends + 1
        batch == Roster(thread[t].token, divided) IN
    /\ thread[t].at = "cleared"
    /\ s \in Sends
    /\ batches' = [batches EXCEPT ![s] = batch]
    /\ live' = [live EXCEPT ![s] = batch]
    /\ thread' = [thread EXCEPT ![t] =
                     [at |-> "dispatching", send |-> s,
                      todo |-> IF divided THEN Recipients ELSE {}]]
    /\ sends' = s
    /\ sentFor' = [sentFor EXCEPT ![s] = thread[t].token]
    /\ UNCHANGED <<console, receipts, complete, network, radio,
                   okParts, cutShort, overlaps, mishaps>>

\* No permission, no numbers, or the record did not reach disk: nothing is sent.
SendAborted(t) ==
    /\ thread[t].at = "cleared"
    /\ thread' = [thread EXCEPT ![t] = Idle]
    /\ UNCHANGED <<console, durable, live, complete, network,
                   radio, history, mishaps>>

\* Something inconvenient happens that the bound still allows.
Mishap == mishaps < MaxMishaps /\ mishaps' = mishaps + 1

\* persistBatch: a failed write is journaled and otherwise ignored.
PersistBatch(s) ==
    \/ batches' = [batches EXCEPT ![s] = live'[s]] /\ UNCHANGED mishaps
    \/ UNCHANGED batches /\ Mishap

\* One turn of the dispatch loop: hand the parts to the radio...
DispatchTo(t, r) ==
    /\ thread[t].at = "dispatching" /\ r \in thread[t].todo
    /\ thread' = [thread EXCEPT ![t].todo = @ \ {r}]
    /\ radio' = [radio EXCEPT ![thread[t].send][r] = Parts]
    /\ UNCHANGED <<console, durable, live, complete, network,
                   history, mishaps>>

\* The recipient's text never got to the radio.
FailedAtOnce(b, r) == [b EXCEPT !.remaining[r] = 0, !.failures = @ \cup {r}]

\* ... or fail at once (recordImmediateFailure).
RecordImmediateFailure(t, r) ==
    LET s == thread[t].send IN
    /\ thread[t].at = "dispatching" /\ r \in thread[t].todo
    /\ thread' = [thread EXCEPT ![t].todo = @ \ {r}]
    /\ live' = [live EXCEPT ![s] = FailedAtOnce(live[s], r)]
    /\ PersistBatch(s)
    /\ UNCHANGED <<console, receipts, complete, network, radio,
                   history>>

FinishDispatch(t) ==
    /\ thread[t].at = "dispatching" /\ thread[t].todo = {}
    /\ complete' = complete \cup {thread[t].send}
    /\ thread' = [thread EXCEPT ![t] = [at |-> "checking", send |-> thread[t].send]]
    /\ UNCHANGED <<console, durable, live, network, radio, history, mishaps>>

--------------------------------------------------------------------------------
(* Radio results, watchdogs and the hand-over to a receipt.                *)

AllOver(b) == \A r \in Recipients : b.remaining[r] = 0

\* The batch a radio result is about: in memory, or rehydrated from its record.
BatchOf(s) == IF live[s] # None THEN live[s] ELSE batches[s]

\* Mutant of Counted: a result after the watchdog counts below zero.
CountedBelowZero(b, r, ok) ==
    [b EXCEPT !.remaining[r] = @ - 1,
              !.failures = IF ok THEN @ ELSE @ \cup {r}]

\* One part less to wait for, never below zero; the first failure is kept.
Counted(b, r, ok) ==
    [b EXCEPT !.remaining[r] = IF @ = 0 THEN 0 ELSE @ - 1,
              !.failures = IF ok THEN @ ELSE @ \cup {r}]

\* onSendResult; a result may restart the process, and one nobody waits for is
\* dropped.
OnSendResult(s, r, ok) ==
    /\ thread["main"] = Idle
    /\ radio[s][r] > 0
    /\ radio' = [radio EXCEPT ![s][r] = @ - 1]
    /\ okParts' = [okParts EXCEPT ![s][r] = IF ok THEN @ + 1 ELSE @]
    /\ \/ /\ BatchOf(s) = None
          /\ UNCHANGED <<memory, batches, mishaps>>
       \/ /\ BatchOf(s) # None
          /\ live' = [live EXCEPT ![s] = Counted(BatchOf(s), r, ok)]
          /\ complete' = IF live[s] = None THEN complete \cup {s} ELSE complete
          /\ thread' = [thread EXCEPT !["main"] = [at |-> "checking", send |-> s]]
          /\ PersistBatch(s)
    /\ UNCHANGED <<console, receipts, network, sentFor, sends, cutShort, overlaps>>

\* What has no result by now counts as failed.
TimedOut(b) ==
    [b EXCEPT !.remaining = [r \in Recipients |-> 0],
              !.failures = @ \cup {r \in Recipients : b.remaining[r] > 0}]

\* onWatchdog, 45 s later.
OnWatchdog(s) ==
    /\ thread["main"] = Idle
    /\ live[s] # None
    /\ s \in complete
    /\ live' = [live EXCEPT ![s] = TimedOut(live[s])]
    /\ thread' = [thread EXCEPT !["main"] = [at |-> "checking", send |-> s]]
    /\ PersistBatch(s)
    /\ UNCHANGED <<console, receipts, complete, network, radio, history>>

\* finalizeIfComplete: under the lock, is the batch complete?
FinalizeIfComplete(t) ==
    LET s == thread[t].send
        done == live[s] # None /\ s \in complete /\ AllOver(live[s]) IN
    /\ thread[t].at = "checking"
    /\ thread' = [thread EXCEPT ![t] = IF done THEN [at |-> "finalizing", send |-> s]
                                              ELSE Idle]
    /\ UNCHANGED <<console, durable, live, complete, network, radio, history, mishaps>>

\* finalize takes the lock again and removes the batch that is there by now, which
\* another thread may have finalized and a recovery re-adopted from an older record.
Finalize(t) ==
    LET s == thread[t].send IN
    /\ thread[t].at = "finalizing"
    /\ thread' = [thread EXCEPT ![t] =
                     IF live[s] = None THEN Idle
                     ELSE [at |-> "handing", send |-> s, batch |-> live[s]]]
    /\ live' = [live EXCEPT ![s] = None]
    /\ complete' = complete \ {s}
    /\ cutShort' = cutShort \cup {x \in {s} : live[x] # None /\ ~AllOver(live[x])}
    /\ UNCHANGED <<console, durable, network, radio, okParts, sentFor, sends,
                   overlaps, mishaps>>

\* Mutant of FinalizeBatch: dropping the batch and enqueueing the receipt are two
\* writes, and the second may fail.
FinalizeBatchInTwoWrites(t) ==
    LET s == thread[t].send
        batch == thread[t].batch IN
    /\ thread[t].at = "handing"
    /\ thread' = [thread EXCEPT ![t] = Idle]
    /\ batches' = [batches EXCEPT ![s] = None]
    /\ \/ UNCHANGED receipts /\ Mishap
       \/ /\ UNCHANGED mishaps
          /\ receipts' = [receipts EXCEPT ![s] =
                             [token |-> batch.token, failures |-> batch.failures]]
    /\ UNCHANGED <<console, live, complete, network, radio, history>>

\* finalizeBatch: the receipt is enqueued and the batch dropped in one write,
\* which may fail; recovery will then find the batch again.
FinalizeBatch(t) ==
    LET s == thread[t].send
        batch == thread[t].batch IN
    /\ thread[t].at = "handing"
    /\ thread' = [thread EXCEPT ![t] = Idle]
    /\ \/ UNCHANGED durable /\ Mishap
       \/ /\ UNCHANGED mishaps
          /\ batches' = [batches EXCEPT ![s] = None]
          /\ receipts' = [receipts EXCEPT ![s] =
                             [token |-> batch.token, failures |-> batch.failures]]
    /\ UNCHANGED <<console, live, complete, network, radio, history>>

--------------------------------------------------------------------------------
(* Recovery on app resume and before a re-queue check.                     *)

\* The batch is in memory, or on its way from memory to a receipt.
InHand(s) ==
    live[s] # None \/ \E t \in Threads : thread[t].at = "handing" /\ thread[t].send = s

\* planRecovery and applyRecoveryDrops, by onResume or a re-queue check.
PlanRecovery(t) ==
    LET resume == {s \in Sends : batches[s] # None /\ receipts[s] = None}
        kept == [s \in Sends |-> IF s \in resume THEN batches[s] ELSE None] IN
    /\ t # "alert"
    /\ thread[t] = Idle
    /\ thread' = [thread EXCEPT ![t] = [at |-> "recovering", plan |-> kept]]
    /\ batches' = kept
    /\ IF \E s \in resume : InHand(s)
       THEN overlaps < MaxOverlaps /\ overlaps' = overlaps + 1
       ELSE UNCHANGED overlaps
    /\ UNCHANGED <<console, receipts, live, complete, network, radio, okParts,
                   sentFor, sends, cutShort, mishaps>>

\* Mutant of RecoverBatch: a batch with nothing left to wait for is skipped.
RecoverOwedBatch(t, s) ==
    /\ thread[t].at = "recovering" /\ thread[t].plan[s] # None
    /\ thread' = [thread EXCEPT ![t].plan[s] = None]
    /\ IF live[s] = None /\ ~AllOver(thread[t].plan[s])
       THEN /\ live' = [live EXCEPT ![s] = thread[t].plan[s]]
            /\ complete' = complete \cup {s}
       ELSE UNCHANGED <<live, complete>>
    /\ UNCHANGED <<console, durable, network, radio, history, mishaps>>

\* One turn of recoverUnfinishedBatches' loop over the plan.
RecoverBatch(t, s) ==
    /\ thread[t].at = "recovering" /\ thread[t].plan[s] # None
    /\ thread' = [thread EXCEPT ![t].plan[s] = None]
    /\ IF live[s] = None
       THEN /\ live' = [live EXCEPT ![s] = thread[t].plan[s]]
            /\ complete' = complete \cup {s}
       ELSE UNCHANGED <<live, complete>>
    /\ UNCHANGED <<console, durable, network, radio, history, mishaps>>

ResumeOver ==
    /\ thread["main"] = [at |-> "recovering", plan |-> Empty]
    /\ thread' = [thread EXCEPT !["main"] = Idle]
    /\ UNCHANGED <<console, durable, live, complete, network, radio, history, mishaps>>

--------------------------------------------------------------------------------
(* Receipt posts.                                                          *)

Waits(s) == \E p \in posts : p.message.send = s

\* postReceipt, right after finalizeBatch or from retryPendingReceipts.
PostReceipt(s) ==
    /\ receipts[s] # None
    /\ ~Waits(s)
    /\ posts' = posts \cup {[message |-> [send |-> s, report |-> receipts[s]],
                             answer |-> "awaited"]}
    /\ UNCHANGED <<console, durable, memory, late, radio, history, mishaps>>

\* Any 2xx, and 410, drop the stored receipt; other answers keep it.
ReceiveAnswer(p) ==
    /\ p \in posts /\ p.answer # "awaited"
    /\ posts' = posts \ {p}
    /\ receipts' = IF p.answer \in {"ok", "gone"}
                   THEN [receipts EXCEPT ![p.message.send] = None]
                   ELSE receipts
    /\ UNCHANGED <<console, batches, memory, late, radio, history, mishaps>>

Awaited(Q) == {p.message : p \in {q \in Q : q.answer = "awaited"}}

\* No route, no credential or no answer in 10 s: request or answer is lost, or the
\* request is still on its way.
PostFails(p) ==
    /\ p \in posts
    /\ posts' = posts \ {p}
    /\ \/ UNCHANGED <<late, mishaps>>
       \/ late' = late \cup Awaited({p}) /\ Mishap
    /\ UNCHANGED <<console, durable, memory, radio, history>>

\* The process dies: memory and waiting threads are gone.
Crash ==
    /\ Mishap
    /\ live' = Empty /\ complete' = {}
    /\ thread' = [t \in Threads |-> Idle]
    /\ posts' = {}
    /\ late' = late \cup Awaited(posts)
    /\ UNCHANGED <<console, durable, radio, history>>

--------------------------------------------------------------------------------

ThreadStep(t) ==
    \/ PlanRecovery(t)
    \/ FetchPendingItems(t)
    \/ CheckDeferred(t)
    \/ \E divided \in BOOLEAN : SendAlert(t, divided)
    \/ SendAborted(t)
    \/ \E r \in Recipients : DispatchTo(t, r) \/ RecordImmediateFailure(t, r)
    \/ FinishDispatch(t)
    \/ FinalizeIfComplete(t)
    \/ Finalize(t)
    \/ FinalizeBatch(t)
    \/ \E s \in Sends : RecoverBatch(t, s)

BatchStep(s) ==
    \/ \E r \in Recipients, ok \in BOOLEAN : OnSendResult(s, r, ok)
    \/ OnWatchdog(s)
    \/ PostReceipt(s)

Next ==
    \/ Requeue \/ Resolve \/ TriggerAlert \/ ResumeOver \/ Crash
    \/ \E t \in Threads : ThreadStep(t)
    \/ \E s \in Sends : BatchStep(s)
    \/ \E p \in posts : HandleDeviceReceipt(p) \/ ReceiveAnswer(p) \/ PostFails(p)
    \/ \E m \in late : HandleLateReceipt(m)

Spec == Init /\ [][Next]_vars

\* The process keeps being scheduled, the owner keeps opening the app, and a post
\* that is tried again and again gets through.
Fairness ==
    /\ \A t \in Threads :
          /\ WF_vars(\E r \in Recipients : DispatchTo(t, r) \/ RecordImmediateFailure(t, r))
          /\ WF_vars(FinishDispatch(t))
          /\ WF_vars(FinalizeIfComplete(t))
          /\ WF_vars(Finalize(t))
          /\ WF_vars(FinalizeBatch(t))
          /\ WF_vars(\E s \in Sends : RecoverBatch(t, s))
    /\ SF_vars(PlanRecovery("main")) /\ WF_vars(ResumeOver)
    /\ \A s \in Sends :
          /\ SF_vars(OnWatchdog(s))
          /\ WF_vars(PostReceipt(s))
          /\ SF_vars(\E p \in posts : p.message.send = s /\ HandleDeviceReceipt(p))

FairSpec == Spec /\ Fairness

--------------------------------------------------------------------------------
(* Correctness.                                                            *)

TypeOK ==
    /\ item \in {"none", "QUEUED", "SENT", "DEAD_LETTER", "WITHDRAWN"}
    /\ token \in Tokens /\ resolved \in BOOLEAN
    /\ {batches, live} \subseteq Slots(Batch)
    /\ receipts \in Slots(Receipt)
    /\ complete \subseteq Sends
    /\ thread \in [Threads -> Thread]
    /\ posts \subseteq Post /\ late \subseteq Message
    /\ {radio, okParts} \subseteq [Sends -> [Recipients -> 0..Parts]]
    /\ sentFor \in [Sends -> Tokens]
    /\ sends \in 0..MaxSends /\ cutShort \subseteq Sends /\ mishaps \in 0..MaxMishaps
    /\ overlaps \in 0..MaxOverlaps

\* Every part of every recipient's text left the SIM.
ReachedAll(s) == \A r \in Recipients : okParts[s][r] = Parts

\* A report of send s without a failure is as good as the code makes it: everybody was
\* texted, unless the completeness check of finalizeIfComplete was stale when finalize
\* removed the batch.
Vouched(s) == ReachedAll(s) \/ s \in cutShort

\* The console shows SENT only when some send reached every responder, whatever
\* died, raced or arrived late on the handset (DispatchRoster's comment: a process
\* death mid-dispatch can never become an all-success receipt).  The one exception
\* is the send that finalize took out of memory with results owed.
SentMeansTexted == item = "SENT" => \E s \in Started : Vouched(s)

\* After a re-queue only a send of the new delivery cycle can make an open
\* incident's item SENT: receipts of superseded batches change nothing.  It reached
\* every responder, with the same exception.
SentInItsCycle ==
    item = "SENT" /\ ~resolved /\ token > 0 =>
        \E s \in Started : sentFor[s] = token /\ Vouched(s)

\* What the handset texted is never forgotten before the console has the outcome:
\* while the item is QUEUED in the cycle a send was started for, the send's batch
\* or its receipt is on disk (finalizeBatch: never neither).
NothingForgotten ==
    \A s \in Started :
        item = "QUEUED" /\ sentFor[s] = token => batches[s] # None \/ receipts[s] # None

\* A delivered alert does not look undelivered forever: once a send has started
\* the item leaves QUEUED, or a later cycle begins.
SendIsReported ==
    \A s \in Sends :
        (s <= sends /\ item = "QUEUED" /\ sentFor[s] = token)
            ~> ~(item = "QUEUED" /\ sentFor[s] = token)

\* sendRequeued's comment: an item whose SMS may already have left is skipped,
\* because re-sending it would double-text the responder.
NoDoubleText ==
    \A s1, s2 \in Started :
        s1 # s2 /\ sentFor[s1] = sentFor[s2] => 
            ~\E r \in Recipients : okParts[s1][r] > 0 /\ okParts[s2][r] > 0
================================================================================
