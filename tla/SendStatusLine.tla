---------------------------- MODULE SendStatusLine ----------------------------
(* The line under the Send button (MainActivity.kt, BatchOutcomeTracker.kt, the  *)
(* finalization of a batch in DeviceSmsSender.kt). Every attempt is a thread;    *)
(* everything else, results of the radio included, runs on the main thread.      *)
(* A batch has the number of the attempt that sent it, a re-queued one is 0.     *)
EXTENDS Integers

CONSTANTS
    Taps,      \* 1..n, bound: attempts of the Send button
    MaxOpens   \* bound: activities created

ASSUME TapsAssumption == Taps \subseteq Nat \ {0}

NoBatch == -1
Requeued == 0
Batches == Taps \cup {Requeued}

VARIABLES
    owner,      \* currentSendId
    recorded,   \* entries: batches with a final outcome
    shown,      \* shownSeqs: those whose outcome was handed out to be displayed
    batch,      \* DeviceSmsSender.batches: of each, none, out or over
    finalizing, \* the batch between record and the listener on the main thread, or NoBatch
    tap,        \* the attempts: where each is, its activity, what it found
    screen,     \* what the line of the activity on screen says
    opened,     \* how many activities were created; the newest is the one on screen
    live,       \* whether it is there
    leaving,    \* activities that were left and are not destroyed yet
    listener,   \* is batchOutcomeListener set
    alertInFlight, \* of the activity
    overlapped,    \* history: an attempt began while another one ran
    unwatched,  \* history: batches finalized without a listener
    raced       \* history: batches finalized between an attempt's look and what it posts

trackerVars == <<owner, recorded, shown>>
uiVars == <<screen, opened, live, leaving, listener, alertInFlight>>
lineVars == <<trackerVars, batch, finalizing, tap, uiVars, overlapped, unwatched, raced>>

EmptyLine == [of |-> NoBatch, kind |-> "empty"]
Line(a, k) == [of |-> a, kind |-> k]
Ongoing(a) == tap[a].pc \notin {"unused", "over"}
MainIsFree == finalizing = NoBatch

LineInit ==
    /\ owner = NoBatch /\ recorded = {} /\ shown = {}
    /\ batch = [b \in Batches |-> "none"] /\ finalizing = NoBatch
    /\ tap = [a \in Taps |-> [pc |-> "unused", at |-> 0, found |-> NoBatch]]
    /\ screen = EmptyLine /\ opened = 1 /\ live = TRUE /\ leaving = 0
    /\ listener = TRUE /\ alertInFlight = FALSE
    /\ overlapped = FALSE /\ unwatched = {} /\ raced = {}

(* --- an attempt ------------------------------------------------------------------ *)

\* Mutant of OwnerAtStart: a new attempt leaves the line to the one before.
OwnerKept == owner

\* beginAttempt.
OwnerAtStart == NoBatch

\* sendMvpAlert up to the start of its thread, when nothing keeps it from sending.
TapAlert(a) ==
    /\ MainIsFree /\ live /\ ~alertInFlight
    /\ tap[a].pc = "unused" /\ \A b \in Taps : b < a => tap[b].pc # "unused"
    /\ alertInFlight' = TRUE /\ owner' = OwnerAtStart
    /\ tap' = [tap EXCEPT ![a] = [pc |-> "sending", at |-> opened, found |-> NoBatch]]
    /\ screen' = Line(a, "sending")
    /\ overlapped' = (overlapped \/ \E b \in Taps : Ongoing(b))
    /\ UNCHANGED <<recorded, shown, batch, finalizing, opened, live, leaving, listener,
                   unwatched, raced>>

\* sendMvpAlert up to its early returns: an attempt is already in flight; or there is nobody to
\* text, or no permission to. The line says so, the attempt before still owns it.
RefuseTap ==
    /\ MainIsFree /\ live
    /\ screen' = Line(NoBatch, IF alertInFlight THEN "already sending" ELSE "not sent")
    /\ UNCHANGED <<trackerVars, batch, finalizing, tap, opened, live, leaving, listener,
                   alertInFlight, overlapped, unwatched, raced>>

Goes(a, from, to) == tap[a].pc = from /\ tap' = [tap EXCEPT ![a].pc = to]

\* sendAlert: every part is handed to the radio; when all failed at once or the radio
\* answered all of them by now, this thread finalizes the batch. A listener it calls finds
\* another owner. No batch at all: folded, nobody to text, send aborted.
SendBatch(a) ==
    /\ Goes(a, "sending", "sent")
    /\ \/ batch' = [batch EXCEPT ![a] = "out"] /\ UNCHANGED recorded
       \/ batch' = [batch EXCEPT ![a] = "over"] /\ recorded' = recorded \cup {a}
       \/ UNCHANGED <<batch, recorded>>
    /\ UNCHANGED <<owner, shown, finalizing, uiVars, overlapped, unwatched, raced>>

\* attemptSendId, null when there is no batch; an attempt folded into an active incident
\* does not get there.
Attribute(a) ==
    /\ Goes(a, "sent", "attributed")
    /\ owner' \in IF batch[a] = "none" THEN {NoBatch, owner} ELSE {a}
    /\ UNCHANGED <<recorded, shown, batch, finalizing, uiVars, overlapped, unwatched, raced>>

\* Mutant of Finalized: the dispatch summary is posted whatever has arrived.
NothingFinalized == FALSE

\* finalizedForCurrentAttempt # null.
Finalized == owner \in recorded

\* The finally block on the attempt's thread ...
Look(a) ==
    /\ tap[a].pc = "attributed"
    /\ tap' = [tap EXCEPT ![a].pc = "looked", ![a].found = IF Finalized THEN owner ELSE NoBatch]
    /\ shown' = IF Finalized THEN shown \cup {owner} ELSE shown
    /\ UNCHANGED <<owner, recorded, batch, finalizing, uiVars, overlapped, unwatched, raced>>

\* ... and what it posts to the main thread: for the activity the attempt began in.
Post(a) ==
    /\ MainIsFree /\ Goes(a, "looked", "over")
    /\ IF tap[a].at = opened
       THEN /\ alertInFlight' = FALSE
            /\ screen' = IF tap[a].found # NoBatch THEN Line(tap[a].found, "final")
                                              ELSE Line(a, "summary")
       ELSE UNCHANGED <<alertInFlight, screen>>
    /\ UNCHANGED <<trackerVars, batch, finalizing, opened, live, leaving, listener, overlapped,
                   unwatched, raced>>

(* --- the radio -------------------------------------------------------------------- *)

\* A re-queued delivery is sent by another thread.
SendRequeued ==
    /\ batch[Requeued] = "none"
    /\ batch' = [batch EXCEPT ![Requeued] = "out"]
    /\ UNCHANGED <<trackerVars, finalizing, tap, uiVars, overlapped, unwatched, raced>>

\* The last result, or the watchdog: publishBatchOutcome records the outcome ...
Finalize(b) ==
    /\ MainIsFree /\ batch[b] = "out"
    /\ batch' = [batch EXCEPT ![b] = "over"]
    /\ recorded' = recorded \cup {b}
    /\ finalizing' = b
    /\ raced' = IF \E a \in Taps : tap[a].pc = "looked" THEN raced \cup {b} ELSE raced
    /\ UNCHANGED <<owner, shown, tap, uiVars, overlapped, unwatched>>

\* Mutant of Showable: any outcome not shown before is displayed.
AnyFresh(b) == b \notin shown

\* showableOutcomeFor # null.
Showable(b) == b = owner /\ b \notin shown

\* ... and calls the listener.
Publish ==
    /\ finalizing # NoBatch
    /\ IF listener /\ Showable(finalizing)
       THEN /\ shown' = shown \cup {finalizing}
            /\ screen' = Line(finalizing, "final")
       ELSE UNCHANGED <<shown, screen>>
    /\ unwatched' = IF listener THEN unwatched ELSE unwatched \cup {finalizing}
    /\ finalizing' = NoBatch
    /\ UNCHANGED <<owner, recorded, batch, tap, opened, live, leaving, listener, alertInFlight,
                   overlapped,
                   raced>>

(* --- the activity ------------------------------------------------------------------- *)

\* resumeOutcome: shown once.
Resumable == owner \in recorded \ shown
ResumeOn(line) ==
    /\ shown' = IF Resumable THEN shown \cup {owner} ELSE shown
    /\ screen' = IF Resumable THEN Line(owner, "final") ELSE line

Resume ==
    /\ MainIsFree /\ live /\ ResumeOn(screen)
    /\ UNCHANGED <<owner, recorded, batch, finalizing, tap, opened, live, leaving, listener,
                   alertInFlight, overlapped, unwatched, raced>>

Leave ==
    /\ MainIsFree /\ live
    /\ live' = FALSE /\ leaving' = leaving + 1
    /\ UNCHANGED <<trackerVars, batch, finalizing, tap, screen, opened, listener, alertInFlight,
                   overlapped, unwatched, raced>>

\* onDestroy of an activity left before: it drops the listener, whoever set it.
Destroy ==
    /\ MainIsFree /\ leaving > 0
    /\ leaving' = leaving - 1 /\ listener' = FALSE
    /\ UNCHANGED <<trackerVars, batch, finalizing, tap, screen, opened, live, alertInFlight,
                   overlapped, unwatched, raced>>

\* onCreate and onResume.
Open ==
    /\ MainIsFree /\ ~live /\ opened < MaxOpens
    /\ opened' = opened + 1 /\ live' = TRUE /\ listener' = TRUE /\ alertInFlight' = FALSE
    /\ ResumeOn(EmptyLine)
    /\ UNCHANGED <<owner, recorded, batch, finalizing, tap, leaving, overlapped, unwatched,
                   raced>>

LineNext ==
    \/ \E a \in Taps : TapAlert(a) \/ SendBatch(a) \/ Attribute(a) \/ Look(a) \/ Post(a)
    \/ RefuseTap \/ SendRequeued \/ Publish
    \/ \E b \in Batches : Finalize(b)
    \/ Resume \/ Leave \/ Destroy \/ Open

LineSpec == LineInit /\ [][LineNext]_lineVars

(* --- properties ------------------------------------------------------------------------ *)

(* An outcome that was handed out for display is not covered by the dispatch     *)
(* summary of its own attempt ("awaiting radio results"), unless it came in       *)
(* between the attempt's look at the tracker and the turn of what it posted to    *)
(* the main thread (the finally block of sendMvpAlert). Attempts that overlap     *)
(* through a recreated activity take the line from each other.                    *)
FinalWins == screen.kind = "summary" => overlapped \/ screen.of \notin shown \ raced

(* No outcome but the newest attempt's appears: neither a re-queued delivery's   *)
(* nor that of an attempt before it (BatchOutcomeTracker). A tap that is refused *)
(* is no attempt: what it says gives way to the newest attempt's late outcome.   *)
(* Attempts that overlapped through a recreated activity take the line from each *)
(* other.                                                                        *)
NoMisattribution ==
    screen.kind = "final" =>
        \/ overlapped
        \/ screen.of \in Taps /\ \A a \in Taps : a > screen.of => tap[a].pc = "unused"

(* An attempt that is over and whose batch is final has had its outcome handed   *)
(* out for display, whether the radio was faster than the attempt's own summary  *)
(* or slower; only an outcome that came while no listener was set waits for the  *)
(* next resume (BatchOutcomeTracker.finalizedForCurrentAttempt).                 *)
FinalIsNotMissed ==
    \A a \in Taps \ unwatched :
        tap[a].pc = "over" /\ a = owner /\ a \in recorded /\ finalizing # a => a \in shown

\* The line under the Send button shows the outcome of the newest attempt.
LineIsTrue == FinalWins /\ NoMisattribution /\ FinalIsNotMissed
=============================================================================
