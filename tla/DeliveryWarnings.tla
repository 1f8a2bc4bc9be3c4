--------------------------- MODULE DeliveryWarnings ---------------------------
(* "Is the delivery pipeline in trouble?": the worker's heartbeat                  *)
(* (lib/cas-outbox-status.ts, filled by lib/cas-outbox-worker.ts), the status      *)
(* route of routes/cas.ts, and the console that polls it                           *)
(* (hooks/use-outbox-status.ts) and derives its warnings (lib/outbox-warnings.ts). *)
(*                                                                                 *)
(* Time runs in poll periods.  The page derives its warnings when it renders,      *)
(* which it does when a poll is answered and not in between, so `warnings` is what *)
(* it shows; an answer's way back takes no time beside a period, the wait for it    *)
(* may.  What moves a row is CasOutbox's: here rows change as they may.                 *)
EXTENDS Integers, FiniteSets

CONSTANTS
    Rows,
    StuckAfter,      \* STUCK_PENDING_MS, in poll periods
    StaleAfter,      \* max(3 intervals, 30 s), in poll periods
    MaxPolls,        \* bound: polls in flight at a time; at it, the next is not modelled
    MaxPeriods       \* bound: poll periods

ASSUME WarningsAssumption ==
    {StuckAfter, StaleAfter, MaxPeriods} \subseteq Nat /\ MaxPolls \in Nat \ {0}

VARIABLES
    period,
    deliveries, \* per row: [state, created]; history: since when it has stood as it does
    worker,     \* its heartbeat: [at, lastActivity, lastError]
    polls,      \* polls in flight, by the period they were issued in
    nextPoll,   \* when the interval fires next
    warnings, unreachable,
    lastIll,    \* the last period in which something was wrong with rows or worker
    lastTrouble \* the last period in which a poll failed or took until the next

warnVars == <<period, deliveries, worker, polls, nextPoll, warnings, unreachable,
              lastIll, lastTrouble>>

PendingStates == {"QUEUED", "PROCESSING", "FAILED"}
PendingRows == {r \in Rows : deliveries[r].state \in PendingStates}
NewWorker == [at |-> "running", lastActivity |-> period, lastError |-> FALSE]

WarnInit ==
    /\ period = 0
    /\ deliveries = [r \in Rows |-> [state |-> "NONE", created |-> 0, since |-> 0]]
    /\ worker = [NewWorker EXCEPT !.at = "none"]
    /\ polls = {} /\ nextPoll = 0 /\ warnings = {} /\ unreachable = FALSE
    /\ lastIll = 0 /\ lastTrouble = 0

pageVars == <<polls, nextPoll, warnings, unreachable, lastTrouble>>

\* A trigger, a claim, a receipt, a resolve, a re-queue: the row keeps when it was made.
Moves == [NONE |-> {"QUEUED"},
          QUEUED |-> {"PROCESSING", "SENT", "DEAD_LETTER", "WITHDRAWN"},
          PROCESSING |-> {"SENT", "FAILED", "DEAD_LETTER", "WITHDRAWN"},
          FAILED |-> {"PROCESSING", "SENT", "DEAD_LETTER", "WITHDRAWN"},
          DEAD_LETTER |-> {"QUEUED"}, SENT |-> {}, WITHDRAWN |-> {"SENT"}]
RowMoves(r) ==
    /\ \E to \in Moves[deliveries[r].state] :
          deliveries' = [deliveries EXCEPT
              ![r] = [state |-> to,
                      created |-> IF @.state = "NONE" THEN period ELSE @.created,
                      since |-> IF {@.state, to} \subseteq PendingStates THEN @.since ELSE period]]
    /\ UNCHANGED <<period, worker, pageVars>>

WorkerStart ==
    /\ worker.at = "none"
    /\ worker' = NewWorker
    /\ UNCHANGED <<period, deliveries, pageVars>>

\* recordCasOutboxTick or recordCasOutboxTickError at the end of a tick, which may hang
\* instead; no tick takes the error back.
EndTick == \E failed \in BOOLEAN :
    /\ worker.at = "running"
    /\ worker' = [worker EXCEPT !.lastActivity = period, !.lastError = @ \/ failed]
    /\ UNCHANGED <<period, deliveries, pageVars>>

\* stop() waits for the tick under way, then marks the heartbeat.
WorkerStop ==
    /\ worker.at = "running"
    /\ worker' = [worker EXCEPT !.at = "stopped"]
    /\ UNCHANGED <<period, deliveries, pageVars>>

\* The process dies and the next one has a heartbeat of its own.
NewProcess ==
    /\ worker' = [NewWorker EXCEPT !.at = "none"]
    /\ UNCHANGED <<period, deliveries, pageVars>>

-----------------------------------------------------------------------------
(* The status route and the page.                                               *)

\* Mutant of Counted: the oldest row is looked for among those no worker holds.
NotClaimed == {r \in Rows : deliveries[r].state \in {"QUEUED", "FAILED"}}
\* The rows the query for the oldest pending one reads.
Counted == {r \in Rows : deliveries[r].state \in {"QUEUED", "PROCESSING", "FAILED"}}
Stuck == \E r \in Counted : period - deliveries[r].created > StuckAfter

Issue ==
    /\ nextPoll = period
    /\ nextPoll' = period + 1
    /\ polls' = IF Cardinality(polls) < MaxPolls THEN polls \cup {period} ELSE polls
    /\ UNCHANGED <<period, deliveries, worker, warnings, unreachable, lastTrouble>>

\* deriveOutboxWarnings, of the counts and the heartbeat the route read.
Silent == worker.at = "running" /\ period - worker.lastActivity > StaleAfter
Derived ==
    {k \in {"dead", "stuck", "no worker", "stopped", "stale", "error"} :
        \/ k = "dead" /\ \E r \in Rows : deliveries[r].state = "DEAD_LETTER"
        \/ k = "stuck" /\ Stuck
        \/ k = "no worker" /\ worker.at = "none"
        \/ k = "stopped" /\ worker.at = "stopped"
        \/ k = "stale" /\ Silent
        \/ k = "error" /\ worker.at = "running" /\ worker.lastError}

\* Mutant of ReachableAgain: setUnreachable(false) forgotten when a poll is answered again.
StillUnreachable == unreachable
ReachableAgain == FALSE
PollAnswered(p) ==
    /\ unreachable' = ReachableAgain
    /\ warnings' = IF unreachable' THEN {"unreachable"} ELSE Derived
    /\ polls' = polls \ {p}
    /\ UNCHANGED <<period, deliveries, worker, nextPoll, lastTrouble>>

\* No answer, or one in a shape this console was not built for.
Failed(p) == \E misshapen \in BOOLEAN :
    /\ unreachable' = ~misshapen
    /\ warnings' = {IF misshapen THEN "mismatch" ELSE "unreachable"}
    /\ polls' = polls \ {p}
    /\ lastTrouble' = period
    /\ UNCHANGED <<period, deliveries, worker, nextPoll>>

\* setInterval fires on time; everything else takes what it takes.
NextPeriod ==
    /\ period < MaxPeriods /\ nextPoll > period
    /\ period' = period + 1
    /\ lastTrouble' = IF polls # {} THEN period' ELSE lastTrouble
    /\ UNCHANGED <<deliveries, worker, polls, nextPoll, warnings, unreachable>>

Ill ==
    \/ \E r \in Rows : \/ deliveries[r].state = "DEAD_LETTER"
                       \/ r \in PendingRows /\ period - deliveries[r].since > StuckAfter
    \/ worker.at # "running" \/ Silent

WarnNext ==
    /\ \/ NextPeriod \/ WorkerStart \/ EndTick \/ WorkerStop \/ NewProcess \/ Issue
       \/ \E r \in Rows : RowMoves(r)
       \/ \E p \in polls : \/ PollAnswered(p) \/ Failed(p)
    /\ lastIll' = IF Ill' THEN period' ELSE lastIll

WarnSpec == WarnInit /\ [][WarnNext]_warnVars

-----------------------------------------------------------------------------
(* Properties.                                                                  *)

\* Since the last period began every poll was answered, in its own period.
Steady == period >= 2 /\ lastTrouble < period - 1 /\ polls \subseteq {period}

\* While polls are answered, trouble is on the page within one period of its threshold: a
\* delivery given up on, a row that waits too long, held by a worker or not, and a worker
\* whose ticks stopped completing, also when it hangs inside one.
AlarmIsRaised == Steady =>
    /\ \A r \in Rows : deliveries[r].since < period - 1 =>
          /\ deliveries[r].state = "DEAD_LETTER" => "dead" \in warnings
          /\ r \in PendingRows /\ period - 1 - deliveries[r].created > StuckAfter => "stuck" \in warnings
    /\ worker.at = "running" /\ period - 1 - worker.lastActivity > StaleAfter
          => "stale" \in warnings

\* Once nothing has been wrong for a period the page is quiet again ("Renders nothing while
\* the pipeline is healthy", components/outbox-status.tsx), but for two alarms that stay: a
\* tick's error until the process ends, and a row re-queued long after it was made.
AlarmClears == Steady /\ lastIll < period - 1 =>
    /\ warnings \subseteq {"error", "stuck"}
    /\ "error" \in warnings => worker.lastError
    /\ "stuck" \in warnings => \E r \in Rows : deliveries[r].created < deliveries[r].since

\* The page warns of a pipeline in trouble, and of no other.
AlarmIsTrue == AlarmIsRaised /\ AlarmClears
=============================================================================
