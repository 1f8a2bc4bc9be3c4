------------------------------ MODULE BurstAlert ------------------------------
(* Rejected credentials from one address: the streak every replica counts in the *)
(* database (lib/cas-auth.ts), the burst it reports at each multiple of the       *)
(* threshold, and the pinger each replica runs against one monitoring check       *)
(* (lib/cas-auth-burst-alert.ts, index.ts). One unit of time is the pinger's       *)
(* interval. The check is external: it is down from a /fail until a success ping.  *)
EXTENDS Integers, Sequences

CONSTANTS
    Replicas,    \* API processes
    Threshold,   \* burstThreshold
    Suppress,    \* suppressMs, in intervals
    Window,      \* resetWindowMs, in intervals
    MaxRejections, \* bound: counted rejections
    MaxClock     \* bound: time

ASSUME BurstAssumption ==
    /\ Threshold \in Nat \ {0} /\ Suppress \in Nat /\ Window \in Nat

Never == -1 - Suppress - Window

VARIABLES
    clock,
    count, lastFailureAt,   \* the address's row in cas_auth_failure_streaks; count 0: no row
    rejecting,              \* per replica: the count a rejection got back and not yet looked at
    lastBurstAt,            \* per replica
    chain,                  \* per replica: pings queued
    sending,                \* per replica: the ping under way, or "none"
    tickedAt, pingerStopped,      \* per replica: the interval timer, stop()
    up,                     \* the check
    late,                   \* is a success ping given up here still to arrive there; bound: 1
    rejections,             \* bound counter
    alerts,                 \* history: bursts reported in the current streak
    unsafe                  \* history: the check missed a /fail, or got a late success ping, or
                            \* one of a replica that knows of no burst

streakVars == <<count, lastFailureAt, rejecting, alerts>>
pingVars == <<lastBurstAt, chain, sending, tickedAt, pingerStopped, up, late, unsafe>>
burstVars == <<clock, streakVars, pingVars, rejections>>

BurstInit ==
    /\ clock = 0
    /\ count = 0 /\ lastFailureAt = Never /\ alerts = 0
    /\ rejecting = [r \in Replicas |-> 0]
    /\ lastBurstAt = [r \in Replicas |-> Never]
    /\ chain = [r \in Replicas |-> <<>>]
    /\ sending = [r \in Replicas |-> "none"]
    /\ tickedAt = [r \in Replicas |-> -1]
    /\ pingerStopped = [r \in Replicas |-> FALSE]
    /\ up = TRUE /\ late = 0 /\ rejections = 0 /\ unsafe = FALSE

\* A rejection looks at its count well within an interval.
Advance ==
    /\ \A r \in Replicas : rejecting[r] = 0
    /\ clock < MaxClock /\ clock' = clock + 1
    /\ UNCHANGED <<streakVars, pingVars, rejections>>

(* --- the streak ------------------------------------------------------------------ *)

Decayed == clock - lastFailureAt > Window

\* recordFailureStreak: one atomic upsert. A rejection a store outage leaves uncounted changes
\* nothing.
CountRejection(r) ==
    /\ rejecting[r] = 0 /\ rejections < MaxRejections
    /\ rejections' = rejections + 1
    /\ LET next == IF Decayed THEN 1 ELSE count + 1 IN
        /\ count' = next /\ lastFailureAt' = clock
        /\ rejecting' = [rejecting EXCEPT ![r] = next]
        /\ alerts' = IF next = 1 THEN 0 ELSE alerts
    /\ UNCHANGED <<clock, pingVars>>

\* sweepStaleFailureStreaks.
SweepStreak ==
    /\ count > 0 /\ Decayed
    /\ count' = 0 /\ lastFailureAt' = Never /\ alerts' = 0
    /\ UNCHANGED <<clock, rejecting, pingVars, rejections>>

\* Mutant of IsBurst: only the first crossing is a burst.
FirstCrossing(streak) == streak = Threshold

\* delayCasAuthRejection.
IsBurst(streak) == streak % Threshold = 0

\* The replica goes on with the count: recordBurst of index.ts, once per multiple; a stopped
\* pinger ignores it.
LookAtCount(r) ==
    /\ rejecting[r] # 0
    /\ rejecting' = [rejecting EXCEPT ![r] = 0]
    /\ IF IsBurst(rejecting[r])
       THEN /\ alerts' = alerts + 1
            /\ IF pingerStopped[r]
               THEN UNCHANGED <<lastBurstAt, chain>>
               ELSE /\ lastBurstAt' = [lastBurstAt EXCEPT ![r] = clock]
                    /\ chain' = [chain EXCEPT ![r] = Append(@, "fail")]
       ELSE UNCHANGED <<alerts, lastBurstAt, chain>>
    /\ UNCHANGED <<clock, count, lastFailureAt, sending, tickedAt, pingerStopped, up, late,
                   unsafe,
                   rejections>>

(* --- the pinger ---------------------------------------------------------------------- *)

\* Mutant of Quiet: a burst counts for the moment it comes in only.
QuietAtOnce(r) == clock > lastBurstAt[r]

Quiet(r) == clock - lastBurstAt[r] >= Suppress

Tick(r) ==
    /\ tickedAt[r] < clock /\ ~pingerStopped[r]
    /\ tickedAt' = [tickedAt EXCEPT ![r] = clock]
    /\ chain' = IF Quiet(r) THEN [chain EXCEPT ![r] = Append(@, "success")] ELSE chain
    /\ UNCHANGED <<clock, streakVars, lastBurstAt, sending, pingerStopped, up, late, unsafe,
                   rejections>>

\* A success ping is looked at once more when its turn comes.
SendPing(r) ==
    /\ sending[r] = "none" /\ chain[r] # <<>>
    /\ chain' = [chain EXCEPT ![r] = Tail(@)]
    /\ sending' = [sending EXCEPT ![r] =
                      IF Head(chain[r]) = "success" /\ ~Quiet(r) THEN "none" ELSE Head(chain[r])]
    /\ UNCHANGED <<clock, streakVars, lastBurstAt, tickedAt, pingerStopped, up, late, unsafe,
                   rejections>>

\* Another replica knows of a burst this one's success ping clears.
ClearsForOthers(r) == \E q \in Replicas \ {r} : clock - lastBurstAt[q] < Suppress

\* The ping arrives; whether its answer does makes no difference.
PingArrives(r) ==
    /\ sending[r] # "none"
    /\ up' = (sending[r] = "success")
    /\ sending' = [sending EXCEPT ![r] = "none"]
    /\ unsafe' = (unsafe \/ (sending[r] = "success" /\ ClearsForOthers(r)))
    /\ UNCHANGED <<clock, streakVars, lastBurstAt, chain, tickedAt, pingerStopped, late,
                   rejections>>

\* No answer, or the timeout: it is logged and ignored. It may have been lost, or be late
\* (bound: not followed once the check can no longer be relied on).
GivenUp(r) ==
    /\ sending[r] # "none"
    /\ sending' = [sending EXCEPT ![r] = "none"]
    /\ unsafe' = (unsafe \/ sending[r] = "fail")
    /\ late' \in IF sending[r] = "success" /\ ~unsafe THEN {late, 1} ELSE {late}
    /\ UNCHANGED <<clock, streakVars, lastBurstAt, chain, tickedAt, pingerStopped, up,
                   rejections>>

ArriveLate ==
    /\ late > 0 /\ late' = late - 1
    /\ up' = TRUE /\ unsafe' = TRUE
    /\ UNCHANGED <<clock, streakVars, lastBurstAt, chain, sending, tickedAt, pingerStopped,
                   rejections>>

\* stop(): queued pings are still sent.
StopPinger(r) ==
    /\ ~pingerStopped[r] /\ pingerStopped' = [pingerStopped EXCEPT ![r] = TRUE]
    /\ UNCHANGED <<clock, streakVars, lastBurstAt, chain, sending, tickedAt, up, late, unsafe,
                   rejections>>

BurstNext ==
    \/ Advance \/ SweepStreak \/ ArriveLate
    \/ \E r \in Replicas :
          \/ CountRejection(r) \/ LookAtCount(r) \/ Tick(r) \/ SendPing(r)
          \/ PingArrives(r) \/ GivenUp(r) \/ StopPinger(r)

BurstSpec == BurstInit /\ [][BurstNext]_burstVars

(* --- properties --------------------------------------------------------------------------- *)

(* However the replicas interleave, every threshold's worth of counted rejections *)
(* of a streak is one burst, no more and no less (recordFailureStreak).            *)
EveryCrossingIsABurst ==
    (\A r \in Replicas : rejecting[r] = 0) => alerts = count \div Threshold

(* Once a replica's pings are settled the check stays down while a burst of that   *)
(* replica is fresh: a success ping queued before it does not flip it back up. Left *)
(* out: a /fail that never arrived, a success ping that arrived after it was given  *)
(* up, and the ping of a replica that did not see the burst (lastBurstAt is the     *)
(* process's own).                                                                  *)
CheckStaysDown ==
    \A r \in Replicas :
        chain[r] = <<>> /\ sending[r] = "none" /\ clock - lastBurstAt[r] < Suppress =>
            ~up \/ unsafe

\* A run of rejected credentials is reported by every replica together once for each
\* threshold, and the monitoring check shows it.
AttackIsReported == EveryCrossingIsABurst /\ CheckStaysDown
=============================================================================
