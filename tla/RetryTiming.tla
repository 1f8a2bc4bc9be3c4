----------------------------- MODULE RetryTiming -----------------------------
(* When a failed delivery may be tried again, in milliseconds: the Retry-After     *)
(* hint (parseRetryAfterMs of lib/delivery-providers.ts), the jittered backoff and *)
(* the transport's cooldown (retryDelayMs, completeCasOutboxItem and the cooldown  *)
(* upsert of processCasOutbox, routes/cas.ts). CasOutbox models the same steps      *)
(* without times. Several workers fail on one transport and write in any order.     *)
EXTENDS Integers

CONSTANTS
    RetryWorkers,   \* delivery workers, one row each
    Attempts,       \* values of the attempts column of a row that is tried again
    Headers,        \* Retry-After values as delays: 0 when absent or malformed, negative for
                    \* a date that is past
    Randoms,        \* values of random(), in thousandths
    Pauses,         \* time that may pass between two steps
    LastMoment,     \* bound: time
    MaxFailedAttempts  \* bound: failed deliveries

MaxRetryDelay == 60000
MaxHint == 600000
MaxDeliveryAttempts == 8

ASSUME TimingAssumption ==
    /\ Attempts \subseteq 1..(MaxDeliveryAttempts - 1)
    /\ Headers \subseteq Int
    /\ Randoms \subseteq 0..1000
    /\ Pauses \subseteq Nat

Larger(x, y) == IF x < y THEN y ELSE x
Smaller(x, y) == IF x < y THEN x ELSE y

NoHint == 0

\* Mutant of Hint: the hint is taken as it comes.
Unclamped(header) == IF header <= 0 THEN NoHint ELSE header

\* Mutant of Hint: a date in the past makes a negative wait.
PastKept(header) == Smaller(header, MaxHint)

\* parseRetryAfterMs: an oversized hint is clamped, one that is not positive dropped.
Hint(header) == IF header <= 0 THEN NoHint ELSE Smaller(header, MaxHint)

\* 2^0 to 2^6.
Doubling == <<1, 2, 4, 8, 16, 32, 64>>
Backoff(attempts) ==
    Smaller(MaxRetryDelay, 1000 * Doubling[Smaller(Larger(attempts - 1, 0), 6) + 1])

\* Math.round(delay * (1 + (random() * 2 - 1) * 0.2)).
Jittered(delay, random) == (delay * (2000 + random) + 1250) \div 2500

\* Mutant of RetryDelay: the hint is jittered with the backoff.
JitterOverHint(attempts, hint, random) == Jittered(Larger(Backoff(attempts), hint), random)

\* retryDelayMs: the hint is a lower bound of both.
RetryDelay(attempts, hint, random) == Larger(Jittered(Backoff(attempts), random), hint)

VARIABLES
    now,
    failing,        \* per worker: the failure it is recording: when, attempts, hint, stage
    nextAttemptAt,  \* per worker's row
    nextAllowedAt,  \* cas_transport_cooldowns
    promised,       \* history: the furthest end of a hinted wait that was recorded
    failures        \* bound counter

timingVars == <<now, failing, nextAttemptAt, nextAllowedAt, promised, failures>>

NoFailure == [stage |-> "none", at |-> 0, attempts |-> 0, hint |-> NoHint]

TimingInit ==
    /\ now = 0 /\ failures = 0
    /\ failing = [w \in RetryWorkers |-> NoFailure]
    /\ nextAttemptAt = [w \in RetryWorkers |-> 0]
    /\ nextAllowedAt = 0 /\ promised = 0

Pass ==
    /\ \E p \in Pauses : now' = now + p /\ now' <= LastMoment
    /\ UNCHANGED <<failing, nextAttemptAt, nextAllowedAt, promised, failures>>

\* The claim's guard on times, and the provider's refusal of what it handed out.
ClaimAndFail(w) ==
    /\ failing[w].stage = "none" /\ failures < MaxFailedAttempts
    /\ nextAttemptAt[w] <= now /\ nextAllowedAt <= now
    /\ \E a \in Attempts, h \in Headers :
          failing' = [failing EXCEPT ![w] =
              [stage |-> "failed", at |-> now, attempts |-> a, hint |-> Hint(h)]]
    /\ failures' = failures + 1
    /\ UNCHANGED <<now, nextAttemptAt, nextAllowedAt, promised>>

\* completeCasOutboxItem; a hint, or an answer that is a rate limit, closes the transport too.
Reschedule(w) ==
    /\ failing[w].stage = "failed"
    /\ LET f == failing[w] IN
       /\ \E r \in Randoms : nextAttemptAt' =
              [nextAttemptAt EXCEPT ![w] = f.at + RetryDelay(f.attempts, f.hint, r)]
       /\ \E rateLimited \in BOOLEAN : failing' = [failing EXCEPT ![w] =
              IF f.hint # NoHint \/ rateLimited THEN [f EXCEPT !.stage = "cooldown"]
              ELSE NoFailure]
    /\ UNCHANGED <<now, nextAllowedAt, promised, failures>>

\* Mutant of Furthest: the last worker's window replaces the others'.
LastWins(old, new) == new

\* greatest(...) of the upsert.
Furthest(old, new) == Larger(old, new)

\* The cooldown upsert, with a jitter of its own.
RecordCooldown(w) ==
    /\ failing[w].stage = "cooldown"
    /\ LET f == failing[w] IN
       /\ \E r \in Randoms : nextAllowedAt' =
              Furthest(nextAllowedAt, f.at + RetryDelay(f.attempts, f.hint, r))
       /\ promised' = Larger(promised, f.at + f.hint)
    /\ failing' = [failing EXCEPT ![w] = NoFailure]
    /\ UNCHANGED <<now, nextAttemptAt, failures>>

TimingNext ==
    \/ Pass
    \/ \E w \in RetryWorkers : ClaimAndFail(w) \/ Reschedule(w) \/ RecordCooldown(w)

TimingSpec == TimingInit /\ [][TimingNext]_timingVars

(* --- properties --------------------------------------------------------------------- *)

TimingTypeOK ==
    /\ now \in Nat /\ nextAllowedAt \in Nat /\ promised \in Nat /\ failures \in Nat
    /\ nextAttemptAt \in [RetryWorkers -> Nat]
    /\ failing \in [RetryWorkers -> [stage : {"none", "failed", "cooldown"}, at : Nat,
                                attempts : Nat, hint : Nat]]

(* The transport is closed for every row until the furthest wait a provider asked   *)
(* for is over, in whatever order the workers record their cooldowns, and the row    *)
(* itself is not due before its own (retryDelayMs, greatest of the upsert).          *)
HintIsKept ==
    /\ promised <= nextAllowedAt
    /\ \A w \in RetryWorkers :
          failing[w].stage = "cooldown" => failing[w].at + failing[w].hint <= nextAttemptAt[w]

(* No row waits longer than the hint's cap or the jittered backoff's largest value,  *)
(* whatever the attempts column and the header say; a longer one would silence an     *)
(* alert (MAX_RETRY_AFTER_HINT_MS).                                                   *)
WaitIsBounded ==
    \A w \in RetryWorkers : nextAttemptAt[w] <= now + MaxHint

\* A failed delivery waits as long as it was told to, and never longer than the cap.
WaitsAreKept == TimingTypeOK /\ HintIsKept /\ WaitIsBounded
=============================================================================
