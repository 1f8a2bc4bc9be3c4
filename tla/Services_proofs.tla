---------------------------- MODULE Services_proofs ----------------------------
(***************************************************************************)
(* Machine-checked proofs about the independent parts of the server:       *)
(* RetryTiming, SmtpSession, BurstAlert, SchemaBootstrap and EmailHealth   *)
(* with the accounts it reads, for any number of workers, replicas,        *)
(* processes, releases and operators.  Each part has its own specification *)
(* and a section of its own here.                                          *)
(***************************************************************************)
EXTENDS RetryTiming, SmtpSession, BurstAlert, SchemaBootstrap, EmailHealth,
        FiniteSetTheorems, SequenceTheorems, TLAPS

-----------------------------------------------------------------------------
(* RetryTiming: how long a failed delivery waits.                            *)

\* What a recorded failure can say: a moment that is over, an attempt that is tried again,
\* and a hint within the cap.
FailuresAreReal == \A w \in RetryWorkers :
    /\ failing[w].at <= now /\ failing[w].hint <= MaxHint
    /\ failing[w].stage # "none" => failing[w].attempts \in 1..7

TimingInv == TimingTypeOK /\ HintIsKept /\ WaitIsBounded /\ FailuresAreReal

\* A Retry-After header is never a negative wait, nor one beyond the cap.
LEMMA HintIsCapped ==
    ASSUME NEW header \in Int
    PROVE  Hint(header) \in Nat /\ Hint(header) <= MaxHint
BY SMT DEF Hint, NoHint, Smaller, MaxHint

\* The backoff is positive and at most the largest delay.
LEMMA BackoffIsCapped ==
    ASSUME NEW attempts \in 1..7
    PROVE  Backoff(attempts) \in {1000, 2000, 4000, 8000, 16000, 32000, 60000}
<1>1. CASE attempts = 1
  BY SMT, <1>1 DEF Backoff, Smaller, Larger, MaxRetryDelay, Doubling
<1>2. CASE attempts = 2
  BY SMT, <1>2 DEF Backoff, Smaller, Larger, MaxRetryDelay, Doubling
<1>3. CASE attempts = 3
  BY SMT, <1>3 DEF Backoff, Smaller, Larger, MaxRetryDelay, Doubling
<1>4. CASE attempts = 4
  BY SMT, <1>4 DEF Backoff, Smaller, Larger, MaxRetryDelay, Doubling
<1>5. CASE attempts = 5
  BY SMT, <1>5 DEF Backoff, Smaller, Larger, MaxRetryDelay, Doubling
<1>6. CASE attempts = 6
  BY SMT, <1>6 DEF Backoff, Smaller, Larger, MaxRetryDelay, Doubling
<1>7. CASE attempts = 7
  BY SMT, <1>7 DEF Backoff, Smaller, Larger, MaxRetryDelay, Doubling
<1> QED BY SMT, <1>1, <1>2, <1>3, <1>4, <1>5, <1>6, <1>7

\* Jitter moves a delay by at most a fifth.
LEMMA JitterIsBounded ==
    ASSUME NEW delay \in {1000, 2000, 4000, 8000, 16000, 32000, 60000},
           NEW random \in Nat, random <= 1000
    PROVE  Jittered(delay, random) \in Nat /\ Jittered(delay, random) <= 72000
<1>1. delay * (2000 + random) \in Nat /\ delay * (2000 + random) <= 180000000
  BY SMT
<1>2. \A n \in Nat : n <= 180000000 =>
          (n + 1250) \div 2500 \in Nat /\ (n + 1250) \div 2500 <= 72000
  BY SMT
<1> QED BY SMT, <1>1, <1>2 DEF Jittered

\* The delay honours the hint, and stays within the hint's cap or the largest backoff.
LEMMA DelayIsBounded ==
    ASSUME NEW attempts \in 1..7, NEW hint \in Nat, hint <= MaxHint,
           NEW random \in Nat, random <= 1000
    PROVE  /\ RetryDelay(attempts, hint, random) \in Nat
           /\ hint <= RetryDelay(attempts, hint, random)
           /\ RetryDelay(attempts, hint, random) <= MaxHint
<1>1. /\ Jittered(Backoff(attempts), random) \in Nat
      /\ Jittered(Backoff(attempts), random) <= 72000
  BY SMT, BackoffIsCapped, JitterIsBounded
<1> QED BY SMT, <1>1 DEF RetryDelay, Larger, MaxHint

LEMMA TimingInitInv == TimingInit => TimingInv
BY SMT DEF TimingInit, TimingInv, TimingTypeOK, HintIsKept, WaitIsBounded, FailuresAreReal,
       NoFailure, NoHint, MaxHint

LEMMA TimingStepInv == TimingInv /\ [TimingNext]_timingVars => TimingInv'
<1> SUFFICES ASSUME TimingInv, [TimingNext]_timingVars
             PROVE  TimingInv'
  OBVIOUS
<1> USE TimingAssumption DEF TimingInv, MaxDeliveryAttempts
<1>1. ASSUME Pass
      PROVE  TimingInv'
  <2>1. PICK p \in Nat : now' = now + p
    BY <1>1 DEF Pass
  <2> QED BY SMT, <2>1, <1>1 DEF Pass, TimingTypeOK, HintIsKept, WaitIsBounded, FailuresAreReal, MaxHint
<1>2. ASSUME NEW w \in RetryWorkers, ClaimAndFail(w)
      PROVE  TimingInv'
  <2>1. PICK a \in Attempts, h \in Headers :
            failing' = [failing EXCEPT ![w] =
                [stage |-> "failed", at |-> now, attempts |-> a, hint |-> Hint(h)]]
    BY <1>2 DEF ClaimAndFail
  <2>2. a \in 1..7 /\ Hint(h) \in Nat /\ Hint(h) <= MaxHint
    BY HintIsCapped
  <2>3. UNCHANGED <<now, nextAttemptAt, nextAllowedAt, promised>> /\ failures' \in Nat
    BY <1>2 DEF ClaimAndFail, TimingTypeOK
  <2>4. TimingTypeOK'
    BY SMT, <2>1, <2>2, <2>3 DEF TimingTypeOK, MaxHint
  <2>5. HintIsKept' /\ WaitIsBounded'
    BY <2>1, <2>3 DEF TimingTypeOK, HintIsKept, WaitIsBounded
  <2>6. FailuresAreReal'
    BY <2>1, <2>2, <2>3 DEF TimingTypeOK, FailuresAreReal
  <2> QED BY <2>4, <2>5, <2>6
<1>3. ASSUME NEW w \in RetryWorkers, Reschedule(w)
      PROVE  TimingInv'
  <2> DEFINE f == failing[w]
  <2>1. PICK r \in Randoms : nextAttemptAt' =
            [nextAttemptAt EXCEPT ![w] = f.at + RetryDelay(f.attempts, f.hint, r)]
    BY <1>3 DEF Reschedule
  <2>2. f.at \in Nat /\ f.hint \in Nat /\ f.hint <= MaxHint /\ f.attempts \in 1..7 /\ f.at <= now
    BY SMT, <1>3 DEF Reschedule, TimingTypeOK, FailuresAreReal, MaxHint
  <2>3. /\ RetryDelay(f.attempts, f.hint, r) \in Nat
        /\ f.hint <= RetryDelay(f.attempts, f.hint, r)
        /\ RetryDelay(f.attempts, f.hint, r) <= MaxHint
    <3>1. r \in Nat /\ r <= 1000
      BY SMT
    <3> HIDE DEF f
    <3> QED BY <2>2, <3>1, DelayIsBounded
  <2>4. PICK next \in Nat : next = f.at + RetryDelay(f.attempts, f.hint, r)
    BY SMT, <2>2, <2>3 DEF MaxHint
  <2>5. f.at + f.hint <= next /\ next <= now + MaxHint
    BY SMT, <2>2, <2>3, <2>4 DEF TimingTypeOK, MaxHint
  <2>6. nextAttemptAt' = [nextAttemptAt EXCEPT ![w] = next]
    BY <2>1, <2>4
  <2>7. \/ failing' = [failing EXCEPT ![w] = [f EXCEPT !.stage = "cooldown"]]
        \/ failing' = [failing EXCEPT ![w] = NoFailure]
    BY <1>3 DEF Reschedule
  <2>8. UNCHANGED <<now, nextAllowedAt, promised, failures>>
    BY <1>3 DEF Reschedule
  <2> HIDE DEF f
  <2>9. TimingTypeOK'
    BY <2>6, <2>7, <2>8 DEF TimingTypeOK, f, NoFailure, NoHint
  <2>10. HintIsKept'
    BY <2>5, <2>6, <2>7, <2>8 DEF TimingTypeOK, HintIsKept, f, NoFailure, NoHint
  <2>11. WaitIsBounded'
    BY <2>5, <2>6, <2>8 DEF TimingTypeOK, WaitIsBounded
  <2>12. FailuresAreReal'
    BY SMT, <2>2, <2>7, <2>8 DEF TimingTypeOK, FailuresAreReal, f, NoFailure, NoHint, MaxHint
  <2> QED BY <2>9, <2>10, <2>11, <2>12
<1>4. ASSUME NEW w \in RetryWorkers, RecordCooldown(w)
      PROVE  TimingInv'
  <2> DEFINE f == failing[w]
  <2>1. PICK r \in Randoms : nextAllowedAt' =
            Furthest(nextAllowedAt, f.at + RetryDelay(f.attempts, f.hint, r))
    BY <1>4 DEF RecordCooldown
  <2>2. f.at \in Nat /\ f.hint \in Nat /\ f.hint <= MaxHint /\ f.attempts \in 1..7
    BY SMT, <1>4 DEF RecordCooldown, TimingTypeOK, FailuresAreReal, MaxHint
  <2>3. /\ RetryDelay(f.attempts, f.hint, r) \in Nat
        /\ f.hint <= RetryDelay(f.attempts, f.hint, r)
        /\ RetryDelay(f.attempts, f.hint, r) <= MaxHint
    <3>1. r \in Nat /\ r <= 1000
      BY SMT
    <3> HIDE DEF f
    <3> QED BY <2>2, <3>1, DelayIsBounded
  <2>4. /\ promised' = Larger(promised, f.at + f.hint)
        /\ failing' = [failing EXCEPT ![w] = NoFailure]
        /\ UNCHANGED <<now, nextAttemptAt, failures>>
    BY <1>4 DEF RecordCooldown
  <2> HIDE DEF f
  <2>5. nextAllowedAt' \in Nat /\ promised' \in Nat /\ promised' <= nextAllowedAt'
    BY SMT, <2>1, <2>2, <2>3, <2>4 DEF TimingTypeOK, HintIsKept, Larger, Furthest, MaxHint
  <2>6. TimingTypeOK'
    BY <2>4, <2>5 DEF TimingTypeOK, NoFailure, NoHint
  <2>7. HintIsKept' /\ WaitIsBounded'
    BY <2>4, <2>5 DEF TimingTypeOK, HintIsKept, WaitIsBounded, NoFailure
  <2>8. FailuresAreReal'
    BY SMT, <2>4 DEF TimingTypeOK, FailuresAreReal, NoFailure, NoHint, MaxHint
  <2> QED BY <2>6, <2>7, <2>8
<1>5. CASE UNCHANGED timingVars
  BY <1>5 DEF timingVars, TimingTypeOK, HintIsKept, WaitIsBounded, FailuresAreReal
<1> QED BY <1>1, <1>2, <1>3, <1>4, <1>5 DEF TimingNext

(* No worker tries a transport before the furthest moment a provider asked for, and *)
(* no row waits longer than the cap, for any workers, headers and random numbers    *)
(* (retryDelayMs, completeCasOutboxItem, the greatest() of the cooldown upsert).    *)
THEOREM WaitsAreKeptHolds == TimingSpec => []WaitsAreKept
<1>1. TimingInv => WaitsAreKept
  BY DEF TimingInv, WaitsAreKept
<1> QED BY TimingInitInv, TimingStepInv, <1>1, PTL DEF TimingSpec

-----------------------------------------------------------------------------
(* SmtpSession: what one dialogue exposes and reports.                       *)

\* A sequence that reads like two others one after the other is their concatenation.
LEMMA Joined ==
    ASSUME NEW S, NEW s \in Seq(S), NEW t \in Seq(S), NEW u \in Seq(S),
           Len(u) = Len(s) + Len(t),
           \A i \in 1..Len(u) : u[i] = IF i <= Len(s) THEN s[i] ELSE t[i - Len(s)]
    PROVE  s \o t = u
<1>1. s \o t \in Seq(S) /\ Len(s \o t) = Len(u)
  BY ConcatProperties
<1>2. \A i \in 1..Len(s \o t) : (s \o t)[i] = u[i]
  BY <1>1, ConcatProperties
<1> QED BY <1>1, <1>2, SeqEqual

\* The two dialogues, step by step.
SecureDialogue == <<"tls", "greeting", "ehlo", "auth", "mail", "rcpt", "data", "message", "quit">>
PlainDialogue == <<"connect", "greeting", "ehlo", "starttls", "tls", "ehlo", "auth", "mail",
                   "rcpt", "data", "message", "quit">>

LEMMA Dialogues == Dialogue(TRUE) = SecureDialogue /\ Dialogue(FALSE) = PlainDialogue
<1> DEFINE all == {"connect", "tls", "greeting", "ehlo", "starttls", "auth", "mail", "rcpt",
                   "data", "message", "quit"}
           rest == <<"auth", "mail", "rcpt", "data", "message", "quit">>
           secure == <<"tls", "greeting", "ehlo">>
           plain == <<"connect", "greeting", "ehlo", "starttls", "tls", "ehlo">>
<1>1. rest \in Seq(all) /\ Len(rest) = 6
  OBVIOUS
<1>2. Dialogue(TRUE) = SecureDialogue
  <2>1. secure \in Seq(all) /\ Len(secure) = 3
    OBVIOUS
  <2>2. SecureDialogue \in Seq(all) /\ Len(SecureDialogue) = 9
    BY DEF SecureDialogue
  <2>3. \A i \in 1..9 : SecureDialogue[i] = IF i <= 3 THEN secure[i] ELSE rest[i - 3]
    BY DEF SecureDialogue
  <2> HIDE DEF all, rest, secure
  <2>4. Len(SecureDialogue) = Len(secure) + Len(rest)
    BY <1>1, <2>1, <2>2
  <2>5. \A i \in 1..Len(SecureDialogue) :
            SecureDialogue[i] = IF i <= Len(secure) THEN secure[i] ELSE rest[i - Len(secure)]
    BY <2>1, <2>2, <2>3
  <2>6. secure \o rest = SecureDialogue
    BY <1>1, <2>1, <2>2, <2>4, <2>5, Joined
  <2> QED BY <2>6 DEF Dialogue, secure, rest
<1>3. Dialogue(FALSE) = PlainDialogue
  <2>1. plain \in Seq(all) /\ Len(plain) = 6
    OBVIOUS
  <2>2. PlainDialogue \in Seq(all) /\ Len(PlainDialogue) = 12
    BY DEF PlainDialogue
  <2>3. \A i \in 1..12 : PlainDialogue[i] = IF i <= 6 THEN plain[i] ELSE rest[i - 6]
    BY DEF PlainDialogue
  <2> HIDE DEF all, rest, plain
  <2>4. Len(PlainDialogue) = Len(plain) + Len(rest)
    BY <1>1, <2>1, <2>2
  <2>5. \A i \in 1..Len(PlainDialogue) :
            PlainDialogue[i] = IF i <= Len(plain) THEN plain[i] ELSE rest[i - Len(plain)]
    BY <2>1, <2>2, <2>3
  <2>6. plain \o rest = PlainDialogue
    BY <1>1, <2>1, <2>2, <2>4, <2>5, Joined
  <2> QED BY <2>6 DEF Dialogue, plain, rest
<1> QED BY <1>2, <1>3

\* Where the dialogue is encrypted, and where the server has taken the message.
TlsAt(secure) == IF secure THEN 1 ELSE 5
MessageAt(secure) == IF secure THEN 8 ELSE 11

\* The stages that matter and their places: secrets are written after TLS only.
LEMMA Stages ==
    ASSUME NEW secure \in BOOLEAN
    PROVE  /\ Len(Dialogue(secure)) = MessageAt(secure) + 1
           /\ \A i \in 1..(MessageAt(secure) + 1) :
                 /\ Dialogue(secure)[i] = "tls" <=> i = TlsAt(secure)
                 /\ Dialogue(secure)[i] = "message" <=> i = MessageAt(secure)
                 /\ Dialogue(secure)[i] = "quit" <=> i = MessageAt(secure) + 1
                 /\ Dialogue(secure)[i] = "starttls" => i < TlsAt(secure)
                 /\ i <= TlsAt(secure) => Written(Dialogue(secure)[i]) = {}
<1>1. /\ Len(SecureDialogue) = 9
      /\ \A i \in 1..9 :
            /\ SecureDialogue[i] = "tls" <=> i = 1
            /\ SecureDialogue[i] = "message" <=> i = 8
            /\ SecureDialogue[i] = "quit" <=> i = 9
            /\ SecureDialogue[i] # "starttls"
            /\ i <= 1 => Written(SecureDialogue[i]) = {}
  BY DEF SecureDialogue, Written
<1>2. /\ Len(PlainDialogue) = 12
      /\ \A i \in 1..12 :
            /\ PlainDialogue[i] = "tls" <=> i = 5
            /\ PlainDialogue[i] = "message" <=> i = 11
            /\ PlainDialogue[i] = "quit" <=> i = 12
            /\ PlainDialogue[i] = "starttls" => i = 4
            /\ i <= 5 => Written(PlainDialogue[i]) = {}
  BY DEF PlainDialogue, Written
<1>3. CASE secure = TRUE
  <2>1. Dialogue(secure) = SecureDialogue
    BY <1>3, Dialogues
  <2>2. MessageAt(secure) = 8 /\ TlsAt(secure) = 1
    BY <1>3 DEF MessageAt, TlsAt
  <2> QED BY <1>1, <2>1, <2>2
<1>4. CASE secure = FALSE
  <2>1. Dialogue(secure) = PlainDialogue
    BY <1>4, Dialogues
  <2>2. MessageAt(secure) = 11 /\ TlsAt(secure) = 5
    BY <1>4 DEF MessageAt, TlsAt
  <2> QED BY <1>2, <2>1, <2>2
<1> QED BY <1>3, <1>4

\* The session as it is: encrypted from its TLS step on, the message taken from its own step
\* on, and nothing written before TLS.
SmtpState == [secure : BOOLEAN, credentials : BOOLEAN, startTls : BOOLEAN, at : Nat,
              tls : BOOLEAN, exposed : {{}}, taken : BOOLEAN]

SmtpInv ==
    /\ smtp \in SmtpState
    /\ smtp.at \in 1..(MessageAt(smtp.secure) + 1)
    /\ ~smtp.credentials => smtp.at = 1
    /\ smtpEnd = Pending =>
          /\ smtp.tls <=> smtp.at > TlsAt(smtp.secure)
          /\ smtp.taken <=> smtp.at > MessageAt(smtp.secure)
    /\ EndIsTruthful

\* The last step is one past the message's, and the message comes after TLS.
LEMMA Places ==
    ASSUME NEW secure \in BOOLEAN
    PROVE  /\ TlsAt(secure) \in 1..5 /\ MessageAt(secure) \in 8..11
BY DEF TlsAt, MessageAt

LEMMA SmtpInitInv == SmtpInit => SmtpInv
<1> SUFFICES ASSUME SmtpInit
             PROVE  SmtpInv
  OBVIOUS
<1>1. smtp \in SmtpState /\ smtp.at = 1 /\ ~smtp.tls /\ ~smtp.taken /\ smtpEnd = Pending
  <2>1. smtp.at = 1 /\ smtpEnd = Pending
    BY DEF SmtpInit
  <2>2. smtp.tls = FALSE /\ smtp.taken = FALSE
    BY DEF SmtpInit
  <2>3. smtp \in SmtpState
    <3>1. /\ smtp.secure \in BOOLEAN /\ smtp.credentials \in BOOLEAN /\ smtp.startTls \in BOOLEAN
          /\ smtp = [secure |-> smtp.secure, credentials |-> smtp.credentials,
                     startTls |-> smtp.startTls, at |-> 1, tls |-> FALSE, exposed |-> {},
                     taken |-> FALSE]
      BY DEF SmtpInit
    <3>2. PICK not \in BOOLEAN : not = FALSE
      OBVIOUS
    <3>3. PICK none \in {{}} : none = {}
      OBVIOUS
    <3>4. PICK first \in Nat : first = 1
      OBVIOUS
    <3>5. smtp = [secure |-> smtp.secure, credentials |-> smtp.credentials,
                  startTls |-> smtp.startTls, at |-> first, tls |-> not, exposed |-> none,
                  taken |-> not]
      BY <3>1, <3>2, <3>3, <3>4
    <3> QED BY <3>1, <3>5 DEF SmtpState
  <2> QED BY <2>1, <2>2, <2>3
<1>2. smtp.secure \in BOOLEAN
  BY <1>1 DEF SmtpState
<1>3. TlsAt(smtp.secure) \in 1..5 /\ MessageAt(smtp.secure) \in 8..11
  BY <1>2, Places
<1>4. EndIsTruthful
  BY <1>1 DEF EndIsTruthful, Pending, Sent
<1>5. ~(smtp.at > TlsAt(smtp.secure)) /\ ~(smtp.at > MessageAt(smtp.secure))
  BY <1>1, <1>3
<1>6. smtp.at \in 1..(MessageAt(smtp.secure) + 1)
  BY <1>1, <1>3
<1> QED BY <1>1, <1>4, <1>5, <1>6 DEF SmtpInv

LEMMA SmtpStepInv == SmtpInv /\ [SmtpNext]_smtpVars => SmtpInv'
<1> SUFFICES ASSUME SmtpInv, [SmtpNext]_smtpVars
             PROVE  SmtpInv'
  OBVIOUS
<1>1. /\ smtp.secure \in BOOLEAN /\ smtp.at \in 1..(MessageAt(smtp.secure) + 1)
      /\ TlsAt(smtp.secure) \in 1..5 /\ MessageAt(smtp.secure) \in 8..11
  BY Places DEF SmtpInv, SmtpState
<1>2. /\ Len(Dialogue(smtp.secure)) = MessageAt(smtp.secure) + 1
      /\ Stage = "tls" <=> smtp.at = TlsAt(smtp.secure)
      /\ Stage = "message" <=> smtp.at = MessageAt(smtp.secure)
      /\ Stage = "quit" <=> smtp.at = MessageAt(smtp.secure) + 1
      /\ Stage = "starttls" => smtp.at < TlsAt(smtp.secure)
      /\ smtp.at <= TlsAt(smtp.secure) => Written(Stage) = {}
  BY <1>1, Stages DEF Stage
<1>3. ASSUME smtpEnd = Pending
      PROVE  (IF smtp.tls THEN smtp.exposed ELSE smtp.exposed \cup Written(Stage)) = {}
  <2>1. smtp.exposed = {}
    BY DEF SmtpInv, SmtpState
  <2>2. CASE smtp.tls
    BY <2>1, <2>2
  <2>3. CASE ~smtp.tls
    <3>1. smtp.at <= TlsAt(smtp.secure)
      BY <1>1, <1>3, <2>3 DEF SmtpInv
    <3> QED BY <2>1, <2>3, <3>1, <1>2
  <2> QED BY <2>2, <2>3
<1>4. CASE RefuseUnconfigured \/ RefuseCleartext
  <2>1. smtp' = smtp /\ smtpEnd' = NotConfigured /\ smtpEnd = Pending
    BY <1>4 DEF RefuseUnconfigured, RefuseCleartext
  <2>2. NotConfigured # Pending /\ NotConfigured # Sent
    BY DEF NotConfigured, Pending, Sent
  <2>3. smtp.at <= MessageAt(smtp.secure)
    <3>1. CASE RefuseUnconfigured
      BY <1>1, <3>1 DEF RefuseUnconfigured, SmtpInv
    <3>2. CASE RefuseCleartext
      BY <1>1, <1>2, <3>2 DEF RefuseCleartext, CleartextOnly
    <3> QED BY <3>1, <3>2, <1>4
  <2>4. ~smtp.taken
    BY <1>1, <2>1, <2>3 DEF SmtpInv
  <2>5. EndIsTruthful'
    BY <2>1, <2>2, <2>4 DEF EndIsTruthful
  <2> QED BY <2>1, <2>2, <2>5 DEF SmtpInv
<1>5. CASE StepAnswered
  <2> DEFINE last == smtp.at = MessageAt(smtp.secure) + 1
  <2>1. smtpEnd = Pending /\ smtp.credentials
    BY <1>5 DEF StepAnswered
  <2>2. /\ smtp' = [smtp EXCEPT !.at = IF last THEN @ ELSE @ + 1,
                                !.tls = @ \/ Stage = "tls",
                                !.exposed = IF smtp.tls THEN @ ELSE @ \cup Written(Stage),
                                !.taken = @ \/ Stage = "message"]
        /\ smtpEnd' = IF last THEN Sent ELSE Pending
    BY <1>2, <1>5 DEF StepAnswered
  <2>3. smtp \in SmtpState
    BY DEF SmtpInv
  <2>4. /\ smtp'.secure = smtp.secure /\ smtp'.credentials = smtp.credentials
        /\ smtp'.at = IF last THEN smtp.at ELSE smtp.at + 1
        /\ smtp'.tls = (smtp.tls \/ Stage = "tls")
        /\ smtp'.taken = (smtp.taken \/ Stage = "message")
    BY <2>2, <2>3 DEF SmtpState
  <2>5. smtp' \in SmtpState
    <3>1. PICK at \in Nat : at = IF last THEN smtp.at ELSE smtp.at + 1
      BY <1>1
    <3>2. PICK tls \in BOOLEAN : tls = (smtp.tls \/ Stage = "tls")
      OBVIOUS
    <3>3. PICK taken \in BOOLEAN : taken = (smtp.taken \/ Stage = "message")
      OBVIOUS
    <3>4. smtp' = [smtp EXCEPT !.at = at, !.tls = tls, !.exposed = {}, !.taken = taken]
      BY <1>3, <2>1, <2>2, <3>1, <3>2, <3>3
    <3> QED BY <2>3, <3>4 DEF SmtpState
  <2>6. smtp'.at \in 1..(MessageAt(smtp'.secure) + 1)
    BY <1>1, <2>4
  <2>7. ASSUME smtpEnd' = Pending
        PROVE  /\ smtp'.tls <=> smtp'.at > TlsAt(smtp'.secure)
               /\ smtp'.taken <=> smtp'.at > MessageAt(smtp'.secure)
    <3>1. ~last
      BY <2>2, <2>7 DEF Pending, Sent
    <3>2. smtp.tls <=> smtp.at > TlsAt(smtp.secure)
      BY <2>1 DEF SmtpInv
    <3>3. smtp.taken <=> smtp.at > MessageAt(smtp.secure)
      BY <2>1 DEF SmtpInv
    <3>4. smtp'.tls <=> smtp'.at > TlsAt(smtp'.secure)
      <4>1. smtp'.at > TlsAt(smtp.secure)
              <=> smtp.at > TlsAt(smtp.secure) \/ smtp.at = TlsAt(smtp.secure)
        BY <1>1, <2>4, <3>1
      <4> QED BY <1>2, <2>4, <3>2, <4>1
    <3>5. smtp'.taken <=> smtp'.at > MessageAt(smtp'.secure)
      <4>1. smtp'.at > MessageAt(smtp.secure)
              <=> smtp.at > MessageAt(smtp.secure) \/ smtp.at = MessageAt(smtp.secure)
        BY <1>1, <2>4, <3>1
      <4> QED BY <1>2, <2>4, <3>3, <4>1
    <3> QED BY <3>4, <3>5
  <2>8. EndIsTruthful'
    <3>1. CASE last
      <4>1. smtp.taken
        BY <1>1, <2>1, <3>1 DEF SmtpInv
      <4> QED BY <2>2, <2>4, <3>1, <4>1 DEF EndIsTruthful, Pending, Sent
    <3>2. CASE ~last
      BY <2>2, <3>2 DEF EndIsTruthful, Pending, Sent
    <3> QED BY <3>1, <3>2
  <2> QED BY <2>1, <2>4, <2>5, <2>6, <2>7, <2>8 DEF SmtpInv
<1>6. ASSUME NEW event \in (Replies \ {"ok"}) \cup SocketFailures, StepFailed(event)
      PROVE  SmtpInv'
  <2>1. smtpEnd = Pending /\ smtp.credentials
    BY <1>6 DEF StepFailed
  <2>2. PICK taken : 
            /\ taken \in IF Stage = "message" /\ event \in SocketFailures
                         THEN BOOLEAN ELSE {smtp.taken}
            /\ smtp' = [smtp EXCEPT !.taken = taken,
                                    !.exposed = IF smtp.tls THEN @ ELSE @ \cup Written(Stage)]
    BY <1>6 DEF StepFailed
  <2>3. smtp \in SmtpState
    BY DEF SmtpInv
  <2>4. taken \in BOOLEAN
    BY <2>2, <2>3 DEF SmtpState
  <2>5. smtp' \in SmtpState
    BY <1>3, <2>1, <2>2, <2>3, <2>4 DEF SmtpState
  <2>6. /\ smtp'.secure = smtp.secure /\ smtp'.credentials = smtp.credentials
        /\ smtp'.at = smtp.at /\ smtp'.taken = taken
    BY <2>2, <2>3 DEF SmtpState
  <2>7. smtpEnd' = IF Stage = "quit" THEN Sent ELSE Classify(Stage, event)
    BY <1>6 DEF StepFailed
  <2>8. Classify(Stage, event) # Pending /\ Classify(Stage, event) # Sent
    BY DEF Classify, Pending, Sent
  <2>9. CASE Stage = "quit"
    <3>1. smtp.taken
      BY <1>1, <1>2, <2>1, <2>9 DEF SmtpInv
    <3>2. smtp'.taken
      BY <2>2, <2>6, <2>9, <3>1
    <3>3. EndIsTruthful' /\ smtpEnd' # Pending
      BY <2>7, <2>9, <3>2 DEF EndIsTruthful, Sent, Pending
    <3> QED BY <1>1, <2>1, <2>5, <2>6, <3>3 DEF SmtpInv
  <2>10. CASE Stage # "quit"
    <3>1. ASSUME smtp'.taken
          PROVE  smtpEnd'.retryable
      <4>1. ~smtp.taken
        BY <1>1, <1>2, <2>1, <2>10 DEF SmtpInv
      <4>2. Stage = "message" /\ event \in SocketFailures
        BY <2>2, <2>6, <3>1, <4>1
      <4>3. event # "certificate"
        BY <1>6, <4>2 DEF StepFailed
      <4> QED BY <2>7, <4>2, <4>3 DEF Classify, SocketFailures
    <3>2. EndIsTruthful' /\ smtpEnd' # Pending
      BY <2>7, <2>8, <2>10, <3>1 DEF EndIsTruthful
    <3> QED BY <1>1, <2>1, <2>5, <2>6, <3>2 DEF SmtpInv
  <2> QED BY <2>9, <2>10
<1>7. CASE UNCHANGED smtpVars
  BY <1>7 DEF smtpVars, SmtpInv, EndIsTruthful, SmtpState
<1> QED BY <1>4, <1>5, <1>6, <1>7 DEF SmtpNext

(* Nothing secret is written before the connection is encrypted, and how the dialogue *)
(* ends never contradicts what the server took, for every step a server can fail      *)
(* (connectSmtp, sendSmtpMessage, classifySmtpError).                                 *)
THEOREM DialogueIsSafeHolds == SmtpSpec => []DialogueIsSafe
<1>1. SmtpInv => DialogueIsSafe
  BY DEF SmtpInv, SmtpState, DialogueIsSafe, NothingInClear
<1> QED BY SmtpInitInv, SmtpStepInv, <1>1, PTL DEF SmtpSpec

-----------------------------------------------------------------------------
(* BurstAlert: every threshold's worth of a streak is one burst.             *)

StreakTypes ==
    /\ clock \in Nat /\ count \in Nat /\ lastFailureAt \in Int /\ alerts \in Nat
    /\ rejecting \in [Replicas -> Nat]

\* Bursts a replica holds and has not reported.
Unreported == {r \in Replicas : rejecting[r] # 0 /\ IsBurst(rejecting[r])}

\* A rejection is looked at before time passes, so the streak of one not yet looked at goes on.
HeldIsRecent == \A r \in Replicas : rejecting[r] # 0 => lastFailureAt = clock /\ count # 0

\* Reported and held bursts together are the thresholds the streak has crossed.
CrossingsAreCounted ==
    /\ IsFiniteSet(Unreported)
    /\ alerts + Cardinality(Unreported) = count \div Threshold

StreakInv == StreakTypes /\ HeldIsRecent /\ CrossingsAreCounted

\* One more rejection crosses a threshold exactly when it is a multiple of it.
LEMMA OneMore ==
    ASSUME NEW n \in Nat
    PROVE  /\ n \div Threshold \in Nat
           /\ (n + 1) \div Threshold = (n \div Threshold) + (IF IsBurst(n + 1) THEN 1 ELSE 0)
BY BurstAssumption, SMTT(30) DEF IsBurst

LEMMA NoneYet == 0 \div Threshold = 0
BY BurstAssumption, SMT

LEMMA StreakInitInv == BurstInit => StreakInv
<1> SUFFICES ASSUME BurstInit
             PROVE  StreakInv
  OBVIOUS
<1>1. StreakTypes
  BY BurstAssumption DEF BurstInit, StreakTypes, Never
<1>2. Unreported = {}
  BY DEF BurstInit, Unreported
<1>3. HeldIsRecent
  BY DEF BurstInit, HeldIsRecent
<1>4. CrossingsAreCounted
  BY <1>2, FS_EmptySet, NoneYet DEF BurstInit, CrossingsAreCounted
<1> QED BY <1>1, <1>3, <1>4 DEF StreakInv

\* Only a held rejection makes a replica's burst unreported.
LEMMA HeldSetAfter ==
    ASSUME StreakTypes, NEW r \in Replicas, NEW n \in Nat,
           rejecting' = [rejecting EXCEPT ![r] = n]
    PROVE  Unreported' = IF n # 0 /\ IsBurst(n) THEN Unreported \cup {r}
                                                ELSE Unreported \ {r}
<1>1. \A q \in Replicas : rejecting'[q] = IF q = r THEN n ELSE rejecting[q]
  BY DEF StreakTypes
<1>2. Unreported' = {q \in Replicas : rejecting'[q] # 0 /\ IsBurst(rejecting'[q])}
  BY DEF Unreported, IsBurst
<1>3. CASE n # 0 /\ IsBurst(n)
  <2>1. \A q \in Replicas : (rejecting'[q] # 0 /\ IsBurst(rejecting'[q]))
                              <=> q = r \/ (rejecting[q] # 0 /\ IsBurst(rejecting[q]))
    BY <1>1, <1>3
  <2> QED BY <1>2, <1>3, <2>1 DEF Unreported
<1>4. CASE ~(n # 0 /\ IsBurst(n))
  <2>1. \A q \in Replicas : (rejecting'[q] # 0 /\ IsBurst(rejecting'[q]))
                              <=> q # r /\ (rejecting[q] # 0 /\ IsBurst(rejecting[q]))
    BY <1>1, <1>4
  <2> QED BY <1>2, <1>4, <2>1 DEF Unreported
<1> QED BY <1>3, <1>4

LEMMA CountKeepsStreak ==
    ASSUME StreakInv, NEW r \in Replicas, CountRejection(r)
    PROVE  StreakInv'
<1> DEFINE next == IF Decayed THEN 1 ELSE count + 1
<1>1. /\ rejecting[r] = 0 /\ count' = next /\ lastFailureAt' = clock /\ clock' = clock
      /\ rejecting' = [rejecting EXCEPT ![r] = next]
      /\ alerts' = IF next = 1 THEN 0 ELSE alerts
  BY DEF CountRejection, pingVars
<1>2. StreakTypes /\ HeldIsRecent /\ CrossingsAreCounted
  BY DEF StreakInv
<1>3. next \in Nat \ {0}
  BY <1>2 DEF StreakTypes
<1>4. r \notin Unreported
  BY <1>1 DEF Unreported
<1>5. IsFiniteSet(Unreported) /\ Cardinality(Unreported) \in Nat
  BY <1>2, FS_CardinalityType DEF CrossingsAreCounted
<1>6. Unreported' = IF IsBurst(next) THEN Unreported \cup {r} ELSE Unreported
  <2>1. Unreported' = IF next # 0 /\ IsBurst(next) THEN Unreported \cup {r} ELSE Unreported \ {r}
    <3> HIDE DEF next
    <3> QED BY <1>1, <1>2, <1>3, HeldSetAfter
  <2> QED BY <1>3, <1>4, <2>1
<1>7. /\ IsFiniteSet(Unreported')
      /\ Cardinality(Unreported') = Cardinality(Unreported) + (IF IsBurst(next) THEN 1 ELSE 0)
  <2>1. CASE IsBurst(next)
    <3>1. /\ IsFiniteSet(Unreported \cup {r})
          /\ Cardinality(Unreported \cup {r}) = Cardinality(Unreported) + 1
      BY <1>4, <1>5, FS_AddElement
    <3> QED BY <1>6, <2>1, <3>1
  <2>2. CASE ~IsBurst(next)
    BY <1>5, <1>6, <2>2
  <2> QED BY <2>1, <2>2
<1>8. StreakTypes'
  BY <1>1, <1>2, <1>3 DEF StreakTypes
<1>9. HeldIsRecent'
  BY <1>1, <1>3 DEF HeldIsRecent
<1>10. CrossingsAreCounted'
  <2>1. CASE Decayed
    <3>1. next = 1
      BY <2>1
    <3>2. \A q \in Replicas : rejecting[q] = 0
      BY <1>2, <2>1, BurstAssumption DEF Decayed, HeldIsRecent, StreakTypes
    <3>3. Unreported = {}
      BY <3>2 DEF Unreported
    <3>4. Cardinality(Unreported) = 0
      BY <3>3, FS_EmptySet
    <3>5. 1 \div Threshold = IF IsBurst(1) THEN 1 ELSE 0
      <4>1. (0 + 1) \div Threshold = (0 \div Threshold) + (IF IsBurst(0 + 1) THEN 1 ELSE 0)
        BY OneMore
      <4>2. 0 + 1 = 1
        OBVIOUS
      <4> QED BY <4>1, <4>2, NoneYet
    <3> QED BY <1>1, <1>7, <3>1, <3>4, <3>5 DEF CrossingsAreCounted
  <2>2. CASE ~Decayed
    <3>1. next = count + 1
      BY <2>2
    <3>2. count \in Nat /\ alerts \in Nat
      BY <1>2 DEF StreakTypes
    <3>3. alerts' = alerts
      <4>1. CASE count = 0
        <5>1. alerts + Cardinality(Unreported) = 0
          BY <1>2, <4>1, NoneYet DEF CrossingsAreCounted
        <5>2. alerts = 0
          BY <1>5, <3>2, <5>1
        <5> QED BY <1>1, <5>2
      <4>2. CASE count # 0
        <5>1. next # 1
          BY <3>1, <3>2, <4>2
        <5> QED BY <1>1, <5>1
      <4> QED BY <4>1, <4>2
    <3>4. /\ count \div Threshold \in Nat
          /\ (count + 1) \div Threshold
               = (count \div Threshold) + (IF IsBurst(count + 1) THEN 1 ELSE 0)
      BY <3>2, OneMore
    <3>5. alerts + Cardinality(Unreported) = count \div Threshold
      BY <1>2 DEF CrossingsAreCounted
    <3>6. count' = count + 1
      BY <1>1, <3>1
    <3>7. alerts' + Cardinality(Unreported') = count' \div Threshold
      BY <1>5, <1>7, <3>1, <3>2, <3>3, <3>4, <3>5, <3>6
    <3> QED BY <1>7, <3>7 DEF CrossingsAreCounted
  <2> QED BY <2>1, <2>2
<1> QED BY <1>8, <1>9, <1>10 DEF StreakInv

LEMMA LookKeepsStreak ==
    ASSUME StreakInv, NEW r \in Replicas, LookAtCount(r)
    PROVE  StreakInv'
<1>1. /\ rejecting[r] # 0 /\ rejecting' = [rejecting EXCEPT ![r] = 0]
      /\ alerts' = IF IsBurst(rejecting[r]) THEN alerts + 1 ELSE alerts
      /\ UNCHANGED <<clock, count, lastFailureAt>>
  BY DEF LookAtCount
<1>2. StreakTypes /\ HeldIsRecent /\ CrossingsAreCounted
  BY DEF StreakInv
<1>3. Unreported' = Unreported \ {r}
  BY <1>1, <1>2, HeldSetAfter
<1>4. r \in Unreported <=> IsBurst(rejecting[r])
  BY <1>1 DEF Unreported
<1>5. IsFiniteSet(Unreported) /\ Cardinality(Unreported) \in Nat
  BY <1>2, FS_CardinalityType DEF CrossingsAreCounted
<1>6. /\ IsFiniteSet(Unreported')
      /\ Cardinality(Unreported')
           = Cardinality(Unreported) - (IF IsBurst(rejecting[r]) THEN 1 ELSE 0)
  <2>1. /\ IsFiniteSet(Unreported \ {r})
        /\ Cardinality(Unreported \ {r})
             = IF r \in Unreported THEN Cardinality(Unreported) - 1 ELSE Cardinality(Unreported)
    BY <1>5, FS_RemoveElement
  <2> QED BY <1>3, <1>4, <1>5, <2>1
<1>7. StreakTypes'
  BY <1>1, <1>2 DEF StreakTypes
<1>8. HeldIsRecent'
  BY <1>1, <1>2 DEF HeldIsRecent, StreakTypes
<1>9. CrossingsAreCounted'
  <2>1. alerts \in Nat /\ alerts + Cardinality(Unreported) = count \div Threshold
    BY <1>2 DEF StreakTypes, CrossingsAreCounted
  <2>2. alerts' + Cardinality(Unreported') = alerts + Cardinality(Unreported)
    BY <1>1, <1>5, <1>6, <2>1
  <2>3. count' \div Threshold = count \div Threshold
    BY <1>1
  <2> QED BY <1>6, <2>1, <2>2, <2>3 DEF CrossingsAreCounted
<1> QED BY <1>7, <1>8, <1>9 DEF StreakInv

LEMMA StreakStepInv == StreakInv /\ [BurstNext]_burstVars => StreakInv'
<1> SUFFICES ASSUME StreakInv, [BurstNext]_burstVars
             PROVE  StreakInv'
  OBVIOUS
<1>1. CASE Advance
  <2>1. /\ \A r \in Replicas : rejecting[r] = 0
        /\ clock' = clock + 1 /\ UNCHANGED <<count, lastFailureAt, rejecting, alerts>>
    BY <1>1 DEF Advance, streakVars
  <2>2. Unreported' = Unreported
    BY <2>1 DEF Unreported
  <2> QED BY <2>1, <2>2 DEF StreakInv, StreakTypes, HeldIsRecent, CrossingsAreCounted
<1>2. CASE SweepStreak
  <2>1. /\ Decayed /\ count' = 0 /\ lastFailureAt' = Never /\ alerts' = 0
        /\ UNCHANGED <<clock, rejecting>>
    BY <1>2 DEF SweepStreak
  <2>2. \A r \in Replicas : rejecting[r] = 0
    BY <2>1, BurstAssumption DEF Decayed, StreakInv, HeldIsRecent, StreakTypes
  <2>3. Unreported' = {}
    BY <2>1, <2>2 DEF Unreported
  <2>4. StreakTypes' /\ HeldIsRecent'
    BY <2>1, <2>2, BurstAssumption DEF StreakInv, StreakTypes, HeldIsRecent, Never
  <2>5. CrossingsAreCounted'
    BY <2>1, <2>3, NoneYet, FS_EmptySet DEF CrossingsAreCounted
  <2> QED BY <2>4, <2>5 DEF StreakInv
<1>3. CASE \E r \in Replicas : CountRejection(r)
  BY <1>3, CountKeepsStreak
<1>4. CASE \E r \in Replicas : LookAtCount(r)
  BY <1>4, LookKeepsStreak
<1>5. CASE UNCHANGED <<clock, streakVars>>
  <2>1. UNCHANGED <<clock, count, lastFailureAt, rejecting, alerts>>
    BY <1>5 DEF streakVars
  <2>2. Unreported' = Unreported
    BY <2>1 DEF Unreported
  <2> QED BY <2>1, <2>2 DEF StreakInv, StreakTypes, HeldIsRecent, CrossingsAreCounted
<1>6. CASE UNCHANGED burstVars
  BY <1>5, <1>6 DEF burstVars
<1>7. CASE ArriveLate
  BY <1>5, <1>7 DEF ArriveLate
<1>8. ASSUME NEW r \in Replicas,
             Tick(r) \/ SendPing(r) \/ PingArrives(r) \/ GivenUp(r) \/ StopPinger(r)
      PROVE  StreakInv'
  <2>1. UNCHANGED <<clock, streakVars>>
    BY <1>8 DEF Tick, SendPing, PingArrives, GivenUp, StopPinger
  <2> QED BY <1>5, <2>1
<1> QED BY <1>1, <1>2, <1>3, <1>4, <1>6, <1>7, <1>8 DEF BurstNext

Pings == {"fail", "success"}

PingTypes ==
    /\ clock \in Nat
    /\ lastBurstAt \in [Replicas -> Int]
    /\ chain \in [Replicas -> Seq(Pings)]
    /\ sending \in [Replicas -> Pings \cup {"none"}]
    /\ up \in BOOLEAN /\ unsafe \in BOOLEAN

\* A burst of the replica's own is still fresh.
Fresh(r) == clock - lastBurstAt[r] < Suppress

\* While a burst is fresh the replica's last word is the /fail: queued last, under way, or
\* arrived.
FailHasLastWord == \A r \in Replicas : Fresh(r) =>
    /\ chain[r] # <<>> => chain[r][Len(chain[r])] = "fail"
    /\ chain[r] = <<>> =>
          \/ sending[r] = "fail"
          \/ sending[r] = "none" /\ (~up \/ unsafe)

PingInv == PingTypes /\ FailHasLastWord

LEMMA PingInitInv == BurstInit => PingInv
<1> SUFFICES ASSUME BurstInit
             PROVE  PingInv
  OBVIOUS
<1>1. PingTypes
  <2>1. <<>> \in Seq(Pings)
    BY EmptySeq
  <2>2. Never \in Int
    BY BurstAssumption DEF Never
  <2>3. up \in BOOLEAN /\ unsafe \in BOOLEAN
    BY DEF BurstInit
  <2>4. chain \in [Replicas -> Seq(Pings)]
    BY <2>1 DEF BurstInit
  <2>5. lastBurstAt \in [Replicas -> Int] /\ sending \in [Replicas -> Pings \cup {"none"}]
    BY <2>2 DEF BurstInit
  <2>6. clock \in Nat
    BY DEF BurstInit
  <2> QED BY <2>3, <2>4, <2>5, <2>6 DEF PingTypes
<1>2. \A r \in Replicas : ~Fresh(r)
  BY BurstAssumption DEF BurstInit, Fresh, Never
<1> QED BY <1>1, <1>2 DEF PingInv, FailHasLastWord

LEMMA LookKeepsPings ==
    ASSUME PingInv, NEW r \in Replicas, LookAtCount(r)
    PROVE  PingInv'
<1>1. /\ UNCHANGED <<clock, sending, up, unsafe>>
      /\ \/ UNCHANGED <<lastBurstAt, chain>>
         \/ /\ lastBurstAt' = [lastBurstAt EXCEPT ![r] = clock]
            /\ chain' = [chain EXCEPT ![r] = Append(chain[r], "fail")]
  BY DEF LookAtCount
<1>2. CASE UNCHANGED <<lastBurstAt, chain>>
  BY <1>1, <1>2 DEF PingInv, PingTypes, FailHasLastWord, Fresh
<1>3. CASE /\ lastBurstAt' = [lastBurstAt EXCEPT ![r] = clock]
           /\ chain' = [chain EXCEPT ![r] = Append(chain[r], "fail")]
  <2>1. PICK queue \in Seq(Pings) : queue = Append(chain[r], "fail")
    BY AppendProperties DEF PingInv, PingTypes, Pings
  <2>2. queue # <<>> /\ queue[Len(queue)] = "fail"
    <3>1. chain[r] \in Seq(Pings) /\ "fail" \in Pings
      BY DEF PingInv, PingTypes, Pings
    <3>2. Len(queue) = Len(chain[r]) + 1
      BY <2>1, <3>1, AppendProperties
    <3> QED BY <2>1, <3>1, <3>2, AppendProperties
  <2>3. chain' = [chain EXCEPT ![r] = queue]
    BY <1>3, <2>1
  <2>4. PingTypes'
    BY <1>1, <1>3, <2>3 DEF PingInv, PingTypes
  <2>5. ASSUME NEW q \in Replicas, Fresh(q)'
        PROVE  /\ chain'[q] # <<>> => chain'[q][Len(chain'[q])] = "fail"
               /\ chain'[q] = <<>> =>
                     \/ sending'[q] = "fail"
                     \/ sending'[q] = "none" /\ (~up' \/ unsafe')
    <3>1. CASE q = r
      <4>1. chain'[q] = queue
        BY <2>3, <3>1 DEF PingInv, PingTypes
      <4> QED BY <2>2, <4>1
    <3>2. CASE q # r
      <4>1. chain'[q] = chain[q] /\ lastBurstAt'[q] = lastBurstAt[q]
        BY <1>3, <3>2 DEF PingInv, PingTypes
      <4>2. Fresh(q)
        BY <1>1, <2>5, <4>1 DEF Fresh
      <4> QED BY <1>1, <4>1, <4>2 DEF PingInv, FailHasLastWord
    <3> QED BY <3>1, <3>2
  <2>6. FailHasLastWord'
    BY <2>5 DEF FailHasLastWord
  <2> QED BY <2>4, <2>6 DEF PingInv
<1> QED BY <1>1, <1>2, <1>3

LEMMA TickKeepsPings ==
    ASSUME PingInv, NEW r \in Replicas, Tick(r)
    PROVE  PingInv'
<1>1. /\ UNCHANGED <<clock, lastBurstAt, sending, up, unsafe>>
      /\ chain' = IF Quiet(r) THEN [chain EXCEPT ![r] = Append(chain[r], "success")] ELSE chain
  BY DEF Tick
<1>2. \A q \in Replicas : Fresh(q)' <=> Fresh(q)
  BY <1>1 DEF Fresh
<1>3. CASE Quiet(r)
  <2>1. ~Fresh(r)
    BY <1>3, BurstAssumption DEF Quiet, Fresh, PingInv, PingTypes
  <2>2. Append(chain[r], "success") \in Seq(Pings)
    BY AppendProperties DEF PingInv, PingTypes, Pings
  <2>3. PingTypes'
    BY <1>1, <1>3, <2>2 DEF PingInv, PingTypes
  <2>4. \A q \in Replicas : q # r => chain'[q] = chain[q]
    BY <1>1, <1>3 DEF PingInv, PingTypes
  <2>5. FailHasLastWord'
    BY <1>1, <1>2, <2>1, <2>4 DEF PingInv, FailHasLastWord
  <2> QED BY <2>3, <2>5 DEF PingInv
<1>4. CASE ~Quiet(r)
  BY <1>1, <1>4 DEF PingInv, PingTypes, FailHasLastWord, Fresh
<1> QED BY <1>3, <1>4

\* A queue is empty exactly when its length says so.
LEMMA OnlyEmptyIsShort ==
    /\ Len(<<>>) = 0
    /\ \A s \in Seq(Pings) : Len(s) \in Nat /\ (Len(s) = 0 <=> s = <<>>)
<1>1. \A s \in Seq(Pings) : Len(s) \in Nat
  BY LenProperties
<1>2. Len(<<>>) = 0 /\ \A s \in Seq(Pings) : s # <<>> => Len(s) \in Nat \ {0}
  BY EmptySeq
<1> QED BY <1>1, <1>2

LEMMA SendKeepsPings ==
    ASSUME PingInv, NEW r \in Replicas, SendPing(r)
    PROVE  PingInv'
<1>1. /\ sending[r] = "none" /\ chain[r] # <<>>
      /\ chain' = [chain EXCEPT ![r] = Tail(chain[r])]
      /\ sending' = [sending EXCEPT ![r] =
                        IF Head(chain[r]) = "success" /\ ~Quiet(r) THEN "none"
                        ELSE Head(chain[r])]
      /\ UNCHANGED <<clock, lastBurstAt, up, unsafe>>
  BY DEF SendPing
<1>2. chain[r] \in Seq(Pings)
  BY DEF PingInv, PingTypes
<1>3. /\ Head(chain[r]) \in Pings /\ Tail(chain[r]) \in Seq(Pings)
      /\ Len(Tail(chain[r])) = Len(chain[r]) - 1
      /\ \A i \in 1..Len(Tail(chain[r])) : Tail(chain[r])[i] = chain[r][i + 1]
  BY <1>1, <1>2, HeadTailProperties
<1>4. PingTypes'
  BY <1>1, <1>3 DEF PingInv, PingTypes
<1>5. ASSUME NEW q \in Replicas, Fresh(q)'
      PROVE  /\ chain'[q] # <<>> => chain'[q][Len(chain'[q])] = "fail"
             /\ chain'[q] = <<>> =>
                   \/ sending'[q] = "fail"
                   \/ sending'[q] = "none" /\ (~up' \/ unsafe')
  <2>1. Fresh(q)
    BY <1>1, <1>5 DEF Fresh
  <2>2. CASE q # r
    <3>1. chain'[q] = chain[q] /\ sending'[q] = sending[q]
      BY <1>1, <2>2 DEF PingInv, PingTypes
    <3>2. /\ chain[q] # <<>> => chain[q][Len(chain[q])] = "fail"
          /\ chain[q] = <<>> =>
                \/ sending[q] = "fail"
                \/ sending[q] = "none" /\ (~up \/ unsafe)
      BY <2>1 DEF PingInv, FailHasLastWord
    <3>3. up' = up /\ unsafe' = unsafe
      BY <1>1
    <3> QED BY <3>1, <3>2, <3>3
  <2>3. CASE q = r
    <3>1. chain[r][Len(chain[r])] = "fail"
      BY <1>1, <2>1, <2>3 DEF PingInv, FailHasLastWord
    <3>2. chain'[r] = Tail(chain[r])
      BY <1>1 DEF PingInv, PingTypes
    <3>3. PICK n \in Nat : n = Len(chain[r]) /\ n # 0
      BY <1>1, <1>2, EmptySeq
    <3>4. CASE n = 1
      <4>1. Tail(chain[r]) = <<>>
        <5>1. Len(Tail(chain[r])) = 0
          BY <1>3, <3>3, <3>4
        <5> QED BY <1>3, <5>1, OnlyEmptyIsShort
      <4>2. Head(chain[r]) = "fail"
        BY <1>2, <3>1, <3>3, <3>4
      <4>3. sending'[r] = "fail"
        BY <1>1, <4>2 DEF PingInv, PingTypes
      <4> QED BY <2>3, <3>2, <4>1, <4>3
    <3>5. CASE n > 1
      <4>1. Tail(chain[r]) # <<>>
        <5>1. Len(Tail(chain[r])) # 0
          BY <1>3, <3>3, <3>5
        <5> QED BY <5>1, OnlyEmptyIsShort
      <4>2. Tail(chain[r])[Len(Tail(chain[r]))] = "fail"
        BY <1>3, <3>1, <3>3, <3>5
      <4> QED BY <2>3, <3>2, <4>1, <4>2
    <3>6. n \in Nat /\ n # 0
      BY <3>3
    <3>7. n = 1 \/ n > 1
      BY <3>6
    <3> QED BY <3>4, <3>5, <3>7
  <2> QED BY <2>2, <2>3
<1>6. FailHasLastWord'
  BY <1>5 DEF FailHasLastWord
<1> QED BY <1>4, <1>6 DEF PingInv

LEMMA ArrivalKeepsPings ==
    ASSUME PingInv, NEW r \in Replicas, PingArrives(r) \/ GivenUp(r)
    PROVE  PingInv'
<1>1. /\ sending[r] # "none" /\ sending' = [sending EXCEPT ![r] = "none"]
      /\ UNCHANGED <<clock, lastBurstAt, chain>>
  BY DEF PingArrives, GivenUp
<1>2. \/ /\ up' = (sending[r] = "success")
         /\ unsafe' = (unsafe \/ (sending[r] = "success" /\ ClearsForOthers(r)))
      \/ /\ up' = up
         /\ unsafe' = (unsafe \/ sending[r] = "fail")
  BY DEF PingArrives, GivenUp
<1>3. PingTypes'
  <2>1. sending' \in [Replicas -> Pings \cup {"none"}]
    BY <1>1 DEF PingInv, PingTypes
  <2>2. up' \in BOOLEAN /\ unsafe' \in BOOLEAN
    BY <1>2 DEF PingInv, PingTypes
  <2> QED BY <1>1, <2>1, <2>2 DEF PingInv, PingTypes
<1>4. ASSUME NEW q \in Replicas, Fresh(q)'
      PROVE  /\ chain'[q] # <<>> => chain'[q][Len(chain'[q])] = "fail"
             /\ chain'[q] = <<>> =>
                   \/ sending'[q] = "fail"
                   \/ sending'[q] = "none" /\ (~up' \/ unsafe')
  <2>1. Fresh(q) /\ chain'[q] = chain[q]
    BY <1>1, <1>4 DEF Fresh
  <2>2. CASE chain[q] # <<>>
    BY <2>1, <2>2 DEF PingInv, FailHasLastWord
  <2>3. CASE chain[q] = <<>> /\ q = r
    <3>1. sending[r] = "fail"
      BY <1>1, <2>1, <2>3 DEF PingInv, FailHasLastWord
    <3>2. sending'[q] = "none"
      BY <1>1, <2>3 DEF PingInv, PingTypes
    <3>3. ~up' \/ unsafe'
      BY <1>2, <3>1
    <3> QED BY <2>1, <2>3, <3>2, <3>3
  <2>4. CASE chain[q] = <<>> /\ q # r
    <3>1. sending'[q] = sending[q]
      BY <1>1, <2>4 DEF PingInv, PingTypes
    <3>2. \/ sending[q] = "fail"
          \/ sending[q] = "none" /\ (~up \/ unsafe)
      BY <2>1, <2>4 DEF PingInv, FailHasLastWord
    <3>3. ClearsForOthers(r)
      BY <2>1, <2>4 DEF ClearsForOthers, Fresh
    <3>4. (~up \/ unsafe) => (~up' \/ unsafe')
      BY <1>2, <3>3
    <3> QED BY <2>1, <2>4, <3>1, <3>2, <3>4
  <2> QED BY <2>2, <2>3, <2>4
<1>5. FailHasLastWord'
  BY <1>4 DEF FailHasLastWord
<1> QED BY <1>3, <1>5 DEF PingInv

LEMMA PingStepInv == PingInv /\ [BurstNext]_burstVars => PingInv'
<1> SUFFICES ASSUME PingInv, [BurstNext]_burstVars
             PROVE  PingInv'
  OBVIOUS
<1>1. CASE Advance
  <2>1. clock' = clock + 1 /\ UNCHANGED <<lastBurstAt, chain, sending, up, unsafe>>
    BY <1>1 DEF Advance, pingVars
  <2>2. \A r \in Replicas : Fresh(r)' => Fresh(r)
    BY <2>1, BurstAssumption DEF Fresh, PingInv, PingTypes
  <2> QED BY <2>1, <2>2 DEF PingInv, PingTypes, FailHasLastWord
<1>2. CASE ArriveLate
  <2>1. up' = TRUE /\ unsafe' = TRUE /\ UNCHANGED <<clock, lastBurstAt, chain, sending>>
    BY <1>2 DEF ArriveLate
  <2>2. \A r \in Replicas : Fresh(r)' <=> Fresh(r)
    BY <2>1 DEF Fresh
  <2>3. PingTypes'
    BY <2>1 DEF PingInv, PingTypes
  <2>4. FailHasLastWord'
    BY <2>1, <2>2 DEF PingInv, FailHasLastWord
  <2> QED BY <2>3, <2>4 DEF PingInv
<1>3. CASE UNCHANGED <<clock, lastBurstAt, chain, sending, up, unsafe>>
  BY <1>3 DEF PingInv, PingTypes, FailHasLastWord, Fresh
<1>4. CASE SweepStreak
  BY <1>3, <1>4 DEF SweepStreak, pingVars
<1>5. ASSUME NEW r \in Replicas
      PROVE  /\ CountRejection(r) => PingInv'
             /\ LookAtCount(r) => PingInv'
             /\ Tick(r) => PingInv'
             /\ SendPing(r) => PingInv'
             /\ PingArrives(r) \/ GivenUp(r) => PingInv'
             /\ StopPinger(r) => PingInv'
  <2>1. CountRejection(r) => PingInv'
    BY <1>3 DEF CountRejection, pingVars
  <2>2. StopPinger(r) => PingInv'
    BY <1>3 DEF StopPinger
  <2> QED BY <2>1, <2>2, LookKeepsPings, TickKeepsPings, SendKeepsPings, ArrivalKeepsPings
<1>6. CASE UNCHANGED burstVars
  BY <1>3, <1>6 DEF burstVars, pingVars
<1> QED BY <1>1, <1>2, <1>4, <1>5, <1>6 DEF BurstNext

(* However replicas, pings and the clock interleave, a streak of rejections is reported *)
(* once for each threshold it crosses, and a replica's fresh burst keeps the monitoring *)
(* check down unless a ping was lost, late or another replica's (recordFailureStreak,   *)
(* startCasAuthBurstAlert).                                                             *)
THEOREM AttackIsReportedHolds == BurstSpec => []AttackIsReported
<1>1. StreakInv => EveryCrossingIsABurst
  <2> SUFFICES ASSUME StreakInv, \A r \in Replicas : rejecting[r] = 0
               PROVE  alerts = count \div Threshold
    BY DEF EveryCrossingIsABurst
  <2>1. Unreported = {}
    BY DEF Unreported
  <2>2. Cardinality(Unreported) = 0
    BY <2>1, FS_EmptySet
  <2> QED BY <2>2 DEF StreakInv, StreakTypes, CrossingsAreCounted
<1>2. PingInv => CheckStaysDown
  BY DEF PingInv, FailHasLastWord, CheckStaysDown, Fresh
<1>3. StreakInv /\ PingInv => AttackIsReported
  BY <1>1, <1>2 DEF AttackIsReported
<1> QED BY StreakInitInv, StreakStepInv, PingInitInv, PingStepInv, <1>3, PTL DEF BurstSpec

-----------------------------------------------------------------------------
(* SchemaBootstrap: what a process that listens can rely on.                 *)

Upto(n) == [i \in 1..n |-> i]

BootState == [at : {"down", "lock", "count", "compare", "stamp", "migrate", "apply", "serving",
                    "refused"},
              release : 1..Releases, last : 0..Releases, why : {"none", "differs", "exists"}]

\* The tables, and the records, are the first few migrations.
BootTypes ==
    /\ \E k \in 0..Releases : tables = 1..k
    /\ Len(records) \in 0..Releases /\ records = Upto(Len(records))
    /\ drifted \in BOOLEAN /\ cutShort \in BOOLEAN /\ outgrown \in BOOLEAN
    /\ boot \in [Boots -> BootState]

Holding == {"count", "compare", "stamp", "migrate", "apply"}

\* Between taking the lock and giving it back a boot is its only holder.
HolderHasLock == \A b \in Boots : boot[b].at \in Holding => lock = b

\* What is recorded exists.
RecordedExists == 1..Len(records) \subseteq tables

\* An object of another shape is found in a database without records only.
DriftIsUnrecorded == drifted => Len(records) = 0 /\ tables # {}

\* What a boot has found out is still so when it acts on it.
Finding(x) ==
    /\ x.at = "compare" => Len(records) = 0
    /\ x.at = "stamp" => Len(records) = x.last /\ x.last < x.release
    /\ x.at \in {"migrate", "apply"} => Len(records) # 0 \/ tables = {}
    /\ x.at = "apply" => x.last = Len(records)
    /\ x.at \in {"stamp", "serving"} => 1..x.release \subseteq tables
    /\ x.at \in {"stamp", "migrate", "apply", "serving"} => ~drifted
    /\ x.why = "exists" => cutShort \/ outgrown

FindingsHold == \A b \in Boots : Finding(boot[b])

\* A baseline or a migration leaves nothing unrecorded, but for a process that dies in between
\* or a later push.
RecordsAreComplete ==
    ~cutShort /\ ~outgrown /\ Len(records) # 0 /\ (\A b \in Boots : boot[b].at # "stamp") =>
        tables = 1..Len(records)

BootInv ==
    /\ BootTypes /\ HolderHasLock /\ RecordedExists /\ DriftIsUnrecorded /\ FindingsHold
    /\ RecordsAreComplete

\* The first n migrations, in order.
LEMMA UptoIsASeq ==
    ASSUME NEW n \in Nat
    PROVE  /\ Upto(n) \in Seq(Nat) /\ Len(Upto(n)) = n
           /\ \A i \in 1..n : Upto(n)[i] = i
BY DEF Upto

LEMMA UptoGrows ==
    ASSUME NEW n \in Nat, NEW m \in Nat
    PROVE  Upto(n) \o [i \in 1..m |-> n + i] = Upto(n + m)
<1> DEFINE s == Upto(n)
           t == [i \in 1..m |-> n + i]
           u == Upto(n + m)
<1>1. s \in Seq(Nat) /\ Len(s) = n /\ \A i \in 1..n : s[i] = i
  BY UptoIsASeq
<1>2. u \in Seq(Nat) /\ Len(u) = n + m /\ \A i \in 1..(n + m) : u[i] = i
  <2>1. n + m \in Nat
    OBVIOUS
  <2> QED BY <2>1, UptoIsASeq
<1>3. t \in Seq(Nat) /\ Len(t) = m /\ \A i \in 1..m : t[i] = n + i
  OBVIOUS
<1> HIDE DEF s, t, u
<1>4. Len(u) = Len(s) + Len(t)
  BY <1>1, <1>2, <1>3
<1>5. \A i \in 1..Len(u) : u[i] = IF i <= Len(s) THEN s[i] ELSE t[i - Len(s)]
  <2> SUFFICES ASSUME NEW i \in 1..(n + m)
               PROVE  u[i] = IF i <= n THEN s[i] ELSE t[i - n]
    BY <1>1, <1>2
  <2>1. CASE i <= n
    BY <1>1, <1>2, <2>1
  <2>2. CASE ~(i <= n)
    <3>1. i - n \in 1..m /\ n + (i - n) = i
      BY <2>2
    <3> QED BY <1>2, <1>3, <2>2, <3>1
  <2> QED BY <2>1, <2>2
<1>6. s \o t = u
  BY <1>1, <1>2, <1>3, <1>4, <1>5, Joined
<1> QED BY <1>6 DEF s, t, u

LEMMA UptoAppends ==
    ASSUME NEW n \in Nat
    PROVE  Append(Upto(n), n + 1) = Upto(n + 1)
<1>1. Upto(n) \in Seq(Nat) /\ Len(Upto(n)) = n /\ \A i \in 1..n : Upto(n)[i] = i
  BY UptoIsASeq
<1>2. n + 1 \in Nat
  OBVIOUS
<1>3. Upto(n + 1) \in Seq(Nat) /\ Len(Upto(n + 1)) = n + 1 /\ \A i \in 1..(n + 1) : Upto(n + 1)[i] = i
  BY <1>2, UptoIsASeq
<1>4. /\ Append(Upto(n), n + 1) \in Seq(Nat)
      /\ Len(Append(Upto(n), n + 1)) = n + 1
      /\ \A i \in 1..n : Append(Upto(n), n + 1)[i] = i
      /\ Append(Upto(n), n + 1)[n + 1] = n + 1
  BY <1>1, <1>2, AppendProperties
<1>5. \A i \in 1..(n + 1) : Append(Upto(n), n + 1)[i] = Upto(n + 1)[i]
  <2> SUFFICES ASSUME NEW i \in 1..(n + 1)
               PROVE  Append(Upto(n), n + 1)[i] = Upto(n + 1)[i]
    OBVIOUS
  <2>1. i \in 1..n \/ i = n + 1
    OBVIOUS
  <2> QED BY <1>3, <1>4, <2>1
<1> QED BY <1>3, <1>4, <1>5, SeqEqual

\* What the code reads off the records.
LEMMA RecordsRead ==
    ASSUME BootTypes
    PROVE  /\ records = <<>> <=> Len(records) = 0
           /\ ToSet(records) = 1..Len(records) /\ IsInjective(records)
           /\ LastRecorded = Len(records)
<1>1. PICK n \in 0..Releases : n = Len(records)
  BY DEF BootTypes
<1>2. n \in Nat /\ records = Upto(n)
  BY <1>1, BootAssumption DEF BootTypes
<1>3. records = <<>> <=> n = 0
  <2>1. records \in Seq(Nat)
    BY <1>2, UptoIsASeq
  <2> QED BY <1>1, <2>1, EmptySeq
<1>4. DOMAIN records = 1..n /\ \A i \in 1..n : records[i] = i
  BY <1>2 DEF Upto
<1>5. ToSet(records) = 1..n /\ IsInjective(records)
  BY <1>4 DEF ToSet, IsInjective
<1>6. LastRecorded = n
  <2>1. CASE n = 0
    BY <1>3, <2>1 DEF LastRecorded
  <2>2. CASE n # 0
    <3>1. LastRecorded = Max(1..n)
      BY <1>3, <1>5, <2>2 DEF LastRecorded
    <3>2. n \in 1..n /\ \A y \in 1..n : n >= y
      BY <1>2, <2>2
    <3>3. \A x \in 1..n : (\A y \in 1..n : x >= y) => x = n
      BY <1>2, <2>2
    <3>4. Max(1..n) = n
      BY <3>2, <3>3 DEF Max
    <3> QED BY <3>1, <3>4
  <2> QED BY <2>1, <2>2
<1> QED BY <1>1, <1>3, <1>5, <1>6

LEMMA BootInitInv == BootInit => BootInv
<1> SUFFICES ASSUME BootInit
             PROVE  BootInv
  OBVIOUS
<1>1. /\ records = <<>> /\ Len(records) = 0 /\ cutShort = FALSE /\ outgrown = FALSE
      /\ boot = [b \in Boots |-> Down]
  BY DEF BootInit
<1>2. Down \in BootState
  BY BootAssumption DEF Down, BootState
<1>3. \/ tables = {} /\ drifted = FALSE
      \/ (\E r \in 1..Releases : tables = 1..r) /\ drifted \in BOOLEAN
  BY DEF BootInit
<1>4. \E k \in 0..Releases : tables = 1..k
  <2>1. CASE tables = {}
    <3>1. 0 \in 0..Releases /\ 1..0 = {}
      BY BootAssumption
    <3> QED BY <2>1, <3>1
  <2>2. CASE \E r \in 1..Releases : tables = 1..r
    BY <2>2, BootAssumption
  <2> QED BY <1>3, <2>1, <2>2
<1>5. drifted => tables # {}
  <2>1. \A r \in 1..Releases : 1..r # {}
    BY BootAssumption
  <2> QED BY <1>3, <2>1
<1>6. BootTypes
  <2>1. records = Upto(Len(records)) /\ Len(records) \in 0..Releases
    BY <1>1, BootAssumption DEF Upto
  <2>2. drifted \in BOOLEAN /\ cutShort \in BOOLEAN /\ outgrown \in BOOLEAN
    BY <1>1, <1>3
  <2>3. boot \in [Boots -> BootState]
    BY <1>1, <1>2
  <2> QED BY <1>4, <2>1, <2>2, <2>3 DEF BootTypes
<1>7. \A b \in Boots : boot[b].at = "down" /\ boot[b].why = "none"
  BY <1>1 DEF Down
<1>8. HolderHasLock /\ FindingsHold
  BY <1>7 DEF HolderHasLock, FindingsHold, Finding, Holding
<1>9. RecordedExists /\ DriftIsUnrecorded /\ RecordsAreComplete
  BY <1>1, <1>5 DEF RecordedExists, DriftIsUnrecorded, RecordsAreComplete
<1> QED BY <1>6, <1>8, <1>9 DEF BootInv

\* A step of one boot that leaves the database and its records as they are.
LEMMA QuietStep ==
    ASSUME BootInv, NEW b \in Boots, NEW x \in BootState,
           boot' = [boot EXCEPT ![b] = x],
           UNCHANGED <<tables, drifted, records, outgrown>>,
           cutShort' \in BOOLEAN, cutShort => cutShort',
           x.at \in Holding => lock' = b,
           \A c \in Boots \ {b} : boot[c].at \in Holding => lock' = c,
           boot[b].at = "stamp" /\ x.at # "stamp" => cutShort' \/ Len(records) = 0,
           Finding(x)'
    PROVE  BootInv'
<1> USE DEF BootInv
<1>1. \A c \in Boots : boot'[c] = IF c = b THEN x ELSE boot[c]
  BY DEF BootTypes
<1>2. UNCHANGED Len(records)
  OBVIOUS
<1>3. BootTypes'
  BY DEF BootTypes
<1>4. HolderHasLock'
  BY <1>1 DEF HolderHasLock
<1>5. RecordedExists' /\ DriftIsUnrecorded'
  BY DEF RecordedExists, DriftIsUnrecorded
<1>6. ASSUME NEW y, Finding(y)
      PROVE  Finding(y)'
  BY <1>6, <1>2 DEF Finding
<1>7. FindingsHold'
  <2> SUFFICES ASSUME NEW c \in Boots
               PROVE  Finding(boot[c])'
    BY DEF FindingsHold
  <2>1. CASE c = b
    <3>1. boot'[c] = x
      BY <1>1, <2>1
    <3> QED BY <3>1 DEF Finding
  <2>2. CASE c # b
    <3>1. boot'[c] = boot[c]
      BY <1>1, <2>2
    <3>2. Finding(boot[c])
      BY DEF FindingsHold
    <3> QED BY <1>2, <3>1, <3>2 DEF Finding
  <2> QED BY <2>1, <2>2
<1>8. RecordsAreComplete'
  <2> SUFFICES ASSUME ~cutShort', ~outgrown', Len(records') # 0,
                      \A c \in Boots : boot'[c].at # "stamp"
               PROVE  tables' = 1..Len(records')
    BY DEF RecordsAreComplete
  <2>1. ~cutShort /\ ~outgrown /\ Len(records) # 0
    BY <1>2
  <2>2. boot[b].at # "stamp"
    BY <1>1, <2>1
  <2>3. \A c \in Boots : boot[c].at # "stamp"
    BY <1>1, <2>2
  <2> QED BY <1>2, <2>1, <2>3 DEF RecordsAreComplete
<1> QED BY <1>3, <1>4, <1>5, <1>7, <1>8

\* What a boot state is, and that another boot holds the lock only if this one does not.
LEMMA BootFacts ==
    ASSUME BootInv, NEW b \in Boots
    PROVE  /\ boot[b] \in BootState /\ Finding(boot[b])
           /\ boot[b].at \in Holding =>
                 /\ lock = b
                 /\ \A c \in Boots \ {b} : boot[c].at \notin Holding
BY DEF BootInv, BootTypes, FindingsHold, HolderHasLock

LEMMA StartKeepsBoot ==
    ASSUME BootInv, NEW b \in Boots, Start(b)
    PROVE  BootInv'
<1>1. PICK r \in 1..Releases :
          boot' = [boot EXCEPT ![b] = [Down EXCEPT !.at = "lock", !.release = r]]
  BY DEF Start
<1>2. boot[b].at \in {"down", "refused"} /\ UNCHANGED <<tables, drifted, records, lock, cutShort, outgrown>>
  BY DEF Start
<1>3. PICK x \in BootState : x = [Down EXCEPT !.at = "lock", !.release = r]
  <2>1. Down \in BootState
    BY BootAssumption DEF Down, BootState
  <2> QED BY <2>1 DEF BootState
<1>4. x.at = "lock" /\ x.why = "none"
  BY <1>3 DEF Down
<1>5. boot' = [boot EXCEPT ![b] = x] /\ Finding(x)' /\ x.at \notin Holding
  BY <1>1, <1>3, <1>4 DEF Finding, Holding
<1> QED BY <1>2, <1>5, QuietStep DEF BootInv, BootTypes, HolderHasLock

LEMMA LockKeepsBoot ==
    ASSUME BootInv, NEW b \in Boots, Lock(b)
    PROVE  BootInv'
<1>1. /\ boot[b].at = "lock" /\ lock = NoBoot /\ lock' = b
      /\ boot' = [boot EXCEPT ![b].at = "count"]
      /\ UNCHANGED <<tables, drifted, records, cutShort, outgrown>>
  BY DEF Lock, MayLock, Go
<1>2. PICK x \in BootState : x = [boot[b] EXCEPT !.at = "count"]
  BY BootFacts DEF BootState
<1>3. x.at = "count" /\ x.why = boot[b].why
  BY <1>2, BootFacts DEF BootState
<1>4. boot' = [boot EXCEPT ![b] = x]
  BY <1>1, <1>2
<1>5. Finding(x)'
  BY <1>1, <1>3, BootFacts DEF Finding
<1>6. \A c \in Boots : boot[c].at \notin Holding
  BY <1>1, BootAssumption DEF BootInv, HolderHasLock
<1> QED BY <1>1, <1>3, <1>4, <1>5, <1>6, QuietStep DEF BootInv, BootTypes

LEMMA CountKeepsBoot ==
    ASSUME BootInv, NEW b \in Boots, CountRecorded(b)
    PROVE  BootInv'
<1> DEFINE at == IF records # <<>> \/ tables = {} THEN "migrate" ELSE "compare"
<1>1. /\ boot[b].at = "count" /\ boot' = [boot EXCEPT ![b].at = at]
      /\ UNCHANGED <<tables, drifted, records, lock, cutShort, outgrown>>
  BY DEF CountRecorded, Go
<1>2. PICK x \in BootState : x = [boot[b] EXCEPT !.at = at]
  BY BootFacts DEF BootState
<1>3. x.at = at /\ x.why = boot[b].why
  BY <1>2, BootFacts DEF BootState
<1>4. boot' = [boot EXCEPT ![b] = x]
  BY <1>1, <1>2
<1>5. records = <<>> <=> Len(records) = 0
  BY RecordsRead DEF BootInv
<1>6. Finding(x)
  <2>1. CASE Len(records) # 0 \/ tables = {}
    <3>1. at = "migrate"
      BY <1>5, <2>1
    <3>2. ~drifted
      BY <2>1 DEF BootInv, DriftIsUnrecorded
    <3> QED BY <1>3, <2>1, <3>1, <3>2, BootFacts DEF Finding
  <2>2. CASE ~(Len(records) # 0 \/ tables = {})
    <3>1. at = "compare"
      BY <1>5, <2>2
    <3> QED BY <1>3, <2>2, <3>1, BootFacts DEF Finding
  <2> QED BY <2>1, <2>2
<1>7. Finding(x)'
  BY <1>1, <1>6 DEF Finding
<1>8. lock' = b /\ \A c \in Boots \ {b} : boot[c].at \notin Holding
  BY <1>1, BootFacts DEF Holding
<1> QED BY <1>1, <1>4, <1>7, <1>8, QuietStep DEF BootInv, BootTypes

LEMMA CompareKeepsBoot ==
    ASSUME BootInv, NEW b \in Boots, Compare(b)
    PROVE  BootInv'
<1>1. boot[b].at = "compare" /\ UNCHANGED <<tables, drifted, records, cutShort, outgrown>>
  BY DEF Compare
<1>2. Len(records) = 0
  BY <1>1, BootFacts DEF Finding
<1>3. lock = b /\ \A c \in Boots \ {b} : boot[c].at \notin Holding
  BY <1>1, BootFacts DEF Holding
<1>4. CASE MatchesSnapshot(b)
  <2>1. boot' = [boot EXCEPT ![b].at = "stamp", ![b].last = 0] /\ lock' = lock
    BY <1>4 DEF Compare
  <2>2. PICK x \in BootState : x = [boot[b] EXCEPT !.at = "stamp", !.last = 0]
    <3>1. PICK zero \in 0..Releases : zero = 0
      BY BootAssumption
    <3>2. [boot[b] EXCEPT !.at = "stamp", !.last = zero] \in BootState
      BY BootFacts DEF BootState
    <3> QED BY <3>1, <3>2
  <2>3. x.at = "stamp" /\ x.last = 0 /\ x.release = boot[b].release /\ x.why = boot[b].why
    BY <2>2, BootFacts DEF BootState
  <2>4. boot' = [boot EXCEPT ![b] = x]
    BY <2>1, <2>2 DEF BootInv, BootTypes
  <2>5. Finding(x)
    <3>1. 0 < boot[b].release
      BY BootFacts, BootAssumption DEF BootState
    <3> QED BY <1>2, <1>4, <2>3, <3>1, BootFacts DEF Finding, MatchesSnapshot, Migrations
  <2>6. Finding(x)'
    BY <1>1, <2>5 DEF Finding
  <2> QED BY <1>1, <1>3, <2>1, <2>3, <2>4, <2>6, QuietStep DEF BootInv, BootTypes
<1>5. CASE ~MatchesSnapshot(b)
  <2>1. boot' = [boot EXCEPT ![b].at = "refused", ![b].why = "differs"] /\ lock' = NoBoot
    BY <1>5 DEF Compare, Refuse
  <2>2. PICK x \in BootState : x = [boot[b] EXCEPT !.at = "refused", !.why = "differs"]
    BY BootFacts DEF BootState
  <2>3. x.at = "refused" /\ x.why = "differs"
    BY <2>2, BootFacts DEF BootState
  <2>4. boot' = [boot EXCEPT ![b] = x]
    BY <2>1, <2>2 DEF BootInv, BootTypes
  <2>5. Finding(x)' /\ x.at \notin Holding
    BY <2>3 DEF Finding, Holding
  <2> QED BY <1>1, <1>3, <2>3, <2>4, <2>5, QuietStep DEF BootInv, BootTypes
<1> QED BY <1>4, <1>5

LEMMA ReadKeepsBoot ==
    ASSUME BootInv, NEW b \in Boots, ReadLast(b)
    PROVE  BootInv'
<1>1. /\ boot[b].at = "migrate" /\ UNCHANGED <<tables, drifted, records, lock, cutShort, outgrown>>
      /\ boot' = [boot EXCEPT ![b].at = "apply", ![b].last = LastRecorded]
  BY DEF ReadLast
<1>2. PICK n \in 0..Releases : n = Len(records) /\ n = LastRecorded
  BY RecordsRead DEF BootInv, BootTypes
<1>3. PICK x \in BootState : x = [boot[b] EXCEPT !.at = "apply", !.last = n]
  BY BootFacts DEF BootState
<1>4. x.at = "apply" /\ x.last = n /\ x.why = boot[b].why
  BY <1>3, BootFacts DEF BootState
<1>5. boot' = [boot EXCEPT ![b] = x]
  BY <1>1, <1>2, <1>3 DEF BootInv, BootTypes
<1>6. Finding(x)
  BY <1>1, <1>2, <1>4, BootFacts DEF Finding
<1>7. Finding(x)'
  BY <1>1, <1>6 DEF Finding
<1>8. lock' = b /\ \A c \in Boots \ {b} : boot[c].at \notin Holding
  BY <1>1, BootFacts DEF Holding
<1> QED BY <1>1, <1>5, <1>7, <1>8, QuietStep DEF BootInv, BootTypes

LEMMA DieKeepsBoot ==
    ASSUME BootInv, NEW b \in Boots, Die(b)
    PROVE  BootInv'
<1>1. /\ boot' = [boot EXCEPT ![b] = Down]
      /\ lock' = IF lock = b THEN NoBoot ELSE lock
      /\ cutShort' = (cutShort \/ (boot[b].at = "stamp" /\ boot[b].last > 0))
      /\ UNCHANGED <<tables, drifted, records, outgrown>>
  BY DEF Die
<1>2. Down \in BootState /\ Down.at = "down" /\ Down.why = "none"
  BY BootAssumption DEF Down, BootState
<1>3. Finding(Down)'
  BY <1>2 DEF Finding
<1>4. cutShort' \in BOOLEAN /\ (cutShort => cutShort')
  BY <1>1 DEF BootInv, BootTypes
<1>5. \A c \in Boots \ {b} : boot[c].at \in Holding => lock' = c
  BY <1>1 DEF BootInv, HolderHasLock
<1>6. boot[b].at = "stamp" => cutShort' \/ Len(records) = 0
  <2>1. boot[b].at = "stamp" => Len(records) = boot[b].last
    BY BootFacts DEF Finding
  <2>2. boot[b].last > 0 \/ boot[b].last = 0
    BY BootFacts, BootAssumption DEF BootState
  <2> QED BY <1>1, <2>1, <2>2
<1>7. Down.at \notin Holding
  BY <1>2 DEF Holding
<1> QED BY <1>1, <1>2, <1>3, <1>4, <1>5, <1>6, <1>7, QuietStep

LEMMA StampKeepsBoot ==
    ASSUME BootInv, NEW b \in Boots, Stamp(b)
    PROVE  BootInv'
<1> DEFINE at == IF boot[b].last + 1 = boot[b].release THEN "migrate" ELSE "stamp"
<1>1. /\ boot[b].at = "stamp"
      /\ records' = Append(records, boot[b].last + 1)
      /\ boot' = [boot EXCEPT ![b].last = boot[b].last + 1, ![b].at = at]
      /\ outgrown' = (outgrown \/ (boot[b].last + 1 = boot[b].release /\ tables # Migrations(b)))
      /\ UNCHANGED <<tables, drifted, lock, cutShort>>
  BY DEF Stamp
<1>2. PICK n \in Nat : n = boot[b].last
  BY BootFacts, BootAssumption DEF BootState
<1>3. PICK r \in 1..Releases : r = boot[b].release
  BY BootFacts DEF BootState
<1>4. Len(records) = n /\ n < r /\ 1..r \subseteq tables /\ ~drifted
  BY <1>1, <1>2, <1>3, BootFacts DEF Finding
<1>5. lock = b /\ \A c \in Boots \ {b} : boot[c].at \notin Holding
  BY <1>1, BootFacts DEF Holding
<1>6. records' = Upto(n + 1) /\ Len(records') = n + 1
  <2>1. records = Upto(n)
    BY <1>4 DEF BootInv, BootTypes
  <2>2. n + 1 \in Nat
    OBVIOUS
  <2> QED BY <1>1, <1>2, <2>1, <2>2, UptoAppends, UptoIsASeq
<1>7. PICK x \in BootState : x = [boot[b] EXCEPT !.last = n + 1, !.at = at]
  <2>1. n + 1 \in 0..Releases
    BY <1>3, <1>4, BootAssumption
  <2> QED BY <2>1, BootFacts DEF BootState
<1>8. x.at = at /\ x.last = n + 1 /\ x.release = r /\ x.why = boot[b].why
  BY <1>3, <1>7, BootFacts DEF BootState
<1>9. boot' = [boot EXCEPT ![b] = x]
  BY <1>1, <1>2, <1>7 DEF BootInv, BootTypes
<1>10. \A c \in Boots : boot'[c] = IF c = b THEN x ELSE boot[c]
  BY <1>9 DEF BootInv, BootTypes
<1>11. at = IF n + 1 = r THEN "migrate" ELSE "stamp"
  BY <1>2, <1>3
<1> HIDE DEF at
<1>12. BootTypes'
  <2>1. n + 1 \in 0..Releases
    BY <1>3, <1>4, BootAssumption
  <2>2. outgrown' \in BOOLEAN
    BY <1>1 DEF BootInv, BootTypes
  <2> QED BY <1>1, <1>6, <1>9, <2>1, <2>2 DEF BootInv, BootTypes
<1>13. HolderHasLock'
  BY <1>1, <1>5, <1>10 DEF HolderHasLock
<1>14. RecordedExists' /\ DriftIsUnrecorded'
  <2>1. 1..(n + 1) \subseteq 1..r
    BY <1>3, <1>4
  <2> QED BY <1>1, <1>4, <1>6, <2>1 DEF RecordedExists, DriftIsUnrecorded
<1>15. Finding(x)'
  <2>1. x.why = "exists" => cutShort' \/ outgrown'
    BY <1>1, <1>8, BootFacts DEF Finding
  <2>2. n + 1 # 0
    BY <1>2
  <2>3. CASE n + 1 = r
    BY <1>1, <1>4, <1>6, <1>8, <1>11, <2>1, <2>2, <2>3 DEF Finding
  <2>4. CASE n + 1 # r
    <3>1. n + 1 < r
      BY <1>3, <1>4, <2>4
    <3> QED BY <1>1, <1>4, <1>6, <1>8, <1>11, <2>1, <2>4, <3>1 DEF Finding
  <2> QED BY <2>3, <2>4
<1>16. FindingsHold'
  <2> SUFFICES ASSUME NEW c \in Boots
               PROVE  Finding(boot[c])'
    BY DEF FindingsHold
  <2>1. CASE c = b
    <3>1. boot'[c] = x
      BY <1>10, <2>1
    <3> QED BY <1>15, <3>1 DEF Finding
  <2>2. CASE c # b
    <3>1. boot'[c] = boot[c] /\ boot[c].at \notin Holding
      BY <1>5, <1>10, <2>2
    <3>2. Finding(boot[c])
      BY BootFacts
    <3> QED BY <1>1, <3>1, <3>2 DEF Finding, Holding
  <2> QED BY <2>1, <2>2
<1>17. RecordsAreComplete'
  <2> SUFFICES ASSUME ~outgrown', \A c \in Boots : boot'[c].at # "stamp"
               PROVE  tables' = 1..Len(records')
    BY DEF RecordsAreComplete
  <2>1. n + 1 = r
    BY <1>8, <1>10, <1>11
  <2>2. tables = 1..r
    BY <1>1, <1>2, <1>3, <2>1 DEF Migrations
  <2> QED BY <1>1, <1>6, <2>1, <2>2
<1> QED BY <1>12, <1>13, <1>14, <1>16, <1>17 DEF BootInv

LEMMA ApplyKeepsBoot ==
    ASSUME BootInv, NEW b \in Boots, Apply(b)
    PROVE  BootInv'
<1>1. PICK n \in Nat : n = Len(records)
  BY BootAssumption DEF BootInv, BootTypes
<1>2. PICK r \in 1..Releases : r = boot[b].release
  BY BootFacts DEF BootState
<1>3. PICK k \in 0..Releases : tables = 1..k
  BY DEF BootInv, BootTypes
<1>4. /\ boot[b].at = "apply" /\ boot[b].last = n /\ ~drifted
      /\ n # 0 \/ tables = {}
  BY <1>1, BootFacts DEF Apply, Finding
<1>5. /\ lock' = NoBoot /\ UNCHANGED <<drifted, cutShort, outgrown>>
      /\ lock = b /\ \A c \in Boots \ {b} : boot[c].at \notin Holding
  BY <1>4, BootFacts DEF Apply, Holding
<1>6. n <= k /\ records = Upto(n) /\ n \in 0..Releases
  <2>1. 1..n \subseteq 1..k
    BY <1>1, <1>3 DEF BootInv, RecordedExists
  <2>2. n <= k
    <3>1. CASE n = 0
      BY <1>3, <3>1, BootAssumption
    <3>2. CASE n # 0
      <4>1. n \in 1..n
        BY <3>2
      <4> QED BY <1>3, <2>1, <4>1, BootAssumption
    <3> QED BY <3>1, <3>2
  <2> QED BY <1>1, <2>2 DEF BootInv, BootTypes
<1> DEFINE pending == {m \in 1..r : m > n}
<1>7. CASE pending \cap tables # {}
  <2>1. boot' = [boot EXCEPT ![b].at = "refused", ![b].why = "exists"] /\ UNCHANGED <<tables, records>>
    BY <1>2, <1>4, <1>7 DEF Apply, Refuse, Migrations
  <2>2. PICK x \in BootState : x = [boot[b] EXCEPT !.at = "refused", !.why = "exists"]
    BY BootFacts DEF BootState
  <2>3. x.at = "refused" /\ x.why = "exists"
    BY <2>2, BootFacts DEF BootState
  <2>4. boot' = [boot EXCEPT ![b] = x]
    BY <2>1, <2>2 DEF BootInv, BootTypes
  <2>5. cutShort \/ outgrown
    <3> SUFFICES ASSUME ~cutShort, ~outgrown
                 PROVE  FALSE
      OBVIOUS
    <3>1. n # 0
      BY <1>4, <1>7
    <3>2. \A c \in Boots : boot[c].at # "stamp"
      BY <1>4, <1>5 DEF Holding
    <3>3. tables = 1..n
      BY <1>1, <3>1, <3>2 DEF BootInv, RecordsAreComplete
    <3>4. pending \cap 1..n = {}
      BY <1>1
    <3> QED BY <1>7, <3>3, <3>4
  <2>6. Finding(x)' /\ x.at \notin Holding
    BY <1>5, <2>3, <2>5 DEF Finding, Holding
  <2> QED BY <1>4, <1>5, <2>1, <2>3, <2>4, <2>6, QuietStep DEF BootInv, BootTypes
<1>8. CASE pending \cap tables = {}
  <2>1. /\ tables' = tables \cup pending /\ records' = records \o Later(b)
        /\ boot' = [boot EXCEPT ![b].at = "serving"]
    BY <1>2, <1>4, <1>8 DEF Apply, Go, Migrations
  <2>2. PICK x \in BootState : x = [boot[b] EXCEPT !.at = "serving"]
    BY BootFacts DEF BootState
  <2>3. x.at = "serving" /\ x.release = r /\ x.why = boot[b].why
    BY <1>2, <2>2, BootFacts DEF BootState
  <2>4. boot' = [boot EXCEPT ![b] = x]
    BY <2>1, <2>2 DEF BootInv, BootTypes
  <2>5. \A c \in Boots : boot'[c] = IF c = b THEN x ELSE boot[c]
    BY <2>4 DEF BootInv, BootTypes
  <2>6. PICK s \in 0..Releases : s = IF r > n THEN r ELSE n
    BY <1>2, <1>6
  <2>7. 1..r \subseteq 1..s /\ r <= s /\ n <= s
    BY <1>1, <1>2, <2>6, BootAssumption
  <2>8. records' = Upto(s)
    <3>1. CASE r > n
      <4>1. PICK m \in Nat : m = r - n
        BY <1>1, <1>2, <3>1
      <4>2. Later(b) = [i \in 1..m |-> n + i]
        BY <1>2, <1>4, <4>1 DEF Later
      <4>3. n + m = s
        BY <1>1, <1>2, <2>6, <3>1, <4>1
      <4> QED BY <1>6, <2>1, <4>2, <4>3, UptoGrows
    <3>2. CASE ~(r > n)
      <4>1. 1..(r - n) = {} /\ 1..0 = {}
        BY <1>1, <1>2, <3>2
      <4>2. Later(b) = [i \in 1..0 |-> n + i]
        BY <1>2, <1>4, <4>1 DEF Later
      <4>3. n + 0 = s
        BY <1>1, <2>6, <3>2
      <4> QED BY <1>6, <2>1, <4>2, <4>3, UptoGrows
    <3> QED BY <3>1, <3>2
  <2>9. Len(records') = s
    BY <2>6, <2>8, UptoIsASeq, BootAssumption
  <2>10. n # 0 /\ tables = 1..n => tables' = 1..s
    BY <1>1, <1>2, <2>1, <2>6
  <2>11. /\ 1..r \subseteq tables' /\ 1..s \subseteq tables' /\ tables \subseteq tables'
         /\ tables' = 1..s \/ tables' = tables
         /\ n = 0 => tables' = 1..s
    <3>1. CASE r > n
      <4>1. k = n
        <5> SUFFICES ASSUME k # n
                     PROVE  FALSE
          OBVIOUS
        <5>1. n + 1 \in pending /\ n + 1 \in 1..k
          BY <1>1, <1>2, <1>3, <1>6, <3>1, BootAssumption
        <5> QED BY <1>3, <1>8, <5>1
      <4>2. tables' = 1..r /\ s = r
        BY <1>1, <1>2, <1>3, <2>1, <2>6, <3>1, <4>1
      <4> QED BY <1>1, <1>2, <1>3, <3>1, <4>1, <4>2
    <3>2. CASE ~(r > n)
      <4>1. pending = {} /\ s = n /\ n # 0
        BY <1>1, <1>2, <2>6, <3>2
      <4>2. tables' = tables
        BY <2>1, <4>1
      <4>3. 1..n \subseteq tables
        BY <1>1 DEF BootInv, RecordedExists
      <4> QED BY <2>7, <4>1, <4>2, <4>3
    <3> QED BY <3>1, <3>2
  <2> HIDE DEF pending
  <2>12. BootTypes'
    <3>1. \E j \in 0..Releases : tables' = 1..j
      BY <1>3, <2>6, <2>11
    <3>2. boot' \in [Boots -> BootState]
      BY <2>4 DEF BootInv, BootTypes
    <3> QED BY <1>5, <2>6, <2>8, <2>9, <3>1, <3>2 DEF BootInv, BootTypes
  <2>13. HolderHasLock'
    BY <1>5, <2>3, <2>5 DEF HolderHasLock, Holding
  <2>14. RecordedExists' /\ DriftIsUnrecorded'
    BY <1>4, <1>5, <2>9, <2>11 DEF RecordedExists, DriftIsUnrecorded
  <2>15. ASSUME NEW c \in Boots
         PROVE  Finding(boot[c])'
    <3>1. CASE c = b
      <4>1. boot'[c] = x
        BY <2>5, <3>1
      <4> QED BY <1>4, <1>5, <2>3, <2>11, <4>1, BootFacts DEF Finding
    <3>2. CASE c # b
      <4>1. boot'[c] = boot[c] /\ boot[c].at \notin Holding
        BY <1>5, <2>5, <3>2
      <4>2. Finding(boot[c])
        BY BootFacts
      <4> QED BY <1>5, <2>11, <4>1, <4>2 DEF Finding, Holding
    <3> QED BY <3>1, <3>2
  <2>16. FindingsHold'
    BY <2>15 DEF FindingsHold
  <2>17. RecordsAreComplete'
    <3> SUFFICES ASSUME ~cutShort', ~outgrown'
                 PROVE  tables' = 1..s
      BY <2>9 DEF RecordsAreComplete
    <3>1. CASE n = 0
      BY <2>11, <3>1
    <3>2. CASE n # 0
      <4>1. \A c \in Boots : boot[c].at # "stamp"
        BY <1>4, <1>5 DEF Holding
      <4>2. tables = 1..n
        BY <1>1, <1>5, <3>2, <4>1 DEF BootInv, RecordsAreComplete
      <4> QED BY <2>10, <3>2, <4>2
    <3> QED BY <3>1, <3>2
  <2> QED BY <2>12, <2>13, <2>14, <2>16, <2>17 DEF BootInv
<1> QED BY <1>7, <1>8

LEMMA ReconcileKeepsBoot ==
    ASSUME BootInv, NEW b \in Boots, Reconcile(b)
    PROVE  BootInv'
<1>1. /\ \A c \in Boots : boot[c].at \in {"down", "refused"}
      /\ ~MatchesSnapshot(b)
      /\ tables' = Migrations(b) /\ drifted' = FALSE
      /\ outgrown' = (outgrown \/ records # <<>>)
      /\ UNCHANGED <<records, lock, boot, cutShort>>
  BY DEF Reconcile
<1>2. PICK r \in 1..Releases : r = boot[b].release
  BY BootFacts DEF BootState
<1>3. PICK k \in 0..Releases : tables = 1..k
  BY DEF BootInv, BootTypes
<1>4. tables' = 1..r
  BY <1>1, <1>2 DEF Migrations
<1>5. records = <<>> <=> Len(records) = 0
  BY RecordsRead DEF BootInv
<1>6. Len(records') = Len(records)
  BY <1>1
<1>7. BootTypes'
  <2>1. r \in 0..Releases /\ outgrown' \in BOOLEAN
    BY <1>1, <1>2 DEF BootInv, BootTypes
  <2> QED BY <1>1, <1>4, <2>1 DEF BootInv, BootTypes
<1>8. HolderHasLock' /\ DriftIsUnrecorded'
  BY <1>1 DEF HolderHasLock, DriftIsUnrecorded, Holding
<1>9. RecordedExists'
  <2>1. CASE Len(records) = 0
    <3>1. 1..0 = {}
      OBVIOUS
    <3> QED BY <1>6, <2>1, <3>1 DEF RecordedExists
  <2>2. CASE Len(records) # 0
    <3>1. ~drifted
      BY <2>2 DEF BootInv, DriftIsUnrecorded
    <3>2. ~(1..r \subseteq 1..k)
      BY <1>1, <1>2, <1>3, <3>1 DEF MatchesSnapshot, Migrations
    <3>3. 1..k \subseteq 1..r
      BY <1>2, <1>3, <3>2, BootAssumption
    <3> QED BY <1>3, <1>4, <1>6, <3>3 DEF BootInv, RecordedExists
  <2> QED BY <2>1, <2>2
<1>10. FindingsHold'
  <2> SUFFICES ASSUME NEW c \in Boots
               PROVE  Finding(boot[c])'
    BY DEF FindingsHold
  <2>1. Finding(boot[c]) /\ boot'[c] = boot[c] /\ boot[c].at \in {"down", "refused"}
    BY <1>1, BootFacts
  <2> QED BY <1>1, <2>1 DEF Finding
<1>11. RecordsAreComplete'
  BY <1>1, <1>5, <1>6 DEF RecordsAreComplete
<1> QED BY <1>7, <1>8, <1>9, <1>10, <1>11 DEF BootInv

LEMMA BootStepInv == BootInv /\ [BootNext]_bootVars => BootInv'
<1> SUFFICES ASSUME BootInv, [BootNext]_bootVars
             PROVE  BootInv'
  OBVIOUS
<1>1. CASE BootNext
  <2>1. PICK b \in Boots :
            \/ Start(b) \/ Lock(b) \/ CountRecorded(b) \/ Compare(b) \/ Stamp(b)
            \/ ReadLast(b) \/ Apply(b) \/ Die(b) \/ Reconcile(b)
    BY <1>1 DEF BootNext
  <2> QED BY <2>1, StartKeepsBoot, LockKeepsBoot, CountKeepsBoot, CompareKeepsBoot,
             StampKeepsBoot, ReadKeepsBoot, ApplyKeepsBoot, DieKeepsBoot, ReconcileKeepsBoot
<1>2. CASE UNCHANGED bootVars
  BY <1>2 DEF bootVars, BootInv, BootTypes, HolderHasLock, RecordedExists, DriftIsUnrecorded,
              FindingsHold, Finding, RecordsAreComplete
<1> QED BY <1>1, <1>2

(* Whatever releases boot, die, are restarted and are reconciled around it, a process that *)
(* listens has the tables its code was built for; no migration is recorded twice or        *)
(* without its tables; and a boot is refused over an existing table only after a process    *)
(* died inside a baseline or a push outgrew one (ensureCasDatabaseSchema).                  *)
THEOREM BootIsSoundHolds == BootSpec => []BootIsSound
<1>1. BootInv => BootIsSound
  <2> SUFFICES ASSUME BootInv
               PROVE  ServesItsSchema /\ RecordsAreHonest /\ RefusalHasReason
    BY DEF BootIsSound
  <2>1. ServesItsSchema /\ RefusalHasReason
    BY DEF BootInv, FindingsHold, Finding, ServesItsSchema, RefusalHasReason, Migrations
  <2>2. RecordsAreHonest
    BY RecordsRead DEF BootInv, RecordedExists, RecordsAreHonest
  <2> QED BY <2>1, <2>2
<1> QED BY BootInitInv, BootStepInv, <1>1, PTL DEF BootSpec

-----------------------------------------------------------------------------
(* EmailHealth: the mailboxes an alert goes through and the probe of them.   *)

AccountTypes ==
    /\ EmailTypeOK
    /\ saving = [o \in Operators |-> saving[o]]

\* A save under way carries the form's password, or that of the row it read.
SavesAreSound ==
    \A o \in Operators : saving[o] # Idle =>
        /\ saving[o].supplied = NoValue => saving[o].existing # NoValue
        /\ saving[o].row.password = IF saving[o].supplied # NoValue THEN saving[o].supplied
                                    ELSE saving[o].existing.password

ProbeTypes ==
    /\ health \in [state : {"pending", "ok", "failed", "skipped"},
                   target : {"none", "environment", "console"}, stopped : BOOLEAN]
    /\ tick \in [pc : {"none", "primary", "fallback", "probe"},
                 target : {"none", "environment", "console"},
                 mailboxes : Seq(AppPasswords \cup {"env"}), failed : BOOLEAN]
    /\ inFlight \in BOOLEAN /\ stopped \in BOOLEAN

\* There is a mailbox to sign in to from the moment the tick has read the primary.
ProbesSomething == tick.pc \in {"fallback", "probe"} => tick.mailboxes # <<>>

\* The guard is up during a tick, and the stop was recorded with no tick left.
StopIsAwaited ==
    /\ tick.pc # "none" => inFlight
    /\ health.stopped => stopped /\ ~inFlight

MailInv == /\ AccountTypes /\ TypedPasswordInUse /\ SavesAreSound
           /\ ProbeTypes /\ ProbesSomething /\ StopIsAwaited

\* The state in which no tick runs.
LEMMA NoTickIsATick ==
    /\ NoTick \in [pc : {"none", "primary", "fallback", "probe"},
                  target : {"none", "environment", "console"},
                  mailboxes : Seq(AppPasswords \cup {"env"}), failed : BOOLEAN]
    /\ NoTick.pc = "none" /\ [NoTick EXCEPT !.pc = "primary"].pc = "primary"
<1>1. <<>> \in Seq(AppPasswords \cup {"env"})
  OBVIOUS
<1>2. QED BY <1>1 DEF NoTick

LEMMA MailInvInit == HealthInit => MailInv
<1> SUFFICES ASSUME HealthInit PROVE MailInv
  OBVIOUS
<1>1. AccountTypes /\ TypedPasswordInUse /\ SavesAreSound
  BY DEF HealthInit, EmailInit, AccountTypes, EmailTypeOK, TypedPasswordInUse, SavesAreSound
<1>2. ProbeTypes /\ ProbesSomething /\ StopIsAwaited
  BY NoTickIsATick DEF HealthInit, ProbeTypes, ProbesSomething, StopIsAwaited
<1>3. QED BY <1>1, <1>2 DEF MailInv

\* The three edits keep what is known of the accounts.
LEMMA BeginPutKeepsAccounts ==
    ASSUME AccountTypes, TypedPasswordInUse, SavesAreSound,
           NEW o \in Operators, NEW s \in Slots, NEW h \in MailHosts,
           NEW p \in AppPasswords \cup {NoValue}, BeginPut(o, s, h, p)
    PROVE  AccountTypes' /\ TypedPasswordInUse' /\ SavesAreSound'
<1> DEFINE password == PasswordFor(p, accounts[s])
           put == [slot |-> s, row |-> [host |-> h, password |-> password],
                   supplied |-> p, existing |-> accounts[s]]
<1>1. /\ password # NoValue /\ UNCHANGED <<accounts, typed, overrun>>
      /\ saving' = [saving EXCEPT ![o] = put]
  BY DEF BeginPut
<1>2. accounts[s] \in Account \cup {NoValue}
  BY DEF AccountTypes, EmailTypeOK
<1>3. /\ p = NoValue => accounts[s] # NoValue
      /\ password = IF p # NoValue THEN p ELSE accounts[s].password
      /\ password \in AppPasswords
  BY <1>1, <1>2 DEF PasswordFor, Account
<1>4. put \in [slot : Slots, row : Account, supplied : AppPasswords \cup {NoValue},
               existing : Account \cup {NoValue}]
  BY <1>2, <1>3 DEF Account
<1>5. /\ saving'[o] = put
      /\ \A x \in Operators \ {o} : saving'[x] = saving[x]
      /\ saving' = [x \in Operators |-> saving'[x]]
  BY <1>1 DEF AccountTypes
<1> HIDE DEF put, password
<1>6. AccountTypes'
  BY <1>1, <1>4, <1>5 DEF AccountTypes, EmailTypeOK
<1>7. SavesAreSound'
  <2>1. /\ put.supplied = NoValue => put.existing # NoValue
        /\ put.row.password = IF put.supplied # NoValue THEN put.supplied
                              ELSE put.existing.password
    BY <1>3 DEF put
  <2>2. QED BY <1>5, <2>1 DEF SavesAreSound
<1>8. QED BY <1>1, <1>6, <1>7 DEF TypedPasswordInUse

LEMMA CommitPutKeepsAccounts ==
    ASSUME AccountTypes, TypedPasswordInUse, SavesAreSound,
           NEW o \in Operators, CommitPut(o)
    PROVE  AccountTypes' /\ TypedPasswordInUse' /\ SavesAreSound'
<1> DEFINE put == saving[o]
<1>1. /\ put # Idle
      /\ accounts' = [accounts EXCEPT ![put.slot] = put.row]
      /\ typed' = IF put.supplied = NoValue THEN typed
                  ELSE [typed EXCEPT ![put.slot] = put.supplied]
      /\ overrun' = IF put.supplied # NoValue THEN overrun \ {put.slot}
                    ELSE IF accounts[put.slot] = put.existing THEN overrun
                    ELSE overrun \cup {put.slot}
      /\ saving' = [saving EXCEPT ![o] = Idle]
  BY DEF CommitPut, SaveEmailAccount
<1>2. put \in [slot : Slots, row : Account, supplied : AppPasswords \cup {NoValue},
               existing : Account \cup {NoValue}]
  BY <1>1 DEF AccountTypes, EmailTypeOK
<1>3. /\ put.supplied = NoValue => put.existing # NoValue
      /\ put.row.password = IF put.supplied # NoValue THEN put.supplied
                            ELSE put.existing.password
  BY <1>1 DEF SavesAreSound
<1>4. /\ saving'[o] = Idle
      /\ \A x \in Operators \ {o} : saving'[x] = saving[x]
      /\ saving' = [x \in Operators |-> saving'[x]]
  BY <1>1 DEF AccountTypes
<1>5. /\ put.slot \in Slots /\ put.row \in Account
      /\ put.supplied \in AppPasswords \cup {NoValue}
      /\ accounts \in [Slots -> Account \cup {NoValue}]
      /\ typed \in [Slots -> AppPasswords \cup {NoValue}]
  BY <1>2 DEF AccountTypes, EmailTypeOK
<1> HIDE DEF put
<1>6. AccountTypes'
  BY <1>1, <1>4, <1>5 DEF AccountTypes, EmailTypeOK
<1>7. TypedPasswordInUse'
  <2> SUFFICES ASSUME NEW s \in Slots, accounts'[s] # NoValue, s \notin overrun'
               PROVE  accounts'[s].password = typed'[s]
    BY DEF TypedPasswordInUse
  <2>1. CASE s # put.slot
    BY <1>1, <1>5, <2>1 DEF TypedPasswordInUse
  <2>2. CASE s = put.slot /\ put.supplied # NoValue
    BY <1>1, <1>3, <1>5, <2>2
  <2>3. CASE s = put.slot /\ put.supplied = NoValue
    <3>1. accounts[s] = put.existing /\ accounts[s] # NoValue /\ s \notin overrun
      BY <1>1, <1>3, <2>3
    <3>2. accounts'[s].password = accounts[s].password /\ typed'[s] = typed[s]
      BY <1>1, <1>3, <1>5, <2>3, <3>1
    <3>3. QED BY <3>1, <3>2 DEF TypedPasswordInUse
  <2>4. QED BY <2>1, <2>2, <2>3
<1>8. SavesAreSound'
  BY <1>4 DEF SavesAreSound
<1>9. QED BY <1>6, <1>7, <1>8

LEMMA DeleteKeepsAccounts ==
    ASSUME AccountTypes, TypedPasswordInUse, SavesAreSound, NEW s \in Slots, DeleteAccount(s)
    PROVE  AccountTypes' /\ TypedPasswordInUse' /\ SavesAreSound'
BY DEF DeleteAccount, DeleteEmailAccount, AccountTypes, EmailTypeOK, TypedPasswordInUse,
       SavesAreSound

\* A tick's end is a verdict with the guard down.
LEMMA EndedTickIsSound ==
    ASSUME ProbeTypes, StopIsAwaited, tick.pc # "none",
           NEW state \in {"pending", "ok", "failed", "skipped"},
           NEW target \in {"none", "environment", "console"}, EndTick(state, target),
           UNCHANGED stopped
    PROVE  ProbeTypes' /\ ProbesSomething' /\ StopIsAwaited'
<1>1. /\ health' = [health EXCEPT !.state = state, !.target = target]
      /\ tick' = NoTick /\ inFlight' = FALSE
  BY DEF EndTick, Guard
<1>2. ~health.stopped
  BY DEF StopIsAwaited
<1>3. health'.stopped = FALSE /\ tick'.pc = "none"
  BY <1>1, <1>2 DEF ProbeTypes, NoTick
<1>4. ProbeTypes'
  BY <1>1, NoTickIsATick DEF ProbeTypes
<1>5. QED BY <1>3, <1>4 DEF ProbesSomething, StopIsAwaited

LEMMA ProbeStepKeepsProbe ==
    ASSUME MailInv, ProbeStep
    PROVE  ProbeTypes' /\ ProbesSomething' /\ StopIsAwaited'
<1> USE DEF MailInv
<1>0. UNCHANGED stopped
  BY DEF ProbeStep, ReadProbePrimary, ReadProbeFallback, Probe
<1>m. \A s \in Slots : accounts[s] # NoValue => accounts[s].password \in AppPasswords
  BY DEF AccountTypes, EmailTypeOK, Account
<1>t. /\ tick.pc \in {"none", "primary", "fallback", "probe"}
      /\ tick.target \in {"none", "environment", "console"}
      /\ tick.mailboxes \in Seq(AppPasswords \cup {"env"})
      /\ tick.failed \in BOOLEAN
  BY DEF ProbeTypes
<1>1. CASE ReadProbePrimary
  <2>0. tick.pc = "primary"
    BY <1>1 DEF ReadProbePrimary
  <2>1. CASE /\ accounts["primary"] # NoValue
             /\ tick' = [tick EXCEPT !.pc = "fallback", !.target = "console",
                                     !.mailboxes = <<accounts["primary"].password>>]
             /\ UNCHANGED <<health, inFlight>>
    <3>1. <<accounts["primary"].password>> \in Seq(AppPasswords \cup {"env"})
      BY <1>m, <2>1 DEF Slots
    <3>2. tick'.pc = "fallback"
      BY <2>1 DEF ProbeTypes
    <3>3. ProbeTypes'
      BY <1>0, <2>1, <3>1 DEF ProbeTypes
    <3>4. QED BY <1>0, <2>0, <2>1, <3>2, <3>3 DEF ProbesSomething, StopIsAwaited
  <2>2. CASE /\ tick' = [tick EXCEPT !.pc = "probe", !.target = "environment",
                                     !.mailboxes = <<"env">>]
             /\ UNCHANGED <<health, inFlight>>
    <3>1. <<"env">> \in Seq(AppPasswords \cup {"env"}) /\ <<"env">> # <<>>
      OBVIOUS
    <3>2. tick'.pc = "probe" /\ tick'.mailboxes = <<"env">>
      BY <2>2 DEF ProbeTypes
    <3>3. ProbeTypes'
      BY <1>0, <2>2, <3>1 DEF ProbeTypes
    <3>4. QED BY <1>0, <2>0, <2>2, <3>1, <3>2, <3>3 DEF ProbesSomething, StopIsAwaited
  <2>3. CASE EndTick("skipped", "none")
    BY <1>0, <2>0, <2>3, EndedTickIsSound
  <2>4. CASE Unreadable
    BY <1>0, <2>0, <2>4, EndedTickIsSound DEF Unreadable
  <2>5. QED BY <1>1, <2>1, <2>2, <2>3, <2>4 DEF ReadProbePrimary
<1>2. CASE ReadProbeFallback
  <2>0. tick.pc = "fallback"
    BY <1>2 DEF ReadProbeFallback
  <2>1. CASE /\ tick' = [tick EXCEPT !.pc = "probe", !.mailboxes = WithFallback(tick.mailboxes)]
             /\ UNCHANGED <<health, inFlight>>
    <3>1. WithFallback(tick.mailboxes) \in Seq(AppPasswords \cup {"env"})
      BY <1>m, <1>t, AppendProperties DEF WithFallback, Slots
    <3>2. WithFallback(tick.mailboxes) # <<>>
      BY <1>m, <1>t, <2>0, AppendProperties DEF WithFallback, ProbesSomething, Slots
    <3>3. tick'.pc = "probe" /\ tick'.mailboxes = WithFallback(tick.mailboxes)
      BY <2>1 DEF ProbeTypes
    <3>4. ProbeTypes'
      BY <1>0, <2>1, <3>1 DEF ProbeTypes
    <3>5. QED BY <1>0, <2>0, <2>1, <3>2, <3>3, <3>4 DEF ProbesSomething, StopIsAwaited
  <2>2. CASE Unreadable
    BY <1>0, <2>0, <2>2, EndedTickIsSound DEF Unreadable
  <2>3. QED BY <1>2, <2>1, <2>2 DEF ReadProbeFallback
<1>3. CASE Probe
  <2>0. tick.pc = "probe"
    BY <1>3 DEF Probe
  <2> DEFINE rest == Tail(tick.mailboxes)
  <2>1. PICK outage \in BOOLEAN :
          LET bad == tick.failed \/ outage \/ Head(tick.mailboxes) \in dead IN
            IF rest # <<>>
            THEN /\ tick' = [tick EXCEPT !.mailboxes = rest, !.failed = bad]
                 /\ UNCHANGED <<health, inFlight>>
            ELSE EndTick(IF bad THEN "failed" ELSE "ok", tick.target)
    BY <1>3 DEF Probe
  <2> DEFINE bad == tick.failed \/ outage \/ Head(tick.mailboxes) \in dead
  <2>2. rest \in Seq(AppPasswords \cup {"env"})
    BY <1>t, <2>0, HeadTailProperties DEF ProbesSomething
  <2>3. CASE rest # <<>>
    <3>1. bad \in BOOLEAN
      BY <1>t
    <3>2. /\ tick' = [tick EXCEPT !.mailboxes = rest, !.failed = bad]
          /\ UNCHANGED <<health, inFlight>>
      BY <2>1, <2>3
    <3> HIDE DEF rest, bad
    <3>3. tick'.pc = "probe" /\ tick'.mailboxes = rest
      BY <2>0, <3>2 DEF ProbeTypes
    <3>4. ProbeTypes'
      BY <1>0, <2>2, <3>1, <3>2 DEF ProbeTypes
    <3>5. QED BY <1>0, <2>0, <2>3, <3>2, <3>3, <3>4 DEF ProbesSomething, StopIsAwaited
  <2>4. CASE rest = <<>>
    <3>1. EndTick(IF bad THEN "failed" ELSE "ok", tick.target)
      BY <2>1, <2>4
    <3>2. (IF bad THEN "failed" ELSE "ok") \in {"pending", "ok", "failed", "skipped"}
      OBVIOUS
    <3>3. QED BY <1>0, <1>t, <2>0, <3>1, <3>2, EndedTickIsSound
  <2>5. QED BY <2>3, <2>4
<1>4. QED BY <1>1, <1>2, <1>3 DEF ProbeStep

LEMMA MailInvNext == MailInv /\ [HealthNext]_healthVars => MailInv'
<1> SUFFICES ASSUME MailInv, [HealthNext]_healthVars PROVE MailInv'
  OBVIOUS
<1> USE DEF MailInv
<1>1. CASE UNCHANGED emailVars
  <2>1. AccountTypes' /\ TypedPasswordInUse' /\ SavesAreSound'
    BY <1>1 DEF emailVars, AccountTypes, EmailTypeOK, TypedPasswordInUse, SavesAreSound
  <2>2. ASSUME FireTimer PROVE ProbeTypes' /\ ProbesSomething' /\ StopIsAwaited'
    BY <2>2, NoTickIsATick DEF FireTimer, ProbeTypes, ProbesSomething, StopIsAwaited
  <2>3. ASSUME Stop PROVE ProbeTypes' /\ ProbesSomething' /\ StopIsAwaited'
    BY <2>3 DEF Stop, ProbeTypes, ProbesSomething, StopIsAwaited
  <2>4. ASSUME MarkStopped PROVE ProbeTypes' /\ ProbesSomething' /\ StopIsAwaited'
    <3>1. /\ stopped /\ ~inFlight /\ health' = [health EXCEPT !.stopped = TRUE]
          /\ UNCHANGED <<tick, inFlight, stopped>>
      BY <2>4 DEF MarkStopped, MayMarkStopped
    <3>2. ProbeTypes'
      BY <3>1 DEF ProbeTypes
    <3>3. QED BY <3>1, <3>2 DEF ProbesSomething, StopIsAwaited
  <2>5. ASSUME NEW p \in AppPasswords \cup {"env"}, Revoke(p)
        PROVE  ProbeTypes' /\ ProbesSomething' /\ StopIsAwaited'
    BY <2>5 DEF Revoke, ProbeTypes, ProbesSomething, StopIsAwaited
  <2>6. ASSUME UNCHANGED probeVars PROVE ProbeTypes' /\ ProbesSomething' /\ StopIsAwaited'
    BY <2>6 DEF probeVars, ProbeTypes, ProbesSomething, StopIsAwaited
  <2>7. QED BY <2>1, <2>2, <2>3, <2>4, <2>5, <2>6, ProbeStepKeepsProbe DEF HealthNext, healthVars
<1>2. CASE EditAccounts /\ UNCHANGED probeVars
  <2>1. ProbeTypes' /\ ProbesSomething' /\ StopIsAwaited'
    BY <1>2 DEF probeVars, ProbeTypes, ProbesSomething, StopIsAwaited
  <2>2. AccountTypes' /\ TypedPasswordInUse' /\ SavesAreSound'
    BY <1>2, BeginPutKeepsAccounts, CommitPutKeepsAccounts, DeleteKeepsAccounts
       DEF EditAccounts
  <2>3. QED BY <2>1, <2>2
<1>3. QED
  BY <1>1, <1>2 DEF HealthNext, healthVars, emailVars, FireTimer, ProbeStep, ReadProbePrimary,
     ReadProbeFallback, Probe, Stop, MarkStopped, Revoke

LEMMA MailInvHolds == HealthSpec => []MailInv
BY MailInvInit, MailInvNext, PTL DEF HealthSpec

(* Accounts, saves under way and the probe's state keep their types (lib/          *)
(* cas-email-accounts.ts, lib/cas-email-health.ts).                              *)
THEOREM HealthTypeCorrect == HealthSpec => []HealthTypeOK
<1>1. MailInv => HealthTypeOK
  BY DEF MailInv, AccountTypes, ProbeTypes, HealthTypeOK
<1>2. QED BY <1>1, MailInvHolds, PTL

(* A slot's row holds the password somebody last typed for it, whoever saves and     *)
(* deletes at the same time, unless a save without a password lost a race for the    *)
(* row it had read (PUT /cas/config/email-accounts/:slot).                           *)
THEOREM TypedPasswordInUseHolds == HealthSpec => []TypedPasswordInUse
<1>1. MailInv => TypedPasswordInUse
  BY DEF MailInv
<1>2. QED BY <1>1, MailInvHolds, PTL

(* After the probe's stop has been recorded nothing writes the channel's state any   *)
(* more (stop in cas-email-health-worker.ts).                                       *)
THEOREM StoppedIsLastHolds == HealthSpec => StoppedIsLast
<1>1. MailInv /\ [HealthNext]_healthVars => [health.stopped => health' = health]_healthVars
  <2> SUFFICES ASSUME MailInv, HealthNext, health.stopped PROVE health' = health
    OBVIOUS
  <2>1. stopped /\ ~inFlight /\ tick.pc = "none"
    BY DEF MailInv, StopIsAwaited
  <2>2. ~ProbeStep /\ ~MarkStopped /\ ~FireTimer
    BY <2>1 DEF ProbeStep, ReadProbePrimary, ReadProbeFallback, Probe, MarkStopped, FireTimer
  <2>3. QED BY <2>2 DEF HealthNext, Stop, Revoke, probeVars
<1>2. QED BY <1>1, MailInvHolds, PTL DEF HealthSpec, StoppedIsLast
================================================================================
