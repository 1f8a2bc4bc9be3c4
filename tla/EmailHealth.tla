----------------------------- MODULE EmailHealth -----------------------------
(* The mailbox probe (lib/cas-email-health-worker.ts) and the registry it writes *)
(* (lib/cas-email-health.ts): a timer that now and then signs in to every        *)
(* mailbox an alert would be sent through, while operators edit the accounts and *)
(* providers revoke app passwords. EXTENDS the accounts it reads.                *)
EXTENDS EmailAccounts, Sequences

CONSTANT MaxRevocations   \* bound: app passwords revoked by the mail provider

VARIABLES
    envMail,   \* the environment's path: a mailbox, an HTTPS provider or nothing
    dead,      \* app passwords the mail provider refuses; "env" is the environment's
    revoked,   \* bound counter
    health,    \* the registry: state, target, and whether the worker has reported its stop
    tick,      \* the tick under way: pc, the mailboxes it read, those that failed
    inFlight,  \* the guard both timers share
    stopped    \* stop() was called

probeVars == <<envMail, dead, revoked, health, tick, inFlight, stopped>>
healthVars == <<emailVars, probeVars>>

NoTick == [pc |-> "none", target |-> "none", mailboxes |-> <<>>, failed |-> FALSE]

HealthInit ==
    /\ EmailInit
    /\ envMail \in {"smtp", "https", "none"}
    /\ dead \in {{}, {"env"}} /\ revoked = 0
    /\ health = [state |-> "pending", target |-> "none", stopped |-> FALSE]
    /\ tick = NoTick /\ inFlight = FALSE /\ stopped = FALSE

\* The interval timer or the initial one; a tick still running makes it do nothing.
FireTimer ==
    /\ ~stopped /\ ~inFlight
    /\ inFlight' = TRUE
    /\ tick' = [NoTick EXCEPT !.pc = "primary"]
    /\ UNCHANGED <<emailVars, envMail, dead, revoked, health, stopped>>

\* Mutant of Guard: it stays up.
GuardStays == TRUE

\* tick().finally: the guard comes down however the tick ended.
Guard == FALSE

EndTick(state, target) ==
    /\ health' = [health EXCEPT !.state = state, !.target = target]
    /\ tick' = NoTick
    /\ inFlight' = Guard

\* A query that throws is recorded as a failed probe.
Unreadable == EndTick("failed", "environment")

\* resolveProbeTargets: a stored primary owns the channel; then the environment's mailbox;
\* anything else leaves nothing to sign in to.
ReadProbePrimary ==
    /\ tick.pc = "primary"
    /\ \/ /\ accounts["primary"] # NoValue
          /\ tick' = [tick EXCEPT !.pc = "fallback", !.target = "console",
                                  !.mailboxes = <<accounts["primary"].password>>]
          /\ UNCHANGED <<health, inFlight>>
       \/ /\ accounts["primary"] = NoValue /\ envMail = "smtp"
          /\ tick' = [tick EXCEPT !.pc = "probe", !.target = "environment", !.mailboxes = <<"env">>]
          /\ UNCHANGED <<health, inFlight>>
       \/ accounts["primary"] = NoValue /\ envMail # "smtp" /\ EndTick("skipped", "none")
       \/ Unreadable
    /\ UNCHANGED <<emailVars, envMail, dead, revoked, stopped>>

\* Mutant of WithFallback: only the primary is probed.
PrimaryOnly(mailboxes) == mailboxes

WithFallback(mailboxes) ==
    IF accounts["fallback"] = NoValue THEN mailboxes
    ELSE Append(mailboxes, accounts["fallback"].password)

ReadProbeFallback ==
    /\ tick.pc = "fallback"
    /\ \/ /\ tick' = [tick EXCEPT !.pc = "probe", !.mailboxes = WithFallback(tick.mailboxes)]
          /\ UNCHANGED <<health, inFlight>>
       \/ Unreadable
    /\ UNCHANGED <<emailVars, envMail, dead, revoked, stopped>>

\* probeSmtpAccount on the next mailbox: a refused password fails, a server may fail anyway.
\* The verdict is written when the last one has answered.
Probe ==
    /\ tick.pc = "probe"
    /\ \E outage \in BOOLEAN :
         LET bad == tick.failed \/ outage \/ Head(tick.mailboxes) \in dead
             rest == Tail(tick.mailboxes) IN
           IF rest # <<>>
           THEN /\ tick' = [tick EXCEPT !.mailboxes = rest, !.failed = bad]
                /\ UNCHANGED <<health, inFlight>>
           ELSE EndTick(IF bad THEN "failed" ELSE "ok", tick.target)
    /\ UNCHANGED <<emailVars, envMail, dead, revoked, stopped>>

\* stop(): no new ticks, and the one in flight is awaited before the stop is recorded.
Stop == /\ ~stopped /\ stopped' = TRUE
        /\ UNCHANGED <<emailVars, envMail, dead, revoked, health, tick, inFlight>>

\* Mutant of MayMarkStopped: the tick in flight is not awaited.
StopsAtOnce == stopped

MayMarkStopped == stopped /\ ~inFlight

MarkStopped ==
    /\ MayMarkStopped /\ ~health.stopped
    /\ health' = [health EXCEPT !.stopped = TRUE]
    /\ UNCHANGED <<emailVars, envMail, dead, revoked, tick, inFlight, stopped>>

\* The mail provider stops accepting a password.
Revoke(p) ==
    /\ revoked < MaxRevocations /\ p \notin dead
    /\ dead' = dead \cup {p} /\ revoked' = revoked + 1
    /\ UNCHANGED <<emailVars, envMail, health, tick, inFlight, stopped>>

ProbeStep == ReadProbePrimary \/ ReadProbeFallback \/ Probe

HealthNext ==
    \/ FireTimer \/ ProbeStep \/ Stop \/ MarkStopped
    \/ \E p \in AppPasswords \cup {"env"} : Revoke(p)
    \/ EditAccounts /\ UNCHANGED probeVars

HealthSpec == HealthInit /\ [][HealthNext]_healthVars

\* An interval timer fires again and again; queries and SMTP dialogues end (timeouts).
HealthFairness ==
    /\ WF_healthVars(FireTimer) /\ WF_healthVars(ProbeStep) /\ WF_healthVars(MarkStopped)

\* The mailboxes an alert would be sent through now.
InUse == IF accounts["primary"] # NoValue
         THEN {accounts[s].password : s \in {x \in Slots : accounts[x] # NoValue}}
         ELSE IF envMail = "smtp" THEN {"env"} ELSE {}

HealthTypeOK ==
    /\ EmailTypeOK
    /\ health.state \in {"pending", "ok", "failed", "skipped"}
    /\ tick.pc \in {"none", "primary", "fallback", "probe"}

(* A password that stays refused in a mailbox that stays in use is reported      *)
(* while nobody needs the mailbox: the channel's state becomes failed, although  *)
(* a tick may have read the accounts before an edit and report the old ones, an *)
(* earlier tick may have thrown, and the fallback alone may be the dead one.     *)
RotIsReported ==
    (InUse \cap dead # {}) ~> (health.state = "failed" \/ InUse \cap dead = {} \/ stopped)

(* The worker that has reported its stop writes no verdict any more: stop()      *)
(* waits for the tick in flight.                                                *)
StoppedIsLast == [][health.stopped => health' = health]_healthVars

\* The mailboxes are those the operators typed in, and one that stops working is reported.
MailboxesAreWatched ==
    []HealthTypeOK /\ []TypedPasswordInUse /\ RotIsReported /\ StoppedIsLast
=============================================================================
