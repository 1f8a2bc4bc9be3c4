------------------------------- MODULE CasOutbox -------------------------------
(***************************************************************************)
(* The durable alert outbox of the CAS API server (routes/cas.ts).         *)
(*                                                                         *)
(* A trigger opens an incident and queues one outbox row per deliverable   *)
(* transport.  Gateway rows are claimed under a 30 s lease by any number   *)
(* of delivery workers, handed to a provider, and then marked SENT, FAILED *)
(* (to be retried) or DEAD_LETTER.  Device rows are delivered by the       *)
(* handset, which reports back through the receipt endpoint.  Responders   *)
(* acknowledge and resolve the incident; resolving withdraws what is       *)
(* unsent; an operator may re-queue an abandoned row.                      *)
(*                                                                         *)
(* One action is one database transaction, one provider call's answer or   *)
(* one tick of a clock the code compares with.  A worker is between        *)
(* transactions whenever it holds a job: anything may happen there, a      *)
(* crash included.  A definition marked "Mutant of X" is X with a bug the  *)
(* code could have had; no behaviour of the system uses it.                *)
(***************************************************************************)
EXTENDS Naturals, FiniteSets

CONSTANTS
    Workers,        \* delivery workers: one per API process, plus manual drains
    Incidents,      \* incident identities a trigger may create
    Gateway,        \* transports a server-side provider delivers
    Device,         \* transports the handset delivers (CAS_DEVICE_CHANNELS)
    MaxAttempts,    \* MAX_DELIVERY_ATTEMPTS
    AttemptCap,     \* bound: the attempts column is counted up to here only
    MaxRequeues,    \* bound: operator re-queues per row
    MaxCrashes,     \* bound: worker crashes in a behaviour
    NoWorker        \* the NULL of claimed_by

ASSUME TransportsDisjoint == Gateway \cap Device = {}
ASSUME AttemptsPositive == MaxAttempts \in Nat \ {0}
ASSUME CapAboveLimit == AttemptCap \in Nat /\ AttemptCap >= MaxAttempts
ASSUME BoundsNat == MaxRequeues \in Nat /\ MaxCrashes \in Nat
ASSUME NoWorkerIsNone == NoWorker \notin Workers

Transports == Gateway \cup Device

Items == Incidents \X Transports

GatewayItems == Incidents \X Gateway

DeviceItems == Incidents \X Device

VARIABLES
    incident,   \* incident[i]: cas_incidents.status, "none" before the trigger
    state,      \* state[o]: cas_outbox.state, "none" when there is no row
    attempts,   \* attempts[o]: cas_outbox.attempts
    claimedBy,  \* claimedBy[o]: cas_outbox.claimed_by
    cycle,      \* cycle[o]: which device_cycle_token the row holds, 0 for null
    due,        \* rows whose next_attempt_at has passed
    stale,      \* PROCESSING rows whose claimed_at is older than the lease
    cooling,    \* transports whose cooldown window is open
    story,      \* story[o]: the newest journal event about the row
    requeuing,  \* rows a re-queue transaction holds locked, past its checks
    job,        \* job[w]: Idle, or the claim worker w is delivering
    accepted,   \* rows whose message the provider (or the SIM) took
    crashes     \* worker crashes so far

rowVars == <<state, attempts, claimedBy, cycle, due, stale, story>>

vars == <<incident, rowVars, cooling, requeuing, job, accepted, crashes>>

--------------------------------------------------------------------------------
(* Vocabulary.                                                             *)

IncidentStatus == {"none", "ACTIVE_UNACKED", "ACTIVE_ACKED", "RESOLVED"}

RowState == {"none", "QUEUED", "PROCESSING", "FAILED", "SENT", "DEAD_LETTER",
             "WITHDRAWN"}

\* The states resolve withdraws: everything not yet sent or abandoned.
Unsent == {"QUEUED", "PROCESSING", "FAILED"}

JournalEvent == {"none", "P1_QUEUED", "DELIVERY_ABANDONED", "DELIVERY_REQUEUED",
                 "DELIVERY_WITHDRAWN", "DELIVERY_REPORTED"}

\* A worker between items, and one that is delivering: at which point of the
\* loop, the claimed row, the attempts value RETURNING gave it, and whether a
\* rejection was a rate limit or carried Retry-After.
Idle == [stage |-> "idle"]

Job == [stage : {"sending", "accepted", "rejected", "cooldown"}, item : Items,
        seen : Nat, hinted : BOOLEAN]

IncidentOf(o) == o[1]

TransportOf(o) == o[2]

Resolved(i) == incident[i] = "RESOLVED"

\* Mutant of Owns: the completion's WHERE clause forgets claimed_by.
OwnsByState(w, o) == state[o] = "PROCESSING"

\* The completion updates' WHERE clause: state='PROCESSING' AND claimedBy=worker.
Owns(w, o) == state[o] = "PROCESSING" /\ claimedBy[o] = w

CountAttempt(n) == IF n < AttemptCap THEN n + 1 ELSE n

Init ==
    /\ incident = [i \in Incidents |-> "none"]
    /\ state = [o \in Items |-> "none"]
    /\ attempts = [o \in Items |-> 0]
    /\ claimedBy = [o \in Items |-> NoWorker]
    /\ cycle = [o \in Items |-> 0]
    /\ due = {}
    /\ stale = {}
    /\ cooling = {}
    /\ story = [o \in Items |-> "none"]
    /\ requeuing = {}
    /\ job = [w \in Workers |-> Idle]
    /\ accepted = {}
    /\ crashes = 0

--------------------------------------------------------------------------------
(* The incident routes.                                                    *)

\* POST /cas/incidents/trigger with no active incident.  The advisory lock
\* makes the check and the insert one step; the deliverable transports are
\* whatever the configuration and the responder circle allow at that moment.
Trigger(i, ts) ==
    /\ incident[i] = "none"
    /\ \A j \in Incidents : incident[j] \in {"none", "RESOLVED"}
    /\ incident' = [incident EXCEPT ![i] = "ACTIVE_UNACKED"]
    /\ state' = [o \in Items |->
                    IF o \in {i} \X ts THEN "QUEUED" ELSE state[o]]
    /\ story' = [o \in Items |->
                    IF o \in {i} \X ts THEN "P1_QUEUED" ELSE story[o]]
    /\ due' = due \cup ({i} \X ts)
    /\ UNCHANGED <<attempts, claimedBy, cycle, stale, cooling, requeuing,
                   job, accepted, crashes>>

\* POST /cas/incidents/:id/ack.
Ack(i) ==
    /\ incident[i] = "ACTIVE_UNACKED"
    /\ incident' = [incident EXCEPT ![i] = "ACTIVE_ACKED"]
    /\ UNCHANGED <<rowVars, cooling, requeuing, job, accepted, crashes>>

\* Mutant of StandsDown: a row in a worker's hands is not withdrawn.
StandsDownAtRest(o, i) == IncidentOf(o) = i /\ state[o] \in {"QUEUED", "FAILED"}

\* The rows the stand-down UPDATE of a resolve matches.  A DEAD_LETTER row that
\* an uncommitted re-queue is about to change does not match, and so is not
\* waited for either.
StandsDown(o, i) == IncidentOf(o) = i /\ state[o] \in Unsent

\* POST /cas/incidents/:id/resolve.
Resolve(i) ==
    /\ incident[i] = "ACTIVE_ACKED"
    /\ incident' = [incident EXCEPT ![i] = "RESOLVED"]
    /\ state' = [o \in Items |->
                    IF StandsDown(o, i) THEN "WITHDRAWN" ELSE state[o]]
    /\ claimedBy' = [o \in Items |->
                        IF StandsDown(o, i) THEN NoWorker ELSE claimedBy[o]]
    /\ story' = [o \in Items |->
                    IF StandsDown(o, i) THEN "DELIVERY_WITHDRAWN" ELSE story[o]]
    /\ stale' = {o \in stale : ~StandsDown(o, i)}
    /\ UNCHANGED <<attempts, cycle, due, cooling, requeuing, job, accepted,
                   crashes>>

--------------------------------------------------------------------------------
(* The delivery worker: processCasOutbox.                                  *)

\* Mutant of Claimable: the query does not join the incident's status.
ClaimableAfterResolve(o) ==
    /\ \/ state[o] \in {"QUEUED", "FAILED"} /\ o \in due
       \/ state[o] = "PROCESSING" /\ o \in stale
    /\ TransportOf(o) \notin cooling \cup Device
    /\ o \notin requeuing

\* Mutant of Claimable: claims whose lease has run out are not taken over.
ClaimableAtRest(o) ==
    /\ state[o] \in {"QUEUED", "FAILED"} /\ o \in due
    /\ ~Resolved(IncidentOf(o))
    /\ TransportOf(o) \notin cooling \cup Device
    /\ o \notin requeuing

\* The candidate query of claimCasOutboxItem.  At most one incident is active,
\* and its rows share one created_at, so ORDER BY created_at picks any of them.
Claimable(o) ==
    /\ \/ state[o] \in {"QUEUED", "FAILED"} /\ o \in due
       \/ state[o] = "PROCESSING" /\ o \in stale
    /\ ~Resolved(IncidentOf(o))
    /\ TransportOf(o) \notin cooling
    /\ TransportOf(o) \notin Device
    /\ o \notin requeuing                       \* FOR UPDATE SKIP LOCKED

ClaimCasOutboxItem(w, o) ==
    /\ job[w] = Idle
    /\ Claimable(o)
    /\ state' = [state EXCEPT ![o] = "PROCESSING"]
    /\ attempts' = [attempts EXCEPT ![o] = CountAttempt(@)]
    /\ claimedBy' = [claimedBy EXCEPT ![o] = w]
    /\ stale' = stale \ {o}
    /\ job' = [job EXCEPT ![w] = [stage |-> "sending", item |-> o,
                                  seen |-> attempts'[o], hinted |-> FALSE]]
    /\ UNCHANGED <<incident, cycle, due, story, cooling, requeuing, accepted, crashes>>

At(w, where) == job[w].stage = where

\* send() returned.  The outbox id is the provider's idempotency key, so an
\* acceptance is a property of the row, however many calls report it.
ProviderAccepts(w) ==
    /\ At(w, "sending")
    /\ accepted' = accepted \cup {job[w].item}
    /\ job' = [job EXCEPT ![w].stage = "accepted"]
    /\ UNCHANGED <<incident, rowVars, cooling, requeuing, crashes>>

\* Mutant of ProviderFails: the provider's error is swallowed.
ProviderErrorSwallowed(w) ==
    /\ At(w, "sending")
    /\ job' = [job EXCEPT ![w].stage = "accepted"]
    /\ UNCHANGED <<incident, rowVars, cooling, requeuing, accepted, crashes>>

\* send() threw: a rejection, or an acceptance whose answer never came back.
ProviderFails(w) ==
    /\ At(w, "sending")
    /\ \/ UNCHANGED accepted
       \/ accepted' = accepted \cup {job[w].item}
    /\ \E h \in BOOLEAN :
          job' = [job EXCEPT ![w] = [@ EXCEPT !.stage = "rejected", !.hinted = h]]
    /\ UNCHANGED <<incident, rowVars, cooling, requeuing, crashes>>

\* The same try block holds markCasOutboxItemSent: when that transaction fails,
\* the catch clause treats the accepted delivery as a failed one.
MarkSentThrows(w) ==
    /\ At(w, "accepted")
    /\ job' = [job EXCEPT ![w].stage = "rejected"]
    /\ UNCHANGED <<incident, rowVars, cooling, requeuing, accepted, crashes>>

SettleSent(o) ==
    /\ state' = [state EXCEPT ![o] = "SENT"]
    /\ claimedBy' = [claimedBy EXCEPT ![o] = NoWorker]
    /\ stale' = stale \ {o}

MarkCasOutboxItemSent(w) ==
    LET o == job[w].item IN
    /\ At(w, "accepted")
    /\ job' = [job EXCEPT ![w] = Idle]
    /\ \/ Owns(w, o) /\ SettleSent(o) /\ UNCHANGED story
       \/ /\ state[o] = "WITHDRAWN"
          /\ SettleSent(o)
          /\ story' = [story EXCEPT ![o] = "DELIVERY_REPORTED"]
       \/ /\ ~Owns(w, o) /\ state[o] # "WITHDRAWN"                       \* LOST
          /\ UNCHANGED <<state, claimedBy, stale, story>>
    /\ UNCHANGED <<incident, attempts, cycle, due, cooling, requeuing, accepted,
                   crashes>>

\* After either failure update the loop goes on to the cooldown, if one is due.
AfterFailure(w) ==
    job' = [job EXCEPT ![w] = IF @.hinted THEN [@ EXCEPT !.stage = "cooldown"]
                                          ELSE Idle]

DeadLetterCasOutboxItem(w) ==
    LET o == job[w].item IN
    /\ At(w, "rejected")
    /\ job[w].seen >= MaxAttempts
    /\ AfterFailure(w)
    /\ \/ /\ Owns(w, o)
          /\ state' = [state EXCEPT ![o] = "DEAD_LETTER"]
          /\ claimedBy' = [claimedBy EXCEPT ![o] = NoWorker]
          /\ stale' = stale \ {o}
          /\ story' = [story EXCEPT ![o] = "DELIVERY_ABANDONED"]
       \/ ~Owns(w, o) /\ UNCHANGED <<state, claimedBy, stale, story>>    \* LOST
    /\ UNCHANGED <<incident, attempts, cycle, due, cooling, requeuing, accepted,
                   crashes>>

CompleteCasOutboxItem(w) ==
    LET o == job[w].item IN
    /\ At(w, "rejected")
    /\ job[w].seen < MaxAttempts
    /\ AfterFailure(w)
    /\ \/ /\ Owns(w, o)
          /\ state' = [state EXCEPT ![o] = "FAILED"]
          /\ claimedBy' = [claimedBy EXCEPT ![o] = NoWorker]
          /\ stale' = stale \ {o}
          /\ due' = due \ {o}
       \/ ~Owns(w, o) /\ UNCHANGED <<state, claimedBy, stale, due>>      \* LOST
    /\ UNCHANGED <<incident, attempts, cycle, story, cooling, requeuing, accepted,
                   crashes>>

\* Mutant of RecordCooldown: the window is keyed by the row, not the transport.
RecordRowCooldown(w) ==
    /\ At(w, "cooldown")
    /\ cooling' = cooling \cup {job[w].item}
    /\ job' = [job EXCEPT ![w] = Idle]
    /\ UNCHANGED <<incident, rowVars, requeuing, accepted, crashes>>

\* The cooldown upsert is a statement of its own after the completion, and runs
\* for a LOST completion too; greatest() never shortens an open window.
RecordCooldown(w) ==
    /\ At(w, "cooldown")
    /\ cooling' = cooling \cup {TransportOf(job[w].item)}
    /\ job' = [job EXCEPT ![w] = Idle]
    /\ UNCHANGED <<incident, rowVars, requeuing, accepted, crashes>>

\* The process dies between two of its transactions, or one of them throws out
\* of the loop; its claim stays until the lease runs out.
WorkerCrash(w) ==
    /\ job[w] # Idle
    /\ crashes < MaxCrashes
    /\ crashes' = crashes + 1
    /\ job' = [job EXCEPT ![w] = Idle]
    /\ UNCHANGED <<incident, rowVars, cooling, requeuing, accepted>>

--------------------------------------------------------------------------------
(* POST /cas/outbox/:id/requeue.  The row is locked; the incident is only  *)
(* read, so a resolve may commit between the read and the update.          *)

\* Mutant of RequeueCheck: any settled row may be re-queued.
RequeueAnySettled(o) ==
    /\ state[o] \in {"SENT", "DEAD_LETTER"}
    /\ ~Resolved(IncidentOf(o))
    /\ o \notin requeuing
    /\ cycle[o] < MaxRequeues
    /\ requeuing' = requeuing \cup {o}
    /\ UNCHANGED <<incident, rowVars, cooling, job, accepted, crashes>>

RequeueCheck(o) ==
    /\ state[o] = "DEAD_LETTER"
    /\ ~Resolved(IncidentOf(o))
    /\ o \notin requeuing
    /\ cycle[o] < MaxRequeues
    /\ requeuing' = requeuing \cup {o}
    /\ UNCHANGED <<incident, rowVars, cooling, job, accepted, crashes>>

RequeueCommit(o) ==
    /\ o \in requeuing
    /\ requeuing' = requeuing \ {o}
    /\ state' = [state EXCEPT ![o] = "QUEUED"]
    /\ attempts' = [attempts EXCEPT ![o] = 0]
    /\ claimedBy' = [claimedBy EXCEPT ![o] = NoWorker]
    /\ cycle' = [cycle EXCEPT ![o] = @ + 1]
    /\ due' = due \cup {o}
    /\ story' = [story EXCEPT ![o] = "DELIVERY_REQUEUED"]
    /\ UNCHANGED <<incident, stale, cooling, job, accepted, crashes>>

--------------------------------------------------------------------------------
(* POST /cas/incidents/:id/device-receipt.  The handset echoes a cycle     *)
(* token it was given; "ok" is a report that every recipient was texted.   *)

\* Mutant of ReceiptSent: a reported send is not journaled.
ReceiptSentUnjournaled(o) ==
    /\ SettleSent(o)
    /\ accepted' = accepted \cup {o}
    /\ UNCHANGED story

ReceiptSent(o) ==
    /\ SettleSent(o)
    /\ story' = [story EXCEPT ![o] = "DELIVERY_REPORTED"]
    /\ accepted' = accepted \cup {o}

ReceiptOnWithdrawn(o, ok) ==
    /\ state[o] = "WITHDRAWN"
    /\ IF ok
       THEN ReceiptSent(o)
       ELSE /\ story' = [story EXCEPT ![o] = "DELIVERY_WITHDRAWN"]
            /\ UNCHANGED <<state, claimedBy, stale, accepted>>

ReceiptOnOpen(o, token, ok) ==
    /\ state[o] \in {"QUEUED", "FAILED"}
    /\ cycle[o] = 0 \/ token = cycle[o]
    /\ IF ok
       THEN ReceiptSent(o)
       ELSE /\ state' = [state EXCEPT ![o] = "DEAD_LETTER"]
            /\ claimedBy' = [claimedBy EXCEPT ![o] = NoWorker]
            /\ story' = [story EXCEPT ![o] = "DELIVERY_ABANDONED"]
            /\ UNCHANGED <<stale, accepted>>

\* The other answers (404, replay, 409 and 410) change nothing.
DeviceReceipt(o, token, ok) ==
    /\ TransportOf(o) \in Device
    /\ o \notin requeuing
    /\ ReceiptOnWithdrawn(o, ok) \/ ReceiptOnOpen(o, token, ok)
    /\ UNCHANGED <<incident, attempts, cycle, due, cooling, requeuing, job,
                   crashes>>

--------------------------------------------------------------------------------
(* The clock, as far as the queries compare with it.                       *)

\* next_attempt_at passes.
BackoffElapses(o) ==
    /\ state[o] = "FAILED"
    /\ o \notin due
    /\ due' = due \cup {o}
    /\ UNCHANGED <<incident, state, attempts, claimedBy, cycle, stale, story, cooling,
                   requeuing, job, accepted, crashes>>

\* claimed_at falls behind now - DELIVERY_LEASE_MS.  A fan-out calls the
\* provider once per recipient with a 10 s timeout each, so a live worker's
\* lease may run out too.
LeaseExpires(o) ==
    /\ state[o] = "PROCESSING"
    /\ o \notin stale
    /\ stale' = stale \cup {o}
    /\ UNCHANGED <<incident, state, attempts, claimedBy, cycle, due, story, cooling,
                   requeuing, job, accepted, crashes>>

\* next_allowed_at passes.
CooldownEnds(t) ==
    /\ t \in cooling
    /\ cooling' = cooling \ {t}
    /\ UNCHANGED <<incident, rowVars, requeuing, job, accepted, crashes>>

--------------------------------------------------------------------------------

Claim(w) == \E o \in Items : ClaimCasOutboxItem(w, o)

\* What a worker does with a claim it holds: every step the loop takes by itself.
Deliver(w) ==
    \/ ProviderAccepts(w)
    \/ ProviderFails(w)
    \/ MarkCasOutboxItemSent(w)
    \/ DeadLetterCasOutboxItem(w)
    \/ CompleteCasOutboxItem(w)
    \/ RecordCooldown(w)

WorkerStep(w) == Claim(w) \/ Deliver(w) \/ MarkSentThrows(w) \/ WorkerCrash(w)

IncidentStep(i) ==
    \/ \E ts \in SUBSET Transports : Trigger(i, ts)
    \/ Ack(i)
    \/ Resolve(i)

RowStep(o) ==
    \/ RequeueCheck(o)
    \/ RequeueCommit(o)
    \/ \E token \in 0..cycle[o], ok \in BOOLEAN : DeviceReceipt(o, token, ok)
    \/ BackoffElapses(o)
    \/ LeaseExpires(o)

Next ==
    \/ \E i \in Incidents : IncidentStep(i)
    \/ \E w \in Workers : WorkerStep(w)
    \/ \E o \in Items : RowStep(o)
    \/ \E t \in Transports : CooldownEnds(t)

Spec == Init /\ [][Next]_vars

\* The 10 s interval timer keeps claiming and a tick takes every claimable row,
\* each provider call ends (it times out), each begun transaction ends, and time
\* passes.  No responder or operator action is owed, and no crash.
Fairness ==
    /\ \A w \in Workers : WF_vars(Deliver(w))
    /\ \A o \in Items : SF_vars(\E w \in Workers : ClaimCasOutboxItem(w, o))
    /\ \A o \in Items : WF_vars(BackoffElapses(o)) /\ WF_vars(RequeueCommit(o))
    /\ \A o \in Items : WF_vars(LeaseExpires(o))
    /\ \A t \in Transports : WF_vars(CooldownEnds(t))

FairSpec == Spec /\ Fairness

--------------------------------------------------------------------------------
(* Correctness.                                                            *)

TypeOK ==
    /\ incident \in [Incidents -> IncidentStatus]
    /\ state \in [Items -> RowState]
    /\ attempts \in [Items -> Nat]
    /\ claimedBy \in [Items -> Workers \cup {NoWorker}]
    /\ cycle \in [Items -> Nat]
    /\ due \subseteq Items
    /\ stale \subseteq Items
    /\ cooling \subseteq Transports
    /\ story \in [Items -> JournalEvent]
    /\ requeuing \subseteq Items
    /\ job \in [Workers -> {Idle} \cup Job]
    /\ accepted \subseteq Items
    /\ crashes \in Nat

\* A gateway row is abandoned only when its attempts are used up, and is put back
\* for a retry only while they are not, even though the verdict is decided on the
\* attempts value a worker read at its claim and other workers may have reclaimed
\* the row since (cas.ts, exhausted = claimed.attempts >= MAX_DELIVERY_ATTEMPTS).
AbandonedOnlyWhenExhausted ==
    \A o \in GatewayItems :
        /\ state[o] = "DEAD_LETTER" => attempts[o] >= MaxAttempts
        /\ state[o] = "FAILED" => attempts[o] < MaxAttempts

\* The console never shows SENT for an alert nobody took: a late, lost or
\* overtaken completion cannot fabricate a delivery (markCasOutboxItemSent).
SentOnlyIfTaken == \A o \in Items : state[o] = "SENT" => o \in accepted

\* After a resolve the incident has no row left that anything would deliver or
\* retry; the one exception the code leaves is a row that an operator re-queued
\* across the resolve, which is QUEUED and can never be claimed.
StoodDown ==
    \A o \in Items :
        Resolved(IncidentOf(o)) =>
            \/ state[o] \notin Unsent
            \/ state[o] = "QUEUED" /\ story[o] = "DELIVERY_REQUEUED"

\* The newest journal event about a row never contradicts the row: abandonment,
\* withdrawal and re-queue are journaled in the transaction that makes them
\* true, and every later transition that ends them journals again.
JournalAgrees ==
    \A o \in Items :
        /\ state[o] = "DEAD_LETTER" <=> story[o] = "DELIVERY_ABANDONED"
        /\ state[o] = "WITHDRAWN" <=> story[o] = "DELIVERY_WITHDRAWN"
        /\ story[o] = "DELIVERY_REPORTED" => state[o] = "SENT"

\* A worker whose lease was taken over never decides the row: whenever a step of
\* worker w ends a PROCESSING row it holds, w's claim is the newest one (its
\* attempts value is the row's), and the row's own claimed_by says so.
VerdictByNewestClaim ==
    [][\A w \in Workers :
          (job[w] # Idle /\ job'[w] # job[w]) =>
              LET o == job[w].item IN
              (state[o] = "PROCESSING" /\ state'[o] # state[o]) =>
                  job[w].seen = attempts[o] /\ claimedBy[o] = w]_vars

\* Nothing takes a row out of SENT: no late failure, receipt, resolve or re-queue
\* makes the system send a delivered alert again.
SentIsFinal ==
    [][\A o \in Items : state[o] = "SENT" => state'[o] = "SENT"]_vars

\* The refinement mapping to AlertPromise: what the record says of a row, which
\* incidents are closed, and which rows have a provider call under way.
VerdictOf(s) ==
    CASE s = "none" -> "none"
      [] s \in Unsent -> "pending"
      [] s = "SENT" -> "sent"
      [] s = "DEAD_LETTER" -> "abandoned"
      [] s = "WITHDRAWN" -> "withdrawn"

Verdicts == [o \in Items |-> VerdictOf(state[o])]

ClosedIncidents == {i \in Incidents : Resolved(i)}

CallsUnderWay == {o \in Items : \E w \in Workers : At(w, "sending") /\ job[w].item = o}

Promise == INSTANCE AlertPromise WITH
    HandsetOnly <- Device,
    verdict <- Verdicts,
    closed <- ClosedIncidents,
    calls <- CallsUnderWay,
    taken <- accepted

\* The outbox keeps the promise of AlertPromise: alerts are called sent only when
\* taken, a resolve withdraws at once, and no new provider call starts after it.
KeepsPromise == Promise!PSpec

\* Every queued gateway alert reaches a verdict: sent, abandoned or withdrawn
\* (the comment on MAX_DELIVERY_ATTEMPTS, cas.ts).
EveryAlertSettles ==
    \A o \in GatewayItems :
        state[o] \in Unsent /\ ~Resolved(IncidentOf(o)) ~> state[o] \notin Unsent

\* The comment at cas.ts:1314: re-queueing never leaves a QUEUED row on a
\* resolved incident.
NoStuckRow ==
    \A o \in Items : Resolved(IncidentOf(o)) => state[o] # "QUEUED"
================================================================================
