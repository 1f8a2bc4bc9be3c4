---------------------------- MODULE CasOutbox_proofs ----------------------------
(***************************************************************************)
(* Machine-checked proofs about CasOutbox, for every number of workers,    *)
(* incidents and transports, and every attempt limit: its invariants, its  *)
(* action properties, and the refinement of AlertPromise.                  *)
(***************************************************************************)
EXTENDS CasOutbox, TLAPS

\* The newest claim is the one the row names: if the row still says "claimed by
\* w", the attempts value w read is the row's, because every later claim would
\* have put another worker's name there.
ClaimsFenced ==
    \A w \in Workers :
        job[w] # Idle =>
            (Owns(w, job[w].item) => job[w].seen = attempts[job[w].item])

\* A worker that is about to record an acceptance saw one.
AcceptanceSeen ==
    \A w \in Workers : At(w, "accepted") => job[w].item \in accepted

\* A re-queue transaction keeps its row DEAD_LETTER under the row lock.
RequeuingAbandoned == \A o \in requeuing : state[o] = "DEAD_LETTER"

\* An incident that does not exist has no rows.
NoRowsBeforeTrigger ==
    \A o \in Items : incident[IncidentOf(o)] = "none" => state[o] = "none"

\* Only gateway rows are ever claimed, and by a worker, not by NULL.
OnlyGatewayClaimed ==
    \A o \in Items : state[o] = "PROCESSING" => TransportOf(o) \notin Device

IndInv ==
    /\ TypeOK
    /\ ClaimsFenced
    /\ AcceptanceSeen
    /\ RequeuingAbandoned
    /\ NoRowsBeforeTrigger
    /\ OnlyGatewayClaimed
    /\ AbandonedOnlyWhenExhausted
    /\ SentOnlyIfTaken
    /\ StoodDown
    /\ JournalAgrees

--------------------------------------------------------------------------------

USE DEF Items, GatewayItems, DeviceItems, Transports, IncidentOf, TransportOf,
        Resolved, Unsent, Idle, At, Owns

LEMMA TypeOKInit == Init => TypeOK
BY BoundsNat DEF Init, TypeOK, IncidentStatus, RowState, JournalEvent

LEMMA TypeOKNext == TypeOK /\ [Next]_vars => TypeOK'
<1> SUFFICES ASSUME TypeOK, [Next]_vars
             PROVE  TypeOK'
  OBVIOUS
<1> USE DEF TypeOK
<1>1. ASSUME NEW i \in Incidents, IncidentStep(i)
      PROVE  TypeOK'
  <2>1. ASSUME NEW ts \in SUBSET Transports, Trigger(i, ts)
        PROVE  TypeOK'
    BY <2>1 DEF Trigger, IncidentStatus, RowState, JournalEvent
  <2>2. CASE Ack(i)
    BY <2>2 DEF Ack, IncidentStatus, rowVars
  <2>3. CASE Resolve(i)
    BY <2>3 DEF Resolve, StandsDown, IncidentStatus, RowState, JournalEvent
  <2>4. QED BY <1>1, <2>1, <2>2, <2>3 DEF IncidentStep
<1>2. ASSUME NEW w \in Workers, WorkerStep(w)
      PROVE  TypeOK'
  <2>1. ASSUME NEW o \in Items, ClaimCasOutboxItem(w, o)
        PROVE  TypeOK'
    <3>1. attempts'[o] \in Nat
      BY <2>1, CapAboveLimit DEF ClaimCasOutboxItem, CountAttempt
    <3>2. job' \in [Workers -> {Idle} \cup Job]
      BY <2>1, <3>1 DEF ClaimCasOutboxItem, Job
    <3>3. QED
      BY <2>1, <3>2, CapAboveLimit
         DEF ClaimCasOutboxItem, CountAttempt, RowState
  <2>2. CASE ProviderAccepts(w)
    <3>1. job[w] \in Job
      BY <2>2 DEF ProviderAccepts
    <3>2. job' \in [Workers -> {Idle} \cup Job]
      BY <2>2, <3>1 DEF ProviderAccepts, Job
    <3>3. accepted' \subseteq Items
      BY <2>2, <3>1 DEF ProviderAccepts, Job
    <3>4. QED
      BY <2>2, <3>2, <3>3 DEF ProviderAccepts, rowVars
  <2>3. CASE ProviderFails(w)
    <3>1. job[w] \in Job
      BY <2>3 DEF ProviderFails
    <3>2. PICK h \in BOOLEAN :
            job' = [job EXCEPT ![w] = [@ EXCEPT !.stage = "rejected", !.hinted = h]]
      BY <2>3 DEF ProviderFails
    <3>3. [job[w] EXCEPT !.stage = "rejected", !.hinted = h] \in Job
      BY <3>1 DEF Job
    <3>4. job' \in [Workers -> {Idle} \cup Job]
      BY <3>2, <3>3
    <3>5. accepted' \subseteq Items
      BY <2>3, <3>1 DEF ProviderFails, Job
    <3>6. UNCHANGED <<incident, rowVars, cooling, requeuing, crashes>>
      BY <2>3 DEF ProviderFails
    <3>7. QED
      BY <3>4, <3>5, <3>6 DEF rowVars
  <2>4. CASE MarkSentThrows(w)
    <3>1. job[w] \in Job
      BY <2>4 DEF MarkSentThrows
    <3>2. job' \in [Workers -> {Idle} \cup Job]
      BY <2>4, <3>1 DEF MarkSentThrows, Job
    <3>3. QED
      BY <2>4, <3>2 DEF MarkSentThrows, rowVars
  <2>5. CASE MarkCasOutboxItemSent(w)
    <3>1. job[w] \in Job
      BY <2>5 DEF MarkCasOutboxItemSent
    <3>2. QED
      BY <2>5, <3>1 DEF MarkCasOutboxItemSent, SettleSent, Job, RowState, JournalEvent
  <2>6. CASE DeadLetterCasOutboxItem(w)
    BY <2>6 DEF DeadLetterCasOutboxItem, AfterFailure, Job, RowState, JournalEvent
  <2>7. CASE CompleteCasOutboxItem(w)
    BY <2>7 DEF CompleteCasOutboxItem, AfterFailure, Job, RowState
  <2>8. CASE RecordCooldown(w)
    <3>1. job[w] \in Job
      BY <2>8 DEF RecordCooldown
    <3>2. cooling' \subseteq Transports
      BY <2>8, <3>1 DEF RecordCooldown, Job
    <3>3. QED
      BY <2>8, <3>2 DEF RecordCooldown, rowVars
  <2>9. CASE WorkerCrash(w)
    BY <2>9 DEF WorkerCrash, rowVars
  <2>10. QED
    BY <1>2, <2>1, <2>2, <2>3, <2>4, <2>5, <2>6, <2>7, <2>8, <2>9
       DEF WorkerStep, Claim, Deliver
<1>3. ASSUME NEW o \in Items, RowStep(o)
      PROVE  TypeOK'
  <2>1. CASE RequeueCheck(o)
    BY <2>1 DEF RequeueCheck, rowVars
  <2>2. CASE RequeueCommit(o)
    BY <2>2 DEF RequeueCommit, RowState, JournalEvent
  <2>3. ASSUME NEW token \in 0..cycle[o], NEW ok \in BOOLEAN, DeviceReceipt(o, token, ok)
        PROVE  TypeOK'
    BY <2>3 DEF DeviceReceipt, ReceiptOnWithdrawn, ReceiptOnOpen, ReceiptSent, SettleSent,
                RowState, JournalEvent
  <2>4. CASE BackoffElapses(o)
    BY <2>4 DEF BackoffElapses
  <2>5. CASE LeaseExpires(o)
    BY <2>5 DEF LeaseExpires
  <2>6. QED BY <1>3, <2>1, <2>2, <2>3, <2>4, <2>5 DEF RowStep
<1>4. ASSUME NEW t \in Transports, CooldownEnds(t)
      PROVE  TypeOK'
  BY <1>4 DEF CooldownEnds, rowVars
<1>5. CASE UNCHANGED vars
  BY <1>5 DEF vars, rowVars
<1>6. QED
  BY <1>1, <1>2, <1>3, <1>4, <1>5 DEF Next

\* Every variable keeps its type: in particular a worker's job always names a real
\* row with a counted attempt.
THEOREM TypeCorrect == Spec => []TypeOK
<1>1. QED
  BY TypeOKInit, TypeOKNext, PTL DEF Spec

--------------------------------------------------------------------------------

LEMMA IndInvInit == Init => IndInv
<1> SUFFICES ASSUME Init PROVE IndInv
  OBVIOUS
<1>1. TypeOK
  BY TypeOKInit
<1>2. ClaimsFenced /\ AcceptanceSeen /\ RequeuingAbandoned
  BY DEF Init, ClaimsFenced, AcceptanceSeen, RequeuingAbandoned
<1>3. NoRowsBeforeTrigger /\ OnlyGatewayClaimed
  BY DEF Init, NoRowsBeforeTrigger, OnlyGatewayClaimed
<1>4. AbandonedOnlyWhenExhausted /\ SentOnlyIfTaken /\ StoodDown /\ JournalAgrees
  BY DEF Init, AbandonedOnlyWhenExhausted, SentOnlyIfTaken, StoodDown, JournalAgrees
<1>5. QED
  BY <1>1, <1>2, <1>3, <1>4 DEF IndInv

\* The parts of the invariant beyond typing, expanded together.
USE DEF ClaimsFenced, AcceptanceSeen, RequeuingAbandoned, NoRowsBeforeTrigger,
        OnlyGatewayClaimed, AbandonedOnlyWhenExhausted, SentOnlyIfTaken, StoodDown,
        JournalAgrees

LEMMA JobItem ==
    ASSUME TypeOK, NEW w \in Workers, job[w] # Idle
    PROVE  job[w].item \in Items
BY DEF TypeOK, Job

\* Steps that move no worker keep the claims fenced as long as they neither hand a
\* PROCESSING row to a worker nor touch the attempts of one.
LEMMA ClaimsFencedByOthers ==
    ASSUME TypeOK, ClaimsFenced, AcceptanceSeen, job' = job, accepted \subseteq accepted',
           \A o \in Items : state'[o] = "PROCESSING" =>
               /\ state[o] = "PROCESSING"
               /\ claimedBy'[o] = claimedBy[o]
               /\ attempts'[o] = attempts[o]
    PROVE  ClaimsFenced' /\ AcceptanceSeen'
<1>1. ASSUME NEW w \in Workers, job[w] # Idle, Owns(w, job[w].item)'
      PROVE  job[w].seen = attempts'[job[w].item]
  BY <1>1, JobItem
<1>2. QED
  BY <1>1

LEMMA IndInvIncident ==
    ASSUME IndInv, TypeOK', NEW i \in Incidents, IncidentStep(i)
    PROVE  IndInv'
<1> USE DEF IndInv
<1>1. ASSUME NEW ts \in SUBSET Transports, Trigger(i, ts)
      PROVE  IndInv'
  <2>1. ClaimsFenced' /\ AcceptanceSeen'
    BY <1>1, ClaimsFencedByOthers DEF Trigger, TypeOK
  <2>2. RequeuingAbandoned' /\ NoRowsBeforeTrigger'
    BY <1>1 DEF Trigger, TypeOK
  <2>3. OnlyGatewayClaimed' /\ AbandonedOnlyWhenExhausted'
    BY <1>1 DEF Trigger, TypeOK
  <2>4. SentOnlyIfTaken'
    BY <1>1 DEF Trigger, TypeOK
  <2>5. StoodDown'
    BY <1>1 DEF Trigger, TypeOK
  <2>6. JournalAgrees'
    BY <1>1 DEF Trigger, TypeOK
  <2>7. QED
    BY <2>1, <2>2, <2>3, <2>4, <2>5, <2>6
<1>2. CASE Ack(i)
  BY <1>2 DEF Ack, rowVars, TypeOK
<1>3. CASE Resolve(i)
  <2>1. ClaimsFenced' /\ AcceptanceSeen'
    BY <1>3, ClaimsFencedByOthers DEF Resolve, StandsDown, TypeOK
  <2>2. RequeuingAbandoned' /\ NoRowsBeforeTrigger'
    BY <1>3 DEF Resolve, StandsDown, TypeOK
  <2>3. OnlyGatewayClaimed' /\ AbandonedOnlyWhenExhausted'
    BY <1>3 DEF Resolve, StandsDown, TypeOK
  <2>4. SentOnlyIfTaken'
    BY <1>3 DEF Resolve, StandsDown, TypeOK
  <2>5. StoodDown'
    BY <1>3 DEF Resolve, StandsDown, TypeOK
  <2>6. JournalAgrees'
    BY <1>3 DEF Resolve, StandsDown, TypeOK
  <2>7. QED
    BY <2>1, <2>2, <2>3, <2>4, <2>5, <2>6
<1>4. QED
  BY <1>1, <1>2, <1>3 DEF IncidentStep

LEMMA IndInvRow ==
    ASSUME IndInv, TypeOK', NEW o \in Items, RowStep(o)
    PROVE  IndInv'
<1> USE DEF IndInv
<1>1. CASE RequeueCheck(o)
  BY <1>1 DEF RequeueCheck, rowVars, TypeOK
<1>2. CASE RequeueCommit(o)
  BY <1>2, AttemptsPositive DEF RequeueCommit, TypeOK
<1>3. ASSUME NEW token \in 0..cycle[o], NEW ok \in BOOLEAN, DeviceReceipt(o, token, ok)
      PROVE  IndInv'
  <2>1. ClaimsFenced' /\ AcceptanceSeen'
    BY <1>3, ClaimsFencedByOthers DEF DeviceReceipt, ReceiptOnWithdrawn, ReceiptOnOpen, ReceiptSent,
           SettleSent, TypeOK
  <2>2. RequeuingAbandoned' /\ NoRowsBeforeTrigger'
    BY <1>3, TransportsDisjoint DEF DeviceReceipt, ReceiptOnWithdrawn, ReceiptOnOpen, ReceiptSent,
           SettleSent, TypeOK
  <2>3. OnlyGatewayClaimed' /\ AbandonedOnlyWhenExhausted'
    BY <1>3, TransportsDisjoint DEF DeviceReceipt, ReceiptOnWithdrawn, ReceiptOnOpen, ReceiptSent,
           SettleSent, TypeOK
  <2>4. SentOnlyIfTaken'
    BY <1>3, TransportsDisjoint DEF DeviceReceipt, ReceiptOnWithdrawn, ReceiptOnOpen, ReceiptSent,
           SettleSent, TypeOK
  <2>5. StoodDown'
    BY <1>3, TransportsDisjoint DEF DeviceReceipt, ReceiptOnWithdrawn, ReceiptOnOpen, ReceiptSent,
           SettleSent, TypeOK
  <2>6. JournalAgrees'
    BY <1>3, TransportsDisjoint DEF DeviceReceipt, ReceiptOnWithdrawn, ReceiptOnOpen, ReceiptSent,
           SettleSent, TypeOK
  <2>7. QED
    BY <2>1, <2>2, <2>3, <2>4, <2>5, <2>6
<1>4. CASE BackoffElapses(o)
  BY <1>4 DEF BackoffElapses, TypeOK
<1>5. CASE LeaseExpires(o)
  BY <1>5 DEF LeaseExpires, TypeOK
<1>6. QED BY <1>1, <1>2, <1>3, <1>4, <1>5 DEF RowStep

LEMMA IndInvWorker ==
    ASSUME IndInv, TypeOK', NEW w \in Workers, WorkerStep(w)
    PROVE  IndInv'
<1> USE DEF IndInv
<1>1. ASSUME NEW o \in Items, ClaimCasOutboxItem(w, o)
      PROVE  IndInv'
  BY <1>1 DEF ClaimCasOutboxItem, Claimable, TypeOK, Job
<1>2. CASE ProviderAccepts(w)
  BY <1>2 DEF ProviderAccepts, TypeOK, Job, rowVars
<1>3. CASE ProviderFails(w)
  BY <1>3 DEF ProviderFails, TypeOK, Job, rowVars
<1>4. CASE MarkSentThrows(w)
  BY <1>4 DEF MarkSentThrows, TypeOK, Job, rowVars
<1>5. CASE MarkCasOutboxItemSent(w)
  <2>1. ClaimsFenced' /\ AcceptanceSeen'
    BY <1>5 DEF MarkCasOutboxItemSent, SettleSent, TypeOK, Job
  <2>2. RequeuingAbandoned' /\ NoRowsBeforeTrigger'
    BY <1>5 DEF MarkCasOutboxItemSent, SettleSent, TypeOK, Job
  <2>3. OnlyGatewayClaimed' /\ AbandonedOnlyWhenExhausted'
    BY <1>5 DEF MarkCasOutboxItemSent, SettleSent, TypeOK, Job
  <2>4. SentOnlyIfTaken'
    BY <1>5 DEF MarkCasOutboxItemSent, SettleSent, TypeOK, Job
  <2>5. StoodDown'
    BY <1>5 DEF MarkCasOutboxItemSent, SettleSent, TypeOK, Job
  <2>6. JournalAgrees'
    BY <1>5 DEF MarkCasOutboxItemSent, SettleSent, TypeOK, Job
  <2>7. QED
    BY <2>1, <2>2, <2>3, <2>4, <2>5, <2>6
<1>6. CASE DeadLetterCasOutboxItem(w)
  BY <1>6 DEF DeadLetterCasOutboxItem, AfterFailure, TypeOK, Job
<1>7. CASE CompleteCasOutboxItem(w)
  BY <1>7 DEF CompleteCasOutboxItem, AfterFailure, TypeOK, Job
<1>8. CASE RecordCooldown(w)
  BY <1>8 DEF RecordCooldown, TypeOK, Job, rowVars
<1>9. CASE WorkerCrash(w)
  BY <1>9 DEF WorkerCrash, TypeOK, rowVars
<1>10. QED
  BY <1>1, <1>2, <1>3, <1>4, <1>5, <1>6, <1>7, <1>8, <1>9
     DEF WorkerStep, Claim, Deliver

LEMMA IndInvNext == IndInv /\ [Next]_vars => IndInv'
<1> SUFFICES ASSUME IndInv, [Next]_vars
             PROVE  IndInv'
  OBVIOUS
<1>1. TypeOK'
  BY TypeOKNext DEF IndInv
<1>2. ASSUME NEW i \in Incidents, IncidentStep(i)
      PROVE  IndInv'
  BY <1>1, <1>2, IndInvIncident
<1>3. ASSUME NEW w \in Workers, WorkerStep(w)
      PROVE  IndInv'
  BY <1>1, <1>3, IndInvWorker
<1>4. ASSUME NEW o \in Items, RowStep(o)
      PROVE  IndInv'
  BY <1>1, <1>4, IndInvRow
<1>5. ASSUME NEW t \in Transports, CooldownEnds(t)
      PROVE  IndInv'
  BY <1>1, <1>5 DEF CooldownEnds, rowVars, IndInv
<1>6. CASE UNCHANGED vars
  BY <1>1, <1>6 DEF vars, rowVars, IndInv
<1>7. QED
  BY <1>2, <1>3, <1>4, <1>5, <1>6 DEF Next

LEMMA IndInvHolds == Spec => []IndInv
<1>1. QED
  BY IndInvInit, IndInvNext, PTL DEF Spec

--------------------------------------------------------------------------------
(* The safety invariants of the model-checking runs, for all parameters.   *)

\* A row is abandoned only when its attempts are used up and retried only while
\* they are not, however many workers reclaim it in between: the fenced claims
\* carry the attempts a worker read over to the row it decides.
THEOREM AbandonedOnlyWhenExhaustedHolds == Spec => []AbandonedOnlyWhenExhausted
<1>1. IndInv => AbandonedOnlyWhenExhausted
  BY DEF IndInv
<1>2. QED
  BY <1>1, IndInvHolds, PTL

\* No row is ever SENT unless a provider or the handset took its message.
THEOREM SentOnlyIfTakenHolds == Spec => []SentOnlyIfTaken
<1>1. IndInv => SentOnlyIfTaken
  BY DEF IndInv
<1>2. QED
  BY <1>1, IndInvHolds, PTL

\* A resolved incident has no deliverable row left, except one re-queued across
\* the resolve.
THEOREM StoodDownHolds == Spec => []StoodDown
<1>1. IndInv => StoodDown
  BY DEF IndInv
<1>2. QED
  BY <1>1, IndInvHolds, PTL

\* The journal's newest event about a row agrees with the row's state.
THEOREM JournalAgreesHolds == Spec => []JournalAgrees
<1>1. IndInv => JournalAgrees
  BY DEF IndInv
<1>2. QED
  BY <1>1, IndInvHolds, PTL

--------------------------------------------------------------------------------
(* The action properties.                                                  *)

LEMMA SentStaysSent ==
    ASSUME IndInv, [Next]_vars, NEW r \in Items, state[r] = "SENT"
    PROVE  state'[r] = "SENT"
<1> USE DEF IndInv, TypeOK
<1>1. ASSUME NEW i \in Incidents, IncidentStep(i)
      PROVE  state'[r] = "SENT"
  BY <1>1 DEF IncidentStep, Trigger, Ack, Resolve, StandsDown, rowVars
<1>2. ASSUME NEW w \in Workers, WorkerStep(w)
      PROVE  state'[r] = "SENT"
  <2>1. ASSUME NEW o \in Items, ClaimCasOutboxItem(w, o)
        PROVE  state'[r] = "SENT"
    BY <2>1 DEF ClaimCasOutboxItem, Claimable
  <2>2. CASE MarkCasOutboxItemSent(w)
    BY <2>2 DEF MarkCasOutboxItemSent, SettleSent
  <2>3. CASE DeadLetterCasOutboxItem(w)
    BY <2>3 DEF DeadLetterCasOutboxItem
  <2>4. CASE CompleteCasOutboxItem(w)
    BY <2>4 DEF CompleteCasOutboxItem
  <2>5. CASE ProviderAccepts(w) \/ ProviderFails(w) \/ MarkSentThrows(w)
             \/ RecordCooldown(w) \/ WorkerCrash(w)
    BY <2>5 DEF ProviderAccepts, ProviderFails, MarkSentThrows, RecordCooldown,
                WorkerCrash, rowVars
  <2>6. QED
    BY <1>2, <2>1, <2>2, <2>3, <2>4, <2>5 DEF WorkerStep, Claim, Deliver
<1>3. ASSUME NEW o \in Items, RowStep(o)
      PROVE  state'[r] = "SENT"
  BY <1>3 DEF RowStep, RequeueCheck, RequeueCommit, DeviceReceipt, ReceiptOnWithdrawn,
              ReceiptOnOpen, ReceiptSent, SettleSent, BackoffElapses, LeaseExpires, rowVars
<1>4. ASSUME NEW t \in Transports, CooldownEnds(t)
      PROVE  state'[r] = "SENT"
  BY <1>4 DEF CooldownEnds, rowVars
<1>5. CASE UNCHANGED vars
  BY <1>5 DEF vars, rowVars
<1>6. QED
  BY <1>1, <1>2, <1>3, <1>4, <1>5 DEF Next

\* A delivered alert stays delivered: no interleaving of workers, receipts, resolves
\* and re-queues makes the system send it again.
THEOREM SentIsFinalHolds == Spec => SentIsFinal
<1>1. IndInv /\ [Next]_vars
        => [\A o \in Items : state[o] = "SENT" => state'[o] = "SENT"]_vars
  BY SentStaysSent
<1>2. QED
  BY <1>1, IndInvHolds, PTL DEF Spec, SentIsFinal

\* Only the worker itself moves its job.
LEMMA JobMovesByWorker ==
    ASSUME IndInv, [Next]_vars, NEW w \in Workers, job'[w] # job[w]
    PROVE  WorkerStep(w)
<1> USE DEF IndInv, TypeOK
<1>1. ASSUME NEW i \in Incidents, IncidentStep(i)
      PROVE  job' = job
  BY <1>1 DEF IncidentStep, Trigger, Ack, Resolve
<1>2. ASSUME NEW v \in Workers, v # w, WorkerStep(v)
      PROVE  job'[w] = job[w]
  <2>1. CASE Claim(v)
    BY <1>2, <2>1 DEF Claim, ClaimCasOutboxItem
  <2>2. CASE ProviderAccepts(v) \/ MarkSentThrows(v)
    BY <1>2, <2>2 DEF ProviderAccepts, MarkSentThrows
  <2>3. CASE ProviderFails(v)
    BY <1>2, <2>3 DEF ProviderFails
  <2>4. CASE DeadLetterCasOutboxItem(v) \/ CompleteCasOutboxItem(v)
    BY <1>2, <2>4 DEF DeadLetterCasOutboxItem, CompleteCasOutboxItem, AfterFailure
  <2>5. CASE MarkCasOutboxItemSent(v) \/ RecordCooldown(v) \/ WorkerCrash(v)
    BY <1>2, <2>5 DEF MarkCasOutboxItemSent, RecordCooldown, WorkerCrash
  <2>6. QED
    BY <1>2, <2>1, <2>2, <2>3, <2>4, <2>5 DEF WorkerStep, Deliver
<1>3. ASSUME NEW o \in Items, RowStep(o)
      PROVE  job' = job
  BY <1>3 DEF RowStep, RequeueCheck, RequeueCommit, DeviceReceipt, BackoffElapses,
              LeaseExpires
<1>4. ASSUME NEW t \in Transports, CooldownEnds(t)
      PROVE  job' = job
  BY <1>4 DEF CooldownEnds
<1>5. CASE UNCHANGED vars
  BY <1>5 DEF vars
<1>6. QED
  BY <1>1, <1>2, <1>3, <1>4, <1>5 DEF Next

LEMMA WorkerDecidesOwnClaim ==
    ASSUME IndInv, [Next]_vars, NEW w \in Workers, job[w] # Idle, job'[w] # job[w],
           state[job[w].item] = "PROCESSING",
           state'[job[w].item] # state[job[w].item]
    PROVE  job[w].seen = attempts[job[w].item] /\ claimedBy[job[w].item] = w
<1> USE DEF IndInv, TypeOK
<1>1. WorkerStep(w)
  BY JobMovesByWorker
<1>2. Owns(w, job[w].item)
  <2>1. ASSUME NEW o \in Items, ClaimCasOutboxItem(w, o)
        PROVE  FALSE
    BY <2>1 DEF ClaimCasOutboxItem
  <2>2. CASE MarkCasOutboxItemSent(w)
    BY <2>2 DEF MarkCasOutboxItemSent
  <2>3. CASE DeadLetterCasOutboxItem(w)
    BY <2>3 DEF DeadLetterCasOutboxItem
  <2>4. CASE CompleteCasOutboxItem(w)
    BY <2>4 DEF CompleteCasOutboxItem
  <2>5. CASE ProviderAccepts(w) \/ ProviderFails(w) \/ MarkSentThrows(w)
             \/ RecordCooldown(w) \/ WorkerCrash(w)
    BY <2>5 DEF ProviderAccepts, ProviderFails, MarkSentThrows, RecordCooldown,
                WorkerCrash, rowVars
  <2>6. QED
    BY <1>1, <2>1, <2>2, <2>3, <2>4, <2>5 DEF WorkerStep, Claim, Deliver
<1>3. QED
  BY <1>2

\* Lease fencing: a worker whose claim was taken over never decides the row.
THEOREM VerdictByNewestClaimHolds == Spec => VerdictByNewestClaim
<1>1. IndInv /\ [Next]_vars
        => [\A w \in Workers :
              (job[w] # Idle /\ job'[w] # job[w]) =>
                  LET o == job[w].item IN
                  (state[o] = "PROCESSING" /\ state'[o] # state[o]) =>
                      job[w].seen = attempts[o] /\ claimedBy[o] = w]_vars
  BY WorkerDecidesOwnClaim
<1>2. QED
  BY <1>1, IndInvHolds, PTL DEF Spec, VerdictByNewestClaim

-----------------------------------------------------------------------------
(* CasOutbox implements AlertPromise: its initial state maps to an initial   *)
(* state, and every step to a step of the promise or to none.                *)

\* The parts of the invariant are not needed apart any more.
HIDE DEF ClaimsFenced, AcceptanceSeen, RequeuingAbandoned, NoRowsBeforeTrigger,
         OnlyGatewayClaimed, AbandonedOnlyWhenExhausted, SentOnlyIfTaken, StoodDown,
         JournalAgrees
USE DEF Promise!Alerts

LEMMA RefinesInit == Init => Promise!PInit
BY DEF Init, Promise!PInit, Verdicts, VerdictOf, ClosedIncidents, CallsUnderWay

\* The abstract state moves only in what a step changes.
LEMMA VerdictsUnchanged ==
    ASSUME state' = state
    PROVE  Verdicts' = Verdicts
BY DEF Verdicts

LEMMA ClosedUnchanged ==
    ASSUME incident' = incident
    PROVE  ClosedIncidents' = ClosedIncidents
BY DEF ClosedIncidents

LEMMA CallsUnchanged ==
    ASSUME job' = job
    PROVE  CallsUnderWay' = CallsUnderWay
BY DEF CallsUnderWay

\* A worker that is not in a provider call before or after its step.
LEMMA CallsUnchangedByWorker ==
    ASSUME NEW w \in Workers,
           \A v \in Workers \ {w} : job'[v] = job[v],
           ~At(w, "sending"), ~At(w, "sending")'
    PROVE  CallsUnderWay' = CallsUnderWay
BY DEF CallsUnderWay

\* A worker's provider call ends; another worker may still be calling for the row.
LEMMA CallEnds ==
    ASSUME TypeOK, NEW w \in Workers,
           \A v \in Workers \ {w} : job'[v] = job[v],
           At(w, "sending"), ~At(w, "sending")'
    PROVE  /\ job[w].item \in CallsUnderWay
           /\ CallsUnderWay' \in {CallsUnderWay, CallsUnderWay \ {job[w].item}}
<1>1. job[w].item \in Items
  BY JobItem
<1>2. job[w].item \in CallsUnderWay
  BY <1>1 DEF CallsUnderWay
<1>3. \A o \in Items : o # job[w].item => (o \in CallsUnderWay <=> o \in CallsUnderWay')
  BY DEF CallsUnderWay
<1>4. CallsUnderWay \subseteq Items /\ CallsUnderWay' \subseteq Items
  BY DEF CallsUnderWay
<1>5. CASE job[w].item \in CallsUnderWay'
  <2>1. CallsUnderWay' = CallsUnderWay
    BY <1>2, <1>3, <1>4, <1>5
  <2>2. QED
    BY <1>2, <2>1
<1>6. CASE job[w].item \notin CallsUnderWay'
  <2>1. CallsUnderWay' = CallsUnderWay \ {job[w].item}
    BY <1>2, <1>3, <1>4, <1>6
  <2>2. QED
    BY <1>2, <2>1
<1>7. QED
  BY <1>5, <1>6

\* A step of one row from state s to state t changes that row's verdict only.
LEMMA VerdictChanges ==
    ASSUME TypeOK, NEW o \in Items, NEW t \in RowState,
           state' = [state EXCEPT ![o] = t]
    PROVE  Verdicts' = [Verdicts EXCEPT ![o] = VerdictOf(t)]
BY DEF Verdicts, TypeOK

--------------------------------------------------------------------------------

LEMMA RefinesIncident ==
    ASSUME IndInv, NEW i \in Incidents, IncidentStep(i)
    PROVE  [Promise!PNext]_(Promise!promiseVars)
<1> USE DEF IndInv
<1>1. ASSUME NEW ts \in SUBSET Transports, Trigger(i, ts)
      PROVE  Promise!PNext
  <2>1. i \notin ClosedIncidents
    BY <1>1 DEF Trigger, ClosedIncidents
  <2>2. \A o \in {i} \X Transports : Verdicts[o] = "none"
    BY <1>1 DEF Trigger, Verdicts, VerdictOf, NoRowsBeforeTrigger
  <2>3. Verdicts' = [o \in Items |->
                        IF o \in {i} \X ts THEN "pending" ELSE Verdicts[o]]
    <3>1. \A o \in Items : VerdictOf(state'[o])
                              = IF o \in {i} \X ts THEN "pending" ELSE VerdictOf(state[o])
      <4>1. VerdictOf("QUEUED") = "pending"
        BY DEF VerdictOf
      <4>2. \A o \in Items : state'[o] = IF o \in {i} \X ts THEN "QUEUED" ELSE state[o]
        BY <1>1 DEF Trigger
      <4>3. QED
        BY <4>1, <4>2
    <3>2. {i} \X ts \subseteq Items
      OBVIOUS
    <3>3. QED
      BY <3>1, <3>2 DEF Verdicts
  <2>4. ClosedIncidents' = ClosedIncidents
    BY <1>1 DEF Trigger, ClosedIncidents, TypeOK
  <2>5. CallsUnderWay' = CallsUnderWay /\ accepted' = accepted
    BY <1>1, CallsUnchanged DEF Trigger
  <2>6. Promise!Raise(i, ts)
    BY <2>1, <2>2, <2>3, <2>4, <2>5 DEF Promise!Raise
  <2>7. QED
    BY <2>6 DEF Promise!PNext
<1>2. CASE Ack(i)
  <2>1. ClosedIncidents' = ClosedIncidents
    BY <1>2 DEF Ack, ClosedIncidents, TypeOK
  <2>2. UNCHANGED <<Verdicts, CallsUnderWay, accepted>>
    BY <1>2, VerdictsUnchanged, CallsUnchanged DEF Ack, rowVars
  <2>3. QED
    BY <2>1, <2>2 DEF Promise!promiseVars
<1>3. CASE Resolve(i)
  <2>1. i \notin ClosedIncidents
    BY <1>3 DEF Resolve, ClosedIncidents
  <2>2. ClosedIncidents' = ClosedIncidents \cup {i}
    BY <1>3 DEF Resolve, ClosedIncidents, TypeOK
  <2>3. Verdicts' = [o \in Items |->
                        IF o[1] = i /\ Verdicts[o] = "pending" THEN "withdrawn"
                                                               ELSE Verdicts[o]]
    BY <1>3 DEF Resolve, StandsDown, Verdicts, VerdictOf, TypeOK, RowState
  <2>4. CallsUnderWay' = CallsUnderWay /\ accepted' = accepted
    BY <1>3, CallsUnchanged DEF Resolve
  <2>5. Promise!Close(i)
    BY <2>1, <2>2, <2>3, <2>4 DEF Promise!Close
  <2>6. QED
    BY <2>5 DEF Promise!PNext
<1>4. QED
  BY <1>1, <1>2, <1>3 DEF IncidentStep

\* What a settled row looks like to the promise.
LEMMA RefinesSettle ==
    ASSUME IndInv, NEW o \in Items, NEW t \in RowState,
           state' = [state EXCEPT ![o] = t],
           UNCHANGED <<ClosedIncidents, CallsUnderWay, accepted>>,
           \/ state[o] \in Unsent \cup {"WITHDRAWN"} /\ t = "SENT" /\ o \in accepted
           \/ state[o] \in Unsent /\ t = "DEAD_LETTER"
           \/ state[o] \in Unsent /\ t \in Unsent
           \/ state[o] = "DEAD_LETTER" /\ t = "QUEUED"
    PROVE  [Promise!PNext]_(Promise!promiseVars)
<1> USE DEF IndInv
<1>1. Verdicts' = [Verdicts EXCEPT ![o] = VerdictOf(t)]
  BY VerdictChanges
<1>2. Verdicts[o] = VerdictOf(state[o])
  BY DEF Verdicts
<1>3. CASE state[o] \in Unsent \cup {"WITHDRAWN"} /\ t = "SENT" /\ o \in accepted
  <2>1. Promise!Confirm(o)
    BY <1>1, <1>2, <1>3 DEF Promise!Confirm, VerdictOf
  <2>2. QED
    BY <2>1 DEF Promise!PNext
<1>4. CASE state[o] \in Unsent /\ t = "DEAD_LETTER"
  <2>1. Promise!Abandon(o)
    BY <1>1, <1>2, <1>4 DEF Promise!Abandon, VerdictOf
  <2>2. QED
    BY <2>1 DEF Promise!PNext
<1>5. CASE state[o] \in Unsent /\ t \in Unsent
  <2>1. Verdicts' = Verdicts
    BY <1>1, <1>2, <1>5 DEF Verdicts, VerdictOf
  <2>2. QED
    BY <2>1 DEF Promise!promiseVars
<1>6. CASE state[o] = "DEAD_LETTER" /\ t = "QUEUED"
  <2>1. Promise!Reopen(o)
    BY <1>1, <1>2, <1>6 DEF Promise!Reopen, VerdictOf
  <2>2. QED
    BY <2>1 DEF Promise!PNext
<1>7. QED
  BY <1>3, <1>4, <1>5, <1>6

LEMMA RefinesWorker ==
    ASSUME IndInv, NEW w \in Workers, WorkerStep(w)
    PROVE  [Promise!PNext]_(Promise!promiseVars)
<1> USE DEF IndInv, TypeOK
<1>1. ASSUME NEW o \in Items, ClaimCasOutboxItem(w, o)
      PROVE  [Promise!PNext]_(Promise!promiseVars)
  <2>1. Verdicts' = Verdicts /\ Verdicts[o] = "pending"
    <3>1. state' = [state EXCEPT ![o] = "PROCESSING"] /\ state[o] \in Unsent
      BY <1>1 DEF ClaimCasOutboxItem, Claimable
    <3>2. Verdicts[o] = "pending"
      BY <3>1 DEF Verdicts, VerdictOf
    <3>3. Verdicts' = [Verdicts EXCEPT ![o] = "pending"]
      BY <3>1, VerdictChanges DEF VerdictOf, RowState
    <3>4. QED
      BY <3>2, <3>3 DEF Verdicts
  <2>2. ClosedIncidents' = ClosedIncidents /\ o[1] \notin ClosedIncidents
    BY <1>1, ClosedUnchanged DEF ClaimCasOutboxItem, Claimable, ClosedIncidents
  <2>3. CallsUnderWay' = CallsUnderWay \cup {o}
    BY <1>1 DEF ClaimCasOutboxItem, CallsUnderWay
  <2>4. Promise!Call(o)
    BY <1>1, <2>1, <2>2, <2>3 DEF ClaimCasOutboxItem, Claimable, Promise!Call
  <2>5. QED
    BY <2>4 DEF Promise!PNext
<1>2. CASE ProviderAccepts(w) \/ ProviderFails(w)
  <2>1. At(w, "sending") /\ job[w] \in Job
    <3>1. At(w, "sending")
      BY <1>2 DEF ProviderAccepts, ProviderFails
    <3>2. QED
      BY <3>1
  <2>2. /\ \A v \in Workers \ {w} : job'[v] = job[v]
        /\ At(w, "sending") /\ ~At(w, "sending")'
    <3>1. CASE ProviderAccepts(w)
      BY <2>1, <3>1 DEF ProviderAccepts, Job
    <3>2. CASE ProviderFails(w)
      <4>1. PICK h \in BOOLEAN :
              job' = [job EXCEPT ![w] = [@ EXCEPT !.stage = "rejected", !.hinted = h]]
        BY <3>2 DEF ProviderFails
      <4>2. [job[w] EXCEPT !.stage = "rejected", !.hinted = h].stage = "rejected"
        BY <2>1 DEF Job
      <4>3. QED
        BY <2>1, <4>1, <4>2
    <3>3. QED
      BY <1>2, <3>1, <3>2
  <2>3. /\ job[w].item \in CallsUnderWay
        /\ CallsUnderWay' \in {CallsUnderWay, CallsUnderWay \ {job[w].item}}
    BY <2>2, CallEnds
  <2>4. UNCHANGED <<Verdicts, ClosedIncidents>>
    BY <1>2, VerdictsUnchanged, ClosedUnchanged DEF ProviderAccepts, ProviderFails, rowVars
  <2>5. accepted' \in {accepted, accepted \cup {job[w].item}}
    BY <1>2 DEF ProviderAccepts, ProviderFails
  <2>6. job[w].item \in Items
    BY <2>1 DEF Job
  <2>7. Promise!Answer(job[w].item)
    BY <2>3, <2>4, <2>5 DEF Promise!Answer
  <2>8. QED
    BY <2>6, <2>7 DEF Promise!PNext
<1>3. CASE WorkerCrash(w) /\ At(w, "sending")
  <2>1. /\ \A v \in Workers \ {w} : job'[v] = job[v]
        /\ ~At(w, "sending")'
    BY <1>3 DEF WorkerCrash
  <2>2. /\ job[w].item \in CallsUnderWay
        /\ CallsUnderWay' \in {CallsUnderWay, CallsUnderWay \ {job[w].item}}
    BY <1>3, <2>1, CallEnds
  <2>3. UNCHANGED <<Verdicts, ClosedIncidents, accepted>>
    BY <1>3, VerdictsUnchanged, ClosedUnchanged DEF WorkerCrash, rowVars
  <2>4. job[w].item \in Items
    BY <1>3, JobItem DEF WorkerCrash
  <2>5. Promise!Answer(job[w].item)
    BY <2>2, <2>3 DEF Promise!Answer
  <2>6. QED
    BY <2>4, <2>5 DEF Promise!PNext
<1>4. CASE MarkSentThrows(w) \/ RecordCooldown(w) \/ (WorkerCrash(w) /\ ~At(w, "sending"))
  <2>1. /\ \A v \in Workers \ {w} : job'[v] = job[v]
        /\ ~At(w, "sending") /\ ~At(w, "sending")'
    BY <1>4 DEF MarkSentThrows, RecordCooldown, WorkerCrash, Job
  <2>2. UNCHANGED <<Verdicts, ClosedIncidents, accepted>>
    BY <1>4, VerdictsUnchanged, ClosedUnchanged
       DEF MarkSentThrows, RecordCooldown, WorkerCrash, rowVars
  <2>3. QED
    BY <2>1, <2>2, CallsUnchangedByWorker DEF Promise!promiseVars
<1>5. CASE MarkCasOutboxItemSent(w) \/ DeadLetterCasOutboxItem(w) \/ CompleteCasOutboxItem(w)
  <2> DEFINE o == job[w].item
  <2>1. job[w] \in Job /\ o \in Items
    BY <1>5 DEF MarkCasOutboxItemSent, DeadLetterCasOutboxItem, CompleteCasOutboxItem, Job
  <2>2. /\ \A v \in Workers \ {w} : job'[v] = job[v]
        /\ ~At(w, "sending") /\ ~At(w, "sending")'
    BY <1>5, <2>1 DEF MarkCasOutboxItemSent, DeadLetterCasOutboxItem,
                      CompleteCasOutboxItem, AfterFailure, Job
  <2>3. UNCHANGED <<ClosedIncidents, CallsUnderWay, accepted>>
    BY <1>5, <2>2, ClosedUnchanged, CallsUnchangedByWorker
       DEF MarkCasOutboxItemSent, DeadLetterCasOutboxItem, CompleteCasOutboxItem
  <2>4. CASE state' = state
    BY <2>3, <2>4, VerdictsUnchanged DEF Promise!promiseVars
  <2>5. CASE MarkCasOutboxItemSent(w) /\ state' # state
    <3>1. state' = [state EXCEPT ![o] = "SENT"] /\ state[o] \in Unsent \cup {"WITHDRAWN"}
      BY <2>5 DEF MarkCasOutboxItemSent, SettleSent
    <3>2. o \in accepted
      BY <2>5 DEF MarkCasOutboxItemSent, AcceptanceSeen
    <3>3. QED
      BY <2>1, <2>3, <3>1, <3>2, RefinesSettle DEF RowState
  <2>6. CASE DeadLetterCasOutboxItem(w) /\ state' # state
    <3>1. state' = [state EXCEPT ![o] = "DEAD_LETTER"] /\ state[o] \in Unsent
      BY <2>6 DEF DeadLetterCasOutboxItem
    <3>2. QED
      BY <2>1, <2>3, <3>1, RefinesSettle DEF RowState
  <2>7. CASE CompleteCasOutboxItem(w) /\ state' # state
    <3>1. state' = [state EXCEPT ![o] = "FAILED"] /\ state[o] \in Unsent
      BY <2>7 DEF CompleteCasOutboxItem
    <3>2. QED
      BY <2>1, <2>3, <3>1, RefinesSettle DEF RowState
  <2>8. QED
    BY <1>5, <2>4, <2>5, <2>6, <2>7
<1>6. QED
  BY <1>1, <1>2, <1>3, <1>4, <1>5 DEF WorkerStep, Claim, Deliver

LEMMA RefinesRow ==
    ASSUME IndInv, NEW o \in Items, RowStep(o)
    PROVE  [Promise!PNext]_(Promise!promiseVars)
<1> USE DEF IndInv, TypeOK
<1>1. CASE RequeueCheck(o) \/ BackoffElapses(o) \/ LeaseExpires(o)
  <2>1. UNCHANGED <<Verdicts, ClosedIncidents, CallsUnderWay, accepted>>
    BY <1>1, VerdictsUnchanged, ClosedUnchanged, CallsUnchanged
       DEF RequeueCheck, BackoffElapses, LeaseExpires, rowVars
  <2>2. QED
    BY <2>1 DEF Promise!promiseVars
<1>2. CASE RequeueCommit(o)
  <2>1. UNCHANGED <<ClosedIncidents, CallsUnderWay, accepted>>
    BY <1>2, ClosedUnchanged, CallsUnchanged DEF RequeueCommit
  <2>2. state[o] = "DEAD_LETTER" /\ state' = [state EXCEPT ![o] = "QUEUED"]
    BY <1>2 DEF RequeueCommit, RequeuingAbandoned
  <2>3. QED
    BY <2>1, <2>2, RefinesSettle DEF RowState
<1>3. ASSUME NEW token \in 0..cycle[o], NEW ok \in BOOLEAN, DeviceReceipt(o, token, ok)
      PROVE  [Promise!PNext]_(Promise!promiseVars)
  <2>1. UNCHANGED <<ClosedIncidents, CallsUnderWay>>
    BY <1>3, ClosedUnchanged, CallsUnchanged DEF DeviceReceipt
  <2>2. CASE ReceiptSent(o) /\ state[o] \in Unsent \cup {"WITHDRAWN"}
    <3>1. Verdicts' = [Verdicts EXCEPT ![o] = "sent"]
      BY <2>2, VerdictChanges DEF ReceiptSent, SettleSent, RowState, VerdictOf
    <3>2. Verdicts[o] \in {"pending", "withdrawn"}
      BY <2>2 DEF Verdicts, VerdictOf
    <3>3. Promise!Report(o)
      BY <1>3, <2>1, <2>2, <3>1, <3>2 DEF DeviceReceipt, ReceiptSent, Promise!Report
    <3>4. QED
      BY <3>3 DEF Promise!PNext
  <2>3. CASE ReceiptOnOpen(o, token, FALSE) /\ ~ok
    <3>1. state' = [state EXCEPT ![o] = "DEAD_LETTER"] /\ state[o] \in Unsent
      BY <2>3 DEF ReceiptOnOpen
    <3>2. accepted' = accepted
      BY <2>3 DEF ReceiptOnOpen
    <3>3. QED
      BY <2>1, <3>1, <3>2, RefinesSettle DEF RowState
  <2>4. CASE ReceiptOnWithdrawn(o, FALSE) /\ ~ok
    <3>1. UNCHANGED <<Verdicts, accepted>>
      BY <2>4, VerdictsUnchanged DEF ReceiptOnWithdrawn
    <3>2. QED
      BY <2>1, <3>1 DEF Promise!promiseVars
  <2>5. QED
    BY <1>3, <2>2, <2>3, <2>4 DEF DeviceReceipt, ReceiptOnWithdrawn, ReceiptOnOpen
<1>4. QED
  BY <1>1, <1>2, <1>3 DEF RowStep

LEMMA RefinesNext == IndInv /\ [Next]_vars => [Promise!PNext]_(Promise!promiseVars)
<1> SUFFICES ASSUME IndInv, [Next]_vars
             PROVE  [Promise!PNext]_(Promise!promiseVars)
  OBVIOUS
<1>1. ASSUME NEW t \in Transports, CooldownEnds(t)
      PROVE  UNCHANGED Promise!promiseVars
  BY <1>1, VerdictsUnchanged, ClosedUnchanged, CallsUnchanged
     DEF CooldownEnds, rowVars, Promise!promiseVars
<1>2. CASE UNCHANGED vars
  BY <1>2, VerdictsUnchanged, ClosedUnchanged, CallsUnchanged
     DEF vars, rowVars, Promise!promiseVars
<1>3. QED
  BY <1>1, <1>2, RefinesIncident, RefinesWorker, RefinesRow DEF Next

\* The outbox implements the promise: every behaviour of the lease, retry, receipt,
\* resolve and re-queue protocol is one of AlertPromise.
THEOREM KeepsPromiseHolds == Spec => KeepsPromise
<1>1. QED
  BY RefinesInit, RefinesNext, IndInvHolds, PTL DEF Spec, KeepsPromise, Promise!PSpec
================================================================================
