------------------------------ MODULE PushFanOut ------------------------------
(* Waking the handsets: the registration of FCM tokens (CapturePush.kt, PUT      *)
(* /cas/devices/push-token) and the dispatch to them (lib/cas-push.ts), while    *)
(* tokens rotate, credentials are revoked and handsets enrol again. A credential *)
(* is a pair <<handset, n>>, its n-th; so is a token. Dispatches never overlap   *)
(* in the model.                                                                 *)
EXTENDS Integers

CONSTANTS
    Handsets,
    MaxPushChanges, \* bound: token rotations and enrolments after a revocation, of all handsets
    MaxDispatches   \* bound

VARIABLES
    enrolled,  \* the number of the credential each handset holds
    revokedC,  \* credentials the operator revoked
    fcm,       \* the number of each handset's FCM token
    told,      \* registeredPushToken: what the handset last registered
    put,       \* the registration under way: the credential and token it carries, 0 = none
    rows,      \* cas_push_registrations: at most one row [cred, id, token] per credential
    nextRow, changes,
    dispatches, fan,   \* the dispatch under way: rows still to send to, their outcomes
    swept,     \* history: handsets of which a dispatch removed a row that had been rotated since
    renewed    \* history: handsets that enrolled again after registering

pushVars == <<enrolled, revokedC, fcm, told, put, rows, nextRow, changes, dispatches, fan,
              swept, renewed>>

IdleDispatch == [pc |-> "idle", todo |-> {}, delivered |-> {}, stale |-> {}, failed |-> {}]
NoPut == [cred |-> 0, token |-> 0]

PushInit ==
    /\ enrolled = [h \in Handsets |-> 1] /\ revokedC = {}
    /\ fcm = [h \in Handsets |-> 1] /\ told = [h \in Handsets |-> 0]
    /\ put = [h \in Handsets |-> NoPut]
    /\ rows = {} /\ nextRow = 1 /\ changes = 0 /\ dispatches = 0 /\ fan = IdleDispatch
    /\ swept = {} /\ renewed = {}

(* --- the handset --------------------------------------------------------------- *)

\* Firebase replaces the token; onNewToken registers the new one like a resume does.
Rotate(h) ==
    /\ changes < MaxPushChanges /\ changes' = changes + 1
    /\ fcm' = [fcm EXCEPT ![h] = @ + 1]
    /\ UNCHANGED <<enrolled, revokedC, told, put, rows, nextRow, dispatches, fan, swept, renewed>>

\* registerToken: nothing to do for a token already registered - under whichever credential.
RegisterToken(h) ==
    /\ put[h] = NoPut /\ told[h] # fcm[h]
    /\ put' = [put EXCEPT ![h] = [cred |-> enrolled[h], token |-> fcm[h]]]
    /\ UNCHANGED <<enrolled, revokedC, fcm, told, rows, nextRow, changes, dispatches, fan,
                   swept, renewed>>

\* Mutant of Upserted: the token of an existing row is kept.
InsertOnly(c, t) ==
    IF \E r \in rows : r.cred = c THEN rows
    ELSE rows \cup {[cred |-> c, id |-> nextRow, token |-> t]}

\* One row per credential: a second registration replaces the token and keeps the row's id.
Upserted(c, t) ==
    IF \E r \in rows : r.cred = c
    THEN {IF r.cred = c THEN [r EXCEPT !.token = t] ELSE r : r \in rows}
    ELSE rows \cup {[cred |-> c, id |-> nextRow, token |-> t]}

\* The request arrives; the answer may be lost, then the handset tries again.
FinishRegister(h) ==
    /\ put[h] # NoPut
    /\ LET c == <<h, put[h].cred>> IN
         \E reached, answered \in BOOLEAN :
            /\ rows' = IF reached /\ c \notin revokedC
                       THEN Upserted(c, <<h, put[h].token>>) ELSE rows
            /\ nextRow' = IF \E r \in rows' : r.id = nextRow THEN nextRow + 1 ELSE nextRow
            /\ told' = IF reached /\ answered /\ c \notin revokedC
                       THEN [told EXCEPT ![h] = put[h].token] ELSE told
    /\ put' = [put EXCEPT ![h] = NoPut]
    /\ UNCHANGED <<enrolled, revokedC, fcm, changes, dispatches, fan, swept, renewed>>

\* The operator revokes the handset's credential and lets it enrol again.
RevokeAndRenew(h) ==
    /\ changes < MaxPushChanges /\ changes' = changes + 1
    /\ revokedC' = revokedC \cup {<<h, enrolled[h]>>}
    /\ enrolled' = [enrolled EXCEPT ![h] = @ + 1]
    /\ renewed' = IF told[h] # 0 \/ put[h] # NoPut THEN renewed \cup {h} ELSE renewed
    /\ UNCHANGED <<fcm, told, put, rows, nextRow, dispatches, fan, swept>>

(* --- the dispatch ---------------------------------------------------------------- *)

\* Mutant of Registered: the join is missing.
EveryRow == rows

\* The join with the credentials: rows of revoked ones are left out.
Registered == {r \in rows : r.cred \notin revokedC}

Dispatch ==
    /\ fan.pc = "idle" /\ dispatches < MaxDispatches
    /\ dispatches' = dispatches + 1
    /\ fan' = IF Registered = {} THEN fan
              ELSE [IdleDispatch EXCEPT !.pc = "sending", !.todo = Registered]
    /\ UNCHANGED <<enrolled, revokedC, fcm, told, put, rows, nextRow, changes, swept, renewed>>

\* FCM knows only the newest token of a handset.
Outcomes(r) == (IF r.token[2] = fcm[r.token[1]] THEN {"delivered"} ELSE {"stale"}) \cup {"failed"}

\* Each send ends for itself: delivered, stale token, or failed (timeout, HTTP error).
SendToRow(r) ==
    /\ fan.pc = "sending" /\ r \in fan.todo
    /\ \E o \in Outcomes(r) : fan' = [fan EXCEPT !.todo = @ \ {r}, ![o] = @ \cup {r}]
    /\ UNCHANGED <<enrolled, revokedC, fcm, told, put, rows, nextRow, changes, dispatches,
                   swept, renewed>>

\* Mutant of Dropped: a failed send is taken for a dead token.
FailedToo == fan.stale \cup fan.failed

\* Which sends end their registration.
Dropped == fan.stale

\* When all have ended the registrations with a stale token are deleted by their id, one by
\* one, whatever token the row holds by then.
Collect ==
    /\ fan.pc = "sending" /\ fan.todo = {}
    /\ fan' = IF Dropped = {} THEN IdleDispatch
              ELSE [fan EXCEPT !.pc = "deleting", !.todo = Dropped]
    /\ UNCHANGED <<enrolled, revokedC, fcm, told, put, rows, nextRow, changes, dispatches,
                   swept, renewed>>

Delete(r) ==
    /\ fan.pc = "deleting" /\ r \in fan.todo
    /\ rows' = {x \in rows : x.id # r.id}
    /\ swept' = IF r \in rows THEN swept ELSE swept \cup {r.cred[1]}
    /\ fan' = IF fan.todo = {r} THEN IdleDispatch ELSE [fan EXCEPT !.todo = @ \ {r}]
    /\ UNCHANGED <<enrolled, revokedC, fcm, told, put, nextRow, changes, dispatches, renewed>>

\* A deletion that throws ends the dispatch; the rest keep their rows.
DeleteThrows ==
    /\ fan.pc = "deleting"
    /\ fan' = IdleDispatch
    /\ UNCHANGED <<enrolled, revokedC, fcm, told, put, rows, nextRow, changes, dispatches,
                   swept, renewed>>

PushNext ==
    \/ \E h \in Handsets :
          Rotate(h) \/ RegisterToken(h) \/ FinishRegister(h) \/ RevokeAndRenew(h)
    \/ Dispatch \/ Collect \/ DeleteThrows
    \/ \E r \in fan.todo : SendToRow(r) \/ Delete(r)

PushSpec == PushInit /\ [][PushNext]_pushVars

(* --- properties -------------------------------------------------------------------- *)

(* A handset that takes its present token for registered (and therefore never   *)
(* registers it again, CapturePush.registerToken) has a row with that token     *)
(* under its credential: the next wake reaches it. The code leaves two          *)
(* exceptions, and the handset then stays unreachable until Firebase rotates    *)
(* its token: a dispatch deleted, by id, a row whose token had been rotated     *)
(* since it was read; or the handset enrolled again, and its token is still     *)
(* registered under the revoked credential.                                     *)
BelievedMeansReachable ==
    \A h \in Handsets \ (swept \cup renewed) :
        told[h] = fcm[h] =>
            \E r \in rows : r.cred = <<h, enrolled[h]>> /\ r.token = <<h, fcm[h]>>

(* Revoking a credential stops the wakes to its handset from the next dispatch  *)
(* on, although its row stays: a dispatch never sends to a credential that had  *)
(* been revoked when it started.                                                *)
RevokedIsNotWoken ==
    [][fan.pc = "idle" /\ fan'.pc = "sending" =>
          \A r \in fan'.todo : r.cred \notin revokedC]_pushVars

(* One handset's failing or slow send costs no other its registration: a row    *)
(* is only ever deleted after FCM called that row's token dead.                 *)
OnlyDeadTokensDropped ==
    [][\A r \in rows \ rows' : \E x \in rows' \cup fan.stale : x.id = r.id]_pushVars

\* A wake reaches every handset that believes itself registered, and no revoked one.
WakesFindTheirHandset ==
    /\ []BelievedMeansReachable
    /\ RevokedIsNotWoken /\ OnlyDeadTokensDropped
=============================================================================
