--------------------------- MODULE DeviceCredential ---------------------------
(* How the handset gets, uses and loses its credential (AlertSender.kt, the Send *)
(* button of MainActivity.kt) and how the server issues, checks and revokes it   *)
(* (lib/cas-auth.ts, routes/cas.ts). A credential is its number. Every alert     *)
(* attempt and every other request is a thread; the activity may be recreated    *)
(* (rotation) while one runs, and the process may die. TestStore's writes go to  *)
(* memory (apply()) and reach the disk later.                                    *)
EXTENDS Integers

CONSTANTS
    Attempts,       \* 1..n, bound: taps on Send
    Posters,        \* threads of location posts, uploads, update checks
    MaxCredentials, \* bound: credentials issued
    MaxRecreations, \* bound: new activities, of a rotation or of a new process
    MaxTyped        \* bound: how often the operator edits the enrolment credential's field

ASSUME CredentialAssumption == Attempts \subseteq Nat \ {0} /\ MaxCredentials \in Nat

Credentials == 1..MaxCredentials
NoCred == 0

VARIABLES
    issued, revokedD,    \* cas_device_credentials: how many, and which are revoked
    requests,            \* the attempts whose enrolment request the server has yet to handle
    deviceToken,         \* enrolledDeviceToken
    alertToken,          \* is the enrolment credential in the handset's storage
    flushed,             \* what of these two has reached the disk
    field,               \* is it in the input field of the activity on screen
    activity,            \* the number of that activity
    sending,             \* its alertInFlight
    attempt, poster,     \* the threads
    typings,             \* bound counter
    trusted,             \* history: typed in or saved since an enrolment last used it
    displaced,           \* history: the activity was recreated while an attempt ran
    unanswered,          \* history: the trigger POST after an enrolment had no answer
    leftOver             \* history: a process died and left a used enrolment credential on disk

issueVars == <<issued, revokedD, requests>>
storeVars == <<deviceToken, alertToken>>
formVars == <<field, activity, sending>>
historyVars == <<trusted, displaced, unanswered, leftOver>>
credVars == <<issueVars, storeVars, flushed, formVars, attempt, poster, typings, historyVars>>

NoAttempt == [pc |-> "unused", enrolment |-> FALSE, token |-> NoCred, at |-> 0, answer |-> 0]

CredInit ==
    /\ issued = 0 /\ revokedD = {} /\ requests = {}
    /\ deviceToken = NoCred /\ alertToken = FALSE
    /\ flushed = [deviceToken |-> NoCred, alertToken |-> FALSE]
    /\ activity = 1 /\ field = FALSE /\ sending = FALSE
    /\ attempt = [a \in Attempts |-> NoAttempt]
    /\ poster = [p \in Posters |-> NoCred]
    /\ typings = 0
    /\ trusted = FALSE /\ displaced = FALSE /\ unanswered = FALSE /\ leftOver = FALSE

Running(a) == attempt[a].pc \notin {"unused", "over"}

(* --- the operator, the screen, the process ------------------------------------------ *)

TypeIn ==
    /\ typings < MaxTyped /\ typings' = typings + 1
    /\ field' = TRUE /\ trusted' = TRUE
    /\ UNCHANGED <<issueVars, storeVars, flushed, activity, sending, attempt, poster, displaced,
                   unanswered, leftOver>>

\* "Save alert credential" stores what the field shows.
SaveField ==
    /\ alertToken' = field /\ trusted' = (trusted \/ field)
    /\ UNCHANGED <<issueVars, deviceToken, flushed, formVars, attempt, poster, typings, displaced,
                   unanswered, leftOver>>

\* "Clear local test journal": the whole store, in one commit().
ClearJournal ==
    /\ deviceToken' = NoCred /\ alertToken' = FALSE
    /\ flushed' = [deviceToken |-> NoCred, alertToken |-> FALSE]
    /\ UNCHANGED <<issueVars, formVars, attempt, poster, typings, historyVars>>

\* A new activity fills the field from storage and knows of no attempt under way.
NewActivity(stored) ==
    /\ activity <= MaxRecreations /\ activity' = activity + 1
    /\ field' = stored /\ sending' = FALSE

Recreate ==
    /\ NewActivity(alertToken)
    /\ displaced' = (displaced \/ \E a \in Attempts : Running(a))
    /\ UNCHANGED <<issueVars, storeVars, flushed, attempt, poster, typings, trusted, unanswered,
                   leftOver>>

\* The writes of apply() reach the disk.
Persist ==
    /\ flushed' = [deviceToken |-> deviceToken, alertToken |-> alertToken]
    /\ UNCHANGED <<issueVars, storeVars, formVars, attempt, poster, typings, historyVars>>

\* The process dies: the threads with it, but not the requests they have sent.
Die ==
    /\ NewActivity(flushed.alertToken)
    /\ deviceToken' = flushed.deviceToken /\ alertToken' = flushed.alertToken
    /\ attempt' = [a \in Attempts |->
                       IF Running(a) THEN [attempt[a] EXCEPT !.pc = "over"] ELSE attempt[a]]
    /\ poster' = [p \in Posters |-> NoCred]
    /\ leftOver' = (leftOver \/ (flushed.alertToken /\ ~trusted))
    /\ UNCHANGED <<issueVars, flushed, typings, trusted, displaced, unanswered>>

\* Mutant of RevokeCredential: a revocation is stored for any id.
RevokeUnknown(c) ==
    /\ c \notin revokedD
    /\ revokedD' = revokedD \cup {c}
    /\ UNCHANGED <<issued, requests, storeVars, flushed, formVars, attempt, poster, typings,
                   historyVars>>

\* revokeDeviceCredential.
RevokeCredential(c) ==
    /\ c <= issued /\ c \notin revokedD
    /\ revokedD' = revokedD \cup {c}
    /\ UNCHANGED <<issued, requests, storeVars, flushed, formVars, attempt, poster, typings,
                   historyVars>>

(* --- an alert attempt -------------------------------------------------------------- *)

Set(a, r) == attempt' = [attempt EXCEPT ![a] = r]

\* sendMvpAlert: the field is stored, and taken along. Without field and device credential
\* the alert stays offline.
TapSend(a) ==
    /\ attempt[a].pc = "unused" /\ \A b \in Attempts : b < a => attempt[b].pc # "unused"
    /\ ~sending
    /\ alertToken' = field
    /\ IF field \/ deviceToken # NoCred
       THEN /\ Set(a, [NoAttempt EXCEPT !.pc = "ensure", !.enrolment = field, !.at = activity])
            /\ sending' = TRUE
       ELSE Set(a, [NoAttempt EXCEPT !.pc = "over"]) /\ UNCHANGED sending
    /\ UNCHANGED <<issueVars, deviceToken, flushed, field, activity, poster, typings, historyVars>>

\* A tap refused for want of responders or of the SMS permission has stored the field.
TapRefused ==
    /\ ~sending
    /\ alertToken' = field
    /\ UNCHANGED <<issueVars, deviceToken, flushed, formVars, attempt, poster, typings,
                   historyVars>>

\* The end of the thread's UI work reaches the activity it was started from only.
EndAttempt(a, cleared) ==
    /\ Set(a, [attempt[a] EXCEPT !.pc = "over"])
    /\ sending' = IF attempt[a].at = activity THEN FALSE ELSE sending
    /\ field' = IF attempt[a].at = activity /\ cleared THEN FALSE ELSE field

\* trigger, ensureDeviceToken: the stored credential, or the request for one; or nothing, for
\* want of both or of a usable server URL.
Ensure(a) ==
    /\ attempt[a].pc = "ensure"
    /\ \/ /\ deviceToken # NoCred
          /\ Set(a, [attempt[a] EXCEPT !.pc = "post", !.token = deviceToken, !.enrolment = FALSE])
          /\ UNCHANGED <<requests, sending, field>>
       \/ /\ deviceToken = NoCred /\ attempt[a].enrolment
          /\ Set(a, [attempt[a] EXCEPT !.pc = "enrol"])
          /\ requests' = requests \cup {a}
          /\ UNCHANGED <<sending, field>>
       \/ EndAttempt(a, FALSE) /\ UNCHANGED requests
    /\ UNCHANGED <<issued, revokedD, storeVars, flushed, activity, poster, typings, historyVars>>

\* POST /cas/devices/enroll reaches the server, which issues a credential, whether the handset
\* still waits or not; the answer may be lost. A request may never arrive, or be refused.
Enrol(a) ==
    /\ a \in requests /\ requests' = requests \ {a}
    /\ issued < MaxCredentials /\ issued' = issued + 1
    /\ \/ /\ attempt[a].pc = "enrol"
          /\ Set(a, [attempt[a] EXCEPT !.pc = "enrolled", !.token = issued + 1])
       \/ UNCHANGED attempt
    /\ UNCHANGED <<revokedD, storeVars, flushed, formVars, poster, typings, historyVars>>

\* A timeout, a lost answer or a refusal ends the attempt.
GiveUp(a) ==
    /\ attempt[a].pc = "enrol"
    /\ EndAttempt(a, FALSE)
    /\ UNCHANGED <<issueVars, storeVars, flushed, activity, poster, typings, historyVars>>

\* The credential is stored ...
StoreToken(a) ==
    /\ attempt[a].pc = "enrolled"
    /\ deviceToken' = attempt[a].token
    /\ trusted' = FALSE
    /\ Set(a, [attempt[a] EXCEPT !.pc = "stored"])
    /\ UNCHANGED <<issueVars, alertToken, flushed, formVars, poster, typings, displaced, unanswered,
                   leftOver>>

\* Mutant of KeptInStorage: a provisioned handset keeps the enrolment credential.
StillStored == alertToken

\* The enrolment credential is consumed.
KeptInStorage == FALSE

\* ... and the enrolment credential discarded, by a write of its own.
Discard(a) ==
    /\ attempt[a].pc = "stored"
    /\ alertToken' = KeptInStorage
    /\ Set(a, [attempt[a] EXCEPT !.pc = "post"])
    /\ UNCHANGED <<issueVars, deviceToken, flushed, formVars, poster, typings, historyVars>>

\* requireCasCredential, at the moment the request arrives.
Authorized(c) == c \in 1..issued /\ c \notin revokedD

\* Mutant of TokenAfter: any refusal drops the credential.
DropsOnAnyError(status) == IF status = 200 THEN deviceToken ELSE NoCred

\* 401 drops whatever credential is stored, no other answer does.
TokenAfter(status) == IF status = 401 THEN NoCred ELSE deviceToken

\* The server's answer; 409 stands for every other refusal, 0 for no answer.
Statuses(c) == IF Authorized(c) THEN {200, 409, 0} ELSE {401, 0}

\* The trigger POST reaches the server ...
TriggerArrives(a) ==
    /\ attempt[a].pc = "post"
    /\ \E s \in Statuses(attempt[a].token) :
          Set(a, [attempt[a] EXCEPT !.pc = "answered", !.answer = s])
    /\ UNCHANGED <<issueVars, storeVars, flushed, formVars, poster, typings, historyVars>>

\* Mutant of FieldCleared: the field keeps the consumed enrolment credential.
NeverCleared(enrolled, answered) == FALSE

\* credentialConsumed: the Result of a request without an answer does not carry it.
FieldCleared(enrolled, answered) == enrolled /\ answered

\* ... and is answered, or not.
ReceiveTriggerAnswer(a) ==
    /\ attempt[a].pc = "answered"
    /\ LET s == attempt[a].answer IN
       /\ deviceToken' = TokenAfter(s)
       /\ EndAttempt(a, FieldCleared(attempt[a].enrolment, s # 0))
       /\ unanswered' = (unanswered \/ (attempt[a].enrolment /\ s = 0))
    /\ UNCHANGED <<issueVars, alertToken, flushed, activity, poster, typings, trusted, displaced,
                   leftOver>>

(* --- every other request: it never enrols --------------------------------------------- *)

StartPost(p) ==
    /\ poster[p] = NoCred /\ deviceToken # NoCred
    /\ poster' = [poster EXCEPT ![p] = deviceToken]
    /\ UNCHANGED <<issueVars, storeVars, flushed, formVars, attempt, typings, historyVars>>

EndPost(p) ==
    /\ poster[p] # NoCred
    /\ \E s \in Statuses(poster[p]) : deviceToken' = TokenAfter(s)
    /\ poster' = [poster EXCEPT ![p] = NoCred]
    /\ UNCHANGED <<issueVars, alertToken, flushed, formVars, attempt, typings, historyVars>>

CredNext ==
    \/ TypeIn \/ SaveField \/ ClearJournal \/ TapRefused
    \/ Recreate \/ Persist \/ Die
    \/ \E c \in Credentials : RevokeCredential(c)
    \/ \E a \in Attempts :
          \/ TapSend(a) \/ Ensure(a) \/ Enrol(a) \/ GiveUp(a) \/ StoreToken(a) \/ Discard(a)
          \/ TriggerArrives(a) \/ ReceiveTriggerAnswer(a)
    \/ \E p \in Posters : StartPost(p) \/ EndPost(p)

CredSpec == CredInit /\ [][CredNext]_credVars

(* --- properties --------------------------------------------------------------------------- *)

CredTypeOK ==
    /\ issued \in 0..MaxCredentials /\ revokedD \subseteq 1..issued /\ requests \subseteq Attempts
    /\ deviceToken \in 0..issued /\ flushed.deviceToken \in 0..issued
    /\ \A p \in Posters : poster[p] \in 0..issued

\* What the code does not keep an enrolment credential from outliving its use through.
Excused == displaced \/ unanswered \/ leftOver

(* A revoked handset cannot let itself back in: it asks for a credential only    *)
(* between somebody's typing the enrolment credential in and the end of the next *)
(* enrolment, which discards it (AlertSender.ensureDeviceToken), and the server  *)
(* issues one only then, or to a request the handset has given up on, which      *)
(* nobody receives. Left out: the trigger POST after that enrolment had no       *)
(* answer, whose Result says nothing of the enrolment, so that the field keeps   *)
(* the enrolment credential; an activity recreated while an attempt runs, whose  *)
(* field is filled from the storage the attempt has not cleared yet; and a       *)
(* process that died before the discarding had reached the disk.                    *)
EnrolmentIsTrusted ==
    [][/\ ~(requests' \subseteq requests) => trusted \/ Excused
       /\ issued' # issued =>
             trusted \/ Excused \/ \E a \in requests \ requests' : ~Running(a)]_credVars

(* A credential the server would accept is lost only to the late 401 of a       *)
(* request made with an earlier, revoked one, to the operator who clears the    *)
(* store, or to a death before it has reached the disk; no other answer - a     *)
(* refused channel, an error, no answer - costs the handset its credential.     *)
ValidLostOnlyToOldAnswer ==
    [][Authorized(deviceToken) /\ deviceToken' = NoCred =>
          \/ \E p \in Posters : poster[p] \in revokedD \ {deviceToken} /\ poster'[p] = NoCred
          \/ \E a \in Attempts :
                /\ attempt[a].answer = 401 /\ attempt[a].token # deviceToken
                /\ attempt'[a].pc = "over"
          \/ ClearJournal
          \/ Die /\ flushed.deviceToken # deviceToken]_credVars

\* The handset keeps the credential it should have and gets no other.
CredentialIsKept == []CredTypeOK /\ EnrolmentIsTrusted /\ ValidLostOnlyToOldAnswer
=============================================================================
