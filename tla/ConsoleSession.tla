---------------------------- MODULE ConsoleSession ----------------------------
(* The console's session in one browser tab (hooks/use-field-test.tsx,           *)
(* device-credential-storage.ts, device-enrollment-dialog.tsx, App.tsx): the      *)
(* stored credential, the generation sign-out bumps, the requests that wait for   *)
(* their answers, and what the shell lets the operator see. A credential is its   *)
(* number, and a state read is known by the credential it was read with.          *)
EXTENDS Integers

CONSTANTS
    Requests,          \* bound: requests under way at once
    MaxEnrolments, \* bound: credentials enrolled
    MaxGeneration   \* bound: sign-outs, plus 1

ASSUME ConsoleAssumption == MaxEnrolments \in Nat \ {0} /\ MaxGeneration \in Nat

ConsoleCredentials == 1..MaxEnrolments
NoToken == 0

VARIABLES
    token,                       \* the stored device token
    enrolments, valid, enrolledIn,   \* the server's credentials; the generation each is from
    gen,                         \* casAuthGeneration
    signedOut, authLock, stateIssue, offlineDemo,
    data,                        \* credential the incident data shown was read with
    imported,                    \* credential the observation in fieldRun was imported with
    req,                         \* requests
    unlocked,                     \* history: the token was dropped by a request that locks nothing,
                                 \* or a state was applied after it was dropped
    crossed                      \* history: an import was under way at a sign-out

serverVars == <<enrolments, valid, enrolledIn>>
shellVars == <<signedOut, authLock, stateIssue, offlineDemo>>
consoleVars == <<token, serverVars, gen, shellVars, data, imported, req, unlocked, crossed>>

NoReq == [kind |-> "none", pc |-> "idle", gen |-> 0, token |-> NoToken, answer |-> "none"]

\* A browser kept signed in starts with a credential.
ConsoleInit ==
    /\ token \in {NoToken, 1} /\ enrolments = 1 /\ valid = {1}
    /\ enrolledIn = [c \in ConsoleCredentials |-> 1]
    /\ gen = 1
    /\ signedOut = FALSE /\ authLock = FALSE /\ stateIssue = FALSE /\ offlineDemo = FALSE
    /\ data = NoToken /\ imported = NoToken
    /\ req = [s \in Requests |-> NoReq]
    /\ unlocked = FALSE /\ crossed = FALSE

\* App.tsx: what replaces the shell, in its order.
ShellIsUp == ~authLock /\ ~stateIssue /\ ~signedOut
DialogOpen == \E s \in Requests : req[s].pc = "dialog"

(* --- requests start ----------------------------------------------------------------- *)

\* casAuthedFetch: with the stored token, or after the dialog, which waiting requests share.
Request(kind, g, t) ==
    [kind |-> kind, pc |-> IF t = NoToken THEN "dialog" ELSE "sent", gen |-> g, token |-> t,
     answer |-> "none"]

Begin(s, kind) ==
    /\ req[s].pc = "idle"
    /\ req' = [req EXCEPT ![s] = Request(kind, gen, token)]

\* The provider's first effect.
FirstLoad(s) ==
    /\ data = NoToken /\ ~offlineDemo /\ ShellIsUp /\ gen = 1
    /\ \A r \in Requests : req[r].kind # "load"
    /\ Begin(s, "load")
    /\ UNCHANGED <<token, serverVars, gen, shellVars, data, imported, unlocked, crossed>>

\* retryStateLoad and unlockConsole.
Retry(s) ==
    /\ ~DialogOpen
    /\ authLock \/ stateIssue \/ offlineDemo
    /\ Begin(s, "retry")
    /\ UNCHANGED <<token, serverVars, gen, shellVars, data, imported, unlocked, crossed>>

\* An action of the shell: one that reloads after it, a report import, a page's own request.
Act(s) ==
    /\ ShellIsUp /\ ~DialogOpen
    /\ \E kind \in {"action", "import", "page"} : Begin(s, kind)
    /\ UNCHANGED <<token, serverVars, gen, shellVars, data, imported, unlocked, crossed>>

\* Mutant of AtSignOut: the state stays behind the backdrop.
KeptBehind(read) == read

\* The initial state replaces what was read.
AtSignOut(read) == NoToken

SignOut(s) ==
    /\ ShellIsUp /\ ~DialogOpen /\ gen < MaxGeneration
    /\ req[s].pc = "idle"
    /\ token' = NoToken /\ gen' = gen + 1
    /\ data' = AtSignOut(data) /\ imported' = AtSignOut(imported)
    /\ crossed' = (crossed \/ \E r \in Requests : req[r].kind = "import")
    /\ signedOut' = TRUE /\ authLock' = FALSE /\ stateIssue' = FALSE
    /\ req' = [req EXCEPT ![s] = Request("retry", gen + 1, NoToken)]
    /\ UNCHANGED <<serverVars, offlineDemo, unlocked>>

(* --- failures ------------------------------------------------------------------------- *)

\* Mutant of LocksConsole: an action shows a credential failure to its caller only.
ReloadsLock(r) == r.kind \in {"retry", "reload"} \/ (r.kind = "load" /\ r.gen = gen)

\* applyLoadFailure, applyActionFailure and lockOnCredentialFailure lock the console; the
\* first load only while nobody signed out, a page's request never.
LocksConsole(r) ==
    \/ r.kind \in {"retry", "reload", "action", "import"}
    \/ r.kind = "load" /\ r.gen = gen

CredentialFailure(failed) ==
    /\ authLock' = (authLock \/ \E s \in failed : LocksConsole(req[s]))
    /\ offlineDemo' = (offlineDemo /\ \A s \in failed : ~LocksConsole(req[s]))

Finish(failed) == req' = [s \in Requests |-> IF s \in failed THEN NoReq ELSE req[s]]

(* --- the enrolment dialog --------------------------------------------------------------- *)

Waiting == {s \in Requests : req[s].pc = "dialog"}

\* The exchange succeeds; a rejected one leaves the dialog as it is.
Enroll ==
    /\ DialogOpen /\ enrolments < MaxEnrolments
    /\ enrolments' = enrolments + 1 /\ valid' = valid \cup {enrolments + 1}
    /\ enrolledIn' = [enrolledIn EXCEPT ![enrolments + 1] = gen]
    /\ token' = enrolments + 1
    /\ req' = [s \in Requests |-> IF s \in Waiting
                               THEN [req[s] EXCEPT !.pc = "sent", !.token = enrolments + 1]
                               ELSE req[s]]
    /\ UNCHANGED <<gen, shellVars, data, imported, unlocked, crossed>>

Cancel ==
    /\ DialogOpen
    /\ CredentialFailure(Waiting) /\ Finish(Waiting)
    /\ UNCHANGED <<token, serverVars, gen, signedOut, stateIssue, data, imported, unlocked,
                   crossed>>

(* --- the server ----------------------------------------------------------------------------- *)

\* Another operator revokes a credential.
RevokeConsole(c) ==
    /\ c \in valid /\ valid' = valid \ {c}
    /\ UNCHANGED <<token, enrolments, enrolledIn, gen, shellVars, data, imported, req,
                   unlocked, crossed>>

\* "drift" stands for an answer the console's contract mirror cannot parse.
Answers(t) == IF t \in valid THEN {"ok", "drift", "failed"} ELSE {"unauthorized", "failed"}

Serve(s) ==
    /\ req[s].pc = "sent"
    /\ \E a \in Answers(req[s].token) :
          req' = [req EXCEPT ![s].pc = "answered", ![s].answer = a]
    /\ UNCHANGED <<token, serverVars, gen, shellVars, data, imported, unlocked, crossed>>

(* --- answers ------------------------ *)

Answered(s, a) == req[s].pc = "answered" /\ req[s].answer = a
Loads(r) == r.kind \in {"load", "retry", "reload"}

\* Mutant of Applies: an answer is applied whenever it comes.
AnyGeneration(r) == TRUE

\* The generation is compared before a state is applied.
Applies(r) == r.gen = gen

\* The state is shown and the console comes back; the first load does not end a sign-out.
LoadOk(s) ==
    /\ Answered(s, "ok") /\ Loads(req[s])
    /\ IF Applies(req[s])
       THEN /\ data' = req[s].token
            /\ signedOut' = IF req[s].kind = "load" THEN signedOut ELSE FALSE
            /\ authLock' = FALSE /\ stateIssue' = FALSE /\ offlineDemo' = FALSE
            /\ unlocked' = (unlocked \/ token = NoToken)
       ELSE UNCHANGED <<data, shellVars, unlocked>>
    /\ Finish({s})
    /\ UNCHANGED <<token, serverVars, gen, imported, crossed>>

\* An action's answer starts the reload, with the generation and the token of this moment.
ActionOk(s) ==
    /\ Answered(s, "ok") /\ req[s].kind = "action"
    /\ req' = [req EXCEPT ![s] = Request("reload", gen, token)]
    /\ UNCHANGED <<token, serverVars, gen, shellVars, data, imported, unlocked, crossed>>

\* An import compares no generation.
ImportOk(s) ==
    /\ Answered(s, "ok") /\ req[s].kind = "import"
    /\ imported' = req[s].token
    /\ Finish({s})
    /\ UNCHANGED <<token, serverVars, gen, shellVars, data, unlocked, crossed>>

PageDone(s) ==
    /\ req[s].pc = "answered" /\ req[s].answer # "unauthorized" /\ req[s].kind = "page"
    /\ Finish({s})
    /\ UNCHANGED <<token, serverVars, gen, shellVars, data, imported, unlocked, crossed>>

\* 401: casAuthedFetch drops whatever token is stored, and its caller may lock the console.
Unauthorized(s) ==
    /\ Answered(s, "unauthorized")
    /\ token' = NoToken
    /\ CredentialFailure({s}) /\ Finish({s})
    /\ unlocked' = (unlocked \/ req[s].kind = "page" \/ (req[s].kind = "load" /\ req[s].gen # gen))
    /\ UNCHANGED <<serverVars, gen, signedOut, stateIssue, data, imported, crossed>>

\* Only the first load compares generations here.
FailureCounts(r) == r.kind # "load" \/ r.gen = gen

\* An unreadable state, or an action's own answer (the incident detail).
Drifted(s) ==
    /\ Answered(s, "drift") /\ req[s].kind # "page"
    /\ stateIssue' = (stateIssue \/ (req[s].kind # "import" /\ FailureCounts(req[s])))
    /\ Finish({s})
    /\ UNCHANGED <<token, serverVars, gen, signedOut, authLock, offlineDemo, data, imported,
                   unlocked, crossed>>

\* A load that cannot reach the server falls back to the demo seed, an action to an alert.
Unreachable(s) ==
    /\ Answered(s, "failed") /\ req[s].kind # "page"
    /\ IF req[s].kind \in {"load", "retry"} /\ FailureCounts(req[s])
       THEN /\ authLock' = FALSE /\ offlineDemo' = TRUE
            /\ data' = NoToken /\ imported' = NoToken
       ELSE UNCHANGED <<authLock, offlineDemo, data, imported>>
    /\ Finish({s})
    /\ UNCHANGED <<token, serverVars, gen, signedOut, stateIssue, unlocked, crossed>>

ConsoleNext ==
    \/ \E s \in Requests :
          \/ FirstLoad(s) \/ Retry(s) \/ Act(s) \/ SignOut(s) \/ Serve(s)
          \/ LoadOk(s) \/ ActionOk(s) \/ ImportOk(s) \/ PageDone(s)
          \/ Unauthorized(s) \/ Drifted(s) \/ Unreachable(s)
    \/ Enroll \/ Cancel
    \/ \E c \in ConsoleCredentials : RevokeConsole(c)

ConsoleSpec == ConsoleInit /\ [][ConsoleNext]_consoleVars

(* --- properties ------------------------ *)

(* After a sign-out the console shows incident data only when they were read with *)
(* a credential enrolled since, whatever answers of the session before come in     *)
(* late (casAuthGeneration, reload in use-field-test.tsx).                          *)
FreshCredentialUnseals == ShellIsUp /\ data # NoToken => enrolledIn[data] = gen

(* A console that lost its credential does not go on showing incident data: it is   *)
(* locked (lockOnCredentialFailure). Left out: the refused request was a page's own  *)
(* or a first load of the session before; and a state read before the refusal and    *)
(* answered after it, whose generation is the same, undoes the lock.                 *)
LossLocks == token = NoToken /\ ShellIsUp /\ data # NoToken => unlocked

(* A session shows no observation that was imported in the one before; left out:   *)
(* the import was under way at the sign-out, its answer is applied unlooked at       *)
(* (importGate0AReport, and the comment at casAuthGeneration).                      *)
ImportStaysInSession == imported # NoToken => enrolledIn[imported] = gen \/ crossed

\* The console shows the data of its own session only, while that lasts.
SessionIsSealed == FreshCredentialUnseals /\ LossLocks /\ ImportStaysInSession
=============================================================================
