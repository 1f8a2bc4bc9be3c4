------------------------------- MODULE Readiness -------------------------------
(* The readiness records of the console (hooks/use-field-test.tsx, pages/gates.tsx, *)
(* pages/setup.tsx) and their routes (routes/cas.ts): the catalogue of setup items   *)
(* and gates that the first page seeds, the edits every page sends and reloads       *)
(* after, and the field run that decides GO, which one page holds. An entry of the   *)
(* catalogue is one Boolean, complete or verified; what a page has loaded is known   *)
(* by the number of catalogue states before it.                                      *)
EXTENDS Integers, FiniteSets

CONSTANTS
    Entries,     \* the catalogue's setup items and gates
    Gates,       \* the gates a field run observes
    ImportGate,  \* proxy-launch, which a Gate 0A report is attached to
    Pages,       \* the consoles that are open
    Tester,      \* the page whose field run is followed
    MaxChanges,  \* bound: edits sent by all the pages
    MaxClicks    \* bound: observations recorded and decisions made

ASSUME ReadinessAssumption ==
    /\ IsFiniteSet(Gates) /\ ImportGate \in Gates
    /\ Tester \in Pages /\ MaxChanges \in Nat

NoRows == [e \in {} |-> FALSE]
Changes == 1..MaxChanges
Demo == -1    \* a page that has loaded nothing: the console's own sample records

VARIABLES
    rows,      \* cas_setup_readiness and cas_gate_evidence; NoRows before they are seeded
    version,   \* number of catalogue states before this one
    view,      \* version each page shows, or Demo
    first,     \* each page's initial load: its step, and the version it has read
    change,    \* the edits: page, entry, value, step, version that served or read it
    newest,    \* version of each page's newest edit that was answered
    lapsed,    \* history: a reload of the page failed, or an older state was applied after a newer
    obs,       \* fieldRun.observations
    decision,  \* fieldRun.decision
    goOffered, \* the GO button was enabled when the page was last drawn
    import,    \* the import of a report
    hasty,     \* history: the page had not been drawn since its state last changed when GO was called
    clicks

catalogueVars == <<rows, version>>
loadVars == <<view, first, change, newest, lapsed>>
runVars == <<obs, decision, goOffered, import, hasty, clicks>>
readinessVars == <<catalogueVars, loadVars, runVars>>

NoChange == [page |-> Tester, entry |-> "none", value |-> FALSE, pc |-> "idle", at |-> 0]
Over == [NoChange EXCEPT !.pc = "done"]
NoObservations == [g \in Gates |-> "none"]

ReadinessInit ==
    /\ rows = NoRows /\ version = 0
    /\ view = [p \in Pages |-> Demo] /\ first = [p \in Pages |-> [pc |-> "reads", at |-> 0]]
    /\ change = [k \in Changes |-> NoChange]
    /\ newest = [p \in Pages |-> Demo] /\ lapsed = [p \in Pages |-> FALSE]
    /\ obs = NoObservations /\ decision = "no-go" /\ goOffered = FALSE
    /\ import = "idle" /\ hasty = FALSE /\ clicks = 0

\* pages/gates.tsx: as many checks observed as there are gates, and every one of them a pass.
GoEnabled(seen, shown) ==
    LET observed == {g \in Gates : seen[g] # "none"}
    IN  /\ Cardinality(observed) = IF shown = 0 THEN 0 ELSE Cardinality(Gates)
        /\ \A g \in observed : seen[g] = "pass"

(* --- the first load, which seeds an empty catalogue ------------------------------------ *)

\* GET /cas/state; only a page that reads nothing asks for the seed.
FirstRead(p) ==
    /\ first[p].pc \in {"reads", "rereads"}
    /\ first' = [first EXCEPT ![p] =
                    [pc |-> IF version = 0 /\ first[p].pc = "reads" THEN "asks" ELSE "answered",
                     at |-> version]]
    /\ UNCHANGED <<catalogueVars, view, change, newest, lapsed, runVars>>

\* POST /cas/bootstrap looks for a row before its transaction.
SeedLooks(p) ==
    /\ first[p].pc = "asks"
    /\ first' = [first EXCEPT ![p].pc = IF rows = NoRows THEN "inserts" ELSE "rereads"]
    /\ UNCHANGED <<catalogueVars, view, change, newest, lapsed, runVars>>

\* Mutant of Seeded: an upsert.
Upserted == {rows, [e \in Entries |-> FALSE]}

\* The inserts: a row that is already there fails the whole transaction, as anything else may.
Seeded == IF rows = NoRows THEN {NoRows, [e \in Entries |-> FALSE]} ELSE {rows}
SeedInserts(p) ==
    /\ first[p].pc = "inserts"
    /\ rows' \in Seeded
    /\ version' = IF rows' = rows THEN version ELSE version + 1
    /\ first' = [first EXCEPT ![p].pc = "rereads"]    \* whatever the answer says
    /\ UNCHANGED <<view, change, newest, lapsed, runVars>>

\* setState({ ...remote, fieldRun: initialState.fieldRun }), or the demo state when the load failed.
NewRun(p) ==
    IF p = Tester THEN obs' = NoObservations /\ decision' = "no-go" ELSE UNCHANGED <<obs, decision>>
FirstAnswered(p) ==
    /\ first[p].pc \in {"reads", "asks", "rereads", "answered"}
    /\ first' = [first EXCEPT ![p] = [pc |-> "done", at |-> 0]]
    /\ \/ first[p].pc = "answered" /\ view' = [view EXCEPT ![p] = first[p].at]
       \/ view' = [view EXCEPT ![p] = Demo]
    /\ lapsed' = [lapsed EXCEPT ![p] = @ \/ view'[p] < view[p]]
    /\ NewRun(p)
    /\ UNCHANGED <<catalogueVars, change, newest, goOffered, import, hasty, clicks>>

(* --- edits: toggleSetupItem, updateGateStatus --------------------------------------------- *)

\* The value is the opposite of what was last drawn, or the one selected: either may be sent.
SendChange(p, k, e, v) ==
    /\ change[k].pc = "idle" /\ \A j \in 1..(k - 1) : change[j].pc # "idle"
    /\ view[p] # 0    \* an empty list has nothing to click
    /\ change' = [change EXCEPT ![k] =
                     [page |-> p, entry |-> e, value |-> v, pc |-> "sent", at |-> 0]]
    /\ UNCHANGED <<catalogueVars, view, first, newest, lapsed, runVars>>

\* PATCH: 404 when the row is not there.
ServeChange(k) ==
    /\ change[k].pc = "sent"
    /\ IF rows = NoRows THEN UNCHANGED catalogueVars
       ELSE rows' = [rows EXCEPT ![change[k].entry] = change[k].value] /\ version' = version + 1
    /\ change' = [change EXCEPT ![k].pc = "served", ![k].at = version']
    /\ UNCHANGED <<view, first, newest, lapsed, runVars>>

\* Mutant of AfterAnswer: the edit is not followed by a reload.
NoReload == "done"

\* .then(reload): whatever the status of the answer. A request that throws is not followed.
AfterAnswer == "reloads"
ChangeAnswered(k) ==
    /\ change[k].pc = "served"
    /\ change' = [change EXCEPT ![k].pc = AfterAnswer]
    /\ newest' = [newest EXCEPT ![change[k].page] = IF @ < change[k].at THEN change[k].at ELSE @]
    /\ UNCHANGED <<catalogueVars, view, first, lapsed, runVars>>

ChangeLost(k) ==
    /\ change[k].pc \in {"sent", "served"}
    /\ change' = [change EXCEPT ![k] = Over]
    /\ UNCHANGED <<catalogueVars, view, first, newest, lapsed, runVars>>

ReloadReads(k) ==
    /\ change[k].pc = "reloads"
    /\ change' = [change EXCEPT ![k].pc = "read", ![k].at = version]
    /\ UNCHANGED <<catalogueVars, view, first, newest, lapsed, runVars>>

\* setState((current) => ({ ...remote, fieldRun: current.fieldRun })): the last answer stays.
ReloadAnswered(k) ==
    LET p == change[k].page IN
    /\ change[k].pc = "read"
    /\ view' = [view EXCEPT ![p] = change[k].at]
    /\ lapsed' = [lapsed EXCEPT ![p] = @ \/ view'[p] < view[p]]
    /\ change' = [change EXCEPT ![k] = Over]
    /\ UNCHANGED <<catalogueVars, first, newest, runVars>>

ReloadFails(k) ==
    /\ change[k].pc \in {"reloads", "read"}
    /\ change' = [change EXCEPT ![k] = Over]
    /\ lapsed' = [lapsed EXCEPT ![change[k].page] = TRUE]
    /\ UNCHANGED <<catalogueVars, view, first, newest, runVars>>

(* --- the field run -------------------------------------------------------------------------- *)

\* A click is drawn before the next one; an answer is not.
Drawn == goOffered' = GoEnabled(obs', view[Tester])
Render ==
    /\ goOffered # GoEnabled(obs, view[Tester])
    /\ goOffered' = GoEnabled(obs, view[Tester])
    /\ UNCHANGED <<catalogueVars, loadVars, obs, decision, import, hasty, clicks>>

\* recordObservation, from the card of a gate.
RecordObservation(g, result) ==
    /\ clicks < MaxClicks /\ view[Tester] # 0
    /\ obs' = [obs EXCEPT ![g] = result] /\ decision' = "pending"
    /\ Drawn
    /\ clicks' = clicks + 1
    /\ UNCHANGED <<catalogueVars, loadVars, import, hasty>>

\* finalizeDecision: the button is the one last drawn.
Decide(call) ==
    /\ clicks < MaxClicks
    /\ call = "go" => goOffered
    /\ hasty' = (call = "go" /\ ~GoEnabled(obs, view[Tester]))
    /\ decision' = call
    /\ UNCHANGED obs /\ Drawn
    /\ clicks' = clicks + 1
    /\ UNCHANGED <<catalogueVars, loadVars, import>>

ImportReport ==
    /\ import = "idle"
    /\ import' = "sent"
    /\ UNCHANGED <<catalogueVars, loadVars, obs, decision, goOffered, hasty, clicks>>

\* Mutant of Reopened: the decision stands.
KeepsCall == decision

\* POST /cas/gate0a/import answers with an inconclusive observation, which reopens the decision.
Reopened == "pending"
ImportAnswered ==
    /\ import = "sent"
    /\ import' = "done"
    /\ obs' = [obs EXCEPT ![ImportGate] = "inconclusive"] /\ decision' = Reopened
    /\ UNCHANGED <<catalogueVars, loadVars, goOffered, hasty, clicks>>

\* The report is refused or blocked, or the request fails.
ImportRefused ==
    /\ import = "sent"
    /\ import' = "done"
    /\ UNCHANGED <<catalogueVars, loadVars, obs, decision, goOffered, hasty, clicks>>

LoadStep == \E p \in Pages : FirstRead(p) \/ SeedLooks(p) \/ SeedInserts(p) \/ FirstAnswered(p)
EditStep ==
    \E k \in Changes :
        \/ \E p \in Pages, e \in Entries, v \in BOOLEAN : SendChange(p, k, e, v)
        \/ ServeChange(k) \/ ChangeAnswered(k) \/ ChangeLost(k)
        \/ ReloadReads(k) \/ ReloadAnswered(k) \/ ReloadFails(k)
RunStep ==
    \/ Render \/ ImportReport \/ ImportAnswered \/ ImportRefused
    \/ \E g \in Gates, result \in {"pass", "fail"} : RecordObservation(g, result)
    \/ \E call \in {"go", "no-go"} : Decide(call)

ReadinessNext == LoadStep \/ EditStep \/ RunStep

ReadinessSpec == ReadinessInit /\ [][ReadinessNext]_readinessVars

(* --- properties ------------------------------------------------------------------------------ *)

\* A run that stands at GO has a pass for every gate (gates.tsx: "GO becomes possible only when
\* all five checks have timed, on-phone results and every one is a pass"): a report imported, an
\* observation taken back or a first load that answers late reopens the decision. Excepts a GO
\* called on a page that an answer had changed and that was not drawn since, and one called while
\* the page listed no gates at all, because the seed had failed and nobody looked at its answer:
\* none of none is recorded, and the button is enabled.
GoIsEarned ==
    decision = "go" => \/ \A g \in Gates : obs[g] = "pass"
                       \/ hasty
                       \/ obs = NoObservations

\* The operator's own marks stand: a row of a seeded catalogue changes only as an edit that
\* is being served says, although pages that found the catalogue empty are still seeding it
\* (cas.ts: bootstrap seeds once).
CuratedStands ==
    [][rows # NoRows =>
         \A e \in Entries : rows'[e] # rows[e] =>
             \E k \in Changes : /\ change[k].pc = "sent" /\ change[k].entry = e
                                /\ change[k].value = rows'[e]]_rows

\* A page that has nothing under way shows its own newest answered edit, because every edit is
\* followed by a read of its own. Excepts a page whose reload failed, or on which an answer read
\* earlier came later than another, which nothing prevents.
OwnChangeShown ==
    \A p \in Pages :
        (/\ first[p].pc = "done"
         /\ \A k \in Changes : change[k].page = p => change[k].pc \in {"idle", "done"})
        => view[p] >= newest[p] \/ lapsed[p]

\* The readiness records are the operator's own: marks stand, edits show, GO is earned.
ReadinessIsEarned == []GoIsEarned /\ []OwnChangeShown /\ CuratedStands
=============================================================================
