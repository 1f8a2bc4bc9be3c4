---------------------------- MODULE IncidentBrowser ----------------------------
(* Reviewing and deleting evidence: the past-alert browser and the current alert's *)
(* panel of pages/incidents.tsx, the clip row of components/evidence-viewer.tsx,   *)
(* deleteEvidence and loadIncidentDetail of hooks/use-field-test.tsx, and the      *)
(* detail and delete routes of routes/cas-evidence.ts.                             *)
(*                                                                                 *)
(* One console page.  Alerts are numbered as they were raised; a clip is <<alert,  *)
(* n>>.  A render commits before the effects it schedules run, so `effectDue`      *)
(* separates the two; React runs them before it renders anything else.  The answer *)
(* of a request arrives whenever it does.                                          *)
EXTENDS Integers, FiniteSets

CONSTANTS
    MaxAlerts,       \* bound: alerts raised
    ClipsPerAlert,
    MaxLoads,        \* bound: detail requests of one page
    MaxDeletes       \* bound: deletions the operator confirms

ASSUME BrowserAssumption == MaxAlerts \in Nat \ {0} /\ ClipsPerAlert \in Nat

VARIABLES
    raised, stored, notes,   \* server: alerts, clips with their bytes, EVIDENCE_DELETED entries
    latest, panel,           \* the page's state load: the latest alert and its clips
    browseId, effectDue, busy, problem, detail,
    loads, issued, concluded,   \* detail requests in flight, and how many there were
    deleting, deletes,
    heard                    \* per clip, the number of the refetch its deletion led to

browserVars == <<raised, stored, notes, latest, panel, browseId, effectDue, busy, problem,
                 detail, loads, issued, concluded, deleting, deletes, heard>>

Clips == (1..MaxAlerts) \X (1..ClipsPerAlert)
ClipsOf(alert) == {c \in stored : c[1] = alert}
NotesOf(alert) == {c \in Clips : c[1] = alert /\ notes[c] > 0}
NoDetail == [load |-> 0]
NotRead == {<<0, 0>>}
Target == IF browseId # 0 THEN browseId ELSE latest
Shown == detail # NoDetail /\ ~busy /\ detail.alert = Target
Panels == {"current", "browse"}

BrowserInit ==
    /\ raised = 1 /\ stored = Clips /\ notes = [c \in Clips |-> 0]
    /\ latest = 1 /\ panel = ClipsOf(1)
    /\ browseId = 0 /\ effectDue = TRUE /\ busy = FALSE /\ problem = FALSE
    /\ detail = NoDetail /\ loads = {} /\ issued = 0 /\ concluded = 0
    /\ deleting = {} /\ deletes = 0 /\ heard = [c \in Clips |-> 0]

evidenceVars == <<raised, stored, notes>>
viewVars == <<effectDue, busy, problem, detail, loads, issued, concluded>>

Raise ==
    /\ raised < MaxAlerts
    /\ raised' = raised + 1
    /\ UNCHANGED <<stored, notes, latest, panel, browseId, viewVars, deleting, deletes, heard>>

\* A load of /cas/state: the latest alert and its clips; the default selection follows.
\* Every new state brings a new loadIncidentDetail, on which the effect depends too.
Reloads ==
    /\ ~effectDue
    /\ latest' = raised /\ panel' = ClipsOf(raised)
    /\ effectDue' = TRUE

Select(alert) ==
    /\ alert \in 1..latest /\ alert # browseId /\ ~effectDue
    /\ browseId' = alert
    /\ effectDue' = (alert # Target)
    /\ UNCHANGED <<evidenceVars, latest, panel, busy, problem, detail, loads, issued,
                   concluded, deleting, deletes, heard>>

Load(kind, alert) == [id |-> issued + 1, kind |-> kind, alert |-> alert, cancelled |-> FALSE,
                      clips |-> NotRead, notes |-> NotRead]
\* The rows of the browser go with the detail; their deletions, without a row, go on.
Unmounted == {IF d.panel = "browse" THEN [d EXCEPT !.panel = "none"] ELSE d : d \in deleting}
Cancelled(l) == IF l.kind = "effect" THEN [l EXCEPT !.cancelled = TRUE] ELSE l

\* useEffect on the selection and loadIncidentDetail: its load before is cancelled, what
\* is shown goes, and a new load starts.
RunEffect ==
    /\ effectDue /\ issued < MaxLoads
    /\ effectDue' = FALSE /\ busy' = TRUE /\ problem' = FALSE /\ detail' = NoDetail
    /\ loads' = {Cancelled(l) : l \in loads} \cup {Load("effect", Target)}
    /\ issued' = issued + 1
    /\ deleting' = Unmounted
    /\ UNCHANGED <<evidenceVars, latest, panel, browseId, concluded, deletes, heard>>

\* GET /cas/incidents/:id/evidence: clips and journal are two queries, in either order.
Read(l) ==
    /\ \/ /\ l.clips = NotRead
          /\ loads' = (loads \ {l}) \cup {[l EXCEPT !.clips = ClipsOf(l.alert)]}
       \/ /\ l.notes = NotRead
          /\ loads' = (loads \ {l}) \cup {[l EXCEPT !.notes = NotesOf(l.alert)]}
    /\ UNCHANGED <<evidenceVars, latest, panel, browseId, effectDue, busy, problem, detail,
                   issued, concluded, deleting, deletes, heard>>

\* Mutant of MayApply: handleEvidenceDeleted applies its refetch whatever is selected by then.
AnySelection(l) == ~l.cancelled
\* The effect's own flag, or browseTargetRef in the refetch after a deletion.
MayApply(l) == IF l.kind = "effect" THEN ~l.cancelled ELSE l.alert = Target

Concludes(l) ==
    /\ loads' = loads \ {l}
    /\ concluded' = IF l.id > concluded THEN l.id ELSE concluded
    /\ busy' = (busy /\ ~(l.kind = "effect" /\ ~l.cancelled))
    /\ UNCHANGED <<evidenceVars, latest, panel, browseId, effectDue, issued, deletes, heard>>

LoadAnswered(l) ==
    /\ NotRead \notin {l.clips, l.notes}
    /\ detail' = IF MayApply(l)
                 THEN [load |-> l.id, alert |-> l.alert, clips |-> l.clips, notes |-> l.notes,
                       late |-> l.id < concluded]
                 ELSE detail
    /\ Concludes(l) /\ UNCHANGED <<problem, deleting>>

\* Mutant of AfterFailure: the list stays as it was when the refetch after a deletion fails.
KeepsDetail(l) == detail
AfterFailure(l) == IF l.kind = "refetch" /\ MayApply(l) THEN NoDetail ELSE detail
LoadFails(l) ==
    /\ detail' = AfterFailure(l)
    /\ problem' = (problem \/ MayApply(l))
    /\ deleting' = IF detail' = NoDetail THEN Unmounted ELSE deleting
    /\ Concludes(l)

\* confirmDelete of a row, in either panel; each row has a busy flag of its own, for as long
\* as it is mounted.
ConfirmDelete(p, c) ==
    /\ c \in (IF p = "current" THEN panel ELSE IF Shown THEN detail.clips ELSE {})
    /\ \A d \in deleting : <<d.panel, d.clip>> # <<p, c>>
    /\ deletes < MaxDeletes
    /\ deletes' = deletes + 1
    /\ deleting' = deleting \cup {[id |-> deletes', panel |-> p, clip |-> c, at |-> "sent"]}
    /\ UNCHANGED <<evidenceVars, latest, panel, browseId, viewVars, heard>>

\* Mutant of Found: the row is not looked for before its deletion is journaled.
AlwaysFound(c) == TRUE
Found(c) == c \in stored
\* DELETE /cas/evidence/:id under the row's lock; a second one is a 404, shown in the row.
Commit(d) ==
    /\ d.at = "sent"
    /\ IF Found(d.clip)
       THEN /\ stored' = stored \ {d.clip}
            /\ notes' = [notes EXCEPT ![d.clip] = @ + 1]
            /\ deleting' = (deleting \ {d}) \cup {[d EXCEPT !.at = "deleted"]}
       ELSE /\ deleting' = deleting \ {d}
            /\ UNCHANGED <<stored, notes>>
    /\ UNCHANGED <<raised, latest, panel, browseId, viewVars, deletes, heard>>

\* The request or its answer is lost, or the reload after it fails: an error in the row, if
\* it is still there.
Lose(d) ==
    /\ deleting' = deleting \ {d}
    /\ UNCHANGED <<evidenceVars, latest, panel, browseId, viewVars, deletes, heard>>

\* The state is reloaded, then onDeleted refetches the alert the clip belonged to.
AfterDelete(d) ==
    /\ d.at = "deleted" /\ issued < MaxLoads
    /\ Reloads
    /\ deleting' = deleting \ {d}
    /\ loads' = loads \cup {Load("refetch", d.clip[1])}
    /\ issued' = issued + 1
    /\ heard' = [heard EXCEPT ![d.clip] = issued + 1]
    /\ UNCHANGED <<evidenceVars, browseId, busy, problem, detail, concluded, deletes>>

\* Any other action of the page reloads the state too.
Reload ==
    /\ issued < MaxLoads
    /\ Reloads
    /\ UNCHANGED <<evidenceVars, browseId, busy, problem, detail, loads, issued, concluded,
                   deleting, deletes, heard>>

BrowserNext ==
    \/ Raise \/ RunEffect \/ Reload
    \/ \E alert \in 1..MaxAlerts : Select(alert)
    \/ \E l \in loads : Read(l) \/ LoadAnswered(l) \/ LoadFails(l)
    \/ \E p \in Panels, c \in Clips : ConfirmDelete(p, c)
    \/ \E d \in deleting : Commit(d) \/ Lose(d) \/ AfterDelete(d)

BrowserSpec == BrowserInit /\ [][BrowserNext]_browserVars

-----------------------------------------------------------------------------
(* Properties.                                                                  *)

\* When nothing is under way any more, the browser shows the selected alert or says that
\* it could not be loaded: no answer of another selection, and no refetch after a
\* deletion, leaves it blank or busy.
SelectionConcludes ==
    loads = {} /\ ~effectDue => ~busy /\ (Shown \/ problem)

\* A clip whose deletion this page was told of leaves the list and is in the record shown
\* beside it, from either panel it was deleted in: only until the refetch answers, or when
\* an answer read earlier arrives after a later one.
DeletedLeavesList == \A c \in Clips :
    /\ heard[c] > 0 /\ Shown /\ detail.alert = c[1]
    /\ c \in detail.clips \/ c \notin detail.notes
    => \/ detail.late
       \/ \E l \in loads : l.id >= heard[c] /\ l.alert = c[1]

\* A clip is gone exactly when the alert's journal says once that it was deleted, however
\* many rows of however many panels delete it at a time.
GoneIffNotedOnce == \A c \in Clips : notes[c] = IF c \in stored THEN 0 ELSE 1

\* What the evidence browser shows is the record of the alert that is selected.
BrowserShowsTheRecord == SelectionConcludes /\ DeletedLeavesList /\ GoneIffNotedOnce
=============================================================================
