------------------------------ MODULE CasIncident ------------------------------
(***************************************************************************)
(* The incident record of the CAS API server (routes/cas.ts): triggers,    *)
(* repeat triggers, position fixes, acknowledgement, resolution and test   *)
(* records, and which incident the console shows.                          *)
(*                                                                         *)
(* A trigger is two actions, because other transactions commit between its *)
(* unlocked SELECT of the active incident and its write: the advisory lock *)
(* it holds excludes other triggers only.  Every other route locks the row *)
(* it reads (SELECT ... FOR UPDATE) and is one action.  A definition       *)
(* marked "Mutant of X" is X with a bug it could have had; no behaviour    *)
(* uses it.                                                                *)
(***************************************************************************)
EXTENDS Naturals

CONSTANTS
    Phones,         \* enrolled handsets that may trigger
    MaxIncidents,   \* bound: incident rows created
    MaxTime,        \* bound: capture times of position fixes, 1..MaxTime
    MaxTriggers,    \* bound: times one incident is triggered
    NoPhone         \* nobody holds the advisory lock

ASSUME IncidentBoundsNat == /\ {MaxIncidents, MaxTime} \subseteq Nat
                            /\ MaxTriggers \in Nat \ {0}
ASSUME NoPhoneIsNone == NoPhone \notin Phones

VARIABLES
    row,        \* row[i]: the i-th cas_incidents row, in order of created_at
    rows,       \* how many rows there are
    lock,       \* holder of pg_advisory_xact_lock('cas:active-incident')
    trigger,    \* trigger[p]: what phone p's trigger transaction has read
    triggered   \* triggered[i]: triggers answered with incident i's id

incidentVars == <<row, rows, lock, trigger, triggered>>

--------------------------------------------------------------------------------

Ids == 1..MaxIncidents

Times == 1..MaxTime

\* No fix: location_captured_at is null, or the trigger carried no location.
NoFix == 0

\* No incident: the SELECT found none.
NoId == 0

Status == {"none", "ACTIVE_UNACKED", "ACTIVE_ACKED", "RESOLVED"}

Absent == [status |-> "none", count |-> 0, fix |-> NoFix]

Row == {Absent} \cup [status : Status \ {"none"}, count : 1..MaxTriggers,
                      fix : Times \cup {NoFix}]

IsActive(i) == row[i].status \in {"ACTIVE_UNACKED", "ACTIVE_ACKED"}

IsResolved(i) == row[i].status = "RESOLVED"

Waiting == [at |-> "waiting"]

\* A trigger transaction past its SELECT: the row it read, and the fix it carries.
Reading == [at : {"read"}, active : Ids \cup {NoId}, seen : Row,
            fix : Times \cup {NoFix}]

Init ==
    /\ row = [i \in Ids |-> Absent]
    /\ rows = 0
    /\ lock = NoPhone
    /\ trigger = [p \in Phones |-> Waiting]
    /\ triggered = [i \in Ids |-> 0]

--------------------------------------------------------------------------------
(* POST /cas/incidents/trigger.                                            *)

\* The newest unresolved incident, as ORDER BY created_at DESC LIMIT 1 finds it.
ActiveIncident ==
    IF \E i \in Ids : IsActive(i)
    THEN CHOOSE i \in Ids : IsActive(i) /\ \A j \in Ids : IsActive(j) => j <= i
    ELSE NoId

Read(p, fix) ==
    trigger' = [trigger EXCEPT ![p] =
                   [at |-> "read", active |-> ActiveIncident, fix |-> fix,
                    seen |-> IF ActiveIncident = NoId THEN Absent
                                                      ELSE row[ActiveIncident]]]

\* Mutant of BeginTrigger: no advisory lock is taken.
BeginTriggerUnlocked(p, fix) ==
    /\ trigger[p] = Waiting
    /\ lock' = p
    /\ Read(p, fix)
    /\ UNCHANGED <<row, rows, triggered>>

\* Take the advisory lock, then read the active incident without locking its row.
BeginTrigger(p, fix) ==
    /\ trigger[p] = Waiting
    /\ lock = NoPhone
    /\ lock' = p
    /\ Read(p, fix)
    /\ UNCHANGED <<row, rows, triggered>>

\* storeNewerFix: the incoming fix is newer than the one that was read.
NewerFix(stored, incoming) ==
    incoming # NoFix /\ (stored = NoFix \/ incoming > stored)

\* Mutant of Retrigger: a trigger without a newer fix leaves the row alone.
RetriggerIfNewer(p) ==
    LET i == trigger[p].active
        seen == trigger[p].seen IN
    /\ i # NoId
    /\ seen.count < MaxTriggers
    /\ row' = IF NewerFix(seen.fix, trigger[p].fix)
              THEN [row EXCEPT ![i].count = seen.count + 1, ![i].fix = trigger[p].fix]
              ELSE row
    /\ triggered' = [triggered EXCEPT ![i] = @ + 1]
    /\ UNCHANGED rows

\* Fold the trigger into the incident that was read.
Retrigger(p) ==
    LET i == trigger[p].active
        seen == trigger[p].seen IN
    /\ i # NoId
    /\ seen.count < MaxTriggers
    /\ row' = [row EXCEPT
                  ![i].count = seen.count + 1,
                  ![i].fix = IF NewerFix(seen.fix, trigger[p].fix)
                             THEN trigger[p].fix ELSE @]
    /\ triggered' = [triggered EXCEPT ![i] = @ + 1]
    /\ UNCHANGED rows

\* Commit a new incident.
Create(p) ==
    /\ trigger[p].active = NoId
    /\ rows < MaxIncidents
    /\ rows' = rows + 1
    /\ row' = [row EXCEPT ![rows + 1] =
                  [status |-> "ACTIVE_UNACKED", count |-> 1, fix |-> trigger[p].fix]]
    /\ triggered' = [triggered EXCEPT ![rows + 1] = 1]

\* The writes and the COMMIT, which releases the lock.
CommitTrigger(p) ==
    /\ trigger[p] # Waiting
    /\ trigger' = [trigger EXCEPT ![p] = Waiting]
    /\ lock' = NoPhone
    /\ Retrigger(p) \/ Create(p)

\* The transaction fails or its connection drops: rolled back.
AbortTrigger(p) ==
    /\ trigger[p] # Waiting
    /\ trigger' = [trigger EXCEPT ![p] = Waiting]
    /\ lock' = NoPhone
    /\ UNCHANGED <<row, rows, triggered>>

--------------------------------------------------------------------------------
(* The other routes that write the row.                                    *)

\* Mutant of PostLocation: any fix is stored.
PostLocationAlways(i, fix) ==
    /\ row' = [row EXCEPT ![i].fix = IF IsActive(i) THEN fix ELSE @]
    /\ UNCHANGED <<rows, lock, trigger, triggered>>

\* POST /cas/incidents/:id/location, under the row lock: stored if newer.
PostLocation(i, fix) ==
    /\ row' = [row EXCEPT ![i].fix =
                  IF IsActive(i) /\ NewerFix(@, fix) THEN fix ELSE @]
    /\ UNCHANGED <<rows, lock, trigger, triggered>>

Ack(i) ==
    /\ row[i].status = "ACTIVE_UNACKED"
    /\ row' = [row EXCEPT ![i].status = "ACTIVE_ACKED"]
    /\ UNCHANGED <<rows, lock, trigger, triggered>>

Resolve(i) ==
    /\ row[i].status = "ACTIVE_ACKED"
    /\ row' = [row EXCEPT ![i].status = "RESOLVED"]
    /\ UNCHANGED <<rows, lock, trigger, triggered>>

\* Mutant of RecordTest: the record says it was never triggered.
RecordTestUntriggered ==
    /\ rows < MaxIncidents
    /\ rows' = rows + 1
    /\ row' = [row EXCEPT ![rows + 1] =
                  [status |-> "RESOLVED", count |-> 0, fix |-> NoFix]]
    /\ UNCHANGED <<lock, trigger, triggered>>

\* POST /cas/incidents/test: a practice record, born resolved.
RecordTest ==
    /\ rows < MaxIncidents
    /\ rows' = rows + 1
    /\ row' = [row EXCEPT ![rows + 1] =
                  [status |-> "RESOLVED", count |-> 1, fix |-> NoFix]]
    /\ UNCHANGED <<lock, trigger, triggered>>

--------------------------------------------------------------------------------

\* Mutant of ShownIncident: the rows are sorted the wrong way round.
ShownOldest == IF rows = 0 THEN NoId ELSE 1

\* GET /cas/state shows the newest row as the active incident, NoId when none.
ShownIncident == rows

Next ==
    \/ \E p \in Phones :
          \/ \E fix \in Times \cup {NoFix} : BeginTrigger(p, fix)
          \/ CommitTrigger(p)
          \/ AbortTrigger(p)
    \/ \E i \in Ids :
          \/ Ack(i)
          \/ Resolve(i)
          \/ \E fix \in Times : PostLocation(i, fix)
    \/ RecordTest

Spec == Init /\ [][Next]_incidentVars

--------------------------------------------------------------------------------
(* Correctness.                                                            *)

TypeOK ==
    /\ row \in [Ids -> Row]
    /\ rows \in 0..MaxIncidents
    /\ lock \in Phones \cup {NoPhone}
    /\ trigger \in [Phones -> {Waiting} \cup Reading]
    /\ triggered \in [Ids -> 0..MaxTriggers]

\* Repeat triggers never open a second alert: however triggers, resolutions and
\* test records interleave, at most one incident is unresolved.
OneActive == \A i, j \in Ids : IsActive(i) /\ IsActive(j) => i = j

\* trigger_count loses no trigger: each one answered with an incident's id is
\* counted in its row, although the count is read and written in two statements.
EveryTriggerCounted ==
    \A i \in Ids : triggered[i] > 0 => row[i].count = triggered[i]

\* An older fix never moves the incident backwards in time, except through the one
\* window the code leaves: a repeat trigger that compared its fix with a row which
\* has changed since it was read (storeNewerFix decides on an unlocked SELECT).
FixMovesBackOnlyByStaleRead ==
    [][\A i \in Ids :
          row'[i].fix < row[i].fix =>
              \E p \in Phones :
                  /\ trigger[p] # Waiting /\ trigger'[p] = Waiting
                  /\ trigger[p].active = i
                  /\ trigger[p].seen # row[i]]_incidentVars

\* A trigger that is answered "reused" joined an incident that is still active:
\* the handset then texts nobody, because deliveries for it are under way.
RepeatJoinsActive ==
    [][\A i \in Ids : row[i].status # "none" /\ triggered'[i] > triggered[i]
          => IsActive(i)]_incidentVars

\* While an alert is unresolved the console shows it, with the buttons that
\* acknowledge and resolve it, unless a practice record made since is in its place
\* (GET /cas/state takes the newest row): no other alert ever hides it.
HiddenOnlyByPractice ==
    \A i \in Ids :
        IsActive(i) => ShownIncident = i \/ triggered[ShownIncident] = 0
================================================================================
