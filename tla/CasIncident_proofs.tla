-------------------------- MODULE CasIncident_proofs ---------------------------
(***************************************************************************)
(* Machine-checked proofs about CasIncident, for any number of phones and   *)
(* rows: type correctness, what the advisory lock promises, what the       *)
(* console shows and which fix the record keeps.                           *)
(***************************************************************************)
EXTENDS CasIncident, TLAPS

\* Only the holder of the advisory lock is past its SELECT.
OneTrigger == \A p \in Phones : trigger[p] # Waiting => lock = p

\* Rows beyond the last one do not exist, and existing ones do.
RowsInOrder == \A i \in Ids : row[i] = Absent <=> i > rows

\* What a trigger transaction read of the active incident still binds it: without
\* an incident read there is still none, and the count it read is the row's,
\* because only triggers open incidents and count.
ReadIsCurrent ==
    \A p \in Phones : trigger[p] # Waiting =>
        IF trigger[p].active = NoId
        THEN \A i \in Ids : ~IsActive(i)
        ELSE /\ triggered[trigger[p].active] > 0
             /\ trigger[p].seen.count = row[trigger[p].active].count

\* Alerts were triggered, practice records were not, and the rest does not exist.
AlertsWereTriggered ==
    \A i \in Ids : /\ IsActive(i) => triggered[i] > 0
                   /\ triggered[i] > 0 => i <= rows

IndInv ==
    /\ TypeOK
    /\ OneTrigger
    /\ RowsInOrder
    /\ ReadIsCurrent
    /\ AlertsWereTriggered
    /\ OneActive
    /\ EveryTriggerCounted

--------------------------------------------------------------------------------

USE IncidentBoundsNat DEF Ids, Times, NoFix, NoId

\* Under the invariant, the SELECT finds the active incident if there is one.
LEMMA ActiveIncidentFound ==
    ASSUME OneActive
    PROVE  \/ ActiveIncident = NoId /\ \A i \in Ids : ~IsActive(i)
           \/ ActiveIncident \in Ids /\ IsActive(ActiveIncident)
<1>1. CASE \E i \in Ids : IsActive(i)
  <2>1. PICK i \in Ids : IsActive(i)
    BY <1>1
  <2>2. \A j \in Ids : IsActive(j) => j <= i
    BY <2>1 DEF OneActive
  <2>3. QED BY <1>1, <2>1, <2>2 DEF ActiveIncident
<1>2. CASE \A i \in Ids : ~IsActive(i)
  BY <1>2 DEF ActiveIncident
<1>3. QED BY <1>1, <1>2

LEMMA IndInvInit == Init => IndInv
BY DEF Init, IndInv, TypeOK, Row, Absent, Waiting, OneTrigger, RowsInOrder,
       ReadIsCurrent, AlertsWereTriggered, OneActive, EveryTriggerCounted, IsActive

\* BeginTrigger: the lock was free, so nobody else is past the SELECT.
LEMMA BeginTriggerKeeps ==
    ASSUME IndInv, NEW p \in Phones, NEW fix \in Times \cup {NoFix},
           BeginTrigger(p, fix)
    PROVE  IndInv'
<1> DEFINE found == [at |-> "read", active |-> ActiveIncident, fix |-> fix,
                     seen |-> IF ActiveIncident = NoId THEN Absent
                                                       ELSE row[ActiveIncident]]
<1>1. /\ trigger' = [trigger EXCEPT ![p] = found]
      /\ lock = NoPhone /\ lock' = p
      /\ UNCHANGED <<row, rows, triggered>>
  BY DEF BeginTrigger, Read
<1>2. \/ ActiveIncident = NoId /\ \A i \in Ids : ~IsActive(i)
      \/ ActiveIncident \in Ids /\ IsActive(ActiveIncident)
  BY ActiveIncidentFound DEF IndInv
<1>3. found \in Reading /\ found # Waiting
  <2>1. found.seen \in Row
    BY <1>2 DEF IndInv, TypeOK, Row
  <2>2. QED BY <1>2, <2>1 DEF Reading, Waiting
<1>4. \A q \in Phones : trigger[q] = Waiting
  BY <1>1, NoPhoneIsNone DEF IndInv, OneTrigger
<1>5. trigger'[p] = found /\ \A q \in Phones : q # p => trigger'[q] = Waiting
  BY <1>1, <1>4 DEF IndInv, TypeOK
<1>6. TypeOK'
  BY <1>1, <1>3 DEF IndInv, TypeOK
<1>7. OneTrigger'
  BY <1>1, <1>5 DEF OneTrigger
<1>8. ReadIsCurrent'
  <2>1. CASE ActiveIncident = NoId
    BY <1>1, <1>2, <1>5, <2>1 DEF ReadIsCurrent, IsActive
  <2>2. CASE ActiveIncident # NoId
    <3>1. triggered[ActiveIncident] > 0
      BY <1>2, <2>2 DEF IndInv, AlertsWereTriggered
    <3>2. found.active = ActiveIncident /\ found.seen.count = row[ActiveIncident].count
      BY <2>2
    <3>3. QED BY <1>1, <1>5, <2>2, <3>1, <3>2 DEF ReadIsCurrent
  <2>3. QED BY <2>1, <2>2
<1>9. RowsInOrder' /\ AlertsWereTriggered' /\ OneActive' /\ EveryTriggerCounted'
  BY <1>1 DEF IndInv, RowsInOrder, AlertsWereTriggered, OneActive,
              EveryTriggerCounted, IsActive
<1>10. QED BY <1>6, <1>7, <1>8, <1>9 DEF IndInv

\* CommitTrigger: what was read still holds, so folding counts right and creating
\* makes the only active incident.
LEMMA CommitTriggerKeeps ==
    ASSUME IndInv, NEW p \in Phones, CommitTrigger(p)
    PROVE  IndInv'
<1> DEFINE a == trigger[p].active
<1>1. /\ trigger[p] # Waiting
      /\ trigger' = [trigger EXCEPT ![p] = Waiting]
      /\ lock' = NoPhone
  BY DEF CommitTrigger
<1>2. trigger[p] \in Reading /\ lock = p
  BY <1>1 DEF IndInv, TypeOK, OneTrigger
<1>3. \A q \in Phones : trigger'[q] = Waiting
  BY <1>1, <1>2 DEF IndInv, TypeOK, OneTrigger
<1>4. OneTrigger' /\ ReadIsCurrent'
  BY <1>3 DEF OneTrigger, ReadIsCurrent
<1>5. lock' \in Phones \cup {NoPhone} /\ trigger' \in [Phones -> {Waiting} \cup Reading]
  BY <1>1 DEF IndInv, TypeOK
<1>6. CASE Retrigger(p)
  <2> DEFINE n == trigger[p].seen.count + 1
             newfix == IF NewerFix(trigger[p].seen.fix, trigger[p].fix)
                       THEN trigger[p].fix ELSE row[a].fix
  <2>1. /\ a \in Ids
        /\ trigger[p].seen.count < MaxTriggers
        /\ row' = [row EXCEPT ![a].count = n, ![a].fix = newfix]
        /\ triggered' = [triggered EXCEPT ![a] = @ + 1]
        /\ rows' = rows
    BY <1>2, <1>6 DEF Retrigger, Reading
  <2>2. triggered[a] > 0 /\ trigger[p].seen.count = row[a].count
    BY <1>1, <2>1 DEF IndInv, ReadIsCurrent
  <2>3. triggered[a] = row[a].count /\ row[a] # Absent /\ row[a] \in Row
    BY <2>1, <2>2 DEF IndInv, EveryTriggerCounted, AlertsWereTriggered, RowsInOrder, TypeOK
  <2>4. n \in 1..MaxTriggers /\ n = triggered[a] + 1
    BY <2>1, <2>2, <2>3 DEF Row, Absent, IndInv, TypeOK
  <2>5. newfix \in Times \cup {NoFix}
    BY <1>2, <2>3 DEF Reading, Row, Absent
  <2>6. /\ row'[a] = [row[a] EXCEPT !.count = n, !.fix = newfix]
        /\ \A i \in Ids : i # a => row'[i] = row[i]
    BY <2>1 DEF IndInv, TypeOK
  <2>7. row'[a] \in Row /\ row'[a] # Absent /\ row'[a].count = n
        /\ row'[a].status = row[a].status
    <3>1. row[a] \in [status : Status \ {"none"}, count : 1..MaxTriggers,
                      fix : Times \cup {NoFix}]
      BY <2>3 DEF Row
    <3>2. row'[a] = [status |-> row[a].status, count |-> n, fix |-> newfix]
      BY <2>6, <3>1
    <3>3. row'[a].count # 0
      BY <2>4, <3>2
    <3>4. QED BY <2>4, <2>5, <3>1, <3>2, <3>3 DEF Row, Absent
  <2>8. TypeOK'
    <3>1. row' \in [Ids -> Row]
      BY <2>1, <2>6, <2>7 DEF IndInv, TypeOK
    <3>2. triggered' \in [Ids -> 0..MaxTriggers]
      <4>1. triggered[a] + 1 \in 0..MaxTriggers
        BY <2>4
      <4>2. triggered' = [triggered EXCEPT ![a] = triggered[a] + 1]
        BY <2>1
      <4>3. QED BY <2>1, <4>1, <4>2 DEF IndInv, TypeOK
    <3>3. QED BY <1>5, <2>1, <3>1, <3>2 DEF IndInv, TypeOK
  <2>9. RowsInOrder'
    BY <2>1, <2>3, <2>6, <2>7 DEF IndInv, RowsInOrder
  <2>10. \A i \in Ids : IsActive(i)' = IsActive(i)
    BY <2>6, <2>7 DEF IsActive
  <2>11. AlertsWereTriggered' /\ OneActive'
    BY <2>1, <2>2, <2>10 DEF IndInv, TypeOK, AlertsWereTriggered, OneActive
  <2>12. EveryTriggerCounted'
    BY <2>1, <2>4, <2>6, <2>7 DEF IndInv, TypeOK, EveryTriggerCounted
  <2>13. QED BY <1>4, <2>8, <2>9, <2>11, <2>12 DEF IndInv
<1>7. CASE Create(p)
  <2> DEFINE new == [status |-> "ACTIVE_UNACKED", count |-> 1, fix |-> trigger[p].fix]
  <2>1. /\ a = NoId /\ rows < MaxIncidents /\ rows' = rows + 1
        /\ row' = [row EXCEPT ![rows + 1] = new]
        /\ triggered' = [triggered EXCEPT ![rows + 1] = 1]
    BY <1>7 DEF Create
  <2>2. rows \in Nat /\ rows + 1 \in Ids
    BY <2>1 DEF IndInv, TypeOK
  <2>3. new \in Row /\ new # Absent
    BY <1>2 DEF Row, Absent, Reading, Status
  <2>4. /\ row'[rows + 1] = new
        /\ \A i \in Ids : i # rows + 1 => row'[i] = row[i] /\ triggered'[i] = triggered[i]
        /\ triggered'[rows + 1] = 1
    BY <2>1, <2>2 DEF IndInv, TypeOK
  <2>5. \A i \in Ids : ~IsActive(i)
    BY <1>1, <2>1 DEF IndInv, ReadIsCurrent
  <2>6. TypeOK'
    BY <1>5, <2>1, <2>2, <2>3 DEF IndInv, TypeOK
  <2>7. RowsInOrder'
    BY <2>1, <2>2, <2>3, <2>4 DEF IndInv, RowsInOrder
  <2>8. \A i \in Ids : i # rows + 1 => ~IsActive(i)'
    BY <2>4, <2>5 DEF IsActive
  <2>9. OneActive'
    BY <2>8 DEF OneActive
  <2>10. AlertsWereTriggered'
    BY <2>1, <2>2, <2>4, <2>8 DEF IndInv, AlertsWereTriggered
  <2>11. EveryTriggerCounted'
    BY <2>4 DEF IndInv, EveryTriggerCounted
  <2>12. QED BY <1>4, <2>6, <2>7, <2>9, <2>10, <2>11 DEF IndInv
<1>8. QED BY <1>6, <1>7 DEF CommitTrigger

LEMMA AbortTriggerKeeps ==
    ASSUME IndInv, NEW p \in Phones, AbortTrigger(p)
    PROVE  IndInv'
<1>1. /\ trigger[p] # Waiting
      /\ trigger' = [trigger EXCEPT ![p] = Waiting]
      /\ lock' = NoPhone
      /\ UNCHANGED <<row, rows, triggered>>
  BY DEF AbortTrigger
<1>2. \A q \in Phones : trigger'[q] = Waiting
  BY <1>1 DEF IndInv, TypeOK, OneTrigger
<1>3. TypeOK'
  BY <1>1 DEF IndInv, TypeOK
<1>4. OneTrigger' /\ ReadIsCurrent'
  BY <1>2 DEF OneTrigger, ReadIsCurrent
<1>5. RowsInOrder' /\ AlertsWereTriggered' /\ OneActive' /\ EveryTriggerCounted'
  BY <1>1 DEF IndInv, RowsInOrder, AlertsWereTriggered, OneActive,
              EveryTriggerCounted, IsActive
<1>6. QED BY <1>3, <1>4, <1>5 DEF IndInv

\* A step that changes one existing row, keeps its count and opens no incident.
LEMMA RowUpdateKeeps ==
    ASSUME IndInv, NEW i \in Ids, NEW new \in Row, new # Absent,
           row[i] # Absent, new.count = row[i].count,
           new.status \in {"ACTIVE_UNACKED", "ACTIVE_ACKED"} => IsActive(i),
           row' = [row EXCEPT ![i] = new],
           UNCHANGED <<rows, lock, trigger, triggered>>
    PROVE  IndInv'
<1>1. row'[i] = new /\ \A j \in Ids : j # i => row'[j] = row[j]
  BY DEF IndInv, TypeOK
<1>2. \A j \in Ids : IsActive(j)' => IsActive(j)
  BY <1>1 DEF IsActive
<1>3. \A j \in Ids : row'[j].count = row[j].count /\ (row'[j] = Absent <=> row[j] = Absent)
  BY <1>1
<1>4. TypeOK'
  BY <1>1 DEF IndInv, TypeOK
<1>5. OneTrigger' /\ RowsInOrder'
  BY <1>3 DEF IndInv, OneTrigger, RowsInOrder
<1>6. ReadIsCurrent'
  <2> SUFFICES ASSUME NEW p \in Phones, trigger[p] # Waiting
               PROVE  IF trigger[p].active = NoId
                      THEN \A j \in Ids : ~IsActive(j)'
                      ELSE /\ triggered[trigger[p].active] > 0
                           /\ trigger[p].seen.count = row'[trigger[p].active].count
    BY DEF ReadIsCurrent
  <2>1. trigger[p].active \in Ids \cup {NoId}
    BY DEF IndInv, TypeOK, Reading
  <2>2. QED BY <1>2, <1>3, <2>1 DEF IndInv, ReadIsCurrent
<1>7. AlertsWereTriggered' /\ OneActive'
  BY <1>2 DEF IndInv, AlertsWereTriggered, OneActive
<1>8. EveryTriggerCounted'
  BY <1>3 DEF IndInv, EveryTriggerCounted
<1>9. QED BY <1>4, <1>5, <1>6, <1>7, <1>8 DEF IndInv

LEMMA RecordTestKeeps ==
    ASSUME IndInv, RecordTest
    PROVE  IndInv'
<1> DEFINE new == [status |-> "RESOLVED", count |-> 1, fix |-> NoFix]
<1>1. /\ rows < MaxIncidents /\ rows' = rows + 1
      /\ row' = [row EXCEPT ![rows + 1] = new]
      /\ UNCHANGED <<lock, trigger, triggered>>
  BY DEF RecordTest
<1>2. rows \in Nat /\ rows + 1 \in Ids
  BY <1>1 DEF IndInv, TypeOK
<1>3. new \in Row /\ new # Absent
  BY DEF Row, Absent, Status
<1>4. row'[rows + 1] = new /\ \A j \in Ids : j # rows + 1 => row'[j] = row[j]
  BY <1>1, <1>2 DEF IndInv, TypeOK
<1>5. \A j \in Ids : IsActive(j)' => IsActive(j)
  BY <1>4 DEF IsActive
<1>6. triggered[rows + 1] = 0 /\ \A j \in Ids : triggered[j] > 0 => row'[j] = row[j]
  BY <1>2, <1>4 DEF IndInv, TypeOK, AlertsWereTriggered
<1>7. TypeOK'
  BY <1>1, <1>2, <1>3 DEF IndInv, TypeOK
<1>8. OneTrigger'
  BY <1>1 DEF IndInv, OneTrigger
<1>9. RowsInOrder'
  BY <1>1, <1>2, <1>3, <1>4 DEF IndInv, RowsInOrder
<1>10. ReadIsCurrent'
  <2> SUFFICES ASSUME NEW p \in Phones, trigger[p] # Waiting
               PROVE  IF trigger[p].active = NoId
                      THEN \A j \in Ids : ~IsActive(j)'
                      ELSE /\ triggered[trigger[p].active] > 0
                           /\ trigger[p].seen.count = row'[trigger[p].active].count
    BY <1>1 DEF ReadIsCurrent
  <2>1. trigger[p].active \in Ids \cup {NoId}
    BY DEF IndInv, TypeOK, Reading
  <2>2. QED BY <1>5, <1>6, <2>1 DEF IndInv, ReadIsCurrent
<1>11. AlertsWereTriggered' /\ OneActive'
  BY <1>1, <1>2, <1>5 DEF IndInv, AlertsWereTriggered, OneActive
<1>12. EveryTriggerCounted'
  BY <1>1, <1>6 DEF IndInv, EveryTriggerCounted
<1>13. QED BY <1>7, <1>8, <1>9, <1>10, <1>11, <1>12 DEF IndInv

LEMMA IndInvNext == IndInv /\ [Next]_incidentVars => IndInv'
<1> SUFFICES ASSUME IndInv, [Next]_incidentVars
             PROVE  IndInv'
  OBVIOUS
<1>1. ASSUME NEW p \in Phones, NEW fix \in Times \cup {NoFix}, BeginTrigger(p, fix)
      PROVE  IndInv'
  BY <1>1, BeginTriggerKeeps
<1>2. ASSUME NEW p \in Phones, CommitTrigger(p)
      PROVE  IndInv'
  BY <1>2, CommitTriggerKeeps
<1>3. ASSUME NEW p \in Phones, AbortTrigger(p)
      PROVE  IndInv'
  BY <1>3, AbortTriggerKeeps
<1>4. ASSUME NEW i \in Ids, Ack(i) \/ Resolve(i)
      PROVE  IndInv'
  <2> DEFINE to == IF Ack(i) THEN "ACTIVE_ACKED" ELSE "RESOLVED"
             new == [row[i] EXCEPT !.status = to]
  <2>1. /\ row[i].status \in {"ACTIVE_UNACKED", "ACTIVE_ACKED"}
        /\ row' = [row EXCEPT ![i].status = to]
        /\ UNCHANGED <<rows, lock, trigger, triggered>>
    BY <1>4 DEF Ack, Resolve
  <2>2. row[i] \in Row /\ row[i] # Absent
    BY <2>1 DEF IndInv, TypeOK, Absent
  <2>3. new \in Row /\ new # Absent /\ new.count = row[i].count
    BY <2>2 DEF Row, Absent, Status
  <2>4. row' = [row EXCEPT ![i] = new]
    BY <2>1
  <2>5. IsActive(i)
    BY <2>1 DEF IsActive
  <2>6. QED BY <2>1, <2>2, <2>3, <2>4, <2>5, RowUpdateKeeps
<1>5. ASSUME NEW i \in Ids, NEW fix \in Times, PostLocation(i, fix)
      PROVE  IndInv'
  <2> DEFINE newfix == IF IsActive(i) /\ NewerFix(row[i].fix, fix) THEN fix ELSE row[i].fix
             new == [row[i] EXCEPT !.fix = newfix]
  <2>1. row' = [row EXCEPT ![i] = new] /\ UNCHANGED <<rows, lock, trigger, triggered>>
    BY <1>5 DEF PostLocation
  <2>2. row[i] \in Row
    BY DEF IndInv, TypeOK
  <2>3. CASE row[i] = Absent
    <3>1. ~IsActive(i)
      BY <2>3 DEF IsActive, Absent
    <3>2. row' = row
      BY <2>1, <2>3, <3>1 DEF IndInv, TypeOK, Absent
    <3>3. QED BY <2>1, <3>2 DEF IndInv, TypeOK, OneTrigger, RowsInOrder,
                 ReadIsCurrent, AlertsWereTriggered, OneActive,
                 EveryTriggerCounted, IsActive
  <2>4. CASE row[i] # Absent
    <3>1. new \in Row /\ new # Absent /\ new.count = row[i].count
          /\ new.status = row[i].status
      BY <2>2, <2>4 DEF Row, Absent, Status
    <3>2. QED BY <2>1, <2>4, <3>1, RowUpdateKeeps DEF IsActive
  <2>5. QED BY <2>3, <2>4
<1>6. CASE RecordTest
  BY <1>6, RecordTestKeeps
<1>7. CASE UNCHANGED incidentVars
  BY <1>7 DEF incidentVars, IndInv, TypeOK, OneTrigger, RowsInOrder,
              ReadIsCurrent, AlertsWereTriggered, OneActive,
              EveryTriggerCounted, IsActive
<1>8. QED BY <1>1, <1>2, <1>3, <1>4, <1>5, <1>6, <1>7 DEF Next

THEOREM Inductive == Spec => []IndInv
BY IndInvInit, IndInvNext, PTL DEF Spec

\* Type correctness, for any number of handsets, incidents, fixes and triggers.
THEOREM TypeCorrect == Spec => []TypeOK
BY Inductive, PTL DEF IndInv

\* However triggers interleave with each other, with resolutions and with practice
\* records, two incidents are never active at the same time.
THEOREM OneActiveHolds == Spec => []OneActive
BY Inductive, PTL DEF IndInv

\* trigger_count is the number of triggers answered with the incident's id.
THEOREM EveryTriggerCountedHolds == Spec => []EveryTriggerCounted
BY Inductive, PTL DEF IndInv

--------------------------------------------------------------------------------
(* What the console shows, and which fix the record keeps.                 *)

\* Nothing made after an unresolved alert was triggered: it is a practice record.
OnlyPracticeAfter ==
    \A i, j \in Ids : IsActive(i) /\ j > i => triggered[j] = 0

\* An incident is only opened when none is active, and a trigger that is folded in
\* counts in an incident that was triggered before.
LEMMA OnlyPracticeAfterNext ==
    ASSUME IndInv, OnlyPracticeAfter, [Next]_incidentVars
    PROVE  OnlyPracticeAfter'
<1>1. ASSUME NEW p \in Phones, CommitTrigger(p)
      PROVE  OnlyPracticeAfter'
  <2>1. trigger[p] # Waiting /\ trigger[p] \in Reading
    BY <1>1 DEF CommitTrigger, IndInv, TypeOK
  <2>2. CASE Retrigger(p)
    <3> DEFINE a == trigger[p].active
    <3>1. a \in Ids /\ triggered[a] > 0
      BY <2>1, <2>2 DEF Retrigger, Reading, IndInv, ReadIsCurrent
    <3>2. \A i \in Ids : i # a => row'[i] = row[i] /\ triggered'[i] = triggered[i]
      BY <2>2, <3>1 DEF Retrigger, IndInv, TypeOK
    <3>3. row'[a].status = row[a].status
      <4>1. row[a] # Absent
        BY <3>1 DEF IndInv, RowsInOrder, AlertsWereTriggered, TypeOK
      <4>2. row[a] \in [status : Status \ {"none"}, count : 1..MaxTriggers,
                        fix : Times \cup {NoFix}]
        BY <3>1, <4>1 DEF IndInv, TypeOK, Row
      <4>3. QED BY <2>2, <3>1, <4>2 DEF Retrigger, IndInv, TypeOK
    <3>4. \A i \in Ids : IsActive(i)' = IsActive(i)
      BY <3>2, <3>3 DEF IsActive
    <3>5. QED BY <3>1, <3>2, <3>4 DEF OnlyPracticeAfter
  <2>3. CASE Create(p)
    <3>1. \A i \in Ids : ~IsActive(i)
      BY <2>1, <2>3 DEF Create, IndInv, ReadIsCurrent
    <3>2. rows \in Nat /\ rows + 1 \in Ids
      BY <2>3 DEF Create, IndInv, TypeOK
    <3>3. \A i \in Ids : i # rows + 1 => row'[i] = row[i] /\ triggered'[i] = triggered[i]
      BY <2>3, <3>2 DEF Create, IndInv, TypeOK
    <3>4. \A j \in Ids : j > rows + 1 => triggered[j] = 0
      BY <3>2 DEF IndInv, TypeOK, AlertsWereTriggered
    <3>5. QED BY <3>1, <3>2, <3>3, <3>4 DEF OnlyPracticeAfter, IsActive
  <2>4. QED BY <1>1, <2>2, <2>3 DEF CommitTrigger
<1>2. ASSUME \A i \in Ids : IsActive(i)' => IsActive(i), UNCHANGED triggered
      PROVE  OnlyPracticeAfter'
  BY <1>2 DEF OnlyPracticeAfter
<1>3. ASSUME NEW p \in Phones, NEW fix \in Times \cup {NoFix},
             BeginTrigger(p, fix) \/ AbortTrigger(p)
      PROVE  OnlyPracticeAfter'
  BY <1>2, <1>3 DEF BeginTrigger, AbortTrigger, IsActive
<1>4. ASSUME NEW i \in Ids, Ack(i) \/ Resolve(i)
      PROVE  OnlyPracticeAfter'
  <2>1. /\ IsActive(i)
        /\ \A j \in Ids : j # i => row'[j] = row[j]
        /\ UNCHANGED triggered
    BY <1>4 DEF Ack, Resolve, IsActive, IndInv, TypeOK
  <2>2. QED BY <1>2, <2>1 DEF IsActive
<1>5. ASSUME NEW i \in Ids, NEW fix \in Times, PostLocation(i, fix)
      PROVE  OnlyPracticeAfter'
  <2>1. \A j \in Ids : row'[j].status = row[j].status
    <3>1. row[i] \in Row
      BY DEF IndInv, TypeOK
    <3>2. row'[i].status = row[i].status
      BY <1>5, <3>1 DEF PostLocation, IndInv, TypeOK, Row, Absent
    <3>3. \A j \in Ids : j # i => row'[j] = row[j]
      BY <1>5 DEF PostLocation, IndInv, TypeOK
    <3>4. QED BY <3>2, <3>3
  <2>2. QED BY <1>2, <1>5, <2>1 DEF PostLocation, IsActive
<1>6. CASE RecordTest
  <2>1. rows \in Nat /\ rows + 1 \in Ids
    BY <1>6 DEF RecordTest, IndInv, TypeOK
  <2>2. \A j \in Ids : IsActive(j)' => IsActive(j)
    BY <1>6, <2>1 DEF RecordTest, IsActive, IndInv, TypeOK
  <2>3. QED BY <1>2, <1>6, <2>2 DEF RecordTest
<1>7. CASE UNCHANGED incidentVars
  BY <1>2, <1>7 DEF incidentVars, IsActive
<1>8. QED BY <1>1, <1>3, <1>4, <1>5, <1>6, <1>7 DEF Next

LEMMA ShownUnlessPractice == IndInv /\ OnlyPracticeAfter => HiddenOnlyByPractice
<1> SUFFICES ASSUME IndInv, OnlyPracticeAfter, NEW i \in Ids, IsActive(i)
             PROVE  rows = i \/ triggered[rows] = 0
  BY DEF HiddenOnlyByPractice, ShownIncident
<1>1. i <= rows /\ rows \in Ids
  BY DEF IndInv, TypeOK, AlertsWereTriggered
<1>2. QED BY <1>1 DEF OnlyPracticeAfter

\* The console shows an unresolved alert unless a practice record came after it.
THEOREM HiddenOnlyByPracticeHolds == Spec => []HiddenOnlyByPractice
<1>1. Init => OnlyPracticeAfter
  BY DEF Init, OnlyPracticeAfter, IsActive, Absent
<1>2. IndInv /\ OnlyPracticeAfter /\ [Next]_incidentVars => OnlyPracticeAfter'
  BY OnlyPracticeAfterNext
<1>3. QED BY <1>1, <1>2, Inductive, ShownUnlessPractice, PTL DEF Spec

\* One step: a fix replaced by an older one was replaced by a trigger that had read
\* a different row; the location route, under the row lock, never does that.
LEMMA FixStep ==
    ASSUME IndInv, [Next]_incidentVars, NEW i \in Ids, row'[i].fix < row[i].fix
    PROVE  \E p \in Phones : /\ trigger[p] # Waiting /\ trigger'[p] = Waiting
                             /\ trigger[p].active = i
                             /\ trigger[p].seen # row[i]
<1> USE DEF IndInv, TypeOK
<1>1. row[i] \in Row /\ row[i].fix \in Nat /\ row'[i] # row[i]
  BY DEF Row, Absent
<1>2. ASSUME NEW p \in Phones, CommitTrigger(p)
      PROVE  /\ trigger[p] # Waiting /\ trigger'[p] = Waiting
             /\ trigger[p].active = i
             /\ trigger[p].seen # row[i]
  <2>1. trigger[p] # Waiting /\ trigger[p] \in Reading /\ trigger'[p] = Waiting
    BY <1>2 DEF CommitTrigger
  <2>2. CASE Retrigger(p)
    <3> DEFINE a == trigger[p].active
               new == IF NewerFix(trigger[p].seen.fix, trigger[p].fix)
                      THEN trigger[p].fix ELSE row[a].fix
    <3>1. a \in Ids /\ \A j \in Ids : j # a => row'[j] = row[j]
      BY <2>1, <2>2 DEF Retrigger, Reading
    <3>2. a = i
      BY <1>1, <3>1
    <3>3. row[i] # Absent
      BY <2>1, <2>2, <3>1, <3>2
         DEF Retrigger, ReadIsCurrent, RowsInOrder, AlertsWereTriggered
    <3>4. row'[i].fix = new
      <4>1. row[i] \in [status : Status \ {"none"}, count : 1..MaxTriggers,
                        fix : Times \cup {NoFix}]
        BY <1>1, <3>3 DEF Row
      <4>2. QED BY <2>2, <3>2, <4>1 DEF Retrigger
    <3>5. NewerFix(trigger[p].seen.fix, trigger[p].fix)
      BY <1>1, <3>2, <3>4
    <3>6. trigger[p].fix \in Nat /\ trigger[p].fix < row[i].fix
      BY <2>1, <3>4, <3>5 DEF Reading
    <3>7. trigger[p].seen.fix # row[i].fix
      BY <1>1, <3>5, <3>6 DEF NewerFix
    <3>8. QED BY <2>1, <3>2, <3>7
  <2>3. CASE Create(p)
    <3>1. rows + 1 \in Ids /\ row[rows + 1].fix = NoFix
      BY <2>3 DEF Create, RowsInOrder, Absent
    <3>2. \A j \in Ids : j # rows + 1 => row'[j] = row[j]
      BY <2>3, <3>1 DEF Create
    <3>3. i = rows + 1 /\ row'[i].fix \in Nat
      BY <1>1, <2>1, <2>3, <3>1, <3>2 DEF Create, Reading
    <3>4. QED BY <3>1, <3>3
  <2>4. QED BY <1>2, <2>2, <2>3 DEF CommitTrigger
<1>3. ASSUME NEW j \in Ids, Ack(j) \/ Resolve(j)
      PROVE  FALSE
  <2>1. row[j] # Absent
    BY <1>3 DEF Ack, Resolve, Absent
  <2>2. row[j] \in [status : Status \ {"none"}, count : 1..MaxTriggers,
                    fix : Times \cup {NoFix}]
    BY <2>1 DEF Row
  <2>3. row'[i].fix = row[i].fix
    BY <1>3, <2>2 DEF Ack, Resolve
  <2>4. QED BY <1>1, <2>3
<1>4. ASSUME NEW j \in Ids, NEW fix \in Times, PostLocation(j, fix)
      PROVE  FALSE
  BY <1>1, <1>4 DEF PostLocation, NewerFix, Row, Absent
<1>5. ASSUME RecordTest
      PROVE  FALSE
  <2>1. rows + 1 \in Ids /\ row[rows + 1].fix = NoFix
    BY <1>5 DEF RecordTest, RowsInOrder, Absent
  <2>2. row'[i].fix = row[i].fix
    BY <1>1, <1>5, <2>1 DEF RecordTest
  <2>3. QED BY <1>1, <2>2
<1>6. row' # row
  BY <1>1
<1>7. \E p \in Phones : CommitTrigger(p)
  BY <1>3, <1>4, <1>5, <1>6 DEF Next, incidentVars, BeginTrigger, AbortTrigger
<1>8. QED BY <1>2, <1>7

\* Only a repeat trigger that compared with a row changed since can replace a fix
\* by an older one.
THEOREM FixMovesBackOnlyByStaleReadHolds == Spec => FixMovesBackOnlyByStaleRead
<1>1. IndInv /\ [Next]_incidentVars =>
        [\A i \in Ids :
          row'[i].fix < row[i].fix =>
              \E p \in Phones :
                  /\ trigger[p] # Waiting /\ trigger'[p] = Waiting
                  /\ trigger[p].active = i
                  /\ trigger[p].seen # row[i]]_incidentVars
  BY FixStep
<1>2. QED BY <1>1, Inductive, PTL DEF Spec, FixMovesBackOnlyByStaleRead
================================================================================
