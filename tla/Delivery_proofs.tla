---------------------------- MODULE Delivery_proofs ----------------------------
(***************************************************************************)
(* Machine-checked proofs about what reaches people: the wakes of the      *)
(* handsets (PushFanOut) and the delivery of one row to its recipients     *)
(* (ProviderDelivery), for any number of handsets, workers, recipients,    *)
(* mailboxes, mishaps and changes.  Each has its own specification and a   *)
(* section of its own here.                                                *)
(***************************************************************************)
EXTENDS PushFanOut, ProviderDelivery, FiniteSetTheorems, TLAPS

-----------------------------------------------------------------------------
(* PushFanOut.                                                               *)

PushRows == [cred : Handsets \X Nat, id : Nat, token : Handsets \X Nat]
Fans == [pc : {"idle", "sending", "deleting"}, todo : SUBSET PushRows,
         delivered : SUBSET PushRows, stale : SUBSET PushRows, failed : SUBSET PushRows]

PushTypes ==
    /\ enrolled \in [Handsets -> Nat \ {0}] /\ revokedC \in SUBSET (Handsets \X Nat)
    /\ fcm \in [Handsets -> Nat \ {0}] /\ told \in [Handsets -> Nat]
    /\ put \in [Handsets -> [cred : Nat, token : Nat]]
    /\ rows \in SUBSET PushRows /\ nextRow \in Nat /\ changes \in Nat /\ dispatches \in Nat
    /\ fan \in Fans
    /\ swept \in SUBSET Handsets /\ renewed \in SUBSET Handsets

\* A row, as it is stored or as the dispatch read it, has a number of its own, of one
\* credential, and a token its handset had.
RowIsReal(r) ==
    r.id < nextRow /\ r.token[1] = r.cred[1] /\ r.token[2] <= fcm[r.token[1]]

RowsAreReal ==
    /\ \A r \in rows \cup fan.todo \cup fan.stale : RowIsReal(r)
    /\ \A x, y \in rows : x.id = y.id => x = y
    /\ \A x \in rows, y \in fan.todo \cup fan.stale : x.id = y.id => x.cred = y.cred

\* Only rows whose token FCM had replaced by then are stale, and only those are deleted.
StaleIsOld ==
    /\ \A r \in fan.stale : r.token[2] < fcm[r.token[1]]
    /\ fan.pc = "deleting" => fan.todo \subseteq fan.stale

\* A registration under way is not older than the last one answered; that of a handset that
\* did not enrol again carries its credential.
PutsAreCurrent == \A h \in Handsets :
    /\ told[h] <= fcm[h]
    /\ put[h] # NoPut =>
          /\ told[h] <= put[h].token /\ put[h].token <= fcm[h]
          /\ h \notin renewed => put[h].cred = enrolled[h]

PushInv == PushTypes /\ RowsAreReal /\ StaleIsOld /\ PutsAreCurrent /\ BelievedMeansReachable

LEMMA PushInitInv == PushInit => PushInv
<1> SUFFICES ASSUME PushInit PROVE PushInv
  OBVIOUS
<1> USE DEF PushInit
<1>1. fan \in Fans /\ fan.todo = {} /\ fan.stale = {} /\ fan.pc = "idle"
  BY DEF Fans, IdleDispatch
<1>2. PushTypes
  BY <1>1 DEF PushTypes, NoPut
<1>3. RowsAreReal /\ StaleIsOld /\ PutsAreCurrent /\ BelievedMeansReachable
  BY <1>1 DEF RowsAreReal, StaleIsOld, PutsAreCurrent, BelievedMeansReachable
<1> QED BY <1>2, <1>3 DEF PushInv

LEMMA RotateInv ==
    ASSUME PushInv, NEW h \in Handsets, Rotate(h)
    PROVE  PushInv'
<1> USE DEF PushInv
<1>1. /\ changes' \in Nat /\ fcm' = [fcm EXCEPT ![h] = @ + 1]
      /\ UNCHANGED <<enrolled, revokedC, told, put, rows, nextRow, dispatches, fan, swept, renewed>>
  BY DEF Rotate, PushTypes
<1>2. /\ fcm' \in [Handsets -> Nat \ {0}] /\ fcm'[h] > fcm[h]
      /\ \A g \in Handsets : fcm'[g] >= fcm[g] /\ (g # h => fcm'[g] = fcm[g])
  BY <1>1 DEF PushTypes
<1>3. PushTypes'
  BY <1>1, <1>2 DEF PushTypes
<1>4. \A r \in PushRows : r.token[1] \in Handsets /\ r.token[2] \in Nat /\ r.id \in Nat
  BY DEF PushRows
<1>5. \A g \in Handsets : fcm[g] \in Nat /\ fcm'[g] \in Nat /\ told[g] \in Nat /\ put[g].token \in Nat
  BY <1>2 DEF PushTypes
<1>6. rows \cup fan.todo \cup fan.stale \subseteq PushRows
  BY DEF PushTypes, Fans
<1>7. RowsAreReal' /\ StaleIsOld'
  <2>1. ASSUME NEW r \in rows \cup fan.todo \cup fan.stale
        PROVE  RowIsReal(r)'
    <3>1. r.token[1] \in Handsets /\ r.token[2] \in Nat /\ RowIsReal(r)
      BY <1>4, <1>6 DEF RowsAreReal
    <3>2. r.token[2] <= fcm'[r.token[1]]
      BY <1>2, <1>5, <3>1 DEF RowIsReal
    <3> QED BY <1>1, <3>1, <3>2 DEF RowIsReal
  <2>2. ASSUME NEW r \in fan.stale
        PROVE  r.token[2] < fcm'[r.token[1]]
    <3>1. r.token[1] \in Handsets /\ r.token[2] \in Nat /\ r.token[2] < fcm[r.token[1]]
      BY <1>4, <1>6 DEF StaleIsOld
    <3> QED BY <1>2, <1>5, <3>1
  <2> QED BY <1>1, <2>1, <2>2 DEF RowsAreReal, StaleIsOld
<1>8. PutsAreCurrent'
  <2>1. ASSUME NEW g \in Handsets
        PROVE  /\ told[g] <= fcm'[g]
               /\ put[g] # NoPut => /\ told[g] <= put[g].token /\ put[g].token <= fcm'[g]
                                    /\ g \notin renewed => put[g].cred = enrolled[g]
    BY <1>2, <1>5 DEF PutsAreCurrent
  <2> QED BY <1>1, <2>1 DEF PutsAreCurrent
<1>9. BelievedMeansReachable'
  <2>1. told[h] # fcm'[h]
    BY <1>2, <1>5 DEF PutsAreCurrent
  <2> QED BY <1>1, <1>2, <2>1 DEF BelievedMeansReachable
<1> QED BY <1>3, <1>7, <1>8, <1>9

LEMMA RegisterTokenInv ==
    ASSUME PushInv, NEW h \in Handsets, RegisterToken(h)
    PROVE  PushInv'
<1> USE DEF PushInv
<1>1. /\ put' = [put EXCEPT ![h] = [cred |-> enrolled[h], token |-> fcm[h]]]
      /\ UNCHANGED <<enrolled, revokedC, fcm, told, rows, nextRow, changes, dispatches, fan,
                     swept, renewed>>
  BY DEF RegisterToken
<1>2. enrolled[h] \in Nat /\ fcm[h] \in Nat
  BY DEF PushTypes
<1>3. PushTypes'
  BY <1>1, <1>2 DEF PushTypes
<1>4. RowsAreReal' /\ StaleIsOld' /\ BelievedMeansReachable'
  BY <1>1 DEF RowsAreReal, RowIsReal, StaleIsOld, BelievedMeansReachable
<1>5. PutsAreCurrent'
  BY <1>1, <1>2 DEF PutsAreCurrent, PushTypes
<1> QED BY <1>3, <1>4, <1>5

\* What an upsert makes of a row, and the row it adds.
Retold(y, c, t) == IF y.cred = c THEN [y EXCEPT !.token = t] ELSE y
Added(c, t) == [cred |-> c, id |-> nextRow, token |-> t]

LEMMA RetoldRow ==
    ASSUME NEW y \in PushRows, NEW c, NEW t \in Handsets \X Nat
    PROVE  /\ Retold(y, c, t) \in PushRows
           /\ Retold(y, c, t).id = y.id /\ Retold(y, c, t).cred = y.cred
           /\ y.cred = c => Retold(y, c, t).token = t
           /\ y.cred # c => Retold(y, c, t) = y
BY DEF Retold, PushRows

\* What an upsert leaves: every row keeps its number and credential, only the credential's own
\* row changes its token, and there is one with the new token.
LEMMA UpsertedRows ==
    ASSUME NEW c \in Handsets \X Nat, NEW t \in Handsets \X Nat, rows \in SUBSET PushRows,
           nextRow \in Nat
    PROVE  /\ \A x \in Upserted(c, t) : x = Added(c, t) \/ \E y \in rows : x = Retold(y, c, t)
           /\ \A y \in rows : Retold(y, c, t) \in Upserted(c, t)
           /\ \E x \in Upserted(c, t) : x.cred = c /\ x.token = t
           /\ Upserted(c, t) \in SUBSET PushRows
           /\ Added(c, t).id = nextRow /\ Added(c, t).cred = c /\ Added(c, t).token = t
<1>1. \A y \in rows : /\ Retold(y, c, t) \in PushRows
                      /\ Retold(y, c, t).id = y.id /\ Retold(y, c, t).cred = y.cred
                      /\ y.cred = c => Retold(y, c, t).token = t
                      /\ y.cred # c => Retold(y, c, t) = y
  BY RetoldRow
<1>2. /\ Added(c, t) \in PushRows
      /\ Added(c, t).id = nextRow /\ Added(c, t).cred = c /\ Added(c, t).token = t
  BY DEF PushRows, Added
<1>3. CASE \E r \in rows : r.cred = c
  <2>1. Upserted(c, t) = {Retold(r, c, t) : r \in rows}
    BY <1>3 DEF Upserted, Retold
  <2> QED BY <1>1, <1>2, <1>3, <2>1
<1>4. CASE ~\E r \in rows : r.cred = c
  <2>1. Upserted(c, t) = rows \cup {Added(c, t)}
    BY <1>4 DEF Upserted, Added
  <2> QED BY <1>1, <1>2, <1>4, <2>1
<1> QED BY <1>3, <1>4

LEMMA FinishRegisterInv ==
    ASSUME PushInv, NEW h \in Handsets, FinishRegister(h)
    PROVE  /\ PushInv'
           /\ \A r \in rows : \E x \in rows' : x.id = r.id
<1> USE DEF PushInv
<1> DEFINE c == <<h, put[h].cred>>
           t == <<h, put[h].token>>
<1>1. PICK reached \in BOOLEAN, answered \in BOOLEAN :
        /\ rows' = IF reached /\ c \notin revokedC THEN Upserted(c, t) ELSE rows
        /\ nextRow' = IF \E r \in rows' : r.id = nextRow THEN nextRow + 1 ELSE nextRow
        /\ told' = IF reached /\ answered /\ c \notin revokedC
                   THEN [told EXCEPT ![h] = put[h].token] ELSE told
  BY DEF FinishRegister
<1>2. /\ put[h] # NoPut /\ put' = [put EXCEPT ![h] = NoPut]
      /\ UNCHANGED <<enrolled, revokedC, fcm, changes, dispatches, fan, swept, renewed>>
  BY DEF FinishRegister
<1>3. /\ put[h].cred \in Nat /\ put[h].token \in Nat /\ NoPut \in [cred : Nat, token : Nat]
      /\ told[h] <= put[h].token /\ put[h].token <= fcm[h]
      /\ h \notin renewed => put[h].cred = enrolled[h]
  BY <1>2 DEF PushTypes, PutsAreCurrent, NoPut
<1>4. c \in Handsets \X Nat /\ t \in Handsets \X Nat /\ c[1] = h /\ t[1] = h /\ t[2] = put[h].token
  BY <1>3
<1>5. rows \in SUBSET PushRows /\ nextRow \in Nat /\ told \in [Handsets -> Nat]
      /\ fcm \in [Handsets -> Nat \ {0}]
  BY DEF PushTypes
<1>6. /\ \A r \in PushRows : r.id \in Nat /\ r.cred \in Handsets \X Nat /\ r.token \in Handsets \X Nat
                             /\ r.token[1] \in Handsets /\ r.token[2] \in Nat
      /\ \A r \in rows : r \in PushRows /\ RowIsReal(r)
      /\ \A r \in fan.todo \cup fan.stale : r \in PushRows /\ RowIsReal(r)
  BY <1>5 DEF PushRows, RowsAreReal, PushTypes, Fans
<1>7. /\ \A x \in Upserted(c, t) : x = Added(c, t) \/ \E y \in rows : x = Retold(y, c, t)
      /\ \A y \in rows : Retold(y, c, t) \in Upserted(c, t)
      /\ \E x \in Upserted(c, t) : x.cred = c /\ x.token = t
      /\ Upserted(c, t) \in SUBSET PushRows
      /\ Added(c, t).id = nextRow /\ Added(c, t).cred = c /\ Added(c, t).token = t
  BY <1>4, <1>5, UpsertedRows
<1>7a. \A y \in rows : /\ Retold(y, c, t).id = y.id /\ Retold(y, c, t).cred = y.cred
                       /\ y.cred = c => Retold(y, c, t).token = t
                       /\ y.cred # c => Retold(y, c, t) = y
  BY <1>4, <1>6, RetoldRow
<1>8. nextRow' \in Nat /\ nextRow' >= nextRow /\ \A x \in rows' : x.id = nextRow => nextRow' > nextRow
  BY <1>1, <1>5
<1>9. told' \in [Handsets -> Nat] /\ (\A g \in Handsets \ {h} : told'[g] = told[g])
      /\ (told'[h] = told[h] \/ (told'[h] = put[h].token /\ rows' = Upserted(c, t)))
  BY <1>1, <1>3, <1>5
<1> HIDE DEF c, t
<1>10. rows' = rows \/ rows' = Upserted(c, t)
  BY <1>1
<1>11. PushTypes'
  BY <1>2, <1>3, <1>5, <1>7, <1>8, <1>9, <1>10 DEF PushTypes
<1>12. \A x \in rows' :
         \/ \E y \in rows : y.id = x.id /\ y.cred = x.cred /\ (x = y \/ (x.token = t /\ x.cred = c))
         \/ x.id = nextRow /\ x.cred = c /\ x.token = t
  BY <1>7, <1>7a, <1>10
<1>13. RowsAreReal'
  <2>1. ASSUME NEW x \in rows' PROVE RowIsReal(x)'
    <3>1. CASE \E y \in rows : y.id = x.id /\ y.cred = x.cred /\ (x = y \/ (x.token = t /\ x.cred = c))
      <4>1. PICK y \in rows : y.id = x.id /\ y.cred = x.cred /\ (x = y \/ (x.token = t /\ x.cred = c))
        BY <3>1
      <4>2. y.id \in Nat /\ y.id < nextRow /\ RowIsReal(y)
        BY <1>6 DEF RowIsReal
      <4>3. x.id < nextRow'
        BY <4>1, <4>2, <1>5, <1>8
      <4>4. x.token[1] = x.cred[1] /\ x.token[2] <= fcm[x.token[1]]
        BY <4>1, <4>2, <1>3, <1>4 DEF RowIsReal
      <4> QED BY <1>2, <4>3, <4>4 DEF RowIsReal
    <3>2. CASE x.id = nextRow /\ x.cred = c /\ x.token = t
      BY <1>2, <1>3, <1>4, <1>8, <3>2 DEF RowIsReal
    <3> QED BY <1>12, <3>1, <3>2
  <2>2. ASSUME NEW x \in fan.todo \cup fan.stale PROVE RowIsReal(x)'
    <3>1. x.id \in Nat /\ RowIsReal(x)
      BY <1>6
    <3> QED BY <1>2, <1>5, <1>8, <3>1 DEF RowIsReal
  <2>3. \A x \in rows : x.id \in Nat /\ x.id < nextRow
    BY <1>6 DEF RowIsReal
  <2>4. ASSUME NEW x \in rows', NEW z \in rows', x.id = z.id PROVE x = z
    <3>1. CASE rows' = rows
      BY <2>4, <3>1 DEF RowsAreReal
    <3>2. CASE rows' = Upserted(c, t)
      <4>1. CASE x = Added(c, t) \/ z = Added(c, t)
        BY <1>5, <1>7, <1>7a, <2>3, <2>4, <3>2, <4>1
      <4>2. CASE x # Added(c, t) /\ z # Added(c, t)
        <5>1. PICK y \in rows : x = Retold(y, c, t)
          BY <1>7, <3>2, <4>2
        <5>2. PICK v \in rows : z = Retold(v, c, t)
          BY <1>7, <3>2, <4>2
        <5>3. y = v
          BY <1>7a, <2>4, <5>1, <5>2 DEF RowsAreReal
        <5> QED BY <5>1, <5>2, <5>3
      <4> QED BY <4>1, <4>2
    <3> QED BY <1>10, <3>1, <3>2
  <2>5. ASSUME NEW x \in rows', NEW z \in fan.todo \cup fan.stale, x.id = z.id PROVE x.cred = z.cred
    <3>1. z.id \in Nat /\ z.id < nextRow
      BY <1>6 DEF RowIsReal
    <3>2. x.id # nextRow
      BY <1>5, <2>5, <3>1
    <3>3. PICK y \in rows : y.id = x.id /\ y.cred = x.cred
      BY <1>12, <3>2
    <3> QED BY <2>5, <3>3 DEF RowsAreReal
  <2> QED BY <1>2, <2>1, <2>2, <2>4, <2>5 DEF RowsAreReal
<1>14. StaleIsOld'
  BY <1>2 DEF StaleIsOld
<1>15. PutsAreCurrent'
  <2>1. ASSUME NEW g \in Handsets
        PROVE  /\ told'[g] <= fcm[g]
               /\ put'[g] # NoPut =>
                    /\ told'[g] <= put'[g].token /\ put'[g].token <= fcm[g]
                    /\ g \notin renewed => put'[g].cred = enrolled[g]
    <3>1. CASE g = h
      <4>1. put'[g] = NoPut /\ told'[g] <= fcm[g]
        BY <1>2, <1>3, <1>9, <3>1 DEF PushTypes, PutsAreCurrent
      <4> QED BY <4>1
    <3>2. CASE g # h
      <4>1. put'[g] = put[g] /\ told'[g] = told[g]
        BY <1>2, <1>9, <3>2 DEF PushTypes
      <4> QED BY <4>1 DEF PutsAreCurrent
    <3> QED BY <3>1, <3>2
  <2> QED BY <1>2, <2>1 DEF PutsAreCurrent
<1>16. BelievedMeansReachable'
  <2>1. ASSUME NEW g \in Handsets, g \notin swept, g \notin renewed, told'[g] = fcm[g]
        PROVE  \E r \in rows' : r.cred = <<g, enrolled[g]>> /\ r.token = <<g, fcm[g]>>
    <3>1. CASE g # h
      <4>1. PICK r \in rows : r.cred = <<g, enrolled[g]>> /\ r.token = <<g, fcm[g]>>
        BY <1>9, <2>1, <3>1 DEF BelievedMeansReachable
      <4>2. r.cred # c
        BY <3>1, <4>1 DEF c
      <4> QED BY <1>7, <1>7a, <1>10, <4>1, <4>2
    <3>2. CASE g = h /\ rows' = Upserted(c, t)
      <4>1. put[h].token = fcm[h]
        BY <1>3, <1>5, <1>9, <2>1, <3>2
      <4>2. c = <<g, enrolled[g]>> /\ t = <<g, fcm[g]>>
        BY <1>3, <2>1, <3>2, <4>1 DEF c, t
      <4> QED BY <1>7, <3>2, <4>2
    <3>3. CASE g = h /\ rows' = rows /\ rows' # Upserted(c, t)
      BY <1>9, <2>1, <3>3 DEF BelievedMeansReachable
    <3> QED BY <1>10, <3>1, <3>2, <3>3
  <2> QED BY <1>2, <2>1 DEF BelievedMeansReachable
<1>17. \A r \in rows : \E x \in rows' : x.id = r.id
  BY <1>7, <1>7a, <1>10
<1> QED BY <1>11, <1>13, <1>14, <1>15, <1>16, <1>17

LEMMA RevokeAndRenewInv ==
    ASSUME PushInv, NEW h \in Handsets, RevokeAndRenew(h)
    PROVE  PushInv'
<1> USE DEF PushInv
<1>1. /\ changes' \in Nat /\ revokedC' = revokedC \cup {<<h, enrolled[h]>>}
      /\ enrolled' = [enrolled EXCEPT ![h] = @ + 1]
      /\ renewed' = IF told[h] # 0 \/ put[h] # NoPut THEN renewed \cup {h} ELSE renewed
      /\ UNCHANGED <<fcm, told, put, rows, nextRow, dispatches, fan, swept>>
  BY DEF RevokeAndRenew, PushTypes
<1>2. PushTypes'
  BY <1>1 DEF PushTypes
<1>3. RowsAreReal' /\ StaleIsOld'
  BY <1>1 DEF RowsAreReal, RowIsReal, StaleIsOld
<1>4. renewed \subseteq renewed' /\ \A g \in Handsets \ {h} : enrolled'[g] = enrolled[g]
  BY <1>1 DEF PushTypes
<1>5. h \notin renewed' => put[h] = NoPut /\ told[h] # fcm[h]
  BY <1>1 DEF PushTypes
<1>6. PutsAreCurrent'
  BY <1>1, <1>4, <1>5 DEF PutsAreCurrent
<1>7. BelievedMeansReachable'
  BY <1>1, <1>4, <1>5 DEF BelievedMeansReachable
<1> QED BY <1>2, <1>3, <1>6, <1>7

\* Steps of a dispatch that leave the registrations alone: the sends under way are still of
\* rows it read, the stale ones of tokens that are gone.
LEMMA FanStep ==
    ASSUME PushInv, fan' \in Fans, dispatches' \in Nat,
           UNCHANGED <<enrolled, revokedC, fcm, told, put, rows, nextRow, changes, swept, renewed>>,
           fan'.todo \subseteq rows \cup fan.todo \cup fan.stale,
           fan'.stale \subseteq rows \cup fan.todo \cup fan.stale,
           \A r \in fan'.stale : r.token[2] < fcm[r.token[1]],
           fan'.pc = "deleting" => fan'.todo \subseteq fan'.stale
    PROVE  PushInv'
<1> USE DEF PushInv
<1>1. PushTypes' /\ PutsAreCurrent' /\ BelievedMeansReachable' /\ StaleIsOld'
  BY DEF PushTypes, PutsAreCurrent, BelievedMeansReachable, StaleIsOld
<1>2. RowsAreReal'
  BY DEF RowsAreReal, RowIsReal
<1> QED BY <1>1, <1>2

LEMMA DispatchInv ==
    ASSUME PushInv, Dispatch
    PROVE  /\ PushInv'
           /\ fan'.pc = "sending" => \A r \in fan'.todo : r.cred \notin revokedC
<1> USE DEF PushInv
<1>1. /\ fan.pc = "idle" /\ dispatches' \in Nat
      /\ fan' = IF Registered = {} THEN fan
                ELSE [IdleDispatch EXCEPT !.pc = "sending", !.todo = Registered]
      /\ UNCHANGED <<enrolled, revokedC, fcm, told, put, rows, nextRow, changes, swept, renewed>>
  BY DEF Dispatch, PushTypes
<1>2. Registered \subseteq rows /\ Registered \in SUBSET PushRows
      /\ \A r \in Registered : r.cred \notin revokedC
  BY DEF Registered, PushTypes
<1>3. CASE fan' = fan
  BY <1>1, <1>3, FanStep DEF PushTypes, StaleIsOld
<1>4. CASE fan' = [IdleDispatch EXCEPT !.pc = "sending", !.todo = Registered]
  <2>1. fan' \in Fans /\ fan'.pc = "sending" /\ fan'.todo = Registered /\ fan'.stale = {}
    BY <1>2, <1>4 DEF IdleDispatch, Fans
  <2>2. PushInv'
    BY <1>1, <1>2, <2>1, FanStep
  <2> QED BY <1>2, <2>1, <2>2
<1> QED BY <1>1, <1>3, <1>4

LEMMA SendToRowInv ==
    ASSUME PushInv, NEW r \in fan.todo, SendToRow(r)
    PROVE  PushInv'
<1> USE DEF PushInv
<1>1. PICK o \in Outcomes(r) : fan' = [fan EXCEPT !.todo = @ \ {r}, ![o] = @ \cup {r}]
  BY DEF SendToRow
<1>2. /\ fan.pc = "sending" /\ dispatches' \in Nat
      /\ UNCHANGED <<enrolled, revokedC, fcm, told, put, rows, nextRow, changes, swept, renewed>>
  BY DEF SendToRow, PushTypes
<1>3. fan \in Fans /\ r \in PushRows /\ RowIsReal(r)
  BY DEF PushTypes, Fans, RowsAreReal
<1>4. r.token[2] \in Nat /\ fcm[r.token[1]] \in Nat
  BY <1>3 DEF PushRows, PushTypes
<1>5. o \in {"delivered", "stale", "failed"} /\ (o = "stale" => r.token[2] < fcm[r.token[1]])
  BY <1>3, <1>4 DEF Outcomes, RowIsReal
<1>6. /\ fan' \in Fans /\ fan'.pc = "sending" /\ fan'.todo = fan.todo \ {r}
      /\ fan'.stale = IF o = "stale" THEN fan.stale \cup {r} ELSE fan.stale
  BY <1>1, <1>2, <1>3, <1>5 DEF Fans
<1>7. \A x \in fan'.stale : x.token[2] < fcm[x.token[1]]
  BY <1>5, <1>6 DEF StaleIsOld
<1> QED BY <1>2, <1>6, <1>7, FanStep

LEMMA CollectInv ==
    ASSUME PushInv, Collect \/ DeleteThrows
    PROVE  PushInv'
<1> USE DEF PushInv
<1>1. /\ dispatches' \in Nat
      /\ UNCHANGED <<enrolled, revokedC, fcm, told, put, rows, nextRow, changes, swept, renewed>>
      /\ fan' = IdleDispatch \/ fan' = [fan EXCEPT !.pc = "deleting", !.todo = Dropped]
  BY DEF Collect, DeleteThrows, PushTypes
<1>2. IdleDispatch \in Fans /\ IdleDispatch.todo = {} /\ IdleDispatch.stale = {}
  BY DEF IdleDispatch, Fans
<1>3. CASE fan' = IdleDispatch
  BY <1>1, <1>2, <1>3, FanStep
<1>4. CASE fan' = [fan EXCEPT !.pc = "deleting", !.todo = Dropped]
  <2>1. fan' \in Fans /\ fan'.todo = fan.stale /\ fan'.stale = fan.stale
    BY <1>4 DEF Fans, PushTypes, Dropped
  <2> QED BY <1>1, <2>1, FanStep DEF StaleIsOld
<1> QED BY <1>1, <1>3, <1>4

LEMMA DeleteInv ==
    ASSUME PushInv, NEW r \in fan.todo, Delete(r)
    PROVE  PushInv' /\ r \in fan.stale /\ rows' = {x \in rows : x.id # r.id}
<1> USE DEF PushInv
<1>1. /\ fan.pc = "deleting" /\ rows' = {x \in rows : x.id # r.id}
      /\ swept' = IF r \in rows THEN swept ELSE swept \cup {r.cred[1]}
      /\ fan' = IF fan.todo = {r} THEN IdleDispatch ELSE [fan EXCEPT !.todo = @ \ {r}]
      /\ UNCHANGED <<enrolled, revokedC, fcm, told, put, nextRow, changes, dispatches, renewed>>
  BY DEF Delete
<1>2. fan \in Fans /\ r \in PushRows /\ r \in fan.stale /\ RowIsReal(r) /\ r.token[2] < fcm[r.token[1]]
  BY <1>1 DEF PushTypes, Fans, StaleIsOld, RowsAreReal
<1>3. r.cred[1] \in Handsets /\ r.token[1] = r.cred[1] /\ r.token[2] # fcm[r.token[1]]
  BY <1>2 DEF PushRows, RowIsReal, PushTypes
<1>4. /\ fan' \in Fans /\ fan'.todo \subseteq fan.todo /\ fan'.stale \subseteq fan.stale
      /\ fan'.pc = "deleting" => fan'.stale = fan.stale
  <2>1. CASE fan' = IdleDispatch
    BY <2>1 DEF IdleDispatch, Fans
  <2>2. CASE fan' = [fan EXCEPT !.todo = @ \ {r}]
    BY <1>2, <2>2 DEF Fans
  <2> QED BY <1>1, <2>1, <2>2
<1>5. PushTypes'
  BY <1>1, <1>3, <1>4 DEF PushTypes
<1>6. RowsAreReal' /\ StaleIsOld' /\ PutsAreCurrent'
  BY <1>1, <1>4 DEF RowsAreReal, RowIsReal, StaleIsOld, PutsAreCurrent
<1>7. BelievedMeansReachable'
  <2>1. ASSUME NEW g \in Handsets, g \notin swept', g \notin renewed, told[g] = fcm[g]
        PROVE  \E x \in rows' : x.cred = <<g, enrolled[g]>> /\ x.token = <<g, fcm[g]>>
    <3>1. PICK x \in rows : x.cred = <<g, enrolled[g]>> /\ x.token = <<g, fcm[g]>>
      BY <1>1, <2>1 DEF BelievedMeansReachable
    <3>2. x.cred[1] = g /\ x.token[1] = g /\ x.token[2] = fcm[g]
      BY <3>1
    <3>3. x # r
      BY <1>3, <3>2
    <3>4. CASE r \in rows
      BY <1>1, <3>1, <3>3, <3>4 DEF RowsAreReal
    <3>5. CASE r \notin rows
      <4>1. x.cred # r.cred
        BY <1>1, <2>1, <3>2, <3>5
      <4> QED BY <1>1, <3>1, <4>1 DEF RowsAreReal
    <3> QED BY <3>4, <3>5
  <2> QED BY <1>1, <2>1 DEF BelievedMeansReachable
<1> QED BY <1>1, <1>2, <1>5, <1>6, <1>7

LEMMA PushStepInv == PushInv /\ [PushNext]_pushVars => PushInv'
<1> SUFFICES ASSUME PushInv, [PushNext]_pushVars PROVE PushInv'
  OBVIOUS
<1>1. CASE UNCHANGED pushVars
  BY <1>1 DEF pushVars, PushInv, PushTypes, RowsAreReal, RowIsReal, StaleIsOld, PutsAreCurrent,
      BelievedMeansReachable
<1>2. ASSUME NEW h \in Handsets,
             Rotate(h) \/ RegisterToken(h) \/ FinishRegister(h) \/ RevokeAndRenew(h)
      PROVE  PushInv'
  BY <1>2, RotateInv, RegisterTokenInv, FinishRegisterInv, RevokeAndRenewInv
<1>3. CASE Dispatch \/ Collect \/ DeleteThrows
  BY <1>3, DispatchInv, CollectInv
<1>4. ASSUME NEW r \in fan.todo, SendToRow(r) \/ Delete(r)
      PROVE  PushInv'
  BY <1>4, SendToRowInv, DeleteInv
<1> QED BY <1>1, <1>2, <1>3, <1>4 DEF PushNext

\* The two action properties, for one step: only a dispatch starts to send, and only a deletion
\* removes a row.
LEMMA PushStepRight ==
    ASSUME PushInv, [PushNext]_pushVars
    PROVE  /\ fan.pc = "idle" /\ fan'.pc = "sending" => \A r \in fan'.todo : r.cred \notin revokedC
           /\ \A r \in rows \ rows' : \E x \in rows' \cup fan.stale : x.id = r.id
<1>1. CASE UNCHANGED pushVars
  BY <1>1 DEF pushVars
<1>2. ASSUME NEW h \in Handsets, Rotate(h) \/ RegisterToken(h) \/ RevokeAndRenew(h)
      PROVE  fan' = fan /\ rows' = rows
  BY <1>2 DEF Rotate, RegisterToken, RevokeAndRenew
<1>3. ASSUME NEW h \in Handsets, FinishRegister(h)
      PROVE  fan' = fan /\ \A r \in rows : \E x \in rows' : x.id = r.id
  BY <1>3, FinishRegisterInv DEF FinishRegister
<1>4. Dispatch => rows' = rows /\ (fan'.pc = "sending" => \A r \in fan'.todo : r.cred \notin revokedC)
  BY DispatchInv DEF Dispatch
<1>5. Collect \/ DeleteThrows => rows' = rows /\ fan.pc # "idle"
  BY DEF Collect, DeleteThrows
<1>6. ASSUME NEW r \in fan.todo, SendToRow(r)
      PROVE  rows' = rows /\ fan.pc # "idle"
  BY <1>6 DEF SendToRow
<1>7. ASSUME NEW r \in fan.todo, Delete(r)
      PROVE  /\ fan.pc # "idle"
             /\ \A y \in rows \ rows' : \E x \in rows' \cup fan.stale : x.id = y.id
  BY <1>7, DeleteInv DEF Delete
<1>8. CASE \E h \in Handsets :
             Rotate(h) \/ RegisterToken(h) \/ FinishRegister(h) \/ RevokeAndRenew(h)
  BY <1>2, <1>3, <1>8
<1>9. CASE Dispatch \/ Collect \/ DeleteThrows
  BY <1>4, <1>5, <1>9
<1>10. CASE \E r \in fan.todo : SendToRow(r) \/ Delete(r)
  BY <1>6, <1>7, <1>10
<1> QED BY <1>1, <1>8, <1>9, <1>10 DEF PushNext

(* A wake finds its handset (lib/cas-push.ts, CapturePush.registerToken): one   *)
(* that takes its token for registered has a row with it, but for the two       *)
(* exceptions the property names; no dispatch sends to a credential revoked     *)
(* before it started; and a registration is deleted only after FCM called its   *)
(* token dead, however many handsets, rotations, lost answers and dispatches    *)
(* there are.                                                                   *)
THEOREM WakesFindTheirHandsetHolds == PushSpec => WakesFindTheirHandset
<1>1. PushInv => BelievedMeansReachable
  BY DEF PushInv
<1>2. PushInv /\ [PushNext]_pushVars =>
        [fan.pc = "idle" /\ fan'.pc = "sending" => \A r \in fan'.todo : r.cred \notin revokedC]_pushVars
  BY PushStepRight
<1>3. PushInv /\ [PushNext]_pushVars =>
        [\A r \in rows \ rows' : \E x \in rows' \cup fan.stale : x.id = r.id]_pushVars
  BY PushStepRight
<1>4. PushSpec => []PushInv
  BY PushInitInv, PushStepInv, PTL DEF PushSpec
<1> QED BY <1>1, <1>2, <1>3, <1>4, PTL DEF PushSpec, WakesFindTheirHandset, RevokedIsNotWoken,
      OnlyDeadTokensDropped

-----------------------------------------------------------------------------
(* ProviderDelivery.                                                         *)

Steps == {"idle", "roster", "primary", "fallback row", "sink", "next",
          "mail", "mail fallback", "post", "record"}
Jobs == [pc : Steps, path : {None, "env", "console"}, to : SUBSET Recipients,
         todo : SUBSET Recipients, cur : Recipients \cup {None},
         primary : MailboxHosts \cup {None}, fallback : MailboxHosts \cup {None},
         by : SUBSET Identities, accepted : Identities \cup {None}]

PDTypes ==
    /\ PDTypeOK /\ job \in [Workers -> Jobs]
    /\ copies \in [Recipients -> Nat] /\ excuse \in [Recipients -> Nat]

\* A send past the configuration has somebody to send to; whoever is done was taken by one the
\* receipt will name; the step it is at fits the wiring.
Resolved == {"next", "mail", "mail fallback", "post", "record"}
JobIsSound(j) ==
    /\ j.todo \subseteq j.to
    /\ j.pc \in Resolved \cup {"sink"} => j.to # {}
    /\ j.pc \in Resolved \cup {"primary", "fallback row"} =>
          \A r \in j.to \ j.todo : j.by \cap got[r] # {}
    /\ j.pc \in Resolved \ {"next"} => j.cur \in Recipients
    /\ j.pc = "sink" => j.path = "env" /\ wiring.env = "harness"
    /\ j.pc = "primary" => j.path = "env" /\ wiring.transport = "EMAIL"
    /\ j.pc \in Resolved \cup {"fallback row"} /\ j.path = "console"
          => j.primary \in MailboxHosts /\ wiring.transport = "EMAIL"
    /\ j.pc = "fallback row" => j.path = "console"
    /\ j.pc = "mail" => j.path = "console" \/ wiring.env = "smtp"
    /\ j.pc = "mail fallback" => j.path = "console" /\ j.fallback \in MailboxHosts
    /\ j.pc = "post" => j.path # "console" /\ wiring.env # "smtp"
    /\ j.pc = "record" => j.accepted \in got[j.cur]
JobsAreSound == \A w \in Workers : JobIsSound(job[w])

\* Only a gateway's URL and the harness's adapter lead to the dev sink.
DrillsOnly ==
    /\ wiring.env # "gateway" => \A w \in Workers : url[w] = "gateway"
    /\ wiring.env \notin {"gateway", "harness"} => \A r \in Recipients : "dev-sink" \notin got[r]

\* The attempts at a recipient that, once accepted, will be written into the ledger; whether an
\* acceptance is about to be written, whether it has been forgotten, and whether the gateway
\* itself knows of one.
Tries(j) == j.pc \in {"mail", "mail fallback"} \/ (j.pc = "post" /\ wiring.transport = "WHATSAPP")
Trying(r) == {w \in Workers : job[w].cur = r /\ Tries(job[w])}
Recording(r) == \E w \in Workers : job[w].cur = r /\ job[w].pc = "record"
Forgotten(r) == ledger[r] = None /\ ~Recording(r)
Keyed(r) == wiring.replays /\ r \in known["gateway"]

\* Mishaps pay for the copies: those made, and those that the attempts under way may still make.
Paid(r) ==
    /\ copies[r] <= excuse[r] + 1
    /\ ~Keyed(r) => copies[r] + Cardinality(Trying(r)) <= excuse[r] + 1
    /\ ~Keyed(r) /\ Forgotten(r) /\ Trying(r) = {} => copies[r] <= excuse[r]
    /\ ~Keyed(r) /\ wiring.transport = "GATEWAY" => copies[r] = 0
CopiesArePaid == \A r \in Recipients : Paid(r)

PDInv ==
    /\ PDTypes /\ JobsAreSound /\ DrillsOnly /\ LedgerNamesAcceptor /\ CopiesArePaid

RowRecords == [state : {"DUE", "PROCESSING", "SENT"}, owner : Workers \cup {None},
               receipt : SUBSET Identities, to : SUBSET Recipients]

\* What the code's types say of the state, in the form the steps need.
LEMMA PDTypeFacts ==
    ASSUME PDTypes
    PROVE  /\ wiring \in Wirings /\ url \in [Workers -> Endpoints]
           /\ mailbox \in [MailSlots -> MailboxHosts \cup {None}]
           /\ roster \in (SUBSET Recipients) \cup {None}
           /\ ledger \in [Recipients -> Identities \cup {None}]
           /\ known \in [Endpoints -> SUBSET Recipients]
           /\ row \in RowRecords
           /\ job \in [Workers -> Jobs]
           /\ got \in [Recipients -> SUBSET Identities]
           /\ copies \in [Recipients -> Nat] /\ excuse \in [Recipients -> Nat]
BY DEF PDTypes, PDTypeOK, RowRecords

LEMMA JobFields ==
    ASSUME NEW j \in Jobs
    PROVE  /\ j.pc \in Steps /\ j.path \in {None, "env", "console"}
           /\ j.to \in SUBSET Recipients /\ j.todo \in SUBSET Recipients
           /\ j.cur \in Recipients \cup {None}
           /\ j.primary \in MailboxHosts \cup {None} /\ j.fallback \in MailboxHosts \cup {None}
           /\ j.by \in SUBSET Identities /\ j.accepted \in Identities \cup {None}
BY DEF Jobs

LEMMA NoJobIsSound == NoJob \in Jobs /\ NoJob.pc = "idle" /\ NoJob.cur = None /\ JobIsSound(NoJob)
<1>1. NoJob \in Jobs /\ NoJob.pc = "idle" /\ NoJob.cur = None /\ NoJob.todo = {} /\ NoJob.to = {}
  BY DEF NoJob, Jobs, Steps
<1> QED BY <1>1 DEF JobIsSound, Resolved

\* One worker's move: what becomes of the attempts at a recipient.
LEMMA Moves ==
    ASSUME PDTypes, NEW w \in Workers, NEW j \in Jobs, job' = [job EXCEPT ![w] = j],
           wiring' = wiring, NEW r \in Recipients
    PROVE  /\ (j.cur = r /\ Tries(j)) => Trying(r)' = Trying(r) \cup {w}
           /\ ~(j.cur = r /\ Tries(j)) => Trying(r)' = Trying(r) \ {w}
           /\ w \in Trying(r) <=> job[w].cur = r /\ Tries(job[w])
           /\ Trying(r) \subseteq Workers
           /\ Cardinality(Trying(r)) \in Nat /\ Cardinality(Trying(r)') \in Nat
           /\ w \in Trying(r) => Cardinality(Trying(r)) >= 1
           /\ (j.cur = r /\ Tries(j)) /\ w \in Trying(r)
                 => Cardinality(Trying(r)') = Cardinality(Trying(r))
           /\ (j.cur = r /\ Tries(j)) /\ w \notin Trying(r)
                 => Cardinality(Trying(r)') = Cardinality(Trying(r)) + 1
           /\ ~(j.cur = r /\ Tries(j)) /\ w \in Trying(r)
                 => Cardinality(Trying(r)') = Cardinality(Trying(r)) - 1
           /\ ~(j.cur = r /\ Tries(j)) /\ w \notin Trying(r)
                 => Cardinality(Trying(r)') = Cardinality(Trying(r))
           /\ j.cur = r /\ j.pc = "record" => Recording(r)'
           /\ Recording(r) /\ ~(job[w].cur = r /\ job[w].pc = "record") => Recording(r)'
<1>1. /\ job \in [Workers -> Jobs] /\ job'[w] = j
      /\ \A v \in Workers : v # w => job'[v] = job[v]
  BY DEF PDTypes
<1>2. \A k : Tries(k)' <=> Tries(k)
  BY DEF Tries
<1>3. Trying(r)' = {v \in Workers : job'[v].cur = r /\ Tries(job'[v])}
  BY DEF Trying, Tries
<1>4. /\ (j.cur = r /\ Tries(j)) => Trying(r)' = Trying(r) \cup {w}
      /\ ~(j.cur = r /\ Tries(j)) => Trying(r)' = Trying(r) \ {w}
  BY <1>1, <1>3 DEF Trying
<1>5. /\ w \in Trying(r) <=> job[w].cur = r /\ Tries(job[w])
      /\ Trying(r) \subseteq Workers
  BY DEF Trying
<1>6. IsFiniteSet(Trying(r))
  BY <1>5, FS_Subset, ProviderAssumption
<1>7. /\ IsFiniteSet(Trying(r) \cup {w}) /\ IsFiniteSet(Trying(r) \ {w})
      /\ Cardinality(Trying(r) \cup {w}) =
            IF w \in Trying(r) THEN Cardinality(Trying(r)) ELSE Cardinality(Trying(r)) + 1
      /\ Cardinality(Trying(r) \ {w}) =
            IF w \in Trying(r) THEN Cardinality(Trying(r)) - 1 ELSE Cardinality(Trying(r))
  BY <1>6, FS_AddElement, FS_RemoveElement
<1>8. /\ Cardinality(Trying(r)) \in Nat /\ Cardinality(Trying(r) \cup {w}) \in Nat
      /\ Cardinality(Trying(r) \ {w}) \in Nat
  BY <1>6, <1>7, FS_CardinalityType
<1>9. w \in Trying(r) => Cardinality(Trying(r)) >= 1
  BY <1>7, <1>8
<1>10. /\ j.cur = r /\ j.pc = "record" => Recording(r)'
       /\ Recording(r) /\ ~(job[w].cur = r /\ job[w].pc = "record") => Recording(r)'
  BY <1>1 DEF Recording
<1> HIDE DEF Trying
<1> QED BY <1>4, <1>5, <1>7, <1>8, <1>9, <1>10

\* A worker that moves, and does not attempt r or await its record after it, owes nothing: only
\* giving up a record takes a mishap.
LEMMA Leaves ==
    ASSUME PDTypes, CopiesArePaid, NEW w \in Workers, NEW j \in Jobs,
           job' = [job EXCEPT ![w] = j], wiring' = wiring, NEW r \in Recipients,
           ~(j.cur = r /\ (Tries(j) \/ j.pc = "record")),
           copies'[r] = copies[r], excuse'[r] \in Nat, excuse'[r] >= excuse[r],
           job[w].cur = r /\ job[w].pc = "record" =>
               ledger'[r] # None \/ excuse'[r] >= excuse[r] + 1,
           ledger'[r] = ledger[r] \/ ledger'[r] # None, Keyed(r)' <=> Keyed(r)
    PROVE  Paid(r)'
<1>1. Paid(r) /\ copies[r] \in Nat /\ excuse[r] \in Nat
  BY DEF CopiesArePaid, PDTypes
<1> DEFINE t == Cardinality(Trying(r))
           u == Cardinality(Trying(r)')
<1>2. /\ Trying(r)' = Trying(r) \ {w}
      /\ w \in Trying(r) => t >= 1 /\ u = t - 1
      /\ w \notin Trying(r) => u = t
      /\ t \in Nat /\ u \in Nat
      /\ Recording(r) /\ ~(job[w].cur = r /\ job[w].pc = "record") => Recording(r)'
  <2>1. ~(j.cur = r /\ Tries(j))
    OBVIOUS
  <2> QED BY <2>1, Moves
<1> HIDE DEF t, u
<1>3. copies'[r] <= excuse'[r] + 1
  BY <1>1 DEF Paid
<1>4. ~Keyed(r) => copies[r] + t <= excuse[r] + 1
  BY <1>1 DEF Paid, t
<1>5. ~Keyed(r)' => copies'[r] + u <= excuse'[r] + 1
  BY <1>1, <1>2, <1>4
<1>6. ASSUME ~Keyed(r)', Forgotten(r)', Trying(r)' = {}
      PROVE  copies'[r] <= excuse'[r]
  <2>1. CASE w \in Trying(r)
    BY <1>1, <1>2, <1>4, <1>6, <2>1
  <2>2. CASE w \notin Trying(r) /\ Recording(r)
    <3>1. job[w].cur = r /\ job[w].pc = "record" /\ ledger'[r] = None
      BY <1>2, <1>6, <2>2 DEF Forgotten
    <3>2. copies[r] <= excuse[r] + 1
      BY <1>1 DEF Paid
    <3> QED BY <1>1, <3>1, <3>2
  <2>3. CASE w \notin Trying(r) /\ ~Recording(r)
    <3>1. Trying(r) = {} /\ Forgotten(r) /\ ~Keyed(r)
      BY <1>2, <1>6, <2>3 DEF Forgotten
    <3>2. copies[r] <= excuse[r]
      BY <1>1, <3>1 DEF Paid
    <3> QED BY <1>1, <3>2
  <2> QED BY <2>1, <2>2, <2>3
<1>7. ~Keyed(r)' /\ wiring'.transport = "GATEWAY" => copies'[r] = 0
  BY <1>1 DEF Paid
<1>8. ~Keyed(r)' => copies'[r] + Cardinality(Trying(r)') <= excuse'[r] + 1
  BY <1>5 DEF u
<1> QED BY <1>3, <1>6, <1>7, <1>8 DEF Paid

\* What a worker's step has to show.
LEMMA WorkerStep ==
    ASSUME PDInv, NEW w \in Workers, NEW j \in Jobs, job' = [job EXCEPT ![w] = j],
           UNCHANGED <<wiring, mailbox, roster>>, row' \in RowRecords,
           url' \in [Workers -> Endpoints],
           wiring.env # "gateway" => \A v \in Workers : url'[v] = "gateway",
           ledger' \in [Recipients -> Identities \cup {None}],
           known' \in [Endpoints -> SUBSET Recipients],
           got' \in [Recipients -> SUBSET Identities], \A r \in Recipients : got[r] \subseteq got'[r],
           copies' \in [Recipients -> Nat], excuse' \in [Recipients -> Nat],
           JobIsSound(j)',
           wiring.env \notin {"gateway", "harness"} => \A r \in Recipients : "dev-sink" \notin got'[r],
           \A r \in Recipients : ledger'[r] # None => ledger'[r] \in got'[r],
           \A r \in Recipients : Paid(r)'
    PROVE  PDInv'
<1> USE DEF PDInv
<1>1. job' \in [Workers -> Jobs] /\ job'[w] = j /\ \A v \in Workers : v # w => job'[v] = job[v]
  BY DEF PDTypes
<1>2. \A v \in Workers : job'[v].todo \subseteq job'[v].to
  <2>1. ASSUME NEW v \in Workers PROVE job'[v].todo \subseteq job'[v].to
    <3>1. CASE v = w
      BY <1>1, <3>1 DEF JobIsSound
    <3>2. CASE v # w
      BY <1>1, <3>2 DEF JobsAreSound, JobIsSound
    <3> QED BY <3>1, <3>2
  <2> QED BY <2>1
<1>3. \A v \in Workers : job'[v].by \subseteq Identities
  BY <1>1, JobFields
<1>4. PDTypes'
  BY <1>1, <1>2, <1>3, PDTypeFacts DEF PDTypes, PDTypeOK, RowRecords
<1>5. JobsAreSound'
  <2>1. ASSUME NEW v \in Workers PROVE JobIsSound(job[v])'
    <3>1. CASE v = w
      BY <1>1, <3>1 DEF JobIsSound
    <3>2. CASE v # w
      <4>1. PICK k \in Jobs : k = job[v] /\ k = job'[v]
        BY <1>1, <3>2, PDTypeFacts
      <4>2. JobIsSound(k)
        BY <4>1 DEF JobsAreSound
      <4>3. k.cur \in Recipients \cup {None} /\ k.to \in SUBSET Recipients
        BY JobFields
      <4>4. k.pc \in Resolved \cup {"primary", "fallback row"} =>
                \A r \in k.to \ k.todo : k.by \cap got'[r] # {}
        BY <4>2, <4>3 DEF JobIsSound
      <4>5. k.pc = "record" => k.accepted \in got'[k.cur]
        BY <4>2, <4>3 DEF JobIsSound, Resolved
      <4>6. JobIsSound(k)'
        BY <4>2, <4>4, <4>5 DEF JobIsSound
      <4> QED BY <4>1, <4>6 DEF JobIsSound
    <3> QED BY <3>1, <3>2
  <2> QED BY <2>1 DEF JobsAreSound
<1>6. DrillsOnly' /\ LedgerNamesAcceptor' /\ CopiesArePaid'
  BY DEF DrillsOnly, LedgerNamesAcceptor, CopiesArePaid
<1> QED BY <1>4, <1>5, <1>6

\* A step that only moves the worker on.
LEMMA QuietJob ==
    ASSUME PDInv, NEW w \in Workers, NEW j \in Jobs, job' = [job EXCEPT ![w] = j],
           UNCHANGED <<wiring, url, mailbox, roster, ledger, known, got, copies>>,
           row' \in RowRecords, JobIsSound(j), ~Tries(j), j.pc # "record",
           excuse' \in [Recipients -> Nat],
           \A r \in Recipients : excuse'[r] >= excuse[r],
           job[w].pc = "record" => excuse'[job[w].cur] >= excuse[job[w].cur] + 1
    PROVE  PDInv'
<1> USE DEF PDInv
<1>1. JobIsSound(j)'
  BY DEF JobIsSound
<1>2. ASSUME NEW r \in Recipients PROVE Paid(r)'
  <2>1. copies'[r] = copies[r] /\ ledger'[r] = ledger[r] /\ (Keyed(r)' <=> Keyed(r))
        /\ excuse'[r] \in Nat /\ wiring' = wiring
    BY DEF Keyed
  <2> QED BY <2>1, Leaves
<1>3. url' \in [Workers -> Endpoints] /\ (wiring.env # "gateway" => \A v \in Workers : url'[v] = "gateway")
  BY PDTypeFacts DEF DrillsOnly
<1>4. /\ ledger' \in [Recipients -> Identities \cup {None}]
      /\ known' \in [Endpoints -> SUBSET Recipients]
      /\ got' \in [Recipients -> SUBSET Identities] /\ copies' \in [Recipients -> Nat]
      /\ \A r \in Recipients : got[r] \subseteq got'[r]
  BY PDTypeFacts
<1>5. wiring.env \notin {"gateway", "harness"} => \A r \in Recipients : "dev-sink" \notin got'[r]
  BY DEF DrillsOnly
<1>6. \A r \in Recipients : ledger'[r] # None => ledger'[r] \in got'[r]
  BY DEF LedgerNamesAcceptor
<1> QED BY <1>1, <1>2, <1>3, <1>4, <1>5, <1>6, WorkerStep

\* The row after a failure, and after a completion.
LEMMA FailsRow ==
    ASSUME row \in RowRecords, NEW w \in Workers, Fail(w)
    PROVE  /\ row' \in RowRecords /\ job' = [job EXCEPT ![w] = NoJob]
           /\ row'.state = "SENT" => row.state = "SENT"
<1>1. [row EXCEPT !.state = "DUE", !.owner = None] \in RowRecords
  BY DEF RowRecords
<1>2. [row EXCEPT !.state = "DUE", !.owner = None].state = "DUE"
  BY DEF RowRecords
<1> QED BY <1>1, <1>2 DEF Fail, Goto

\* A failure that leaves the world alone, and no record behind.
LEMMA QuietFail ==
    ASSUME PDInv, NEW w \in Workers, Fail(w), job[w].pc # "record",
           UNCHANGED <<wiring, url, mailbox, roster, ledger, known, got, copies, excuse>>
    PROVE  PDInv'
<1>1. row \in RowRecords /\ excuse \in [Recipients -> Nat]
  BY PDTypeFacts DEF PDInv
<1>2. row' \in RowRecords /\ job' = [job EXCEPT ![w] = NoJob]
  BY <1>1, FailsRow
<1>3. NoJob \in Jobs /\ JobIsSound(NoJob) /\ ~Tries(NoJob) /\ NoJob.pc # "record"
  BY NoJobIsSound DEF Tries
<1>4. excuse' \in [Recipients -> Nat] /\ \A r \in Recipients : excuse'[r] >= excuse[r]
  BY <1>1
<1> QED BY <1>2, <1>3, <1>4, QuietJob

LEMMA PDInitInv == PDInit => PDInv
<1> SUFFICES ASSUME PDInit PROVE PDInv
  OBVIOUS
<1> USE DEF PDInit
<1>1. EnvRecipients \subseteq Recipients /\ None \notin Identities
  BY ProviderAssumption
<1>2. "gateway" \in Endpoints /\ Urls \subseteq Endpoints /\ url \in [Workers -> Endpoints]
  BY DEF Urls, Endpoints
<1>3. mailbox \in [MailSlots -> MailboxHosts \cup {None}]
  BY DEF MailSlots
<1>4. \A w \in Workers : job[w] = NoJob
  OBVIOUS
<1>5. row \in RowRecords
  BY DEF RowRecords
<1>6. known \in [Endpoints -> SUBSET Recipients] /\ (\A r \in Recipients : ~Keyed(r))
  <2>1. \A e \in Endpoints : known[e] = {}
    OBVIOUS
  <2> QED BY <1>2, <2>1 DEF Keyed
<1>7. PDTypes
  BY <1>1, <1>2, <1>3, <1>4, <1>5, <1>6, NoJobIsSound, JobFields, Zenon DEF PDTypes, PDTypeOK, RowRecords, NoJob
<1>8. JobsAreSound
  BY <1>4, NoJobIsSound DEF JobsAreSound
<1>9. DrillsOnly
  <2>1. wiring.env # "gateway" => \A w \in Workers : url[w] = "gateway"
    BY DEF Urls
  <2> QED BY <2>1 DEF DrillsOnly
<1>10. LedgerNamesAcceptor
  BY DEF LedgerNamesAcceptor
<1>11. CopiesArePaid
  <2>1. ASSUME NEW r \in Recipients PROVE Paid(r)
    <3>1. Trying(r) = {}
      BY <1>4, NoJobIsSound DEF Trying, Tries
    <3>2. copies[r] = 0 /\ excuse[r] = 0 /\ Cardinality(Trying(r)) = 0
      BY <3>1, FS_EmptySet
    <3> QED BY <3>2 DEF Paid
  <2> QED BY <2>1 DEF CopiesArePaid
<1> QED BY <1>7, <1>8, <1>9, <1>10, <1>11 DEF PDInv

-----------------------------------------------------------------------------
(* The steps of a send that only read.                                       *)

LEMMA ClaimInv ==
    ASSUME PDInv, NEW w \in Workers, Claim(w)
    PROVE  PDInv' /\ row'.state # "SENT"
<1>1. /\ job[w].pc = "idle" /\ job' = [job EXCEPT ![w] = [NoJob EXCEPT !.pc = "roster"]]
      /\ row' = [row EXCEPT !.state = "PROCESSING", !.owner = w]
      /\ UNCHANGED <<wiring, url, mailbox, roster, ledger, known, got, copies, excuse>>
  BY DEF Claim, Goto, World
<1>2. row \in RowRecords /\ excuse \in [Recipients -> Nat]
  BY PDTypeFacts DEF PDInv
<1>3. PICK j \in Jobs : j = [NoJob EXCEPT !.pc = "roster"]
  BY NoJobIsSound DEF Jobs, Steps
<1>4. j.pc = "roster" /\ j.todo = {} /\ j.to = {}
  BY <1>3 DEF NoJob
<1>5. JobIsSound(j) /\ ~Tries(j)
  BY <1>4 DEF JobIsSound, Resolved, Tries
<1>6. row' \in RowRecords /\ row'.state = "PROCESSING"
  BY <1>1, <1>2 DEF RowRecords
<1>7. excuse' \in [Recipients -> Nat] /\ \A r \in Recipients : excuse'[r] >= excuse[r]
  BY <1>1, <1>2
<1>8. PDInv'
  BY <1>1, <1>3, <1>4, <1>5, <1>6, <1>7, QuietJob
<1> QED BY <1>6, <1>8

LEMMA ReadRosterInv ==
    ASSUME PDInv, NEW w \in Workers, ReadRoster(w)
    PROVE  PDInv' /\ (row'.state = "SENT" => row.state = "SENT")
<1> DEFINE to == IF roster = None THEN EnvRecipients ELSE roster
           consoleEmail == wiring.transport = "EMAIL" /\ wiring.env # "harness"
           unconfigured == wiring.transport # "EMAIL" /\ wiring.env = "none"
           next == [job[w] EXCEPT !.to = to, !.todo = to, !.path = "env",
                             !.pc = CASE wiring.env = "harness" -> "sink"
                                      [] consoleEmail -> "primary" [] OTHER -> "next"]
<1>1. /\ job[w].pc = "roster"
      /\ \/ Fail(w)
         \/ (to # {} \/ consoleEmail) /\ job' = [job EXCEPT ![w] = next] /\ UNCHANGED row
      /\ UNCHANGED <<wiring, url, mailbox, roster, ledger, known, got, copies, excuse>>
  BY DEF ReadRoster, Goto, Outside, World
<1>2. row \in RowRecords /\ excuse \in [Recipients -> Nat] /\ job[w] \in Jobs
      /\ roster \in (SUBSET Recipients) \cup {None}
  BY PDTypeFacts DEF PDInv
<1>3. CASE Fail(w)
  BY <1>1, <1>2, <1>3, QuietFail, FailsRow
<1>4. CASE (to # {} \/ consoleEmail) /\ job' = [job EXCEPT ![w] = next] /\ UNCHANGED row
  <2>1. to \in SUBSET Recipients
    BY <1>2, ProviderAssumption
  <2>2. PICK pc \in Steps : pc = CASE wiring.env = "harness" -> "sink"
                                   [] consoleEmail -> "primary" [] OTHER -> "next"
    BY DEF Steps
  <2>3. next = [job[w] EXCEPT !.to = to, !.todo = to, !.path = "env", !.pc = pc]
    BY <2>2
  <2> HIDE DEF next
  <2>4. next \in Jobs /\ next.to = to /\ next.todo = to /\ next.path = "env" /\ next.pc = pc
    BY <1>2, <2>1, <2>3 DEF Jobs
  <2>5. PICK j \in Jobs : j = next
    BY <2>4
  <2>6. /\ pc \in {"sink", "primary", "next"}
        /\ pc = "sink" => wiring.env = "harness" /\ ~consoleEmail
        /\ pc = "primary" => wiring.transport = "EMAIL"
        /\ pc = "next" => ~consoleEmail
    BY <2>2
  <2>7. JobIsSound(j) /\ ~Tries(j) /\ j.pc # "record"
    BY <1>4, <2>4, <2>5, <2>6 DEF JobIsSound, Resolved, Tries
  <2>8. job' = [job EXCEPT ![w] = j] /\ row' \in RowRecords /\ row' = row
    BY <1>2, <1>4, <2>5
  <2>9. excuse' \in [Recipients -> Nat] /\ \A r \in Recipients : excuse'[r] >= excuse[r]
    BY <1>1, <1>2
  <2>10. PDInv'
    BY <1>1, <2>7, <2>8, <2>9, QuietJob
  <2> QED BY <2>8, <2>10
<1> QED BY <1>1, <1>3, <1>4

LEMMA ReadPrimaryInv ==
    ASSUME PDInv, NEW w \in Workers, ReadPrimary(w)
    PROVE  PDInv' /\ (row'.state = "SENT" => row.state = "SENT")
<1>1. /\ job[w].pc = "primary"
      /\ \/ Fail(w)
         \/ /\ mailbox["primary"] # None /\ UNCHANGED row
            /\ job' = [job EXCEPT ![w] = [job[w] EXCEPT !.primary = mailbox["primary"],
                                              !.path = "console", !.pc = "fallback row"]]
         \/ /\ job[w].to # {} /\ UNCHANGED row
            /\ job' = [job EXCEPT ![w] = [job[w] EXCEPT !.pc = "next"]]
      /\ UNCHANGED <<wiring, url, mailbox, roster, ledger, known, got, copies, excuse>>
  BY DEF ReadPrimary, Goto, Outside, World
<1>2. row \in RowRecords /\ excuse \in [Recipients -> Nat] /\ job[w] \in Jobs
      /\ mailbox["primary"] \in MailboxHosts \cup {None}
  BY PDTypeFacts DEF PDInv, MailSlots
<1>3. JobIsSound(job[w]) /\ excuse' \in [Recipients -> Nat] /\ \A r \in Recipients : excuse'[r] >= excuse[r]
  <2>1. JobIsSound(job[w])
    BY DEF PDInv, JobsAreSound
  <2>2. excuse' = excuse
    BY <1>1
  <2>3. excuse' \in [Recipients -> Nat] /\ \A r \in Recipients : excuse'[r] >= excuse[r]
    BY <1>2, <2>2
  <2> QED BY <2>1, <2>3
<1>4. CASE Fail(w)
  BY <1>1, <1>2, <1>4, QuietFail, FailsRow
<1>5. ASSUME NEW j \in Jobs, job' = [job EXCEPT ![w] = j], UNCHANGED row,
             j.pc \in {"fallback row", "next"}, JobIsSound(j)
      PROVE  PDInv' /\ row' = row
  <2>1. ~Tries(j) /\ j.pc # "record" /\ row' \in RowRecords
    BY <1>2, <1>5 DEF Tries
  <2> QED BY <1>1, <1>3, <1>5, <2>1, QuietJob
<1>6. CASE /\ mailbox["primary"] # None /\ UNCHANGED row
           /\ job' = [job EXCEPT ![w] = [job[w] EXCEPT !.primary = mailbox["primary"],
                                              !.path = "console", !.pc = "fallback row"]]
  <2>1. PICK j \in Jobs : j = [job[w] EXCEPT !.primary = mailbox["primary"],
                                              !.path = "console", !.pc = "fallback row"]
    BY <1>2 DEF Jobs, Steps
  <2>2. j.pc = "fallback row" /\ j.path = "console" /\ j.primary = mailbox["primary"]
        /\ j.to = job[w].to /\ j.todo = job[w].todo /\ j.by = job[w].by
    BY <1>2, <2>1 DEF Jobs
  <2>3. JobIsSound(j)
    BY <1>1, <1>2, <1>3, <1>6, <2>2 DEF JobIsSound, Resolved
  <2> QED BY <1>5, <1>6, <2>1, <2>2, <2>3
<1>7. CASE /\ job[w].to # {} /\ UNCHANGED row
           /\ job' = [job EXCEPT ![w] = [job[w] EXCEPT !.pc = "next"]]
  <2>1. PICK j \in Jobs : j = [job[w] EXCEPT !.pc = "next"]
    BY <1>2 DEF Jobs, Steps
  <2>2. j.pc = "next" /\ j.path = job[w].path /\ j.to = job[w].to /\ j.todo = job[w].todo
        /\ j.by = job[w].by
    BY <1>2, <2>1 DEF Jobs
  <2>3. JobIsSound(j)
    BY <1>1, <1>2, <1>3, <1>7, <2>2 DEF JobIsSound, Resolved
  <2> QED BY <1>5, <1>7, <2>1, <2>2, <2>3
<1> QED BY <1>1, <1>4, <1>6, <1>7

LEMMA ReadFallbackInv ==
    ASSUME PDInv, NEW w \in Workers, ReadFallback(w)
    PROVE  PDInv' /\ (row'.state = "SENT" => row.state = "SENT")
<1>1. /\ job[w].pc = "fallback row"
      /\ \/ Fail(w)
         \/ /\ job[w].to # {} /\ UNCHANGED row
            /\ job' = [job EXCEPT ![w] = [job[w] EXCEPT !.fallback = mailbox["fallback"],
                                                        !.pc = "next"]]
      /\ UNCHANGED <<wiring, url, mailbox, roster, ledger, known, got, copies, excuse>>
  BY DEF ReadFallback, Goto, Outside, World
<1>2. row \in RowRecords /\ excuse \in [Recipients -> Nat] /\ job[w] \in Jobs
      /\ mailbox["fallback"] \in MailboxHosts \cup {None}
  BY PDTypeFacts DEF PDInv, MailSlots
<1>3. JobIsSound(job[w]) /\ excuse' \in [Recipients -> Nat] /\ \A r \in Recipients : excuse'[r] >= excuse[r]
  <2>1. JobIsSound(job[w])
    BY DEF PDInv, JobsAreSound
  <2>2. excuse' = excuse
    BY <1>1
  <2>3. excuse' \in [Recipients -> Nat] /\ \A r \in Recipients : excuse'[r] >= excuse[r]
    BY <1>2, <2>2
  <2> QED BY <2>1, <2>3
<1>4. CASE Fail(w)
  BY <1>1, <1>2, <1>4, QuietFail, FailsRow
<1>5. CASE /\ job[w].to # {} /\ UNCHANGED row
           /\ job' = [job EXCEPT ![w] = [job[w] EXCEPT !.fallback = mailbox["fallback"],
                                                       !.pc = "next"]]
  <2>1. PICK j \in Jobs : j = [job[w] EXCEPT !.fallback = mailbox["fallback"], !.pc = "next"]
    BY <1>2 DEF Jobs, Steps
  <2>2. j.pc = "next" /\ j.path = job[w].path /\ j.primary = job[w].primary
        /\ j.to = job[w].to /\ j.todo = job[w].todo /\ j.by = job[w].by
    BY <1>2, <2>1 DEF Jobs
  <2>3. JobIsSound(j) /\ ~Tries(j) /\ j.pc # "record"
    BY <1>1, <1>2, <1>3, <1>5, <2>2 DEF JobIsSound, Resolved, Tries
  <2>4. row' \in RowRecords /\ row' = row /\ job' = [job EXCEPT ![w] = j]
    BY <1>2, <1>5, <2>1
  <2> QED BY <1>1, <1>3, <2>3, <2>4, QuietJob
<1> QED BY <1>1, <1>4, <1>5

\* The receipt a finished send writes down: an honest one, by name if a mailbox of the console
\* sent it.
LEMMA ReceiptIsHonest ==
    ASSUME PDInv, NEW w \in Workers, job[w].pc = "next", job[w].todo = {}
    PROVE  /\ Receipt(w) \in SUBSET Identities /\ job[w].to # {}
           /\ \A r \in job[w].to :
                 got[r] # {} /\ ("dev-sink" \notin Receipt(w) => got[r] # {"dev-sink"})
           /\ job[w].path = "console" => \A r \in job[w].to : got[r] \cap Receipt(w) # {}
<1>1. /\ job[w] \in Jobs /\ JobIsSound(job[w]) /\ job[w].by \in SUBSET Identities
      /\ job[w].to \in SUBSET Recipients
  BY PDTypeFacts, JobFields DEF PDInv, JobsAreSound
<1>2. job[w].to # {} /\ \A r \in job[w].to : job[w].by \cap got[r] # {}
  BY <1>1 DEF JobIsSound, Resolved
<1>3. CASE job[w].path = "console"
  <2>1. Receipt(w) = job[w].by
    BY <1>3 DEF Receipt
  <2> QED BY <1>1, <1>2, <2>1
<1>4. CASE job[w].path # "console" /\ job[w].path = "env" /\ wiring.env = "smtp"
  <2>1. Receipt(w) = {EnvMailbox}
    BY <1>4 DEF Receipt
  <2>2. \A r \in job[w].to : "dev-sink" \notin got[r]
    BY <1>1, <1>4 DEF PDInv, DrillsOnly
  <2> QED BY <1>1, <1>2, <1>4, <2>1, <2>2 DEF Identities
<1>5. CASE job[w].path # "console" /\ ~(job[w].path = "env" /\ wiring.env = "smtp")
  <2>1. Receipt(w) = IF "dev-sink" \in job[w].by THEN {"dev-sink"} ELSE {"gateway"}
    BY <1>5 DEF Receipt
  <2>2. "dev-sink" \in Identities /\ "gateway" \in Identities
    BY DEF Identities, Endpoints
  <2>3. \A r \in job[w].to : "dev-sink" \notin job[w].by => got[r] # {"dev-sink"}
    BY <1>2
  <2> QED BY <1>2, <1>5, <2>1, <2>2, <2>3
<1> QED BY <1>3, <1>4, <1>5

LEMMA FinishInv ==
    ASSUME PDInv, NEW w \in Workers, Finish(w)
    PROVE  /\ PDInv'
           /\ row'.state = "SENT" /\ row.state # "SENT" =>
                 /\ row'.to # {} /\ row.owner = w
                 /\ \A r \in row'.to :
                       got[r] # {} /\ ("dev-sink" \notin row'.receipt => got[r] # {"dev-sink"})
                 /\ job[w].path = "console" => \A r \in row'.to : got[r] \cap row'.receipt # {}
<1>1. /\ job[w].pc = "next" /\ job[w].todo = {} /\ job' = [job EXCEPT ![w] = NoJob]
      /\ row' = IF StillOwns(w)
                THEN [row EXCEPT !.state = "SENT", !.owner = None,
                                 !.receipt = Receipt(w), !.to = job[w].to]
                ELSE row
      /\ UNCHANGED <<wiring, url, mailbox, roster, ledger, known, got, copies, excuse>>
  BY DEF Finish, Goto, Outside, World
<1>2. row \in RowRecords /\ excuse \in [Recipients -> Nat] /\ job[w] \in Jobs
  BY PDTypeFacts DEF PDInv
<1>3. job[w].to \in SUBSET Recipients
  BY <1>2, JobFields
<1>4. PICK receipt \in SUBSET Identities : receipt = Receipt(w)
  BY <1>1, ReceiptIsHonest
<1>4a. /\ NoJob \in Jobs /\ JobIsSound(NoJob) /\ ~Tries(NoJob) /\ NoJob.pc # "record"
      /\ excuse' \in [Recipients -> Nat] /\ \A r \in Recipients : excuse'[r] >= excuse[r]
      /\ job[w].pc # "record"
  <2>1. NoJob \in Jobs /\ JobIsSound(NoJob) /\ ~Tries(NoJob) /\ NoJob.pc # "record"
    BY NoJobIsSound DEF Tries
  <2> QED BY <1>1, <1>2, <2>1
<1>5. CASE StillOwns(w)
  <2>1. /\ row' \in RowRecords /\ row'.state = "SENT" /\ row'.receipt = Receipt(w)
        /\ row'.to = job[w].to
    BY <1>1, <1>2, <1>3, <1>4, <1>5 DEF RowRecords
  <2>2. PDInv'
    BY <1>1, <1>4a, <2>1, QuietJob
  <2>3. row.owner = w
    BY <1>5 DEF StillOwns
  <2> QED BY <1>1, <2>1, <2>2, <2>3, ReceiptIsHonest
<1>6. CASE ~StillOwns(w)
  <2>1. row' = row /\ row' \in RowRecords
    BY <1>1, <1>2, <1>6
  <2>2. PDInv'
    BY <1>1, <1>4a, <2>1, QuietJob
  <2> QED BY <2>1, <2>2
<1> QED BY <1>5, <1>6

-----------------------------------------------------------------------------
(* The steps that reach a recipient.                                         *)

\* Marking the whole list at the sink is nobody's attempt.
LEMMA FillSinkInv ==
    ASSUME PDInv, NEW w \in Workers, FillSink(w)
    PROVE  PDInv' /\ (row'.state = "SENT" => row.state = "SENT")
<1>1. /\ job[w].pc = "sink"
      /\ UNCHANGED <<wiring, url, mailbox, roster, ledger, copies, excuse>>
      /\ \/ /\ known' = [known EXCEPT !["dev-sink"] = @ \cup job[w].to]
            /\ got' = [r \in Recipients |-> got[r] \cup IF r \in job[w].to THEN {"dev-sink"} ELSE {}]
            /\ job' = [job EXCEPT ![w] = [job[w] EXCEPT !.pc = "next", !.todo = {}, !.by = {"dev-sink"}]]
            /\ UNCHANGED row
         \/ Fail(w) /\ UNCHANGED <<known, got>>
  BY DEF FillSink, Goto, Outside
<1>2. /\ row \in RowRecords /\ excuse \in [Recipients -> Nat] /\ copies \in [Recipients -> Nat]
      /\ job[w] \in Jobs /\ job[w].to \in SUBSET Recipients /\ JobIsSound(job[w])
      /\ got \in [Recipients -> SUBSET Identities] /\ known \in [Endpoints -> SUBSET Recipients]
      /\ "dev-sink" \in Identities
  BY PDTypeFacts, JobFields DEF PDInv, JobsAreSound, Identities, Endpoints
<1>3. CASE Fail(w) /\ UNCHANGED <<known, got>>
  BY <1>1, <1>2, <1>3, QuietFail, FailsRow
<1>4. CASE /\ known' = [known EXCEPT !["dev-sink"] = @ \cup job[w].to]
           /\ got' = [r \in Recipients |-> got[r] \cup IF r \in job[w].to THEN {"dev-sink"} ELSE {}]
           /\ job' = [job EXCEPT ![w] = [job[w] EXCEPT !.pc = "next", !.todo = {}, !.by = {"dev-sink"}]]
           /\ UNCHANGED row
  <2>1. PICK j \in Jobs : j = [job[w] EXCEPT !.pc = "next", !.todo = {}, !.by = {"dev-sink"}]
    BY <1>2 DEF Jobs, Steps
  <2>2. /\ j.pc = "next" /\ j.todo = {} /\ j.by = {"dev-sink"} /\ j.to = job[w].to
        /\ j.path = job[w].path /\ j.primary = job[w].primary
    BY <1>2, <2>1 DEF Jobs
  <2>3. /\ got' \in [Recipients -> SUBSET Identities]
        /\ \A r \in Recipients : got[r] \subseteq got'[r]
        /\ \A r \in job[w].to : "dev-sink" \in got'[r]
    BY <1>2, <1>4
  <2>4. wiring.env = "harness" /\ j.path # "console" /\ j.to # {}
    BY <1>1, <1>2, <2>2 DEF JobIsSound
  <2>5. JobIsSound(j)'
    <3>1. \A r \in j.to \ j.todo : j.by \cap got'[r] # {}
      BY <2>2, <2>3
    <3> QED BY <2>2, <2>4, <3>1 DEF JobIsSound, Resolved
  <2>6. known' \in [Endpoints -> SUBSET Recipients] /\ known'["gateway"] = known["gateway"]
    BY <1>2, <1>4 DEF Endpoints
  <2>7. ASSUME NEW r \in Recipients PROVE Paid(r)'
    <3>1. /\ ~(j.cur = r /\ (Tries(j) \/ j.pc = "record")) /\ job[w].pc # "record"
          /\ Keyed(r)' <=> Keyed(r)
      BY <1>1, <2>2, <2>6 DEF Tries, Keyed
    <3>2. /\ copies'[r] = copies[r] /\ excuse'[r] \in Nat /\ excuse'[r] >= excuse[r]
          /\ ledger'[r] = ledger[r] /\ wiring' = wiring /\ job' = [job EXCEPT ![w] = j]
      BY <1>1, <1>2, <1>4, <2>1
    <3> QED BY <3>1, <3>2, Leaves DEF PDInv
  <2>8. /\ url' \in [Workers -> Endpoints] /\ ledger' \in [Recipients -> Identities \cup {None}]
        /\ wiring.env # "gateway" => \A v \in Workers : url'[v] = "gateway"
        /\ row' \in RowRecords /\ row' = row
    BY <1>1, <1>2, <1>4, PDTypeFacts DEF PDInv, DrillsOnly
  <2>9. \A r \in Recipients : ledger'[r] # None => ledger'[r] \in got'[r]
    BY <1>1, <2>3 DEF PDInv, LedgerNamesAcceptor
  <2>10. PDInv'
    BY <1>1, <1>2, <1>4, <2>1, <2>3, <2>4, <2>5, <2>6, <2>7, <2>8, <2>9, WorkerStep
  <2> QED BY <2>8, <2>10
<1> QED BY <1>1, <1>3, <1>4

LEMMA NextRecipientInv ==
    ASSUME PDInv, NEW w \in Workers, NEW r \in Recipients, NextRecipient(w, r)
    PROVE  PDInv' /\ row' = row
<1> DEFINE others == OthersAt(w, r) # {}
           pc == IF ByMail(w) THEN "mail" ELSE "post"
<1>1. /\ job[w].pc = "next" /\ r \in job[w].todo
      /\ UNCHANGED <<wiring, url, mailbox, roster, ledger, row, known, got, copies>>
      /\ \/ /\ ledger[r] # None /\ UNCHANGED excuse
            /\ job' = [job EXCEPT ![w] = [job[w] EXCEPT !.todo = @ \ {r}, !.by = @ \cup {ledger[r]}]]
         \/ /\ UsesLedger(w) => ledger[r] = None
            /\ excuse' = [excuse EXCEPT ![r] = @ + Count(others)]
            /\ job' = [job EXCEPT ![w] = [job[w] EXCEPT !.cur = r, !.pc = pc]]
  BY DEF NextRecipient, Goto, Excuse, AlreadyAccepted, SkipProvenance, Outside
<1>2. /\ row \in RowRecords /\ excuse \in [Recipients -> Nat] /\ copies \in [Recipients -> Nat]
      /\ job[w] \in Jobs /\ JobIsSound(job[w])
      /\ ledger \in [Recipients -> Identities \cup {None}]
  BY PDTypeFacts DEF PDInv, JobsAreSound
<1> HIDE DEF others
<1>3. CASE /\ ledger[r] # None /\ UNCHANGED excuse
           /\ job' = [job EXCEPT ![w] = [job[w] EXCEPT !.todo = @ \ {r}, !.by = @ \cup {ledger[r]}]]
  <2>1. ledger[r] \in Identities /\ ledger[r] \in got[r]
    BY <1>2, <1>3 DEF PDInv, LedgerNamesAcceptor
  <2>2. job[w].todo \in SUBSET Recipients /\ job[w].by \in SUBSET Identities
    BY <1>2, JobFields
  <2>3. PICK j \in Jobs : j = [job[w] EXCEPT !.todo = @ \ {r}, !.by = @ \cup {ledger[r]}]
    BY <1>2, <2>1, <2>2 DEF Jobs
  <2>4. /\ j.pc = "next" /\ j.to = job[w].to /\ j.todo = job[w].todo \ {r}
        /\ j.by = job[w].by \cup {ledger[r]} /\ j.path = job[w].path /\ j.primary = job[w].primary
    BY <1>1, <1>2, <2>3 DEF Jobs
  <2>5. \A x \in j.to \ j.todo : j.by \cap got[x] # {}
    <3>1. \A x \in job[w].to \ job[w].todo : job[w].by \cap got[x] # {}
      BY <1>1, <1>2 DEF JobIsSound, Resolved
    <3> QED BY <2>1, <2>4, <3>1
  <2>6. JobIsSound(j) /\ ~Tries(j) /\ j.pc # "record"
    BY <1>1, <1>2, <2>4, <2>5 DEF JobIsSound, Resolved, Tries
  <2>7. excuse' \in [Recipients -> Nat] /\ \A x \in Recipients : excuse'[x] >= excuse[x]
    BY <1>2, <1>3
  <2> QED BY <1>1, <1>2, <1>3, <2>3, <2>6, <2>7, QuietJob
<1>4. CASE /\ UsesLedger(w) => ledger[r] = None
           /\ excuse' = [excuse EXCEPT ![r] = @ + Count(others)]
           /\ job' = [job EXCEPT ![w] = [job[w] EXCEPT !.cur = r, !.pc = pc]]
  <2>1. PICK j \in Jobs : j = [job[w] EXCEPT !.cur = r, !.pc = pc]
    BY <1>2 DEF Jobs, Steps
  <2>2. /\ j.pc = pc /\ j.to = job[w].to /\ j.todo = job[w].todo /\ j.cur = r
        /\ j.by = job[w].by /\ j.path = job[w].path /\ j.primary = job[w].primary
    BY <1>1, <1>2, <2>1 DEF Jobs
  <2>3. JobIsSound(j)'
    BY <1>1, <1>2, <2>2 DEF JobIsSound, Resolved, ByMail
  <2>4. Count(others) \in Nat /\ (others => Count(others) = 1)
    BY DEF Count
  <2>5. /\ excuse' \in [Recipients -> Nat] /\ excuse'[r] = excuse[r] + Count(others)
        /\ \A x \in Recipients : excuse'[x] >= excuse[x]
    BY <1>2, <1>4, <2>4
  <2>6. job' = [job EXCEPT ![w] = j] /\ wiring' = wiring
    BY <1>1, <1>4, <2>1
  <2>7. ASSUME NEW x \in Recipients PROVE Paid(x)'
    <3>1. copies'[x] = copies[x] /\ ledger'[x] = ledger[x] /\ (Keyed(x)' <=> Keyed(x))
      BY <1>1 DEF Keyed
    <3>2. CASE ~(x = r /\ Tries(j))
      <4>1. ~(j.cur = x /\ (Tries(j) \/ j.pc = "record")) /\ job[w].pc # "record"
        BY <1>1, <2>2, <3>2
      <4> QED BY <2>5, <2>6, <3>1, <4>1, Leaves DEF PDInv
    <3>3. CASE x = r /\ Tries(j)
      <4> DEFINE t == Cardinality(Trying(r))
                 u == Cardinality(Trying(r)')
      <4>1. w \notin Trying(r)
        BY <1>1 DEF Trying, Tries
      <4>2. Trying(r)' = Trying(r) \cup {w} /\ t \in Nat /\ u = t + 1
        BY <2>2, <2>6, <3>3, <4>1, Moves DEF PDInv
      <4> HIDE DEF u
      <4>3. Paid(r) /\ copies[r] \in Nat /\ excuse[r] \in Nat /\ Count(others) \in Nat
        BY <1>2, <2>4 DEF PDInv, CopiesArePaid
      <4>4. copies'[r] <= excuse'[r] + 1
        <5>1. copies[r] <= excuse[r] + 1
          BY <4>3 DEF Paid
        <5> QED BY <2>5, <3>1, <3>3, <4>3, <5>1
      <4>5. ~Keyed(r) => copies[r] + t <= excuse[r] + 1
        BY <4>3 DEF Paid
      <4>6. ASSUME ~Keyed(r), ~others PROVE copies[r] <= excuse[r] /\ t = 0
        <5>1. \A v \in Workers : v # w => job[v].cur # r
          BY <4>6 DEF others, OthersAt
        <5>2. Trying(r) = {} /\ ~Recording(r)
          BY <1>1, <4>1, <5>1 DEF Trying, Recording
        <5>3. UsesLedger(w)
          BY <2>2, <3>3 DEF Tries, UsesLedger
        <5>4. Forgotten(r)
          BY <1>4, <5>2, <5>3 DEF Forgotten
        <5> QED BY <4>3, <4>6, <5>2, <5>4, FS_EmptySet DEF Paid
      <4> HIDE DEF t
      <4>7. ~Keyed(r) => copies'[r] + u <= excuse'[r] + 1
        <5>1. CASE others
          <6>1. excuse'[r] = excuse[r] + 1 /\ copies'[r] = copies[r]
            BY <2>4, <2>5, <3>1, <3>3, <5>1
          <6> QED BY <4>2, <4>3, <4>5, <6>1
        <5>2. CASE ~others
          BY <2>5, <3>1, <3>3, <4>2, <4>3, <4>6, <5>2
        <5> QED BY <5>1, <5>2
      <4>8. ~Keyed(r)' => copies'[r] + Cardinality(Trying(r)') <= excuse'[r] + 1
        BY <3>1, <3>3, <4>7 DEF u
      <4>9. Trying(r)' # {}
        BY <4>2
      <4>10. ~Keyed(r)' /\ wiring'.transport = "GATEWAY" => copies'[r] = 0
        BY <1>1, <3>1, <3>3, <4>3 DEF Paid
      <4> QED BY <3>3, <4>4, <4>8, <4>9, <4>10 DEF Paid
    <3> QED BY <3>2, <3>3
  <2>8. /\ url' \in [Workers -> Endpoints] /\ ledger' \in [Recipients -> Identities \cup {None}]
        /\ wiring.env # "gateway" => \A v \in Workers : url'[v] = "gateway"
        /\ row' \in RowRecords /\ row' = row /\ copies' \in [Recipients -> Nat]
        /\ known' \in [Endpoints -> SUBSET Recipients]
        /\ got' \in [Recipients -> SUBSET Identities] /\ \A x \in Recipients : got[x] \subseteq got'[x]
    BY <1>1, <1>2, PDTypeFacts DEF PDInv, DrillsOnly
  <2>9. /\ \A x \in Recipients : ledger'[x] # None => ledger'[x] \in got'[x]
        /\ wiring.env \notin {"gateway", "harness"} => \A x \in Recipients : "dev-sink" \notin got'[x]
    BY <1>1 DEF PDInv, LedgerNamesAcceptor, DrillsOnly
  <2> QED BY <1>1, <2>3, <2>5, <2>6, <2>7, <2>8, <2>9, WorkerStep
<1> QED BY <1>1, <1>3, <1>4

\* An attempt that made a copy: its record awaits it, or a mishap pays for it, or the gateway
\* now knows of it.
LEMMA Delivers ==
    ASSUME PDTypes, CopiesArePaid, NEW w \in Workers, NEW j \in Jobs,
           job' = [job EXCEPT ![w] = j], wiring' = wiring, NEW r \in Recipients,
           job[w].cur = r, Tries(job[w]), wiring.transport # "GATEWAY",
           copies'[r] = copies[r] + 1, excuse'[r] \in Nat, excuse'[r] >= excuse[r],
           \/ j.cur = r /\ j.pc = "record"
           \/ excuse'[r] >= excuse[r] + 1
           \/ Keyed(r)',
           Keyed(r) => Keyed(r)' /\ (copies[r] = 0 \/ excuse'[r] >= excuse[r] + 1)
    PROVE  Paid(r)'
<1> DEFINE t == Cardinality(Trying(r))
           u == Cardinality(Trying(r)')
<1>1. Paid(r) /\ copies[r] \in Nat /\ excuse[r] \in Nat
  BY DEF CopiesArePaid, PDTypes
<1>2. /\ t \in Nat /\ u \in Nat /\ t >= 1 /\ u <= t
      /\ j.cur = r /\ j.pc = "record" => u = t - 1 /\ Recording(r)'
  <2>1. w \in Trying(r)
    BY Moves
  <2>2. j.pc = "record" => ~Tries(j)
    BY DEF Tries
  <2>3. t \in Nat /\ u \in Nat /\ t >= 1
    BY <2>1, Moves
  <2>4. (j.cur = r /\ Tries(j)) => u = t
    BY <2>1, Moves
  <2>5. ~(j.cur = r /\ Tries(j)) => u = t - 1
    BY <2>1, Moves
  <2>6. j.cur = r /\ j.pc = "record" => Recording(r)'
    BY Moves
  <2> HIDE DEF t, u
  <2> QED BY <2>2, <2>3, <2>4, <2>5, <2>6
<1>3. ~Keyed(r) => copies[r] + t <= excuse[r] + 1
  BY <1>1 DEF Paid
<1> HIDE DEF t, u
<1>4. copies'[r] <= excuse'[r] + 1
  <2>1. CASE Keyed(r)
    <3>1. copies[r] <= excuse[r] + 1
      BY <1>1 DEF Paid
    <3> QED BY <1>1, <2>1, <3>1
  <2>2. CASE ~Keyed(r)
    BY <1>1, <1>2, <1>3, <2>2
  <2> QED BY <2>1, <2>2
<1>5. ~Keyed(r)' => copies'[r] + u <= excuse'[r] + 1
  <2>1. ASSUME ~Keyed(r)', j.cur = r, j.pc = "record" PROVE copies'[r] + u <= excuse'[r] + 1
    <3>1. copies[r] + t <= excuse[r] + 1 /\ u = t - 1
      BY <1>2, <1>3, <2>1
    <3> QED BY <1>1, <1>2, <3>1
  <2>2. ASSUME ~Keyed(r)', excuse'[r] >= excuse[r] + 1 PROVE copies'[r] + u <= excuse'[r] + 1
    <3>1. copies[r] + t <= excuse[r] + 1
      BY <1>3, <2>2
    <3> QED BY <1>1, <1>2, <2>2, <3>1
  <2> QED BY <2>1, <2>2
<1>6. ~Keyed(r)' /\ Forgotten(r)' /\ Trying(r)' = {} => copies'[r] <= excuse'[r]
  <2> SUFFICES ASSUME ~Keyed(r)', Forgotten(r)' PROVE copies'[r] <= excuse'[r]
    OBVIOUS
  <2>1. excuse'[r] >= excuse[r] + 1
    BY <1>2 DEF Forgotten
  <2>2. copies[r] + t <= excuse[r] + 1
    BY <1>3
  <2> QED BY <1>1, <1>2, <2>1, <2>2
<1>7. ~Keyed(r)' => copies'[r] + Cardinality(Trying(r)') <= excuse'[r] + 1
  BY <1>5 DEF u
<1> QED BY <1>4, <1>6, <1>7 DEF Paid

\* An acceptance that made no copy, about to be recorded.
LEMMA TakesUnsent ==
    ASSUME PDTypes, CopiesArePaid, NEW w \in Workers, NEW j \in Jobs,
           job' = [job EXCEPT ![w] = j], wiring' = wiring, NEW r \in Recipients,
           j.cur = r, j.pc = "record", copies'[r] = copies[r],
           excuse'[r] \in Nat, excuse'[r] >= excuse[r], Keyed(r)' <=> Keyed(r)
    PROVE  Paid(r)'
<1> DEFINE t == Cardinality(Trying(r))
           u == Cardinality(Trying(r)')
<1>1. Paid(r) /\ copies[r] \in Nat /\ excuse[r] \in Nat
  BY DEF CopiesArePaid, PDTypes
<1>2. t \in Nat /\ u \in Nat /\ u <= t /\ Recording(r)'
  <2>1. ~Tries(j)
    BY DEF Tries
  <2>2. t \in Nat /\ u \in Nat
    BY Moves
  <2>3. w \in Trying(r) => u = t - 1
    BY <2>1, Moves
  <2>4. w \notin Trying(r) => u = t
    BY <2>1, Moves
  <2>5. Recording(r)'
    BY Moves
  <2> HIDE DEF t, u
  <2> QED BY <2>2, <2>3, <2>4, <2>5
<1>3. ~Keyed(r) => copies[r] + t <= excuse[r] + 1
  BY <1>1 DEF Paid
<1> HIDE DEF t, u
<1>4. copies'[r] <= excuse'[r] + 1
  <2>1. copies[r] <= excuse[r] + 1
    BY <1>1 DEF Paid
  <2> QED BY <1>1, <2>1
<1>5. ~Keyed(r)' => copies'[r] + u <= excuse'[r] + 1
  BY <1>1, <1>2, <1>3
<1>6. ~Keyed(r)' /\ wiring'.transport = "GATEWAY" => copies'[r] = 0
  BY <1>1 DEF Paid
<1>7. ~Keyed(r)' => copies'[r] + Cardinality(Trying(r)') <= excuse'[r] + 1
  BY <1>5 DEF u
<1> QED BY <1>2, <1>4, <1>6, <1>7 DEF Paid, Forgotten

\* The frame of a step at one recipient.
LEMMA AtOneRecipient ==
    ASSUME PDInv, NEW w \in Workers, NEW r \in Recipients, NEW j \in Jobs,
           job' = [job EXCEPT ![w] = j], job[w].cur = r,
           j.cur = r \/ ~(Tries(j) \/ j.pc = "record"),
           UNCHANGED <<wiring, url, mailbox, roster, ledger>>, row' \in RowRecords,
           known' \in [Endpoints -> SUBSET Recipients],
           \A x \in Recipients : x # r => (x \in known'["gateway"] <=> x \in known["gateway"]),
           got' \in [Recipients -> SUBSET Identities], \A x \in Recipients : got[x] \subseteq got'[x],
           wiring.env \notin {"gateway", "harness"} =>
              \A x \in Recipients : "dev-sink" \in got'[x] => "dev-sink" \in got[x],
           copies' \in [Recipients -> Nat], \A x \in Recipients : x # r => copies'[x] = copies[x],
           excuse' \in [Recipients -> Nat], \A x \in Recipients : x # r => excuse'[x] = excuse[x],
           JobIsSound(j)', Paid(r)'
    PROVE  PDInv'
<1>1. /\ excuse \in [Recipients -> Nat] /\ url \in [Workers -> Endpoints]
      /\ ledger \in [Recipients -> Identities \cup {None}]
  BY PDTypeFacts DEF PDInv
<1>4. \A x \in Recipients : Paid(x)'
  <2>1. ASSUME NEW x \in Recipients, x # r PROVE Paid(x)'
    <3>1. /\ copies'[x] = copies[x] /\ ledger'[x] = ledger[x] /\ (Keyed(x)' <=> Keyed(x))
          /\ excuse'[x] \in Nat /\ excuse'[x] >= excuse[x] /\ wiring' = wiring
      BY <1>1, <2>1 DEF Keyed
    <3>2. ~(j.cur = x /\ (Tries(j) \/ j.pc = "record")) /\ job[w].cur # x
      BY <2>1
    <3> QED BY <3>1, <3>2, Leaves DEF PDInv
  <2> QED BY <2>1
<1>5. /\ url' \in [Workers -> Endpoints] /\ ledger' \in [Recipients -> Identities \cup {None}]
      /\ wiring.env # "gateway" => \A v \in Workers : url'[v] = "gateway"
  BY <1>1 DEF PDInv, DrillsOnly
<1>6. \A x \in Recipients : ledger'[x] # None => ledger'[x] \in got'[x]
  BY DEF PDInv, LedgerNamesAcceptor
<1>7. wiring.env \notin {"gateway", "harness"} => \A x \in Recipients : "dev-sink" \notin got'[x]
  BY DEF PDInv, DrillsOnly
<1> QED BY <1>4, <1>5, <1>6, <1>7, WorkerStep

\* The same, in the words of a step that took a message.
LEMMA Framed ==
    ASSUME PDInv, NEW w \in Workers, NEW r \in Recipients, NEW j \in Jobs, NEW id \in Identities,
           NEW e \in Nat,
           job' = [job EXCEPT ![w] = j], job[w].cur = r,
           j.cur = r \/ ~(Tries(j) \/ j.pc = "record"),
           UNCHANGED <<wiring, url, mailbox, roster, ledger>>, row' \in RowRecords,
           known' \in [Endpoints -> SUBSET Recipients],
           \A x \in Recipients : x # r => (x \in known'["gateway"] <=> x \in known["gateway"]),
           got' = [got EXCEPT ![r] = @ \cup {id}],
           id = "dev-sink" => wiring.env \in {"gateway", "harness"},
           copies' = copies \/ copies' = [copies EXCEPT ![r] = @ + 1],
           excuse' = [excuse EXCEPT ![r] = @ + e],
           JobIsSound(j)', Paid(r)'
    PROVE  PDInv'
<1>1. /\ copies \in [Recipients -> Nat] /\ excuse \in [Recipients -> Nat]
      /\ got \in [Recipients -> SUBSET Identities]
  BY PDTypeFacts DEF PDInv
<1>2. copies' \in [Recipients -> Nat] /\ \A x \in Recipients : x # r => copies'[x] = copies[x]
  BY <1>1
<1>3. excuse' \in [Recipients -> Nat] /\ \A x \in Recipients : x # r => excuse'[x] = excuse[x]
  BY <1>1
<1>4. got' \in [Recipients -> SUBSET Identities] /\ \A x \in Recipients : got[x] \subseteq got'[x]
  BY <1>1
<1>5. wiring.env \notin {"gateway", "harness"} =>
        \A x \in Recipients : "dev-sink" \in got'[x] => "dev-sink" \in got[x]
  BY <1>1
<1> QED BY <1>2, <1>3, <1>4, <1>5, AtOneRecipient

\* What a mail attempt comes to, at either mailbox: taken and said so, taken and lost, not taken.
MailEnds(w, id) ==
    LET r == job[w].cur
        lost == \/ Fail(w)
                \/ /\ job[w].path = "console" /\ job[w].fallback # None /\ UNCHANGED row
                   /\ job' = [job EXCEPT ![w] = [job[w] EXCEPT !.pc = "mail fallback"]]
        switched == Count(Switched(w, r))
        taken == /\ got' = [got EXCEPT ![r] = @ \cup {id}] /\ copies' = [copies EXCEPT ![r] = @ + 1] IN
    /\ UNCHANGED <<wiring, url, mailbox, roster, ledger, known>>
    /\ \/ /\ taken /\ excuse' = [excuse EXCEPT ![r] = @ + switched] /\ UNCHANGED row
          /\ job' = [job EXCEPT ![w] = [job[w] EXCEPT !.pc = "record", !.accepted = id]]
       \/ /\ taken /\ excuse' = [excuse EXCEPT ![r] = @ + (1 + switched)] /\ lost
       \/ lost /\ UNCHANGED <<got, copies, excuse>>

LEMMA MailFacts ==
    ASSUME PDInv, NEW w \in Workers, Mail(w) \/ MailFallback(w)
    PROVE  /\ job[w] \in Jobs /\ JobIsSound(job[w]) /\ job[w].pc \in {"mail", "mail fallback"}
           /\ job[w].cur \in Recipients /\ wiring.transport = "EMAIL" /\ ByMail(w)
           /\ Tries(job[w])
           /\ \E id \in Identities \ {"dev-sink"} : MailEnds(w, id)
<1>1. job[w] \in Jobs /\ JobIsSound(job[w]) /\ wiring \in Wirings
  BY PDTypeFacts DEF PDInv, JobsAreSound
<1>2. job[w].pc \in {"mail", "mail fallback"}
  BY DEF Mail, MailFallback
<1>3. job[w].cur \in Recipients /\ ByMail(w) /\ wiring.transport = "EMAIL" /\ Tries(job[w])
  BY <1>1, <1>2 DEF JobIsSound, Resolved, ByMail, Wirings, Tries
<1>4. /\ job[w].path = "console" => job[w].primary \in MailboxHosts
      /\ job[w].pc = "mail fallback" => job[w].fallback \in MailboxHosts
      /\ EnvMailbox \in Identities \ {"dev-sink"} /\ MailboxHosts \subseteq Identities \ {"dev-sink"}
  BY <1>1, <1>2, ProviderAssumption DEF JobIsSound, Resolved, Identities, Endpoints, EnvMailbox
<1>5. CASE Mail(w)
  <2>1. PICK id \in Identities \ {"dev-sink"} : id = PrimaryHost(w)
    BY <1>4 DEF PrimaryHost
  <2>2. MailEnds(w, id)
    BY <1>5, <2>1 DEF Mail, MailAttempt, MailEnds, Outside, TakenBy, OneMoreCopy, Accepted, Goto, Excuse
  <2> QED BY <1>1, <1>2, <1>3, <2>2
<1>6. CASE MailFallback(w)
  <2>1. PICK id \in Identities \ {"dev-sink"} : id = job[w].fallback
    BY <1>4, <1>6 DEF MailFallback
  <2>2. MailEnds(w, id)
    BY <1>6, <2>1 DEF MailFallback, MailAttempt, MailEnds, Outside, TakenBy, OneMoreCopy, Accepted,
        Goto, Excuse
  <2> QED BY <1>1, <1>2, <1>3, <2>2
<1> QED BY <1>5, <1>6

LEMMA MailInv ==
    ASSUME PDInv, NEW w \in Workers, Mail(w) \/ MailFallback(w)
    PROVE  PDInv' /\ (row'.state = "SENT" => row.state = "SENT")
<1>0. PICK r \in Recipients : r = job[w].cur
  BY MailFacts
<1> DEFINE switched == Count(Switched(w, r))
           taken(id) == /\ got' = [got EXCEPT ![r] = @ \cup {id}]
                        /\ copies' = [copies EXCEPT ![r] = @ + 1]
           lost == \/ Fail(w)
                   \/ /\ job[w].path = "console" /\ job[w].fallback # None /\ UNCHANGED row
                      /\ job' = [job EXCEPT ![w] = [job[w] EXCEPT !.pc = "mail fallback"]]
<1>1. /\ job[w] \in Jobs /\ JobIsSound(job[w]) /\ job[w].pc \in {"mail", "mail fallback"}
      /\ r \in Recipients /\ job[w].cur = r /\ wiring.transport = "EMAIL" /\ ByMail(w)
      /\ Tries(job[w])
  BY <1>0, MailFacts
<1>2. PICK id \in Identities \ {"dev-sink"} : MailEnds(w, id)
  BY MailFacts
<1>3. /\ row \in RowRecords /\ copies \in [Recipients -> Nat] /\ excuse \in [Recipients -> Nat]
      /\ got \in [Recipients -> SUBSET Identities] /\ known \in [Endpoints -> SUBSET Recipients]
  BY PDTypeFacts DEF PDInv
<1>4. UNCHANGED <<wiring, url, mailbox, roster, ledger, known>> /\ (Keyed(r)' <=> Keyed(r))
  <2>1. UNCHANGED <<wiring, url, mailbox, roster, ledger, known>>
    BY <1>2 DEF MailEnds
  <2> QED BY <2>1 DEF Keyed
<1>5. switched \in Nat /\ (Keyed(r) => copies[r] = 0 \/ switched = 1)
  <2>1. copies[r] # 0 => copies[r] > 0
    <3>1. copies[r] \in Nat
      BY <1>3
    <3> QED BY <3>1
  <2>2. Keyed(r) /\ copies[r] > 0 => Switched(w, r)
    BY <1>1 DEF Switched, Keyed
  <2> QED BY <2>1, <2>2 DEF Count
<1> HIDE DEF switched
<1>7. CASE /\ taken(id) /\ excuse' = [excuse EXCEPT ![r] = @ + switched] /\ UNCHANGED row
           /\ job' = [job EXCEPT ![w] = [job[w] EXCEPT !.pc = "record", !.accepted = id]]
  <2>1. PICK j \in Jobs : j = [job[w] EXCEPT !.pc = "record", !.accepted = id]
    BY <1>1 DEF Jobs, Steps
  <2>2. /\ j.pc = "record" /\ j.accepted = id /\ j.cur = r /\ j.to = job[w].to
        /\ j.todo = job[w].todo /\ j.by = job[w].by /\ j.path = job[w].path
        /\ j.primary = job[w].primary
    BY <1>1, <2>1 DEF Jobs
  <2>3. /\ id \in got'[r] /\ \A x \in Recipients : got[x] \subseteq got'[x]
    BY <1>1, <1>3, <1>7
  <2>4. JobIsSound(j)'
    <3>1. \A x \in j.to \ j.todo : j.by \cap got[x] # {} /\ x \in Recipients
      BY <1>1, <2>2, JobFields DEF JobIsSound, Resolved
    <3>2. \A x \in j.to \ j.todo : j.by \cap got'[x] # {}
      BY <2>3, <3>1
    <3> QED BY <1>1, <1>4, <2>2, <2>3, <3>2 DEF JobIsSound, Resolved
  <2>5. copies'[r] = copies[r] + 1 /\ excuse'[r] = excuse[r] + switched
    BY <1>1, <1>3, <1>7
  <2>6. excuse'[r] \in Nat /\ excuse'[r] >= excuse[r]
        /\ (Keyed(r) => copies[r] = 0 \/ excuse'[r] >= excuse[r] + 1)
    <3>1. excuse[r] \in Nat
      BY <1>1, <1>3
    <3>2. excuse'[r] \in Nat /\ excuse'[r] >= excuse[r]
          /\ (switched = 1 => excuse'[r] >= excuse[r] + 1)
      BY <1>5, <2>5, <3>1
    <3> QED BY <1>5, <3>2
  <2>7. job' = [job EXCEPT ![w] = j] /\ row' = row /\ row' \in RowRecords
    BY <1>3, <1>7, <2>1
  <2>8. Paid(r)'
    BY <1>1, <1>4, <2>2, <2>5, <2>6, <2>7, Delivers DEF PDInv
  <2>9. /\ got' = [got EXCEPT ![r] = @ \cup {id}] /\ copies' = [copies EXCEPT ![r] = @ + 1]
        /\ excuse' = [excuse EXCEPT ![r] = @ + switched] /\ switched \in Nat
    BY <1>5, <1>7
  <2>10. PDInv'
    BY <1>1, <1>3, <1>4, <2>2, <2>4, <2>7, <2>8, <2>9, Framed
  <2> QED BY <2>7, <2>10
<1>8. CASE lost /\ \/ taken(id) /\ excuse' = [excuse EXCEPT ![r] = @ + (1 + switched)]
                   \/ UNCHANGED <<got, copies, excuse>>
  <2>1. PICK j \in Jobs : /\ job' = [job EXCEPT ![w] = j]
                          /\ \/ j = NoJob
                             \/ /\ j = [job[w] EXCEPT !.pc = "mail fallback"]
                                /\ job[w].path = "console" /\ job[w].fallback # None
    <3>1. [job[w] EXCEPT !.pc = "mail fallback"] \in Jobs
      BY <1>1 DEF Jobs, Steps
    <3> QED BY <1>3, <1>8, <3>1, NoJobIsSound, FailsRow
  <2>2. row' \in RowRecords /\ (row'.state = "SENT" => row.state = "SENT")
    BY <1>3, <1>8, FailsRow
  <2>3. PICK c \in {0, 1} :
          /\ c = 1 => taken(id) /\ excuse' = [excuse EXCEPT ![r] = @ + (1 + switched)]
          /\ c = 0 => UNCHANGED <<got, copies, excuse>>
    <3>1. CASE taken(id) /\ excuse' = [excuse EXCEPT ![r] = @ + (1 + switched)]
      <4>1. 1 \in {0, 1} /\ 1 # 0
        OBVIOUS
      <4> QED BY <3>1, <4>1
    <3>2. CASE UNCHANGED <<got, copies, excuse>>
      <4>1. 0 \in {0, 1} /\ 1 # 0
        OBVIOUS
      <4> QED BY <3>2, <4>1
    <3> QED BY <1>8, <3>1, <3>2
  <2>4. \A x \in Recipients : got[x] \subseteq got'[x]
    <3>1. CASE taken(id)
      BY <1>1, <1>3, <3>1
    <3>2. CASE got' = got
      BY <3>2
    <3> QED BY <1>8, <3>1, <3>2
  <2>5. JobIsSound(j)' /\ ((j.cur = r /\ Tries(j) /\ j.pc = "mail fallback") \/ ~(Tries(j) \/ j.pc = "record"))
    <3>1. CASE j = NoJob
      BY <3>1, NoJobIsSound DEF JobIsSound, Resolved, Tries
    <3>2. CASE /\ j = [job[w] EXCEPT !.pc = "mail fallback"]
               /\ job[w].path = "console" /\ job[w].fallback # None
      <4>1. /\ j.pc = "mail fallback" /\ j.cur = r /\ j.to = job[w].to /\ j.fallback = job[w].fallback
            /\ j.todo = job[w].todo /\ j.by = job[w].by /\ j.path = job[w].path
            /\ j.primary = job[w].primary /\ job[w].fallback \in MailboxHosts
        BY <1>1, <3>2 DEF Jobs
      <4>2. \A x \in j.to \ j.todo : j.by \cap got[x] # {} /\ x \in Recipients
        BY <1>1, <4>1, JobFields DEF JobIsSound, Resolved
      <4>3. \A x \in j.to \ j.todo : j.by \cap got'[x] # {}
        BY <2>4, <4>2
      <4> QED BY <1>1, <1>4, <3>2, <4>1, <4>3 DEF JobIsSound, Resolved, Tries
    <3> QED BY <2>1, <3>1, <3>2
  <2>6. CASE c = 1
    <3>1. /\ copies'[r] = copies[r] + 1 /\ excuse'[r] = excuse[r] + (1 + switched)
          /\ copies[r] \in Nat /\ excuse[r] \in Nat
      BY <1>1, <1>3, <2>3, <2>6
    <3>2. excuse'[r] \in Nat /\ excuse'[r] >= excuse[r] /\ excuse'[r] >= excuse[r] + 1
      BY <1>5, <3>1
    <3>3. Paid(r)'
      BY <1>1, <1>4, <2>1, <3>1, <3>2, Delivers DEF PDInv
    <3>4. PICK e \in Nat : e = 1 + switched
      BY <1>5
    <3>4a. /\ got' = [got EXCEPT ![r] = @ \cup {id}] /\ copies' = [copies EXCEPT ![r] = @ + 1]
           /\ excuse' = [excuse EXCEPT ![r] = @ + e]
      BY <2>3, <2>6, <3>4
    <3>5. PDInv'
      BY <1>1, <1>3, <1>4, <2>1, <2>2, <2>5, <3>3, <3>4a, Framed
    <3> QED BY <2>2, <3>5
  <2>7. CASE c = 0
    <3>1. UNCHANGED <<got, copies, excuse>>
      BY <2>3, <2>7
    <3>2. copies'[r] = copies[r] /\ excuse'[r] = excuse[r] /\ excuse[r] \in Nat
      BY <1>1, <1>3, <3>1
    <3>3. Paid(r)'
      <4>1. CASE ~(Tries(j) \/ j.pc = "record")
        <5>1. job[w].pc # "record" /\ excuse'[r] \in Nat /\ excuse'[r] >= excuse[r]
              /\ copies'[r] = copies[r] /\ ledger'[r] = ledger[r] /\ (Keyed(r)' <=> Keyed(r))
          <6>1. job[w].pc # "record" /\ ledger'[r] = ledger[r] /\ (Keyed(r)' <=> Keyed(r))
            BY <1>1, <1>4
          <6>2. excuse'[r] \in Nat /\ excuse'[r] >= excuse[r] /\ copies'[r] = copies[r]
            BY <3>2
          <6> QED BY <6>1, <6>2
        <5> QED BY <1>4, <2>1, <4>1, <5>1, Leaves DEF PDInv
      <4>2. CASE j.cur = r /\ Tries(j) /\ j.pc = "mail fallback"
        <5>1. w \in Trying(r) /\ j.cur = r
          BY <1>1, <4>2 DEF Trying
        <5>2. Trying(r)' = Trying(r)
          <6>1. Trying(r)' = Trying(r) \cup {w}
            BY <1>4, <2>1, <4>2, Moves DEF PDInv
          <6> QED BY <5>1, <6>1
        <5>3. Paid(r) /\ copies'[r] = copies[r] /\ excuse'[r] = excuse[r] /\ (Keyed(r)' <=> Keyed(r))
          BY <1>1, <1>4, <3>1 DEF PDInv, CopiesArePaid
        <5>4. Trying(r)' # {}
          BY <5>1, <5>2
        <5> QED BY <1>4, <5>2, <5>3, <5>4 DEF Paid
      <4> QED BY <2>5, <4>1, <4>2
    <3>4. PDInv'
      BY <1>1, <1>3, <1>4, <2>1, <2>2, <2>5, <3>1, <3>3, AtOneRecipient
    <3> QED BY <2>2, <3>4
  <2> QED BY <2>3, <2>6, <2>7
<1>9. \/ /\ taken(id) /\ excuse' = [excuse EXCEPT ![r] = @ + switched] /\ UNCHANGED row
         /\ job' = [job EXCEPT ![w] = [job[w] EXCEPT !.pc = "record", !.accepted = id]]
      \/ /\ taken(id) /\ excuse' = [excuse EXCEPT ![r] = @ + (1 + switched)] /\ lost
      \/ lost /\ UNCHANGED <<got, copies, excuse>>
  BY <1>0, <1>2 DEF MailEnds, switched
<1> QED BY <1>7, <1>8, <1>9

\* What a POST comes to: taken or recognised, and said so or not; or refused.
PostEnds(w, r, e) ==
    LET repeat == Replays(e) /\ r \in known[e]
        switched == Count(Switched(w, r)) IN
    /\ UNCHANGED <<wiring, url, mailbox, roster, ledger>>
    /\ \/ /\ known' = [known EXCEPT ![e] = @ \cup {r}] /\ got' = [got EXCEPT ![r] = @ \cup {e}]
          /\ IF repeat \/ e = "dev-sink" THEN UNCHANGED copies
             ELSE copies' = [copies EXCEPT ![r] = @ + 1]
          /\ \/ /\ UNCHANGED row /\ excuse' = [excuse EXCEPT ![r] = @ + switched]
                /\ job' = [job EXCEPT ![w] =
                      IF wiring.transport = "WHATSAPP"
                      THEN [job[w] EXCEPT !.pc = "record", !.accepted = e]
                      ELSE [job[w] EXCEPT !.pc = "next", !.cur = None, !.todo = @ \ {r},
                                          !.by = @ \cup {e}]]
             \/ Fail(w) /\ excuse' = [excuse EXCEPT ![r] = @ + (switched + Count(~Replays(e)))]
       \/ Fail(w) /\ UNCHANGED <<known, got, copies, excuse>>

LEMMA PostFacts ==
    ASSUME PDInv, NEW w \in Workers, Post(w)
    PROVE  /\ job[w] \in Jobs /\ JobIsSound(job[w]) /\ job[w].pc = "post" /\ ~ByMail(w)
           /\ \E r \in Recipients, e \in Endpoints :
                /\ job[w].cur = r /\ PostEnds(w, r, e)
                /\ e = "dev-sink" => wiring.env = "gateway"
<1>1. /\ job[w] \in Jobs /\ JobIsSound(job[w]) /\ job[w].pc = "post" /\ url \in [Workers -> Endpoints]
  BY PDTypeFacts DEF PDInv, JobsAreSound, Post
<1>2. job[w].cur \in Recipients /\ ~ByMail(w)
  BY <1>1 DEF JobIsSound, Resolved, ByMail
<1>3. PICK r \in Recipients, e \in Endpoints : r = job[w].cur /\ e = url[w]
  BY <1>1, <1>2
<1>4. e = "dev-sink" => wiring.env = "gateway"
  BY <1>3 DEF PDInv, DrillsOnly
<1> DEFINE repeat == Replays(e) /\ r \in known[e]
           saidSo == /\ UNCHANGED row
                   /\ job' = [job EXCEPT ![w] =
                          IF wiring.transport = "WHATSAPP"
                          THEN [job[w] EXCEPT !.pc = "record", !.accepted = e]
                          ELSE [job[w] EXCEPT !.pc = "next", !.cur = None, !.todo = @ \ {r},
                                              !.by = @ \cup {e}]]
<1>5. AfterPost(w, "conflict") => Fail(w)
  BY DEF AfterPost, Delivered
<1>6. ASSUME NEW answer \in {"replayed", "accepted"}, AfterPost(w, answer)
      PROVE  saidSo
  <2>1. Delivered(answer)
    BY DEF Delivered
  <2> QED BY <1>3, <1>6, <2>1 DEF AfterPost, Goto, Accepted
<1>7. AfterPost(w, IF repeat THEN "replayed" ELSE "accepted") => saidSo
  BY <1>6
<1> HIDE DEF repeat, saidSo
<1>8. /\ UNCHANGED <<wiring, url, mailbox, roster, ledger>>
      /\ \/ /\ known' = [known EXCEPT ![e] = @ \cup {r}] /\ TakenBy(r, e)
            /\ IF repeat \/ e = "dev-sink" THEN UNCHANGED copies ELSE OneMoreCopy(r)
            /\ \/ /\ AfterPost(w, IF repeat THEN "replayed" ELSE "accepted")
                  /\ Excuse(r, Count(Switched(w, r)))
               \/ Fail(w) /\ Excuse(r, Count(Switched(w, r)) + Count(~Replays(e)))
         \/ (AfterPost(w, "conflict") \/ Fail(w)) /\ UNCHANGED World
  BY <1>3 DEF Post, Outside, repeat
<1>9. PostEnds(w, r, e)
  BY <1>5, <1>7, <1>8 DEF PostEnds, TakenBy, OneMoreCopy, Excuse, World, repeat, saidSo
<1> QED BY <1>1, <1>2, <1>3, <1>4, <1>9

LEMMA PostInv ==
    ASSUME PDInv, NEW w \in Workers, Post(w)
    PROVE  PDInv' /\ (row'.state = "SENT" => row.state = "SENT")
<1>1. PICK r \in Recipients, e \in Endpoints :
        /\ job[w].cur = r /\ PostEnds(w, r, e)
        /\ e = "dev-sink" => wiring.env = "gateway"
  BY PostFacts
<1>2. job[w] \in Jobs /\ JobIsSound(job[w]) /\ job[w].pc = "post" /\ ~ByMail(w)
  BY PostFacts
<1>3. /\ row \in RowRecords /\ copies \in [Recipients -> Nat] /\ excuse \in [Recipients -> Nat]
      /\ got \in [Recipients -> SUBSET Identities] /\ known \in [Endpoints -> SUBSET Recipients]
      /\ wiring \in Wirings
  BY PDTypeFacts DEF PDInv
<1>4. /\ e \in Identities /\ e \in {"gateway", "dev-sink"}
      /\ wiring.transport \in {"GATEWAY", "WHATSAPP", "EMAIL"} /\ wiring.replays \in BOOLEAN
      /\ wiring.transport # "WHATSAPP" => wiring.replays
  BY <1>3 DEF Identities, Endpoints, Wirings
<1> DEFINE repeat == Replays(e) /\ r \in known[e]
           switched == Count(Switched(w, r))
           copied == ~(repeat \/ e = "dev-sink")
           answered ==
              /\ UNCHANGED row /\ excuse' = [excuse EXCEPT ![r] = @ + switched]
              /\ job' = [job EXCEPT ![w] =
                    IF wiring.transport = "WHATSAPP"
                    THEN [job[w] EXCEPT !.pc = "record", !.accepted = e]
                    ELSE [job[w] EXCEPT !.pc = "next", !.cur = None, !.todo = @ \ {r},
                                        !.by = @ \cup {e}]]
           unanswered ==
              Fail(w) /\ excuse' = [excuse EXCEPT ![r] = @ + (switched + Count(~Replays(e)))]
<1>5. UNCHANGED <<wiring, url, mailbox, roster, ledger>>
  BY <1>1 DEF PostEnds
<1>6. \/ /\ known' = [known EXCEPT ![e] = @ \cup {r}] /\ got' = [got EXCEPT ![r] = @ \cup {e}]
         /\ IF repeat \/ e = "dev-sink" THEN UNCHANGED copies
            ELSE copies' = [copies EXCEPT ![r] = @ + 1]
         /\ answered \/ unanswered
      \/ Fail(w) /\ UNCHANGED <<known, got, copies, excuse>>
  BY <1>1 DEF PostEnds
<1>7. CASE Fail(w) /\ UNCHANGED <<known, got, copies, excuse>>
  BY <1>2, <1>3, <1>5, <1>7, QuietFail, FailsRow
<1>8. CASE /\ known' = [known EXCEPT ![e] = @ \cup {r}] /\ got' = [got EXCEPT ![r] = @ \cup {e}]
           /\ IF repeat \/ e = "dev-sink" THEN UNCHANGED copies
              ELSE copies' = [copies EXCEPT ![r] = @ + 1]
           /\ answered \/ unanswered
  <2>1. switched \in {0, 1} /\ Count(~Replays(e)) \in {0, 1}
    BY DEF Count
  <2> HIDE DEF switched
  <2>2. PICK j \in Jobs :
          /\ job' = [job EXCEPT ![w] = j]
          /\ \/ j = NoJob /\ unanswered
             \/ /\ wiring.transport = "WHATSAPP" /\ answered
                /\ j = [job[w] EXCEPT !.pc = "record", !.accepted = e]
             \/ /\ wiring.transport # "WHATSAPP" /\ answered
                /\ j = [job[w] EXCEPT !.pc = "next", !.cur = None, !.todo = @ \ {r},
                                      !.by = @ \cup {e}]
    <3>1. [job[w] EXCEPT !.pc = "record", !.accepted = e] \in Jobs
      BY <1>2, <1>4 DEF Jobs, Steps
    <3>2. job[w].todo \in SUBSET Recipients /\ job[w].by \in SUBSET Identities
      BY <1>2, JobFields
    <3>3. [job[w] EXCEPT !.pc = "next", !.cur = None, !.todo = @ \ {r}, !.by = @ \cup {e}] \in Jobs
      BY <1>2, <1>4, <3>2 DEF Jobs, Steps
    <3>4. CASE unanswered
      BY <1>3, <3>4, FailsRow, NoJobIsSound
    <3>5. CASE answered /\ wiring.transport = "WHATSAPP"
      BY <3>1, <3>5
    <3>6. CASE answered /\ wiring.transport # "WHATSAPP"
      BY <3>3, <3>6
    <3> QED BY <1>8, <3>4, <3>5, <3>6
  <2>3. row' \in RowRecords /\ (row'.state = "SENT" => row.state = "SENT")
    BY <1>3, <1>8, FailsRow
  <2>4. e \in got'[r] /\ \A x \in Recipients : got[x] \subseteq got'[x]
    BY <1>3, <1>8
  <2>5. /\ known' \in [Endpoints -> SUBSET Recipients]
        /\ \A x \in Recipients : x # r => (x \in known'["gateway"] <=> x \in known["gateway"])
        /\ e = "gateway" => r \in known'["gateway"]
        /\ e # "gateway" \/ r \in known["gateway"] => (r \in known'["gateway"] <=> r \in known["gateway"])
    BY <1>3, <1>8 DEF Endpoints
  <2>6. /\ JobIsSound(j)'
        /\ \/ j.cur = r /\ j.pc = "record" /\ wiring.transport = "WHATSAPP"
           \/ j.pc \in {"idle", "next"} /\ (wiring.transport = "WHATSAPP" => unanswered)
    <3>1. CASE j = NoJob /\ unanswered
      BY <3>1, NoJobIsSound DEF JobIsSound, Resolved
    <3>2. \A x \in job[w].to \ job[w].todo : job[w].by \cap got'[x] # {}
      <4>1. \A x \in job[w].to \ job[w].todo : job[w].by \cap got[x] # {} /\ x \in Recipients
        BY <1>2, JobFields DEF JobIsSound, Resolved
      <4> QED BY <2>4, <4>1
    <3>3. CASE /\ wiring.transport = "WHATSAPP"
               /\ j = [job[w] EXCEPT !.pc = "record", !.accepted = e]
      <4>1. /\ j.pc = "record" /\ j.accepted = e /\ j.cur = r /\ j.to = job[w].to
            /\ j.todo = job[w].todo /\ j.by = job[w].by /\ j.path = job[w].path
            /\ j.primary = job[w].primary
        BY <1>1, <1>2, <3>3 DEF Jobs
      <4> QED BY <1>2, <1>5, <2>4, <3>2, <3>3, <4>1 DEF JobIsSound, Resolved
    <3>4. CASE /\ wiring.transport # "WHATSAPP"
               /\ j = [job[w] EXCEPT !.pc = "next", !.cur = None, !.todo = @ \ {r},
                                      !.by = @ \cup {e}]
      <4>1. /\ j.pc = "next" /\ j.to = job[w].to /\ j.todo = job[w].todo \ {r}
            /\ j.by = job[w].by \cup {e} /\ j.path = job[w].path /\ j.primary = job[w].primary
        BY <1>1, <1>2, <3>4 DEF Jobs
      <4>2. \A x \in j.to \ j.todo : j.by \cap got'[x] # {}
        BY <2>4, <3>2, <4>1
      <4> QED BY <1>2, <1>5, <3>4, <4>1, <4>2 DEF JobIsSound, Resolved
    <3> QED BY <2>2, <3>1, <3>3, <3>4
  <2>7. /\ excuse[r] \in Nat /\ copies[r] \in Nat
        /\ excuse'[r] \in Nat /\ excuse'[r] >= excuse[r]
        /\ switched = 1 => excuse'[r] >= excuse[r] + 1
        /\ unanswered /\ Count(~Replays(e)) = 1 => excuse'[r] >= excuse[r] + 1
    <3>1. excuse[r] \in Nat /\ copies[r] \in Nat
      BY <1>3
    <3>2. /\ answered => excuse'[r] = excuse[r] + switched
          /\ unanswered => excuse'[r] = excuse[r] + (switched + Count(~Replays(e)))
      BY <1>3
    <3> HIDE DEF answered, unanswered
    <3> QED BY <1>8, <2>1, <3>1, <3>2
  <2> HIDE DEF answered
  <2>8. ASSUME ~copied
        PROVE  Paid(r)'
    <3>1. copies'[r] = copies[r] /\ (Keyed(r)' <=> Keyed(r))
      BY <1>4, <1>5, <1>8, <2>5, <2>8 DEF Keyed, Replays
    <3>2. CASE j.cur = r /\ j.pc = "record"
      BY <1>5, <2>2, <2>7, <3>1, <3>2, TakesUnsent DEF PDInv
    <3>3. CASE j.pc \in {"idle", "next"}
      <4>1. ~(j.cur = r /\ (Tries(j) \/ j.pc = "record")) /\ job[w].pc # "record"
            /\ ledger'[r] = ledger[r]
        BY <1>2, <1>5, <3>3 DEF Tries
      <4> QED BY <1>5, <2>2, <2>7, <3>1, <4>1, Leaves DEF PDInv
    <3> QED BY <2>6, <3>2, <3>3
  <2>9. ASSUME copied
        PROVE  Paid(r)'
    <3>1. /\ e = "gateway" /\ copies'[r] = copies[r] + 1 /\ ~Keyed(r)
          /\ wiring.replays => Keyed(r)' /\ r \notin known["gateway"]
      BY <1>3, <1>4, <1>5, <1>8, <2>5, <2>9 DEF Keyed, Replays
    <3>2. CASE wiring.transport = "WHATSAPP"
      <4>1. Tries(job[w]) /\ wiring.transport # "GATEWAY"
        BY <1>2, <3>2 DEF Tries
      <4>2. \/ j.cur = r /\ j.pc = "record"
            \/ excuse'[r] >= excuse[r] + 1
            \/ Keyed(r)'
        <5>1. ~wiring.replays => Count(~Replays(e)) = 1
          BY <3>1 DEF Replays, Count
        <5> QED BY <2>6, <2>7, <3>1, <3>2, <5>1
      <4> QED BY <1>1, <1>5, <2>2, <2>7, <3>1, <4>1, <4>2, Delivers DEF PDInv
    <3>3. CASE wiring.transport # "WHATSAPP"
      <4>1. Paid(r) /\ Keyed(r)' /\ r \notin known["gateway"]
        BY <1>4, <3>1, <3>3 DEF PDInv, CopiesArePaid
      <4>2. copies[r] = 0 \/ excuse'[r] >= excuse[r] + 1
        <5>1. CASE wiring.transport = "GATEWAY"
          BY <3>1, <4>1, <5>1 DEF Paid
        <5>2. CASE wiring.transport = "EMAIL"
          <6>1. copies[r] = 0 \/ copies[r] > 0
            BY <2>7
          <6>2. copies[r] > 0 => Switched(w, r)
            BY <1>2, <4>1, <5>2 DEF Switched
          <6> QED BY <2>7, <6>1, <6>2 DEF switched, Count
        <5> QED BY <1>4, <3>3, <5>1, <5>2
      <4>3. copies[r] <= excuse[r] + 1
        BY <4>1 DEF Paid
      <4>4. copies'[r] <= excuse'[r] + 1
        BY <2>7, <3>1, <4>2, <4>3
      <4> QED BY <4>1, <4>4 DEF Paid
    <3> QED BY <3>2, <3>3
  <2>10. Paid(r)'
    BY <2>8, <2>9
  <2>11. PICK n \in Nat : excuse' = [excuse EXCEPT ![r] = @ + n]
    <3>1. CASE answered
      BY <2>1, <3>1 DEF answered
    <3>2. CASE unanswered
      <4>1. switched + Count(~Replays(e)) \in Nat
        BY <2>1
      <4> QED BY <3>2, <4>1
    <3> QED BY <1>8, <3>1, <3>2
  <2>12. copies' = copies \/ copies' = [copies EXCEPT ![r] = @ + 1]
    BY <1>8
  <2>13. j.cur = r \/ ~(Tries(j) \/ j.pc = "record")
    BY <2>6 DEF Tries
  <2>14. PDInv'
    BY <1>1, <1>4, <1>5, <1>8, <2>2, <2>3, <2>5, <2>6, <2>10, <2>11, <2>12, <2>13, Framed
  <2> QED BY <2>3, <2>14
<1> QED BY <1>6, <1>7, <1>8

LEMMA RecordInv ==
    ASSUME PDInv, NEW w \in Workers, Record(w)
    PROVE  PDInv' /\ (row'.state = "SENT" => row.state = "SENT")
<1>1. /\ job[w] \in Jobs /\ JobIsSound(job[w]) /\ job[w].pc = "record"
      /\ row \in RowRecords /\ excuse \in [Recipients -> Nat] /\ copies \in [Recipients -> Nat]
      /\ ledger \in [Recipients -> Identities \cup {None}] /\ got \in [Recipients -> SUBSET Identities]
  BY PDTypeFacts DEF PDInv, JobsAreSound, Record
<1>2. PICK r \in Recipients : r = job[w].cur
  BY <1>1 DEF JobIsSound, Resolved
<1>3. job[w].accepted \in got[r]
  BY <1>1, <1>2 DEF JobIsSound
<1>4. PICK id \in Identities : id = job[w].accepted /\ id \in got[r] /\ id # None
  BY <1>1, <1>3, ProviderAssumption
<1>5. /\ UNCHANGED <<wiring, url, mailbox, roster, known, got, copies>>
      /\ \/ /\ ledger' = [ledger EXCEPT ![r] = IF @ = None THEN id ELSE @]
            /\ job' = [job EXCEPT ![w] = [job[w] EXCEPT !.pc = "next", !.cur = None,
                           !.accepted = None, !.todo = @ \ {r}, !.by = @ \cup {id}]]
            /\ UNCHANGED <<row, excuse>>
         \/ Fail(w) /\ excuse' = [excuse EXCEPT ![r] = @ + 1] /\ UNCHANGED ledger
  BY <1>2, <1>4 DEF Record, Provenance, Goto, Excuse, Outside
<1>6. CASE Fail(w) /\ excuse' = [excuse EXCEPT ![r] = @ + 1] /\ UNCHANGED ledger
  <2>1. /\ excuse' \in [Recipients -> Nat] /\ \A x \in Recipients : excuse'[x] >= excuse[x]
        /\ excuse'[r] >= excuse[r] + 1
    BY <1>1, <1>6
  <2>2. /\ row' \in RowRecords /\ job' = [job EXCEPT ![w] = NoJob]
        /\ row'.state = "SENT" => row.state = "SENT"
    BY <1>1, <1>6, FailsRow
  <2>3. NoJob \in Jobs /\ JobIsSound(NoJob) /\ ~Tries(NoJob) /\ NoJob.pc # "record"
    BY NoJobIsSound DEF Tries
  <2>4. PDInv'
    BY <1>2, <1>5, <1>6, <2>1, <2>2, <2>3, QuietJob
  <2> QED BY <2>2, <2>4
<1>7. CASE /\ ledger' = [ledger EXCEPT ![r] = IF @ = None THEN id ELSE @]
           /\ job' = [job EXCEPT ![w] = [job[w] EXCEPT !.pc = "next", !.cur = None,
                           !.accepted = None, !.todo = @ \ {r}, !.by = @ \cup {id}]]
           /\ UNCHANGED <<row, excuse>>
  <2>1. job[w].todo \in SUBSET Recipients /\ job[w].by \in SUBSET Identities
    BY <1>1, JobFields
  <2>2. PICK j \in Jobs : j = [job[w] EXCEPT !.pc = "next", !.cur = None,
                           !.accepted = None, !.todo = @ \ {r}, !.by = @ \cup {id}]
    BY <1>1, <2>1 DEF Jobs, Steps
  <2>3. /\ j.pc = "next" /\ j.to = job[w].to /\ j.todo = job[w].todo \ {r}
        /\ j.by = job[w].by \cup {id} /\ j.path = job[w].path /\ j.primary = job[w].primary
    BY <1>1, <2>2 DEF Jobs
  <2>4. JobIsSound(j)'
    <3>1. \A x \in job[w].to \ job[w].todo : job[w].by \cap got[x] # {}
      BY <1>1 DEF JobIsSound, Resolved
    <3>2. \A x \in j.to \ j.todo : j.by \cap got[x] # {}
      BY <1>4, <2>3, <3>1
    <3> QED BY <1>1, <1>5, <2>3, <3>2 DEF JobIsSound, Resolved
  <2>5. /\ ledger' \in [Recipients -> Identities \cup {None}] /\ ledger'[r] # None
        /\ \A x \in Recipients : x # r => ledger'[x] = ledger[x]
        /\ ledger'[r] = ledger[r] \/ ledger'[r] = id
    BY <1>1, <1>4, <1>7
  <2>6. \A x \in Recipients : ledger'[x] # None => ledger'[x] \in got'[x]
    BY <1>4, <1>5, <2>5 DEF PDInv, LedgerNamesAcceptor
  <2>7. ~Tries(j) /\ j.pc # "record"
    BY <2>3 DEF Tries
  <2>8. ASSUME NEW x \in Recipients PROVE Paid(x)'
    <3>1. /\ copies'[x] = copies[x] /\ (Keyed(x)' <=> Keyed(x)) /\ wiring' = wiring
          /\ ledger'[x] = ledger[x] \/ ledger'[x] # None
          /\ job[w].cur = x /\ job[w].pc = "record" => ledger'[x] # None
      BY <1>2, <1>5, <2>5 DEF Keyed
    <3>2. excuse'[x] \in Nat /\ excuse'[x] >= excuse[x]
      BY <1>1, <1>7
    <3>3. ~(j.cur = x /\ (Tries(j) \/ j.pc = "record"))
      BY <2>7
    <3> QED BY <1>7, <2>2, <3>1, <3>2, <3>3, Leaves DEF PDInv
  <2>9. /\ url' \in [Workers -> Endpoints] /\ (wiring.env # "gateway" => \A v \in Workers : url'[v] = "gateway")
        /\ known' \in [Endpoints -> SUBSET Recipients]
        /\ got' \in [Recipients -> SUBSET Identities] /\ \A x \in Recipients : got[x] \subseteq got'[x]
        /\ wiring.env \notin {"gateway", "harness"} => \A x \in Recipients : "dev-sink" \notin got'[x]
    BY <1>1, <1>5, PDTypeFacts DEF PDInv, DrillsOnly
  <2>10. /\ row' \in RowRecords /\ row' = row /\ copies' \in [Recipients -> Nat]
         /\ excuse' \in [Recipients -> Nat] /\ job' = [job EXCEPT ![w] = j]
    BY <1>1, <1>5, <1>7, <2>2
  <2>11. PDInv'
    BY <1>5, <2>4, <2>5, <2>6, <2>8, <2>9, <2>10, WorkerStep
  <2> QED BY <2>10, <2>11
<1> QED BY <1>5, <1>6, <1>7

-----------------------------------------------------------------------------
(* Processes, operators, and the whole.                                      *)

LEMMA RestartInv ==
    ASSUME PDInv, NEW w \in Workers, NEW e \in Urls, Restart(w, e)
    PROVE  PDInv' /\ row' = row
<1>1. /\ url' = [url EXCEPT ![w] = e] /\ known' = [known EXCEPT !["dev-sink"] = {}]
      /\ IF job[w].pc = "record" THEN excuse' = [excuse EXCEPT ![job[w].cur] = @ + 1]
         ELSE UNCHANGED excuse
      /\ job' = [job EXCEPT ![w] = NoJob]
      /\ UNCHANGED <<wiring, mailbox, roster, ledger, row, got, copies>>
  BY DEF Restart, Goto, Excuse
<1>2. /\ job[w] \in Jobs /\ JobIsSound(job[w]) /\ row \in RowRecords
      /\ excuse \in [Recipients -> Nat] /\ copies \in [Recipients -> Nat]
      /\ ledger \in [Recipients -> Identities \cup {None}] /\ got \in [Recipients -> SUBSET Identities]
      /\ url \in [Workers -> Endpoints] /\ known \in [Endpoints -> SUBSET Recipients]
  BY PDTypeFacts DEF PDInv, JobsAreSound
<1>3. NoJob \in Jobs /\ ~Tries(NoJob) /\ NoJob.pc # "record" /\ JobIsSound(NoJob)'
  BY NoJobIsSound DEF Tries, JobIsSound, Resolved
<1>4. /\ e \in Endpoints /\ (wiring.env # "gateway" => e = "gateway")
      /\ url' \in [Workers -> Endpoints]
      /\ wiring.env # "gateway" => \A v \in Workers : url'[v] = "gateway"
  BY <1>1, <1>2 DEF Urls, Endpoints, PDInv, DrillsOnly
<1>5. known' \in [Endpoints -> SUBSET Recipients] /\ known'["gateway"] = known["gateway"]
  BY <1>1, <1>2 DEF Endpoints
<1>6. excuse' \in [Recipients -> Nat] /\ \A r \in Recipients :
           /\ excuse'[r] >= excuse[r]
           /\ job[w].cur = r /\ job[w].pc = "record" => excuse'[r] >= excuse[r] + 1
  <2>1. CASE job[w].pc = "record"
    <3>1. PICK r \in Recipients : r = job[w].cur
      BY <1>2, <2>1 DEF JobIsSound, Resolved
    <3>2. excuse' = [excuse EXCEPT ![r] = @ + 1]
      BY <1>1, <2>1, <3>1
    <3> QED BY <1>2, <3>1, <3>2
  <2>2. CASE job[w].pc # "record"
    BY <1>1, <1>2, <2>2
  <2> QED BY <2>1, <2>2
<1>7. ASSUME NEW r \in Recipients PROVE Paid(r)'
  <2>1. /\ copies'[r] = copies[r] /\ ledger'[r] = ledger[r] /\ (Keyed(r)' <=> Keyed(r))
        /\ excuse'[r] \in Nat /\ excuse'[r] >= excuse[r] /\ wiring' = wiring
        /\ job[w].cur = r /\ job[w].pc = "record" => excuse'[r] >= excuse[r] + 1
    BY <1>1, <1>5, <1>6 DEF Keyed
  <2> QED BY <1>1, <1>3, <2>1, Leaves DEF PDInv
<1>8. /\ \A r \in Recipients : ledger'[r] # None => ledger'[r] \in got'[r]
      /\ wiring.env \notin {"gateway", "harness"} => \A r \in Recipients : "dev-sink" \notin got'[r]
      /\ \A r \in Recipients : got[r] \subseteq got'[r]
  BY <1>1 DEF PDInv, LedgerNamesAcceptor, DrillsOnly
<1>9. /\ row' \in RowRecords /\ copies' \in [Recipients -> Nat]
      /\ ledger' \in [Recipients -> Identities \cup {None}] /\ got' \in [Recipients -> SUBSET Identities]
  BY <1>1, <1>2
<1> QED BY <1>1, <1>3, <1>4, <1>5, <1>6, <1>7, <1>8, <1>9, WorkerStep

\* What operators edit is read by the steps, and no part of what they leave.
LEMMA EditInv ==
    ASSUME PDInv, mailbox' \in [MailSlots -> MailboxHosts \cup {None}],
           roster' \in (SUBSET Recipients) \cup {None},
           UNCHANGED <<wiring, url, ledger, row, job, known, got, copies, excuse>>
    PROVE  PDInv'
<1> USE DEF PDInv
<1>1. PDTypes' /\ LedgerNamesAcceptor' /\ DrillsOnly'
  BY DEF PDTypes, PDTypeOK, LedgerNamesAcceptor, DrillsOnly
<1>2. JobsAreSound'
  BY DEF JobsAreSound, JobIsSound
<1>3. CopiesArePaid'
  BY DEF CopiesArePaid, Paid, Keyed, Forgotten, Recording, Trying, Tries
<1> QED BY <1>1, <1>2, <1>3

LEMMA EditsInv ==
    ASSUME PDInv,
           \/ \E s \in MailSlots, h \in MailboxHosts \cup {None} : EditMailbox(s, h)
           \/ \E who \in (SUBSET Recipients) \cup {None} : EditRoster(who)
    PROVE  PDInv' /\ row' = row
<1>1. /\ mailbox \in [MailSlots -> MailboxHosts \cup {None}]
      /\ roster \in (SUBSET Recipients) \cup {None}
  BY PDTypeFacts DEF PDInv
<1>2. /\ UNCHANGED <<wiring, url, ledger, row, job, known, got, copies, excuse>>
      /\ mailbox' \in [MailSlots -> MailboxHosts \cup {None}]
      /\ roster' \in (SUBSET Recipients) \cup {None}
  BY <1>1 DEF EditMailbox, EditRoster, World
<1> QED BY <1>2, EditInv

\* One step: the invariant, and what it may write on the row.
LEMMA PDStep ==
    ASSUME PDInv, [PDNext]_pdVars
    PROVE  /\ PDInv'
           /\ Marks => \E w \in Workers :
                 /\ row.owner = w /\ row'.to # {}
                 /\ \A r \in row'.to :
                       got[r] # {} /\ ("dev-sink" \notin row'.receipt => got[r] # {"dev-sink"})
                 /\ job[w].path = "console" => \A r \in row'.to : got[r] \cap row'.receipt # {}
<1>1. CASE UNCHANGED pdVars
  <2>1. /\ UNCHANGED <<wiring, url, ledger, row, job, known, got, copies, excuse, mailbox, roster>>
        /\ mailbox \in [MailSlots -> MailboxHosts \cup {None}]
        /\ roster \in (SUBSET Recipients) \cup {None}
    BY <1>1, PDTypeFacts DEF pdVars, PDInv
  <2>2. PDInv'
    BY <2>1, EditInv
  <2> QED BY <2>1, <2>2 DEF Marks
<1>2. ASSUME NEW w \in Workers, Claim(w)
      PROVE  PDInv' /\ ~Marks
  BY <1>2, ClaimInv DEF Marks
<1>3. ASSUME NEW w \in Workers,
             \/ ReadRoster(w) \/ ReadPrimary(w) \/ ReadFallback(w) \/ FillSink(w)
             \/ Mail(w) \/ MailFallback(w) \/ Post(w) \/ Record(w)
      PROVE  PDInv' /\ ~Marks
  <2>1. PDInv' /\ (row'.state = "SENT" => row.state = "SENT")
    BY <1>3, ReadRosterInv, ReadPrimaryInv, ReadFallbackInv, FillSinkInv, MailInv, PostInv, RecordInv
  <2> QED BY <2>1 DEF Marks
<1>4. ASSUME NEW w \in Workers, NEW r \in Recipients, NextRecipient(w, r)
      PROVE  PDInv' /\ ~Marks
  BY <1>4, NextRecipientInv DEF Marks
<1>5. ASSUME NEW w \in Workers, NEW e \in Urls, Restart(w, e)
      PROVE  PDInv' /\ ~Marks
  BY <1>5, RestartInv DEF Marks
<1>6. CASE \/ \E s \in MailSlots, h \in MailboxHosts \cup {None} : EditMailbox(s, h)
           \/ \E who \in (SUBSET Recipients) \cup {None} : EditRoster(who)
  BY <1>6, EditsInv DEF Marks
<1>7. ASSUME NEW w \in Workers, Finish(w)
      PROVE  /\ PDInv'
             /\ Marks =>
                  /\ row.owner = w /\ row'.to # {}
                  /\ \A r \in row'.to :
                        got[r] # {} /\ ("dev-sink" \notin row'.receipt => got[r] # {"dev-sink"})
                  /\ job[w].path = "console" => \A r \in row'.to : got[r] \cap row'.receipt # {}
  BY <1>7, FinishInv DEF Marks
<1> HIDE DEF Marks
<1> QED BY <1>1, <1>2, <1>3, <1>4, <1>5, <1>6, <1>7 DEF PDNext, Send

\* Paid copies are those that mishaps explain.
LEMMA PaidIsExplained == PDInv => CopiesNeedMishaps
<1> SUFFICES ASSUME PDInv, NEW r \in Recipients PROVE copies[r] <= 1 + excuse[r]
  BY DEF CopiesNeedMishaps
<1>1. Paid(r) /\ copies[r] \in Nat /\ excuse[r] \in Nat
  BY DEF PDInv, CopiesArePaid, PDTypes
<1>2. copies[r] <= excuse[r] + 1
  BY <1>1 DEF Paid
<1> QED BY <1>1, <1>2

(* Deliveries tell what happened (lib/delivery-providers.ts), whatever the       *)
(* wiring, the roster, the mailboxes and the number of workers and retries: a   *)
(* row is marked SENT only when every recipient its send resolved was taken, by *)
(* more than the sink unless the receipt says so and, over the console's        *)
(* mailboxes, by an account the receipt names; the ledger names who really took *)
(* the alert; and every copy beyond the first is paid for by a mishap.          *)
THEOREM DeliveryIsHonestHolds == PDSpec => DeliveryIsHonest
<1>1. PDInv => PDTypeOK /\ LedgerNamesAcceptor /\ CopiesNeedMishaps
  BY PaidIsExplained DEF PDInv, PDTypes
<1>2. PDInv /\ [PDNext]_pdVars =>
        [Marks =>
          /\ row'.to # {}
          /\ \A r \in row'.to :
                got[r] # {} /\ ("dev-sink" \notin row'.receipt => got[r] # {"dev-sink"})]_pdVars
  BY PDStep
<1>3. PDInv /\ [PDNext]_pdVars =>
        [Marks => \A w \in Workers : row.owner = w /\ job[w].path = "console"
            => \A r \in row'.to : got[r] \cap row'.receipt # {}]_pdVars
  BY PDStep
<1>4. PDSpec => []PDInv
  <2>1. PDInv /\ [PDNext]_pdVars => PDInv'
    BY PDStep
  <2> QED BY PDInitInv, <2>1, PTL DEF PDSpec
<1> QED BY <1>1, <1>2, <1>3, <1>4, PTL DEF PDSpec, DeliveryIsHonest, SentIsHonest,
      ReceiptNamesAcceptors
================================================================================
