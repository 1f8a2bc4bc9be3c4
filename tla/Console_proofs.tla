----------------------------- MODULE Console_proofs -----------------------------
(***************************************************************************)
(* Machine-checked proofs about what people are shown: the line under the  *)
(* handset's Send button (SendStatusLine), the console's session           *)
(* (ConsoleSession), its evidence browser (IncidentBrowser), its delivery  *)
(* warnings (DeliveryWarnings) and its readiness records (Readiness), for  *)
(* any number of attempts, requests, alerts, rows, pages, gates and        *)
(* periods.  Each has its own specification and a section of its own here. *)
(***************************************************************************)
EXTENDS SendStatusLine, ConsoleSession, IncidentBrowser, DeliveryWarnings, Readiness,
        FiniteSetTheorems, TLAPS

-----------------------------------------------------------------------------
(* SendStatusLine.                                                           *)

Stages == {"unused", "sending", "sent", "attributed", "looked", "over"}
LineKinds == {"empty", "sending", "summary", "final", "already sending", "not sent"}

LineTypes ==
    /\ owner \in Taps \cup {NoBatch}
    /\ recorded \subseteq Batches /\ shown \subseteq recorded
    /\ batch \in [Batches -> {"none", "out", "over"}]
    /\ finalizing \in recorded \cup {NoBatch}
    /\ tap \in [Taps -> [pc : Stages, at : Nat, found : Batches \cup {NoBatch}]]
    /\ screen \in [of : Batches \cup {NoBatch}, kind : LineKinds]
    /\ opened \in Nat /\ live \in BOOLEAN /\ leaving \in Nat
    /\ listener \in BOOLEAN /\ alertInFlight \in BOOLEAN /\ overlapped \in BOOLEAN
    /\ unwatched \subseteq Batches /\ raced \subseteq Batches

\* A batch exists only once its attempt has sent it, and its outcome is recorded with its end.
BatchesOfAttempts ==
    /\ \A b \in Batches : b \in recorded <=> batch[b] = "over"
    /\ \A a \in Taps : tap[a].pc \in {"unused", "sending"} => batch[a] = "none"

Newest(a) == \A b \in Taps : b > a => tap[b].pc = "unused"

\* Attempts that never overlapped come one after the other, and the one that runs is the
\* newest.
OneAtATime ==
    /\ \A a, b \in Taps : a < b /\ tap[b].pc # "unused" => tap[a].pc # "unused"
    /\ ~overlapped => \A a \in Taps : Ongoing(a) => Newest(a)

\* Without overlap the line is the newest attempt's or nobody's; an attempt owns it only after
\* its attribution.
OwnerIsNewest == ~overlapped =>
    /\ owner \in Taps => Newest(owner) /\ tap[owner].pc # "unused"
    /\ \A a \in Taps : Ongoing(a) =>
          /\ owner \in {NoBatch, a}
          /\ tap[a].pc \in {"sending", "sent"} => owner = NoBatch
          /\ a \in shown => owner = a

\* What an attempt found when it looked: the newest attempt's outcome, or none; and one that
\* is there in spite of that came in since.
LookIsRight == ~overlapped => \A a \in Taps : tap[a].pc = "looked" =>
    /\ tap[a].found # NoBatch => tap[a].found \in Taps /\ Newest(tap[a].found)
    /\ tap[a].found = NoBatch /\ owner \in recorded => owner \in raced

\* A summary on the line is the last word of an attempt, and no other one runs.
SummaryIsLast == ~overlapped /\ screen.kind = "summary" => \A a \in Taps : ~Ongoing(a)

\* FinalIsNotMissed from the attempt's look at the tracker on.
SeenOrShown ==
    \A a \in Taps \ unwatched :
        /\ tap[a].pc \in {"looked", "over"} /\ a = owner /\ a \in recorded /\ finalizing # a
        => a \in shown

LineInv == /\ LineTypes /\ BatchesOfAttempts /\ OneAtATime /\ OwnerIsNewest /\ LookIsRight
           /\ SummaryIsLast /\ SeenOrShown /\ FinalWins /\ NoMisattribution

LEMMA NoBatchIsNone == NoBatch \notin Batches /\ NoBatch \notin Taps /\ Requeued \notin Taps
BY TapsAssumption DEF NoBatch, Batches, Requeued

LEMMA LineInitInv == LineInit => LineInv
<1> SUFFICES ASSUME LineInit PROVE LineInv
  OBVIOUS
<1> USE DEF LineInit
<1>1. LineTypes
  BY DEF LineTypes, Stages, LineKinds, EmptyLine
<1>2. BatchesOfAttempts
  BY DEF BatchesOfAttempts, Batches
<1>3. OneAtATime /\ OwnerIsNewest /\ LookIsRight
  BY NoBatchIsNone DEF OneAtATime, OwnerIsNewest, LookIsRight, Ongoing
<1>4. SummaryIsLast /\ SeenOrShown /\ FinalWins /\ NoMisattribution
  BY NoBatchIsNone DEF SummaryIsLast, SeenOrShown, FinalWins, NoMisattribution, EmptyLine
<1> QED BY <1>1, <1>2, <1>3, <1>4 DEF LineInv

\* Changing nothing but the activities changes nothing of the above.
LEMMA ActivityStep ==
    ASSUME LineInv,
           UNCHANGED <<trackerVars, batch, finalizing, tap, screen, overlapped, unwatched, raced>>,
           opened' \in Nat, live' \in BOOLEAN, leaving' \in Nat, listener' \in BOOLEAN,
           alertInFlight' \in BOOLEAN
    PROVE  LineInv'
<1> USE DEF trackerVars, LineInv
<1>1. LineTypes'
  BY DEF LineTypes
<1>2. BatchesOfAttempts' /\ OneAtATime' /\ OwnerIsNewest' /\ LookIsRight'
  BY DEF BatchesOfAttempts, OneAtATime, OwnerIsNewest, LookIsRight, Ongoing, Newest
<1>3. SummaryIsLast' /\ SeenOrShown' /\ FinalWins' /\ NoMisattribution'
  BY DEF SummaryIsLast, SeenOrShown, FinalWins, NoMisattribution, Ongoing
<1> QED BY <1>1, <1>2, <1>3

LEMMA TapAlertInv ==
    ASSUME LineInv, NEW a \in Taps, TapAlert(a)
    PROVE  LineInv'
<1> USE NoBatchIsNone, TapsAssumption DEF LineInv
<1>1. /\ tap[a].pc = "unused" /\ \A b \in Taps : b < a => tap[b].pc # "unused"
      /\ owner' = NoBatch /\ screen' = Line(a, "sending") /\ alertInFlight' = TRUE
      /\ tap' = [tap EXCEPT ![a] = [pc |-> "sending", at |-> opened, found |-> NoBatch]]
      /\ overlapped' = (overlapped \/ \E b \in Taps : Ongoing(b))
      /\ UNCHANGED <<recorded, shown, batch, finalizing, opened, live, leaving, listener,
                     unwatched, raced>>
  BY DEF TapAlert, OwnerAtStart
<1>2. /\ \A b \in Taps : tap'[b].pc = IF b = a THEN "sending" ELSE tap[b].pc
      /\ \A b \in Taps : b # a => tap'[b] = tap[b]
  BY <1>1 DEF LineTypes
<1>3. LineTypes'
  <2>1. a \in Batches
    BY DEF Batches
  <2> QED BY <1>1, <2>1 DEF LineTypes, Stages, LineKinds, Line
<1>4. BatchesOfAttempts'
  BY <1>1, <1>2 DEF BatchesOfAttempts
<1>5. a \notin recorded
  BY <1>1 DEF BatchesOfAttempts, Batches
<1>6. \A b \in Taps : b > a => tap[b].pc = "unused"
  BY <1>1 DEF OneAtATime
<1>7. ASSUME ~overlapped'
      PROVE  \A b \in Taps : Ongoing(b)' => b = a
  BY <1>7, <1>1, <1>2 DEF Ongoing
<1>8. OneAtATime'
  <2>1. \A b, c \in Taps : b < c /\ tap'[c].pc # "unused" => tap'[b].pc # "unused"
    BY <1>1, <1>2, <1>6 DEF OneAtATime
  <2>2. ~overlapped' => \A b \in Taps : Ongoing(b)' => Newest(b)'
    BY <1>7, <1>6, <1>2 DEF Newest
  <2> QED BY <2>1, <2>2 DEF OneAtATime
<1>9. OwnerIsNewest'
  BY <1>1, <1>5, <1>7 DEF OwnerIsNewest, LineTypes
<1>10. LookIsRight'
  BY <1>1, <1>2, <1>7 DEF LookIsRight, Ongoing
<1>11. SummaryIsLast' /\ FinalWins' /\ NoMisattribution'
  BY <1>1 DEF SummaryIsLast, FinalWins, NoMisattribution, Line
<1>12. SeenOrShown'
  BY <1>1 DEF SeenOrShown
<1> QED BY <1>3, <1>4, <1>8, <1>9, <1>10, <1>11, <1>12

\* A step of an attempt other than its start and its end leaves the others where they are.
LEMMA GoesOn ==
    ASSUME LineInv, NEW a \in Taps, NEW from \in Stages, NEW to \in Stages, Goes(a, from, to)
    PROVE  /\ tap[a].pc = from /\ tap'[a].pc = to /\ tap'[a].found = tap[a].found
           /\ \A b \in Taps : b # a => tap'[b] = tap[b]
           /\ tap' \in [Taps -> [pc : Stages, at : Nat, found : Batches \cup {NoBatch}]]
BY DEF LineInv, LineTypes, Goes

LEMMA SendBatchInv ==
    ASSUME LineInv, NEW a \in Taps, SendBatch(a)
    PROVE  LineInv'
<1> USE NoBatchIsNone, TapsAssumption DEF LineInv
<1>1. /\ tap[a].pc = "sending" /\ tap'[a].pc = "sent" /\ tap'[a].found = tap[a].found
      /\ \A b \in Taps : b # a => tap'[b] = tap[b]
      /\ tap' \in [Taps -> [pc : Stages, at : Nat, found : Batches \cup {NoBatch}]]
  <2>1. Goes(a, "sending", "sent") /\ "sending" \in Stages /\ "sent" \in Stages
    BY DEF SendBatch, Stages
  <2> QED BY <2>1, GoesOn
<1>2. UNCHANGED <<owner, shown, finalizing, screen, opened, live, leaving, listener,
                  alertInFlight, overlapped, unwatched, raced>>
  BY DEF SendBatch, uiVars
<1>3. /\ recorded \subseteq recorded' /\ recorded' \subseteq recorded \cup {a}
      /\ batch' \in [Batches -> {"none", "out", "over"}]
      /\ \A b \in Batches : b # a => batch'[b] = batch[b]
      /\ a \in recorded' <=> batch'[a] = "over"
  <2>1. a \in Batches /\ a \notin recorded /\ batch[a] = "none"
    BY <1>1 DEF BatchesOfAttempts, Batches
  <2> QED BY <2>1 DEF SendBatch, LineTypes
<1>4. LineTypes'
  BY <1>1, <1>2, <1>3 DEF LineTypes, Batches
<1>5. BatchesOfAttempts'
  BY <1>1, <1>3 DEF BatchesOfAttempts, LineTypes, Batches
<1>6. \A b \in Taps : (tap'[b].pc = "unused" <=> tap[b].pc = "unused") /\ (Ongoing(b)' <=> Ongoing(b))
  BY <1>1 DEF Ongoing
<1>7. OneAtATime'
  BY <1>2, <1>6 DEF OneAtATime, Newest
<1>8. OwnerIsNewest'
  BY <1>1, <1>2, <1>6 DEF OwnerIsNewest, Newest
<1>9. LookIsRight'
  <2>1. SUFFICES ASSUME ~overlapped', NEW b \in Taps, tap'[b].pc = "looked"
                 PROVE  FALSE
    BY DEF LookIsRight
  <2>2. Ongoing(a) /\ Ongoing(b) /\ a # b
    BY <2>1, <1>1 DEF Ongoing
  <2>3. (b > a => tap[b].pc = "unused") /\ (a > b => tap[a].pc = "unused")
    BY <2>1, <2>2, <1>2 DEF OneAtATime, Newest
  <2> QED BY <2>2, <2>3 DEF Ongoing
<1>10. SummaryIsLast' /\ FinalWins' /\ NoMisattribution'
  BY <1>2, <1>6 DEF SummaryIsLast, FinalWins, NoMisattribution
<1>11. SeenOrShown'
  BY <1>1, <1>2, <1>3 DEF SeenOrShown
<1> QED BY <1>4, <1>5, <1>7, <1>8, <1>9, <1>10, <1>11

\* Where nothing overlaps, a running attempt is the only one.
LEMMA OnlyOne ==
    ASSUME LineInv, ~overlapped, NEW a \in Taps, Ongoing(a), NEW b \in Taps, Ongoing(b)
    PROVE  a = b
<1>1. (b > a => tap[b].pc = "unused") /\ (a > b => tap[a].pc = "unused")
  BY DEF LineInv, OneAtATime, Newest
<1> QED BY <1>1, TapsAssumption DEF Ongoing

LEMMA AttributeInv ==
    ASSUME LineInv, NEW a \in Taps, Attribute(a)
    PROVE  LineInv'
<1> USE NoBatchIsNone, TapsAssumption DEF LineInv
<1>1. /\ tap[a].pc = "sent" /\ tap'[a].pc = "attributed" /\ tap'[a].found = tap[a].found
      /\ \A b \in Taps : b # a => tap'[b] = tap[b]
      /\ tap' \in [Taps -> [pc : Stages, at : Nat, found : Batches \cup {NoBatch}]]
  <2>1. Goes(a, "sent", "attributed") /\ "sent" \in Stages /\ "attributed" \in Stages
    BY DEF Attribute, Stages
  <2> QED BY <2>1, GoesOn
<1>2. /\ UNCHANGED <<recorded, shown, batch, finalizing, screen, opened, live, leaving, listener,
                     alertInFlight, overlapped, unwatched, raced>>
      /\ owner' \in {NoBatch, owner, a}
  BY DEF Attribute, uiVars
<1>3. LineTypes' /\ BatchesOfAttempts'
  BY <1>1, <1>2 DEF LineTypes, BatchesOfAttempts
<1>4. \A b \in Taps : (tap'[b].pc = "unused" <=> tap[b].pc = "unused") /\ (Ongoing(b)' <=> Ongoing(b))
  BY <1>1 DEF Ongoing
<1>5. OneAtATime'
  BY <1>2, <1>4 DEF OneAtATime, Newest
<1>6. ~overlapped => \A b \in Taps : Ongoing(b) => b = a
  BY <1>1, OnlyOne DEF Ongoing
<1>7. OwnerIsNewest'
  <2>1. SUFFICES ASSUME ~overlapped'
                 PROVE  OwnerIsNewest'
    BY DEF OwnerIsNewest
  <2>2. owner = NoBatch /\ Newest(a) /\ Ongoing(a) /\ a \notin shown
    BY <2>1, <1>1, <1>2 DEF OwnerIsNewest, OneAtATime, Ongoing
  <2>3. owner' \in Taps => Newest(owner)' /\ tap'[owner'].pc # "unused"
    BY <1>1, <1>2, <1>4, <2>2 DEF Newest
  <2>4. \A b \in Taps : Ongoing(b)' => b = a
    BY <2>1, <1>2, <1>4, <1>6
  <2> QED BY <1>1, <1>2, <2>2, <2>3, <2>4 DEF OwnerIsNewest
<1>8. LookIsRight'
  BY <1>1, <1>2, <1>6 DEF LookIsRight, Ongoing
<1>9. SummaryIsLast' /\ FinalWins' /\ NoMisattribution'
  BY <1>2, <1>4 DEF SummaryIsLast, FinalWins, NoMisattribution
<1>10. SeenOrShown'
  BY <1>1, <1>2 DEF SeenOrShown
<1> QED BY <1>3, <1>5, <1>7, <1>8, <1>9, <1>10

LEMMA LookInv ==
    ASSUME LineInv, NEW a \in Taps, Look(a)
    PROVE  LineInv'
<1> USE NoBatchIsNone, TapsAssumption DEF LineInv
<1>1. /\ tap[a].pc = "attributed" /\ tap'[a].pc = "looked"
      /\ tap'[a].found = IF owner \in recorded THEN owner ELSE NoBatch
      /\ \A b \in Taps : b # a => tap'[b] = tap[b]
      /\ tap' \in [Taps -> [pc : Stages, at : Nat, found : Batches \cup {NoBatch}]]
  <2>1. PICK f \in Batches \cup {NoBatch} : f = IF owner \in recorded THEN owner ELSE NoBatch
    BY DEF LineTypes
  <2>2. /\ tap[a].pc = "attributed"
        /\ tap' = [tap EXCEPT ![a].pc = "looked", ![a].found = f]
    BY <2>1 DEF Look, Finalized
  <2>3. /\ tap'[a].pc = "looked" /\ tap'[a].found = f
        /\ \A b \in Taps : b # a => tap'[b] = tap[b]
    BY <2>2 DEF LineTypes
  <2>4. tap' \in [Taps -> [pc : Stages, at : Nat, found : Batches \cup {NoBatch}]]
    <3>1. PICK t \in [pc : Stages, at : Nat, found : Batches \cup {NoBatch}] : t = tap[a]
      BY DEF LineTypes
    <3>2. [t EXCEPT !.pc = "looked", !.found = f]
              \in [pc : Stages, at : Nat, found : Batches \cup {NoBatch}]
      BY <3>1 DEF Stages
    <3>3. tap' = [tap EXCEPT ![a] = [t EXCEPT !.pc = "looked", !.found = f]]
      BY <2>2, <3>1
    <3> QED BY <3>2, <3>3 DEF LineTypes
  <2> QED BY <2>1, <2>2, <2>3, <2>4
<1>2. /\ UNCHANGED <<owner, recorded, batch, finalizing, screen, opened, live, leaving, listener,
                     alertInFlight, overlapped, unwatched, raced>>
      /\ shown' = IF owner \in recorded THEN shown \cup {owner} ELSE shown
  BY DEF Look, Finalized, uiVars
<1>3. LineTypes' /\ BatchesOfAttempts'
  BY <1>1, <1>2 DEF LineTypes, BatchesOfAttempts
<1>4. \A b \in Taps : (tap'[b].pc = "unused" <=> tap[b].pc = "unused") /\ (Ongoing(b)' <=> Ongoing(b))
  BY <1>1 DEF Ongoing
<1>5. OneAtATime'
  BY <1>2, <1>4 DEF OneAtATime, Newest
<1>6. ~overlapped => \A b \in Taps : Ongoing(b) => b = a
  BY <1>1, OnlyOne DEF Ongoing
<1>7. OwnerIsNewest'
  BY <1>1, <1>2, <1>4 DEF OwnerIsNewest, Newest
<1>8. LookIsRight'
  <2>1. SUFFICES ASSUME ~overlapped', NEW b \in Taps, tap'[b].pc = "looked"
                 PROVE  /\ tap'[b].found # NoBatch =>
                              /\ tap'[b].found \in Taps
                              /\ \A c \in Taps : c > tap'[b].found => tap'[c].pc = "unused"
                        /\ tap'[b].found = NoBatch /\ owner' \in recorded' => owner' \in raced'
    BY DEF LookIsRight, Newest
  <2>2. b = a
    BY <2>1, <1>1, <1>2, <1>4, <1>6 DEF Ongoing
  <2>3. owner \in Taps => \A c \in Taps : c > owner => tap'[c].pc = "unused"
    BY <2>1, <1>2, <1>4 DEF OwnerIsNewest, Newest
  <2>4. owner \in recorded => owner \in Taps
    BY DEF LineTypes
  <2> QED BY <2>2, <2>3, <2>4, <1>1, <1>2
<1>9. SummaryIsLast' /\ FinalWins' /\ NoMisattribution'
  <2>1. Ongoing(a)
    BY <1>1 DEF Ongoing
  <2> QED BY <1>2, <1>4, <2>1 DEF SummaryIsLast, FinalWins, NoMisattribution
<1>10. SeenOrShown'
  BY <1>1, <1>2 DEF SeenOrShown
<1> QED BY <1>3, <1>5, <1>7, <1>8, <1>9, <1>10

\* The lines a step may write are lines.
LEMMA FinalLine ==
    ASSUME NEW b \in Batches
    PROVE  Line(b, "final") \in [of : Batches \cup {NoBatch}, kind : LineKinds]
BY DEF Line, LineKinds

LEMMA SummaryLine ==
    ASSUME NEW b \in Batches
    PROVE  Line(b, "summary") \in [of : Batches \cup {NoBatch}, kind : LineKinds]
BY DEF Line, LineKinds

LEMMA EmptyLineType == EmptyLine \in [of : Batches \cup {NoBatch}, kind : LineKinds]
BY DEF EmptyLine, LineKinds

LEMMA PostInv ==
    ASSUME LineInv, NEW a \in Taps, Post(a)
    PROVE  LineInv'
<1> USE NoBatchIsNone, TapsAssumption DEF LineInv
<1>1. /\ tap[a].pc = "looked" /\ tap'[a].pc = "over" /\ tap'[a].found = tap[a].found
      /\ \A b \in Taps : b # a => tap'[b] = tap[b]
      /\ tap' \in [Taps -> [pc : Stages, at : Nat, found : Batches \cup {NoBatch}]]
  <2>1. Goes(a, "looked", "over") /\ "looked" \in Stages /\ "over" \in Stages
    BY DEF Post, Stages
  <2> QED BY <2>1, GoesOn
<1>2. /\ UNCHANGED <<owner, recorded, shown, batch, finalizing, opened, live, leaving, listener,
                     overlapped, unwatched, raced>>
      /\ alertInFlight' \in BOOLEAN
      /\ screen' \in {screen, IF tap[a].found # NoBatch THEN Line(tap[a].found, "final")
                                                        ELSE Line(a, "summary")}
  BY DEF Post, trackerVars, LineTypes
<1>3. LineTypes' /\ BatchesOfAttempts'
  <2>1. screen \in [of : Batches \cup {NoBatch}, kind : LineKinds]
    BY DEF LineTypes
  <2>2. tap[a].found \in Batches \cup {NoBatch} /\ a \in Batches
    BY DEF LineTypes, Batches
  <2>3. screen' \in [of : Batches \cup {NoBatch}, kind : LineKinds]
    BY <1>2, <2>1, <2>2, FinalLine, SummaryLine
  <2> QED BY <1>1, <1>2, <2>3 DEF LineTypes, BatchesOfAttempts
<1>4. /\ \A b \in Taps : tap'[b].pc = "unused" <=> tap[b].pc = "unused"
      /\ \A b \in Taps : Ongoing(b)' => Ongoing(b) /\ b # a
  BY <1>1 DEF Ongoing
<1>5. OneAtATime'
  BY <1>2, <1>4 DEF OneAtATime, Newest
<1>6. ~overlapped => \A b \in Taps : Ongoing(b) => b = a
  BY <1>1, OnlyOne DEF Ongoing
<1>7. OwnerIsNewest'
  BY <1>1, <1>2, <1>4 DEF OwnerIsNewest, Newest
<1>8. LookIsRight'
  BY <1>1, <1>2, <1>6 DEF LookIsRight, Ongoing
<1>9. SummaryIsLast'
  BY <1>2, <1>4, <1>6 DEF SummaryIsLast
<1>10. FinalWins'
  <2>1. ASSUME ~overlapped, tap[a].found = NoBatch
        PROVE  a \notin shown \ raced
    <3>1. a \in shown => owner = a /\ owner \in recorded
      BY <2>1, <1>1 DEF OwnerIsNewest, Ongoing, LineTypes
    <3> QED BY <2>1, <3>1, <1>1 DEF LookIsRight
  <2> QED BY <1>2, <2>1 DEF FinalWins, Line
<1>11. NoMisattribution'
  <2>1. ASSUME ~overlapped, tap[a].found # NoBatch
        PROVE  tap[a].found \in Taps /\ Newest(tap[a].found)
    BY <2>1, <1>1 DEF LookIsRight
  <2>2. ~overlapped /\ screen.kind = "final" => screen.of \in Taps /\ Newest(screen.of)
    BY DEF NoMisattribution, Newest
  <2> QED BY <1>2, <1>4, <2>1, <2>2 DEF NoMisattribution, Newest, Line
<1>12. SeenOrShown'
  BY <1>1, <1>2 DEF SeenOrShown
<1> QED BY <1>3, <1>5, <1>7, <1>8, <1>9, <1>10, <1>11, <1>12

\* A re-queued batch goes out: no attempt's, and no outcome yet.
LEMMA SendRequeuedInv ==
    ASSUME LineInv, SendRequeued
    PROVE  LineInv'
<1> USE NoBatchIsNone, TapsAssumption DEF LineInv
<1>1. /\ UNCHANGED <<owner, recorded, shown, finalizing, tap, screen, opened, live, leaving,
                     listener, alertInFlight, overlapped, unwatched, raced>>
      /\ batch[Requeued] = "none" /\ batch' = [batch EXCEPT ![Requeued] = "out"]
  BY DEF SendRequeued, trackerVars, uiVars
<1>2. LineTypes' /\ BatchesOfAttempts'
  BY <1>1 DEF LineTypes, BatchesOfAttempts, Batches
<1>3. OneAtATime' /\ OwnerIsNewest' /\ LookIsRight'
  BY <1>1 DEF OneAtATime, OwnerIsNewest, LookIsRight, Ongoing, Newest
<1>4. SummaryIsLast' /\ SeenOrShown' /\ FinalWins' /\ NoMisattribution'
  BY <1>1 DEF SummaryIsLast, SeenOrShown, FinalWins, NoMisattribution, Ongoing
<1> QED BY <1>2, <1>3, <1>4

LEMMA FinalizeInv ==
    ASSUME LineInv, NEW b \in Batches, Finalize(b)
    PROVE  LineInv'
<1> USE NoBatchIsNone, TapsAssumption DEF LineInv
<1>1. /\ UNCHANGED <<owner, shown, tap, screen, opened, live, leaving, listener, alertInFlight,
                     overlapped, unwatched>>
      /\ finalizing = NoBatch /\ finalizing' = b
      /\ batch[b] = "out" /\ batch' = [batch EXCEPT ![b] = "over"]
      /\ recorded' = recorded \cup {b}
      /\ raced' = IF \E a \in Taps : tap[a].pc = "looked" THEN raced \cup {b} ELSE raced
  BY DEF Finalize, MainIsFree, uiVars
<1>2. LineTypes' /\ BatchesOfAttempts'
  BY <1>1 DEF LineTypes, BatchesOfAttempts, Batches
<1>3. OneAtATime' /\ OwnerIsNewest'
  BY <1>1 DEF OneAtATime, OwnerIsNewest, Ongoing, Newest
<1>4. LookIsRight'
  BY <1>1 DEF LookIsRight, Newest
<1>5. SummaryIsLast' /\ SeenOrShown' /\ FinalWins' /\ NoMisattribution'
  BY <1>1 DEF SummaryIsLast, SeenOrShown, FinalWins, NoMisattribution, Ongoing
<1> QED BY <1>2, <1>3, <1>4, <1>5

\* The outcome of the line's owner is handed out, and shown unless an attempt will do that.
LEMMA ShownStep ==
    ASSUME LineInv, owner \in recorded,
           shown' = shown \cup {owner},
           screen' = Line(owner, "final"),
           UNCHANGED <<owner, recorded, batch, tap, overlapped, raced>>,
           opened' \in Nat, live' \in BOOLEAN, leaving' \in Nat, listener' \in BOOLEAN,
           alertInFlight' \in BOOLEAN, finalizing' \in {finalizing, NoBatch},
           unwatched \subseteq unwatched', unwatched' \subseteq Batches,
           finalizing' = finalizing \/ finalizing \in shown'
    PROVE  LineInv'
<1> USE NoBatchIsNone, TapsAssumption DEF LineInv
<1>1. owner \in Taps
  BY DEF LineTypes
<1>2. LineTypes' /\ BatchesOfAttempts'
  <2>1. owner \in Batches
    BY <1>1 DEF Batches
  <2>2. screen' \in [of : Batches \cup {NoBatch}, kind : LineKinds]
    BY <2>1, FinalLine
  <2> QED BY <1>1, <2>2 DEF LineTypes, BatchesOfAttempts, Batches
<1>3. OneAtATime' /\ OwnerIsNewest' /\ LookIsRight'
  BY DEF OneAtATime, OwnerIsNewest, LookIsRight, Ongoing, Newest
<1>4. SummaryIsLast' /\ FinalWins'
  BY DEF SummaryIsLast, FinalWins, Line
<1>5. NoMisattribution'
  BY <1>1 DEF NoMisattribution, OwnerIsNewest, Newest, Line
<1>6. SeenOrShown'
  BY DEF SeenOrShown
<1> QED BY <1>2, <1>3, <1>4, <1>5, <1>6

LEMMA PublishInv ==
    ASSUME LineInv, Publish
    PROVE  LineInv'
<1> USE NoBatchIsNone, TapsAssumption DEF LineInv
<1>1. /\ finalizing # NoBatch /\ finalizing' = NoBatch
      /\ unwatched' = IF listener THEN unwatched ELSE unwatched \cup {finalizing}
      /\ UNCHANGED <<owner, recorded, batch, tap, opened, live, leaving, listener, alertInFlight,
                     overlapped, raced>>
  BY DEF Publish
<1>2. CASE listener /\ finalizing = owner /\ finalizing \notin shown /\ owner \in recorded
  <2>1. shown' = shown \cup {owner} /\ screen' = Line(owner, "final")
    BY <1>2 DEF Publish, Showable
  <2>2. finalizing \in shown'
    BY <2>1, <1>2
  <2> QED BY <1>1, <1>2, <2>1, <2>2, ShownStep DEF LineTypes
<1>3. CASE ~(listener /\ finalizing = owner /\ finalizing \notin shown)
  <2>1. UNCHANGED <<shown, screen>>
    BY <1>3 DEF Publish, Showable
  <2>2. LineTypes' /\ BatchesOfAttempts'
    BY <1>1, <2>1 DEF LineTypes, BatchesOfAttempts
  <2>3. OneAtATime' /\ OwnerIsNewest' /\ LookIsRight'
    BY <1>1, <2>1 DEF OneAtATime, OwnerIsNewest, LookIsRight, Ongoing, Newest
  <2>4. SummaryIsLast' /\ FinalWins' /\ NoMisattribution'
    BY <1>1, <2>1 DEF SummaryIsLast, FinalWins, NoMisattribution, Ongoing
  <2>5. SeenOrShown'
    BY <1>1, <1>3, <2>1 DEF SeenOrShown
  <2> QED BY <2>2, <2>3, <2>4, <2>5
<1>4. finalizing = owner => owner \in recorded
  BY <1>1 DEF LineTypes
<1> QED BY <1>2, <1>3, <1>4

LEMMA ResumeOnInv ==
    ASSUME LineInv, NEW line \in {screen, EmptyLine}, ResumeOn(line),
           UNCHANGED <<owner, recorded, batch, finalizing, tap, leaving, overlapped, unwatched, raced>>,
           opened' \in Nat, live' \in BOOLEAN, listener' \in BOOLEAN, alertInFlight' \in BOOLEAN
    PROVE  LineInv'
<1> USE NoBatchIsNone, TapsAssumption DEF LineInv
<1>1. CASE Resumable
  BY <1>1, ShownStep DEF ResumeOn, Resumable, LineTypes
<1>2. CASE ~Resumable
  <2>1. shown' = shown /\ screen' \in {screen, EmptyLine}
    BY <1>2 DEF ResumeOn
  <2>2. LineTypes' /\ BatchesOfAttempts'
    <3>1. screen' \in [of : Batches \cup {NoBatch}, kind : LineKinds]
      BY <2>1, EmptyLineType DEF LineTypes
    <3> QED BY <2>1, <3>1 DEF LineTypes, BatchesOfAttempts
  <2>3. OneAtATime' /\ OwnerIsNewest' /\ LookIsRight'
    BY <2>1 DEF OneAtATime, OwnerIsNewest, LookIsRight, Ongoing, Newest
  <2>4. SeenOrShown'
    BY <2>1 DEF SeenOrShown
  <2>5. screen' = screen \/ screen'.kind = "empty"
    BY <2>1 DEF EmptyLine
  <2>6. SummaryIsLast' /\ FinalWins' /\ NoMisattribution'
    BY <2>1, <2>5 DEF SummaryIsLast, FinalWins, NoMisattribution, Ongoing
  <2> QED BY <2>2, <2>3, <2>4, <2>6
<1> QED BY <1>1, <1>2

\* A refused tap writes the line and changes nothing else.
LEMMA RefuseTapInv ==
    ASSUME LineInv, RefuseTap
    PROVE  LineInv'
<1> USE NoBatchIsNone DEF LineInv, trackerVars
<1>1. /\ screen'.of = NoBatch /\ screen'.kind \in {"already sending", "not sent"}
      /\ screen' \in [of : Batches \cup {NoBatch}, kind : LineKinds]
  BY DEF RefuseTap, Line, LineKinds
<1>2. UNCHANGED <<trackerVars, batch, finalizing, tap, opened, live, leaving, listener,
                  alertInFlight, overlapped, unwatched, raced>>
  BY DEF RefuseTap
<1>3. LineTypes' /\ BatchesOfAttempts'
  BY <1>1, <1>2 DEF LineTypes, BatchesOfAttempts
<1>4. OneAtATime' /\ OwnerIsNewest' /\ LookIsRight'
  BY <1>2 DEF OneAtATime, OwnerIsNewest, LookIsRight, Ongoing, Newest
<1>5. SeenOrShown'
  BY <1>2 DEF SeenOrShown
<1>6. SummaryIsLast' /\ FinalWins' /\ NoMisattribution'
  BY <1>1 DEF SummaryIsLast, FinalWins, NoMisattribution
<1> QED BY <1>3, <1>4, <1>5, <1>6

LEMMA LineStepInv == LineInv /\ [LineNext]_lineVars => LineInv'
<1> SUFFICES ASSUME LineInv, [LineNext]_lineVars
             PROVE  LineInv'
  OBVIOUS
<1>1. ASSUME NEW a \in Taps, TapAlert(a) \/ SendBatch(a) \/ Attribute(a) \/ Look(a) \/ Post(a)
      PROVE  LineInv'
  BY <1>1, TapAlertInv, SendBatchInv, AttributeInv, LookInv, PostInv
<1>2. opened \in Nat /\ leaving \in Nat /\ {live, listener, alertInFlight} \subseteq BOOLEAN
  BY DEF LineInv, LineTypes
<1>3. CASE Resume
  BY <1>2, <1>3, ResumeOnInv DEF Resume
<1>4. CASE Open
  <2>1. opened' \in Nat /\ ResumeOn(EmptyLine)
    BY <1>2, <1>4 DEF Open
  <2> QED BY <2>1, <1>4, ResumeOnInv DEF Open
<1>5. CASE Leave \/ Destroy
  <2>1. leaving' \in Nat
    BY <1>2, <1>5 DEF Leave, Destroy
  <2> QED BY <2>1, <1>2, <1>5, ActivityStep DEF Leave, Destroy
<1>6. CASE UNCHANGED lineVars
  BY <1>6, ActivityStep DEF lineVars, uiVars, LineInv, LineTypes
<1> QED BY <1>1, <1>2, <1>3, <1>4, <1>5, <1>6, RefuseTapInv, SendRequeuedInv, FinalizeInv,
        PublishInv DEF LineNext

LEMMA LineInvariant == LineSpec => []LineInv
BY LineInitInv, LineStepInv, PTL DEF LineSpec

\* The line under the Send button shows the outcome of the newest attempt, whatever taps are
\* refused: a final outcome is neither covered by the summary nor another batch's nor missed
\* (BatchOutcomeTracker.kt and sendMvpAlert of MainActivity.kt), for any number of attempts and
\* activities.
THEOREM LineIsTrueHolds == LineSpec => []LineIsTrue
<1>1. LineInv => LineIsTrue
  BY DEF LineInv, LineIsTrue, SeenOrShown, FinalIsNotMissed
<1> QED BY <1>1, LineInvariant, PTL

-----------------------------------------------------------------------------
(* ConsoleSession.                                                           *)

RequestKinds == {"none", "load", "retry", "reload", "action", "import", "page"}
AnswerKinds == {"none", "ok", "drift", "failed", "unauthorized"}
RequestRecords == [kind : RequestKinds, pc : {"idle", "dialog", "sent", "answered"}, gen : Nat,
                   token : Nat, answer : AnswerKinds]

SessionTypes ==
    /\ enrolments \in 1..MaxEnrolments
    /\ enrolledIn \in [ConsoleCredentials -> Nat]
    /\ token \in 0..enrolments /\ data \in 0..enrolments /\ imported \in 0..enrolments
    /\ gen \in Nat
    /\ {signedOut, authLock, stateIssue, offlineDemo, unlocked, crossed} \subseteq BOOLEAN
    /\ req \in [Requests -> RequestRecords]

\* A credential that is stored, or whose data are shown, was enrolled in this generation.
StoredIsFresh ==
    /\ token # NoToken => enrolledIn[token] = gen
    /\ data # NoToken => enrolledIn[data] = gen

\* Of a request: it is sent with a credential enrolled in the generation it was begun in; it
\* waits for the dialog only in the present one; an import of an earlier one crossed a sign-out.
RequestIsSound(r) ==
    /\ r.pc \in {"sent", "answered"} =>
          r.token \in 1..enrolments /\ enrolledIn[r.token] = r.gen
    /\ r.pc = "dialog" => r.gen = gen
    /\ r.kind = "import" => r.gen = gen \/ crossed
    /\ r.kind = "none" => r.pc = "idle"

RequestsAreSound == \A s \in Requests : RequestIsSound(req[s])

\* A console whose credential is gone while it has data is locked.
LossIsLocked == token = NoToken /\ data # NoToken => unlocked \/ authLock

SessionInv ==
    SessionTypes /\ StoredIsFresh /\ RequestsAreSound /\ LossIsLocked /\ ImportStaysInSession

LEMMA SessionInitInv == ConsoleInit => SessionInv
<1> SUFFICES ASSUME ConsoleInit PROVE SessionInv
  OBVIOUS
<1> USE ConsoleAssumption DEF ConsoleInit, NoToken
<1>1. SessionTypes
  <2>1. NoReq \in RequestRecords
    BY DEF RequestRecords, RequestKinds, AnswerKinds, NoReq
  <2>2. /\ enrolments \in 1..MaxEnrolments /\ token \in 0..enrolments /\ gen \in Nat
        /\ data \in 0..enrolments /\ imported \in 0..enrolments
    OBVIOUS
  <2>3. enrolledIn \in [ConsoleCredentials -> Nat] /\ req \in [Requests -> RequestRecords]
    BY <2>1
  <2> QED BY <2>2, <2>3 DEF SessionTypes
<1>2. StoredIsFresh /\ LossIsLocked /\ ImportStaysInSession
  BY DEF StoredIsFresh, LossIsLocked, ImportStaysInSession, ConsoleCredentials
<1>3. RequestsAreSound
  BY DEF RequestsAreSound, RequestIsSound, NoReq
<1> QED BY <1>1, <1>2, <1>3 DEF SessionInv

\* Steps that neither enrol nor sign out and change requests soundly.
LEMMA SessionStep ==
    ASSUME SessionInv, UNCHANGED <<enrolments, enrolledIn, gen, crossed>>,
           req' \in [Requests -> RequestRecords],
           \A s \in Requests : RequestIsSound(req'[s]),
           token' \in {token, NoToken}, data' \in 0..enrolments, imported' \in 0..enrolments,
           data' # NoToken => enrolledIn[data'] = gen,
           imported' # NoToken => enrolledIn[imported'] = gen \/ crossed,
           {signedOut', authLock', stateIssue', offlineDemo', unlocked'} \subseteq BOOLEAN,
           LossIsLocked'
    PROVE  SessionInv'
<1> USE DEF SessionInv
<1>1. SessionTypes'
  BY DEF SessionTypes, NoToken
<1>2. StoredIsFresh' /\ ImportStaysInSession'
  BY DEF StoredIsFresh, ImportStaysInSession
<1>3. RequestsAreSound'
  BY DEF RequestsAreSound, RequestIsSound
<1> QED BY <1>1, <1>2, <1>3

\* A request that is begun now is sound.
LEMMA BegunIsSound ==
    ASSUME SessionInv, NEW kind \in RequestKinds \ {"none"}
    PROVE  /\ Request(kind, gen, token) \in RequestRecords
           /\ RequestIsSound(Request(kind, gen, token))
<1> USE DEF SessionInv, SessionTypes, NoToken
<1>1. gen \in Nat /\ token \in Nat /\ token \in 0..enrolments
  OBVIOUS
<1>2. PICK stage \in {"dialog", "sent"} : stage = IF token = 0 THEN "dialog" ELSE "sent"
  OBVIOUS
<1>3. Request(kind, gen, token) =
          [kind |-> kind, pc |-> stage, gen |-> gen, token |-> token, answer |-> "none"]
  BY <1>2 DEF Request
<1>4. Request(kind, gen, token) \in RequestRecords
  BY <1>1, <1>3 DEF RequestRecords, AnswerKinds
<1>5. stage = "sent" => token \in 1..enrolments /\ enrolledIn[token] = gen
  BY <1>1, <1>2 DEF StoredIsFresh
<1>6. RequestIsSound(Request(kind, gen, token))
  BY <1>3, <1>5 DEF RequestIsSound
<1> QED BY <1>4, <1>6

LEMMA BeginInv ==
    ASSUME SessionInv, NEW s \in Requests, NEW kind \in RequestKinds \ {"none"},
           req' = [req EXCEPT ![s] = Request(kind, gen, token)],
           UNCHANGED <<token, serverVars, gen, shellVars, data, imported, unlocked, crossed>>
    PROVE  SessionInv'
<1> USE DEF serverVars, shellVars
<1>1. \A r \in Requests : req[r] \in RequestRecords /\ RequestIsSound(req[r])
  BY DEF SessionInv, SessionTypes, RequestsAreSound
<1>2. /\ req' \in [Requests -> RequestRecords]
      /\ \A r \in Requests : RequestIsSound(req'[r])
  BY <1>1, BegunIsSound DEF SessionInv, SessionTypes
<1>3. LossIsLocked'
  BY DEF SessionInv, LossIsLocked
<1>4. /\ {signedOut, authLock, stateIssue, offlineDemo, unlocked} \subseteq BOOLEAN
      /\ data \in 0..enrolments /\ imported \in 0..enrolments
      /\ data # NoToken => enrolledIn[data] = gen
      /\ imported # NoToken => enrolledIn[imported] = gen \/ crossed
  BY DEF SessionInv, SessionTypes, StoredIsFresh, ImportStaysInSession
<1> QED BY <1>2, <1>3, <1>4, SessionStep

\* What the invariant says of one request, and of what is shown.
LEMMA SessionFacts ==
    ASSUME SessionInv
    PROVE  /\ \A r \in Requests : req[r] \in RequestRecords /\ RequestIsSound(req[r])
           /\ req \in [Requests -> RequestRecords]
           /\ {signedOut, authLock, stateIssue, offlineDemo, unlocked, crossed} \subseteq BOOLEAN
           /\ token \in 0..enrolments /\ data \in 0..enrolments /\ imported \in 0..enrolments
           /\ enrolments \in 1..MaxEnrolments /\ gen \in Nat
           /\ data # NoToken => enrolledIn[data] = gen
           /\ imported # NoToken => enrolledIn[imported] = gen \/ crossed
           /\ token # NoToken => enrolledIn[token] = gen
           /\ token = NoToken /\ data # NoToken => unlocked \/ authLock
BY DEF SessionInv, SessionTypes, RequestsAreSound, StoredIsFresh, ImportStaysInSession, LossIsLocked

\* A request that ends frees its slot.
LEMMA FinishedIsSound ==
    ASSUME SessionInv, NEW failed \in SUBSET Requests, Finish(failed)
    PROVE  /\ req' \in [Requests -> RequestRecords]
           /\ \A r \in Requests : RequestIsSound(req'[r])
<1>1. NoReq \in RequestRecords /\ RequestIsSound(NoReq)
  BY DEF RequestRecords, RequestKinds, AnswerKinds, NoReq, RequestIsSound, NoToken
<1> QED BY <1>1, SessionFacts DEF Finish

LEMMA CredentialFailureTypes ==
    ASSUME SessionInv, NEW failed \in SUBSET Requests, CredentialFailure(failed)
    PROVE  authLock' \in BOOLEAN /\ offlineDemo' \in BOOLEAN
BY SessionFacts DEF CredentialFailure

LEMMA CancelInv == SessionInv /\ Cancel => SessionInv'
<1> SUFFICES ASSUME SessionInv, Cancel PROVE SessionInv'
  OBVIOUS
<1>1. /\ Waiting \in SUBSET Requests /\ Finish(Waiting) /\ CredentialFailure(Waiting)
      /\ UNCHANGED <<token, serverVars, gen, signedOut, stateIssue, data, imported, unlocked,
                     crossed>>
  BY DEF Cancel, Waiting
<1>2. authLock => authLock'
  BY <1>1 DEF CredentialFailure
<1>3. LossIsLocked'
  BY <1>1, <1>2, SessionFacts DEF LossIsLocked
<1> QED BY <1>1, <1>3, FinishedIsSound, CredentialFailureTypes, SessionFacts, SessionStep
        DEF serverVars

LEMMA RevokeConsoleInv ==
    ASSUME SessionInv, NEW c \in ConsoleCredentials, RevokeConsole(c)
    PROVE  SessionInv'
<1>1. UNCHANGED <<token, enrolments, enrolledIn, gen, shellVars, data, imported, req, unlocked,
                  crossed>>
  BY DEF RevokeConsole
<1>2. LossIsLocked'
  BY <1>1, SessionFacts DEF LossIsLocked, shellVars
<1> QED BY <1>1, <1>2, SessionFacts, SessionStep DEF shellVars

LEMMA ServeInv ==
    ASSUME SessionInv, NEW s \in Requests, Serve(s)
    PROVE  SessionInv'
<1>1. UNCHANGED <<token, serverVars, gen, shellVars, data, imported, unlocked, crossed>>
  BY DEF Serve
<1>2. PICK a \in AnswerKinds : req' = [req EXCEPT ![s].pc = "answered", ![s].answer = a]
  BY DEF Serve, Answers, AnswerKinds
<1>3. PICK r \in RequestRecords : r = req[s] /\ r.pc = "sent" /\ RequestIsSound(r)
  BY SessionFacts DEF Serve
<1>4. [r EXCEPT !.pc = "answered", !.answer = a] \in RequestRecords
  BY DEF RequestRecords
<1>5. RequestIsSound([r EXCEPT !.pc = "answered", !.answer = a])
  BY <1>3 DEF RequestIsSound, RequestRecords
<1>6. req' = [req EXCEPT ![s] = [r EXCEPT !.pc = "answered", !.answer = a]]
  BY <1>2, <1>3
<1>7. /\ req' \in [Requests -> RequestRecords]
      /\ \A x \in Requests : RequestIsSound(req'[x])
  BY <1>4, <1>5, <1>6, SessionFacts
<1>8. LossIsLocked'
  BY <1>1, SessionFacts DEF LossIsLocked, shellVars
<1> QED BY <1>1, <1>7, <1>8, SessionFacts, SessionStep DEF serverVars, shellVars

\* A state read in this generation was read with a credential enrolled in it.
LEMMA LoadOkInv ==
    ASSUME SessionInv, NEW s \in Requests, LoadOk(s)
    PROVE  SessionInv'
<1>1. /\ req[s].pc = "answered" /\ Finish({s})
      /\ UNCHANGED <<token, serverVars, gen, imported, crossed>>
  BY DEF LoadOk, Answered
<1>2. CASE req[s].gen = gen
  <2>1. data' = req[s].token /\ unlocked' = (unlocked \/ token = NoToken)
    BY <1>2 DEF LoadOk, Applies
  <2>2. {signedOut', authLock', stateIssue', offlineDemo', unlocked'} \subseteq BOOLEAN
    BY <1>2, SessionFacts DEF LoadOk, Applies
  <2>3. data' \in 1..enrolments /\ enrolledIn[data'] = gen
    BY <1>1, <1>2, <2>1, SessionFacts DEF RequestIsSound
  <2>4. LossIsLocked'
    BY <1>1, <2>1 DEF LossIsLocked
  <2>5. data' \in 0..enrolments
    BY <2>3, SessionFacts
  <2> QED BY <1>1, <2>2, <2>3, <2>4, <2>5, FinishedIsSound, SessionFacts, SessionStep
          DEF serverVars
<1>3. CASE req[s].gen # gen
  <2>1. UNCHANGED <<data, shellVars, unlocked>>
    BY <1>3 DEF LoadOk, Applies
  <2>2. LossIsLocked'
    BY <1>1, <2>1, SessionFacts DEF LossIsLocked, shellVars
  <2> QED BY <1>1, <2>1, <2>2, FinishedIsSound, SessionFacts, SessionStep
          DEF serverVars, shellVars
<1> QED BY <1>2, <1>3

LEMMA ActionOkInv ==
    ASSUME SessionInv, NEW s \in Requests, ActionOk(s)
    PROVE  SessionInv'
<1>1. "reload" \in RequestKinds \ {"none"}
  BY DEF RequestKinds
<1> QED BY <1>1, BeginInv DEF ActionOk

\* An import whose answer is applied in another generation was under way at a sign-out.
LEMMA ImportOkInv ==
    ASSUME SessionInv, NEW s \in Requests, ImportOk(s)
    PROVE  SessionInv'
<1>1. /\ req[s].pc = "answered" /\ req[s].kind = "import" /\ Finish({s})
      /\ imported' = req[s].token
      /\ UNCHANGED <<token, serverVars, gen, shellVars, data, unlocked, crossed>>
  BY DEF ImportOk, Answered
<1>2. /\ imported' \in 1..enrolments
      /\ enrolledIn[imported'] = gen \/ crossed
  BY <1>1, SessionFacts DEF RequestIsSound
<1>3. LossIsLocked'
  BY <1>1, SessionFacts DEF LossIsLocked, shellVars
<1>4. imported' \in 0..enrolments
  BY <1>2, SessionFacts
<1> QED BY <1>1, <1>2, <1>3, <1>4, FinishedIsSound, SessionFacts, SessionStep
        DEF serverVars, shellVars

LEMMA UnauthorizedInv ==
    ASSUME SessionInv, NEW s \in Requests, Unauthorized(s)
    PROVE  SessionInv'
<1>1. /\ req[s].pc = "answered" /\ Finish({s}) /\ CredentialFailure({s})
      /\ token' = NoToken
      /\ unlocked' = (unlocked \/ req[s].kind = "page"
                               \/ (req[s].kind = "load" /\ req[s].gen # gen))
      /\ UNCHANGED <<serverVars, gen, signedOut, stateIssue, data, imported, crossed>>
  BY DEF Unauthorized, Answered
<1>2. LocksConsole(req[s]) \/ unlocked'
  BY <1>1, SessionFacts DEF LocksConsole, RequestIsSound, RequestRecords, RequestKinds
<1>3. authLock' \/ unlocked'
  BY <1>1, <1>2 DEF CredentialFailure
<1>4. unlocked' \in BOOLEAN
  BY <1>1, SessionFacts
<1>5. LossIsLocked'
  BY <1>3 DEF LossIsLocked
<1> QED BY <1>1, <1>4, <1>5, FinishedIsSound, CredentialFailureTypes, SessionFacts, SessionStep
        DEF serverVars

\* The other answers: a page's own, an unreadable one, none at all.
LEMMA OtherAnswersInv ==
    ASSUME SessionInv, NEW s \in Requests, PageDone(s) \/ Drifted(s) \/ Unreachable(s)
    PROVE  SessionInv'
<1>1. /\ Finish({s}) /\ UNCHANGED <<token, serverVars, gen, signedOut, unlocked, crossed>>
      /\ data' \in {data, NoToken} /\ imported' \in {imported, NoToken}
      /\ {authLock', stateIssue', offlineDemo'} \subseteq BOOLEAN
      /\ authLock' = authLock \/ data' = NoToken
  BY SessionFacts DEF PageDone, Drifted, Unreachable, shellVars
<1>2. LossIsLocked'
  BY <1>1, SessionFacts DEF LossIsLocked
<1>3. data' \in 0..enrolments /\ imported' \in 0..enrolments
  BY <1>1, SessionFacts DEF NoToken
<1> QED BY <1>1, <1>2, <1>3, FinishedIsSound, SessionFacts, SessionStep DEF serverVars

\* A sign-out leaves nothing of the session but the requests under way.
LEMMA SignOutInv ==
    ASSUME SessionInv, NEW s \in Requests, SignOut(s)
    PROVE  SessionInv'
<1>1. /\ ~DialogOpen /\ token' = NoToken /\ gen' = gen + 1
      /\ data' = NoToken /\ imported' = NoToken
      /\ crossed' = (crossed \/ \E r \in Requests : req[r].kind = "import")
      /\ signedOut' = TRUE /\ authLock' = FALSE /\ stateIssue' = FALSE
      /\ req' = [req EXCEPT ![s] = Request("retry", gen + 1, NoToken)]
      /\ UNCHANGED <<serverVars, offlineDemo, unlocked>>
  BY DEF SignOut, AtSignOut
<1>2. gen' \in Nat
  BY <1>1, SessionFacts
<1>3. Request("retry", gen + 1, NoToken) =
          [kind |-> "retry", pc |-> "dialog", gen |-> gen', token |-> 0, answer |-> "none"]
  BY <1>1 DEF Request, NoToken
<1>4. Request("retry", gen + 1, NoToken) \in RequestRecords
  BY <1>2, <1>3 DEF RequestRecords, RequestKinds, AnswerKinds
<1>5. req' \in [Requests -> RequestRecords]
  BY <1>1, <1>4, SessionFacts
<1>6. SessionTypes'
  <2>1. /\ enrolments \in 1..MaxEnrolments /\ enrolledIn \in [ConsoleCredentials -> Nat]
        /\ {signedOut, authLock, stateIssue, offlineDemo, unlocked, crossed} \subseteq BOOLEAN
    BY DEF SessionInv, SessionTypes
  <2>2. enrolments \in Nat /\ 0 \in 0..enrolments
    BY <2>1, ConsoleAssumption
  <2>3. {signedOut', authLock', stateIssue', offlineDemo', unlocked', crossed'} \subseteq BOOLEAN
    BY <1>1, <2>1
  <2> QED BY <1>1, <1>2, <1>5, <2>1, <2>2, <2>3 DEF SessionTypes, serverVars, NoToken
<1>7. ASSUME NEW r \in Requests
      PROVE  RequestIsSound(req[r])'
  <2>1. CASE r = s
    BY <2>1, <1>1, <1>3, SessionFacts DEF RequestIsSound
  <2>2. CASE r # s
    <3>1. req'[r] = req[r] /\ RequestIsSound(req[r]) /\ req[r].pc # "dialog"
      BY <2>2, <1>1, SessionFacts DEF DialogOpen
    <3>2. req[r].kind = "import" => crossed'
      BY <1>1
    <3> QED BY <3>1, <3>2, <1>1 DEF RequestIsSound, serverVars
  <2> QED BY <2>1, <2>2
<1>8. RequestsAreSound'
  BY <1>7 DEF RequestsAreSound
<1>9. StoredIsFresh' /\ LossIsLocked' /\ ImportStaysInSession'
  BY <1>1 DEF StoredIsFresh, LossIsLocked, ImportStaysInSession
<1> QED BY <1>6, <1>8, <1>9 DEF SessionInv

\* The dialog's new credential serves every request that waited for it.
LEMMA EnrollInv == SessionInv /\ Enroll => SessionInv'
<1> SUFFICES ASSUME SessionInv, Enroll PROVE SessionInv'
  OBVIOUS
<1> DEFINE new == enrolments + 1
<1>1. /\ enrolments < MaxEnrolments /\ enrolments' = new /\ token' = new
      /\ enrolledIn' = [enrolledIn EXCEPT ![new] = gen]
      /\ req' = [s \in Requests |-> IF s \in Waiting
                                    THEN [req[s] EXCEPT !.pc = "sent", !.token = new]
                                    ELSE req[s]]
      /\ UNCHANGED <<gen, shellVars, data, imported, unlocked, crossed>>
  BY DEF Enroll
<1>2. new \in ConsoleCredentials /\ new \in 1..MaxEnrolments /\ new \in Nat /\ new # NoToken
  <2>1. enrolments \in 1..MaxEnrolments /\ enrolments < MaxEnrolments /\ MaxEnrolments \in Nat
    BY <1>1, SessionFacts, ConsoleAssumption
  <2> QED BY <2>1 DEF ConsoleCredentials, NoToken
<1>3. /\ enrolledIn' \in [ConsoleCredentials -> Nat] /\ enrolledIn'[new] = gen
      /\ \A c \in 1..enrolments : enrolledIn'[c] = enrolledIn[c]
  <2>1. \A c \in 1..enrolments : c # new /\ c \in ConsoleCredentials
    BY SessionFacts, ConsoleAssumption DEF ConsoleCredentials
  <2> QED BY <1>1, <1>2, <2>1, SessionFacts DEF SessionInv, SessionTypes
<1>4. ASSUME NEW s \in Requests
      PROVE  req'[s] \in RequestRecords /\ RequestIsSound(req[s])'
  <2>1. PICK r \in RequestRecords : r = req[s] /\ RequestIsSound(r)
    BY SessionFacts
  <2>2. CASE s \in Waiting
    <3>1. req'[s] = [r EXCEPT !.pc = "sent", !.token = new] /\ r.gen = gen
      BY <1>1, <2>1, <2>2 DEF Waiting, RequestIsSound
    <3>2. [r EXCEPT !.pc = "sent", !.token = new] \in RequestRecords
      BY <1>2 DEF RequestRecords
    <3>3. PICK x \in RequestRecords :
             /\ x = req'[s] /\ x.pc = "sent" /\ x.token = new /\ x.gen = gen /\ x.kind = r.kind
      BY <3>1, <3>2 DEF RequestRecords
    <3>4. new \in 1..enrolments'
      <4>1. enrolments' = new /\ new \in 1..MaxEnrolments
        BY <1>1, <1>2
      <4> HIDE DEF new
      <4> QED BY <4>1
    <3>5. x.kind # "none"
      BY <2>1, <2>2, <3>3 DEF RequestIsSound, Waiting
    <3>6. x.kind = "import" => x.gen = gen'
      BY <1>1, <3>3
    <3> QED BY <3>3, <3>4, <3>5, <3>6, <1>1, <1>3 DEF RequestIsSound
  <2>3. CASE s \notin Waiting
    <3>1. req'[s] = r /\ r.pc # "dialog"
      BY <1>1, <2>1, <2>3 DEF Waiting
    <3>2. r.token \in 1..enrolments => r.token \in 1..enrolments' /\ enrolledIn'[r.token] = enrolledIn[r.token]
      <4>1. enrolments \in 1..MaxEnrolments /\ enrolments' = enrolments + 1
        BY <1>1, SessionFacts
      <4> QED BY <1>3, <4>1
    <3> QED BY <2>1, <3>1, <3>2, <1>1 DEF RequestIsSound
  <2> QED BY <2>2, <2>3
<1>5. SessionTypes'
  <2>1. req' \in [Requests -> RequestRecords]
    BY <1>1, <1>4
  <2>2. /\ enrolments \in 1..MaxEnrolments /\ enrolments' = enrolments + 1
        /\ data \in 0..enrolments /\ imported \in 0..enrolments
        /\ data' = data /\ imported' = imported /\ token' = enrolments + 1
    BY <1>1, SessionFacts
  <2>3. /\ enrolments' \in 1..MaxEnrolments /\ token' \in 0..enrolments'
        /\ data' \in 0..enrolments' /\ imported' \in 0..enrolments'
    <3>1. enrolments' \in 1..MaxEnrolments
      BY <1>1, <1>2
    <3> QED BY <2>2, <3>1
  <2> HIDE DEF new
  <2> QED BY <1>1, <1>3, <2>1, <2>3, SessionFacts DEF SessionTypes, shellVars
<1>6. RequestsAreSound'
  BY <1>4 DEF RequestsAreSound
<1>7. /\ data # NoToken => enrolledIn'[data] = enrolledIn[data]
      /\ imported # NoToken => enrolledIn'[imported] = enrolledIn[imported]
  BY <1>3, SessionFacts DEF NoToken
<1>8. StoredIsFresh' /\ LossIsLocked' /\ ImportStaysInSession'
  BY <1>1, <1>2, <1>3, <1>7, SessionFacts DEF StoredIsFresh, LossIsLocked, ImportStaysInSession
<1> QED BY <1>5, <1>6, <1>8 DEF SessionInv

LEMMA SessionStepInv == SessionInv /\ [ConsoleNext]_consoleVars => SessionInv'
<1> SUFFICES ASSUME SessionInv, [ConsoleNext]_consoleVars
             PROVE  SessionInv'
  OBVIOUS
<1>1. ASSUME NEW s \in Requests, FirstLoad(s) \/ Retry(s) \/ Act(s)
      PROVE  SessionInv'
  <2>1. PICK kind \in RequestKinds \ {"none"} : Begin(s, kind)
    BY <1>1 DEF FirstLoad, Retry, Act, RequestKinds
  <2> QED BY <1>1, <2>1, BeginInv DEF FirstLoad, Retry, Act, Begin
<1>2. ASSUME NEW s \in Requests,
             \/ SignOut(s) \/ Serve(s) \/ LoadOk(s) \/ ActionOk(s) \/ ImportOk(s) \/ PageDone(s)
             \/ Unauthorized(s) \/ Drifted(s) \/ Unreachable(s)
      PROVE  SessionInv'
  BY <1>2, SignOutInv, ServeInv, LoadOkInv, ActionOkInv, ImportOkInv, UnauthorizedInv,
     OtherAnswersInv
<1>3. CASE UNCHANGED consoleVars
  <2>1. LossIsLocked'
    BY <1>3, SessionFacts DEF LossIsLocked, consoleVars, shellVars
  <2> QED BY <1>3, <2>1, SessionFacts, SessionStep DEF consoleVars, serverVars, shellVars
<1> QED BY <1>1, <1>2, <1>3, EnrollInv, CancelInv, RevokeConsoleInv DEF ConsoleNext

\* The console shows only data of its own session, for any number of requests under way,
\* enrolments and sign-outs (casAuthGeneration, lockOnCredentialFailure and
\* importGate0AReport of use-field-test.tsx).
THEOREM SessionIsSealedHolds == ConsoleSpec => []SessionIsSealed
<1>1. SessionInv => SessionIsSealed
  BY DEF SessionInv, StoredIsFresh, LossIsLocked, SessionIsSealed, FreshCredentialUnseals,
         LossLocks, ShellIsUp
<1> QED BY <1>1, SessionInitInv, SessionStepInv, PTL DEF ConsoleSpec

-----------------------------------------------------------------------------
(* IncidentBrowser.                                                          *)

ReadSets == (SUBSET Clips) \cup {NotRead}
LoadRecords == [id : Nat \ {0}, kind : {"effect", "refetch"}, alert : Nat, cancelled : BOOLEAN,
                clips : ReadSets, notes : ReadSets]
Details == [load : Nat \ {0}, alert : Nat, clips : SUBSET Clips, notes : SUBSET Clips,
            late : BOOLEAN]
Deletions == [id : Nat, panel : Panels \cup {"none"}, clip : Clips, at : {"sent", "deleted"}]

BrowserTypes ==
    /\ raised \in Nat /\ stored \in SUBSET Clips /\ notes \in [Clips -> Nat]
    /\ latest \in Nat /\ panel \in SUBSET Clips /\ browseId \in Nat
    /\ effectDue \in BOOLEAN /\ busy \in BOOLEAN /\ problem \in BOOLEAN
    /\ detail \in Details \cup {NoDetail} /\ loads \in SUBSET LoadRecords
    /\ issued \in Nat /\ concluded \in Nat
    /\ deleting \in SUBSET Deletions /\ deletes \in Nat /\ heard \in [Clips -> Nat]

Live(l) == l.kind = "effect" /\ ~l.cancelled

\* Request numbers are given once.
IdsAreGiven ==
    /\ \A l \in loads : l.id <= issued
    /\ concluded <= issued /\ detail.load <= issued
    /\ \A c \in Clips : heard[c] <= issued

\* The page is busy for a load it still waits for; with no effect due, what it loads and shows
\* is the selected alert, and something is shown or an error is.
SelectionIsServed ==
    /\ busy => \E l \in loads : Live(l)
    /\ ~effectDue => /\ \A l \in loads : Live(l) => l.alert = Target
                     /\ detail # NoDetail => detail.alert = Target
                     /\ busy \/ problem \/ detail # NoDetail

\* A clip whose deletion was answered is gone.
DeletedIsGone ==
    /\ \A d \in deleting : d.at = "deleted" => d.clip \notin stored
    /\ \A c \in Clips : heard[c] > 0 => c \notin stored

\* The refetch that follows a deletion is of the clip's alert, and is under way until an
\* answer with its number, or a later one, has been taken.
RefetchFollows == \A c \in Clips : heard[c] > 0 =>
    /\ \A l \in loads : l.id = heard[c] => l.kind = "refetch" /\ l.alert = c[1]
    /\ concluded >= heard[c] \/ \E l \in loads : l.id = heard[c]

\* A request that is not older than that refetch reads the alert without the clip.
ReadsAreLate == \A c \in Clips, l \in loads :
    heard[c] > 0 /\ l.id >= heard[c] /\ l.alert = c[1] =>
        c \notin l.clips /\ (l.notes # NotRead => c \in l.notes)

\* The same of what is shown; something older is shown only until the refetch answers, or came
\* in late.
ShownIsLate == \A c \in Clips : heard[c] > 0 /\ detail # NoDetail /\ detail.alert = c[1] =>
    /\ detail.load >= heard[c] => c \notin detail.clips /\ c \in detail.notes
    /\ detail.alert = Target =>
          detail.load >= heard[c] \/ detail.late \/ \E l \in loads : l.id = heard[c]

BrowserInv == /\ BrowserTypes /\ IdsAreGiven /\ SelectionIsServed /\ DeletedIsGone
              /\ RefetchFollows /\ ReadsAreLate /\ ShownIsLate /\ GoneIffNotedOnce

LEMMA ClipsAreReal == \A c \in Clips : c # <<0, 0>> /\ c[1] \in Nat
BY BrowserAssumption DEF Clips

LEMMA BrowserInitInv == BrowserInit => BrowserInv
<1> SUFFICES ASSUME BrowserInit PROVE BrowserInv
  OBVIOUS
<1> USE DEF BrowserInit, NoDetail
<1>1. BrowserTypes
  BY DEF BrowserTypes, ClipsOf, NoDetail
<1>2. IdsAreGiven /\ SelectionIsServed /\ DeletedIsGone /\ RefetchFollows
  BY DEF IdsAreGiven, SelectionIsServed, DeletedIsGone, RefetchFollows
<1>3. ReadsAreLate /\ ShownIsLate /\ GoneIffNotedOnce
  BY DEF ReadsAreLate, ShownIsLate, GoneIffNotedOnce
<1> QED BY <1>1, <1>2, <1>3 DEF BrowserInv

\* Steps that touch no request and no answer: the selection may move only when nothing is due.
LEMMA PageStep ==
    ASSUME BrowserInv, BrowserTypes',
           UNCHANGED <<busy, problem, detail, loads, issued, concluded, heard>>,
           stored' \subseteq stored,
           GoneIffNotedOnce',
           \A d \in deleting' : d.at = "deleted" => d.clip \notin stored',
           \/ UNCHANGED <<Target, effectDue>>
           \/ ~effectDue /\ (Target' # Target => effectDue')
    PROVE  BrowserInv'
<1> USE DEF BrowserInv
<1>1. IdsAreGiven'
  BY DEF IdsAreGiven
<1>2. SelectionIsServed'
  BY DEF SelectionIsServed, BrowserTypes
<1>3. DeletedIsGone' /\ RefetchFollows' /\ ReadsAreLate'
  BY DEF DeletedIsGone, RefetchFollows, ReadsAreLate
<1>4. detail # NoDetail /\ detail.alert = Target' => detail.alert = Target
  BY DEF SelectionIsServed
<1>5. ShownIsLate'
  BY <1>4 DEF ShownIsLate
<1> QED BY <1>1, <1>2, <1>3, <1>5

\* A load of /cas/state.
LEMMA ReloadedTarget ==
    ASSUME BrowserInv, Reloads, browseId' = browseId, stored' \subseteq Clips
    PROVE  /\ ~effectDue /\ latest' \in Nat /\ panel' \in SUBSET Clips /\ effectDue' \in BOOLEAN
           /\ Target' # Target => effectDue'
BY DEF BrowserInv, BrowserTypes, Reloads, ClipsOf, Target

LEMMA RaiseInv == BrowserInv /\ Raise => BrowserInv'
<1> SUFFICES ASSUME BrowserInv, Raise PROVE BrowserInv'
  OBVIOUS
<1>1. /\ raised' \in Nat
      /\ UNCHANGED <<stored, notes, latest, panel, browseId, viewVars, deleting, deletes, heard>>
  BY DEF Raise, BrowserInv, BrowserTypes
<1>2. BrowserTypes' /\ UNCHANGED <<Target, effectDue>>
  BY <1>1 DEF BrowserInv, BrowserTypes, viewVars, Target
<1>3. GoneIffNotedOnce' /\ \A d \in deleting' : d.at = "deleted" => d.clip \notin stored'
  BY <1>1 DEF BrowserInv, GoneIffNotedOnce, DeletedIsGone
<1> QED BY <1>1, <1>2, <1>3, PageStep DEF viewVars

LEMMA ReloadInv == BrowserInv /\ Reload => BrowserInv'
<1> SUFFICES ASSUME BrowserInv, Reload PROVE BrowserInv'
  OBVIOUS
<1>1. /\ Reloads
      /\ UNCHANGED <<raised, stored, notes, browseId, busy, problem, detail, loads, issued,
                     concluded, deleting, deletes, heard>>
  BY DEF Reload, evidenceVars
<1>2. stored' \subseteq Clips
  BY <1>1 DEF BrowserInv, BrowserTypes
<1>3. /\ ~effectDue /\ (Target' # Target => effectDue')
      /\ latest' \in Nat /\ panel' \in SUBSET Clips /\ effectDue' \in BOOLEAN
  BY <1>1, <1>2, ReloadedTarget
<1>4. BrowserTypes'
  BY <1>1, <1>3 DEF BrowserInv, BrowserTypes
<1>5. GoneIffNotedOnce' /\ \A d \in deleting' : d.at = "deleted" => d.clip \notin stored'
  BY <1>1 DEF BrowserInv, GoneIffNotedOnce, DeletedIsGone
<1> QED BY <1>1, <1>3, <1>4, <1>5, PageStep

LEMMA SelectInv ==
    ASSUME BrowserInv, NEW alert \in 1..MaxAlerts, Select(alert)
    PROVE  BrowserInv'
<1>1. /\ alert \in Nat /\ alert # 0 /\ browseId' = alert /\ ~effectDue
      /\ effectDue' = (alert # Target)
      /\ UNCHANGED <<raised, stored, notes, latest, panel, busy, problem, detail, loads, issued,
                     concluded, deleting, deletes, heard>>
  BY DEF Select, evidenceVars
<1>2. Target' = alert
  BY <1>1 DEF Target
<1>3. BrowserTypes'
  BY <1>1 DEF BrowserInv, BrowserTypes
<1>4. GoneIffNotedOnce' /\ \A d \in deleting' : d.at = "deleted" => d.clip \notin stored'
  BY <1>1 DEF BrowserInv, GoneIffNotedOnce, DeletedIsGone
<1> QED BY <1>1, <1>2, <1>3, <1>4, PageStep

LEMMA ConfirmDeleteInv ==
    ASSUME BrowserInv, NEW p \in Panels, NEW c \in Clips, ConfirmDelete(p, c)
    PROVE  BrowserInv'
<1>1. /\ deletes' \in Nat
      /\ deleting' = deleting \cup {[id |-> deletes', panel |-> p, clip |-> c, at |-> "sent"]}
      /\ UNCHANGED <<raised, stored, notes, latest, panel, browseId, viewVars, heard>>
  BY DEF ConfirmDelete, evidenceVars, BrowserInv, BrowserTypes
<1>2. [id |-> deletes', panel |-> p, clip |-> c, at |-> "sent"] \in Deletions
  BY <1>1 DEF Deletions
<1>3. BrowserTypes' /\ UNCHANGED <<Target, effectDue>>
  BY <1>1, <1>2 DEF BrowserInv, BrowserTypes, viewVars, Target
<1>4. GoneIffNotedOnce' /\ \A d \in deleting' : d.at = "deleted" => d.clip \notin stored'
  BY <1>1 DEF BrowserInv, GoneIffNotedOnce, DeletedIsGone
<1> QED BY <1>1, <1>3, <1>4, PageStep DEF viewVars

\* The row is deleted and journaled in one transaction, once.
LEMMA CommitInv ==
    ASSUME BrowserInv, NEW d \in deleting, Commit(d)
    PROVE  BrowserInv'
<1>1. UNCHANGED <<raised, latest, panel, browseId, viewVars, deletes, heard>> /\ d.clip \in Clips
  BY DEF Commit, BrowserInv, BrowserTypes, Deletions
<1>2. CASE d.clip \in stored
  <2>1. /\ stored' = stored \ {d.clip} /\ notes' = [notes EXCEPT ![d.clip] = @ + 1]
        /\ deleting' = (deleting \ {d}) \cup {[d EXCEPT !.at = "deleted"]}
    BY <1>2 DEF Commit, Found
  <2>2. [d EXCEPT !.at = "deleted"] \in Deletions /\ [d EXCEPT !.at = "deleted"].clip = d.clip
    BY DEF BrowserInv, BrowserTypes, Deletions
  <2>3. BrowserTypes' /\ UNCHANGED <<Target, effectDue>>
    BY <1>1, <2>1, <2>2 DEF BrowserInv, BrowserTypes, viewVars, Target
  <2>4. GoneIffNotedOnce'
    BY <1>1, <1>2, <2>1 DEF BrowserInv, BrowserTypes, GoneIffNotedOnce
  <2>5. \A x \in deleting' : x.at = "deleted" => x.clip \notin stored'
    BY <2>1, <2>2 DEF BrowserInv, DeletedIsGone
  <2> QED BY <1>1, <2>1, <2>3, <2>4, <2>5, PageStep DEF viewVars
<1>3. CASE d.clip \notin stored
  <2>1. deleting' = deleting \ {d} /\ UNCHANGED <<stored, notes>>
    BY <1>3 DEF Commit, Found
  <2>2. BrowserTypes' /\ UNCHANGED <<Target, effectDue>>
    BY <1>1, <2>1 DEF BrowserInv, BrowserTypes, viewVars, Target
  <2>3. GoneIffNotedOnce' /\ \A x \in deleting' : x.at = "deleted" => x.clip \notin stored'
    BY <2>1 DEF BrowserInv, GoneIffNotedOnce, DeletedIsGone
  <2> QED BY <1>1, <2>1, <2>2, <2>3, PageStep DEF viewVars
<1> QED BY <1>2, <1>3

LEMMA LoseInv ==
    ASSUME BrowserInv, NEW d \in deleting, Lose(d)
    PROVE  BrowserInv'
<1>1. /\ deleting' = deleting \ {d}
      /\ UNCHANGED <<raised, stored, notes, latest, panel, browseId, viewVars, deletes, heard>>
  BY DEF Lose, evidenceVars
<1>2. BrowserTypes' /\ UNCHANGED <<Target, effectDue>>
  BY <1>1 DEF BrowserInv, BrowserTypes, viewVars, Target
<1>3. GoneIffNotedOnce' /\ \A x \in deleting' : x.at = "deleted" => x.clip \notin stored'
  BY <1>1 DEF BrowserInv, GoneIffNotedOnce, DeletedIsGone
<1> QED BY <1>1, <1>2, <1>3, PageStep DEF viewVars

\* A request as it is sent has read nothing.
LEMMA NewLoad ==
    ASSUME issued \in Nat, NEW kind \in {"effect", "refetch"}, NEW alert \in Nat
    PROVE  /\ Load(kind, alert) \in LoadRecords
           /\ Load(kind, alert).id = issued + 1 /\ Load(kind, alert).kind = kind
           /\ Load(kind, alert).alert = alert /\ ~Load(kind, alert).cancelled
           /\ \A c \in Clips : c \notin Load(kind, alert).clips
           /\ Load(kind, alert).notes = NotRead
BY ClipsAreReal DEF Load, LoadRecords, ReadSets, NotRead

LEMMA CancelledLoad ==
    ASSUME NEW l \in LoadRecords
    PROVE  /\ Cancelled(l) \in LoadRecords /\ ~Live(Cancelled(l))
           /\ Cancelled(l).id = l.id /\ Cancelled(l).kind = l.kind /\ Cancelled(l).alert = l.alert
           /\ Cancelled(l).clips = l.clips /\ Cancelled(l).notes = l.notes
BY DEF Cancelled, LoadRecords, Live

\* A deletion that lost its row is the deletion it was.
LEMMA UnmountedRows ==
    ASSUME BrowserInv
    PROVE  /\ Unmounted \in SUBSET Deletions
           /\ \A x \in Unmounted : x.at = "deleted" => x.clip \notin stored
<1>1. deleting \in SUBSET Deletions /\ \A d \in deleting : d.at = "deleted" => d.clip \notin stored
  BY DEF BrowserInv, BrowserTypes, DeletedIsGone
<1>2. ASSUME NEW d \in deleting
      PROVE  /\ [d EXCEPT !.panel = "none"] \in Deletions
             /\ [d EXCEPT !.panel = "none"].at = d.at /\ [d EXCEPT !.panel = "none"].clip = d.clip
  BY <1>1 DEF Deletions
<1> QED BY <1>1, <1>2 DEF Unmounted

LEMMA RunEffectInv == BrowserInv /\ RunEffect => BrowserInv'
<1> SUFFICES ASSUME BrowserInv, RunEffect PROVE BrowserInv'
  OBVIOUS
<1> DEFINE new == Load("effect", Target)
<1>1. /\ effectDue' = FALSE /\ busy' = TRUE /\ problem' = FALSE /\ detail' = NoDetail
      /\ loads' = {Cancelled(l) : l \in loads} \cup {new}
      /\ issued' = issued + 1
      /\ deleting' = Unmounted
      /\ UNCHANGED <<raised, stored, notes, latest, panel, browseId, concluded, deletes, heard>>
  BY DEF RunEffect, evidenceVars
<1>2. /\ issued \in Nat /\ concluded \in Nat /\ Target \in Nat /\ Target' = Target
      /\ loads \in SUBSET LoadRecords /\ heard \in [Clips -> Nat]
  BY <1>1 DEF BrowserInv, BrowserTypes, Target
<1>3. /\ new \in LoadRecords /\ new.id = issued + 1 /\ new.alert = Target /\ Live(new)
      /\ new.notes = NotRead /\ \A c \in Clips : c \notin new.clips
  BY <1>2, NewLoad DEF Live
<1> HIDE DEF new
<1>4. \A l \in loads' : l = new \/ \E x \in loads : l = Cancelled(x)
  BY <1>1
<1>5. \A l \in loads' : l # new => ~Live(l) /\ \E x \in loads :
          /\ l.id = x.id /\ l.kind = x.kind /\ l.alert = x.alert
          /\ l.clips = x.clips /\ l.notes = x.notes
  BY <1>2, <1>4, CancelledLoad
<1>6. \A x \in loads : \E l \in loads' : l.id = x.id
  BY <1>1, <1>2, CancelledLoad
<1>7. BrowserTypes'
  <2>1. loads' \in SUBSET LoadRecords
    BY <1>1, <1>2, <1>3, CancelledLoad
  <2>2. issued' \in Nat
    BY <1>1, <1>2
  <2>3. deleting' \in SUBSET Deletions
    BY <1>1, UnmountedRows
  <2> QED BY <1>1, <2>1, <2>2, <2>3 DEF BrowserInv, BrowserTypes
<1>8. IdsAreGiven'
  <2>1. \A l \in loads' : l.id <= issued'
    <3>1. \A x \in loads : x.id <= issued /\ x.id \in Nat
      BY <1>2 DEF BrowserInv, IdsAreGiven, LoadRecords
    <3> QED BY <1>1, <1>2, <1>3, <1>5, <3>1
  <2>2. concluded' <= issued' /\ detail'.load <= issued' /\ \A c \in Clips : heard'[c] <= issued'
    BY <1>1, <1>2 DEF BrowserInv, IdsAreGiven, NoDetail
  <2> QED BY <2>1, <2>2 DEF IdsAreGiven
<1>9. SelectionIsServed'
  BY <1>1, <1>2, <1>3, <1>5 DEF SelectionIsServed
<1>10. DeletedIsGone' /\ GoneIffNotedOnce'
  BY <1>1, UnmountedRows DEF BrowserInv, DeletedIsGone, GoneIffNotedOnce
<1>11. RefetchFollows'
  <2>1. \A c \in Clips : heard[c] \in Nat /\ heard[c] <= issued
    BY <1>2 DEF BrowserInv, IdsAreGiven
  <2>2. \A c \in Clips : heard[c] # new.id
    BY <1>2, <1>3, <2>1
  <2> QED BY <1>1, <1>5, <1>6, <2>2 DEF BrowserInv, RefetchFollows
<1>12. ReadsAreLate'
  BY <1>1, <1>3, <1>5 DEF BrowserInv, ReadsAreLate
<1>13. ShownIsLate'
  BY <1>1 DEF ShownIsLate
<1> QED BY <1>7, <1>8, <1>9, <1>10, <1>11, <1>12, <1>13 DEF BrowserInv

\* One of the two queries of a request answers: a clip that is gone is read as gone.
LEMMA ReadInv ==
    ASSUME BrowserInv, NEW l \in loads, Read(l)
    PROVE  BrowserInv'
<1>1. UNCHANGED <<raised, stored, notes, latest, panel, browseId, effectDue, busy, problem,
                  detail, issued, concluded, deleting, deletes, heard>>
  BY DEF Read, evidenceVars
<1>2. l \in LoadRecords /\ \A c \in Clips : c[1] \in Nat
  BY ClipsAreReal DEF BrowserInv, BrowserTypes
<1>3. PICK x \in LoadRecords :
          /\ loads' = (loads \ {l}) \cup {x}
          /\ x.id = l.id /\ x.kind = l.kind /\ x.alert = l.alert /\ x.cancelled = l.cancelled
          /\ x.clips \in {l.clips, ClipsOf(l.alert)}
          /\ x.notes \in {l.notes, NotesOf(l.alert)}
  <2>1. ClipsOf(l.alert) \in ReadSets /\ NotesOf(l.alert) \in ReadSets
    BY DEF ClipsOf, NotesOf, ReadSets, BrowserInv, BrowserTypes
  <2>2. CASE loads' = (loads \ {l}) \cup {[l EXCEPT !.clips = ClipsOf(l.alert)]}
    <3>1. [l EXCEPT !.clips = ClipsOf(l.alert)] \in LoadRecords
      BY <1>2, <2>1 DEF LoadRecords
    <3> QED BY <1>2, <2>2, <3>1 DEF LoadRecords
  <2>3. CASE loads' = (loads \ {l}) \cup {[l EXCEPT !.notes = NotesOf(l.alert)]}
    <3>1. [l EXCEPT !.notes = NotesOf(l.alert)] \in LoadRecords
      BY <1>2, <2>1 DEF LoadRecords
    <3> QED BY <1>2, <2>3, <3>1 DEF LoadRecords
  <2> QED BY <2>2, <2>3 DEF Read
<1>4. BrowserTypes'
  BY <1>1, <1>3 DEF BrowserInv, BrowserTypes
<1>5. IdsAreGiven' /\ DeletedIsGone' /\ GoneIffNotedOnce'
  BY <1>1, <1>3 DEF BrowserInv, IdsAreGiven, DeletedIsGone, GoneIffNotedOnce
<1>6. SelectionIsServed'
  BY <1>1, <1>3 DEF BrowserInv, SelectionIsServed, Live, Target
<1>7. RefetchFollows' /\ ShownIsLate'
  BY <1>1, <1>3 DEF BrowserInv, RefetchFollows, ShownIsLate, Target
<1>8. ReadsAreLate'
  <2>1. SUFFICES ASSUME NEW c \in Clips, heard[c] > 0, x.id >= heard[c], x.alert = c[1]
                 PROVE  c \notin x.clips /\ (x.notes # NotRead => c \in x.notes)
    BY <1>1, <1>3 DEF BrowserInv, ReadsAreLate
  <2>2. c \notin l.clips /\ (l.notes # NotRead => c \in l.notes)
    BY <2>1, <1>3 DEF BrowserInv, ReadsAreLate
  <2>3. c \notin stored /\ notes[c] = 1
    BY <2>1 DEF BrowserInv, DeletedIsGone, GoneIffNotedOnce
  <2>4. c \notin ClipsOf(l.alert) /\ c \in NotesOf(l.alert)
    <3>1. c[1] = l.alert /\ notes[c] > 0
      BY <2>1, <2>3, <1>3
    <3> QED BY <2>3, <3>1 DEF ClipsOf, NotesOf
  <2> QED BY <2>2, <2>4, <1>3
<1> QED BY <1>4, <1>5, <1>6, <1>7, <1>8 DEF BrowserInv

\* Facts about the end of a request that both its ends need.
LEMMA ConcludedFacts ==
    ASSUME BrowserInv, NEW l \in loads, Concludes(l)
    PROVE  /\ loads' = loads \ {l} /\ concluded' \in Nat /\ concluded' >= concluded
           /\ concluded' >= l.id /\ concluded' <= issued
           /\ busy' = (busy /\ ~Live(l))
           /\ UNCHANGED <<raised, stored, notes, latest, panel, browseId, effectDue, issued,
                          deletes, heard>>
           /\ Target' = Target /\ l \in LoadRecords
           /\ GoneIffNotedOnce' /\ RefetchFollows' /\ ReadsAreLate'
<1>1. /\ loads' = loads \ {l} /\ busy' = (busy /\ ~Live(l))
      /\ concluded' = IF l.id > concluded THEN l.id ELSE concluded
      /\ UNCHANGED <<raised, stored, notes, latest, panel, browseId, effectDue, issued,
                     deletes, heard>>
  BY DEF Concludes, Live, evidenceVars
<1>2. l \in LoadRecords /\ l.id \in Nat /\ concluded \in Nat /\ issued \in Nat
  BY DEF BrowserInv, BrowserTypes, LoadRecords
<1>3. concluded' \in Nat /\ concluded' >= concluded /\ concluded' >= l.id /\ concluded' <= issued
  BY <1>1, <1>2 DEF BrowserInv, IdsAreGiven
<1>4. Target' = Target
  BY <1>1 DEF Target
<1>5. GoneIffNotedOnce' /\ ReadsAreLate'
  BY <1>1 DEF BrowserInv, GoneIffNotedOnce, ReadsAreLate
<1>6. RefetchFollows'
  <2>1. SUFFICES ASSUME NEW c \in Clips, heard[c] > 0
                 PROVE  /\ \A x \in loads' : x.id = heard[c] => x.kind = "refetch" /\ x.alert = c[1]
                        /\ concluded' >= heard[c] \/ \E x \in loads' : x.id = heard[c]
    BY <1>1 DEF RefetchFollows
  <2>2. heard[c] \in Nat
    BY DEF BrowserInv, BrowserTypes
  <2> QED BY <2>1, <2>2, <1>1, <1>2, <1>3 DEF BrowserInv, RefetchFollows
<1> QED BY <1>1, <1>2, <1>3, <1>4, <1>5, <1>6

LEMMA LoadAnsweredInv ==
    ASSUME BrowserInv, NEW l \in loads, LoadAnswered(l)
    PROVE  BrowserInv'
<1> DEFINE answer == [load |-> l.id, alert |-> l.alert, clips |-> l.clips, notes |-> l.notes,
                      late |-> l.id < concluded]
<1>1. /\ NotRead \notin {l.clips, l.notes} /\ Concludes(l) /\ UNCHANGED <<problem, deleting>>
      /\ detail' = IF MayApply(l) THEN answer ELSE detail
  BY DEF LoadAnswered
<1>2. /\ loads' = loads \ {l} /\ concluded' \in Nat /\ concluded' <= issued
      /\ busy' = (busy /\ ~Live(l))
      /\ UNCHANGED <<raised, stored, notes, latest, panel, browseId, effectDue, issued,
                     deletes, heard>>
      /\ Target' = Target /\ l \in LoadRecords
      /\ GoneIffNotedOnce' /\ RefetchFollows' /\ ReadsAreLate'
  BY <1>1, ConcludedFacts
<1>3. PICK late \in BOOLEAN : late = (l.id < concluded)
  <2>1. CASE l.id < concluded
    <3> WITNESS TRUE \in BOOLEAN
    <3> QED BY <2>1
  <2>2. CASE ~(l.id < concluded)
    <3>1. l.id \in Nat /\ concluded \in Nat
      BY <1>2 DEF BrowserInv, BrowserTypes, LoadRecords
    <3>2. (l.id < concluded) = FALSE
      BY <2>2, <3>1
    <3> QED BY <3>2
  <2> QED BY <2>1, <2>2
<1>4. answer = [load |-> l.id, alert |-> l.alert, clips |-> l.clips, notes |-> l.notes,
                late |-> late]
  BY <1>3
<1>5. answer \in Details /\ answer # NoDetail
  <2>1. l.clips \in SUBSET Clips /\ l.notes \in SUBSET Clips /\ l.id \in Nat \ {0}
    BY <1>1, <1>2 DEF LoadRecords, ReadSets
  <2>2. answer \in Details
    BY <1>2, <1>4, <2>1 DEF LoadRecords, Details
  <2>3. answer.load = l.id
    BY <1>4
  <2> QED BY <2>1, <2>2, <2>3 DEF NoDetail
<1>6. /\ answer.load = l.id /\ answer.alert = l.alert /\ answer.clips = l.clips
      /\ answer.notes = l.notes /\ (answer.late <=> l.id < concluded)
  BY <1>3, <1>4
<1> HIDE DEF answer
<1>7. BrowserTypes'
  BY <1>1, <1>2, <1>5 DEF BrowserInv, BrowserTypes
<1>8. IdsAreGiven'
  BY <1>1, <1>2, <1>6 DEF BrowserInv, IdsAreGiven
<1>9. Live(l) => MayApply(l)
  BY DEF Live, MayApply
<1>10. MayApply(l) => l.alert = Target \/ Live(l)
  BY <1>2 DEF Live, MayApply, LoadRecords
<1>11. SelectionIsServed'
  <2>1. busy' => \E x \in loads' : Live(x)
    BY <1>2 DEF BrowserInv, SelectionIsServed
  <2>2. ASSUME ~effectDue
        PROVE  /\ \A x \in loads' : Live(x) => x.alert = Target
               /\ detail' # NoDetail => detail'.alert = Target
               /\ busy' \/ problem' \/ detail' # NoDetail
    BY <2>2, <1>1, <1>2, <1>5, <1>6, <1>9, <1>10 DEF BrowserInv, SelectionIsServed
  <2> QED BY <2>1, <2>2, <1>2 DEF SelectionIsServed
<1>12. ShownIsLate'
  <2>1. SUFFICES ASSUME NEW c \in Clips, heard[c] > 0, detail' # NoDetail, detail'.alert = c[1]
                 PROVE  /\ detail'.load >= heard[c] => c \notin detail'.clips /\ c \in detail'.notes
                        /\ detail'.alert = Target =>
                              \/ detail'.load >= heard[c] \/ detail'.late
                              \/ \E x \in loads' : x.id = heard[c]
    BY <1>2 DEF ShownIsLate
  <2>2. heard[c] \in Nat /\ l.id \in Nat /\ concluded \in Nat
    BY <1>2 DEF BrowserInv, BrowserTypes, LoadRecords
  <2>3. CASE MayApply(l)
    <3>1. detail' = answer
      BY <1>1, <2>3
    <3>2. l.id >= heard[c] => c \notin l.clips /\ c \in l.notes
      BY <2>1, <3>1, <1>1, <1>6 DEF BrowserInv, ReadsAreLate
    <3>3. l.id < heard[c] => l.id < concluded \/ \E x \in loads' : x.id = heard[c]
      <4>1. concluded >= heard[c] \/ \E x \in loads : x.id = heard[c]
        BY <2>1 DEF BrowserInv, RefetchFollows
      <4> QED BY <4>1, <2>2, <1>2
    <3> QED BY <3>1, <3>2, <3>3, <2>2, <1>6
  <2>4. CASE ~MayApply(l)
    <3>1. detail' = detail
      BY <1>1, <2>4
    <3>2. l.id = heard[c] => l.alert # Target
      BY <2>1, <2>4, <3>1 DEF BrowserInv, RefetchFollows, MayApply
    <3>3. l.id = heard[c] => l.alert = c[1]
      BY <2>1 DEF BrowserInv, RefetchFollows
    <3> QED BY <2>1, <3>1, <3>2, <3>3, <1>2 DEF BrowserInv, ShownIsLate
  <2> QED BY <2>3, <2>4
<1>13. DeletedIsGone'
  BY <1>1, <1>2 DEF BrowserInv, DeletedIsGone
<1> QED BY <1>2, <1>7, <1>8, <1>11, <1>12, <1>13 DEF BrowserInv

LEMMA LoadFailsInv ==
    ASSUME BrowserInv, NEW l \in loads, LoadFails(l)
    PROVE  BrowserInv'
<1>1. /\ Concludes(l) /\ problem' = (problem \/ MayApply(l))
      /\ detail' = IF l.kind = "refetch" /\ MayApply(l) THEN NoDetail ELSE detail
      /\ deleting' \in {Unmounted, deleting}
  BY DEF LoadFails, AfterFailure
<1>2. /\ loads' = loads \ {l} /\ concluded' \in Nat /\ concluded' <= issued
      /\ busy' = (busy /\ ~Live(l))
      /\ UNCHANGED <<raised, stored, notes, latest, panel, browseId, effectDue, issued,
                     deletes, heard>>
      /\ Target' = Target /\ l \in LoadRecords
      /\ GoneIffNotedOnce' /\ RefetchFollows' /\ ReadsAreLate'
  BY <1>1, ConcludedFacts
<1>3. BrowserTypes'
  <2>1. problem' \in BOOLEAN /\ busy' \in BOOLEAN
    BY <1>1, <1>2 DEF BrowserInv, BrowserTypes
  <2>2. deleting' \in SUBSET Deletions
    BY <1>1, UnmountedRows DEF BrowserInv, BrowserTypes
  <2> QED BY <1>1, <1>2, <2>1, <2>2 DEF BrowserInv, BrowserTypes
<1>4. IdsAreGiven'
  BY <1>1, <1>2 DEF BrowserInv, BrowserTypes, IdsAreGiven, NoDetail
<1>5. Live(l) => MayApply(l)
  BY DEF Live, MayApply
<1>6. SelectionIsServed'
  BY <1>1, <1>2, <1>5 DEF BrowserInv, SelectionIsServed
<1>7. ShownIsLate'
  <2>1. SUFFICES ASSUME NEW c \in Clips, heard[c] > 0, detail' # NoDetail, detail'.alert = c[1]
                 PROVE  /\ detail'.load >= heard[c] => c \notin detail'.clips /\ c \in detail'.notes
                        /\ detail'.alert = Target =>
                              \/ detail'.load >= heard[c] \/ detail'.late
                              \/ \E x \in loads' : x.id = heard[c]
    BY <1>2 DEF ShownIsLate
  <2>2. detail' = detail /\ ~(l.kind = "refetch" /\ MayApply(l))
    BY <1>1, <2>1
  <2>3. l.id = heard[c] => l.alert = c[1] /\ l.alert # Target
    BY <2>1, <2>2 DEF BrowserInv, RefetchFollows, MayApply
  <2> QED BY <2>1, <2>2, <2>3, <1>2 DEF BrowserInv, ShownIsLate
<1>8. DeletedIsGone'
  BY <1>1, <1>2, UnmountedRows DEF BrowserInv, DeletedIsGone
<1> QED BY <1>2, <1>3, <1>4, <1>6, <1>7, <1>8 DEF BrowserInv

LEMMA AfterDeleteInv ==
    ASSUME BrowserInv, NEW d \in deleting, AfterDelete(d)
    PROVE  BrowserInv'
<1> DEFINE new == Load("refetch", d.clip[1])
           e == d.clip
<1>1. /\ d.at = "deleted" /\ Reloads /\ deleting' = deleting \ {d}
      /\ loads' = loads \cup {new}
      /\ issued' = issued + 1 /\ heard' = [heard EXCEPT ![e] = issued + 1]
      /\ UNCHANGED <<raised, stored, notes, browseId, busy, problem, detail, concluded, deletes>>
  BY DEF AfterDelete, evidenceVars
<1>2. /\ e \in Clips /\ e[1] \in Nat /\ issued \in Nat /\ concluded \in Nat
      /\ heard \in [Clips -> Nat] /\ loads \in SUBSET LoadRecords /\ e \notin stored
  BY <1>1, ClipsAreReal DEF BrowserInv, BrowserTypes, Deletions, DeletedIsGone
<1>3. /\ new \in LoadRecords /\ new.id = issued + 1 /\ new.alert = e[1] /\ new.kind = "refetch"
      /\ new.notes = NotRead /\ \A c \in Clips : c \notin new.clips
  BY <1>2, NewLoad
<1> HIDE DEF new, e
<1>4. /\ ~effectDue /\ (Target' # Target => effectDue')
      /\ latest' \in Nat /\ panel' \in SUBSET Clips /\ effectDue' \in BOOLEAN
  <2>1. stored' \subseteq Clips
    BY <1>1 DEF BrowserInv, BrowserTypes
  <2> QED BY <1>1, <2>1, ReloadedTarget
<1>5. /\ \A c \in Clips : heard'[c] = IF c = e THEN issued + 1 ELSE heard[c]
      /\ \A c \in Clips : heard[c] \in Nat /\ heard[c] <= issued
      /\ \A l \in loads : l.id \in Nat /\ l.id <= issued
  BY <1>1, <1>2 DEF BrowserInv, IdsAreGiven, LoadRecords
<1>6. BrowserTypes'
  <2>1. heard' \in [Clips -> Nat] /\ issued' \in Nat
    BY <1>1, <1>2
  <2> QED BY <1>1, <1>3, <1>4, <2>1 DEF BrowserInv, BrowserTypes
<1>7. detail.load \in Nat /\ detail.load <= issued
  BY DEF BrowserInv, BrowserTypes, IdsAreGiven, Details, NoDetail
<1>8. IdsAreGiven'
  <2>1. concluded <= issued
    BY DEF BrowserInv, IdsAreGiven
  <2> QED BY <1>1, <1>2, <1>3, <1>5, <1>7, <2>1 DEF IdsAreGiven
<1>9. SelectionIsServed'
  BY <1>1, <1>3, <1>4 DEF BrowserInv, SelectionIsServed, Live
<1>10. DeletedIsGone' /\ GoneIffNotedOnce'
  BY <1>1, <1>2, <1>5 DEF BrowserInv, DeletedIsGone, GoneIffNotedOnce
<1>11. RefetchFollows'
  <2>1. SUFFICES ASSUME NEW c \in Clips, heard'[c] > 0
                 PROVE  /\ \A x \in loads' : x.id = heard'[c] => x.kind = "refetch" /\ x.alert = c[1]
                        /\ concluded >= heard'[c] \/ \E x \in loads' : x.id = heard'[c]
    BY <1>1 DEF RefetchFollows
  <2>2. CASE c = e
    BY <2>2, <1>1, <1>2, <1>3, <1>5
  <2>3. CASE c # e
    BY <2>1, <2>3, <1>1, <1>2, <1>3, <1>5 DEF BrowserInv, RefetchFollows
  <2> QED BY <2>2, <2>3
<1>12. ReadsAreLate'
  <2>1. SUFFICES ASSUME NEW c \in Clips, NEW l \in loads', heard'[c] > 0, l.id >= heard'[c],
                        l.alert = c[1]
                 PROVE  c \notin l.clips /\ (l.notes # NotRead => c \in l.notes)
    BY DEF ReadsAreLate
  <2>2. CASE l = new
    BY <2>2, <1>3
  <2>3. CASE l # new /\ c = e
    BY <2>1, <2>3, <1>1, <1>2, <1>5
  <2>4. CASE l # new /\ c # e
    BY <2>1, <2>4, <1>1, <1>5 DEF BrowserInv, ReadsAreLate
  <2> QED BY <2>2, <2>3, <2>4
<1>13. ShownIsLate'
  <2>1. SUFFICES ASSUME NEW c \in Clips, heard'[c] > 0, detail # NoDetail, detail.alert = c[1]
                 PROVE  /\ detail.load >= heard'[c] => c \notin detail.clips /\ c \in detail.notes
                        /\ detail.alert = Target' =>
                              \/ detail.load >= heard'[c] \/ detail.late
                              \/ \E x \in loads' : x.id = heard'[c]
    BY <1>1 DEF ShownIsLate
  <2>2. CASE c = e
    <3>1. heard'[c] = issued + 1 /\ new \in loads' /\ new.id = issued + 1
      BY <2>2, <1>1, <1>3, <1>5
    <3> QED BY <3>1, <1>2, <1>7
  <2>3. CASE c # e
    <3>1. heard'[c] = heard[c] /\ loads \subseteq loads' /\ detail.alert = Target
      BY <2>1, <2>3, <1>1, <1>4, <1>5 DEF BrowserInv, SelectionIsServed
    <3> QED BY <2>1, <3>1 DEF BrowserInv, ShownIsLate
  <2> QED BY <2>2, <2>3
<1> QED BY <1>6, <1>8, <1>9, <1>10, <1>11, <1>12, <1>13 DEF BrowserInv

LEMMA BrowserStepInv == BrowserInv /\ [BrowserNext]_browserVars => BrowserInv'
<1>1. BrowserInv /\ UNCHANGED browserVars => BrowserInv'
  <2> SUFFICES ASSUME BrowserInv, UNCHANGED browserVars PROVE BrowserInv'
    OBVIOUS
  <2>1. BrowserTypes' /\ GoneIffNotedOnce' /\ UNCHANGED <<Target, effectDue>>
    BY DEF browserVars, BrowserInv, BrowserTypes, GoneIffNotedOnce, Target
  <2> QED BY <2>1, PageStep DEF browserVars, BrowserInv, DeletedIsGone
<1> QED BY <1>1, RaiseInv, ReloadInv, SelectInv, RunEffectInv, ReadInv, LoadAnsweredInv,
        LoadFailsInv, ConfirmDeleteInv, CommitInv, LoseInv, AfterDeleteInv DEF BrowserNext

\* What the evidence browser shows is the record of the selected alert, whatever order
\* selections, reloads, deletions and answers come in (pages/incidents.tsx, use-field-test.tsx
\* and cas-evidence.ts), for any number of alerts, clips, requests and deletions.
THEOREM BrowserShowsTheRecordHolds == BrowserSpec => []BrowserShowsTheRecord
<1>1. BrowserInv => SelectionConcludes
  BY DEF BrowserInv, SelectionIsServed, SelectionConcludes, Shown
<1>2. BrowserInv => DeletedLeavesList
  <2> SUFFICES ASSUME BrowserInv, NEW c \in Clips, heard[c] > 0, Shown, detail.alert = c[1],
                      c \in detail.clips \/ c \notin detail.notes
               PROVE  detail.late \/ \E l \in loads : l.id >= heard[c] /\ l.alert = c[1]
    BY DEF DeletedLeavesList
  <2>1. detail.late \/ \E l \in loads : l.id = heard[c]
    BY DEF BrowserInv, ShownIsLate, Shown
  <2>2. heard[c] \in Nat
    BY DEF BrowserInv, BrowserTypes
  <2> QED BY <2>1, <2>2 DEF BrowserInv, RefetchFollows
<1> QED BY <1>1, <1>2, BrowserInitInv, BrowserStepInv, PTL
        DEF BrowserSpec, BrowserInv, BrowserShowsTheRecord

-----------------------------------------------------------------------------
(* DeliveryWarnings.                                                         *)

RowStates == PendingStates \cup {"NONE", "DEAD_LETTER", "SENT", "WITHDRAWN"}

WarnTypes ==
    /\ period \in Nat
    /\ deliveries \in [Rows -> [state : RowStates, created : Nat, since : Nat]]
    /\ worker \in [at : {"none", "running", "stopped"}, lastActivity : Nat, lastError : BOOLEAN]
    /\ polls \in SUBSET Nat /\ nextPoll \in {period, period + 1}
    /\ unreachable \in BOOLEAN
    /\ lastIll \in Nat /\ lastTrouble \in Nat

\* A row stands as it does since it was made or later.
RowTimes == \A r \in Rows :
    /\ deliveries[r].created <= deliveries[r].since /\ deliveries[r].since <= period
    /\ deliveries[r].state = "NONE" => deliveries[r].created = deliveries[r].since

IllIsNoted == Ill => lastIll = period

\* In a period without trouble only its own poll can be under way.
OwnPollOnly == lastTrouble < period => polls \subseteq {period}

\* What warnings derived in period q or later tell of everything that has stood since before.
Raised(q) ==
    /\ \A r \in Rows : deliveries[r].since < q =>
          /\ deliveries[r].state = "DEAD_LETTER" => "dead" \in warnings
          /\ r \in PendingRows /\ q - deliveries[r].created > StuckAfter => "stuck" \in warnings
    /\ worker.at = "running" /\ q - worker.lastActivity > StaleAfter => "stale" \in warnings

Quiet ==
    /\ warnings \subseteq {"error", "stuck"}
    /\ "error" \in warnings => worker.lastError
    /\ "stuck" \in warnings => \E r \in Rows : deliveries[r].created < deliveries[r].since

\* The poll of this period was answered, the page tells of this period ...
HeardNow == lastTrouble < period /\ nextPoll = period + 1 /\ polls = {} =>
    Raised(period) /\ (lastIll < period => Quiet)

\* ... and otherwise of the one before, if that one was without trouble.
HeardBefore == lastTrouble < period - 1 =>
    Raised(period - 1) /\ (lastIll < period - 1 => Quiet)

WarnInv == /\ WarnTypes /\ RowTimes /\ IllIsNoted /\ OwnPollOnly /\ HeardNow /\ HeardBefore

LEMMA WarnInitInv == WarnInit => WarnInv
<1> SUFFICES ASSUME WarnInit PROVE WarnInv
  OBVIOUS
<1> USE DEF WarnInit
<1>1. worker = [at |-> "none", lastActivity |-> 0, lastError |-> FALSE]
  BY DEF NewWorker
<1>2. WarnTypes
  <2>1. PICK new \in RowStates : new = "NONE"
    BY DEF RowStates
  <2>2. [state |-> new, created |-> 0, since |-> 0]
            \in [state : RowStates, created : Nat, since : Nat]
    OBVIOUS
  <2>3. worker \in [at : {"none", "running", "stopped"}, lastActivity : Nat, lastError : BOOLEAN]
    <3>1. PICK no \in BOOLEAN : no = FALSE
      OBVIOUS
    <3>2. [at |-> "none", lastActivity |-> 0, lastError |-> no]
              \in [at : {"none", "running", "stopped"}, lastActivity : Nat, lastError : BOOLEAN]
      OBVIOUS
    <3> QED BY <1>1, <3>1, <3>2
  <2> QED BY <2>1, <2>2, <2>3 DEF WarnTypes
<1>3. RowTimes /\ IllIsNoted /\ OwnPollOnly /\ HeardNow /\ HeardBefore
  BY DEF RowTimes, IllIsNoted, OwnPollOnly, HeardNow, HeardBefore
<1> QED BY <1>2, <1>3 DEF WarnInv

\* Rows and worker move while the page does not: what it tells must go on being true.
LEMMA PipelineStep ==
    ASSUME WarnInv, UNCHANGED <<period, pageVars>>, lastIll' = (IF Ill' THEN period' ELSE lastIll),
           WarnTypes', RowTimes',
           \A q \in Int : q <= period /\ Raised(q) => Raised(q)',
           ~Ill /\ ~Ill' /\ Quiet => Quiet'
    PROVE  WarnInv'
<1> USE DEF pageVars
<1>1. period \in Nat /\ lastIll \in Nat
  BY DEF WarnInv, WarnTypes
<1>2. PICK now \in Nat : now = period /\ now = period'
  BY <1>1
<1>3. IllIsNoted' /\ OwnPollOnly'
  BY DEF WarnInv, IllIsNoted, OwnPollOnly
<1>4. lastIll' < period => ~Ill /\ ~Ill' /\ lastIll' = lastIll
  BY <1>1 DEF WarnInv, IllIsNoted
<1>5. HeardNow'
  <2>1. SUFFICES ASSUME lastTrouble < now, nextPoll = now + 1, polls = {}
                 PROVE  Raised(now)' /\ (lastIll' < now => Quiet')
    BY <1>2 DEF HeardNow, Raised
  <2>2. Raised(now) /\ (lastIll < now => Quiet)
    BY <2>1, <1>2 DEF WarnInv, HeardNow, Raised
  <2>3. Raised(now)'
    BY <2>2, <1>2
  <2> QED BY <2>2, <2>3, <1>2, <1>4
<1>6. HeardBefore'
  <2> DEFINE before == now - 1
  <2>1. SUFFICES ASSUME lastTrouble < before
                 PROVE  Raised(before)' /\ (lastIll' < before => Quiet')
    BY <1>2 DEF HeardBefore, Raised
  <2>2. before \in Int /\ before <= period /\ (lastIll' < before => lastIll' < period)
    BY <1>1, <1>2, <1>4 DEF WarnTypes
  <2>3. Raised(before) /\ (lastIll < before => Quiet)
    BY <2>1, <1>2 DEF WarnInv, HeardBefore, Raised
  <2> HIDE DEF before
  <2>4. Raised(before)'
    BY <2>2, <2>3
  <2> QED BY <2>2, <2>3, <2>4, <1>4
<1> QED BY <1>3, <1>5, <1>6 DEF WarnInv

\* A row that leaves, or joins, those that wait stands anew; its age stays.
LEMMA RowMovesInv ==
    ASSUME WarnInv, NEW r \in Rows, RowMoves(r), lastIll' = (IF Ill' THEN period' ELSE lastIll),
           lastIll' \in Nat
    PROVE  WarnInv'
<1> DEFINE d == deliveries[r]
<1>1. UNCHANGED <<period, worker, pageVars>> /\ period \in Nat
  BY DEF RowMoves, WarnInv, WarnTypes
<1>2. /\ d \in [state : RowStates, created : Nat, since : Nat]
      /\ d.created <= d.since /\ d.since <= period /\ (d.state = "NONE" => d.created = d.since)
  BY DEF WarnInv, WarnTypes, RowTimes
<1>3. PICK to \in RowStates \ {"NONE"} :
          /\ to \in Moves[d.state]
          /\ deliveries' = [deliveries EXCEPT ![r] =
                 [state |-> to,
                  created |-> IF d.state = "NONE" THEN period ELSE d.created,
                  since |-> IF {d.state, to} \subseteq PendingStates THEN d.since ELSE period]]
  <2>1. PICK to \in Moves[d.state] :
          deliveries' = [deliveries EXCEPT ![r] =
                 [state |-> to,
                  created |-> IF d.state = "NONE" THEN period ELSE d.created,
                  since |-> IF {d.state, to} \subseteq PendingStates THEN d.since ELSE period]]
    BY DEF RowMoves
  <2>2. d.state \in RowStates
    BY <1>2
  <2> HIDE DEF d
  <2>3. Moves[d.state] \subseteq RowStates \ {"NONE"}
    BY <2>2 DEF Moves, RowStates, PendingStates
  <2> QED BY <2>1, <2>3
<1>4. d.state # to
  BY <1>2, <1>3 DEF Moves, RowStates, PendingStates
<1>5. PICK created \in Nat : created = IF d.state = "NONE" THEN period ELSE d.created
  BY <1>1, <1>2
<1>6. PICK since \in Nat :
          since = IF {d.state, to} \subseteq PendingStates THEN d.since ELSE period
  BY <1>1, <1>2
<1>7. /\ deliveries' = [deliveries EXCEPT
                           ![r] = [state |-> to, created |-> created, since |-> since]]
      /\ deliveries \in [Rows -> [state : RowStates, created : Nat, since : Nat]]
  BY <1>3, <1>5, <1>6 DEF WarnInv, WarnTypes
<1>8. /\ created <= since /\ since <= period
      /\ since = period \/ (d.state \in PendingStates /\ to \in PendingStates
                            /\ since = d.since /\ created = d.created)
      /\ d.created < d.since => created < since
  BY <1>1, <1>2, <1>5, <1>6 DEF PendingStates
<1>9. /\ deliveries'[r].state = to /\ deliveries'[r].created = created
      /\ deliveries'[r].since = since
      /\ \A x \in Rows \ {r} : deliveries'[x] = deliveries[x]
      /\ deliveries' \in [Rows -> [state : RowStates, created : Nat, since : Nat]]
  BY <1>3, <1>7
<1> HIDE DEF d
<1>10. WarnTypes'
  BY <1>1, <1>9 DEF WarnInv, WarnTypes, pageVars
<1>11. RowTimes'
  BY <1>1, <1>3, <1>8, <1>9 DEF WarnInv, RowTimes
<1>12. ASSUME NEW q \in Int, q <= period, Raised(q)
       PROVE  Raised(q)'
  <2>1. ASSUME NEW x \in Rows, deliveries'[x].since < q
        PROVE  /\ deliveries'[x].state = "DEAD_LETTER" => "dead" \in warnings
               /\ /\ deliveries'[x].state \in PendingStates
                  /\ q - deliveries'[x].created > StuckAfter
                  => "stuck" \in warnings
    <3>1. CASE x # r
      BY <3>1, <2>1, <1>9, <1>12 DEF Raised, PendingRows
    <3>2. CASE x = r
      <4>1. since < q /\ since # period
        BY <3>2, <2>1, <1>1, <1>9, <1>12
      <4>2. /\ d.state \in PendingStates /\ to \in PendingStates /\ since = d.since
            /\ created = d.created
        BY <4>1, <1>8
      <4>3. to # "DEAD_LETTER"
        BY <4>2 DEF PendingStates
      <4> QED BY <3>2, <4>1, <4>2, <4>3, <1>9, <1>12 DEF Raised, PendingRows, d
    <3> QED BY <3>1, <3>2
  <2> QED BY <2>1, <1>1, <1>12 DEF Raised, PendingRows, pageVars
<1>13. Quiet => Quiet'
  <2> SUFFICES ASSUME Quiet PROVE Quiet'
    OBVIOUS
  <2>1. ASSUME NEW x \in Rows, deliveries[x].created < deliveries[x].since
        PROVE  deliveries'[x].created < deliveries'[x].since
    BY <2>1, <1>8, <1>9 DEF d
  <2> QED BY <2>1, <1>1 DEF Quiet, pageVars
<1> QED BY <1>1, <1>10, <1>11, <1>12, <1>13, PipelineStep

\* The worker starts, ends a tick, stops, or its process is replaced.
LEMMA WorkerInv ==
    ASSUME WarnInv, WorkerStart \/ EndTick \/ WorkerStop \/ NewProcess,
           lastIll' = (IF Ill' THEN period' ELSE lastIll), lastIll' \in Nat
    PROVE  WarnInv'
<1>1. UNCHANGED <<period, deliveries, pageVars>> /\ period \in Nat
  BY DEF WorkerStart, EndTick, WorkerStop, NewProcess, WarnInv, WarnTypes
<1>2. /\ worker' \in [at : {"none", "running", "stopped"}, lastActivity : Nat,
                      lastError : BOOLEAN]
      /\ worker'.at = "running" => worker'.lastActivity = period
  <2>1. CASE WorkerStart
    BY <2>1, <1>1 DEF WorkerStart, NewWorker
  <2>2. CASE EndTick
    <3>1. PICK failed \in BOOLEAN, w \in [at : {"none", "running", "stopped"}, lastActivity : Nat,
                                        lastError : BOOLEAN] :
              /\ w = worker
              /\ worker' = [w EXCEPT !.lastActivity = period, !.lastError = @ \/ failed]
      BY <2>2 DEF EndTick, WarnInv, WarnTypes
    <3>2. PICK failing \in BOOLEAN : failing = (w.lastError \/ failed)
      OBVIOUS
    <3>3. worker' = [w EXCEPT !.lastActivity = period, !.lastError = failing]
      BY <3>1, <3>2
    <3> QED BY <3>3, <1>1
  <2>3. CASE WorkerStop
    BY <2>3 DEF WorkerStop, WarnInv, WarnTypes
  <2>4. CASE NewProcess
    BY <2>4, <1>1 DEF NewProcess, NewWorker
  <2> QED BY <2>1, <2>2, <2>3, <2>4
<1>3. worker.at = "running" /\ worker'.at = "running" /\ worker.lastError => worker'.lastError
  <2>1. CASE EndTick
    BY <2>1 DEF EndTick, WarnInv, WarnTypes
  <2>2. CASE WorkerStart \/ WorkerStop \/ NewProcess
    BY <2>2 DEF WorkerStart, WorkerStop, NewProcess, NewWorker, WarnInv, WarnTypes
  <2> QED BY <2>1, <2>2
<1>4. WarnTypes' /\ RowTimes'
  BY <1>1, <1>2 DEF WarnInv, WarnTypes, RowTimes, pageVars
<1>5. ASSUME NEW q \in Int, q <= period, Raised(q)
      PROVE  Raised(q)'
  <2>1. StaleAfter \in Nat
    BY WarningsAssumption
  <2>2. ~(worker'.at = "running" /\ q - worker'.lastActivity > StaleAfter)
    BY <1>1, <1>2, <1>5, <2>1
  <2> QED BY <2>2, <1>1, <1>5 DEF Raised, PendingRows, pageVars
<1>6. ~Ill /\ ~Ill' /\ Quiet => Quiet'
  BY <1>1, <1>3 DEF Ill, Quiet, pageVars
<1> QED BY <1>1, <1>4, <1>5, <1>6, PipelineStep

LEMMA IssueInv ==
    ASSUME WarnInv, Issue, lastIll' = (IF Ill' THEN period' ELSE lastIll), lastIll' \in Nat
    PROVE  WarnInv'
<1>1. /\ nextPoll = period /\ nextPoll' = period + 1
      /\ polls' = IF Cardinality(polls) < MaxPolls THEN polls \cup {period} ELSE polls
      /\ UNCHANGED <<period, deliveries, worker, warnings, unreachable, lastTrouble>>
      /\ period \in Nat /\ polls \in SUBSET Nat
  BY DEF Issue, WarnInv, WarnTypes
<1>2. WarnTypes' /\ RowTimes'
  BY <1>1 DEF WarnInv, WarnTypes, RowTimes
<1>3. Ill' = Ill
  BY <1>1 DEF Ill, PendingRows, Silent
<1>4. IllIsNoted' /\ lastIll' = lastIll
  BY <1>1, <1>3 DEF WarnInv, IllIsNoted
<1>5. OwnPollOnly'
  BY <1>1 DEF WarnInv, OwnPollOnly
<1>6. HeardNow'
  <2>1. ASSUME lastTrouble < period PROVE polls' # {}
    <3>1. polls = {} \/ polls = {period}
      BY <2>1 DEF WarnInv, OwnPollOnly
    <3>2. polls = {} => Cardinality(polls) = 0 /\ 0 < MaxPolls
      BY FS_EmptySet, WarningsAssumption
    <3> QED BY <3>1, <3>2, <1>1
  <2> QED BY <2>1, <1>1 DEF HeardNow
<1>7. HeardBefore'
  BY <1>1, <1>4 DEF WarnInv, HeardBefore, Raised, Quiet, PendingRows
<1> QED BY <1>2, <1>4, <1>5, <1>6, <1>7 DEF WarnInv

\* What the status route reads tells of this period, and of every one before.
LEMMA DerivedIsRaised ==
    ASSUME WarnInv, warnings' = Derived, UNCHANGED <<deliveries, worker>>,
           NEW q \in Int, q <= period
    PROVE  Raised(q)'
<1>1. {StuckAfter, StaleAfter} \subseteq Nat
  BY WarningsAssumption
<1>2. period \in Nat /\ worker.lastActivity \in Nat
      /\ \A r \in Rows : deliveries[r].created \in Nat
  BY DEF WarnInv, WarnTypes
<1>3. \A r \in Rows : deliveries[r].state = "DEAD_LETTER" => "dead" \in Derived
  BY DEF Derived
<1>4. ASSUME NEW r \in Rows, r \in PendingRows, q - deliveries[r].created > StuckAfter
      PROVE  "stuck" \in Derived
  <2>1. r \in Counted
    BY <1>4 DEF PendingRows, PendingStates, Counted
  <2>2. period - deliveries[r].created > StuckAfter
    BY <1>1, <1>2, <1>4
  <2> QED BY <2>1, <2>2 DEF Derived, Stuck
<1>5. ASSUME worker.at = "running", q - worker.lastActivity > StaleAfter
      PROVE  "stale" \in Derived
  <2>1. period - worker.lastActivity > StaleAfter
    BY <1>1, <1>2, <1>5
  <2> QED BY <2>1, <1>5 DEF Derived, Silent
<1> QED BY <1>3, <1>4, <1>5 DEF Raised, PendingRows

\* While nothing is ill, all it can tell of is a tick's old error and a row that is older than
\* its wait.
LEMMA DerivedIsQuiet ==
    ASSUME WarnInv, warnings' = Derived, UNCHANGED <<deliveries, worker>>, ~Ill
    PROVE  Quiet'
<1>1. Derived \subseteq {"error", "stuck"}
  BY DEF Derived, Ill
<1>2. "error" \in Derived => worker.lastError
  BY DEF Derived
<1>3. ASSUME "stuck" \in Derived
      PROVE  \E r \in Rows : deliveries[r].created < deliveries[r].since
  <2>1. PICK r \in Rows : r \in PendingRows /\ period - deliveries[r].created > StuckAfter
    BY <1>3 DEF Derived, Stuck, Counted, PendingRows, PendingStates
  <2>2. ~(period - deliveries[r].since > StuckAfter)
    BY <2>1 DEF Ill
  <2>3. /\ period \in Nat /\ deliveries[r].created \in Nat /\ deliveries[r].since \in Nat
        /\ StuckAfter \in Nat
    BY WarningsAssumption DEF WarnInv, WarnTypes
  <2> QED BY <2>1, <2>2, <2>3
<1> QED BY <1>1, <1>2, <1>3 DEF Quiet

LEMMA PollAnsweredInv ==
    ASSUME WarnInv, NEW p \in polls, PollAnswered(p),
           lastIll' = (IF Ill' THEN period' ELSE lastIll), lastIll' \in Nat
    PROVE  WarnInv'
<1>1. /\ unreachable' = FALSE /\ warnings' = Derived /\ polls' = polls \ {p}
      /\ UNCHANGED <<period, deliveries, worker, nextPoll, lastTrouble>>
      /\ period \in Nat /\ lastTrouble \in Nat
  BY DEF PollAnswered, ReachableAgain, WarnInv, WarnTypes
<1>2. WarnTypes' /\ RowTimes'
  BY <1>1 DEF WarnInv, WarnTypes, RowTimes
<1>3. Ill' = Ill
  BY <1>1 DEF Ill, PendingRows, Silent
<1>4. IllIsNoted' /\ lastIll' = lastIll /\ OwnPollOnly'
  BY <1>1, <1>3 DEF WarnInv, IllIsNoted, OwnPollOnly
<1>5. lastIll < period => Quiet'
  BY <1>1, DerivedIsQuiet DEF WarnInv, IllIsNoted
<1>6. PICK now \in Nat : now = period /\ now = period'
  BY <1>1
<1>7. now \in Int /\ now - 1 \in Int /\ now <= period /\ now - 1 <= period
  <2>1. now \in Nat /\ now = period
    BY <1>6
  <2> QED BY <2>1
<1>8. Raised(now)' /\ Raised(now - 1)'
  BY <1>1, <1>7, DerivedIsRaised
<1>9. HeardNow'
  BY <1>4, <1>5, <1>6, <1>8 DEF HeardNow, Raised
<1>10. HeardBefore'
  <2>1. lastIll < now - 1 => lastIll < period
    <3>1. lastIll \in Nat /\ now \in Nat /\ now = period
      BY <1>6 DEF WarnInv, WarnTypes
    <3> QED BY <3>1
  <2> QED BY <1>4, <1>5, <1>6, <1>8, <2>1 DEF HeardBefore, Raised
<1> QED BY <1>2, <1>4, <1>9, <1>10 DEF WarnInv

LEMMA FailedInv ==
    ASSUME WarnInv, NEW p \in polls, Failed(p),
           lastIll' = (IF Ill' THEN period' ELSE lastIll), lastIll' \in Nat
    PROVE  WarnInv'
<1>1. /\ unreachable' \in BOOLEAN /\ polls' = polls \ {p} /\ lastTrouble' = period
      /\ UNCHANGED <<period, deliveries, worker, nextPoll>> /\ period \in Nat
  BY DEF Failed, WarnInv, WarnTypes
<1>2. WarnTypes' /\ RowTimes'
  BY <1>1 DEF WarnInv, WarnTypes, RowTimes
<1>3. Ill' = Ill
  BY <1>1 DEF Ill, PendingRows, Silent
<1>4. IllIsNoted'
  BY <1>1, <1>3 DEF WarnInv, IllIsNoted
<1>5. OwnPollOnly' /\ HeardNow' /\ HeardBefore'
  <2>1. ~(lastTrouble' < period') /\ ~(lastTrouble' < period' - 1)
    BY <1>1
  <2> QED BY <2>1 DEF OwnPollOnly, HeardNow, HeardBefore
<1> QED BY <1>2, <1>4, <1>5 DEF WarnInv

\* A period ends with its poll answered, or it was one of trouble.
LEMMA NextPeriodInv ==
    ASSUME WarnInv, NextPeriod, lastIll' = (IF Ill' THEN period' ELSE lastIll), lastIll' \in Nat
    PROVE  WarnInv'
<1>1. /\ nextPoll > period /\ period' = period + 1
      /\ lastTrouble' = IF polls # {} THEN period' ELSE lastTrouble
      /\ UNCHANGED <<deliveries, worker, polls, nextPoll, warnings, unreachable>>
      /\ period \in Nat /\ nextPoll \in {period, period + 1} /\ lastTrouble \in Nat
      /\ lastIll \in Nat
  BY DEF NextPeriod, WarnInv, WarnTypes
<1>2. nextPoll = period + 1 /\ nextPoll = period'
  BY <1>1
<1>3. WarnTypes'
  BY <1>1, <1>2 DEF WarnInv, WarnTypes
<1>4. RowTimes'
  <2>1. \A r \in Rows : deliveries[r].since \in Nat
    BY DEF WarnInv, WarnTypes
  <2> QED BY <1>1, <2>1 DEF WarnInv, RowTimes
<1>5. IllIsNoted'
  BY DEF IllIsNoted
<1>6. lastTrouble' < period' => polls = {} /\ lastTrouble' = lastTrouble
  BY <1>1
<1>7. OwnPollOnly' /\ HeardNow'
  BY <1>1, <1>2, <1>6 DEF OwnPollOnly, HeardNow
<1>8. HeardBefore'
  <2>1. PICK now \in Nat : now = period /\ now = period' - 1
    BY <1>1
  <2>2. SUFFICES ASSUME lastTrouble' < now
                 PROVE  Raised(now)' /\ (lastIll' < now => Quiet')
    BY <2>1 DEF HeardBefore, Raised
  <2>3. polls = {} /\ lastTrouble < now
    BY <1>1, <1>6, <2>1, <2>2
  <2>4. Raised(now) /\ (lastIll < now => Quiet)
    BY <1>2, <2>1, <2>3 DEF WarnInv, HeardNow, Raised
  <2>5. lastIll' < now => lastIll < now
    BY <1>1, <2>1
  <2>6. (Raised(now) => Raised(now)') /\ (Quiet => Quiet')
    BY <1>1 DEF Raised, Quiet, PendingRows
  <2> QED BY <2>4, <2>5, <2>6
<1> QED BY <1>3, <1>4, <1>5, <1>7, <1>8 DEF WarnInv

LEMMA WarnStepInv == WarnInv /\ [WarnNext]_warnVars => WarnInv'
<1> SUFFICES ASSUME WarnInv, [WarnNext]_warnVars
             PROVE  WarnInv'
  OBVIOUS
<1>1. CASE UNCHANGED warnVars
  BY <1>1 DEF warnVars, WarnInv, WarnTypes, RowTimes, IllIsNoted, OwnPollOnly, HeardNow,
     HeardBefore, Ill, Silent, PendingRows, Raised, Quiet
<1>2. CASE WarnNext
  <2>1. lastIll' = (IF Ill' THEN period' ELSE lastIll)
    BY <1>2 DEF WarnNext
  <2>2. period' \in Nat
    <3>1. period \in Nat
      BY DEF WarnInv, WarnTypes
    <3>2. period' = period \/ period' = period + 1
      BY <1>2 DEF WarnNext, NextPeriod, WorkerStart, EndTick, WorkerStop, NewProcess, Issue,
         RowMoves, PollAnswered, Failed
    <3> QED BY <3>1, <3>2
  <2>3. lastIll' \in Nat
    BY <2>1, <2>2 DEF WarnInv, WarnTypes
  <2> QED BY <1>2, <2>1, <2>3, NextPeriodInv, WorkerInv, IssueInv, RowMovesInv, PollAnsweredInv,
             FailedInv DEF WarnNext
<1> QED BY <1>1, <1>2

\* While polls are answered the page warns of a pipeline in trouble within a period, and of no
\* other (deriveOutboxWarnings, useOutboxStatus and the status route), for any rows, thresholds
\* and number of periods.
THEOREM AlarmIsTrueHolds == WarnSpec => []AlarmIsTrue
<1>1. WarnInv => AlarmIsTrue
  <2> SUFFICES ASSUME WarnInv, Steady PROVE AlarmIsTrue
    BY DEF AlarmIsTrue, AlarmIsRaised, AlarmClears
  <2>1. Raised(period - 1) /\ (lastIll < period - 1 => Quiet)
    BY DEF WarnInv, HeardBefore, Steady
  <2> QED BY <2>1 DEF AlarmIsTrue, AlarmIsRaised, AlarmClears, Raised, Quiet
<1> QED BY <1>1, WarnInitInv, WarnStepInv, PTL DEF WarnSpec

--------------------------------------------------------------------------------
(* Readiness: marks stand, edits show, GO is earned.                         *)

CatalogueRows == [Entries -> BOOLEAN] \cup {NoRows}
AnEdit == [page : Pages, entry : Entries \cup {"none"}, value : BOOLEAN,
           pc : {"idle", "sent", "served", "reloads", "read", "done"}, at : Nat]

ReadinessTypes ==
    /\ rows \in CatalogueRows /\ version \in Nat
    /\ view \in [Pages -> Nat \cup {Demo}]
    /\ first \in [Pages -> [pc : {"reads", "asks", "inserts", "rereads", "answered", "done"},
                            at : Nat]]
    /\ change \in [Changes -> AnEdit]
    /\ newest \in [Pages -> Nat \cup {Demo}] /\ lapsed \in [Pages -> BOOLEAN]
    /\ obs \in [Gates -> {"none", "pass", "fail", "inconclusive"}]

\* An edit that is sent is about an entry, and what was served is no newer than the catalogue.
EditsAreReal ==
    /\ \A k \in Changes : /\ change[k].pc = "sent" => change[k].entry \in Entries
                          /\ change[k].pc = "served" => change[k].at <= version
    /\ \A p \in Pages : newest[p] <= version

\* A page that does not show its newest answered edit is about to read one that includes it.
ReloadPending ==
    \A p \in Pages :
        \/ view[p] >= newest[p] \/ lapsed[p]
        \/ \E k \in Changes :
              /\ change[k].page = p
              /\ \/ change[k].pc = "reloads"
                 \/ change[k].pc = "read" /\ change[k].at >= newest[p]

ReadinessInv == ReadinessTypes /\ EditsAreReal /\ ReloadPending /\ GoIsEarned

LEMMA ReadinessInvInit == ReadinessInit => ReadinessInv
<1> SUFFICES ASSUME ReadinessInit PROVE ReadinessInv
  OBVIOUS
<1>1. NoChange \in AnEdit /\ NoChange.pc = "idle"
  BY ReadinessAssumption DEF NoChange, AnEdit
<1>2. change \in [Changes -> AnEdit] /\ \A k \in Changes : change[k].pc = "idle"
  BY <1>1 DEF ReadinessInit
<1>3. rows \in CatalogueRows /\ version \in Nat
  BY DEF ReadinessInit, CatalogueRows
<1>4. /\ view \in [Pages -> Nat \cup {Demo}] /\ newest \in [Pages -> Nat \cup {Demo}]
      /\ lapsed \in [Pages -> BOOLEAN]
      /\ first \in [Pages -> [pc : {"reads", "asks", "inserts", "rereads", "answered", "done"},
                              at : Nat]]
      /\ obs \in [Gates -> {"none", "pass", "fail", "inconclusive"}]
  BY DEF ReadinessInit, NoObservations
<1>5. ReadinessTypes
  BY <1>2, <1>3, <1>4 DEF ReadinessTypes
<1>6. EditsAreReal
  BY <1>2 DEF EditsAreReal, ReadinessInit, Demo
<1>7. ReloadPending
  BY DEF ReloadPending, ReadinessInit, Demo
<1>8. GoIsEarned
  BY DEF GoIsEarned, ReadinessInit
<1>9. QED BY <1>5, <1>6, <1>7, <1>8 DEF ReadinessInv

\* One edit moves on.
LEMMA EditMoves ==
    ASSUME ReadinessTypes, EditsAreReal, NEW k \in Changes, NEW r \in AnEdit,
           change' = [change EXCEPT ![k] = r], version' \in Nat, version <= version',
           r.pc = "sent" => r.entry \in Entries,
           r.pc = "served" => r.at <= version'
    PROVE  /\ change' \in [Changes -> AnEdit] /\ change'[k] = r
           /\ \A j \in Changes \ {k} : change'[j] = change[j]
           /\ \A j \in Changes : /\ change'[j].pc = "sent" => change'[j].entry \in Entries
                                 /\ change'[j].pc = "served" => change'[j].at <= version'
<1>1. /\ change' \in [Changes -> AnEdit] /\ change'[k] = r
      /\ \A j \in Changes \ {k} : change'[j] = change[j]
  BY DEF ReadinessTypes
<1>2. ASSUME NEW j \in Changes \ {k}
      PROVE  /\ change'[j].pc = "sent" => change'[j].entry \in Entries
             /\ change'[j].pc = "served" => change'[j].at <= version'
  <2>1. change'[j] = change[j] /\ change[j].at \in Nat /\ version \in Nat
    BY <1>1 DEF ReadinessTypes, AnEdit
  <2>2. QED BY <2>1 DEF EditsAreReal
<1>3. QED BY <1>1, <1>2

\* The pages that an edit does not concern.
LEMMA OtherPagesWait ==
    ASSUME ReloadPending, NEW k \in Changes, NEW p \in Pages, change[k].page # p,
           \A j \in Changes \ {k} : change'[j] = change[j],
           view'[p] = view[p], newest'[p] = newest[p], lapsed'[p] = lapsed[p]
    PROVE  \/ view'[p] >= newest'[p] \/ lapsed'[p]
           \/ \E j \in Changes :
                 /\ change'[j].page = p
                 /\ \/ change'[j].pc = "reloads"
                    \/ change'[j].pc = "read" /\ change'[j].at >= newest'[p]
BY DEF ReloadPending

\* Nothing the invariant speaks of but the rows and the version.
LEMMA PagesUntouched ==
    ASSUME ReadinessInv, rows' \in CatalogueRows, version' \in Nat, version <= version',
           first' \in [Pages -> [pc : {"reads", "asks", "inserts", "rereads", "answered", "done"},
                                 at : Nat]],
           UNCHANGED <<view, change, newest, lapsed, runVars>>
    PROVE  ReadinessInv'
<1>1. ReadinessTypes /\ EditsAreReal /\ ReloadPending /\ GoIsEarned
  BY DEF ReadinessInv
<1>2. ReadinessTypes' /\ ReloadPending' /\ GoIsEarned'
  BY <1>1 DEF ReadinessTypes, ReloadPending, GoIsEarned, runVars, NoObservations
<1>3. ASSUME NEW k \in Changes
      PROVE  /\ change[k].pc = "sent" => change[k].entry \in Entries
             /\ change[k].pc = "served" => change[k].at <= version'
  <2>1. change[k].at \in Nat /\ version \in Nat
    BY <1>1 DEF ReadinessTypes, AnEdit
  <2>2. QED BY <1>1, <2>1 DEF EditsAreReal
<1>4. ASSUME NEW p \in Pages
      PROVE  newest[p] <= version'
  <2>1. newest[p] \in Int /\ newest[p] <= version /\ version \in Nat
    BY <1>1 DEF ReadinessTypes, EditsAreReal, Demo
  <2>2. QED BY <2>1
<1>5. EditsAreReal'
  BY <1>3, <1>4 DEF EditsAreReal
<1>6. QED BY <1>2, <1>5 DEF ReadinessInv

LEMMA LoadStepKeeps == ReadinessInv /\ LoadStep => ReadinessInv'
<1> SUFFICES ASSUME ReadinessInv, NEW p \in Pages,
                    FirstRead(p) \/ SeedLooks(p) \/ SeedInserts(p) \/ FirstAnswered(p)
             PROVE  ReadinessInv'
  BY DEF LoadStep
<1> DEFINE Loading == [pc : {"reads", "asks", "inserts", "rereads", "answered", "done"}, at : Nat]
<1>1. /\ ReadinessTypes /\ EditsAreReal /\ ReloadPending /\ GoIsEarned /\ version \in Nat
      /\ first \in [Pages -> Loading] /\ first[p] \in Loading
      /\ rows \in CatalogueRows
  BY DEF ReadinessInv, ReadinessTypes
<1>2. CASE FirstRead(p) \/ SeedLooks(p)
  <2>1. first' \in [Pages -> Loading]
    BY <1>1, <1>2 DEF FirstRead, SeedLooks
  <2>2. UNCHANGED <<rows, version, view, change, newest, lapsed, runVars>>
    BY <1>2 DEF FirstRead, SeedLooks, catalogueVars
  <2>3. QED BY <1>1, <2>1, <2>2, PagesUntouched
<1>3. CASE SeedInserts(p)
  <2>1. first' \in [Pages -> Loading]
    BY <1>1, <1>3 DEF SeedInserts
  <2>2. rows' \in CatalogueRows
    <3>1. [e \in Entries |-> FALSE] \in CatalogueRows
      BY DEF CatalogueRows
    <3>2. rows' \in {rows, [e \in Entries |-> FALSE], NoRows}
      BY <1>3 DEF SeedInserts, Seeded
    <3>3. QED BY <1>1, <3>1, <3>2 DEF CatalogueRows
  <2>3. version' \in Nat /\ version <= version'
    BY <1>1, <1>3 DEF SeedInserts
  <2>4. UNCHANGED <<view, change, newest, lapsed, runVars>>
    BY <1>3 DEF SeedInserts
  <2>5. QED BY <2>1, <2>2, <2>3, <2>4, PagesUntouched
<1>4. CASE FirstAnswered(p)
  <2>1. /\ first' \in [Pages -> Loading]
        /\ UNCHANGED <<rows, version, change, newest>>
    BY <1>1, <1>4 DEF FirstAnswered, catalogueVars
  <2>2. PICK seen \in Nat \cup {Demo} : view' = [view EXCEPT ![p] = seen]
    BY <1>1, <1>4 DEF FirstAnswered
  <2>3. /\ view' \in [Pages -> Nat \cup {Demo}] /\ view'[p] = seen
        /\ \A q \in Pages \ {p} : view'[q] = view[q]
    BY <1>1, <2>2 DEF ReadinessTypes
  <2>4. /\ lapsed' \in [Pages -> BOOLEAN] /\ \A q \in Pages \ {p} : lapsed'[q] = lapsed[q]
        /\ lapsed'[p] = (lapsed[p] \/ view'[p] < view[p])
    BY <1>1, <1>4 DEF FirstAnswered, ReadinessTypes
  <2>5. /\ obs' \in [Gates -> {"none", "pass", "fail", "inconclusive"}]
        /\ GoIsEarned'
    BY <1>1, <1>4 DEF FirstAnswered, NewRun, NoObservations, ReadinessTypes, GoIsEarned
  <2>6. ReadinessTypes'
    BY <1>1, <2>1, <2>3, <2>4, <2>5 DEF ReadinessTypes
  <2>7. EditsAreReal'
    BY <1>1, <2>1 DEF EditsAreReal
  <2>8. ReloadPending'
    <3> SUFFICES ASSUME NEW q \in Pages
                 PROVE  \/ view'[q] >= newest'[q] \/ lapsed'[q]
                        \/ \E k \in Changes :
                              /\ change'[k].page = q
                              /\ \/ change'[k].pc = "reloads"
                                 \/ change'[k].pc = "read" /\ change'[k].at >= newest'[q]
      BY DEF ReloadPending
    <3>1. CASE q # p
      BY <1>1, <2>1, <2>3, <2>4, <3>1 DEF ReloadPending
    <3>2. CASE q = p
      <4>1. view[p] \in Int /\ newest[p] \in Int /\ view'[p] \in Int
        BY <1>1, <2>3 DEF ReadinessTypes, Demo
      <4>2. CASE view[p] >= newest[p]
        <5>1. view'[p] < view[p] \/ view'[p] >= newest[p]
          BY <4>1, <4>2
        <5>2. QED BY <2>1, <2>4, <3>2, <5>1
      <4>3. CASE ~(view[p] >= newest[p])
        BY <1>1, <2>1, <2>4, <3>2, <4>3 DEF ReloadPending
      <4>4. QED BY <4>2, <4>3
    <3>3. QED BY <3>1, <3>2
  <2>9. QED BY <2>5, <2>6, <2>7, <2>8 DEF ReadinessInv
<1>5. QED BY <1>2, <1>3, <1>4

\* A step of one edit that leaves what the pages show alone, and is of no page that waits.
LEMMA EditKeeps ==
    ASSUME ReadinessInv, NEW k \in Changes, NEW r \in AnEdit,
           change' = [change EXCEPT ![k] = r], rows' \in CatalogueRows,
           version' \in Nat, version <= version',
           r.pc = "sent" => r.entry \in Entries,
           r.pc = "served" => r.at <= version',
           change[k].pc \notin {"reloads", "read"},
           UNCHANGED <<view, first, newest, lapsed, runVars>>
    PROVE  ReadinessInv'
<1>1. ReadinessTypes /\ EditsAreReal /\ ReloadPending /\ GoIsEarned /\ version \in Nat
  BY DEF ReadinessInv, ReadinessTypes
<1>2. /\ change' \in [Changes -> AnEdit] /\ change'[k] = r
      /\ \A j \in Changes \ {k} : change'[j] = change[j]
      /\ \A j \in Changes : /\ change'[j].pc = "sent" => change'[j].entry \in Entries
                            /\ change'[j].pc = "served" => change'[j].at <= version'
  BY <1>1, EditMoves
<1>3. ReadinessTypes' /\ GoIsEarned'
  BY <1>1, <1>2 DEF ReadinessTypes, GoIsEarned, runVars, NoObservations
<1>4. ASSUME NEW p \in Pages
      PROVE  newest'[p] <= version'
  <2>1. newest[p] \in Int /\ newest[p] <= version /\ newest' = newest
    BY <1>1 DEF ReadinessTypes, EditsAreReal, Demo
  <2>2. QED BY <1>1, <2>1
<1>5. EditsAreReal'
  BY <1>2, <1>4 DEF EditsAreReal
<1>6. ReloadPending'
  BY <1>1, <1>2 DEF ReloadPending
<1>7. QED BY <1>3, <1>5, <1>6 DEF ReadinessInv

LEMMA SendOrServeKeeps ==
    ASSUME ReadinessInv, NEW k \in Changes,
           \/ \E p \in Pages, e \in Entries, v \in BOOLEAN : SendChange(p, k, e, v)
           \/ ServeChange(k) \/ ChangeLost(k)
    PROVE  ReadinessInv'
<1>1. /\ ReadinessTypes /\ EditsAreReal /\ version \in Nat /\ change[k] \in AnEdit
      /\ rows \in CatalogueRows
  BY DEF ReadinessInv, ReadinessTypes
<1>2. ASSUME NEW p \in Pages, NEW e \in Entries, NEW v \in BOOLEAN, SendChange(p, k, e, v)
      PROVE  ReadinessInv'
  <2> DEFINE r == [page |-> p, entry |-> e, value |-> v, pc |-> "sent", at |-> 0]
  <2>1. r \in AnEdit /\ r.entry \in Entries /\ r.pc = "sent"
    BY <1>2 DEF AnEdit
  <2>2. /\ change' = [change EXCEPT ![k] = r] /\ change[k].pc = "idle"
        /\ UNCHANGED <<rows, version, view, first, newest, lapsed, runVars>>
    BY <1>2 DEF SendChange, catalogueVars
  <2> HIDE DEF r
  <2>3. /\ rows' \in CatalogueRows /\ version' \in Nat /\ version <= version'
        /\ r.pc # "served" /\ change[k].pc \notin {"reloads", "read"}
    BY <1>1, <2>1, <2>2
  <2>4. QED BY <2>1, <2>2, <2>3, EditKeeps
<1>3. ASSUME ServeChange(k)
      PROVE  ReadinessInv'
  <2>1. /\ change[k].pc = "sent" /\ change[k].entry \in Entries /\ change[k].value \in BOOLEAN
    BY <1>1, <1>3 DEF ServeChange, EditsAreReal, AnEdit
  <2>2. rows' \in CatalogueRows /\ version' \in Nat /\ version <= version'
    <3>1. CASE rows = NoRows
      BY <1>1, <1>3, <3>1 DEF ServeChange, catalogueVars
    <3>2. CASE rows # NoRows
      <4>1. rows \in [Entries -> BOOLEAN]
        BY <1>1, <3>2 DEF CatalogueRows
      <4>2. rows' = [rows EXCEPT ![change[k].entry] = change[k].value] /\ version' = version + 1
        BY <1>3, <3>2 DEF ServeChange
      <4>3. rows' \in [Entries -> BOOLEAN]
        BY <2>1, <4>1, <4>2
      <4>4. QED BY <1>1, <4>2, <4>3 DEF CatalogueRows
    <3>3. QED BY <3>1, <3>2
  <2>3. PICK n \in Nat : n = version'
    BY <2>2
  <2> DEFINE r == [change[k] EXCEPT !.pc = "served", !.at = n]
  <2>4. r \in AnEdit /\ r.pc = "served" /\ r.at = n
    BY <1>1 DEF AnEdit
  <2>5. change' = [change EXCEPT ![k] = r]
    BY <1>1, <1>3, <2>3 DEF ServeChange, ReadinessTypes
  <2>6. UNCHANGED <<view, first, newest, lapsed, runVars>>
    BY <1>3 DEF ServeChange
  <2> HIDE DEF r
  <2>7. /\ r.pc # "sent" /\ (r.pc = "served" => r.at <= version')
        /\ change[k].pc \notin {"reloads", "read"}
    BY <2>1, <2>2, <2>3, <2>4
  <2>8. QED BY <2>2, <2>4, <2>5, <2>6, <2>7, EditKeeps
<1>4. ASSUME ChangeLost(k)
      PROVE  ReadinessInv'
  <2>1. Over \in AnEdit /\ Over.pc = "done"
    BY ReadinessAssumption DEF Over, NoChange, AnEdit
  <2>2. /\ change' = [change EXCEPT ![k] = Over] /\ change[k].pc \in {"sent", "served"}
        /\ UNCHANGED <<rows, version, view, first, newest, lapsed, runVars>>
    BY <1>4 DEF ChangeLost, catalogueVars
  <2>3. /\ rows' \in CatalogueRows /\ version' \in Nat /\ version <= version'
        /\ Over.pc # "served" /\ Over.pc # "sent" /\ change[k].pc \notin {"reloads", "read"}
    BY <1>1, <2>1, <2>2
  <2>4. QED BY <2>1, <2>2, <2>3, EditKeeps
<1>5. QED BY <1>2, <1>3, <1>4

\* What an edit under way does to its own page.
LEMMA AnswerKeeps ==
    ASSUME ReadinessInv, NEW k \in Changes, NEW r \in AnEdit,
           change' = [change EXCEPT ![k] = r], r.pc \in {"reloads", "read", "done"},
           r.page = change[k].page \/ r.pc = "done",
           view' \in [Pages -> Nat \cup {Demo}], newest' \in [Pages -> Nat \cup {Demo}],
           lapsed' \in [Pages -> BOOLEAN],
           \A p \in Pages : newest'[p] <= version,
           \A p \in Pages : p # change[k].page =>
               view'[p] = view[p] /\ newest'[p] = newest[p] /\ lapsed'[p] = lapsed[p],
           \/ view'[change[k].page] >= newest'[change[k].page]
           \/ lapsed'[change[k].page]
           \/ r.pc = "reloads"
           \/ r.pc = "read" /\ r.at >= newest'[change[k].page]
           \/ \E j \in Changes \ {k} :
                 /\ change[j].page = change[k].page
                 /\ \/ change[j].pc = "reloads"
                    \/ change[j].pc = "read" /\ change[j].at >= newest'[change[k].page],
           UNCHANGED <<rows, version, first, runVars>>
    PROVE  ReadinessInv'
<1>1. ReadinessTypes /\ EditsAreReal /\ ReloadPending /\ GoIsEarned /\ version \in Nat
  BY DEF ReadinessInv, ReadinessTypes
<1>2. /\ change' \in [Changes -> AnEdit] /\ change'[k] = r
      /\ \A j \in Changes \ {k} : change'[j] = change[j]
      /\ \A j \in Changes : /\ change'[j].pc = "sent" => change'[j].entry \in Entries
                            /\ change'[j].pc = "served" => change'[j].at <= version'
  <2>1. version' \in Nat /\ version <= version' /\ r.pc # "sent" /\ r.pc # "served"
    BY <1>1
  <2>2. QED BY <1>1, <2>1, EditMoves
<1>3. ReadinessTypes' /\ GoIsEarned'
  BY <1>1, <1>2 DEF ReadinessTypes, GoIsEarned, runVars, NoObservations
<1>4. EditsAreReal'
  BY <1>2 DEF EditsAreReal
<1>5. ReloadPending'
  <2> SUFFICES ASSUME NEW p \in Pages
               PROVE  \/ view'[p] >= newest'[p] \/ lapsed'[p]
                      \/ \E j \in Changes :
                            /\ change'[j].page = p
                            /\ \/ change'[j].pc = "reloads"
                               \/ change'[j].pc = "read" /\ change'[j].at >= newest'[p]
    BY DEF ReloadPending
  <2>1. CASE p # change[k].page
    BY <1>1, <1>2, <2>1, OtherPagesWait
  <2>2. CASE p = change[k].page
    BY <1>2, <2>2
  <2>3. QED BY <2>1, <2>2
<1>6. QED BY <1>3, <1>4, <1>5 DEF ReadinessInv

LEMMA AnsweredOrReadKeeps ==
    ASSUME ReadinessInv, NEW k \in Changes, ChangeAnswered(k) \/ ReloadReads(k)
    PROVE  ReadinessInv'
<1>1. /\ ReadinessTypes /\ EditsAreReal /\ version \in Nat /\ change[k] \in AnEdit
      /\ view \in [Pages -> Nat \cup {Demo}] /\ newest \in [Pages -> Nat \cup {Demo}]
      /\ lapsed \in [Pages -> BOOLEAN] /\ change[k].page \in Pages
      /\ \A p \in Pages : newest[p] <= version
  BY DEF ReadinessInv, ReadinessTypes, EditsAreReal, AnEdit
<1>2. ASSUME ChangeAnswered(k)
      PROVE  ReadinessInv'
  <2> DEFINE r == [change[k] EXCEPT !.pc = "reloads"]
  <2>1. r \in AnEdit /\ r.pc = "reloads" /\ r.page = change[k].page
    BY <1>1 DEF AnEdit
  <2>2. change' = [change EXCEPT ![k] = r]
    BY <1>1, <1>2 DEF ChangeAnswered, AfterAnswer, ReadinessTypes
  <2>3. PICK n : /\ newest' = [newest EXCEPT ![change[k].page] = n]
                 /\ n = newest[change[k].page] \/ n = change[k].at
    BY <1>1, <1>2 DEF ChangeAnswered
  <2>4. n \in Nat \cup {Demo} /\ n <= version
    BY <1>1, <1>2, <2>3 DEF ChangeAnswered, EditsAreReal, AnEdit
  <2>5. /\ newest' \in [Pages -> Nat \cup {Demo}]
        /\ \A p \in Pages : newest'[p] <= version
        /\ \A p \in Pages : p # change[k].page => newest'[p] = newest[p]
    BY <1>1, <2>3, <2>4
  <2>6. UNCHANGED <<rows, version, view, first, lapsed, runVars>>
    BY <1>2 DEF ChangeAnswered, catalogueVars
  <2> HIDE DEF r
  <2>7. QED BY <1>1, <2>1, <2>2, <2>5, <2>6, AnswerKeeps
<1>3. ASSUME ReloadReads(k)
      PROVE  ReadinessInv'
  <2> DEFINE r == [change[k] EXCEPT !.pc = "read", !.at = version]
  <2>1. r \in AnEdit /\ r.pc = "read" /\ r.page = change[k].page /\ r.at = version
    BY <1>1 DEF AnEdit
  <2>2. change' = [change EXCEPT ![k] = r]
    BY <1>1, <1>3 DEF ReloadReads, ReadinessTypes
  <2>3. UNCHANGED <<rows, version, view, first, newest, lapsed, runVars>>
    BY <1>3 DEF ReloadReads, catalogueVars
  <2>4. r.at >= newest[change[k].page]
    <3>1. newest[change[k].page] \in Int /\ newest[change[k].page] <= version
      BY <1>1 DEF Demo
    <3>2. QED BY <1>1, <2>1, <3>1
  <2> HIDE DEF r
  <2>5. QED BY <1>1, <2>1, <2>2, <2>3, <2>4, AnswerKeeps
<1>4. QED BY <1>2, <1>3

LEMMA ReloadEndsKeeps ==
    ASSUME ReadinessInv, NEW k \in Changes, ReloadAnswered(k) \/ ReloadFails(k)
    PROVE  ReadinessInv'
<1> DEFINE q == change[k].page
<1>1. /\ ReadinessTypes /\ EditsAreReal /\ ReloadPending /\ version \in Nat /\ change[k] \in AnEdit
      /\ view \in [Pages -> Nat \cup {Demo}] /\ newest \in [Pages -> Nat \cup {Demo}]
      /\ lapsed \in [Pages -> BOOLEAN] /\ q \in Pages
      /\ \A p \in Pages : newest[p] <= version
  BY DEF ReadinessInv, ReadinessTypes, EditsAreReal, AnEdit
<1>2. Over \in AnEdit /\ Over.pc = "done"
  BY ReadinessAssumption DEF Over, NoChange, AnEdit
<1>3. /\ change' = [change EXCEPT ![k] = Over]
      /\ UNCHANGED <<rows, version, first, newest, runVars>>
  BY DEF ReloadAnswered, ReloadFails, catalogueVars
<1>4. CASE ReloadAnswered(k)
  <2>1. /\ change[k].pc = "read" /\ change[k].at \in Nat
        /\ view' = [view EXCEPT ![q] = change[k].at]
        /\ lapsed' = [lapsed EXCEPT ![q] = @ \/ view'[q] < view[q]]
    BY <1>1, <1>4 DEF ReloadAnswered, AnEdit
  <2>2. /\ view' \in [Pages -> Nat \cup {Demo}] /\ view'[q] = change[k].at
        /\ \A p \in Pages : p # q => view'[p] = view[p]
    BY <1>1, <2>1
  <2>3. /\ lapsed' \in [Pages -> BOOLEAN] /\ lapsed'[q] = (lapsed[q] \/ view'[q] < view[q])
        /\ \A p \in Pages : p # q => lapsed'[p] = lapsed[p]
    BY <1>1, <2>1
  <2>4. view[q] \in Int /\ newest[q] \in Int /\ view'[q] \in Int
    BY <1>1, <2>1, <2>2 DEF Demo
  <2>5. \/ view'[q] >= newest[q] \/ lapsed'[q]
        \/ \E j \in Changes \ {k} :
              /\ change[j].page = q
              /\ change[j].pc = "reloads" \/ (change[j].pc = "read" /\ change[j].at >= newest[q])
    <3>1. CASE view[q] >= newest[q]
      <4>1. view'[q] < view[q] \/ view'[q] >= newest[q]
        BY <2>4, <3>1
      <4>2. QED BY <2>3, <4>1
    <3>2. CASE lapsed[q]
      BY <2>3, <3>2
    <3>3. CASE \E j \in Changes :
                  /\ change[j].page = q
                  /\ change[j].pc = "reloads" \/ (change[j].pc = "read" /\ change[j].at >= newest[q])
      <4>1. PICK j \in Changes :
                  /\ change[j].page = q
                  /\ change[j].pc = "reloads" \/ (change[j].pc = "read" /\ change[j].at >= newest[q])
        BY <3>3
      <4>2. CASE j = k
        BY <2>1, <2>2, <4>1, <4>2
      <4>3. CASE j # k
        BY <4>1, <4>3
      <4>4. QED BY <4>2, <4>3
    <3>4. QED BY <1>1, <3>1, <3>2, <3>3 DEF ReloadPending
  <2>6. QED BY <1>1, <1>2, <1>3, <2>2, <2>3, <2>5, AnswerKeeps
<1>5. CASE ReloadFails(k)
  <2>1. view' = view /\ lapsed' = [lapsed EXCEPT ![q] = TRUE]
    BY <1>5 DEF ReloadFails
  <2>2. /\ lapsed' \in [Pages -> BOOLEAN] /\ lapsed'[q]
        /\ \A p \in Pages : p # q => lapsed'[p] = lapsed[p]
    BY <1>1, <2>1
  <2>3. QED BY <1>1, <1>2, <1>3, <2>1, <2>2, AnswerKeeps
<1>6. QED BY <1>4, <1>5

LEMMA EditStepKeeps == ReadinessInv /\ EditStep => ReadinessInv'
BY SendOrServeKeeps, AnsweredOrReadKeeps, ReloadEndsKeeps DEF EditStep

\* As many checks observed as there are gates, every one of them a pass.
LEMMA EnabledIsEarned ==
    ASSUME obs \in [Gates -> {"none", "pass", "fail", "inconclusive"}], NEW seen \in Nat \cup {Demo},
           GoEnabled(obs, seen)
    PROVE  (\A g \in Gates : obs[g] = "pass") \/ obs = NoObservations
<1> DEFINE observed == {g \in Gates : obs[g] # "none"}
<1>1. /\ observed \in SUBSET Gates
      /\ Cardinality(observed) = IF seen = 0 THEN 0 ELSE Cardinality(Gates)
      /\ \A g \in observed : obs[g] = "pass"
  BY DEF GoEnabled
<1>2. IsFiniteSet(observed) /\ IsFiniteSet(Gates)
  BY <1>1, FS_Subset, ReadinessAssumption
<1>3. CASE seen = 0
  <2>1. observed = {}
    <3> HIDE DEF observed
    <3> QED BY <1>1, <1>2, <1>3, FS_EmptySet
  <2>2. QED BY <2>1 DEF NoObservations
<1>4. CASE seen # 0
  <2>1. observed = Gates
    <3> HIDE DEF observed
    <3>1. Cardinality(Gates) = Cardinality(observed)
      BY <1>1, <1>4
    <3>2. QED BY <1>1, <1>2, <3>1, FS_Subset
  <2>2. QED BY <1>1, <2>1
<1>5. QED BY <1>3, <1>4

LEMMA RunStepKeeps == ReadinessInv /\ RunStep => ReadinessInv'
<1> SUFFICES ASSUME ReadinessInv, RunStep
             PROVE  ReadinessInv'
  OBVIOUS
<1>1. /\ ReadinessTypes /\ EditsAreReal /\ ReloadPending /\ GoIsEarned
      /\ obs \in [Gates -> {"none", "pass", "fail", "inconclusive"}]
      /\ view[Tester] \in Nat \cup {Demo}
  BY ReadinessAssumption DEF ReadinessInv, ReadinessTypes
<1>2. UNCHANGED <<rows, version, view, first, change, newest, lapsed>>
  BY DEF RunStep, Render, ImportReport, ImportAnswered, ImportRefused, RecordObservation, Decide,
         catalogueVars, loadVars
<1>3. EditsAreReal' /\ ReloadPending'
  BY <1>1, <1>2 DEF EditsAreReal, ReloadPending
<1>4. ASSUME Render \/ ImportReport \/ ImportRefused
      PROVE  obs' = obs /\ GoIsEarned'
  BY <1>1, <1>4 DEF Render, ImportReport, ImportRefused, GoIsEarned, NoObservations
<1>5. ASSUME ImportAnswered
      PROVE  obs' \in [Gates -> {"none", "pass", "fail", "inconclusive"}] /\ GoIsEarned'
  BY <1>1, <1>5 DEF ImportAnswered, Reopened, GoIsEarned
<1>6. ASSUME NEW g \in Gates, NEW result \in {"pass", "fail"}, RecordObservation(g, result)
      PROVE  obs' \in [Gates -> {"none", "pass", "fail", "inconclusive"}] /\ GoIsEarned'
  BY <1>1, <1>6 DEF RecordObservation, GoIsEarned
<1>7. ASSUME NEW call \in {"go", "no-go"}, Decide(call)
      PROVE  obs' = obs /\ GoIsEarned'
  <2>1. /\ obs' = obs /\ decision' = call
        /\ hasty' <=> call = "go" /\ ~GoEnabled(obs, view[Tester])
    BY <1>7 DEF Decide
  <2>2. ASSUME call = "go", ~hasty'
        PROVE  (\A g \in Gates : obs[g] = "pass") \/ obs = NoObservations
    BY <1>1, <2>1, <2>2, EnabledIsEarned
  <2>3. QED BY <2>1, <2>2 DEF GoIsEarned, NoObservations
<1>8. obs' \in [Gates -> {"none", "pass", "fail", "inconclusive"}] /\ GoIsEarned'
  BY <1>1, <1>4, <1>5, <1>6, <1>7 DEF RunStep
<1>9. ReadinessTypes'
  BY <1>1, <1>2, <1>8 DEF ReadinessTypes
<1>10. QED BY <1>3, <1>8, <1>9 DEF ReadinessInv

LEMMA ReadinessInvHolds == ReadinessSpec => []ReadinessInv
<1>1. ReadinessInv /\ UNCHANGED readinessVars => ReadinessInv'
  BY DEF readinessVars, catalogueVars, loadVars, runVars, ReadinessInv, ReadinessTypes,
         EditsAreReal, ReloadPending, GoIsEarned, NoObservations
<1>2. ReadinessInv /\ [ReadinessNext]_readinessVars => ReadinessInv'
  BY <1>1, LoadStepKeeps, EditStepKeeps, RunStepKeeps DEF ReadinessNext
<1>3. QED BY <1>2, ReadinessInvInit, PTL DEF ReadinessSpec

\* Marks stand against a late seed, a page shows its own edits, and a GO has every pass.
THEOREM ReadinessIsEarnedHolds == ReadinessSpec => ReadinessIsEarned
<1> DEFINE Curated ==
        rows # NoRows =>
         \A e \in Entries : rows'[e] # rows[e] =>
             \E k \in Changes : /\ change[k].pc = "sent" /\ change[k].entry = e
                                /\ change[k].value = rows'[e]
<1>1. ReadinessInv => GoIsEarned /\ OwnChangeShown
  BY DEF ReadinessInv, ReloadPending, OwnChangeShown
<1>2. ReadinessInv /\ [ReadinessNext]_readinessVars => [Curated]_rows
  <2> SUFFICES ASSUME ReadinessInv, [ReadinessNext]_readinessVars, rows # NoRows, rows' # rows,
                      NEW e \in Entries, rows'[e] # rows[e]
               PROVE  \E k \in Changes : /\ change[k].pc = "sent" /\ change[k].entry = e
                                         /\ change[k].value = rows'[e]
    OBVIOUS
  <2>1. rows \in [Entries -> BOOLEAN]
    BY DEF ReadinessInv, ReadinessTypes, CatalogueRows
  <2>2. CASE \E k \in Changes : ServeChange(k)
    <3>1. PICK k \in Changes : ServeChange(k)
      BY <2>2
    <3>2. change[k].pc = "sent" /\ rows' = [rows EXCEPT ![change[k].entry] = change[k].value]
      BY <3>1 DEF ServeChange
    <3>3. QED BY <2>1, <3>2
  <2>3. CASE LoadStep
    BY <2>3 DEF LoadStep, FirstRead, SeedLooks, SeedInserts, FirstAnswered, Seeded, catalogueVars
  <2>4. CASE RunStep
    BY <2>4 DEF RunStep, Render, ImportReport, ImportAnswered, ImportRefused, RecordObservation,
                Decide, catalogueVars
  <2>5. CASE UNCHANGED readinessVars
    BY <2>5 DEF readinessVars, catalogueVars
  <2>6. CASE EditStep
    BY <2>2, <2>6 DEF EditStep, SendChange, ChangeAnswered, ChangeLost, ReloadReads,
                      ReloadAnswered, ReloadFails, catalogueVars
  <2>7. QED BY <2>3, <2>4, <2>5, <2>6 DEF ReadinessNext
<1>3. QED
  BY <1>1, <1>2, ReadinessInvHolds, PTL DEF ReadinessSpec, ReadinessIsEarned, CuratedStands
================================================================================
