----------------------------- MODULE Handset_proofs -----------------------------
(***************************************************************************)
(* Machine-checked proofs about the handset: LocationWatch, DeviceCredential, *)
(* SmsSegmenter and AppUpdates, for any number of handsets, incidents,      *)
(* attempts, credentials, timers, process deaths, builds and downloads, and *)
(* any length of a message.                                                 *)
(* Each has its own specification and a section of its own here.            *)
(***************************************************************************)
EXTENDS LocationWatch, CasIncident_proofs, DeviceCredential, SmsSegmenter, AppUpdates,
        FiniteSetTheorems

--------------------------------------------------------------------------------
(* SmsSegmenter: the segments are the body.                                  *)

\* The end of the last finished segment, and a place where the body may be divided.
LastEnd == IF ends = <<>> THEN 0 ELSE ends[Len(ends)]
MayCut(i) == i \in 1..(Len(body) - 1) /\ body[i] = "high" => body[i + 1] # "low"

SegmentTypes ==
    /\ body \in Seq(Kinds) /\ Len(body) > 0
    /\ encoding = Classify(body)
    /\ index \in 0..Len(body)
    /\ ends \in Seq(1..Len(body))
    /\ size \in Nat /\ planned \in BOOLEAN

\* What is finished is within its limit, and ends where the body may be divided.
FinishedFit ==
    \A k \in 1..Len(ends) :
        /\ StartOf(k) <= ends[k] /\ MayCut(ends[k])
        /\ \/ SizeBetween(StartOf(k), ends[k]) <= Concat
           \/ Len(ends) = 1 /\ planned /\ SizeBetween(1, ends[1]) <= Single

\* The segment under way holds what was taken since the last one ended, and `size` is its size.
UnderWayFits ==
    IF planned THEN ends # <<>> /\ LastEnd = Len(body)
    ELSE /\ LastEnd <= index /\ (LastEnd = index => index = 0)
         /\ size = SizeBetween(LastEnd + 1, index) /\ size <= Concat
         /\ MayCut(index)

SegmentInv == SegmentTypes /\ FinishedFit /\ UnderWayFits

\* SizeBetween is a number, nothing is nothing, and one more unit counts as its cost.
LEMMA SizeOfRange ==
    ASSUME SegmentTypes, NEW from \in Nat \ {0}, NEW to \in 0..Len(body), from <= to + 1
    PROVE  /\ IsFiniteSet(Escapes(from, to))
           /\ SizeBetween(from, to) \in Nat
           /\ SizeBetween(from, to) >= to - from + 1
           /\ from = to + 1 => SizeBetween(from, to) = 0
<1>1. IsFiniteSet(from..to) /\ Escapes(from, to) \in SUBSET (from..to)
  <2>1. from \in Int /\ to \in Int
    BY DEF SegmentTypes
  <2>2. Escapes(from, to) \in SUBSET (from..to)
    BY DEF Escapes
  <2>3. QED BY <2>1, <2>2, FS_Interval
<1>2. IsFiniteSet(Escapes(from, to)) /\ Cardinality(Escapes(from, to)) \in Nat
  BY <1>1, FS_Subset, FS_CardinalityType
<1>3. ASSUME from = to + 1
      PROVE  Cardinality(Escapes(from, to)) = 0
  <2>1. Escapes(from, to) = {}
    BY <1>1, <1>3 DEF SegmentTypes
  <2>2. QED BY <2>1, FS_EmptySet
<1>4. from \in Nat /\ to \in Nat
  BY DEF SegmentTypes
<1>5. QED BY <1>2, <1>3, <1>4 DEF SizeBetween

LEMMA SizeOfOneMore ==
    ASSUME SegmentTypes, NEW from \in Nat \ {0}, NEW to \in 0..(Len(body) - 1), from <= to + 1
    PROVE  SizeBetween(from, to + 1) = SizeBetween(from, to)
               + IF encoding = "GSM7" THEN Cost(body[to + 1]) ELSE 1
<1>1. /\ from \in Nat /\ to \in Nat /\ to + 1 \in 1..Len(body) /\ to \in 0..Len(body)
  BY DEF SegmentTypes
<1>2. IsFiniteSet(Escapes(from, to)) /\ Cardinality(Escapes(from, to)) \in Nat
  BY <1>1, SizeOfRange, FS_CardinalityType
<1>3. CASE encoding = "GSM7" /\ body[to + 1] = "extended"
  <2>1. Escapes(from, to + 1) = Escapes(from, to) \cup {to + 1}
    BY <1>1, <1>3 DEF Escapes
  <2>2. to + 1 \notin Escapes(from, to)
    BY <1>1, <1>3 DEF Escapes
  <2>3. Cardinality(Escapes(from, to + 1)) = Cardinality(Escapes(from, to)) + 1
    BY <1>2, <2>1, <2>2, FS_AddElement
  <2>4. QED BY <1>1, <1>2, <1>3, <2>3 DEF SizeBetween, Cost
<1>4. CASE ~(encoding = "GSM7" /\ body[to + 1] = "extended")
  <2>1. Escapes(from, to + 1) = Escapes(from, to)
    <3>1. CASE encoding = "GSM7"
      BY <1>1, <1>4, <3>1 DEF Escapes
    <3>2. CASE encoding # "GSM7"
      BY <3>2 DEF Escapes
    <3>3. QED BY <3>1, <3>2
  <2>2. QED BY <1>1, <1>2, <1>4, <2>1 DEF SizeBetween, Cost
<1>5. QED BY <1>3, <1>4

\* gsm7Septets(body) is the size of the whole.
LEMMA SizeOfBody == ASSUME SegmentTypes PROVE BodySize = SizeBetween(1, Len(body))
<1>1. Len(body) \in Nat
  BY DEF SegmentTypes
<1>2. {i \in 1..Len(body) : Cost(body[i]) = 2} = {i \in 1..Len(body) : body[i] = "extended"}
  BY DEF Cost
<1>3. CASE encoding = "GSM7"
  <2>1. Escapes(1, Len(body)) = {i \in 1..Len(body) : Cost(body[i]) = 2}
    BY <1>2, <1>3 DEF Escapes
  <2>2. IsFiniteSet(Escapes(1, Len(body)))
    BY <1>1, SizeOfRange DEF SegmentTypes
  <2>3. Cardinality(Escapes(1, Len(body))) \in Nat
    BY <2>2, FS_CardinalityType
  <2>4. BodySize = Len(body) + Cardinality(Escapes(1, Len(body)))
    BY <1>3, <2>1 DEF BodySize
  <2>5. QED BY <1>1, <2>3, <2>4 DEF SizeBetween
<1>4. CASE encoding # "GSM7"
  BY <1>1, <1>4, FS_EmptySet DEF BodySize, SizeBetween, Escapes
<1>5. QED BY <1>3, <1>4

\* What a step of the loop takes: its size is counted right, it fits a segment of its own,
\* and after it the body may be divided.
LEMMA OneTaken ==
    ASSUME SegmentTypes, index < Len(body)
    PROVE  LET next == index + UnitLength(index + 1)
               s == SizeAt(index + 1)
           IN /\ next \in 1..Len(body) /\ index < next /\ MayCut(next)
              /\ s \in {1, 2}
              /\ \A from \in Nat \ {0} : from <= index + 1 =>
                     SizeBetween(from, next) = SizeBetween(from, index) + s
<1>1. /\ index \in 0..(Len(body) - 1) /\ Len(body) \in Nat /\ index \in Nat
      /\ \A i \in 1..Len(body) : body[i] \in Kinds
  BY DEF SegmentTypes
<1>2. CASE encoding = "GSM7"
  <2>1. UnitLength(index + 1) = 1 /\ SizeAt(index + 1) = Cost(body[index + 1])
    BY <1>2 DEF UnitLength, SizeAt
  <2>2. MayCut(index + 1)
    <3>1. \A i \in 1..Len(body) : body[i] # "high"
      BY <1>2 DEF SegmentTypes, Classify, Gsm7Kinds
    <3>2. QED BY <1>1, <3>1 DEF MayCut
  <2>3. ASSUME NEW from \in Nat \ {0}, from <= index + 1
        PROVE  SizeBetween(from, index + 1) = SizeBetween(from, index) + Cost(body[index + 1])
    BY <1>1, <1>2, <2>3, SizeOfOneMore
  <2>4. Cost(body[index + 1]) \in {1, 2}
    BY DEF Cost
  <2>5. QED BY <1>1, <2>1, <2>2, <2>3, <2>4
<1>3. CASE encoding # "GSM7" /\ ~PairAt(index + 1)
  <2>1. UnitLength(index + 1) = 1 /\ SizeAt(index + 1) = 1
    BY <1>3 DEF UnitLength, SizeAt
  <2>2. MayCut(index + 1)
    BY <1>1, <1>3 DEF MayCut, PairAt
  <2>3. ASSUME NEW from \in Nat \ {0}, from <= index + 1
        PROVE  SizeBetween(from, index + 1) = SizeBetween(from, index) + 1
    BY <1>1, <1>3, <2>3, SizeOfOneMore
  <2>4. QED BY <1>1, <2>1, <2>2, <2>3
<1>4. CASE encoding # "GSM7" /\ PairAt(index + 1)
  <2>1. UnitLength(index + 1) = 2 /\ SizeAt(index + 1) = 2
    BY <1>4 DEF UnitLength, SizeAt, SegmentTypes, Classify
  <2>2. /\ index + 2 \in 1..Len(body) /\ MayCut(index + 2)
    BY <1>1, <1>4 DEF MayCut, PairAt
  <2>3. ASSUME NEW from \in Nat \ {0}, from <= index + 1
        PROVE  SizeBetween(from, index + 2) = SizeBetween(from, index) + 2
    <3>1. index + 1 \in 0..(Len(body) - 1) /\ (index + 1) + 1 = index + 2 /\ from <= (index + 1) + 1
      BY <1>1, <2>2, <2>3
    <3>2. SizeBetween(from, index + 1) = SizeBetween(from, index) + 1
      BY <1>1, <1>4, <2>3, SizeOfOneMore
    <3>3. SizeBetween(from, index + 2) = SizeBetween(from, index + 1) + 1
      BY <1>4, <3>1, SizeOfOneMore
    <3>4. SizeBetween(from, index) \in Nat
      BY <1>1, <2>3, SizeOfRange
    <3>5. QED BY <3>2, <3>3, <3>4
  <2>4. QED BY <1>1, <2>1, <2>2, <2>3
<1>5. QED BY <1>2, <1>3, <1>4

LEMMA SegmentInvInit == SegmentInit => SegmentInv
<1> SUFFICES ASSUME SegmentInit PROVE SegmentInv
  OBVIOUS
<1>1. PICK n \in 1..MaxLength : body \in [1..n -> Kinds]
  BY DEF SegmentInit
<1>2. n \in Nat /\ n > 0
  BY <1>1, SegmenterAssumption
<1>3. body \in Seq(Kinds) /\ Len(body) = n
  BY <1>1, <1>2
<1>4. SegmentTypes
  <2>1. index = 0 /\ ends = <<>> /\ size = 0 /\ planned = FALSE /\ encoding = Classify(body)
    BY DEF SegmentInit
  <2>2. ends \in Seq(1..Len(body))
    BY <2>1
  <2>3. index \in 0..Len(body)
    BY <1>2, <1>3, <2>1
  <2>4. QED BY <1>2, <1>3, <2>1, <2>2, <2>3 DEF SegmentTypes
<1>5. SizeBetween(1, 0) = 0
  BY <1>4, SizeOfRange DEF SegmentInit, SegmentTypes
<1>6. FinishedFit
  BY DEF SegmentInit, FinishedFit
<1>7. LastEnd = 0
  BY DEF SegmentInit, LastEnd
<1>8. UnderWayFits
  BY <1>5, <1>7, SegmenterAssumption DEF SegmentInit, UnderWayFits, MayCut, Concat
<1>9. QED BY <1>4, <1>6, <1>8 DEF SegmentInv

\* Ending a segment at e, where e is beyond the last end and fits the concatenated limit.
LEMMA OneMoreEnd ==
    ASSUME SegmentInv, ~planned, UNCHANGED <<body, encoding>>,
           NEW e \in 1..Len(body), LastEnd < e, MayCut(e),
           SizeBetween(LastEnd + 1, e) <= Concat,
           ends' = Append(ends, e)
    PROVE  /\ ends' \in Seq(1..Len(body)) /\ ends' # <<>> /\ LastEnd' = e
           /\ FinishedFit'
<1>1. PICK n \in Nat : n = Len(ends)
  BY DEF SegmentInv, SegmentTypes
<1>2. /\ ends \in Seq(1..Len(body)) /\ Len(ends') = n + 1 /\ ends'[n + 1] = e
      /\ \A k \in 1..n : ends'[k] = ends[k]
      /\ ends' \in Seq(1..Len(body)) /\ ends' # <<>>
  BY <1>1 DEF SegmentInv, SegmentTypes
<1>3. LastEnd' = e /\ LastEnd \in Nat
  BY <1>1, <1>2 DEF LastEnd
<1>4. ASSUME NEW a, NEW b
      PROVE  /\ SizeBetween(a, b)' = SizeBetween(a, b) /\ MayCut(a)' = MayCut(a)
             /\ Concat' = Concat
  BY DEF SizeBetween, Escapes, MayCut, Concat
<1>5. ASSUME NEW k \in 1..n
      PROVE  (/\ StartOf(k) <= ends[k] /\ MayCut(ends[k])
              /\ SizeBetween(StartOf(k), ends[k]) <= Concat)'
  <2>1. PICK a, b : a = StartOf(k) /\ b = ends[k]
    OBVIOUS
  <2>2. StartOf(k)' = a /\ ends'[k] = b
    BY <1>1, <1>2, <2>1 DEF StartOf
  <2>3. a <= b /\ MayCut(b) /\ SizeBetween(a, b) <= Concat
    BY <1>1, <2>1 DEF SegmentInv, FinishedFit
  <2>4. MayCut(ends[k])'
    BY <1>4, <2>2, <2>3 DEF MayCut
  <2>5. (SizeBetween(StartOf(k), ends[k]) <= Concat)'
    BY <1>4, <2>2, <2>3 DEF SizeBetween, Escapes, Concat
  <2>6. QED BY <2>2, <2>3, <2>4, <2>5
<1>6. (/\ StartOf(n + 1) <= ends[n + 1] /\ MayCut(ends[n + 1])
       /\ SizeBetween(StartOf(n + 1), ends[n + 1]) <= Concat)'
  <2>1. PICK a \in Nat : a = LastEnd + 1
    BY <1>3
  <2>2. StartOf(n + 1)' = a
    <3>1. CASE n = 0
      BY <1>1, <1>2, <2>1, <3>1 DEF StartOf, LastEnd
    <3>2. CASE n # 0
      BY <1>1, <1>2, <2>1, <3>2 DEF StartOf, LastEnd
    <3>3. QED BY <3>1, <3>2
  <2>3. a <= e /\ SizeBetween(a, e) <= Concat
    BY <1>3, <2>1
  <2>4. MayCut(ends[n + 1])'
    BY <1>2, <1>4 DEF MayCut
  <2>5. (SizeBetween(StartOf(n + 1), ends[n + 1]) <= Concat)'
    BY <1>2, <1>4, <2>2, <2>3 DEF SizeBetween, Escapes, Concat
  <2>6. QED BY <1>2, <2>2, <2>3, <2>4, <2>5
<1>7. FinishedFit'
  <2>1. \A k \in 1..(n + 1) : k \in 1..n \/ k = n + 1
    BY <1>1
  <2>2. \A k \in 1..(n + 1) :
           (/\ StartOf(k) <= ends[k] /\ MayCut(ends[k])
            /\ SizeBetween(StartOf(k), ends[k]) <= Concat)'
    BY <1>5, <1>6, <2>1
  <2>3. QED BY <1>2, <2>2 DEF FinishedFit
<1>8. QED BY <1>2, <1>3, <1>7

LEMMA SegmentInvNext == SegmentInv /\ [SegmentNext]_segmentVars => SegmentInv'
<1> SUFFICES ASSUME SegmentInv, [SegmentNext]_segmentVars
             PROVE  SegmentInv'
  OBVIOUS
<1>1. /\ SegmentTypes /\ FinishedFit /\ UnderWayFits
      /\ Len(body) \in Nat /\ index \in Nat /\ size \in Nat
  BY DEF SegmentInv, SegmentTypes
<1>2. /\ Concat \in Nat /\ Single \in Nat /\ 2 <= Concat /\ Concat <= Single
  BY SegmenterAssumption DEF Concat, Single
<1>3. LastEnd \in 0..Len(body)
  BY <1>1 DEF LastEnd, SegmentTypes
<1>4. CASE PlanWhole
  <2>1. ~planned /\ index = 0 /\ BodySize <= Single /\ ends' = <<Len(body)>>
    BY <1>4 DEF PlanWhole
  <2>2. SizeBetween(1, Len(body)) <= Single /\ SizeBetween(1, Len(body)) \in Nat
    BY <1>1, <2>1, SizeOfBody, SizeOfRange DEF SegmentTypes
  <2>3. SegmentTypes'
    <3>1. ends' \in Seq(1..Len(body))
      BY <2>1 DEF SegmentInv, SegmentTypes
    <3>2. size' \in Nat
      BY <1>1, <1>4, <2>2, SizeOfBody DEF PlanWhole
    <3>3. index' \in 0..Len(body)' /\ Len(body)' > 0 /\ planned' \in BOOLEAN
      BY <1>1, <1>4 DEF PlanWhole, SegmentTypes
    <3>4. body' = body /\ encoding' = encoding
      BY <1>4 DEF PlanWhole
    <3>5. QED BY <1>1, <3>1, <3>2, <3>3, <3>4 DEF SegmentTypes, Classify
  <2>4. Len(ends') = 1 /\ ends'[1] = Len(body) /\ ends' # <<>> /\ planned' /\ body' = body
        /\ encoding' = encoding
    BY <1>4 DEF PlanWhole
  <2>5. UnderWayFits'
    BY <2>4 DEF UnderWayFits, LastEnd
  <2>6. (/\ StartOf(1) <= ends[1] /\ MayCut(ends[1])
         /\ Len(ends) = 1 /\ planned /\ SizeBetween(1, ends[1]) <= Single)'
    <3>1. StartOf(1)' = 1 /\ 1 <= Len(body)
      BY <1>1 DEF StartOf, SegmentTypes
    <3>2. MayCut(ends[1])'
      BY <1>1, <2>4 DEF MayCut
    <3>3. (SizeBetween(1, ends[1]) <= Single)'
      BY <2>2, <2>4 DEF SizeBetween, Escapes, Single
    <3>4. QED BY <2>4, <3>1, <3>2, <3>3
  <2>7. FinishedFit'
    BY <2>4, <2>6 DEF FinishedFit
  <2>8. QED BY <2>3, <2>5, <2>7 DEF SegmentInv
<1>5. CASE Take
  <2> DEFINE next == index + UnitLength(index + 1)
             s == SizeAt(index + 1)
  <2>1. ~planned /\ index < Len(body)
    BY <1>5 DEF Take
  <2>2. /\ next \in 1..Len(body) /\ index < next /\ MayCut(next) /\ s \in {1, 2}
        /\ \A from \in Nat \ {0} : from <= index + 1 =>
               SizeBetween(from, next) = SizeBetween(from, index) + s
    BY <1>1, <2>1, OneTaken
  <2>3. /\ index' = next /\ body' = body /\ encoding' = encoding /\ planned' = planned
        /\ IF size + s > Concat THEN ends' = Append(ends, index) /\ size' = s
           ELSE ends' = ends /\ size' = size + s
    BY <1>5 DEF Take
  <2> HIDE DEF next, s
  <2>4. /\ LastEnd <= index /\ (LastEnd = index => index = 0)
        /\ size = SizeBetween(LastEnd + 1, index) /\ size <= Concat /\ MayCut(index)
    BY <1>1, <2>1 DEF UnderWayFits
  <2>5. SizeBetween(LastEnd + 1, next) = size + s
    BY <1>1, <1>3, <2>2, <2>4
  <2>6. MayCut(index)'
    BY <2>2, <2>3 DEF MayCut
  <2>7. CASE size + s <= Concat
    <3>1. ends' = ends /\ size' = size + s
      BY <1>1, <1>2, <2>2, <2>3, <2>7
    <3>2. SegmentTypes'
      BY <1>1, <2>2, <2>3, <3>1 DEF SegmentTypes, Classify
    <3>3. FinishedFit'
      <4>1. \A k \in 1..Len(ends) :
               /\ StartOf(k) <= ends[k] /\ MayCut(ends[k])
               /\ SizeBetween(StartOf(k), ends[k]) <= Concat
        BY <1>1, <2>1 DEF FinishedFit
      <4>2. QED BY <2>3, <3>1, <4>1 DEF FinishedFit, StartOf, MayCut, SizeBetween, Escapes, Concat
    <3>4. UnderWayFits'
      <4>1. LastEnd' = LastEnd
        BY <3>1 DEF LastEnd
      <4>2. SizeBetween(LastEnd + 1, index)' = size + s
        BY <2>3, <2>5, <4>1 DEF SizeBetween, Escapes
      <4>3. Concat' = Concat /\ MayCut(index)'
        BY <2>3, <2>6 DEF Concat
      <4>4. (LastEnd <= index /\ (LastEnd = index => index = 0))'
        BY <1>1, <1>3, <2>2, <2>3, <2>4, <4>1
      <4>5. QED BY <2>1, <2>3, <2>7, <3>1, <4>2, <4>3, <4>4 DEF UnderWayFits
    <3>5. QED BY <3>2, <3>3, <3>4 DEF SegmentInv
  <2>8. CASE size + s > Concat
    <3>1. ends' = Append(ends, index) /\ size' = s
      BY <2>3, <2>8
    <3>2. LastEnd < index
      <4>1. size > 0
        BY <1>1, <1>2, <2>2, <2>8
      <4>2. LastEnd = index => size = 0
        BY <1>1, <1>3, <2>4, SizeOfRange
      <4>3. QED BY <1>1, <1>3, <2>4, <4>1, <4>2
    <3>3. index \in 1..Len(body)
      BY <1>1, <1>3, <2>1, <3>2
    <3>4. /\ ends' \in Seq(1..Len(body)) /\ LastEnd' = index /\ FinishedFit'
      BY <2>1, <2>3, <2>4, <3>1, <3>2, <3>3, OneMoreEnd
    <3>5. SegmentTypes'
      BY <1>1, <2>2, <2>3, <3>1, <3>4 DEF SegmentTypes, Classify
    <3>6. UnderWayFits'
      <4>1. SizeBetween(index + 1, next) = s
        <5>1. SizeBetween(index + 1, index) = 0
          BY <1>1, <3>3, SizeOfRange
        <5>2. QED BY <1>1, <2>2, <5>1
      <4>2. SizeBetween(LastEnd + 1, index)' = s
        BY <2>3, <3>4, <4>1 DEF SizeBetween, Escapes
      <4>3. Concat' = Concat /\ MayCut(index)' /\ s <= Concat
        BY <1>2, <2>2, <2>3, <2>6 DEF Concat
      <4>4. (LastEnd <= index /\ (LastEnd = index => index = 0))'
        BY <1>1, <2>2, <2>3, <3>4
      <4>5. QED BY <2>1, <2>3, <3>1, <4>2, <4>3, <4>4 DEF UnderWayFits
    <3>7. QED BY <3>4, <3>5, <3>6 DEF SegmentInv
  <2>9. size + s <= Concat \/ size + s > Concat
    BY <1>1, <1>2, <2>2
  <2>10. QED BY <2>7, <2>8, <2>9
<1>6. CASE Close
  <2>1. /\ ~planned /\ index = Len(body) /\ ends' = Append(ends, index) /\ planned'
        /\ body' = body /\ encoding' = encoding /\ index' = index /\ size' = size
    BY <1>6 DEF Close
  <2>2. index \in 1..Len(body)
    BY <1>1, <2>1 DEF SegmentTypes
  <2>3. /\ LastEnd < index /\ MayCut(index) /\ SizeBetween(LastEnd + 1, index) <= Concat
    BY <1>1, <1>3, <2>1, <2>2 DEF UnderWayFits
  <2>4. /\ ends' \in Seq(1..Len(body)) /\ ends' # <<>> /\ LastEnd' = index /\ FinishedFit'
    BY <2>1, <2>2, <2>3, OneMoreEnd
  <2>5. SegmentTypes'
    BY <1>1, <2>1, <2>4 DEF SegmentTypes, Classify
  <2>6. UnderWayFits'
    BY <2>1, <2>4 DEF UnderWayFits
  <2>7. QED BY <2>4, <2>5, <2>6 DEF SegmentInv
<1>7. CASE UNCHANGED segmentVars
  BY <1>1, <1>7 DEF segmentVars, SegmentInv, SegmentTypes, Classify, FinishedFit, UnderWayFits,
                    LastEnd, MayCut, StartOf, SizeBetween, Escapes, Concat, Single
<1>8. QED BY <1>4, <1>5, <1>6, <1>7 DEF SegmentNext

\* SmsSegmenter.plan: every body, however long, is cut into segments that are the body, in
\* order and whole, each within the radio's limit, and no surrogate pair is torn.
THEOREM SegmentsAreTheBodyHolds == SegmentSpec => []SegmentsAreTheBody
<1>1. SegmentInv => SegmentsAreTheBody
  <2> SUFFICES ASSUME SegmentInv, planned PROVE SegmentsAreTheBody
    BY DEF SegmentsAreTheBody, EverySegmentFits, NothingLostOrTorn
  <2>1. PICK n \in Nat : n = Len(ends)
    BY DEF SegmentInv, SegmentTypes
  <2>2. /\ n > 0 /\ ends[n] = Len(body) /\ Len(body) \in Nat
        /\ \A k \in 1..n : ends[k] \in 1..Len(body)
    BY <2>1 DEF SegmentInv, SegmentTypes, UnderWayFits, LastEnd
  <2>3. /\ Concat \in Nat /\ Single \in Nat /\ Concat <= Single
    BY SegmenterAssumption DEF Concat, Single
  <2>4. \A k \in 1..n :
           /\ StartOf(k) <= ends[k] /\ MayCut(ends[k])
           /\ \/ SizeBetween(StartOf(k), ends[k]) <= Concat
              \/ n = 1 /\ SizeBetween(1, ends[1]) <= Single
    BY <2>1 DEF SegmentInv, FinishedFit
  <2>5. ASSUME NEW k \in 1..n
        PROVE  /\ StartOf(k) <= ends[k]
               /\ SizeBetween(StartOf(k), ends[k]) <= IF n = 1 THEN Single ELSE Concat
    <3>1. StartOf(k) \in Nat \ {0} /\ StartOf(k) <= ends[k] /\ ends[k] \in 0..Len(body)
      BY <2>1, <2>2, <2>4, <2>5 DEF StartOf
    <3>2. SizeBetween(StartOf(k), ends[k]) \in Nat
      <4>1. StartOf(k) <= ends[k] + 1
        BY <2>2, <3>1
      <4>2. QED BY <3>1, <4>1, SizeOfRange DEF SegmentInv
    <3>3. CASE n = 1
      <4>1. k = 1 /\ StartOf(k) = 1
        BY <3>3, <2>5 DEF StartOf
      <4>2. SizeBetween(StartOf(k), ends[k]) <= Concat \/ SizeBetween(StartOf(k), ends[k]) <= Single
        BY <2>4, <2>5, <4>1
      <4>3. QED BY <2>3, <3>1, <3>2, <3>3, <4>2
    <3>4. CASE n # 1
      BY <2>4, <2>5, <3>1, <3>4
    <3>5. QED BY <3>3, <3>4
  <2>6. EverySegmentFits
    BY <2>1, <2>5 DEF EverySegmentFits
  <2>7. ASSUME NEW k \in 1..(n - 1), body[ends[k]] = "high"
        PROVE  body[ends[k] + 1] # "low"
    <3>1. k \in 1..n /\ k + 1 \in 1..n /\ StartOf(k + 1) = ends[k] + 1
      BY <2>7 DEF StartOf
    <3>2. ends[k] \in 1..(Len(body) - 1)
      BY <2>2, <2>4, <3>1
    <3>3. QED BY <2>4, <2>7, <3>1, <3>2 DEF MayCut
  <2>8. NothingLostOrTorn
    BY <2>1, <2>2, <2>7 DEF NothingLostOrTorn
  <2>9. QED BY <2>6, <2>8 DEF SegmentsAreTheBody
<1>2. QED BY <1>1, SegmentInvInit, SegmentInvNext, PTL DEF SegmentSpec

--------------------------------------------------------------------------------
(* DeviceCredential: an enrolment was asked for, and a good credential stays. *)

AttemptPc == {"unused", "ensure", "enrol", "enrolled", "stored", "post", "answered", "over"}
AnAttempt == [pc : AttemptPc, enrolment : BOOLEAN, token : Nat, at : Nat,
              answer : {0, 200, 401, 409}]

CredTypes ==
    /\ CredTypeOK
    /\ revokedD \subseteq Nat
    /\ activity \in Nat
    /\ alertToken \in BOOLEAN /\ field \in BOOLEAN /\ sending \in BOOLEAN
    /\ trusted \in BOOLEAN /\ displaced \in BOOLEAN /\ unanswered \in BOOLEAN
    /\ leftOver \in BOOLEAN
    /\ flushed \in [deviceToken : Nat, alertToken : BOOLEAN]
    /\ attempt \in [Attempts -> AnAttempt]
    /\ DOMAIN poster = Posters

\* What a thread holds: a credential that was issued, and a 401 only for one that is revoked;
\* and whose enrolment request the server has yet to handle waits for it or has given up.
ThreadsAreSound ==
    \A a \in Attempts :
        /\ attempt[a].pc \in {"enrolled", "stored", "post", "answered"} => attempt[a].token \in 1..issued
        /\ attempt[a].pc \in {"enrol", "enrolled", "stored"} => attempt[a].enrolment
        /\ attempt[a].pc = "answered" /\ attempt[a].answer = 401 => attempt[a].token \in revokedD
        /\ a \in requests => attempt[a].pc \in {"enrol", "over"}

\* While nothing the property leaves out has happened, one attempt runs at most, for the
\* activity on screen, and what holds the enrolment credential has it from somebody who typed
\* it in since the last enrolment: the field, the storage, and the attempt itself until it has
\* enrolled, from when on the storage and the field only wait to be cleared.
OneHolder ==
    Excused \/
        /\ \A a \in Attempts : Running(a) =>
               sending /\ attempt[a].at = activity /\ \A b \in Attempts : Running(b) => b = a
        /\ alertToken => trusted \/ \E a \in Attempts : attempt[a].pc = "stored"
        /\ \A a \in Attempts :
               attempt[a].pc \in {"ensure", "enrol", "enrolled"} /\ attempt[a].enrolment => trusted
        /\ field => \/ trusted
                    \/ \E a \in Attempts :
                           attempt[a].pc \in {"stored", "post", "answered"} /\ attempt[a].enrolment

CredInv == CredTypes /\ ThreadsAreSound /\ OneHolder

\* No step takes a credential back.
IssuedGrows == issued' \in Nat /\ issued <= issued' /\ issued' <= MaxCredentials

LEMMA CredInvInit == CredInit => CredInv
<1> SUFFICES ASSUME CredInit PROVE CredInv
  OBVIOUS
<1>1. NoAttempt \in AnAttempt /\ NoAttempt.pc = "unused"
  BY DEF NoAttempt, AnAttempt, AttemptPc, NoCred
<1>2. CredTypes
  <2>1. CredTypeOK
    BY CredentialAssumption DEF CredInit, CredTypeOK, NoCred
  <2>2. attempt \in [Attempts -> AnAttempt]
    BY <1>1 DEF CredInit
  <2>3. revokedD \subseteq Nat /\ activity \in Nat /\ DOMAIN poster = Posters
        /\ flushed \in [deviceToken : Nat, alertToken : BOOLEAN]
    BY DEF CredInit, NoCred
  <2>4. QED BY <2>1, <2>2, <2>3 DEF CredInit, CredTypes
<1>3. \A a \in Attempts : attempt[a].pc = "unused"
  BY <1>1 DEF CredInit
<1>4. ThreadsAreSound
  BY <1>3 DEF ThreadsAreSound, CredInit
<1>5. OneHolder
  BY <1>3 DEF OneHolder, Running, CredInit
<1>6. QED BY <1>2, <1>4, <1>5 DEF CredInv

\* One thread moves on; what it holds is sound, and nothing it rests on was taken back.
LEMMA ThreadMoves ==
    ASSUME CredTypes, ThreadsAreSound, NEW a \in Attempts, NEW r \in AnAttempt,
           attempt' = [attempt EXCEPT ![a] = r],
           IssuedGrows, revokedD' = revokedD, requests' \subseteq requests \cup {a},
           r.pc \in {"enrolled", "stored", "post", "answered"} => r.token \in 1..issued',
           r.pc \in {"enrol", "enrolled", "stored"} => r.enrolment,
           r.pc = "answered" /\ r.answer = 401 => r.token \in revokedD,
           a \in requests' => r.pc \in {"enrol", "over"}
    PROVE  /\ attempt' \in [Attempts -> AnAttempt] /\ ThreadsAreSound'
           /\ attempt'[a] = r /\ \A b \in Attempts \ {a} : attempt'[b] = attempt[b]
<1>1. /\ attempt' \in [Attempts -> AnAttempt] /\ attempt'[a] = r
      /\ \A b \in Attempts \ {a} : attempt'[b] = attempt[b]
  BY DEF CredTypes
<1>2. \A n \in 1..issued : n \in 1..issued'
  BY DEF CredTypes, CredTypeOK, IssuedGrows
<1>3. ASSUME NEW b \in Attempts
      PROVE  /\ attempt'[b].pc \in {"enrolled", "stored", "post", "answered"}
                    => attempt'[b].token \in 1..issued'
             /\ attempt'[b].pc \in {"enrol", "enrolled", "stored"} => attempt'[b].enrolment
             /\ attempt'[b].pc = "answered" /\ attempt'[b].answer = 401
                    => attempt'[b].token \in revokedD'
             /\ b \in requests' => attempt'[b].pc \in {"enrol", "over"}
  <2>1. CASE b = a
    BY <1>1, <2>1
  <2>2. CASE b # a
    BY <1>1, <1>2, <2>2 DEF ThreadsAreSound
  <2>3. QED BY <2>1, <2>2
<1>4. ThreadsAreSound'
  BY <1>3 DEF ThreadsAreSound
<1>5. QED BY <1>1, <1>4

\* The types of everything but the threads, after a step of one.
LEMMA CredTypesKept ==
    ASSUME CredTypes, attempt' \in [Attempts -> AnAttempt], poster' = poster,
           issued' \in 0..MaxCredentials, issued <= issued', revokedD' = revokedD,
           requests' \subseteq Attempts, flushed' = flushed,
           deviceToken' \in 0..issued', activity' = activity,
           alertToken' \in BOOLEAN, field' \in BOOLEAN, sending' \in BOOLEAN,
           trusted' \in BOOLEAN, displaced' \in BOOLEAN, unanswered' \in BOOLEAN,
           leftOver' \in BOOLEAN
    PROVE  CredTypes'
<1>1. \A n \in 0..issued : n \in 0..issued'
  BY DEF CredTypes, CredTypeOK
<1>2. \A n \in 1..issued : n \in 1..issued'
  BY DEF CredTypes, CredTypeOK
<1>3. CredTypeOK'
  BY <1>1, <1>2 DEF CredTypes, CredTypeOK
<1>4. QED BY <1>3 DEF CredTypes

\* The one attempt that runs may end: nobody runs then, and the field is empty or trusted.
LEMMA EndedIsClean ==
    ASSUME CredInv, NEW a \in Attempts, NEW cleared \in BOOLEAN, Running(a),
           EndAttempt(a, cleared),
           attempt[a].pc # "stored",
           attempt[a].pc \in {"post", "answered"} /\ attempt[a].enrolment => cleared,
           UNCHANGED <<alertToken, activity, historyVars>>
    PROVE  OneHolder'
<1>1. attempt' = [attempt EXCEPT ![a] = [attempt[a] EXCEPT !.pc = "over"]]
  BY DEF EndAttempt, Set
<1>2. /\ attempt'[a].pc = "over" /\ \A b \in Attempts \ {a} : attempt'[b] = attempt[b]
  BY <1>1 DEF CredInv, CredTypes, AnAttempt
<1>3. CASE Excused
  BY <1>3 DEF OneHolder, Excused, historyVars
<1>4. CASE ~Excused
  <2>1. /\ sending /\ attempt[a].at = activity
        /\ \A b \in Attempts : Running(b) => b = a
        /\ alertToken => trusted \/ \E b \in Attempts : attempt[b].pc = "stored"
        /\ field => \/ trusted
                    \/ \E b \in Attempts :
                           attempt[b].pc \in {"stored", "post", "answered"} /\ attempt[b].enrolment
    BY <1>4 DEF CredInv, OneHolder
  <2>5. alertToken => trusted
    BY <2>1 DEF Running
  <2>2. \A b \in Attempts : attempt'[b].pc \in {"unused", "over"}
    BY <1>2, <2>1 DEF Running
  <2>3. field' => trusted
    <3>1. field' = IF cleared THEN FALSE ELSE field
      BY <2>1 DEF EndAttempt
    <3>2. \A b \in Attempts : attempt[b].pc \in {"stored", "post", "answered"} => b = a
      BY <2>1 DEF Running
    <3>3. QED BY <2>1, <3>1, <3>2 DEF historyVars
  <2>4. QED BY <2>2, <2>3, <2>5 DEF OneHolder, Running, historyVars
<1>5. QED BY <1>3, <1>4

LEMMA EndedIsSound ==
    ASSUME CredTypes, ThreadsAreSound, NEW a \in Attempts, NEW cleared \in BOOLEAN,
           EndAttempt(a, cleared),
           IssuedGrows, revokedD' = revokedD, requests' = requests
    PROVE  /\ attempt' \in [Attempts -> AnAttempt] /\ ThreadsAreSound'
           /\ sending' \in BOOLEAN /\ field' \in BOOLEAN
<1> DEFINE r == [attempt[a] EXCEPT !.pc = "over"]
<1>1. attempt[a] \in AnAttempt
  BY DEF CredTypes
<1>2. r \in AnAttempt /\ r.pc = "over"
  BY <1>1 DEF AnAttempt, AttemptPc
<1>3. attempt' = [attempt EXCEPT ![a] = r]
  BY DEF EndAttempt, Set
<1>4. sending' \in BOOLEAN /\ field' \in BOOLEAN
  BY DEF EndAttempt, CredTypes
<1> HIDE DEF r
<1>5. attempt' \in [Attempts -> AnAttempt] /\ ThreadsAreSound'
  BY <1>2, <1>3, ThreadMoves
<1>6. QED BY <1>4, <1>5

LEMMA CredInvNext == CredInv /\ [CredNext]_credVars => CredInv'
<1> SUFFICES ASSUME CredInv, [CredNext]_credVars
             PROVE  CredInv'
  OBVIOUS
<1>1. CredTypes /\ ThreadsAreSound /\ OneHolder /\ MaxCredentials \in Nat /\ issued \in Nat
      /\ issued <= MaxCredentials
  BY CredentialAssumption DEF CredInv, CredTypes, CredTypeOK
<1>0. issued' = issued => IssuedGrows
  BY <1>1 DEF IssuedGrows
<1>2. ASSUME TypeIn
      PROVE  CredInv'
  <2>1. /\ field' = TRUE /\ trusted' = TRUE
        /\ UNCHANGED <<issueVars, storeVars, flushed, activity, sending, attempt, poster, displaced,
                       unanswered, leftOver>>
    BY <1>2 DEF TypeIn
  <2>2. CredTypes'
    BY <1>1, <2>1 DEF CredTypes, CredTypeOK, issueVars, storeVars
  <2>3. ThreadsAreSound'
    BY <1>1, <2>1 DEF ThreadsAreSound, issueVars
  <2>4. OneHolder'
    BY <1>1, <2>1 DEF OneHolder, Running, Excused, storeVars
  <2>5. QED BY <2>2, <2>3, <2>4 DEF CredInv
<1>14. ASSUME SaveField \/ TapRefused
       PROVE  CredInv'
  <2>1. /\ alertToken' = field
        /\ trusted' = (trusted \/ field) \/ (~sending /\ trusted' = trusted)
        /\ UNCHANGED <<issueVars, deviceToken, flushed, formVars, attempt, poster, displaced,
                       unanswered, leftOver>>
    BY <1>14 DEF SaveField, TapRefused, historyVars
  <2>6. trusted' \in BOOLEAN /\ (trusted => trusted')
    BY <1>1, <1>14 DEF SaveField, TapRefused, historyVars, CredTypes
  <2>2. CredTypes'
    BY <1>1, <2>1, <2>6 DEF CredTypes, CredTypeOK, issueVars, formVars
  <2>3. ThreadsAreSound'
    BY <1>1, <2>1 DEF ThreadsAreSound, issueVars
  <2>4. OneHolder'
    <3>1. CASE Excused
      BY <2>1, <3>1 DEF OneHolder, Excused
    <3>2. CASE ~Excused
      <4>1. field => trusted'
        <5>1. CASE SaveField
          BY <5>1 DEF SaveField
        <5>2. CASE TapRefused
          <6>1. \A a \in Attempts : ~Running(a)
            BY <1>1, <3>2, <5>2 DEF TapRefused, OneHolder
          <6>2. QED BY <1>1, <2>6, <3>2, <6>1 DEF OneHolder, Running
        <5>3. QED BY <1>14, <5>1, <5>2
      <4>2. QED BY <1>1, <2>1, <2>6, <3>2, <4>1 DEF OneHolder, Running, formVars
    <3>3. QED BY <3>1, <3>2
  <2>5. QED BY <2>2, <2>3, <2>4 DEF CredInv
<1>15. ASSUME ClearJournal
       PROVE  CredInv'
  <2>1. /\ deviceToken' = NoCred /\ alertToken' = FALSE
        /\ flushed' = [deviceToken |-> NoCred, alertToken |-> FALSE]
        /\ UNCHANGED <<issueVars, formVars, attempt, poster, historyVars>>
    BY <1>15 DEF ClearJournal
  <2>2. CredTypes'
    <3>1. /\ flushed' \in [deviceToken : Nat, alertToken : BOOLEAN]
          /\ flushed'.deviceToken = 0 /\ deviceToken' = 0 /\ alertToken' \in BOOLEAN
      BY <2>1 DEF NoCred
    <3>2. CredTypeOK'
      BY <1>1, <2>1, <3>1 DEF CredTypes, CredTypeOK, issueVars
    <3>3. QED BY <1>1, <2>1, <3>1, <3>2 DEF CredTypes, issueVars, formVars, historyVars
  <2>3. ThreadsAreSound'
    BY <1>1, <2>1 DEF ThreadsAreSound, issueVars
  <2>4. OneHolder'
    BY <1>1, <2>1 DEF OneHolder, Running, Excused, formVars, historyVars
  <2>5. QED BY <2>2, <2>3, <2>4 DEF CredInv
<1>16. ASSUME Persist
       PROVE  CredInv'
  <2>1. /\ flushed' = [deviceToken |-> deviceToken, alertToken |-> alertToken]
        /\ UNCHANGED <<issueVars, storeVars, formVars, attempt, poster, historyVars>>
    BY <1>16 DEF Persist
  <2>2. CredTypes'
    BY <1>1, <2>1 DEF CredTypes, CredTypeOK, issueVars, storeVars, formVars, historyVars
  <2>3. ThreadsAreSound'
    BY <1>1, <2>1 DEF ThreadsAreSound, issueVars
  <2>4. OneHolder'
    BY <1>1, <2>1 DEF OneHolder, Running, Excused, storeVars, formVars, historyVars
  <2>5. QED BY <2>2, <2>3, <2>4 DEF CredInv
<1>3. ASSUME Recreate
      PROVE  CredInv'
  <2>0. /\ activity' = activity + 1 /\ field' = alertToken /\ sending' = FALSE
        /\ displaced' = (displaced \/ \E a \in Attempts : Running(a))
        /\ UNCHANGED <<issueVars, storeVars, flushed, attempt, poster, trusted, unanswered, leftOver>>
    BY <1>3 DEF Recreate, NewActivity
  <2>1. CredTypes'
    <3>1. activity' \in Nat /\ field' \in BOOLEAN /\ displaced' \in BOOLEAN
      BY <1>1, <2>0 DEF CredTypes
    <3>2. QED BY <1>1, <2>0, <3>1 DEF CredTypes, CredTypeOK, issueVars, storeVars
  <2>2. ThreadsAreSound'
    BY <1>1, <2>0 DEF issueVars, ThreadsAreSound
  <2>3. OneHolder'
    <3>1. CASE Excused'
      BY <3>1 DEF OneHolder
    <3>2. CASE ~Excused'
      <4>1. ~Excused /\ \A a \in Attempts : ~Running(a)
        BY <1>1, <2>0, <3>2 DEF Excused, CredTypes
      <4>2. \A a \in Attempts : attempt'[a].pc \in {"unused", "over"}
        BY <2>0, <4>1 DEF Running
      <4>3. (alertToken' => trusted') /\ (field' => trusted')
        BY <1>1, <2>0, <4>1 DEF OneHolder, storeVars, Running
      <4>4. QED BY <4>2, <4>3 DEF OneHolder, Running
    <3>3. QED BY <3>1, <3>2
  <2>4. QED BY <2>1, <2>2, <2>3 DEF CredInv
<1>17. ASSUME Die
       PROVE  CredInv'
  <2>0. /\ activity' = activity + 1 /\ field' = flushed.alertToken /\ sending' = FALSE
        /\ deviceToken' = flushed.deviceToken /\ alertToken' = flushed.alertToken
        /\ poster' = [p \in Posters |-> NoCred]
        /\ leftOver' = (leftOver \/ (flushed.alertToken /\ ~trusted))
        /\ UNCHANGED <<issueVars, flushed, trusted, displaced, unanswered>>
    BY <1>17 DEF Die, NewActivity
  <2>1. attempt' = [a \in Attempts |->
                       IF Running(a) THEN [attempt[a] EXCEPT !.pc = "over"] ELSE attempt[a]]
    BY <1>17 DEF Die
  <2>2. ASSUME NEW a \in Attempts
        PROVE  /\ attempt'[a] \in AnAttempt /\ attempt'[a].pc \in {"unused", "over"}
               /\ attempt[a].pc = "over" => attempt'[a].pc = "over"
               /\ attempt[a].pc = "enrol" => attempt'[a].pc = "over"
    <3>1. attempt[a] \in AnAttempt
      BY <1>1 DEF CredTypes
    <3>2. CASE Running(a)
      <4> DEFINE r == [attempt[a] EXCEPT !.pc = "over"]
      <4>1. r \in AnAttempt /\ r.pc = "over"
        BY <3>1 DEF AnAttempt, AttemptPc
      <4>2. attempt'[a] = r
        BY <2>1, <3>2
      <4>3. QED BY <4>1, <4>2
    <3>3. CASE ~Running(a)
      BY <2>1, <3>1, <3>3 DEF Running
    <3>4. QED BY <3>2, <3>3
  <2>3. CredTypes'
    <3>1. activity' \in Nat /\ field' \in BOOLEAN /\ alertToken' \in BOOLEAN
          /\ leftOver' \in BOOLEAN
      BY <1>1, <2>0 DEF CredTypes
    <3>2. attempt' \in [Attempts -> AnAttempt]
      BY <2>1, <2>2
    <3>3. DOMAIN poster' = Posters /\ \A p \in Posters : poster'[p] \in 0..issued'
      BY <1>1, <2>0 DEF NoCred, issueVars
    <3>4. CredTypeOK'
      BY <1>1, <2>0, <3>3 DEF CredTypes, CredTypeOK, issueVars
    <3>5. QED BY <1>1, <2>0, <3>1, <3>2, <3>3, <3>4 DEF CredTypes, issueVars
  <2>4. ThreadsAreSound'
    <3>1. ASSUME NEW a \in Attempts, a \in requests
          PROVE  attempt'[a].pc = "over"
      BY <1>1, <2>2, <3>1 DEF ThreadsAreSound
    <3>2. QED BY <2>0, <2>2, <3>1 DEF ThreadsAreSound, issueVars
  <2>5. OneHolder'
    <3>1. CASE Excused'
      BY <3>1 DEF OneHolder
    <3>2. CASE ~Excused'
      <4>1. flushed.alertToken => trusted'
        BY <2>0, <3>2 DEF Excused
      <4>2. QED BY <2>0, <2>2, <4>1 DEF OneHolder, Running
    <3>3. QED BY <3>1, <3>2
  <2>6. QED BY <2>3, <2>4, <2>5 DEF CredInv
<1>4. ASSUME NEW c \in Credentials, RevokeCredential(c)
      PROVE  CredInv'
  <2>1. c \in 1..issued
    BY <1>1, <1>4 DEF RevokeCredential, Credentials
  <2>2. /\ revokedD' = revokedD \cup {c}
        /\ UNCHANGED <<issued, requests, storeVars, flushed, formVars, attempt, poster, historyVars>>
    BY <1>4 DEF RevokeCredential
  <2>3. CredTypes'
    BY <1>1, <2>1, <2>2 DEF storeVars, formVars, historyVars, CredTypes, CredTypeOK
  <2>4. ThreadsAreSound'
    BY <1>1, <2>2 DEF ThreadsAreSound
  <2>5. OneHolder'
    BY <1>1, <2>2 DEF storeVars, formVars, historyVars, OneHolder, Excused, Running
  <2>6. QED BY <2>3, <2>4, <2>5 DEF CredInv

<1>5. ASSUME NEW a \in Attempts, TapSend(a)
      PROVE  CredInv'
  <2>1. ~sending /\ alertToken' = field
    BY <1>5 DEF TapSend
  <2>2. PICK r \in AnAttempt :
           /\ attempt' = [attempt EXCEPT ![a] = r] /\ r.pc \in {"ensure", "over"}
           /\ r.enrolment => field
           /\ r.pc = "ensure" => sending' /\ r.at = activity
    <3>1. CASE field \/ deviceToken # NoCred
      <4> DEFINE r == [NoAttempt EXCEPT !.pc = "ensure", !.enrolment = field, !.at = activity]
      <4>1. r \in AnAttempt /\ r.pc = "ensure" /\ r.enrolment = field /\ r.at = activity
        BY <1>1 DEF CredTypes, NoAttempt, AnAttempt, AttemptPc, NoCred
      <4>2. attempt' = [attempt EXCEPT ![a] = r] /\ sending'
        BY <1>5, <3>1 DEF TapSend, Set
      <4>3. QED BY <4>1, <4>2
    <3>2. CASE ~(field \/ deviceToken # NoCred)
      <4> DEFINE r == [NoAttempt EXCEPT !.pc = "over"]
      <4>1. r \in AnAttempt /\ r.pc = "over" /\ ~r.enrolment
        BY DEF NoAttempt, AnAttempt, AttemptPc, NoCred
      <4>2. attempt' = [attempt EXCEPT ![a] = r]
        BY <1>5, <3>2 DEF TapSend, Set
      <4>3. QED BY <4>1, <4>2
    <3>3. QED BY <3>1, <3>2
  <2>3. /\ attempt' \in [Attempts -> AnAttempt] /\ ThreadsAreSound'
        /\ attempt'[a] = r /\ \A b \in Attempts \ {a} : attempt'[b] = attempt[b]
    <3>1. issued' = issued /\ revokedD' = revokedD /\ requests' = requests
      BY <1>5 DEF TapSend, issueVars
    <3>2. r.pc \notin {"enrol", "enrolled", "stored", "post", "answered"} /\ a \notin requests
      BY <1>1, <1>5, <2>2 DEF TapSend, ThreadsAreSound
    <3>3. QED BY <1>0, <1>1, <2>2, <3>1, <3>2, ThreadMoves
  <2>4. CredTypes'
    <3>1. sending' \in BOOLEAN /\ alertToken' \in BOOLEAN
      BY <1>1, <1>5 DEF TapSend, CredTypes
    <3>2. UNCHANGED <<issueVars, deviceToken, flushed, field, activity, poster, historyVars>>
      BY <1>5 DEF TapSend
    <3>3. QED
      BY <1>1, <2>3, <3>1, <3>2, CredTypesKept DEF issueVars, historyVars, CredTypes, CredTypeOK
  <2>5. OneHolder'
    <3>1. CASE Excused
      BY <1>5, <3>1 DEF OneHolder, Excused, TapSend, historyVars
    <3>2. CASE ~Excused
      <4>1. /\ \A b \in Attempts : ~Running(b)
            /\ field => trusted
        BY <1>1, <2>1, <3>2 DEF OneHolder, Running
      <4>2. \A b \in Attempts : attempt'[b].pc \notin {"unused", "over"} =>
               b = a /\ attempt'[b] = r /\ r.pc = "ensure"
        BY <2>2, <2>3, <4>1 DEF Running
      <4>3. trusted' = trusted /\ activity' = activity /\ field' = field
        BY <1>5 DEF TapSend, historyVars
      <4>4. \A b \in Attempts : Running(b)' =>
               sending' /\ attempt'[b].at = activity' /\ \A c \in Attempts : Running(c)' => c = b
        BY <2>2, <4>2, <4>3 DEF Running
      <4>5. \A b \in Attempts :
               attempt'[b].pc \in {"ensure", "enrol", "enrolled"} /\ attempt'[b].enrolment
                   => trusted'
        BY <2>2, <4>1, <4>2, <4>3
      <4>6. QED BY <2>1, <4>1, <4>3, <4>4, <4>5 DEF OneHolder
    <3>3. QED BY <3>1, <3>2
  <2>6. QED BY <2>3, <2>4, <2>5 DEF CredInv
<1>6. ASSUME NEW a \in Attempts, Ensure(a)
      PROVE  CredInv'
  <2>1. attempt[a] \in AnAttempt /\ attempt[a].pc = "ensure" /\ Running(a)
    BY <1>1, <1>6 DEF Ensure, CredTypes, Running
  <2>0. /\ UNCHANGED <<issued, revokedD, storeVars, flushed, activity, poster, historyVars>>
        /\ requests' \in {requests, requests \cup {a}}
    BY <1>6 DEF Ensure
  <2>2. CASE ~EndAttempt(a, FALSE)
    <3>1. PICK r \in AnAttempt :
             /\ attempt' = [attempt EXCEPT ![a] = r] /\ r.at = attempt[a].at
             /\ \/ r.pc = "post" /\ r.token \in 1..issued /\ ~r.enrolment /\ requests' = requests
                \/ r.pc = "enrol" /\ r.enrolment /\ attempt[a].enrolment
      <4>1. CASE deviceToken # NoCred
        <5> DEFINE r == [attempt[a] EXCEPT !.pc = "post", !.token = deviceToken, !.enrolment = FALSE]
        <5>1. deviceToken \in 1..issued /\ deviceToken \in Nat
          BY <1>1, <4>1 DEF CredTypes, CredTypeOK, NoCred
        <5>2. r \in AnAttempt /\ r.at = attempt[a].at /\ r.pc = "post" /\ r.token = deviceToken
              /\ ~r.enrolment
          BY <2>1, <5>1 DEF AnAttempt, AttemptPc
        <5>3. attempt' = [attempt EXCEPT ![a] = r] /\ requests' = requests
          BY <1>6, <2>2, <4>1 DEF Ensure, Set
        <5>4. QED BY <5>1, <5>2, <5>3
      <4>2. CASE deviceToken = NoCred
        <5> DEFINE r == [attempt[a] EXCEPT !.pc = "enrol"]
        <5>1. attempt[a].enrolment
          BY <1>6, <2>2, <4>2 DEF Ensure
        <5>2. r \in AnAttempt /\ r.at = attempt[a].at /\ r.pc = "enrol"
              /\ r.enrolment = attempt[a].enrolment
          BY <2>1 DEF AnAttempt, AttemptPc
        <5>3. attempt' = [attempt EXCEPT ![a] = r]
          BY <1>6, <2>2, <4>2 DEF Ensure, Set
        <5>4. QED BY <5>1, <5>2, <5>3
      <4>3. QED BY <4>1, <4>2
    <3>2. UNCHANGED <<sending, field>>
      BY <1>6, <2>2 DEF Ensure
    <3>3. /\ attempt' \in [Attempts -> AnAttempt] /\ ThreadsAreSound'
          /\ attempt'[a] = r /\ \A b \in Attempts \ {a} : attempt'[b] = attempt[b]
      <4>1. /\ r.pc \in {"enrolled", "stored", "post", "answered"} => r.token \in 1..issued
            /\ r.pc \in {"enrol", "enrolled", "stored"} => r.enrolment
            /\ r.pc # "answered" /\ attempt' = [attempt EXCEPT ![a] = r]
        BY <3>1
      <4>2. issued' = issued /\ revokedD' = revokedD /\ requests' \subseteq requests \cup {a}
        BY <2>0
      <4>3. a \in requests' => r.pc \in {"enrol", "over"}
        BY <1>1, <2>1, <3>1 DEF ThreadsAreSound
      <4>4. QED BY <1>0, <1>1, <4>1, <4>2, <4>3, ThreadMoves
    <3>4. CredTypes'
      BY <1>1, <2>0, <3>2, <3>3, CredTypesKept DEF storeVars, historyVars, CredTypes, CredTypeOK
    <3>5. OneHolder'
      <4>1. CASE Excused
        BY <2>0, <4>1 DEF OneHolder, Excused, historyVars
      <4>2. CASE ~Excused
        <5>1. /\ sending /\ attempt[a].at = activity
              /\ \A b \in Attempts : Running(b) => b = a
              /\ attempt[a].enrolment => trusted
          BY <1>1, <2>1, <4>2 DEF OneHolder, Running
        <5>6. (alertToken => trusted) /\ (field => trusted)
          BY <1>1, <2>1, <4>2, <5>1 DEF OneHolder, Running
        <5>2. \A b \in Attempts : Running(b)' => b = a
          BY <3>3, <5>1 DEF Running
        <5>3. \A b \in Attempts : Running(b)' =>
                 sending' /\ attempt'[b].at = activity' /\ \A c \in Attempts : Running(c)' => c = b
          BY <2>0, <3>1, <3>2, <3>3, <5>1, <5>2
        <5>4. \A b \in Attempts :
                 attempt'[b].pc \in {"ensure", "enrol", "enrolled"} /\ attempt'[b].enrolment
                     => trusted'
          <6> SUFFICES ASSUME NEW b \in Attempts, attempt'[b].pc \in {"ensure", "enrol", "enrolled"},
                              attempt'[b].enrolment
                       PROVE  trusted'
            OBVIOUS
          <6>1. b = a
            BY <5>2 DEF Running
          <6>2. QED BY <2>0, <3>1, <3>3, <5>1, <6>1 DEF historyVars
        <5>5. QED BY <2>0, <3>2, <5>3, <5>4, <5>6 DEF OneHolder, storeVars, historyVars
      <4>3. QED BY <4>1, <4>2
    <3>6. QED BY <3>3, <3>4, <3>5 DEF CredInv
  <2>3. CASE EndAttempt(a, FALSE)
    <3>0. requests' = requests
      <4>1. attempt'[a].pc = "over"
        BY <1>1, <2>1, <2>3 DEF EndAttempt, Set, CredTypes, AnAttempt
      <4>2. ~Set(a, [attempt[a] EXCEPT !.pc = "enrol"])
        BY <1>1, <2>1, <4>1 DEF Set, CredTypes, AnAttempt
      <4>3. QED BY <1>6, <4>2 DEF Ensure
    <3>1. /\ attempt' \in [Attempts -> AnAttempt] /\ ThreadsAreSound'
          /\ sending' \in BOOLEAN /\ field' \in BOOLEAN
      BY <1>0, <1>1, <2>0, <2>3, <3>0, EndedIsSound
    <3>2. CredTypes'
      BY <1>1, <2>0, <3>0, <3>1, CredTypesKept DEF storeVars, historyVars, CredTypes, CredTypeOK
    <3>3. OneHolder'
      BY <2>0, <2>1, <2>3, EndedIsClean DEF storeVars
    <3>4. QED BY <3>1, <3>2, <3>3 DEF CredInv
  <2>4. QED BY <2>2, <2>3
<1>7. ASSUME NEW a \in Attempts, Enrol(a)
      PROVE  CredInv'
  <2>1. /\ a \in requests /\ requests' = requests \ {a}
        /\ issued < MaxCredentials /\ issued' = issued + 1
        /\ UNCHANGED <<revokedD, storeVars, flushed, formVars, poster, historyVars>>
    BY <1>7 DEF Enrol
  <2>2. IssuedGrows /\ issued' \in 0..MaxCredentials /\ requests' \subseteq Attempts
    BY <1>1, <2>1 DEF IssuedGrows, CredTypes, CredTypeOK
  <2>0. deviceToken' \in 0..issued'
    BY <1>1, <2>1, <2>2 DEF IssuedGrows, storeVars, CredTypes, CredTypeOK
  <2>3. CASE UNCHANGED attempt
    <3>1. CredTypes'
      BY <1>1, <2>0, <2>1, <2>2, <2>3, CredTypesKept
         DEF IssuedGrows, storeVars, formVars, historyVars, CredTypes
    <3>2. ThreadsAreSound'
      BY <1>1, <2>1, <2>2, <2>3 DEF ThreadsAreSound, IssuedGrows
    <3>3. OneHolder'
      BY <1>1, <2>1, <2>3 DEF OneHolder, Excused, Running, storeVars, formVars, historyVars
    <3>4. QED BY <3>1, <3>2, <3>3 DEF CredInv
  <2>4. CASE attempt[a].pc = "enrol"
             /\ Set(a, [attempt[a] EXCEPT !.pc = "enrolled", !.token = issued + 1])
    <3> DEFINE r == [attempt[a] EXCEPT !.pc = "enrolled", !.token = issued + 1]
    <3>1. /\ r \in AnAttempt /\ r.at = attempt[a].at /\ r.pc = "enrolled" /\ r.enrolment
          /\ r.token = issued + 1
      <4>1. issued + 1 \in Nat /\ attempt[a] \in AnAttempt /\ attempt[a].enrolment
        BY <1>1, <2>4 DEF CredTypes, ThreadsAreSound
      <4>2. r \in AnAttempt
        BY <4>1 DEF AnAttempt, AttemptPc
      <4>3. r.at = attempt[a].at /\ r.pc = "enrolled" /\ r.enrolment = attempt[a].enrolment
            /\ r.token = issued + 1
        BY <4>1 DEF AnAttempt
      <4>4. QED BY <4>1, <4>2, <4>3
    <3>2. attempt' = [attempt EXCEPT ![a] = r]
      BY <2>4 DEF Set
    <3> HIDE DEF r
    <3>3. r.token \in 1..issued' /\ a \notin requests' /\ requests' \subseteq requests \cup {a}
      BY <1>1, <2>1, <3>1
    <3>4. /\ attempt' \in [Attempts -> AnAttempt] /\ ThreadsAreSound'
          /\ attempt'[a] = r /\ \A b \in Attempts \ {a} : attempt'[b] = attempt[b]
      BY <1>1, <2>1, <2>2, <3>1, <3>2, <3>3, ThreadMoves
    <3>5. CredTypes'
      BY <1>1, <2>0, <2>1, <2>2, <3>4, CredTypesKept
         DEF IssuedGrows, storeVars, formVars, historyVars, CredTypes
    <3>6. OneHolder'
      <4>1. CASE Excused
        BY <2>1, <4>1 DEF OneHolder, Excused, historyVars
      <4>2. CASE ~Excused
        <5>1. /\ sending /\ attempt[a].at = activity
              /\ \A b \in Attempts : Running(b) => b = a
              /\ trusted
          BY <1>1, <2>4, <4>2 DEF OneHolder, Running, ThreadsAreSound
        <5>2. \A b \in Attempts : Running(b)' => b = a
          BY <3>4, <5>1 DEF Running
        <5>3. \A b \in Attempts : Running(b)' =>
                 sending' /\ attempt'[b].at = activity' /\ \A c \in Attempts : Running(c)' => c = b
          BY <2>1, <3>1, <3>4, <5>1, <5>2 DEF formVars
        <5>4. QED BY <2>1, <5>1, <5>3 DEF OneHolder, historyVars
      <4>3. QED BY <4>1, <4>2
    <3>7. QED BY <3>4, <3>5, <3>6 DEF CredInv
  <2>5. QED BY <1>7, <2>3, <2>4 DEF Enrol
<1>18. ASSUME NEW a \in Attempts, GiveUp(a)
       PROVE  CredInv'
  <2>1. attempt[a].pc = "enrol" /\ Running(a) /\ EndAttempt(a, FALSE)
    BY <1>18 DEF GiveUp, Running
  <2>2. UNCHANGED <<issueVars, storeVars, flushed, activity, poster, historyVars>>
    BY <1>18 DEF GiveUp
  <2>3. /\ attempt' \in [Attempts -> AnAttempt] /\ ThreadsAreSound'
        /\ sending' \in BOOLEAN /\ field' \in BOOLEAN
    BY <1>0, <1>1, <2>1, <2>2, EndedIsSound DEF issueVars
  <2>4. CredTypes'
    BY <1>1, <2>2, <2>3, CredTypesKept DEF issueVars, storeVars, historyVars, CredTypes, CredTypeOK
  <2>5. OneHolder'
    BY <2>1, <2>2, EndedIsClean DEF storeVars
  <2>6. QED BY <2>3, <2>4, <2>5 DEF CredInv
<1>8. ASSUME NEW a \in Attempts, StoreToken(a) \/ Discard(a)
      PROVE  CredInv'
  <2>1. /\ attempt[a] \in AnAttempt /\ attempt[a].pc \in {"enrolled", "stored"} /\ Running(a)
        /\ attempt[a].enrolment /\ attempt[a].token \in 1..issued /\ a \notin requests
    BY <1>1, <1>8 DEF StoreToken, Discard, CredTypes, Running, ThreadsAreSound
  <2>2. /\ UNCHANGED <<issueVars, flushed, formVars, poster, displaced, unanswered, leftOver>>
        /\ deviceToken' \in {deviceToken, attempt[a].token}
        /\ alertToken' \in {alertToken, FALSE} /\ trusted' \in {trusted, FALSE}
    BY <1>8 DEF StoreToken, Discard, KeptInStorage, historyVars
  <2>3. PICK r \in AnAttempt :
           /\ attempt' = [attempt EXCEPT ![a] = r] /\ r.at = attempt[a].at /\ r.enrolment
           /\ r.token \in 1..issued
           /\ r.pc = "stored" \/ (r.pc = "post" /\ ~alertToken')
    <3>1. ASSUME NEW pc \in {"stored", "post"}
          PROVE  LET r == [attempt[a] EXCEPT !.pc = pc] IN
                 /\ r \in AnAttempt /\ r.at = attempt[a].at /\ r.enrolment
                 /\ r.token \in 1..issued /\ r.pc = pc
      BY <1>1, <2>1, <3>1 DEF AnAttempt, AttemptPc
    <3>2. CASE StoreToken(a)
      BY <3>1, <3>2 DEF StoreToken, Set
    <3>3. CASE Discard(a)
      BY <3>1, <3>3 DEF Discard, Set, KeptInStorage
    <3>4. QED BY <1>8, <3>2, <3>3
  <2>5. /\ attempt' \in [Attempts -> AnAttempt] /\ ThreadsAreSound'
        /\ attempt'[a] = r /\ \A b \in Attempts \ {a} : attempt'[b] = attempt[b]
    <3>1. issued' = issued /\ revokedD' = revokedD /\ requests' = requests
      BY <2>2 DEF issueVars
    <3>2. r.pc \notin {"enrol", "enrolled", "answered"}
      BY <2>3
    <3>3. QED BY <1>0, <1>1, <2>1, <2>3, <3>1, <3>2, ThreadMoves
  <2>6. CredTypes'
    <3>1. deviceToken' \in 0..issued' /\ alertToken' \in BOOLEAN /\ trusted' \in BOOLEAN
      <4>1. deviceToken \in 0..issued /\ alertToken \in BOOLEAN /\ trusted \in BOOLEAN
            /\ issued' = issued
        BY <1>1, <2>2 DEF issueVars, CredTypes, CredTypeOK
      <4>2. deviceToken' \in 0..issued
        BY <1>1, <2>1, <2>2, <4>1
      <4>3. QED BY <2>2, <4>1, <4>2
    <3>2. QED BY <1>1, <2>2, <2>5, <3>1, CredTypesKept DEF issueVars, formVars, CredTypes, CredTypeOK
  <2>7. OneHolder'
    <3>1. CASE Excused
      BY <2>2, <3>1 DEF OneHolder, Excused
    <3>2. CASE ~Excused
      <4>1. /\ sending /\ attempt[a].at = activity
            /\ \A b \in Attempts : Running(b) => b = a
        BY <1>1, <2>1, <3>2 DEF OneHolder
      <4>2. \A b \in Attempts : Running(b)' => b = a
        BY <2>5, <4>1 DEF Running
      <4>3. \A b \in Attempts : Running(b)' =>
               sending' /\ attempt'[b].at = activity' /\ \A c \in Attempts : Running(c)' => c = b
        BY <2>2, <2>3, <2>5, <4>1, <4>2 DEF formVars
      <4>4. \A b \in Attempts : attempt'[b].pc \notin {"ensure", "enrol", "enrolled"}
        BY <2>3, <2>5, <4>2 DEF Running
      <4>5. \E b \in Attempts : attempt'[b].pc \in {"stored", "post", "answered"}
                                 /\ attempt'[b].enrolment
        BY <2>3, <2>5
      <4>6. alertToken' => \E b \in Attempts : attempt'[b].pc = "stored"
        BY <2>3, <2>5
      <4>7. QED BY <4>3, <4>4, <4>5, <4>6 DEF OneHolder
    <3>3. QED BY <3>1, <3>2
  <2>8. QED BY <2>5, <2>6, <2>7 DEF CredInv
<1>9. ASSUME NEW a \in Attempts, TriggerArrives(a)
      PROVE  CredInv'
  <2>1. /\ attempt[a] \in AnAttempt /\ attempt[a].pc = "post" /\ Running(a)
        /\ attempt[a].token \in 1..issued /\ a \notin requests
    BY <1>1, <1>9 DEF TriggerArrives, CredTypes, Running, ThreadsAreSound
  <2>2. UNCHANGED <<issueVars, storeVars, flushed, formVars, poster, historyVars>>
    BY <1>9 DEF TriggerArrives
  <2>3. PICK s \in Statuses(attempt[a].token) :
           Set(a, [attempt[a] EXCEPT !.pc = "answered", !.answer = s])
    BY <1>9 DEF TriggerArrives
  <2>4. s \in {0, 200, 401, 409} /\ (s = 401 => attempt[a].token \in revokedD)
    BY <2>1, <2>3 DEF Statuses, Authorized
  <2> DEFINE r == [attempt[a] EXCEPT !.pc = "answered", !.answer = s]
  <2>5. /\ r \in AnAttempt /\ r.at = attempt[a].at /\ r.pc = "answered" /\ r.answer = s
        /\ r.token = attempt[a].token /\ r.enrolment = attempt[a].enrolment
    BY <2>1, <2>4 DEF AnAttempt, AttemptPc
  <2>6. attempt' = [attempt EXCEPT ![a] = r]
    BY <2>3 DEF Set
  <2> HIDE DEF r
  <2>7. /\ attempt' \in [Attempts -> AnAttempt] /\ ThreadsAreSound'
        /\ attempt'[a] = r /\ \A b \in Attempts \ {a} : attempt'[b] = attempt[b]
    <3>1. issued' = issued /\ revokedD' = revokedD /\ requests' = requests
          /\ r.pc \notin {"enrol", "enrolled", "stored"}
      BY <2>2, <2>5 DEF issueVars
    <3>2. /\ r.pc \in {"enrolled", "stored", "post", "answered"} => r.token \in 1..issued'
          /\ r.pc = "answered" /\ r.answer = 401 => r.token \in revokedD
          /\ a \notin requests'
      BY <2>1, <2>4, <2>5, <3>1
    <3>3. QED BY <1>0, <1>1, <2>5, <2>6, <3>1, <3>2, ThreadMoves
  <2>8. CredTypes'
    BY <1>1, <2>2, <2>7, CredTypesKept
       DEF issueVars, storeVars, formVars, historyVars, CredTypes, CredTypeOK
  <2>9. OneHolder'
    <3>1. CASE Excused
      BY <2>2, <3>1 DEF OneHolder, Excused, historyVars
    <3>2. CASE ~Excused
      <4>0. /\ sending /\ attempt[a].at = activity
            /\ \A b \in Attempts : Running(b) => b = a
        BY <1>1, <2>1, <3>2 DEF OneHolder
      <4>1. /\ sending /\ attempt[a].at = activity
            /\ \A b \in Attempts : Running(b) => b = a
            /\ alertToken => trusted
            /\ field => trusted \/ attempt[a].enrolment
        BY <1>1, <2>1, <3>2, <4>0 DEF OneHolder, Running
      <4>2. \A b \in Attempts : Running(b)' => b = a
        BY <2>7, <4>1 DEF Running
      <4>3. \A b \in Attempts : Running(b)' =>
               sending' /\ attempt'[b].at = activity' /\ \A c \in Attempts : Running(c)' => c = b
        BY <2>2, <2>5, <2>7, <4>1, <4>2 DEF formVars
      <4>4. \A b \in Attempts : attempt'[b].pc \notin {"ensure", "enrol", "enrolled"}
        BY <2>5, <2>7, <4>2 DEF Running
      <4>5. field => \/ trusted
                     \/ \E b \in Attempts :
                            attempt'[b].pc \in {"stored", "post", "answered"} /\ attempt'[b].enrolment
        BY <2>5, <2>7, <4>1
      <4>6. QED BY <2>2, <4>1, <4>3, <4>4, <4>5 DEF OneHolder, storeVars, formVars, historyVars
    <3>3. QED BY <3>1, <3>2
  <2>10. QED BY <2>7, <2>8, <2>9 DEF CredInv
<1>10. ASSUME NEW a \in Attempts, ReceiveTriggerAnswer(a)
       PROVE  CredInv'
  <2>1. /\ attempt[a] \in AnAttempt /\ attempt[a].pc = "answered" /\ Running(a)
        /\ attempt[a].enrolment \in BOOLEAN
    BY <1>1, <1>10 DEF ReceiveTriggerAnswer, CredTypes, Running, AnAttempt
  <2>2. PICK cleared \in BOOLEAN :
           /\ EndAttempt(a, cleared)
           /\ cleared <=> attempt[a].enrolment /\ attempt[a].answer # 0
    BY <1>10 DEF ReceiveTriggerAnswer, FieldCleared
  <2>3. /\ UNCHANGED <<issueVars, alertToken, flushed, activity, poster, trusted, displaced, leftOver>>
        /\ deviceToken' = TokenAfter(attempt[a].answer)
        /\ unanswered' <=> unanswered \/ (attempt[a].enrolment /\ attempt[a].answer = 0)
        /\ unanswered' \in BOOLEAN
    BY <1>10 DEF ReceiveTriggerAnswer
  <2>4. /\ attempt' \in [Attempts -> AnAttempt] /\ ThreadsAreSound'
        /\ sending' \in BOOLEAN /\ field' \in BOOLEAN
    BY <1>0, <1>1, <2>2, <2>3, EndedIsSound DEF issueVars
  <2>5. CredTypes'
    <3>1. deviceToken' \in 0..issued'
      BY <1>1, <2>3 DEF TokenAfter, CredTypes, CredTypeOK, NoCred, issueVars
    <3>2. QED BY <1>1, <2>3, <2>4, <3>1, CredTypesKept DEF issueVars, CredTypes, CredTypeOK
  <2>6. OneHolder'
    <3>1. CASE unanswered'
      BY <3>1 DEF OneHolder, Excused
    <3>2. CASE ~unanswered'
      <4>1. UNCHANGED historyVars /\ (attempt[a].enrolment => cleared)
        BY <1>1, <2>2, <2>3, <3>2 DEF CredTypes, historyVars
      <4>2. QED BY <2>1, <2>2, <2>3, <4>1, EndedIsClean
    <3>3. QED BY <3>1, <3>2
  <2>7. QED BY <2>4, <2>5, <2>6 DEF CredInv
<1>11. ASSUME NEW p \in Posters, StartPost(p) \/ EndPost(p)
       PROVE  CredInv'
  <2>1. /\ UNCHANGED <<issued, revokedD, requests, alertToken, flushed, field, activity, sending,
                       attempt, trusted, displaced, unanswered, leftOver>>
    BY <1>11 DEF StartPost, EndPost, storeVars, issueVars, formVars, historyVars
  <2>2. deviceToken' \in 0..issued
    BY <1>1, <1>11 DEF StartPost, EndPost, storeVars, TokenAfter, CredTypes, CredTypeOK, NoCred
  <2>3. PICK c \in 0..issued : poster' = [poster EXCEPT ![p] = c]
    BY <1>1, <1>11 DEF StartPost, EndPost, CredTypes, CredTypeOK, NoCred
  <2>4. DOMAIN poster' = Posters /\ \A q \in Posters : poster'[q] \in 0..issued
    BY <1>1, <2>3 DEF CredTypes, CredTypeOK
  <2>5. CredTypes'
    BY <1>1, <2>1, <2>2, <2>4 DEF CredTypes, CredTypeOK
  <2>6. QED BY <1>1, <2>1, <2>5 DEF CredInv, ThreadsAreSound, OneHolder, Excused, Running
<1>12. CASE UNCHANGED credVars
  BY <1>1, <1>12 DEF credVars, issueVars, storeVars, formVars, historyVars, CredInv, CredTypes,
                     CredTypeOK, ThreadsAreSound, OneHolder, Excused, Running
<1>13. QED
  BY <1>2, <1>3, <1>4, <1>5, <1>6, <1>7, <1>8, <1>9, <1>10, <1>11, <1>12, <1>14, <1>15, <1>16,
     <1>17, <1>18 DEF CredNext

LEMMA CredInvHolds == CredSpec => []CredInv
BY CredInvInit, CredInvNext, PTL DEF CredSpec

\* The handset asks for a credential, and is issued one, only for somebody who typed the
\* enrolment credential in, and a credential the server would accept is lost only to the late 401
\* of an earlier one, to the operator or to a death before it was on disk (ensureDeviceToken of
\* AlertSender.kt), for any number of attempts, requests, activities and processes.
THEOREM CredentialIsKeptHolds == CredSpec => CredentialIsKept
<1> DEFINE Trusted ==
               /\ ~(requests' \subseteq requests) => trusted \/ Excused
               /\ issued' # issued =>
                     trusted \/ Excused \/ \E a \in requests \ requests' : ~Running(a)
           LateAnswer ==
               Authorized(deviceToken) /\ deviceToken' = NoCred =>
                  \/ \E p \in Posters : poster[p] \in revokedD \ {deviceToken} /\ poster'[p] = NoCred
                  \/ \E a \in Attempts :
                        /\ attempt[a].answer = 401 /\ attempt[a].token # deviceToken
                        /\ attempt'[a].pc = "over"
                  \/ ClearJournal
                  \/ Die /\ flushed.deviceToken # deviceToken
<1>1. ASSUME CredInv, CredNext PROVE Trusted
  <2>1. CASE \E a \in Attempts : Enrol(a)
    <3>1. PICK a \in Attempts : Enrol(a)
      BY <2>1
    <3>2. a \in requests /\ requests' = requests \ {a} /\ attempt[a].pc \in {"enrol", "over"}
      BY <1>1, <3>1 DEF Enrol, CredInv, ThreadsAreSound
    <3>3. attempt[a].pc = "enrol" => trusted \/ Excused
      BY <1>1 DEF CredInv, ThreadsAreSound, OneHolder
    <3>4. QED BY <3>2, <3>3 DEF Running
  <2>2. CASE \E a \in Attempts : Ensure(a)
    <3>1. PICK a \in Attempts : Ensure(a)
      BY <2>2
    <3>2. issued' = issued /\ attempt[a].pc = "ensure"
      BY <3>1 DEF Ensure
    <3>3. requests' \subseteq requests \/ attempt[a].enrolment
      BY <3>1 DEF Ensure
    <3>4. QED BY <1>1, <3>2, <3>3 DEF CredInv, OneHolder
  <2>3. CASE UNCHANGED <<issued, requests>>
    BY <2>3
  <2>4. QED
    BY <1>1, <2>1, <2>2, <2>3 DEF CredNext, TypeIn, SaveField, ClearJournal, TapRefused, Recreate,
       Persist, Die, RevokeCredential, TapSend, GiveUp, StoreToken, Discard, TriggerArrives,
       ReceiveTriggerAnswer, StartPost, EndPost, issueVars
<1>2. ASSUME CredInv, CredNext PROVE LateAnswer
  <2>1. SUFFICES ASSUME Authorized(deviceToken), deviceToken' = NoCred
                 PROVE  \/ \E p \in Posters : poster[p] \in revokedD \ {deviceToken}
                                              /\ poster'[p] = NoCred
                        \/ \E a \in Attempts :
                              /\ attempt[a].answer = 401 /\ attempt[a].token # deviceToken
                              /\ attempt'[a].pc = "over"
                        \/ ClearJournal
                        \/ Die /\ flushed.deviceToken # deviceToken
    OBVIOUS
  <2>2. CredTypes /\ ThreadsAreSound /\ deviceToken # NoCred /\ deviceToken \notin revokedD
    BY <1>2, <2>1 DEF CredInv, Authorized, NoCred
  <2>3. CASE \E p \in Posters : EndPost(p)
    <3>1. PICK p \in Posters : EndPost(p)
      BY <2>3
    <3>2. PICK s \in Statuses(poster[p]) : deviceToken' = TokenAfter(s)
      BY <3>1 DEF EndPost
    <3>3. ~Authorized(poster[p])
      BY <2>1, <2>2, <3>2 DEF Statuses, TokenAfter
    <3>4. poster[p] \in 1..issued
      BY <2>2, <3>1 DEF EndPost, CredTypes, CredTypeOK, NoCred
    <3>5. poster'[p] = NoCred
      BY <2>2, <3>1 DEF EndPost, CredTypes
    <3>6. QED BY <2>2, <3>3, <3>4, <3>5 DEF Authorized
  <2>4. CASE \E a \in Attempts : ReceiveTriggerAnswer(a)
    <3>1. PICK a \in Attempts : ReceiveTriggerAnswer(a)
      BY <2>4
    <3>2. attempt[a].pc = "answered" /\ attempt[a].answer = 401
      BY <2>1, <2>2, <3>1 DEF ReceiveTriggerAnswer, TokenAfter
    <3>3. attempt[a].token # deviceToken
      BY <2>2, <3>2 DEF ThreadsAreSound
    <3>4. attempt'[a].pc = "over"
      <4>1. attempt[a] \in AnAttempt /\ attempt' = [attempt EXCEPT ![a] = [attempt[a] EXCEPT !.pc = "over"]]
        BY <2>2, <3>1 DEF ReceiveTriggerAnswer, EndAttempt, Set, CredTypes
      <4>2. QED BY <2>2, <4>1 DEF CredTypes, AnAttempt
    <3>5. QED BY <3>2, <3>3, <3>4
  <2>5. CASE \E a \in Attempts : StoreToken(a)
    <3>1. PICK a \in Attempts : StoreToken(a)
      BY <2>5
    <3>2. attempt[a].token \in 1..issued /\ deviceToken' = attempt[a].token
      BY <2>2, <3>1 DEF StoreToken, ThreadsAreSound
    <3>3. QED BY <2>1, <3>2 DEF NoCred
  <2>6. CASE deviceToken' = deviceToken
    BY <2>1, <2>2, <2>6
  <2>7. CASE Die
    BY <2>1, <2>2, <2>7 DEF Die
  <2>8. QED
    BY <1>2, <2>3, <2>4, <2>5, <2>6, <2>7 DEF CredNext, TypeIn, SaveField, TapRefused, Recreate,
       Persist, RevokeCredential, TapSend, Ensure, Enrol, GiveUp, Discard, TriggerArrives, StartPost,
       storeVars
<1>3. CredInv => CredTypeOK
  BY DEF CredInv, CredTypes
<1>4. CredInv /\ [CredNext]_credVars => [Trusted]_credVars /\ [LateAnswer]_credVars
  BY <1>1, <1>2
<1>5. QED
  BY <1>3, <1>4, CredInvHolds, PTL
     DEF CredSpec, CredentialIsKept, EnrolmentIsTrusted, ValidLostOnlyToOldAnswer

-----------------------------------------------------------------------------
(* LocationWatch.  The composition never does more to the incident record   *)
(* than CasIncident allows, so everything proved of CasIncident holds in    *)
(* it; on that rests what the handset may believe of the incidents it       *)
(* hears about.                                                             *)

\* What the handset deals with are alerts the server has recorded for a trigger.
HandlesAlerts ==
    \A i \in Ids : i \in {answer, watched} \/ (post # NoPost /\ post.incident = i)
        => triggered[i] > 0

\* News of an incident's end, under way or remembered, is true.
NewsIsTrue ==
    /\ \A i \in pushes \cup marked : IsResolved(i)
    /\ post.at = "INCIDENT_INACTIVE" => IsResolved(post.incident)

WatchInv ==
    /\ IndInv
    /\ WatchTypeOK
    /\ HandlesAlerts
    /\ NewsIsTrue
    /\ ResolvedPushWins

--------------------------------------------------------------------------------
(* The composition and the incident record.                                *)

USE IncidentBoundsNat, HandsetIsPhone, WatchBoundsNat
    DEF Ids, Times, NoFix, NoId, Post, NoPost

LEMMA WatchStepIsIncidentStep ==
    ASSUME WatchTypeOK, [WatchNext]_watchVars
    PROVE  [Next]_incidentVars
<1>1. ASSUME SendTrigger \/ TriggerAnswered
      PROVE  Next
  BY <1>1 DEF SendTrigger, TriggerAnswered, Next
<1>2. ASSUME ServerStep
      PROVE  Next
  BY <1>2 DEF ServerStep, ResolveAndPush, Next
<1>3. ASSUME HandlePost
      PROVE  Next
  <2>1. post.incident \in Ids /\ post.fix \in Times
    BY <1>3 DEF HandlePost, WatchTypeOK
  <2>2. PostLocation(post.incident, post.fix)
    BY <1>3 DEF HandlePost
  <2>3. QED BY <2>1, <2>2 DEF Next
<1>4. ASSUME \/ StartWatch \/ PeriodicTick \/ CaptureDone \/ DurationCap
             \/ ReceivePostAnswer \/ PostFails \/ CredentialRejected \/ ProcessDies
             \/ \E i \in Ids : ReceivePush(i) \/ LosePush(i)
             \/ \E fix \in Times : OnMovementFix(fix)
             \/ UNCHANGED watchVars
      PROVE  UNCHANGED incidentVars
  BY <1>4 DEF StartWatch, PeriodicTick, CaptureDone, DurationCap, ReceivePostAnswer,
              PostFails, CredentialRejected, ProcessDies, ReceivePush, LosePush,
              OnMovementFix, watchVars
<1>5. QED BY <1>1, <1>2, <1>3, <1>4 DEF WatchNext

\* An incident that is over stays over, and one that was triggered stays an alert.
LEMMA RecordIsKept ==
    ASSUME IndInv, [Next]_incidentVars, NEW i \in Ids
    PROVE  /\ IsResolved(i) => IsResolved(i)'
           /\ triggered[i] > 0 => triggered'[i] > 0
<1> USE DEF IndInv, TypeOK, IsResolved
<1>1. row[i] \in Row /\ triggered[i] \in Nat
  OBVIOUS
<1>2. ASSUME NEW p \in Phones, CommitTrigger(p)
      PROVE  /\ IsResolved(i) => IsResolved(i)'
             /\ triggered[i] > 0 => triggered'[i] > 0
  <2>1. trigger[p] \in Reading
    BY <1>2 DEF CommitTrigger
  <2>2. CASE Retrigger(p)
    <3>1. PICK n, f : row' = [row EXCEPT ![trigger[p].active].count = n,
                                         ![trigger[p].active].fix = f]
      BY <2>2 DEF Retrigger
    <3>2. row'[i].status = row[i].status
      BY <1>1, <3>1 DEF Row, Absent
    <3>3. triggered' = [triggered EXCEPT ![trigger[p].active] = @ + 1]
      BY <2>2 DEF Retrigger
    <3>4. QED BY <1>1, <3>2, <3>3
  <2>3. CASE Create(p)
    <3>1. row[rows + 1] = Absent
      BY <2>3 DEF Create, RowsInOrder
    <3>2. QED BY <1>1, <2>3, <3>1 DEF Create, Absent
  <2>4. QED BY <1>2, <2>2, <2>3 DEF CommitTrigger
<1>3. ASSUME NEW j \in Ids, Ack(j) \/ Resolve(j)
      PROVE  triggered' = triggered /\ (IsResolved(i) => IsResolved(i)')
  BY <1>3 DEF Ack, Resolve
<1>4. ASSUME NEW j \in Ids, NEW fix \in Times, PostLocation(j, fix)
      PROVE  triggered' = triggered /\ row'[i].status = row[i].status
  BY <1>1, <1>4 DEF PostLocation, Row, Absent
<1>5. ASSUME RecordTest
      PROVE  triggered' = triggered /\ (IsResolved(i) => IsResolved(i)')
  <2>1. row[rows + 1] = Absent
    BY <1>5 DEF RecordTest, RowsInOrder
  <2>2. QED BY <1>5, <2>1 DEF RecordTest, Absent
<1>6. ASSUME NEW p \in Phones,
             AbortTrigger(p) \/ \E fix \in Times \cup {NoFix} : BeginTrigger(p, fix)
      PROVE  UNCHANGED <<row, triggered>>
  BY <1>6 DEF AbortTrigger, BeginTrigger
<1>7. QED BY <1>2, <1>3, <1>4, <1>5, <1>6 DEF Next, incidentVars

\* An alert that is not active is over.
LEMMA AlertIsActiveOrOver ==
    ASSUME IndInv, NEW i \in Ids, triggered[i] > 0
    PROVE  IsActive(i) \/ IsResolved(i)
<1>1. row[i] \in Row \ {Absent}
  BY DEF IndInv, TypeOK, AlertsWereTriggered, RowsInOrder
<1>2. QED BY <1>1 DEF Row, Status, IsActive, IsResolved

--------------------------------------------------------------------------------
(* The invariant of the composition.                                       *)

LEMMA WatchInvInit == WatchInit => WatchInv
BY IndInvInit DEF WatchInit, WatchInv, WatchTypeOK, IndInv, HandlesAlerts, NewsIsTrue,
                  ResolvedPushWins

LEMMA WatchTypeKept ==
    ASSUME WatchTypeOK, TypeOK', [WatchNext]_watchVars
    PROVE  WatchTypeOK'
<1> USE DEF WatchTypeOK
<1>1. ASSUME SendTrigger \/ ServerStep
      PROVE  WatchTypeOK'
  BY <1>1 DEF SendTrigger, ServerStep, ResolveAndPush, handsetVars, watch
<1>2. ASSUME TriggerAnswered
      PROVE  WatchTypeOK'
  <2>1. rows' \in Ids \cup {NoId}
    BY DEF TypeOK
  <2>2. trigger[Handset] \in Reading
    BY <1>2 DEF TriggerAnswered, CommitTrigger, TypeOK
  <2>3. QED BY <1>2, <2>1, <2>2 DEF TriggerAnswered, Reading, watch
<1>3. ASSUME StartWatch \/ PeriodicTick \/ CaptureDone \/ DurationCap
      PROVE  WatchTypeOK'
  BY <1>3 DEF StartWatch, PeriodicTick, CaptureDone, DurationCap, SendPost, Stop, watch
<1>4. ASSUME NEW i \in Ids, ReceivePush(i) \/ LosePush(i)
      PROVE  WatchTypeOK'
  BY <1>4 DEF ReceivePush, LosePush, Stop, watch
<1>5. ASSUME NEW fix \in Times, OnMovementFix(fix)
      PROVE  WatchTypeOK'
  BY <1>5 DEF OnMovementFix, SendPost, watch
<1>6. ASSUME HandlePost
      PROVE  WatchTypeOK'
  BY <1>6 DEF HandlePost, watch
<1>7. ASSUME ReceivePostAnswer \/ PostFails \/ CredentialRejected \/ ProcessDies
      PROVE  WatchTypeOK'
  BY <1>7 DEF ReceivePostAnswer, PostFails, CredentialRejected, ProcessDies, Stop, watch
<1>8. CASE UNCHANGED watchVars
  BY <1>8 DEF watchVars, handsetVars, watch
<1>9. QED BY <1>1, <1>2, <1>3, <1>4, <1>5, <1>6, <1>7, <1>8 DEF WatchNext

\* The handset only ever hears of alerts: the answer of a trigger, and what follows.
LEMMA HandlesAlertsKept ==
    ASSUME WatchInv, WatchTypeOK', [WatchNext]_watchVars
    PROVE  HandlesAlerts'
<1> USE DEF HandlesAlerts
<1>1. [Next]_incidentVars
  BY WatchStepIsIncidentStep DEF WatchInv
<1>2. \A i \in Ids : triggered[i] > 0 => triggered'[i] > 0
  BY <1>1, RecordIsKept DEF WatchInv
<1>3. ASSUME SendTrigger \/ ServerStep \/ UNCHANGED watchVars
      PROVE  HandlesAlerts'
  BY <1>2, <1>3 DEF SendTrigger, ServerStep, ResolveAndPush, watchVars, handsetVars, watch,
                    WatchInv
<1>4. ASSUME TriggerAnswered
      PROVE  HandlesAlerts'
  <2>1. answer' # answer => triggered'[answer'] > 0
    <3> DEFINE a == trigger[Handset].active
    <3>1. trigger[Handset] \in Reading /\ triggered \in [Ids -> Nat]
      BY <1>4 DEF TriggerAnswered, CommitTrigger, WatchInv, IndInv, TypeOK
    <3>2. CASE Retrigger(Handset)
      <4>1. a \in Ids /\ triggered' = [triggered EXCEPT ![a] = @ + 1]
        BY <3>1, <3>2 DEF Retrigger, Reading
      <4>2. triggered'[a] > 0
        BY <3>1, <4>1
      <4>3. answer' = answer \/ answer' = a
        BY <1>4, <4>1 DEF TriggerAnswered
      <4>4. QED BY <4>2, <4>3
    <3>3. CASE Create(Handset)
      <4>1. /\ a = NoId /\ rows < MaxIncidents /\ rows' = rows + 1
            /\ triggered' = [triggered EXCEPT ![rows + 1] = 1]
        BY <3>3 DEF Create
      <4>2. rows + 1 \in Ids
        BY <4>1 DEF WatchInv, IndInv, TypeOK
      <4>3. triggered'[rows + 1] > 0
        BY <3>1, <4>1, <4>2
      <4>4. answer' = answer \/ answer' = rows + 1
        BY <1>4, <4>1 DEF TriggerAnswered
      <4>5. QED BY <4>3, <4>4
    <3>4. QED BY <1>4, <3>2, <3>3 DEF TriggerAnswered, CommitTrigger
  <2>2. UNCHANGED <<watched, post>>
    BY <1>4 DEF TriggerAnswered, watch
  <2>3. QED BY <1>2, <2>1, <2>2 DEF WatchInv
<1>5. ASSUME StartWatch
      PROVE  HandlesAlerts'
  BY <1>2, <1>5 DEF StartWatch, Stop, watch, WatchInv
<1>6. ASSUME PeriodicTick \/ CaptureDone \/ DurationCap
      PROVE  HandlesAlerts'
  BY <1>2, <1>6 DEF PeriodicTick, CaptureDone, DurationCap, SendPost, Stop, WatchInv
<1>7. ASSUME NEW i \in Ids, ReceivePush(i) \/ LosePush(i)
      PROVE  HandlesAlerts'
  BY <1>2, <1>7 DEF ReceivePush, LosePush, Stop, watch, WatchInv
<1>8. ASSUME NEW fix \in Times, OnMovementFix(fix)
      PROVE  HandlesAlerts'
  BY <1>2, <1>8 DEF OnMovementFix, SendPost, watch, WatchInv
<1>9. ASSUME HandlePost
      PROVE  HandlesAlerts'
  BY <1>2, <1>9 DEF HandlePost, watch, WatchInv, WatchTypeOK
<1>10. ASSUME ReceivePostAnswer \/ PostFails \/ CredentialRejected \/ ProcessDies
       PROVE  HandlesAlerts'
  BY <1>2, <1>10 DEF ReceivePostAnswer, PostFails, CredentialRejected, ProcessDies, Stop,
                     watch, WatchInv
<1>11. QED BY <1>3, <1>4, <1>5, <1>6, <1>7, <1>8, <1>9, <1>10 DEF WatchNext

\* A push is sent after the resolution's commit, an "inactive" answer is about an alert,
\* and nothing that is over is opened again.
LEMMA NewsIsTrueKept ==
    ASSUME WatchInv, [WatchNext]_watchVars
    PROVE  NewsIsTrue'
<1> USE DEF NewsIsTrue
<1>1. [Next]_incidentVars
  BY WatchStepIsIncidentStep DEF WatchInv
<1>2. \A i \in Ids : IsResolved(i) => IsResolved(i)'
  BY <1>1, RecordIsKept DEF WatchInv
<1>3. pushes \cup marked \subseteq Ids /\ post \in Post \cup {NoPost}
  BY DEF WatchInv, WatchTypeOK
<1>4. ASSUME NEW i \in Ids, ResolveAndPush(i)
      PROVE  NewsIsTrue'
  <2>1. IsResolved(i)'
    BY <1>4 DEF ResolveAndPush, Resolve, IsResolved, WatchInv, IndInv, TypeOK
  <2>2. pushes' = pushes \cup {i} /\ UNCHANGED <<post, marked>>
    BY <1>4 DEF ResolveAndPush
  <2>3. QED BY <1>2, <1>3, <2>1, <2>2 DEF WatchInv
<1>5. ASSUME HandlePost
      PROVE  NewsIsTrue'
  <2>1. post.incident \in Ids /\ post # NoPost
    BY <1>3, <1>5 DEF HandlePost
  <2>2. IsActive(post.incident) \/ IsResolved(post.incident)
    BY <2>1, AlertIsActiveOrOver DEF WatchInv, HandlesAlerts
  <2>3. post'.at = "INCIDENT_INACTIVE" => IsResolved(post.incident)
    BY <1>3, <1>5, <2>2 DEF HandlePost
  <2>4. post'.incident = post.incident /\ UNCHANGED <<pushes, marked>>
    BY <1>3, <1>5 DEF HandlePost
  <2>5. QED BY <1>2, <1>3, <2>1, <2>3, <2>4 DEF WatchInv
<1>6. ASSUME NEW i \in Ids, ReceivePush(i) \/ LosePush(i)
      PROVE  NewsIsTrue'
  BY <1>2, <1>3, <1>6 DEF ReceivePush, LosePush, WatchInv
<1>7. ASSUME \/ SendTrigger \/ TriggerAnswered \/ StartWatch \/ PeriodicTick \/ DurationCap
             \/ UNCHANGED watchVars
      PROVE  UNCHANGED <<pushes, marked, post>>
  BY <1>7 DEF SendTrigger, TriggerAnswered, StartWatch, PeriodicTick, DurationCap,
              watchVars, handsetVars
<1>8. ASSUME ServerStep, \A i \in Ids : ~ResolveAndPush(i)
      PROVE  UNCHANGED <<pushes, marked, post>>
  BY <1>8 DEF ServerStep, handsetVars
<1>9. ASSUME \/ CaptureDone \/ ReceivePostAnswer \/ PostFails \/ CredentialRejected
             \/ \E fix \in Times : OnMovementFix(fix)
      PROVE  /\ UNCHANGED <<pushes, marked>>
             /\ post'.at = "INCIDENT_INACTIVE" => post' = post
  BY <1>9 DEF CaptureDone, ReceivePostAnswer, PostFails, CredentialRejected,
              OnMovementFix, SendPost
<1>10. ASSUME ProcessDies
       PROVE  NewsIsTrue'
  BY <1>2, <1>3, <1>10 DEF ProcessDies, WatchInv
<1>11. ASSUME UNCHANGED <<pushes, marked>>,
              post'.at = "INCIDENT_INACTIVE" => post' = post
       PROVE  NewsIsTrue'
  BY <1>2, <1>3, <1>11 DEF WatchInv
<1>12. QED BY <1>4, <1>5, <1>6, <1>7, <1>8, <1>9, <1>10, <1>11 DEF WatchNext, ServerStep

LEMMA ResolvedPushWinsKept ==
    ASSUME WatchInv, [WatchNext]_watchVars
    PROVE  ResolvedPushWins'
<1> USE DEF ResolvedPushWins
<1>1. pushes \cup marked \subseteq Ids
  BY DEF WatchInv, WatchTypeOK
<1>2. ASSUME NEW i \in Ids, ReceivePush(i)
      PROVE  ResolvedPushWins'
  BY <1>1, <1>2 DEF ReceivePush, Stop, watch, WatchInv
<1>3. ASSUME StartWatch
      PROVE  ResolvedPushWins'
  BY <1>1, <1>3 DEF StartWatch, Stop, watch, WatchInv
<1>4. ASSUME ProcessDies
      PROVE  ResolvedPushWins'
  BY <1>4 DEF ProcessDies
<1>5. ASSUME \/ SendTrigger \/ TriggerAnswered \/ ServerStep \/ PeriodicTick \/ CaptureDone
             \/ DurationCap \/ HandlePost \/ ReceivePostAnswer \/ PostFails
             \/ CredentialRejected
             \/ \E i \in Ids : LosePush(i)
             \/ \E fix \in Times : OnMovementFix(fix)
             \/ UNCHANGED watchVars
      PROVE  marked' = marked /\ watched' \in {watched, NoId}
  BY <1>5 DEF SendTrigger, TriggerAnswered, ServerStep, ResolveAndPush, PeriodicTick,
              CaptureDone, DurationCap, HandlePost, ReceivePostAnswer, PostFails,
              CredentialRejected, LosePush, OnMovementFix, Stop, watchVars, handsetVars, watch
<1>6. ASSUME marked' = marked /\ watched' \in {watched, NoId}
      PROVE  ResolvedPushWins'
  BY <1>1, <1>6 DEF WatchInv
<1>7. QED BY <1>2, <1>3, <1>4, <1>5, <1>6 DEF WatchNext

LEMMA WatchInvNext == WatchInv /\ [WatchNext]_watchVars => WatchInv'
<1> SUFFICES ASSUME WatchInv, [WatchNext]_watchVars
             PROVE  WatchInv'
  OBVIOUS
<1>1. IndInv'
  BY WatchStepIsIncidentStep, IndInvNext DEF WatchInv
<1>2. WatchTypeOK'
  BY <1>1, WatchTypeKept DEF WatchInv, IndInv
<1>3. QED BY <1>1, <1>2, HandlesAlertsKept, NewsIsTrueKept, ResolvedPushWinsKept DEF WatchInv

LEMMA WatchInvHolds == WatchSpec => []WatchInv
BY WatchInvInit, WatchInvNext, PTL DEF WatchSpec

--------------------------------------------------------------------------------
(* Theorems.                                                               *)

\* The variables of the composition keep their types.
THEOREM WatchTypeCorrect == WatchSpec => []WatchTypeOK
BY WatchInvHolds, PTL DEF WatchInv

\* The handset and its pushes never make the server do what the routes of cas.ts
\* would not do without them: the composition implements the incident record, and
\* the theorems of CasIncident_proofs are theorems about it.
THEOREM WatchImplementsIncident == WatchSpec => Spec
<1>1. WatchInit => Init
  BY DEF WatchInit
<1>2. WatchInv /\ [WatchNext]_watchVars => [Next]_incidentVars
  BY WatchStepIsIncidentStep DEF WatchInv
<1>3. QED BY <1>1, <1>2, WatchInvHolds, PTL DEF WatchSpec, Spec

\* ResolvedWatchGuard: whichever of the push and the trigger's answer comes first, the
\* handset does not watch an incident it was told is over.
THEOREM ResolvedPushWinsHolds == WatchSpec => []ResolvedPushWins
BY WatchInvHolds, PTL DEF WatchInv

\* stopForIncident and the answer to a post: the news that ends a watch is true, and it
\* is about the watched incident unless the watch was replaced while a post was under way.
THEOREM NewsEndsItsOwnWatchHolds == WatchSpec => NewsEndsItsOwnWatch
<1> DEFINE Ends == /\ watched # NoId /\ watched' = NoId
                   /\ pushes' # pushes \/ (post.at = "INCIDENT_INACTIVE" /\ post' = NoPost)
           Own == IsResolved(watched) \/ (pushes' = pushes /\ post.incident # watched)
<1>1. ASSUME WatchInv, WatchNext, Ends
      PROVE  Own
  <2>1. \A i \in pushes : IsResolved(i)
    BY <1>1 DEF WatchInv, NewsIsTrue
  <2>2. post.at = "INCIDENT_INACTIVE" => IsResolved(post.incident)
    BY <1>1 DEF WatchInv, NewsIsTrue
  <2>3. CASE \E i \in Ids : ReceivePush(i)
    BY <1>1, <2>1, <2>3 DEF ReceivePush, watch
  <2>4. CASE pushes' = pushes
    BY <1>1, <2>2, <2>4
  <2>5. CASE \/ \E i \in Ids : LosePush(i) \/ ResolveAndPush(i)
    BY <1>1, <2>5 DEF LosePush, ResolveAndPush, watch
  <2>6. \/ \E i \in Ids : ReceivePush(i) \/ LosePush(i) \/ ResolveAndPush(i)
        \/ pushes' = pushes
    BY <1>1 DEF WatchNext, SendTrigger, TriggerAnswered, ServerStep, StartWatch,
                OnMovementFix, PeriodicTick, CaptureDone, DurationCap, HandlePost,
                ReceivePostAnswer, PostFails, CredentialRejected, ProcessDies, handsetVars
  <2>7. QED BY <2>3, <2>4, <2>5, <2>6
<1>2. WatchInv /\ [WatchNext]_watchVars => [Ends => Own]_watchVars
  BY <1>1
<1>3. QED BY <1>2, WatchInvHolds, PTL DEF WatchSpec, NewsEndsItsOwnWatch

--------------------------------------------------------------------------------
(* AppUpdates: consent, pins and what reaches the installer.                 *)

UnderWay(d) == dl[d].pc \notin {"unused", "over"}
FillsPart(d) == dl[d].pc \in {"first block", "second block", "rename"}
HandedOver(d) == inst[d].pc \in {"committed", "prompted", "settling"}

DownloadThread ==
    [pc : {"unused", "over", "start", "get", "first block", "second block", "rename", "verify",
           "install"},
     build : Builds \cup {None}, metered : BOOLEAN,
     file : Downloads \cup {None}, serves : Builds \cup {0, None}]

Session == [pc : {"none", "committed", "prompted", "settling", "installed", "failed"},
            attempt : Nat]

UpdTypes ==
    /\ published \in Seq(Builds)
    /\ publishing \in [Publishers -> Builds \cup {None}]
    /\ asking \in Builds \cup {0, None}
    /\ offered \in Builds \cup {None} /\ prompt \in Builds \cup {None}
    /\ journal \in [shown : BOOLEAN, accepted : BOOLEAN, violations : BOOLEAN]
    /\ part \in [Builds -> Downloads \cup {None}] /\ target \in [Builds -> Downloads \cup {None}]
    /\ disk \in [Downloads -> [1..2 -> Builds \cup {0, None}]]
    /\ dl \in [Downloads -> DownloadThread] /\ inst \in [Downloads -> Session]
    /\ strange \in BOOLEAN /\ overlap \in BOOLEAN

\* One of the published builds is the highest, which is what latestUpdate asks for.
HighestIsThere ==
    \E m \in {0} \cup ToSet(published) : \A x \in ToSet(published) : x <= m

\* A thread that runs has a build, and it is over before the installer has its session.
ThreadsHaveBuilds ==
    \A d \in Downloads :
        /\ dl[d].pc # "unused" => dl[d].build \in Builds
        /\ inst[d].pc # "none" => dl[d].pc = "over"

\* Without an overlap: one thread runs at a time, none while a prompt is open.
OneAtATime ==
    /\ \A d, e \in Downloads : UnderWay(d) /\ UnderWay(e) => d = e
    /\ prompt # None => \A d \in Downloads : ~UnderWay(d)

\* The journal has the consent that the open prompt, or the metered download until its result, needs.
ConsentIsNoted ==
    /\ ~journal.violations
    /\ prompt # None => journal.shown
    /\ \A d \in Downloads :
          UnderWay(d) /\ dl[d].pc # "install" /\ dl[d].metered => journal.accepted

\* A .part belongs to the thread that fills it; a pin that is being fetched has no file yet; the
\* file of a pin was fetched for it and, once its thread verified it, has the pinned bytes.
FilesAreApart ==
    /\ \A b \in Builds : part[b] # None => FillsPart(part[b]) /\ dl[part[b]].build = b
    /\ \A d \in Downloads : FillsPart(d) => dl[d].file = d
    /\ \A d \in Downloads : FillsPart(d) \/ dl[d].pc = "get" => target[dl[d].build] = None
    /\ \A b \in Builds : target[b] # None =>
          /\ dl[target[b]].build = b
          /\ \/ dl[target[b]].pc = "verify"
             \/ dl[target[b]].pc \in {"install", "over"} /\ disk[target[b]] = <<b, b>>

\* What waits for the installer, or is with it, is verified until the installer has answered.
HandedIsVerified ==
    \A d \in Downloads : dl[d].pc = "install" \/ HandedOver(d) => VerifyDownload(dl[d].build)

Calm == OneAtATime /\ ConsentIsNoted /\ FilesAreApart /\ HandedIsVerified /\ ~strange

UpdInv == UpdTypes /\ HighestIsThere /\ ThreadsHaveBuilds /\ (~overlap => Calm)


LEMMA NoneIsNothing ==
    /\ None \notin Builds /\ None \notin Downloads
    /\ Builds \subseteq Nat /\ 0 \notin Builds
    /\ None # "SHOWN" /\ None # "ACCEPTED" /\ None # "DECLINED"
<1>1. None \notin Builds /\ Builds \subseteq Nat /\ 0 \notin Builds
  BY UpdateAssumption
<1>2. None \notin Downloads
  BY UpdateAssumption DEF Downloads
<1>3. None # "SHOWN" /\ None # "ACCEPTED" /\ None # "DECLINED"
  BY UpdateAssumption
<1>4. QED BY <1>1, <1>2, <1>3

LEMMA BuildsArePublished == UpdTypes => ToSet(published) \subseteq Builds
<1>1. ASSUME published \in Seq(Builds) PROVE ToSet(published) \subseteq Builds
  BY <1>1 DEF ToSet
<1>2. QED BY <1>1 DEF UpdTypes

\* latestUpdate is one of the published builds, and no published build is higher.
LEMMA LatestIsHighest ==
    ASSUME UpdTypes, HighestIsThere
    PROVE  /\ LatestUpdate \in {0} \cup ToSet(published)
           /\ LatestUpdate \in Builds \cup {0} /\ LatestUpdate \in Nat
           /\ \A x \in ToSet(published) : x <= LatestUpdate
<1> DEFINE S == {0} \cup ToSet(published)
<1>1. ToSet(published) \subseteq Builds /\ Builds \subseteq Nat
  BY BuildsArePublished, NoneIsNothing
<1>2. PICK m \in S : \A x \in S : m >= x
  BY <1>1 DEF HighestIsThere
<1>3. LatestUpdate = CHOOSE x \in S : \A y \in S : x >= y
  BY DEF LatestUpdate, Max
<1>4. LatestUpdate \in S /\ \A y \in S : LatestUpdate >= y
  BY <1>2, <1>3
<1>5. LatestUpdate \in Builds \cup {0}
  BY <1>1, <1>4
<1> HIDE DEF S
<1>6. S \subseteq Nat
  <2>1. S \subseteq {0} \cup Builds
    BY <1>1 DEF S
  <2>2. QED BY <1>1, <2>1
<1>7. LatestUpdate \in Nat /\ \A x \in S : x \in Nat
  BY <1>4, <1>6
<1>8. \A x \in S : x <= LatestUpdate
  BY <1>4, <1>7
<1>9. QED BY <1>4, <1>5, <1>7, <1>8 DEF S

LEMMA UpdInvInit == UpdInit => UpdInv
<1> SUFFICES ASSUME UpdInit PROVE UpdInv
  OBVIOUS
<1>2. UpdTypes
  <2>1. <<None, None>> \in [1..2 -> Builds \cup {0, None}]
    OBVIOUS
  <2>2. NoThread \in DownloadThread
    BY DEF NoThread, DownloadThread
  <2>3. disk \in [Downloads -> [1..2 -> Builds \cup {0, None}]]
    BY <2>1 DEF UpdInit, Empty
  <2>4. dl \in [Downloads -> DownloadThread] /\ inst \in [Downloads -> Session]
    BY <2>2 DEF UpdInit, Session
  <2>5. published \in Seq(Builds)
    BY DEF UpdInit
  <2>6. QED BY <2>3, <2>4, <2>5 DEF UpdInit, UpdTypes
<1>3. HighestIsThere
  BY DEF UpdInit, HighestIsThere, ToSet
<1>4. \A d \in Downloads : dl[d].pc = "unused" /\ inst[d].pc = "none"
  BY DEF UpdInit, NoThread
<1>5. \A b \in Builds : part[b] = None /\ target[b] = None
  BY DEF UpdInit
<1>6. ThreadsHaveBuilds
  BY <1>4 DEF ThreadsHaveBuilds
<1>7. Calm
  <2>1. ~journal.violations /\ prompt = None /\ ~strange
    BY DEF UpdInit
  <2>2. QED BY <1>4, <1>5, <2>1 DEF Calm, OneAtATime, ConsentIsNoted, FilesAreApart,
                                    HandedIsVerified, UnderWay, FillsPart, HandedOver
<1>8. QED BY <1>2, <1>3, <1>6, <1>7 DEF UpdInv

\* A publish is the only step that stores a build, and it removes none.
LEMMA PublishedGrows ==
    ASSUME UpdTypes, [UpdNext]_updVars
    PROVE  /\ published' \in Seq(Builds)
           /\ \/ ToSet(published') = ToSet(published)
              \/ \E b \in Builds : ToSet(published') = ToSet(published) \cup {b}
<1>1. CASE UNCHANGED published
  BY <1>1 DEF UpdTypes
<1>2. ASSUME NEW p \in Publishers, CommitPublish(p)
      PROVE  /\ published' \in Seq(Builds)
             /\ \/ ToSet(published') = ToSet(published)
                \/ \E b \in Builds : ToSet(published') = ToSet(published) \cup {b}
  <2> DEFINE b == publishing[p]
  <2>1. b \in Builds /\ published \in Seq(Builds)
    BY <1>2 DEF CommitPublish, UpdTypes
  <2>2. published' = published \/ published' = Append(published, b)
    BY <1>2 DEF CommitPublish
  <2> HIDE DEF b
  <2>3. CASE published' = Append(published, b)
    <3>1. published' \in Seq(Builds) /\ Len(published') = Len(published) + 1
      BY <2>1, <2>3
    <3>2. DOMAIN published' = 1..(Len(published) + 1) /\ DOMAIN published = 1..Len(published)
      BY <2>1, <3>1
    <3>3. /\ \A i \in 1..Len(published) : published'[i] = published[i]
          /\ published'[Len(published) + 1] = b
      BY <2>1, <2>3
    <3>4. ToSet(published') = ToSet(published) \cup {b}
      BY <2>1, <3>2, <3>3 DEF ToSet
    <3>5. QED BY <2>1, <3>1, <3>4
  <2>4. QED BY <2>1, <2>2, <2>3
<1>3. QED
  BY <1>1, <1>2 DEF UpdNext, updVars, pubVars, BeginPublish, StartCheck, ShowCheck, Decline, Tap,
     Consent, Step, Answer, Reuse, Get, WriteBlock, Rename, Verify, Break, Install, RetryInstall,
     AskOwner, Installed, Refused, InstallerOnly, NotTheScreen, Failed, Verified

LEMMA HighestStaysThere ==
    ASSUME UpdTypes, HighestIsThere, [UpdNext]_updVars
    PROVE  HighestIsThere' /\ LatestUpdate' >= LatestUpdate
<1>1. Builds \subseteq Nat /\ ToSet(published) \subseteq Builds
  BY BuildsArePublished, NoneIsNothing
<1>2. PICK m \in {0} \cup ToSet(published) : \A x \in ToSet(published) : x <= m
  BY DEF HighestIsThere
<1>3. \/ ToSet(published)' = ToSet(published)
      \/ \E b \in Builds : ToSet(published)' = ToSet(published) \cup {b}
  BY PublishedGrows
<1>4. HighestIsThere'
  <2>1. CASE ToSet(published)' = ToSet(published)
    BY <1>2, <2>1 DEF HighestIsThere
  <2>2. ASSUME NEW b \in Builds, ToSet(published)' = ToSet(published) \cup {b}
        PROVE  HighestIsThere'
    <3>1. CASE b <= m
      BY <1>1, <1>2, <2>2, <3>1 DEF HighestIsThere
    <3>2. CASE m < b
      <4>1. m \in Nat
        BY <1>1
      <4>3. b \in Nat
        BY <1>1
      <4>4. \A x \in ToSet(published) : x \in Nat
        BY <1>1
      <4>2. \A x \in ToSet(published)' : x <= b
        BY <1>2, <2>2, <3>2, <4>1, <4>3, <4>4
      <4>5. QED BY <2>2, <4>2 DEF HighestIsThere
    <3>3. m \in Nat /\ b \in Nat
      BY <1>1
    <3>4. QED BY <3>1, <3>2, <3>3
  <2>3. QED BY <1>3, <2>1, <2>2
<1>5. LatestUpdate \in {0} \cup ToSet(published)
  BY LatestIsHighest
<1>6. LatestUpdate' >= LatestUpdate
  <2> DEFINE S == {0} \cup ToSet(published)'
  <2>1. S \subseteq {0} \cup Builds
    BY <1>1, <1>3
  <2> HIDE DEF S
  <2>7. S \subseteq Nat
    BY <1>1, <2>1
  <2>2. PICK n \in S : \A x \in S : n >= x
    BY <1>4, <2>7 DEF HighestIsThere, S
  <2>3. LatestUpdate' = CHOOSE x \in S : \A y \in S : x >= y
    BY DEF LatestUpdate, Max, S
  <2>4. LatestUpdate' \in S /\ \A y \in S : LatestUpdate' >= y
    BY <2>2, <2>3
  <2>5. LatestUpdate \in S
    BY <1>3, <1>5 DEF S
  <2>6. QED BY <2>4, <2>5
<1>7. QED BY <1>4, <1>6

\* The three ways a thread's state changes.
LEMMA MovedThread ==
    ASSUME UpdTypes, NEW d \in Downloads,
           NEW pc \in {"get", "first block", "second block", "rename", "verify", "install"},
           Move(d, pc)
    PROVE  /\ dl' \in [Downloads -> DownloadThread]
           /\ dl'[d].pc = pc /\ dl'[d].build = dl[d].build /\ dl'[d].file = dl[d].file
           /\ dl'[d].metered = dl[d].metered
           /\ \A e \in Downloads \ {d} : dl'[e] = dl[e]
BY DEF Move, UpdTypes, DownloadThread

LEMMA EndedThread ==
    ASSUME UpdTypes, NEW d \in Downloads, End(d)
    PROVE  /\ dl' \in [Downloads -> DownloadThread]
           /\ dl'[d].pc = "over" /\ dl'[d].build = dl[d].build
           /\ \A e \in Downloads \ {d} : dl'[e] = dl[e]
BY DEF End, NoThread, UpdTypes, DownloadThread

LEMMA StartedThread ==
    ASSUME UpdTypes, NEW d \in Downloads, NEW b \in Builds, NEW metered \in BOOLEAN,
           StartDownload(d, b, metered)
    PROVE  /\ dl' \in [Downloads -> DownloadThread]
           /\ dl[d].pc = "unused"
           /\ dl'[d].pc = "start" /\ dl'[d].build = b /\ dl'[d].metered = metered
           /\ \A e \in Downloads \ {d} : dl'[e] = dl[e]
           /\ overlap' = (overlap \/ Busy)
<1>1. [NoThread EXCEPT !.pc = "start", !.build = b, !.metered = metered] \in DownloadThread
  BY DEF NoThread, DownloadThread
<1>2. QED BY <1>1 DEF StartDownload, Fresh, NoThread, UpdTypes

\* What the beats do to the checker of the journal.
LEMMA BeatsAreChecked ==
    ASSUME UpdTypes
    PROVE  /\ Beat("SHOWN", TRUE) =>
                journal' = [journal EXCEPT !.shown = TRUE, !.accepted = FALSE]
           /\ Beat("ACCEPTED", TRUE) =>
                journal' = IF journal.shown THEN [journal EXCEPT !.accepted = TRUE]
                           ELSE [journal EXCEPT !.violations = TRUE]
           /\ Beat("DECLINED", TRUE) =>
                journal' = [shown |-> FALSE, accepted |-> FALSE,
                            violations |-> journal.violations \/ ~journal.shown]
           /\ \A metered \in BOOLEAN : Beat(None, metered) =>
                journal' = [shown |-> FALSE, accepted |-> FALSE,
                            violations |-> journal.violations \/ (metered /\ ~journal.accepted)]
BY NoneIsNothing DEF Beat, AfterBeat

\* Under one thread at a time, the step of that thread leaves it the only one.
LEMMA OneMoves ==
    ASSUME OneAtATime, NEW d \in Downloads, UnderWay(d), UNCHANGED prompt,
           \A e \in Downloads \ {d} : dl'[e] = dl[e]
    PROVE  /\ OneAtATime' /\ prompt = None
           /\ \A e \in Downloads \ {d} : ~UnderWay(e) /\ ~UnderWay(e)'
BY DEF OneAtATime, UnderWay

\* A result's beat accuses no download whose consent is noted.
LEMMA ResultIsNoted ==
    ASSUME UpdTypes, OneAtATime, ConsentIsNoted, NEW d \in Downloads,
           UnderWay(d), dl[d].pc # "install",
           Beat(None, dl[d].metered), UNCHANGED prompt,
           \A e \in Downloads \ {d} : dl'[e] = dl[e],
           dl'[d].pc \in {"install", "over"}
    PROVE  ConsentIsNoted'
<1>1. dl[d].metered \in BOOLEAN /\ journal.violations \in BOOLEAN
  BY DEF UpdTypes, DownloadThread
<1>2. dl[d].metered => journal.accepted
  BY DEF ConsentIsNoted
<1>3. journal' = [shown |-> FALSE, accepted |-> FALSE,
                  violations |-> journal.violations \/ (dl[d].metered /\ ~journal.accepted)]
  BY <1>1, BeatsAreChecked
<1>4. ~journal.violations
  BY DEF ConsentIsNoted
<1>5. ~journal'.violations
  BY <1>2, <1>3, <1>4
<1>6. prompt' = None /\ \A e \in Downloads \ {d} : ~UnderWay(e)'
  BY OneMoves
<1>7. QED BY <1>5, <1>6 DEF ConsentIsNoted, UnderWay

LEMMA BeatTyped ==
    ASSUME UpdTypes, NEW consent \in {"SHOWN", "ACCEPTED", "DECLINED", None}, NEW m \in BOOLEAN,
           Beat(consent, m), m \/ consent = None
    PROVE  journal' \in [shown : BOOLEAN, accepted : BOOLEAN, violations : BOOLEAN]
<1>1. journal \in [shown : BOOLEAN, accepted : BOOLEAN, violations : BOOLEAN]
  BY DEF UpdTypes
<1>2. CASE consent = None
  <2>1. journal' = [shown |-> FALSE, accepted |-> FALSE,
                    violations |-> journal.violations \/ (m /\ ~journal.accepted)]
    BY <1>2, BeatsAreChecked
  <2>2. journal.violations \/ (m /\ ~journal.accepted) \in BOOLEAN
    BY <1>1
  <2>3. QED BY <2>1, <2>2
<1>3. CASE consent # None
  <2>1. m = TRUE
    BY <1>3
  <2>2. (journal.violations \/ ~journal.shown) \in BOOLEAN
    BY <1>1
  <2>3. CASE consent = "SHOWN"
    BY <1>1, <2>1, <2>3, BeatsAreChecked
  <2>4. CASE consent = "ACCEPTED"
    BY <1>1, <2>1, <2>4, BeatsAreChecked
  <2>5. CASE consent = "DECLINED"
    <3>1. journal' = [shown |-> FALSE, accepted |-> FALSE,
                      violations |-> journal.violations \/ ~journal.shown]
      BY <2>1, <2>5, BeatsAreChecked
    <3>2. QED BY <2>2, <3>1
  <2>6. QED BY <1>3, <2>3, <2>4, <2>5
<1>4. QED BY <1>2, <1>3

--------------------------------------------------------------------------------
(* Its steps: on the server and the screen ...                               *)

UpdKept == UpdTypes' /\ ThreadsHaveBuilds' /\ (~overlap' => Calm')

LEMMA NothingOfThreads ==
    ASSUME UpdInv, UpdTypes',
           UNCHANGED <<prompt, fileVars, journal, dl, inst, strange, overlap>>
    PROVE  UpdKept
BY DEF UpdKept, UpdInv, fileVars, ThreadsHaveBuilds, Calm, OneAtATime, ConsentIsNoted,
       FilesAreApart, HandedIsVerified, UnderWay, FillsPart, HandedOver, VerifyDownload

LEMMA ScreenKeeps ==
    ASSUME UpdInv, [UpdNext]_updVars,
           \/ \E p \in Publishers : (\E b \in Builds : BeginPublish(p, b)) \/ CommitPublish(p)
           \/ StartCheck \/ ShowCheck
    PROVE  UpdKept
<1> USE DEF UpdInv
<1>1. published' \in Seq(Builds)
  BY PublishedGrows
<1>2. LatestUpdate \in Builds \cup {0}
  BY LatestIsHighest
<1>3. ASSUME NEW p \in Publishers, NEW b \in Builds, BeginPublish(p, b) PROVE UpdTypes'
  BY <1>1, <1>3 DEF BeginPublish, UpdTypes, screenVars, fileVars
<1>4. ASSUME NEW p \in Publishers, CommitPublish(p) PROVE UpdTypes'
  BY <1>1, <1>4 DEF CommitPublish, UpdTypes, screenVars, fileVars
<1>5. ASSUME StartCheck PROVE UpdTypes'
  BY <1>1, <1>2, <1>5 DEF StartCheck, UpdTypes, pubVars, fileVars
<1>6. ASSUME ShowCheck PROVE UpdTypes'
  <2>1. asking' = None /\ offered' \in Builds \cup {None}
    BY <1>6 DEF ShowCheck, UpdTypes
  <2>2. QED BY <1>1, <1>6, <2>1 DEF ShowCheck, UpdTypes, pubVars, fileVars
<1>7. UNCHANGED <<prompt, fileVars, journal, dl, inst, strange, overlap>>
  BY DEF BeginPublish, CommitPublish, StartCheck, ShowCheck, screenVars
<1>8. QED BY <1>3, <1>4, <1>5, <1>6, <1>7, NothingOfThreads

\* A thread that has no file, or keeps what it verified, moves on without touching a file.
LEMMA FilesStayApart ==
    ASSUME UpdTypes, FilesAreApart, UNCHANGED fileVars, NEW d \in Downloads,
           \A e \in Downloads \ {d} : dl'[e] = dl[e],
           ~FillsPart(d), ~FillsPart(d)', dl'[d].pc # "get",
           \/ dl[d].pc \in {"unused", "start"}
           \/ /\ dl'[d].build = dl[d].build /\ dl[d].pc # "verify"
              /\ dl'[d].pc \in {"install", "over"}
    PROVE  FilesAreApart'
<1>1. UNCHANGED <<part, target, disk>>
  BY DEF fileVars
<1>2. part \in [Builds -> Downloads \cup {None}] /\ target \in [Builds -> Downloads \cup {None}]
  BY DEF UpdTypes
<1>3. ASSUME NEW b \in Builds, part[b] # None
      PROVE  FillsPart(part[b])' /\ dl'[part[b]].build = b
  <2>1. FillsPart(part[b]) /\ dl[part[b]].build = b
    BY <1>3 DEF FilesAreApart
  <2>2. part[b] \in Downloads \ {d}
    BY <1>2, <1>3, <2>1
  <2>3. QED BY <1>1, <2>1, <2>2 DEF FillsPart
<1>4. ASSUME NEW e \in Downloads, FillsPart(e)'
      PROVE  dl'[e].file = e
  BY <1>4 DEF FilesAreApart, FillsPart
<1>5. ASSUME NEW e \in Downloads, FillsPart(e)' \/ dl'[e].pc = "get"
      PROVE  target[dl'[e].build] = None
  <2>1. e # d
    BY <1>5
  <2>2. dl'[e] = dl[e]
    BY <2>1
  <2>3. FillsPart(e) \/ dl[e].pc = "get"
    BY <1>5, <2>2 DEF FillsPart
  <2>4. QED BY <2>2, <2>3 DEF FilesAreApart
<1>6. ASSUME NEW b \in Builds, target[b] # None
      PROVE  /\ dl'[target[b]].build = b
             /\ \/ dl'[target[b]].pc = "verify"
                \/ dl'[target[b]].pc \in {"install", "over"} /\ disk[target[b]] = <<b, b>>
  <2> DEFINE e == target[b]
  <2>1. /\ e \in Downloads /\ dl[e].build = b
        /\ \/ dl[e].pc = "verify"
           \/ dl[e].pc \in {"install", "over"} /\ disk[e] = <<b, b>>
    BY <1>2, <1>6 DEF FilesAreApart
  <2> HIDE DEF e
  <2>2. CASE e # d
    BY <2>1, <2>2 DEF e
  <2>3. CASE e = d
    BY <2>1, <2>3 DEF e
  <2>4. QED BY <2>2, <2>3
<1>7. QED BY <1>1, <1>3, <1>4, <1>5, <1>6 DEF FilesAreApart, FillsPart

\* A thread that starts finds the others over, when nothing overlaps.
LEMMA StartKeeps ==
    ASSUME UpdInv, NEW d \in Downloads, NEW b \in Builds, NEW metered \in BOOLEAN,
           StartDownload(d, b, metered), UNCHANGED <<fileVars, inst, strange>>, prompt' = None,
           journal' \in [shown : BOOLEAN, accepted : BOOLEAN, violations : BOOLEAN],
           UNCHANGED <<pubVars, checks, asking, offered>>,
           ~overlap /\ Calm =>
               ~journal'.violations /\ (metered => journal'.accepted)
    PROVE  UpdKept
<1> USE DEF UpdInv
<1>1. /\ dl' \in [Downloads -> DownloadThread]
      /\ dl[d].pc = "unused"
      /\ dl'[d].pc = "start" /\ dl'[d].build = b /\ dl'[d].metered = metered
      /\ \A e \in Downloads \ {d} : dl'[e] = dl[e]
      /\ overlap' = (overlap \/ Busy)
  BY StartedThread
<1>2. UpdTypes'
  <2>1. overlap' \in BOOLEAN
    BY <1>1 DEF UpdTypes, Busy
  <2>2. QED BY <1>1, <2>1 DEF UpdTypes, fileVars, pubVars
<1>3. ThreadsHaveBuilds'
  BY <1>1 DEF ThreadsHaveBuilds
<1>4. ASSUME ~overlap' PROVE Calm'
  <2>1. ~overlap /\ Calm /\ \A e \in Downloads : ~UnderWay(e)
    BY <1>1, <1>4 DEF Busy, UnderWay
  <2>2. OneAtATime' /\ \A e \in Downloads \ {d} : ~UnderWay(e)'
    BY <1>1, <2>1 DEF OneAtATime, UnderWay
  <2>3. ConsentIsNoted'
    <3>1. ~journal'.violations /\ (metered => journal'.accepted)
      BY <2>1
    <3>2. QED BY <1>1, <2>2, <3>1 DEF ConsentIsNoted
  <2>4. FilesAreApart'
    BY <1>1, <2>1, FilesStayApart DEF Calm, FillsPart
  <2>5. HandedIsVerified'
    BY <1>1, <2>1 DEF Calm, HandedIsVerified, HandedOver, VerifyDownload, fileVars,
                      ThreadsHaveBuilds
  <2>6. QED BY <2>1, <2>2, <2>3, <2>4, <2>5 DEF Calm
<1>5. QED BY <1>2, <1>3, <1>4 DEF UpdKept

LEMMA ConsentKeeps ==
    ASSUME UpdInv, NEW d \in Downloads,
           Consent(d) \/ Decline \/ \E metered \in BOOLEAN : Tap(d, metered)
    PROVE  UpdKept
<1> USE DEF UpdInv
<1>0. offered \in Builds \cup {None} /\ prompt \in Builds \cup {None}
  BY DEF UpdTypes
<1>1. CASE Tap(d, FALSE)
  <2>1. StartDownload(d, offered, FALSE) /\ offered \in Builds /\ UNCHANGED <<prompt, journal>>
        /\ prompt = None
    BY <1>0, <1>1 DEF Tap
  <2>2. UNCHANGED <<pubVars, checks, asking, offered, fileVars, inst, strange>>
    BY <1>1 DEF Tap
  <2>3. journal' \in [shown : BOOLEAN, accepted : BOOLEAN, violations : BOOLEAN]
    BY <2>1 DEF UpdTypes
  <2>4. ~overlap /\ Calm => ~journal'.violations
    BY <2>1 DEF Calm, ConsentIsNoted
  <2>5. QED BY <2>1, <2>2, <2>3, <2>4, StartKeeps
<1>2. CASE Tap(d, TRUE)
  <2>1. /\ prompt' = offered /\ offered # None /\ Beat("SHOWN", TRUE)
        /\ overlap' = (overlap \/ Busy)
        /\ UNCHANGED <<dl, pubVars, checks, asking, offered, fileVars, inst, strange>>
    BY <1>2 DEF Tap
  <2>2. journal' = [journal EXCEPT !.shown = TRUE, !.accepted = FALSE]
    BY <2>1, BeatsAreChecked
  <2>3. UpdTypes'
    <3>1. journal' \in [shown : BOOLEAN, accepted : BOOLEAN, violations : BOOLEAN]
      BY <2>1, BeatTyped
    <3>2. overlap' \in BOOLEAN /\ prompt' \in Builds \cup {None}
      BY <1>0, <2>1 DEF UpdTypes, Busy
    <3>3. QED BY <2>1, <3>1, <3>2 DEF UpdTypes, fileVars, pubVars
  <2>4. ASSUME ~overlap' PROVE Calm'
    <3>1. ~overlap /\ Calm /\ \A e \in Downloads : ~UnderWay(e)
      BY <2>1, <2>4 DEF Busy, UnderWay
    <3>2. journal'.shown /\ journal'.violations = journal.violations
      BY <2>2 DEF UpdTypes
    <3>3. OneAtATime' /\ ConsentIsNoted'
      BY <2>1, <3>1, <3>2 DEF Calm, OneAtATime, ConsentIsNoted, UnderWay
    <3>4. FilesAreApart' /\ HandedIsVerified'
      BY <2>1, <3>1 DEF Calm, FilesAreApart, HandedIsVerified, FillsPart, HandedOver,
                        VerifyDownload, fileVars
    <3>5. QED BY <2>1, <3>1, <3>3, <3>4 DEF Calm
  <2>5. QED BY <2>1, <2>3, <2>4 DEF UpdKept, ThreadsHaveBuilds
<1>3. CASE Consent(d)
  <2>1. /\ prompt \in Builds /\ prompt' = None /\ Beat("ACCEPTED", TRUE)
        /\ StartDownload(d, prompt, TRUE)
        /\ UNCHANGED <<pubVars, checks, asking, offered, fileVars, inst, strange>>
    BY <1>0, <1>3 DEF Consent
  <2>2. journal' \in [shown : BOOLEAN, accepted : BOOLEAN, violations : BOOLEAN]
    BY <2>1, BeatTyped
  <2>3. journal' = IF journal.shown THEN [journal EXCEPT !.accepted = TRUE]
                   ELSE [journal EXCEPT !.violations = TRUE]
    BY <2>1, BeatsAreChecked
  <2>4. ASSUME ~overlap /\ Calm PROVE ~journal'.violations /\ journal'.accepted
    <3>1. journal.shown /\ ~journal.violations
      BY <1>3, <2>4 DEF Calm, ConsentIsNoted, Consent
    <3>2. QED BY <2>3, <3>1 DEF UpdTypes
  <2>5. QED BY <2>1, <2>2, <2>4, StartKeeps
<1>4. CASE Decline
  <2>1. /\ prompt # None /\ prompt' = None /\ Beat("DECLINED", TRUE)
        /\ UNCHANGED <<pubVars, checks, asking, offered, fileVars, dl, inst, strange, overlap>>
    BY <1>4 DEF Decline
  <2>2. journal' = [shown |-> FALSE, accepted |-> FALSE,
                    violations |-> journal.violations \/ ~journal.shown]
    BY <2>1, BeatsAreChecked
  <2>3. UpdTypes'
    <3>1. journal' \in [shown : BOOLEAN, accepted : BOOLEAN, violations : BOOLEAN]
      BY <2>1, BeatTyped
    <3>2. QED BY <2>1, <3>1 DEF UpdTypes, fileVars, pubVars
  <2>4. ASSUME ~overlap' PROVE Calm'
    <3>1. Calm /\ journal.shown /\ ~journal.violations /\ \A e \in Downloads : ~UnderWay(e)
      BY <2>1, <2>4 DEF Calm, ConsentIsNoted, OneAtATime
    <3>2. ~journal'.violations
      BY <2>2, <3>1
    <3>3. OneAtATime' /\ ConsentIsNoted'
      BY <2>1, <3>1, <3>2 DEF Calm, OneAtATime, ConsentIsNoted, UnderWay
    <3>4. FilesAreApart' /\ HandedIsVerified'
      BY <2>1, <3>1 DEF Calm, FilesAreApart, HandedIsVerified, FillsPart, HandedOver,
                        VerifyDownload, fileVars
    <3>5. QED BY <2>1, <3>1, <3>3, <3>4 DEF Calm
  <2>5. QED BY <2>1, <2>3, <2>4 DEF UpdKept, ThreadsHaveBuilds
<1>5. QED BY <1>1, <1>2, <1>3, <1>4

--------------------------------------------------------------------------------
(* ... in a download thread ...                                             *)

\* Who has a file, seen from the one thread that runs.
LEMMA WhoseFiles ==
    ASSUME UpdTypes, Calm, NEW d \in Downloads, UnderWay(d)
    PROVE  /\ \A b \in Builds : part[b] # None =>
                  FillsPart(d) /\ part[b] = d /\ b = dl[d].build
           /\ \A b \in Builds : target[b] # None =>
                  /\ target[b] \in Downloads /\ dl[target[b]].build = b
                  /\ \/ target[b] = d /\ dl[d].pc = "verify"
                     \/ disk[target[b]] = <<b, b>> /\ dl[target[b]].pc \in {"install", "over"}
<1>1. part \in [Builds -> Downloads \cup {None}] /\ target \in [Builds -> Downloads \cup {None}]
  BY DEF UpdTypes
<1>2. ASSUME NEW b \in Builds, part[b] # None
      PROVE  FillsPart(d) /\ part[b] = d /\ b = dl[d].build
  <2>1. part[b] \in Downloads /\ FillsPart(part[b]) /\ dl[part[b]].build = b
    BY <1>1, <1>2 DEF Calm, FilesAreApart
  <2>2. UnderWay(part[b])
    BY <2>1 DEF FillsPart, UnderWay
  <2>3. part[b] = d
    BY <2>1, <2>2 DEF Calm, OneAtATime
  <2>4. QED BY <2>1, <2>3
<1>3. ASSUME NEW b \in Builds, target[b] # None
      PROVE  /\ target[b] \in Downloads /\ dl[target[b]].build = b
             /\ \/ target[b] = d /\ dl[d].pc = "verify"
                \/ disk[target[b]] = <<b, b>> /\ dl[target[b]].pc \in {"install", "over"}
  <2>1. /\ target[b] \in Downloads /\ dl[target[b]].build = b
        /\ \/ dl[target[b]].pc = "verify"
           \/ dl[target[b]].pc \in {"install", "over"} /\ disk[target[b]] = <<b, b>>
    BY <1>1, <1>3 DEF Calm, FilesAreApart
  <2>2. dl[target[b]].pc = "verify" => target[b] = d
    BY <2>1 DEF Calm, OneAtATime, UnderWay
  <2>3. QED BY <2>1, <2>2
<1>4. QED BY <1>2, <1>3

\* A thread that ends without a file leaves the others theirs.
LEMMA FailedKeeps ==
    ASSUME UpdInv, NEW d \in Downloads, UnderWay(d), dl[d].pc # "install", Failed(d),
           UNCHANGED disk,
           part' = part \/ part' = [part EXCEPT ![dl[d].build] = None],
           target' = target \/ target' = [target EXCEPT ![dl[d].build] = None],
           Calm => /\ part'[dl[d].build] = None /\ target'[dl[d].build] = None
                   /\ ~VerifyDownload(dl[d].build)
    PROVE  UpdKept
<1> USE DEF UpdInv
<1> DEFINE b == dl[d].build
<1>1. /\ Beat(None, dl[d].metered) /\ End(d)
      /\ UNCHANGED <<pubVars, checks, asking, offered, prompt, inst, strange, overlap>>
  BY DEF Failed
<1>2. /\ dl' \in [Downloads -> DownloadThread]
      /\ dl'[d].pc = "over" /\ dl'[d].build = b
      /\ \A e \in Downloads \ {d} : dl'[e] = dl[e]
  BY <1>1, EndedThread
<1>3. b \in Builds /\ dl[d].metered \in BOOLEAN
  BY DEF ThreadsHaveBuilds, UnderWay, UpdTypes, DownloadThread
<1>4. UpdTypes'
  <2>1. journal' \in [shown : BOOLEAN, accepted : BOOLEAN, violations : BOOLEAN]
    BY <1>1, <1>3, BeatTyped
  <2>2. /\ part' \in [Builds -> Downloads \cup {None}]
        /\ target' \in [Builds -> Downloads \cup {None}]
    BY DEF UpdTypes
  <2>3. QED BY <1>1, <1>2, <2>1, <2>2 DEF UpdTypes, pubVars
<1>5. ThreadsHaveBuilds'
  BY <1>1, <1>2, <1>3 DEF ThreadsHaveBuilds
<1>6. ASSUME ~overlap' PROVE Calm'
  <2>1. Calm /\ part'[b] = None /\ target'[b] = None /\ ~VerifyDownload(b)
    BY <1>1, <1>6
  <2>2. OneAtATime' /\ \A e \in Downloads \ {d} : ~UnderWay(e)'
    BY <1>1, <1>2, <2>1, OneMoves DEF Calm
  <2>3. ConsentIsNoted'
    BY <1>1, <1>2, <2>1, ResultIsNoted DEF Calm
  <2>4. FilesAreApart'
    <3>1. \A x \in Builds : part'[x] = None
      BY <1>3, <2>1, WhoseFiles DEF UpdTypes
    <3>2. \A e \in Downloads : ~FillsPart(e)' /\ dl'[e].pc # "get"
      BY <1>2, <2>2 DEF FillsPart, UnderWay
    <3>3. ASSUME NEW x \in Builds, target'[x] # None
          PROVE  /\ dl'[target'[x]].build = x
                 /\ dl'[target'[x]].pc \in {"install", "over"} /\ disk'[target'[x]] = <<x, x>>
      <4>1. x # b /\ target'[x] = target[x]
        BY <1>3, <2>1, <3>3 DEF UpdTypes
      <4>2. target[x] \in Downloads /\ dl[target[x]].build = x /\ target[x] # d
        BY <2>1, <3>3, <4>1, WhoseFiles
      <4>3. disk[target[x]] = <<x, x>> /\ dl[target[x]].pc \in {"install", "over"}
        BY <2>1, <3>3, <4>1, <4>2, WhoseFiles
      <4>4. QED BY <1>2, <4>1, <4>2, <4>3
    <3>4. QED BY <3>1, <3>2, <3>3 DEF FilesAreApart
  <2>5. HandedIsVerified'
    <3> SUFFICES ASSUME NEW e \in Downloads, dl'[e].pc = "install" \/ HandedOver(e)'
                 PROVE  VerifyDownload(dl[e].build)' /\ dl'[e].build = dl[e].build
      BY <1>2 DEF HandedIsVerified, VerifyDownload
    <3>1. e # d /\ dl'[e] = dl[e]
      BY <1>1, <1>2 DEF HandedOver, ThreadsHaveBuilds, UnderWay
    <3>2. VerifyDownload(dl[e].build)
      BY <1>1, <2>1, <3>1 DEF Calm, HandedIsVerified, HandedOver
    <3>3. dl[e].build # b /\ dl[e].build \in Builds
      BY <1>1, <2>1, <3>1, <3>2 DEF HandedOver, ThreadsHaveBuilds
    <3>4. target'[dl[e].build] = target[dl[e].build]
      BY <1>3, <3>3 DEF UpdTypes
    <3>5. QED BY <3>1, <3>2, <3>4 DEF VerifyDownload
  <2>6. QED BY <1>1, <2>1, <2>2, <2>3, <2>4, <2>5 DEF Calm
<1>7. QED BY <1>4, <1>5, <1>6 DEF UpdKept

\* A thread whose file is verified goes on to the installer.
LEMMA VerifiedKeeps ==
    ASSUME UpdInv, NEW d \in Downloads, dl[d].pc \in {"start", "verify"}, Verified(d),
           VerifyDownload(dl[d].build), UNCHANGED <<disk, target>>,
           part' = part \/ part' = [part EXCEPT ![dl[d].build] = None]
    PROVE  UpdKept
<1> USE DEF UpdInv
<1> DEFINE b == dl[d].build
<1>1. /\ Beat(None, dl[d].metered) /\ Move(d, "install")
      /\ UNCHANGED <<pubVars, screenVars, inst, strange, overlap>>
  BY DEF Verified, NotTheScreen
<1>2. /\ dl' \in [Downloads -> DownloadThread]
      /\ dl'[d].pc = "install" /\ dl'[d].build = b
      /\ \A e \in Downloads \ {d} : dl'[e] = dl[e]
  BY <1>1, MovedThread
<1>3. b \in Builds /\ dl[d].metered \in BOOLEAN /\ UnderWay(d) /\ ~FillsPart(d)
  BY DEF ThreadsHaveBuilds, UnderWay, UpdTypes, DownloadThread, FillsPart
<1>4. UpdTypes'
  <2>1. journal' \in [shown : BOOLEAN, accepted : BOOLEAN, violations : BOOLEAN]
    BY <1>1, <1>3, BeatTyped
  <2>2. part' \in [Builds -> Downloads \cup {None}]
    BY DEF UpdTypes
  <2>3. QED BY <1>1, <1>2, <2>1, <2>2 DEF UpdTypes, pubVars, screenVars
<1>5. ThreadsHaveBuilds'
  <2>1. inst[d].pc = "none"
    BY DEF ThreadsHaveBuilds
  <2>2. QED BY <1>1, <1>2, <1>3, <2>1 DEF ThreadsHaveBuilds
<1>6. ASSUME ~overlap' PROVE Calm'
  <2>1. Calm /\ UNCHANGED prompt
    BY <1>1, <1>6 DEF screenVars
  <2>2. OneAtATime' /\ \A e \in Downloads \ {d} : ~UnderWay(e)'
    BY <1>2, <1>3, <2>1, OneMoves DEF Calm
  <2>3. ConsentIsNoted'
    BY <1>1, <1>2, <1>3, <2>1, ResultIsNoted DEF Calm
  <2>4. FilesAreApart'
    <3>1. \A x \in Builds : part'[x] = None
      BY <1>3, <2>1, WhoseFiles DEF UpdTypes
    <3>2. \A e \in Downloads : ~FillsPart(e)' /\ dl'[e].pc # "get"
      BY <1>2, <2>2 DEF FillsPart, UnderWay
    <3>3. ASSUME NEW x \in Builds, target[x] # None
          PROVE  /\ dl'[target[x]].build = x
                 /\ dl'[target[x]].pc \in {"install", "over"} /\ disk[target[x]] = <<x, x>>
      <4>1. CASE target[x] = d
        <5>1. x = b
          BY <1>3, <2>1, <3>3, <4>1, WhoseFiles
        <5>2. disk[target[x]] = <<x, x>>
          BY <5>1 DEF VerifyDownload
        <5>3. QED BY <1>2, <4>1, <5>1, <5>2
      <4>2. CASE target[x] # d
        <5>1. /\ target[x] \in Downloads /\ dl[target[x]].build = x
              /\ disk[target[x]] = <<x, x>> /\ dl[target[x]].pc \in {"install", "over"}
          BY <1>3, <2>1, <3>3, <4>2, WhoseFiles
        <5>2. QED BY <1>2, <4>2, <5>1
      <4>3. QED BY <4>1, <4>2
    <3>4. QED BY <3>1, <3>2, <3>3 DEF FilesAreApart
  <2>5. HandedIsVerified'
    <3> SUFFICES ASSUME NEW e \in Downloads, dl'[e].pc = "install" \/ HandedOver(e)'
                 PROVE  VerifyDownload(dl[e].build) /\ dl'[e].build = dl[e].build
      BY DEF HandedIsVerified, VerifyDownload
    <3>1. CASE e = d
      BY <1>2, <3>1
    <3>2. CASE e # d
      BY <1>1, <1>2, <2>1, <3>2 DEF Calm, HandedIsVerified, HandedOver
    <3>3. QED BY <3>1, <3>2
  <2>6. QED BY <1>1, <2>1, <2>2, <2>3, <2>4, <2>5 DEF Calm
<1>7. QED BY <1>4, <1>5, <1>6 DEF UpdKept

\* Under way and not yet handed over: nothing waits for the file that is fetched or checked.
LEMMA NobodyWaits ==
    ASSUME UpdTypes, ThreadsHaveBuilds, Calm, NEW d \in Downloads, UnderWay(d),
           dl[d].pc # "install", ~VerifyDownload(dl[d].build),
           NEW e \in Downloads, dl[e].pc = "install" \/ HandedOver(e)
    PROVE  e # d /\ VerifyDownload(dl[e].build) /\ dl[e].build \in Builds \ {dl[d].build}
<1>1. e # d /\ dl[e].build \in Builds
  BY DEF HandedOver, ThreadsHaveBuilds, UnderWay
<1>2. VerifyDownload(dl[e].build)
  BY DEF Calm, HandedIsVerified
<1>3. QED BY <1>1, <1>2

\* A step that fetches a file: nothing is noted, the handed files stay.
LEMMA FetchKeeps ==
    ASSUME UpdInv, NEW d \in Downloads, UnderWay(d), dl[d].pc # "install", NotTheScreen,
           UNCHANGED journal,
           dl' \in [Downloads -> DownloadThread], UnderWay(d)', dl'[d].pc # "install",
           dl'[d].build = dl[d].build, dl'[d].metered = dl[d].metered,
           \A e \in Downloads \ {d} : dl'[e] = dl[e],
           part' \in [Builds -> Downloads \cup {None}],
           target' \in [Builds -> Downloads \cup {None}],
           disk' \in [Downloads -> [1..2 -> Builds \cup {0, None}]],
           Calm => /\ ~VerifyDownload(dl[d].build)
                   /\ \A x \in Builds \ {dl[d].build} : VerifyDownload(x) => VerifyDownload(x)'
                   /\ FilesAreApart'
    PROVE  UpdKept
<1> USE DEF UpdInv
<1>1. UNCHANGED <<pubVars, screenVars, inst, strange, overlap>>
  BY DEF NotTheScreen
<1>2. UpdTypes'
  BY <1>1 DEF UpdTypes, pubVars, screenVars
<1>3. ThreadsHaveBuilds'
  <2>1. inst[d].pc = "none" /\ dl[d].build \in Builds
    BY DEF ThreadsHaveBuilds, UnderWay
  <2>2. QED BY <1>1, <2>1 DEF ThreadsHaveBuilds
<1>4. ASSUME ~overlap' PROVE Calm'
  <2>1. Calm /\ UNCHANGED prompt
    BY <1>1, <1>4 DEF screenVars
  <2>2. OneAtATime'
    BY <2>1, OneMoves DEF Calm
  <2>3. ConsentIsNoted'
    BY <2>1 DEF Calm, ConsentIsNoted, UnderWay
  <2>4. HandedIsVerified'
    <3> SUFFICES ASSUME NEW e \in Downloads, dl'[e].pc = "install" \/ HandedOver(e)'
                 PROVE  VerifyDownload(dl[e].build)' /\ dl'[e].build = dl[e].build
      BY DEF HandedIsVerified, VerifyDownload
    <3>1. e # d /\ dl'[e] = dl[e]
      BY <1>1 DEF HandedOver, ThreadsHaveBuilds, UnderWay
    <3>2. dl[e].pc = "install" \/ HandedOver(e)
      BY <1>1, <3>1 DEF HandedOver
    <3>3. VerifyDownload(dl[e].build) /\ dl[e].build \in Builds \ {dl[d].build}
      BY <2>1, <3>2, NobodyWaits
    <3>4. dl'[e].build = dl[e].build
      BY <3>1
    <3>5. \A x \in Builds \ {dl[d].build} : VerifyDownload(x) => VerifyDownload(x)'
      BY <2>1
    <3>6. QED BY <3>3, <3>4, <3>5 DEF VerifyDownload
  <2>5. QED BY <1>1, <2>1, <2>2, <2>3, <2>4 DEF Calm
<1>5. QED BY <1>2, <1>3, <1>4 DEF UpdKept

LEMMA ReuseKeeps == ASSUME UpdInv, NEW d \in Downloads, Reuse(d) PROVE UpdKept
<1> USE DEF UpdInv
<1> DEFINE b == dl[d].build
<1>1. dl[d].pc = "start" /\ UnderWay(d) /\ b \in Builds /\ ~FillsPart(d)
  BY DEF Reuse, At, UnderWay, ThreadsHaveBuilds, FillsPart
<1>2. CASE VerifyDownload(b)
  BY <1>1, <1>2, VerifiedKeeps DEF Reuse, fileVars
<1>3. CASE ~VerifyDownload(b)
  <2>1. /\ target' = [target EXCEPT ![b] = None] /\ Move(d, "get")
        /\ NotTheScreen /\ UNCHANGED <<part, disk, journal>>
    BY <1>3 DEF Reuse
  <2>2. /\ dl' \in [Downloads -> DownloadThread]
        /\ dl'[d].pc = "get" /\ dl'[d].build = b /\ dl'[d].metered = dl[d].metered
        /\ \A e \in Downloads \ {d} : dl'[e] = dl[e]
    BY <2>1, MovedThread
  <2>3. /\ part' \in [Builds -> Downloads \cup {None}]
        /\ target' \in [Builds -> Downloads \cup {None}]
        /\ disk' \in [Downloads -> [1..2 -> Builds \cup {0, None}]]
        /\ target'[b] = None /\ \A x \in Builds \ {b} : target'[x] = target[x]
    BY <1>1, <2>1 DEF UpdTypes
  <2>4. \A x \in Builds \ {b} : VerifyDownload(x) => VerifyDownload(x)'
    BY <2>1, <2>3 DEF VerifyDownload
  <2>5. ASSUME Calm PROVE FilesAreApart'
    <3>1. \A x \in Builds : part'[x] = None
      BY <1>1, <2>1, <2>5, WhoseFiles
    <3>2. \A e \in Downloads : ~FillsPart(e)' /\ (dl'[e].pc = "get" => dl'[e].build = b)
      BY <1>1, <2>2, <2>5 DEF FillsPart, UnderWay, Calm, OneAtATime
    <3>3. ASSUME NEW x \in Builds, target'[x] # None
          PROVE  /\ dl'[target'[x]].build = x
                 /\ dl'[target'[x]].pc \in {"install", "over"} /\ disk'[target'[x]] = <<x, x>>
      <4>1. x # b /\ target'[x] = target[x]
        BY <2>3, <3>3
      <4>2. /\ target[x] \in Downloads /\ dl[target[x]].build = x /\ target[x] # d
            /\ disk[target[x]] = <<x, x>> /\ dl[target[x]].pc \in {"install", "over"}
        BY <1>1, <2>5, <3>3, <4>1, WhoseFiles
      <4>3. QED BY <2>1, <2>2, <4>1, <4>2
    <3>4. QED BY <2>3, <3>1, <3>2, <3>3 DEF FilesAreApart
  <2>6. UnderWay(d)'
    BY <2>2 DEF UnderWay
  <2>7. QED BY <1>1, <1>3, <2>1, <2>2, <2>3, <2>4, <2>5, <2>6, FetchKeeps
<1>4. QED BY <1>2, <1>3

LEMMA GetKeeps == ASSUME UpdInv, NEW d \in Downloads, Get(d) PROVE UpdKept
<1> USE DEF UpdInv
<1> DEFINE b == dl[d].build
           f == IF part[b] = None THEN d ELSE part[b]
<1>1. dl[d].pc = "get" /\ UnderWay(d) /\ b \in Builds /\ ~FillsPart(d)
  BY DEF Get, At, UnderWay, ThreadsHaveBuilds, FillsPart
<1>2. /\ part' = [part EXCEPT ![b] = f]
      /\ disk' = [disk EXCEPT ![f] = Empty]
      /\ dl' = [dl EXCEPT ![d].pc = "first block", ![d].file = f, ![d].serves = LatestUpdate]
      /\ NotTheScreen /\ UNCHANGED <<target, journal>>
  BY DEF Get
<1>3. f \in Downloads /\ LatestUpdate \in Builds \cup {0}
  BY <1>1, LatestIsHighest DEF UpdTypes
<1>4. Calm => f = d
  BY <1>1, WhoseFiles
<1> HIDE DEF f
<1>5. /\ dl' \in [Downloads -> DownloadThread]
      /\ dl'[d].pc = "first block" /\ dl'[d].build = b /\ dl'[d].metered = dl[d].metered
      /\ dl'[d].file = f
      /\ \A e \in Downloads \ {d} : dl'[e] = dl[e]
  <2> DEFINE t == [dl[d] EXCEPT !.pc = "first block", !.file = f, !.serves = LatestUpdate]
  <2>1. dl \in [Downloads -> DownloadThread] /\ dl[d] \in DownloadThread
    BY DEF UpdTypes
  <2>2. LatestUpdate \in Builds \cup {0, None}
    BY <1>3
  <2>3. /\ t \in DownloadThread
        /\ t.pc = "first block" /\ t.build = b /\ t.metered = dl[d].metered /\ t.file = f
    BY <1>3, <2>1, <2>2 DEF DownloadThread
  <2>4. dl' = [dl EXCEPT ![d] = t]
    BY <1>2, <2>1
  <2> HIDE DEF t
  <2>5. QED BY <2>1, <2>3, <2>4
<1>6. /\ part' \in [Builds -> Downloads \cup {None}]
      /\ target' \in [Builds -> Downloads \cup {None}]
      /\ part'[b] = f /\ \A x \in Builds \ {b} : part'[x] = part[x]
      /\ \A e \in Downloads \ {f} : disk'[e] = disk[e]
  BY <1>1, <1>2, <1>3 DEF UpdTypes
<1>7. disk' \in [Downloads -> [1..2 -> Builds \cup {0, None}]]
  <2>1. Empty \in [1..2 -> Builds \cup {0, None}]
    BY DEF Empty
  <2>2. QED BY <1>2, <1>3, <2>1 DEF UpdTypes
<1>8. ASSUME Calm
      PROVE  /\ ~VerifyDownload(b)
             /\ \A x \in Builds \ {b} : VerifyDownload(x) => VerifyDownload(x)'
             /\ FilesAreApart'
  <2>1. target[b] = None
    BY <1>1, <1>8 DEF Calm, FilesAreApart
  <2>2. \A x \in Builds : target[x] # None =>
            /\ target[x] \in Downloads \ {d} /\ dl[target[x]].build = x
            /\ disk[target[x]] = <<x, x>> /\ dl[target[x]].pc \in {"install", "over"}
    BY <1>1, <1>8, WhoseFiles
  <2>3. \A x \in Builds : VerifyDownload(x) => VerifyDownload(x)'
    BY <1>2, <1>4, <1>6, <1>8, <2>2 DEF VerifyDownload
  <2>4. FilesAreApart'
    <3>1. \A x \in Builds : part'[x] # None => x = b /\ part'[x] = d
      BY <1>1, <1>4, <1>6, <1>8, WhoseFiles
    <3>2. FillsPart(d)' /\ dl'[d].file = d /\ target'[b] = None
      BY <1>2, <1>4, <1>5, <1>8, <2>1 DEF FillsPart
    <3>3. \A e \in Downloads : FillsPart(e)' \/ dl'[e].pc = "get" => e = d
      BY <1>1, <1>5, <1>8 DEF FillsPart, UnderWay, Calm, OneAtATime
    <3>4. \A x \in Builds : target'[x] # None =>
             /\ dl'[target'[x]].build = x
             /\ dl'[target'[x]].pc \in {"install", "over"} /\ disk'[target'[x]] = <<x, x>>
      <4>1. UNCHANGED target /\ \A e \in Downloads \ {d} : dl'[e] = dl[e] /\ disk'[e] = disk[e]
        BY <1>2, <1>4, <1>5, <1>6, <1>8
      <4>2. QED BY <2>2, <4>1
    <3>5. QED BY <1>5, <3>1, <3>2, <3>3, <3>4 DEF FilesAreApart
  <2>5. QED BY <2>1, <2>3, <2>4 DEF VerifyDownload
<1>9. UnderWay(d)'
  BY <1>5 DEF UnderWay
<1>10. QED BY <1>1, <1>2, <1>5, <1>6, <1>7, <1>8, <1>9, FetchKeeps

LEMMA WriteBlockKeeps == ASSUME UpdInv, NEW d \in Downloads, WriteBlock(d) PROVE UpdKept
<1> USE DEF UpdInv
<1> DEFINE b == dl[d].build
           k == IF At(d, "first block") THEN 1 ELSE 2
           pc == IF k = 1 THEN "second block" ELSE "rename"
           v == dl[d].serves
           f == dl[d].file
<1>1. /\ dl[d].pc \in {"first block", "second block"} /\ UnderWay(d) /\ b \in Builds
      /\ FillsPart(d)
  BY DEF WriteBlock, UnderWay, ThreadsHaveBuilds, FillsPart
<1>2. /\ disk' = [disk EXCEPT ![f][k] = v] /\ Move(d, pc)
      /\ NotTheScreen /\ UNCHANGED <<part, target, journal>>
  BY DEF WriteBlock
<1>3. k \in 1..2 /\ pc \in {"second block", "rename"} /\ v \in Builds \cup {0, None}
  <2>1. v \in Builds \cup {0, None}
    BY DEF UpdTypes, DownloadThread
  <2>2. k \in 1..2
    OBVIOUS
  <2>3. pc \in {"second block", "rename"}
    OBVIOUS
  <2>4. QED BY <2>1, <2>2, <2>3
<1> HIDE DEF k, pc, v
<1>4. /\ dl' \in [Downloads -> DownloadThread]
      /\ dl'[d].pc = pc /\ dl'[d].build = b /\ dl'[d].metered = dl[d].metered
      /\ dl'[d].file = f
      /\ \A e \in Downloads \ {d} : dl'[e] = dl[e]
  BY <1>2, <1>3, MovedThread
<1>5. /\ part' \in [Builds -> Downloads \cup {None}]
      /\ target' \in [Builds -> Downloads \cup {None}]
  BY <1>2 DEF UpdTypes
<1> HIDE DEF f
<1>6. /\ disk' \in [Downloads -> [1..2 -> Builds \cup {0, None}]]
      /\ \A e \in Downloads \ {f} : disk'[e] = disk[e]
  BY <1>2, <1>3 DEF UpdTypes
<1>7. ASSUME Calm
      PROVE  /\ ~VerifyDownload(b)
             /\ \A x \in Builds \ {b} : VerifyDownload(x) => VerifyDownload(x)'
             /\ FilesAreApart'
  <2>1. target[b] = None /\ f = d
    BY <1>1, <1>7 DEF Calm, FilesAreApart, f
  <2>2. \A x \in Builds : target[x] # None =>
            /\ target[x] \in Downloads \ {d} /\ dl[target[x]].build = x
            /\ disk[target[x]] = <<x, x>> /\ dl[target[x]].pc \in {"install", "over"}
    BY <1>1, <1>7, WhoseFiles
  <2>3. \A x \in Builds : VerifyDownload(x) => VerifyDownload(x)'
    BY <1>2, <1>6, <2>1, <2>2 DEF VerifyDownload
  <2>4. FilesAreApart'
    <3>1. \A x \in Builds : part'[x] # None => x = b /\ part'[x] = d
      BY <1>1, <1>2, <1>7, WhoseFiles
    <3>2. FillsPart(d)' /\ dl'[d].file = d /\ target'[b] = None
      BY <1>2, <1>3, <1>4, <2>1 DEF FillsPart
    <3>3. \A e \in Downloads : FillsPart(e)' \/ dl'[e].pc = "get" => e = d
      BY <1>1, <1>4, <1>7 DEF FillsPart, UnderWay, Calm, OneAtATime
    <3>4. \A x \in Builds : target'[x] # None =>
             /\ dl'[target'[x]].build = x
             /\ dl'[target'[x]].pc \in {"install", "over"} /\ disk'[target'[x]] = <<x, x>>
      BY <1>2, <1>4, <1>6, <2>1, <2>2
    <3>5. QED BY <1>4, <3>1, <3>2, <3>3, <3>4 DEF FilesAreApart
  <2>5. QED BY <2>1, <2>3, <2>4 DEF VerifyDownload
<1>8. UnderWay(d)' /\ dl'[d].pc # "install"
  BY <1>3, <1>4 DEF UnderWay
<1>9. QED BY <1>1, <1>2, <1>4, <1>5, <1>6, <1>7, <1>8, FetchKeeps

LEMMA RenameKeeps == ASSUME UpdInv, NEW d \in Downloads, Rename(d) PROVE UpdKept
<1> USE DEF UpdInv
<1> DEFINE b == dl[d].build
<1>1. dl[d].pc = "rename" /\ UnderWay(d) /\ b \in Builds /\ FillsPart(d)
  BY DEF Rename, At, UnderWay, ThreadsHaveBuilds, FillsPart
<1>2. ASSUME Calm PROVE target[b] = None /\ ~VerifyDownload(b)
  BY <1>1, <1>2 DEF Calm, FilesAreApart, VerifyDownload
<1>3. CASE part[b] = None
  <2>1. Failed(d) /\ UNCHANGED <<part, target, disk>>
    BY <1>3 DEF Rename, fileVars
  <2>2. QED BY <1>1, <1>2, <1>3, <2>1, FailedKeeps
<1>4. CASE part[b] # None
  <2>1. /\ target' = [target EXCEPT ![b] = part[b]] /\ part' = [part EXCEPT ![b] = None]
        /\ Move(d, "verify") /\ NotTheScreen /\ UNCHANGED <<disk, journal>>
    BY <1>4 DEF Rename
  <2>2. /\ dl' \in [Downloads -> DownloadThread]
        /\ dl'[d].pc = "verify" /\ dl'[d].build = b /\ dl'[d].metered = dl[d].metered
        /\ \A e \in Downloads \ {d} : dl'[e] = dl[e]
    BY <2>1, MovedThread
  <2>3. /\ part' \in [Builds -> Downloads \cup {None}]
        /\ target' \in [Builds -> Downloads \cup {None}]
        /\ disk' \in [Downloads -> [1..2 -> Builds \cup {0, None}]]
        /\ part'[b] = None /\ \A x \in Builds \ {b} : part'[x] = part[x]
        /\ target'[b] = part[b] /\ \A x \in Builds \ {b} : target'[x] = target[x]
    BY <1>1, <2>1 DEF UpdTypes
  <2>4. \A x \in Builds \ {b} : VerifyDownload(x) => VerifyDownload(x)'
    BY <2>1, <2>3 DEF VerifyDownload
  <2>5. ASSUME Calm PROVE FilesAreApart'
    <3>1. \A x \in Builds : part'[x] = None
      BY <1>1, <2>3, <2>5, WhoseFiles
    <3>2. \A e \in Downloads : ~FillsPart(e)' /\ dl'[e].pc # "get"
      BY <1>1, <2>2, <2>5 DEF FillsPart, UnderWay, Calm, OneAtATime
    <3>3. ASSUME NEW x \in Builds, target'[x] # None
          PROVE  /\ dl'[target'[x]].build = x
                 /\ \/ dl'[target'[x]].pc = "verify"
                    \/ dl'[target'[x]].pc \in {"install", "over"} /\ disk'[target'[x]] = <<x, x>>
      <4>1. CASE x = b
        <5>1. target'[x] = d
          BY <1>1, <1>4, <2>3, <2>5, <4>1, WhoseFiles
        <5>2. QED BY <2>2, <4>1, <5>1
      <4>2. CASE x # b
        <5>1. target'[x] = target[x]
          BY <2>3, <4>2
        <5>2. /\ target[x] \in Downloads \ {d} /\ dl[target[x]].build = x
              /\ disk[target[x]] = <<x, x>> /\ dl[target[x]].pc \in {"install", "over"}
          <6>1. target[x] # None
            BY <3>3, <5>1
          <6>2. \/ target[x] = d /\ dl[d].pc = "verify"
                \/ disk[target[x]] = <<x, x>> /\ dl[target[x]].pc \in {"install", "over"}
            BY <1>1, <2>5, <6>1, WhoseFiles
          <6>3. target[x] \in Downloads /\ dl[target[x]].build = x
            BY <1>1, <2>5, <6>1, WhoseFiles
          <6>4. QED BY <1>1, <6>2, <6>3
        <5>3. QED BY <2>1, <2>2, <5>1, <5>2
      <4>3. QED BY <4>1, <4>2
    <3>4. QED BY <3>1, <3>2, <3>3 DEF FilesAreApart
  <2>6. UnderWay(d)'
    BY <2>2 DEF UnderWay
  <2>7. QED BY <1>1, <1>2, <2>1, <2>2, <2>3, <2>4, <2>5, <2>6, FetchKeeps
<1>5. QED BY <1>3, <1>4

LEMMA VerifyKeeps == ASSUME UpdInv, NEW d \in Downloads, Verify(d) PROVE UpdKept
<1> USE DEF UpdInv
<1> DEFINE b == dl[d].build
<1>1. dl[d].pc = "verify" /\ UnderWay(d) /\ b \in Builds
  BY DEF Verify, At, UnderWay, ThreadsHaveBuilds
<1>2. part' = [part EXCEPT ![b] = None] /\ UNCHANGED disk
  BY DEF Verify
<1>3. CASE VerifyDownload(b)
  BY <1>1, <1>2, <1>3, VerifiedKeeps DEF Verify
<1>4. CASE ~VerifyDownload(b)
  <2>1. Failed(d) /\ target' = [target EXCEPT ![b] = None]
    BY <1>4 DEF Verify
  <2>2. part'[b] = None /\ target'[b] = None
    BY <1>1, <1>2, <2>1 DEF UpdTypes
  <2>3. QED BY <1>1, <1>2, <1>4, <2>1, <2>2, FailedKeeps
<1>5. QED BY <1>3, <1>4

LEMMA BreakKeeps == ASSUME UpdInv, NEW d \in Downloads, Break(d) PROVE UpdKept
<1> USE DEF UpdInv
<1> DEFINE b == dl[d].build
<1>1. /\ dl[d].pc \in {"get", "first block", "second block"} /\ UnderWay(d) /\ b \in Builds
      /\ FillsPart(d) \/ dl[d].pc = "get"
  BY DEF Break, UnderWay, ThreadsHaveBuilds, FillsPart
<1>2. /\ part' = [part EXCEPT ![b] = None] /\ UNCHANGED disk /\ Failed(d)
      /\ target' = target \/ target' = [target EXCEPT ![b] = None]
  BY DEF Break
<1>3. ASSUME Calm PROVE part'[b] = None /\ target'[b] = None /\ ~VerifyDownload(b)
  <2>1. target[b] = None
    BY <1>1, <1>3 DEF Calm, FilesAreApart
  <2>2. QED BY <1>1, <1>2, <2>1 DEF UpdTypes, VerifyDownload
<1>4. QED BY <1>1, <1>2, <1>3, FailedKeeps

--------------------------------------------------------------------------------
(* ... and at the installer.                                                *)

\* A hand-off gives the session the bytes behind the name, or fails.
LEMMA HandedBytes ==
    ASSUME UpdTypes, NEW d \in Downloads, NEW n \in Nat, HandOff(d, n)
    PROVE  /\ inst' \in [Downloads -> Session] /\ strange' \in BOOLEAN
           /\ inst'[d].pc \in {"committed", "failed"}
           /\ \A e \in Downloads \ {d} : inst'[e] = inst[e]
           /\ VerifyDownload(dl[d].build) /\ ~strange => ~strange'
<1>1. /\ inst' = [inst EXCEPT ![d] = [pc |-> "committed", attempt |-> n]]
         \/ inst' = [inst EXCEPT ![d] = [pc |-> "failed", attempt |-> n]]
      /\ \/ /\ target[dl[d].build] # None
            /\ strange' = (strange \/ disk[target[dl[d].build]] # <<dl[d].build, dl[d].build>>)
         \/ strange' = strange
  BY DEF HandOff
<1>2. inst' \in [Downloads -> Session] /\ inst'[d].pc \in {"committed", "failed"}
  <2>1. PICK pc \in {"committed", "failed"} :
            inst' = [inst EXCEPT ![d] = [pc |-> pc, attempt |-> n]]
    BY <1>1
  <2> DEFINE session == [pc |-> pc, attempt |-> n]
  <2>2. session \in Session /\ session.pc \in {"committed", "failed"}
    BY DEF Session
  <2>3. inst \in [Downloads -> Session] /\ inst' = [inst EXCEPT ![d] = session]
    BY <2>1 DEF UpdTypes
  <2> HIDE DEF session
  <2>4. QED BY <2>2, <2>3
<1>3. \A e \in Downloads \ {d} : inst'[e] = inst[e]
  BY <1>1 DEF UpdTypes
<1>4. strange' \in BOOLEAN
  BY <1>1 DEF UpdTypes
<1>5. VerifyDownload(dl[d].build) /\ ~strange => ~strange'
  BY <1>1 DEF VerifyDownload
<1>6. QED BY <1>2, <1>3, <1>4, <1>5

LEMMA InstallKeeps == ASSUME UpdInv, NEW d \in Downloads, Install(d) PROVE UpdKept
<1> USE DEF UpdInv
<1>1. /\ dl[d].pc = "install" /\ HandOff(d, 1) /\ End(d) /\ UnderWay(d)
      /\ UNCHANGED <<pubVars, checks, asking, offered, prompt, fileVars, journal, overlap>>
  BY DEF Install, At, UnderWay
<1>2. /\ dl' \in [Downloads -> DownloadThread]
      /\ dl'[d].pc = "over" /\ dl'[d].build = dl[d].build
      /\ \A e \in Downloads \ {d} : dl'[e] = dl[e]
  BY <1>1, EndedThread
<1>3. /\ inst' \in [Downloads -> Session] /\ strange' \in BOOLEAN
      /\ \A e \in Downloads \ {d} : inst'[e] = inst[e]
      /\ VerifyDownload(dl[d].build) /\ ~strange => ~strange'
  BY <1>1, HandedBytes
<1>4. UpdTypes'
  BY <1>1, <1>2, <1>3 DEF UpdTypes, pubVars, fileVars
<1>5. ThreadsHaveBuilds'
  BY <1>1, <1>2, <1>3 DEF ThreadsHaveBuilds
<1>6. ASSUME ~overlap' PROVE Calm'
  <2>1. Calm /\ VerifyDownload(dl[d].build)
    BY <1>1, <1>6 DEF Calm, HandedIsVerified
  <2>2. OneAtATime' /\ \A e \in Downloads \ {d} : ~UnderWay(e)'
    BY <1>1, <1>2, <2>1, OneMoves DEF Calm
  <2>3. ConsentIsNoted'
    BY <1>1, <1>2, <2>1 DEF Calm, ConsentIsNoted, UnderWay
  <2>4. FilesAreApart'
    <3>1. ~FillsPart(d) /\ ~FillsPart(d)'
      BY <1>1, <1>2 DEF FillsPart
    <3>2. QED BY <1>1, <1>2, <2>1, <3>1, FilesStayApart DEF Calm
  <2>5. HandedIsVerified'
    <3> SUFFICES ASSUME NEW e \in Downloads, dl'[e].pc = "install" \/ HandedOver(e)'
                 PROVE  VerifyDownload(dl[e].build) /\ dl'[e].build = dl[e].build
      BY <1>1 DEF HandedIsVerified, VerifyDownload, fileVars
    <3>1. CASE e = d
      BY <1>2, <2>1, <3>1
    <3>2. CASE e # d
      BY <1>2, <1>3, <2>1, <3>2 DEF Calm, HandedIsVerified, HandedOver
    <3>3. QED BY <3>1, <3>2
  <2>6. QED BY <1>3, <2>1, <2>2, <2>3, <2>4, <2>5 DEF Calm
<1>7. QED BY <1>4, <1>5, <1>6 DEF UpdKept

\* The installer's answers, and the retry, move a session that the pin was verified for.
LEMMA SessionMoves ==
    ASSUME UpdInv, NEW d \in Downloads, HandedOver(d),
           UNCHANGED <<pubVars, screenVars, fileVars, journal, dl, overlap>>,
           inst' \in [Downloads -> Session], \A e \in Downloads \ {d} : inst'[e] = inst[e],
           strange' \in BOOLEAN, VerifyDownload(dl[d].build) /\ ~strange => ~strange'
    PROVE  UpdKept
<1> USE DEF UpdInv
<1>1. UpdTypes'
  BY DEF UpdTypes, pubVars, screenVars, fileVars
<1>2. ThreadsHaveBuilds'
  BY DEF ThreadsHaveBuilds, HandedOver
<1>3. ASSUME ~overlap' PROVE Calm'
  <2>1. Calm /\ VerifyDownload(dl[d].build)
    BY <1>3 DEF Calm, HandedIsVerified
  <2>2. OneAtATime' /\ ConsentIsNoted' /\ FilesAreApart'
    BY <2>1 DEF Calm, OneAtATime, ConsentIsNoted, FilesAreApart, UnderWay, FillsPart,
                screenVars, fileVars
  <2>3. HandedIsVerified'
    <3> SUFFICES ASSUME NEW e \in Downloads, dl[e].pc = "install" \/ HandedOver(e)'
                 PROVE  VerifyDownload(dl[e].build)
      BY DEF HandedIsVerified, VerifyDownload, fileVars
    <3>1. QED BY <2>1 DEF Calm, HandedIsVerified, HandedOver
  <2>4. QED BY <2>1, <2>2, <2>3 DEF Calm
<1>4. QED BY <1>1, <1>2, <1>3 DEF UpdKept

LEMMA MinOfTwo == \A a, b \in Nat : Min({a, b}) \in Nat
<1> SUFFICES ASSUME NEW a \in Nat, NEW b \in Nat PROVE Min({a, b}) \in Nat
  OBVIOUS
<1>1. \E x \in {a, b} : \A y \in {a, b} : x <= y
  OBVIOUS
<1>2. Min({a, b}) \in {a, b}
  BY <1>1 DEF Min
<1>3. QED BY <1>2

LEMMA InstallerKeeps ==
    ASSUME UpdInv, NEW d \in Downloads, Answer(d) \/ RetryInstall(d)
    PROVE  UpdKept
<1> USE DEF UpdInv
<1>1. ASSUME NEW pc \in {"prompted", "installed", "settling", "failed"}, HandedOver(d),
             inst' = [inst EXCEPT ![d].pc = pc], UNCHANGED strange, InstallerOnly
      PROVE  UpdKept
  <2>1. inst' \in [Downloads -> Session] /\ \A e \in Downloads \ {d} : inst'[e] = inst[e]
    BY <1>1 DEF UpdTypes, Session
  <2>2. strange' \in BOOLEAN
    BY <1>1 DEF UpdTypes
  <2>3. QED BY <1>1, <2>1, <2>2, SessionMoves DEF InstallerOnly
<1>2. CASE AskOwner(d)
  BY <1>1, <1>2 DEF AskOwner, HandedOver
<1>3. CASE Installed(d)
  BY <1>1, <1>3 DEF Installed, HandedOver
<1>4. ASSUME NEW race \in BOOLEAN, Refused(d, race) PROVE UpdKept
  BY <1>1, <1>4 DEF Refused, HandedOver
<1>5. CASE RetryInstall(d)
  <2>1. /\ HandedOver(d) /\ InstallerOnly
        /\ HandOff(d, Min({inst[d].attempt + 1, InstallMaxAttempts}))
    BY <1>5 DEF RetryInstall, HandedOver
  <2>2. Min({inst[d].attempt + 1, InstallMaxAttempts}) \in Nat
    <3>1. inst[d].attempt + 1 \in Nat /\ InstallMaxAttempts \in Nat
      BY UpdateAssumption DEF UpdTypes, Session
    <3>2. QED BY <3>1, MinOfTwo
  <2>3. QED BY <2>1, <2>2, HandedBytes, SessionMoves DEF InstallerOnly
<1>6. QED BY <1>2, <1>3, <1>4, <1>5 DEF Answer

LEMMA UpdInvNext == UpdInv /\ [UpdNext]_updVars => UpdInv'
<1> SUFFICES ASSUME UpdInv, [UpdNext]_updVars PROVE UpdInv'
  OBVIOUS
<1>1. HighestIsThere'
  BY HighestStaysThere DEF UpdInv
<1>2. UpdKept
  <2>1. CASE UNCHANGED updVars
    <3>1. UpdTypes'
      BY <2>1 DEF UpdInv, UpdTypes, updVars, pubVars, screenVars, fileVars
    <3>2. QED BY <2>1, <3>1, NothingOfThreads DEF updVars, screenVars
  <2>2. CASE UpdNext
    <3>1. CASE \/ \E p \in Publishers : (\E b \in Builds : BeginPublish(p, b)) \/ CommitPublish(p)
               \/ StartCheck \/ ShowCheck
      BY <3>1, ScreenKeeps
    <3>2. CASE Decline
      <4>1. 1 \in Downloads
        BY UpdateAssumption DEF Downloads
      <4>2. QED BY <3>2, <4>1, ConsentKeeps
    <3>3. ASSUME NEW d \in Downloads,
                 \/ (\E metered \in BOOLEAN : Tap(d, metered)) \/ Consent(d)
                 \/ Step(d) \/ Answer(d)
          PROVE  UpdKept
      BY <3>3, ConsentKeeps, ReuseKeeps, GetKeeps, WriteBlockKeeps, RenameKeeps, VerifyKeeps,
         BreakKeeps, InstallKeeps, InstallerKeeps DEF Step
    <3>4. QED BY <2>2, <3>1, <3>2, <3>3 DEF UpdNext
  <2>3. QED BY <2>1, <2>2
<1>3. QED BY <1>1, <1>2 DEF UpdKept, UpdInv

LEMMA UpdInvHolds == UpdSpec => []UpdInv
BY UpdInvInit, UpdInvNext, PTL DEF UpdSpec

(* The journal of an update accuses no download that ran alone: a metered one had   *)
(* the owner's consent, which the result's beat then used up (consentViolations).    *)
THEOREM JournalProvesConsentHolds == UpdSpec => []JournalProvesConsent
<1>1. UpdInv => JournalProvesConsent
  BY DEF UpdInv, Calm, ConsentIsNoted, JournalProvesConsent
<1>2. QED BY <1>1, UpdInvHolds, PTL

(* As long as downloads do not overlap, an installer session is given the bytes the  *)
(* manifest pinned, also by the retry of an earlier session while a later download   *)
(* runs (download, verifyDownload, UpdateInstallReceiver.kt).                         *)
THEOREM OnlyPinnedBytesInstalledHolds == UpdSpec => []OnlyPinnedBytesInstalled
<1>1. UpdInv => OnlyPinnedBytesInstalled
  BY DEF UpdInv, Calm, OnlyPinnedBytesInstalled
<1>2. QED BY <1>1, UpdInvHolds, PTL

(* The build that phones are offered never goes back, in whatever order the publishes *)
(* that passed the check commit (routes/cas-updates.ts).                              *)
THEOREM PinNeverGoesBackHolds == UpdSpec => PinNeverGoesBack
<1>1. UpdInv /\ [UpdNext]_updVars => [LatestUpdate' >= LatestUpdate]_updVars
  BY HighestStaysThere DEF UpdInv
<1>2. QED BY <1>1, UpdInvHolds, PTL DEF UpdSpec, PinNeverGoesBack
================================================================================
