----------------------------- MODULE SmsSegmenter -----------------------------
(* How an alert body becomes SMS segments (SmsSegmenter.kt). A body is a sequence  *)
(* of UTF-16 units, of which only the kind matters: "basic" and "extended" are in  *)
(* the GSM-7 tables, "wide" is any other unit, "high" and "low" are surrogates. The *)
(* two loops are one machine that takes a character, or a surrogate pair, a step.   *)
EXTENDS Integers, Sequences, FiniteSets

CONSTANTS
    MaxLength,                          \* bound: length of a body
    Gsm7Single, Gsm7Concat,             \* septets: 160 and 153
    UnicodeSingle, UnicodeConcat        \* units: 70 and 67

ASSUME SegmenterAssumption ==
    /\ MaxLength \in Nat
    /\ {Gsm7Single, Gsm7Concat, UnicodeSingle, UnicodeConcat} \subseteq Nat
    /\ 2 <= Gsm7Concat /\ Gsm7Concat <= Gsm7Single
    /\ 2 <= UnicodeConcat /\ UnicodeConcat <= UnicodeSingle

Gsm7Kinds == {"basic", "extended"}
Kinds == Gsm7Kinds \cup {"wide", "high", "low"}

VARIABLES
    body, encoding,
    index,          \* units taken so far
    ends,           \* where the finished segments end
    size,           \* septets or units in the segment under way
    planned         \* the plan is complete

segmentVars == <<body, encoding, index, ends, size, planned>>

\* classify.
Classify(b) ==
    IF \A i \in 1..Len(b) : b[i] \in Gsm7Kinds THEN "GSM7" ELSE "UNICODE"

\* A blank body is refused before it is planned.
SegmentInit ==
    /\ body \in UNION {[1..n -> Kinds] : n \in 1..MaxLength}
    /\ encoding = Classify(body)
    /\ index = 0 /\ ends = <<>> /\ size = 0 /\ planned = FALSE

Cost(kind) == IF kind = "extended" THEN 2 ELSE 1

PairAt(i) ==
    /\ i + 1 <= Len(body)
    /\ body[i] = "high" /\ body[i + 1] = "low"

\* Mutant of UnitLength: a pair is two units.
OneUnit(i) == 1

\* What may not be divided, in units of the body ...
UnitLength(i) == IF encoding = "UNICODE" /\ PairAt(i) THEN 2 ELSE 1

\* ... and what it takes of a segment.
SizeAt(i) == IF encoding = "GSM7" THEN Cost(body[i]) ELSE UnitLength(i)

Single == IF encoding = "GSM7" THEN Gsm7Single ELSE UnicodeSingle
Concat == IF encoding = "GSM7" THEN Gsm7Concat ELSE UnicodeConcat

\* gsm7Septets(body), which sums the costs: one a character, and one more for some; or its length.
BodySize ==
    IF encoding = "GSM7" THEN Len(body) + Cardinality({i \in 1..Len(body) : Cost(body[i]) = 2})
    ELSE Len(body)

\* plan: a body that fits one message goes out as it is.
PlanWhole ==
    /\ ~planned /\ index = 0 /\ BodySize <= Single
    /\ index' = Len(body) /\ ends' = <<Len(body)>> /\ size' = BodySize /\ planned' = TRUE
    /\ UNCHANGED <<body, encoding>>

\* splitGsm7 and splitUnicode: the next character, in this segment or in a new one.
Take ==
    /\ ~planned /\ BodySize > Single /\ index < Len(body)
    /\ LET s == SizeAt(index + 1)
           full == size + s > Concat
       IN /\ ends' = IF full THEN Append(ends, index) ELSE ends
          /\ size' = IF full THEN s ELSE size + s
          /\ index' = index + UnitLength(index + 1)
    /\ UNCHANGED <<body, encoding, planned>>

\* The segment under way is the last.
Close ==
    /\ ~planned /\ BodySize > Single /\ index = Len(body)
    /\ ends' = Append(ends, index) /\ planned' = TRUE
    /\ UNCHANGED <<body, encoding, index, size>>

SegmentNext == PlanWhole \/ Take \/ Close

SegmentSpec == SegmentInit /\ [][SegmentNext]_segmentVars

(* --- properties ----------------------------------------------------------------------- *)

StartOf(k) == IF k = 1 THEN 1 ELSE ends[k - 1] + 1
Escapes(from, to) == IF encoding = "GSM7" THEN {i \in from..to : body[i] = "extended"} ELSE {}
SizeBetween(from, to) == to - from + 1 + Cardinality(Escapes(from, to))

(* Every segment the radio gets carries something and fits: the whole body within *)
(* the single limit, otherwise each within the concatenated one, escapes counted   *)
(* (SmsSegmenter.plan).                                                            *)
EverySegmentFits ==
    planned =>
        \A k \in 1..Len(ends) :
            /\ StartOf(k) <= ends[k]
            /\ SizeBetween(StartOf(k), ends[k]) <= IF Len(ends) = 1 THEN Single ELSE Concat

(* The segments are the body, in order and complete, and no surrogate pair is      *)
(* divided between two of them.                                                    *)
NothingLostOrTorn ==
    planned =>
        /\ Len(ends) > 0 /\ ends[Len(ends)] = Len(body)
        /\ \A k \in 1..(Len(ends) - 1) :
              body[ends[k]] = "high" => body[ends[k] + 1] # "low"

\* The segments are the body, and the radio can send each of them.
SegmentsAreTheBody == EverySegmentFits /\ NothingLostOrTorn
=============================================================================
