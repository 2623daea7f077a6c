------------------------------ MODULE SmsText ------------------------------
(***************************************************************************)
(* sms-concat.ts: telling segments of a long SMS by their length, putting  *)
(* a short segment that was glued into the middle back to the end, and     *)
(* ordering the segments of a set.  A text is a sequence of characters; a  *)
(* character stands for its class.                                         *)
(***************************************************************************)
EXTENDS Integers, Sequences, FiniteSets

CONSTANTS
  UCS2_PART_UNITS,   \* capacity of a segment with other characters
  GSM7_PART_SEPTETS  \* capacity of a segment in the GSM-7 alphabet

ASSUME PartAssumption == {UCS2_PART_UNITS, GSM7_PART_SEPTETS} \subseteq Nat \ {0}

Cyrillic == {"k"}
Latin == {"l"}
Astral == {"e"}     \* two UTF-16 units
Extension == {"^"}  \* two septets
Gsm7 == Latin \cup Extension \cup {"/"}
Characters == Cyrillic \cup Astral \cup Gsm7

IsGsm(text) == \A i \in DOMAIN text : text[i] \in Gsm7
PartSize(text) == IF IsGsm(text) THEN GSM7_PART_SEPTETS ELSE UCS2_PART_UNITS

\* measure: what the first n characters cost in the alphabet of the text.
Units(text, n) ==
  LET double == IF IsGsm(text) THEN Extension ELSE Astral
  IN  n + Cardinality({i \in 1..n : text[i] \in double})

looksLikeIncompletePart(text) ==
  text # <<>> /\ Units(text, Len(text)) % PartSize(text) = 0

\* Where so many units end; nowhere if that splits a character.
unitToCharIndex(text, units) == {i \in 0..Len(text) : Units(text, i) = units}

\* Two pieces meet in a word of two alphabets, or a letter meets "//".
suspicious(before, after) ==
  /\ before # <<>> /\ after # <<>>
  /\ LET a == before[Len(before)]
         b == after[1]
     IN  \/ a \in Cyrillic /\ b \in Latin
         \/ a \in Latin /\ b \in Cyrillic
         \/ /\ a \in Cyrillic \cup Latin
            /\ Len(after) > 1 /\ after[1] = "/" /\ after[2] = "/"

\* Moves characters start+1..end to the end of the text.
Moved(text, start, end) ==
  SubSeq(text, 1, start) \o SubSeq(text, end + 1, Len(text)) \o SubSeq(text, start + 1, end)

\* The text with a part of that many units taken from slot k, when that is clearly
\* better.
Fix(text, part, short, k) ==
  {Moved(text, p[1], p[2]) :
     p \in {q \in unitToCharIndex(text, k * part) \X unitToCharIndex(text, k * part + short) :
              LET head == SubSeq(text, 1, q[1])
                  tail == SubSeq(text, q[1] + 1, q[2])
                  rest == SubSeq(text, q[2] + 1, Len(text))
              IN  /\ suspicious(tail, rest) /\ (k = 0 \/ suspicious(head, tail))
                  /\ ~suspicious(head, rest) /\ ~suspicious(rest, tail)}}

\* Unchanged unless there is exactly one fix.
repairGluedParts(text) ==
  LET units == Units(text, Len(text))
      part == PartSize(text)
      fixes == UNION {{<<k, fix>> : fix \in Fix(text, part, units % part, k)} :
                        k \in 0..(units \div part) - 1}
  IN  IF units % part # 0 /\ Cardinality(fixes) = 1
      THEN (CHOOSE f \in fixes : TRUE)[2]
      ELSE text

\* filter: the elements at those positions, in their order.
At(seq, positions) ==
  LET kept[P \in SUBSET DOMAIN seq] ==
        [n \in 1..Cardinality(P) |-> seq[CHOOSE i \in P : Cardinality({j \in P : j <= i}) = n]]
  IN  kept[positions]

FullParts(parts) == {i \in DOMAIN parts : looksLikeIncompletePart(parts[i].text)}
Earliest(positions) == {i \in positions : \A j \in positions : i <= j}

\* Mutant: the parts stay in the order in which they came.
assembleAsArrived(parts) ==
  LET full == FullParts(parts)
      final == Earliest(DOMAIN parts \ full)
  IN  [combined |-> At(parts, full \cup final),
       leftovers |-> At(parts, DOMAIN parts \ (full \cup final))]

\* Full parts in the order of arrival, then the first short one; the other short
\* ones are messages of their own.
assembleParts(parts) ==
  LET full == FullParts(parts)
      final == Earliest(DOMAIN parts \ full)
  IN  [combined |-> At(parts, full) \o At(parts, final),
       leftovers |-> At(parts, DOMAIN parts \ (full \cup final))]
============================================================================
