---------------------------- MODULE MCSmsConcat ----------------------------
(* An instance of SmsConcat for TLC. *)
EXTENDS SmsConcat

Webhook(id, text, of) == [id |-> id, text |-> text, came |-> text, of |-> of]

\* A long SMS of two segments and a short one from the same sender.
TwoParts ==
  LET long == <<"k", "k", "k", "k", "l">>
  IN  {Webhook(1, <<"k", "k", "k">>, long), Webhook(2, <<"k", "l">>, long), Webhook(3, <<"k">>, <<"k">>)}

\* A long SMS of three segments; an emoji takes two units.
ThreeParts ==
  LET long == <<"k", "k", "k", "e", "k", "l">>
  IN  {Webhook(1, <<"k", "k", "k">>, long), Webhook(2, <<"e", "k">>, long), Webhook(3, <<"l">>, long)}

\* Every well-formed SMS of two or three segments; those of 8 let slashes meet.
Written ==
  {t \in [1..4 -> {"k", "l", "/"}] \cup [1..7 -> {"k", "l", "/"}] \cup [1..8 -> {"k", "/"}] : Clean(t)}

\* Its short segment glued into slot k.
GluedAt(text, k) ==
  LET full == Len(text) - (Len(text) % PartSize(text))
      start == IF k * PartSize(text) < full THEN k * PartSize(text) ELSE full
  IN  SubSeq(text, 1, start) \o SubSeq(text, full + 1, Len(text)) \o SubSeq(text, start + 1, full)

Glued == {Webhook(1, GluedAt(text, k), text) : text \in Written, k \in 0..2}

\* The scenes meet the conditions under which the texts are proved to be right.
ASSUME TextsDiffer /\ SplitInTwo /\ GluedInSlots

MCScenes == {TwoParts, ThreeParts} \cup {{w} : w \in Glued}
============================================================================
