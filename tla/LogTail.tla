------------------------------- MODULE LogTail ------------------------------
(***************************************************************************)
(* What the log page promises: it lists the latest Maximum entries of all  *)
(* that were received, in order, as far as they match the filter.  Entries *)
(* are numbered as they arrive, so that none is lost or kept twice.        *)
(***************************************************************************)
EXTENDS Ordered, Sequences

CONSTANTS Maximum, Texts

VARIABLES received, kept, filter, listed

Latest(s) == SubSeq(s, IF Len(s) > Maximum THEN Len(s) - Maximum + 1 ELSE 1, Len(s))
Matching(s, f) ==
  LET hits == InOrder({n \in 1..Len(s) : f = "" \/ s[n].text = f})
  IN  [k \in DOMAIN hits |-> s[hits[k]]]

Init == received = 0 /\ kept = <<>> /\ filter = "" /\ listed = <<>>

Entries(texts) == [i \in DOMAIN texts |-> [id |-> received + i, text |-> texts[i]]]

Receive ==
  /\ received' > received
  /\ \E texts \in [1..received' - received -> Texts] :
       kept' = Latest(kept \o Entries(texts))
  /\ UNCHANGED filter

Filter == filter' \in Texts \cup {""} /\ UNCHANGED <<received, kept>>

Next == (Receive \/ Filter) /\ listed' = Matching(kept', filter')

Spec == Init /\ [][Next]_<<received, kept, filter, listed>>
=============================================================================
