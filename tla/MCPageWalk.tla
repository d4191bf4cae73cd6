----------------------------- MODULE MCPageWalk -----------------------------
(* Values for TLC: tables of two entries, pages of two bytes.  The first     *)
(* area has a page of its own, a large page and two pages behind it.         *)
EXTENDS PageWalk

TwoAreas == <<<<2, 12>>, <<16, 22>>>>
OneLarge == {<<1, 1>>}
NoLarge == {}
=============================================================================
