---------------------------- MODULE MCCatSession ----------------------------
(* Small instances of CatSession. *)
EXTENDS CatSession

CONSTANTS i1, i2, c1, c2

TwoItems == {i1, i2}
TwoCallers == {c1, c2}

RowsByControl == [control \in BOOLEAN |-> IF control THEN 0 ELSE 2]
=============================================================================
