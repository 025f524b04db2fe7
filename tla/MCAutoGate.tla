----------------------------- MODULE MCAutoGate -----------------------------
(***************************************************************************)
(* An instance of AutoGate for TLC: two authors.                           *)
(***************************************************************************)
EXTENDS AutoGate

CONSTANTS a1, a2

TwoAuthors == {a1, a2}

FirstOrSecond == [c \in Commits |-> IF c = 1 THEN a1 ELSE a2]
=============================================================================
