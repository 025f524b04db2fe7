---------------------------- MODULE LaggingCopy ----------------------------
(***************************************************************************)
(* What synchronising with a peer promises, seen from outside: the peer's  *)
(* folder 1-<author>/ is a copy of the author's folder 1/ that lags behind *)
(* it.  A version that the peer gets is one the author had, and never an   *)
(* older one than the peer already has.  SyncWith implements it.           *)
(***************************************************************************)
EXTENDS Integers

CONSTANTS Files

VARIABLES
  source,   \* how often the author wrote each file
  copy      \* the version of it the peer has, 0 when it has none

vars == <<source, copy>>

Init ==
  /\ source = [f \in Files |-> 0]
  /\ copy   = [f \in Files |-> 0]

Write(f) ==
  /\ source' = [source EXCEPT ![f] = @ + 1]
  /\ UNCHANGED copy

Advance(f, v) ==
  /\ copy[f] < v
  /\ copy' = [copy EXCEPT ![f] = v]
  /\ UNCHANGED source

\* The peer's user deletes what was received, or two pulls of it meet.
Discard(F) ==
  /\ copy' = [f \in Files |-> IF f \in F THEN 0 ELSE copy[f]]
  /\ UNCHANGED source

Next ==
  \/ \E f \in Files : Write(f) \/ \E v \in 1..source[f] : Advance(f, v)
  \/ \E F \in SUBSET Files : Discard(F)

Spec == Init /\ [][Next]_vars
=============================================================================
