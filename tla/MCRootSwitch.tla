---------------------------- MODULE MCRootSwitch ----------------------------
(***************************************************************************)
(* Instances of RootSwitch for TLC.  The requests play the same part, so   *)
(* the safety runs may treat them as interchangeable.                      *)
(***************************************************************************)
EXTENDS RootSwitch, TLC

Interchangeable == Permutations(Req)
=============================================================================
