----------------------------- MODULE MCLanPull -----------------------------
(***************************************************************************)
(* Instances of LanPull for TLC: one media file (1) and one Avid index     *)
(* file (2, msmMMOB.mdb).  Commit 1 lists both, commit 2 a newer index, as *)
(* /sync-with sends it whenever the media is already there.                *)
(***************************************************************************)
EXTENDS LanPull, TLC

CONSTANTS old, new

MCListing == 1 :> (1 :> old @@ 2 :> old) @@ 2 :> (2 :> new)

\* Two commits with the same media file, rewritten between them.
MCShared == 1 :> (1 :> old) @@ 2 :> (1 :> new)
=============================================================================
