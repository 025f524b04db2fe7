----------------------------- MODULE MCSyncWith -----------------------------
(***************************************************************************)
(* Instances of SyncWith for TLC: two media files, and the index.          *)
(***************************************************************************)
EXTENDS SyncWith

\* One media file, or two, and the index: V01.mxf, V02.mxf, msmMMOB.mdb.
OneMedia == {1}
TwoMedia == {1, 2}

\* The second media file is a copy of the first under another name.
CopiedMedia == [f \in Media \cup {3} |-> IF f = 3 THEN 3 ELSE 1]

\* All media differ.
OwnContents == [f \in Media \cup {3} |-> f]

\* A media file is written once, the index is rewritten.
WrittenOnce == [f \in Media \cup {3} |-> IF f = 3 THEN 2 ELSE 1]
=============================================================================
