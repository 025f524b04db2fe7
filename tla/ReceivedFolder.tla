--------------------------- MODULE ReceivedFolder ---------------------------
(***************************************************************************)
(* What receiving commits is meant to look like from outside: the list of  *)
(* received commits (the statuses of manifest/commits.go) and the folder   *)
(* 1-<author>/, whose files are only ever replaced whole.  LanPull is      *)
(* shown to implement it when pulls run one by one.                        *)
(***************************************************************************)
EXTENDS Integers

CONSTANTS Files, Versions, Commits, Listing, None

VARIABLES
  status,   \* the status of each received commit
  content   \* the version of each file in the folder, None when it is not there

vars == <<status, content>>

Init ==
  /\ status  = [c \in Commits |-> "none"]
  /\ content = [f \in Files |-> None]

HasRow(c) == status[c] \notin {"none", "cleared"}

SetStatus(c, s) == status' = [status EXCEPT ![c] = s] /\ UNCHANGED content

Announce(c) == status[c] = "none" /\ SetStatus(c, "announced")
Reject(c)   == HasRow(c) /\ SetStatus(c, "rejected")
Begin(c)    == HasRow(c) /\ SetStatus(c, "pulling")
GiveUp(c)   == HasRow(c) /\ SetStatus(c, "failed")

\* The user is told "pulled" only with every file of the commit in place.
Complete(c) ==
  /\ HasRow(c)
  /\ \A f \in DOMAIN Listing[c] : content[f] = Listing[c][f]
  /\ SetStatus(c, "pulled")

\* A file appears, or is replaced, whole, and as the commit announced it.
Deliver(c, f) ==
  /\ status[c] # "none"
  /\ content' = [content EXCEPT ![f] = Listing[c][f]]
  /\ UNCHANGED status

Finished == {c \in Commits : status[c] \in {"pulled", "rejected", "failed"}}

ClearFinished ==
  /\ status' = [c \in Commits |-> IF c \in Finished THEN "cleared" ELSE status[c]]
  /\ UNCHANGED content

Next ==
  \/ \E c \in Commits : \/ Announce(c) \/ Reject(c) \/ Begin(c) \/ GiveUp(c)
                        \/ Complete(c)
                        \/ \E f \in DOMAIN Listing[c] : Deliver(c, f)
  \/ ClearFinished

Spec == Init /\ [][Next]_vars
=============================================================================
