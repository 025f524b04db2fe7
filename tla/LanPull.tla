------------------------------ MODULE LanPull ------------------------------
(***************************************************************************)
(* The receiving side of the LAN transport: the commits a peer announced,  *)
(* the goroutines that pull them, and the folder MXF/1-<author>/ they      *)
(* write into (src/internal/transport/lan/lan.go, server.go, the received  *)
(* commits of manifest/commits.go, the pull half of automode.go and the    *)
(* received-commit handlers of api.go).                                    *)
(*                                                                         *)
(* One author is modelled: pulls of different authors write into different *)
(* folders and change different rows.  A file is a number, so that "ORDER  *)
(* BY path" is <=; a commit is a number, its created_at.  The content of a *)
(* file is a function from blocks to versions: the writes of one copy are  *)
(* several steps, and other pulls come between them.                       *)
(***************************************************************************)
EXTENDS Integers

CONSTANTS
  Files,       \* basenames the author ever announces, numbered in path order
  IndexFiles,  \* the .mdb and .pmr among them: never skipped by the delta check
  Versions,    \* contents the author's files ever had (equal version = equal hash)
  Commits,     \* commits the author announces, numbered by created_at
  Listing,     \* Listing[c]: the function from the files of c to their announced hash
  NBlocks,     \* writes it takes to copy one file
  Hand,        \* goroutines handlePull can have running at once
  Automode,    \* the automode goroutine
  Faults,      \* what may go wrong: "network", "mkdir", "db" (a statement on the
               \* manifest returns an error), "crash"
  MaxCrashes,  \* bound on crashes, once "crash" \in Faults
  Hole, NoFile, None

Pullers == Hand \cup {Automode}
Blocks  == 1..NBlocks
Content == [Blocks -> Versions \cup {Hole}]
FilesOf(c) == DOMAIN Listing[c]
Full(v) == [b \in Blocks |-> v]

CommitStatuses ==
  {"none", "announced", "pulling", "pulled", "failed", "rejected", "cleared"}

ASSUME LanPullAssumption ==
  /\ Files \subseteq Int
  /\ IndexFiles \subseteq Files
  /\ Commits \subseteq Int
  /\ \A c \in Commits : /\ FilesOf(c) \subseteq Files
                        /\ Listing[c] \in [FilesOf(c) -> Versions]
  /\ NBlocks \in Nat \ {0}
  /\ Automode \notin Hand
  /\ MaxCrashes \in Nat
  /\ Hole \notin Versions
  /\ NoFile \notin Content
  /\ None \notin Versions \cup Commits \cup Files

VARIABLES
  status,   \* the status column of each received commit ("none": no row yet,
            \* "cleared": the row was deleted)
  pl,       \* the local state of each goroutine inside Pull
  queue,    \* automode: what is left of the list read at the start of the tick
  part,     \* 1-<author>/<name>.part on disk
  final,    \* 1-<author>/<name> on disk
  row,      \* the hash of the manifest row 1-<author>/<name>
  crashes

vars == <<status, pl, queue, part, final, row, crashes>>

\* A goroutine outside Pull.  "at" says where the file it has open is now:
\* under its .part name, under the final name, or under no name at all.
Idle == [pc |-> "idle", c |-> None, todo |-> {}, f |-> None,
         at |-> "orphan", n |-> 0, ok |-> TRUE, failed |-> FALSE]

PullerStates ==
  [pc     : {"idle", "mark", "mkdir", "next", "fetch", "copy", "rename", "upsert"},
   c      : Commits \cup {None},
   todo   : SUBSET Files,
   f      : Files \cup {None},
   at     : {"part", "final", "orphan"},
   n      : 0..NBlocks,
   ok     : BOOLEAN,
   failed : BOOLEAN]

Init ==
  /\ status  = [c \in Commits |-> "none"]
  /\ pl      = [p \in Pullers |-> Idle]
  /\ queue   = {}
  /\ part    = [f \in Files |-> NoFile]
  /\ final   = [f \in Files |-> NoFile]
  /\ row     = [f \in Files |-> None]
  /\ crashes = 0

HasRow(c) == status[c] \notin {"none", "cleared"}

(***************************************************************************)
(* The rows: announce, reject, clear.                                      *)
(***************************************************************************)

\* handleAnnounce / SaveCommit.  A sender announces a commit once: Send and
\* SendTo do not retry, and every commit has an id of its own.
Announce(c) ==
  /\ status[c] = "none"
  /\ status' = [status EXCEPT ![c] = "announced"]
  /\ UNCHANGED <<pl, queue, part, final, row, crashes>>

\* handleReject: an unconditional UPDATE, ErrCommitNotFound when there is no row.
Reject(c) ==
  /\ HasRow(c)
  /\ status' = [status EXCEPT ![c] = "rejected"]
  /\ UNCHANGED <<pl, queue, part, final, row, crashes>>

Finished == {c \in Commits : status[c] \in {"pulled", "rejected", "failed"}}

\* handleClearFinished / DeleteFinishedReceived: one transaction.
ClearFinished ==
  /\ Finished # {}
  /\ status' = [c \in Commits |-> IF c \in Finished THEN "cleared" ELSE status[c]]
  /\ UNCHANGED <<pl, queue, part, final, row, crashes>>

(***************************************************************************)
(* Pull.                                                                   *)
(***************************************************************************)

Become(p, s) == pl' = [pl EXCEPT ![p] = s]
Goto(p, pc)  == Become(p, [pl[p] EXCEPT !.pc = pc])
Return(p)    == Become(p, Idle)

\* GetCommit finds the row.  Nothing looks at its status.
Enter(p, c) == Become(p, [Idle EXCEPT !.pc = "mark", !.c = c])

\* handlePull: any commit that has a row, whatever its status.
HandlePull(p, c) ==
  /\ pl[p].pc = "idle"
  /\ HasRow(c)
  /\ Enter(p, c)
  /\ UNCHANGED <<status, queue, part, final, row, crashes>>

\* Mutant: the wrong status is listed.
AutoTickFailed ==
  /\ pl[Automode].pc = "idle"
  /\ queue = {}
  /\ \E c \in Commits : status[c] = "failed"
  /\ queue' = {c \in Commits : status[c] = "failed"}
  /\ UNCHANGED <<status, pl, part, final, row, crashes>>

\* tick: ListCommits(received, announced).
AutoTick ==
  /\ pl[Automode].pc = "idle"
  /\ queue = {}
  /\ \E c \in Commits : status[c] = "announced"
  /\ queue' = {c \in Commits : status[c] = "announced"}
  /\ UNCHANGED <<status, pl, part, final, row, crashes>>

\* tick: the next Pull of the batch, newest first (ORDER BY created_at DESC);
\* a commit whose row is gone makes GetCommit, and so Pull, return.
AutoPull(c) ==
  /\ pl[Automode].pc = "idle"
  /\ c \in queue
  /\ \A d \in queue : d <= c
  /\ queue' = queue \ {c}
  /\ IF HasRow(c) THEN Enter(Automode, c) ELSE UNCHANGED pl
  /\ UNCHANGED <<status, part, final, row, crashes>>

\* UpdateCommitStatus(pulling): unconditional, an error when the row is gone.
MarkPulling(p) ==
  /\ pl[p].pc = "mark"
  /\ IF HasRow(pl[p].c)
       THEN /\ status' = [status EXCEPT ![pl[p].c] = "pulling"]
            /\ Goto(p, "mkdir")
       ELSE Return(p) /\ UNCHANGED status
  /\ UNCHANGED <<queue, part, final, row, crashes>>

MakeDir(p) ==
  /\ pl[p].pc = "mkdir"
  /\ Become(p, [pl[p] EXCEPT !.pc = "next", !.todo = FilesOf(pl[p].c)])
  /\ UNCHANGED <<status, queue, part, final, row, crashes>>

\* MkdirAll fails: Pull returns, the row keeps its "pulling".
MakeDirFails(p) ==
  /\ "mkdir" \in Faults
  /\ pl[p].pc = "mkdir"
  /\ Return(p)
  /\ UNCHANGED <<status, queue, part, final, row, crashes>>

\* The hash the commit announced for the file p works on.
Wanted(p) == Listing[pl[p].c][pl[p].f]

\* pullOne, delta check: a media file already on disk with the right hash is
\* skipped, and neither the disk nor the manifest is touched.
CheckDelta(p, f) ==
  /\ pl[p].pc = "next"
  /\ f \in pl[p].todo
  /\ \A g \in pl[p].todo : f <= g
  /\ IF f \notin IndexFiles /\ final[f] = Full(Listing[pl[p].c][f])
       THEN Become(p, [pl[p] EXCEPT !.todo = @ \ {f}])
       ELSE Become(p, [pl[p] EXCEPT !.pc = "fetch", !.f = f])
  /\ UNCHANGED <<status, queue, part, final, row, crashes>>

\* fetch succeeds and os.Create opens the .part, emptying the file that is
\* already there, if any: its other writers go on writing into it.
Create(p) ==
  /\ pl[p].pc = "fetch"
  /\ Become(p, [pl[p] EXCEPT !.pc = "copy", !.at = "part", !.n = 0, !.ok = TRUE])
  /\ part' = [part EXCEPT ![pl[p].f] = Full(Hole)]
  /\ UNCHANGED <<status, queue, final, row, crashes>>

\* Mutant: a file that failed stays to be done.
FileDoneRetries(s, bad) ==
  [s EXCEPT !.pc = "next", !.todo = IF bad THEN @ ELSE @ \ {s.f}, !.failed = @ \/ bad,
            !.f = None, !.at = "orphan", !.n = 0, !.ok = TRUE]

\* Local state of p once pullOne has returned.
FileDone(s, bad) ==
  [s EXCEPT !.pc = "next", !.todo = @ \ {s.f}, !.failed = @ \/ bad,
            !.f = None, !.at = "orphan", !.n = 0, !.ok = TRUE]

FetchFails(p) ==
  /\ "network" \in Faults
  /\ pl[p].pc = "fetch"
  /\ Become(p, FileDone(pl[p], TRUE))
  /\ UNCHANGED <<status, queue, part, final, row, crashes>>

\* Mutant: one block too many.
CopyBlockPastEnd(p) ==
  /\ pl[p].pc = "copy"
  /\ pl[p].n <= NBlocks
  /\ Become(p, [pl[p] EXCEPT !.n = @ + 1])
  /\ UNCHANGED <<status, queue, part, final, row, crashes>>

\* One write of io.Copy.  The author may rewrite the file while it is served,
\* so a block comes from any version; the hash is that of the stream, the block
\* goes where the open file is.
CopyBlock(p) ==
  /\ pl[p].pc = "copy"
  /\ pl[p].n < NBlocks
  /\ \E v \in Versions :
       LET f == pl[p].f
           b == pl[p].n + 1
       IN /\ Become(p, [pl[p] EXCEPT !.n = b, !.ok = @ /\ v = Wanted(p)])
          /\ part'  = IF pl[p].at = "part"  THEN [part  EXCEPT ![f][b] = v] ELSE part
          /\ final' = IF pl[p].at = "final" THEN [final EXCEPT ![f][b] = v] ELSE final
  /\ UNCHANGED <<status, queue, row, crashes>>

\* Where the open files of the others are after the name f.part went away.
Moved(q, f, move) ==
  IF pl[q].pc = "copy" /\ pl[q].f = f THEN [pl[q] EXCEPT !.at = move[@]] ELSE pl[q]

Unlinked == [part |-> "orphan", final |-> "final",  orphan |-> "orphan"]
Renamed  == [part |-> "final",  final |-> "orphan", orphan |-> "orphan"]

\* Mutant: the .part stays.
DiscardKeepsPart(p) ==
  /\ Become(p, FileDone(pl[p], TRUE))
  /\ UNCHANGED part

\* os.Remove(tmpPath), then pullOne returns an error.
Discard(p) ==
  LET f == pl[p].f
  IN /\ part' = [part EXCEPT ![f] = NoFile]
     /\ pl' = [q \in Pullers |-> IF q = p THEN FileDone(pl[p], TRUE)
                                          ELSE Moved(q, f, Unlinked)]

CopyFails(p) ==
  /\ "network" \in Faults
  /\ pl[p].pc = "copy"
  /\ Discard(p)
  /\ UNCHANGED <<status, queue, final, row, crashes>>

\* Mutant: the hash is not compared.
CheckHashNever(p) ==
  /\ pl[p].pc = "copy"
  /\ pl[p].n = NBlocks
  /\ Goto(p, "rename")
  /\ UNCHANGED <<status, queue, part, final, row, crashes>>

CheckHash(p) ==
  /\ pl[p].pc = "copy"
  /\ pl[p].n = NBlocks
  /\ IF pl[p].ok THEN Goto(p, "rename") /\ UNCHANGED part
                 ELSE Discard(p)
  /\ UNCHANGED <<status, queue, final, row, crashes>>

\* os.Rename(tmpPath, finalPath): whatever file has the .part name now.
Rename(p) ==
  LET f == pl[p].f
  IN /\ pl[p].pc = "rename"
     /\ part[f] # NoFile
     /\ final' = [final EXCEPT ![f] = part[f]]
     /\ part'  = [part EXCEPT ![f] = NoFile]
     /\ pl' = [q \in Pullers |-> IF q = p THEN [pl[p] EXCEPT !.pc = "upsert"]
                                          ELSE Moved(q, f, Renamed)]
     /\ UNCHANGED <<status, queue, row, crashes>>

\* Another pull already took the .part away.
RenameFails(p) ==
  /\ pl[p].pc = "rename"
  /\ part[pl[p].f] = NoFile
  /\ Discard(p)
  /\ UNCHANGED <<status, queue, final, row, crashes>>

Upsert(p) ==
  /\ pl[p].pc = "upsert"
  /\ row' = [row EXCEPT ![pl[p].f] = Wanted(p)]
  /\ Become(p, FileDone(pl[p], FALSE))
  /\ UNCHANGED <<status, queue, part, final, crashes>>

UpsertFails(p) ==
  /\ "db" \in Faults
  /\ pl[p].pc = "upsert"
  /\ Become(p, FileDone(pl[p], TRUE))
  /\ UNCHANGED <<status, queue, part, final, row, crashes>>

\* Mutant: a failed file does not count.
OutcomePulled(p) == "pulled"

Outcome(p) == IF pl[p].failed THEN "failed" ELSE "pulled"

\* Mutant: the last status is not written.
FinishForgets(p) ==
  /\ pl[p].pc = "next"
  /\ pl[p].todo = {}
  /\ Return(p)
  /\ UNCHANGED <<status, queue, part, final, row, crashes>>

\* The final UpdateCommitStatus, unconditional too.
Finish(p) ==
  /\ pl[p].pc = "next"
  /\ pl[p].todo = {}
  /\ status' = IF HasRow(pl[p].c) THEN [status EXCEPT ![pl[p].c] = Outcome(p)]
                                  ELSE status
  /\ Return(p)
  /\ UNCHANGED <<queue, part, final, row, crashes>>

\* Either UpdateCommitStatus returns an error, and so does Pull.
StatusFails(p) ==
  /\ "db" \in Faults
  /\ pl[p].pc = "mark" \/ (pl[p].pc = "next" /\ pl[p].todo = {})
  /\ Return(p)
  /\ UNCHANGED <<status, queue, part, final, row, crashes>>

\* The process ends at any point and starts again: the disk and the database
\* stay, the goroutines do not, and nothing in main.run repairs a row.
Crash ==
  /\ "crash" \in Faults
  /\ crashes < MaxCrashes
  /\ crashes' = crashes + 1
  /\ pl' = [p \in Pullers |-> Idle]
  /\ queue' = {}
  /\ UNCHANGED <<status, part, final, row>>

PullStep(p) ==
  \/ MarkPulling(p)
  \/ MakeDir(p)
  \/ MakeDirFails(p)
  \/ \E f \in Files : CheckDelta(p, f)
  \/ Create(p)
  \/ FetchFails(p)
  \/ CopyBlock(p)
  \/ CopyFails(p)
  \/ CheckHash(p)
  \/ Rename(p)
  \/ RenameFails(p)
  \/ Upsert(p)
  \/ UpsertFails(p)
  \/ StatusFails(p)
  \/ Finish(p)

AutoStep == AutoTick \/ \E c \in Commits : AutoPull(c)

Next ==
  \/ \E c \in Commits : Announce(c) \/ Reject(c)
  \/ ClearFinished
  \/ \E p \in Hand, c \in Commits : HandlePull(p, c)
  \/ AutoStep
  \/ \E p \in Pullers : PullStep(p)
  \/ Crash

Spec == Init /\ [][Next]_vars

\* The scheduler runs every goroutine inside Pull, the sender keeps answering
\* (a stalled body has no timeout in the code), and automode keeps ticking with
\* an Avid that is closed.  A user's click is never forced.
Fairness == WF_vars(AutoStep) /\ \A p \in Pullers : WF_vars(PullStep(p))
FairSpec == Spec /\ Fairness

(***************************************************************************)
(* Pulls that do not write the same file at the same time.  Nothing in the *)
(* code ensures it; it holds of itself when pulls run one by one.          *)
(***************************************************************************)
Writing(p) == pl[p].pc \in {"copy", "rename", "upsert"}

NoOverlap == \A p, q \in Pullers :
  p # q /\ Writing(p) /\ Writing(q) => pl[p].f # pl[q].f

ExclusiveSpec == Init /\ [][Next /\ NoOverlap']_vars

\* The same of whole commits: pulls that are under way have no file name in common.
InFiles(p) == pl[p].pc \in {"next", "fetch", "copy", "rename", "upsert"}

NoSharedFiles == \A p, q \in Pullers :
  p # q /\ InFiles(p) /\ InFiles(q) => FilesOf(pl[p].c) \cap FilesOf(pl[q].c) = {}

DisjointSpec == Init /\ [][Next /\ NoSharedFiles']_vars

(***************************************************************************)
(* The refinement: the folder holds the version a final file is made of; a *)
(* mixed file has no counterpart there.                                    *)
(***************************************************************************)
VersionOf(x) ==
  IF x = NoFile THEN None
  ELSE IF \E v \in Versions : x = Full(v) THEN CHOOSE v \in Versions : x = Full(v)
  ELSE Hole

Folder == INSTANCE ReceivedFolder
            WITH content <- [f \in Files |-> VersionOf(final[f])]

(***************************************************************************)
(* Properties.                                                             *)
(***************************************************************************)
TypeOK ==
  /\ status  \in [Commits -> CommitStatuses]
  /\ pl      \in [Pullers -> PullerStates]
  /\ queue   \subseteq Commits
  /\ part    \in [Files -> Content \cup {NoFile}]
  /\ final   \in [Files -> Content \cup {NoFile}]
  /\ row     \in [Files -> Versions \cup {None}]
  /\ crashes \in 0..MaxCrashes

\* Every file that Avid can see in 1-<author>/ is, block by block, one version
\* that some announced commit lists for that name: Pull never exposes a file
\* half copied or mixed (lan.go: the copy goes to .part, the hash is compared,
\* then the rename).
FinalNeverTorn == \A f \in Files :
  final[f] # NoFile =>
    \E c \in Commits : /\ status[c] # "none"
                       /\ f \in FilesOf(c)
                       /\ final[f] = Full(Listing[c][f])

\* When Pull gives a commit the status "pulled", every file of the commit is on
\* disk with the announced content (commits.go:24 "arquivos baixados e
\* validados").
PulledIsComplete ==
  [][\A c \in Commits :
       status[c] # "pulled" /\ status'[c] = "pulled" =>
         \A f \in FilesOf(c) : final'[f] = Full(Listing[c][f])]_vars

\* Pulls that run one by one implement the abstract folder: whole files only,
\* and a commit is "pulled" only while the folder holds all of it.
ImplementsFolder == Folder!Spec

\* Weaker, for pulls that do run at the same time: every file of a commit that
\* becomes "pulled" exists under its final name.
PulledFilesExist ==
  [][\A c \in Commits :
       status[c] # "pulled" /\ status'[c] = "pulled" =>
         \A f \in FilesOf(c) : final'[f] # NoFile]_vars

\* The hash a row gets is the hash of the file that has its name at that moment:
\* the inventory that peers read from these rows (/peer/inventory) never offers
\* a content that the folder did not hold.
UpsertedIsOnDisk ==
  [][\A f \in Files :
       row'[f] # row[f] => row'[f] # None /\ final'[f] = Full(row'[f])]_vars

\* However pulls interleave, the .part of a file is gone once nobody copies it
\* any more: only a crash leaves one behind.
NoLeftoverPart ==
  crashes = 0 =>
    \A f \in Files :
      (\A p \in Pullers : ~ (pl[p].pc \in {"copy", "rename"} /\ pl[p].f = f)) =>
        part[f] = NoFile

\* "pulling" means what commits.go:23 says of it, "pull em andamento": some
\* goroutine is between the two UpdateCommitStatus of Pull for this commit.
PullingIsInProgress == \A c \in Commits :
  status[c] = "pulling" =>
    \E p \in Pullers : pl[p].c = c /\ pl[p].pc \notin {"idle", "mark"}

\* How far a pull is from its end: the files it has to deal with and, for the one it
\* is at, the calls left.
ToDo(s) == IF s.pc \in {"mark", "mkdir"} THEN FilesOf(s.c) ELSE s.todo

CallsLeft(s) ==
  CASE s.pc = "mark"   -> NBlocks + 6
    [] s.pc = "mkdir"  -> NBlocks + 5
    [] s.pc = "next"   -> NBlocks + 4
    [] s.pc = "fetch"  -> NBlocks + 3
    [] s.pc = "copy"   -> NBlocks + 2 - s.n
    [] s.pc = "rename" -> 1
    [] s.pc = "upsert" -> 0

Ahead(s, t) ==
  \/ t.pc = "idle"
  \/ /\ t.c = s.c
     /\ \/ ToDo(t) # ToDo(s) /\ ToDo(t) \subseteq ToDo(s)
        \/ ToDo(t) = ToDo(s) /\ CallsLeft(t) < CallsLeft(s)

\* The same but for where the open file is.
StaysPut(s, t) == t = [s EXCEPT !.at = t.at]

\* Each step of a pull brings it nearer to its end, whatever fails and whatever the
\* other pulls do to its .part; nobody else can throw it back.  So no pull goes on for
\* ever: it tries a file once, and leaves a failed one to the next Pull (lan.go:211-222).
PullsOnlyAdvance ==
  [][\A p \in Pullers : pl[p].pc # "idle" =>
       \/ Ahead(pl[p], pl'[p])
       \/ ~ PullStep(p) /\ StaysPut(pl[p], pl'[p])]_vars

\* With automode running every announced commit is taken up, or the user
\* decides about it first.
AnnouncedIsTakenUp == \A c \in Commits :
  status[c] = "announced" ~> status[c] # "announced"

\* A commit that is being pulled gets an outcome.
PullSettles == \A c \in Commits :
  status[c] = "pulling" ~> status[c] # "pulling"

(***************************************************************************)
(* What the code does not ensure: TLC finds a counterexample to each (the  *)
(* README names the run, or the run to change).                            *)
(***************************************************************************)

\* "rejected // usuário decidiu não baixar" (commits.go:26): automode does not
\* take a rejected commit out of that status.
RejectedStaysRejected ==
  [][\A c \in Commits :
       status[c] = "rejected" => status'[c] \in {"rejected", "cleared"}]_vars

\* A goroutine that leaves Pull leaves the commit in a settled status:
\* automode.go:185, on the error of a Pull, "Status já vira `failed` dentro de
\* transport.Pull".  The early return of lan.go:207 leaves the row as it is.
ReturnedPullIsSettled ==
  [][\A p \in Pullers :
       pl[p].pc # "idle" /\ pl'[p].pc = "idle" /\ crashes' = crashes =>
         status'[pl[p].c] # "pulling"]_vars

\* automode.go:7-11: the status "pulling" is an implicit mutex, the second Pull
\* of a commit fails cleanly: two goroutines are never past it together.
OnePullPerCommit == \A p, q \in Pullers :
  p # q /\ pl[p].pc \notin {"idle", "mark"} /\ pl[q].pc \notin {"idle", "mark"} =>
    pl[p].c # pl[q].c
=============================================================================
