------------------------------ MODULE SyncWith ------------------------------
(***************************************************************************)
(* An author and a peer together: handleSyncWith and handleCommit of       *)
(* api.go, Send / SendTo / announceTo / Inventory of lan.go, the handlers  *)
(* for peers of server.go, and the pulls of the peer.  An announcement is  *)
(* sent once (lan.go:154) and may be lost; /sync-with, which asks the peer *)
(* what it has, is the code's only repair.                                 *)
(*                                                                         *)
(* Automode and the clicks on the peer's page pull without a lock, so two  *)
(* pulls may write one .part; a file is fetched in a few steps, and what   *)
(* the writes leave behind is abstracted to: whole, cut short, or mixed    *)
(* (LanPull has the blocks).  The hasher reads, and stores later.  How     *)
(* rows come about is in LocalFolder, how commits are put together in      *)
(* LocalCommits.  A version is the number of times Avid wrote the file.  A *)
(* commit that nobody can ask for any more leaves the model, its number is *)
(* used again.                                                             *)
(***************************************************************************)
EXTENDS Integers, FiniteSets

CONSTANTS
  Media,       \* the .mxf names in the author's folder 1/, numbered in path order
  Index,       \* msmMMOB.mdb, numbered among them, which is always sent
  Twin,        \* Twin[f]: files with the same Twin have the same contents
  Last,        \* Last[f]: bound on the versions of f (media are written once)
  Ids,         \* commits that can be under way at once
  Automode,    \* the goroutine of automode, which pulls one commit after the other
  Hand,        \* the goroutines that handlePull starts, one for each click
  Windows,     \* "sender", "receiver": which of the two has \ in its rows
  Troubles,    \* which of: the author "deletes" a file, a transfer breaks
               \* ("network"), the peer's process ends and starts ("restart"),
               \* its user deletes a received file ("removes") or clicks on a
               \* commit to pull it ("clicks")
  MaxTroubles, \* bound on how many of them there are in one behaviour
  None

Files   == Media \cup {Index}
Pullers == Hand \cup {Automode}

\* What a file at the peer may hold instead of a version, when two pulls wrote it: less
\* than a version, because of the second os.Create; or bytes of two versions.
Short == -1
Mixed == -2

NoRow == -1

ASSUME SyncWithAssumption ==
  /\ Media \subseteq Nat /\ Index \in Nat \ Media
  /\ Twin \in [Files -> Files]
  /\ \A f \in Media : Twin[f] # Twin[Index]
  /\ Last \in [Files -> Nat]
  /\ MaxTroubles \in Nat
  /\ None \notin Ids \cup [f : Files, v : Nat]
  /\ Automode \notin Hand

VARIABLES
  ver,      \* ver[f]: the version of f Avid wrote last, 0 before the first
  there,    \* the files that are in the author's folder now
  row,      \* row[f]: the version of the hash in the author's row 1/f, 0 when it has
            \* none yet, -1 without a row
  sent,     \* sent[c]: the listing of the commit with direction=sent, {} for none
  sync,     \* handleSyncWith
  status,   \* status[c]: "sent" while the announcement is under way, then that of
            \* the peer's row with direction=received
  hashing,  \* the file the hasher reads and the version it opened, or None
  pull,     \* pull[p]: goroutine p of the peer, inside Pull
  final,    \* final[f]: what is in the peer's 1-<author>/f, 0 when it is not there
  inv,      \* inv[f]: the version of the hash of the peer's row 1-<author>/f, 0 without
            \* one (the rows of media: nobody reads that of the index)
  met,      \* the names that two pulls under way had both listed (history)
  troubles  \* which troubles there were

author   == <<ver, there, row, hashing>>
commits  == <<sent, status>>
receiver == <<pull, final, inv, met>>
vars == <<ver, there, row, hashing, sent, sync, status, pull, final, inv, met, troubles>>

Entries == [f : Files, v : Nat]
Hash(f, v) == [of |-> Twin[f], v |-> v]
Hashes == [of : Files, v : Nat]

NoSync == [pc |-> "idle", remote |-> {}]
\* sv: the version that is served; at: where the file that p writes is now.
NoPull == [pc |-> "idle", c |-> None, todo |-> {}, failed |-> FALSE,
           e |-> None, sv |-> 0, at |-> "gone"]

Init ==
  /\ ver = [f \in Files |-> 0] /\ there = {} /\ row = [f \in Files |-> NoRow]
  /\ hashing = None
  /\ sent = [c \in Ids |-> {}]
  /\ sync = NoSync
  /\ status = [c \in Ids |-> "none"] /\ pull = [p \in Pullers |-> NoPull]
  /\ final = [f \in Files |-> 0] /\ inv = [f \in Media |-> 0]
  /\ met = {} /\ troubles = {}

Trouble(t) ==
  /\ t \in Troubles \ troubles
  /\ Cardinality(troubles) < MaxTroubles
  /\ troubles' = troubles \cup {t}

\* Nobody will ask for these commits again.
Forget(C) ==
  /\ status' = [c \in Ids |-> IF c \in C THEN "none" ELSE status[c]]
  /\ sent'   = [c \in Ids |-> IF c \in C THEN {} ELSE sent[c]]

(***************************************************************************)
(* The author's folder and its rows.                                       *)
(***************************************************************************)

\* Avid writes, the drainer observes: the row loses its hash.
Write(f) ==
  /\ ver[f] < Last[f]
  /\ ver' = [ver EXCEPT ![f] = @ + 1]
  /\ there' = there \cup {f}
  /\ row' = [row EXCEPT ![f] = 0]
  /\ UNCHANGED <<hashing, commits, sync, receiver, troubles>>

\* hashFile: os.Open of a file that has no hash.
HashOpen(f) ==
  /\ hashing = None
  /\ f \in there
  /\ row[f] = 0
  /\ hashing' = [f |-> f, v |-> ver[f]]
  /\ UNCHANGED <<ver, there, row, commits, sync, receiver, troubles>>

\* SetHash, on a row that may be another one by now: the hash is that of what was
\* opened, or of what Avid wrote over it meanwhile.  (One of a mixture is as good as
\* that of a version that is gone: nobody can serve it.)
HashStore ==
  /\ hashing # None
  /\ \E v \in {hashing.v, ver[hashing.f]} :
       row' = IF row[hashing.f] = NoRow THEN row ELSE [row EXCEPT ![hashing.f] = v]
  /\ hashing' = None
  /\ UNCHANGED <<ver, there, commits, sync, receiver, troubles>>

Delete(f) ==
  /\ f \in there
  /\ Trouble("deletes")
  /\ there' = there \ {f}
  /\ row' = [row EXCEPT ![f] = NoRow]
  /\ UNCHANGED <<ver, hashing, commits, sync, receiver>>

Hashed   == {f \in Files : row[f] > 0}
Entry(f) == [f |-> f, v |-> row[f]]

(***************************************************************************)
(* A commit to all peers.                                                  *)
(***************************************************************************)
Pulled(c) == \E p \in Pullers : pull[p].c = c

Unused == {c \in Ids : status[c] = "none" /\ ~ Pulled(c)}
NewID  == CHOOSE c \in Unused : TRUE

\* SaveCommit(sent); the announcement leaves in the background.
SaveAndAnnounce(files) ==
  /\ Unused # {}
  /\ sent'   = [sent EXCEPT ![NewID] = files]
  /\ status' = [status EXCEPT ![NewID] = "sent"]

\* handleCommit, or autoCommit: what is pending and has a hash becomes committed
\* and is announced; Stage makes any row pending again (LocalCommits has that).
\* With nobody in Peers() that is all (then it is lost).  (Bound: a number is left for
\* sync-with.)
Commit ==
  /\ \E c, d \in Unused : c # d
  /\ \E files \in SUBSET Hashed \ {{}} : SaveAndAnnounce({Entry(f) : f \in files})
  /\ UNCHANGED <<author, sync, receiver, troubles>>

(***************************************************************************)
(* handleSyncWith.                                                         *)
(***************************************************************************)

\* FilesUnderPrefix: path LIKE '1/%' finds no row whose path is written 1\f.
UnderPrefix(who, rows) == IF who \in Windows THEN {} ELSE rows

\* Mutant: what the commits under way list counts as received.
RemoteHashesAnnounced ==
  {Hash(f, inv[f]) : f \in UnderPrefix("receiver", {g \in Media : inv[g] # 0})}
    \cup {Hash(e.f, e.v) : e \in UNION {sent[c] : c \in {d \in Ids : status[d] \notin {"none", "sent"}}}}

\* handleInventory: the peer's rows of .mxf files that have a hash.
RemoteHashes ==
  {Hash(f, inv[f]) : f \in UnderPrefix("receiver", {g \in Media : inv[g] # 0})}

\* The peer is found in Peers() and answers; if not the request ends (404, 502).
SyncAsk ==
  /\ sync.pc = "idle"
  /\ sync' = [NoSync EXCEPT !.pc = "list", !.remote = RemoteHashes]
  /\ UNCHANGED <<author, commits, receiver, troubles>>

\* Mutant: only what the inventory can show, .mxf files, is compared and sent.
DeltaMedia ==
  {Entry(f) : f \in {g \in UnderPrefix("sender", Hashed) :
                       g # Index /\ Hash(g, row[g]) \notin sync.remote}}

\* Mutant: the index is compared like everything else, and media never are.
DeltaSwapped ==
  {Entry(f) : f \in {g \in UnderPrefix("sender", Hashed) :
                       g # Index \/ Hash(g, row[g]) \notin sync.remote}}

\* The index always, a .mxf when no file of the peer has its hash.
Delta ==
  {Entry(f) : f \in {g \in UnderPrefix("sender", Hashed) :
                       g = Index \/ Hash(g, row[g]) \notin sync.remote}}

\* An empty delta is answered with "ja em sync", another one is saved and announced.
SyncList ==
  /\ sync.pc = "list"
  /\ IF Delta = {} THEN UNCHANGED commits ELSE SaveAndAnnounce(Delta)
  /\ sync' = NoSync
  /\ UNCHANGED <<author, receiver, troubles>>

(***************************************************************************)
(* The network, and the peer's rows of commits.                            *)
(***************************************************************************)

\* handleAnnounce.
Deliver(c) ==
  /\ status[c] = "sent"
  /\ status' = [status EXCEPT ![c] = "announced"]
  /\ UNCHANGED <<author, sent, sync, receiver, troubles>>

\* announceTo logs the error, and that is all; or the peer's user rejects the
\* commit before it is pulled.
Lose(c) ==
  /\ status[c] = "sent"
  /\ Forget({c})
  /\ UNCHANGED <<author, sync, receiver, troubles>>

\* What failed, and what a restart cut off and nobody pulls.
Over == {c \in Ids : status[c] = "failed" \/ (status[c] = "pulling" /\ ~ Pulled(c))}

\* handleClearFinished, although a pull of it may be under way again; or nobody looks
\* at these commits any more.
ClearFinished ==
  /\ Over # {}
  /\ Forget(Over)
  /\ UNCHANGED <<author, sync, receiver, troubles>>

(***************************************************************************)
(* The peer's Pull.                                                        *)
(***************************************************************************)
Listed(L) == {e.f : e \in L}

Become(p, s) == pull' = [pull EXCEPT ![p] = s]

\* Nothing keeps a second pull from starting.
Begin(p, c) ==
  /\ pull[p].pc = "idle"
  /\ Become(p, [NoPull EXCEPT !.pc = "next", !.c = c, !.todo = sent[c]])
  /\ status' = [status EXCEPT ![c] = "pulling"]
  /\ met' = met \cup UNION {Listed(sent[c]) \cap Listed(pull[q].todo) : q \in Pullers \ {p}}
  /\ UNCHANGED <<author, sent, sync, final, inv>>

\* automode takes what is announced.
AutoPull(c) == status[c] = "announced" /\ Begin(Automode, c) /\ UNCHANGED troubles

\* handlePull: the user clicks on any commit, one that is being pulled, or that failed,
\* or that a restart cut off.
ClickPull(p, c) == status[c] \notin {"none", "sent"} /\ Begin(p, c) /\ Trouble("clicks")

\* pullOne has returned.
FileDone(s, bad) ==
  [s EXCEPT !.pc = "next", !.todo = @ \ {s.e}, !.failed = @ \/ bad,
            !.e = None, !.sv = 0, !.at = "gone"]

\* GetCommit lists the files in path order.
First(L) == {e \in L : \A d \in L : e.f <= d.f}

\* The delta check: a .mxf that is there with the right hash is left alone, and
\* so is its row.
Skip(p, e) ==
  /\ pull[p].pc = "next"
  /\ e.f # Index /\ final[e.f] = e.v
  /\ Become(p, [pull[p] EXCEPT !.todo = @ \ {e}])
  /\ UNCHANGED <<author, commits, sync, final, inv, met, troubles>>

NotSkipped(e) == e.f = Index \/ final[e.f] # e.v

\* Mutant: what was committed is served.
FetchCommitted(p, e) ==
  /\ pull[p].pc = "next"
  /\ NotSkipped(e)
  /\ e.f \in there
  /\ Become(p, [pull[p] EXCEPT !.pc = "copy", !.e = e, !.sv = e.v, !.at = "part"])
  /\ UNCHANGED <<author, commits, sync, final, inv, met, troubles>>

\* The answer is under way: handleFile opened the file that is on disk now.  os.Create
\* opens the .part, emptying the one that is already there: its writers go on writing
\* into it.
Fetch(p, e) ==
  /\ pull[p].pc = "next"
  /\ NotSkipped(e)
  /\ e.f \in there
  /\ Become(p, [pull[p] EXCEPT !.pc = "copy", !.e = e, !.sv = ver[e.f], !.at = "part"])
  /\ UNCHANGED <<author, commits, sync, final, inv, met, troubles>>

\* handleFile cannot open the file.
Refuse(p, e) ==
  /\ pull[p].pc = "next"
  /\ NotSkipped(e)
  /\ e.f \notin there
  /\ Become(p, [pull[p] EXCEPT !.todo = @ \ {e}, !.failed = TRUE])
  /\ UNCHANGED <<author, commits, sync, final, inv, met, troubles>>

\* No answer.
FetchFails(p, e) ==
  /\ pull[p].pc = "next"
  /\ NotSkipped(e)
  /\ Trouble("network")
  /\ Become(p, [pull[p] EXCEPT !.todo = @ \ {e}, !.failed = TRUE])
  /\ UNCHANGED <<author, commits, sync, final, inv, met>>

\* Who writes into the file that has the name f.part now; without them there is none.
Writers(f) == {q \in Pullers : pull[q].pc = "copy" /\ pull[q].e.f = f /\ pull[q].at = "part"}

\* What it may hold when p has all of its stream: that, when p is alone.
PartOf(p, f) ==
  IF Writers(f) = {p} THEN {pull[p].sv}
  ELSE {pull[q].sv : q \in Writers(f)} \cup {Short}
         \cup {x \in {Mixed} : \E q, r \in Writers(f) : pull[q].sv # pull[r].sv}

\* What a file that held x may hold when a stream of version v, or a piece of it, was
\* written into it.
Written(x, v) == IF x \in {Short, v} THEN {v} ELSE {x, v, Mixed}
Partly(x, v)  == IF x \in {Short, v} THEN {x} ELSE {x, Mixed}

\* The file that p writes, when it already has its last name (another pull renamed it).
WriteFinal(p, X) ==
  IF pull[p].at = "final"
    THEN \E x \in X : final' = [final EXCEPT ![pull[p].e.f] = x]
    ELSE UNCHANGED final

\* Where the file that q writes is when the name f.part goes away, or f does.
Unlinked == [part |-> "gone",  final |-> "final", gone |-> "gone"]
Renamed  == [part |-> "final", final |-> "gone",  gone |-> "gone"]
Removed  == [part |-> "part",  final |-> "gone",  gone |-> "gone"]

Moved(q, f, move) ==
  IF pull[q].pc = "copy" /\ pull[q].e.f = f THEN [pull[q] EXCEPT !.at = move[@]] ELSE pull[q]

\* p goes on as s, and the file that was f.part has moved.
After(p, s, move) ==
  pull' = [q \in Pullers |-> IF q = p THEN s ELSE Moved(q, pull[p].e.f, move)]

\* The stream has the announced hash: it is the announced version that was served (Avid
\* may have rewritten the file since, without meeting the stream).  os.Rename(tmpPath,
\* finalPath) takes whatever has the .part name now.
Receive(p) ==
  /\ pull[p].pc = "copy"
  /\ pull[p].sv = pull[p].e.v
  /\ Writers(pull[p].e.f) # {}
  /\ \E x \in PartOf(p, pull[p].e.f) : final' = [final EXCEPT ![pull[p].e.f] = x]
  /\ After(p, [pull[p] EXCEPT !.pc = "upsert"], Renamed)
  /\ UNCHANGED <<author, commits, sync, inv, met, troubles>>

\* ... and another pull took the .part away.
RenameFails(p) ==
  /\ pull[p].pc = "copy"
  /\ pull[p].sv = pull[p].e.v
  /\ Writers(pull[p].e.f) = {}
  /\ WriteFinal(p, Written(final[pull[p].e.f], pull[p].sv))
  /\ Become(p, FileDone(pull[p], TRUE))
  /\ UNCHANGED <<author, commits, sync, inv, met, troubles>>

\* The stream breaks, or has another hash: the announced version is not the one on the
\* author's disk, or Avid writes it while it is served.  os.Remove(tmpPath) removes
\* whatever has that name.
CopyFails(p) ==
  /\ pull[p].pc = "copy"
  /\ IF pull[p].sv = pull[p].e.v /\ ver[pull[p].e.f] = pull[p].sv
       THEN Trouble("network") ELSE UNCHANGED troubles
  /\ WriteFinal(p, Partly(final[pull[p].e.f], pull[p].sv))
  /\ After(p, FileDone(pull[p], TRUE), Unlinked)
  /\ UNCHANGED <<author, commits, sync, inv, met>>

\* The row gets the hash of the stream.
Upsert(p) ==
  /\ pull[p].pc = "upsert"
  /\ inv' = [f \in Media |-> IF f = pull[p].e.f THEN pull[p].e.v ELSE inv[f]]
  /\ Become(p, FileDone(pull[p], FALSE))
  /\ UNCHANGED <<author, commits, sync, final, met, troubles>>

\* The last status, when the row is still there.  A pulled commit is of no more use to
\* anybody, and the user clears it, although another pull of it may be under way.
Finish(p) ==
  /\ pull[p].pc = "next"
  /\ pull[p].todo = {}
  /\ IF pull[p].failed /\ status[pull[p].c] # "none"
       THEN status' = [status EXCEPT ![pull[p].c] = "failed"] /\ UNCHANGED sent
       ELSE Forget({pull[p].c})
  /\ Become(p, NoPull)
  /\ UNCHANGED <<author, sync, final, inv, met, troubles>>

\* The peer's user deletes a received file: nobody watches that folder.
RemoveReceived(f) ==
  /\ final[f] # 0
  /\ Trouble("removes")
  /\ final' = [final EXCEPT ![f] = 0]
  /\ pull' = [p \in Pullers |-> Moved(p, f, Removed)]
  /\ UNCHANGED <<author, commits, sync, inv, met>>

\* The peer's process ends and starts: the pulls stop where they are, the rows of
\* files that are gone are deleted.  (A .part that stays is emptied by the next pull
\* of its name.)
Restart ==
  /\ Trouble("restart")
  /\ pull' = [p \in Pullers |-> NoPull]
  /\ inv' = [f \in Media |-> IF final[f] = 0 THEN 0 ELSE inv[f]]
  /\ UNCHANGED <<author, commits, sync, final, met>>

AuthorStep == HashStore \/ \E f \in Files : Write(f) \/ HashOpen(f) \/ Delete(f)
SyncStep   == SyncAsk \/ SyncList
PullStep(p) ==
  \/ \E e \in First(pull[p].todo) : Skip(p, e) \/ Fetch(p, e) \/ Refuse(p, e) \/ FetchFails(p, e)
  \/ Receive(p) \/ RenameFails(p) \/ CopyFails(p) \/ Upsert(p) \/ Finish(p)

Next ==
  \/ AuthorStep
  \/ Commit
  \/ \E c \in Ids : Deliver(c) \/ Lose(c) \/ AutoPull(c) \/ \E p \in Hand : ClickPull(p, c)
  \/ SyncStep
  \/ ClearFinished
  \/ \E p \in Pullers : PullStep(p)
  \/ \E f \in Files : RemoveReceived(f)
  \/ Restart

Spec == Init /\ [][Next]_vars

HashStep == HashStore \/ \E f \in Files : HashOpen(f)

\* The hasher and the peer's automode work; there is an end to the commits, and then a
\* user goes on clicking sync-with; of the announcements that are sent again and again
\* not all are lost.
Fairness ==
  /\ WF_vars(HashStep)
  /\ <>[][~ Commit]_vars
  /\ WF_vars(SyncStep)
  /\ SF_vars(\E c \in Ids : Deliver(c))
  /\ SF_vars(\E c \in Ids : AutoPull(c))
  /\ \A p \in Pullers : WF_vars(PullStep(p))
  /\ SF_vars(ClearFinished)

FairSpec == Spec /\ Fairness

(***************************************************************************)
(* The refinement.  A file that two pulls had listed at the same time is   *)
(* not followed any longer.                                                *)
(***************************************************************************)
Copy == INSTANCE LaggingCopy
          WITH source <- ver, copy <- [f \in Files |-> IF f \in met THEN 0 ELSE final[f]]

(***************************************************************************)
(* Properties.                                                             *)
(***************************************************************************)
Listings == SUBSET [f : Files, v : Nat \ {0}]

TypeOK ==
  /\ ver \in [Files -> Nat]
  /\ there \subseteq Files
  /\ row \in [Files -> Int]
  /\ hashing \in Entries \cup {None}
  /\ sent \in [Ids -> Listings]
  /\ sync \in [pc : {"idle", "list"}, remote : SUBSET Hashes]
  /\ status \in [Ids -> {"none", "sent", "announced", "pulling", "failed"}]
  /\ pull \in [Pullers -> [pc : {"idle", "next", "copy", "upsert"},
                           c : Ids \cup {None}, todo : Listings, failed : BOOLEAN,
                           e : Entries \cup {None}, sv : Nat, at : {"part", "final", "gone"}]]
  /\ final \in [Files -> Int]
  /\ inv \in [Media -> Nat]
  /\ met \subseteq Files
  /\ troubles \subseteq Troubles

Held(f, v) == \E g \in Files : final[g] # 0 /\ Hash(g, final[g]) = Hash(f, v)

\* Under this or another name the peer has something that two pulls wrote, where a whole
\* file with this content should be.
Spoilt(f) == \E g \in met : Twin[g] = Twin[f] /\ final[g] \in {Short, Mixed}

\* handleSyncWith, step 3: a .mxf is left out only if the peer has its content,
\* under this or another name (or what two pulls made of it): what /inventory says of
\* the rows is true of the peer's disk when the delta is made, although pulls go on,
\* fail and are cut off by a restart between the rename and the Upsert (lan.go:293, 305).
DeltaLeavesNothingOut ==
  [][sync.pc = "list" /\ sync'.pc # "list" =>
       \/ "removes" \in troubles
       \/ \A f \in Media \cap UnderPrefix("sender", Hashed) :
            Entry(f) \in Delta \/ Held(f, row[f]) \/ Spoilt(f)]_vars

\* However announcements are lost, delayed and pulled in any order, by automode and
\* by clicks, and though the index is rewritten meanwhile: the peer's files are versions
\* the author had, and none ever gives way to an older one, as long as no two pulls work
\* on one name: handleFile serves what is on disk and pullOne refuses it when the commit
\* is not about that version any more.
ImplementsCopy == Copy!Spec

\* The peer has what the author has, of the files whose hash is up to date: each .mxf
\* by content, the index as it is.
CaughtUp == \A f \in there :
  row[f] = ver[f] =>
    IF f = Index THEN final[f] = ver[f] ELSE Held(f, ver[f]) \/ Spoilt(f)

\* Whatever was lost, broke or was rejected before: when the author's folder
\* rests and the user goes on clicking sync-with, the peer ends up with all of it
\* (but for what the peer's user deleted, or two pulls spoilt: the row says that it is
\* there).
CatchesUp == <>[]("removes" \in troubles \/ CaughtUp)

\* The file is there and its row is not: the process ended before the Upsert.
RowLost(f) == final[f] # 0 /\ inv[f] = 0

\* And then it lists no media any more: "inclui só se o hash não está no
\* inventário remoto" (api.go, handleSyncWith).
MediaStopTravelling ==
  <>[](sync.pc = "list" => \A e \in Delta : e.f = Index \/ RowLost(e.f))

(***************************************************************************)
(* What the code does not ensure: TLC finds a counterexample to each (the  *)
(* README names the run, or the run to change).                            *)
(***************************************************************************)

\* "Se delta vazio: devolve 200 'ja em sync'" (api.go, handleSyncWith): nothing to
\* send means that the peer lacks no file that has a hash.
NothingToSendMeansInSync ==
  [][sync.pc = "list" /\ sync'.pc = "idle" /\ Delta = {} =>
       \A f \in Hashed : Held(f, row[f])]_vars

\* ... under its own name.
NamesArrive == <>[](\A f \in there : final[f] = ver[f])

\* What two pulls spoil is pulled again some time (but its row says that it is whole).
SpoiltIsRepaired == \A f \in Media : []<>(~ Spoilt(f))
=============================================================================
