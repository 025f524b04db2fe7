---------------------------- MODULE LocalCommits ----------------------------
(***************************************************************************)
(* How the files of the manifest become commits: the staging calls and     *)
(* handleCommit of api.go, Service.Commit of commit.go, autoCommit of      *)
(* automode.go and SaveCommit of manifest/commits.go.  Handlers and        *)
(* automode run at the same time and share nothing but the database.       *)
(*                                                                         *)
(* What the watcher and the hasher do to a row (LocalFolder) is the        *)
(* environment here: a file is observed, rewritten, hashed or deleted.     *)
(***************************************************************************)
EXTENDS Integers, Sequences

CONSTANTS
  Files,
  Index,        \* the .mdb of the folder, one of Files
  Hand,         \* POST /commits requests that can run at once
  Automode,     \* the automode goroutine
  Faults,       \* "db": a statement fails;  "crash": the process ends
  Races,        \* "during":  (un)staging of pending files while a commit runs
                \* "restage": (un)staging of committed files
  MaxVersion,   \* bound on the versions of the index
  MaxMdb,       \* bound on the changes of any .mdb
  MaxCommits,   \* bound on the saved commits
  Returning,    \* the files that may be taken away and come back
  Clicked,      \* the files that the page stages and unstages
  None

Committers == Hand \cup {Automode}

ASSUME LocalCommitsAssumption ==
  /\ Index \in Files
  /\ Returning \subseteq Files /\ Clicked \subseteq Files
  /\ Automode \notin Hand
  /\ MaxVersion \in Nat \ {0} /\ MaxMdb \in Nat /\ MaxCommits \in Nat

VARIABLES
  ver,    \* ver[f]: the version of f on disk, 0 before the first one
  mdb,    \* how often an .mdb under the root changed: avid's LastMDBChange
  row,    \* row[f]: status and hash of the row 1/f
  com,    \* the local state of each committer
  sent,   \* the saved commits with direction=sent, "by" the one who saved them
  lost,   \* history: the files a commit had marked when it came to nothing
  again   \* history: the files that were discovered again after a commit had taken them

vars == <<ver, mdb, row, com, sent, lost, again>>

\* An entry of the list that Commit works through.  ByStatus is called twice,
\* and "from" tells which call listed the file.
Entries == [f : Files, v : 0..MaxVersion, from : {"discovered", "staged"}]

\* since: history, how many commits were saved when this one began to list.
Idle == [pc |-> "idle", todo |-> {}, files |-> {}, created |-> 0, since |-> 0]

Init ==
  /\ ver  = [f \in Files |-> 0]
  /\ mdb  = 0
  /\ row  = [f \in Files |-> None]
  /\ com  = [p \in Committers |-> Idle]
  /\ sent = <<>>
  /\ lost = {}
  /\ again = {}

Listed(f)  == row[f] # None
Pending(f) == Listed(f) /\ row[f].st \in {"discovered", "staged"}
Hashed(f)  == Listed(f) /\ row[f].v # 0
Quiet      == \A p \in Committers : com[p].pc = "idle"

(***************************************************************************)
(* The environment: watcher, drainer and hasher.                           *)
(***************************************************************************)

\* Media files are "imutáveis após captura" (watcher.go:151), the index is not.
Touch(f) ==
  /\ IF f = Index THEN ver[f] < MaxVersion /\ mdb < MaxMdb ELSE ver[f] = 0
  /\ ver' = [ver EXCEPT ![f] = @ + 1]
  /\ mdb' = IF f = Index THEN mdb + 1 ELSE mdb

\* UpsertObserved: a new file is discovered; a rewritten one loses its hash and
\* keeps its status.
Observe(f) ==
  /\ Touch(f)
  /\ row' = [row EXCEPT ![f] = IF @ = None THEN [st |-> "discovered", v |-> 0]
                                           ELSE [@ EXCEPT !.v = 0]]
  /\ UNCHANGED <<com, sent, lost, again>>

\* SetHash, of the version that is on disk.
Hash(f) ==
  /\ Listed(f)
  /\ ~ Hashed(f)
  /\ row' = [row EXCEPT ![f].v = ver[f]]
  /\ UNCHANGED <<ver, mdb, com, sent, lost, again>>

Delete(f) ==
  /\ Listed(f)
  /\ row' = [row EXCEPT ![f] = None]
  /\ UNCHANGED <<ver, mdb, com, sent, lost, again>>

FilesOf(p) == {e.f : e \in com[p].files}

InACommit(f) == \E i \in DOMAIN sent : \E e \in sent[i].files : e.f = f

\* A file that came back (moved out of the folder and in, or the root switched away and
\* back): after Delete its row is new, discovered and without a hash.
SeeAgain(f) ==
  /\ f \in Returning
  /\ ~ Listed(f)
  /\ ver[f] # 0
  /\ row' = [row EXCEPT ![f] = [st |-> "discovered", v |-> 0]]
  /\ again' = IF InACommit(f) \/ \E p \in Committers : f \in FilesOf(p)
                THEN again \cup {f} ELSE again
  /\ UNCHANGED <<ver, mdb, com, sent, lost>>

\* A pull brings the .mdb of another user: mostRecentMDB sees every folder.
PulledIndex ==
  /\ mdb < MaxMdb
  /\ mdb' = mdb + 1
  /\ UNCHANGED <<ver, row, com, sent, lost, again>>

(***************************************************************************)
(* Staging.  SetStatus does not look at the status it replaces; the page   *)
(* offers it for the pending files it loaded some time ago.                *)
(***************************************************************************)
CanClick(f) ==
  /\ f \in Clicked
  /\ Listed(f)
  /\ Quiet \/ "during" \in Races
  /\ Pending(f) \/ "restage" \in Races

SetStatus(f, st) ==
  row' = [row EXCEPT ![f] = IF @ = None THEN None ELSE [@ EXCEPT !.st = st]]

Stage(f) ==
  /\ CanClick(f)
  /\ SetStatus(f, "staged")
  /\ UNCHANGED <<ver, mdb, com, sent, lost, again>>

Unstage(f) ==
  /\ CanClick(f)
  /\ SetStatus(f, "discovered")
  /\ UNCHANGED <<ver, mdb, com, sent, lost, again>>

(***************************************************************************)
(* Commit.                                                                 *)
(***************************************************************************)
Become(p, s) == com' = [com EXCEPT ![p] = s]
Return(p)    == Become(p, Idle)

\* handleCommit goes on when some pending file has a hash.
HandleCommit(p) ==
  /\ com[p].pc = "idle"
  /\ \E f \in Files : Pending(f) /\ Hashed(f)
  /\ Become(p, [Idle EXCEPT !.pc = "discovered"])
  /\ UNCHANGED <<ver, mdb, row, sent, lost, again>>

\* autoCommit goes on when nothing was ever sent, or an .mdb changed after the
\* newest sent commit was created.
MdbIsNewer == \A i \in DOMAIN sent : sent[i].mdb < mdb

AutoCommit ==
  /\ com[Automode].pc = "idle"
  /\ MdbIsNewer
  /\ Become(Automode, [Idle EXCEPT !.pc = "discovered"])
  /\ UNCHANGED <<ver, mdb, row, sent, lost, again>>

ByStatus(st) ==
  {[f |-> f, v |-> row[f].v, from |-> st] : f \in {g \in Files : Listed(g) /\ row[g].st = st}}

ListDiscovered(p) ==
  /\ com[p].pc = "discovered"
  /\ Become(p, [com[p] EXCEPT !.pc = "staged", !.todo = ByStatus("discovered"),
                  !.since = Len(sent)])
  /\ UNCHANGED <<ver, mdb, row, sent, lost, again>>

\* Entries without a hash are left for the next commit.
ListStaged(p) ==
  /\ com[p].pc = "staged"
  /\ Become(p, [com[p] EXCEPT !.pc = "mark",
                  !.todo = {e \in @ \cup ByStatus("staged") : e.v # 0}])
  /\ UNCHANGED <<ver, mdb, row, sent, lost, again>>

\* Mutant: the status is not written.
MarkNothing(p, e) ==
  /\ com[p].pc = "mark"
  /\ e \in com[p].todo
  /\ Become(p, [com[p] EXCEPT !.todo = @ \ {e}, !.files = @ \cup {e}])
  /\ UNCHANGED <<ver, mdb, row, sent, lost, again>>

\* Mutant: only the second list reaches the commit.
MarkStaged(p, e) ==
  /\ com[p].pc = "mark"
  /\ e \in com[p].todo
  /\ SetStatus(e.f, "committed")
  /\ Become(p, [com[p] EXCEPT !.todo = @ \ {e},
                  !.files = IF e.from = "staged" THEN @ \cup {e} ELSE @])
  /\ UNCHANGED <<ver, mdb, sent, lost, again>>

\* SetStatus(committed), one file after the other; the entry carries the hash
\* that was listed.
Mark(p, e) ==
  /\ com[p].pc = "mark"
  /\ e \in com[p].todo
  /\ SetStatus(e.f, "committed")
  /\ Become(p, [com[p] EXCEPT !.todo = @ \ {e}, !.files = @ \cup {e}])
  /\ UNCHANGED <<ver, mdb, sent, lost, again>>

\* commit_files has the primary key (commit_id, path).
UniquePaths(files) == \A d, e \in files : d.f = e.f => d = e

\* Commit returns: CreatedAt is now.  autoCommit stops when there are no files,
\* handleCommit goes on all the same.
Create(p) ==
  /\ com[p].pc = "mark"
  /\ com[p].todo = {}
  /\ IF p = Automode /\ com[p].files = {}
       THEN Return(p)
       ELSE Become(p, [com[p] EXCEPT !.pc = "save", !.created = mdb])
  /\ UNCHANGED <<ver, mdb, row, sent, lost, again>>

\* SaveCommit(sent).
Save(p) ==
  /\ com[p].pc = "save"
  /\ Len(sent) < MaxCommits
  /\ UniquePaths(com[p].files)
  /\ sent' = Append(sent, [files |-> {[f |-> e.f, v |-> e.v] : e \in com[p].files},
                          mdb |-> com[p].created, by |-> p, since |-> com[p].since])
  /\ Return(p)
  /\ UNCHANGED <<ver, mdb, row, lost, again>>

\* A path that was listed twice makes the transaction fail; with "db", so may
\* any statement.  The caller returns, what is marked stays marked.
Fail(p) ==
  /\ com[p].pc # "idle"
  /\ "db" \in Faults \/ (com[p].pc = "save" /\ ~ UniquePaths(com[p].files))
  /\ lost' = lost \cup FilesOf(p)
  /\ Return(p)
  /\ UNCHANGED <<ver, mdb, row, sent, again>>

Crash ==
  /\ "crash" \in Faults
  /\ ~ Quiet
  /\ lost' = lost \cup UNION {FilesOf(p) : p \in Committers}
  /\ com' = [p \in Committers |-> Idle]
  /\ UNCHANGED <<ver, mdb, row, sent, again>>

CommitStep(p) ==
  \/ ListDiscovered(p)
  \/ ListStaged(p)
  \/ \E e \in Entries : Mark(p, e)
  \/ Create(p)
  \/ Save(p)
  \/ Fail(p)

Next ==
  \/ \E f \in Files : \/ Observe(f) \/ SeeAgain(f) \/ Hash(f) \/ Delete(f)
                      \/ Stage(f) \/ Unstage(f)
  \/ PulledIndex
  \/ \E p \in Hand : HandleCommit(p)
  \/ AutoCommit
  \/ \E p \in Committers : CommitStep(p)
  \/ Crash

Spec == Init /\ [][Next]_vars

\* automode ticks while Avid is closed, a request that was let in is served, the
\* hasher gets to every file.
Fairness ==
  /\ WF_vars(AutoCommit)
  /\ \A p \in Committers : WF_vars(CommitStep(p))
  /\ \A f \in Files : WF_vars(Hash(f))

FairSpec == Spec /\ Fairness

(***************************************************************************)
(* Properties.                                                             *)
(***************************************************************************)
Commit == [files : SUBSET [f : Files, v : 1..MaxVersion], mdb : 0..MaxMdb, by : Committers,
           since : 0..MaxCommits]

TypeOK ==
  /\ ver \in [Files -> 0..MaxVersion]
  /\ mdb \in 0..MaxMdb
  /\ row \in [Files -> [st : {"discovered", "staged", "committed"},
                        v : 0..MaxVersion] \cup {None}]
  /\ com \in [Committers -> [pc : {"idle", "discovered", "staged", "mark", "save"},
                             todo : SUBSET Entries, files : SUBSET Entries,
                             created : 0..MaxMdb, since : 0..MaxCommits]]
  /\ sent \in Seq(Commit)
  /\ lost \subseteq Files /\ again \subseteq Files

\* A file marked "committed" is in a commit that was saved, or a committer still
\* holds it, or the one that marked it failed: however requests and automode
\* interleave, only a fault makes a file look sent that never was (the marks are
\* set one by one, the commit is saved afterwards: commit.go:94, api.go:353).
CommittedIsSent == \A f \in Files :
  Listed(f) /\ row[f].st = "committed" /\ f \notin lost =>
    \/ InACommit(f)
    \/ \E p \in Committers : f \in FilesOf(p)

\* The j-th commit began to list after the i-th was saved, or both are of one
\* committer, who does one thing after the other.
Follows(i, j) == i < j /\ (i <= sent[j].since \/ sent[i].by = sent[j].by)

\* A commit never sends again what was sent before it: Commit "consome" the files
\* (commit.go:68), in spite of the requests and the tick that interleave, of failures
\* and of restarts.  (Two commits at the same time may share a file: both list it
\* before either marks it.  And a file whose row was deleted is new when it is seen
\* again: UpsertObserved inserts it as discovered, manifest.go:137-151.)
SendsOnce == \A i, j \in DOMAIN sent :
  Follows(i, j) => \A e \in sent[i].files \cap sent[j].files : e.f \in again

(***************************************************************************)
(* What the code does not ensure: TLC finds a counterexample to each (the  *)
(* README names the run, or the run to change).                            *)
(***************************************************************************)

\* handleCommit "Rejeita commit vazio ... Sem isso, criaríamos um commit fantasma
\* de 0 arquivos" (api.go:310-312).
NoPhantomCommit == \A i \in DOMAIN sent : sent[i].files # {}

\* "Pasta é a unidade de envio ... Por isso pegamos tudo que tem hash"
\* (commit.go:72-74); .mdb and .pmr "precisam viajar junto com .mxf"
\* (watcher.go:155-156): when Commit has listed media to send and the index is
\* hashed, and not pending for a later commit, it is in the list or was sent.
IndexTravels ==
  [][\A p \in Committers :
       /\ com[p].pc = "staged" /\ com'[p].pc = "mark"
       /\ \E e \in com'[p].todo : e.f # Index
       /\ Hashed(Index) /\ ~ Pending(Index)
       => \/ \E e \in com'[p].todo : e.f = Index
          \/ \E i \in DOMAIN sent : [f |-> Index, v |-> row[Index].v] \in sent[i].files]_vars

\* Files without a hash "entram no próximo commit quando o hasher processar"
\* (commit.go:76-77): with automode on, a pending file that has its hash is
\* committed, rewritten or deleted in the end.
HashedIsCommitted == \A f \in Files :
  Pending(f) /\ Hashed(f) ~> ~ (Pending(f) /\ Hashed(f))
=============================================================================
