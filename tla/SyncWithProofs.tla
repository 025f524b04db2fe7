-------------------------- MODULE SyncWithProofs --------------------------
(***************************************************************************)
(* Theorems about SyncWith, for any files, any number of versions,         *)
(* commits, pulls at the same time and troubles: the types, the refinement *)
(* of LaggingCopy, and what the delta of handleSyncWith may leave out.     *)
(***************************************************************************)
EXTENDS SyncWith, TLAPS

(***************************************************************************)
(* Types.  What is being pulled is one of the files still to do.           *)
(***************************************************************************)
AuthorTyped ==
  /\ ver \in [Files -> Nat]
  /\ there \subseteq Files
  /\ row \in [Files -> Int]
  /\ hashing \in Entries \cup {None}
  /\ troubles \subseteq Troubles

CommitsTyped ==
  /\ sent \in [Ids -> Listings]
  /\ status \in [Ids -> {"none", "sent", "announced", "pulling", "failed"}]

SyncTyped == sync \in [pc : {"idle", "list"}, remote : SUBSET Hashes]

Pulls == [pc : {"idle", "next", "copy", "upsert"}, c : Ids \cup {None},
          todo : Listings, failed : BOOLEAN,
          e : Entries \cup {None}, sv : Nat, at : {"part", "final", "gone"}]

GoodPull(s) ==
  /\ s \in Pulls
  /\ s.pc \in {"copy", "upsert"} => s.e \in s.todo
  /\ s.pc # "idle" => s.c \in Ids

PeerTyped ==
  /\ pull \in [Pullers -> Pulls]
  /\ \A p \in Pullers : GoodPull(pull[p])
  /\ final \in [Files -> Int]
  /\ inv \in [Media -> Nat]
  /\ met \subseteq Files

Typed == AuthorTyped /\ CommitsTyped /\ SyncTyped /\ PeerTyped

\* A number that is taken for a commit is one of Ids.
LEMMA NewIdIsId == Unused # {} => NewID \in Ids
  BY DEF Unused, NewID

\* What is listed of hashed rows is a listing.
LEMMA EntriesOfRows ==
  ASSUME AuthorTyped, NEW F \in SUBSET Hashed
  PROVE  {Entry(f) : f \in F} \in Listings
<1>1. ASSUME NEW f \in F PROVE Entry(f) \in [f : Files, v : Nat \ {0}]
  BY <1>1 DEF Hashed, Entry, AuthorTyped
<1>2. QED
  BY <1>1 DEF Listings

LEMMA DeltaIsListing ==
  ASSUME AuthorTyped
  PROVE  Delta \in Listings
<1> DEFINE F == {g \in UnderPrefix("sender", Hashed) :
                   g = Index \/ Hash(g, row[g]) \notin sync.remote}
<1>1. F \in SUBSET Hashed
  BY DEF UnderPrefix
<1>2. QED
  BY <1>1, EntriesOfRows DEF Delta

LEMMA RemoteHashesTyped ==
  ASSUME PeerTyped
  PROVE  RemoteHashes \in SUBSET Hashes
<1>1. ASSUME NEW f \in Media PROVE Hash(f, inv[f]) \in Hashes
  <2>1. inv[f] \in Nat /\ Twin[f] \in Files
    BY SyncWithAssumption DEF PeerTyped, Files
  <2>2. QED
    BY <2>1 DEF Hash, Hashes
<1>2. QED
  BY <1>1 DEF RemoteHashes, UnderPrefix

\* What a listing names.
LEMMA ListedEntry ==
  ASSUME NEW L \in Listings, NEW e \in L
  PROVE  e \in Entries /\ e.f \in Files /\ e.v \in Nat /\ e.v # 0 /\ L \ {e} \in Listings
  BY DEF Listings, Entries

(***************************************************************************)
(* The kinds of steps.                                                     *)
(***************************************************************************)

\* The author, the network or the rows of commits.
Quiet == UNCHANGED <<ver, receiver>> /\ there' \subseteq there

PeerStep ==
  \/ \E f \in Files : RemoveReceived(f)
  \/ Restart
  \/ \E p \in Pullers, c \in Ids : Begin(p, c)
  \/ \E p \in Pullers : PullStep(p)

LEMMA StepKinds == [Next]_vars => Quiet \/ (\E f \in Files : Write(f)) \/ PeerStep
<1> SUFFICES ASSUME [Next]_vars PROVE Quiet \/ (\E f \in Files : Write(f)) \/ PeerStep
  OBVIOUS
<1>1. CASE AuthorStep
  BY <1>1 DEF AuthorStep, HashStore, HashOpen, Delete, Quiet
<1>2. CASE Commit \/ SyncStep \/ ClearFinished
  BY <1>2 DEF Commit, SyncStep, SyncAsk, SyncList, ClearFinished, Quiet, author
<1>3. ASSUME NEW c \in Ids, Deliver(c) \/ Lose(c) PROVE Quiet
  BY <1>3 DEF Deliver, Lose, Quiet, author
<1>4. ASSUME NEW c \in Ids, AutoPull(c) PROVE PeerStep
  BY <1>4 DEF AutoPull, PeerStep, Pullers
<1>5. ASSUME NEW c \in Ids, NEW p \in Hand, ClickPull(p, c) PROVE PeerStep
  BY <1>5 DEF ClickPull, PeerStep, Pullers
<1>6. CASE UNCHANGED vars
  BY <1>6 DEF vars, receiver, Quiet
<1>7. QED
  BY <1>1, <1>2, <1>3, <1>4, <1>5, <1>6 DEF Next, PeerStep

\* What the peer does leaves the author, the answer of the inventory and most of the
\* rest alone.
LEMMA PeerStepLeaves == PeerStep => UNCHANGED <<author, sync>>
  BY DEF PeerStep, RemoveReceived, Restart, Begin, PullStep, Skip, Fetch, Refuse, FetchFails,
         Receive, RenameFails, CopyFails, Upsert, Finish

LEMMA TroublesTyped == AuthorTyped /\ [Next]_vars => troubles' \subseteq Troubles /\ troubles \subseteq troubles'
<1> SUFFICES ASSUME AuthorTyped, [Next]_vars
             PROVE  troubles' \subseteq Troubles /\ troubles \subseteq troubles'
  OBVIOUS
<1> USE DEF AuthorTyped, Trouble
<1>1. CASE AuthorStep \/ Commit \/ SyncStep \/ ClearFinished
  BY <1>1 DEF AuthorStep, Write, HashOpen, HashStore, Delete, Commit, SyncStep, SyncAsk, SyncList,
              ClearFinished
<1>2. CASE \E c \in Ids : Deliver(c) \/ Lose(c) \/ AutoPull(c) \/ \E p \in Hand : ClickPull(p, c)
  BY <1>2 DEF Deliver, Lose, AutoPull, ClickPull
<1>3. ASSUME NEW p \in Pullers, PullStep(p)
      PROVE  troubles' \subseteq Troubles /\ troubles \subseteq troubles'
  BY <1>3 DEF PullStep, Skip, Fetch, Refuse, FetchFails, Receive, RenameFails, CopyFails,
              Upsert, Finish
<1>4. CASE (\E f \in Files : RemoveReceived(f)) \/ Restart
  BY <1>4 DEF RemoveReceived, Restart
<1>5. CASE UNCHANGED vars
  BY <1>5 DEF vars
<1>6. QED
  BY <1>1, <1>2, <1>3, <1>4, <1>5 DEF Next

LEMMA AuthorTypedNext == Typed /\ [Next]_vars => AuthorTyped'
<1> SUFFICES ASSUME Typed, [Next]_vars PROVE AuthorTyped'
  OBVIOUS
<1> USE DEF Typed
<1>t. troubles' \subseteq Troubles
  BY TroublesTyped
<1>1. ASSUME NEW f \in Files, Write(f) \/ HashOpen(f) \/ Delete(f) PROVE AuthorTyped'
  BY <1>1, <1>t DEF Write, HashOpen, Delete, AuthorTyped, Entries, NoRow
<1>2. CASE HashStore
  <2>1. hashing \in Entries /\ hashing.f \in Files /\ hashing.v \in Int /\ ver[hashing.f] \in Int
    BY <1>2 DEF HashStore, AuthorTyped, Entries
  <2>2. row' \in [Files -> Int]
    BY <1>2, <2>1 DEF HashStore, AuthorTyped
  <2>3. QED
    BY <1>2, <1>t, <2>2 DEF HashStore, AuthorTyped
<1>3. CASE UNCHANGED author
  BY <1>3, <1>t DEF author, AuthorTyped
<1>4. CASE Commit \/ SyncStep \/ ClearFinished
  BY <1>4, <1>3 DEF Commit, SyncStep, SyncAsk, SyncList, ClearFinished
<1>5. CASE \E c \in Ids : Deliver(c) \/ Lose(c) \/ AutoPull(c) \/ \E p \in Hand : ClickPull(p, c)
  BY <1>5, <1>3 DEF Deliver, Lose, AutoPull, ClickPull, Begin
<1>6. CASE (\E p \in Pullers : PullStep(p)) \/ (\E f \in Files : RemoveReceived(f)) \/ Restart
  BY <1>6, <1>3, PeerStepLeaves DEF PeerStep
<1>7. CASE UNCHANGED vars
  BY <1>7, <1>3 DEF vars, author
<1>8. QED
  BY <1>1, <1>2, <1>4, <1>5, <1>6, <1>7 DEF Next, AuthorStep

LEMMA ForgetTyped ==
  ASSUME CommitsTyped, NEW C, Forget(C)
  PROVE  CommitsTyped'
  BY DEF CommitsTyped, Forget, Listings

LEMMA SaveTyped ==
  ASSUME CommitsTyped, NEW files \in Listings, SaveAndAnnounce(files)
  PROVE  CommitsTyped'
  BY NewIdIsId DEF CommitsTyped, SaveAndAnnounce

LEMMA CommitsTypedNext == Typed /\ [Next]_vars => CommitsTyped'
<1> SUFFICES ASSUME Typed, [Next]_vars PROVE CommitsTyped'
  OBVIOUS
<1> USE DEF Typed, commits
<1>1. CASE UNCHANGED commits
  BY <1>1 DEF CommitsTyped
<1>2. CASE AuthorStep
  BY <1>2, <1>1 DEF AuthorStep, Write, HashOpen, HashStore, Delete
<1>3. CASE Commit
  <2>1. PICK files \in SUBSET Hashed \ {{}} : SaveAndAnnounce({Entry(f) : f \in files})
    BY <1>3 DEF Commit
  <2>2. {Entry(f) : f \in files} \in Listings
    BY EntriesOfRows
  <2>3. QED
    BY <2>1, <2>2, SaveTyped
<1>4. ASSUME NEW c \in Ids, Deliver(c) \/ Lose(c) PROVE CommitsTyped'
  <2>1. CASE Deliver(c)
    BY <2>1 DEF Deliver, CommitsTyped
  <2>2. CASE Lose(c)
    BY <2>2, ForgetTyped DEF Lose
  <2>3. QED
    BY <1>4, <2>1, <2>2
<1>5. ASSUME NEW p, NEW c \in Ids, Begin(p, c) PROVE CommitsTyped'
  BY <1>5 DEF Begin, CommitsTyped
<1>6. CASE SyncAsk
  BY <1>6, <1>1 DEF SyncAsk
<1>7. CASE SyncList
  <2>1. CASE Delta = {}
    BY <1>7, <1>1, <2>1 DEF SyncList
  <2>2. CASE Delta # {}
    BY <1>7, <2>2, DeltaIsListing, SaveTyped DEF SyncList
  <2>3. QED
    BY <2>1, <2>2
<1>8. CASE ClearFinished
  BY <1>8, ForgetTyped DEF ClearFinished
<1>9. ASSUME NEW p \in Pullers, Finish(p) PROVE CommitsTyped'
  <2>1. CASE pull[p].failed /\ status[pull[p].c] # "none"
    BY <1>9, <2>1 DEF Finish, CommitsTyped
  <2>2. CASE ~ (pull[p].failed /\ status[pull[p].c] # "none")
    BY <1>9, <2>2, ForgetTyped DEF Finish
  <2>3. QED
    BY <2>1, <2>2
<1>10. ASSUME NEW p \in Pullers, PullStep(p), ~ Finish(p) PROVE CommitsTyped'
  BY <1>10, <1>1 DEF PullStep, Skip, Fetch, Refuse, FetchFails, Receive, RenameFails, CopyFails, Upsert
<1>11. CASE (\E f \in Files : RemoveReceived(f)) \/ Restart
  BY <1>11, <1>1 DEF RemoveReceived, Restart
<1>12. CASE UNCHANGED vars
  BY <1>12, <1>1 DEF vars
<1>13. QED
  BY <1>2, <1>3, <1>4, <1>5, <1>6, <1>7, <1>8, <1>9, <1>10, <1>11, <1>12
     DEF Next, SyncStep, AutoPull, ClickPull

LEMMA SyncTypedNext == Typed /\ [Next]_vars => SyncTyped'
<1> SUFFICES ASSUME Typed, [Next]_vars PROVE SyncTyped'
  OBVIOUS
<1> USE DEF Typed
<1>1. CASE UNCHANGED sync
  BY <1>1 DEF SyncTyped
<1>2. CASE SyncAsk \/ SyncList
  <2>1. RemoteHashes \in SUBSET Hashes /\ {} \in SUBSET Hashes
    BY RemoteHashesTyped
  <2>2. sync' = [pc |-> "list", remote |-> RemoteHashes] \/ sync' = [pc |-> "idle", remote |-> {}]
    BY <1>2 DEF SyncAsk, SyncList, NoSync
  <2>3. QED
    BY <2>1, <2>2 DEF SyncTyped
<1>3. CASE AuthorStep \/ Commit \/ ClearFinished
  BY <1>3, <1>1 DEF AuthorStep, Write, HashOpen, HashStore, Delete, Commit, ClearFinished
<1>4. CASE \E c \in Ids : Deliver(c) \/ Lose(c) \/ AutoPull(c) \/ \E p \in Hand : ClickPull(p, c)
  BY <1>4, <1>1 DEF Deliver, Lose, AutoPull, ClickPull, Begin
<1>5. CASE (\E p \in Pullers : PullStep(p)) \/ (\E f \in Files : RemoveReceived(f)) \/ Restart
  BY <1>5, <1>1, PeerStepLeaves DEF PeerStep
<1>6. CASE UNCHANGED vars
  BY <1>6, <1>1 DEF vars
<1>7. QED
  BY <1>2, <1>3, <1>4, <1>5, <1>6 DEF Next, SyncStep

(***************************************************************************)
(* The pulls.  A step of one leaves what the others do as it is: at most,  *)
(* the file they write gets another name, or loses it.                     *)
(***************************************************************************)
LEMMA NoPullGood == GoodPull(NoPull)
  BY DEF GoodPull, NoPull, Pulls, Listings

LEMMA FileDoneGood ==
  ASSUME NEW s, GoodPull(s), s.pc \in {"copy", "upsert"}, NEW bad \in BOOLEAN
  PROVE  /\ GoodPull(FileDone(s, bad))
         /\ FileDone(s, bad).pc = "next"
         /\ FileDone(s, bad).todo = s.todo \ {s.e}
<1>1. s.todo \in Listings /\ s.e \in s.todo /\ s.c \in Ids /\ s.failed \in BOOLEAN
  BY DEF GoodPull, Pulls
<1>2. s.todo \ {s.e} \in Listings
  BY <1>1 DEF Listings
<1>3. QED
  BY <1>1, <1>2 DEF FileDone, GoodPull, Pulls

SameBut(s, t) == s.pc = t.pc /\ s.c = t.c /\ s.todo = t.todo /\ s.failed = t.failed
                 /\ s.e = t.e /\ s.sv = t.sv

LEMMA MovedGood ==
  ASSUME PeerTyped, NEW q \in Pullers, NEW f, NEW move \in {Unlinked, Renamed, Removed}
  PROVE  /\ GoodPull(Moved(q, f, move))
         /\ SameBut(Moved(q, f, move), pull[q])
         /\ Moved(q, f, move) # pull[q] => pull[q].pc = "copy" /\ pull[q].e.f = f
<1>1. GoodPull(pull[q]) /\ pull[q].at \in {"part", "final", "gone"}
  BY DEF PeerTyped, Pulls
<1>2. move[pull[q].at] \in {"part", "final", "gone"}
  BY <1>1 DEF Unlinked, Renamed, Removed
<1>3. CASE pull[q].pc = "copy" /\ pull[q].e.f = f
  <2>1. Moved(q, f, move) = [pull[q] EXCEPT !.at = move[pull[q].at]]
    BY <1>3 DEF Moved
  <2>2. pull[q] \in Pulls
    BY <1>1 DEF GoodPull
  <2>3. QED
    BY <1>1, <1>2, <1>3, <2>1, <2>2 DEF GoodPull, Pulls, SameBut
<1>4. CASE ~ (pull[q].pc = "copy" /\ pull[q].e.f = f)
  BY <1>1, <1>4 DEF Moved, SameBut
<1>5. QED
  BY <1>3, <1>4

\* What a step of p does to the pulls, when p becomes s.
PullsMove(p, s) ==
  /\ pull' \in [Pullers -> Pulls]
  /\ pull'[p] = s
  /\ \A q \in Pullers : GoodPull(pull'[q])
  /\ \A q \in Pullers \ {p} :
       /\ SameBut(pull'[q], pull[q])
       /\ pull'[q] # pull[q] => /\ pull[p].pc = "copy" /\ pull[q].pc = "copy"
                                /\ pull[q].e.f = pull[p].e.f

LEMMA BecomeMoves ==
  ASSUME PeerTyped, NEW p \in Pullers, NEW s, GoodPull(s), Become(p, s)
  PROVE  PullsMove(p, s)
<1>1. s \in Pulls
  BY DEF GoodPull
<1>2. pull' = [pull EXCEPT ![p] = s]
  BY DEF Become
<1>3. pull' \in [Pullers -> Pulls] /\ pull'[p] = s /\ \A q \in Pullers \ {p} : pull'[q] = pull[q]
  BY <1>1, <1>2 DEF PeerTyped
<1>4. QED
  BY <1>3 DEF PeerTyped, PullsMove, SameBut

LEMMA AfterMoves ==
  ASSUME PeerTyped, NEW p \in Pullers, NEW s, GoodPull(s), NEW move \in {Unlinked, Renamed},
         After(p, s, move), pull[p].pc = "copy"
  PROVE  PullsMove(p, s)
<1>1. s \in Pulls
  BY DEF GoodPull
<1>2. pull' = [q \in Pullers |-> IF q = p THEN s ELSE Moved(q, pull[p].e.f, move)]
  BY DEF After
<1>3. \A q \in Pullers : /\ GoodPull(Moved(q, pull[p].e.f, move))
                         /\ Moved(q, pull[p].e.f, move) \in Pulls
  BY MovedGood DEF GoodPull
<1>4. pull' \in [Pullers -> Pulls] /\ pull'[p] = s
      /\ \A q \in Pullers \ {p} : pull'[q] = Moved(q, pull[p].e.f, move)
  BY <1>1, <1>2, <1>3
<1>5. QED
  BY <1>3, <1>4, MovedGood DEF PullsMove

\* What p does with its own record.
OwnStep(p, s) ==
  \/ s.pc \in {"idle", "next"} /\ s.todo \subseteq pull[p].todo
  \/ s.pc = "copy" /\ s.todo = pull[p].todo /\ \E e \in pull[p].todo : Fetch(p, e)
  \/ s.pc = "upsert" /\ s.todo = pull[p].todo /\ s.e = pull[p].e /\ Receive(p)

LEMMA PullStepMoves ==
  ASSUME Typed, NEW p \in Pullers, PullStep(p)
  PROVE  \E s : PullsMove(p, s) /\ OwnStep(p, s)
<1>p. PeerTyped /\ GoodPull(pull[p]) /\ pull[p] \in Pulls /\ pull[p].todo \in Listings
  BY DEF Typed, PeerTyped, GoodPull, Pulls
<1>1. ASSUME NEW e \in pull[p].todo, Skip(p, e) \/ Refuse(p, e) \/ FetchFails(p, e)
      PROVE  \E s : PullsMove(p, s) /\ OwnStep(p, s)
  <2> DEFINE s == [pull[p] EXCEPT !.todo = @ \ {e}]
             t == [pull[p] EXCEPT !.todo = @ \ {e}, !.failed = TRUE]
  <2>1. pull[p].pc = "next" /\ pull[p].c \in Ids /\ pull[p].todo \ {e} \in Listings
    BY <1>1, <1>p, ListedEntry DEF Skip, Refuse, FetchFails, GoodPull
  <2>2. GoodPull(s) /\ GoodPull(t)
    BY <1>p, <2>1 DEF GoodPull, Pulls
  <2>3. OwnStep(p, s) /\ OwnStep(p, t)
    BY <1>p, <2>1 DEF OwnStep, Pulls
  <2>4. Become(p, s) \/ Become(p, t)
    BY <1>1 DEF Skip, Refuse, FetchFails
  <2>5. QED
    BY <1>p, <2>2, <2>3, <2>4, BecomeMoves
<1>2. ASSUME NEW e \in pull[p].todo, Fetch(p, e)
      PROVE  \E s : PullsMove(p, s) /\ OwnStep(p, s)
  <2> DEFINE s == [pull[p] EXCEPT !.pc = "copy", !.e = e, !.sv = ver[e.f], !.at = "part"]
  <2>1. pull[p].pc = "next" /\ pull[p].c \in Ids /\ Become(p, s)
    BY <1>2, <1>p DEF Fetch, GoodPull
  <2>2. e \in Entries /\ ver[e.f] \in Nat
    BY <1>p, ListedEntry DEF Typed, AuthorTyped
  <2>3. s \in Pulls /\ s.pc = "copy" /\ s.c = pull[p].c /\ s.todo = pull[p].todo /\ s.e = e
    BY <1>p, <2>2 DEF Pulls
  <2>4. GoodPull(s)
    BY <2>1, <2>3 DEF GoodPull
  <2>5. OwnStep(p, s)
    BY <1>2, <2>3 DEF OwnStep
  <2>6. QED
    BY <1>p, <2>1, <2>4, <2>5, BecomeMoves
<1>3. CASE Receive(p)
  <2> DEFINE s == [pull[p] EXCEPT !.pc = "upsert"]
  <2>1. pull[p].pc = "copy" /\ After(p, s, Renamed)
    BY <1>3 DEF Receive
  <2>2. GoodPull(s)
    BY <1>p, <2>1 DEF GoodPull, Pulls
  <2>3. OwnStep(p, s)
    BY <1>3, <1>p DEF OwnStep, Pulls
  <2>4. QED
    BY <1>p, <2>1, <2>2, <2>3, AfterMoves
<1>4. CASE CopyFails(p)
  <2>1. pull[p].pc = "copy" /\ After(p, FileDone(pull[p], TRUE), Unlinked)
    BY <1>4 DEF CopyFails
  <2>2. /\ GoodPull(FileDone(pull[p], TRUE))
        /\ FileDone(pull[p], TRUE).pc = "next" /\ FileDone(pull[p], TRUE).todo \subseteq pull[p].todo
    BY <1>p, <2>1, FileDoneGood
  <2>3. QED
    BY <1>p, <2>1, <2>2, AfterMoves DEF OwnStep
<1>5. CASE RenameFails(p) \/ Upsert(p)
  <2>1. PICK bad \in BOOLEAN :
          pull[p].pc \in {"copy", "upsert"} /\ Become(p, FileDone(pull[p], bad))
    BY <1>5 DEF RenameFails, Upsert
  <2>2. /\ GoodPull(FileDone(pull[p], bad))
        /\ FileDone(pull[p], bad).pc = "next" /\ FileDone(pull[p], bad).todo \subseteq pull[p].todo
    BY <1>p, <2>1, FileDoneGood
  <2>3. QED
    BY <1>p, <2>1, <2>2, BecomeMoves DEF OwnStep
<1>6. CASE Finish(p)
  <2>1. Become(p, NoPull) /\ NoPull.pc = "idle" /\ NoPull.todo = {}
    BY <1>6 DEF Finish, NoPull
  <2>2. QED
    BY <1>p, <2>1, NoPullGood, BecomeMoves DEF OwnStep
<1>7. QED
  BY <1>1, <1>2, <1>3, <1>4, <1>5, <1>6 DEF PullStep, First

\* Where a step of a pull writes, and what.
LEMMA PullStepWrites ==
  ASSUME Typed, NEW p \in Pullers, PullStep(p)
  PROVE  /\ ver' = ver /\ met' = met
         /\ \/ final' = final
            \/ /\ pull[p].pc = "copy" /\ pull[p].e.f \in Files
               /\ \E x \in Int : final' = [final EXCEPT ![pull[p].e.f] = x]
         /\ inv' = inv \/ Upsert(p)
<1>1. ASSUME pull[p].pc = "copy"
      PROVE  /\ pull[p].e.f \in Files /\ pull[p].sv \in Nat
             /\ final[pull[p].e.f] \in Int
  BY <1>1, ListedEntry DEF Typed, PeerTyped, GoodPull, Pulls
<1>2. CASE Receive(p)
  <2>1. PICK x \in PartOf(p, pull[p].e.f) : final' = [final EXCEPT ![pull[p].e.f] = x]
    BY <1>2 DEF Receive
  <2>2. PartOf(p, pull[p].e.f) \subseteq Int
    BY <1>1 DEF PartOf, Writers, Short, Mixed, Typed, PeerTyped, Pulls
  <2>3. QED
    BY <1>1, <1>2, <2>1, <2>2 DEF Receive, author
<1>3. CASE RenameFails(p) \/ CopyFails(p)
  <2>1. pull[p].pc = "copy" /\ UNCHANGED <<author, inv, met>>
    BY <1>3 DEF RenameFails, CopyFails
  <2>2. ASSUME NEW X, WriteFinal(p, X), X \subseteq Int
        PROVE  final' = final \/ \E x \in Int : final' = [final EXCEPT ![pull[p].e.f] = x]
    BY <2>2 DEF WriteFinal
  <2>3. /\ Written(final[pull[p].e.f], pull[p].sv) \subseteq Int
        /\ Partly(final[pull[p].e.f], pull[p].sv) \subseteq Int
    BY <1>1, <2>1 DEF Written, Partly, Short, Mixed
  <2>4. QED
    BY <1>3, <1>1, <2>1, <2>2, <2>3 DEF RenameFails, CopyFails, author
<1>4. CASE Upsert(p) \/ Finish(p)
  BY <1>4 DEF Upsert, Finish, author
<1>5. ASSUME NEW e, Skip(p, e) \/ Fetch(p, e) \/ Refuse(p, e) \/ FetchFails(p, e)
      PROVE  final' = final /\ inv' = inv /\ ver' = ver /\ met' = met
  BY <1>5 DEF Skip, Fetch, Refuse, FetchFails, author
<1>6. QED
  BY <1>2, <1>3, <1>4, <1>5 DEF PullStep

LEMMA PeerTypedNext == Typed /\ [Next]_vars => PeerTyped'
<1> SUFFICES ASSUME Typed, [Next]_vars PROVE PeerTyped'
  OBVIOUS
<1>t. PeerTyped
  BY DEF Typed
<1>1. CASE Quiet
  BY <1>1, <1>t DEF Quiet, receiver, PeerTyped
<1>2. ASSUME NEW f \in Files, Write(f) PROVE PeerTyped'
  BY <1>2, <1>t DEF Write, receiver, PeerTyped
<1>3. ASSUME NEW f \in Files, RemoveReceived(f) PROVE PeerTyped'
  <2>1. pull' = [p \in Pullers |-> Moved(p, f, Removed)]
    BY <1>3 DEF RemoveReceived
  <2>2. \A p \in Pullers : GoodPull(Moved(p, f, Removed)) /\ Moved(p, f, Removed) \in Pulls
    BY <1>t, MovedGood DEF GoodPull
  <2>3. QED
    BY <1>3, <1>t, <2>1, <2>2 DEF RemoveReceived, PeerTyped
<1>4. CASE Restart
  <2>1. NoPull \in Pulls
    BY NoPullGood DEF GoodPull
  <2>2. QED
    BY <1>4, <1>t, <2>1, NoPullGood DEF Restart, PeerTyped
<1>5. ASSUME NEW p \in Pullers, NEW c \in Ids, Begin(p, c) PROVE PeerTyped'
  <2> DEFINE s == [NoPull EXCEPT !.pc = "next", !.c = c, !.todo = sent[c]]
  <2>1. sent[c] \in Listings
    BY DEF Typed, CommitsTyped
  <2>2. GoodPull(s)
    BY <2>1 DEF GoodPull, NoPull, Pulls
  <2>3. PullsMove(p, s)
    BY <1>5, <1>t, <2>2, BecomeMoves DEF Begin
  <2>4. met' \subseteq Files
    <3>1. Listed(sent[c]) \subseteq Files
      BY <2>1, ListedEntry DEF Listed
    <3>2. QED
      BY <1>5, <1>t, <3>1 DEF Begin, PeerTyped
  <2>5. QED
    BY <1>5, <1>t, <2>3, <2>4 DEF Begin, PeerTyped, PullsMove
<1>6. ASSUME NEW p \in Pullers, PullStep(p) PROVE PeerTyped'
  <2>1. PICK s : PullsMove(p, s)
    BY <1>6, PullStepMoves
  <2>2. final' \in [Files -> Int] /\ met' \subseteq Files
    BY <1>6, <1>t, PullStepWrites DEF PeerTyped
  <2>3. inv' \in [Media -> Nat]
    <3>1. CASE Upsert(p)
      <4>1. pull[p].e \in pull[p].todo /\ pull[p].todo \in Listings
        BY <1>t, <3>1 DEF Upsert, PeerTyped, GoodPull, Pulls
      <4>2. pull[p].e.v \in Nat
        BY <4>1, ListedEntry
      <4>3. QED
        BY <3>1, <1>t, <4>2 DEF Upsert, PeerTyped
    <3>2. CASE inv' = inv
      BY <3>2, <1>t DEF PeerTyped
    <3>3. QED
      BY <1>6, <3>1, <3>2, PullStepWrites
  <2>4. QED
    BY <2>1, <2>2, <2>3 DEF PullsMove, PeerTyped
<1>7. QED
  BY <1>1, <1>2, <1>3, <1>4, <1>5, <1>6, StepKinds DEF PeerStep

LEMMA TypedInit == Init => Typed
<1> SUFFICES ASSUME Init PROVE Typed
  OBVIOUS
<1>1. AuthorTyped /\ CommitsTyped
  BY DEF Init, AuthorTyped, CommitsTyped, Listings, NoRow
<1>2. SyncTyped
  BY DEF Init, SyncTyped, NoSync
<1>3. PeerTyped
  BY NoPullGood DEF Init, PeerTyped, GoodPull
<1>4. QED
  BY <1>1, <1>2, <1>3 DEF Typed

LEMMA TypedNext == Typed /\ [Next]_vars => Typed'
  BY AuthorTypedNext, CommitsTypedNext, SyncTypedNext, PeerTypedNext DEF Typed

\* Every variable keeps its type, and the listings hold hashed versions only.
THEOREM TypeCorrect == Spec => []TypeOK
<1>1. Typed => TypeOK
  BY DEF Typed, TypeOK, AuthorTyped, CommitsTyped, SyncTyped, PeerTyped, Pulls
<1>2. QED
  BY <1>1, TypedInit, TypedNext, PTL DEF Spec

(***************************************************************************)
(* Pulls that do not meet on a name.  What the peer has of it is never     *)
(* newer than what the author has, nor than what is served: so a file that *)
(* is received is newer than the peer's, or the same.                      *)
(***************************************************************************)
Lists(p, f) == f \in Listed(pull[p].todo)

Dated  == \A f \in Files : ver[f] <= Last[f] /\ (f \in there => ver[f] >= 1)
Apart  == \A f \in Files \ met : \A p, q \in Pullers : Lists(p, f) /\ Lists(q, f) => p = q
Served == \A p \in Pullers : pull[p].pc = "copy" => 1 <= pull[p].sv /\ pull[p].sv <= ver[pull[p].e.f]
Behind == \A f \in Files \ met : 0 <= final[f] /\ final[f] <= ver[f]
Lone   == \A p \in Pullers : pull[p].pc = "copy" /\ pull[p].e.f \notin met =>
            pull[p].at = "part" /\ final[pull[p].e.f] <= pull[p].sv

Alone == Dated /\ Apart /\ Served /\ Behind /\ Lone

\* What a pull works on, it lists.
LEMMA WorkIsListed ==
  ASSUME Typed, NEW p \in Pullers, pull[p].pc \in {"copy", "upsert"}
  PROVE  pull[p].e.f \in Files /\ Lists(p, pull[p].e.f) /\ pull[p].e.v \in Nat /\ pull[p].e.v # 0
         /\ pull[p].sv \in Nat
<1>1. pull[p].e \in pull[p].todo /\ pull[p].todo \in Listings /\ pull[p].sv \in Nat
  BY DEF Typed, PeerTyped, GoodPull, Pulls
<1>2. QED
  BY <1>1, ListedEntry DEF Lists, Listed

\* On such a name only the announced version gets the last name.
LEMMA LoneWrite ==
  ASSUME Typed, Alone, NEW p \in Pullers, PullStep(p), NEW f \in Files \ met, final'[f] # final[f]
  PROVE  Receive(p) /\ pull[p].e.f = f /\ final' = [final EXCEPT ![f] = pull[p].sv]
<1>1. pull[p].pc = "copy" /\ pull[p].e.f = f
  BY PullStepWrites DEF Typed, PeerTyped
<1>2. pull[p].at = "part" /\ Lists(p, f)
  BY <1>1, WorkIsListed DEF Alone, Lone
<1>3. Writers(f) = {p}
  <2>1. p \in Writers(f)
    BY <1>1, <1>2 DEF Writers
  <2>2. ASSUME NEW q \in Writers(f) PROVE q = p
    <3>1. q \in Pullers /\ Lists(q, f)
      BY <2>2, WorkIsListed DEF Writers
    <3>2. QED
      BY <1>2, <3>1 DEF Alone, Apart
  <2>3. QED
    BY <2>1, <2>2
<1>4. ~ (RenameFails(p) \/ CopyFails(p))
  BY <1>2 DEF RenameFails, CopyFails, WriteFinal
<1>5. Receive(p)
  BY <1>1, <1>4 DEF PullStep, Skip, Fetch, Refuse, FetchFails, Upsert, Finish
<1>6. QED
  BY <1>1, <1>3, <1>5 DEF Receive, PartOf

LEMMA AloneNext == Typed /\ Alone /\ [Next]_vars => Alone'
<1> SUFFICES ASSUME Typed, Alone, [Next]_vars PROVE Alone'
  OBVIOUS
<1>t. /\ ver \in [Files -> Nat] /\ final \in [Files -> Int] /\ Last \in [Files -> Nat]
      /\ pull \in [Pullers -> Pulls] /\ there \subseteq Files
  BY SyncWithAssumption DEF Typed, AuthorTyped, PeerTyped
<1>a. Dated /\ Apart /\ Served /\ Behind /\ Lone
  BY DEF Alone
<1>1. CASE Quiet
  BY <1>1, <1>a DEF Quiet, receiver, Alone, Dated, Apart, Served, Behind, Lone, Lists
<1>2. ASSUME NEW f \in Files, Write(f) PROVE Alone'
  <2>1. /\ ver' = [ver EXCEPT ![f] = @ + 1] /\ ver[f] < Last[f] /\ there' = there \cup {f}
        /\ pull' = pull /\ final' = final /\ met' = met
    BY <1>2 DEF Write, receiver
  <2>2. Dated' /\ \A g \in Files : ver[g] <= ver'[g]
    BY <1>a, <1>t, <2>1 DEF Dated
  <2>3. Apart' /\ Lone'
    BY <1>a, <2>1 DEF Apart, Lone, Lists
  <2>4. Served'
    <3>1. ASSUME NEW p \in Pullers, pull[p].pc = "copy"
          PROVE  1 <= pull[p].sv /\ pull[p].sv <= ver'[pull[p].e.f]
      <4>1. pull[p].e.f \in Files /\ pull[p].sv \in Nat
        BY <3>1, WorkIsListed
      <4>2. pull[p].sv <= ver[pull[p].e.f] /\ 1 <= pull[p].sv
        BY <1>a, <3>1 DEF Served
      <4>3. ver[pull[p].e.f] <= ver'[pull[p].e.f] /\ ver[pull[p].e.f] \in Nat
            /\ ver'[pull[p].e.f] \in Nat
        BY <1>t, <2>1, <2>2, <4>1
      <4>4. QED
        BY <4>1, <4>2, <4>3
    <3>2. QED
      BY <2>1, <3>1 DEF Served
  <2>5. Behind'
    BY <1>a, <1>t, <2>1, <2>2 DEF Behind
  <2>6. QED
    BY <2>2, <2>3, <2>4, <2>5 DEF Alone
<1>3. ASSUME NEW f \in Files, RemoveReceived(f) PROVE Alone'
  <2>1. /\ ver' = ver /\ there' = there /\ met' = met /\ final' = [final EXCEPT ![f] = 0]
        /\ pull' = [p \in Pullers |-> Moved(p, f, Removed)]
    BY <1>3 DEF RemoveReceived, author
  <2>2. Dated'
    BY <1>a, <2>1 DEF Dated
  <2>3. \A p \in Pullers : SameBut(pull'[p], pull[p])
    BY <2>1, MovedGood DEF Typed
  <2>4. Apart' /\ Served'
    BY <1>a, <2>1, <2>3 DEF Apart, Served, Lists, SameBut
  <2>5. Behind'
    BY <1>a, <1>t, <2>1 DEF Behind
  <2>6. ASSUME NEW p \in Pullers, pull'[p].pc = "copy", pull'[p].e.f \notin met
        PROVE  pull'[p].at = "part" /\ final'[pull'[p].e.f] <= pull'[p].sv
    <3>1. pull[p].pc = "copy" /\ pull[p].e.f \notin met /\ pull'[p].e = pull[p].e /\ pull'[p].sv = pull[p].sv
      BY <2>3, <2>6 DEF SameBut
    <3>2. pull[p].at = "part" /\ final[pull[p].e.f] <= pull[p].sv /\ 1 <= pull[p].sv
      BY <1>a, <3>1 DEF Lone, Served
    <3>3. pull'[p].at = "part"
      <4>1. pull'[p] = Moved(p, f, Removed) /\ pull[p] \in Pulls
        BY <1>t, <2>1
      <4>2. CASE pull[p].e.f = f
        <5>1. pull'[p] = [pull[p] EXCEPT !.at = Removed[pull[p].at]]
          BY <3>1, <4>1, <4>2 DEF Moved
        <5>2. QED
          BY <3>2, <4>1, <5>1 DEF Removed, Pulls
      <4>3. CASE pull[p].e.f # f
        BY <3>2, <4>1, <4>3 DEF Moved
      <4>4. QED
        BY <4>2, <4>3
    <3>4. final'[pull[p].e.f] <= pull[p].sv
      <4>1. pull[p].e.f \in Files /\ pull[p].sv \in Nat
        BY <3>1, WorkIsListed
      <4>2. QED
        BY <1>t, <2>1, <3>2, <4>1
    <3>5. QED
      BY <3>1, <3>3, <3>4
  <2>7. QED
    BY <2>1, <2>2, <2>4, <2>5, <2>6 DEF Alone, Lone
<1>4. CASE Restart
  <2>1. /\ ver' = ver /\ there' = there /\ met' = met /\ final' = final
        /\ pull' = [p \in Pullers |-> NoPull]
    BY <1>4 DEF Restart, author
  <2>2. \A p \in Pullers : pull'[p].pc = "idle" /\ pull'[p].todo = {}
    BY <2>1 DEF NoPull
  <2>3. QED
    BY <1>a, <2>1, <2>2 DEF Alone, Dated, Apart, Served, Behind, Lone, Lists, Listed
<1>5. ASSUME NEW p \in Pullers, NEW c \in Ids, Begin(p, c) PROVE Alone'
  <2>1. /\ ver' = ver /\ there' = there /\ final' = final
        /\ met' = met \cup UNION {Listed(sent[c]) \cap Listed(pull[q].todo) : q \in Pullers \ {p}}
    BY <1>5 DEF Begin, author
  <2>2. pull' = [pull EXCEPT ![p] = [NoPull EXCEPT !.pc = "next", !.c = c, !.todo = sent[c]]]
    BY <1>5 DEF Begin, Become
  <2>3. /\ pull'[p].pc = "next" /\ pull'[p].todo = sent[c]
        /\ \A q \in Pullers \ {p} : pull'[q] = pull[q]
    BY <1>t, <2>2 DEF NoPull
  <2>4. Dated' /\ Served' /\ Behind' /\ Lone'
    BY <1>a, <2>1, <2>3 DEF Dated, Served, Behind, Lone
  <2>5. ASSUME NEW f \in Files \ met', NEW q \in Pullers \ {p}, Lists(p, f)', Lists(q, f)'
        PROVE  FALSE
    BY <2>1, <2>3, <2>5 DEF Lists
  <2>6. ASSUME NEW f \in Files \ met', NEW q \in Pullers \ {p}, NEW r \in Pullers \ {p},
               Lists(q, f)', Lists(r, f)'
        PROVE  q = r
    BY <1>a, <2>1, <2>3, <2>6 DEF Apart, Lists
  <2>7. Apart'
    BY <2>5, <2>6 DEF Apart
  <2>8. QED
    BY <2>4, <2>7 DEF Alone
<1>6. ASSUME NEW p \in Pullers, PullStep(p) PROVE Alone'
  <2>1. PICK s : PullsMove(p, s) /\ OwnStep(p, s)
    BY <1>6, PullStepMoves
  <2>2. ver' = ver /\ there' = there /\ met' = met
    BY <1>6, PullStepWrites, PeerStepLeaves DEF PeerStep, author
  <2>3. Dated'
    BY <1>a, <2>2 DEF Dated
  <2>4. \A q \in Pullers : \A f \in Files : Lists(q, f)' => Lists(q, f)
    BY <2>1 DEF PullsMove, OwnStep, SameBut, Lists, Listed
  <2>5. Apart'
    BY <1>a, <2>2, <2>4 DEF Apart
  <2>6. Behind'
    <3>1. ASSUME NEW f \in Files \ met, final'[f] # final[f]
          PROVE  0 <= final'[f] /\ final'[f] <= ver[f]
      <4>1. pull[p].pc = "copy" /\ pull[p].e.f = f /\ final' = [final EXCEPT ![f] = pull[p].sv]
        BY <1>6, <3>1, LoneWrite DEF Receive
      <4>2. pull[p].sv \in Nat /\ pull[p].sv <= ver[f]
        BY <1>a, <4>1, WorkIsListed DEF Served
      <4>3. final'[f] = pull[p].sv
        BY <1>t, <4>1
      <4>4. QED
        BY <4>2, <4>3
    <3>2. QED
      BY <1>a, <2>2, <3>1 DEF Behind
  <2>7. ASSUME NEW e \in pull[p].todo, Fetch(p, e)
        PROVE  /\ pull'[p].e = e /\ pull'[p].sv = ver[e.f] /\ pull'[p].at = "part"
               /\ final' = final /\ 1 <= ver[e.f] /\ e.f \in Files
    <3>1. pull'[p] = [pull[p] EXCEPT !.pc = "copy", !.e = e, !.sv = ver[e.f], !.at = "part"]
      BY <1>t, <2>7 DEF Fetch, Become
    <3>2. e.f \in there /\ final' = final
      BY <2>7 DEF Fetch
    <3>3. QED
      BY <1>a, <1>t, <3>1, <3>2 DEF Dated, Pulls
  <2>8. pull'[p].pc = "copy" => \E e \in pull[p].todo : Fetch(p, e)
    BY <2>1 DEF PullsMove, OwnStep
  <2>9. Served'
    <3>1. ASSUME NEW q \in Pullers \ {p}, pull'[q].pc = "copy"
          PROVE  1 <= pull'[q].sv /\ pull'[q].sv <= ver[pull'[q].e.f]
      BY <1>a, <2>1, <3>1 DEF PullsMove, SameBut, Served
    <3>2. ASSUME pull'[p].pc = "copy"
          PROVE  1 <= pull'[p].sv /\ pull'[p].sv <= ver[pull'[p].e.f]
      BY <1>t, <2>7, <2>8, <3>2
    <3>3. QED
      BY <2>2, <3>1, <3>2 DEF Served
  <2>10. ASSUME NEW q \in Pullers \ {p}, pull'[q].pc = "copy", pull'[q].e.f \notin met
         PROVE  pull'[q].at = "part" /\ final'[pull'[q].e.f] <= pull'[q].sv
    <3>1. pull[q].pc = "copy" /\ pull[q].e = pull'[q].e /\ pull[q].sv = pull'[q].sv
      BY <2>1, <2>10 DEF PullsMove, SameBut
    <3>2. Lists(q, pull[q].e.f) /\ pull[q].e.f \in Files \ met
      BY <2>10, <3>1, WorkIsListed
    <3>3. ~ (pull[p].pc = "copy" /\ pull[p].e.f = pull[q].e.f)
      BY <1>a, <3>2, WorkIsListed DEF Apart
    <3>4. pull'[q] = pull[q]
      BY <2>1, <3>3 DEF PullsMove
    <3>5. final'[pull[q].e.f] = final[pull[q].e.f]
      BY <1>6, <1>t, <3>2, <3>3, PullStepWrites
    <3>6. QED
      BY <1>a, <2>10, <3>1, <3>4, <3>5 DEF Lone
  <2>11. ASSUME pull'[p].pc = "copy", pull'[p].e.f \notin met
         PROVE  pull'[p].at = "part" /\ final'[pull'[p].e.f] <= pull'[p].sv
    BY <1>a, <2>7, <2>8, <2>11 DEF Behind
  <2>12. Lone'
    BY <2>2, <2>10, <2>11 DEF Lone
  <2>13. QED
    BY <2>3, <2>5, <2>6, <2>9, <2>12 DEF Alone
<1>7. QED
  BY <1>1, <1>2, <1>3, <1>4, <1>5, <1>6, StepKinds DEF PeerStep

LEMMA AloneInit == Init => Alone
  BY SyncWithAssumption DEF Init, Alone, Dated, Apart, Served, Behind, Lone, Lists, Listed, NoPull

LEMMA StepOfTheCopy == Typed /\ Alone /\ [Next]_vars => [Copy!Next]_(Copy!vars)
<1> SUFFICES ASSUME Typed, Alone, [Next]_vars PROVE [Copy!Next]_(Copy!vars)
  OBVIOUS
<1> DEFINE copy == [f \in Files |-> IF f \in met THEN 0 ELSE final[f]]
<1>t. ver \in [Files -> Nat] /\ final \in [Files -> Int]
  BY DEF Typed, AuthorTyped, PeerTyped
<1>0. ASSUME ver' = ver, copy' = copy PROVE UNCHANGED Copy!vars
  BY <1>0 DEF Copy!vars
<1>d. ASSUME ver' = ver, NEW F \in SUBSET Files,
             \A f \in Files : copy'[f] = IF f \in F THEN 0 ELSE copy[f]
      PROVE  Copy!Next
  <2>1. copy' = [f \in Files |-> IF f \in F THEN 0 ELSE copy[f]]
    BY <1>d
  <2>2. Copy!Discard(F)
    BY <1>d, <2>1 DEF Copy!Discard
  <2>3. QED
    BY <2>2 DEF Copy!Next
<1>1. CASE Quiet \/ Restart
  BY <1>1, <1>0 DEF Quiet, receiver, Restart, author
<1>2. ASSUME NEW f \in Files, Write(f) PROVE Copy!Next
  <2>1. ver' = [ver EXCEPT ![f] = @ + 1] /\ copy' = copy
    BY <1>2 DEF Write, receiver
  <2>2. Copy!Write(f)
    BY <2>1 DEF Copy!Write
  <2>3. QED
    BY <2>2 DEF Copy!Next
<1>3. ASSUME NEW f \in Files, RemoveReceived(f) PROVE Copy!Next
  <2>1. ver' = ver /\ met' = met /\ final' = [final EXCEPT ![f] = 0]
    BY <1>3 DEF RemoveReceived, author
  <2>2. \A g \in Files : copy'[g] = IF g \in {f} THEN 0 ELSE copy[g]
    BY <1>t, <2>1
  <2>3. QED
    BY <1>d, <2>1, <2>2
<1>4. ASSUME NEW p \in Pullers, NEW c \in Ids, Begin(p, c) PROVE Copy!Next
  <2>1. ver' = ver /\ final' = final /\ met \subseteq met'
    BY <1>4 DEF Begin, author
  <2>2. \A g \in Files : copy'[g] = IF g \in met' \cap Files THEN 0 ELSE copy[g]
    BY <2>1
  <2>3. QED
    BY <1>d, <2>1, <2>2
<1>5. ASSUME NEW p \in Pullers, PullStep(p) PROVE [Copy!Next]_(Copy!vars)
  <2>1. ver' = ver /\ met' = met
    BY <1>5, PullStepWrites
  <2>2. CASE \A f \in Files \ met : final'[f] = final[f]
    BY <1>0, <2>1, <2>2
  <2>3. ASSUME NEW f \in Files \ met, final'[f] # final[f] PROVE Copy!Next
    <3>1. pull[p].pc = "copy" /\ pull[p].e.f = f /\ final' = [final EXCEPT ![f] = pull[p].sv]
      BY <1>5, <2>3, LoneWrite DEF Receive
    <3>2. /\ pull[p].sv \in Nat /\ 1 <= pull[p].sv /\ pull[p].sv <= ver[f]
          /\ final[f] <= pull[p].sv
      BY <3>1, WorkIsListed DEF Alone, Served, Lone
    <3>3. final[f] < pull[p].sv
      BY <1>t, <2>3, <3>1, <3>2
    <3>4. copy[f] < pull[p].sv /\ copy' = [copy EXCEPT ![f] = pull[p].sv]
      BY <1>t, <2>1, <3>1, <3>3
    <3>5. PICK v \in 1..ver[f] : v = pull[p].sv
      BY <1>t, <3>2
    <3>6. Copy!Advance(f, v)
      BY <2>1, <3>4, <3>5 DEF Copy!Advance
    <3>7. QED
      BY <3>6 DEF Copy!Next
  <2>4. QED
    BY <2>2, <2>3
<1>6. QED
  BY <1>1, <1>2, <1>3, <1>4, <1>5, StepKinds DEF PeerStep

\* Whatever is lost, delayed, refused or cut off, and whoever pulls at the same time: of
\* the names on which no two pulls met, the peer's files are versions the author had,
\* and none gives way to an older one.
THEOREM SyncIsLaggingCopy == Spec => ImplementsCopy
<1>1. Init => Copy!Init
  BY DEF Init, Copy!Init
<1>2. QED
  BY <1>1, TypedInit, TypedNext, AloneInit, AloneNext, StepOfTheCopy, PTL
     DEF Spec, ImplementsCopy, Copy!Spec

(***************************************************************************)
(* The delta.  Media are written once, so what has a row at the peer is    *)
(* there, unless the peer's user deletes it: as the row says, or as two    *)
(* pulls that met left it.                                                 *)
(***************************************************************************)
MediaWrittenOnce == \A f \in Media : Last[f] <= 1

Kept == "removes" \notin troubles

\* What the rows say of the peer's disk, what the row under way will say, and what the
\* answer to an inventory request says.
Contents == \A f \in Media : final[f] \in {0, 1, Short, Mixed}
Rows     == \A f \in Media : inv[f] # 0 => inv[f] = 1 /\ final[f] # 0
Current  == \A p \in Pullers : pull[p].pc = "upsert" /\ pull[p].e.f \in Media =>
              pull[p].e.v = 1 /\ final[pull[p].e.f] # 0
Answer   == sync.pc = "list" =>
  \A h \in sync.remote : \E g \in Media : final[g] # 0 /\ Hash(g, 1) = h

TrueRows == Contents /\ (Kept => Rows /\ Current /\ Answer)

\* A second version of a media file does not exist, so no other one is served.
LEMMA ServedOnce ==
  ASSUME MediaWrittenOnce, Typed, Alone, NEW p \in Pullers, pull[p].pc = "copy",
         pull[p].e.f \in Media
  PROVE  pull[p].sv = 1
<1>1. /\ pull[p].e.f \in Files /\ pull[p].sv \in Nat /\ 1 <= pull[p].sv
      /\ pull[p].sv <= ver[pull[p].e.f] /\ ver[pull[p].e.f] <= Last[pull[p].e.f]
  BY WorkIsListed DEF Alone, Served, Dated
<1>2. Last[pull[p].e.f] <= 1 /\ Last[pull[p].e.f] \in Nat /\ ver[pull[p].e.f] \in Nat
  BY <1>1, SyncWithAssumption DEF MediaWrittenOnce, Typed, AuthorTyped
<1>3. QED
  BY <1>1, <1>2

\* What a pull may leave of a media file.
LEMMA MediaWrites ==
  ASSUME MediaWrittenOnce, Typed, Alone, Contents, NEW p \in Pullers, PullStep(p),
         NEW f \in Media
  PROVE  /\ final'[f] \in {0, 1, Short, Mixed}
         /\ final[f] # 0 => final'[f] # 0
         /\ Receive(p) /\ pull[p].e.f = f => final'[f] # 0
<1>t. final \in [Files -> Int] /\ f \in Files /\ final[f] \in {0, 1, Short, Mixed}
  BY DEF Typed, PeerTyped, Files, Contents
<1>1. CASE Receive(p) /\ pull[p].e.f = f
  <2>1. PICK x \in PartOf(p, f) : final' = [final EXCEPT ![f] = x]
    BY <1>1 DEF Receive
  <2>2. \A q \in Writers(f) \cup {p} : pull[q].sv = 1
    BY <1>1, ServedOnce DEF Writers, Receive
  <2>3. PartOf(p, f) \subseteq {1, Short, Mixed}
    BY <2>2 DEF PartOf
  <2>4. QED
    BY <1>t, <2>1, <2>3 DEF Short, Mixed
<1>2. ASSUME ~ (Receive(p) /\ pull[p].e.f = f), final'[f] # final[f]
      PROVE  final'[f] \in {final[f], 1, Mixed}
  <2>1. pull[p].pc = "copy" /\ pull[p].e.f = f
    BY <1>2, <1>t, PullStepWrites
  <2>2. RenameFails(p) \/ CopyFails(p)
    BY <1>2, <2>1 DEF PullStep, Skip, Fetch, Refuse, FetchFails, Upsert, Finish
  <2>3. pull[p].sv = 1
    BY <2>1, ServedOnce
  <2>4. PICK x \in Written(final[f], 1) \cup Partly(final[f], 1) : final' = [final EXCEPT ![f] = x]
    BY <1>2, <2>1, <2>2, <2>3 DEF RenameFails, CopyFails, WriteFinal
  <2>5. QED
    BY <1>t, <2>4 DEF Written, Partly
<1>3. QED
  BY <1>1, <1>2, <1>t DEF Short, Mixed

LEMMA KeptBefore == Typed /\ [Next]_vars /\ Kept' => Kept
  BY TroublesTyped DEF Typed, Kept

\* Without a deletion by the user, what is there stays, whatever it holds.
Stay == \A g \in Media : final[g] # 0 => final'[g] # 0

LEMMA TrueRowsPeer ==
  ASSUME MediaWrittenOnce, Typed, Alone, TrueRows, NEW p \in Pullers, PullStep(p), Kept
  PROVE  Stay /\ Rows' /\ Current'
<1>t. /\ PeerTyped /\ pull \in [Pullers -> Pulls] /\ final \in [Files -> Int]
      /\ Rows /\ Current /\ Contents
  BY DEF Typed, PeerTyped, TrueRows
<1>1. Stay
  BY <1>t, MediaWrites DEF Stay
<1>2. PICK s : PullsMove(p, s) /\ OwnStep(p, s)
  BY PullStepMoves
<1>3. Rows'
  <2>1. CASE inv' = inv
    BY <1>1, <1>t, <2>1 DEF Rows, Stay
  <2>2. CASE Upsert(p)
    <3>1. /\ pull[p].pc = "upsert" /\ final' = final
          /\ inv' = [f \in Media |-> IF f = pull[p].e.f THEN pull[p].e.v ELSE inv[f]]
      BY <2>2 DEF Upsert
    <3>2. QED
      BY <1>t, <3>1 DEF Rows, Current
  <2>3. QED
    BY <2>1, <2>2, PullStepWrites
<1>4. ASSUME NEW q \in Pullers \ {p}, pull'[q].pc = "upsert", pull'[q].e.f \in Media
      PROVE  pull'[q].e.v = 1 /\ final'[pull'[q].e.f] # 0
  BY <1>1, <1>2, <1>4, <1>t DEF PullsMove, SameBut, Current, Stay
<1>5. ASSUME pull'[p].pc = "upsert", pull'[p].e.f \in Media
      PROVE  pull'[p].e.v = 1 /\ final'[pull'[p].e.f] # 0
  <2>1. Receive(p) /\ pull'[p].e = pull[p].e
    BY <1>2, <1>5 DEF PullsMove, OwnStep
  <2>2. pull[p].pc = "copy" /\ pull[p].e.f \in Media /\ pull[p].sv = pull[p].e.v
    BY <1>5, <2>1 DEF Receive
  <2>3. QED
    BY <1>t, <2>1, <2>2, ServedOnce, MediaWrites
<1>6. QED
  BY <1>1, <1>3, <1>4, <1>5 DEF Current

LEMMA AnswerNext ==
  ASSUME Typed, TrueRows, Kept, [Next]_vars, Stay
  PROVE  Answer'
<1>t. Rows /\ Answer
  BY DEF TrueRows
<1>1. CASE SyncAsk
  <2>1. sync'.remote = RemoteHashes
    BY <1>1 DEF SyncAsk, NoSync
  <2>2. ASSUME NEW h \in RemoteHashes
        PROVE \E g \in Media : final[g] # 0 /\ Hash(g, 1) = h
    BY <1>t, <2>2 DEF RemoteHashes, UnderPrefix, Rows
  <2>3. QED
    BY <2>1, <2>2 DEF Answer, Stay, Hash
<1>2. CASE SyncList
  BY <1>2 DEF SyncList, NoSync, Answer
<1>3. CASE UNCHANGED sync
  BY <1>t, <1>3 DEF Answer, Stay, Hash
<1>4. CASE AuthorStep \/ Commit \/ ClearFinished
  BY <1>4, <1>3 DEF AuthorStep, Write, HashOpen, HashStore, Delete, Commit, ClearFinished
<1>5. CASE \E c \in Ids : Deliver(c) \/ Lose(c) \/ AutoPull(c) \/ \E p \in Hand : ClickPull(p, c)
  BY <1>5, <1>3 DEF Deliver, Lose, AutoPull, ClickPull, Begin
<1>6. CASE (\E p \in Pullers : PullStep(p)) \/ (\E f \in Files : RemoveReceived(f)) \/ Restart
  BY <1>6, <1>3, PeerStepLeaves DEF PeerStep
<1>7. CASE UNCHANGED vars
  BY <1>7, <1>3 DEF vars
<1>8. QED
  BY <1>1, <1>2, <1>4, <1>5, <1>6, <1>7 DEF Next, SyncStep

LEMMA TrueRowsNext ==
  ASSUME MediaWrittenOnce, Typed, Alone, TrueRows, [Next]_vars
  PROVE  TrueRows'
<1>t. final \in [Files -> Int] /\ Contents /\ \A f \in Media : f \in Files
  BY DEF Typed, PeerTyped, TrueRows, Files
<1>1. Contents'
  <2>1. CASE final' = final
    BY <1>t, <2>1 DEF Contents
  <2>2. ASSUME NEW f \in Files, RemoveReceived(f) PROVE Contents'
    BY <1>t, <2>2 DEF RemoveReceived, Contents
  <2>3. ASSUME NEW p \in Pullers, PullStep(p) PROVE Contents'
    BY <1>t, <2>3, MediaWrites DEF Contents
  <2>4. CASE Quiet \/ (\E f \in Files : Write(f)) \/ Restart \/ \E p \in Pullers, c \in Ids : Begin(p, c)
    BY <2>1, <2>4 DEF Quiet, receiver, Write, Restart, Begin
  <2>5. QED
    BY <2>2, <2>3, <2>4, StepKinds DEF PeerStep
<1>2. ASSUME Kept' PROVE Rows' /\ Current' /\ Answer'
  <2>t. Kept /\ Rows /\ Current /\ Answer
    BY <1>2, KeptBefore DEF TrueRows
  <2>1. ASSUME final' = final, inv' = inv, pull' = pull PROVE Stay /\ Rows' /\ Current'
    BY <2>t, <2>1 DEF Stay, Rows, Current
  <2>2. ASSUME Quiet \/ \E f \in Files : Write(f) PROVE Stay /\ Rows' /\ Current'
    BY <2>1, <2>2 DEF Quiet, receiver, Write
  <2>3. ASSUME NEW f \in Files, RemoveReceived(f) PROVE FALSE
    BY <1>2, <2>3 DEF RemoveReceived, Trouble, Kept
  <2>4. ASSUME Restart PROVE Stay /\ Rows' /\ Current'
    <3>1. /\ final' = final /\ \A p \in Pullers : pull'[p].pc = "idle"
          /\ inv' = [f \in Media |-> IF final[f] = 0 THEN 0 ELSE inv[f]]
      BY <2>4 DEF Restart, NoPull
    <3>2. QED
      BY <2>t, <3>1 DEF Stay, Rows, Current
  <2>5. ASSUME NEW p \in Pullers, NEW c \in Ids, Begin(p, c) PROVE Stay /\ Rows' /\ Current'
    <3>1. /\ final' = final /\ inv' = inv /\ pull'[p].pc = "next"
          /\ \A q \in Pullers \ {p} : pull'[q] = pull[q]
      BY <2>5 DEF Begin, Become, NoPull, Typed, PeerTyped
    <3>2. QED
      BY <2>t, <3>1 DEF Stay, Rows, Current
  <2>6. ASSUME NEW p \in Pullers, PullStep(p) PROVE Stay /\ Rows' /\ Current'
    BY <2>t, <2>6, TrueRowsPeer
  <2>7. Stay /\ Rows' /\ Current'
    BY <2>2, <2>3, <2>4, <2>5, <2>6, StepKinds DEF PeerStep
  <2>8. QED
    BY <2>t, <2>7, AnswerNext
<1>3. QED
  BY <1>1, <1>2 DEF TrueRows

\* Nobody but SyncList leaves the state "list".
LEMMA OnlySyncList ==
  ASSUME [Next]_vars, sync.pc = "list", sync'.pc # "list"
  PROVE  SyncList
<1>1. CASE SyncStep
  BY <1>1 DEF SyncStep, SyncAsk
<1>2. CASE UNCHANGED sync
  BY <1>2
<1>3. CASE AuthorStep \/ Commit \/ ClearFinished
  BY <1>3, <1>2 DEF AuthorStep, Write, HashOpen, HashStore, Delete, Commit, ClearFinished
<1>4. CASE \E c \in Ids : Deliver(c) \/ Lose(c) \/ AutoPull(c) \/ \E p \in Hand : ClickPull(p, c)
  BY <1>4, <1>2 DEF Deliver, Lose, AutoPull, ClickPull, Begin
<1>5. CASE (\E p \in Pullers : PullStep(p)) \/ (\E f \in Files : RemoveReceived(f)) \/ Restart
  BY <1>5, <1>2, PeerStepLeaves DEF PeerStep
<1>6. CASE UNCHANGED vars
  BY <1>6, <1>2 DEF vars
<1>7. QED
  BY <1>1, <1>3, <1>4, <1>5, <1>6 DEF Next

LEMMA DeltaStep ==
  ASSUME Typed, Alone, TrueRows, sync.pc = "list", Kept,
         NEW f \in Media \cap UnderPrefix("sender", Hashed)
  PROVE  Entry(f) \in Delta \/ Held(f, row[f]) \/ Spoilt(f)
<1>1. SUFFICES ASSUME Entry(f) \notin Delta PROVE Held(f, row[f]) \/ Spoilt(f)
  OBVIOUS
<1>2. Hash(f, row[f]) \in sync.remote
  BY <1>1 DEF Delta
<1>3. PICK g \in Media : final[g] # 0 /\ Hash(g, 1) = Hash(f, row[f])
  BY <1>2 DEF TrueRows, Answer
<1>4. g \in Files /\ final[g] \in {1, Short, Mixed} /\ Twin[g] = Twin[f]
  BY <1>3 DEF TrueRows, Contents, Hash, Files
<1>5. CASE final[g] = 1
  BY <1>3, <1>4, <1>5 DEF Held
<1>6. CASE final[g] \in {Short, Mixed}
  <2>1. g \in met
    BY <1>4, <1>6 DEF Alone, Behind, Short, Mixed
  <2>2. QED
    BY <1>4, <1>6, <2>1 DEF Spoilt
<1>7. QED
  BY <1>4, <1>5, <1>6

SyncInv == Typed /\ Alone /\ TrueRows

LEMMA AlwaysTrueRows ==
  ASSUME MediaWrittenOnce
  PROVE  Spec => []SyncInv
<1>1. Init => SyncInv
  <2>1. Init => TrueRows
    BY DEF Init, TrueRows, Contents, Rows, Current, Answer, NoPull, NoSync, Files
  <2>2. QED
    BY <2>1, TypedInit, AloneInit DEF SyncInv
<1>2. SyncInv /\ [Next]_vars => SyncInv'
  BY TypedNext, AloneNext, TrueRowsNext DEF SyncInv
<1>3. QED
  BY <1>1, <1>2, PTL DEF Spec

\* handleSyncWith leaves a file out only if the peer has on disk the content that the
\* hash of its row names, or what two pulls that met made of it: for media that are
\* written once, as long as the peer's user deletes nothing.
THEOREM NothingLeftOut ==
  ASSUME MediaWrittenOnce
  PROVE  Spec => DeltaLeavesNothingOut
<1>1. SyncInv /\ [Next]_vars =>
        [sync.pc = "list" /\ sync'.pc # "list" =>
           \/ "removes" \in troubles
           \/ \A f \in Media \cap UnderPrefix("sender", Hashed) :
                Entry(f) \in Delta \/ Held(f, row[f]) \/ Spoilt(f)]_vars
  BY DeltaStep DEF Kept, SyncInv
<1>2. QED
  BY <1>1, AlwaysTrueRows, PTL DEF Spec, DeltaLeavesNothingOut

\* "ja em sync" is said only when of every hash in the author's rows the peer has the
\* content, or what two pulls that met made of it: for media that are written once, an
\* author whose rows are not written with \\, and a peer whose user deletes nothing.  (The
\* hash of a row may be that of a version that is no longer on the author's disk.)
InSyncIsTrueOfTheHashes ==
  [][sync.pc = "list" /\ sync'.pc = "idle" /\ Delta = {} =>
       \A f \in Hashed : Held(f, row[f]) \/ Spoilt(f)]_vars

\* handleSyncWith's "ja em sync" (api.go:603-610) is true in that sense, whatever is lost,
\* broken or cut off, and however many pulls overlap.
THEOREM SyncAnswersTruly ==
  ASSUME MediaWrittenOnce, "sender" \notin Windows, "removes" \notin Troubles
  PROVE  Spec => InSyncIsTrueOfTheHashes
<1>1. SyncInv /\ [Next]_vars =>
        [sync.pc = "list" /\ sync'.pc = "idle" /\ Delta = {} =>
           \A f \in Hashed : Held(f, row[f]) \/ Spoilt(f)]_vars
  <2> SUFFICES ASSUME SyncInv, sync.pc = "list", Delta = {}, NEW f \in Hashed
               PROVE  Held(f, row[f]) \/ Spoilt(f)
    OBVIOUS
  <2>1. UnderPrefix("sender", Hashed) = Hashed /\ f \in Files
    BY DEF UnderPrefix, Hashed
  <2>2. f # Index
    BY <2>1 DEF Delta
  <2>3. Kept
    BY DEF SyncInv, Typed, AuthorTyped, Kept
  <2>4. QED
    BY <2>1, <2>2, <2>3, DeltaStep DEF SyncInv, Files
<1>2. QED
  BY <1>1, AlwaysTrueRows, PTL DEF Spec, InSyncIsTrueOfTheHashes
=============================================================================
