------------------------ MODULE LocalCommitsProofs ------------------------
(***************************************************************************)
(* Theorems about LocalCommits, for any files, any number of requests at   *)
(* once, versions, changes of an index and commits: the types, that only a *)
(* fault makes a file look sent that never was, and that a commit never    *)
(* sends again what was sent before it.                                    *)
(***************************************************************************)
EXTENDS LocalCommits, TLAPS

(***************************************************************************)
(* Types, and what a committer holds at each point of Commit.              *)
(***************************************************************************)
Coms == [pc : {"idle", "discovered", "staged", "mark", "save"},
         todo : SUBSET Entries, files : SUBSET Entries, created : 0..MaxMdb, since : 0..MaxCommits]

RowStates == [st : {"discovered", "staged", "committed"}, v : 0..MaxVersion]

RowsTyped ==
  /\ ver \in [Files -> 0..MaxVersion]
  /\ mdb \in 0..MaxMdb
  /\ row \in [Files -> RowStates \cup {None}]
  /\ again \subseteq Files

\* Nothing is marked before both lists are there; then nothing without a hash is left.
Phase(s) ==
  /\ s.pc \in {"idle", "discovered", "staged"} => s.files = {}
  /\ s.pc \in {"mark", "save"} => \A e \in s.todo \cup s.files : e.v # 0

ComsTyped == com \in [Committers -> Coms] /\ \A p \in Committers : Phase(com[p])

SentTyped == sent \in Seq(Commit) /\ Len(sent) <= MaxCommits /\ lost \subseteq Files

Typed == RowsTyped /\ ComsTyped /\ SentTyped

LEMMA IdleTyped == Idle \in Coms /\ Phase(Idle)
  BY LocalCommitsAssumption DEF Idle, Coms, Phase

\* One committer goes on.
LEMMA BecomeTyped ==
  ASSUME ComsTyped, NEW p \in Committers, NEW s \in Coms, Phase(s), Become(p, s)
  PROVE  ComsTyped'
  BY DEF ComsTyped, Become

LEMMA ReturnTyped ==
  ASSUME ComsTyped, NEW p \in Committers, Return(p)
  PROVE  ComsTyped'
  BY IdleTyped, BecomeTyped DEF Return

LEMMA ByStatusTyped ==
  ASSUME RowsTyped, NEW st \in {"discovered", "staged"}
  PROVE  ByStatus(st) \in SUBSET Entries
  BY DEF ByStatus, RowsTyped, RowStates, Listed, Entries

LEMMA SetStatusTyped ==
  ASSUME RowsTyped, NEW f \in Files, NEW st \in {"discovered", "staged", "committed"},
         SetStatus(f, st), UNCHANGED <<ver, mdb, again>>
  PROVE  RowsTyped'
  BY DEF RowsTyped, SetStatus, RowStates

LEMMA RowsTypedNext == Typed /\ [Next]_vars => RowsTyped'
<1> SUFFICES ASSUME Typed, [Next]_vars PROVE RowsTyped'
  OBVIOUS
<1> USE DEF Typed
<1>1. ASSUME NEW f \in Files, Observe(f) PROVE RowsTyped'
  <2>1. ver' \in [Files -> 0..MaxVersion] /\ mdb' \in 0..MaxMdb
    BY <1>1, LocalCommitsAssumption DEF Observe, Touch, RowsTyped
  <2>2. row' \in [Files -> RowStates \cup {None}]
    BY <1>1, LocalCommitsAssumption DEF Observe, RowsTyped, RowStates
  <2>3. QED
    BY <1>1, <2>1, <2>2 DEF Observe, RowsTyped
<1>s. ASSUME NEW f \in Files, SeeAgain(f) PROVE RowsTyped'
  BY <1>s, LocalCommitsAssumption DEF SeeAgain, RowsTyped, RowStates
<1>2. ASSUME NEW f \in Files, Hash(f) PROVE RowsTyped'
  BY <1>2 DEF Hash, Listed, RowsTyped, RowStates
<1>3. ASSUME NEW f \in Files, Delete(f) PROVE RowsTyped'
  BY <1>3 DEF Delete, RowsTyped
<1>4. ASSUME NEW f \in Files, Stage(f) \/ Unstage(f) PROVE RowsTyped'
  BY <1>4, SetStatusTyped DEF Stage, Unstage
<1>5. CASE PulledIndex
  BY <1>5, LocalCommitsAssumption DEF PulledIndex, RowsTyped
<1>6. ASSUME NEW p \in Committers, NEW e \in Entries, Mark(p, e) PROVE RowsTyped'
  BY <1>6, SetStatusTyped DEF Mark, Entries
<1>7. CASE UNCHANGED <<ver, mdb, row, again>>
  BY <1>7 DEF RowsTyped
<1>8. ASSUME NEW p \in Committers,
             ListDiscovered(p) \/ ListStaged(p) \/ Create(p) \/ Save(p) \/ Fail(p)
      PROVE  RowsTyped'
  BY <1>8, <1>7 DEF ListDiscovered, ListStaged, Create, Save, Fail
<1>9. CASE (\E p \in Hand : HandleCommit(p)) \/ AutoCommit \/ Crash
  BY <1>9, <1>7 DEF HandleCommit, AutoCommit, Crash
<1>10. CASE UNCHANGED vars
  BY <1>10, <1>7 DEF vars
<1>11. QED
  BY <1>1, <1>s, <1>2, <1>3, <1>4, <1>5, <1>6, <1>8, <1>9, <1>10 DEF Next, CommitStep

\* Steps that leave every committer where it is.
LEMMA EnvLeavesComs ==
  ASSUME \/ \E f \in Files : \/ Observe(f) \/ SeeAgain(f) \/ Hash(f) \/ Delete(f)
                            \/ Stage(f) \/ Unstage(f)
         \/ PulledIndex
         \/ UNCHANGED vars
  PROVE  UNCHANGED <<com, sent, lost>>
  BY DEF Observe, SeeAgain, Hash, Delete, Stage, Unstage, PulledIndex, vars

LEMMA ComsTypedNext == Typed /\ [Next]_vars => ComsTyped'
<1> SUFFICES ASSUME Typed, [Next]_vars PROVE ComsTyped'
  OBVIOUS
<1> USE DEF Typed
<1>c. \A p \in Committers : com[p] \in Coms /\ Phase(com[p])
  BY DEF ComsTyped
<1>1. CASE UNCHANGED <<com, sent, lost>>
  BY <1>1 DEF ComsTyped
<1>2. ASSUME NEW p \in Committers, Become(p, [Idle EXCEPT !.pc = "discovered"])
      PROVE  ComsTyped'
  <2>1. [Idle EXCEPT !.pc = "discovered"] \in Coms
    BY IdleTyped DEF Coms
  <2>2. Phase([Idle EXCEPT !.pc = "discovered"])
    BY DEF Phase, Idle
  <2>3. QED
    BY <1>2, <2>1, <2>2, BecomeTyped
<1>3. ASSUME NEW p \in Committers, ListDiscovered(p) PROVE ComsTyped'
  <2> DEFINE s == [com[p] EXCEPT !.pc = "staged", !.todo = ByStatus("discovered"),
                                 !.since = Len(sent)]
  <2>0. Len(sent) \in 0..MaxCommits
    BY LocalCommitsAssumption DEF SentTyped
  <2>1. s \in Coms
    BY <1>c, <2>0, ByStatusTyped DEF Coms
  <2>2. Phase(s)
    BY <1>3, <1>c DEF Phase, Coms, ListDiscovered
  <2>3. QED
    BY <1>3, <2>1, <2>2, BecomeTyped DEF ListDiscovered
<1>4. ASSUME NEW p \in Committers, ListStaged(p) PROVE ComsTyped'
  <2> DEFINE T == {e \in com[p].todo \cup ByStatus("staged") : e.v # 0}
             s == [com[p] EXCEPT !.pc = "mark", !.todo = T]
  <2>1. s \in Coms
    BY <1>c, ByStatusTyped DEF Coms
  <2>2. Phase(s)
    BY <1>4, <1>c DEF Phase, Coms, ListStaged
  <2>3. QED
    BY <1>4, <2>1, <2>2, BecomeTyped DEF ListStaged
<1>5. ASSUME NEW p \in Committers, NEW e \in Entries, Mark(p, e) PROVE ComsTyped'
  <2> DEFINE s == [com[p] EXCEPT !.todo = @ \ {e}, !.files = @ \cup {e}]
  <2>1. s \in Coms
    BY <1>c DEF Coms
  <2>2. Phase(s)
    BY <1>5, <1>c DEF Phase, Coms, Mark
  <2>3. QED
    BY <1>5, <2>1, <2>2, BecomeTyped DEF Mark
<1>6. ASSUME NEW p \in Committers, Create(p) PROVE ComsTyped'
  <2> DEFINE s == [com[p] EXCEPT !.pc = "save", !.created = mdb]
  <2>1. s \in Coms
    BY <1>c DEF Coms, RowsTyped
  <2>2. Phase(s)
    BY <1>6, <1>c DEF Phase, Coms, Create
  <2>3. QED
    BY <1>6, <2>1, <2>2, BecomeTyped, ReturnTyped DEF Create
<1>7. ASSUME NEW p \in Committers, Save(p) \/ Fail(p) PROVE ComsTyped'
  BY <1>7, ReturnTyped DEF Save, Fail
<1>8. CASE Crash
  BY <1>8, IdleTyped DEF Crash, ComsTyped
<1>9. QED
  BY <1>1, <1>2, <1>3, <1>4, <1>5, <1>6, <1>7, <1>8, EnvLeavesComs
     DEF Next, CommitStep, HandleCommit, AutoCommit, Committers

\* What a committer saves.
Saved(p) == [files |-> {[f |-> e.f, v |-> e.v] : e \in com[p].files},
             mdb |-> com[p].created, by |-> p, since |-> com[p].since]

LEMMA SavedTyped ==
  ASSUME Typed, NEW p \in Committers, com[p].pc = "save"
  PROVE  Saved(p) \in Commit
<1>1. com[p] \in Coms /\ \A e \in com[p].files : e.v # 0
  BY DEF Typed, ComsTyped, Phase
<1>2. \A e \in com[p].files : e.f \in Files /\ e.v \in 1..MaxVersion
  BY <1>1, LocalCommitsAssumption DEF Coms, Entries
<1>3. {[f |-> e.f, v |-> e.v] : e \in com[p].files} \in SUBSET [f : Files, v : 1..MaxVersion]
  BY <1>2
<1>4. com[p].created \in 0..MaxMdb /\ com[p].since \in 0..MaxCommits
  BY <1>1 DEF Coms
<1>5. QED
  BY <1>3, <1>4 DEF Saved, Commit

\* sent grows by one commit, or not at all.
LEMMA SentGrows ==
  ASSUME [Next]_vars
  PROVE  \/ sent' = sent
         \/ \E p \in Committers : Save(p) /\ sent' = Append(sent, Saved(p))
<1>1. CASE UNCHANGED <<com, sent, lost>>
  BY <1>1
<1>2. ASSUME NEW p \in Committers, Save(p) PROVE sent' = Append(sent, Saved(p))
  BY <1>2 DEF Save, Saved
<1>3. ASSUME NEW p \in Committers,
             \/ ListDiscovered(p) \/ ListStaged(p) \/ Create(p) \/ Fail(p)
             \/ \E e \in Entries : Mark(p, e)
      PROVE  sent' = sent
  BY <1>3 DEF ListDiscovered, ListStaged, Mark, Create, Fail
<1>4. CASE (\E p \in Hand : HandleCommit(p)) \/ AutoCommit \/ Crash
  BY <1>4 DEF HandleCommit, AutoCommit, Crash
<1>5. QED
  BY <1>1, <1>2, <1>3, <1>4, EnvLeavesComs DEF Next, CommitStep

LEMMA LostTyped ==
  ASSUME Typed, [Next]_vars
  PROVE  lost' \subseteq Files
<1>1. \A p \in Committers : FilesOf(p) \subseteq Files
  BY DEF Typed, ComsTyped, Coms, FilesOf, Entries
<1>2. lost \subseteq Files
  BY DEF Typed, SentTyped
<1>3. ASSUME NEW p \in Committers, Fail(p) PROVE lost' \subseteq Files
  BY <1>1, <1>2, <1>3 DEF Fail
<1>4. CASE Crash
  BY <1>1, <1>2, <1>4 DEF Crash
<1>5. CASE lost' = lost
  BY <1>2, <1>5
<1>6. ASSUME NEW p \in Committers,
             \/ ListDiscovered(p) \/ ListStaged(p) \/ Create(p) \/ Save(p)
             \/ \E e \in Entries : Mark(p, e)
      PROVE  lost' = lost
  BY <1>6 DEF ListDiscovered, ListStaged, Mark, Create, Save
<1>7. CASE (\E p \in Hand : HandleCommit(p)) \/ AutoCommit
  BY <1>5, <1>7 DEF HandleCommit, AutoCommit
<1>8. QED
  BY <1>3, <1>4, <1>5, <1>6, <1>7, EnvLeavesComs DEF Next, CommitStep

LEMMA SentTypedNext == Typed /\ [Next]_vars => SentTyped'
<1> SUFFICES ASSUME Typed, [Next]_vars PROVE SentTyped'
  OBVIOUS
<1>1. sent \in Seq(Commit) /\ Len(sent) <= MaxCommits
  BY DEF Typed, SentTyped
<1>2. ASSUME NEW p \in Committers, Save(p), sent' = Append(sent, Saved(p))
      PROVE  sent' \in Seq(Commit) /\ Len(sent') <= MaxCommits
  <2>1. Saved(p) \in Commit /\ Len(sent) < MaxCommits
    BY <1>2, SavedTyped DEF Save
  <2>2. QED
    BY <1>1, <1>2, <2>1, LocalCommitsAssumption
<1>3. sent' \in Seq(Commit) /\ Len(sent') <= MaxCommits
  BY <1>1, <1>2, SentGrows
<1>4. QED
  BY <1>3, LostTyped DEF SentTyped

LEMMA TypedInit == Init => Typed
<1> SUFFICES ASSUME Init PROVE Typed
  OBVIOUS
<1>1. RowsTyped
  BY LocalCommitsAssumption DEF Init, RowsTyped
<1>2. ComsTyped
  BY IdleTyped DEF Init, ComsTyped
<1>3. SentTyped
  BY LocalCommitsAssumption DEF Init, SentTyped
<1>4. QED
  BY <1>1, <1>2, <1>3 DEF Typed

LEMMA TypedNext == Typed /\ [Next]_vars => Typed'
  BY RowsTypedNext, ComsTypedNext, SentTypedNext DEF Typed

\* Every variable keeps its type; what is sent has a hash.
THEOREM TypeCorrect == Spec => []TypeOK
<1>1. Typed => TypeOK
  BY DEF Typed, RowsTyped, ComsTyped, SentTyped, TypeOK, RowStates, Coms
<1>2. QED
  BY <1>1, TypedInit, TypedNext, PTL DEF Spec

(***************************************************************************)
(* Marked is sent.  A mark is in the hands of who set it until the commit  *)
(* is saved or fails; nobody else can take it away.                        *)
(***************************************************************************)
Marked(f) == Listed(f) /\ row[f].st = "committed"
Accounted(f) == f \in lost \/ InACommit(f) \/ \E p \in Committers : f \in FilesOf(p)

LEMMA InACommitStays ==
  ASSUME Typed, [Next]_vars, NEW f \in Files, InACommit(f)
  PROVE  InACommit(f)'
<1>1. sent \in Seq(Commit)
  BY DEF Typed, SentTyped
<1>2. PICK i \in DOMAIN sent : \E e \in sent[i].files : e.f = f
  BY DEF InACommit
<1>3. i \in DOMAIN sent' /\ sent'[i] = sent[i]
  BY <1>1, SentGrows
<1>4. QED
  BY <1>2, <1>3 DEF InACommit

\* A committer loses a file when the commit is saved or comes to nothing.
LEMMA HeldStays ==
  ASSUME Typed, [Next]_vars, NEW f \in Files, NEW p \in Committers, f \in FilesOf(p)
  PROVE  Accounted(f)'
<1>t. com \in [Committers -> Coms] /\ sent \in Seq(Commit) /\ Phase(com[p])
  BY DEF Typed, ComsTyped, SentTyped
<1>n. com[p].files # {}
  BY DEF FilesOf
<1>1. CASE com'[p].files = com[p].files
  BY <1>1 DEF Accounted, FilesOf
<1>2. ASSUME NEW q \in Committers, NEW s, Become(q, s), q # p \/ s.files = com[p].files
      PROVE  Accounted(f)'
  BY <1>1, <1>2, <1>t DEF Become
<1>3. ASSUME NEW q \in Committers, ListDiscovered(q) \/ ListStaged(q) PROVE Accounted(f)'
  <2>1. q = p => FALSE
    BY <1>3, <1>n, <1>t DEF ListDiscovered, ListStaged, Phase
  <2>2. QED
    BY <1>2, <1>3, <2>1 DEF ListDiscovered, ListStaged
<1>4. ASSUME NEW q \in Committers, NEW e \in Entries, Mark(q, e) PROVE Accounted(f)'
  <2>1. CASE q = p
    <3>1. com'[p].files = com[p].files \cup {e}
      BY <1>4, <1>t, <2>1 DEF Mark, Become, Coms
    <3>2. QED
      BY <3>1 DEF Accounted, FilesOf
  <2>2. CASE q # p
    BY <1>2, <1>4, <2>2 DEF Mark
  <2>3. QED
    BY <2>1, <2>2
<1>5. ASSUME NEW q \in Committers, Create(q) PROVE Accounted(f)'
  <2>1. CASE q = p
    <3>1. com'[p].files = com[p].files
      BY <1>5, <1>n, <1>t, <2>1 DEF Create, Become, Return, Coms
    <3>2. QED
      BY <1>1, <3>1
  <2>2. CASE q # p
    BY <1>2, <1>5, <2>2 DEF Create, Return
  <2>3. QED
    BY <2>1, <2>2
<1>6. ASSUME NEW q \in Committers, Save(q) PROVE Accounted(f)'
  <2>1. CASE q = p
    <3>1. sent' = Append(sent, Saved(p))
      BY <1>6, <2>1 DEF Save, Saved
    <3>2. Len(sent) + 1 \in DOMAIN sent' /\ sent'[Len(sent) + 1] = Saved(p)
      BY <1>t, <3>1
    <3>3. PICK e \in com[p].files : e.f = f
      BY DEF FilesOf
    <3>5. [f |-> e.f, v |-> e.v] \in Saved(p).files
      BY <3>3 DEF Saved
    <3>4. QED
      BY <3>2, <3>3, <3>5 DEF Accounted, InACommit
  <2>2. CASE q # p
    BY <1>2, <1>6, <2>2 DEF Save, Return
  <2>3. QED
    BY <2>1, <2>2
<1>7. ASSUME NEW q \in Committers, Fail(q) PROVE Accounted(f)'
  <2>1. CASE q = p
    BY <1>7, <2>1 DEF Fail, Accounted
  <2>2. CASE q # p
    BY <1>2, <1>7, <2>2 DEF Fail, Return
  <2>3. QED
    BY <2>1, <2>2
<1>8. CASE Crash
  BY <1>8 DEF Crash, Accounted
<1>9. ASSUME NEW q \in Committers, com[q].pc = "idle", NEW s, Become(q, s)
      PROVE  Accounted(f)'
  <2>1. q # p
    BY <1>9, <1>n, <1>t DEF Phase
  <2>2. QED
    BY <1>2, <1>9, <2>1
<1>10. CASE (\E q \in Hand : HandleCommit(q)) \/ AutoCommit
  BY <1>9, <1>10 DEF HandleCommit, AutoCommit, Committers
<1>11. CASE UNCHANGED <<com, sent, lost>>
  BY <1>1, <1>11
<1>12. QED
  BY <1>3, <1>4, <1>5, <1>6, <1>7, <1>8, <1>10, <1>11, EnvLeavesComs DEF Next, CommitStep

LEMMA AccountedStays ==
  ASSUME Typed, [Next]_vars, NEW f \in Files, Accounted(f)
  PROVE  Accounted(f)'
<1>1. CASE f \in lost
  <2>1. lost \subseteq lost'
    <3>1. CASE UNCHANGED <<com, sent, lost>>
      BY <3>1
    <3>2. CASE \E p \in Committers : CommitStep(p)
      BY <3>2 DEF CommitStep, ListDiscovered, ListStaged, Mark, Create, Save, Fail
    <3>3. CASE (\E p \in Hand : HandleCommit(p)) \/ AutoCommit \/ Crash
      BY <3>3 DEF HandleCommit, AutoCommit, Crash
    <3>4. QED
      BY <3>1, <3>2, <3>3, EnvLeavesComs DEF Next
  <2>2. QED
    BY <1>1, <2>1 DEF Accounted
<1>2. CASE InACommit(f)
  BY <1>2, InACommitStays DEF Accounted
<1>3. CASE \E p \in Committers : f \in FilesOf(p)
  BY <1>3, HeldStays
<1>4. QED
  BY <1>1, <1>2, <1>3 DEF Accounted

\* Only Mark makes a row "committed".
LEMMA OnlyMarkMarks ==
  ASSUME Typed, [Next]_vars, NEW f \in Files, Marked(f)', ~ Marked(f)
  PROVE  \E p \in Committers, e \in Entries : Mark(p, e) /\ e.f = f
<1> USE DEF Marked, Listed
<1>t. row \in [Files -> RowStates \cup {None}]
  BY DEF Typed, RowsTyped
<1>1. ASSUME NEW g \in Files, Observe(g) PROVE FALSE
  BY <1>1, <1>t DEF Observe, RowStates
<1>s. ASSUME NEW g \in Files, SeeAgain(g) PROVE FALSE
  BY <1>s, <1>t DEF SeeAgain
<1>2. ASSUME NEW g \in Files, Hash(g) PROVE FALSE
  BY <1>2, <1>t DEF Hash, RowStates
<1>3. ASSUME NEW g \in Files, Delete(g) PROVE FALSE
  BY <1>3, <1>t DEF Delete
<1>4. ASSUME NEW g \in Files, Stage(g) \/ Unstage(g) PROVE FALSE
  BY <1>4, <1>t DEF Stage, Unstage, SetStatus, RowStates
<1>5. ASSUME NEW p \in Committers, NEW e \in Entries, Mark(p, e) PROVE e.f = f
  BY <1>5, <1>t DEF Mark, SetStatus
<1>6. CASE row' = row
  BY <1>6
<1>7. ASSUME NEW p \in Committers,
             ListDiscovered(p) \/ ListStaged(p) \/ Create(p) \/ Save(p) \/ Fail(p)
      PROVE  FALSE
  BY <1>6, <1>7 DEF ListDiscovered, ListStaged, Create, Save, Fail
<1>8. CASE (\E p \in Hand : HandleCommit(p)) \/ AutoCommit \/ Crash \/ PulledIndex
  BY <1>6, <1>8 DEF HandleCommit, AutoCommit, Crash, PulledIndex
<1>9. CASE UNCHANGED vars
  BY <1>6, <1>9 DEF vars
<1>10. QED
  BY <1>1, <1>s, <1>2, <1>3, <1>4, <1>5, <1>7, <1>8, <1>9 DEF Next, CommitStep

MarkedOK == \A f \in Files : Marked(f) => Accounted(f)

LEMMA MarkedNext == Typed /\ MarkedOK /\ [Next]_vars => MarkedOK'
<1> SUFFICES ASSUME Typed, MarkedOK, [Next]_vars, NEW f \in Files, Marked(f)'
             PROVE  Accounted(f)'
  BY DEF MarkedOK
<1>1. CASE Marked(f)
  BY <1>1, AccountedStays DEF MarkedOK
<1>2. CASE ~ Marked(f)
  <2>1. PICK p \in Committers, e \in Entries : Mark(p, e) /\ e.f = f
    BY <1>2, OnlyMarkMarks
  <2>2. com'[p].files = com[p].files \cup {e}
    BY <2>1 DEF Mark, Become, Typed, ComsTyped, Coms
  <2>3. QED
    BY <2>1, <2>2 DEF Accounted, FilesOf
<1>3. QED
  BY <1>1, <1>2

\* However requests and automode interleave, only a fault makes a file look sent that
\* never was.
THEOREM MarkedIsSent == Spec => []CommittedIsSent
<1>1. Init => MarkedOK
  BY DEF Init, MarkedOK, Marked, Listed
<1>2. MarkedOK => CommittedIsSent
  BY DEF MarkedOK, Marked, Accounted, CommittedIsSent
<1>3. QED
  BY <1>1, <1>2, TypedInit, TypedNext, MarkedNext, PTL DEF Spec

(***************************************************************************)
(* A version is sent once.  What a committer has marked or sent is         *)
(* committed, or deleted, or written over; so it is not listed again,      *)
(* unless its row was deleted and the file seen once more.                 *)
(***************************************************************************)
RowVersions == \A f \in Files : Listed(f) => row[f].v \in {0, ver[f]}

Done(f, v) ==
  v <= ver[f] /\ (Listed(f) => row[f].st = "committed" \/ v < ver[f] \/ f \in again)

\* A commit, saved or not yet, has taken the file.
Taken(f) == InACommit(f) \/ \E p \in Committers : f \in FilesOf(p)

LEMMA AgainGrows ==
  ASSUME [Next]_vars
  PROVE  again \subseteq again'
<1>1. ASSUME NEW f \in Files, SeeAgain(f) PROVE again \subseteq again'
  BY <1>1 DEF SeeAgain
<1>2. ASSUME NEW f \in Files, Observe(f) \/ Hash(f) \/ Delete(f) \/ Stage(f) \/ Unstage(f)
      PROVE  again' = again
  BY <1>2 DEF Observe, Hash, Delete, Stage, Unstage
<1>3. CASE \E p \in Committers : CommitStep(p)
  BY <1>3 DEF CommitStep, ListDiscovered, ListStaged, Mark, Create, Save, Fail
<1>4. CASE (\E p \in Hand : HandleCommit(p)) \/ AutoCommit \/ Crash \/ PulledIndex
  BY <1>4 DEF HandleCommit, AutoCommit, Crash, PulledIndex
<1>5. CASE UNCHANGED vars
  BY <1>5 DEF vars
<1>6. QED
  BY <1>1, <1>2, <1>3, <1>4, <1>5 DEF Next

LEMMA DoneStays ==
  ASSUME "restage" \notin Races, Typed, [Next]_vars,
         NEW f \in Files, NEW v \in Nat, Done(f, v), Taken(f)
  PROVE  Done(f, v)'
<1> USE DEF Done, Listed
<1>t. row \in [Files -> RowStates \cup {None}] /\ ver \in [Files -> 0..MaxVersion]
      /\ MaxVersion \in Nat
  BY LocalCommitsAssumption DEF Typed, RowsTyped
<1>a. again \subseteq again'
  BY AgainGrows
<1>s. ASSUME NEW g \in Files, SeeAgain(g) PROVE Done(f, v)'
  <2>1. CASE g = f
    <3>1. f \in again' /\ ver' = ver
      BY <1>s, <2>1 DEF SeeAgain, Taken
    <3>2. QED
      BY <3>1
  <2>2. CASE g # f
    BY <1>s, <1>a, <1>t, <2>2 DEF SeeAgain
  <2>3. QED
    BY <2>1, <2>2
<1>1. ASSUME NEW g \in Files, Observe(g) PROVE Done(f, v)'
  <2>1. CASE g = f
    <3>1. ver'[f] = ver[f] + 1
      BY <1>1, <1>t, <2>1 DEF Observe, Touch
    <3>2. v <= ver'[f] /\ v < ver'[f]
      BY <3>1, <1>t
    <3>3. QED
      BY <3>2
  <2>2. CASE g # f
    <3>1. ver'[f] = ver[f] /\ row'[f] = row[f]
      BY <1>1, <1>t, <2>2 DEF Observe, Touch
    <3>2. QED
      BY <1>a, <3>1
  <2>3. QED
    BY <2>1, <2>2
<1>2. ASSUME NEW g \in Files, Hash(g) PROVE Done(f, v)'
  BY <1>2, <1>t DEF Hash, RowStates
<1>3. ASSUME NEW g \in Files, Delete(g) PROVE Done(f, v)'
  BY <1>3, <1>t DEF Delete
<1>4. ASSUME NEW g \in Files, Stage(g) \/ Unstage(g) PROVE Done(f, v)'
  <2>1. row[g].st # "committed"
    BY <1>4 DEF Stage, Unstage, CanClick, Pending
  <2>2. QED
    BY <1>4, <2>1, <1>t DEF Stage, Unstage, SetStatus, CanClick
<1>5. ASSUME NEW p \in Committers, NEW e \in Entries, Mark(p, e) PROVE Done(f, v)'
  BY <1>5, <1>t DEF Mark, SetStatus, RowStates
<1>6. CASE UNCHANGED <<ver, row>>
  BY <1>6, <1>a
<1>7. ASSUME NEW p \in Committers,
             ListDiscovered(p) \/ ListStaged(p) \/ Create(p) \/ Save(p) \/ Fail(p)
      PROVE  Done(f, v)'
  BY <1>6, <1>7 DEF ListDiscovered, ListStaged, Create, Save, Fail
<1>8. CASE (\E p \in Hand : HandleCommit(p)) \/ AutoCommit \/ Crash \/ PulledIndex
  BY <1>6, <1>8 DEF HandleCommit, AutoCommit, Crash, PulledIndex
<1>9. CASE UNCHANGED vars
  BY <1>6, <1>9 DEF vars
<1>10. QED
  BY <1>1, <1>s, <1>2, <1>3, <1>4, <1>5, <1>7, <1>8, <1>9 DEF Next, CommitStep

LEMMA RowVersionsNext == Typed /\ RowVersions /\ [Next]_vars => RowVersions'
<1> SUFFICES ASSUME Typed, RowVersions, [Next]_vars PROVE RowVersions'
  OBVIOUS
<1> USE DEF RowVersions, Listed
<1>t. row \in [Files -> RowStates \cup {None}] /\ ver \in [Files -> 0..MaxVersion]
  BY DEF Typed, RowsTyped
<1>1. ASSUME NEW g \in Files, Observe(g) PROVE RowVersions'
  <2>1. ASSUME NEW f \in Files, row'[f] # None PROVE row'[f].v \in {0, ver'[f]}
    <3>1. CASE f = g
      BY <1>1, <1>t, <3>1 DEF Observe, RowStates
    <3>2. CASE f # g
      BY <1>1, <1>t, <2>1, <3>2 DEF Observe, Touch
    <3>3. QED
      BY <3>1, <3>2
  <2>2. QED
    BY <2>1
<1>s. ASSUME NEW g \in Files, SeeAgain(g) PROVE RowVersions'
  BY <1>s, <1>t DEF SeeAgain, RowStates
<1>2. ASSUME NEW g \in Files, Hash(g) PROVE RowVersions'
  BY <1>2, <1>t DEF Hash, RowStates
<1>3. ASSUME NEW g \in Files, Delete(g) PROVE RowVersions'
  BY <1>3, <1>t DEF Delete
<1>4. ASSUME NEW g \in Files, Stage(g) \/ Unstage(g) PROVE RowVersions'
  BY <1>4, <1>t DEF Stage, Unstage, SetStatus, RowStates
<1>5. ASSUME NEW p \in Committers, NEW e \in Entries, Mark(p, e) PROVE RowVersions'
  BY <1>5, <1>t DEF Mark, SetStatus, RowStates
<1>6. CASE UNCHANGED <<ver, row>>
  BY <1>6
<1>7. ASSUME NEW p \in Committers,
             ListDiscovered(p) \/ ListStaged(p) \/ Create(p) \/ Save(p) \/ Fail(p)
      PROVE  RowVersions'
  BY <1>6, <1>7 DEF ListDiscovered, ListStaged, Create, Save, Fail
<1>8. CASE (\E p \in Hand : HandleCommit(p)) \/ AutoCommit \/ Crash \/ PulledIndex
  BY <1>6, <1>8 DEF HandleCommit, AutoCommit, Crash, PulledIndex
<1>9. CASE UNCHANGED vars
  BY <1>6, <1>9 DEF vars
<1>10. QED
  BY <1>1, <1>s, <1>2, <1>3, <1>4, <1>5, <1>7, <1>8, <1>9 DEF Next, CommitStep

\* What a committer has listed or marked, and what it makes of an entry.
Holding(p) == com[p].todo \cup com[p].files
Sent(e) == [f |-> e.f, v |-> e.v]
NotIn(e, n) == \A i \in DOMAIN sent :
  i <= n => Sent(e) \notin sent[i].files \/ e.f \in again

SentDone == \A i \in DOMAIN sent : \A e \in sent[i].files : Done(e.f, e.v)
HeldDone == \A p \in Committers : \A e \in com[p].files : Done(e.f, e.v)
ListedOnce == \A p \in Committers : \A e \in Holding(p) :
  e.v <= ver[e.f] /\ (e.v # 0 => NotIn(e, com[p].since))

\* What was saved when the list was begun includes all that the committer saved.
Counted == \A p \in Committers :
  /\ com[p].since <= Len(sent)
  /\ com[p].pc \notin {"idle", "discovered"} =>
       \A i \in DOMAIN sent : sent[i].by = p => i <= com[p].since

OnceInv == RowVersions /\ SentDone /\ HeldDone /\ ListedOnce /\ Counted /\ SendsOnce

\* What ByStatus lists of uncommitted rows is in no commit that was saved.
LEMMA ListedIsFresh ==
  ASSUME Typed, RowVersions, SentDone, NEW st \in {"discovered", "staged"},
         NEW e \in ByStatus(st), NEW n
  PROVE  e \in Entries /\ e.v <= ver[e.f] /\ (e.v # 0 => NotIn(e, n))
<1>1. PICK g \in Files : Listed(g) /\ row[g].st = st /\ e = [f |-> g, v |-> row[g].v, from |-> st]
  BY DEF ByStatus
<1>2. e.f = g /\ e.v = row[g].v
  BY <1>1
<1>3. ver[g] \in Nat
  BY LocalCommitsAssumption DEF Typed, RowsTyped
<1>4. e.v \in {0, ver[g]}
  BY <1>1, <1>2 DEF RowVersions
<1>5. ASSUME e.v # 0, NEW i \in DOMAIN sent, Sent(e) \in sent[i].files
      PROVE  e.f \in again
  <2>1. Sent(e).f = g /\ Sent(e).v = ver[g]
    BY <1>2, <1>4, <1>5 DEF Sent
  <2>2. Done(g, ver[g])
    BY <1>5, <2>1 DEF SentDone
  <2>3. QED
    BY <1>1, <1>2, <1>3, <2>2 DEF Done
<1>6. e \in Entries
  BY ByStatusTyped DEF Typed
<1>7. QED
  BY <1>2, <1>3, <1>4, <1>5, <1>6 DEF NotIn

LEMMA VersionsGrow ==
  ASSUME Typed, [Next]_vars, NEW f \in Files, NEW v \in Nat, v <= ver[f]
  PROVE  v <= ver'[f]
<1>t. ver \in [Files -> 0..MaxVersion]
  BY DEF Typed, RowsTyped
<1>1. ASSUME NEW g \in Files, Observe(g) PROVE v <= ver'[f]
  BY <1>1, <1>t, LocalCommitsAssumption DEF Observe, Touch
<1>2. CASE ver' = ver
  BY <1>2
<1>3. ASSUME NEW g \in Files, SeeAgain(g) \/ Hash(g) \/ Delete(g) \/ Stage(g) \/ Unstage(g)
      PROVE  v <= ver'[f]
  BY <1>2, <1>3 DEF SeeAgain, Hash, Delete, Stage, Unstage
<1>4. CASE \E p \in Committers : CommitStep(p)
  BY <1>2, <1>4 DEF CommitStep, ListDiscovered, ListStaged, Mark, Create, Save, Fail
<1>5. CASE (\E p \in Hand : HandleCommit(p)) \/ AutoCommit \/ Crash \/ PulledIndex
  BY <1>2, <1>5 DEF HandleCommit, AutoCommit, Crash, PulledIndex
<1>6. CASE UNCHANGED vars
  BY <1>2, <1>6 DEF vars
<1>7. QED
  BY <1>1, <1>3, <1>4, <1>5, <1>6 DEF Next

\* What a step makes of a committer.
Lists1(p) ==
  /\ com[p].pc = "discovered" /\ com'[p].pc = "staged"
  /\ com'[p].todo = ByStatus("discovered") /\ com'[p].files = {}
  /\ com'[p].since = Len(sent) /\ sent' = sent
Lists2(p) ==
  /\ com[p].pc = "staged"
  /\ com'[p].todo \subseteq com[p].todo \cup ByStatus("staged")
  /\ com'[p].files = com[p].files /\ com'[p].since = com[p].since
Marks(p, e) ==
  /\ Mark(p, e) /\ com'[p].todo = com[p].todo \ {e}
  /\ com'[p].files = com[p].files \cup {e} /\ com'[p].since = com[p].since
Creates(p) ==
  /\ com[p].pc = "mark"
  /\ com'[p].todo = com[p].todo /\ com'[p].files = com[p].files
  /\ com'[p].since = com[p].since
Empties(p) ==
  /\ com'[p].pc \in {"idle", "discovered"}
  /\ com'[p].todo = {} /\ com'[p].files = {} /\ com'[p].since = 0

LEMMA ComMoves ==
  ASSUME Typed, [Next]_vars, NEW p \in Committers
  PROVE  \/ com'[p] = com[p]
         \/ Lists1(p) \/ Lists2(p) \/ Creates(p) \/ Empties(p)
         \/ \E e \in com[p].todo : Marks(p, e)
<1>t. com \in [Committers -> Coms] /\ Phase(com[p])
  BY DEF Typed, ComsTyped
<1>2. ASSUME NEW q \in Committers, NEW s, Become(q, s), q # p
      PROVE  com'[p] = com[p]
  BY <1>2, <1>t DEF Become
<1>3. ASSUME NEW s, Become(p, s) PROVE com'[p] = s
  BY <1>3, <1>t DEF Become
<1>5. ASSUME ListDiscovered(p) PROVE Lists1(p)
  <2>1. com'[p] = [com[p] EXCEPT !.pc = "staged", !.todo = ByStatus("discovered"),
                                 !.since = Len(sent)]
    BY <1>3, <1>5 DEF ListDiscovered
  <2>2. com'[p].todo = ByStatus("discovered") /\ com'[p].files = com[p].files
        /\ com'[p].since = Len(sent) /\ com'[p].pc = "staged"
    BY <1>t, <2>1 DEF Coms
  <2>3. QED
    BY <1>5, <1>t, <2>2 DEF ListDiscovered, Lists1, Phase
<1>6. ASSUME ListStaged(p) PROVE Lists2(p)
  <2> DEFINE T == {e \in com[p].todo \cup ByStatus("staged") : e.v # 0}
  <2>1. com'[p] = [com[p] EXCEPT !.pc = "mark", !.todo = T]
    BY <1>3, <1>6 DEF ListStaged
  <2>2. com'[p].todo = T /\ com'[p].files = com[p].files /\ com'[p].since = com[p].since
    BY <1>t, <2>1 DEF Coms
  <2>3. QED
    BY <1>6, <2>2 DEF ListStaged, Lists2
<1>7. ASSUME NEW e \in Entries, Mark(p, e) PROVE e \in com[p].todo /\ Marks(p, e)
  <2>1. com'[p] = [com[p] EXCEPT !.todo = @ \ {e}, !.files = @ \cup {e}]
    BY <1>3, <1>7 DEF Mark
  <2>2. /\ com'[p].todo = com[p].todo \ {e} /\ com'[p].files = com[p].files \cup {e}
        /\ com'[p].since = com[p].since
    BY <1>t, <2>1 DEF Coms
  <2>3. QED
    BY <1>7, <2>2 DEF Mark, Marks
<1>8. ASSUME Return(p) PROVE Empties(p)
  BY <1>3, <1>8 DEF Return, Idle, Empties
<1>9. ASSUME Become(p, [Idle EXCEPT !.pc = "discovered"]) PROVE Empties(p)
  BY <1>3, <1>9 DEF Idle, Empties
<1>10. ASSUME Create(p) PROVE Creates(p) \/ Empties(p)
  <2>1. CASE Become(p, [com[p] EXCEPT !.pc = "save", !.created = mdb])
    <3>1. com'[p] = [com[p] EXCEPT !.pc = "save", !.created = mdb]
      BY <1>3, <2>1
    <3>2. QED
      BY <1>10, <1>t, <3>1 DEF Create, Creates, Coms
  <2>2. QED
    BY <1>8, <1>10, <2>1 DEF Create
<1>11. CASE CommitStep(p)
  BY <1>5, <1>6, <1>7, <1>8, <1>10, <1>11 DEF CommitStep, Save, Fail
<1>12. ASSUME NEW q \in Committers, q # p, CommitStep(q)
       PROVE  com'[p] = com[p]
  BY <1>2, <1>12 DEF CommitStep, ListDiscovered, ListStaged, Mark, Create, Save, Fail, Return
<1>13. ASSUME NEW q \in Committers, Become(q, [Idle EXCEPT !.pc = "discovered"])
       PROVE  com'[p] = com[p] \/ Empties(p)
  BY <1>2, <1>9, <1>13
<1>14. CASE (\E q \in Hand : HandleCommit(q)) \/ AutoCommit
  BY <1>13, <1>14 DEF HandleCommit, AutoCommit, Committers
<1>15. CASE Crash
  BY <1>15, <1>t DEF Crash, Idle, Empties
<1>16. CASE UNCHANGED <<com, sent, lost>>
  BY <1>16
<1>17. QED
  BY <1>11, <1>12, <1>14, <1>15, <1>16, EnvLeavesComs DEF Next

LEMMA SaveEmpties ==
  ASSUME Typed, NEW p \in Committers, Save(p)
  PROVE  Empties(p)
<1>1. com' = [com EXCEPT ![p] = Idle]
  BY DEF Save, Return, Become
<1>2. com'[p] = Idle
  BY <1>1 DEF Typed, ComsTyped
<1>3. QED
  BY <1>2 DEF Empties, Idle

\* What is not in the first n commits is not among them later.
LEMMA NotInStays ==
  ASSUME Typed, [Next]_vars, NEW e, NEW n \in Nat, n <= Len(sent), NotIn(e, n)
  PROVE  NotIn(e, n)'
<1>t. sent \in Seq(Commit)
  BY DEF Typed, SentTyped
<1>1. \A i \in DOMAIN sent' : i <= n => i \in DOMAIN sent /\ sent'[i] = sent[i]
  BY <1>t, SentGrows
<1>2. QED
  BY <1>1, AgainGrows DEF NotIn, Sent

LEMMA HeldDoneNext ==
  ASSUME "restage" \notin Races, Typed, OnceInv, [Next]_vars
  PROVE  HeldDone'
<1> SUFFICES ASSUME NEW p \in Committers, NEW d \in com'[p].files
             PROVE  Done(d.f, d.v)'
  BY DEF HeldDone
<1>t. com[p] \in Coms
  BY DEF Typed, ComsTyped
<1>e. \A e \in Entries : e.f \in Files /\ e.v \in Nat
  BY LocalCommitsAssumption DEF Entries
<1>1. CASE d \in com[p].files
  <2>1. d \in Entries /\ Done(d.f, d.v) /\ Taken(d.f)
    BY <1>1, <1>t DEF OnceInv, HeldDone, Coms, Taken, FilesOf
  <2>2. QED
    BY <1>e, <2>1, DoneStays
<1>2. ASSUME Marks(p, d), d \in com[p].todo PROVE Done(d.f, d.v)'
  <2>1. d \in Entries /\ d \in Holding(p)
    BY <1>2, <1>t DEF Coms, Holding
  <2>2. d.v <= ver[d.f]
    BY <2>1 DEF OnceInv, ListedOnce
  <2>3. ver' = ver /\ row' = [row EXCEPT ![d.f] = IF @ = None THEN None ELSE [@ EXCEPT !.st = "committed"]]
    BY <1>2 DEF Marks, Mark, SetStatus
  <2>4. QED
    BY <1>e, <2>1, <2>2, <2>3 DEF Done, Listed, Typed, RowsTyped, RowStates
<1>3. QED
  BY <1>1, <1>2, ComMoves DEF Lists1, Lists2, Marks, Creates, Empties

LEMMA SentDoneNext ==
  ASSUME "restage" \notin Races, Typed, OnceInv, [Next]_vars
  PROVE  SentDone'
<1>t. sent \in Seq(Commit)
  BY DEF Typed, SentTyped
<1>e. \A e \in Entries : e.f \in Files /\ e.v \in Nat
  BY LocalCommitsAssumption DEF Entries
<1>c. \A i \in DOMAIN sent : \A e \in sent[i].files : e.f \in Files /\ e.v \in Nat
  <2>1. \A i \in DOMAIN sent : sent[i] \in Commit
    BY <1>t
  <2>2. QED
    BY <2>1, LocalCommitsAssumption DEF Commit
<1>1. \A i \in DOMAIN sent : \A e \in sent[i].files : Done(e.f, e.v)'
  BY <1>c, DoneStays DEF OnceInv, SentDone, Taken, InACommit
<1>2. CASE sent' = sent
  BY <1>1, <1>2 DEF SentDone
<1>3. ASSUME NEW p \in Committers, sent' = Append(sent, Saved(p)) PROVE SentDone'
  <2> SUFFICES ASSUME NEW i \in DOMAIN sent', NEW e \in sent'[i].files
               PROVE  Done(e.f, e.v)'
    BY DEF SentDone
  <2>1. CASE i \in DOMAIN sent
    BY <1>t, <1>1, <1>3, <2>1
  <2>2. CASE i \notin DOMAIN sent
    <3>1. sent'[i] = Saved(p)
      BY <1>t, <1>3, <2>2
    <3>2. PICK d \in com[p].files : e = [f |-> d.f, v |-> d.v]
      BY <3>1 DEF Saved
    <3>3. d \in Entries /\ Done(d.f, d.v) /\ Taken(d.f)
      BY <3>2 DEF OnceInv, HeldDone, Typed, ComsTyped, Coms, Taken, FilesOf
    <3>4. Done(d.f, d.v)'
      BY <1>e, <3>3, DoneStays
    <3>5. QED
      BY <3>2, <3>4
  <2>3. QED
    BY <2>1, <2>2
<1>4. QED
  BY <1>2, <1>3, SentGrows

LEMMA ListedOnceNext ==
  ASSUME Typed, OnceInv, [Next]_vars
  PROVE  ListedOnce'
<1> SUFFICES ASSUME NEW p \in Committers, NEW e \in Holding(p)'
             PROVE  e.v <= ver'[e.f] /\ (e.v # 0 => NotIn(e, com[p].since)')
  BY DEF ListedOnce
<1>t. /\ com[p] \in Coms /\ com[p].since \in Nat /\ com[p].since <= Len(sent)
      /\ sent \in Seq(Commit) /\ Len(sent) \in Nat
  BY LocalCommitsAssumption DEF Typed, ComsTyped, SentTyped, Coms, OnceInv, Counted
<1>e. \A d \in Entries : d.f \in Files /\ d.v \in Nat
  BY LocalCommitsAssumption DEF Entries
<1>1. ASSUME e \in Entries, e.v <= ver[e.f], NEW n \in Nat, n <= Len(sent),
             e.v # 0 => NotIn(e, n), com'[p].since = n
      PROVE  e.v <= ver'[e.f] /\ (e.v # 0 => NotIn(e, com[p].since)')
  <2>1. e.v <= ver'[e.f]
    BY <1>e, <1>1, VersionsGrow
  <2>2. e.v # 0 => NotIn(e, n)'
    BY <1>1, NotInStays
  <2>3. QED
    BY <1>1, <2>1, <2>2 DEF NotIn
<1>2. CASE e \in Holding(p) /\ com'[p].since = com[p].since
  <2>1. e \in Entries /\ e.v <= ver[e.f] /\ (e.v # 0 => NotIn(e, com[p].since))
    BY <1>2, <1>t DEF OnceInv, ListedOnce, Holding, Coms
  <2>2. QED
    BY <1>1, <1>2, <1>t, <2>1
<1>3. ASSUME NEW st \in {"discovered", "staged"}, e \in ByStatus(st),
             NEW n \in Nat, n <= Len(sent), com'[p].since = n
      PROVE  e.v <= ver'[e.f] /\ (e.v # 0 => NotIn(e, com[p].since)')
  <2>1. e \in Entries /\ e.v <= ver[e.f] /\ (e.v # 0 => NotIn(e, n))
    BY <1>3, ListedIsFresh DEF OnceInv
  <2>2. QED
    BY <1>1, <1>3, <2>1
<1>4. CASE com'[p] = com[p]
  BY <1>2, <1>4 DEF Holding
<1>5. CASE Lists1(p)
  BY <1>3, <1>5, <1>t DEF Lists1, Holding
<1>6. CASE Lists2(p)
  BY <1>2, <1>3, <1>6, <1>t DEF Lists2, Holding
<1>7. ASSUME NEW d \in com[p].todo, Marks(p, d)
      PROVE  e \in Holding(p) /\ com'[p].since = com[p].since
  BY <1>7 DEF Marks, Holding
<1>8. CASE Creates(p)
  BY <1>2, <1>8 DEF Creates, Holding
<1>9. CASE Empties(p)
  BY <1>9 DEF Empties, Holding
<1>10. QED
  BY <1>2, <1>4, <1>5, <1>6, <1>7, <1>8, <1>9, ComMoves

LEMMA CountedNext ==
  ASSUME Typed, OnceInv, [Next]_vars
  PROVE  Counted'
<1> SUFFICES ASSUME NEW p \in Committers
             PROVE  /\ com'[p].since <= Len(sent')
                    /\ com'[p].pc \notin {"idle", "discovered"} =>
                         \A i \in DOMAIN sent' : sent'[i].by = p => i <= com'[p].since
  BY DEF Counted
<1>t. /\ com[p].since \in Nat /\ com[p].since <= Len(sent)
      /\ sent \in Seq(Commit) /\ Len(sent) \in Nat
  BY LocalCommitsAssumption DEF Typed, ComsTyped, SentTyped, Coms, OnceInv, Counted
<1>g. Len(sent) <= Len(sent') /\ Len(sent') \in Nat
  BY <1>t, SentGrows
<1>1. CASE Empties(p)
  BY <1>1, <1>g DEF Empties
<1>2. CASE Lists1(p)
  BY <1>2, <1>t DEF Lists1
<1>3. CASE ~ Empties(p) /\ com[p].pc \notin {"idle", "discovered"}
           /\ com'[p].since = com[p].since
  <2>1. \A i \in DOMAIN sent : sent[i].by = p => i <= com[p].since
    BY <1>3 DEF OnceInv, Counted
  <2>2. ASSUME NEW q \in Committers, Save(q), sent' = Append(sent, Saved(q))
        PROVE  \A i \in DOMAIN sent' : sent'[i].by = p => i \in DOMAIN sent /\ sent'[i] = sent[i]
    <3>1. q # p
      BY <1>3, <2>2, SaveEmpties
    <3>2. QED
      BY <1>t, <2>2, <3>1 DEF Saved
  <2>3. QED
    BY <1>3, <1>t, <1>g, <2>1, <2>2, SentGrows
<1>4. CASE com'[p] = com[p]
  BY <1>1, <1>3, <1>4, <1>t, <1>g
<1>5. QED
  BY <1>1, <1>2, <1>3, <1>4, ComMoves DEF Lists2, Marks, Mark, Creates

LEMMA SendsOnceNext ==
  ASSUME Typed, OnceInv, [Next]_vars
  PROVE  SendsOnce'
<1>t. sent \in Seq(Commit)
  BY DEF Typed, SentTyped
<1>1. CASE sent' = sent
  BY <1>1, AgainGrows DEF OnceInv, SendsOnce, Follows
<1>2. ASSUME NEW p \in Committers, Save(p), sent' = Append(sent, Saved(p))
      PROVE  SendsOnce'
  <2>1. ASSUME NEW i \in DOMAIN sent, i <= com[p].since \/ sent[i].by = p
        PROVE  \A e \in sent[i].files \cap Saved(p).files : e.f \in again
    <3>1. i <= com[p].since
      BY <1>2, <2>1 DEF OnceInv, Counted, Save
    <3>2. \A d \in com[p].files : d.v # 0
      BY <1>2 DEF Typed, ComsTyped, Phase, Save
    <3>3. \A d \in com[p].files : Sent(d) \notin sent[i].files \/ d.f \in again
      BY <3>1, <3>2 DEF OnceInv, ListedOnce, Holding, NotIn
    <3>4. QED
      BY <3>3 DEF Saved, Sent
  <2>2. /\ \A i \in DOMAIN sent' : \/ i \in DOMAIN sent /\ sent'[i] = sent[i]
                                   \/ i = Len(sent) + 1 /\ sent'[i] = Saved(p)
        /\ \A i \in DOMAIN sent' : i < Len(sent) + 1 => i \in DOMAIN sent
        /\ \A i \in DOMAIN sent : i < Len(sent) + 1
    BY <1>2, <1>t
  <2>3. Saved(p).by = p /\ Saved(p).since = com[p].since
    BY DEF Saved
  <2> SUFFICES ASSUME NEW i \in DOMAIN sent', NEW j \in DOMAIN sent', Follows(i, j)'
               PROVE  \A e \in sent'[i].files \cap sent'[j].files : e.f \in again
    BY AgainGrows DEF SendsOnce
  <2>4. i < j /\ (i <= sent'[j].since \/ sent'[i].by = sent'[j].by)
    BY DEF Follows
  <2>5. CASE j \in DOMAIN sent /\ sent'[j] = sent[j]
    <3>1. i \in DOMAIN sent /\ sent'[i] = sent[i]
      BY <1>t, <1>2, <2>4, <2>5
    <3>2. QED
      BY <2>4, <2>5, <3>1 DEF OnceInv, SendsOnce, Follows
  <2>6. CASE j = Len(sent) + 1 /\ sent'[j] = Saved(p)
    <3>1. i \in DOMAIN sent /\ sent'[i] = sent[i]
      BY <1>t, <1>2, <2>4, <2>6
    <3>2. QED
      BY <2>1, <2>3, <2>4, <2>6, <3>1
  <2>7. QED
    BY <2>2, <2>5, <2>6
<1>3. QED
  BY <1>1, <1>2, SentGrows

LEMMA OnceInvNext ==
  ASSUME "restage" \notin Races, Typed, OnceInv, [Next]_vars
  PROVE  OnceInv'
<1>1. RowVersions'
  BY RowVersionsNext DEF OnceInv
<1>2. QED
  BY <1>1, HeldDoneNext, SentDoneNext, ListedOnceNext, CountedNext, SendsOnceNext DEF OnceInv

LEMMA AlwaysOnce ==
  ASSUME "restage" \notin Races
  PROVE  Spec => []OnceInv
<1>1. Init => OnceInv
  BY DEF Init, OnceInv, RowVersions, SentDone, HeldDone, ListedOnce, Holding, Idle,
         Counted, SendsOnce, Listed
<1>2. Typed /\ OnceInv /\ [Next]_vars => OnceInv'
  BY OnceInvNext
<1>3. QED
  BY <1>1, <1>2, TypedInit, TypedNext, PTL DEF Spec

\* A commit never sends again what was sent before it, if nobody stages what was
\* committed and no file is seen again after its row was deleted: in spite of the other commits at the same time, of failures and of restarts.
THEOREM CommitsSendOnce ==
  ASSUME "restage" \notin Races
  PROVE  Spec => []SendsOnce
<1>1. OnceInv => SendsOnce
  BY DEF OnceInv
<1>2. QED
  BY <1>1, AlwaysOnce, PTL

\* So automode, which is one goroutine, never sends a version of a file twice, unless
\* the file was seen again after its row was deleted.
THEOREM AutomodeSendsOnce ==
  ASSUME "restage" \notin Races
  PROVE  Spec => [](\A i, j \in DOMAIN sent :
                      i # j /\ sent[i].by = Automode /\ sent[j].by = Automode =>
                        \A e \in sent[i].files \cap sent[j].files : e.f \in again)
<1> DEFINE AutoOnce == \A i, j \in DOMAIN sent :
             i # j /\ sent[i].by = Automode /\ sent[j].by = Automode =>
               \A e \in sent[i].files \cap sent[j].files : e.f \in again
<1>1. ASSUME Typed, SendsOnce
      PROVE  AutoOnce
  <2>1. DOMAIN sent \subseteq Int
    BY <1>1 DEF Typed, SentTyped
  <2>2. \A i, j \in DOMAIN sent : i # j => i < j \/ j < i
    BY <2>1
  <2>3. QED
    BY <1>1, <2>2 DEF SendsOnce, Follows
<1>2. Spec => []AutoOnce
  BY <1>1, CommitsSendOnce, TypedInit, TypedNext, PTL DEF Spec
<1>3. QED
  BY <1>2
=============================================================================
