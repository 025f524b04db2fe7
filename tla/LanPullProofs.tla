--------------------------- MODULE LanPullProofs ---------------------------
(***************************************************************************)
(* Proofs about LanPull, for any files, commits, pulls and number of       *)
(* writes per copy.                                                        *)
(***************************************************************************)
EXTENDS LanPull, TLAPS

\* What pullOne leaves behind when it is done with a file is well typed.
LEMMA FileDoneType ==
  ASSUME NEW s \in PullerStates, NEW bad \in BOOLEAN
  PROVE  FileDone(s, bad) \in PullerStates
  <1>1. (s.failed \/ bad) \in BOOLEAN
    OBVIOUS
  <1>2. s.todo \ {s.f} \in SUBSET Files
    BY DEF PullerStates
  <1>3. 0 \in 0..NBlocks
    BY LanPullAssumption
  <1>. QED
    BY <1>1, <1>2, <1>3 DEF FileDone, PullerStates

LEMMA IdleType == Idle \in PullerStates
  BY LanPullAssumption DEF Idle, PullerStates

\* Neither is a goroutine whose open file changes its name.
LEMMA MovedType ==
  ASSUME TypeOK, NEW q \in Pullers, NEW f \in Files,
         NEW move, move = Unlinked \/ move = Renamed
  PROVE  Moved(q, f, move) \in PullerStates
  <1>1. pl[q] \in PullerStates
    BY DEF TypeOK
  <1>2. move[pl[q].at] \in {"part", "final", "orphan"}
    BY <1>1 DEF PullerStates, Unlinked, Renamed
  <1>. QED
    BY <1>1, <1>2 DEF Moved, PullerStates

\* A goroutine that is inside Pull works on a commit, and one inside pullOne
\* on a file the commit lists.
Busy(p)   == pl[p].pc # "idle"
OnFile(p) == pl[p].pc \in {"fetch", "copy", "rename", "upsert"}

Work(p) ==
  /\ Busy(p) => pl[p].c \in Commits
  /\ Busy(p) => pl[p].todo \subseteq FilesOf(pl[p].c)
  /\ OnFile(p) => pl[p].f \in pl[p].todo

WorkOK == \A p \in Pullers : Work(p)

TypeInv == TypeOK /\ WorkOK

\* A goroutine that copies writes into a file that exists, as long as the file
\* has a name.
OpenOK == \A p \in Pullers : pl[p].pc = "copy" =>
  /\ pl[p].at = "part"  => part[pl[p].f] # NoFile
  /\ pl[p].at = "final" => final[pl[p].f] # NoFile

\* Two goroutine states that differ at most in where the open file is.
Alike(s, t) == s.pc = t.pc /\ s.c = t.c /\ s.todo = t.todo /\ s.f = t.f

LEMMA TypeInit == Init => TypeInv
  <1>. SUFFICES ASSUME Init PROVE TypeInv
    OBVIOUS
  <1>1. TypeOK
    BY IdleType, LanPullAssumption DEF Init, TypeOK, CommitStatuses
  <1>2. WorkOK
    BY DEF Init, WorkOK, Work, Idle, Busy, OnFile
  <1>. QED
    BY <1>1, <1>2 DEF TypeInv

\* What the invariant says of one goroutine.
LEMMA AtWork ==
  ASSUME TypeInv, NEW p \in Pullers
  PROVE  /\ pl[p] \in PullerStates
         /\ Busy(p) => /\ pl[p].c \in Commits
                       /\ FilesOf(pl[p].c) \subseteq Files
                       /\ Listing[pl[p].c] \in [FilesOf(pl[p].c) -> Versions]
         /\ OnFile(p) => /\ pl[p].f \in Files
                         /\ pl[p].f \in FilesOf(pl[p].c)
                         /\ Wanted(p) \in Versions
  <1>1. pl[p] \in PullerStates
    BY DEF TypeInv, TypeOK
  <1>2. Work(p)
    BY DEF TypeInv, WorkOK
  <1>3. OnFile(p) => Busy(p)
    BY DEF OnFile, Busy
  <1>. QED
    BY <1>1, <1>2, <1>3, LanPullAssumption DEF Work, Wanted

\* A step that changes the working state of one goroutine only.
LEMMA OneWorks ==
  ASSUME TypeInv, NEW p \in Pullers, Work(p)',
         \A q \in Pullers \ {p} : Alike(pl'[q], pl[q])
  PROVE  WorkOK'
  <1>. SUFFICES ASSUME NEW q \in Pullers PROVE Work(q)'
    BY DEF WorkOK
  <1>1. CASE q = p
    BY <1>1
  <1>2. CASE q # p
    BY <1>2 DEF TypeInv, WorkOK, Work, Alike, Busy, OnFile
  <1>. QED
    BY <1>1, <1>2

LEMMA MovedAlike ==
  ASSUME NEW q, NEW f, NEW move, pl[q] \in PullerStates
  PROVE  Alike(Moved(q, f, move), pl[q])
  BY DEF Moved, Alike, PullerStates

\* The row actions, and the ends and beginnings of goroutines.
LEMMA TypeRows ==
  ASSUME TypeInv,
         \/ \E c \in Commits : Announce(c) \/ Reject(c)
         \/ ClearFinished
         \/ \E p \in Hand, c \in Commits : HandlePull(p, c)
         \/ AutoStep
         \/ Crash
  PROVE  TypeInv'
  <1>1. CASE \E c \in Commits : Announce(c) \/ Reject(c)
    BY <1>1 DEF TypeInv, TypeOK, WorkOK, Work, Busy, OnFile, Announce, Reject,
                CommitStatuses
  <1>2. CASE ClearFinished
    BY <1>2 DEF TypeInv, TypeOK, WorkOK, Work, Busy, OnFile, ClearFinished,
                CommitStatuses
  <1>3. ASSUME NEW p \in Pullers, NEW c \in Commits, Enter(p, c),
               UNCHANGED <<status, part, final, row, crashes>>,
               queue' \subseteq Commits
        PROVE  TypeInv'
    <2>1. [Idle EXCEPT !.pc = "mark", !.c = c] \in PullerStates
      BY IdleType DEF PullerStates
    <2>2. TypeOK'
      BY <1>3, <2>1 DEF TypeInv, TypeOK, Enter, Become
    <2>3. pl'[p] = [Idle EXCEPT !.pc = "mark", !.c = c]
      BY <1>3 DEF TypeInv, TypeOK, Enter, Become
    <2>4. Work(p)'
      BY <2>3 DEF Work, Busy, OnFile, Idle
    <2>5. \A q \in Pullers \ {p} : Alike(pl'[q], pl[q])
      BY <1>3 DEF TypeInv, TypeOK, Enter, Become, Alike
    <2>. QED
      BY <2>2, <2>4, <2>5, OneWorks DEF TypeInv
  <1>4. CASE \E p \in Hand, c \in Commits : HandlePull(p, c)
    BY <1>4, <1>3 DEF HandlePull, Pullers, TypeInv, TypeOK
  <1>5. CASE AutoTick
    BY <1>5 DEF TypeInv, TypeOK, WorkOK, Work, Busy, OnFile, AutoTick
  <1>6. ASSUME NEW c \in Commits, AutoPull(c) PROVE TypeInv'
    <2>1. queue' \subseteq Commits
      BY <1>6 DEF AutoPull, TypeInv, TypeOK
    <2>2. CASE HasRow(c)
      BY <1>6, <2>1, <2>2, <1>3 DEF AutoPull, Pullers
    <2>3. CASE ~ HasRow(c)
      BY <1>6, <2>1, <2>3 DEF AutoPull, TypeInv, TypeOK, WorkOK, Work, Busy, OnFile
    <2>. QED
      BY <2>2, <2>3
  <1>7. CASE Crash
    <2>1. TypeOK'
      BY <1>7, IdleType, LanPullAssumption DEF Crash, TypeInv, TypeOK
    <2>2. WorkOK'
      BY <1>7 DEF Crash, WorkOK, Work, Busy, OnFile, Idle
    <2>. QED
      BY <2>1, <2>2 DEF TypeInv
  <1>. QED
    BY <1>1, <1>2, <1>4, <1>5, <1>6, <1>7 DEF AutoStep

\* The steps of Pull that leave the disk alone, or write a file and a row.
LEMMA TypePull ==
  ASSUME TypeInv, OpenOK, NEW p \in Pullers, PullStep(p)
  PROVE  TypeInv'
  <1>. DEFINE s == pl[p]
  <1>a. s \in PullerStates /\ Work(p)
    BY DEF TypeInv, TypeOK, WorkOK
  <1>b. \A q \in Pullers : pl[q] \in PullerStates
    BY DEF TypeInv, TypeOK
  \* A step that sets the state of p to t and touches no other goroutine.
  <1>c. ASSUME NEW t \in PullerStates, Become(p, t),
               status'  \in [Commits -> CommitStatuses],
               part'    \in [Files -> Content \cup {NoFile}],
               final'   \in [Files -> Content \cup {NoFile}],
               row'     \in [Files -> Versions \cup {None}],
               UNCHANGED <<queue, crashes>>,
               t.pc # "idle" => t.c = s.c /\ t.c \in Commits
                                /\ t.todo \subseteq FilesOf(t.c),
               t.pc \in {"fetch", "copy", "rename", "upsert"} => t.f \in t.todo
        PROVE  TypeInv'
    <2>1. TypeOK'
      BY <1>c DEF TypeInv, TypeOK, Become
    <2>2. pl'[p] = t /\ \A q \in Pullers \ {p} : pl'[q] = pl[q]
      BY <1>c DEF TypeInv, TypeOK, Become
    <2>3. Work(p)'
      BY <1>c, <2>2 DEF Work, Busy, OnFile
    <2>4. \A q \in Pullers \ {p} : Alike(pl'[q], pl[q])
      BY <2>2 DEF Alike
    <2>. QED
      BY <2>1, <2>3, <2>4, OneWorks DEF TypeInv
  \* The same when the others may have their open file moved.
  <1>d. ASSUME NEW t \in PullerStates, NEW f \in Files, NEW move,
               move = Unlinked \/ move = Renamed,
               pl' = [q \in Pullers |-> IF q = p THEN t ELSE Moved(q, f, move)],
               part'    \in [Files -> Content \cup {NoFile}],
               final'   \in [Files -> Content \cup {NoFile}],
               UNCHANGED <<status, queue, row, crashes>>,
               t.pc # "idle", t.c \in Commits, t.todo \subseteq FilesOf(t.c),
               t.pc \in {"fetch", "copy", "rename", "upsert"} => t.f \in t.todo
        PROVE  TypeInv'
    <2>1. pl' \in [Pullers -> PullerStates]
      BY <1>d, MovedType DEF TypeInv
    <2>2. TypeOK'
      BY <1>d, <2>1 DEF TypeInv, TypeOK
    <2>3. pl'[p] = t /\ \A q \in Pullers \ {p} : pl'[q] = Moved(q, f, move)
      BY <1>d
    <2>4. Work(p)'
      BY <1>d, <2>3 DEF Work, Busy, OnFile
    <2>5. \A q \in Pullers \ {p} : Alike(pl'[q], pl[q])
      BY <2>3, <1>b, MovedAlike
    <2>. QED
      BY <2>2, <2>4, <2>5, OneWorks DEF TypeInv
  <1>e. pl[p].pc # "idle" => /\ s.c \in Commits
                             /\ s.todo \subseteq FilesOf(s.c)
                             /\ FilesOf(s.c) \subseteq Files
    BY <1>a, AtWork DEF Work, Busy
  <1>f. OnFile(p) => s.f \in Files /\ s.f \in s.todo /\ Wanted(p) \in Versions
    BY <1>a, AtWork DEF Work
  <1>g. 0 \in 0..NBlocks
    BY LanPullAssumption
  <1>h. FileDone(s, TRUE) \in PullerStates /\ FileDone(s, FALSE) \in PullerStates
    BY <1>a, FileDoneType
  <1>i. \A bad \in BOOLEAN : /\ FileDone(s, bad).pc = "next"
                             /\ FileDone(s, bad).c = s.c
                             /\ FileDone(s, bad).todo = s.todo \ {s.f}
    BY <1>a DEF FileDone, PullerStates
  <1>. USE DEF TypeInv, TypeOK
  <1>1. CASE MarkPulling(p)
    <2>1. CASE HasRow(s.c)
      <3>. DEFINE t == [s EXCEPT !.pc = "mkdir"]
      <3>1. t \in PullerStates /\ t.pc = "mkdir" /\ t.c = s.c /\ t.todo = s.todo
        BY <1>a DEF PullerStates
      <3>2. status' \in [Commits -> CommitStatuses]
        BY <1>1, <2>1, <1>e DEF MarkPulling, CommitStatuses
      <3>3. /\ Become(p, t)
            /\ UNCHANGED <<queue, part, final, row, crashes>>
            /\ s.c \in Commits /\ s.todo \subseteq FilesOf(s.c)
        BY <1>1, <2>1, <1>e DEF MarkPulling, Goto
      <3>. QED
        BY <3>1, <3>2, <3>3, <1>c
    <2>2. CASE ~ HasRow(s.c)
      BY <1>1, <2>2, <1>c, IdleType DEF MarkPulling, Return, Idle
    <2>. QED
      BY <2>1, <2>2
  <1>2. CASE MakeDir(p)
    <2>. DEFINE t == [s EXCEPT !.pc = "next", !.todo = FilesOf(s.c)]
    <2>1. t \in PullerStates /\ t.pc = "next" /\ t.c = s.c /\ t.todo = FilesOf(s.c)
      BY <1>2, <1>a, <1>e DEF PullerStates, MakeDir
    <2>. QED
      BY <1>2, <2>1, <1>c, <1>e DEF MakeDir
  <1>3. CASE MakeDirFails(p) \/ StatusFails(p)
    BY <1>3, <1>c, IdleType DEF MakeDirFails, StatusFails, Return, Idle
  <1>4. CASE Finish(p)
    <2>1. status' \in [Commits -> CommitStatuses]
      BY <1>4 DEF Finish, Outcome, CommitStatuses
    <2>. QED
      BY <1>4, <2>1, <1>c, IdleType DEF Finish, Return, Idle
  <1>5. ASSUME NEW f \in Files, CheckDelta(p, f) PROVE TypeInv'
    <2>. DEFINE skip  == [s EXCEPT !.todo = s.todo \ {f}]
                fetch == [s EXCEPT !.pc = "fetch", !.f = f]
    <2>1. /\ skip \in PullerStates /\ skip.pc = "next" /\ skip.c = s.c
          /\ skip.todo = s.todo \ {f}
      BY <1>5, <1>a DEF PullerStates, CheckDelta
    <2>2. /\ fetch \in PullerStates /\ fetch.pc = "fetch" /\ fetch.c = s.c
          /\ fetch.todo = s.todo /\ fetch.f = f
      BY <1>5, <1>a DEF PullerStates, CheckDelta
    <2>3. Become(p, skip) \/ Become(p, fetch)
      BY <1>5 DEF CheckDelta
    <2>4. UNCHANGED <<status, queue, part, final, row, crashes>> /\ f \in s.todo
      BY <1>5 DEF CheckDelta
    <2>5. s.c \in Commits /\ s.todo \subseteq FilesOf(s.c)
      BY <1>5, <1>e DEF CheckDelta
    <2>6. CASE Become(p, skip)
      BY <2>6, <2>1, <2>4, <2>5, <1>c
    <2>7. CASE Become(p, fetch)
      BY <2>7, <2>2, <2>4, <2>5, <1>c
    <2>. QED
      BY <2>3, <2>6, <2>7
  <1>6. CASE Create(p)
    <2>. DEFINE t == [s EXCEPT !.pc = "copy", !.at = "part", !.n = 0, !.ok = TRUE]
    <2>1. /\ t \in PullerStates /\ t.pc = "copy" /\ t.c = s.c /\ t.todo = s.todo
          /\ t.f = s.f
      BY <1>a, <1>g DEF PullerStates
    <2>2. s.c \in Commits /\ s.todo \subseteq FilesOf(s.c) /\ s.f \in s.todo
      BY <1>6, <1>e, <1>f DEF Create, OnFile
    <2>3. part' \in [Files -> Content \cup {NoFile}]
      <3>1. Full(Hole) \in Content
        BY DEF Full, Content
      <3>. QED
        BY <3>1, <1>6 DEF Create
    <2>. QED
      BY <1>6, <2>1, <2>2, <2>3, <1>c DEF Create
  <1>7. CASE FetchFails(p)
    BY <1>7, <1>c, <1>e, <1>h, <1>i DEF FetchFails
  <1>8. CASE CopyBlock(p)
    <2>1. PICK v \in Versions :
            /\ Become(p, [s EXCEPT !.n = s.n + 1, !.ok = s.ok /\ v = Wanted(p)])
            /\ part'  = IF s.at = "part"  THEN [part  EXCEPT ![s.f][s.n + 1] = v]
                                          ELSE part
            /\ final' = IF s.at = "final" THEN [final EXCEPT ![s.f][s.n + 1] = v]
                                          ELSE final
      BY <1>8 DEF CopyBlock
    <2>. DEFINE t == [s EXCEPT !.n = s.n + 1, !.ok = s.ok /\ v = Wanted(p)]
    <2>2. s.n + 1 \in 0..NBlocks /\ s.n + 1 \in Blocks
      BY <1>8, <1>a, LanPullAssumption DEF CopyBlock, PullerStates, Blocks
    <2>3. (s.ok /\ v = Wanted(p)) \in BOOLEAN
      OBVIOUS
    <2>4. /\ t \in PullerStates /\ t.pc = s.pc /\ t.c = s.c /\ t.todo = s.todo
          /\ t.f = s.f
      BY <2>2, <2>3, <1>a DEF PullerStates
    <2>5. s.c \in Commits /\ s.todo \subseteq FilesOf(s.c) /\ s.f \in s.todo
          /\ s.f \in Files
      BY <1>8, <1>e, <1>f DEF CopyBlock, OnFile
    <2>a. \A x \in Content : [x EXCEPT ![s.n + 1] = v] \in Content
      BY DEF Content
    <2>b. /\ s.at = "part"  => part[s.f] \in Content
          /\ s.at = "final" => final[s.f] \in Content
      BY <1>8, <2>5 DEF CopyBlock, OpenOK
    <2>6. part' \in [Files -> Content \cup {NoFile}]
      BY <2>1, <2>5, <2>a, <2>b
    <2>7. final' \in [Files -> Content \cup {NoFile}]
      BY <2>1, <2>5, <2>a, <2>b
    <2>. QED
      BY <1>8, <2>1, <2>4, <2>5, <2>6, <2>7, <1>c DEF CopyBlock
  <1>9. ASSUME pl[p].pc \in {"copy", "rename"}, Discard(p),
               UNCHANGED <<status, queue, final, row, crashes>>
        PROVE  TypeInv'
    <2>1. s.c \in Commits /\ s.f \in Files /\ s.todo \subseteq FilesOf(s.c)
      BY <1>9, <1>e, <1>f DEF OnFile
    <2>2. part' \in [Files -> Content \cup {NoFile}]
      BY <1>9, <2>1 DEF Discard
    <2>3. pl' = [q \in Pullers |-> IF q = p THEN FileDone(s, TRUE)
                                            ELSE Moved(q, s.f, Unlinked)]
      BY <1>9 DEF Discard
    <2>. QED
      BY <1>9, <2>1, <2>2, <2>3, <1>d, <1>h, <1>i
  <1>10. CASE CopyFails(p)
    BY <1>10, <1>9 DEF CopyFails
  <1>11. CASE CheckHash(p)
    <2>1. CASE s.ok
      <3>. DEFINE t == [s EXCEPT !.pc = "rename"]
      <3>1. /\ t \in PullerStates /\ t.pc = "rename" /\ t.c = s.c
            /\ t.todo = s.todo /\ t.f = s.f
        BY <1>a DEF PullerStates
      <3>2. s.c \in Commits /\ s.todo \subseteq FilesOf(s.c) /\ s.f \in s.todo
        BY <1>11, <1>e, <1>f DEF CheckHash, OnFile
      <3>. QED
        BY <1>11, <2>1, <3>1, <3>2, <1>c DEF CheckHash, Goto
    <2>2. CASE ~ s.ok
      BY <1>11, <2>2, <1>9 DEF CheckHash
    <2>. QED
      BY <2>1, <2>2
  <1>12. CASE Rename(p)
    <2>. DEFINE t == [s EXCEPT !.pc = "upsert"]
    <2>1. /\ t \in PullerStates /\ t.pc = "upsert" /\ t.c = s.c
          /\ t.todo = s.todo /\ t.f = s.f
      BY <1>a DEF PullerStates
    <2>2. /\ s.c \in Commits /\ s.todo \subseteq FilesOf(s.c) /\ s.f \in s.todo
          /\ s.f \in Files
      BY <1>12, <1>e, <1>f DEF Rename, OnFile
    <2>3. /\ part'  \in [Files -> Content \cup {NoFile}]
          /\ final' \in [Files -> Content \cup {NoFile}]
      BY <1>12, <2>2 DEF Rename
    <2>4. pl' = [q \in Pullers |-> IF q = p THEN t ELSE Moved(q, s.f, Renamed)]
      BY <1>12 DEF Rename
    <2>5. UNCHANGED <<status, queue, row, crashes>>
      BY <1>12 DEF Rename
    <2>. QED
      BY <2>1, <2>2, <2>3, <2>4, <2>5, <1>d
  <1>13. CASE RenameFails(p)
    BY <1>13, <1>9 DEF RenameFails
  <1>14. CASE Upsert(p)
    <2>1. row' \in [Files -> Versions \cup {None}]
      BY <1>14, <1>f DEF Upsert, OnFile
    <2>. QED
      BY <1>14, <2>1, <1>c, <1>e, <1>h, <1>i DEF Upsert
  <1>15. CASE UpsertFails(p)
    BY <1>15, <1>c, <1>e, <1>h, <1>i DEF UpsertFails
  <1>. QED
    BY <1>1, <1>2, <1>3, <1>4, <1>5, <1>6, <1>7, <1>8, <1>10, <1>11, <1>12,
       <1>13, <1>14, <1>15 DEF PullStep

\* Files keep their names, or the goroutines that have them open move along.
LEMMA OpenNext ==
  ASSUME TypeInv, OpenOK, [Next]_vars
  PROVE  OpenOK'
  <1>. DEFINE Open(p) == pl[p].pc = "copy" =>
         /\ pl[p].at = "part"  => part[pl[p].f] # NoFile
         /\ pl[p].at = "final" => final[pl[p].f] # NoFile
  <1>. SUFFICES ASSUME NEW q \in Pullers PROVE Open(q)'
    BY DEF OpenOK
  <1>. USE DEF TypeInv, TypeOK
  <1>a. Open(q)
    BY DEF OpenOK
  <1>b. pl[q] \in PullerStates
    OBVIOUS
  <1>1. CASE UNCHANGED <<pl, part, final>>
    BY <1>1, <1>a
  \* A step of p that touches no file: p is not copying after it.
  <1>2. ASSUME NEW p \in Pullers, NEW t, t.pc # "copy", Become(p, t),
               UNCHANGED <<part, final>>
        PROVE  Open(q)'
    BY <1>2, <1>a DEF Become
  <1>3. CASE Crash
    BY <1>3 DEF Crash, Idle
  <1>4. ASSUME NEW p \in Pullers, Create(p) PROVE Open(q)'
    <2>1. Full(Hole) # NoFile
      BY LanPullAssumption DEF Full, Content
    <2>2. pl[p].f \in Files
      BY <1>4, AtWork DEF Create, OnFile
    <2>3. CASE q = p
      BY <1>4, <2>1, <2>2, <2>3, <1>b DEF Create, Become, PullerStates
    <2>4. CASE q # p
      BY <1>4, <2>1, <2>2, <2>4, <1>a, <1>b DEF Create, Become
    <2>. QED
      BY <2>3, <2>4
  <1>5. ASSUME NEW p \in Pullers, CopyBlock(p) PROVE Open(q)'
    <2>1. /\ pl[p].f \in Files
          /\ pl[p].n + 1 \in Blocks
          /\ pl[p].at = "part"  => part[pl[p].f] \in Content
          /\ pl[p].at = "final" => final[pl[p].f] \in Content
      <3>1. pl[p] \in PullerStates /\ pl[p].pc = "copy" /\ pl[p].f \in Files
        BY <1>5, AtWork DEF CopyBlock, OnFile
      <3>. QED
        BY <1>5, <3>1, LanPullAssumption DEF CopyBlock, OpenOK, PullerStates, Blocks
    <2>2. \A x \in Content, b \in Blocks, v \in Versions : [x EXCEPT ![b] = v] # NoFile
      BY LanPullAssumption DEF Content
    <2>3. /\ \A f \in Files : part[f] # NoFile => part'[f] # NoFile
          /\ \A f \in Files : final[f] # NoFile => final'[f] # NoFile
      BY <1>5, <2>1, <2>2 DEF CopyBlock
    <2>4. pl'[q].pc = pl[q].pc /\ pl'[q].f = pl[q].f /\ pl'[q].at = pl[q].at
      <3>1. CASE q = p
        BY <1>5, <3>1, <1>b DEF CopyBlock, Become, PullerStates
      <3>2. CASE q # p
        BY <1>5, <3>2 DEF CopyBlock, Become
      <3>. QED
        BY <3>1, <3>2
    <2>5. pl[q].pc = "copy" => pl[q].f \in Files
      BY AtWork DEF OnFile
    <2>. QED
      BY <2>3, <2>4, <2>5, <1>a
  <1>6. ASSUME NEW p \in Pullers, Discard(p), UNCHANGED final PROVE Open(q)'
    <2>1. CASE q = p
      BY <1>6, <2>1, <1>b DEF Discard, FileDone, PullerStates
    <2>2. CASE q # p
      BY <1>6, <2>2, <1>a, <1>b DEF Discard, Moved, Unlinked, PullerStates
    <2>. QED
      BY <2>1, <2>2
  <1>7. ASSUME NEW p \in Pullers, Rename(p) PROVE Open(q)'
    <2>1. pl[p].f \in Files /\ part[pl[p].f] # NoFile
      BY <1>7, AtWork DEF Rename, OnFile
    <2>2. CASE q = p
      BY <1>7, <2>2, <1>b DEF Rename, PullerStates
    <2>3. CASE q # p
      BY <1>7, <2>1, <2>3, <1>a, <1>b DEF Rename, Moved, Renamed, PullerStates
    <2>. QED
      BY <2>2, <2>3
  \* The new state of p in the remaining steps is not a copying one.
  <1>8. ASSUME NEW p \in Pullers, NEW pc, pc # "copy", Goto(p, pc),
               UNCHANGED <<part, final>>
        PROVE  Open(q)'
    <2>1. [pl[p] EXCEPT !.pc = pc].pc # "copy"
      BY <1>8 DEF PullerStates
    <2>. QED
      BY <1>8, <2>1, <1>2 DEF Goto
  <1>9. ASSUME NEW p \in Pullers, Return(p), UNCHANGED <<part, final>>
        PROVE  Open(q)'
    BY <1>9, <1>2 DEF Return, Idle
  <1>10. ASSUME NEW p \in Pullers, NEW c, Enter(p, c), UNCHANGED <<part, final>>
         PROVE  Open(q)'
    BY <1>10, <1>2 DEF Enter, Idle
  <1>11. ASSUME NEW p \in Pullers, NEW bad, Become(p, FileDone(pl[p], bad)),
                UNCHANGED <<part, final>>
         PROVE  Open(q)'
    <2>1. FileDone(pl[p], bad).pc # "copy"
      BY DEF FileDone, PullerStates
    <2>. QED
      BY <1>11, <2>1, <1>2
  <1>12. ASSUME NEW p \in Pullers, PullStep(p) PROVE Open(q)'
    <2>1. CASE MarkPulling(p)
      BY <2>1, <1>8, <1>9 DEF MarkPulling
    <2>2. CASE MakeDir(p)
      <3>1. [pl[p] EXCEPT !.pc = "next", !.todo = FilesOf(pl[p].c)].pc # "copy"
        BY DEF PullerStates
      <3>. QED
        BY <2>2, <3>1, <1>2 DEF MakeDir
    <2>3. CASE MakeDirFails(p) \/ StatusFails(p) \/ Finish(p)
      BY <2>3, <1>9 DEF MakeDirFails, StatusFails, Finish
    <2>4. ASSUME NEW f \in Files, CheckDelta(p, f) PROVE Open(q)'
      <3>1. /\ [pl[p] EXCEPT !.todo = pl[p].todo \ {f}].pc # "copy"
            /\ [pl[p] EXCEPT !.pc = "fetch", !.f = f].pc # "copy"
        BY <2>4 DEF CheckDelta, PullerStates
      <3>. QED
        BY <2>4, <3>1, <1>2 DEF CheckDelta
    <2>5. CASE FetchFails(p) \/ Upsert(p) \/ UpsertFails(p)
      BY <2>5, <1>11 DEF FetchFails, Upsert, UpsertFails
    <2>6. CASE CopyFails(p) \/ RenameFails(p)
      BY <2>6, <1>6 DEF CopyFails, RenameFails
    <2>7. CASE CheckHash(p)
      BY <2>7, <1>6, <1>8 DEF CheckHash
    <2>. QED
      BY <1>12, <1>4, <1>5, <1>7, <2>1, <2>2, <2>3, <2>4, <2>5, <2>6, <2>7
         DEF PullStep
  <1>13. CASE \E p \in Hand, c \in Commits : HandlePull(p, c)
    BY <1>13, <1>10 DEF HandlePull, Pullers
  <1>14. CASE AutoStep
    BY <1>14, <1>1, <1>10 DEF AutoStep, AutoTick, AutoPull, Pullers
  <1>15. CASE ClearFinished \/ \E c \in Commits : Announce(c) \/ Reject(c)
    BY <1>15, <1>1 DEF ClearFinished, Announce, Reject
  <1>. QED
    BY <1>1, <1>3, <1>12, <1>13, <1>14, <1>15 DEF Next, vars

LEMMA TypeNext ==
  ASSUME TypeInv, OpenOK, [Next]_vars
  PROVE  TypeInv'
  <1>1. CASE UNCHANGED vars
    BY <1>1 DEF vars, TypeInv, TypeOK, WorkOK, Work, Busy, OnFile
  <1>2. CASE \E p \in Pullers : PullStep(p)
    BY <1>2, TypePull
  <1>3. CASE Next /\ ~ \E p \in Pullers : PullStep(p)
    BY <1>3, TypeRows DEF Next
  <1>. QED
    BY <1>1, <1>2, <1>3

\* Every variable keeps its type, whatever the pulls, the faults and the
\* crashes: in particular a write never goes to a file that is not there.
THEOREM TypeCorrect == Spec => []TypeOK
  <1>1. Init => TypeInv /\ OpenOK
    BY TypeInit DEF Init, OpenOK, Idle
  <1>2. TypeInv /\ OpenOK /\ [Next]_vars => (TypeInv /\ OpenOK)'
    BY TypeNext, OpenNext
  <1>3. TypeInv => TypeOK
    BY DEF TypeInv
  <1>. QED
    BY <1>1, <1>2, <1>3, PTL DEF Spec

(***************************************************************************)
(* Pulls that never write the same file at the same time only ever expose  *)
(* whole files.  The strengthening says what the .part of a copy in        *)
(* progress holds: as long as the stream has matched the announced version *)
(* (ok), the first n blocks are that version's.                            *)
(***************************************************************************)
Sound(p) ==
  /\ pl[p].pc = "copy" =>
       /\ pl[p].at = "part"
       /\ pl[p].ok => \A b \in 1..pl[p].n : part[pl[p].f][b] = Wanted(p)
  /\ pl[p].pc = "rename" => part[pl[p].f] = Full(Wanted(p))

PartSound == \A p \in Pullers : Sound(p)

\* A goroutine never pulls a commit that was not announced.
PullsAnnounced ==
  /\ \A p \in Pullers : pl[p].pc # "idle" => status[pl[p].c] # "none"
  /\ \A c \in queue : status[c] # "none"

\* A commit that was announced stays so.
LEMMA StillAnnounced ==
  ASSUME TypeInv, [Next]_vars, NEW c \in Commits, status[c] # "none"
  PROVE  status'[c] # "none"
  <1>. USE DEF TypeInv, TypeOK
  <1>1. CASE status' = status
    BY <1>1
  <1>2. CASE \E d \in Commits : Announce(d) \/ Reject(d)
    BY <1>2 DEF Announce, Reject
  <1>3. CASE ClearFinished
    BY <1>3 DEF ClearFinished
  <1>4. CASE \E p \in Pullers : MarkPulling(p)
    BY <1>4 DEF MarkPulling
  <1>5. CASE \E p \in Pullers : Finish(p)
    BY <1>5 DEF Finish, Outcome
  <1>. QED
    BY <1>1, <1>2, <1>3, <1>4, <1>5
    DEF Next, vars, HandlePull, AutoStep, AutoTick, AutoPull, PullStep, MakeDir,
        MakeDirFails, CheckDelta, Create, FetchFails, CopyBlock, CopyFails,
        CheckHash, Rename, RenameFails, Upsert, UpsertFails, StatusFails, Crash

\* A step of Pull leaves the queue of automode alone.
LEMMA PullFrame ==
  ASSUME NEW p \in Pullers, PullStep(p)
  PROVE  UNCHANGED <<queue, crashes>> /\ pl[p].pc # "idle"
  BY DEF PullStep, MarkPulling, MakeDir, MakeDirFails, CheckDelta, Create,
         FetchFails, CopyBlock, CopyFails, CheckHash, Rename, RenameFails,
         Upsert, UpsertFails, StatusFails, Finish

\* The commit of a goroutine changes only when it starts on another one.
LEMMA SameCommit ==
  ASSUME TypeInv, [Next]_vars, NEW q \in Pullers
  PROVE  \/ pl'[q].pc = "idle"
         \/ pl[q].pc = "idle" /\ HasRow(pl'[q].c) /\ pl'[q].c \in Commits
         \/ pl[q].pc # "idle" /\ pl'[q].c = pl[q].c
  <1>. DEFINE Goal == \/ pl'[q].pc = "idle"
                      \/ pl[q].pc = "idle" /\ HasRow(pl'[q].c) /\ pl'[q].c \in Commits
                      \/ pl[q].pc # "idle" /\ pl'[q].c = pl[q].c
  <1>. USE DEF TypeInv, TypeOK
  <1>a. pl[q] \in PullerStates
    OBVIOUS
  <1>b. \A r \in Pullers : \A f, move : Alike(Moved(r, f, move), pl[r])
    BY MovedAlike
  <1>1. CASE UNCHANGED pl
    BY <1>1
  <1>2. ASSUME NEW p \in Pullers, NEW c \in Commits, pl[p].pc = "idle",
               HasRow(c), Enter(p, c)
        PROVE  Goal
    <2>1. CASE q = p
      BY <1>2, <2>1 DEF Enter, Become, Idle
    <2>2. CASE q # p
      BY <1>2, <2>2 DEF Enter, Become
    <2>. QED
      BY <2>1, <2>2
  <1>3. ASSUME NEW p \in Pullers, NEW t, Become(p, t), pl[p].pc # "idle",
               t.pc = "idle" \/ t.c = pl[p].c
        PROVE  Goal
    <2>1. CASE q = p
      BY <1>3, <2>1 DEF Become
    <2>2. CASE q # p
      BY <1>3, <2>2 DEF Become
    <2>. QED
      BY <2>1, <2>2
  <1>4. ASSUME NEW p \in Pullers, pl[p].pc # "idle", pl'[p].c = pl[p].c,
               \A r \in Pullers \ {p} : Alike(pl'[r], pl[r])
        PROVE  Goal
    <2>1. CASE q = p
      BY <1>4, <2>1
    <2>2. CASE q # p
      BY <1>4, <2>2 DEF Alike
    <2>. QED
      BY <2>1, <2>2
  <1>5. ASSUME NEW p \in Pullers, PullStep(p) PROVE Goal
    <2>. DEFINE s == pl[p]
    <2>a. s.pc # "idle" /\ s \in PullerStates
      BY <1>5, PullFrame
    <2>b. \A bad : FileDone(s, bad).c = s.c
      BY <2>a DEF FileDone, PullerStates
    <2>c. ASSUME Return(p) PROVE Goal
      BY <2>a, <2>c, <1>3 DEF Return, Idle
    <2>d. ASSUME NEW pc, Goto(p, pc) PROVE Goal
      <3>1. [s EXCEPT !.pc = pc].c = s.c
        BY <2>a DEF PullerStates
      <3>. QED
        BY <2>a, <2>d, <3>1, <1>3 DEF Goto
    <2>e. ASSUME Discard(p) PROVE Goal
      <3>1. pl'[p] = FileDone(s, TRUE)
        BY <2>e DEF Discard
      <3>2. \A r \in Pullers \ {p} : pl'[r] = Moved(r, s.f, Unlinked)
        BY <2>e DEF Discard
      <3>3. pl'[p].c = pl[p].c
        BY <2>b, <3>1
      <3>4. \A r \in Pullers \ {p} : Alike(pl'[r], pl[r])
        BY <3>2, <1>b
      <3>. QED
        BY <2>a, <3>3, <3>4, <1>4
    <2>1. CASE MarkPulling(p) \/ MakeDirFails(p) \/ StatusFails(p) \/ Finish(p)
      BY <2>1, <2>c, <2>d DEF MarkPulling, MakeDirFails, StatusFails, Finish
    <2>2. CASE MakeDir(p)
      <3>1. [s EXCEPT !.pc = "next", !.todo = FilesOf(s.c)].c = s.c
        BY <2>a DEF PullerStates
      <3>. QED
        BY <2>2, <2>a, <3>1, <1>3 DEF MakeDir
    <2>3. ASSUME NEW f \in Files, CheckDelta(p, f) PROVE Goal
      <3>1. /\ [s EXCEPT !.todo = s.todo \ {f}].c = s.c
            /\ [s EXCEPT !.pc = "fetch", !.f = f].c = s.c
        BY <2>a DEF PullerStates
      <3>. QED
        BY <2>3, <2>a, <3>1, <1>3 DEF CheckDelta
    <2>4. CASE Create(p)
      <3>1. [s EXCEPT !.pc = "copy", !.at = "part", !.n = 0, !.ok = TRUE].c = s.c
        BY <2>a DEF PullerStates
      <3>. QED
        BY <2>4, <2>a, <3>1, <1>3 DEF Create
    <2>5. CASE FetchFails(p) \/ Upsert(p) \/ UpsertFails(p)
      BY <2>5, <2>a, <2>b, <1>3 DEF FetchFails, Upsert, UpsertFails
    <2>6. CASE CopyBlock(p)
      <3>1. \A n, ok : [s EXCEPT !.n = n, !.ok = ok].c = s.c
        BY <2>a DEF PullerStates
      <3>2. \E n, ok : Become(p, [s EXCEPT !.n = n, !.ok = ok])
        BY <2>6 DEF CopyBlock
      <3>. QED
        BY <3>1, <3>2, <2>a, <1>3
    <2>7. CASE CopyFails(p) \/ CheckHash(p) \/ RenameFails(p)
      BY <2>7, <2>d, <2>e DEF CopyFails, CheckHash, RenameFails
    <2>8. CASE Rename(p)
      <3>1. [s EXCEPT !.pc = "upsert"].c = s.c
        BY <2>a DEF PullerStates
      <3>2. pl'[p] = [s EXCEPT !.pc = "upsert"]
        BY <2>8 DEF Rename
      <3>3. \A r \in Pullers \ {p} : pl'[r] = Moved(r, s.f, Renamed)
        BY <2>8 DEF Rename
      <3>4. pl'[p].c = pl[p].c
        BY <3>1, <3>2
      <3>5. \A r \in Pullers \ {p} : Alike(pl'[r], pl[r])
        BY <3>3, <1>b
      <3>. QED
        BY <2>a, <3>4, <3>5, <1>4
    <2>. QED
      BY <1>5, <2>1, <2>2, <2>3, <2>4, <2>5, <2>6, <2>7, <2>8 DEF PullStep
  <1>6. CASE \E p \in Hand, c \in Commits : HandlePull(p, c)
    BY <1>6, <1>2 DEF HandlePull, Pullers
  <1>7. CASE AutoStep
    <2>1. CASE AutoTick
      BY <2>1, <1>1 DEF AutoTick
    <2>2. ASSUME NEW c \in Commits, AutoPull(c) PROVE Goal
      BY <2>2, <1>1, <1>2 DEF AutoPull, Pullers
    <2>. QED
      BY <1>7, <2>1, <2>2 DEF AutoStep
  <1>8. CASE Crash
    BY <1>8 DEF Crash, Idle
  <1>9. CASE UNCHANGED vars \/ ClearFinished \/ \E c \in Commits : Announce(c) \/ Reject(c)
    BY <1>9, <1>1 DEF vars, ClearFinished, Announce, Reject
  <1>. QED
    BY <1>5, <1>6, <1>7, <1>8, <1>9 DEF Next

LEMMA AnnouncedNext ==
  ASSUME TypeInv, OpenOK, PullsAnnounced, [Next]_vars
  PROVE  PullsAnnounced'
  <1>1. \A c \in Commits : status[c] # "none" => status'[c] # "none"
    BY StillAnnounced
  <1>2. queue' \subseteq Commits /\ \A c \in queue' : status[c] # "none"
    <2>. USE DEF TypeInv, TypeOK, PullsAnnounced
    <2>1. CASE UNCHANGED queue
      BY <2>1
    <2>2. CASE AutoStep
      BY <2>2 DEF AutoStep, AutoTick, AutoPull
    <2>3. CASE Crash
      BY <2>3 DEF Crash
    <2>4. CASE \E p \in Pullers : PullStep(p)
      BY <2>4, <2>1, PullFrame
    <2>. QED
      BY <2>1, <2>2, <2>3, <2>4
      DEF Next, vars, Announce, Reject, ClearFinished, HandlePull
  <1>3. ASSUME NEW q \in Pullers, pl'[q].pc # "idle"
        PROVE  pl'[q].c \in Commits /\ status[pl'[q].c] # "none"
    <2>1. CASE pl[q].pc # "idle" /\ pl'[q].c = pl[q].c
      BY <2>1, AtWork DEF Busy, PullsAnnounced
    <2>2. CASE HasRow(pl'[q].c) /\ pl'[q].c \in Commits
      BY <2>2 DEF HasRow
    <2>. QED
      BY <1>3, <2>1, <2>2, SameCommit
  <1>. QED
    BY <1>1, <1>2, <1>3 DEF PullsAnnounced

\* Another goroutine that writes, before or after the step, writes another file
\* than the one p writes.
LEMMA Apart ==
  ASSUME NoOverlap, NEW p \in Pullers, NEW q \in Pullers, q # p,
         Writing(p), Writing(q)
  PROVE  pl[q].f # pl[p].f
  BY DEF NoOverlap

LEMMA SoundNext ==
  ASSUME TypeInv, OpenOK, PartSound, NoOverlap, Next \/ UNCHANGED vars, NoOverlap'
  PROVE  PartSound'
  <1>. SUFFICES ASSUME NEW q \in Pullers PROVE Sound(q)'
    BY DEF PartSound
  <1>. USE DEF TypeInv, TypeOK
  <1>a. pl[q] \in PullerStates /\ Sound(q)
    BY DEF PartSound
  <1>b. pl[q].pc \in {"copy", "rename"} =>
          pl[q].f \in Files /\ Wanted(q) \in Versions
    BY AtWork DEF OnFile
  \* The goroutine and its .part are as they were.
  <1>1. ASSUME pl'[q] = pl[q], pl[q].pc \in {"copy", "rename"} => part'[pl[q].f] = part[pl[q].f]
        PROVE  Sound(q)'
    BY <1>1, <1>a DEF Sound, Wanted
  \* The goroutine is not between os.Create and os.Rename after the step.
  <1>2. ASSUME pl'[q].pc \notin {"copy", "rename"} PROVE Sound(q)'
    BY <1>2 DEF Sound
  <1>3. ASSUME NEW p \in Pullers, NEW t, Become(p, t),
               t.pc \notin {"copy", "rename"}, UNCHANGED part
        PROVE  Sound(q)'
    <2>1. CASE q = p
      BY <1>3, <2>1, <1>2 DEF Become
    <2>2. CASE q # p
      BY <1>3, <2>2, <1>1 DEF Become
    <2>. QED
      BY <2>1, <2>2
  <1>4. ASSUME NEW p \in Pullers, Create(p) PROVE Sound(q)'
    <2>. DEFINE t == [pl[p] EXCEPT !.pc = "copy", !.at = "part", !.n = 0, !.ok = TRUE]
    <2>1. t.pc = "copy" /\ t.at = "part" /\ t.n = 0 /\ t.f = pl[p].f
      BY DEF PullerStates
    <2>2. CASE q = p
      <3>1. pl'[q] = t
        BY <1>4, <2>2 DEF Create, Become
      <3>. QED
        BY <3>1, <2>1 DEF Sound
    <2>3. CASE q # p
      <3>1. pl'[q] = pl[q] /\ pl'[p] = t
        BY <1>4, <2>3 DEF Create, Become
      <3>a. pl'[p].pc = "copy" /\ pl'[p].f = pl[p].f
        BY <3>1, <2>1
      <3>2. pl[q].pc \in {"copy", "rename"} => pl[q].f # pl[p].f
        BY <3>1, <3>a, <2>3 DEF NoOverlap, Writing
      <3>3. pl[q].pc \in {"copy", "rename"} => part'[pl[q].f] = part[pl[q].f]
        BY <1>4, <3>2, <1>b DEF Create
      <3>. QED
        BY <3>1, <3>3, <1>1
    <2>. QED
      BY <2>2, <2>3
  <1>5. ASSUME NEW p \in Pullers, CopyBlock(p) PROVE Sound(q)'
    <2>. DEFINE s == pl[p]
                t(v) == [s EXCEPT !.n = s.n + 1, !.ok = s.ok /\ v = Wanted(p)]
    <2>1. s.at = "part" /\ s.f \in Files /\ s \in PullerStates /\ s.n \in Nat
      BY <1>5, AtWork, LanPullAssumption
      DEF CopyBlock, PartSound, Sound, OnFile, PullerStates
    <2>2. PICK v \in Versions :
            Become(p, t(v)) /\ part' = [part EXCEPT ![s.f][s.n + 1] = v]
      BY <1>5, <2>1 DEF CopyBlock
    <2>3. CASE q = p
      <3>1. /\ pl'[q].pc = "copy" /\ pl'[q].at = "part" /\ pl'[q].f = s.f
            /\ pl'[q].c = s.c /\ pl'[q].n = s.n + 1
            /\ pl'[q].ok = (s.ok /\ v = Wanted(p))
        BY <1>5, <2>1, <2>2, <2>3 DEF CopyBlock, Become, PullerStates
      <3>2. part[s.f] \in Content /\ s.n + 1 \in Blocks
        BY <1>5, <2>1, LanPullAssumption
        DEF CopyBlock, OpenOK, Blocks
      <3>3. /\ part'[s.f][s.n + 1] = v
            /\ \A b \in 1..s.n : part'[s.f][b] = part[s.f][b]
        BY <2>1, <2>2, <3>2, LanPullAssumption DEF Content, Blocks
      <3>4. s.ok => \A b \in 1..s.n : part[s.f][b] = Wanted(p)
        BY <1>5 DEF PartSound, Sound, CopyBlock
      <3>5. Wanted(q)' = Wanted(p)
        BY <3>1 DEF Wanted
      <3>6. pl'[q].ok => \A b \in 1..(s.n + 1) : part'[s.f][b] = Wanted(p)
        <4>1. pl'[q].ok => s.ok /\ v = Wanted(p)
          BY <3>1
        <4>2. \A b \in 1..(s.n + 1) : b \in 1..s.n \/ b = s.n + 1
          BY <2>1
        <4>. QED
          BY <3>3, <3>4, <4>1, <4>2
      <3>. QED
        BY <3>1, <3>5, <3>6 DEF Sound
    <2>4. CASE q # p
      <3>1. pl'[q] = pl[q]
        BY <2>2, <2>4 DEF Become
      <3>2. pl[q].pc \in {"copy", "rename"} => pl[q].f # s.f
        BY <1>5, <2>4, Apart DEF CopyBlock, Writing
      <3>. QED
        BY <2>1, <2>2, <3>1, <3>2, <1>b, <1>1
    <2>. QED
      BY <2>3, <2>4
  \* p lets its .part go.
  <1>6. ASSUME NEW p \in Pullers, pl[p].pc \in {"copy", "rename"}, NEW t, NEW move,
               t.pc \notin {"copy", "rename"},
               pl' = [r \in Pullers |-> IF r = p THEN t ELSE Moved(r, pl[p].f, move)],
               part' = [part EXCEPT ![pl[p].f] = NoFile]
        PROVE  Sound(q)'
    <2>1. CASE q = p
      BY <1>6, <2>1, <1>2
    <2>2. CASE q # p
      <3>1. pl[q].pc \in {"copy", "rename"} => pl[q].f # pl[p].f
        BY <1>6, <2>2, Apart DEF Writing
      <3>2. pl'[q] = pl[q]
        BY <1>6, <2>2, <3>1 DEF Moved
      <3>3. pl[q].pc \in {"copy", "rename"} => part'[pl[q].f] = part[pl[q].f]
        BY <1>6, <3>1, <1>b
      <3>. QED
        BY <3>2, <3>3, <1>1
    <2>. QED
      BY <2>1, <2>2
  <1>7. ASSUME NEW p \in Pullers, PullStep(p) PROVE Sound(q)'
    <2>. DEFINE s == pl[p]
    <2>a. s \in PullerStates
      OBVIOUS
    <2>b. \A bad : FileDone(s, bad).pc = "next"
      BY DEF FileDone, PullerStates
    <2>c. ASSUME Return(p), UNCHANGED part PROVE Sound(q)'
      BY <2>c, <1>3 DEF Return, Idle
    <2>d. ASSUME Discard(p), s.pc \in {"copy", "rename"} PROVE Sound(q)'
      <3>1. pl' = [r \in Pullers |-> IF r = p THEN FileDone(s, TRUE)
                                              ELSE Moved(r, s.f, Unlinked)]
        BY <2>d DEF Discard
      <3>2. part' = [part EXCEPT ![s.f] = NoFile]
        BY <2>d DEF Discard
      <3>3. FileDone(s, TRUE).pc \notin {"copy", "rename"}
        BY <2>b
      <3>. QED
        BY <2>d, <3>1, <3>2, <3>3, <1>6
    <2>1. CASE MarkPulling(p)
      <3>1. [s EXCEPT !.pc = "mkdir"].pc = "mkdir"
        BY <2>a DEF PullerStates
      <3>. QED
        BY <2>1, <2>c, <3>1, <1>3 DEF MarkPulling, Goto
    <2>2. CASE MakeDir(p)
      <3>1. [s EXCEPT !.pc = "next", !.todo = FilesOf(s.c)].pc = "next"
        BY <2>a DEF PullerStates
      <3>. QED
        BY <2>2, <3>1, <1>3 DEF MakeDir
    <2>3. CASE MakeDirFails(p) \/ StatusFails(p) \/ Finish(p)
      BY <2>3, <2>c DEF MakeDirFails, StatusFails, Finish
    <2>4. ASSUME NEW f \in Files, CheckDelta(p, f) PROVE Sound(q)'
      <3>1. /\ [s EXCEPT !.todo = s.todo \ {f}].pc = "next"
            /\ [s EXCEPT !.pc = "fetch", !.f = f].pc = "fetch"
        BY <2>4, <2>a DEF CheckDelta, PullerStates
      <3>. QED
        BY <2>4, <3>1, <1>3 DEF CheckDelta
    <2>5. CASE FetchFails(p) \/ Upsert(p) \/ UpsertFails(p)
      BY <2>5, <2>b, <1>3 DEF FetchFails, Upsert, UpsertFails
    <2>6. CASE CopyFails(p) \/ RenameFails(p)
      BY <2>6, <2>d DEF CopyFails, RenameFails
    <2>7. CASE CheckHash(p) /\ ~ s.ok
      BY <2>7, <2>d DEF CheckHash
    <2>8. CASE CheckHash(p) /\ s.ok
      <3>1. UNCHANGED part /\ Become(p, [s EXCEPT !.pc = "rename"])
        BY <2>8 DEF CheckHash, Goto
      <3>2. CASE q # p
        BY <3>1, <3>2, <1>1 DEF Become
      <3>3. CASE q = p
        <4>1. /\ pl'[q].pc = "rename" /\ pl'[q].f = s.f /\ pl'[q].c = s.c
          BY <3>1, <3>3, <2>a DEF Become, PullerStates
        <4>2. part[s.f] \in Content /\ \A b \in Blocks : part[s.f][b] = Wanted(p)
          BY <2>8, <3>3, <1>a, <1>b DEF CheckHash, Sound, OpenOK, Blocks
        <4>3. part[s.f] = Full(Wanted(p))
          BY <4>2 DEF Content, Full
        <4>. QED
          BY <3>1, <4>1, <4>3 DEF Sound, Wanted
      <3>. QED
        BY <3>2, <3>3
    <2>9. CASE Rename(p)
      <3>. DEFINE t == [s EXCEPT !.pc = "upsert"]
      <3>1. pl' = [r \in Pullers |-> IF r = p THEN t ELSE Moved(r, s.f, Renamed)]
        BY <2>9 DEF Rename
      <3>2. part' = [part EXCEPT ![s.f] = NoFile] /\ s.pc = "rename"
        BY <2>9 DEF Rename
      <3>3. t.pc \notin {"copy", "rename"}
        BY <2>a DEF PullerStates
      <3>. HIDE DEF t
      <3>. QED
        BY <3>1, <3>2, <3>3, <1>6
    <2>. QED
      BY <1>7, <1>4, <1>5, <2>1, <2>2, <2>3, <2>4, <2>5, <2>6, <2>7, <2>8, <2>9
         DEF PullStep, CheckHash
  <1>8. ASSUME NEW p \in Pullers, NEW c, Enter(p, c), UNCHANGED part
        PROVE  Sound(q)'
    BY <1>8, <1>3 DEF Enter, Idle
  <1>9. CASE \E p \in Hand, c \in Commits : HandlePull(p, c)
    BY <1>9, <1>8 DEF HandlePull, Pullers
  <1>10. CASE AutoStep
    BY <1>10, <1>1, <1>8 DEF AutoStep, AutoTick, AutoPull, Pullers
  <1>11. CASE Crash
    BY <1>11, <1>2 DEF Crash, Idle
  <1>12. CASE UNCHANGED vars \/ ClearFinished \/ \E c \in Commits : Announce(c) \/ Reject(c)
    BY <1>12, <1>1 DEF vars, ClearFinished, Announce, Reject
  <1>. QED
    BY <1>7, <1>9, <1>10, <1>11, <1>12 DEF Next

\* Only a rename puts a file where Avid sees it, and what it puts there is whole.
LEMMA WholeNext ==
  ASSUME TypeInv, OpenOK, PartSound, PullsAnnounced, FinalNeverTorn, [Next]_vars
  PROVE  FinalNeverTorn'
  <1>. DEFINE Whole(f) == \E c \in Commits : /\ status[c] # "none"
                                             /\ f \in FilesOf(c)
                                             /\ final[f] = Full(Listing[c][f])
  <1>. SUFFICES ASSUME NEW f \in Files, final'[f] # NoFile PROVE Whole(f)'
    BY DEF FinalNeverTorn
  <1>a. \A c \in Commits : status[c] # "none" => status'[c] # "none"
    BY StillAnnounced
  <1>1. CASE final'[f] = final[f]
    BY <1>1, <1>a DEF FinalNeverTorn
  <1>2. ASSUME NEW p \in Pullers, Rename(p), pl[p].f = f PROVE Whole(f)'
    <2>1. pl[p].c \in Commits /\ f \in FilesOf(pl[p].c) /\ status[pl[p].c] # "none"
      BY <1>2, AtWork DEF Rename, Busy, OnFile, PullsAnnounced
    <2>2. final'[f] = Full(Listing[pl[p].c][f])
      BY <1>2 DEF Rename, PartSound, Sound, Wanted, TypeInv, TypeOK
    <2>. QED
      BY <2>1, <2>2, <1>a
  <1>3. ASSUME NEW p \in Pullers, Rename(p), pl[p].f # f PROVE final'[f] = final[f]
    BY <1>3 DEF Rename
  <1>4. ASSUME NEW p \in Pullers, CopyBlock(p) PROVE final'[f] = final[f]
    BY <1>4 DEF CopyBlock, PartSound, Sound
  <1>5. CASE UNCHANGED final
    BY <1>5, <1>1
  <1>. QED
    BY <1>1, <1>2, <1>3, <1>4, <1>5
    DEF Next, vars, Announce, Reject, ClearFinished, HandlePull, AutoStep,
        AutoTick, AutoPull, PullStep, MarkPulling, MakeDir, MakeDirFails,
        CheckDelta, Create, FetchFails, CopyFails, CheckHash, RenameFails,
        Upsert, UpsertFails, StatusFails, Finish, Crash

\* If no two pulls ever write the same file at the same time, then every file
\* Avid can see is whole and announced, through faults, hash mismatches,
\* rejections and crashes at any point.
THEOREM ExclusiveNeverTorn == ExclusiveSpec => []FinalNeverTorn
  <1>. DEFINE IInv == /\ TypeInv /\ OpenOK /\ PartSound /\ PullsAnnounced
                      /\ NoOverlap /\ FinalNeverTorn
  <1>1. Init => IInv
    BY TypeInit DEF Init, Idle, OpenOK, PartSound, Sound, PullsAnnounced,
                    NoOverlap, Writing, FinalNeverTorn
  <1>2. IInv /\ [Next /\ NoOverlap']_vars => IInv'
    <2>. SUFFICES ASSUME IInv, [Next /\ NoOverlap']_vars PROVE IInv'
      OBVIOUS
    <2>1. [Next]_vars
      OBVIOUS
    <2>2. NoOverlap'
      BY DEF vars, NoOverlap, Writing
    <2>. QED
      BY <2>1, <2>2, TypeNext, OpenNext, SoundNext, AnnouncedNext, WholeNext
  <1>3. IInv => FinalNeverTorn
    OBVIOUS
  <1>. QED
    BY <1>1, <1>2, <1>3, PTL DEF ExclusiveSpec

\* In particular: pulls that all come from automode, which runs them one by one.
COROLLARY SerialNeverTorn ==
  ASSUME Hand = {}
  PROVE  Spec => []FinalNeverTorn
  <1>1. NoOverlap'
    BY DEF NoOverlap, Pullers
  <1>2. Spec => ExclusiveSpec
    <2>1. [Next]_vars => [Next /\ NoOverlap']_vars
      BY <1>1
    <2>. QED
      BY <2>1, PTL DEF Spec, ExclusiveSpec
  <1>. QED
    BY <1>2, ExclusiveNeverTorn, PTL

(***************************************************************************)
(* Pulls that do run at the same time: no strengthening beyond the types   *)
(* is needed for what survives.                                            *)
(***************************************************************************)

\* p is between os.Create and os.Rename (or os.Remove) of f.part.
Holds(p, f) == pl[p].pc \in {"copy", "rename"} /\ pl[p].f = f

\* A step that creates no .part leaves none that nobody holds any more.
LEMMA NoLeftoverStep ==
  ASSUME NoLeftoverPart, NEW f \in Files, crashes' = crashes, crashes' = 0,
         part'[f] = part[f], \A q \in Pullers : Holds(q, f) => Holds(q, f)',
         \A q \in Pullers : ~ Holds(q, f)'
  PROVE  part'[f] = NoFile
  BY DEF NoLeftoverPart, Holds

\* Who holds the .part of a file changes only when it is discarded or renamed.
LEMMA NoLeftoverNext ==
  ASSUME TypeInv, NoLeftoverPart, [Next]_vars
  PROVE  NoLeftoverPart'
  <1>. SUFFICES ASSUME crashes' = 0, NEW f \in Files,
                       \A q \in Pullers : ~ Holds(q, f)'
                PROVE  part'[f] = NoFile
    BY DEF NoLeftoverPart, Holds
  <1>. DEFINE Goal == part'[f] = NoFile
  <1>. USE DEF TypeInv, TypeOK
  <1>a. \A q \in Pullers : pl[q] \in PullerStates
    OBVIOUS
  <1>1. CASE UNCHANGED <<pl, part, crashes>>
    BY <1>1, NoLeftoverStep DEF Holds
  \* p did not hold the .part of f, and no .part is written.
  <1>2. ASSUME NEW p \in Pullers, ~ Holds(p, f), NEW t, Become(p, t),
               part'[f] = part[f], crashes' = crashes
        PROVE  Goal
    <2>1. \A q \in Pullers : Holds(q, f) => Holds(q, f)'
      BY <1>2 DEF Holds, Become
    <2>. QED
      BY <1>2, <2>1, NoLeftoverStep
  <1>3. ASSUME NEW p \in Pullers, Create(p) PROVE Goal
    <2>1. pl'[p].pc = "copy" /\ pl'[p].f = pl[p].f
      BY <1>3, <1>a DEF Create, Become, PullerStates
    <2>2. pl[p].f # f
      BY <2>1 DEF Holds
    <2>. QED
      BY <1>3, <2>2, <1>2 DEF Create, Holds
  <1>4. ASSUME NEW p \in Pullers, CopyBlock(p) PROVE Goal
    <2>1. /\ Alike(pl'[p], pl[p]) /\ pl[p].pc = "copy"
          /\ \A q \in Pullers \ {p} : pl'[q] = pl[q]
      BY <1>4, <1>a DEF CopyBlock, Become, Alike, PullerStates
    <2>2. pl[p].f # f
      BY <2>1 DEF Holds, Alike
    <2>3. part'[f] = part[f] /\ crashes' = crashes
      BY <1>4, <2>2 DEF CopyBlock
    <2>4. \A q \in Pullers : Holds(q, f) => Holds(q, f)'
      BY <2>1 DEF Holds, Alike
    <2>. QED
      BY <2>3, <2>4, NoLeftoverStep
  \* p lets the .part it holds go.
  <1>5. ASSUME NEW p \in Pullers, NEW t, NEW move, NEW g, g = pl[p].f,
               pl' = [q \in Pullers |-> IF q = p THEN t ELSE Moved(q, g, move)],
               part' = [part EXCEPT ![g] = NoFile], crashes' = crashes
        PROVE  Goal
    <2>1. CASE f = g
      BY <1>5, <2>1
    <2>2. CASE f # g
      <3>1. \A q \in Pullers \ {p} : Alike(pl'[q], pl[q])
        BY <1>5, <1>a, MovedAlike
      <3>2. \A q \in Pullers : Holds(q, f) => Holds(q, f)'
        BY <1>5, <2>2, <3>1 DEF Holds, Alike
      <3>. QED
        BY <1>5, <2>2, <3>2, NoLeftoverStep
    <2>. QED
      BY <2>1, <2>2
  <1>6. ASSUME NEW p \in Pullers, PullStep(p) PROVE Goal
    <2>a. crashes' = crashes
      BY <1>6, PullFrame
    <2>b. ASSUME Discard(p) PROVE Goal
      <3>1. pl' = [q \in Pullers |-> IF q = p THEN FileDone(pl[p], TRUE)
                                              ELSE Moved(q, pl[p].f, Unlinked)]
        BY <2>b DEF Discard
      <3>2. part' = [part EXCEPT ![pl[p].f] = NoFile]
        BY <2>b DEF Discard
      <3>. QED
        BY <3>1, <3>2, <2>a, <1>5
    <2>1. CASE MarkPulling(p) \/ MakeDir(p) \/ MakeDirFails(p) \/ StatusFails(p)
               \/ Finish(p) \/ FetchFails(p) \/ Upsert(p) \/ UpsertFails(p)
      <3>1. ~ Holds(p, f) /\ UNCHANGED part /\ \E t : Become(p, t)
        BY <2>1 DEF MarkPulling, MakeDir, MakeDirFails, StatusFails, Finish,
                    FetchFails, Upsert, UpsertFails, Holds, Goto, Return
      <3>. QED
        BY <3>1, <2>a, <1>2
    <2>2. ASSUME NEW g \in Files, CheckDelta(p, g) PROVE Goal
      <3>1. ~ Holds(p, f) /\ UNCHANGED part /\ \E t : Become(p, t)
        BY <2>2 DEF CheckDelta, Holds
      <3>. QED
        BY <3>1, <2>a, <1>2
    <2>3. CASE CopyFails(p) \/ RenameFails(p) \/ (CheckHash(p) /\ ~ pl[p].ok)
      BY <2>3, <2>b DEF CopyFails, RenameFails, CheckHash
    <2>4. CASE CheckHash(p) /\ pl[p].ok
      <3>1. /\ pl'[p].pc = "rename" /\ pl'[p].f = pl[p].f
            /\ \A q \in Pullers \ {p} : pl'[q] = pl[q]
            /\ UNCHANGED part
        BY <2>4, <1>a DEF CheckHash, Goto, Become, PullerStates
      <3>2. \A q \in Pullers : Holds(q, f) => Holds(q, f)'
        BY <3>1 DEF Holds
      <3>. QED
        BY <3>1, <3>2, <2>a, NoLeftoverStep
    <2>5. CASE Rename(p)
      <3>. DEFINE t == [pl[p] EXCEPT !.pc = "upsert"]
      <3>1. pl' = [q \in Pullers |-> IF q = p THEN t ELSE Moved(q, pl[p].f, Renamed)]
        BY <2>5 DEF Rename
      <3>2. part' = [part EXCEPT ![pl[p].f] = NoFile]
        BY <2>5 DEF Rename
      <3>. HIDE DEF t
      <3>. QED
        BY <3>1, <3>2, <2>a, <1>5
    <2>. QED
      BY <1>6, <1>3, <1>4, <2>1, <2>2, <2>3, <2>4, <2>5 DEF PullStep
  <1>7. ASSUME NEW p \in Pullers, NEW c, Enter(p, c), pl[p].pc = "idle",
               UNCHANGED <<part, crashes>>
        PROVE  Goal
    BY <1>7, <1>2 DEF Enter, Holds
  <1>8. CASE \E p \in Hand, c \in Commits : HandlePull(p, c)
    BY <1>8, <1>7 DEF HandlePull, Pullers
  <1>9. CASE AutoStep
    BY <1>9, <1>1, <1>7 DEF AutoStep, AutoTick, AutoPull, Pullers
  <1>10. CASE Crash
    <2>1. crashes' > 0
      BY <1>10 DEF Crash
    <2>. QED
      BY <2>1
  <1>11. CASE UNCHANGED vars \/ ClearFinished \/ \E c \in Commits : Announce(c) \/ Reject(c)
    BY <1>11, <1>1 DEF vars, ClearFinished, Announce, Reject
  <1>. QED
    BY <1>6, <1>8, <1>9, <1>10, <1>11 DEF Next

\* However many pulls of the same files run, and whatever fails, a .part is on
\* disk only while some goroutine copies it, or after a crash.
THEOREM OnlyCrashesLeaveParts == Spec => []NoLeftoverPart
  <1>. DEFINE IInv == TypeInv /\ OpenOK /\ NoLeftoverPart
  <1>1. Init => IInv
    BY TypeInit DEF Init, OpenOK, Idle, NoLeftoverPart
  <1>2. IInv /\ [Next]_vars => IInv'
    BY TypeNext, OpenNext, NoLeftoverNext
  <1>. QED
    BY <1>1, <1>2, PTL DEF Spec

\* What a step of Pull does to the goroutine p that takes it, and to the files
\* Avid sees, up to where the open file is.
LEMMA PullShape ==
  ASSUME TypeInv, NEW p \in Pullers, PullStep(p)
  PROVE  LET s == pl[p]
             t == pl'[p]
         IN \/ t.pc = "idle" /\ (MarkPulling(p) \/ MakeDirFails(p) \/ StatusFails(p) \/ Finish(p))
               /\ UNCHANGED final
            \/ /\ t.pc # "idle" /\ t.c = s.c
               /\ \/ s.pc = "mark" /\ t.pc = "mkdir" /\ UNCHANGED final
                  \/ /\ s.pc = "mkdir" /\ t.pc = "next" /\ t.todo = FilesOf(s.c)
                     /\ UNCHANGED <<status, final>>
                  \/ /\ s.pc = "next" /\ t.pc = "next" /\ t.failed = s.failed
                     /\ \E f \in Files : /\ t.todo = s.todo \ {f}
                                         /\ final[f] = Full(Listing[s.c][f])
                     /\ UNCHANGED <<status, final>>
                  \/ /\ s.pc = "next" /\ t.pc = "fetch" /\ t.failed = s.failed
                     /\ t.todo = s.todo
                     /\ UNCHANGED <<status, final>>
                  \/ /\ s.pc \in {"fetch", "copy"} /\ t.pc \in {"copy", "rename"}
                     /\ t.failed = s.failed /\ t.todo = s.todo /\ t.f = s.f
                     /\ UNCHANGED status /\ (UNCHANGED final \/ CopyBlock(p))
                  \/ /\ OnFile(p) /\ t.pc = "next" /\ t.failed
                     /\ UNCHANGED <<status, final>>
                  \/ /\ s.pc = "rename" /\ t.pc = "upsert" /\ t.failed = s.failed
                     /\ t.todo = s.todo /\ t.f = s.f
                     /\ Rename(p) /\ UNCHANGED status
                  \/ /\ s.pc = "upsert" /\ t.pc = "next" /\ t.failed = s.failed
                     /\ t.todo = s.todo \ {s.f}
                     /\ Upsert(p) /\ UNCHANGED <<status, final>>
  <1>. DEFINE s == pl[p]
  <1>. USE DEF TypeInv, TypeOK
  <1>a. s \in PullerStates
    OBVIOUS
  <1>b. ASSUME NEW t, Become(p, t) PROVE pl'[p] = t
    BY <1>b DEF Become
  <1>c. \A bad \in BOOLEAN : /\ FileDone(s, bad).pc = "next"
                             /\ FileDone(s, bad).c = s.c
                             /\ FileDone(s, bad).todo = s.todo \ {s.f}
    BY <1>a DEF FileDone, PullerStates
  <1>d. FileDone(s, TRUE).failed /\ FileDone(s, FALSE).failed = s.failed
    BY <1>a DEF FileDone, PullerStates
  <1>e. ASSUME Discard(p) PROVE pl'[p] = FileDone(s, TRUE)
    BY <1>e DEF Discard
  <1>1. CASE MarkPulling(p)
    BY <1>1, <1>a, <1>b DEF MarkPulling, Goto, Return, Idle, PullerStates, Become
  <1>2. CASE MakeDir(p)
    BY <1>2, <1>a DEF MakeDir, Become, PullerStates
  <1>3. CASE MakeDirFails(p) \/ StatusFails(p) \/ Finish(p)
    BY <1>3 DEF MakeDirFails, StatusFails, Finish, Return, Become, Idle
  <1>4. ASSUME NEW f \in Files, CheckDelta(p, f)
        PROVE  /\ pl'[p].c = s.c /\ s.pc = "next" /\ pl'[p].failed = s.failed
               /\ UNCHANGED <<status, final>>
               /\ \/ /\ pl'[p].pc = "next" /\ pl'[p].todo = s.todo \ {f}
                     /\ final[f] = Full(Listing[s.c][f])
                  \/ pl'[p].pc = "fetch" /\ pl'[p].todo = s.todo
    <2>1. /\ s.pc = "next" /\ UNCHANGED <<status, final>>
          /\ \/ /\ final[f] = Full(Listing[s.c][f])
                /\ Become(p, [s EXCEPT !.todo = s.todo \ {f}])
             \/ Become(p, [s EXCEPT !.pc = "fetch", !.f = f])
      BY <1>4 DEF CheckDelta
    <2>2. CASE Become(p, [s EXCEPT !.todo = s.todo \ {f}])
               /\ final[f] = Full(Listing[s.c][f])
      BY <2>1, <2>2, <1>a, <1>b DEF PullerStates
    <2>3. CASE Become(p, [s EXCEPT !.pc = "fetch", !.f = f])
      BY <2>1, <2>3, <1>a, <1>b DEF PullerStates
    <2>. QED
      BY <2>1, <2>2, <2>3
  <1>5. CASE Create(p)
    BY <1>5, <1>a DEF Create, Become, PullerStates
  <1>6. CASE FetchFails(p) \/ UpsertFails(p)
    BY <1>6, <1>b, <1>c, <1>d DEF FetchFails, UpsertFails, OnFile
  <1>7. CASE CopyBlock(p)
    <2>1. PICK n, ok : Become(p, [s EXCEPT !.n = n, !.ok = ok])
      BY <1>7 DEF CopyBlock
    <2>2. pl'[p] = [s EXCEPT !.n = n, !.ok = ok]
      BY <2>1, <1>b
    <2>3. /\ pl'[p].pc = s.pc /\ pl'[p].c = s.c /\ pl'[p].todo = s.todo
          /\ pl'[p].f = s.f /\ pl'[p].failed = s.failed
      BY <2>2, <1>a DEF PullerStates
    <2>. QED
      BY <1>7, <2>3 DEF CopyBlock
  <1>8. CASE CopyFails(p) \/ RenameFails(p) \/ (CheckHash(p) /\ ~ s.ok)
    BY <1>8, <1>c, <1>d, <1>e DEF CopyFails, RenameFails, CheckHash, OnFile
  <1>9. CASE CheckHash(p) /\ s.ok
    BY <1>9, <1>a DEF CheckHash, Goto, Become, PullerStates
  <1>10. CASE Rename(p)
    BY <1>10, <1>a DEF Rename, PullerStates
  <1>11. CASE Upsert(p)
    BY <1>11, <1>b, <1>c, <1>d DEF Upsert
  <1>. QED
    BY <1>1, <1>2, <1>3, <1>4, <1>5, <1>6, <1>7, <1>8, <1>9, <1>10, <1>11
       DEF PullStep

\* Such a step leaves what the other goroutines work on alone.
LEMMA OthersAlike ==
  ASSUME TypeInv, NEW p \in Pullers, PullStep(p), NEW q \in Pullers \ {p}
  PROVE  Alike(pl'[q], pl[q]) /\ pl'[q].failed = pl[q].failed
  <1>. USE DEF TypeInv, TypeOK
  <1>a. pl[q] \in PullerStates
    OBVIOUS
  <1>1. \A f, move : Alike(Moved(q, f, move), pl[q])
                     /\ Moved(q, f, move).failed = pl[q].failed
    BY <1>a DEF Moved, Alike, PullerStates
  <1>2. ASSUME NEW t, Become(p, t) PROVE pl'[q] = pl[q]
    BY <1>2 DEF Become
  <1>3. CASE Discard(p) \/ Rename(p)
    <2>1. CASE Discard(p)
      <3>1. pl'[q] = Moved(q, pl[p].f, Unlinked)
        BY <2>1 DEF Discard
      <3>. QED
        BY <3>1, <1>1
    <2>2. CASE Rename(p)
      <3>1. pl'[q] = Moved(q, pl[p].f, Renamed)
        BY <2>2 DEF Rename
      <3>. QED
        BY <3>1, <1>1
    <2>. QED
      BY <1>3, <2>1, <2>2
  <1>4. (\E t : Become(p, t)) \/ Discard(p) \/ Rename(p)
    BY DEF PullStep, MarkPulling, MakeDir, MakeDirFails, CheckDelta, Create,
           FetchFails, CopyBlock, CopyFails, CheckHash, RenameFails,
           Upsert, UpsertFails, StatusFails, Finish, Return, Goto
  <1>. QED
    BY <1>2, <1>3, <1>4 DEF Alike

\* What the steps outside Pull do to a goroutine.
LEMMA OutsidePull ==
  ASSUME TypeInv, [Next]_vars, ~ \E p \in Pullers : PullStep(p), NEW q \in Pullers
  PROVE  /\ UNCHANGED <<part, final, row>>
         /\ pl'[q].pc \in {"idle", "mark"} \/ pl'[q] = pl[q]
         /\ pl[q].pc # "idle" /\ crashes' = crashes => pl'[q] = pl[q]
  <1>. USE DEF TypeInv, TypeOK
  <1>1. CASE Crash
    BY <1>1 DEF Crash, Idle
  <1>2. ASSUME NEW p \in Pullers, NEW c, Enter(p, c), pl[p].pc = "idle",
               UNCHANGED <<part, final, row, crashes>>
        PROVE  /\ pl'[q].pc \in {"idle", "mark"} \/ pl'[q] = pl[q]
               /\ pl[q].pc # "idle" => pl'[q] = pl[q]
    BY <1>2 DEF Enter, Become, Idle
  <1>3. CASE \E p \in Hand, c \in Commits : HandlePull(p, c)
    BY <1>3, <1>2 DEF HandlePull, Pullers
  <1>4. CASE AutoStep
    BY <1>4, <1>2 DEF AutoStep, AutoTick, AutoPull, Pullers
  <1>5. CASE UNCHANGED vars \/ ClearFinished \/ \E c \in Commits : Announce(c) \/ Reject(c)
    BY <1>5 DEF vars, ClearFinished, Announce, Reject
  <1>. QED
    BY <1>1, <1>3, <1>4, <1>5 DEF Next

(***************************************************************************)
(* Every pull comes to its end: its distance from it only shrinks.         *)
(***************************************************************************)
LEMMA StepGoesAhead ==
  ASSUME TypeInv, NEW p \in Pullers, PullStep(p)
  PROVE  Ahead(pl[p], pl'[p])
  <1>. DEFINE s == pl[p]
              t == pl'[p]
  <1>. USE DEF TypeInv, TypeOK
  <1>a. s \in PullerStates /\ NBlocks \in Nat \ {0}
    BY LanPullAssumption
  <1>b. ASSUME NEW u, Become(p, u) PROVE pl'[p] = u
    BY <1>b DEF Become
  <1>c. ASSUME Return(p) PROVE Ahead(s, t)
    BY <1>b, <1>c DEF Return, Idle, Ahead
  \* The file p is at is dealt with.
  <1>d. ASSUME OnFile(p), NEW bad \in BOOLEAN, t = FileDone(s, bad)
        PROVE  Ahead(s, t)
    <2>1. t.pc = "next" /\ t.c = s.c /\ t.todo = s.todo \ {s.f}
      BY <1>a, <1>d DEF FileDone, PullerStates
    <2>2. s.f \in s.todo
      BY <1>d DEF WorkOK, Work
    <2>3. ToDo(s) = s.todo /\ ToDo(t) = t.todo
      BY <1>d, <2>1 DEF ToDo, OnFile
    <2>. QED
      BY <2>1, <2>2, <2>3 DEF Ahead
  <1>e. ASSUME Discard(p), OnFile(p) PROVE Ahead(s, t)
    <2>1. t = FileDone(s, TRUE)
      BY <1>e DEF Discard
    <2>. QED
      BY <1>d, <1>e, <2>1
  <1>1. CASE MarkPulling(p)
    <2>1. CASE Goto(p, "mkdir")
      <3>1. s.pc = "mark" /\ t.pc = "mkdir" /\ t.c = s.c
        BY <1>1, <1>a, <1>b, <2>1 DEF MarkPulling, Goto, PullerStates
      <3>2. ToDo(t) = ToDo(s) /\ CallsLeft(t) < CallsLeft(s)
        BY <1>a, <3>1 DEF ToDo, CallsLeft
      <3>. QED
        BY <3>1, <3>2 DEF Ahead
    <2>. QED
      BY <1>1, <1>c, <2>1 DEF MarkPulling
  <1>2. CASE MakeDir(p)
    <2>1. s.pc = "mkdir" /\ t.pc = "next" /\ t.c = s.c /\ t.todo = FilesOf(s.c)
      BY <1>2, <1>a, <1>b DEF MakeDir, PullerStates
    <2>2. ToDo(t) = ToDo(s) /\ CallsLeft(t) < CallsLeft(s)
      BY <1>a, <2>1 DEF ToDo, CallsLeft
    <2>. QED
      BY <2>1, <2>2 DEF Ahead
  <1>3. CASE MakeDirFails(p) \/ StatusFails(p) \/ Finish(p)
    BY <1>3, <1>c DEF MakeDirFails, StatusFails, Finish
  <1>4. ASSUME NEW f \in Files, CheckDelta(p, f) PROVE Ahead(s, t)
    <2>1. CASE t = [s EXCEPT !.todo = @ \ {f}]
      <3>1. /\ s.pc = "next" /\ t.pc = "next" /\ t.c = s.c /\ f \in s.todo
            /\ t.todo = s.todo \ {f}
        BY <1>4, <1>a, <2>1 DEF CheckDelta, PullerStates
      <3>2. ToDo(s) = s.todo /\ ToDo(t) = t.todo
        BY <3>1 DEF ToDo
      <3>. QED
        BY <3>1, <3>2 DEF Ahead
    <2>2. CASE t = [s EXCEPT !.pc = "fetch", !.f = f]
      <3>1. s.pc = "next" /\ t.pc = "fetch" /\ t.c = s.c /\ t.todo = s.todo
        BY <1>4, <1>a, <2>2 DEF CheckDelta, PullerStates
      <3>2. ToDo(t) = ToDo(s) /\ CallsLeft(t) < CallsLeft(s)
        BY <1>a, <3>1 DEF ToDo, CallsLeft
      <3>. QED
        BY <3>1, <3>2 DEF Ahead
    <2>. QED
      BY <1>4, <1>b, <2>1, <2>2 DEF CheckDelta
  <1>5. CASE Create(p)
    <2>1. s.pc = "fetch" /\ t.pc = "copy" /\ t.c = s.c /\ t.todo = s.todo /\ t.n = 0
      BY <1>5, <1>a, <1>b DEF Create, PullerStates
    <2>2. ToDo(t) = ToDo(s) /\ CallsLeft(t) < CallsLeft(s)
      BY <1>a, <2>1 DEF ToDo, CallsLeft
    <2>. QED
      BY <2>1, <2>2 DEF Ahead
  <1>6. CASE FetchFails(p) \/ UpsertFails(p)
    BY <1>6, <1>b, <1>d DEF FetchFails, UpsertFails, OnFile
  <1>7. CASE CopyBlock(p)
    <2>1. /\ s.pc = "copy" /\ t.pc = "copy" /\ t.c = s.c /\ t.todo = s.todo
          /\ t.n = s.n + 1 /\ s.n \in Nat
      <3>1. PICK v \in Versions :
              Become(p, [s EXCEPT !.n = s.n + 1, !.ok = @ /\ v = Wanted(p)])
        BY <1>7 DEF CopyBlock
      <3>2. t = [s EXCEPT !.n = s.n + 1, !.ok = @ /\ v = Wanted(p)]
        BY <1>b, <3>1
      <3>. QED
        BY <1>7, <1>a, <3>2 DEF CopyBlock, PullerStates
    <2>2. ToDo(t) = ToDo(s) /\ CallsLeft(t) < CallsLeft(s)
      BY <1>a, <2>1 DEF ToDo, CallsLeft
    <2>. QED
      BY <2>1, <2>2 DEF Ahead
  <1>8. CASE CopyFails(p) \/ RenameFails(p)
    BY <1>8, <1>e DEF CopyFails, RenameFails, OnFile
  <1>9. CASE CheckHash(p)
    <2>1. CASE Goto(p, "rename")
      <3>1. /\ s.pc = "copy" /\ t.pc = "rename" /\ t.c = s.c /\ t.todo = s.todo
            /\ s.n = NBlocks
        BY <1>9, <1>a, <1>b, <2>1 DEF CheckHash, Goto, PullerStates
      <3>2. ToDo(t) = ToDo(s) /\ CallsLeft(t) < CallsLeft(s)
        BY <1>a, <3>1 DEF ToDo, CallsLeft
      <3>. QED
        BY <3>1, <3>2 DEF Ahead
    <2>. QED
      BY <1>9, <1>e, <2>1 DEF CheckHash, OnFile
  <1>10. CASE Rename(p)
    <2>1. t = [s EXCEPT !.pc = "upsert"]
      BY <1>10 DEF Rename
    <2>2. s.pc = "rename" /\ t.pc = "upsert" /\ t.c = s.c /\ t.todo = s.todo
      BY <1>10, <1>a, <2>1 DEF Rename, PullerStates
    <2>3. ToDo(t) = ToDo(s) /\ CallsLeft(t) < CallsLeft(s)
      BY <1>a, <2>2 DEF ToDo, CallsLeft
    <2>. QED
      BY <2>2, <2>3 DEF Ahead
  <1>11. CASE Upsert(p)
    BY <1>11, <1>b, <1>d DEF Upsert, OnFile
  <1>. QED
    BY <1>1, <1>2, <1>3, <1>4, <1>5, <1>6, <1>7, <1>8, <1>9, <1>10, <1>11
       DEF PullStep

\* Another goroutine's step moves at most the name of the file that p has open.
LEMMA OthersMoveTheFile ==
  ASSUME TypeInv, NEW p \in Pullers, NEW q \in Pullers \ {p}, PullStep(q)
  PROVE  StaysPut(pl[p], pl'[p])
  <1>. USE DEF TypeInv, TypeOK
  <1>a. pl[p] \in PullerStates
    OBVIOUS
  <1>1. CASE pl'[p] = pl[p]
    BY <1>a, <1>1 DEF PullerStates, StaysPut
  <1>2. ASSUME NEW x, pl'[p] = [pl[p] EXCEPT !.at = x]
        PROVE  StaysPut(pl[p], pl'[p])
    BY <1>a, <1>2 DEF PullerStates, StaysPut
  <1>3. ASSUME NEW f, NEW move, pl'[p] = Moved(p, f, move)
        PROVE  StaysPut(pl[p], pl'[p])
    BY <1>1, <1>2, <1>3 DEF Moved
  <1>4. ASSUME NEW u, Become(q, u) PROVE pl'[p] = pl[p]
    BY <1>4 DEF Become
  <1>5. CASE Discard(q)
    <2>1. pl'[p] = Moved(p, pl[q].f, Unlinked)
      BY <1>5 DEF Discard
    <2>. QED
      BY <1>3, <2>1
  <1>6. CASE Rename(q)
    <2>1. pl'[p] = Moved(p, pl[q].f, Renamed)
      BY <1>6 DEF Rename
    <2>. QED
      BY <1>3, <2>1
  <1>7. (\E u : Become(q, u)) \/ Discard(q) \/ Rename(q)
    BY DEF PullStep, MarkPulling, MakeDir, MakeDirFails, CheckDelta, Create,
           FetchFails, CopyBlock, CopyFails, CheckHash, RenameFails,
           Upsert, UpsertFails, StatusFails, Finish, Return, Goto
  <1>. QED
    BY <1>1, <1>4, <1>5, <1>6, <1>7

\* Each step of a pull brings it nearer to its end and nobody can throw it back, for any
\* files, pullers and faults: so a pull takes finitely many steps.
THEOREM PullsAdvance == Spec => PullsOnlyAdvance
  <1>. DEFINE Step == \A p \in Pullers : pl[p].pc # "idle" =>
                \/ Ahead(pl[p], pl'[p])
                \/ ~ PullStep(p) /\ StaysPut(pl[p], pl'[p])
  <1>1. Init => TypeInv /\ OpenOK
    BY TypeInit DEF Init, OpenOK, Idle
  <1>2. TypeInv /\ OpenOK /\ [Next]_vars => (TypeInv /\ OpenOK)'
    BY TypeNext, OpenNext
  <1>3. TypeInv /\ [Next]_vars => [Step]_vars
    <2>. SUFFICES ASSUME TypeInv, [Next]_vars, NEW p \in Pullers, pl[p].pc # "idle",
                         ~ PullStep(p), ~ Ahead(pl[p], pl'[p])
                  PROVE  StaysPut(pl[p], pl'[p])
      BY StepGoesAhead
    <2>a. pl[p] \in PullerStates
      BY DEF TypeInv, TypeOK
    <2>1. CASE \E q \in Pullers : PullStep(q)
      BY <2>1, OthersMoveTheFile
    <2>2. CASE ~ \E q \in Pullers : PullStep(q)
      <3>1. CASE Crash
        BY <3>1 DEF Crash, Idle, Ahead
      <3>2. CASE pl'[p] = pl[p]
        BY <2>a, <3>2 DEF PullerStates, StaysPut
      <3>3. ~ Crash => pl'[p] = pl[p]
        BY <2>2, OutsidePull DEF Next, Announce, Reject, ClearFinished, HandlePull,
                                 AutoStep, AutoTick, AutoPull, vars
      <3>. QED
        BY <3>1, <3>2, <3>3
    <2>. QED
      BY <2>1, <2>2
  <1>. QED
    BY <1>1, <1>2, <1>3, PTL DEF Spec, PullsOnlyAdvance

\* p is between the two UpdateCommitStatus of Pull, for commit c.
Pulling(p, c) == pl[p].c = c /\ pl[p].pc \notin {"idle", "mark"}

\* Where MkdirAll and the statements on the manifest succeed and the process
\* lives on, only Finish takes a goroutine out of that region.
LEMMA StaysPulling ==
  ASSUME TypeInv, [Next]_vars, Faults \cap {"mkdir", "db", "crash"} = {},
         NEW q \in Pullers, NEW c \in Commits, Pulling(q, c), ~ Finish(q)
  PROVE  Pulling(q, c)'
  <1>1. CASE \E p \in Pullers : PullStep(p)
    <2>1. PICK p \in Pullers : PullStep(p)
      BY <1>1
    <2>2. CASE p = q
      <3>1. ~ MakeDirFails(q) /\ ~ StatusFails(q) /\ ~ MarkPulling(q)
        BY DEF MakeDirFails, StatusFails, MarkPulling, Pulling
      <3>. QED
        BY <2>1, <2>2, <3>1, PullShape DEF Pulling, OnFile
    <2>3. CASE p # q
      BY <2>1, <2>3, OthersAlike DEF Alike, Pulling
    <2>. QED
      BY <2>2, <2>3
  <1>2. CASE ~ \E p \in Pullers : PullStep(p)
    <2>1. crashes' = crashes
      BY <1>2 DEF Next, vars, Announce, Reject, ClearFinished, HandlePull,
                  AutoStep, AutoTick, AutoPull, Crash
    <2>. QED
      BY <1>2, <2>1, OutsidePull DEF Pulling
  <1>. QED
    BY <1>1, <1>2

\* The status of a commit becomes "pulling" only as its Pull begins, and Finish
\* ends it.
LEMMA PullingNext ==
  ASSUME TypeInv, PullingIsInProgress, [Next]_vars,
         Faults \cap {"mkdir", "db", "crash"} = {}
  PROVE  PullingIsInProgress'
  <1>. SUFFICES ASSUME NEW c \in Commits, status'[c] = "pulling"
                PROVE  \E p \in Pullers : Pulling(p, c)'
    BY DEF PullingIsInProgress, Pulling
  <1>. USE DEF TypeInv, TypeOK
  <1>1. ASSUME NEW p \in Pullers, MarkPulling(p), HasRow(pl[p].c), pl[p].c = c
        PROVE  Pulling(p, c)'
    BY <1>1 DEF MarkPulling, Goto, Become, Pulling, PullerStates
  <1>2. CASE status[c] = "pulling"
    <2>1. PICK p \in Pullers : Pulling(p, c)
      BY <1>2 DEF PullingIsInProgress, Pulling
    <2>2. ~ Finish(p)
      BY <1>2, <2>1 DEF Finish, Pulling, Outcome, HasRow
    <2>. QED
      BY <2>1, <2>2, StaysPulling
  <1>3. CASE status[c] # "pulling"
    <2>1. \E p \in Pullers : MarkPulling(p) /\ HasRow(pl[p].c) /\ pl[p].c = c
      BY <1>3
      DEF Next, vars, Announce, Reject, ClearFinished, HandlePull, AutoStep,
          AutoTick, AutoPull, PullStep, MarkPulling, MakeDir, MakeDirFails,
          CheckDelta, Create, FetchFails, CopyBlock, CopyFails, CheckHash, Rename,
          RenameFails, Upsert, UpsertFails, StatusFails, Finish, Crash, Outcome
    <2>. QED
      BY <2>1, <1>1
  <1>. QED
    BY <1>2, <1>3

\* Unless MkdirAll or a statement on the manifest fails, or the process dies,
\* "pulling" is true of the commits some goroutine pulls and of no other.
THEOREM PullingMeansIt ==
  ASSUME Faults \cap {"mkdir", "db", "crash"} = {}
  PROVE  Spec => []PullingIsInProgress
  <1>. DEFINE IInv == TypeInv /\ OpenOK /\ PullingIsInProgress
  <1>1. Init => IInv
    BY TypeInit DEF Init, OpenOK, Idle, PullingIsInProgress
  <1>2. IInv /\ [Next]_vars => IInv'
    BY TypeNext, OpenNext, PullingNext
  <1>. QED
    BY <1>1, <1>2, PTL DEF Spec

(***************************************************************************)
(* What "pulled" says of the disk.  The strengthening: a Pull that has had *)
(* no error so far has dealt with every file that is no longer in todo.    *)
(***************************************************************************)

\* A file that is in the folder stays there: nothing in Pull deletes one.
LEMMA FinalStays ==
  ASSUME TypeInv, OpenOK, [Next]_vars, NEW f \in Files, final[f] # NoFile
  PROVE  final'[f] # NoFile
  <1>. USE DEF TypeInv, TypeOK
  <1>1. CASE UNCHANGED final
    BY <1>1
  <1>2. ASSUME NEW p \in Pullers, Rename(p) PROVE final'[f] # NoFile
    BY <1>2 DEF Rename
  <1>3. ASSUME NEW p \in Pullers, CopyBlock(p) PROVE final'[f] # NoFile
    <2>1. /\ pl[p].f \in Files /\ pl[p].n + 1 \in Blocks
          /\ pl[p].at = "final" => final[pl[p].f] \in Content
      <3>1. pl[p] \in PullerStates /\ pl[p].pc = "copy" /\ pl[p].f \in Files
        BY <1>3, AtWork DEF CopyBlock, OnFile
      <3>. QED
        BY <1>3, <3>1, LanPullAssumption DEF CopyBlock, OpenOK, PullerStates, Blocks
    <2>2. \A x \in Content, b \in Blocks, v \in Versions : [x EXCEPT ![b] = v] # NoFile
      BY LanPullAssumption DEF Content
    <2>. QED
      BY <1>3, <2>1, <2>2 DEF CopyBlock
  <1>. QED
    BY <1>1, <1>2, <1>3
    DEF Next, vars, Announce, Reject, ClearFinished, HandlePull, AutoStep,
        AutoTick, AutoPull, PullStep, MarkPulling, MakeDir, MakeDirFails,
        CheckDelta, Create, FetchFails, CopyFails, CheckHash, RenameFails,
        Upsert, UpsertFails, StatusFails, Finish, Crash

\* The files p has dealt with are in the folder, in whatever version.
There(p) == InFiles(p) =>
  /\ ~ pl[p].failed => \A f \in FilesOf(pl[p].c) \ pl[p].todo : final[f] # NoFile
  /\ pl[p].pc = "upsert" => final[pl[p].f] # NoFile

LEMMA ThereNext ==
  ASSUME TypeInv, OpenOK, [Next]_vars, NEW q \in Pullers, There(q)
  PROVE  There(q)'
  <1>a. \A f \in Files : final[f] # NoFile => final'[f] # NoFile
    BY FinalStays
  <1>b. Busy(q) => FilesOf(pl[q].c) \subseteq Files
    BY AtWork
  <1>c. OnFile(q) => pl[q].f \in Files /\ pl[q].f \in FilesOf(pl[q].c)
    BY AtWork
  <1>1. ASSUME Alike(pl'[q], pl[q]), pl'[q].failed = pl[q].failed
        PROVE  There(q)'
    BY <1>1, <1>a, <1>b, <1>c DEF There, Alike, InFiles, Busy, OnFile
  <1>2. CASE ~ \E p \in Pullers : PullStep(p)
    <2>1. CASE pl'[q] = pl[q]
      BY <2>1, <1>1 DEF Alike
    <2>2. CASE pl'[q].pc \in {"idle", "mark"}
      BY <2>2 DEF There, InFiles
    <2>. QED
      BY <1>2, <2>1, <2>2, OutsidePull
  <1>3. ASSUME NEW p \in Pullers, PullStep(p), p # q PROVE There(q)'
    BY <1>3, <1>1, OthersAlike
  <1>4. CASE PullStep(q)
    <2>. DEFINE s == pl[q]
                t == pl'[q]
    <2>1. CASE t.pc \in {"idle", "mkdir"}
      BY <2>1 DEF There, InFiles
    <2>2. CASE t.pc = "next" /\ t.todo = FilesOf(s.c) /\ t.c = s.c
      BY <2>2 DEF There
    <2>3. CASE t.pc = "next" /\ t.failed
      BY <2>3 DEF There
    <2>4. ASSUME NEW f \in Files, s.pc = "next", t.pc = "next", t.c = s.c,
                 t.todo = s.todo \ {f}, t.failed = s.failed,
                 final[f] = Full(Listing[s.c][f])
          PROVE  There(q)'
      <3>1. f \in FilesOf(s.c) => final[f] # NoFile
        <4>1. f \in FilesOf(s.c) => Full(Listing[s.c][f]) \in Content
          BY <2>4, AtWork DEF Busy, Full, Content
        <4>. QED
          BY <2>4, <4>1, LanPullAssumption
      <3>. QED
        BY <2>4, <3>1, <1>a, <1>b DEF There, InFiles, Busy
    <2>5. CASE /\ s.pc \in {"next", "fetch", "copy"}
               /\ t.pc \in {"fetch", "copy", "rename"}
               /\ t.c = s.c /\ t.todo = s.todo /\ t.failed = s.failed
      BY <2>5, <1>a, <1>b DEF There, InFiles, Busy
    <2>6. CASE /\ s.pc = "rename" /\ t.pc = "upsert" /\ t.c = s.c
               /\ t.todo = s.todo /\ t.failed = s.failed /\ t.f = s.f /\ Rename(q)
      <3>1. final'[s.f] # NoFile
        BY <2>6, <1>c DEF Rename, OnFile, TypeInv, TypeOK
      <3>. QED
        BY <2>6, <3>1, <1>a, <1>b DEF There, InFiles, Busy
    <2>7. CASE /\ s.pc = "upsert" /\ t.pc = "next" /\ t.c = s.c
               /\ t.todo = s.todo \ {s.f} /\ t.failed = s.failed
      BY <2>7, <1>a, <1>b, <1>c DEF There, InFiles, Busy, OnFile
    <2>. QED
      BY <1>4, <2>1, <2>2, <2>3, <2>4, <2>5, <2>6, <2>7, PullShape
  <1>. QED
    BY <1>2, <1>3, <1>4

\* The status becomes "pulled" in one place.
LEMMA PulledByFinish ==
  ASSUME TypeInv, [Next]_vars, NEW c \in Commits,
         status[c] # "pulled", status'[c] = "pulled"
  PROVE  \E p \in Pullers : /\ Finish(p) /\ pl[p].c = c
                            /\ InFiles(p) /\ ~ pl[p].failed
                            /\ UNCHANGED final
  BY DEF TypeInv, TypeOK, InFiles, Outcome, HasRow,
         Next, vars, Announce, Reject, ClearFinished, HandlePull, AutoStep,
         AutoTick, AutoPull, PullStep, MarkPulling, MakeDir, MakeDirFails,
         CheckDelta, Create, FetchFails, CopyBlock, CopyFails, CheckHash, Rename,
         RenameFails, Upsert, UpsertFails, StatusFails, Finish, Crash

\* However pulls interleave and whatever fails or crashes, a commit is marked
\* "pulled" only with each of its files in the folder (in some version).
THEOREM PulledMeansThere == Spec => PulledFilesExist
  <1>. DEFINE IInv == TypeInv /\ OpenOK /\ \A p \in Pullers : There(p)
              Step == \A c \in Commits :
                        status[c] # "pulled" /\ status'[c] = "pulled" =>
                          \A f \in FilesOf(c) : final'[f] # NoFile
  <1>1. Init => IInv
    BY TypeInit DEF Init, OpenOK, Idle, There, InFiles
  <1>2. IInv /\ [Next]_vars => IInv'
    BY TypeNext, OpenNext, ThereNext
  <1>3. IInv /\ [Next]_vars => [Step]_vars
    <2>. SUFFICES ASSUME IInv, [Next]_vars, NEW c \in Commits,
                         status[c] # "pulled", status'[c] = "pulled",
                         NEW f \in FilesOf(c)
                  PROVE  final'[f] # NoFile
      OBVIOUS
    <2>1. PICK p \in Pullers : /\ Finish(p) /\ pl[p].c = c
                               /\ InFiles(p) /\ ~ pl[p].failed
                               /\ UNCHANGED final
      BY PulledByFinish
    <2>2. pl[p].todo = {}
      BY <2>1 DEF Finish
    <2>. QED
      BY <2>1, <2>2 DEF There
  <1>. QED
    BY <1>1, <1>2, <1>3, PTL DEF Spec, PulledFilesExist

(***************************************************************************)
(* Pulls that do not overlap: what the folder holds is what the rows and   *)
(* the statuses say.                                                       *)
(***************************************************************************)
Exclusive ==
  /\ TypeInv /\ OpenOK /\ PartSound /\ PullsAnnounced /\ NoOverlap /\ FinalNeverTorn

LEMMA ExclusiveInit == Init => Exclusive
  BY TypeInit DEF Init, Idle, OpenOK, PartSound, Sound, PullsAnnounced,
                  NoOverlap, Writing, FinalNeverTorn, Exclusive

LEMMA ExclusiveNext ==
  ASSUME Exclusive, [Next /\ NoOverlap']_vars
  PROVE  Exclusive'
  <1>1. [Next]_vars
    OBVIOUS
  <1>2. NoOverlap'
    BY DEF vars, NoOverlap, Writing, Exclusive
  <1>. QED
    BY <1>1, <1>2, TypeNext, OpenNext, SoundNext, AnnouncedNext, WholeNext
       DEF Exclusive

\* A file changes in the folder only by the rename of a verified copy.
LEMMA FinalByRename ==
  ASSUME TypeInv, PartSound, [Next]_vars, NEW f \in Files, final'[f] # final[f]
  PROVE  \E p \in Pullers : Rename(p) /\ pl[p].f = f /\ final'[f] = Full(Wanted(p))
  <1>1. ASSUME NEW p \in Pullers, CopyBlock(p) PROVE FALSE
    BY <1>1 DEF CopyBlock, PartSound, Sound
  <1>2. ASSUME NEW p \in Pullers, Rename(p)
        PROVE  pl[p].f = f /\ final'[f] = Full(Wanted(p))
    BY <1>2 DEF Rename, PartSound, Sound, TypeInv, TypeOK
  <1>. QED
    BY <1>1, <1>2
    DEF Next, vars, Announce, Reject, ClearFinished, HandlePull, AutoStep,
        AutoTick, AutoPull, PullStep, MarkPulling, MakeDir, MakeDirFails,
        CheckDelta, Create, FetchFails, CopyFails, CheckHash, RenameFails,
        Upsert, UpsertFails, StatusFails, Finish, Crash

\* Between the rename and the row nothing replaces the file.
UpsertSound == \A p \in Pullers :
  pl[p].pc = "upsert" => final[pl[p].f] = Full(Wanted(p))

LEMMA UpsertSoundNext ==
  ASSUME Exclusive, UpsertSound, [Next]_vars
  PROVE  UpsertSound'
  <1>. SUFFICES ASSUME NEW q \in Pullers, pl'[q].pc = "upsert"
                PROVE  (final[pl[q].f] = Full(Wanted(q)))'
    BY DEF UpsertSound
  <1>. USE DEF Exclusive
  <1>1. CASE Rename(q)
    <2>1. pl'[q].f = pl[q].f /\ pl'[q].c = pl[q].c /\ pl[q].f \in Files
      BY <1>1, AtWork DEF Rename, OnFile, PullerStates
    <2>2. final'[pl[q].f] = Full(Wanted(q))
      BY <1>1, <2>1 DEF Rename, PartSound, Sound, TypeInv, TypeOK
    <2>. QED
      BY <2>1, <2>2 DEF Wanted
  <1>2. ASSUME pl[q].pc = "upsert", pl'[q].f = pl[q].f, pl'[q].c = pl[q].c
        PROVE  (final[pl[q].f] = Full(Wanted(q)))'
    <2>1. pl[q].f \in Files /\ final[pl[q].f] = Full(Wanted(q))
      BY <1>2, AtWork DEF OnFile, UpsertSound
    <2>2. final'[pl[q].f] = final[pl[q].f]
      <3>1. ASSUME NEW p \in Pullers, Rename(p), pl[p].f = pl[q].f PROVE FALSE
        <4>1. p # q /\ Writing(p) /\ Writing(q)
          BY <1>2, <3>1 DEF Rename, Writing
        <4>. QED
          BY <3>1, <4>1, Apart
      <3>. QED
        BY <2>1, <3>1, FinalByRename
    <2>. QED
      BY <1>2, <2>1, <2>2 DEF Wanted
  <1>3. CASE \E p \in Pullers : PullStep(p)
    <2>1. PICK p \in Pullers : PullStep(p)
      BY <1>3
    <2>2. CASE p = q
      BY <2>1, <2>2, <1>1, PullShape
    <2>3. CASE p # q
      BY <2>1, <2>3, <1>2, OthersAlike DEF Alike
    <2>. QED
      BY <2>2, <2>3
  <1>4. CASE ~ \E p \in Pullers : PullStep(p)
    BY <1>4, <1>2, OutsidePull
  <1>. QED
    BY <1>3, <1>4

\* If no two pulls write the same file at the same time, the manifest only ever
\* gets a hash of what is in the folder at that moment.
THEOREM ExclusiveRowsAreTrue == ExclusiveSpec => UpsertedIsOnDisk
  <1>. DEFINE IInv == Exclusive /\ UpsertSound
              Step == \A f \in Files :
                        row'[f] # row[f] =>
                          row'[f] # None /\ final'[f] = Full(row'[f])
  <1>1. Init => IInv
    BY ExclusiveInit DEF Init, Idle, UpsertSound
  <1>2. IInv /\ [Next /\ NoOverlap']_vars => IInv'
    BY ExclusiveNext, UpsertSoundNext
  <1>3. IInv /\ [Next /\ NoOverlap']_vars => [Step]_vars
    <2>. SUFFICES ASSUME IInv, [Next]_vars, NEW f \in Files, row'[f] # row[f]
                  PROVE  row'[f] # None /\ final'[f] = Full(row'[f])
      OBVIOUS
    <2>1. PICK p \in Pullers : Upsert(p)
      BY DEF Next, vars, Announce, Reject, ClearFinished, HandlePull, AutoStep,
             AutoTick, AutoPull, PullStep, MarkPulling, MakeDir, MakeDirFails,
             CheckDelta, Create, FetchFails, CopyBlock, CopyFails, CheckHash,
             Rename, RenameFails, UpsertFails, StatusFails, Finish, Crash
    <2>2. /\ pl[p].f = f /\ row'[f] = Wanted(p) /\ final' = final
          /\ pl[p].pc = "upsert"
      BY <2>1 DEF Upsert, Exclusive, TypeInv, TypeOK
    <2>3. Wanted(p) \in Versions
      BY <2>2, AtWork DEF OnFile, Exclusive
    <2>. QED
      BY <2>2, <2>3, LanPullAssumption DEF UpsertSound
  <1>. QED
    BY <1>1, <1>2, <1>3, PTL DEF ExclusiveSpec, UpsertedIsOnDisk

(***************************************************************************)
(* Pulls of commits that have no file name in common implement the         *)
(* abstract folder, however many run at once.  The strengthening of There: *)
(* the files dealt with are in the folder as announced, since nobody else  *)
(* replaces one meanwhile.                                                 *)
(***************************************************************************)
Done(p) == (InFiles(p) /\ ~ pl[p].failed) =>
  \A f \in FilesOf(pl[p].c) \ pl[p].todo : final[f] = Full(Listing[pl[p].c][f])

\* While q pulls, only q itself replaces a file of its commit.
LEMMA OwnFilesStay ==
  ASSUME Exclusive, NoSharedFiles, [Next]_vars, NEW q \in Pullers, InFiles(q),
         NEW f \in FilesOf(pl[q].c), ~ (Rename(q) /\ pl[q].f = f)
  PROVE  final'[f] = final[f]
  <1>. USE DEF Exclusive
  <1>1. f \in Files
    BY AtWork DEF InFiles, Busy
  <1>2. ASSUME NEW p \in Pullers, Rename(p), pl[p].f = f PROVE FALSE
    <2>1. p # q
      BY <1>2
    <2>2. InFiles(p) /\ f \in FilesOf(pl[p].c)
      BY <1>2, AtWork DEF Rename, InFiles, OnFile, TypeInv, WorkOK, Work
    <2>. QED
      BY <2>1, <2>2 DEF NoSharedFiles
  <1>. QED
    BY <1>1, <1>2, FinalByRename

LEMMA DoneNext ==
  ASSUME Exclusive, NoSharedFiles, UpsertSound, [Next]_vars, NEW q \in Pullers, Done(q)
  PROVE  Done(q)'
  <1>. USE DEF Exclusive
  <1>c. OnFile(q) => pl[q].f \in Files /\ pl[q].f \in FilesOf(pl[q].c)
                     /\ pl[q].f \in pl[q].todo
    BY AtWork DEF TypeInv, WorkOK, Work
  <1>d. ASSUME InFiles(q), NEW f \in FilesOf(pl[q].c), ~ (Rename(q) /\ pl[q].f = f)
        PROVE  final'[f] = final[f]
    BY <1>d, OwnFilesStay
  <1>e. ASSUME ~ PullStep(q), Alike(pl'[q], pl[q]), pl'[q].failed = pl[q].failed
        PROVE  Done(q)'
    <2>1. ~ Rename(q)
      BY <1>e DEF PullStep
    <2>. QED
      BY <1>d, <1>e, <2>1 DEF Done, InFiles, Alike
  <1>2. CASE ~ \E p \in Pullers : PullStep(p)
    <2>1. CASE pl'[q] = pl[q]
      <3>1. UNCHANGED final
        BY <1>2, OutsidePull
      <3>. QED
        BY <2>1, <3>1 DEF Done, InFiles
    <2>2. CASE pl'[q].pc \in {"idle", "mark"}
      BY <2>2 DEF Done, InFiles
    <2>. QED
      BY <1>2, <2>1, <2>2, OutsidePull
  <1>4. CASE PullStep(q)
    <2>. DEFINE s == pl[q]
                t == pl'[q]
    <2>1. CASE t.pc \in {"idle", "mkdir"}
      BY <2>1 DEF Done, InFiles
    <2>2. CASE t.pc = "next" /\ t.todo = FilesOf(s.c) /\ t.c = s.c
      BY <2>2 DEF Done
    <2>3. CASE t.pc = "next" /\ t.failed
      BY <2>3 DEF Done
    <2>4. ASSUME NEW f \in Files, s.pc = "next", t.pc = "next", t.c = s.c,
                 t.todo = s.todo \ {f}, t.failed = s.failed,
                 final[f] = Full(Listing[s.c][f]), UNCHANGED final
          PROVE  Done(q)'
      BY <2>4 DEF Done, InFiles
    <2>5. CASE /\ s.pc \in {"next", "fetch", "copy"}
               /\ t.pc \in {"fetch", "copy", "rename"}
               /\ t.c = s.c /\ t.todo = s.todo /\ t.failed = s.failed
      <3>1. ~ Rename(q)
        BY <2>5 DEF Rename
      <3>. QED
        BY <2>5, <3>1, <1>d DEF Done, InFiles
    <2>6. CASE /\ s.pc = "rename" /\ t.pc = "upsert" /\ t.c = s.c
               /\ t.todo = s.todo /\ t.failed = s.failed /\ t.f = s.f /\ Rename(q)
      <3>1. \A f \in FilesOf(s.c) \ s.todo : final'[f] = final[f]
        BY <2>6, <1>c, <1>d DEF InFiles, OnFile
      <3>. QED
        BY <2>6, <3>1 DEF Done, InFiles
    <2>7. CASE /\ s.pc = "upsert" /\ t.pc = "next" /\ t.c = s.c
               /\ t.todo = s.todo \ {s.f} /\ t.failed = s.failed
               /\ UNCHANGED final
      <3>1. final[s.f] = Full(Listing[s.c][s.f])
        BY <2>7 DEF UpsertSound, Wanted
      <3>. QED
        BY <2>7, <3>1 DEF Done, InFiles
    <2>. QED
      BY <1>4, <2>1, <2>2, <2>3, <2>4, <2>5, <2>6, <2>7, PullShape
  <1>5. ASSUME NEW p \in Pullers, PullStep(p), p # q, ~ PullStep(q) PROVE Done(q)'
    BY <1>5, <1>e, OthersAlike
  <1>. QED
    BY <1>2, <1>4, <1>5

DisjointInv == Exclusive /\ NoSharedFiles /\ UpsertSound /\ \A p \in Pullers : Done(p)

LEMMA DisjointInit == Init => DisjointInv
  BY ExclusiveInit
     DEF Init, Idle, UpsertSound, Done, InFiles, NoSharedFiles, DisjointInv

\* Pulls without a common name write different files.
LEMMA DisjointApart ==
  ASSUME TypeInv, NoSharedFiles
  PROVE  NoOverlap
  <1>1. \A p \in Pullers : Writing(p) => InFiles(p) /\ pl[p].f \in FilesOf(pl[p].c)
    BY AtWork DEF Writing, InFiles, OnFile, TypeInv, WorkOK, Work
  <1>. QED
    BY <1>1 DEF NoOverlap, NoSharedFiles

LEMMA DisjointNext ==
  ASSUME DisjointInv, [Next /\ NoSharedFiles']_vars
  PROVE  DisjointInv'
  <1>1. [Next]_vars
    OBVIOUS
  <1>2. NoSharedFiles'
    BY DEF vars, NoSharedFiles, InFiles, FilesOf, DisjointInv
  <1>3. TypeInv'
    BY <1>1, TypeNext DEF DisjointInv, Exclusive
  <1>4. NoOverlap'
    BY <1>2, <1>3, DisjointApart, PTL
  <1>5. [Next /\ NoOverlap']_vars
    BY <1>1, <1>4
  <1>. QED
    BY <1>1, <1>2, <1>5, ExclusiveNext, UpsertSoundNext, DoneNext DEF DisjointInv

LEMMA AlwaysDisjoint == DisjointSpec => []DisjointInv
  BY DisjointInit, DisjointNext, PTL DEF DisjointSpec

\* automode pulls one commit after the other.
LEMMA SerialIsDisjoint ==
  ASSUME Hand = {}
  PROVE  Spec => DisjointSpec
  <1>1. [Next]_vars => [Next /\ NoSharedFiles']_vars
    BY DEF NoSharedFiles, Pullers
  <1>. QED
    BY <1>1, PTL DEF Spec, DisjointSpec

\* Pulls of commits without a common file name, however many at once: what they mark
\* "pulled" is in the folder, whole and as announced, whatever faults and crashes came
\* before.
THEOREM DisjointPulledIsComplete == DisjointSpec => PulledIsComplete
  <1>. DEFINE Step == \A c \in Commits :
                        status[c] # "pulled" /\ status'[c] = "pulled" =>
                          \A f \in FilesOf(c) : final'[f] = Full(Listing[c][f])
  <1>2. DisjointInv /\ [Next /\ NoSharedFiles']_vars => [Step]_vars
    <2>. SUFFICES ASSUME DisjointInv, [Next]_vars, NEW c \in Commits,
                         status[c] # "pulled", status'[c] = "pulled",
                         NEW f \in FilesOf(c)
                  PROVE  final'[f] = Full(Listing[c][f])
      OBVIOUS
    <2>1. PICK p \in Pullers : /\ Finish(p) /\ pl[p].c = c
                               /\ InFiles(p) /\ ~ pl[p].failed
                               /\ UNCHANGED final
      BY PulledByFinish DEF DisjointInv, Exclusive
    <2>2. pl[p].todo = {}
      BY <2>1 DEF Finish
    <2>. QED
      BY <2>1, <2>2 DEF DisjointInv, Done
  <1>. QED
    BY AlwaysDisjoint, <1>2, PTL DEF DisjointSpec, PulledIsComplete

\* In particular those of automode alone.
COROLLARY SerialPulledIsComplete ==
  ASSUME Hand = {}
  PROVE  Spec => PulledIsComplete
  BY SerialIsDisjoint, DisjointPulledIsComplete, PTL

\* The version of a whole file.
LEMMA VersionOfFull ==
  ASSUME NEW v \in Versions
  PROVE  VersionOf(Full(v)) = v
  <1>1. Full(v) # NoFile
    BY LanPullAssumption DEF Full, Content
  <1>2. \A w \in Versions : Full(v) = Full(w) => v = w
    <2>1. 1 \in Blocks
      BY LanPullAssumption DEF Blocks
    <2>2. \A w : Full(w)[1] = w
      BY <2>1 DEF Full
    <2>. QED
      BY <2>2
  <1>. QED
    BY <1>1, <1>2 DEF VersionOf

\* What a step does to the folder: nothing, or one whole file of a commit that
\* was announced.
LEMMA FolderStep ==
  ASSUME DisjointInv, [Next]_vars
  PROVE  LET content == [f \in Files |-> VersionOf(final[f])]
         IN \/ content' = content
            \/ \E c \in Commits : \E g \in FilesOf(c) :
                 /\ status[c] # "none" /\ UNCHANGED status
                 /\ content' = [content EXCEPT ![g] = Listing[c][g]]
  <1>. DEFINE content == [f \in Files |-> VersionOf(final[f])]
  <1>. USE DEF DisjointInv, Exclusive
  <1>1. CASE \A f \in Files : final'[f] = final[f]
    BY <1>1
  <1>2. CASE \E f \in Files : final'[f] # final[f]
    <2>1. PICK g \in Files, p \in Pullers :
                 Rename(p) /\ pl[p].f = g /\ final'[g] = Full(Wanted(p))
      BY <1>2, FinalByRename
    <2>2. /\ pl[p].c \in Commits /\ g \in FilesOf(pl[p].c)
          /\ Wanted(p) \in Versions /\ Wanted(p) = Listing[pl[p].c][g]
          /\ status[pl[p].c] # "none"
      BY <2>1, AtWork DEF Rename, Busy, OnFile, Wanted, PullsAnnounced
    <2>3. \A f \in Files : f # g => final'[f] = final[f]
      BY <2>1 DEF Rename
    <2>4. UNCHANGED status
      BY <2>1 DEF Rename
    <2>5. content' = [content EXCEPT ![g] = Listing[pl[p].c][g]]
      <3>1. VersionOf(final'[g]) = Listing[pl[p].c][g]
        BY <2>1, <2>2, VersionOfFull
      <3>2. \A f \in Files : f # g => VersionOf(final'[f]) = VersionOf(final[f])
        BY <2>3
      <3>3. content' = [f \in Files |-> VersionOf(final'[f])]
        BY DEF VersionOf, Full
      <3>. QED
        BY <3>1, <3>2, <3>3
    <2>. QED
      BY <2>2, <2>4, <2>5
  <1>. QED
    BY <1>1, <1>2

\* What a step does to the statuses when the folder stays as it is.
LEMMA StatusStep ==
  ASSUME DisjointInv, [Next]_vars, status' # status
  PROVE  /\ UNCHANGED final
         /\ \/ \E c \in Commits : Announce(c) \/ Reject(c)
            \/ ClearFinished
            \/ \E c \in Commits : HasRow(c) /\ status' = [status EXCEPT ![c] = "pulling"]
            \/ \E c \in Commits : HasRow(c) /\ status' = [status EXCEPT ![c] = "failed"]
            \/ \E c \in Commits : /\ HasRow(c) /\ status' = [status EXCEPT ![c] = "pulled"]
                                  /\ \A f \in FilesOf(c) : final[f] = Full(Listing[c][f])
  <1>. USE DEF DisjointInv, Exclusive
  <1>1. CASE (\E c \in Commits : Announce(c) \/ Reject(c)) \/ ClearFinished
    BY <1>1 DEF Announce, Reject, ClearFinished
  <1>2. ASSUME NEW p \in Pullers, MarkPulling(p)
        PROVE  /\ UNCHANGED final
               /\ \E c \in Commits : HasRow(c) /\ status' = [status EXCEPT ![c] = "pulling"]
    BY <1>2, AtWork DEF MarkPulling, Busy
  <1>3. ASSUME NEW p \in Pullers, Finish(p)
        PROVE  /\ UNCHANGED final /\ pl[p].c \in Commits /\ HasRow(pl[p].c)
               /\ status' = [status EXCEPT ![pl[p].c] = Outcome(p)]
               /\ ~ pl[p].failed =>
                    \A f \in FilesOf(pl[p].c) : final[f] = Full(Listing[pl[p].c][f])
    BY <1>3, AtWork DEF Finish, Busy, Done, InFiles
  <1>4. \/ (\E c \in Commits : Announce(c) \/ Reject(c)) \/ ClearFinished
        \/ \E p \in Pullers : MarkPulling(p) \/ Finish(p)
    BY DEF Next, vars, HandlePull, AutoStep, AutoTick, AutoPull, PullStep, MakeDir,
           MakeDirFails, CheckDelta, Create, FetchFails, CopyBlock, CopyFails,
           CheckHash, Rename, RenameFails, Upsert, UpsertFails, StatusFails, Crash
  <1>. QED
    BY <1>1, <1>2, <1>3, <1>4 DEF Outcome

LEMMA FolderNext ==
  ASSUME DisjointInv, [Next]_vars
  PROVE  [Folder!Next]_(Folder!vars)
  <1>. DEFINE content == [f \in Files |-> VersionOf(final[f])]
  <1>1. CASE status' = status /\ content' = content
    BY <1>1 DEF Folder!vars
  <1>2. CASE content' # content
    <2>1. PICK c \in Commits : \E g \in FilesOf(c) :
                 /\ status[c] # "none" /\ UNCHANGED status
                 /\ content' = [content EXCEPT ![g] = Listing[c][g]]
      BY <1>2, FolderStep
    <2>2. \E g \in DOMAIN Listing[c] : Folder!Deliver(c, g)
      BY <2>1 DEF Folder!Deliver, FilesOf
    <2>. QED
      BY <2>2 DEF Folder!Next
  <1>3. CASE status' # status
    <2>1. content' = content
      BY <1>3, StatusStep
    <2>2. ASSUME NEW c \in Commits, Announce(c) \/ Reject(c) PROVE Folder!Next
      BY <2>1, <2>2 DEF Announce, Reject, HasRow, Folder!Next, Folder!Announce,
                        Folder!Reject, Folder!HasRow, Folder!SetStatus
    <2>3. CASE ClearFinished
      BY <2>1, <2>3 DEF ClearFinished, Finished, Folder!Next, Folder!ClearFinished,
                        Folder!Finished
    <2>4. ASSUME NEW c \in Commits, HasRow(c),
                 \/ status' = [status EXCEPT ![c] = "pulling"]
                 \/ status' = [status EXCEPT ![c] = "failed"]
          PROVE  Folder!Next
      BY <2>1, <2>4 DEF HasRow, Folder!Next, Folder!Begin, Folder!GiveUp,
                        Folder!HasRow, Folder!SetStatus
    <2>5. ASSUME NEW c \in Commits, HasRow(c),
                 status' = [status EXCEPT ![c] = "pulled"],
                 \A f \in FilesOf(c) : final[f] = Full(Listing[c][f])
          PROVE  Folder!Next
      <3>1. \A f \in FilesOf(c) : content[f] = Listing[c][f]
        BY <2>5, VersionOfFull, LanPullAssumption
      <3>2. Folder!Complete(c)
        BY <2>1, <2>5, <3>1 DEF HasRow, FilesOf, Folder!Complete, Folder!HasRow,
                                Folder!SetStatus
      <3>. QED
        BY <3>2 DEF Folder!Next
    <2>. QED
      BY <1>3, <2>2, <2>3, <2>4, <2>5, StatusStep
  <1>. QED
    BY <1>1, <1>2, <1>3

\* Pulls of commits without a common file name implement the abstract folder: through
\* every fault and crash, Avid sees whole announced files only, and "pulled" is said
\* only of a commit that is all there.
THEOREM DisjointPullsImplementFolder == DisjointSpec => ImplementsFolder
  <1>1. Init => Folder!Init
    BY DEF Init, Folder!Init, VersionOf
  <1>3. DisjointInv /\ [Next /\ NoSharedFiles']_vars => [Folder!Next]_(Folder!vars)
    BY FolderNext
  <1>. QED
    BY AlwaysDisjoint, <1>1, <1>3, PTL
       DEF DisjointSpec, ImplementsFolder, Folder!Spec

\* In particular those of automode alone.
COROLLARY SerialPullsImplementFolder ==
  ASSUME Hand = {}
  PROVE  Spec => ImplementsFolder
  BY SerialIsDisjoint, DisjointPullsImplementFolder, PTL
=============================================================================
