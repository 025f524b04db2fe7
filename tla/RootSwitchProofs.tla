-------------------------- MODULE RootSwitchProofs --------------------------
(***************************************************************************)
(* Theorems about RootSwitch, for any roots and any number of requests:    *)
(* the type invariant, and that the mutex of main.run keeps the transport, *)
(* *root and the root workers together.                                    *)
(***************************************************************************)
EXTENDS RootSwitch, TLAPS

(***************************************************************************)
(* The type invariant.  A request that is under way has a root.            *)
(***************************************************************************)
Chosen == \A q \in Req : req[q].pc # "idle" => req[q].root \in Roots

Typed == TypeOK /\ Chosen

ReqStates == [pc : Pcs, kind : {"select", "post"}, root : Roots \cup {None},
              at : {"tmp", "config", "orphan"}]

LEMMA IdleTyped == Idle \in ReqStates /\ Idle.pc = "idle"
  BY DEF Idle, ReqStates, Pcs

\* A request that goes on keeps all but its pc.
LEMMA GotoTyped ==
  ASSUME Typed, NEW q \in Req, NEW pc \in Pcs, req[q].pc # "idle", Goto(q, pc)
  PROVE  req' \in [Req -> ReqStates] /\ Chosen'
<1>1. req \in [Req -> ReqStates]
  BY DEF Typed, TypeOK, ReqStates
<1>2. req' = [req EXCEPT ![q].pc = pc]
  BY DEF Goto
<1>3. req' \in [Req -> ReqStates]
  BY <1>1, <1>2 DEF ReqStates
<1>4. \A p \in Req : req'[p].root = req[p].root /\ (p # q => req'[p] = req[p])
  BY <1>1, <1>2 DEF ReqStates
<1>5. QED
  BY <1>3, <1>4 DEF Typed, Chosen

LEMMA ReturnTyped ==
  ASSUME Typed, NEW q \in Req, Return(q)
  PROVE  req' \in [Req -> ReqStates] /\ Chosen'
<1>1. req \in [Req -> ReqStates]
  BY DEF Typed, TypeOK, ReqStates
<1>2. req' \in [Req -> ReqStates]
  BY <1>1, IdleTyped DEF Return
<1>3. \A p \in Req : req'[p] = IF p = q THEN Idle ELSE req[p]
  BY <1>1 DEF Return
<1>4. QED
  BY <1>2, <1>3, IdleTyped DEF Typed, Chosen

LEMMA MovedTyped ==
  ASSUME NEW s \in ReqStates
  PROVE  Moved(s) \in ReqStates /\ Moved(s).pc = s.pc /\ Moved(s).root = s.root
  BY DEF Moved, ReqStates

LEMMA TypedInit == Init => Typed
<1> SUFFICES ASSUME Init PROVE Typed
  OBVIOUS
<1>1. req \in [Req -> ReqStates]
  BY IdleTyped DEF Init
<1>2. Chosen
  BY IdleTyped DEF Init, Chosen
<1>3. QED
  BY <1>1, <1>2, RootSwitchAssumption DEF Init, Typed, TypeOK, ReqStates, Word

LEMMA SaveTyped ==
  ASSUME Typed, NEW q \in Req, SaveStep(q)
  PROVE  Typed'
<1> USE DEF roots, received, files, recon
<1>0. req \in [Req -> ReqStates]
  BY DEF Typed, TypeOK, ReqStates
<1>1. ASSUME NEW kind \in Kinds, NEW r \in Roots, OpenTmp(q, kind, r)
      PROVE  Typed'
  <2> DEFINE s == [pc |-> "write", kind |-> kind, root |-> r, at |-> "tmp"]
  <2>1. s \in ReqStates /\ s.root \in Roots
    BY RootSwitchAssumption DEF ReqStates, Pcs
  <2>2. req' = [req EXCEPT ![q] = s]
    BY <1>1 DEF OpenTmp
  <2> HIDE DEF s
  <2>3. req' \in [Req -> ReqStates]
    BY <1>0, <2>1, <2>2
  <2>4. \A p \in Req : req'[p] = IF p = q THEN s ELSE req[p]
    BY <1>0, <2>2
  <2>5. Chosen'
    BY <2>1, <2>4 DEF Typed, Chosen
  <2>6. QED
    BY <1>1, <2>3, <2>5 DEF OpenTmp, Typed, TypeOK, ReqStates
<1>2. CASE WriteTmp(q)
  <2>1. req' \in [Req -> ReqStates] /\ Chosen'
    BY <1>2, GotoTyped DEF WriteTmp, Pcs
  <2>2. req[q].root \in Roots
    BY <1>2 DEF WriteTmp, Typed, Chosen
  <2>3. \A x : Over(x, req[q].root) \subseteq Roots \cup {Mixed}
    BY <2>2 DEF Over
  <2>4. tmp' \in Roots \cup {Empty, Mixed, NoFile} /\ config' \in Roots \cup {Empty, Mixed}
    BY <1>2, <2>3 DEF WriteTmp, Typed, TypeOK
  <2>5. QED
    BY <1>2, <2>1, <2>4 DEF WriteTmp, Typed, TypeOK, ReqStates
<1>3. CASE RenameTmp(q)
  <2> DEFINE s == [req[q] EXCEPT !.pc = "lock"]
  <2>1. s \in ReqStates /\ s.root = req[q].root
    BY <1>0 DEF ReqStates, Pcs
  <2>2. req' = [p \in Req |-> IF p # q THEN Moved(req[p])
                              ELSE IF req[q].kind = "post" THEN Idle ELSE s]
    BY <1>3 DEF RenameTmp
  <2>3. req[q].root \in Roots
    BY <1>3 DEF RenameTmp, Typed, Chosen
  <2> HIDE DEF s
  <2>4. req' \in [Req -> ReqStates]
    BY <1>0, <2>1, <2>2, IdleTyped, MovedTyped
  <2>5. Chosen'
    BY <1>0, <2>1, <2>2, <2>3, IdleTyped, MovedTyped DEF Typed, Chosen
  <2>6. config' \in Roots \cup {Empty, Mixed} /\ tmp' = NoFile
    BY <1>3 DEF RenameTmp, Typed, TypeOK
  <2>7. QED
    BY <1>3, <2>4, <2>5, <2>6 DEF RenameTmp, Typed, TypeOK, ReqStates
<1>4. CASE RenameFails(q)
  <2>1. req' \in [Req -> ReqStates] /\ Chosen'
    BY <1>4, ReturnTyped DEF RenameFails
  <2>2. QED
    BY <1>4, <2>1 DEF RenameFails, Typed, TypeOK, ReqStates
<1>5. QED
  BY <1>1, <1>2, <1>3, <1>4 DEF SaveStep

LEMMA ReconfigureTyped ==
  ASSUME Typed, NEW q \in Req, ReconfigureStep(q)
  PROVE  Typed'
<1> USE DEF roots, received, files, recon
<1>1. CASE SetServer(q)
  <2>1. req' \in [Req -> ReqStates] /\ Chosen'
    BY <1>1, ReturnTyped DEF SetServer
  <2>2. req[q].root \in Roots
    BY <1>1 DEF SetServer, Typed, Chosen
  <2>3. QED
    BY <1>1, <2>1, <2>2 DEF SetServer, Typed, TypeOK, ReqStates
<1>2. ASSUME NEW from \in Pcs \ {"idle"}, NEW to \in Pcs, req[q].pc = from, Goto(q, to)
      PROVE  req' \in [Req -> ReqStates] /\ Chosen' /\ req[q].root \in Roots
  BY <1>2, GotoTyped DEF Typed, Chosen
<1>3. CASE Lock(q)
  <2>1. req' \in [Req -> ReqStates] /\ Chosen'
    BY <1>2, <1>3 DEF Lock, Pcs
  <2>2. QED
    BY <1>3, <2>1 DEF Lock, Typed, TypeOK, ReqStates
<1>4. CASE StopWorkers(q)
  <2>1. req' \in [Req -> ReqStates] /\ Chosen'
    BY <1>2, <1>4 DEF StopWorkers, Pcs
  <2>2. QED
    BY <1>4, <2>1 DEF StopWorkers, Typed, TypeOK, ReqStates
<1>5. CASE SetTransport(q)
  <2>1. req' \in [Req -> ReqStates] /\ Chosen' /\ req[q].root \in Roots
    BY <1>2, <1>5 DEF SetTransport, Pcs
  <2>2. QED
    BY <1>5, <2>1 DEF SetTransport, Typed, TypeOK, ReqStates
<1>6. CASE SetPtr(q)
  <2>1. req' \in [Req -> ReqStates] /\ Chosen' /\ req[q].root \in Roots
    BY <1>2, <1>6 DEF SetPtr, Pcs
  <2>2. mainRoot' \in [ptr : Roots, len : Roots]
    BY <1>6, <2>1 DEF SetPtr, Typed, TypeOK
  <2>3. QED
    BY <1>6, <2>1, <2>2 DEF SetPtr, Typed, TypeOK, ReqStates
<1>7. CASE SetLen(q)
  <2>1. req' \in [Req -> ReqStates] /\ Chosen' /\ req[q].root \in Roots
    BY <1>2, <1>7 DEF SetLen, Pcs
  <2>2. mainRoot' \in [ptr : Roots, len : Roots]
    BY <1>7, <2>1 DEF SetLen, Typed, TypeOK
  <2>3. QED
    BY <1>7, <2>1, <2>2 DEF SetLen, Typed, TypeOK, ReqStates
<1>8. CASE StartWorkers(q)
  <2>1. req' \in [Req -> ReqStates] /\ Chosen' /\ req[q].root \in Roots
    BY <1>2, <1>8 DEF StartWorkers, Pcs
  <2>2. QED
    BY <1>8, <2>1 DEF StartWorkers, Typed, TypeOK, ReqStates
<1>9. CASE StartFails(q)
  <2>1. req' \in [Req -> ReqStates] /\ Chosen'
    BY <1>2, <1>9 DEF StartFails, Pcs
  <2>2. QED
    BY <1>9, <2>1 DEF StartFails, Typed, TypeOK, ReqStates
<1>10. QED
  BY <1>1, <1>3, <1>4, <1>5, <1>6, <1>7, <1>8, <1>9 DEF ReconfigureStep

ReaderStep == \/ ReconcileStat \/ ReconcileDelete \/ ReconcileFails
              \/ DetectPtr \/ DetectLen
              \/ PullStarts \/ PullRenames \/ PullUpserts

LEMMA ReaderTyped == ASSUME Typed, ReaderStep PROVE Typed'
<1> USE DEF roots, received, files, recon, Typed, TypeOK
<1>0. req' = req
  BY DEF ReaderStep, ReconcileStat, ReconcileDelete, ReconcileFails, DetectPtr, DetectLen,
         PullStarts, PullRenames, PullUpserts
<1>1. Chosen'
  BY <1>0 DEF Chosen
<1>2. CASE ReconcileStat
  BY <1>1, <1>2 DEF ReconcileStat
<1>3. CASE ReconcileDelete
  BY <1>1, <1>3 DEF ReconcileDelete
<1>4. CASE DetectPtr
  BY <1>1, <1>4 DEF DetectPtr
<1>5. CASE DetectLen
  BY <1>1, <1>5 DEF DetectLen
<1>6. CASE PullStarts
  BY <1>1, <1>6 DEF PullStarts
<1>7. CASE PullRenames
  BY <1>1, <1>7 DEF PullRenames
<1>8. CASE PullUpserts
  BY <1>1, <1>8 DEF PullUpserts
<1>9. CASE ReconcileFails
  BY <1>1, <1>9 DEF ReconcileFails
<1>10. QED
  BY <1>2, <1>3, <1>4, <1>5, <1>6, <1>7, <1>8, <1>9 DEF ReaderStep

LEMMA TypedNext ==
  ASSUME Typed, [Next]_vars
  PROVE  Typed'
<1>1. CASE UNCHANGED vars
  BY <1>1 DEF vars, Typed, TypeOK, Chosen
<1>2. ASSUME NEW q \in Req, SaveStep(q) PROVE Typed'
  BY <1>2, SaveTyped
<1>3. ASSUME NEW q \in Req, ReconfigureStep(q) PROVE Typed'
  BY <1>3, ReconfigureTyped
<1>4. QED
  BY <1>1, <1>2, <1>3, ReaderTyped DEF Next, ReaderStep

LEMMA AlwaysTyped == Spec => []Typed
<1>1. Typed /\ [Next]_vars => Typed'
  BY TypedNext
<1>2. QED
  BY <1>1, TypedInit, PTL DEF Spec

\* Every variable keeps its type, whatever requests come in together.
THEOREM TypeCorrect == Spec => []TypeOK
<1>1. Typed => TypeOK
  BY DEF Typed
<1>2. QED
  BY <1>1, AlwaysTyped, PTL

(***************************************************************************)
(* The mutex.  A request is between stop and start exactly when it holds   *)
(* the lock; there it has carried its root as far as its pc says; and when *)
(* nobody holds the lock the last one left the three of them together.     *)
(***************************************************************************)
Locked == {"stop", "transport", "ptr", "len", "start"}

Mutex == \A q \in Req : req[q].pc \in Locked <=> lock = q

Carried == \A q \in Req :
  /\ req[q].pc \in {"ptr", "len", "start"} => tRoot = req[q].root
  /\ req[q].pc \in {"len", "start"} => mainRoot.ptr = req[q].root
  /\ req[q].pc = "start" => mainRoot.len = req[q].root

Together == Mutex /\ Carried /\ RuntimeAgrees

\* One request moves, the others keep their place; none of them moves into or
\* out of the locked part but by Lock and StartWorkers.
Moves(q, from, to) ==
  /\ req[q].pc = from /\ req'[q].pc = to
  /\ req'[q].root = req[q].root
  /\ \A p \in Req : p # q => req'[p] = req[p]

LEMMA GotoMoves ==
  ASSUME Typed, NEW q \in Req, NEW to, Goto(q, to)
  PROVE  Moves(q, req[q].pc, to)
<1>1. req \in [Req -> ReqStates]
  BY DEF Typed, TypeOK, ReqStates
<1>2. QED
  BY <1>1 DEF Goto, Moves, ReqStates

LEMMA SaveTogether ==
  ASSUME Typed, Together, NEW q \in Req, SaveStep(q)
  PROVE  Together'
<1>0. req \in [Req -> ReqStates]
  BY DEF Typed, TypeOK, ReqStates
<1>1. lock' = lock /\ tRoot' = tRoot /\ mainRoot' = mainRoot /\ workers' = workers
      /\ skipped' = skipped
  BY DEF SaveStep, OpenTmp, WriteTmp, RenameTmp, RenameFails, roots, recon
<1>2. \A p \in Req : \/ req'[p].pc = req[p].pc /\ req'[p].root = req[p].root
                     \/ req[p].pc \notin Locked /\ req'[p].pc \notin Locked
  <2>1. ASSUME NEW kind \in Kinds, NEW r \in Roots, OpenTmp(q, kind, r)
        PROVE  req[q].pc = "idle" /\ req'[q].pc = "write"
               /\ \A p \in Req : p # q => req'[p] = req[p]
    BY <1>0, <2>1 DEF OpenTmp
  <2>2. WriteTmp(q) => Moves(q, "write", "rename")
    BY GotoMoves DEF WriteTmp
  <2>3. CASE RenameTmp(q)
    <3>1. req[q].pc = "rename"
      BY <2>3 DEF RenameTmp
    <3>2. req'[q].pc \in {"idle", "lock"}
      BY <1>0, <2>3, IdleTyped DEF RenameTmp, ReqStates
    <3>3. \A p \in Req : p # q => req'[p] = Moved(req[p])
      BY <1>0, <2>3 DEF RenameTmp
    <3>4. QED
      BY <1>0, <3>1, <3>2, <3>3, MovedTyped DEF Locked
  <2>4. CASE RenameFails(q)
    <3>1. req[q].pc = "rename"
      BY <2>4 DEF RenameFails
    <3>2. \A p \in Req : req'[p] = IF p = q THEN Idle ELSE req[p]
      BY <1>0, <2>4 DEF RenameFails, Return
    <3>3. QED
      BY <3>1, <3>2, IdleTyped DEF Locked
  <2>5. QED
    BY <2>1, <2>2, <2>3, <2>4 DEF SaveStep, Moves, Locked
<1>3. Mutex'
  BY <1>1, <1>2 DEF Together, Mutex
<1>4. Carried'
  BY <1>1, <1>2 DEF Together, Carried, Locked
<1>5. QED
  BY <1>1, <1>3, <1>4 DEF Together, RuntimeAgrees

LEMMA ReconfigureTogether ==
  ASSUME Typed, Together, NEW q \in Req, ReconfigureStep(q)
  PROVE  Together'
<1> USE DEF Together, Mutex, Carried, RuntimeAgrees, Locked, Moves
<1>0. lock \in Req \cup {None} /\ None \notin Req
  BY RootSwitchAssumption DEF Typed, TypeOK
<1>1. CASE Lock(q)
  <2>1. Moves(q, "lock", "stop")
    BY <1>1, GotoMoves DEF Lock
  <2>2. lock = None /\ lock' = q
    BY <1>1 DEF Lock
  <2>3. QED
    BY <1>0, <1>1, <2>1, <2>2 DEF Lock, roots
<1>2. CASE StopWorkers(q)
  <2>1. Moves(q, "stop", "transport")
    BY <1>2, GotoMoves DEF StopWorkers
  <2>2. QED
    BY <1>0, <1>2, <2>1 DEF StopWorkers
<1>3. CASE SetTransport(q)
  <2>1. Moves(q, "transport", "ptr")
    BY <1>3, GotoMoves DEF SetTransport
  <2>2. QED
    BY <1>0, <1>3, <2>1 DEF SetTransport
<1>4. CASE SetPtr(q)
  <2>1. Moves(q, "ptr", "len")
    BY <1>4, GotoMoves DEF SetPtr
  <2>2. mainRoot'.ptr = req[q].root
    BY <1>4 DEF SetPtr, Typed, TypeOK
  <2>3. QED
    BY <1>0, <1>4, <2>1, <2>2 DEF SetPtr
<1>5. CASE SetLen(q)
  <2>1. Moves(q, "len", "start")
    BY <1>5, GotoMoves DEF SetLen
  <2>2. mainRoot'.len = req[q].root /\ mainRoot'.ptr = mainRoot.ptr
    BY <1>5 DEF SetLen, Typed, TypeOK
  <2>3. QED
    BY <1>0, <1>5, <2>1, <2>2 DEF SetLen
<1>6. CASE StartWorkers(q)
  <2>1. Moves(q, "start", "server")
    BY <1>6, GotoMoves DEF StartWorkers
  <2>2. mainRoot = Word(req[q].root)
    <3>1. mainRoot.ptr = req[q].root /\ mainRoot.len = req[q].root
      BY <2>1
    <3>2. QED
      BY <3>1 DEF Word, Typed, TypeOK
  <2>3. tRoot = req[q].root
    BY <2>1
  <2>4. lock = q /\ lock' = None /\ workers' = req[q].root
    BY <1>6, <2>1 DEF StartWorkers
  <2>5. tRoot' = tRoot /\ mainRoot' = mainRoot
    BY <1>6 DEF StartWorkers
  <2>6. RuntimeAgrees'
    BY <2>2, <2>3, <2>4, <2>5 DEF Word
  <2>7. Mutex'
    BY <1>0, <2>1, <2>4
  <2>8. Carried'
    BY <1>0, <2>1, <2>4, <2>5
  <2>9. QED
    BY <2>6, <2>7, <2>8
<1>7. CASE SetServer(q)
  <2>1. req[q].pc = "server" /\ \A p \in Req : req'[p] = IF p = q THEN Idle ELSE req[p]
    BY <1>7 DEF SetServer, Return, Typed, TypeOK
  <2>2. QED
    BY <1>0, <1>7, <2>1, IdleTyped DEF SetServer, recon
<1>8. CASE StartFails(q)
  <2>1. Moves(q, "start", "server")
    BY <1>8, GotoMoves DEF StartFails
  <2>2. mainRoot = Word(req[q].root)
    <3>1. mainRoot.ptr = req[q].root /\ mainRoot.len = req[q].root
      BY <2>1
    <3>2. QED
      BY <3>1 DEF Word, Typed, TypeOK
  <2>3. tRoot = req[q].root
    BY <2>1
  <2>4. lock = q /\ lock' = None /\ workers' = None /\ skipped'
    BY <1>8, <2>1 DEF StartFails
  <2>5. tRoot' = tRoot /\ mainRoot' = mainRoot
    BY <1>8 DEF StartFails
  <2>6. RuntimeAgrees'
    BY <2>2, <2>3, <2>4, <2>5 DEF Word
  <2>7. Mutex'
    BY <1>0, <2>1, <2>4
  <2>8. Carried'
    BY <1>0, <2>1, <2>4, <2>5
  <2>9. QED
    BY <2>6, <2>7, <2>8
<1>9. QED
  BY <1>1, <1>2, <1>3, <1>4, <1>5, <1>6, <1>7, <1>8 DEF ReconfigureStep

LEMMA TogetherNext ==
  ASSUME Typed, Together, [Next]_vars
  PROVE  Together'
<1>1. CASE ReaderStep \/ UNCHANGED vars
  <2>1. req' = req /\ lock' = lock /\ tRoot' = tRoot /\ mainRoot' = mainRoot
        /\ workers' = workers /\ (skipped' = skipped \/ workers # None)
    BY <1>1 DEF recon, ReaderStep, ReconcileStat, ReconcileDelete,
                ReconcileFails, DetectPtr, DetectLen, PullStarts, PullRenames,
                PullUpserts, roots, vars
  <2>2. QED
    BY <2>1 DEF Together, Mutex, Carried, RuntimeAgrees
<1>2. ASSUME NEW q \in Req, SaveStep(q) PROVE Together'
  BY <1>2, SaveTogether
<1>3. ASSUME NEW q \in Req, ReconfigureStep(q) PROVE Together'
  BY <1>3, ReconfigureTogether
<1>4. QED
  BY <1>1, <1>2, <1>3 DEF Next, ReaderStep

\* Outside reconfigure the transport, *root and the root workers are at one root,
\* for any number of selections at once.
THEOREM RuntimeStaysTogether == Spec => []RuntimeAgrees
<1>1. Init => Together
  BY IdleTyped, RootSwitchAssumption
     DEF Init, Together, Mutex, Carried, RuntimeAgrees, Locked, Word
<1>2. Typed /\ Together /\ [Next]_vars => Together'
  BY TogetherNext
<1>3. Together => RuntimeAgrees
  BY DEF Together
<1>4. QED
  BY <1>1, <1>2, <1>3, AlwaysTyped, PTL DEF Spec

(***************************************************************************)
(* One request at a time.  As long as no request met another one or a pull *)
(* (clean), at most one of them is busy, and the files and roots are where *)
(* its pc says; the rows of received files were reconciled with the root   *)
(* of the workers, or the reconciliation failed (skipped).                 *)
(***************************************************************************)
Busy(q) == req[q].pc # "idle"

Alone == \A p, q \in Req : Busy(p) /\ Busy(q) => p = q

Saved(q) ==
  /\ req[q].pc = "write"  => req[q].at = "tmp" /\ tmp = Empty
  /\ req[q].pc = "rename" => tmp = req[q].root
  /\ req[q].pc \in Locked \cup {"lock", "server"} => config = req[q].root

Shown(q) ==
  /\ req[q].pc \in {"write", "rename", "lock", "stop", "transport"} => sRoot = tRoot
  /\ req[q].pc = "server" => /\ tRoot = req[q].root
                             /\ workers = req[q].root \/ (workers = None /\ skipped)

PullHere == pull # None => Quiet /\ pull = tRoot

Reconciled ==
  row /\ reconcile = "done" /\ workers # None /\ ~ skipped => workers \in onDisk

Lone ==
  /\ Alone
  /\ config \in Roots
  /\ Quiet => sRoot = tRoot
  /\ \A q \in Req : Saved(q) /\ Shown(q)
  /\ PullHere
  /\ Reconciled

\* The others rest while q is busy.
LEMMA OthersRest ==
  ASSUME Alone, NEW q \in Req, Busy(q)
  PROVE  ~ Quiet /\ \A p \in Req : p # q => req[p].pc = "idle"
  BY DEF Alone, Busy, Quiet

\* What is left to show of a step of q, the only busy request.
LEMMA LoneStep ==
  ASSUME NEW q \in Req,
         \A p \in Req : p # q => req'[p].pc = "idle",
         config' \in Roots,
         req'[q].pc = "idle" => sRoot' = tRoot',
         Saved(q)', Shown(q)', PullHere', Reconciled'
  PROVE  Lone'
<1>1. Alone'
  BY DEF Alone, Busy
<1>2. Quiet' => sRoot' = tRoot'
  BY DEF Quiet
<1>3. ASSUME NEW p \in Req PROVE Saved(p)' /\ Shown(p)'
  BY <1>3 DEF Saved, Shown, Locked
<1>4. QED
  BY <1>1, <1>2, <1>3 DEF Lone

LEMMA SaveLone ==
  ASSUME Typed, Lone, NEW q \in Req, SaveStep(q), clean'
  PROVE  Lone'
<1> USE DEF roots, received, files, recon
<1>0. req \in [Req -> ReqStates]
  BY DEF Typed, TypeOK, ReqStates
<1>1. /\ lock' = lock /\ tRoot' = tRoot /\ sRoot' = sRoot /\ workers' = workers
      /\ skipped' = skipped
      /\ reconcile' = reconcile /\ pull' = pull /\ onDisk' = onDisk /\ row' = row
  BY DEF SaveStep, OpenTmp, WriteTmp, RenameTmp, RenameFails
<1>2. Reconciled'
  BY <1>1 DEF Lone, Reconciled
<1>3. pull = None
  BY DEF Lone, PullHere, SaveStep, OpenTmp, WriteTmp, RenameTmp, RenameFails, Quiet
<1>4. PullHere'
  BY <1>1, <1>3 DEF PullHere
<1>5. ASSUME NEW kind \in Kinds, NEW r \in Roots, OpenTmp(q, kind, r)
      PROVE  Lone'
  <2> DEFINE s == [pc |-> "write", kind |-> kind, root |-> r, at |-> "tmp"]
  <2>1. Quiet
    BY <1>5 DEF OpenTmp
  <2>2. s.pc = "write" /\ s.at = "tmp"
    OBVIOUS
  <2>3. req' = [req EXCEPT ![q] = s]
    BY <1>5 DEF OpenTmp
  <2> HIDE DEF s
  <2>4. \A p \in Req : req'[p] = IF p = q THEN s ELSE req[p]
    BY <1>0, <2>3
  <2>5. tmp' = Empty /\ config' = config
    BY <1>5 DEF OpenTmp
  <2>6. sRoot = tRoot
    BY <2>1 DEF Lone
  <2>7. Saved(q)' /\ Shown(q)'
    BY <1>1, <2>2, <2>4, <2>5, <2>6 DEF Saved, Shown, Locked
  <2>8. \A p \in Req : p # q => req'[p].pc = "idle"
    BY <2>1, <2>4 DEF Quiet
  <2>9. QED
    BY <1>1, <1>2, <1>4, <2>5, <2>6, <2>7, <2>8, LoneStep DEF Lone
<1>6. CASE WriteTmp(q)
  <2>1. Moves(q, "write", "rename")
    BY <1>6, GotoMoves DEF WriteTmp
  <2>2. \A p \in Req : p # q => req'[p].pc = "idle"
    BY <2>1, OthersRest DEF Moves, Lone, Busy
  <2>3. req[q].at = "tmp" /\ tmp = Empty /\ sRoot = tRoot
    BY <2>1 DEF Moves, Lone, Saved, Shown
  <2>4. tmp' = req[q].root /\ config' = config
    BY <1>6, <2>3 DEF WriteTmp, Over
  <2>5. Saved(q)' /\ Shown(q)'
    BY <1>1, <2>1, <2>3, <2>4 DEF Moves, Saved, Shown, Locked
  <2>6. QED
    BY <1>1, <1>2, <1>4, <2>2, <2>3, <2>4, <2>5, LoneStep DEF Lone
<1>7. CASE RenameTmp(q)
  <2>1. req[q].pc = "rename"
    BY <1>7 DEF RenameTmp
  <2>2. \A p \in Req : p # q => req[p].pc = "idle"
    BY <2>1, OthersRest DEF Lone, Busy
  <2>3. \A p \in Req : p # q => req'[p] = Moved(req[p])
    BY <1>0, <1>7 DEF RenameTmp
  <2>4. \A p \in Req : p # q => req'[p].pc = "idle"
    BY <1>0, <2>2, <2>3, MovedTyped
  <2>5. tmp = req[q].root /\ sRoot = tRoot /\ req[q].root \in Roots
    BY <2>1 DEF Lone, Saved, Shown, Typed, Chosen
  <2>6. req'[q] = IF req[q].kind = "post" THEN Idle ELSE [req[q] EXCEPT !.pc = "lock"]
    BY <1>0, <1>7 DEF RenameTmp
  <2>7. req'[q].pc = "idle" \/ (req'[q].pc = "lock" /\ req'[q].root = req[q].root)
    BY <1>0, <2>6, IdleTyped DEF ReqStates
  <2>8. config' = req[q].root
    BY <1>7, <2>5 DEF RenameTmp
  <2>9. Saved(q)' /\ Shown(q)'
    BY <1>1, <2>5, <2>7, <2>8 DEF Saved, Shown, Locked
  <2>10. QED
    BY <1>1, <1>2, <1>4, <2>4, <2>5, <2>8, <2>9, LoneStep
<1>8. CASE RenameFails(q)
  <2>1. req[q].pc = "rename" /\ tmp = NoFile
    BY <1>8 DEF RenameFails
  <2>2. tmp \in Roots
    BY <2>1 DEF Lone, Saved, Typed, Chosen
  <2>3. QED
    BY <2>1, <2>2, RootSwitchAssumption
<1>9. QED
  BY <1>5, <1>6, <1>7, <1>8 DEF SaveStep

LEMMA ReconfigureLone ==
  ASSUME Typed, Together, Lone, NEW q \in Req, ReconfigureStep(q)
  PROVE  Lone'
<1> USE DEF roots, received, files, recon
<1>0. req \in [Req -> ReqStates]
  BY DEF Typed, TypeOK, ReqStates
<1>1. Busy(q) /\ req[q].root \in Roots
  BY DEF ReconfigureStep, Lock, StopWorkers, SetTransport, SetPtr, SetLen, StartWorkers,
         StartFails, SetServer, Busy, Typed, Chosen
<1>2. \A p \in Req : p # q => req[p].pc = "idle"
  BY <1>1, OthersRest DEF Lone
<1>3. pull' = None /\ row' = row /\ onDisk' = onDisk /\ config' = config
  <2>1. pull = None
    BY <1>1, OthersRest DEF Lone, PullHere
  <2>2. QED
    BY <2>1 DEF ReconfigureStep, Lock, StopWorkers, SetTransport, SetPtr, SetLen,
                StartWorkers, StartFails, SetServer
<1>4. PullHere' /\ config' \in Roots
  BY <1>3 DEF PullHere, Lone
<1>5. ASSUME NEW from, NEW to, Moves(q, from, to), to # "idle", Shown(q)', Reconciled',
             from \in Locked \cup {"lock"}, to \in Locked \cup {"server"}
      PROVE  Lone'
  <2>1. \A p \in Req : p # q => req'[p].pc = "idle"
    BY <1>2, <1>5 DEF Moves
  <2>2. Saved(q)'
    BY <1>3, <1>5 DEF Moves, Saved, Lone, Locked
  <2>3. QED
    BY <1>4, <1>5, <2>1, <2>2, LoneStep DEF Moves
<1>6. CASE Lock(q)
  <2>1. Moves(q, "lock", "stop")
    BY <1>6, GotoMoves DEF Lock
  <2>2. Shown(q)' /\ Reconciled'
    BY <1>3, <1>6, <2>1 DEF Lock, Moves, Lone, Shown, Reconciled
  <2>3. QED
    BY <1>5, <2>1, <2>2 DEF Locked
<1>7. CASE StopWorkers(q)
  <2>1. Moves(q, "stop", "transport")
    BY <1>7, GotoMoves DEF StopWorkers
  <2>2. Shown(q)' /\ Reconciled'
    BY <1>3, <1>7, <2>1 DEF StopWorkers, Moves, Lone, Shown, Reconciled
  <2>3. QED
    BY <1>5, <2>1, <2>2 DEF Locked
<1>8. CASE SetTransport(q)
  <2>1. Moves(q, "transport", "ptr")
    BY <1>8, GotoMoves DEF SetTransport
  <2>2. Shown(q)' /\ Reconciled'
    BY <1>3, <1>8, <2>1 DEF SetTransport, Moves, Lone, Shown, Reconciled
  <2>3. QED
    BY <1>5, <2>1, <2>2 DEF Locked
<1>9. CASE SetPtr(q)
  <2>1. Moves(q, "ptr", "len")
    BY <1>9, GotoMoves DEF SetPtr
  <2>2. Shown(q)' /\ Reconciled'
    BY <1>3, <1>9, <2>1 DEF SetPtr, Moves, Lone, Shown, Reconciled
  <2>3. QED
    BY <1>5, <2>1, <2>2 DEF Locked
<1>10. CASE SetLen(q)
  <2>1. Moves(q, "len", "start")
    BY <1>10, GotoMoves DEF SetLen
  <2>2. Shown(q)' /\ Reconciled'
    BY <1>3, <1>10, <2>1 DEF SetLen, Moves, Lone, Shown, Reconciled
  <2>3. QED
    BY <1>5, <2>1, <2>2 DEF Locked
<1>11. CASE StartWorkers(q)
  <2>1. Moves(q, "start", "server")
    BY <1>11, GotoMoves DEF StartWorkers
  <2>2. tRoot = req[q].root
    BY <2>1 DEF Moves, Together, Carried
  <2>3. Shown(q)' /\ Reconciled'
    BY <1>11, <2>1, <2>2 DEF StartWorkers, Moves, Shown, Reconciled
  <2>4. QED
    BY <1>5, <2>1, <2>3 DEF Locked
<1>12. CASE StartFails(q)
  <2>1. Moves(q, "start", "server")
    BY <1>12, GotoMoves DEF StartFails
  <2>2. tRoot = req[q].root
    BY <2>1 DEF Moves, Together, Carried
  <2>3. Shown(q)' /\ Reconciled'
    BY <1>12, <2>1, <2>2 DEF StartFails, Moves, Shown, Reconciled
  <2>4. QED
    BY <1>5, <2>1, <2>3 DEF Locked
<1>13. CASE SetServer(q)
  <2>1. req[q].pc = "server" /\ \A p \in Req : req'[p] = IF p = q THEN Idle ELSE req[p]
    BY <1>0, <1>13 DEF SetServer, Return
  <2>2. sRoot' = tRoot'
    BY <1>13, <2>1 DEF SetServer, Lone, Shown
  <2>3. Reconciled'
    BY <1>3, <1>13 DEF SetServer, Lone, Reconciled
  <2>4. Saved(q)' /\ Shown(q)'
    BY <2>1, IdleTyped DEF Saved, Shown, Locked
  <2>5. \A p \in Req : p # q => req'[p].pc = "idle"
    BY <1>2, <2>1
  <2>6. QED
    BY <1>4, <2>2, <2>3, <2>4, <2>5, LoneStep
<1>14. QED
  BY <1>6, <1>7, <1>8, <1>9, <1>10, <1>11, <1>12, <1>13 DEF ReconfigureStep

\* With no request under way, the workers are at the root of the transport, if there
\* are any.
LEMMA QuietTogether ==
  ASSUME Typed, Together, Quiet
  PROVE  workers = tRoot \/ (workers = None /\ skipped)
<1>1. lock = None
  BY RootSwitchAssumption DEF Typed, TypeOK, Together, Mutex, Quiet, Locked
<1>2. QED
  BY <1>1 DEF Together, RuntimeAgrees

LEMMA ReaderLone ==
  ASSUME Typed, Together, Lone, ReaderStep, clean'
  PROVE  Lone'
<1> USE DEF roots, received, files, recon
<1>1. req' = req /\ config' = config /\ tmp' = tmp /\ tRoot' = tRoot /\ sRoot' = sRoot
      /\ workers' = workers
  BY DEF ReaderStep, ReconcileStat, ReconcileDelete, ReconcileFails, DetectPtr, DetectLen,
         PullStarts, PullRenames, PullUpserts
<1>k. skipped' = skipped \/ workers # None
  BY DEF ReaderStep, ReconcileStat, ReconcileDelete, ReconcileFails, DetectPtr, DetectLen,
         PullStarts, PullRenames, PullUpserts
<1>2. /\ Alone' /\ config' \in Roots /\ (Quiet' => sRoot' = tRoot')
      /\ \A q \in Req : Saved(q)' /\ Shown(q)'
  BY <1>1, <1>k DEF Lone, Alone, Busy, Quiet, Saved, Shown
<1>3. PullHere'
  BY <1>1 DEF ReaderStep, ReconcileStat, ReconcileDelete, ReconcileFails, DetectPtr, DetectLen,
              PullStarts, PullRenames, PullUpserts, Lone, PullHere, Quiet
<1>4. Reconciled'
  <2>1. CASE ReconcileStat
    BY <2>1 DEF ReconcileStat, Reconciled
  <2>2. CASE ReconcileDelete
    BY <2>2 DEF ReconcileDelete, Reconciled
  <2>f. CASE ReconcileFails
    BY <2>f DEF ReconcileFails, Reconciled
  <2>3. CASE DetectPtr \/ DetectLen \/ PullStarts \/ PullRenames
    <3>1. row' = row /\ reconcile' = reconcile /\ skipped' = skipped /\ onDisk \subseteq onDisk'
      BY <2>3 DEF DetectPtr, DetectLen, PullStarts, PullRenames
    <3>2. QED
      BY <1>1, <3>1 DEF Lone, Reconciled
  <2>4. CASE PullUpserts
    <3>1. Quiet /\ pull = tRoot /\ pull \in onDisk
      BY <2>4 DEF PullUpserts, Lone, PullHere
    <3>2. workers \in onDisk \/ workers = None
      BY <3>1, QuietTogether
    <3>3. QED
      BY <2>4, <3>2 DEF PullUpserts, Reconciled
  <2>5. QED
    BY <2>1, <2>2, <2>f, <2>3, <2>4 DEF ReaderStep
<1>5. QED
  BY <1>2, <1>3, <1>4 DEF Lone

LEMMA LoneNext ==
  ASSUME Typed, Together, clean => Lone, [Next]_vars
  PROVE  (clean => Lone)'
<1> SUFFICES ASSUME clean' PROVE Lone'
  OBVIOUS
<1>1. clean
  BY Zenon DEF Next, SaveStep, OpenTmp, WriteTmp, RenameTmp, RenameFails, ReconfigureStep,
     Lock, StopWorkers, SetTransport, SetPtr, SetLen, StartWorkers, StartFails, SetServer,
     ReconcileStat, ReconcileDelete, ReconcileFails, DetectPtr, DetectLen, PullStarts, PullRenames,
     PullUpserts, vars
<1>2. Lone
  BY <1>1
<1>3. CASE UNCHANGED vars
  BY <1>2, <1>3 DEF vars, Lone, Alone, Busy, Quiet, Saved, Shown, PullHere, Reconciled
<1>4. ASSUME NEW q \in Req, SaveStep(q) PROVE Lone'
  BY <1>2, <1>4, SaveLone
<1>5. ASSUME NEW q \in Req, ReconfigureStep(q) PROVE Lone'
  BY <1>2, <1>5, ReconfigureLone
<1>6. CASE ReaderStep
  BY <1>2, <1>6, ReaderLone
<1>7. QED
  BY <1>3, <1>4, <1>5, <1>6 DEF Next, ReaderStep

LEMMA AlwaysLone == Spec => [](Typed /\ Together /\ (clean => Lone))
<1>1. Init => Together
  BY IdleTyped, RootSwitchAssumption
     DEF Init, Together, Mutex, Carried, RuntimeAgrees, Locked, Word
<1>2. Init => Lone
  <2> SUFFICES ASSUME Init PROVE Lone
    OBVIOUS
  <2>1. \A q \in Req : req[q].pc = "idle"
    BY IdleTyped DEF Init
  <2>2. Alone /\ \A q \in Req : Saved(q) /\ Shown(q)
    BY <2>1 DEF Alone, Busy, Saved, Shown, Locked
  <2>3. QED
    BY <2>2, RootSwitchAssumption DEF Init, Lone, PullHere, Reconciled
<1>3. Typed /\ Together /\ (clean => Lone) /\ [Next]_vars
        => Together' /\ (clean => Lone)'
  BY TogetherNext, LoneNext
<1>4. QED
  BY <1>1, <1>2, <1>3, AlwaysTyped, PTL DEF Spec

\* One change of the root at a time: when it is over the page shows the root that
\* the transport, and with it the rest, is at.
THEOREM PageAgrees == Spec => []PageShowsRoot
<1>1. (clean => Lone) => PageShowsRoot
  BY DEF Lone, PageShowsRoot
<1>2. QED
  BY <1>1, AlwaysLone, PTL

\* One save at a time: config.json is whole at every instant of it.
THEOREM SaveIsWhole == Spec => []LoneSaveIsWhole
<1>1. (clean => Lone) => LoneSaveIsWhole
  BY DEF Lone, LoneSaveIsWhole, ConfigIsWhole
<1>2. QED
  BY <1>1, AlwaysLone, PTL

\* Whatever roots were chosen before: what the inventory names is under the root, unless
\* the last reconciliation failed or a pull was running when the root changed.
THEOREM InventoryIsTrue == Spec => []InventoryIsOnDisk
<1>1. Typed /\ Together /\ (clean => Lone) => InventoryIsOnDisk
  BY QuietTogether, RootSwitchAssumption
     DEF Lone, Reconciled, InventoryIsOnDisk, Stable, Typed, TypeOK
<1>2. QED
  BY <1>1, AlwaysLone, PTL

\* A selection that is answered is in effect everywhere, and saved (but for the workers,
\* if watcher.New fails).
THEOREM SelectionTakesEffect == Spec => SelectionIsApplied
<1> DEFINE A == \A q \in Req :
       clean /\ req[q].pc = "server" /\ req'[q].pc = "idle" =>
         /\ config'  = req[q].root
         /\ tRoot'   = req[q].root
         /\ workers' = req[q].root \/ (workers' = None /\ skipped')
         /\ sRoot'   = req[q].root
<1>1. Typed /\ (clean => Lone) /\ [Next]_vars => [A]_vars
  <2> SUFFICES ASSUME Typed, clean => Lone, Next, NEW q \in Req,
                      clean, req[q].pc = "server", req'[q].pc = "idle"
               PROVE  /\ config'  = req[q].root
                      /\ tRoot'   = req[q].root
                      /\ workers' = req[q].root \/ (workers' = None /\ skipped')
                      /\ sRoot'   = req[q].root
    OBVIOUS
  <2>0. req \in [Req -> ReqStates]
    BY DEF Typed, TypeOK, ReqStates
  <2>1. /\ config = req[q].root /\ tRoot = req[q].root
        /\ workers = req[q].root \/ (workers = None /\ skipped)
    BY DEF Lone, Saved, Shown
  <2>2. \A p \in Req : p # q => req[p].pc = "idle"
    BY OthersRest DEF Lone, Busy
  <2>3. SetServer(q)
    <3>1. ~ ReaderStep
      BY DEF ReaderStep, ReconcileStat, ReconcileDelete, ReconcileFails, DetectPtr, DetectLen,
             PullStarts, PullRenames, PullUpserts
    <3>2. ASSUME NEW p \in Req, SaveStep(p) PROVE FALSE
      <4>1. req[p].pc \in {"idle", "write", "rename"}
        BY <3>2 DEF SaveStep, OpenTmp, WriteTmp, RenameTmp, RenameFails
      <4>2. p # q /\ req[p].pc = "idle"
        BY <2>2, <4>1
      <4>3. PICK kind \in Kinds, r \in Roots : OpenTmp(p, kind, r)
        BY <3>2, <4>2 DEF SaveStep, WriteTmp, RenameTmp, RenameFails
      <4>4. req'[q] = req[q]
        BY <2>0, <4>2, <4>3 DEF OpenTmp
      <4>5. QED
        BY <4>4
    <3>3. ASSUME NEW p \in Req, ReconfigureStep(p) PROVE p = q /\ SetServer(q)
      <4>1. req[p].pc \in Locked \cup {"lock", "server"}
        BY <3>3 DEF ReconfigureStep, Lock, StopWorkers, SetTransport, SetPtr, SetLen,
                    StartWorkers, StartFails, SetServer, Locked
      <4>2. p = q
        BY <2>2, <4>1 DEF Locked
      <4>3. QED
        BY <3>3, <4>2 DEF ReconfigureStep, Lock, StopWorkers, SetTransport, SetPtr,
                          SetLen, StartWorkers, StartFails
    <3>4. QED
      BY <3>1, <3>2, <3>3 DEF Next, ReaderStep
  <2>4. QED
    BY <2>1, <2>3 DEF SetServer, files, recon
<1>2. QED
  BY <1>1, AlwaysLone, PTL DEF Spec, SelectionIsApplied
=============================================================================
