--------------------------- MODULE ProcessProofs ---------------------------
(***************************************************************************)
(* Theorems about the workers of a root and the end of the process, for    *)
(* any requests, folder and capacity of the channel: what stop promises;   *)
(* that the scope of the root behaves as RootWorkers says, whatever the    *)
(* requests, automode and the shutdown do around it; that the workers end  *)
(* before the manifest is closed; and that the requests' pulls do, if the  *)
(* five seconds suffice.                                                   *)
(***************************************************************************)
EXTENDS Process, TLAPS

(***************************************************************************)
(* The type invariant.  A timer is armed by a write, so there are never    *)
(* more timers than writes: that is what bounds them.                      *)
(***************************************************************************)
Typed == TypeOK /\ timers <= writes

LEMMA TypedInit == Init => Typed
  BY RootWorkersAssumption DEF Init, Typed, TypeOK

LEMMA TypedNext == Typed /\ [Next]_vars => Typed'
<1> SUFFICES ASSUME Typed, [Next]_vars PROVE Typed'
  OBVIOUS
<1> USE RootWorkersAssumption DEF Typed, TypeOK, env
<1>1. CASE Stop \/ ParentCancelled \/ Reconcile \/ CloseDone \/ StopReturns
  BY <1>1 DEF Stop, ParentCancelled, Reconcile, CloseDone, StopReturns
<1>2. CASE Add \/ AddFails \/ EmitDone \/ WatcherSeesCancel
  BY <1>2 DEF Add, AddFails, EmitDone, WatcherSeesCancel, WatcherGoes
<1>3. CASE EmitExisting
  BY <1>3 DEF EmitExisting, Send
<1>4. CASE ReadWrite
  BY <1>4 DEF ReadWrite
<1>5. CASE ReadRemove
  BY <1>5 DEF ReadRemove, WatcherGoes
<1>6. CASE SendRemove
  BY <1>6 DEF SendRemove, WatcherGoes, Send
<1>7. CASE SendTimer
  BY <1>7 DEF SendTimer, Send
<1>8. CASE DrainerStep
  BY <1>8 DEF DrainerStep, TakeEvent, StoreEvent, DrainerSeesCancel, DrainerGoes
<1>9. CASE HasherStep
  BY <1>9 DEF HasherStep, HasherTick, HashFile, StoreHash, TickReturns,
              HasherSeesCancel, HasherGoes
<1>10. CASE UNCHANGED vars
  BY <1>10 DEF vars
<1>11. QED
  BY <1>1, <1>2, <1>3, <1>4, <1>5, <1>6, <1>7, <1>8, <1>9, <1>10
     DEF Next, WatcherStep

LEMMA AlwaysTyped == Spec => []Typed
<1>1. QED
  BY TypedInit, TypedNext, PTL DEF Spec

\* Every variable keeps its type.
THEOREM TypeCorrect == Spec => []TypeOK
<1>1. Typed => TypeOK
  BY DEF Typed
<1>2. QED
  BY <1>1, AlwaysTyped, PTL

(***************************************************************************)
(* stop.  The goroutine that closes done does so after the three others;   *)
(* a goroutine that exited does nothing any more, and none of them starts  *)
(* a second time because the reconciliation is over.                       *)
(***************************************************************************)
Waited ==
  /\ owner = "closed" => watcher = "exited" /\ drainer = "exited" /\ hasher = "exited"
  /\ stopper = "returned" => owner = "closed"

LEMMA WaitedNext == Waited /\ [Next]_vars => Waited'
<1> SUFFICES ASSUME Waited, [Next]_vars PROVE Waited'
  OBVIOUS
<1> USE DEF Waited, env
<1>1. CASE Stop \/ ParentCancelled \/ Reconcile \/ CloseDone \/ StopReturns
  BY <1>1 DEF Stop, ParentCancelled, Reconcile, CloseDone, StopReturns
<1>2. CASE WatcherStep
  <2>1. CASE Add \/ AddFails \/ EmitDone \/ WatcherSeesCancel
    BY <2>1 DEF Add, AddFails, EmitDone, WatcherSeesCancel, WatcherGoes
  <2>2. CASE EmitExisting \/ ReadWrite
    BY <2>2 DEF EmitExisting, ReadWrite
  <2>3. CASE ReadRemove \/ SendRemove
    BY <2>3 DEF ReadRemove, SendRemove, WatcherGoes
  <2>4. QED
    BY <1>2, <2>1, <2>2, <2>3 DEF WatcherStep
<1>3. CASE SendTimer
  BY <1>3 DEF SendTimer
<1>4. CASE DrainerStep
  BY <1>4 DEF DrainerStep, TakeEvent, StoreEvent, DrainerSeesCancel, DrainerGoes
<1>5. CASE HasherStep
  BY <1>5 DEF HasherStep, HasherTick, HashFile, StoreHash, TickReturns,
              HasherSeesCancel, HasherGoes
<1>6. CASE UNCHANGED vars
  BY <1>6 DEF vars
<1>7. QED
  BY <1>1, <1>2, <1>3, <1>4, <1>5, <1>6 DEF Next

\* Once stop returned, the three goroutines of the old root are over for good.
THEOREM QuietAfterStop == Spec => []StoppedIsQuiet
<1>1. Init => Waited
  BY DEF Init, Waited
<1>2. Waited => StoppedIsQuiet
  BY DEF Waited, StoppedIsQuiet
<1>3. QED
  BY <1>1, <1>2, WaitedNext, PTL DEF Spec

(***************************************************************************)
(* Every step of the process is a step of the scope, or none of its.       *)
(***************************************************************************)
LEMMA StepOfTheScope == [ProcessNext]_allVars => [Next]_vars
<1> SUFFICES ASSUME [ProcessNext]_allVars PROVE [Next]_vars
  OBVIOUS
<1>1. CASE \E r \in Requests : Arrive(r) \/ Answer(r)
  BY <1>1 DEF Arrive, Answer
<1>2. CASE AutoTick \/ HttpFails \/ TimeUp
  BY <1>2 DEF AutoTick, HttpFails, TimeUp
<1>3. CASE \E a \in Pullers : JobStep(a)
  BY <1>3 DEF JobStep, Begin, Transfer, Settle
<1>4. CASE Signal
  BY <1>4 DEF Signal, Next
<1>5. CASE CallStop \/ StopIsOver
  BY <1>5 DEF CallStop, StopIsOver, Next
<1>6. CASE LeaveSelect \/ ShutdownReturns \/ WaitReturns \/ CallCancel \/ CallClose \/ Exit
  BY <1>6 DEF LeaveSelect, ShutdownReturns, WaitReturns, CallCancel, CallClose, Exit
<1>7. CASE ScopeStep
  BY <1>7 DEF ScopeStep, Next
<1>8. CASE UNCHANGED allVars
  BY <1>8 DEF allVars
<1>9. QED
  BY <1>1, <1>2, <1>3, <1>4, <1>5, <1>6, <1>7, <1>8 DEF ProcessNext, MainStep

\* The scope of the root inside the process is a scope as RootWorkers has it: what is
\* proved of RootWorkers holds of it (startRootWorkers gets its own context, a child of
\* the process's: main.go:190, 335).
THEOREM ScopeIsRootWorkers == ProcessSpec => Spec
<1>1. ProcessInit => Init
  BY DEF ProcessInit
<1>2. QED
  BY <1>1, StepOfTheScope, PTL DEF ProcessSpec, Spec

(***************************************************************************)
(* Types.                                                                  *)
(***************************************************************************)
MainTyped ==
  /\ main \in {"run", "shutdown", "wait", "stop", "stopping", "cancel", "close",
               "return", "exited"}
  /\ life \in {"live", "cancelled"}
  /\ timeup \in BOOLEAN
  /\ store \in {"open", "closed"}

WorkTyped ==
  /\ handler \in [Requests -> {"none", "serving", "answered"}]
  /\ job \in [Pullers -> {"none", "begin", "transfer", "settle", "done"}]
  /\ commit \in [Pullers -> {"announced", "pulling", "settled"}]

LEMMA MainTypedNext == MainTyped /\ [ProcessNext]_allVars => MainTyped'
<1> SUFFICES ASSUME MainTyped, [ProcessNext]_allVars PROVE MainTyped'
  OBVIOUS
<1> USE DEF MainTyped
<1>1. CASE \E r \in Requests : Arrive(r) \/ Answer(r)
  BY <1>1 DEF Arrive, Answer
<1>2. CASE AutoTick \/ Signal \/ ScopeStep
  BY <1>2 DEF AutoTick, Signal, ScopeStep, mainVars
<1>3. CASE \E a \in Pullers : JobStep(a)
  BY <1>3 DEF JobStep, Begin, Transfer, Settle
<1>4. CASE HttpFails \/ TimeUp
  BY <1>4 DEF HttpFails, TimeUp, MainGoes
<1>5. CASE MainStep
  BY <1>5 DEF MainStep, LeaveSelect, ShutdownReturns, WaitReturns, CallStop, StopIsOver,
              CallCancel, CallClose, Exit, MainGoes
<1>6. CASE UNCHANGED allVars
  BY <1>6 DEF allVars, mainVars
<1>7. QED
  BY <1>1, <1>2, <1>3, <1>4, <1>5, <1>6 DEF ProcessNext

LEMMA WorkTypedNext == WorkTyped /\ [ProcessNext]_allVars => WorkTyped'
<1> SUFFICES ASSUME WorkTyped, [ProcessNext]_allVars PROVE WorkTyped'
  OBVIOUS
<1> USE DEF WorkTyped
<1>1. CASE \E r \in Requests : Arrive(r) \/ Answer(r)
  BY <1>1 DEF Arrive, Answer, Pullers
<1>2. CASE AutoTick
  BY <1>2 DEF AutoTick, Pullers
<1>3. CASE \E a \in Pullers : JobStep(a)
  BY <1>3 DEF JobStep, Begin, Transfer, Settle
<1>4. CASE Signal \/ HttpFails \/ TimeUp \/ ScopeStep
  BY <1>4 DEF Signal, HttpFails, TimeUp, ScopeStep, mainVars, work
<1>5. CASE MainStep
  BY <1>5 DEF MainStep, LeaveSelect, ShutdownReturns, WaitReturns, CallStop, StopIsOver,
              CallCancel, CallClose, Exit, work
<1>6. CASE UNCHANGED allVars
  BY <1>6 DEF allVars, mainVars
<1>7. QED
  BY <1>1, <1>2, <1>3, <1>4, <1>5, <1>6 DEF ProcessNext

\* Every variable of the process and of its scope keeps its type.
THEOREM ProcessTypeCorrect == ProcessSpec => []ProcessTypeOK
<1>1. ProcessInit => MainTyped /\ WorkTyped
  BY DEF ProcessInit, MainTyped, WorkTyped
<1>2. TypeOK /\ MainTyped /\ WorkTyped => ProcessTypeOK
  BY DEF ProcessTypeOK, MainTyped, WorkTyped
<1>3. QED
  BY <1>1, <1>2, ScopeIsRootWorkers, TypeCorrect, MainTypedNext, WorkTypedNext, PTL
     DEF ProcessSpec

(***************************************************************************)
(* The order of the deferred calls.                                        *)
(***************************************************************************)
Ordered ==
  /\ main \in {"cancel", "close", "return", "exited"} => stopper = "returned"
  /\ store = "closed" => main \in {"return", "exited"}

LEMMA OrderedNext == Ordered /\ [ProcessNext]_allVars => Ordered'
<1> SUFFICES ASSUME Ordered, [ProcessNext]_allVars PROVE Ordered'
  OBVIOUS
<1> USE DEF Ordered
<1>1. CASE \E r \in Requests : Arrive(r) \/ Answer(r)
  BY <1>1 DEF Arrive, Answer, vars
<1>2. CASE AutoTick \/ TimeUp
  BY <1>2 DEF AutoTick, TimeUp, vars
<1>3. CASE \E a \in Pullers : JobStep(a)
  BY <1>3 DEF JobStep, Begin, Transfer, Settle, vars
<1>4. CASE Signal
  BY <1>4 DEF Signal, ParentCancelled, vars
<1>5. CASE HttpFails \/ LeaveSelect \/ ShutdownReturns \/ WaitReturns
  BY <1>5 DEF HttpFails, LeaveSelect, ShutdownReturns, WaitReturns, MainGoes, vars
<1>6. CASE CallStop \/ StopIsOver
  BY <1>6 DEF CallStop, StopIsOver, StopReturns, MainGoes
<1>7. CASE CallCancel \/ CallClose \/ Exit
  BY <1>7 DEF CallCancel, CallClose, Exit, MainGoes, vars
<1>8. CASE ScopeStep
  <2>1. stopper' = stopper
    <3>1. CASE Reconcile \/ CloseDone \/ SendTimer
      BY <3>1 DEF Reconcile, CloseDone, SendTimer
    <3>2. CASE WatcherStep
      BY <3>2 DEF WatcherStep, Add, AddFails, EmitExisting, EmitDone, ReadWrite,
                  ReadRemove, SendRemove, WatcherSeesCancel
    <3>3. CASE DrainerStep
      BY <3>3 DEF DrainerStep, TakeEvent, StoreEvent, DrainerSeesCancel
    <3>4. CASE HasherStep
      BY <3>4 DEF HasherStep, HasherTick, HashFile, StoreHash, TickReturns,
                  HasherSeesCancel
    <3>5. QED
      BY <1>8, <3>1, <3>2, <3>3, <3>4 DEF ScopeStep
  <2>2. QED
    BY <1>8, <2>1 DEF ScopeStep, mainVars
<1>9. CASE UNCHANGED allVars
  BY <1>9 DEF allVars, mainVars, vars
<1>10. QED
  BY <1>1, <1>2, <1>3, <1>4, <1>5, <1>6, <1>7, <1>8, <1>9 DEF ProcessNext, MainStep

\* The manifest is closed after the workers of the root are over, even if the five
\* seconds ran out on a pull: stop returned before, and stop waits for them.
THEOREM WorkersOverAtClose == ProcessSpec => []WorkersEndBeforeClose
<1>1. ProcessInit => Ordered
  BY DEF ProcessInit, Ordered
<1>2. Ordered /\ StoppedIsQuiet => WorkersEndBeforeClose
  BY DEF Ordered, StoppedIsQuiet, WorkersEndBeforeClose
<1>3. QED
  BY <1>1, <1>2, OrderedNext, ScopeIsRootWorkers, QuietAfterStop, PTL DEF ProcessSpec

(***************************************************************************)
(* The pulls that requests leave behind.                                   *)
(***************************************************************************)
Late == main \in {"stop", "stopping", "cancel", "close", "return", "exited"}

\* Once the listener is closed nothing arrives, so what Shutdown and Wait waited for
\* stays true; a pull that ends while the manifest is open has its outcome.
Drained ==
  /\ \A r \in Requests : handler[r] = "answered" => job[r] # "none"
  /\ store = "open" => \A r \in Requests : job[r] = "done" => commit[r] = "settled"
  /\ main = "wait" /\ ~ timeup => Served
  /\ Late /\ ~ timeup => /\ Served
                         /\ \A r \in Requests : job[r] \in {"none", "done"}
                         /\ \A r \in Requests : job[r] = "done" => commit[r] = "settled"

Strong == MainTyped /\ WorkTyped /\ Ordered /\ Drained

\* A step of the pull of a.
LEMMA DrainedJob ==
  ASSUME Strong, NEW a \in Pullers, JobStep(a)
  PROVE  Drained'
<1> USE DEF Strong, WorkTyped, MainTyped, Drained, Served, Late, Pullers
<1>1. CASE Begin(a)
  BY <1>1 DEF Begin, Ordered
<1>2. CASE Transfer(a)
  BY <1>2 DEF Transfer
<1>3. CASE Settle(a)
  BY <1>3 DEF Settle
<1>4. QED
  BY <1>1, <1>2, <1>3 DEF JobStep

LEMMA DrainedNext == Strong /\ [ProcessNext]_allVars => Drained'
<1> SUFFICES ASSUME Strong, [ProcessNext]_allVars PROVE Drained'
  OBVIOUS
<1> USE DEF Drained, Late, Served
<1>1. CASE \E r \in Requests : Arrive(r) \/ Answer(r)
  <2> PICK r \in Requests : Arrive(r) \/ Answer(r)
    BY <1>1
  <2>1. CASE Arrive(r)
    BY <2>1 DEF Strong, WorkTyped, Arrive, vars
  <2>2. CASE Answer(r)
    BY <2>2 DEF Strong, WorkTyped, Answer, vars, Pullers
  <2>3. QED
    BY <2>1, <2>2
<1>2. CASE AutoTick
  BY <1>2, ProcessAssumption DEF Strong, WorkTyped, AutoTick, Pullers
<1>3. CASE \E a \in Pullers : JobStep(a)
  BY <1>3, DrainedJob
<1>4. CASE Signal \/ ScopeStep
  BY <1>4 DEF Strong, Signal, ScopeStep, mainVars, work
<1>5. CASE TimeUp
  BY <1>5 DEF Strong, TimeUp, work
<1>6. CASE HttpFails \/ LeaveSelect \/ ShutdownReturns \/ WaitReturns
  BY <1>6 DEF Strong, Ordered, HttpFails, LeaveSelect, ShutdownReturns, WaitReturns,
              MainGoes, work, MainTyped
<1>7. CASE CallStop \/ StopIsOver \/ CallCancel \/ CallClose \/ Exit
  BY <1>7 DEF Strong, CallStop, StopIsOver, CallCancel, CallClose, Exit, MainGoes, work
<1>8. CASE UNCHANGED allVars
  BY <1>8 DEF Strong, allVars, mainVars
<1>9. QED
  BY <1>1, <1>2, <1>3, <1>4, <1>5, <1>6, <1>7, <1>8 DEF ProcessNext, MainStep

\* When the manifest is closed within the five seconds, no handler runs any more, and
\* every pull that was clicked is over and has its outcome in the manifest.
THEOREM FanOutsOverAtClose == ProcessSpec => []FanOutsEndBeforeClose
<1>1. ProcessInit => Strong
  BY ProcessAssumption DEF ProcessInit, Strong, MainTyped, WorkTyped, Ordered, Drained,
                           Served, Late, Pullers
<1>2. Strong /\ [ProcessNext]_allVars => Strong'
  BY MainTypedNext, WorkTypedNext, OrderedNext, DrainedNext DEF Strong
<1>3. Strong => FanOutsEndBeforeClose
  BY DEF Strong, Ordered, Drained, Late, Served, FanOutsEndBeforeClose
<1>4. QED
  BY <1>1, <1>2, <1>3, PTL DEF ProcessSpec
=============================================================================
