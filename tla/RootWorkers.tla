---------------------------- MODULE RootWorkers ----------------------------
(***************************************************************************)
(* The life of the workers of one root: startRootWorkers and stop in       *)
(* main.go, Run / schedule / emitExisting of watcher.go and Run / tick of  *)
(* hasher.go.  LocalFolder says what the events mean; here only their      *)
(* number counts, because Watcher.Events holds a limited number of them    *)
(* and none of its three senders looks at the context.                     *)
(***************************************************************************)
EXTENDS Integers

CONSTANTS
  Cap,        \* capacity of Watcher.Events (64 in the code)
  Existing,   \* media files in the folder when the watch starts
  MaxWrites,  \* bound on the files written later: each one ends in a timer
  MaxRemoves, \* bound on the removals
  Faults      \* "nofolder": fsw.Add fails

ASSUME RootWorkersAssumption ==
  /\ Cap \in Nat \ {0}
  /\ Existing \in Nat /\ MaxWrites \in Nat /\ MaxRemoves \in Nat

VARIABLES
  ctx,      \* the context of the scope: "live" or "cancelled"
  stopper,  \* who called stop: "none", "waiting" on done, "returned"
  owner,    \* the goroutine that closes done: "reconcile", "wait", "closed"
  watcher, drainer, hasher,   \* the three goroutines of its WaitGroup
  toEmit,   \* files emitExisting has not sent yet
  queued,   \* how many events are in the channel
  timers,   \* debounce timers armed, or fired with the callback at its send
  writes, removes

env == <<writes, removes>>
vars == <<ctx, stopper, owner, watcher, drainer, hasher, toEmit, queued, timers,
          writes, removes>>

Init ==
  /\ ctx = "live" /\ stopper = "none" /\ owner = "reconcile"
  /\ watcher = "off" /\ drainer = "off" /\ hasher = "off"
  /\ toEmit = Existing /\ queued = 0 /\ timers = 0
  /\ writes = 0 /\ removes = 0

(***************************************************************************)
(* The scope.                                                              *)
(***************************************************************************)

\* rw.cancel(), then the wait for done: reconfigure, or the end of main.run.
Stop ==
  /\ stopper = "none"
  /\ stopper' = "waiting"
  /\ ctx' = "cancelled"
  /\ UNCHANGED <<owner, watcher, drainer, hasher, toEmit, queued, timers, env>>

\* The context the scope was made from is cancelled: a signal, the end of main.run.
ParentCancelled ==
  /\ ctx = "live"
  /\ ctx' = "cancelled"
  /\ UNCHANGED <<stopper, owner, watcher, drainer, hasher, toEmit, queued, timers, env>>

\* Mutant: nobody reads Events.
ReconcileNoDrainer ==
  /\ owner = "reconcile"
  /\ owner' = "wait"
  /\ watcher' = "add" /\ drainer' = "exited" /\ hasher' = "tick"
  /\ UNCHANGED <<ctx, stopper, toEmit, queued, timers, env>>

\* The rows of missing files are deleted, then the three goroutines start.
Reconcile ==
  /\ owner = "reconcile"
  /\ owner' = "wait"
  /\ watcher' = "add" /\ drainer' = "select" /\ hasher' = "tick"
  /\ UNCHANGED <<ctx, stopper, toEmit, queued, timers, env>>

\* Mutant: the hasher is not in the WaitGroup.
CloseDoneEarly ==
  /\ owner = "wait"
  /\ watcher = "exited" /\ drainer = "exited"
  /\ owner' = "closed"
  /\ UNCHANGED <<ctx, stopper, watcher, drainer, hasher, toEmit, queued, timers, env>>

\* Mutant: the callbacks are in the WaitGroup too.
CloseDoneAfterTimers ==
  /\ owner = "wait"
  /\ watcher = "exited" /\ drainer = "exited" /\ hasher = "exited"
  /\ timers = 0
  /\ owner' = "closed"
  /\ UNCHANGED <<ctx, stopper, watcher, drainer, hasher, toEmit, queued, timers, env>>

\* wg.Wait returns and the deferred close(done) runs.
CloseDone ==
  /\ owner = "wait"
  /\ watcher = "exited" /\ drainer = "exited" /\ hasher = "exited"
  /\ owner' = "closed"
  /\ UNCHANGED <<ctx, stopper, watcher, drainer, hasher, toEmit, queued, timers, env>>

StopReturns ==
  /\ stopper = "waiting"
  /\ owner = "closed"
  /\ stopper' = "returned"
  /\ UNCHANGED <<ctx, owner, watcher, drainer, hasher, toEmit, queued, timers, env>>

(***************************************************************************)
(* The watcher.  A send needs room in the channel.                         *)
(***************************************************************************)
WatcherGoes(from, to) == watcher = from /\ watcher' = to

\* Mutant: the channel takes one event more.
SendOneMore ==
  /\ queued <= Cap
  /\ queued' = queued + 1

Send ==
  /\ queued < Cap
  /\ queued' = queued + 1

Add ==
  /\ WatcherGoes("add", "emit")
  /\ UNCHANGED <<ctx, stopper, owner, drainer, hasher, toEmit, queued, timers, env>>

\* Run returns an error: the other two goroutines go on without a watcher.
AddFails ==
  /\ "nofolder" \in Faults
  /\ WatcherGoes("add", "exited")
  /\ UNCHANGED <<ctx, stopper, owner, drainer, hasher, toEmit, queued, timers, env>>

EmitExisting ==
  /\ watcher = "emit"
  /\ toEmit > 0
  /\ Send
  /\ toEmit' = toEmit - 1
  /\ UNCHANGED <<ctx, stopper, owner, watcher, drainer, hasher, timers, env>>

EmitDone ==
  /\ toEmit = 0
  /\ WatcherGoes("emit", "loop")
  /\ UNCHANGED <<ctx, stopper, owner, drainer, hasher, toEmit, queued, timers, env>>

\* The select takes any branch that is ready, the context's or fsnotify's.
ReadWrite ==
  /\ watcher = "loop"
  /\ writes < MaxWrites
  /\ writes' = writes + 1
  /\ timers' = timers + 1
  /\ UNCHANGED <<ctx, stopper, owner, watcher, drainer, hasher, toEmit, queued, removes>>

ReadRemove ==
  /\ WatcherGoes("loop", "send")
  /\ removes < MaxRemoves
  /\ removes' = removes + 1
  /\ UNCHANGED <<ctx, stopper, owner, drainer, hasher, toEmit, queued, timers, writes>>

SendRemove ==
  /\ WatcherGoes("send", "loop")
  /\ Send
  /\ UNCHANGED <<ctx, stopper, owner, drainer, hasher, toEmit, timers, env>>

WatcherSeesCancel ==
  /\ ctx = "cancelled"
  /\ WatcherGoes("loop", "exited")
  /\ UNCHANGED <<ctx, stopper, owner, drainer, hasher, toEmit, queued, timers, env>>

\* A timer's callback runs in a goroutine of its own that no one waits for.
SendTimer ==
  /\ timers > 0
  /\ Send
  /\ timers' = timers - 1
  /\ UNCHANGED <<ctx, stopper, owner, watcher, drainer, hasher, toEmit, env>>

(***************************************************************************)
(* The drainer and the hasher.                                             *)
(***************************************************************************)
DrainerGoes(from, to) == drainer = from /\ drainer' = to
HasherGoes(from, to) == hasher = from /\ hasher' = to

TakeEvent ==
  /\ DrainerGoes("select", "store")
  /\ queued > 0
  /\ queued' = queued - 1
  /\ UNCHANGED <<ctx, stopper, owner, watcher, hasher, toEmit, timers, env>>

\* Mutant: the drainer ends after an event.
StoreEventReturns ==
  /\ DrainerGoes("store", "exited")
  /\ UNCHANGED <<ctx, stopper, owner, watcher, hasher, toEmit, queued, timers, env>>

\* Delete, or Stat and UpsertObserved.
StoreEvent ==
  /\ DrainerGoes("store", "select")
  /\ UNCHANGED <<ctx, stopper, owner, watcher, hasher, toEmit, queued, timers, env>>

\* Mutant: a plain range over Events.
DrainerNeverCancelled == FALSE /\ UNCHANGED vars

DrainerSeesCancel ==
  /\ ctx = "cancelled"
  /\ DrainerGoes("select", "exited")
  /\ UNCHANGED <<ctx, stopper, owner, watcher, hasher, toEmit, queued, timers, env>>

HasherTick ==
  /\ HasherGoes("select", "tick")
  /\ UNCHANGED <<ctx, stopper, owner, watcher, drainer, toEmit, queued, timers, env>>

\* The next file of the list: not without a look at the context.
HashFile ==
  /\ ctx = "live"
  /\ HasherGoes("tick", "store")
  /\ UNCHANGED <<ctx, stopper, owner, watcher, drainer, toEmit, queued, timers, env>>

StoreHash ==
  /\ HasherGoes("store", "tick")
  /\ UNCHANGED <<ctx, stopper, owner, watcher, drainer, toEmit, queued, timers, env>>

TickReturns ==
  /\ HasherGoes("tick", "select")
  /\ UNCHANGED <<ctx, stopper, owner, watcher, drainer, toEmit, queued, timers, env>>

HasherSeesCancel ==
  /\ ctx = "cancelled"
  /\ HasherGoes("select", "exited")
  /\ UNCHANGED <<ctx, stopper, owner, watcher, drainer, toEmit, queued, timers, env>>

WatcherStep ==
  \/ Add \/ AddFails \/ EmitExisting \/ EmitDone
  \/ ReadWrite \/ ReadRemove \/ SendRemove \/ WatcherSeesCancel

DrainerStep == TakeEvent \/ StoreEvent \/ DrainerSeesCancel
HasherStep  == HasherTick \/ HashFile \/ StoreHash \/ TickReturns \/ HasherSeesCancel

Next ==
  \/ Stop \/ ParentCancelled \/ Reconcile \/ CloseDone \/ StopReturns
  \/ WatcherStep \/ SendTimer \/ DrainerStep \/ HasherStep

Spec == Init /\ [][Next]_vars

\* The scheduler runs every goroutine that can run; a select with several ready
\* branches chooses at random, so the context's branch is not passed over for
\* ever (the strong fairness).  Nobody is forced to call stop.
Fairness ==
  /\ WF_vars(Reconcile) /\ WF_vars(CloseDone) /\ WF_vars(StopReturns)
  /\ WF_vars(WatcherStep) /\ WF_vars(SendTimer)
  /\ WF_vars(DrainerStep) /\ WF_vars(HasherStep)
  /\ SF_vars(HasherSeesCancel)

FairSpec == Spec /\ Fairness

(***************************************************************************)
(* Properties.                                                             *)
(***************************************************************************)
TypeOK ==
  /\ ctx \in {"live", "cancelled"}
  /\ stopper \in {"none", "waiting", "returned"}
  /\ owner \in {"reconcile", "wait", "closed"}
  /\ watcher \in {"off", "add", "emit", "loop", "send", "exited"}
  /\ drainer \in {"off", "select", "store", "exited"}
  /\ hasher \in {"off", "select", "tick", "store", "exited"}
  /\ toEmit \in 0..Existing
  /\ queued \in 0..Cap
  /\ timers \in 0..MaxWrites
  /\ writes \in 0..MaxWrites
  /\ removes \in 0..MaxRemoves

\* "stop encerra o escopo e bloqueia até as goroutines drenarem" (main.go:319):
\* once it returned, no goroutine of the old root reads or writes the manifest,
\* so reconfigure may start those of the new one.
StoppedIsQuiet ==
  stopper = "returned" =>
    owner = "closed" /\ {watcher, drainer, hasher} = {"exited"}

\* As long as nobody stops the scope, an event that was sent is handled, and the
\* files that were there at the start are announced however many they are.
EventsAreDrained == queued > 0 ~> queued = 0 \/ ctx = "cancelled"
FolderIsEmitted  == watcher = "emit" ~> watcher = "loop" \/ ctx = "cancelled"

\* What may still be sent, and what was.
Outstanding ==
  toEmit + (MaxWrites - writes) + timers + (MaxRemoves - removes)
    + (IF watcher = "send" THEN 1 ELSE 0) + queued

\* main.go:400-403: the drainer looks at ctx.Done so that stop does not hang.
StopCompletes == stopper = "waiting" ~> stopper = "returned"

\* It does not, unless all that is still to be sent fits in the channel when stop
\* is called: the senders do not look at the context, and the drainer is gone.
StopCompletesWithRoom ==
  stopper = "waiting" /\ Outstanding <= Cap ~> stopper = "returned"

\* A callback of a debounce timer that waits for room keeps nobody: the goroutine has
\* no one who waits for it (watcher.go:120-126), so once the watcher is over stop ends
\* although the channel is full, its reader gone and timers are still to fire.
StuckTimersKeepNobody ==
  stopper = "waiting" /\ watcher = "exited" ~> stopper = "returned"
=============================================================================
