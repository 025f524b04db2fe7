------------------------------ MODULE Process ------------------------------
(***************************************************************************)
(* The end of the process: main.run after its select, Wait and the         *)
(* handlers with a fan-out in api.go, and the deferred calls in the order  *)
(* they run: rootWk.stop, cancel, store.Close.  Requests, the pulls they   *)
(* leave behind, automode and the root workers all use the database that   *)
(* Close takes away.                                                       *)
(*                                                                         *)
(* RootWorkers is the scope of the root at that moment.                    *)
(***************************************************************************)
EXTENDS RootWorkers

CONSTANTS
  Requests,   \* POST /commits/{id}/pull (handleCommit, handleSyncWith likewise)
  Automode    \* the automode goroutine, and the pull it is at

ASSUME ProcessAssumption == Automode \notin Requests

VARIABLES
  main,     \* where run is
  life,     \* the process's context: "live" or "cancelled"
  timeup,   \* shutdownCtx: the 5 s are over
  handler,  \* handler[r]: "none", "serving", "answered"
  job,      \* job[a]: how far the Pull of a request or of automode is
  commit,   \* commit[a]: the status of the commit that Pull is about
  store     \* "open" or "closed"

work == <<handler, job, commit>>
mainVars == <<main, life, timeup, handler, job, commit, store>>
allVars == <<vars, mainVars>>

Pullers == Requests \cup {Automode}

ProcessInit ==
  /\ Init
  /\ main = "run" /\ life = "live" /\ timeup = FALSE
  /\ handler = [r \in Requests |-> "none"]
  /\ job = [a \in Pullers |-> "none"]
  /\ commit = [a \in Pullers |-> "announced"]
  /\ store = "open"

(***************************************************************************)
(* Requests and what they leave behind.                                    *)
(***************************************************************************)

\* The listener is open until Shutdown.
Arrive(r) ==
  /\ main = "run"
  /\ handler[r] = "none"
  /\ handler' = [handler EXCEPT ![r] = "serving"]
  /\ UNCHANGED <<vars, main, life, timeup, job, commit, store>>

\* wg.Add(1), go func, and the answer.
Answer(r) ==
  /\ handler[r] = "serving"
  /\ handler' = [handler EXCEPT ![r] = "answered"]
  /\ job' = [job EXCEPT ![r] = "begin"]
  /\ UNCHANGED <<vars, main, life, timeup, commit, store>>

\* automode's Run looks at the context between two ticks, tick between two pulls.
AutoTick ==
  /\ life = "live"
  /\ job[Automode] \in {"none", "done"}
  /\ job' = [job EXCEPT ![Automode] = "begin"]
  /\ commit' = [commit EXCEPT ![Automode] = "announced"]
  /\ UNCHANGED <<vars, main, life, timeup, handler, store>>

\* UpdateCommitStatus(pulling); Pull returns the error of a closed database.
Begin(a) ==
  /\ job[a] = "begin"
  /\ IF store = "open" THEN /\ job' = [job EXCEPT ![a] = "transfer"]
                            /\ commit' = [commit EXCEPT ![a] = "pulling"]
                       ELSE /\ job' = [job EXCEPT ![a] = "done"]
                            /\ UNCHANGED commit
  /\ UNCHANGED <<vars, main, life, timeup, handler, store>>

\* The files come, or the context ends the transfer.
Transfer(a) ==
  /\ job[a] = "transfer"
  /\ job' = [job EXCEPT ![a] = "settle"]
  /\ UNCHANGED <<vars, main, life, timeup, handler, commit, store>>

\* UpdateCommitStatus(pulled or failed): it does not look at the context.
Settle(a) ==
  /\ job[a] = "settle"
  /\ job' = [job EXCEPT ![a] = "done"]
  /\ commit' = [commit EXCEPT ![a] = IF store = "open" THEN "settled" ELSE @]
  /\ UNCHANGED <<vars, main, life, timeup, handler, store>>

JobStep(a) == Begin(a) \/ Transfer(a) \/ Settle(a)

(***************************************************************************)
(* run.                                                                    *)
(***************************************************************************)
MainGoes(from, to) == main = from /\ main' = to

\* signal.NotifyContext cancels: with it the context of the scope.
Signal ==
  /\ life = "live"
  /\ life' = "cancelled"
  /\ IF ctx = "live" THEN ParentCancelled ELSE UNCHANGED vars
  /\ UNCHANGED <<main, timeup, work, store>>

\* The select: the context, or an error of ListenAndServe.
LeaveSelect ==
  /\ MainGoes("run", "shutdown")
  /\ life = "cancelled"
  /\ UNCHANGED <<vars, life, timeup, work, store>>

HttpFails ==
  /\ MainGoes("run", "shutdown")
  /\ UNCHANGED <<vars, life, timeup, work, store>>

\* One context of 5 s for Shutdown and Wait together.
TimeUp ==
  /\ main \in {"shutdown", "wait"}
  /\ ~ timeup
  /\ timeup' = TRUE
  /\ UNCHANGED <<vars, main, life, work, store>>

Served == \A r \in Requests : handler[r] # "serving"

\* Mutant: httpSrv.Close.
ShutdownIsClose ==
  /\ MainGoes("shutdown", "wait")
  /\ UNCHANGED <<vars, life, timeup, work, store>>

\* httpSrv.Shutdown waits for the handlers.
ShutdownReturns ==
  /\ MainGoes("shutdown", "wait")
  /\ Served \/ timeup
  /\ UNCHANGED <<vars, life, timeup, work, store>>

\* Mutant: no timeout.
WaitForever ==
  /\ MainGoes("wait", "stop")
  /\ \A r \in Requests : job[r] \in {"none", "done"}
  /\ UNCHANGED <<vars, life, timeup, work, store>>

\* Server.Wait: the WaitGroup, or the timeout.
WaitReturns ==
  /\ MainGoes("wait", "stop")
  /\ timeup \/ \A r \in Requests : job[r] \in {"none", "done"}
  /\ UNCHANGED <<vars, life, timeup, work, store>>

\* The deferred calls, last one first: rootWk.stop() ...
CallStop ==
  /\ MainGoes("stop", "stopping")
  /\ Stop
  /\ UNCHANGED <<life, timeup, work, store>>

\* Mutant: stop cancels and does not wait.
StopIsAsync ==
  /\ MainGoes("stopping", "cancel")
  /\ UNCHANGED <<vars, life, timeup, work, store>>

StopIsOver ==
  /\ MainGoes("stopping", "cancel")
  /\ StopReturns
  /\ UNCHANGED <<life, timeup, work, store>>

\* ... cancel() ...
CallCancel ==
  /\ MainGoes("cancel", "close")
  /\ life' = "cancelled"
  /\ UNCHANGED <<vars, timeup, work, store>>

\* ... store.Close() ...
CallClose ==
  /\ MainGoes("close", "return")
  /\ store' = "closed"
  /\ UNCHANGED <<vars, life, timeup, work>>

\* ... and with main every goroutine ends where it is.
Exit ==
  /\ MainGoes("return", "exited")
  /\ UNCHANGED <<vars, life, timeup, work, store>>

MainStep ==
  \/ LeaveSelect \/ ShutdownReturns \/ WaitReturns
  \/ CallStop \/ StopIsOver \/ CallCancel \/ CallClose \/ Exit

(***************************************************************************)
(* The whole.                                                              *)
(***************************************************************************)
ScopeStep ==
  /\ Reconcile \/ CloseDone \/ WatcherStep \/ SendTimer \/ DrainerStep \/ HasherStep
  /\ UNCHANGED mainVars

ProcessNext ==
  /\ main # "exited"
  /\ \/ \E r \in Requests : Arrive(r) \/ Answer(r)
     \/ AutoTick
     \/ \E a \in Pullers : JobStep(a)
     \/ Signal \/ HttpFails \/ TimeUp
     \/ MainStep
     \/ ScopeStep

ProcessSpec == ProcessInit /\ [][ProcessNext]_allVars

\* The goroutines run, five seconds pass.  A handler or a pull may take for ever:
\* it waits for a peer.  Nobody is forced to end the process.
ProcessFairness ==
  /\ WF_allVars(MainStep) /\ WF_allVars(TimeUp)
  /\ WF_allVars(Reconcile /\ UNCHANGED mainVars)
  /\ WF_allVars(CloseDone /\ UNCHANGED mainVars)
  /\ WF_allVars(WatcherStep /\ UNCHANGED mainVars)
  /\ WF_allVars(SendTimer /\ UNCHANGED mainVars)
  /\ WF_allVars(DrainerStep /\ UNCHANGED mainVars)
  /\ WF_allVars(HasherStep /\ UNCHANGED mainVars)
  /\ SF_allVars(HasherSeesCancel /\ UNCHANGED mainVars)

FairProcessSpec == ProcessSpec /\ ProcessFairness

(***************************************************************************)
(* Properties.                                                             *)
(***************************************************************************)
ProcessTypeOK ==
  /\ TypeOK
  /\ main \in {"run", "shutdown", "wait", "stop", "stopping", "cancel", "close",
               "return", "exited"}
  /\ life \in {"live", "cancelled"}
  /\ timeup \in BOOLEAN
  /\ handler \in [Requests -> {"none", "serving", "answered"}]
  /\ job \in [Pullers -> {"none", "begin", "transfer", "settle", "done"}]
  /\ commit \in [Pullers -> {"announced", "pulling", "settled"}]
  /\ store \in {"open", "closed"}

\* main.run returns with a closed manifest that no worker of the root uses any
\* more, even if the five seconds ran out on a pull: the deferred stop runs before the
\* deferred Close.  (A select-avid request that outlives them could start workers for
\* another root after this; requests here are those with a fan-out.)
WorkersEndBeforeClose ==
  store = "closed" => owner = "closed" /\ {watcher, drainer, hasher} = {"exited"}

\* "permite o main esperar todas terminarem antes de fechar o store" (api.go:368):
\* when the five seconds suffice, no request and no pull it left behind meets the
\* closed manifest, and every pull that was clicked has its outcome.
FanOutsEndBeforeClose ==
  store = "closed" /\ ~ timeup =>
    \A r \in Requests :
      /\ handler[r] # "serving"
      /\ handler[r] = "answered" => job[r] = "done" /\ commit[r] = "settled"

\* A handler or a pull that never ends does not keep the process: once run has left
\* its select it exits, if what the watcher has still to send fits in the channel
\* when the context of the scope ends.
ProcessEnds ==
  main # "run" /\ ctx = "cancelled" /\ Outstanding <= Cap ~> main = "exited"

(***************************************************************************)
(* What the code does not ensure: TLC finds a counterexample to each (the  *)
(* README names the run to change).                                        *)
(***************************************************************************)

\* The same of automode, whose pull nobody waits for.
AutomodeEndsBeforeClose ==
  store = "closed" /\ ~ timeup =>
    job[Automode] \in {"none", "done"} /\ commit[Automode] # "pulling"

\* A signal ends the process: the NotifyContext has taken over from the runtime, so
\* a second signal does nothing either.
SignalEnds == life = "cancelled" ~> main = "exited"
=============================================================================
