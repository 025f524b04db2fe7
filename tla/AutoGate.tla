------------------------------ MODULE AutoGate ------------------------------
(***************************************************************************)
(* When automode acts: Detect and mostRecentMDB of avid.go, tick and       *)
(* isSafeForAuto of automode.go.  Detect asks whether Avid runs, lists the *)
(* folders under the root and looks at the .mdb of one after the other;    *)
(* Avid comes and goes meanwhile, and every pull changes an .mdb too, that *)
(* of the folder it writes to.                                             *)
(*                                                                         *)
(* What autoCommit does is in LocalCommits, what Pull does in LanPull:     *)
(* here a pull is one step with what it leaves behind.                     *)
(* Time goes in units; a folder's age stops at RecentWindow.               *)
(***************************************************************************)
EXTENDS Integers

CONSTANTS
  Own,           \* the folder 1/
  Received,      \* the folders 1-<author>/
  Commits,       \* commits the authors announce
  From,          \* From[c]: the folder c goes to
  WithIndex,     \* the commits that bring an .mdb (FindIndexFiles)
  BusyWindow, RecentWindow,
  MaxWrites,     \* bound on Avid's writes
  MaxFaults,     \* bound on the statements of the database, and mkdir, that fail
  Fresh,         \* no folder has an .mdb at the start
  None

Folders == {Own} \cup Received

ASSUME AutoGateAssumption ==
  /\ Own \notin Received
  /\ From \in [Commits -> Received]
  /\ WithIndex \subseteq Commits
  /\ BusyWindow \in Nat /\ RecentWindow \in Nat /\ BusyWindow < RecentWindow
  /\ MaxWrites \in Nat /\ MaxFaults \in Nat
  /\ Fresh \in BOOLEAN
  /\ None \notin Int

VARIABLES
  running,   \* the Avid process
  age,       \* age[d]: since when d/msmMMOB.mdb is unchanged, None without one
  writes, faults,
  auto,      \* where automode is
  seen,      \* what it saw of the process
  looked,    \* the folders that mostRecentMDB is done with
  youngest,  \* the least age of an .mdb among them, None without one
  batch,     \* the commits its tick has listed and not pulled yet
  status,    \* status[c] of the rows with direction=received
  touched    \* history: folders whose .mdb changed after automode asked for the
             \* process and before it looked at them

world  == <<running, age, writes, faults>>
detect == <<seen, looked, youngest, touched>>
vars == <<world, auto, detect, batch, status>>

Init ==
  /\ running = FALSE
  /\ age = [d \in Folders |-> IF ~ Fresh /\ d = Own THEN RecentWindow ELSE None]
  /\ writes = 0 /\ faults = 0
  /\ auto = "wait" /\ seen = FALSE /\ batch = {}
  /\ looked = {} /\ youngest = None /\ touched = {}
  /\ status = [c \in Commits |-> "none"]

Fault == faults < MaxFaults /\ faults' = faults + 1

(***************************************************************************)
(* Avid, the peers, the user and the clock.                                *)
(***************************************************************************)
Open ==
  /\ ~ running
  /\ writes < MaxWrites
  /\ running' = TRUE
  /\ UNCHANGED <<age, writes, faults, auto, detect, batch, status>>

Close ==
  /\ running
  /\ running' = FALSE
  /\ UNCHANGED <<age, writes, faults, auto, detect, batch, status>>

Detecting == auto \in {"read", "scan"}

Changed(d) ==
  /\ age' = [age EXCEPT ![d] = 0]
  /\ touched' = IF Detecting /\ d \notin looked THEN touched \cup {d} ELSE touched

AvidWrites ==
  /\ running
  /\ writes < MaxWrites
  /\ writes' = writes + 1
  /\ Changed(Own)
  /\ UNCHANGED <<running, faults, auto, seen, looked, youngest, batch, status>>

Announce(c) ==
  /\ status[c] = "none"
  /\ status' = [status EXCEPT ![c] = "announced"]
  /\ UNCHANGED <<world, auto, detect, batch>>

\* The network fails, or the sender has other contents by now: the index may have come
\* through all the same.
IndexComes(c) == c \in WithIndex /\ Changed(From[c])
NoIndex       == UNCHANGED <<age, touched>>

\* What Pull leaves: everything; a commit that failed; one that is "pulling" for ever,
\* as mkdir or the last UpdateCommitStatus failed; one that is as it was, as GetCommit
\* or the first UpdateCommitStatus failed.
Pull(c) ==
  \/ /\ status' = [status EXCEPT ![c] = "pulled"]
     /\ IF c \in WithIndex THEN IndexComes(c) ELSE NoIndex
     /\ UNCHANGED faults
  \/ /\ status' = [status EXCEPT ![c] = "failed"]
     /\ IndexComes(c) \/ NoIndex
     /\ UNCHANGED faults
  \/ /\ status' = [status EXCEPT ![c] = "pulling"]
     /\ IndexComes(c) \/ NoIndex
     /\ Fault
  \/ NoIndex /\ Fault /\ UNCHANGED status

\* The user does not wait for automode, and clicks again on what failed.
ClickPull(c) ==
  /\ status[c] # "none"
  /\ Pull(c)
  /\ UNCHANGED <<running, writes, auto, seen, looked, youngest, batch>>

\* Mutant: an age is not bounded.
ElapseOn ==
  /\ ~ Detecting
  /\ \E d \in Folders : age[d] # None /\ age[d] <= RecentWindow
  /\ age' = [d \in Folders |-> IF age[d] = None THEN None ELSE age[d] + 1]
  /\ UNCHANGED <<running, writes, faults, auto, detect, batch, status>>

\* A unit passes; a detection takes less.
Elapse ==
  /\ ~ Detecting
  /\ \E d \in Folders : age[d] # None /\ age[d] < RecentWindow
  /\ age' = [d \in Folders |->
               IF age[d] = None \/ age[d] = RecentWindow THEN age[d] ELSE age[d] + 1]
  /\ UNCHANGED <<running, writes, faults, auto, detect, batch, status>>

(***************************************************************************)
(* Detect.                                                                 *)
(***************************************************************************)

\* pgrep or tasklist.
AskProcess ==
  /\ auto = "wait"
  /\ auto' = "read"
  /\ seen' = running
  /\ UNCHANGED <<world, looked, youngest, touched, batch, status>>

\* os.ReadDir: a folder that no pull has made yet is not among them.
ReadFolders ==
  /\ auto = "read"
  /\ auto' = "scan"
  /\ \E missing \in SUBSET {d \in Received : age[d] = None} : looked' = missing
  /\ UNCHANGED <<world, seen, youngest, touched, batch, status>>

\* Mutant: only the .mdb of the own folder counts.
LookAtOwn(d) ==
  /\ auto = "scan"
  /\ d \notin looked /\ (d = Own \/ Own \in looked)
  /\ looked' = looked \cup {d}
  /\ youngest' = IF d = Own THEN age[d] ELSE youngest
  /\ UNCHANGED <<world, auto, seen, touched, batch, status>>

\* os.Stat of one msmMMOB.mdb after the other, in the order of the names: 1 comes first.
LookAt(d) ==
  /\ auto = "scan"
  /\ d \notin looked /\ (d = Own \/ Own \in looked)
  /\ looked' = looked \cup {d}
  /\ youngest' = IF age[d] # None /\ (youngest = None \/ age[d] < youngest) THEN age[d]
                 ELSE youngest
  /\ UNCHANGED <<world, auto, seen, touched, batch, status>>

Found == youngest # None

State ==
  CASE ~ Found /\ seen                               -> "open_idle"
    [] ~ Found /\ ~ seen                             -> "unknown"
    [] Found /\ seen /\ youngest < BusyWindow        -> "busy"
    [] Found /\ seen /\ youngest >= BusyWindow       -> "open_idle"
    [] Found /\ ~ seen /\ youngest < RecentWindow    -> "recently_closed"
    [] OTHER                                         -> "idle"

\* With no .mdb Detect returns an error besides the state.
DetectFails == ~ Found

IsSafeForAuto == State = "idle" \/ (State = "unknown" /\ ~ seen)

\* The tick ends at an error of Detect, before isSafeForAuto is asked.
Decide ==
  /\ auto = "scan"
  /\ looked = Folders
  /\ auto' = IF ~ DetectFails /\ IsSafeForAuto THEN "commit" ELSE "wait"
  /\ looked' = {} /\ youngest' = None /\ touched' = {}
  /\ UNCHANGED <<world, seen, batch, status>>

(***************************************************************************)
(* The rest of the tick.                                                   *)
(***************************************************************************)

\* Mutant: nothing to commit ends the tick.
AutoCommitOrReturn ==
  /\ auto = "commit"
  /\ auto' = IF age[Own] = RecentWindow THEN "wait" ELSE "list"
  /\ UNCHANGED <<world, detect, batch, status>>

\* autoCommit, whatever comes of it.
AutoCommit ==
  /\ auto = "commit"
  /\ auto' = "list"
  /\ UNCHANGED <<world, detect, batch, status>>

ListAnnounced ==
  /\ auto = "list"
  /\ batch' = {c \in Commits : status[c] = "announced"}
  /\ auto' = "pull"
  /\ UNCHANGED <<world, detect, status>>

\* ListCommits fails: the tick ends.
ListFails ==
  /\ auto = "list"
  /\ auto' = "wait"
  /\ Fault
  /\ UNCHANGED <<running, age, writes, detect, batch, status>>

\* One after the other, whatever became of the one before; nobody asks again what Avid
\* does.
PullNext(c) ==
  /\ auto = "pull"
  /\ c \in batch
  /\ batch' = batch \ {c}
  /\ Pull(c)
  /\ UNCHANGED <<running, writes, auto, seen, looked, youngest>>

TickEnds ==
  /\ auto = "pull"
  /\ batch = {}
  /\ auto' = "wait"
  /\ UNCHANGED <<world, detect, batch, status>>

AutoStep ==
  \/ AskProcess \/ ReadFolders \/ (\E d \in Folders : LookAt(d)) \/ Decide
  \/ AutoCommit \/ ListAnnounced
  \/ \E c \in Commits : PullNext(c)
  \/ TickEnds

Next ==
  \/ Open \/ Close \/ AvidWrites \/ Elapse
  \/ \E c \in Commits : Announce(c) \/ ClickPull(c)
  \/ AutoStep \/ ListFails

Spec == Init /\ [][Next]_vars

\* The ticker ticks and time passes.
FairSpec == Spec /\ WF_vars(AutoStep) /\ SF_vars(Elapse)

(***************************************************************************)
(* Properties.                                                             *)
(***************************************************************************)
TypeOK ==
  /\ running \in BOOLEAN
  /\ age \in [Folders -> 0..RecentWindow \cup {None}]
  /\ writes \in 0..MaxWrites /\ faults \in 0..MaxFaults
  /\ auto \in {"wait", "read", "scan", "commit", "list", "pull"}
  /\ seen \in BOOLEAN
  /\ looked \subseteq Folders
  /\ youngest \in 0..RecentWindow \cup {None}
  /\ touched \subseteq Folders
  /\ batch \subseteq Commits
  /\ status \in [Commits -> {"none", "announced", "pulling", "pulled", "failed"}]

\* Detect asks for the process first and for the files afterwards, one by one.
\* Whatever Avid and clicks do in between: automode only sets out when Avid was closed
\* at the question and no .mdb was written between it and the look at that .mdb (a
\* write after the look is not noticed).
GateIsSafe ==
  [][auto = "scan" /\ auto' = "commit" => ~ seen /\ touched = {}]_vars

\* Pulls of indices close the gate to automode itself, again and again, and pulls fail,
\* before they begin or on the way.  Still each announced commit is taken up in the end
\* (it is pulled, or it is "failed" or "pulling", and then only a click takes it up
\* again), if Avid and the clicks come to rest some time and the folder has an .mdb.
AnnouncedIsTaken ==
  <>[](~ running) /\ <>[][\A c \in Commits : ~ ClickPull(c)]_vars =>
    \A c \in Commits : status[c] = "announced" ~> status[c] # "announced"

(***************************************************************************)
(* What the code does not ensure: TLC finds a counterexample to each (the  *)
(* README names the run to change).                                        *)
(***************************************************************************)

\* "auto-pull falhou ... Status já vira `failed` dentro de transport.Pull; seguimos"
\* (automode.go:180-185): what is announced is pulled in the end, or failed.  (mkdir and
\* the last UpdateCommitStatus leave it "pulling".)
AnnouncedIsSettled ==
  <>[](~ running) /\ <>[][\A c \in Commits : ~ ClickPull(c)]_vars =>
    \A c \in Commits : status[c] = "announced" ~> status[c] \in {"pulled", "failed"}

\* "só roda automaticamente quando State == StateIdle" (avid.go:11): a tick that has
\* begun to pull does not notice that Avid was opened.
NothingUnderAvid ==
  [][\A c \in Commits : auto = "pull" /\ batch' = batch \ {c} /\ c \in batch => ~ running]_vars
=============================================================================
