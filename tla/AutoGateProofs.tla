--------------------------- MODULE AutoGateProofs ---------------------------
(***************************************************************************)
(* Theorems about AutoGate, for any folders, authors and commits and any   *)
(* two windows of which the busy one is the shorter.                       *)
(*                                                                         *)
(* Detect asks for the process first and looks at the files afterwards.    *)
(* What it cannot see in the process it sees in the files: an .mdb that    *)
(* changed since the question is younger than RecentWindow when Detect     *)
(* looks at it, whoever changed it (ChangeShows).                          *)
(***************************************************************************)
EXTENDS AutoGate, TLAPS

\* An index that changed since the question has age 0, and when it has been looked at
\* this is the least age seen.
ChangeShows == Detecting =>
  \A d \in touched : IF d \in looked THEN youngest = 0 ELSE age[d] = 0

\* The look at the folders begins anew with every tick.
NotYetLooked ==
  /\ auto # "scan" => looked = {}
  /\ ~ Detecting => touched = {}

Inv == TypeOK /\ ChangeShows /\ NotYetLooked

Statuses == {"none", "announced", "pulling", "pulled", "failed"}

LEMMA InitInv == Init => Inv
<1> SUFFICES ASSUME Init
             PROVE  Inv
  OBVIOUS
<1>1. age \in [Folders -> 0..RecentWindow \cup {None}]
  BY AutoGateAssumption DEF Init
<1>2. writes \in 0..MaxWrites /\ faults \in 0..MaxFaults
  BY AutoGateAssumption DEF Init
<1>3. status \in [Commits -> Statuses]
  BY DEF Init, Statuses
<1>4. ChangeShows /\ NotYetLooked
  BY DEF Init, ChangeShows, NotYetLooked, Detecting
<1> QED
  BY <1>1, <1>2, <1>3, <1>4 DEF Init, Inv, TypeOK, Statuses

\* A folder's age starts again from 0.
LEMMA ChangedIsYoung ==
  ASSUME Inv, NEW d \in Folders, Changed(d), UNCHANGED <<auto, looked, youngest>>
  PROVE  /\ age' \in [Folders -> 0..RecentWindow \cup {None}]
         /\ touched' \subseteq Folders
         /\ ChangeShows' /\ NotYetLooked'
<1>1. 0 \in 0..RecentWindow
  BY AutoGateAssumption
<1>2. age \in [Folders -> 0..RecentWindow \cup {None}] /\ touched \subseteq Folders
  BY DEF Inv, TypeOK
<1>3. age' = [age EXCEPT ![d] = 0]
  BY DEF Changed
<1>4. \A e \in Folders : age'[e] = IF e = d THEN 0 ELSE age[e]
  BY <1>2, <1>3
<1>5. age' \in [Folders -> 0..RecentWindow \cup {None}] /\ touched' \subseteq Folders
  BY <1>1, <1>2, <1>3 DEF Changed
<1>6. ChangeShows'
  BY <1>2, <1>4 DEF Changed, Inv, ChangeShows, Detecting
<1>7. NotYetLooked'
  BY DEF Changed, Inv, NotYetLooked, Detecting
<1> QED
  BY <1>5, <1>6, <1>7

LEMMA FaultTyped == TypeOK /\ Fault => faults' \in 0..MaxFaults
  BY AutoGateAssumption DEF TypeOK, Fault

\* Whatever becomes of a pull: if it brought an .mdb, a folder is young.
LEMMA PullIsYoung ==
  ASSUME Inv, NEW c \in Commits, Pull(c), UNCHANGED <<auto, looked, youngest>>
  PROVE  /\ age' \in [Folders -> 0..RecentWindow \cup {None}]
         /\ status' \in [Commits -> Statuses]
         /\ touched' \subseteq Folders
         /\ faults' \in 0..MaxFaults
         /\ ChangeShows' /\ NotYetLooked'
<1>1. From[c] \in Folders
  BY AutoGateAssumption DEF Folders
<1>2. status' \in [Commits -> Statuses]
  BY DEF Pull, Inv, TypeOK, Statuses
<1>3. faults' \in 0..MaxFaults
  BY FaultTyped DEF Pull, Inv, TypeOK
<1>4. CASE IndexComes(c)
  BY <1>1, <1>2, <1>3, <1>4, ChangedIsYoung DEF IndexComes
<1>5. CASE NoIndex
  BY <1>2, <1>3, <1>5 DEF NoIndex, Inv, TypeOK, ChangeShows, NotYetLooked, Detecting
<1> QED
  BY <1>4, <1>5 DEF Pull

\* The steps of Detect.
LEMMA DetectInv ==
  ASSUME Inv, AskProcess \/ ReadFolders \/ (\E d \in Folders : LookAt(d)) \/ Decide
  PROVE  Inv'
<1> USE DEF Inv
<1>1. CASE AskProcess
  <2>1. seen' \in BOOLEAN
    BY <1>1, Zenon DEF AskProcess, TypeOK
  <2>2. looked' = {} /\ touched' = {} /\ auto' = "read"
    BY <1>1 DEF AskProcess, NotYetLooked, Detecting
  <2>3. ChangeShows' /\ NotYetLooked'
    BY <2>2 DEF ChangeShows, NotYetLooked
  <2> QED
    BY <1>1, <2>1, <2>2, <2>3 DEF AskProcess, TypeOK, world
<1>2. CASE ReadFolders
  <2>1. PICK missing \in SUBSET {d \in Received : age[d] = None} : looked' = missing
    BY <1>2 DEF ReadFolders
  <2>2. looked' \subseteq Folders /\ \A d \in looked' : age[d] = None
    BY <2>1 DEF Folders
  <2>3. looked = {} /\ UNCHANGED <<age, touched>>
    BY <1>2 DEF ReadFolders, NotYetLooked, world
  <2>4. \A d \in touched : age[d] = 0
    BY <1>2, <2>3 DEF ReadFolders, ChangeShows, Detecting
  <2>5. ChangeShows'
    BY <2>2, <2>3, <2>4, AutoGateAssumption DEF ChangeShows
  <2> QED
    BY <1>2, <2>2, <2>5 DEF ReadFolders, world, TypeOK, NotYetLooked, Detecting
<1>3. ASSUME NEW d \in Folders, LookAt(d)
      PROVE  Inv'
  <2>1. /\ UNCHANGED <<world, auto, seen, touched, batch, status>>
        /\ auto = "scan" /\ d \notin looked /\ looked' = looked \cup {d}
        /\ youngest' = IF age[d] # None /\ (youngest = None \/ age[d] < youngest) THEN age[d]
                       ELSE youngest
    BY <1>3 DEF LookAt
  <2>2. age[d] \in 0..RecentWindow \cup {None} /\ youngest \in 0..RecentWindow \cup {None}
    BY DEF TypeOK
  <2>3. youngest' \in 0..RecentWindow \cup {None}
    BY <2>1, <2>2
  <2>4. age[d] = 0 => youngest' = 0
    BY <2>1, <2>2, AutoGateAssumption
  <2>5. youngest = 0 => youngest' = 0
    BY <2>1, <2>2, AutoGateAssumption
  <2>6. ChangeShows'
    BY <2>1, <2>4, <2>5 DEF ChangeShows, Detecting, world
  <2> QED
    BY <2>1, <2>3, <2>6 DEF TypeOK, world, NotYetLooked, Detecting
<1>4. CASE Decide
  <2>1. auto' \in {"commit", "wait"} /\ looked' = {} /\ youngest' = None /\ touched' = {}
        /\ UNCHANGED <<world, seen, batch, status>>
    BY <1>4 DEF Decide
  <2> QED
    BY <2>1 DEF TypeOK, world, ChangeShows, NotYetLooked, Detecting
<1> QED
  BY <1>1, <1>2, <1>3, <1>4

\* The clock stands still while Detect looks, so no change grows old under it.
LEMMA NextInv == Inv /\ [Next]_vars => Inv'
<1> SUFFICES ASSUME Inv, [Next]_vars
             PROVE  Inv'
  OBVIOUS
<1> USE DEF Inv, world, detect
<1>1. CASE Open \/ Close
  <2>1. running' \in BOOLEAN
    BY <1>1, Zenon DEF Open, Close
  <2> QED
    BY <1>1, <2>1 DEF Open, Close, TypeOK, ChangeShows, NotYetLooked, Detecting
<1>2. CASE AskProcess \/ ReadFolders \/ (\E d \in Folders : LookAt(d)) \/ Decide
  BY <1>2, DetectInv
<1>3. CASE AvidWrites
  <2>1. Own \in Folders
    BY DEF Folders
  <2>2. writes' \in 0..MaxWrites
    BY <1>3, AutoGateAssumption DEF AvidWrites, TypeOK
  <2>3. /\ age' \in [Folders -> 0..RecentWindow \cup {None}]
        /\ touched' \subseteq Folders /\ ChangeShows' /\ NotYetLooked'
    BY <1>3, <2>1, ChangedIsYoung DEF AvidWrites
  <2> QED
    BY <1>3, <2>2, <2>3 DEF AvidWrites, TypeOK
<1>4. CASE Elapse
  <2>1. ASSUME NEW d \in Folders
        PROVE  age'[d] \in 0..RecentWindow \cup {None}
    BY <1>4, <2>1, AutoGateAssumption DEF Elapse, TypeOK
  <2> QED
    BY <1>4, <2>1 DEF Elapse, TypeOK, ChangeShows, NotYetLooked, Detecting
<1>5. ASSUME NEW c \in Commits, Announce(c)
      PROVE  Inv'
  BY <1>5 DEF Announce, TypeOK, ChangeShows, NotYetLooked, Detecting
<1>6. ASSUME NEW c \in Commits, ClickPull(c)
      PROVE  Inv'
  <2>1. Pull(c) /\ UNCHANGED <<running, writes, auto, seen, looked, youngest, batch>>
    BY <1>6 DEF ClickPull
  <2> QED
    BY <2>1, PullIsYoung DEF TypeOK, Statuses
<1>7. CASE AutoCommit \/ ListAnnounced \/ TickEnds
  BY <1>7 DEF AutoCommit, ListAnnounced, TickEnds, TypeOK, ChangeShows, NotYetLooked,
              Detecting
<1>8. ASSUME NEW c \in Commits, PullNext(c)
      PROVE  Inv'
  <2>1. /\ Pull(c) /\ UNCHANGED <<running, writes, auto, seen, looked, youngest>>
        /\ batch' \subseteq batch
    BY <1>8 DEF PullNext
  <2> QED
    BY <2>1, PullIsYoung DEF TypeOK, Statuses
<1>9. CASE ListFails
  BY <1>9, FaultTyped DEF ListFails, TypeOK, ChangeShows, NotYetLooked, Detecting
<1>10. CASE UNCHANGED vars
  BY <1>10 DEF vars, TypeOK, ChangeShows, NotYetLooked, Detecting
<1> QED
  BY <1>1, <1>2, <1>3, <1>4, <1>5, <1>6, <1>7, <1>8, <1>9, <1>10 DEF Next, AutoStep

LEMMA AlwaysInv == Spec => []Inv
  BY InitInv, NextInv, PTL DEF Spec

\* An age is a number of units up to RecentWindow, whoever changes the index.
THEOREM TypeCorrect == Spec => []TypeOK
<1>1. Inv => TypeOK
  BY DEF Inv
<1> QED
  BY <1>1, AlwaysInv, PTL

\* A gate that opens has seen Avid closed, every folder, and no index younger than
\* RecentWindow.
LEMMA OpensForOldIndices ==
  ASSUME Inv, auto = "scan", auto' = "commit", [Next]_vars
  PROVE  ~ seen /\ looked = Folders /\ youngest # None /\ ~ (youngest < RecentWindow)
<1>1. Decide
  BY DEF Next, AutoStep, Open, Close, AvidWrites, Elapse, Announce, ClickPull, ReadFolders,
         LookAt, AskProcess, AutoCommit, ListAnnounced, ListFails, PullNext, TickEnds, vars
<1>2. Found /\ State = "idle"
  BY <1>1 DEF Decide, DetectFails, IsSafeForAuto, State
<1>3. ~ seen /\ ~ (youngest < RecentWindow)
  <2>1. youngest < BusyWindow \/ youngest >= BusyWindow
    BY <1>2, AutoGateAssumption DEF Found, Inv, TypeOK
  <2> QED
    BY <1>2, <2>1 DEF State
<1> QED
  BY <1>1, <1>2, <1>3 DEF Decide, Found

\* Whatever Avid, a click or another pull does between the question of Detect and its
\* look at each folder, automode sets out only when Avid was closed at the question and
\* no .mdb changed since before the look at it: for windows of any length, so long as a
\* recent change is not an instantaneous one.
THEOREM AutomodeSetsOutSafely == Spec => GateIsSafe
<1>1. ASSUME Inv, [Next]_vars
      PROVE  [auto = "scan" /\ auto' = "commit" => ~ seen /\ touched = {}]_vars
  <2> SUFFICES ASSUME auto = "scan", auto' = "commit"
               PROVE  ~ seen /\ touched = {}
    OBVIOUS
  <2>1. ~ seen /\ looked = Folders /\ ~ (youngest < RecentWindow)
    BY <1>1, OpensForOldIndices
  <2>2. youngest # 0
    BY <2>1, AutoGateAssumption
  <2>3. touched \subseteq Folders
    BY <1>1 DEF Inv, TypeOK
  <2> QED
    BY <1>1, <2>1, <2>2, <2>3 DEF Inv, ChangeShows, Detecting
<1> QED
  BY <1>1, AlwaysInv, PTL DEF Spec, GateIsSafe
=============================================================================
