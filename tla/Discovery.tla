----------------------------- MODULE Discovery -----------------------------
(***************************************************************************)
(* How long a peer stays in the list of peers: browseLoop, browseOnce and  *)
(* Peers of discovery.go.  Every "Every" seconds a browse window of        *)
(* "Round" seconds opens; an answer that arrives in the window refreshes   *)
(* lastSeen; Peers drops who was not seen for more than "TTL" seconds.     *)
(*                                                                         *)
(* One peer is modelled, peers do not affect each other.  Time is kept     *)
(* relative: the seconds since the last window opened, since the peer was  *)
(* last seen and since it left.  The peer may leave and come back under    *)
(* its name at any time.                                                   *)
(***************************************************************************)
EXTENDS Integers

CONSTANTS
  Every,      \* browseEvery
  Round,      \* browseRound
  TTL,        \* peerTTL
  MaxMissed   \* windows in a row whose answers the network may lose

\* What the theorems suppose of the periods.
Periods ==
  /\ Every \in Nat /\ Round \in Nat /\ TTL \in Nat /\ MaxMissed \in Nat
  /\ 0 < Every /\ Round < Every

VARIABLES
  alive,     \* whether the peer runs and announces itself
  gone,      \* seconds since it left, up to TTL + 1
  phase,     \* seconds since the browse window opened
  answered,  \* whether the peer was seen in this window
  heard,     \* history: whether it was seen since it started
  missed,    \* windows without an answer since then
  known,     \* whether Discovery.peers has an entry for the peer
  age        \* seconds since lastSeen, up to TTL + 1

vars == <<alive, gone, phase, answered, heard, missed, known, age>>

Init ==
  /\ alive = TRUE /\ gone = 0
  /\ phase = 0 /\ answered = FALSE /\ heard = FALSE /\ missed = 0
  /\ known = FALSE /\ age = 0

\* Past TTL all ages are alike.
Older(t) == IF t > TTL THEN t ELSE t + 1

\* An entry of the peer arrives while the window is open.
Answer ==
  /\ alive
  /\ phase <= Round
  /\ ~ answered
  /\ answered' = TRUE /\ heard' = TRUE /\ missed' = 0
  /\ known' = TRUE /\ age' = 0
  /\ UNCHANGED <<alive, gone, phase>>

\* The peer is heard in time, or this window is one of the lost ones.
MayBeMissed == answered \/ ~ alive \/ ~ heard \/ missed < MaxMissed

\* A second passes.  The window closes after Round seconds, the ticker opens the
\* next one Every seconds after this one.
Second ==
  /\ phase = Round => MayBeMissed
  /\ phase'    = IF phase + 1 = Every THEN 0 ELSE phase + 1
  /\ answered' = IF phase + 1 = Every THEN FALSE ELSE answered
  /\ missed'   = IF phase = Round /\ ~ answered /\ alive /\ heard THEN missed + 1 ELSE missed
  /\ age'  = IF known THEN Older(age) ELSE age
  /\ gone' = IF alive THEN gone ELSE Older(gone)
  /\ UNCHANGED <<alive, heard, known>>

\* Peers: a peer that was not seen for long is deleted by the read.
Peers ==
  /\ known
  /\ age > TTL
  /\ known' = FALSE
  /\ age' = 0
  /\ UNCHANGED <<alive, gone, phase, answered, heard, missed>>

Leave ==
  /\ alive
  /\ alive' = FALSE
  /\ UNCHANGED <<gone, phase, answered, heard, missed, known, age>>

\* The program starts again, under the same name; the entry of its last life may still
\* be there.
Join ==
  /\ ~ alive
  /\ alive' = TRUE /\ gone' = 0
  /\ answered' = FALSE /\ heard' = FALSE /\ missed' = 0
  /\ UNCHANGED <<phase, known, age>>

Next == Answer \/ Second \/ Peers \/ Leave \/ Join

Spec == Init /\ [][Next]_vars

TypeOK ==
  /\ alive \in BOOLEAN
  /\ gone \in 0..(TTL + 1)
  /\ phase \in 0..(Every - 1)
  /\ answered \in BOOLEAN /\ heard \in BOOLEAN
  /\ missed \in 0..MaxMissed
  /\ known \in BOOLEAN
  /\ age \in 0..(TTL + 1)

\* What Peers returns.
Listed == known /\ age <= TTL

\* A peer that left is not offered as a target for longer than the TTL.
GoneIsForgotten == gone > TTL => ~ Listed

(***************************************************************************)
(* What the code does not ensure once one window is lost.                  *)
(***************************************************************************)

\* A peer that was seen since it started, and goes on answering but for lost windows, is
\* not taken for offline: "15s = ~1.5x browseEvery — responsivo na UI sem dar
\* falso-offline a cada round perdido" (discovery.go:40-41).
NoFalseOffline == alive /\ heard => Listed
=============================================================================
