-------------------------- MODULE DiscoveryProofs --------------------------
(***************************************************************************)
(* Theorems about Discovery, for every period, window and TTL: which TTL   *)
(* the list of peers needs to bear a given number of lost windows.         *)
(***************************************************************************)
EXTENDS Discovery, TLAPS

\* How old an entry can be after m lost windows, when the next one opens.
Rounds(m) == m * Every

LEMMA RoundsStep ==
  ASSUME Periods, NEW m \in Nat
  PROVE  Rounds(m) \in Nat /\ Rounds(m + 1) = Rounds(m) + Every /\ Rounds(0) = 0
  BY DEF Periods, Rounds

LEMMA RoundsMonotone ==
  ASSUME Periods, NEW m \in Nat, NEW n \in Nat, m <= n
  PROVE  Rounds(m) <= Rounds(n)
<1>1. n - m \in Nat /\ Every \in Nat
  BY DEF Periods
<1>2. (n - m) * Every \in Nat
  BY <1>1
<1>3. n * Every = m * Every + (n - m) * Every
  BY <1>1
<1>4. m * Every \in Nat /\ n * Every \in Nat
  BY <1>1
<1>5. QED
  BY <1>2, <1>3, <1>4 DEF Rounds

LEMMA OlderTyped ==
  ASSUME Periods, NEW t \in 0..(TTL + 1)
  PROVE  Older(t) \in 0..(TTL + 1) /\ Older(t) <= t + 1
  BY DEF Periods, Older

(***************************************************************************)
(* The age of the entry of a peer that is there.  It is bounded by the     *)
(* windows missed since: the last one is counted when it closes.           *)
(***************************************************************************)
Bounded == alive /\ heard =>
  /\ answered => missed = 0 /\ age <= phase
  /\ ~ answered /\ phase <= Round => age <= Rounds(missed + 1) + phase
  /\ ~ answered /\ phase > Round => age <= Rounds(missed) + phase

LEMMA TypeInit == Periods /\ Init => TypeOK
<1> SUFFICES ASSUME Periods, Init PROVE TypeOK
  OBVIOUS
<1>1. alive \in BOOLEAN /\ answered \in BOOLEAN /\ heard \in BOOLEAN /\ known \in BOOLEAN
  BY Zenon DEF Init
<1>2. gone \in 0..(TTL + 1) /\ phase \in 0..(Every - 1) /\ missed \in 0..MaxMissed
      /\ age \in 0..(TTL + 1)
  BY DEF Periods, Init
<1>3. QED
  BY <1>1, <1>2 DEF TypeOK

LEMMA TypeNext == Periods /\ TypeOK /\ [Next]_vars => TypeOK'
<1> SUFFICES ASSUME Periods, TypeOK, [Next]_vars PROVE TypeOK'
  OBVIOUS
<1> USE DEF Periods, TypeOK
<1>1. CASE Answer
  BY <1>1 DEF Answer
<1>2. CASE Second
  <2>1. phase' \in 0..(Every - 1)
    BY <1>2 DEF Second
  <2>2. age' \in 0..(TTL + 1) /\ gone' \in 0..(TTL + 1)
    BY <1>2, OlderTyped DEF Second
  <2>3. missed' \in 0..MaxMissed
    BY <1>2 DEF Second, MayBeMissed
  <2>4. answered' \in BOOLEAN /\ alive' \in BOOLEAN /\ known' \in BOOLEAN /\ heard' \in BOOLEAN
    BY <1>2 DEF Second
  <2>5. QED
    BY <2>1, <2>2, <2>3, <2>4
<1>3. CASE Peers
  <2>1. known' \in BOOLEAN /\ alive' \in BOOLEAN /\ answered' \in BOOLEAN /\ heard' \in BOOLEAN
    BY Zenon, <1>3 DEF Peers
  <2>2. age' \in 0..(TTL + 1) /\ missed' \in 0..MaxMissed
    BY <1>3 DEF Peers
  <2>3. gone' = gone /\ phase' = phase
    BY <1>3 DEF Peers
  <2>4. QED
    BY <2>1, <2>2, <2>3
<1>4. CASE Leave
  BY <1>4 DEF Leave
<1>5. CASE Join
  <2>1. alive' \in BOOLEAN /\ answered' \in BOOLEAN /\ heard' \in BOOLEAN /\ known' \in BOOLEAN
    BY Zenon, <1>5 DEF Join
  <2>2. gone' \in 0..(TTL + 1) /\ missed' \in 0..MaxMissed
    BY <1>5 DEF Join
  <2>3. phase' = phase /\ age' = age
    BY <1>5 DEF Join
  <2>4. QED
    BY <2>1, <2>2, <2>3
<1>6. CASE UNCHANGED vars
  BY <1>6 DEF vars
<1>7. QED
  BY <1>1, <1>2, <1>3, <1>4, <1>5, <1>6 DEF Next

\* Every variable keeps its type; "missed" never exceeds what may be lost.
THEOREM TypeCorrect ==
  ASSUME Periods
  PROVE  Spec => []TypeOK
  BY TypeInit, TypeNext, PTL DEF Spec

LEMMA SecondBounded ==
  ASSUME Periods, TypeOK, Bounded, Second
  PROVE  Bounded'
<1> SUFFICES ASSUME alive, heard
             PROVE  /\ answered' => missed' = 0 /\ age' <= phase'
                    /\ ~ answered' /\ phase' <= Round => age' <= Rounds(missed' + 1) + phase'
                    /\ ~ answered' /\ phase' > Round => age' <= Rounds(missed') + phase'
  BY DEF Second, Bounded
<1> USE DEF Periods, TypeOK
<1>1. age' <= age + 1 /\ age' \in Nat
  BY OlderTyped DEF Second
<1>2. missed \in Nat /\ missed + 1 \in Nat
  OBVIOUS
<1>3. /\ Rounds(missed) \in Nat /\ Rounds(missed + 1) \in Nat
      /\ Rounds(missed + 1) = Rounds(missed) + Every
      /\ Rounds(missed + 2) = Rounds(missed + 1) + Every
      /\ Rounds(0) = 0 /\ Rounds(1) = Every
  <2>1. missed + 1 + 1 = missed + 2 /\ 0 + 1 = 1
    BY <1>2
  <2>2. QED
    BY <1>2, <2>1, RoundsStep
<1>4. CASE answered
  <2>1. missed' = missed /\ missed = 0 /\ age <= phase
    BY <1>4 DEF Second, Bounded
  <2>2. CASE phase + 1 = Every
    BY <1>1, <1>3, <2>1, <2>2 DEF Second
  <2>3. CASE phase + 1 # Every
    BY <1>1, <1>4, <2>1, <2>3 DEF Second
  <2>4. QED
    BY <2>2, <2>3
<1>5. CASE ~ answered /\ phase < Round
  <2>1. missed' = missed /\ ~ answered' /\ phase' = phase + 1
    BY <1>5 DEF Second
  <2>2. age <= Rounds(missed + 1) + phase
    BY <1>5 DEF Bounded
  <2>3. QED
    BY <1>1, <1>3, <1>5, <2>1, <2>2
<1>6. CASE ~ answered /\ phase = Round
  <2>1. missed' = missed + 1 /\ ~ answered'
    BY <1>6 DEF Second
  <2>2. age <= Rounds(missed + 1) + phase
    BY <1>6 DEF Bounded
  <2>3. missed' + 1 = missed + 2
    BY <1>2, <2>1
  <2>4. phase' = (IF phase + 1 = Every THEN 0 ELSE phase + 1)
    BY DEF Second
  <2>5. QED
    BY <1>1, <1>3, <1>6, <2>1, <2>2, <2>3, <2>4
<1>7. CASE ~ answered /\ phase > Round
  <2>1. missed' = missed /\ ~ answered'
    BY <1>7 DEF Second
  <2>2. age <= Rounds(missed) + phase
    BY <1>7 DEF Bounded
  <2>3. phase' = (IF phase + 1 = Every THEN 0 ELSE phase + 1)
    BY DEF Second
  <2>4. QED
    BY <1>1, <1>3, <1>7, <2>1, <2>2, <2>3
<1>8. QED
  BY <1>4, <1>5, <1>6, <1>7

LEMMA BoundedNext ==
  ASSUME Periods, TypeOK, Bounded, [Next]_vars
  PROVE  Bounded'
<1>1. CASE Answer
  BY <1>1 DEF Answer, Bounded, TypeOK
<1>2. CASE Second
  BY <1>2, SecondBounded
<1>3. CASE Peers
  <2>1. /\ age' = 0 /\ UNCHANGED <<alive, heard, answered, missed, phase>>
        /\ phase \in Nat /\ missed \in Nat /\ missed + 1 \in Nat
    BY <1>3 DEF Peers, TypeOK, Periods
  <2>2. Rounds(missed) \in Nat /\ Rounds(missed + 1) \in Nat
    BY <2>1, RoundsStep
  <2>3. QED
    BY <2>1, <2>2 DEF Bounded
<1>6. CASE Leave \/ Join
  BY <1>6 DEF Leave, Join, Bounded
<1>4. CASE UNCHANGED vars
  BY <1>4 DEF vars, Bounded
<1>5. QED
  BY <1>1, <1>2, <1>3, <1>4, <1>6 DEF Next

\* The entry of a peer that was heard is there.
Entered == alive /\ heard => known

\* The TTL bears MaxMissed lost windows in a row, counted to the end of the next one.
LongEnough == (MaxMissed + 1) * Every + Round <= TTL

LEMMA YoungEnough ==
  ASSUME Periods, LongEnough, TypeOK, Bounded, alive, heard
  PROVE  age <= TTL
<1> USE DEF Periods, TypeOK
<1>1. missed \in Nat /\ MaxMissed \in Nat /\ missed <= MaxMissed
      /\ missed + 1 \in Nat /\ MaxMissed + 1 \in Nat /\ missed + 1 <= MaxMissed + 1
  OBVIOUS
<1>2. /\ Rounds(missed) \in Nat /\ Rounds(missed + 1) = Rounds(missed) + Every
      /\ Rounds(missed + 1) <= Rounds(MaxMissed + 1)
  BY <1>1, RoundsStep, RoundsMonotone
<1>3. Rounds(MaxMissed + 1) + Round <= TTL
  BY DEF Rounds, LongEnough
<1>4. Rounds(MaxMissed + 1) \in Nat
  BY <1>1, RoundsStep
<1>5. QED
  BY <1>1, <1>2, <1>3, <1>4 DEF Bounded

LEMMA EnteredNext ==
  ASSUME Periods, LongEnough, TypeOK, Bounded, Entered, [Next]_vars
  PROVE  Entered'
<1>1. CASE Peers
  <2>1. ~ (age <= TTL)
    BY <1>1 DEF Peers, Periods, TypeOK
  <2>2. QED
    BY <1>1, <2>1, YoungEnough DEF Peers, Entered
<1>2. CASE Answer \/ Second \/ Leave \/ Join
  BY <1>2 DEF Answer, Second, Leave, Join, Entered
<1>3. CASE UNCHANGED vars
  BY <1>3 DEF vars, Entered
<1>4. QED
  BY <1>1, <1>2, <1>3 DEF Next

\* A TTL of one period and one window more than the lost ones is enough; the TTL
\* of the code is for MaxMissed = 0, a TTL of 23 seconds would be for 1.
THEOREM NeverFalselyOffline ==
  ASSUME Periods, LongEnough
  PROVE  Spec => []NoFalseOffline
<1>1. Init => Bounded /\ Entered
  BY DEF Init, Bounded, Entered
<1>2. TypeOK /\ Bounded /\ Entered /\ [Next]_vars => Bounded' /\ Entered'
  BY BoundedNext, EnteredNext
<1>3. TypeOK /\ Bounded /\ Entered => NoFalseOffline
  BY YoungEnough DEF NoFalseOffline, Listed, Entered
<1>4. QED
  BY <1>1, <1>2, <1>3, TypeCorrect, PTL DEF Spec

(***************************************************************************)
(* A peer that left: nothing makes its entry younger than its absence,     *)
(* because it does not answer and lastSeen is only set by an answer.       *)
(***************************************************************************)
NotHeardSince ==
  /\ alive => gone = 0
  /\ ~ alive /\ known => gone <= age

LEMMA OlderMonotone ==
  ASSUME Periods, NEW s \in 0..(TTL + 1), NEW t \in 0..(TTL + 1), s <= t
  PROVE  Older(s) <= Older(t)
  BY DEF Periods, Older

LEMMA NotHeardNext ==
  ASSUME Periods, TypeOK, NotHeardSince, [Next]_vars
  PROVE  NotHeardSince'
<1>1. CASE Answer
  BY <1>1 DEF Answer, NotHeardSince
<1>2. CASE Second
  <2>1. alive' = alive /\ known' = known
    BY <1>2 DEF Second
  <2>2. CASE alive
    BY <1>2, <2>1, <2>2 DEF Second, NotHeardSince
  <2>3. CASE ~ alive /\ known
    <3>1. gone' = Older(gone) /\ age' = Older(age)
      BY <1>2, <2>3 DEF Second
    <3>2. gone <= age
      BY <2>3 DEF NotHeardSince
    <3>3. gone \in 0..(TTL + 1) /\ age \in 0..(TTL + 1)
      BY DEF TypeOK
    <3>4. QED
      BY <2>1, <2>3, <3>1, <3>2, <3>3, OlderMonotone DEF NotHeardSince
  <2>4. CASE ~ alive /\ ~ known
    BY <2>1, <2>4 DEF NotHeardSince
  <2>5. QED
    BY <2>2, <2>3, <2>4
<1>3. CASE Peers
  BY <1>3 DEF Peers, NotHeardSince
<1>4. CASE Leave
  BY <1>4 DEF Leave, NotHeardSince, TypeOK
<1>5. CASE Join
  BY <1>5 DEF Join, NotHeardSince
<1>6. CASE UNCHANGED vars
  BY <1>6 DEF vars, NotHeardSince
<1>7. QED
  BY <1>1, <1>2, <1>3, <1>4, <1>5, <1>6 DEF Next

\* Whatever the periods and however many windows are lost: a peer that left is not
\* listed longer than the TTL, though Peers deletes entries only when it is asked.
THEOREM LeftIsForgotten ==
  ASSUME Periods
  PROVE  Spec => []GoneIsForgotten
<1>1. Init => NotHeardSince
  BY DEF Init, NotHeardSince
<1>2. TypeOK /\ NotHeardSince /\ [Next]_vars => NotHeardSince'
  BY NotHeardNext
<1>3. TypeOK /\ NotHeardSince => GoneIsForgotten
  BY DEF Periods, TypeOK, NotHeardSince, GoneIsForgotten, Listed
<1>4. QED
  BY <1>1, <1>2, <1>3, TypeCorrect, PTL DEF Spec
=============================================================================
