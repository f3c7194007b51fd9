---------------------------- MODULE LadderProofs ----------------------------
(***************************************************************************)
(* The safety of ApprovalLadder, proved for any set of rows and any        *)
(* timeouts.  What relates a timer to the time waited, and so makes "never *)
(* early" inductive, is ClockInv: whatever a timer still shows and what    *)
(* its row has waited add up to at least the minutes the ladder owes it.   *)
(***************************************************************************)
EXTENDS ApprovalLadder, TLAPS

ClockInv ==
  \A i \in Ids :
    /\ state[i] = "absent" => fired[i] = {} /\ asked[i] = "primary" /\ by[i] = "nobody" /\ ~diff[i]
    /\ state[i] = "OPEN" => /\ fired[i] = {} /\ asked[i] = "primary" /\ by[i] = "nobody"
                            /\ timer[i] \in Nat /\ timer[i] + waited[i] >= Primary[tier[i]]
    /\ state[i] = "ESCALATED" =>
         /\ tier[i] # 4 /\ asked[i] = "secondary" /\ by[i] = "nobody"
         /\ timer[i] # Off => /\ fired[i] = {"escalate_to_secondary"}
                              /\ timer[i] + waited[i] >= Patience(tier[i])

IInv == /\ TypeOK /\ ClockInv /\ SilenceDecidesOnlyTier4 /\ NobodyIsForgotten
        /\ LadderIsClimbedInOrder

-----------------------------------------------------------------------------
LEMMA PatienceType ==
  ASSUME NEW t \in Tiers
  PROVE  /\ Patience(t) \in Nat /\ Primary[t] \in Nat /\ Patience(t) >= Primary[t]
         /\ t # 4 => Secondary[t] \in Nat /\ Patience(t) = Primary[t] + Secondary[t]
         /\ t = 4 => Patience(t) = Primary[4]
BY PrimaryAssumption, SecondaryAssumption DEF Patience, Tiers

LEMMA EventFacts ==
  ASSUME NEW i \in Ids, tier[i] \in Tiers
  PROVE  /\ tier[i] = 4 => EventOf(i) = "auto_reject"
         /\ tier[i] # 4 /\ state[i] = "OPEN" => EventOf(i) = "escalate_to_secondary"
         /\ tier[i] = 3 /\ state[i] # "OPEN" => EventOf(i) = "page_oncall_bridge"
         /\ tier[i] = 2 /\ state[i] # "OPEN" => EventOf(i) = "remind"
         /\ EventOf(i) \in Events
BY DEF EventOf, Events, Tiers

LEMMA InvInit == Init => IInv
BY OffAssumption DEF Init, IInv, TypeOK, ClockInv, SilenceDecidesOnlyTier4, NobodyIsForgotten,
   LadderIsClimbedInOrder, Waiting, Verdicts, Terminal, Tiers, Events

LEMMA InvStep == IInv /\ [Next]_vars => IInv'
<1> SUFFICES ASSUME IInv, [Next]_vars PROVE IInv'
  OBVIOUS
<1> USE OffAssumption, PatienceType
    DEF IInv, TypeOK, ClockInv, SilenceDecidesOnlyTier4, NobodyIsForgotten,
        LadderIsClimbedInOrder, Waiting, Verdicts, Terminal
<1>1. ASSUME NEW i \in Ids, NEW t \in Tiers, NEW loop \in {"B", "C"}, NEW d \in BOOLEAN,
             Enqueue(i, t, loop, d)
      PROVE  IInv'
  BY <1>1 DEF Enqueue, EnqueueLegal
<1>2. ASSUME NEW i \in Ids, NEW to \in Verdicts, NEW edited \in BOOLEAN, Verdict(i, to, edited)
      PROVE  IInv'
  BY <1>2 DEF Verdict
<1>3. ASSUME NEW i \in Ids, Supersede(i) PROVE IInv'
  BY <1>3 DEF Supersede
<1>4. CASE Tick
  <2>1. \A i \in Ids : ~Due(i) => /\ state'[i] = state[i] /\ asked'[i] = asked[i]
                                  /\ timer'[i] = timer[i] /\ fired'[i] = fired[i]
    BY <1>4 DEF Tick
  <2>2. \A i \in Ids : Due(i) =>
          /\ state[i] \in Waiting /\ timer[i] = 0 /\ fired'[i] = fired[i] \cup {EventOf(i)}
          /\ state'[i] = IF EventOf(i) = "auto_reject" THEN "REJECTED" ELSE "ESCALATED"
          /\ asked'[i] = IF EventOf(i) = "escalate_to_secondary" THEN "secondary" ELSE asked[i]
          /\ timer'[i] = IF EventOf(i) = "escalate_to_secondary" THEN Secondary[tier[i]] ELSE Off
    BY <1>4 DEF Tick, Due, StateAfter, TimerAfter
  <2>3. UNCHANGED <<tier, diff, by, waited>>
    BY <1>4 DEF Tick
  <2>4. TypeOK'
    BY <1>4, EventFacts DEF Tick, Due, StateAfter, TimerAfter, Events, Tiers
  <2>5. \A i \in Ids : Due(i) =>
          \/ /\ tier[i] = 4 /\ state[i] = "OPEN" /\ EventOf(i) = "auto_reject"
             /\ waited[i] >= Primary[4]
          \/ /\ tier[i] # 4 /\ state[i] = "OPEN" /\ EventOf(i) = "escalate_to_secondary"
             /\ waited[i] >= Primary[tier[i]]
          \/ /\ tier[i] = 3 /\ state[i] = "ESCALATED" /\ EventOf(i) = "page_oncall_bridge"
             /\ waited[i] >= Patience(3)
          \/ /\ tier[i] = 2 /\ state[i] = "ESCALATED" /\ EventOf(i) = "remind"
             /\ waited[i] >= Patience(2)
    BY <2>2, EventFacts DEF Tiers
  <2>6. ClockInv'
    BY <2>1, <2>2, <2>3, <2>5 DEF Tiers
  <2>7. SilenceDecidesOnlyTier4'
    BY <2>1, <2>2, <2>3, <2>5 DEF Tiers
  <2>8. NobodyIsForgotten'
    BY <2>1, <2>2, <2>3, <2>5 DEF Tiers
  <2>9. LadderIsClimbedInOrder'
    BY <2>1, <2>2, <2>3, <2>5 DEF Tiers
  <2> QED BY <2>4, <2>6, <2>7, <2>8, <2>9
<1>5. CASE Pass
  <2>1. \A i \in Ids : /\ timer'[i] = IF timer[i] \in Nat \ {0} THEN timer[i] - 1 ELSE timer[i]
                       /\ waited'[i] \in {waited[i], waited[i] + 1} /\ waited'[i] \in Nat
                       /\ waited'[i] = waited[i] => ~(state[i] \in Waiting /\ waited[i] < Patience(tier[i]))
    BY <1>5 DEF Pass
  <2>2. UNCHANGED <<state, tier, diff, asked, by, fired>>
    BY <1>5 DEF Pass
  <2>3. TypeOK'
    <3>1. timer' \in [Ids -> Nat \cup {Off}]
      <4>1. \A i \in Ids : (IF timer[i] \in Nat \ {0} THEN timer[i] - 1 ELSE timer[i]) \in Nat \cup {Off}
        OBVIOUS
      <4> QED
        BY <1>5, <4>1 DEF Pass
    <3>2. waited' \in [Ids -> Nat]
      BY <1>5 DEF Pass
    <3> QED BY <2>2, <3>1, <3>2
  <2>4. ClockInv'
    BY <2>1, <2>2, <2>3
  <2>5. SilenceDecidesOnlyTier4'
    BY <2>1, <2>2, <2>3
  <2>6. NobodyIsForgotten'
    BY <2>1, <2>2, <2>3
  <2>7. LadderIsClimbedInOrder'
    BY <2>1, <2>2, <2>3
  <2> QED BY <2>3, <2>4, <2>5, <2>6, <2>7
<1>6. CASE UNCHANGED vars
  BY <1>6 DEF vars
<1> QED BY <1>1, <1>2, <1>3, <1>4, <1>5, <1>6 DEF Next

\* The strengthened invariant of every behaviour.
THEOREM Invariance == Spec => []IInv
BY InvInit, InvStep, PTL DEF Spec

\* Every row keeps its type: no call leaves it in a state the table lacks.
THEOREM TypeCorrect == Spec => []TypeOK
<1>1. IInv => TypeOK
  BY DEF IInv
<1> QED BY <1>1, Invariance, PTL

\* Silence approves nothing and denies only a tier-4 plan, in its time.
THEOREM Silence == Spec => []SilenceDecidesOnlyTier4
<1>1. IInv => SilenceDecidesOnlyTier4
  BY DEF IInv
<1> QED BY <1>1, Invariance, PTL

\* A waiting row has a running timer or has climbed the whole ladder.
THEOREM Remembered == Spec => []NobodyIsForgotten
<1>1. IInv => NobodyIsForgotten
  BY DEF IInv
<1> QED BY <1>1, Invariance, PTL

\* No step of the ladder comes early or out of order, however late tick runs.
THEOREM InOrder == Spec => []LadderIsClimbedInOrder
<1>1. IInv => LadderIsClimbedInOrder
  BY DEF IInv
<1> QED BY <1>1, Invariance, PTL

\* The first verdict of a row is its last.
THEOREM Final == Spec => VerdictStands
<1>1. IInv /\ [Next]_vars =>
        [\A i \in Ids : state[i] \in Verdicts =>
           state'[i] = state[i] /\ by'[i] = by[i] /\ diff'[i] = diff[i]]_vars
  <2> SUFFICES ASSUME IInv, Next, NEW i \in Ids, state[i] \in Verdicts
               PROVE  state'[i] = state[i] /\ by'[i] = by[i] /\ diff'[i] = diff[i]
    OBVIOUS
  <2> USE DEF IInv, TypeOK, Waiting, Verdicts
  <2>1. ASSUME NEW j \in Ids, NEW t \in Tiers, NEW loop \in {"B", "C"}, NEW d \in BOOLEAN,
               Enqueue(j, t, loop, d)
        PROVE  state'[i] = state[i] /\ by'[i] = by[i] /\ diff'[i] = diff[i]
    BY <2>1 DEF Enqueue
  <2>2. ASSUME NEW j \in Ids, NEW to \in Verdicts, NEW edited \in BOOLEAN, Verdict(j, to, edited)
        PROVE  state'[i] = state[i] /\ by'[i] = by[i] /\ diff'[i] = diff[i]
    BY <2>2 DEF Verdict
  <2>3. ASSUME NEW j \in Ids, Supersede(j)
        PROVE  state'[i] = state[i] /\ by'[i] = by[i] /\ diff'[i] = diff[i]
    BY <2>3 DEF Supersede
  <2>4. CASE Tick \/ Pass
    BY <2>4 DEF Tick, Pass, Due
  <2> QED BY <2>1, <2>2, <2>3, <2>4 DEF Next
<1> QED BY <1>1, Invariance, PTL DEF Spec, VerdictStands
=============================================================================
