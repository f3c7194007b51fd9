---------------------------- MODULE TrustProofs ----------------------------
(***************************************************************************)
(* The safety of TrustMemory, proved for any number of fixes, any gates,   *)
(* delays, calendars and limits.                                           *)
(***************************************************************************)
EXTENDS TrustMemory, FiniteSetTheorems, WellFoundedInduction, TLAPS

-----------------------------------------------------------------------------
(* Types.                                                                  *)

\* A log that gains an element it did not have stays a list of each once.
LEMMA AppendNew ==
  ASSUME NEW s \in Seq(Res), IsInjective(s), NEW r \in Res, r \notin ToSet(s)
  PROVE  /\ Append(s, r) \in Seq(Res) /\ IsInjective(Append(s, r))
         /\ ToSet(Append(s, r)) = ToSet(s) \cup {r}
<1> DEFINE t == Append(s, r)
<1>1. /\ Len(s) \in Nat /\ DOMAIN s = 1..Len(s) /\ DOMAIN t = 1..(Len(s) + 1)
      /\ \A k \in 1..Len(s) : t[k] = s[k]
      /\ t[Len(s) + 1] = r /\ t \in Seq(Res)
  OBVIOUS
<1> HIDE DEF t
<1>2. \A k \in 1..Len(s) : s[k] # r
  BY <1>1 DEF ToSet
<1>3. IsInjective(t)
  BY <1>1, <1>2 DEF IsInjective
<1>4. ToSet(t) = ToSet(s) \cup {r}
  <2>1. ASSUME NEW x \in ToSet(t) PROVE x \in ToSet(s) \cup {r}
    BY <1>1 DEF ToSet
  <2>2. ASSUME NEW x \in ToSet(s) PROVE x \in ToSet(t)
    <3>1. PICK k \in 1..Len(s) : x = s[k]
      BY <1>1 DEF ToSet
    <3>2. k \in DOMAIN t /\ t[k] = x
      BY <1>1, <3>1
    <3> QED
      BY <3>2 DEF ToSet
  <2>3. r \in ToSet(t)
    <3>1. Len(s) + 1 \in DOMAIN t /\ t[Len(s) + 1] = r
      BY <1>1
    <3> QED
      BY <3>1 DEF ToSet
  <2> QED
    BY <2>1, <2>2, <2>3
<1> QED
  BY <1>1, <1>3, <1>4 DEF t

LEMMA TrustInit == Init => TypeOK
BY TickAssumption DEF Init, TypeOK, ToSet, IsInjective

LEMMA TypeStep == TypeOK /\ [Next]_vars => TypeOK'
<1> SUFFICES ASSUME TypeOK, [Next]_vars PROVE TypeOK'
  OBVIOUS
<1> USE DEF TypeOK
<1>1. ASSUME NEW r \in Res, NEW by \in {"machine", "human_approved"}, NEW T \in Touchable,
             applyTimeWrite(r, by, T)
      PROVE  TypeOK'
  BY <1>1 DEF applyTimeWrite, Landings
<1>2. ASSUME NEW r \in Res, NEW button \in Buttons, HumanLands(r, button) PROVE TypeOK'
  BY <1>1, <1>2 DEF HumanLands, Touchable
<1>3. ASSUME NEW r \in Res, NEW T \in Touchable, NEW owner, NEW killed \in BOOLEAN,
             MachineLands(r, T, owner, killed)
      PROVE  TypeOK'
  BY <1>1, <1>3 DEF MachineLands
<1>4. ASSUME NEW r \in Res, NEW i \in Incidents, Record(r, i) PROVE TypeOK'
  <2>1. rows[r] = None /\ r \notin ToSet(log)
    BY <1>4 DEF Record
  <2>2. PICK row \in Rows : rows' = [rows EXCEPT ![r] = row]
    <3>1. [incident |-> i, landed |-> ledger[r] # None,
           label |-> IF ledger[r] = None THEN "proposed" ELSE "applied"] \in Rows
      BY DEF Rows, Labels
    <3> QED
      BY <1>4, <3>1 DEF Record
  <2>3. rows' \in [Res -> Rows \cup {None}]
    BY <2>2
  <2>4. {q \in Res : rows'[q] # None} = {q \in Res : rows[q] # None} \cup {r}
    BY <2>1, <2>2, NoneAssumption
  <2>5. log' \in Seq(Res) /\ IsInjective(log') /\ ToSet(log') = ToSet(log) \cup {r}
    BY <1>4, <2>1, AppendNew DEF Record
  <2> QED
    BY <1>4, <2>3, <2>4, <2>5 DEF Record
<1>5. ASSUME NEW r \in Res, NEW l \in Labels, rows[r] # None,
             rows' = [rows EXCEPT ![r].label = l], UNCHANGED <<store, now, ledger, log>>
      PROVE  TypeOK'
  <2>1. rows[r] \in Rows
    BY <1>5
  <2>2. [rows[r] EXCEPT !.label = l] \in Rows
    BY <2>1 DEF Rows
  <2>3. rows' \in [Res -> Rows \cup {None}]
    BY <1>5, <2>2
  <2>4. \A q \in Res : rows'[q] # None <=> rows[q] # None
    BY <1>5, <2>2, NoneAssumption
  <2> QED
    BY <1>5, <2>3, <2>4
<1>6. ASSUME NEW r \in Res, RecordAgain(r) PROVE TypeOK'
  BY <1>5, <1>6 DEF RecordAgain, Labels
<1>7. ASSUME NEW r \in Res, NEW l \in Labels, setOutcomeLabel(r, l) PROVE TypeOK'
  BY <1>5, <1>7 DEF setOutcomeLabel
<1>8. ASSUME NEW r \in Res, NEW button \in Buttons, HandOffTap(r, button) PROVE TypeOK'
  <2>1. PICK l \in Labels : setOutcomeLabel(r, l)
    BY <1>8 DEF HandOffTap, resolveVerdict, Buttons, Labels
  <2> QED
    BY <1>7, <2>1
<1>9. CASE Pass
  BY <1>9, TickAssumption DEF Pass
<1>10. CASE UNCHANGED vars
  BY <1>10 DEF vars
<1> QED
  BY <1>2, <1>3, <1>4, <1>6, <1>7, <1>8, <1>9, <1>10, SettableAssumption DEF Next

\* Whatever is done in whatever order, every fix has at most one landing and
\* one row, and the order of the rows lists each of them once.
THEOREM TrustTypes == Spec => []TypeOK
BY TrustInit, TypeStep, PTL DEF Spec

-----------------------------------------------------------------------------
(* Landings.                                                               *)

\* No landing lies in the future, and a row is linked only to a landing.
LandInv == /\ \A r \in landed : ledger[r].at <= now
           /\ \A r \in Res : rows[r] # None /\ rows[r].landed => ledger[r] # None

\* A human's landing, or a machine's that passed every gate.
Lands(r) ==
  /\ ledger[r] = None /\ now' = now /\ rows' = rows
  /\ \E by \in {"machine", "human_approved"}, T \in Touchable :
       /\ ledger' = [ledger EXCEPT ![r] = [at |-> now, by |-> by, teams |-> T]]
       /\ by = "machine" => ~churnHold /\ isBusinessHours(T)

\* Nothing else changes the ledger, and time never goes back.
LEMMA LedgerStep ==
  ASSUME TypeOK, [Next]_vars
  PROVE  \/ \E r \in Res : Lands(r)
         \/ ledger' = ledger /\ now' >= now
<1>1. ASSUME NEW r \in Res, NEW button \in Buttons, HumanLands(r, button) PROVE Lands(r)
  <2>1. {} \in Touchable /\ "human_approved" # "machine"
    BY DEF Touchable
  <2>2. applyTimeWrite(r, "human_approved", {})
    BY <1>1 DEF HumanLands
  <2> QED
    BY <2>1, <2>2, Zenon DEF applyTimeWrite, Lands
<1>2. ASSUME NEW r \in Res, NEW T \in Touchable, NEW owner, NEW killed \in BOOLEAN,
             MachineLands(r, T, owner, killed)
      PROVE  Lands(r)
  <2>1. isAutoApply(route(owner, killed).level)
    BY <1>2 DEF MachineLands
  <2>2. isBusinessHours(T)
    BY <1>2, <2>1 DEF MachineLands, gateAutoApply
  <2> QED
    BY <1>2, <2>2 DEF MachineLands, applyTimeWrite, Lands
<1>3. ASSUME NEW r \in Res, NEW i \in Incidents, Record(r, i)
      PROVE  ledger' = ledger /\ now' = now
  BY <1>3 DEF Record
<1>4. ASSUME NEW r \in Res, RecordAgain(r) PROVE ledger' = ledger /\ now' = now
  BY <1>4 DEF RecordAgain
<1>5. ASSUME NEW r \in Res, NEW l, setOutcomeLabel(r, l) PROVE ledger' = ledger /\ now' = now
  BY <1>5 DEF setOutcomeLabel
<1>6. ASSUME NEW r \in Res, NEW button, HandOffTap(r, button) PROVE ledger' = ledger /\ now' = now
  BY <1>5, <1>6 DEF HandOffTap
<1>7. CASE Pass
  BY <1>7 DEF Pass, TypeOK
<1>8. UNCHANGED vars => ledger' = ledger /\ now' = now
  BY DEF vars
<1>9. now \in Int
  BY DEF TypeOK
<1> QED
  BY <1>1, <1>2, <1>3, <1>4, <1>5, <1>6, <1>7, <1>8, <1>9 DEF Next

LEMMA LandInvStep == TypeOK /\ TypeOK' /\ LandInv /\ [Next]_vars => LandInv'
<1> SUFFICES ASSUME TypeOK, TypeOK', LandInv, [Next]_vars PROVE LandInv'
  OBVIOUS
<1>1. (\A r \in landed : ledger[r].at <= now)'
  <2>1. CASE \E r \in Res : Lands(r)
    <3>1. PICK r \in Res : Lands(r)
      BY <2>1
    <3>2. PICK l \in Landings : ledger' = [ledger EXCEPT ![r] = l] /\ l.at = now
      <4>1. PICK by \in {"machine", "human_approved"}, T \in Touchable :
              ledger' = [ledger EXCEPT ![r] = [at |-> now, by |-> by, teams |-> T]]
        BY <3>1 DEF Lands
      <4>2. [at |-> now, by |-> by, teams |-> T] \in Landings
        BY DEF Landings, TypeOK
      <4> QED
        BY <4>1, <4>2
    <3>3. now' = now /\ now \in Int
      BY <3>1 DEF Lands, TypeOK
    <3> QED
      BY <3>2, <3>3 DEF LandInv, landed, TypeOK
  <2>2. CASE ledger' = ledger /\ now' >= now
    <3>1. \A r \in landed : ledger[r].at \in Int
      BY DEF TypeOK, landed, Landings
    <3> QED
      BY <2>2, <3>1 DEF LandInv, landed, TypeOK
  <2> QED
    BY <2>1, <2>2, LedgerStep
<1>2. ASSUME NEW r \in Res, ledger[r] # None PROVE ledger'[r] # None
  <2>1. CASE \E q \in Res : Lands(q)
    BY <1>2, <2>1 DEF Lands, TypeOK
  <2> QED
    BY <1>2, <2>1, LedgerStep
<1>3. ASSUME NEW r \in Res, rows'[r] # None, rows'[r].landed
      PROVE  ledger[r] # None \/ ledger'[r] # None
  <2> USE DEF TypeOK, LandInv
  <2>1. CASE rows'[r] = rows[r]
    BY <1>3, <2>1
  <2>2. ASSUME NEW q \in Res, NEW i \in Incidents, Record(q, i) PROVE ledger[r] # None
    BY <1>3, <2>1, <2>2 DEF Record
  <2>3. ASSUME NEW q \in Res, rows[q] # None, NEW l, rows' = [rows EXCEPT ![q].label = l]
        PROVE  ledger[r] # None
    <3>1. CASE q = r
      <4>1. rows[r] \in Rows
        BY <2>3, <3>1
      <4>2. rows'[r].landed = rows[r].landed
        BY <2>3, <3>1, <4>1 DEF Rows
      <4> QED
        BY <1>3, <2>3, <3>1, <4>2
    <3>2. CASE q # r
      BY <2>1, <2>3, <3>2, <1>3
    <3> QED
      BY <3>1, <3>2
  <2>4. ASSUME NEW q \in Res, RecordAgain(q) PROVE ledger[r] # None
    BY <2>3, <2>4 DEF RecordAgain
  <2>5. ASSUME NEW q \in Res, NEW l, setOutcomeLabel(q, l) PROVE ledger[r] # None
    BY <2>3, <2>5 DEF setOutcomeLabel
  <2>6. ASSUME NEW q \in Res, NEW button, HandOffTap(q, button) PROVE ledger[r] # None
    BY <2>5, <2>6 DEF HandOffTap
  <2>7. CASE rows' = rows
    BY <2>1, <2>7
  <2> QED
    BY <2>2, <2>4, <2>5, <2>6, <2>7
       DEF Next, vars, Pass, HumanLands, MachineLands, applyTimeWrite
<1> QED
  BY <1>1, <1>2, <1>3 DEF LandInv

-----------------------------------------------------------------------------
(* Business hours.                                                         *)

\* The gate reads the local time as a date and a minute of it; the calendar
\* has the staffed intervals one after the other.
LEMMA StaffedIsOnCalendar ==
  ASSUME NEW t \in DOMAIN teams, now \in Nat, isStaffed(t)
  PROVE  StaffedByCalendar(t, now)
<1> DEFINE local == Start + now + teams[t].tzOffset
           date == local \div DayLen
<1>1. local \in Nat /\ DayLen \in Nat /\ DayLen > 0
  BY CalendarAssumption
<1>2. PICK w \in teams[t].staffed : weekday(date) \in w.days /\ inWindow(w, local % DayLen)
  BY DEF isStaffed
<1>3. date \notin teams[t].holidays
  BY DEF isStaffed
<1>4. w.startMin \in Int /\ w.endMin \in Int
  BY CalendarAssumption
<1> HIDE DEF local
<1>5. /\ date \in Nat /\ local % DayLen \in Nat
      /\ local = date * DayLen + (local % DayLen)
  BY <1>1
<1>6. date <= local
  BY <1>1, <1>5
<1>7. /\ date * DayLen + w.startMin <= local /\ local < date * DayLen + w.endMin
      /\ w.endMin <= DayLen
  <2>1. date * DayLen \in Int
    BY <1>1, <1>5
  <2> QED
    BY <1>2, <1>4, <1>5, <2>1 DEF inWindow
<1>8. date \in 0..local
  BY <1>1, <1>5, <1>6
<1> HIDE DEF date
<1>9. /\ date \notin teams[t].holidays /\ weekday(date) \in w.days /\ w.endMin <= DayLen
      /\ date * DayLen + w.startMin <= local /\ local < date * DayLen + w.endMin
  BY <1>2, <1>3, <1>7
<1> QED
  BY <1>8, <1>9, Zenon DEF StaffedByCalendar, local

LEMMA StaffedStep ==
  TypeOK /\ AutoApplyInStaffedHours /\ [Next]_vars => AutoApplyInStaffedHours'
<1> SUFFICES ASSUME TypeOK, AutoApplyInStaffedHours, [Next]_vars PROVE AutoApplyInStaffedHours'
  OBVIOUS
<1>1. ASSUME NEW q \in Res, Lands(q) PROVE AutoApplyInStaffedHours'
  <2>1. PICK by \in {"machine", "human_approved"}, T \in Touchable :
          /\ ledger' = [ledger EXCEPT ![q] = [at |-> now, by |-> by, teams |-> T]]
          /\ by = "machine" => isBusinessHours(T)
    BY <1>1 DEF Lands
  <2>2. by = "machine" => /\ T # {}
                          /\ \A t \in T : t # Unknown /\ StaffedByCalendar(t, now)
    BY <2>1, StaffedIsOnCalendar, CalendarAssumption DEF isBusinessHours, TypeOK
  <2>3. \A r \in Res : r # q => ledger'[r] = ledger[r]
    BY <2>1 DEF TypeOK
  <2>4. ledger'[q] = [at |-> now, by |-> by, teams |-> T]
    BY <2>1 DEF TypeOK
  <2> QED
    BY <2>2, <2>3, <2>4 DEF AutoApplyInStaffedHours, landed, StaffedByCalendar
<1>2. CASE ledger' = ledger
  BY <1>2 DEF AutoApplyInStaffedHours, landed, StaffedByCalendar
<1> QED
  BY <1>1, <1>2, LedgerStep

\* A machine lands a fix only in a staffed interval of every team it touches:
\* the date and the minute of the day that the gate computes are those of the
\* calendar, whatever the offset of the team and the length of a day.
THEOREM StaffedLandings == Spec => []AutoApplyInStaffedHours
<1>1. Init => AutoApplyInStaffedHours
  BY DEF Init, AutoApplyInStaffedHours, landed
<1> QED
  BY <1>1, StaffedStep, TrustTypes, PTL DEF Spec

-----------------------------------------------------------------------------
(* The least of a set of numbers.                                          *)

LEMMA NatWellFounded == IsWellFoundedOn({ss \in Nat \X Nat : ss[1] < ss[2]}, Nat)
BY NatLessThanWellFounded DEF OpToRel

LEMMA MinOfNats ==
  ASSUME NEW S, S \subseteq Nat, S # {}
  PROVE  Min(S) \in S /\ \A y \in S : Min(S) <= y
<1> DEFINE R == {ss \in Nat \X Nat : ss[1] < ss[2]}
<1>1. \A x, y \in Nat : y < x => <<y, x>> \in R
  OBVIOUS
<1>2. PICK x \in S : \A y \in S : ~(<<y, x>> \in R)
  BY NatWellFounded, WFMin, Zenon
<1> HIDE DEF R
<1>3. ASSUME NEW y \in S PROVE x <= y
  <2>1. x \in Nat /\ y \in Nat
    OBVIOUS
  <2> QED
    <3>1. ~(y < x)
      BY <1>1, <1>2, <2>1
    <3> QED
      BY <2>1, <3>1
<1> QED
  BY <1>3 DEF Min

-----------------------------------------------------------------------------
(* Churn.                                                                  *)

\* What landed in the area before a time, and that a landing at that time
\* adds to no burst and keeps the quiet after each.
earlier(at) == {a \in actions : a[2] < at}
Quiet(before, at) ==
  /\ Churn.windowH <= Churn.quietH =>
       Cardinality({b \in before : at - b[2] < Churn.windowH}) < Churn.max
  /\ \A a \in before :
       Cardinality({b \in before : a[2] <= b[2] /\ b[2] - a[2] < Churn.windowH}) >= Churn.max
         => at - a[2] >= Churn.quietH

LEMMA ActionsType ==
  ASSUME TypeOK
  PROVE  IsFiniteSet(actions) /\ \A a \in actions : a[2] \in Nat
<1> DEFINE S == Res \cup (0..MaxNow)
           U == S \X (0..MaxNow)
<1>1. MaxNow \in Nat /\ now \in 0..MaxNow
  BY TickAssumption DEF TypeOK
<1>2. IsFiniteSet(0..MaxNow)
  BY <1>1, FS_Interval
<1>3. IsFiniteSet(S)
  BY <1>2, ResAssumption, FS_Union
<1> HIDE DEF S
<1>4. IsFiniteSet(U)
  BY <1>2, <1>3, FS_Product
<1>5. actions \subseteq U
  <2>1. ASSUME NEW r \in landed PROVE <<r, ledger[r].at>> \in U
    <3>1. r \in Res /\ ledger[r] \in Landings
      BY DEF landed, TypeOK
    <3> QED
      BY <3>1 DEF Landings, S
  <2>2. ASSUME NEW t \in OtherAt \cap 0..now PROVE <<t, t>> \in U
    BY <1>1 DEF S
  <2> QED
    BY <2>1, <2>2 DEF actions
<1>6. \A a \in U : a[2] \in Nat
  BY <1>1
<1> HIDE DEF U
<1> QED
  BY <1>4, <1>5, <1>6, FS_Subset

\* What landed before a time that has come does not change any more.
LEMMA EarlierIsSettled ==
  ASSUME TypeOK, LandInv, [Next]_vars, NEW at \in Nat, at <= now
  PROVE  earlier(at)' = earlier(at)
<1>1. now \in Nat /\ now' >= now /\ now' \in Nat /\ \A n \in OtherAt : n \in Nat
  <2>1. TypeOK'
    BY TypeStep
  <2> QED
    BY <2>1, LedgerStep, TickAssumption DEF Lands, TypeOK
<1>2. ASSUME NEW r \in Res, ledger[r] # None \/ ledger'[r] # None
      PROVE  \/ r \in landed /\ r \in landed' /\ ledger'[r] = ledger[r]
             \/ ledger[r] = None /\ ledger'[r].at = now
  <2>1. ASSUME NEW q \in Res, Lands(q)
        PROVE  \/ ledger'[r] = ledger[r]
               \/ ledger[r] = None /\ ledger'[r].at = now
    BY <2>1 DEF Lands, TypeOK
  <2> QED
    BY <1>2, <2>1, LedgerStep DEF landed
<1>3. ASSUME NEW a, a \in earlier(at) PROVE a \in earlier(at)'
  <2>1. CASE \E r \in landed : a = <<r, ledger[r].at>>
    <3>1. PICK r \in landed : a = <<r, ledger[r].at>>
      BY <2>1
    <3>2. r \in landed' /\ ledger'[r] = ledger[r]
      BY <1>2 DEF landed
    <3> QED
      BY <1>3, <3>1, <3>2 DEF earlier, actions
  <2>2. CASE \E t \in OtherAt \cap 0..now : a = <<t, t>>
    <3>1. PICK t \in OtherAt \cap 0..now : a = <<t, t>>
      BY <2>2
    <3>2. t \in 0..now'
      BY <1>1
    <3> QED
      BY <1>3, <3>1, <3>2 DEF earlier, actions
  <2> QED
    BY <1>3, <2>1, <2>2 DEF earlier, actions
<1>4. ASSUME NEW a, a \in earlier(at)' PROVE a \in earlier(at)
  <2>1. CASE \E r \in landed' : a = <<r, ledger'[r].at>>
    <3>1. PICK r \in landed' : a = <<r, ledger'[r].at>>
      BY <2>1
    <3>2. ledger'[r].at < at
      BY <1>4, <3>1 DEF earlier
    <3>3. r \in landed /\ ledger'[r] = ledger[r]
      BY <1>1, <1>2, <3>2 DEF landed
    <3> QED
      BY <3>1, <3>2, <3>3 DEF earlier, actions
  <2>2. CASE \E t \in OtherAt \cap 0..now' : a = <<t, t>>
    <3>1. PICK t \in OtherAt \cap 0..now' : a = <<t, t>>
      BY <2>2
    <3>2. t < at
      BY <1>4, <3>1 DEF earlier
    <3>3. t \in 0..now
      BY <1>1, <3>2
    <3> QED
      BY <3>1, <3>2, <3>3 DEF earlier, actions
  <2> QED
    BY <1>4, <2>1, <2>2 DEF earlier, actions
<1> QED
  BY <1>3, <1>4

\* The escalator looks at the recent landings only; that is enough, because
\* what follows a recent landing is recent.
LEMMA NoHoldIsQuietAfter ==
  ASSUME TypeOK, ~churnHold, NEW a \in earlier(now), now - a[2] < Churn.quietH
  PROVE  ~(Cardinality({b \in earlier(now) : a[2] <= b[2] /\ b[2] - a[2] < Churn.windowH})
             >= Churn.max)
<1>1. now \in Nat /\ Churn \in [max: Nat \ {0}, windowH: Nat, quietH: Nat]
  BY TickAssumption DEF TypeOK
<1> DEFINE recent == {b \in actions : now - b[2] < Churn.quietH}
           burst == {b \in earlier(now) : a[2] <= b[2] /\ b[2] - a[2] < Churn.windowH}
           seen == {b \in recent : b[2] \in a[2]..(a[2] + span - 1)}
<1> SUFFICES ASSUME Cardinality(burst) >= Churn.max PROVE FALSE
  OBVIOUS
<1>2. a \in recent /\ a[2] \in Nat
  BY ActionsType DEF earlier
<1>3. burst \subseteq seen
  <2> SUFFICES ASSUME NEW b \in burst PROVE b \in seen
    OBVIOUS
  <2>1. b \in actions /\ b[2] \in Nat /\ a[2] <= b[2] /\ b[2] - a[2] < Churn.windowH
    BY ActionsType DEF earlier
  <2>2. b \in recent
    BY <1>1, <1>2, <2>1
  <2>3. b[2] \in a[2]..(a[2] + span - 1)
    BY <1>1, <1>2, <2>1 DEF span
  <2> QED
    BY <2>2, <2>3
<1>4. IsFiniteSet(seen)
  BY ActionsType, FS_Subset
<1>5. Cardinality(burst) <= Cardinality(seen) /\ Cardinality(burst) \in Nat /\ Cardinality(seen) \in Nat
  BY <1>3, <1>4, FS_Subset, FS_CardinalityType
<1>6. Cardinality(seen) >= Churn.max
  BY <1>1, <1>5
<1> QED
  BY <1>2, <1>6 DEF churnHold

\* Where max landings are in the last windowH, the first of them starts a burst.
LEMMA NoHoldIsRoom ==
  ASSUME TypeOK, ~churnHold, Churn.windowH <= Churn.quietH
  PROVE  Cardinality({b \in earlier(now) : now - b[2] < Churn.windowH}) < Churn.max
<1>1. now \in Nat /\ Churn \in [max: Nat \ {0}, windowH: Nat, quietH: Nat]
  BY TickAssumption DEF TypeOK
<1> DEFINE last == {b \in earlier(now) : now - b[2] < Churn.windowH}
           times == {b[2] : b \in last}
<1>2. IsFiniteSet(last) /\ Cardinality(last) \in Nat /\ \A b \in last : b[2] \in Nat
  BY ActionsType, FS_Subset, FS_CardinalityType DEF earlier
<1> SUFFICES ASSUME Cardinality(last) >= Churn.max PROVE FALSE
  BY <1>1, <1>2
<1>3. last # {}
  <2>1. Cardinality(last) # 0
    BY <1>1, <1>2
  <2> QED
    BY <1>2, <2>1, FS_EmptySet
<1>4. times \subseteq Nat /\ times # {}
  BY <1>2, <1>3
<1>5. Min(times) \in times /\ \A t \in times : Min(times) <= t
  BY <1>4, MinOfNats
<1>6. PICK a \in last : a[2] = Min(times)
  BY <1>5
<1>7. a \in earlier(now) /\ a[2] \in Nat /\ now - a[2] < Churn.windowH
  BY <1>2
<1> DEFINE burst == {b \in earlier(now) : a[2] <= b[2] /\ b[2] - a[2] < Churn.windowH}
<1>8. last \subseteq burst
  <2> SUFFICES ASSUME NEW b \in last PROVE b \in burst
    OBVIOUS
  <2>1. b \in earlier(now) /\ b[2] \in Nat /\ b[2] < now /\ a[2] <= b[2]
    BY <1>2, <1>5, <1>6 DEF earlier
  <2> QED
    BY <1>1, <1>7, <2>1
<1>9. IsFiniteSet(burst)
  BY ActionsType, FS_Subset DEF earlier
<1>10. Cardinality(burst) >= Churn.max
  <2>1. Cardinality(last) <= Cardinality(burst) /\ Cardinality(burst) \in Nat
    BY <1>8, <1>9, FS_Subset, FS_CardinalityType
  <2> QED
    BY <1>1, <1>2, <2>1
<1>11. now - a[2] < Churn.quietH
  BY <1>1, <1>7
<1> QED
  BY <1>7, <1>10, <1>11, NoHoldIsQuietAfter

LEMMA NoHoldIsQuiet ==
  ASSUME TypeOK, ~churnHold
  PROVE  Quiet(earlier(now), now)
<1>1. now \in Nat /\ Churn.quietH \in Nat /\ \A a \in earlier(now) : a[2] \in Nat
  BY TickAssumption, ActionsType DEF TypeOK, earlier
<1>2. ASSUME NEW a \in earlier(now),
             Cardinality({b \in earlier(now) : a[2] <= b[2] /\ b[2] - a[2] < Churn.windowH})
               >= Churn.max
      PROVE  now - a[2] >= Churn.quietH
  BY <1>1, <1>2, NoHoldIsQuietAfter
<1> QED
  BY <1>2, NoHoldIsRoom DEF Quiet

LEMMA QuietIs ==
  QuietAfterBurst <=> \A r \in landed : ledger[r].by = "machine" =>
                        Quiet(earlier(ledger[r].at), ledger[r].at)
BY DEF QuietAfterBurst, Quiet, earlier

LEMMA QuietStep == TypeOK /\ LandInv /\ QuietAfterBurst /\ [Next]_vars => QuietAfterBurst'
<1> SUFFICES ASSUME TypeOK, LandInv, QuietAfterBurst, [Next]_vars PROVE QuietAfterBurst'
  OBVIOUS
<1>1. ASSUME NEW at \in Nat, at <= now, Quiet(earlier(at), at)
      PROVE  Quiet(earlier(at), at)'
  BY <1>1, EarlierIsSettled DEF Quiet
<1>2. ASSUME NEW r \in landed', ledger'[r].by = "machine"
      PROVE  \E at \in Nat : ledger'[r].at = at /\ Quiet(earlier(at), at)'
  <2>1. now \in Nat /\ r \in Res
    BY DEF TypeOK, landed
  <2>2. CASE ledger'[r] = ledger[r]
    <3>1. r \in landed /\ ledger[r].at \in Nat /\ ledger[r].at <= now
      BY <2>2 DEF TypeOK, landed, LandInv, Landings
    <3>2. Quiet(earlier(ledger[r].at), ledger[r].at)
      BY <1>2, <2>2, <3>1, QuietIs
    <3> QED
      BY <1>1, <2>2, <3>1, <3>2
  <2>3. ASSUME NEW q \in Res, Lands(q), ledger'[r] # ledger[r]
        PROVE  \E at \in Nat : ledger'[r].at = at /\ Quiet(earlier(at), at)'
    <3>1. ledger'[r].at = now /\ ~churnHold
      BY <1>2, <2>1, <2>3 DEF Lands, TypeOK
    <3>2. Quiet(earlier(now), now)
      BY <3>1, NoHoldIsQuiet
    <3> QED
      BY <1>1, <2>1, <3>1, <3>2
  <2> QED
    BY <2>2, <2>3, LedgerStep
<1> QED
  BY <1>2 DEF QuietAfterBurst, Quiet, earlier

\* A machine lands no fix in an area that has had its max landings in the last
\* windowH, nor within quietH of the first landing of a burst, whoever made it.
THEOREM QuietAfterBursts == Spec => []QuietAfterBurst
<1>1. Init => LandInv /\ QuietAfterBurst
  BY DEF Init, LandInv, QuietAfterBurst, landed
<1> QED
  BY <1>1, LandInvStep, QuietStep, TrustTypes, PTL DEF Spec

-----------------------------------------------------------------------------
(* Promotion.                                                              *)

linked == {r \in landed : rows[r] # None /\ rows[r].landed}
matured == {r \in linked : rows[r].label = "confirmed_good" /\ ledger[r].at + W_mature <= now}
Earned(g) == /\ Cardinality(matured) >= g.K
             /\ \E r \in linked : now - ledger[r].at >= g.dMin
             /\ \A r \in linked : g.dMin > 0 => rows[r].label \notin Caused

LEMMA EarnedIs ==
  PromotionIsEarned <=> /\ isAutoApply(effectiveLevel(FALSE)) => Earned(toL2)
                        /\ effectiveLevel(FALSE) = "L3" => Earned(toL3)
BY DEF PromotionIsEarned, Earned, matured, linked

Harms == {"recurrence", "spawn", "spawn_contested", "revert"}
Event(r, kind, at) == [actionId |-> r, kind |-> kind, at |-> at]

\* What the projection reports, kind by kind.
LEMMA EventsAre ==
  ASSUME TypeOK, LandInv
  PROVE  /\ {e \in projectOutcomeEvents : e.kind = "matured"}
                = {Event(r, "matured", ledger[r].at + W_mature) : r \in matured}
         /\ {e \in projectOutcomeEvents : e.kind = "applied"}
                = {Event(r, "applied", ledger[r].at) : r \in linked}
         /\ \A e \in projectOutcomeEvents : e.kind \in Harms => e.at = now
         /\ \A r \in linked : rows[r].label \in Caused =>
               \E e \in projectOutcomeEvents : e.kind \in Harms
<1>1. {r \in ToSet(log) : rows[r].landed} = linked
  BY DEF TypeOK, LandInv, linked, landed
<1>2. \A r \in linked : ledger[r].at \in Nat
  BY DEF TypeOK, linked, landed, Landings
<1>3. now \in Nat /\ W_mature \in Nat
  BY TickAssumption DEF TypeOK
<1>4. matured = {r \in {q \in linked : rows[q].label \in {"confirmed_good"}} :
                   now - ledger[r].at >= W_mature}
  BY <1>2, <1>3 DEF matured
<1> DEFINE A == {Event(r, "applied", ledger[r].at) : r \in linked}
           M == {Event(r, "matured", ledger[r].at + W_mature) : r \in matured}
           C == {Event(r, "recurrence", now) : r \in {q \in linked : rows[q].label \in {"recurred"}}}
           V == {Event(r, "revert", now) : r \in {q \in linked : rows[q].label \in {"reverted"}}}
<1>5. projectOutcomeEvents = A \cup M \cup C \cup V
  BY <1>1, <1>4 DEF projectOutcomeEvents, harmTime, Event
<1>6. /\ \A e \in A : e.kind = "applied"
      /\ \A e \in M : e.kind = "matured"
      /\ \A e \in C : e.kind = "recurrence" /\ e.at = now
      /\ \A e \in V : e.kind = "revert" /\ e.at = now
  BY DEF Event
<1>7. ASSUME NEW r \in linked, rows[r].label \in Caused
      PROVE  \E e \in C \cup V : TRUE
  <2>1. CASE rows[r].label = "recurred"
    <3>1. Event(r, "recurrence", now) \in C
      BY <2>1
    <3> QED
      BY <3>1
  <2>2. CASE rows[r].label = "reverted"
    <3>1. Event(r, "revert", now) \in V
      BY <2>2
    <3> QED
      BY <3>1
  <2> QED
    BY <1>7, <2>1, <2>2 DEF Caused
<1> HIDE DEF A, M, C, V
<1>8. /\ {e \in projectOutcomeEvents : e.kind = "matured"} = M
      /\ {e \in projectOutcomeEvents : e.kind = "applied"} = A
  BY <1>5, <1>6
<1>9. \A e \in projectOutcomeEvents : e.kind \in Harms => e.at = now
  BY <1>5, <1>6 DEF Harms
<1>10. \A r \in linked : rows[r].label \in Caused => \E e \in projectOutcomeEvents : e.kind \in Harms
  BY <1>5, <1>6, <1>7 DEF Harms
<1> QED
  BY <1>8, <1>9, <1>10 DEF A, M

\* As many events say that a good fix matured as there are such fixes.
LEMMA GoodIsMatured ==
  ASSUME TypeOK, LandInv
  PROVE  /\ Cardinality({e \in projectOutcomeEvents : e.kind = "matured"}) <= Cardinality(matured)
         /\ Cardinality(matured) \in Nat
         /\ Cardinality({e \in projectOutcomeEvents : e.kind = "matured"}) \in Nat
<1> DEFINE T == {Event(r, "matured", ledger[r].at + W_mature) : r \in matured}
           f == [r \in matured |-> Event(r, "matured", ledger[r].at + W_mature)]
<1>1. IsFiniteSet(matured)
  <2>1. matured \subseteq Res
    BY DEF matured, linked, landed
  <2> QED
    BY <2>1, ResAssumption, FS_Subset
<1>2. f \in Surjection(matured, T)
  BY DEF Surjection
<1>3. IsFiniteSet(T) /\ Cardinality(T) <= Cardinality(matured)
  BY <1>1, <1>2, FS_Surjection
<1> QED
  BY <1>1, <1>3, EventsAre, FS_CardinalityType

LEMMA GateIsEarned ==
  ASSUME TypeOK, LandInv, NEW g \in Gates, meetsGate(foldClass(projectOutcomeEvents), g)
  PROVE  Earned(g)
<1> DEFINE E == projectOutcomeEvents
           applied == {e \in E : e.kind = "applied"}
           harm == {e \in E : e.kind \in Harms}
           s == foldClass(E)
<1>1. /\ s.confirmedGood = Cardinality({e \in E : e.kind = "matured"})
      /\ s.firstApplied = IF applied = {} THEN None ELSE Min({e.at : e \in applied})
      /\ s.lastCaused = IF harm = {} THEN None ELSE Max({e.at : e \in harm})
  <2>1. /\ {e \in E : e.kind \in {"matured"}} = {e \in E : e.kind = "matured"}
        /\ {e \in E : e.kind \in {"applied"}} = applied
        /\ {e \in E : e.kind \in {"recurrence", "spawn", "spawn_contested", "revert"}} = harm
    BY DEF Harms
  <2> QED
    BY <2>1 DEF foldClass
<1>2. /\ s.confirmedGood >= g.K
      /\ s.firstApplied # None /\ now - s.firstApplied >= g.dMin
      /\ s.lastCaused = None \/ now - s.lastCaused >= g.dMin
  BY DEF meetsGate
<1> HIDE DEF s
<1>3. g.K \in Nat /\ g.dMin \in Nat /\ now \in Nat
  BY DEF Gates, TypeOK
<1>4. Cardinality(matured) >= g.K
  BY <1>1, <1>2, <1>3, GoodIsMatured
<1>5. \E r \in linked : now - ledger[r].at >= g.dMin
  <2> DEFINE S == {e.at : e \in applied}
  <2>1. applied = {Event(r, "applied", ledger[r].at) : r \in linked}
    BY EventsAre
  <2>2. \A x \in S : \E r \in linked : x = ledger[r].at
    BY <2>1 DEF Event
  <2>3. \A r \in linked : ledger[r].at \in Nat
    BY DEF TypeOK, linked, landed, Landings
  <2>4. S # {}
    BY <1>1, <1>2
  <2>5. Min(S) \in S
    <3>1. S \subseteq Nat
      BY <2>2, <2>3
    <3> QED
      BY <2>4, <3>1, MinOfNats
  <2>6. now - Min(S) >= g.dMin
    BY <1>1, <1>2
  <2> QED
    BY <2>2, <2>5, <2>6
<1>6. ASSUME NEW r \in linked, g.dMin > 0, rows[r].label \in Caused PROVE FALSE
  <2>1. harm # {} /\ \A e \in harm : e.at = now
    BY <1>6, EventsAre
  <2>2. {e.at : e \in harm} = {now}
    BY <2>1
  <2>3. Max({now}) = now
    BY <1>3 DEF Max
  <2>4. s.lastCaused = now
    BY <1>1, <2>1, <2>2, <2>3
  <2> QED
    BY <1>2, <1>3, <1>6, <2>4, NoneAssumption
<1> QED
  BY <1>4, <1>5, <1>6 DEF Earned

LEMMA LevelIsGated ==
  /\ isAutoApply(effectiveLevel(FALSE)) => meetsGate(foldClass(projectOutcomeEvents), toL2)
  /\ effectiveLevel(FALSE) = "L3" => meetsGate(foldClass(projectOutcomeEvents), toL3)
<1> DEFINE two == meetsGate(foldClass(projectOutcomeEvents), toL2)
           three == meetsGate(foldClass(projectOutcomeEvents), toL3)
<1>1. effectiveLevel(FALSE) = CASE FALSE -> "L0"
                                [] ~FALSE /\ ~two -> "L1"
                                [] ~FALSE /\ two /\ ~three -> "L2"
                                [] OTHER -> "L3"
  BY DEF effectiveLevel
<1> HIDE DEF two, three
<1>2. CASE ~two
  <2>1. effectiveLevel(FALSE) = "L1"
    BY <1>1, <1>2
  <2> QED
    BY <2>1 DEF isAutoApply
<1>3. CASE two /\ ~three
  <2>1. effectiveLevel(FALSE) = "L2"
    BY <1>1, <1>3
  <2> QED
    BY <1>3, <2>1 DEF isAutoApply, two
<1>4. CASE two /\ three
  BY <1>4 DEF two, three
<1> QED
  BY <1>2, <1>3, <1>4

\* A level above L1 is earned: by fixes that landed long enough ago, were
\* confirmed since and are counted once, and with no linked landing that ever
\* recurred or was reverted.
THEOREM PromotionsAreEarned == Spec => []PromotionIsEarned
<1>1. Init => LandInv
  BY DEF Init, LandInv, landed
<1>2. TypeOK /\ LandInv => PromotionIsEarned
  BY EarnedIs, LevelIsGated, GateIsEarned, GateAssumption
<1> QED
  BY <1>1, <1>2, LandInvStep, TrustTypes, PTL DEF Spec

-----------------------------------------------------------------------------
(* Retrieval: the first k of a stable sort.                                *)

\* The members of S that come before r.
ahead(S, rank, place, r) == {q \in S : \/ rank[q] > rank[r]
                                       \/ rank[q] = rank[r] /\ place[q] < place[r]}

\* Ranks and places tell the members of a finite set apart.
Sortable(S, rank, place) ==
  /\ IsFiniteSet(S)
  /\ \A r \in S : rank[r] \in Int /\ place[r] \in Int
  /\ \A r, q \in S : place[r] = place[q] => r = q

LEMMA PositionIs ==
  ASSUME TypeOK
  PROVE  /\ \A r \in ToSet(log) : position(r) \in Nat /\ log[position(r)] = r
         /\ IsFiniteSet(ToSet(log))
<1>1. ASSUME NEW r \in ToSet(log) PROVE position(r) \in DOMAIN log /\ log[position(r)] = r
  BY DEF position, ToSet
<1>2. DOMAIN log \subseteq Nat
  BY DEF TypeOK
<1>3. IsFiniteSet(ToSet(log))
  <2>1. ToSet(log) \subseteq Res
    BY DEF TypeOK
  <2> QED
    BY <2>1, ResAssumption, FS_Subset
<1> QED
  BY <1>1, <1>2, <1>3

\* Coming before is a strict total order.
LEMMA AheadIsOrder ==
  ASSUME NEW S, NEW rank, NEW place, Sortable(S, rank, place)
  PROVE  /\ \A r \in S : r \notin ahead(S, rank, place, r)
         /\ \A r, q \in S : q \in ahead(S, rank, place, r) =>
               ahead(S, rank, place, q) \subseteq ahead(S, rank, place, r)
         /\ \A r, q \in S : \/ r = q
                            \/ q \in ahead(S, rank, place, r)
                            \/ r \in ahead(S, rank, place, q)
<1>1. \A r \in S : rank[r] \in Int /\ place[r] \in Int
  BY DEF Sortable
<1>2. \A r, q \in S : place[r] = place[q] => r = q
  BY DEF Sortable
<1>3. \A r \in S : r \notin ahead(S, rank, place, r)
  BY <1>1 DEF ahead
<1>4. ASSUME NEW r \in S, NEW q \in S, q \in ahead(S, rank, place, r),
             NEW p \in ahead(S, rank, place, q)
      PROVE  p \in ahead(S, rank, place, r)
  BY <1>1, <1>4 DEF ahead
<1>5. ASSUME NEW r \in S, NEW q \in S, r # q
      PROVE  q \in ahead(S, rank, place, r) \/ r \in ahead(S, rank, place, q)
  <2>1. place[r] < place[q] \/ place[q] < place[r]
    BY <1>1, <1>2, <1>5
  <2>2. rank[r] > rank[q] \/ rank[q] > rank[r] \/ rank[r] = rank[q]
    BY <1>1
  <2> QED
    BY <2>1, <2>2 DEF ahead
<1> QED
  BY <1>3, <1>4, <1>5

LEMMA TopIs ==
  ASSUME NEW S, NEW rank, NEW place, NEW k
  PROVE  top(S, rank, place, k) = {r \in S : Cardinality(ahead(S, rank, place, r)) < k}
BY Zenon DEF top, ahead

LEMMA AheadCounts ==
  ASSUME NEW S, NEW rank, NEW place, Sortable(S, rank, place)
  PROVE  /\ IsFiniteSet(S) /\ Cardinality(S) \in Nat
         /\ \A r \in S : Cardinality(ahead(S, rank, place, r)) \in 0..(Cardinality(S) - 1)
         /\ \A r, q \in S : q \in ahead(S, rank, place, r) =>
               Cardinality(ahead(S, rank, place, q)) < Cardinality(ahead(S, rank, place, r))
<1>1. IsFiniteSet(S) /\ Cardinality(S) \in Nat
  BY FS_CardinalityType DEF Sortable
<1>2. ASSUME NEW U, U \subseteq S, NEW x \in U, NEW V, V \subseteq U, x \notin V
      PROVE  /\ Cardinality(V) < Cardinality(U)
             /\ Cardinality(V) \in Nat /\ Cardinality(U) \in Nat
  <2>1. IsFiniteSet(U)
    BY <1>1, <1>2, FS_Subset
  <2>2. IsFiniteSet(V) /\ Cardinality(V) <= Cardinality(U) /\ Cardinality(V) # Cardinality(U)
    BY <1>2, <2>1, FS_Subset
  <2> QED
    BY <2>1, <2>2, FS_CardinalityType
<1>3. \A r \in S : ahead(S, rank, place, r) \subseteq S
  BY DEF ahead
<1>4. ASSUME NEW r \in S PROVE Cardinality(ahead(S, rank, place, r)) \in 0..(Cardinality(S) - 1)
  <2>1. r \notin ahead(S, rank, place, r)
    BY AheadIsOrder
  <2>2. Cardinality(ahead(S, rank, place, r)) < Cardinality(S) /\ Cardinality(ahead(S, rank, place, r)) \in Nat
    BY <1>2, <1>3, <2>1
  <2> QED
    BY <1>1, <2>2
<1>5. ASSUME NEW r \in S, NEW q \in S, q \in ahead(S, rank, place, r)
      PROVE  Cardinality(ahead(S, rank, place, q)) < Cardinality(ahead(S, rank, place, r))
  <2>1. q \notin ahead(S, rank, place, q) /\ ahead(S, rank, place, q) \subseteq ahead(S, rank, place, r)
    BY <1>5, AheadIsOrder
  <2> QED
    BY <1>2, <1>3, <1>5, <2>1
<1> QED
  BY <1>1, <1>4, <1>5

\* The first k of n are k of them, or all.
LEMMA TopCount ==
  ASSUME NEW S, NEW rank, NEW place, Sortable(S, rank, place), NEW k \in Nat
  PROVE  Cardinality(top(S, rank, place, k)) = IF k <= Cardinality(S) THEN k ELSE Cardinality(S)
<1> DEFINE n == Cardinality(S)
           m == IF k <= n THEN k ELSE n
           spot == [r \in S |-> Cardinality(ahead(S, rank, place, r))]
           first == top(S, rank, place, k)
           f == [r \in first |-> spot[r]]
<1>1. n \in Nat /\ IsFiniteSet(S)
  BY AheadCounts
<1>2. IsFiniteSet(0..(n - 1)) /\ Cardinality(0..(n - 1)) = n
  BY <1>1, FS_Interval
<1>3. spot \in Injection(S, 0..(n - 1))
  <2>1. \A r \in S : spot[r] \in 0..(n - 1)
    BY AheadCounts
  <2>2. ASSUME NEW r \in S, NEW q \in S, spot[r] = spot[q] PROVE r = q
    <3>1. ~(q \in ahead(S, rank, place, r)) /\ ~(r \in ahead(S, rank, place, q))
      BY <1>1, <2>1, <2>2, AheadCounts
    <3> QED
      BY <3>1, AheadIsOrder
  <2> QED
    BY <2>1, <2>2 DEF Injection, IsInjective
<1>4. spot \in Surjection(S, 0..(n - 1))
  BY <1>1, <1>2, <1>3, FS_Injection
<1>5. first = {r \in S : spot[r] < k}
  BY TopIs
<1>6. m \in Nat /\ \A x \in Int : x \in 0..(m - 1) <=> x \in 0..(n - 1) /\ x < k
  BY <1>1
<1> HIDE DEF spot, m
<1>7. f \in [first -> 0..(m - 1)]
  <2>1. ASSUME NEW r \in first PROVE spot[r] \in 0..(m - 1)
    <3>1. spot[r] \in 0..(n - 1) /\ spot[r] < k
      BY <1>3, <1>5 DEF Injection
    <3> QED
      BY <1>6, <3>1
  <2> QED
    BY <2>1
<1>8. f \in Injection(first, 0..(m - 1))
  BY <1>3, <1>5, <1>7 DEF Injection, IsInjective
<1>9. f \in Surjection(first, 0..(m - 1))
  <2>1. ASSUME NEW x \in 0..(m - 1) PROVE \E r \in first : f[r] = x
    <3>1. x \in 0..(n - 1) /\ x < k
      BY <1>6
    <3>2. PICK r \in S : spot[r] = x
      BY <1>4, <3>1 DEF Surjection
    <3> QED
      BY <1>5, <3>1, <3>2
  <2> QED
    BY <1>7, <2>1 DEF Surjection
<1>10. IsFiniteSet(0..(m - 1)) /\ Cardinality(0..(m - 1)) = m
  BY <1>6, FS_Interval
<1> HIDE DEF f, first
<1>11. Cardinality(first) = m
  BY <1>8, <1>9, <1>10, FS_Injection
<1> QED
  BY <1>11 DEF first, m

\* Whoever is left out has those taken before it.
LEMMA TopComesFirst ==
  ASSUME NEW S, NEW rank, NEW place, Sortable(S, rank, place), NEW k \in Nat,
         NEW r \in S, r \notin top(S, rank, place, k), NEW q \in top(S, rank, place, k)
  PROVE  q \in S /\ rank[q] >= rank[r]
<1>1. /\ q \in S /\ q # r
      /\ Cardinality(ahead(S, rank, place, q)) < k /\ ~(Cardinality(ahead(S, rank, place, r)) < k)
  <2>1. r \notin {x \in S : Cardinality(ahead(S, rank, place, x)) < k}
        /\ q \in {x \in S : Cardinality(ahead(S, rank, place, x)) < k}
    BY TopIs
  <2> QED
    BY <2>1
<1>2. r \notin ahead(S, rank, place, q)
  <2>1. /\ Cardinality(ahead(S, rank, place, q)) \in Int /\ Cardinality(ahead(S, rank, place, r)) \in Int
    BY <1>1, AheadCounts
  <2> QED
    BY <1>1, <2>1, AheadCounts
<1>3. q \in ahead(S, rank, place, r)
  BY <1>1, <1>2, AheadIsOrder
<1> QED
  BY <1>1, <1>3 DEF ahead, Sortable

-----------------------------------------------------------------------------
(* Retrieval: the two blocks.                                              *)

LEMMA PolarityIs ==
  ASSUME NEW l \in Labels
  PROVE  /\ polarityOf(l) = "anti-pattern" <=> l \in Caused \cup {"wrong_rca"}
         /\ polarityOf(l) \in {"exemplar", "weak"} <=>
              l \in {"confirmed_good", "applied", "provisional_human_confirmed", "proposed"}
         /\ POLARITY_WEIGHT(l) \in -100..100
         /\ l = "confirmed_good" => POLARITY_WEIGHT(l) = 100
         /\ l \in {"applied", "provisional_human_confirmed", "proposed"} => POLARITY_WEIGHT(l) \in {35, 50, 55}
<1>1. ASSUME l = "confirmed_good" PROVE polarityOf(l) = "exemplar" /\ POLARITY_WEIGHT(l) = 100
  BY <1>1 DEF polarityOf, POLARITY_WEIGHT, Caused
<1>2. ASSUME l = "applied" PROVE polarityOf(l) = "weak" /\ POLARITY_WEIGHT(l) = 55
  BY <1>2 DEF polarityOf, POLARITY_WEIGHT, Caused
<1>3. ASSUME l = "provisional_human_confirmed" PROVE polarityOf(l) = "weak" /\ POLARITY_WEIGHT(l) = 50
  BY <1>3 DEF polarityOf, POLARITY_WEIGHT, Caused
<1>4. ASSUME l = "proposed" PROVE polarityOf(l) = "weak" /\ POLARITY_WEIGHT(l) = 35
  BY <1>4 DEF polarityOf, POLARITY_WEIGHT, Caused
<1>5. ASSUME l = "superseded" PROVE polarityOf(l) = "neutral" /\ POLARITY_WEIGHT(l) = 0
  BY <1>5 DEF polarityOf, POLARITY_WEIGHT, Caused
<1>6. ASSUME l \in {"recurred", "reverted", "wrong_rca"}
      PROVE  polarityOf(l) = "anti-pattern" /\ POLARITY_WEIGHT(l) = -100
  BY <1>6 DEF polarityOf, POLARITY_WEIGHT, Caused
<1> QED
  BY <1>1, <1>2, <1>3, <1>4, <1>5, <1>6 DEF Labels, Caused

\* The current resolutions answer for different incidents.
LEMMA OnePerIncident ==
  ASSUME TypeOK
  PROVE  /\ \A r \in currentResolutions : /\ r \in ToSet(log) /\ rows[r] \in Rows
                                          /\ rows[r].label \in Labels \ {"superseded"}
         /\ \A r, q \in currentResolutions : rows[r].incident = rows[q].incident => r = q
         /\ IsFiniteSet(currentResolutions)
<1>1. ASSUME NEW r \in currentResolutions
      PROVE  r \in ToSet(log) /\ rows[r] \in Rows /\ rows[r].label \in Labels \ {"superseded"}
  <2>1. r \in ToSet(log) /\ r \in Res /\ rows[r] # None /\ rows[r].label # "superseded"
    BY DEF currentResolutions, TypeOK
  <2>2. rows[r] \in Rows
    BY <2>1 DEF TypeOK
  <2> QED
    BY <2>1, <2>2 DEF Rows
<1>2. ASSUME NEW r \in currentResolutions, NEW q \in currentResolutions,
             rows[r].incident = rows[q].incident
      PROVE  r = q
  <2>1. position(q) <= position(r) /\ position(r) <= position(q)
    BY <1>2 DEF currentResolutions
  <2>2. /\ position(r) \in Nat /\ position(q) \in Nat
        /\ log[position(r)] = r /\ log[position(q)] = q
    BY <1>1, PositionIs
  <2> QED
    BY <2>1, <2>2
<1>3. IsFiniteSet(currentResolutions)
  <2>1. currentResolutions \subseteq ToSet(log)
    BY <1>1
  <2> QED
    BY <2>1, PositionIs, FS_Subset
<1> QED
  BY <1>1, <1>2, <1>3

\* No two current resolutions are in the same place.
LEMMA PlacesDiffer ==
  ASSUME TypeOK, NEW place \in Places
  PROVE  /\ \A r \in currentResolutions : place[r] \in Int
         /\ \A r, q \in currentResolutions : place[r] = place[q] => r = q
<1> DEFINE C == currentResolutions
<1>1. CASE store = "memory"
  <2> DEFINE mine(r) == {p \in ToSet(log) : /\ rows[p].label # "superseded"
                                            /\ rows[p].incident = rows[r].incident}
             spots(r) == {position(q) : q \in mine(r)}
  <2>1. place = [r \in C |-> mapPlace(r)]
    BY <1>1 DEF Places
  <2>2. ASSUME NEW r \in C
        PROVE  /\ place[r] \in Nat
               /\ \E p \in ToSet(log) : place[r] = position(p) /\ rows[p].incident = rows[r].incident
    <3>1. r \in mine(r)
      BY OnePerIncident
    <3>2. spots(r) \subseteq Nat /\ spots(r) # {}
      BY <3>1, PositionIs
    <3>3. mapPlace(r) = Min(spots(r))
      BY Zenon DEF mapPlace
    <3> HIDE DEF spots
    <3>4. Min(spots(r)) \in spots(r) /\ Min(spots(r)) \in Nat
      BY <3>2, MinOfNats
    <3> QED
      BY <2>1, <3>3, <3>4 DEF spots
  <2>3. ASSUME NEW r \in C, NEW q \in C, place[r] = place[q] PROVE r = q
    <3>1. PICK p \in ToSet(log) : place[r] = position(p) /\ rows[p].incident = rows[r].incident
      BY <2>2
    <3>2. PICK o \in ToSet(log) : place[q] = position(o) /\ rows[o].incident = rows[q].incident
      BY <2>2
    <3>3. p = o
      <4>1. log[position(p)] = p /\ log[position(o)] = o
        BY PositionIs
      <4> QED
        BY <2>3, <3>1, <3>2, <4>1
    <3> QED
      BY <3>1, <3>2, <3>3, OnePerIncident
  <2> QED
    BY <2>2, <2>3
<1>2. CASE store # "memory"
  <2>1. place \in [C -> 1..Cardinality(C)] /\ IsInjective(place)
    BY <1>2 DEF Places
  <2> QED
    BY <2>1 DEF IsInjective
<1> QED
  BY <1>1, <1>2

\* The promises of RetrievalHonest on whatever scale of whole numbers
\* similarity is measured, zero and below it included.
THEOREM HonestForAny ==
  ASSUME TypeOK, NEW sim, \A r \in currentResolutions : sim[rows[r].incident] \in Int,
         NEW onRecord, NEW minSim, NEW place \in Places
  PROVE  LET got == retrieveSimilar(sim, onRecord, minSim, place)
             C == comparable(sim, onRecord, minSim)
             failed == {r \in C : polarityOf(rows[r].label) = "anti-pattern"}
             of(r) == rows[r].incident
         IN  /\ \A r \in got.exemplars : rows[r].label \notin Caused \cup {"wrong_rca", "superseded"}
             /\ \A r, q \in got.exemplars \cup got.antiPatterns : of(r) = of(q) => r = q
             /\ Cardinality(got.antiPatterns) = Min({kNeg, Cardinality(failed)})
             /\ \A r \in failed \ got.antiPatterns, q \in got.antiPatterns : sim[of(r)] <= sim[of(q)]
             /\ \A r \in C \ got.exemplars, q \in got.exemplars :
                  rows[r].label = "confirmed_good" /\ rows[q].label # "confirmed_good"
                    => sim[of(r)] <= 0 \/ sim[of(r)] < sim[of(q)]
<1> DEFINE C == comparable(sim, onRecord, minSim)
           good == {r \in C : polarityOf(rows[r].label) \in {"exemplar", "weak"}}
           bad == {r \in C : polarityOf(rows[r].label) = "anti-pattern"}
           positive == [r \in C |-> rankPositive(r, sim)]
           raw == [r \in C |-> sim[rows[r].incident]]
           got == retrieveSimilar(sim, onRecord, minSim, place)
<1>0. C \subseteq currentResolutions
  BY DEF comparable
<1>1. \A r \in C : rows[r].label \in Labels \ {"superseded"} /\ sim[rows[r].incident] \in Int
  BY <1>0, OnePerIncident
<1>2. \A r, q \in C : rows[r].incident = rows[q].incident => r = q
  BY <1>0, OnePerIncident
<1>3. /\ got.exemplars = top(good, positive, place, kPos)
      /\ got.antiPatterns = top(bad, raw, place, kNeg)
  <2>1. {r \in C : polarityOf(rows[r].label) \in {"anti-pattern"}} = bad
    OBVIOUS
  <2> QED
    BY <2>1 DEF retrieveSimilar
<1> HIDE DEF got
<1>4. got.exemplars \subseteq good /\ got.antiPatterns \subseteq bad
  BY <1>3, TopIs
<1> HIDE DEF C
<1>5. \A r \in good : positive[r] \in Int /\ positive[r] = sim[rows[r].incident] * POLARITY_WEIGHT(rows[r].label)
  <2> SUFFICES ASSUME NEW r \in good
               PROVE  positive[r] \in Int /\ positive[r] = sim[rows[r].incident] * POLARITY_WEIGHT(rows[r].label)
    OBVIOUS
  <2>1. POLARITY_WEIGHT(rows[r].label) \in Int /\ sim[rows[r].incident] \in Int
    BY <1>1, PolarityIs
  <2> QED
    BY <2>1 DEF rankPositive
<1>6. \A r \in bad : raw[r] \in Int /\ raw[r] = sim[rows[r].incident]
  BY <1>1
<1> HIDE DEF positive, raw
<1>7. Sortable(good, positive, place) /\ Sortable(bad, raw, place)
  <2>1. good \subseteq currentResolutions /\ bad \subseteq currentResolutions
    BY <1>0
  <2>2. IsFiniteSet(good) /\ IsFiniteSet(bad)
    BY <2>1, OnePerIncident, FS_Subset
  <2> QED
    BY <1>5, <1>6, <2>1, <2>2, PlacesDiffer DEF Sortable
<1>8. \A r \in got.exemplars : rows[r].label \notin Caused \cup {"wrong_rca", "superseded"}
  BY <1>1, <1>4, PolarityIs DEF Caused
<1>9. Cardinality(got.antiPatterns) = Min({kNeg, Cardinality(bad)})
  <2>1. kNeg \in Nat /\ Cardinality(bad) \in Nat
    BY <1>7, AheadCounts, LimitAssumption
  <2>2. Cardinality(got.antiPatterns) = IF kNeg <= Cardinality(bad) THEN kNeg ELSE Cardinality(bad)
    BY <1>3, <1>7, <2>1, TopCount
  <2>3. Min({kNeg, Cardinality(bad)}) = IF kNeg <= Cardinality(bad) THEN kNeg ELSE Cardinality(bad)
    <3>1. {kNeg, Cardinality(bad)} \subseteq Nat /\ {kNeg, Cardinality(bad)} # {}
      BY <2>1
    <3> QED
      BY <2>1, <3>1, MinOfNats
  <2> QED
    BY <2>2, <2>3
<1>10. ASSUME NEW r \in bad \ got.antiPatterns, NEW q \in got.antiPatterns
       PROVE  sim[rows[r].incident] <= sim[rows[q].incident]
  <2>1. q \in bad /\ raw[q] >= raw[r]
    BY <1>3, <1>7, TopComesFirst, LimitAssumption
  <2> QED
    BY <1>1, <1>6, <2>1
<1>11. ASSUME NEW r \in C \ got.exemplars, NEW q \in got.exemplars,
              rows[r].label = "confirmed_good", rows[q].label # "confirmed_good"
       PROVE  sim[rows[r].incident] <= 0 \/ sim[rows[r].incident] < sim[rows[q].incident]
  <2>1. r \in good
    BY <1>1, <1>11, PolarityIs
  <2>2. q \in good /\ positive[q] >= positive[r]
    BY <1>3, <1>7, <1>11, <2>1, TopComesFirst, LimitAssumption
  <2>3. POLARITY_WEIGHT(rows[r].label) = 100 /\ POLARITY_WEIGHT(rows[q].label) \in {35, 50, 55}
    BY <1>1, <1>11, <2>2, PolarityIs
  <2> DEFINE x == sim[rows[r].incident]
             y == sim[rows[q].incident]
             w == POLARITY_WEIGHT(rows[q].label)
  <2>4. x \in Int /\ y \in Int /\ y * w >= x * 100 /\ w \in {35, 50, 55}
    BY <1>1, <1>5, <2>1, <2>2, <2>3
  <2> HIDE DEF x, y, w
  <2>5. x <= 0 \/ x < y
    BY <2>4
  <2> QED
    BY <2>5 DEF x, y
<1>12. \A r, q \in got.exemplars \cup got.antiPatterns :
         rows[r].incident = rows[q].incident => r = q
  BY <1>2, <1>4
<1> QED
  BY <1>8, <1>9, <1>10, <1>11, <1>12, Zenon DEF got, C

\* Whatever the similarities and the limits, no failed fix is offered as an
\* example, no incident answers twice, the failures shown are the most similar,
\* up to their limit, and no proven fix that is similar at all is left out for an
\* unproven one that is no more so.
THEOREM RetrievalIsHonest == Spec => []RetrievalHonest
<1>1. ASSUME TypeOK, NEW sim \in [{rows[r].incident : r \in currentResolutions} -> Similarities]
      PROVE  \A r \in currentResolutions : sim[rows[r].incident] \in Int
  BY <1>1, LimitAssumption
<1>2. TypeOK => RetrievalHonest
  BY <1>1, HonestForAny, Zenon DEF RetrievalHonest
<1> QED
  BY <1>2, TrustTypes, PTL
=============================================================================
