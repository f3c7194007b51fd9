---------------------------- MODULE TrustMemory ----------------------------
(***************************************************************************)
(* How a class of fixes earns and loses the right to be applied without a  *)
(* human: the resolutions of packages/incident-memory, in memory or in     *)
(* Postgres, the outcome events they project, the control law of           *)
(* trust-controller, the router, the business-hours gate of hitl and the   *)
(* landing ledger of orchestrator, with the caller that pipeline.test.ts   *)
(* walks through.  One class and one module area; the fix r stands for its *)
(* resolution, its landing (incident_id, fix_sha) and its action id.       *)
(***************************************************************************)
EXTENDS Integers, FiniteSets, FiniteSetsExt, Sequences, SequencesExt

CONSTANTS Res, Incidents, None,
          toL2, toL3,  \* the gates of the two levels, theta in percent
          W_mature,    \* ticks until a good outcome counts
          OtherAt,     \* ticks at which fixes of other classes land in the area
          Churn,       \* [max, windowH, quietH] of the churn escalator
          teams,       \* BusinessHoursConfig: what each known team staffs
          Unknown,     \* a team the configuration does not name
          DayLen, Start,  \* ticks of a day; the absolute tick a run starts at
          kPos, kNeg,  \* limits of the two blocks of a retrieval
          Similarities, \* of a query to a resolution: a cosine, or an overlap
          Settable,    \* labels the callers of this instance set
          MaxNow       \* bound: the last tick of a run

Gates == [K: Nat \ {0}, theta: 0..100, dMin: Nat]
ASSUME GateAssumption == toL2 \in Gates /\ toL3 \in Gates
ASSUME ResAssumption == IsFiniteSet(Res)
ASSUME TickAssumption ==
  /\ W_mature \in Nat /\ MaxNow \in Nat /\ OtherAt \subseteq Nat
  /\ Churn \in [max: Nat \ {0}, windowH: Nat, quietH: Nat]
ASSUME LimitAssumption == kPos \in Nat /\ kNeg \in Nat /\ Similarities \subseteq Int

\* No run starts before the first day of the calendar, in any zone.
ASSUME CalendarAssumption ==
  /\ DayLen \in Nat \ {0} /\ Start \in Nat /\ Unknown \notin DOMAIN teams
  /\ \A t \in DOMAIN teams :
       /\ teams[t].tzOffset \in Int /\ Start + teams[t].tzOffset >= 0
       /\ \A w \in teams[t].staffed : w.startMin \in Int /\ w.endMin \in Int

VARIABLES
  store,   \* "memory" or "postgres"
  now,
  ledger,  \* auto_action: when each fix landed, by whom, and for a machine
           \* the teams whose areas it touches
  rows,    \* resolutions: incident, whether linked to the landing, label
  log      \* the order the resolutions were recorded in

vars == <<store, now, ledger, rows, log>>

Labels == {"proposed", "applied", "provisional_human_confirmed",
           "confirmed_good", "recurred", "reverted", "wrong_rca", "superseded"}
Caused == {"recurred", "reverted"}
Buttons == {"approve", "reject", "edit"}

Touchable == SUBSET (DOMAIN teams \cup {Unknown})
Landings == [at: 0..MaxNow, by: {"machine", "human_approved"}, teams: Touchable]
Rows == [incident: Incidents, landed: BOOLEAN, label: Labels]
ASSUME SettableAssumption == Settable \subseteq Labels
ASSUME NoneAssumption == None \notin Nat /\ None \notin Rows

TypeOK ==
  /\ store \in {"memory", "postgres"}
  /\ now \in 0..MaxNow
  /\ ledger \in [Res -> Landings \cup {None}]
  /\ rows \in [Res -> Rows \cup {None}]
  /\ log \in Seq(Res) /\ IsInjective(log)
  /\ ToSet(log) = {r \in Res : rows[r] # None}

Init ==
  /\ store \in {"memory", "postgres"}
  /\ now = 0
  /\ ledger = [r \in Res |-> None]
  /\ rows = [r \in Res |-> None]
  /\ log = <<>>

----------------------------------------------------------------------------
(* Retrieval: two blocks, split by what became of the precedent.           *)

polarityOf(label) ==
  CASE label = "confirmed_good" -> "exemplar"
    [] label \in Caused \cup {"wrong_rca"} -> "anti-pattern"
    [] label \in {"applied", "provisional_human_confirmed", "proposed"} -> "weak"
    [] OTHER -> "neutral"

\* In hundredths.
POLARITY_WEIGHT(label) ==
  CASE label = "confirmed_good" -> 100
    [] label = "applied" -> 55
    [] label = "provisional_human_confirmed" -> 50
    [] label = "proposed" -> 35
    [] label = "superseded" -> 0
    [] OTHER -> -100

position(r) == CHOOSE k \in DOMAIN log : log[k] = r

\* The newest row of each incident that is not superseded.
currentResolutions ==
  LET alive == {r \in ToSet(log) : rows[r].label # "superseded"}
  IN  {r \in alive : \A q \in alive :
         rows[q].incident = rows[r].incident => position(q) <= position(r)}

\* Where a row comes before it is ranked.  In memory it has the place of its
\* incident in a Map, which the first row of it that is not superseded took and
\* a newer one keeps; the query says nothing, and any order may come.
mapPlace(r) ==
  Min({position(q) : q \in {p \in ToSet(log) : /\ rows[p].label # "superseded"
                                              /\ rows[p].incident = rows[r].incident}})
Places ==
  LET C == currentResolutions
  IN  IF store = "memory" THEN {[r \in C |-> mapPlace(r)]}
      ELSE {place \in [C -> 1..Cardinality(C)] : IsInjective(place)}

\* The first k of a stable sort by descending rank.
top(S, rank, place, k) ==
  {r \in S : Cardinality({q \in S : \/ rank[q] > rank[r]
                                    \/ rank[q] = rank[r] /\ place[q] < place[r]}) < k}

\* Mutant: positives are ranked by similarity alone.
rankBySimilarity(r, sim) == sim[rows[r].incident]

rankPositive(r, sim) == sim[rows[r].incident] * POLARITY_WEIGHT(rows[r].label)

\* What is compared at all: an incident nobody recorded, or without a trace to
\* compare, is passed over, and minSimilarity is an option of the memory only.
comparable(sim, onRecord, minSim) ==
  {r \in currentResolutions : /\ rows[r].incident \in onRecord
                              /\ store = "memory" => sim[rows[r].incident] >= minSim}

retrieveSimilar(sim, onRecord, minSim, place) ==
  LET C == comparable(sim, onRecord, minSim)
      of(P) == {r \in C : polarityOf(rows[r].label) \in P}
      positive == [r \in C |-> rankPositive(r, sim)]
      raw == [r \in C |-> sim[rows[r].incident]]
  IN  [exemplars |-> top(of({"exemplar", "weak"}), positive, place, kPos),
       antiPatterns |-> top(of({"anti-pattern"}), raw, place, kNeg)]

----------------------------------------------------------------------------
(* The control law: outcome events, their fold, the level they earn.       *)

\* Mutant: a harm is dated by the landing it is about.
harmTimeOfLanding(r) == ledger[r].at

\* A recurrence or a revert is dated by the projection that reports it.
harmTime(r) == now

\* Only resolutions linked to a landing speak; `matured` waits for W_mature.
projectOutcomeEvents ==
  LET linked == {r \in ToSet(log) : rows[r].landed}
      with(L) == {r \in linked : rows[r].label \in L}
      event(r, kind, at) == [actionId |-> r, kind |-> kind, at |-> at]
  IN  {event(r, "applied", ledger[r].at) : r \in linked}
        \cup {event(r, "matured", ledger[r].at + W_mature) :
                r \in {q \in with({"confirmed_good"}) : now - ledger[q].at >= W_mature}}
        \cup {event(r, "recurrence", harmTime(r)) : r \in with({"recurred"})}
        \cup {event(r, "revert", harmTime(r)) : r \in with({"reverted"})}

foldClass(events) ==
  LET of(K) == {e \in events : e.kind \in K}
      harm == of({"recurrence", "spawn", "spawn_contested", "revert"})
      good == Cardinality(of({"matured"}))
  IN  [confirmedGood |-> good,
       decided |-> good + Cardinality(harm),
       firstApplied |-> IF of({"applied"}) = {} THEN None
                        ELSE Min({e.at : e \in of({"applied"})}),
       lastCaused |-> IF harm = {} THEN None ELSE Max({e.at : e \in harm})]

meetsGate(s, g) ==
  /\ s.confirmedGood >= g.K
  /\ s.confirmedGood * 100 >= g.theta * s.decided
  /\ s.firstApplied # None /\ now - s.firstApplied >= g.dMin
  /\ s.lastCaused = None \/ now - s.lastCaused >= g.dMin

effectiveLevel(killed) ==
  LET s == foldClass(projectOutcomeEvents)
  IN  CASE killed -> "L0"
        [] ~killed /\ ~meetsGate(s, toL2) -> "L1"
        [] ~killed /\ meetsGate(s, toL2) /\ ~meetsGate(s, toL3) -> "L2"
        [] OTHER -> "L3"

levelToTier(level) == CASE level = "L0" -> 1 [] level = "L3" -> 3 [] OTHER -> 2
requiredMutationScore(level) ==
  CASE level = "L2" -> 75 [] level = "L3" -> 80 [] OTHER -> 60

route(owner, killed) ==
  LET level == effectiveLevel(killed)
  IN  [level |-> level, tier |-> levelToTier(level), accountableOwner |-> owner,
       requiredMutationScore |-> requiredMutationScore(level)]

----------------------------------------------------------------------------
(* The gates of an automatic landing: churn and business hours.            *)

landed == {r \in Res : ledger[r] # None}

\* listByArea: the landings of the area so far.
actions == {<<r, ledger[r].at>> : r \in landed} \cup {<<t, t>> : t \in OtherAt \cap 0..now}

\* Mutant: a burst lasts one tick less.
spanShort == Churn.windowH - 1

\* max actions that start with a span less than windowH.
span == Churn.windowH

churnHold ==
  LET recent == {a \in actions : now - a[2] < Churn.quietH}
  IN  \E a \in recent :
        Cardinality({b \in recent : b[2] \in a[2]..(a[2] + span - 1)}) >= Churn.max

\* Mutant: the minute a window ends at is still staffed.
inWindowClosed(w, m) == m >= w.startMin /\ m <= w.endMin /\ w.endMin <= DayLen

inWindow(w, m) == m >= w.startMin /\ m < w.endMin /\ w.endMin <= DayLen

\* The epoch was a Thursday.
weekday(date) == (date + 4) % 7

isStaffed(t) ==
  LET local == Start + now + teams[t].tzOffset
      date == local \div DayLen
  IN  /\ date \notin teams[t].holidays
      /\ \E w \in teams[t].staffed :
           weekday(date) \in w.days /\ inWindow(w, local % DayLen)

isBusinessHours(T) == T # {} /\ \A t \in T : t \in DOMAIN teams /\ isStaffed(t)

isAutoApply(level) == level \in {"L2", "L3"}

gateAutoApply(level, T) ==
  IF isAutoApply(level) => isBusinessHours(T) THEN "auto-apply" ELSE "downgrade-to-PR"

----------------------------------------------------------------------------
(* Steps.                                                                  *)

\* applyTimeWrite: the first of (incident, fix) is the landing, a redelivery
\* finds it and changes nothing.
applyTimeWrite(r, by, T) ==
  /\ ledger[r] = None
  /\ ledger' = [ledger EXCEPT ![r] = [at |-> now, by |-> by, teams |-> T]]
  /\ UNCHANGED <<store, now, rows, log>>

\* What a tap on a verdict card asks for: Loop A authors no change, so its card
\* sets a label; approving or editing the others lands the fix, rejecting one
\* does neither.
resolveVerdict(surface, button) ==
  [emitLabel |-> CASE surface = "loopA_handoff" /\ button = "approve" -> "provisional_human_confirmed"
                   [] surface = "loopA_handoff" /\ button = "reject" -> "wrong_rca"
                   [] OTHER -> None,
   triggersApplyTimeWrite |-> surface = "approval" /\ button \in {"approve", "edit"}]

\* A human merged the pull request, or tapped to land it.
HumanLands(r, button) ==
  /\ resolveVerdict("approval", button).triggersApplyTimeWrite
  /\ applyTimeWrite(r, "human_approved", {})

\* The class is routed, the route asks for an automatic landing, and none of
\* the gates downgrades it; the verification gate fails a route without owner.
MachineLands(r, T, owner, killed) ==
  LET call == route(owner, killed)
  IN  /\ isAutoApply(call.level)
      /\ call.accountableOwner # None
      /\ gateAutoApply(call.level, T) = "auto-apply"
      /\ ~churnHold
      /\ applyTimeWrite(r, "machine", T)

\* recordResolution of a fix, linked to its landing if there is one.
Record(r, i) ==
  /\ rows[r] = None
  /\ rows' = [rows EXCEPT ![r] =
       [incident |-> i, landed |-> ledger[r] # None,
        label |-> IF ledger[r] = None THEN "proposed" ELSE "applied"]]
  /\ log' = Append(log, r)
  /\ UNCHANGED <<store, now, ledger>>

\* Mutant: the row is stored a second time.
RecordTwice(r) ==
  /\ store = "memory"
  /\ rows[r] # None
  /\ log' = Append(log, r)
  /\ UNCHANGED <<store, now, ledger, rows>>

\* The same call again: the Map is overwritten, Postgres does nothing.
RecordAgain(r) ==
  /\ store = "memory"
  /\ rows[r] # None
  /\ rows' = [rows EXCEPT ![r].label = IF rows[r].landed THEN "applied" ELSE "proposed"]
  /\ UNCHANGED <<store, now, ledger, log>>

\* In memory confirmed_good needs a landing; Postgres leaves that to the
\* writer.
setOutcomeLabel(r, l) ==
  /\ rows[r] # None /\ rows[r].label # l
  /\ store = "memory" /\ l = "confirmed_good" => rows[r].landed
  /\ rows' = [rows EXCEPT ![r].label = l]
  /\ UNCHANGED <<store, now, ledger, log>>

\* The hand-off card of Loop A labels the resolution.
HandOffTap(r, button) ==
  LET label == resolveVerdict("loopA_handoff", button).emitLabel
  IN  label # None /\ setOutcomeLabel(r, label)

Pass ==
  /\ now < MaxNow
  /\ now' = now + 1
  /\ UNCHANGED <<store, ledger, rows, log>>

Next ==
  \/ \E r \in Res, button \in Buttons : HumanLands(r, button)
  \/ \E r \in Res, T \in Touchable, owner \in {"owner", None}, killed \in BOOLEAN :
       MachineLands(r, T, owner, killed)
  \/ \E r \in Res, i \in Incidents : Record(r, i)
  \/ \E r \in Res : RecordAgain(r)
  \/ \E r \in Res, l \in Settable : setOutcomeLabel(r, l)
  \/ \E r \in Res, button \in Buttons : HandOffTap(r, button)
  \/ Pass

Spec == Init /\ [][Next]_vars

(***************************************************************************)
(* Properties.                                                             *)
(***************************************************************************)
\* A level above L1 rests on outcomes only: enough fixes that landed at least
\* W_mature ago and were confirmed since, a first landing old enough, and not
\* one linked landing that recurred or was reverted, however long ago: a
\* harm holds its class for as long as its label stands.
PromotionIsEarned ==
  LET linked == {r \in landed : rows[r] # None /\ rows[r].landed}
      matured == {r \in linked : rows[r].label = "confirmed_good" /\ ledger[r].at + W_mature <= now}
      earned(g) == /\ Cardinality(matured) >= g.K
                   /\ \E r \in linked : now - ledger[r].at >= g.dMin
                   /\ \A r \in linked : g.dMin > 0 => rows[r].label \notin Caused
  IN  /\ isAutoApply(effectiveLevel(FALSE)) => earned(toL2)
      /\ effectiveLevel(FALSE) = "L3" => earned(toL3)

\* A machine landed a fix only at a time in a staffed interval of every team
\* it touches, at least one, whatever the offset of the team and the day's edges.
StaffedByCalendar(t, at) ==
  LET local == Start + at + teams[t].tzOffset
  IN  \E w \in teams[t].staffed, date \in 0..local :
        /\ date \notin teams[t].holidays /\ weekday(date) \in w.days /\ w.endMin <= DayLen
        /\ date * DayLen + w.startMin <= local /\ local < date * DayLen + w.endMin

AutoApplyInStaffedHours ==
  \A r \in landed : ledger[r].by = "machine" =>
    /\ ledger[r].teams # {}
    /\ \A t \in ledger[r].teams : t # Unknown /\ StaffedByCalendar(t, ledger[r].at)

\* No machine lands a fix in an area that has had max landings in the last
\* windowH (windowH not longer than quietH), nor within quietH of the first
\* landing of any burst, whoever made it.  The hold counts from the first of the
\* burst and not from the last landing: an area that keeps moving is let go.
QuietAfterBurst ==
  \A r \in landed : ledger[r].by = "machine" =>
    LET before == {a \in actions : a[2] < ledger[r].at}
    IN  /\ Churn.windowH <= Churn.quietH =>
             Cardinality({b \in before : ledger[r].at - b[2] < Churn.windowH}) < Churn.max
        /\ \A a \in before :
             Cardinality({b \in before : a[2] <= b[2] /\ b[2] - a[2] < Churn.windowH}) >= Churn.max
               => ledger[r].at - a[2] >= Churn.quietH

\* Whatever the similarities and the limits, a failed fix is never offered as an
\* example to follow, no incident answers twice, the failures shown are the most
\* similar ones, up to their own limit, and a proven fix is left out for an
\* unproven one only if it is less similar or not similar at all: at zero and
\* below it the weight no longer tells the two apart.
RetrievalHonest ==
  LET asked == {rows[r].incident : r \in currentResolutions}
  IN \A sim \in [asked -> Similarities], onRecord \in SUBSET asked,
        minSim \in Similarities, place \in Places :
    LET got == retrieveSimilar(sim, onRecord, minSim, place)
        C == comparable(sim, onRecord, minSim)
        failed == {r \in C : polarityOf(rows[r].label) = "anti-pattern"}
        of(r) == rows[r].incident
    IN  /\ \A r \in got.exemplars : rows[r].label \notin Caused \cup {"wrong_rca", "superseded"}
        /\ \A r, q \in got.exemplars \cup got.antiPatterns : of(r) = of(q) => r = q
        /\ Cardinality(got.antiPatterns) = Min({kNeg, Cardinality(failed)})
        /\ \A r \in failed \ got.antiPatterns, q \in got.antiPatterns : sim[of(r)] <= sim[of(q)]
        /\ \A r \in C \ got.exemplars, q \in got.exemplars :
             rows[r].label = "confirmed_good" /\ rows[q].label # "confirmed_good"
               => sim[of(r)] <= 0 \/ sim[of(r)] < sim[of(q)]
=============================================================================
