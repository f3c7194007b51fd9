--------------------------- MODULE ApprovalLadder ---------------------------
(***************************************************************************)
(* The approval queue of packages/hitl/src/ladder.ts: rows that wait for a *)
(* human verdict, and the ladder that climbs while nobody gives one.       *)
(*                                                                         *)
(* The code compares escalateAtMs with an injected nowMs.  Here a timer    *)
(* counts the minutes left until then and Pass lets one go by for every    *)
(* row, so a timer is due at 0 and Tick may scan as late as it likes.      *)
(* Every method is synchronous: an action is a whole call.                 *)
(***************************************************************************)
EXTENDS Naturals

CONSTANTS Ids,        \* approval request ids
          Primary,    \* minutes the primary approver of each tier has
          Secondary,  \* minutes the secondary approver of tiers 2 and 3 has
          Off         \* escalateAtMs = null

Tiers == {2, 3, 4}
ASSUME PrimaryAssumption == Primary \in [Tiers -> Nat]
ASSUME SecondaryAssumption == Secondary \in [{2, 3} -> Nat]
ASSUME OffAssumption == Off \notin Nat

VARIABLES
  state,   \* of each row; "absent" before it is enqueued
  tier,    \* of each row
  diff,    \* whether the row carries a fix_sha
  asked,   \* the current approver
  by,      \* verdictBy
  timer,   \* minutes until escalateAtMs
  waited,  \* history: minutes since the row was enqueued, up to Patience
  fired    \* history: the ladder events the row has produced

vars == <<state, tier, diff, asked, by, timer, waited, fired>>

Waiting == {"OPEN", "ESCALATED"}
Verdicts == {"APPROVED", "REJECTED"}
Terminal == Verdicts \cup {"SUPERSEDED"}
Events == {"escalate_to_secondary", "page_oncall_bridge", "remind", "auto_reject"}

\* The longest the ladder lets a row of tier t wait.
Patience(t) == IF t = 4 THEN Primary[4] ELSE Primary[t] + Secondary[t]

TypeOK ==
  /\ state \in [Ids -> {"absent"} \cup Waiting \cup Terminal]
  /\ tier \in [Ids -> Tiers]
  /\ diff \in [Ids -> BOOLEAN]
  /\ asked \in [Ids -> {"primary", "secondary"}]
  /\ by \in [Ids -> {"nobody", "human"}]
  /\ timer \in [Ids -> Nat \cup {Off}]
  /\ waited \in [Ids -> Nat]
  /\ fired \in [Ids -> SUBSET Events]

Init ==
  /\ state = [i \in Ids |-> "absent"]
  /\ tier = [i \in Ids |-> 2]
  /\ diff = [i \in Ids |-> FALSE]
  /\ asked = [i \in Ids |-> "primary"]
  /\ by = [i \in Ids |-> "nobody"]
  /\ timer = [i \in Ids |-> Off]
  /\ waited = [i \in Ids |-> 0]
  /\ fired = [i \in Ids |-> {}]

\* isCrosswalkLegal, and a tier-4 plan has no diff.
EnqueueLegal(t, loop, d) == /\ t < 3 \/ loop = "C"
                            /\ t = 4 => ~d

\* Callers draw a fresh id for every request.
Enqueue(i, t, loop, d) ==
  /\ state[i] = "absent"
  /\ EnqueueLegal(t, loop, d)
  /\ state' = [state EXCEPT ![i] = "OPEN"]
  /\ tier' = [tier EXCEPT ![i] = t]
  /\ diff' = [diff EXCEPT ![i] = d]
  /\ timer' = [timer EXCEPT ![i] = Primary[t]]
  /\ UNCHANGED <<asked, by, waited, fired>>

\* Mutant: a verdict is taken whatever the state.
VerdictAnytime(i, to, edited) ==
  /\ state[i] # "absent"
  /\ state' = [state EXCEPT ![i] = to]
  /\ by' = [by EXCEPT ![i] = "human"]
  /\ diff' = [diff EXCEPT ![i] = diff[i] \/ (to = "APPROVED" /\ edited)]
  /\ timer' = [timer EXCEPT ![i] = Off]
  /\ UNCHANGED <<tier, asked, waited, fired>>

\* approve and reject: a human's compare-and-set; an approval may bring the
\* fix_sha of a human's edit.
Verdict(i, to, edited) ==
  /\ state[i] \in Waiting
  /\ state' = [state EXCEPT ![i] = to]
  /\ by' = [by EXCEPT ![i] = "human"]
  /\ diff' = [diff EXCEPT ![i] = diff[i] \/ (to = "APPROVED" /\ edited)]
  /\ timer' = [timer EXCEPT ![i] = Off]
  /\ UNCHANGED <<tier, asked, waited, fired>>

\* The incident reached a terminal state: a row with a verdict is returned as
\* it is, any other is cancelled, a cancelled one again.
Supersede(i) ==
  /\ state[i] \in Waiting \cup {"SUPERSEDED"}
  /\ state' = [state EXCEPT ![i] = "SUPERSEDED"]
  /\ timer' = [timer EXCEPT ![i] = Off]
  /\ UNCHANGED <<tier, diff, asked, by, waited, fired>>

Due(i) == state[i] \in Waiting /\ timer[i] = 0

\* fire, row by row: the event, and what it makes of state, approver and timer.
EventOf(i) == CASE tier[i] = 4 -> "auto_reject"
                [] tier[i] # 4 /\ state[i] = "OPEN" -> "escalate_to_secondary"
                [] tier[i] = 3 /\ state[i] # "OPEN" -> "page_oncall_bridge"
                [] tier[i] = 2 /\ state[i] # "OPEN" -> "remind"

\* Mutant: a tier-4 plan nobody answered expires.
StateAfterExpires(e) == IF e = "auto_reject" THEN "EXPIRED" ELSE "ESCALATED"

\* Mutant: silence denies from tier 3 on.
StateAfterDenying(e) == CASE e = "auto_reject" -> "REJECTED"
                          [] e = "page_oncall_bridge" -> "REJECTED"
                          [] OTHER -> "ESCALATED"

StateAfter(e) == IF e = "auto_reject" THEN "REJECTED" ELSE "ESCALATED"

\* Mutant: an escalation does not arm the secondary's timer.
TimerAfterUnarmed(i) == Off

\* Only an escalation arms the timer again.
TimerAfter(i) == IF EventOf(i) = "escalate_to_secondary" THEN Secondary[tier[i]] ELSE Off

\* Mutant: the scan fires the rows whose timer is still running, too.
TickEarly ==
  LET early == {i \in Ids : state[i] \in Waiting /\ timer[i] # Off} IN
  /\ early # {}
  /\ state' = [i \in Ids |-> IF i \in early THEN StateAfter(EventOf(i)) ELSE state[i]]
  /\ asked' = [i \in Ids |-> IF i \in early /\ EventOf(i) = "escalate_to_secondary"
                             THEN "secondary" ELSE asked[i]]
  /\ timer' = [i \in Ids |-> IF i \in early THEN TimerAfter(i) ELSE timer[i]]
  /\ fired' = [i \in Ids |-> IF i \in early THEN fired[i] \cup {EventOf(i)} ELSE fired[i]]
  /\ UNCHANGED <<tier, diff, by, waited>>

\* tick: every due timer is fired, once.
Tick ==
  /\ \E i \in Ids : Due(i)
  /\ state' = [i \in Ids |-> IF Due(i) THEN StateAfter(EventOf(i)) ELSE state[i]]
  /\ asked' = [i \in Ids |-> IF Due(i) /\ EventOf(i) = "escalate_to_secondary"
                             THEN "secondary" ELSE asked[i]]
  /\ timer' = [i \in Ids |-> IF Due(i) THEN TimerAfter(i) ELSE timer[i]]
  /\ fired' = [i \in Ids |-> IF Due(i) THEN fired[i] \cup {EventOf(i)} ELSE fired[i]]
  /\ UNCHANGED <<tier, diff, by, waited>>

\* A minute goes by.  Only a wait up to Patience counts.
Pass ==
  /\ \E i \in Ids : state[i] \in Waiting /\ (waited[i] < Patience(tier[i]) \/ timer[i] # Off)
  /\ timer' = [i \in Ids |-> IF timer[i] \in Nat \ {0} THEN timer[i] - 1 ELSE timer[i]]
  /\ waited' = [i \in Ids |-> IF state[i] \in Waiting /\ waited[i] < Patience(tier[i])
                              THEN waited[i] + 1 ELSE waited[i]]
  /\ UNCHANGED <<state, tier, diff, asked, by, fired>>

Next ==
  \/ \E i \in Ids : \E t \in Tiers : \E loop \in {"B", "C"} : \E d \in BOOLEAN :
       Enqueue(i, t, loop, d)
  \/ \E i \in Ids : \E to \in Verdicts : \E edited \in BOOLEAN : Verdict(i, to, edited)
  \/ \E i \in Ids : Supersede(i)
  \/ Tick
  \/ Pass

Spec == Init /\ [][Next]_vars

-----------------------------------------------------------------------------
(* What must hold                                                          *)

(***************************************************************************)
(* Silence approves nothing, and denies only a tier-4 plan, and that not   *)
(* before its approver had all the minutes of the tier (ladder.ts:7-12).   *)
(***************************************************************************)
SilenceDecidesOnlyTier4 ==
  \A i \in Ids : state[i] \in Verdicts /\ by[i] = "nobody" =>
    /\ tier[i] = 4
    /\ state[i] = "REJECTED"
    /\ waited[i] >= Primary[4]

(***************************************************************************)
(* A waiting row is never forgotten: its timer runs, or it has climbed the *)
(* whole ladder, which tier 3 ends at the on-call bridge and tier 2 with a *)
(* reminder.                                                               *)
(***************************************************************************)
NobodyIsForgotten ==
  \A i \in Ids : state[i] \in Waiting /\ timer[i] = Off =>
    /\ state[i] = "ESCALATED" /\ asked[i] = "secondary"
    /\ fired[i] = {"escalate_to_secondary",
                   IF tier[i] = 3 THEN "page_oncall_bridge" ELSE "remind"}

(***************************************************************************)
(* The ladder is climbed in order and never early: nobody but the primary  *)
(* is bothered before the primary's time is up, and neither the bridge nor *)
(* a reminder before the secondary's is, however late the scans come.      *)
(***************************************************************************)
LadderIsClimbedInOrder ==
  \A i \in Ids :
    /\ asked[i] = "secondary" <=> "escalate_to_secondary" \in fired[i]
    /\ "escalate_to_secondary" \in fired[i] => waited[i] >= Primary[tier[i]]
    /\ fired[i] \cap {"page_oncall_bridge", "remind"} # {} =>
         asked[i] = "secondary" /\ waited[i] >= Patience(tier[i])

(***************************************************************************)
(* The first verdict stands: no later tap, timer or cancellation changes   *)
(* it, who gave it, or the fix it was given for.                           *)
(***************************************************************************)
VerdictStands ==
  [][\A i \in Ids : state[i] \in Verdicts =>
       state'[i] = state[i] /\ by'[i] = by[i] /\ diff'[i] = diff[i]]_vars
=============================================================================
