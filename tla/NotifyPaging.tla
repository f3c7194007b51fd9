---------------------------- MODULE NotifyPaging ----------------------------
(***************************************************************************)
(* Who gets paged: the path of packages/app/src/runtime.ts from a received *)
(* signal to the sinks that page a human, with its three silencers: the    *)
(* noise floor, the per-fingerprint window of paging.ts, which is memory   *)
(* of the process, and the compare-and-set on notify_state, which is a     *)
(* column of Postgres.                                                     *)
(*                                                                         *)
(* One action is the code between two awaits.  A window counts the minutes *)
(* it has left, as suppressed() would compute them; age is how long ago a  *)
(* call read the clock it will later hand to markPaged.                    *)
(***************************************************************************)
EXTENDS Naturals

CONSTANTS Calls,       \* signals received: calls of diagnose
          Ids,         \* incident ids
          Causes,      \* fingerprints
          CauseOf,     \* the fingerprint of each incident
          Window,      \* dedupWindowMs, in minutes
          NoiseFloor,  \* noiseFloorOccurrences
          MaxOcc,      \* bound: occurrences a signal reports
          MaxRestarts  \* bound: restarts in one behaviour

ASSUME CauseAssumption == CauseOf \in [Ids -> Causes]
ASSUME WindowAssumption == Window \in Nat
ASSUME BoundAssumption == MaxRestarts \in Nat /\ MaxOcc \in Nat /\ NoiseFloor \in Nat

VARIABLES
  at,        \* where each call is
  incident,  \* the incident it reports
  age,       \* minutes since it read the clock, up to Window
  rows,      \* incident_memory.incidents: the ids that have a row
  notified,  \* the ids whose notify_state is 'notified'
  window,    \* minutes for which PageDedup still suppresses each cause
  paged,     \* history: pages sent for each incident
  since,     \* history: minutes since the last page for each cause, up to Window
  restarts

vars == <<at, incident, age, rows, notified, window, paged, since, restarts>>

Waits == {"recording", "investigating", "cas", "won"}
Ends == {"quiet", "lost", "delivered", "failed"}

TypeOK ==
  /\ at \in [Calls -> {"unused"} \cup Waits \cup Ends]
  /\ incident \in [Calls -> Ids]
  /\ age \in [Calls -> 0..Window]
  /\ rows \in SUBSET Ids
  /\ notified \in SUBSET Ids
  /\ window \in [Causes -> 0..Window]
  /\ paged \in [Ids -> Nat]
  /\ since \in [Causes -> 0..Window]
  /\ restarts \in 0..MaxRestarts

Init ==
  /\ at = [k \in Calls |-> "unused"]
  /\ incident \in [Calls -> Ids]    \* what each call is going to report
  /\ age = [k \in Calls |-> 0]
  /\ rows = {}
  /\ notified = {}
  /\ window = [c \in Causes |-> 0]
  /\ paged = [i \in Ids |-> 0]
  /\ since = [c \in Causes |-> Window]
  /\ restarts = 0

Cause(k) == CauseOf[incident[k]]

\* shouldPage: what needs somebody to act pages at once, the rest when it recurs.
ShouldPage(actionable, occurrences) == actionable \/ occurrences >= NoiseFloor

\* A signal passes ingest and recordIncident is awaited.
Receive(k) ==
  /\ at[k] = "unused"
  /\ at' = [at EXCEPT ![k] = "recording"]
  /\ UNCHANGED <<incident, age, rows, notified, window, paged, since, restarts>>

\* Mutant: the insert is not awaited, and has not happened when the RCA starts.
RecordUnawaited(k) ==
  /\ at[k] = "recording"
  /\ at' = [at EXCEPT ![k] = "investigating"]
  /\ UNCHANGED <<incident, age, rows, notified, window, paged, since, restarts>>

\* INSERT INTO incidents ... ON CONFLICT (id) DO NOTHING.
RecordRow(k) ==
  /\ at[k] = "recording"
  /\ rows' = rows \cup {incident[k]}
  /\ at' = [at EXCEPT ![k] = "investigating"]
  /\ UNCHANGED <<incident, age, notified, window, paged, since, restarts>>

\* Mutant: the cause is marked as soon as a page is decided on, sent or not.
DecideMarks(k) ==
  /\ at[k] = "investigating"
  /\ \E actionable \in BOOLEAN, occ \in 1..MaxOcc :
       LET pages == ShouldPage(actionable, occ) /\ window[Cause(k)] = 0
       IN  /\ at' = [at EXCEPT ![k] = IF pages THEN "cas" ELSE "quiet"]
           /\ window' = [window EXCEPT ![Cause(k)] = IF pages THEN Window ELSE @]
  /\ age' = [age EXCEPT ![k] = 0]
  /\ UNCHANGED <<incident, rows, notified, paged, since, restarts>>

\* The root cause is in: the clock and the two process-memory silencers are read.
Decide(k) ==
  /\ at[k] = "investigating"
  /\ \E actionable \in BOOLEAN, occ \in 1..MaxOcc :
       at' = [at EXCEPT ![k] =
                IF ShouldPage(actionable, occ) /\ window[Cause(k)] = 0 THEN "cas" ELSE "quiet"]
  /\ age' = [age EXCEPT ![k] = 0]
  /\ UNCHANGED <<incident, rows, notified, window, paged, since, restarts>>

\* Mutant: the row is read and written, but not compared.
CasAlwaysWins(k) ==
  /\ at[k] = "cas"
  /\ notified' = notified \cup {incident[k]}
  /\ at' = [at EXCEPT ![k] = "won"]
  /\ UNCHANGED <<incident, age, rows, window, paged, since, restarts>>

\* Mutant: a call that lost the compare-and-set sets the column first.
CasInverted(k) ==
  /\ at[k] = "cas"
  /\ notified' = notified \cup {incident[k]}
  /\ at' = [at EXCEPT ![k] = IF incident[k] \in notified THEN "won" ELSE "lost"]
  /\ UNCHANGED <<incident, age, rows, window, paged, since, restarts>>

\* UPDATE incidents SET notify_state ... WHERE notify_state = 'investigating':
\* the row, if there is one, is won by the first.
Cas(k) ==
  /\ at[k] = "cas"
  /\ \/ /\ incident[k] \in rows \ notified
        /\ notified' = notified \cup {incident[k]}
        /\ at' = [at EXCEPT ![k] = "won"]
     \/ /\ incident[k] \notin rows \ notified
        /\ at' = [at EXCEPT ![k] = "lost"]
        /\ UNCHANGED notified
  /\ UNCHANGED <<incident, age, rows, window, paged, since, restarts>>

\* Mutant: a second page for a cause extends the window of the first.
MarkPagedExtends(k) == window[Cause(k)] + Window

\* What is left of a window that opened when the clock was read.
MarkPaged(k) == Window - age[k]

\* The sinks are called and the cause is marked, in one go.
Deliver(k) ==
  /\ at[k] = "won"
  /\ paged' = [paged EXCEPT ![incident[k]] = @ + 1]
  /\ window' = [window EXCEPT ![Cause(k)] = MarkPaged(k)]
  /\ since' = [since EXCEPT ![Cause(k)] = 0]
  /\ at' = [at EXCEPT ![k] = "delivered"]
  /\ UNCHANGED <<incident, age, rows, notified, restarts>>

\* What a call awaits throws; the database may have done its part before.
Fail(k) ==
  /\ at[k] \in Waits
  /\ at' = [at EXCEPT ![k] = "failed"]
  /\ UNCHANGED <<incident, age, rows, notified, window, paged, since, restarts>>

\* A minute goes by.
Pass ==
  /\ \/ \E c \in Causes : window[c] > 0 \/ since[c] < Window
     \/ \E k \in Calls : at[k] \in {"cas", "won"} /\ age[k] < Window
  /\ window' = [c \in Causes |-> IF window[c] > 0 THEN window[c] - 1 ELSE 0]
  /\ since' = [c \in Causes |-> IF since[c] < Window THEN since[c] + 1 ELSE Window]
  /\ age' = [k \in Calls |-> IF at[k] \in {"cas", "won"} /\ age[k] < Window
                             THEN age[k] + 1 ELSE age[k]]
  /\ UNCHANGED <<at, incident, rows, notified, paged, restarts>>

\* The process dies and a new one starts: the windows are gone with the calls.
Restart ==
  /\ restarts < MaxRestarts
  /\ restarts' = restarts + 1
  /\ at' = [k \in Calls |-> IF at[k] \in Waits THEN "failed" ELSE at[k]]
  /\ window' = [c \in Causes |-> 0]
  /\ UNCHANGED <<incident, age, rows, notified, paged, since>>

CallStep(k) == RecordRow(k) \/ Decide(k) \/ Cas(k) \/ Deliver(k) \/ Fail(k)

Next == \/ \E k \in Calls : Receive(k) \/ CallStep(k)
        \/ Pass
        \/ Restart

Spec == Init /\ [][Next]_vars

\* An await settles, with an answer or an error, and the event loop resumes the
\* call.  No signal is owed, and the clock need not move.
FairSpec == Spec /\ \A k \in Calls : WF_vars(CallStep(k))

-----------------------------------------------------------------------------
(* What must hold                                                          *)

Reports(i) == {k \in Calls : incident[k] = i}

(***************************************************************************)
(* An incident id pages at most once, whoever delivers its signal how      *)
(* often and however the calls and restarts interleave (casNotified).      *)
(***************************************************************************)
PagedOnce == \A i \in Ids : paged[i] <= 1

(***************************************************************************)
(* The silencers keep their hands off what they silence: an incident is    *)
(* marked notified only for a page that was sent, is about to be sent, or  *)
(* was lost with the call that failed; a noisy or suppressed call leaves   *)
(* the incident to the next one.                                           *)
(***************************************************************************)
NotifiedMeansPaged ==
  \A i \in notified : \/ paged[i] = 1
                      \/ \E k \in Reports(i) : at[k] = "won"
                      \/ \E k \in Reports(i) : at[k] = "failed"

(***************************************************************************)
(* A cause is silenced by a page and for no longer than a window after it, *)
(* though a slow call marks with a clock it read long before.              *)
(***************************************************************************)
SilencedByAPage == \A c \in Causes : window[c] > 0 => window[c] + since[c] <= Window

(***************************************************************************)
(* A signal worth a page, whose cause was not silenced, does get a human   *)
(* paged for its incident, or somebody's call for it failed.               *)
(***************************************************************************)
WorthyIsPaged ==
  \A k \in Calls :
    at[k] = "cas" ~> \/ paged[incident[k]] >= 1
                     \/ \E q \in Reports(incident[k]) : at[q] = "failed"

-----------------------------------------------------------------------------
(* What the repository says and the code does not do                       *)

(***************************************************************************)
(* "the same cause (fingerprint) pages at most once per window"            *)
(* (packages/app/src/paging.ts:7, :17 and :41): no page for a cause that   *)
(* was paged less than a window ago by the same process.                   *)
(***************************************************************************)
OncePerWindow ==
  [][\A c \in Causes : since[c] < Window /\ restarts = 0 => since'[c] >= since[c]]_vars
=============================================================================
