----------------------------- MODULE RepairFlow -----------------------------
(***************************************************************************)
(* Loop C, the human-confirmed repair, as the deployed server wires it     *)
(* (packages/app/src/server.ts with DATABASE_URL): repair attempts that    *)
(* author, gate and publish a fix, and the requests by which a human       *)
(* confirms or rejects it over two channels, a merged pull request and a   *)
(* tap on a chat button.                                                   *)
(*                                                                         *)
(* One action is the code between two awaits of a handler: the code up to  *)
(* the next await runs without interruption on the event loop, and         *)
(* everything else may happen while a handler waits for the database or    *)
(* for GitHub.  The landing ledger, the repair index and the kill bit are  *)
(* rows of Postgres and survive a restart; the approval queue, the         *)
(* attempts and the requests in flight are memory of the process.          *)
(***************************************************************************)
EXTENDS Naturals

CONSTANTS Attempts,      \* calls of attemptRepair; each owns one approval id
          Requests,      \* confirm requests; each owns one action id
          Incidents,     \* incident ids
          Fixes,         \* commit shas an author may stage
          IncidentOf,    \* the incident each attempt repairs
          None,          \* no patch, no landing, no attempt
          MaxRestarts    \* bound: restarts of the process in one behaviour

VARIABLES
  phase,      \* where each attempt is, or the status runRepair returned
  staged,     \* the patch the author staged for it
  gatePassed, \* whether the verification gate passed it
  pr,         \* its pull request on GitHub
  approval,   \* its row in the in-memory approval queue
  buttons,    \* whether approve / reject buttons for it reached a chat
  index,      \* status of its row of orch.repair_proposal
  landing,    \* orch.auto_action: which request's row holds (incident, fix)
  req,        \* the confirm requests
  killed,     \* the effective kill bit, as isKilled would answer now
  restarts,   \* restarts so far
  shutOut     \* history: requests that have seen nothing but a freeze

attemptVars == <<phase, staged, gatePassed>>
vars == <<phase, staged, gatePassed, pr, approval, buttons, index, landing,
          req, killed, restarts, shutOut>>

-----------------------------------------------------------------------------
Defects == {"protected", "ungrounded", "failed_check"}
Patches == [fix : Fixes, defects : SUBSET Defects]

\* Awaiting something outside the process.
Running == {"authoring", "gating", "publishing", "published", "recording"}
\* RepairOutcome.status, and "failed" for an exception.
Refused == {"skipped_killed", "declined_by_author", "blocked_protected_path",
            "blocked_ungrounded_repro", "escalated_failed_check",
            "escalated_gate_reject", "failed"}
Phases == {"idle", "proposed"} \cup Running \cup Refused

\* The await a request is suspended at; "confirm" and "reject" are resumed
\* code that has yet to run.
DbWaits == {"killcheck", "find", "insert", "reread", "status"}
Waits == DbWaits \cup {"confirm", "reject"}
Kinds == {"merge", "approve", "reject"}
\* How a request is answered: its pull request or button is not tracked, the
\* merged head is not the gated one, the system is frozen, the approval row is
\* gone, the row holds the other verdict, an exception, or the verdict took.
Outcomes == {"untracked", "regate", "frozen", "missing", "refused", "fault",
             "created", "existing", "rejected"}

ASSUME IncidentAssumption == IncidentOf \in [Attempts -> Incidents]
ASSUME NoneAssumption ==
  None \notin Requests \cup Attempts \cup Patches \cup Kinds \cup Outcomes
ASSUME RestartAssumption == MaxRestarts \in Nat

Keys == Incidents \X Fixes
Key(a) == <<IncidentOf[a], staged[a].fix>>

TypeOK ==
  /\ phase \in [Attempts -> Phases]
  /\ staged \in [Attempts -> Patches \cup {None}]
  /\ gatePassed \in [Attempts -> BOOLEAN]
  /\ pr \in [Attempts -> {"none", "open", "closed", "merged", "edited"}]
  /\ approval \in [Attempts -> {"none", "OPEN", "APPROVED", "REJECTED"}]
  /\ buttons \in [Attempts -> BOOLEAN]
  /\ index \in [Attempts -> {"none", "proposed", "confirmed", "rejected", "needs_regate"}]
  /\ landing \in [Keys -> Requests \cup {None}]
  /\ req \in [Requests -> [at : Waits \cup {"unused", "done"}, kind : Kinds \cup {None},
                           of : Attempts \cup {None}, out : Outcomes \cup {None}]]
  /\ killed \in BOOLEAN
  /\ restarts \in 0..MaxRestarts
  /\ shutOut \in SUBSET Requests

Init ==
  /\ phase = [a \in Attempts |-> "idle"]
  /\ staged = [a \in Attempts |-> None]
  /\ gatePassed = [a \in Attempts |-> FALSE]
  /\ pr = [a \in Attempts |-> "none"]
  /\ approval = [a \in Attempts |-> "none"]
  /\ buttons = [a \in Attempts |-> FALSE]
  /\ index = [a \in Attempts |-> "none"]
  /\ landing = [k \in Keys |-> None]
  /\ req = [r \in Requests |-> [at |-> "unused", kind |-> None, of |-> None, out |-> None]]
  /\ killed = FALSE
  /\ restarts = 0
  /\ shutOut = {}

-----------------------------------------------------------------------------
(* attemptRepair and runRepair                                             *)

\* isKilled and the churn escalator, read once before anything is authored.
\* Whether an area is held for churn depends on the clock: either answer.
CheckAutonomy(a) ==
  /\ phase[a] = "idle"
  /\ \E churnHeld \in BOOLEAN :
       phase' = [phase EXCEPT ![a] = IF killed \/ churnHeld THEN "skipped_killed"
                                                            ELSE "authoring"]
  /\ UNCHANGED <<staged, gatePassed, pr, approval, buttons, index, landing, req,
                 killed, restarts, shutOut>>

\* What runRepair does with a staged patch: the first defect it looks for decides.
Screened(defects) ==
  CASE "protected" \in defects -> "blocked_protected_path"
    [] "protected" \notin defects /\ "ungrounded" \in defects -> "blocked_ungrounded_repro"
    [] defects = {"failed_check"} -> "escalated_failed_check"
    [] OTHER -> "gating"

\* The author answers: it declines, or stages a patch that is screened.
Author(a) ==
  /\ phase[a] = "authoring"
  /\ \/ /\ phase' = [phase EXCEPT ![a] = "declined_by_author"]
        /\ UNCHANGED staged
     \/ \E p \in Patches :
          /\ phase' = [phase EXCEPT ![a] = Screened(p.defects)]
          /\ staged' = [staged EXCEPT ![a] = IF Screened(p.defects) = "gating"
                                             THEN p ELSE None]
  /\ UNCHANGED <<gatePassed, pr, approval, buttons, index, landing, req, killed,
                 restarts, shutOut>>

\* Mutant: the gate's verdict is reported but not obeyed.
RunGateIgnored(a) ==
  /\ phase[a] = "gating"
  /\ \E pass \in BOOLEAN : gatePassed' = [gatePassed EXCEPT ![a] = pass]
  /\ phase' = [phase EXCEPT ![a] = "publishing"]
  /\ UNCHANGED <<staged, pr, approval, buttons, index, landing, req, killed,
                 restarts, shutOut>>

\* The verification gate answers.
RunGate(a) ==
  /\ phase[a] = "gating"
  /\ \E pass \in BOOLEAN :
       /\ gatePassed' = [gatePassed EXCEPT ![a] = pass]
       /\ phase' = [phase EXCEPT ![a] = IF pass THEN "publishing"
                                                ELSE "escalated_gate_reject"]
  /\ UNCHANGED <<staged, pr, approval, buttons, index, landing, req, killed,
                 restarts, shutOut>>

\* GitHub opens the pull request.  It refuses a second open one for the same
\* head branch, and the branch is named after the incident.
Publish(a) ==
  /\ phase[a] = "publishing"
  /\ \A b \in Attempts : IncidentOf[b] = IncidentOf[a] => pr[b] # "open"
  /\ pr' = [pr EXCEPT ![a] = "open"]
  /\ phase' = [phase EXCEPT ![a] = "published"]
  /\ UNCHANGED <<staged, gatePassed, approval, buttons, index, landing, req,
                 killed, restarts, shutOut>>

\* Mutant: the proposal is recorded where it should be enqueued.
EnqueueRecords(a) ==
  /\ phase[a] = "published"
  /\ index' = [index EXCEPT ![a] = "proposed"]
  /\ buttons' = [buttons EXCEPT ![a] = TRUE]
  /\ phase' = [phase EXCEPT ![a] = "recording"]
  /\ UNCHANGED <<staged, gatePassed, pr, approval, landing, req, killed, restarts, shutOut>>

\* publish returned: the approval row is enqueued and the buttons are sent.
Enqueue(a) ==
  /\ phase[a] = "published"
  /\ approval' = [approval EXCEPT ![a] = "OPEN"]
  /\ buttons' = [buttons EXCEPT ![a] = TRUE]
  /\ phase' = [phase EXCEPT ![a] = "recording"]
  /\ UNCHANGED <<staged, gatePassed, pr, index, landing, req, killed, restarts, shutOut>>

\* Back in attemptRepair: the row both channels look the proposal up by.
Record(a) ==
  /\ phase[a] = "recording"
  /\ index' = [index EXCEPT ![a] = "proposed"]
  /\ phase' = [phase EXCEPT ![a] = "proposed"]
  /\ UNCHANGED <<staged, gatePassed, pr, approval, buttons, landing, req, killed,
                 restarts, shutOut>>

\* What the attempt awaits throws: nothing catches it before the signal handler.
\* GitHub may have opened the pull request before its answer was lost.
AttemptFails(a) ==
  /\ phase[a] \in Running
  /\ phase' = [phase EXCEPT ![a] = "failed"]
  /\ UNCHANGED <<staged, gatePassed, pr, approval, buttons, index, landing, req,
                 killed, restarts, shutOut>>

-----------------------------------------------------------------------------
(* The human, on GitHub                                                    *)

\* The pull request is merged, at the gated commit or after its branch moved
\* ("edited"), or closed without a merge.
ResolvePr(a, how) ==
  /\ pr[a] = "open"
  /\ pr' = [pr EXCEPT ![a] = how]
  /\ UNCHANGED <<attemptVars, approval, buttons, index, landing, req, killed,
                 restarts, shutOut>>

-----------------------------------------------------------------------------
(* Confirm requests.  Goto suspends a request, Answer ends it.             *)

Arrive(r, a, kind, at, out) ==
  /\ req' = [req EXCEPT ![r] = [at |-> at, kind |-> kind, of |-> a, out |-> out]]
  /\ shutOut' = IF killed THEN shutOut \cup {r} ELSE shutOut

Goto(r, at, out) ==
  req' = [req EXCEPT ![r] = [at |-> at, kind |-> @.kind, of |-> @.of, out |-> out]]
Answer(r, out) == Goto(r, "done", out)

\* GitHub delivers (or redelivers) the merge of a's pull request, and the
\* handler has looked the proposal up by its number.
MergeWebhook(r, a) ==
  /\ req[r].at = "unused"
  /\ pr[a] \in {"merged", "edited"}
  /\ \/ index[a] = "none" /\ Arrive(r, a, "merge", "done", "untracked")
     \/ index[a] # "none" /\ pr[a] = "edited" /\ Arrive(r, a, "merge", "status", "regate")
     \/ index[a] # "none" /\ pr[a] = "merged" /\ Arrive(r, a, "merge", "killcheck", None)
  /\ UNCHANGED <<attemptVars, pr, approval, buttons, index, landing, killed, restarts>>

\* Somebody taps a button of a's proposal, on Telegram or on Slack, and the
\* handler has looked the proposal up by its approval id.
Tap(r, a, kind) ==
  /\ req[r].at = "unused"
  /\ buttons[a]
  /\ \/ index[a] = "none" /\ Arrive(r, a, kind, "done", "untracked")
     \/ index[a] # "none" /\ kind = "approve" /\ Arrive(r, a, kind, "killcheck", None)
     \/ index[a] # "none" /\ kind = "reject" /\ Arrive(r, a, kind, "reject", None)
  /\ UNCHANGED <<attemptVars, pr, approval, buttons, index, landing, killed, restarts>>

requestOnly == <<attemptVars, pr, buttons, killed, restarts, shutOut>>

\* Mutant: only the merge webhook checks the kill bit.
KillCheckMergeOnly(r) ==
  /\ req[r].at = "killcheck"
  /\ IF killed /\ req[r].kind = "merge" THEN Answer(r, "frozen") ELSE Goto(r, "confirm", None)
  /\ UNCHANGED <<requestOnly, approval, index, landing>>

\* The kill bit is read; the handler acts on the answer later.
KillCheck(r) ==
  /\ req[r].at = "killcheck"
  /\ IF killed THEN Answer(r, "frozen") ELSE Goto(r, "confirm", None)
  /\ UNCHANGED <<requestOnly, approval, index, landing>>

\* Mutant: every row that is not open counts as already approved.
ConfirmAnyVerdict(r) ==
  LET a == req[r].of IN
  /\ req[r].at = "confirm"
  /\ \/ approval[a] = "none" /\ Answer(r, "missing") /\ UNCHANGED approval
     \/ /\ approval[a] # "none"
        /\ approval' = [approval EXCEPT ![a] = IF @ = "OPEN" THEN "APPROVED" ELSE @]
        /\ Goto(r, "find", None)
  /\ UNCHANGED <<requestOnly, index, landing>>

\* confirmRepair up to its first await: the verdict is taken in the queue.
Confirm(r) ==
  LET a == req[r].of IN
  /\ req[r].at = "confirm"
  /\ \/ approval[a] = "none" /\ Answer(r, "missing") /\ UNCHANGED approval
     \/ approval[a] = "REJECTED" /\ Answer(r, "refused") /\ UNCHANGED approval
     \/ /\ approval[a] \in {"OPEN", "APPROVED"}
        /\ approval' = [approval EXCEPT ![a] = "APPROVED"]
        /\ Goto(r, "find", None)
  /\ UNCHANGED <<requestOnly, index, landing>>

\* Mutant: the test for an existing landing is inverted.
FindInverted(r) ==
  /\ req[r].at = "find"
  /\ IF landing[Key(req[r].of)] = None THEN Goto(r, "status", "existing")
                                       ELSE Goto(r, "insert", None)
  /\ UNCHANGED <<requestOnly, approval, index, landing>>

\* getByIncidentFix: an existing landing is returned as it is.
Find(r) ==
  /\ req[r].at = "find"
  /\ IF landing[Key(req[r].of)] # None THEN Goto(r, "status", "existing")
                                       ELSE Goto(r, "insert", None)
  /\ UNCHANGED <<requestOnly, approval, index, landing>>

\* Mutant: the last writer wins, as Map.set does in the in-memory store.
InsertOverwrites(r) ==
  /\ req[r].at = "insert"
  /\ landing' = [landing EXCEPT ![Key(req[r].of)] = r]
  /\ Goto(r, "reread", None)
  /\ UNCHANGED <<requestOnly, approval, index>>

\* INSERT ... ON CONFLICT (incident_id, fix_sha) DO NOTHING.
Insert(r) ==
  LET k == Key(req[r].of) IN
  /\ req[r].at = "insert"
  /\ landing' = IF landing[k] = None THEN [landing EXCEPT ![k] = r] ELSE landing
  /\ Goto(r, "reread", None)
  /\ UNCHANGED <<requestOnly, approval, index>>

\* Mutant: whoever inserted takes the row for its own without reading it back.
RereadSkipped(r) ==
  /\ req[r].at = "reread"
  /\ Goto(r, "status", "created")
  /\ UNCHANGED <<requestOnly, approval, index, landing>>

\* Only the request whose action id is in the row has created it.
Reread(r) ==
  /\ req[r].at = "reread"
  /\ Goto(r, "status", IF landing[Key(req[r].of)] = r THEN "created" ELSE "existing")
  /\ UNCHANGED <<requestOnly, approval, index, landing>>

\* Mutant: a rejection also overturns an approval.
RejectOverturns(r) ==
  LET a == req[r].of IN
  /\ req[r].at = "reject"
  /\ \/ /\ approval[a] # "none"
        /\ approval' = [approval EXCEPT ![a] = "REJECTED"]
        /\ Goto(r, "status", "rejected")
     \/ approval[a] = "none" /\ Answer(r, "refused") /\ UNCHANGED approval
  /\ UNCHANGED <<requestOnly, index, landing>>

\* rejectRepair: only a row still waiting for a verdict takes one.
Reject(r) ==
  LET a == req[r].of IN
  /\ req[r].at = "reject"
  /\ \/ /\ approval[a] = "OPEN"
        /\ approval' = [approval EXCEPT ![a] = "REJECTED"]
        /\ Goto(r, "status", "rejected")
     \/ approval[a] # "OPEN" /\ Answer(r, "refused") /\ UNCHANGED approval
  /\ UNCHANGED <<requestOnly, index, landing>>

\* Mutant: the outcome of the request is stored as the status.
StatusVerbatim(out) == out

StatusOf(out) == CASE out \in {"created", "existing"} -> "confirmed"
                   [] out = "rejected" -> "rejected"
                   [] out = "regate" -> "needs_regate"

\* index.setStatus, whatever the status was.
SetStatus(r) ==
  /\ req[r].at = "status"
  /\ index' = [index EXCEPT ![req[r].of] = StatusOf(req[r].out)]
  /\ Answer(r, req[r].out)
  /\ UNCHANGED <<requestOnly, approval, landing>>

\* Mutant: the error is swallowed and the handler goes on to set the status.
FaultSwallowed(r) ==
  /\ req[r].at \in DbWaits \ {"status"}
  /\ Goto(r, "status", "existing")
  /\ UNCHANGED <<requestOnly, approval, index, landing>>

\* The database call a request awaits fails; the handler answers with the error.
Fault(r) ==
  /\ req[r].at \in DbWaits
  /\ Answer(r, "fault")
  /\ UNCHANGED <<requestOnly, approval, index, landing>>

-----------------------------------------------------------------------------
(* Around them                                                             *)

\* POST /kill, or the heartbeat goes stale.
Freeze == /\ ~killed
          /\ killed' = TRUE
          /\ UNCHANGED <<attemptVars, pr, approval, buttons, index, landing, req,
                         restarts, shutOut>>

\* POST /release with the token while the heartbeat is fresh.
Unfreeze == /\ killed
            /\ killed' = FALSE
            /\ shutOut' = {}
            /\ UNCHANGED <<attemptVars, pr, approval, buttons, index, landing, req,
                           restarts>>

\* The process dies and a new one starts over the same database.
Restart ==
  /\ restarts < MaxRestarts
  /\ restarts' = restarts + 1
  /\ approval' = [a \in Attempts |-> "none"]
  /\ phase' = [a \in Attempts |-> IF phase[a] \in Running THEN "failed" ELSE phase[a]]
  /\ req' = [r \in Requests |-> IF req[r].at \in Waits
                                THEN [at |-> "done", kind |-> req[r].kind,
                                      of |-> req[r].of, out |-> "fault"]
                                ELSE req[r]]
  /\ UNCHANGED <<staged, gatePassed, pr, buttons, index, landing, killed, shutOut>>

AttemptStep(a) == \/ CheckAutonomy(a) \/ Author(a) \/ RunGate(a) \/ Publish(a)
                  \/ Enqueue(a) \/ Record(a) \/ AttemptFails(a)

RequestStep(r) == \/ KillCheck(r) \/ Confirm(r) \/ Find(r) \/ Insert(r) \/ Reread(r)
                  \/ Reject(r) \/ SetStatus(r)

Next ==
  \/ \E a \in Attempts : AttemptStep(a)
  \/ \E a \in Attempts : \E how \in {"merged", "edited", "closed"} : ResolvePr(a, how)
  \/ \E r \in Requests : \E a \in Attempts : MergeWebhook(r, a)
  \/ \E r \in Requests : \E a \in Attempts : \E kind \in {"approve", "reject"} : Tap(r, a, kind)
  \/ \E r \in Requests : RequestStep(r) \/ Fault(r)
  \/ Freeze
  \/ Unfreeze
  \/ Restart

Spec == Init /\ [][Next]_vars

\* The event loop resumes every handler whose await has settled, and a database
\* call settles: it is answered or it fails.  Nothing else is owed: people need
\* not tap, GitHub need not deliver, and nobody need release a freeze.
FairSpec == Spec /\ \A r \in Requests : WF_vars(RequestStep(r) \/ Fault(r))

-----------------------------------------------------------------------------
(* What must hold                                                          *)

RequestsOf(a) == {r \in Requests : req[r].of = a}
Landed(r) == \E k \in Keys : landing[k] = r

(***************************************************************************)
(* A landing names a request that confirmed, never one that rejected, for  *)
(* a tracked proposal whose patch has no defect and passed the gate: no    *)
(* order of taps, merges, faults and restarts writes any other row         *)
(* (runRepair's guards, the two lookups, confirmRepair).                   *)
(***************************************************************************)
LandingIsVouched ==
  \A k \in Keys : landing[k] # None =>
    LET a == req[landing[k]].of IN
    /\ req[landing[k]].kind \in {"merge", "approve"}
    /\ a \in Attempts /\ staged[a] # None /\ k = Key(a)
    /\ staged[a].defects = {} /\ gatePassed[a]
    /\ index[a] # "none"

(***************************************************************************)
(* Of all the requests for one (incident, fix), from either channel,       *)
(* delivered twice or racing each other, at most one believes it created   *)
(* the landing, and it is the one whose action id the ledger holds         *)
(* (confirmRepair's re-read: only the canonical creator links).            *)
(***************************************************************************)
OneCreator ==
  \A r \in Requests : req[r].out = "created" => landing[Key(req[r].of)] = r

(***************************************************************************)
(* Nothing lands for a proposal a human has rejected, whichever of the two *)
(* racing verdicts came first (the compare-and-set of ApprovalQueue).      *)
(***************************************************************************)
RejectedNeverLands ==
  \A a \in Attempts : approval[a] = "REJECTED" =>
    \A r \in RequestsOf(a) : ~Landed(r)

(***************************************************************************)
(* A request that arrived in a freeze and saw no release before it was     *)
(* through has landed nothing (the kill checks of both handlers).          *)
(***************************************************************************)
FreezeShutsOut == \A r \in shutOut : ~Landed(r)

(***************************************************************************)
(* While the process that proposed it lives, whoever finds a proposal in   *)
(* the index finds its approval row too (enqueue precedes record).         *)
(***************************************************************************)
TrackedIsDecidable ==
  restarts = 0 => \A a \in Attempts : index[a] # "none" => approval[a] # "none"

(***************************************************************************)
(* The index never calls a proposal confirmed before its landing exists,   *)
(* and never calls it rejected when one of its own requests landed it.     *)
(***************************************************************************)
IndexAgreesWithLedger ==
  \A a \in Attempts :
    /\ index[a] = "confirmed" => landing[Key(a)] # None
    /\ index[a] = "rejected" => \A r \in RequestsOf(a) : ~Landed(r)

(***************************************************************************)
(* A landing is immutable: no request replaces the row another one wrote   *)
(* (ON CONFLICT DO NOTHING), no restart removes it.                        *)
(***************************************************************************)
LandingIsImmutable ==
  [][\A k \in Keys : landing[k] # None => landing'[k] = landing[k]]_vars

(***************************************************************************)
(* An approval is not left hanging: its fix lands, unless the process      *)
(* restarts or a database call of a request for it fails (confirmRepair    *)
(* approves before it writes).                                             *)
(***************************************************************************)
ApprovedLands ==
  \A a \in Attempts :
    approval[a] = "APPROVED" ~>
      \/ staged[a] # None /\ landing[Key(a)] # None
      \/ approval[a] = "none"
      \/ \E r \in RequestsOf(a) : req[r].out = "fault"

(***************************************************************************)
(* The whole of it implements HumanGate: every step opens, decides or      *)
(* lands one proposal, forgets, or changes nothing a human was promised.   *)
(***************************************************************************)
VerdictOf(a) == CASE approval[a] = "OPEN" -> "open"
                  [] approval[a] = "APPROVED" -> "approved"
                  [] approval[a] = "REJECTED" -> "rejected"
                  [] approval[a] = "none" /\ buttons[a] -> "lost"
                  [] OTHER -> "absent"

Gate == INSTANCE HumanGate WITH
          Proposals <- Attempts,
          Keys <- Keys,
          NoKey <- None,
          verdict <- [a \in Attempts |-> VerdictOf(a)],
          fixOf <- [a \in Attempts |-> IF buttons[a] THEN Key(a) ELSE None],
          landed <- {k \in Keys : landing[k] # None}

ImplementsHumanGate == Gate!Spec

-----------------------------------------------------------------------------
(* What the repository says and the code does not do                       *)

(***************************************************************************)
(* "a proposal survives a restart, so a merge after a crash still confirms *)
(* instead of silently dropping the landing" (CHANGELOG.md:75): a merge of *)
(* a tracked proposal at the gated commit that meets no freeze, no         *)
(* rejection and no failing call ends with the landing in the ledger.      *)
(***************************************************************************)
MergeAfterCrashConfirms ==
  \A r \in Requests :
    /\ req[r].at = "done" /\ req[r].kind = "merge"
    /\ req[r].out \notin {"untracked", "regate", "frozen", "refused", "fault"}
    => landing[Key(req[r].of)] # None

(***************************************************************************)
(* "KILL-AT-CONFIRM: no landing while frozen" (packages/app/src/http.ts    *)
(* line 108, and line 186 for the taps).                                   *)
(***************************************************************************)
NoLandingWhileFrozen == [][killed => landing' = landing]_vars

(***************************************************************************)
(* "if the branch moved, it refuses to land and flags needs_regate"        *)
(* (CHANGELOG.md:61): what is flagged stays out of the ledger.             *)
(***************************************************************************)
MovedBranchNeverLands ==
  [][\A a \in Attempts :
       index[a] = "needs_regate" /\ landing[Key(a)] = None => landing'[Key(a)] = None]_vars
=============================================================================
