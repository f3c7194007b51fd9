# A verification project for Self-healing Ops

Self-healing Ops turns production signals into root-cause analyses, pages a human when somebody
has to act, and, when the cause is a confirmed code defect, proposes a repair as a pull request
that only a human can land. This directory holds TLA+ models of the parts of it that keep state
and run concurrently, the TLC runs that check them, and proofs that TLAPS checks. Paths below
are relative to `packages/` unless they start elsewhere.

    tlc -workers 2 -config RepairRace.cfg MCRepairFlow      # model-check one run
    tlapm RepairFlowProofs.tla                              # check the proofs of one module

## 1. Inventory

The system is one Bun process with a JavaScript event loop: code between two `await`s runs
without interruption, and everything else may run while a handler awaits Postgres, GitHub, the
language model or a subprocess. Several handlers are in flight at once. With `DATABASE_URL` part
of the state is in Postgres, the rest is memory of the process.

| Component | State | Operations | What makes it correct |
|---|---|---|---|
| `app/src/http.ts`, `runtime.ts`, `server.ts` | none of its own; wires the stores below | signal webhooks, `/kill`, `/release`, GitHub merge webhook, Telegram and Slack taps, `diagnose`, `attemptRepair` | a landing only after one human verdict; no landing for a rejection or under a freeze; one page per incident |
| `app/src/paging.ts` | `lastPagedMs` per fingerprint (memory) | `shouldPage`, `suppressed`, `markPaged` | silences what was paged, and nothing else |
| `app/src/repairindex.ts` | rows of `orch.repair_proposal` (Postgres) | `record`, `byApprovalId`, `byPrNumber`, `setStatus` | agrees with the ledger |
| `loop-c/src/propose.ts` | none | `runRepair` | only a clean, grounded, gated patch is proposed |
| `loop-c/src/confirm.ts` | none | `confirmRepair`, `rejectRepair` | idempotent on (incident, fix); one creator |
| `hitl/src/ladder.ts` | approval rows (memory) | `enqueue`, `approve`, `reject`, `supersede`, `tick` | silence approves nothing, nobody is forgotten, a verdict stands |
| `hitl/src/killrelease.ts` | used nonces (memory) | `requestRelease` | one signature ends one freeze |
| `orchestrator/src/postgres.ts`, `autoaction.ts`, `killswitch.ts`, `statemachine.ts` | `orch.auto_action`, `notify_state`, `orch.kill_switch` (Postgres, or memory without a database) | `insert`, `getByIncidentFix`, `casNotified`, `engage`, `release`, `isKilled`, `heartbeat` | rows immutable, compare-and-set won once, fail-safe freeze |
| `orchestrator/src/router.ts`, `hitl/src/businesshours.ts` | none | tier routing, off-hours downgrade | never more autonomy than earned |
| `incident-memory` | incidents, resolutions | `recordIncident`, `recordResolution`, recurrence and outcome projection | a class is promoted by what happened, once per action |
| `trust-controller` | derived from the ledger | fold, promotion and demotion, churn hold | demotion is immediate, promotion earned |
| `loop-a`, `loop-b`, `aggregation`, `signal-layer`, `ingest-sentry` | none | analysis, classification, verification and mapping of one payload | pure functions |
| `gate/`, `verification-gate/`, `mutation-gate/` (repository root) | none | run tests and mutants of a patch | pass only when every stage does |
| `adapters` | a worktree and a fix branch per repair | repair author, git sandbox, gate, GitHub, Telegram, Slack, Claude | nothing protected is written or run; what is declared is not trusted |
| `adapter-agenticmind` | `askIds` (memory); materials, beliefs and signals in AgenticMind | the incident-memory port over six tool calls | a failure is never offered as an example |
| `rca-git`, `pipeline`, `adapter-agenticops`, `adapter-apl` | none that decides | git blame, a demonstration chain, clients of other platforms | answers or throws |

How they interact on the path the models follow:

1. A webhook reaches `diagnose`. The incident row is inserted and awaited, the cause is
   analysed, the noise floor and the fingerprint window are consulted, the `notify_state`
   compare-and-set is awaited, the sinks are called and the window is marked.
2. A confirmed code cause goes on to `attemptRepair`: kill bit and churn hold, `runRepair`
   (author, screens, gate, pull request, approval row, buttons), and the index row.
3. A human merges the pull request, or taps a button. Each arrives as a request of its own that
   looks the proposal up in the index, reads the kill bit, takes the verdict in the approval
   queue, writes the ledger and sets the status of the index row.

4. Beside that path, signals are merged into incidents, tests that go red are judged, fixes are
   recorded and labelled, their class earns a level, and a release of the kill switch is signed,
   checked and granted.

What is hard: the two confirm channels racing each other and redelivered; verdicts in memory
guarding rows in a database; database calls failing between two writes; restarts that keep half
of the state; a kill bit and a dedup window that are read before an await and acted on after it;
timers scanned late; signatures that outlive the nonces that guard them; labels that are set
twice, late or by two stores that disagree; two readings of one set of booleans; a patch that is
not what its author says it is. `PROJECT.json` lists each at its line under `hazards`, with the
property that would catch it, or the reason there is none.

## 2. Plan

Modelled in the order of what an error costs: a wrong landing (`HumanGate`, `RepairFlow`), a
forgotten approval (`ApprovalLadder`), a page too many or too few (`NotifyPaging`), a freeze
that ends by the wrong hand (`KillRelease`), autonomy that is not earned (`TrustMemory`), and
the decisions along the path of an incident (`Aggregation`, `RootCause`, `PatchGate`,
`FlakyTests`, `SharedMemory`, composed by `IncidentPath`).

Every safety property the runs check is proved for all values of the constants. Left, in this
order: the freeze of `RepairFlow` as `KillRelease` makes it (its `Freeze` and `Unfreeze` as the
image of engaging, beating, releasing and restarting); the approval of `HumanGate` as the ladder
takes it; and what `PatchGate` says of a patch as the answer of `RunGate`.

## 3. Modules

| Module | What it is |
|---|---|
| `HumanGate` | abstract specification of Loop C: one verdict per proposal, only the approved lands, a fix lands once |
| `RepairFlow` | Loop C as deployed with Postgres: attempts, requests, ledger, index, kill bit, restarts |
| `RepairFlowProofs`, `RepairGateProofs` | its safety, and that it implements `HumanGate` |
| `ApprovalLadder`, `LadderProofs` | every method of `ApprovalQueue`, with its timers |
| `NotifyPaging`, `PagingProofs` | `diagnose` up to the page |
| `KillRelease`, `KillReleaseProofs` | the kill switch, in memory and in Postgres, and everything that can clear it |
| `TrustMemory`, `TrustProofs` | resolutions, outcomes, the level of a class, churn and business hours, and what retrieval makes of it |
| `Aggregation` | `dedupe`: keys, union-find, incidents, noise floor |
| `RootCause` | a signed webhook up to the diagnosis and the decision to page |
| `PatchGate` | the repair author, the gate it answers to, and the CI job |
| `FlakyTests` | a red test up to its class, and quarantine |
| `SharedMemory` | incident memory kept in AgenticMind, call by call |
| `IncidentPath`, `IncidentProofs`, `PathProofs` | the five modules above composed; proofs about each decision, and about memory, types and merging |
| `MCRepairFlow`, `MCApprovalLadder`, `MCNotifyPaging`, `MCKillRelease`, `MCTrustMemory`, `MCIncidentPath` | values of the constants for TLC |

Definitions whose comment starts with "Mutant" are broken variants of the definition that
follows them. No specification uses them; each shows that some property would notice.

### RepairFlow

An action is the code between two awaits. For an attempt, `phase` says which await of
`attemptRepair` or `runRepair` it is at, or which `RepairOutcome.status` it ended with. A `req`
record is one confirm request: `at` is the await it is suspended at, `kind` the channel's verb,
`of` the proposal it found, `out` its answer.

| TLA+ | Code |
|---|---|
| `CheckAutonomy`, `Author`, `Screened`, `RunGate`, `Publish`, `Enqueue`, `Record` | `attemptRepair` in `runtime.ts`, `runRepair` in `propose.ts`, `githubPublisher` |
| `MergeWebhook`, `Tap` | the merge webhook and `handleRepairCallback` of `http.ts`, up to their first decision |
| `KillCheck`, `Confirm`, `Find`, `Insert`, `Reread`, `SetStatus` | the rest of those handlers and `confirmRepair`, one action per await |
| `Reject` | `rejectRepair` |
| `Fault`, `AttemptFails` | an awaited call throws |
| `Freeze`, `Unfreeze`, `Restart` | the effective kill bit changes; the process is replaced |
| `approval` / `index` / `landing` | `ApprovalQueue` rows / `orch.repair_proposal` / `orch.auto_action` |

Abstractions. A patch is its commit and the set of defects the screens look for; the gate, the
author, the churn hold and GitHub answer freely. The lookup of a proposal and the handler's next
decision are one step: an index row, once there, stays and only its status changes, which no
handler reads. The kill bit is the answer `isKilled` would give, so engaging and a stale
heartbeat are one action. A blank owner, which makes `confirmRepair` throw (`confirm.ts:52`),
and a webhook without a head, which skips the check of the branch (`http.ts:104`), are left out:
the owner is configured and GitHub sends the head. Nothing in the application calls
`heartbeat()`; `Unfreeze` stands for a release with the heartbeat kept fresh from outside.
`shutOut` is a history variable. GitHub is taken to refuse a second open pull request for one
head branch. The in-memory `AutoActionStore`, `RepairIndex` and `KillSwitch`, which the server
uses without a database, are not modelled here.

### ApprovalLadder

All methods are synchronous, so an action is a whole call. `timer` is the time left until
`escalateAtMs` in minutes, stopped at 0, which is due: `tick` may come as late as it likes.
`waited` and `fired` are history variables. The application itself calls neither `tick` nor
`supersede`; the model is of the library.

### NotifyPaging

`at` is the await a call of `diagnose` is suspended at. `window` is what is left of the
suppression of a cause, `age` how old the clock reading is that a call will hand to `markPaged`.
`paged` counts calls of the sinks, not messages that arrive: the notifiers send in the
background and swallow what fails. The analysis answers freely.

### KillRelease

`durable` chooses the switch: in memory a restart loses bit and heartbeat, in Postgres the row
stays, if it is there (`row`). A request of the gate is any on-call and MFA answer, any
signature made so far and any nonce, so late, repeated and rearranged requests are all there. A
signature is the record it was made over. `killedAt` is the record of the freeze the caller
passes to the gate; signing it is an act of the on-call, outside the code, and uses a nonce
nobody has drawn. `granted` is the audit log's. The gate takes the synchronous switch, so it
runs with the one in memory only, one step per request. `/release` takes either, and no nonce.
Over Postgres it is an UPDATE and then a SELECT, with the time the route read before both: `ops`
has the calls of it (`Calls`), `OpsReceive`, `OpsUpdate`, `OpsSelect` and `OpsEnd` are their
steps, and an engage, a beat, a tick or another release may come between any two. `seen` is a
history variable: what held at some moment of a call.

### TrustMemory

One class, one area. A fix stands for its resolution, its landing and its action id; other fixes
land in the area at fixed ticks. `log` is the order of the rows in the Map. Time is in ticks,
several to a day; `W_mature`, churn and the gates are given in ticks. A retrieval is asked for
any similarities (whole numbers, zero and below included: a token overlap is zero for texts that
share nothing, a cosine may be negative), any set of incidents on record and any
`minSimilarity`. Ranks that tie are in the order of the Map (`mapPlace`) in memory and in any
order over Postgres. The chain in front of `MachineLands` is the one of `pipeline/src/index.ts`
and its test; the verification gate's verdict on the patch is `PatchGate`'s.

### IncidentPath

The parts meet in the data one hands to the next, and in the runtime that awaits the repair of a
confirmed diagnosis, so they run one at a time (`only`); `TypeOK` says that they do. A text is
the set of words the patterns look for, times are minutes from the onset, a hash is injective,
an HMAC fits or not. The stages of a patch are the awaits of `author`, `runRepair` and
`makeVerifyGate`. In `PatchGate` a path is a file and the way a header of the diff spells it:
plain, with a run of slashes (which git and the file system squash) or in git's quotes (which
`git apply` undoes and `pathsFromUnifiedDiff` does not); `Unmatched` are the spellings of
protected files that no pattern matches. A tree is a function from the files that differ from
the parent to what became of them, so that the ref of a fix whose commit failed is the parent's
tree. Every run of the suite has an outcome of its own, on one tree too: green, red, an exit of
zero with "N fail" in the output, or a failure with "not found" in it; the author and the
mutation runner go by the exit code, the gate by the count as well. `ran` is the history of the
runs. `Ignored` are the files CI drops (`*.config.ts`, `*.d.ts`, `node_modules`). The path of
the new test is any file, an existing source or test too. Directories `__tests__/`, which are
tests in CI only, are left out. In `FlakyTests` every run is a step, so that a test may change
its mind at any of them. In `SharedMemory` a tool call is a step and what the adapter does with
its answer another; a call that throws may have been carried out.

## 4. Runs

| Run | Shows | Bounds |
|---|---|---|
| `repair_race` | `TypeOK`, `OneCreator`, `RejectedNeverLands`, `FreezeShutsOut`, `TrackedIsDecidable`, `IndexAgreesWithLedger`, `ApprovedLands` | one attempt, three requests, one restart |
| `repair_shared` | `LandingIsVouched`, `LandingIsImmutable`, `ImplementsHumanGate` | two attempts for one incident and one fix, two requests, one restart |
| `approval_ladder` | `TypeOK`, `SilenceDecidesOnlyTier4`, `NobodyIsForgotten`, `LadderIsClimbedInOrder`, `VerdictStands` | two rows, timeouts of one to three minutes that differ by tier |
| `notify_paging` | `TypeOK`, `PagedOnce`, `NotifiedMeansPaged`, `SilencedByAPage`, `WorthyIsPaged` | three calls, two incidents of one cause, a window of two minutes, one restart |
| `kill_release` | `TypeOK`, `AnswersAreTrue`, `OpsReplyWasSo`, `NobodyIsLockedOut`, `SignatureEndsOneFreeze` | two nonces, two calls of `/release`, a heartbeat of one tick, four instants, restarts in between |
| `trust_memory` | `TypeOK`, `PromotionIsEarned`, `QuietAfterBurst`, `RetrievalHonest`, `AutoApplyInStaffedHours` | two fixes and two incidents, one landing of another class, two teams, five ticks of half a day, similarities of -1, 0 and 1 |
| `incident_path` | `TypeOK`, `IncidentsAreConnected`, `ConfirmedIsGrounded`, `EscalationNamesWhatIsMissing`, `QuietIsSafe`, `ProtectedNeverRuns`, `PassIsGrounded`, `EveryWriteIsAudited`, `AutonomousOnlyOnEvidence`, `PrecedentsAreHonest` | four signals of eight, up to two deploys, three re-runs, two plain sources, one under `src/auth/`, a document, an `.env` file, a configuration file and two tests, headers in three spellings, four writing calls |
| `wrong_rollback` | the code violates `RollbackNamesTheCause` | as `incident_path` |
| `restart_drops_confirm` | the code violates `MergeAfterCrashConfirms` | one attempt, two requests |
| `kill_race` | the code violates `NoLandingWhileFrozen` | one attempt, two requests |
| `regate_tap` | the code violates `MovedBranchNeverLands` | one attempt, two requests |
| `page_twice` | the code violates `OncePerWindow` | two calls |

Why the bounds are enough. Three requests are the fewest in which two approvals race while a
third rejects, or in which one reads the ledger between the insert and the re-read of two
others. Two attempts with one fix share a ledger key, the one way attempts meet outside GitHub.
One restart separates the state before it from the state after; a second adds no new combination
of kept and lost state. Rows of the ladder do not interact except in the scan, which needs two.
The safety properties of all passing runs are also proved without bounds (section 6); only the
liveness properties rest on the bounds.

Two nonces tell a copy from a rearranged request, four instants hold a freeze, a restart, a
second freeze and a stale beat, and with two calls one release comes between the queries of
another. Two fixes give a level of two confirmed outcomes, and with the landing of the other
class a burst. The two teams staff different halves of the day on different sides of UTC, so
that a tick is staffed for one, both or none. Three similarities are a match, none and less than
none. Four signals are the fewest in which two groups that were apart are joined by a later
signal and one more joins them. Two deploys reach every case of the correlation: one alone, an
unrelated one beside it, one outside the window or after the onset. The samples lie at, above
and below 95 and 90 percent, and the mutants at and below 60 percent of one file and of two
together. A diff writes one file next to the declared one, in each spelling, edited or deleted,
or the old test with an undeclared source; the new test is at a path of its own, over a source
and over the old test. Three re-runs can agree in both ways and disagree. Four calls are two
incidents with an ask and a label each, or one incident relabelled during a retrieval.

Symmetry is used in `repair_shared` (requests), `approval_ladder` (rows), `kill_release`
(nonces, calls of `/release`), `trust_memory` (fixes, incidents) and the `incident_path` runs
(incidents of the shared memory), which check no liveness. `approval_ladder` and the paging runs
turn the deadlock check off: rows that have a verdict and calls that have ended are a normal
end. All other runs keep it on: a freeze can always be engaged or released, a label set again, a
part of the path started over.

Fairness. `RepairFlow!FairSpec` and `NotifyPaging!FairSpec` make the steps of a request, or of a
call, weakly fair together with its failure: an awaited call of the database settles, with an
answer or an error, and the event loop then resumes the handler. Nothing else is fair: people
need not tap, GitHub need not deliver, no signal need arrive, the clock need not move, nobody
need release a freeze, and no process need restart.

## 5. Where the code and its documents disagree

- `MergeAfterCrashConfirms`. `CHANGELOG.md:75` says a merge after a crash still confirms. The
  index row survives, but the approval queue is `new ApprovalQueue()` (`app/src/server.ts:130`):
  `confirmRepair` throws "not found", the webhook answers 200 so that GitHub does not retry, and
  the landing is never written.
- `NoLandingWhileFrozen`. `app/src/http.ts:108` and `:186` say "no landing while frozen". The
  bit is read before the verdict and up to three database calls; a freeze in between is not
  seen. What does hold is `FreezeShutsOut`: a request that arrives in a freeze lands nothing for
  as long as the freeze lasts.
- `MovedBranchNeverLands`. `CHANGELOG.md:61` says a merge of a moved branch "refuses to land and
  flags `needs_regate`". The flag is never read, and a tap on approve lands the gated commit
  afterwards.
- `OncePerWindow`. `app/src/paging.ts:7` says one cause pages at most once per window. The
  window is asked before the compare-and-set is awaited and marked after it, so two signals of
  one cause with different incident ids both page.

- `RollbackNamesTheCause`. `loop-a/src/correlation.ts:36` says what a diagnosis is anchored on:
  "the single in-window deploy that touches an affected path". The advice of
  `loop-a/src/investigate.ts:171` names the last deploy of the signal, whichever it is.

Noted without a run:

- Repair. A merge that comes between the pull request and its index row is ignored for good
  (`runtime.ts:229-234`). An escalation to a secondary approver who is `null`, as the server
  configures it, asks nobody. A tier-4 approval is a plan without a diff, says the schema
  (`tier4_is_plan_no_diff`, `HITL-APPROVAL.md:303` and `:319`); `enqueue` refuses one with a
  diff, but `approve` with an edited fix puts one on the row (`ladder.ts:154`).
- Kill switch. Nothing in the application calls `heartbeat()` or the signed gate;
  `killrelease.ts:2-3` calls the gate the only path that clears the switch, `/release` is
  another. `KillSwitch.release` returns the bit, `PgKillSwitch.release` "the effective killed
  state after" (`postgres.ts:109`). That is the row as the SELECT found it, judged by a clock
  read before the UPDATE: an engage in between or afterwards makes the reply old, and the bit
  may have been off and the heartbeat fresh at different moments only. `OpsReplyWasSo` is what
  can be said.
- Trust. A harm is dated by each projection anew (`memory.ts:117`), so a class with a standing
  one never earns again, which `TRUST-CONTROLLER.md:209-213` does not say. In memory a
  redelivered `recordResolution` overwrites the label, a failure's too, which
  `INCIDENT-MEMORY.md:475` calls sticky; in Postgres it does nothing. Postgres sets
  `confirmed_good` without a landing; the check it refers to (`postgres.ts:59-60`) looks at the
  spelling of the label only (`sql.ts:30-31`). A row labelled or recorded anew loses the harm it
  stood for. The churn hold "clears only when the area goes CHURN_QUIET hours" with no new
  actions (`TRUST-CONTROLLER.md:341-342`); `churn.ts:25` drops the early actions, so that the
  hold ends `quietH` after the first of the burst, though the area still moves:
  `QuietAfterBurst` says that much, and no more. "confirmed_good outranks a merely-recent weak
  positive at equal similarity" (`memory.ts:86-87`) fails at similarity zero, where every rank
  is zero and the order of the Map decides; `minSimilarity` is zero by default.
- Gate. A failing import on the parent counts as a discriminating test, for only the exit code
  is read (`gate.ts:5`, `VERIFICATION-GATE.md:157-158`). An output with "not found" in it is
  taken for a broken machine. A repair that deletes or renames a source makes the gate throw.
  The verdict turns "only on the test command's EXIT CODE" (`git-runner.ts:10-12`), but an exit
  of zero with "N fail" in the output counts as failed (`:56-57`). `pathsFromUnifiedDiff` is to
  extract "the file paths a unified diff actually writes" (`protected.ts:37-43`) and does not
  undo quotes or runs of slashes: the suite then runs on a write to a protected file that no
  pattern matches, and with slashes such a patch may pass. A commit that fails is not noticed
  (`repair-sandbox.ts:113-119`): a suite that flakes can pass the parent as its own fix. A test
  path that names a source is exempt from mutation (`repair-author.ts:101`), and the test is
  written over the source. An old test that is deleted or renamed is not compared, in the
  pipeline and in CI. The score is of all files together, so that a well-tested file covers for
  another; documents of a diff are mutated, and survive. CI drops deletions and configuration
  files (`gate/cli.ts:21`, `:27`, `:34-41`) and does not check changes of tests alone for
  weakening.
- Loop B. A first red run followed by green re-runs only is judged a regression or a candidate
  for healing, although `discriminator.ts:33-35` says flakiness has been ruled out first.
- Diagnosis. "`suspicious` is set if any free-text field contains instruction-like content"
  (`guards.ts:28-29`), but only title, message, culprit and paths are scanned (`:44`): the same
  words in another field stay quiet. The upstream patterns read the whole payload, numbers
  included. When the model cannot be asked, the incident stays recorded and silent. The
  application passes no onset uncertainty and does not call `dedupe`.
- Shared memory. A `recordIncident` that fails half way and is tried again stores a second
  material, and retrieval then answers with the incident twice. Of two asks of an incident the
  one answered last is reinforced. A label set twice signals twice. Asks are lost at a restart.

## 6. Proofs

Assumed of the constants: `IncidentOf` maps attempts to incidents, `None` is none of the values
it is told from, timeouts, the window and the bounds are natural numbers, `CauseOf` maps
incidents to causes. The sets of attempts, requests, rows, calls, incidents, fixes and causes
are arbitrary, and need not be finite, except for the fixes of `TrustMemory`.

- **RepairFlowProofs.** None of the safety properties is inductive: `RejectedNeverLands`, for
  one, says nothing of the request that has taken the approval and has yet to insert. `IInv`
  adds what every await already knows: `AttemptInv` along `runRepair`, `RequestInv` along
  `confirmRepair` (a request past its verdict sees an approved row until a restart, which also
  ends the request), `LedgerInv` for what a row and an answer say of each other, `RejectInv` for
  rejections taken and rejections reported, `FreezeInv` for requests that have only seen a
  freeze. Each part has its lemma, with a step per action. From `Invariance` follow
  `TypeCorrect`, `Vouched`, `Creator`, `NoRejectedLanding`, `ShutOut`, `Decidable` and
  `Agreement`; `Immutable` is an action property and needs `TypeOK` only.
- **RepairGateProofs.** `Implements`: under the refinement mapping at the end of `RepairFlow`
  every step opens, decides or lands one proposal, forgets, or stutters. `Insert` needs the
  invariant: the request that inserts has an approved row.
- **LadderProofs.** `ClockInv` relates timers to history: what a timer shows and what its row
  has waited add up to at least what the ladder owes, which makes "never early" inductive.
- **PagingProofs.** `WonInv`: a page, and a call that is about to send one, exclude every other
  call of the incident.
- **KillReleaseProofs.** A restart empties the nonces, so they do not tell an old release from a
  new one. `Spent` does: a granted release either has its nonce on the list or is of an earlier
  freeze than the one that is on. `Past` and `SignedOnce` say where signatures come from; the
  property of the step then follows from `GrantFacts`. For `OpsRepliesWereSo`, `CallIsWitness`
  says what a call under way has seen at least: the bit off once it is off; a new freeze if it
  brought the token and the bit is on again after its UPDATE; and a fresh heartbeat exactly if
  the stamp is fresh by the clock of the call, since a beat only moves the stamp forward.
- **TrustProofs.** `StaffedLandings` and `QuietAfterBursts` are about the step that lands: the
  first shows that the day and minute computed by division are those of the calendar, whatever
  the offset; the second, that looking at recent landings only is enough, because what follows a
  recent landing is recent, and that time, which never goes back, adds nothing to what was
  before a landing. For `PromotionsAreEarned`, `LandInv` adds that no landing is in the future
  and that a row linked to a landing has one; then the counts of the fold are the cardinalities
  of the sets the property names. `RetrievalIsHonest` describes the first k of a stable sort by
  the number of entries ahead of each, without the sort; `HonestForAny` has it for all
  similarities, zero and below included, all limits and any way ties fall.
- **IncidentProofs, decisions.** `EscalationIsExplained` needs no state but the lemma that gate
  and list read the booleans alike. `RcaInv` keeps what the analysis rests on of the candidate,
  from the route to the diagnosis: counts are natural and deploy times are numbers, so that the
  comparisons of `ConfirmationsAreGrounded` mean something, and a text is flagged exactly if it
  injects, which `QuietIsAlwaysSafe` needs. `FlakyInv` keeps what is known of a test before its
  class is acted on.
- **IncidentProofs, patches.** `PatchInv` carries the screening of a patch, whether it is
  committed and what the gate is to read from stage to stage. `Discriminates` says what the
  must-fail check is worth and `RunsShow` which tree each of its runs was on; a patch that is
  not committed has one tree for both (`NothingToLay`), so that its pass is a contradiction of
  the suite. `QuotedIsSource` is why no quoted header passes: its path ends in a quote, is no
  test, and cannot be read. `AuditInv` keeps that `git apply` refused a diff over the new test;
  `ReadableIsWritten` says that without runs of slashes the paths the gate could read are the
  files of code the diff writes and the declared ones, and `WritesAreAudited` that a sum over
  them leaves none out.
- **PathProofs, memory.** `PrecedentsAreHonest` speaks of reinforcements sent and answers given;
  nothing in it tells a call under way. `SharedInv` does: the ask a pending call remembers was
  made, the label a pending signal carries was written to its incident, the ask the adapter
  recalls is of the incident it looks it up for, and the labels a retrieval has read were
  current at some time since it began. The blocks it offers are the first of an order, as above.
- **PathProofs, types.** `PathTypes` combines the invariants of the parts with `OneAtWork`.
- **PathProofs, merging.** `ForestInv`: the forest has a rank that falls along every link (so
  that `find` ends), both keys of a signal have one root, and no tree leaves a set of keys that
  is closed under sharing a signal. `UnionJoins` shows that `union` merges two trees and touches
  no other; `ReachIs` that the reference definition, an iteration of as many steps as there are
  signals, reaches a closed set. Together the trees are the classes of connected signals, and
  `SumOfParts` gives that the counts of the incidents add up.

How recursive functions are reasoned about. The library's induction takes an operator, which the
provers cannot instantiate, but well-foundedness is a fact about a set: `NatWellFounded` and
`WFMin` give `LeastNat`, that a set of naturals has a least element, and `LeastSet`, that a
family of parts of a finite set has a smallest member. A claim over a chain, a fold or a sum is
proved by taking the least index, or the smallest subset, where it fails. The finite sums are
`SumFunction` and `SumFunctionOnSet`, and `Reach` iterates a step that is a function, because
these are what a theorem can be stated of.

Assumed of these constants, each by name in the module that declares it: bounds, windows,
limits, delays and thresholds are natural numbers; the fixes of `TrustMemory` are finitely many
and no run starts before the first day of its calendar (`ResAssumption`, `CalendarAssumption`);
a file of a pull request is of one kind and a usable patch declares a source (`FileAssumption`,
`PatchAssumption`; `adapters/src/repair-claude.ts:86` turns others away); a header is spelled in
one of the three ways, the protected patterns match plain paths (`PatternAssumption`) and
assertions are counted in natural numbers (`SuiteAssumption`); a request that the routes do not
turn away has numbers where they check for numbers (`RequestAssumption`). Two are about the
outside: the occurrences a sender reports are a natural number (`SignalAssumption`;
`contracts/src/guards.ts:53` takes any finite number), and a material that is a hit has a
positive relevance (`ScoreAssumption`). Signals, answers, observations, patches, suites, labels
and incidents are otherwise arbitrary. TLC evaluates each assumption in the runs.

Only model-checked: the liveness properties `ApprovedLands` and `WorthyIsPaged`, which are
beyond the prover, and the five violations, which are counterexamples.

## 7. Not modelled

- The operations log, `/status`, `/incidents` and the ack button: a ring for the dashboard.
- `statemachine.ts`, `loop-a/src/deliver.ts`: nothing calls them.
- `detectRecurrence`, `harmQuery`: searches in a window by similarity, which is token overlap in
  floating point; their answers arrive in `TrustMemory` as labels.
- `aggregation/src/priority.ts`: a score nothing decides by.
- The telemetry, backlog and learning-platform clients, `rca-git`, Telegram and Slack transport,
  prompts and rendering: one call, one answer, no state.
- The instrument, the connectors and the scripts: offline reports and one-shot programs.

`PROJECT.json` gives every component's status.
