----------------------------- MODULE PatchGate -----------------------------
(***************************************************************************)
(* One candidate patch from the model to a verdict: the author in its      *)
(* worktree (adapters/repair-author, repair-sandbox, loop-c/protected),    *)
(* runRepair's checks on what it staged, the verification gate             *)
(* (adapters/gate, gate/verify, verification-gate, mutation-gate), and the *)
(* same gate as a CI job over a pull request (gate/cli).                   *)
(*                                                                         *)
(* A tree is what differs from the parent's: file -> "edit", "delete",     *)
(* "add", or "test" where the author put its test.  Every run of the suite *)
(* ends as it likes, on the same tree too.                                 *)
(***************************************************************************)
EXTENDS Integers, FiniteSets, Functions

CONSTANTS Sources,       \* files with code in them
          Ignored,       \* configuration and declarations: code CI looks past
          Documents,     \* files without, where operators may still be found
          Protected,     \* Tier-4 files
          Unmatched,     \* spellings of them that no protected pattern matches
          Patches,       \* [diff, spelling, declared, testPath, usable, applies]: answers of the model
          PullRequests,  \* diffs CI may see: file -> "edit", "delete" or "add"
          Suites,        \* [mutants, killed, counts]: what the gate finds, by file
          RequiredScore  \* percent of mutants to kill

VARIABLES pgStage,  \* how far the patch has come
          patch,    \* the patch under way
          staged,   \* what the author reports of it
          ran       \* history: what the suite showed on which tree, and to whom

pgVars == <<pgStage, patch, staged, ran>>

PgIdle == pgStage = "idle" /\ patch = <<>> /\ staged = <<>> /\ ran = {}

NewTest == "newTest"
OldTest == "oldTest"
Tests == {NewTest, OldTest}

\* Every file of a pull request is of one kind; protected ones are of any.
ASSUME FileAssumption ==
  /\ Documents \cap Sources = {} /\ Ignored \cap (Sources \cup Documents) = {}
  /\ Tests \cap (Sources \cup Ignored \cup Documents) = {}
  /\ \A d \in PullRequests : DOMAIN d \subseteq Sources \cup Ignored \cup Documents \cup Tests

\* An answer without source files is not usable; a header is spelled in one of
\* three ways.
ASSUME PatchAssumption ==
  \A p \in Patches :
    /\ p.usable => p.declared # {}
    /\ \A f \in DOMAIN p.diff : p.spelling[f] \in {"plain", "doubled", "quoted"}
ASSUME SuiteAssumption ==
  \A s \in Suites : s.counts[OldTest].strongFix \in Nat /\ s.counts[OldTest].strongParent \in Nat
\* The patterns are written for plain paths.
ASSUME PatternAssumption == \A n \in Unmatched : n.spelling # "plain"

\* How a run of the suite ends: "saysFail" exits 0 and prints "N fail",
\* "notFound" fails with "not found" in its output.
RunOutcomes == {"green", "red", "saysFail", "notFound"}

\* The author and the mutation runner go by the exit code.
exitsZero(o) == o \in {"green", "saysFail"}

\* The gate counts what is printed too.
failed(o) == o \in {"red", "saysFail"}

-----------------------------------------------------------------------------
(* Paths: a file, and how a header of the diff spells it: "plain",         *)
(* "doubled" (a run of slashes, which git and the file system squash) or   *)
(* "quoted" (git's C-style quotes).                                        *)

named(f, spelling) == [file |-> f, spelling |-> spelling]
plainly(files) == {named(f, "plain") : f \in files}

\* The paths a unified diff writes, read off its headers as they are spelled.
pathsFromUnifiedDiff(p) == {named(f, p.spelling[f]) : f \in DOMAIN p.diff}

protectedPathsTouched(paths) == {n \in paths : n.file \in Protected /\ n \notin Unmatched}

\* Mutant: only what the author declares is looked at.
touchedAsDeclared(p) == plainly(p.declared \cup {p.testPath})

touchedPaths(p) == plainly(p.declared \cup {p.testPath}) \cup pathsFromUnifiedDiff(p)

\* A quote at the end of a name hides its suffix.
namesATest(n) == n.file \in Tests /\ n.spelling # "quoted"

\* Mutant: only the declared files are mutated.
sourcesAsDeclared(p) == plainly(p.declared)

\* What the gate mutates: declared files and whatever the diff writes but
\* tests and what is at the path of the new test.
sourceFiles(p) ==
  plainly(p.declared)
    \cup {n \in pathsFromUnifiedDiff(p) : n # named(p.testPath, "plain") /\ ~namesATest(n)}

-----------------------------------------------------------------------------
(* Trees.                                                                  *)

parentTree == [f \in {} |-> "edit"]
testTree(p) == [f \in {p.testPath} |-> "test"]

\* The test is written first, the diff over it.
fixTree(p) ==
  [f \in DOMAIN p.diff \cup {p.testPath} |-> IF f \in DOMAIN p.diff THEN p.diff[f] ELSE "test"]

\* Only the new test is not on the parent.
existsIn(tree, f) == IF f \in DOMAIN tree THEN tree[f] # "delete" ELSE f # NewTest

\* A commit that failed leaves the fix ref at the parent.
fixRef == IF staged.committed THEN fixTree(patch) ELSE parentTree

\* The tests as they are on `tree`, over the parent's code; one that is not
\* there cannot be laid over.
overlay(tree, tests) == [f \in {f \in tests \cap DOMAIN tree : tree[f] # "delete"} |-> tree[f]]

run(who, tree, o) == [by |-> who, tree |-> tree, outcome |-> o]

-----------------------------------------------------------------------------
(* The author.                                                             *)

\* No worktree, or no answer from the model: the repair throws.
AuthorFails ==
  /\ pgStage = "opened"
  /\ pgStage' = "crashed"
  /\ UNCHANGED <<patch, staged, ran>>

\* A patch without a diff, a test or source files, or that is seen to write a
\* protected path, is declined before anything is written or run.
AuthorPatch(p) ==
  /\ pgStage = "opened"
  /\ pgStage' = IF p.usable /\ protectedPathsTouched(touchedPaths(p)) = {}
                THEN "proposed" ELSE "declined"
  /\ patch' = p
  /\ UNCHANGED <<staged, ran>>

\* The test is written into the worktree, over what is there, and the suite
\* runs on the parent.
RunOnParent(o) ==
  /\ pgStage = "proposed"
  /\ pgStage' = "ranOnParent"
  /\ staged' = [reproduced |-> ~exitsZero(o)]
  /\ ran' = {run("author", testTree(patch), o)}
  /\ UNCHANGED patch

\* git apply refuses a diff that does not apply, or that writes the file the
\* test was written to, which is no longer as the index has it.
ApplyDiff ==
  /\ pgStage = "ranOnParent"
  /\ pgStage' = IF patch.applies /\ patch.testPath \notin DOMAIN patch.diff
                THEN "applied" ELSE "declined"
  /\ UNCHANGED <<patch, staged, ran>>

\* The commit goes to the fix branch by force; git's failure is not looked at,
\* and leaves the fix at the parent.  Then the suite runs on the worktree and
\* the operator's checks, whose answer is `checks`.
CommitAndRun(committed, o, checks) ==
  /\ pgStage = "applied"
  /\ pgStage' = "staged"
  /\ staged' = [reproduced |-> staged.reproduced, committed |-> committed, checks |-> checks,
                flipped |-> exitsZero(o), sourceFiles |-> sourceFiles(patch),
                touchedPaths |-> touchedPaths(patch), suite |-> <<>>]
  /\ ran' = ran \cup {run("author", fixTree(patch), o)}
  /\ UNCHANGED patch

\* runRepair looks again before the gate is asked.
Screen ==
  /\ pgStage = "staged"
  /\ pgStage' = IF /\ protectedPathsTouched(staged.touchedPaths) = {}
                   /\ staged.reproduced /\ staged.flipped /\ staged.checks
                THEN "screened" ELSE "blocked"
  /\ UNCHANGED <<patch, staged, ran>>

-----------------------------------------------------------------------------
(* The gate: a function of the two refs and the files it is given.         *)

\* Mutant: whatever fails on the parent will do.
failsOnParent(parentRun, fixRun) == "notFound" \notin {parentRun, fixRun} /\ failed(parentRun)

\* DISCRIMINATING, unless INFRA, VACUOUS or UNFIXED.
mustFailOnParent(parentRun, fixRun) ==
  /\ "notFound" \notin {parentRun, fixRun}
  /\ failed(parentRun) /\ ~failed(fixRun)

\* The two runs: the declared tests of the fix over the parent, and the fix.
validateChange(tree, tests, parentRun, fixRun) ==
  {run("gate", overlay(tree, tests), parentRun), run("gate", tree, fixRun)}

\* A file is found by any spelling the file system takes.
readable(n, tree) == n.spelling # "quoted" /\ existsIn(tree, n.file)

\* One file: a mutant is killed when the run of the suite on it fails.
runMutationGate(n, s) == [killed |-> s.killed[n.file], total |-> s.mutants[n.file]]

\* The mutants of all files count together.
mergeReports(reports) ==
  [killed |-> SumFunction([f \in DOMAIN reports |-> reports[f].killed]),
   total |-> SumFunction([f \in DOMAIN reports |-> reports[f].total])]

\* None at all is no pass.
scoreGate(report) ==
  report.total > 0 /\ 100 * report.killed >= RequiredScore * report.total

mutationOnRef(files, s) == scoreGate(mergeReports([n \in files |-> runMutationGate(n, s)]))

\* Strong assertions may not drop, weak ones may not be all that is added.
noWeakening(counts) ==
  \/ counts.strongFix > counts.strongParent
  \/ counts.strongFix = counts.strongParent /\ counts.weakFix <= counts.weakParent

\* What is compared is what is on both refs; git show squashes no slashes.
noWeakeningOverPaths(paths, tree, s) ==
  \A n \in {m \in paths : m.spelling = "plain"} :
    n.file \in DOMAIN tree \ {NewTest} /\ existsIn(tree, n.file) => noWeakening(s.counts[n.file])

\* The verdict needs all three.
combineGate(mustFail, mutation, noWeak) == mustFail /\ mutation /\ noWeak

\* Tests are the declared ones, weakenAlso every other one that was touched.
verify(tree, tests, weakenAlso, files, parentRun, fixRun, s) ==
  combineGate(mustFailOnParent(parentRun, fixRun), mutationOnRef(files, s),
              noWeakeningOverPaths(plainly(tests) \cup weakenAlso, tree, s))

\* The gate on a staged patch.  A path it is to mutate that leads nowhere on the
\* fix ref cannot be read: the gate throws, and with it the repair.
RunGate(parentRun, fixRun, s) ==
  /\ pgStage = "screened"
  /\ pgStage' = IF \E n \in staged.sourceFiles : ~readable(n, fixRef) THEN "crashed"
                ELSE IF verify(fixRef, {patch.testPath},
                               {n \in staged.touchedPaths : namesATest(n)},
                               staged.sourceFiles, parentRun, fixRun, s)
                THEN "passed" ELSE "rejected"
  /\ staged' = [staged EXCEPT !.suite = s]
  /\ ran' = ran \cup validateChange(fixRef, {patch.testPath}, parentRun, fixRun)
  /\ UNCHANGED patch

\* No worktree at one of the refs: the gate throws.
GateFails ==
  /\ pgStage = "screened"
  /\ pgStage' = "crashed"
  /\ UNCHANGED <<patch, staged, ran>>

-----------------------------------------------------------------------------
(* CI: the same gate over base..head of a pull request.                    *)

\* Deletions are dropped, a rename is its new path, and what is left is sorted
\* into tests and sources.
classifyChanged(diff) ==
  LET kept == {f \in DOMAIN diff : diff[f] # "delete"} \ Ignored
  IN  [tests |-> kept \cap Tests, sources |-> kept \cap Sources]

ciVerdict(diff, parentRun, fixRun, s) ==
  LET c == classifyChanged(diff)
      gated == verify(diff, c.tests, {}, plainly(c.sources), parentRun, fixRun, s)
  IN  CASE c.tests = {} /\ c.sources = {} -> "ciSkipped"
        [] c.tests = {} /\ c.sources # {} -> "ciRejected"
        [] c.tests # {} /\ c.sources = {} -> IF exitsZero(fixRun) THEN "ciTestsOnly" ELSE "ciRejected"
        [] OTHER -> IF gated THEN "ciPassed" ELSE "ciRejected"

CiGate ==
  /\ pgStage = "idle"
  /\ \E d \in PullRequests, parentRun, fixRun \in RunOutcomes, s \in Suites :
       /\ patch' = [diff |-> d] /\ staged' = [suite |-> s]
       /\ pgStage' = ciVerdict(d, parentRun, fixRun, s)
       /\ ran' = validateChange(d, classifyChanged(d).tests, parentRun, fixRun)

PgEnd ==
  /\ pgStage \in {"declined", "blocked", "crashed", "passed", "rejected",
                  "ciSkipped", "ciTestsOnly", "ciPassed", "ciRejected"}
  /\ pgStage' = "idle" /\ patch' = <<>> /\ staged' = <<>> /\ ran' = {}

PgStep ==
  \/ AuthorFails
  \/ \E p \in Patches : AuthorPatch(p)
  \/ \E o \in RunOutcomes : RunOnParent(o)
  \/ ApplyDiff
  \/ \E committed, checks \in BOOLEAN, o \in RunOutcomes : CommitAndRun(committed, o, checks)
  \/ Screen
  \/ \E parentRun, fixRun \in RunOutcomes, s \in Suites : RunGate(parentRun, fixRun, s)
  \/ GateFails
  \/ CiGate
  \/ PgEnd

PgTypeOK ==
  /\ pgStage \in {"idle", "opened", "declined", "proposed", "ranOnParent", "applied", "staged",
                  "blocked", "screened", "crashed", "passed", "rejected",
                  "ciSkipped", "ciTestsOnly", "ciPassed", "ciRejected"}
  /\ \A r \in ran : r.by \in {"author", "gate"} /\ r.outcome \in RunOutcomes
  /\ pgStage \in {"staged", "screened"} =>
       staged.sourceFiles \subseteq staged.touchedPaths /\ staged.sourceFiles # {}

-----------------------------------------------------------------------------
(* Properties.                                                             *)

\* Whatever the model declares, the suite runs on a tree with a write to a
\* protected file only if the diff spells its path so that no pattern matches
\* it, quoted or with a run of slashes; and the gate lets no quoted one pass.
ProtectedNeverRuns ==
  /\ pgStage \in {"ranOnParent", "applied", "staged", "blocked", "screened", "passed", "rejected"} =>
       /\ (patch.declared \cup {patch.testPath}) \cap Protected = {}
       /\ \A f \in DOMAIN patch.diff \cap Protected : named(f, patch.spelling[f]) \in Unmatched
  /\ pgStage = "passed" => \A f \in DOMAIN patch.diff \cap Protected : patch.spelling[f] # "quoted"

\* The gate was shown two different things by one and the same tree.
suiteContradictsItself ==
  \E a, b \in ran : a.by = "gate" /\ b.by = "gate" /\ a.tree = b.tree /\ a.outcome # b.outcome

\* What passes is a real fix unless the suite contradicted itself: it is
\* committed, although nobody looked whether git did commit, the tree of the fix
\* was green, and a tree with its tests and otherwise the old code was not.  A
\* pull request that passes in CI was green, and its tests failed on its base.
PassIsGrounded ==
  LET showed(tree, outcomes) == \E r \in ran : r.by = "gate" /\ r.tree = tree /\ r.outcome \in outcomes
      grounded(tree, tests) == /\ showed(tree, {"green"})
                               /\ showed(overlay(tree, tests), {"red", "saysFail"})
  IN  /\ pgStage = "passed" /\ ~suiteContradictsItself =>
           staged.committed /\ grounded(fixTree(patch), {patch.testPath})
      /\ pgStage = "ciPassed" => grounded(patch.diff, classifyChanged(patch.diff).tests)

\* What passes was audited: the mutants of every file of code its diff writes
\* are in the score with those of the declared files, so that an undeclared one
\* lowers it; an old test that stays keeps its strong assertions, declared or
\* not; and in the pipeline no file but a test is deleted.  A run of slashes in a
\* path, a file at the path of the new test, and in CI configuration and
\* deletions escape the audit.
EveryWriteIsAudited ==
  LET inPipeline == /\ pgStage = "passed" /\ staged.committed
                    /\ \A f \in DOMAIN patch.diff : patch.spelling[f] # "doubled"
      inCi == pgStage = "ciPassed"
      tree == IF inCi THEN patch.diff ELSE fixTree(patch)
      written == {f \in DOMAIN tree : tree[f] # "delete"}
      code == IF inCi THEN written \ (Tests \cup Documents \cup Ignored)
              ELSE (written \ (Tests \cup {patch.testPath})) \cup patch.declared
      s == staged.suite
  IN  inPipeline \/ inCi =>
        /\ 100 * SumFunction([n \in plainly(code) |-> s.killed[n.file]])
              >= RequiredScore * SumFunction([n \in plainly(code) |-> s.mutants[n.file]])
        /\ OldTest \in written => s.counts[OldTest].strongFix >= s.counts[OldTest].strongParent
        /\ inPipeline => DOMAIN tree \ Tests \subseteq written
=============================================================================
