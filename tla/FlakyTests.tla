----------------------------- MODULE FlakyTests -----------------------------
(***************************************************************************)
(* Loop B: what becomes of a test that goes red after a change (loop-b).   *)
(* A run ends in "pass", "assertion", "crash" or "noRun"; each is a step,  *)
(* so that the test and the machine may change their mind in between.      *)
(***************************************************************************)
EXTENDS Integers, Sequences

CONSTANTS Reruns,      \* how often a red test is run again
          ImportSets,  \* relative imports of a test file, by base name
          ChangedSets  \* source files the change touched, by base name
ASSUME RerunsAssumption == Reruns \in Nat

VARIABLES runs,     \* outcomes so far, the first run first
          testFile, \* [imports, changed, found]: the file and the change
          verdict   \* the class of the broken test

flakyVars == <<runs, testFile, verdict>>

FlakyIdle == runs = <<>> /\ testFile = <<>> /\ verdict = "none"

Outcomes == {"pass", "assertion", "crash", "noRun"}

\* A line that looks like an expectation wins over one that looks like a throw;
\* an output with neither, such as that of a test that never ran, is a crash.
classifyFailureMode(outcome) == IF outcome = "assertion" THEN "assertion" ELSE "crash"

\* A test whose relative imports all changed, or that has none, is inside.
coversOutsideDiff(t) == t.imports \ t.changed # {}

\* Mutant: the first, red run is counted among the re-runs.
detectFlakyAllRuns(rs) == \E j \in DOMAIN rs : rs[j] = "pass"

\* The re-runs disagree; the first run is not one of them.
detectFlaky(rs) ==
  /\ \E j \in 2..Len(rs) : rs[j] = "pass"
  /\ \E j \in 2..Len(rs) : rs[j] # "pass"

\* The first step that applies decides.
classify(rs, t) ==
  IF Head(rs) = "noRun" THEN "D_infra"
  ELSE IF detectFlaky(rs) THEN "C_flaky"
  ELSE IF classifyFailureMode(Head(rs)) = "crash" \/ coversOutsideDiff(t) THEN "A_regression"
  ELSE "B_stale_candidate"

\* The first run; a green test is not broken.
runTestOnce(outcome, t) ==
  /\ runs = <<>>
  /\ runs' = <<outcome>>
  /\ testFile' = t
  /\ verdict' = IF outcome = "pass" THEN "notBroken" ELSE "none"

Rerun(outcome) ==
  /\ runs # <<>> /\ verdict = "none" /\ Len(runs) <= Reruns
  /\ runs' = Append(runs, outcome)
  /\ UNCHANGED <<testFile, verdict>>

Classify ==
  /\ runs # <<>> /\ verdict = "none" /\ Len(runs) = Reruns + 1
  /\ verdict' = classify(runs, testFile)
  /\ UNCHANGED <<runs, testFile>>

\* The one thing done without a human; a name the pattern does not find in the
\* source leaves the file as it is.
quarantineTest ==
  /\ verdict = "C_flaky"
  /\ verdict' = IF testFile.found THEN "quarantined" ELSE "skipList"
  /\ UNCHANGED <<runs, testFile>>

FlakyEnd ==
  /\ verdict \notin {"none", "C_flaky"}
  /\ runs' = <<>> /\ testFile' = <<>> /\ verdict' = "none"

TestFiles == [imports : ImportSets, changed : ChangedSets, found : BOOLEAN]

FlakyStep ==
  \/ \E o \in Outcomes, t \in TestFiles : runTestOnce(o, t)
  \/ \E o \in Outcomes : Rerun(o)
  \/ Classify
  \/ quarantineTest
  \/ FlakyEnd

FlakyTypeOK ==
  /\ runs \in Seq(Outcomes) /\ Len(runs) <= Reruns + 1
  /\ testFile \in TestFiles \cup {<<>>}
  /\ verdict \in {"none", "notBroken", "A_regression", "B_stale_candidate", "C_flaky",
                  "D_infra", "quarantined", "skipList"}

\* A test is muted without a human only after it both passed and failed on code
\* nobody changed in between, the very first red run left aside; and a human is
\* offered to heal one only if it has failed by assertion, on code the change
\* touched, and its re-runs agree.
AutonomousOnlyOnEvidence ==
  /\ verdict \in {"quarantined", "skipList"} =>
       /\ runs[1] \in {"assertion", "crash"}
       /\ {runs[j] = "pass" : j \in 2..Len(runs)} = BOOLEAN
  /\ verdict = "B_stale_candidate" =>
       /\ runs[1] = "assertion" /\ testFile.imports \subseteq testFile.changed
       /\ {runs[j] = "pass" : j \in 2..Len(runs)} # BOOLEAN
=============================================================================
