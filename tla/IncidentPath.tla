---------------------------- MODULE IncidentPath ----------------------------
(***************************************************************************)
(* The parts of the system that an incident passes one after the other:    *)
(* signals are merged into incidents, a signal is diagnosed, a confirmed   *)
(* code diagnosis is handed to the repair author and the gate, a test that *)
(* goes red after the change is judged, and what became of it is kept in   *)
(* the shared memory.  Only diagnosis and repair share more than the data  *)
(* they are called with, so one part runs at a time.                       *)
(***************************************************************************)
EXTENDS Aggregation, RootCause, PatchGate, FlakyTests, SharedMemory

vars == <<aggregationVars, rcaVars, pgVars, flakyVars, sharedVars>>

Init == AggregationIdle /\ RcaIdle /\ PgIdle /\ FlakyIdle /\ SharedIdle

atRest == [merging |-> AggregationIdle, diagnosing |-> RcaIdle, repairing |-> PgIdle,
           judging |-> FlakyIdle, remembering |-> SharedIdle]

\* Nothing but this part is at work.
only(part) == \A p \in DOMAIN atRest \ {part} : atRest[p]

\* A signal is merged.
MergeSignal(s) ==
  /\ only("merging")
  /\ Merge(s)
  /\ UNCHANGED <<rcaVars, pgVars, flakyVars, sharedVars>>

\* The call to dedupe returns.
MergeEnd ==
  /\ stream # <<>>
  /\ stream' = <<>> /\ parent' = <<>>
  /\ UNCHANGED <<rcaVars, pgVars, flakyVars, sharedVars>>

\* A signal on its way to a diagnosis.
Diagnose ==
  /\ only("diagnosing")
  /\ RcaStep
  /\ UNCHANGED <<aggregationVars, pgVars, flakyVars, sharedVars>>

\* Mutant: the repair is not awaited, the request goes on beside it.
HandOverUnawaited ==
  /\ IF wantsRepair THEN UNCHANGED rcaVars ELSE Respond
  /\ pgStage' = IF wantsRepair THEN "opened" ELSE "idle"
  /\ UNCHANGED <<aggregationVars, patch, staged, ran, flakyVars, sharedVars>>

\* A diagnosis that is confirmed and asks for code opens a repair, any other
\* ends with the answer to the request.
HandOver ==
  /\ Respond
  /\ pgStage' = IF wantsRepair THEN "opened" ELSE "idle"
  /\ UNCHANGED <<aggregationVars, patch, staged, ran, flakyVars, sharedVars>>

\* A patch on its way through the author and the gate, or a pull request in CI.
Repair ==
  /\ only("repairing")
  /\ PgStep
  /\ UNCHANGED <<aggregationVars, rcaVars, flakyVars, sharedVars>>

\* Loop B looks at a test.
JudgeTest ==
  /\ only("judging")
  /\ FlakyStep
  /\ UNCHANGED <<aggregationVars, rcaVars, pgVars, sharedVars>>

\* The shared memory is written and read.
Remember ==
  /\ only("remembering")
  /\ SharedStep
  /\ UNCHANGED <<aggregationVars, rcaVars, pgVars, flakyVars>>

Next ==
  \/ \E s \in Signals : MergeSignal(s)
  \/ MergeEnd
  \/ Diagnose
  \/ HandOver
  \/ Repair
  \/ JudgeTest
  \/ Remember

Spec == Init /\ [][Next]_vars

\* The types of the five parts, and that only one of them is at work.
TypeOK ==
  /\ AggregationTypeOK /\ RcaTypeOK /\ PgTypeOK /\ FlakyTypeOK /\ SharedTypeOK
  /\ \E part \in DOMAIN atRest : only(part)
=============================================================================
