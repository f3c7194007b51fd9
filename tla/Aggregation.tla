---------------------------- MODULE Aggregation ----------------------------
(***************************************************************************)
(* Noise suppression (packages/aggregation): the two keys of a signal, the *)
(* union-find that merges signals sharing either, and the incidents that   *)
(* come out of it.  A step is one turn of dedupe's loop.  Hashes are taken *)
(* as injective, a message is what is left of it after scrubbing.          *)
(***************************************************************************)
EXTENDS Integers, Sequences, FiniteSets, FiniteSetsExt, Functions, SequencesExt

CONSTANTS Signals,    \* [source, paths, location, error, service, seen, occurrences]
          AreaOf,     \* the directory at depth 2 of each path
          MaxSignals, \* bound: signals in one call
          NoiseFloor, \* [minOccurrences, windowStart]
          Nowhere     \* a signal without a stack or culprit
\* A count is natural: the guards take any finite number a sender reports.
ASSUME SignalAssumption ==
  MaxSignals \in Nat /\ \A s \in Signals : s.occurrences \in Nat /\ s.seen \in Int
ASSUME NoiseAssumption == NoiseFloor \in [minOccurrences : Nat, windowStart : Int]

VARIABLES stream,  \* the signals merged so far
          parent   \* the union-find forest over their keys

aggregationVars == <<stream, parent>>

moduleArea(s) == IF s.paths = <<>> THEN s.service ELSE AreaOf[Head(s.paths)]

locationSlice(s) == IF s.location = Nowhere THEN s.error ELSE s.location

\* The exact identity: moving a file shifts it.
fingerprint(s) == <<"fp", s.source, ToSet(s.paths), locationSlice(s)>>

\* The identity that survives a rename within a module.
symptomSignature(s) == <<"sig", moduleArea(s), s.error>>

keys(s) == {fingerprint(s), symptomSignature(s)}

\* The end of the chain of parents; a key not met yet is its own parent.
find(forest, x) ==
  LET up[n \in 0..Cardinality(DOMAIN forest)] ==
        IF n = 0 THEN x ELSE forest[up[n - 1]]
  IN  up[Cardinality(DOMAIN forest)]

\* Mutant: b is hung below a itself, whatever tree a is in already.
unionOfLeaf(forest, a, b) == [forest EXCEPT ![a] = find(forest, b)]

union(forest, a, b) == [forest EXCEPT ![find(forest, a)] = find(forest, b)]

\* One turn of the loop: both keys are entered, then joined.
Merge(s) ==
  LET known == DOMAIN parent \cup keys(s)
      entered == [k \in known |-> IF k \in DOMAIN parent THEN parent[k] ELSE k]
  IN  /\ Len(stream) < MaxSignals
      /\ stream' = Append(stream, s)
      /\ parent' = union(entered, fingerprint(s), symptomSignature(s))

root(s) == find(parent, fingerprint(s))

\* The incidents: signals bucketed by root, occurrences summed, the noise floor
\* counted over the signals first seen inside the window.
dedupe ==
  LET of(r) == {k \in DOMAIN stream : root(stream[k]) = r}
      occurrences(K) == SumFunctionOnSet([k \in DOMAIN stream |-> stream[k].occurrences], K)
      recent(K) == {k \in K : stream[k].seen >= NoiseFloor.windowStart}
  IN  {[signals |-> of(r),
        occurrences |-> occurrences(of(r)),
        first_seen |-> Min({stream[k].seen : k \in of(r)}),
        suppressed |-> occurrences(recent(of(r))) < NoiseFloor.minOccurrences] :
          r \in {root(stream[k]) : k \in DOMAIN stream}}

AggregationIdle == stream = <<>> /\ parent = <<>>

AggregationTypeOK ==
  /\ stream \in Seq(Signals) /\ Len(stream) <= MaxSignals
  /\ DOMAIN parent = UNION {keys(s) : s \in ToSet(stream)}
  /\ \A k \in DOMAIN parent : parent[k] \in DOMAIN parent

-----------------------------------------------------------------------------
(* The reference: signals are linked when they share a key, and an         *)
(* incident is everything linked to one of its signals, near or far.       *)

Linked(j, k) == keys(stream[j]) \cap keys(stream[k]) # {}

Reach(k) ==
  LET step == [K \in SUBSET DOMAIN stream |-> K \cup {j \in DOMAIN stream : \E q \in K : Linked(j, q)}]
      near[n \in 0..Len(stream)] == IF n = 0 THEN {k} ELSE step[near[n - 1]]
  IN  near[Len(stream)]

\* Whatever the order the signals come in, two of them end in one incident
\* exactly if a chain of shared fingerprints and symptom signatures connects
\* them, no occurrence is lost or counted twice, and what is suppressed never
\* hides a signal that clears the noise floor alone.
IncidentsAreConnected ==
  /\ \A k \in DOMAIN stream : \E i \in dedupe : i.signals = Reach(k)
  /\ SumFunction([i \in dedupe |-> i.occurrences])
       = SumFunction([k \in DOMAIN stream |-> stream[k].occurrences])
  /\ \A i \in dedupe : i.suppressed =>
       \A k \in i.signals : stream[k].occurrences >= NoiseFloor.minOccurrences
                              => stream[k].seen < NoiseFloor.windowStart
=============================================================================
