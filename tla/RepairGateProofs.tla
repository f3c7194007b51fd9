-------------------------- MODULE RepairGateProofs --------------------------
(***************************************************************************)
(* RepairFlow implements HumanGate: taken step by step, with the invariant *)
(* of RepairFlowProofs in force.  Only four actions change what a human    *)
(* was promised: Enqueue opens a proposal, the first Confirm or Reject     *)
(* decides it, the first Insert lands it; and a Restart forgets.           *)
(***************************************************************************)
EXTENDS RepairFlowProofs

LEMMA VerdictFacts ==
  ASSUME NEW a \in Attempts
  PROVE  /\ approval[a] = "OPEN" => VerdictOf(a) = "open"
         /\ approval[a] = "APPROVED" => VerdictOf(a) = "approved"
         /\ approval[a] = "REJECTED" => VerdictOf(a) = "rejected"
         /\ approval[a] = "none" => VerdictOf(a) = IF buttons[a] THEN "lost" ELSE "absent"
BY DEF VerdictOf

LEMMA VerdictFactsNext ==
  ASSUME NEW a \in Attempts
  PROVE  /\ approval'[a] = "OPEN" => VerdictOf(a)' = "open"
         /\ approval'[a] = "APPROVED" => VerdictOf(a)' = "approved"
         /\ approval'[a] = "REJECTED" => VerdictOf(a)' = "rejected"
         /\ approval'[a] = "none" => VerdictOf(a)' = IF buttons'[a] THEN "lost" ELSE "absent"
BY DEF VerdictOf

\* The three variables of HumanGate, one proposal or landing at a time.
FixOf(a) == IF buttons[a] THEN Key(a) ELSE None
LandedKeys == {k \in Keys : landing[k] # None}

\* A step that touches neither verdicts, buttons nor landings is a stutter.
LEMMA SameFix ==
  ASSUME \A a \in Attempts : buttons[a] => staged'[a] = staged[a], UNCHANGED buttons
  PROVE  [a \in Attempts |-> FixOf(a)]' = [a \in Attempts |-> FixOf(a)]
<1>1. \A a \in Attempts : FixOf(a)' = FixOf(a)
  BY DEF FixOf, Key
<1> QED BY <1>1

LEMMA GateStutters ==
  ASSUME \A a \in Attempts : buttons[a] => staged'[a] = staged[a],
         UNCHANGED <<approval, buttons, landing>>
  PROVE  UNCHANGED Gate!vars
<1>1. \A a \in Attempts : VerdictOf(a)' = VerdictOf(a)
  BY DEF VerdictOf
<1>2. UNCHANGED LandedKeys
  BY DEF LandedKeys
<1> QED BY <1>1, <1>2, SameFix DEF Gate!vars, FixOf, LandedKeys

LEMMA GateInit == Init => Gate!Init
<1> SUFFICES ASSUME Init PROVE Gate!Init
  OBVIOUS
<1>1. \A a \in Attempts : VerdictOf(a) = "absent" /\ ~buttons[a]
  BY VerdictFacts DEF Init
<1>2. LandedKeys = {}
  BY DEF Init, LandedKeys, Keys
<1> QED BY <1>1, <1>2 DEF Gate!Init, LandedKeys

\* Enqueue asks a human.
LEMMA EnqueueOpens == ASSUME IInv, NEW a \in Attempts, Enqueue(a)
                      PROVE  \E k \in Keys : Gate!Open(a, k)
<1>1. approval[a] = "none" /\ ~buttons[a] /\ index[a] = "none" /\ Key(a) \in Keys
  BY IncidentAssumption DEF IInv, TypeOK, AttemptInv, Enqueue, Key, Keys, Patches
<1>2. VerdictOf(a) = "absent" /\ VerdictOf(a)' = "open"
  BY <1>1, VerdictFacts, VerdictFactsNext DEF Enqueue, IInv, TypeOK
<1>3. \A b \in Attempts \ {a} : VerdictOf(b)' = VerdictOf(b)
  BY DEF VerdictOf, Enqueue, IInv, TypeOK
<1>4. FixOf(a)' = Key(a)
  BY DEF FixOf, Key, Enqueue, IInv, TypeOK
<1>5. \A b \in Attempts \ {a} : FixOf(b)' = FixOf(b)
  BY DEF FixOf, Key, Enqueue, IInv, TypeOK
<1>6. UNCHANGED LandedKeys
  BY DEF LandedKeys, Enqueue
<1>7. PICK k \in Keys : k = Key(a)
  BY <1>1
<1>8. Gate!Open(a, k)
  BY <1>2, <1>3, <1>4, <1>5, <1>6, <1>7 DEF Gate!Open, FixOf, LandedKeys
<1> QED BY <1>8

\* The first verdict on an open row decides.
LEMMA VerdictDecides ==
  ASSUME IInv, NEW a \in Attempts, NEW v \in {"APPROVED", "REJECTED"},
         approval[a] = "OPEN", approval' = [approval EXCEPT ![a] = v],
         UNCHANGED <<staged, buttons, landing>>
  PROVE  \E w \in {"approved", "rejected"} : Gate!Decide(a, w)
<1> DEFINE w == IF v = "APPROVED" THEN "approved" ELSE "rejected"
<1>1. VerdictOf(a) = "open" /\ VerdictOf(a)' = w
  BY VerdictFacts, VerdictFactsNext DEF IInv, TypeOK
<1>2. \A b \in Attempts \ {a} : VerdictOf(b)' = VerdictOf(b)
  BY DEF VerdictOf, IInv, TypeOK
<1>3. UNCHANGED LandedKeys
  BY DEF LandedKeys
<1>4. Gate!Decide(a, w)
  BY <1>1, <1>2, <1>3, SameFix DEF Gate!Decide, FixOf, LandedKeys
<1> QED BY <1>4

\* The first insert of a key lands it.
LEMMA InsertLands ==
  ASSUME IInv, NEW r \in Requests, Insert(r), landing' # landing
  PROVE  \E a \in Attempts : Gate!Land(a)
<1>0. PICK a \in Attempts : a = req[r].of
  BY DEF Insert, IInv, RequestInv, Waits, DbWaits
<1>1. approval[a] = "APPROVED" /\ buttons[a] /\ Key(a) \in Keys
  BY <1>0, IncidentAssumption
     DEF Insert, IInv, TypeOK, RequestInv, AttemptInv, Waits, DbWaits, Landing, Key, Keys, Patches
<1>2. landing[Key(a)] = None /\ landing' = [landing EXCEPT ![Key(a)] = r]
  BY <1>0 DEF Insert
<1>3. VerdictOf(a) = "approved" /\ FixOf(a) = Key(a)
  BY <1>1, VerdictFacts DEF FixOf
<1>4. LandedKeys' = LandedKeys \cup {Key(a)} /\ Key(a) \notin LandedKeys
  BY <1>1, <1>2, NoneFacts DEF LandedKeys, IInv, TypeOK
<1>5. UNCHANGED <<approval, staged, buttons>>
  BY DEF Insert, requestOnly, attemptVars
<1>6. \A b \in Attempts : VerdictOf(b)' = VerdictOf(b)
  BY <1>5 DEF VerdictOf
<1>7. Gate!Land(a)
  BY <1>1, <1>3, <1>4, <1>5, <1>6, SameFix DEF Gate!Land, FixOf, LandedKeys
<1> QED BY <1>7

\* A restart forgets every verdict and everything still waiting for one.
LEMMA RestartForgets == ASSUME IInv, Restart PROVE Gate!Forget
<1>1. \A a \in Attempts : VerdictOf(a)' = IF buttons[a] THEN "lost" ELSE "absent"
  BY VerdictFactsNext DEF Restart
<1>2. \A a \in Attempts : VerdictOf(a) = "absent" <=> ~buttons[a]
  BY VerdictFacts DEF IInv, TypeOK, AttemptInv
<1>3. UNCHANGED <<staged, buttons, LandedKeys>>
  BY DEF Restart, LandedKeys
<1> QED BY <1>1, <1>2, <1>3, SameFix DEF Gate!Forget, FixOf, LandedKeys

LEMMA GateStep == IInv /\ [Next]_vars => [Gate!Next]_(Gate!vars)
<1> SUFFICES ASSUME IInv, [Next]_vars PROVE [Gate!Next]_(Gate!vars)
  OBVIOUS
<1> USE DEF attemptVars, requestOnly
<1>1. ASSUME NEW a \in Attempts, AttemptStep(a) PROVE [Gate!Next]_(Gate!vars)
  <2>1. CASE Author(a)
    <3>1. \A b \in Attempts : buttons[b] => staged'[b] = staged[b]
      BY <2>1 DEF Author, IInv, TypeOK, AttemptInv
    <3> QED BY <2>1, <3>1, GateStutters DEF Author
  <2>2. CASE Enqueue(a)
    <3>1. PICK k \in Keys : Gate!Open(a, k)
      BY <2>2, EnqueueOpens
    <3> QED BY <3>1 DEF Gate!Next
  <2>3. CASE CheckAutonomy(a) \/ RunGate(a) \/ Publish(a) \/ Record(a) \/ AttemptFails(a)
    BY <2>3, GateStutters DEF CheckAutonomy, RunGate, Publish, Record, AttemptFails
  <2> QED BY <1>1, <2>1, <2>2, <2>3 DEF AttemptStep
<1>2. ASSUME NEW r \in Requests, RequestStep(r) \/ Fault(r) PROVE [Gate!Next]_(Gate!vars)
  <2>1. CASE Confirm(r)
    <3> DEFINE a == req[r].of
    <3>1. a \in Attempts
      BY <2>1 DEF Confirm, IInv, RequestInv, Waits, DbWaits
    <3>2. CASE approval[a] = "OPEN"
      <4>1. \E w \in {"approved", "rejected"} : Gate!Decide(a, w)
        BY <2>1, <3>1, <3>2, VerdictDecides DEF Confirm
      <4> QED BY <3>1, <4>1 DEF Gate!Next
    <3>3. CASE approval[a] # "OPEN"
      <4>1. approval' = approval
        BY <2>1, <3>1, <3>3 DEF Confirm, IInv, TypeOK
      <4> QED BY <2>1, <4>1, GateStutters DEF Confirm
    <3> QED BY <3>2, <3>3
  <2>2. CASE Reject(r)
    <3> DEFINE a == req[r].of
    <3>1. a \in Attempts
      BY <2>2 DEF Reject, IInv, RequestInv, Waits, DbWaits
    <3>2. CASE approval[a] = "OPEN"
      <4>1. \E w \in {"approved", "rejected"} : Gate!Decide(a, w)
        BY <2>2, <3>1, <3>2, VerdictDecides DEF Reject
      <4> QED BY <3>1, <4>1 DEF Gate!Next
    <3>3. CASE approval[a] # "OPEN"
      BY <2>2, <3>3, GateStutters DEF Reject
    <3> QED BY <3>2, <3>3
  <2>3. CASE Insert(r)
    <3>1. CASE landing' # landing
      <4>1. PICK a \in Attempts : Gate!Land(a)
        BY <2>3, <3>1, InsertLands
      <4> QED BY <4>1 DEF Gate!Next
    <3>2. CASE landing' = landing
      BY <2>3, <3>2, GateStutters DEF Insert
    <3> QED BY <3>1, <3>2
  <2>4. CASE KillCheck(r) \/ Find(r) \/ Reread(r) \/ SetStatus(r) \/ Fault(r)
    BY <2>4, GateStutters DEF KillCheck, Find, Reread, SetStatus, Fault
  <2> QED BY <1>2, <2>1, <2>2, <2>3, <2>4 DEF RequestStep
<1>3. ASSUME NEW a \in Attempts, NEW how \in {"merged", "edited", "closed"}, ResolvePr(a, how)
      PROVE  [Gate!Next]_(Gate!vars)
  BY <1>3, GateStutters DEF ResolvePr
<1>4. ASSUME NEW r \in Requests, NEW a \in Attempts,
             MergeWebhook(r, a) \/ \E kind \in {"approve", "reject"} : Tap(r, a, kind)
      PROVE  [Gate!Next]_(Gate!vars)
  BY <1>4, GateStutters DEF MergeWebhook, Tap
<1>5. CASE Freeze \/ Unfreeze
  BY <1>5, GateStutters DEF Freeze, Unfreeze
<1>6. CASE Restart
  BY <1>6, RestartForgets DEF Gate!Next
<1>7. CASE UNCHANGED vars
  BY <1>7, GateStutters DEF vars
<1> QED BY <1>1, <1>2, <1>3, <1>4, <1>5, <1>6, <1>7 DEF Next

\* Loop C keeps the promise of HumanGate: one verdict per proposal, never
\* changed; only an approved fix lands, and only once; a restart may forget
\* verdicts but never a landing.
THEOREM Implements == Spec => ImplementsHumanGate
BY Invariance, GateInit, GateStep, PTL DEF Spec, Gate!Spec, ImplementsHumanGate
=============================================================================
