-------------------------- MODULE RepairFlowProofs --------------------------
(***************************************************************************)
(* The safety of RepairFlow, proved for any number of attempts, requests,  *)
(* incidents, fixes and restarts.                                          *)
(*                                                                         *)
(* None of the properties is inductive.  IInv strengthens them with what   *)
(* each phase of an attempt and each await of a request already knows:     *)
(* AttemptInv along runRepair, RequestInv along confirmRepair, LedgerInv   *)
(* for the rows both write, RejectInv and FreezeInv for the two verdicts   *)
(* that must keep a fix out.                                               *)
(***************************************************************************)
EXTENDS RepairFlow, TLAPS

\* Landing is under way: past the verdict, not yet answered.
Landing == {"find", "insert", "reread"}

AttemptInv ==
  \A a \in Attempts :
    /\ phase[a] \in {"gating", "publishing", "published", "recording", "proposed"} =>
         staged[a] \in Patches /\ staged[a].defects = {}
    /\ phase[a] \in {"publishing", "published", "recording", "proposed"} => gatePassed[a]
    /\ index[a] # "none" => phase[a] = "proposed"
    /\ phase[a] \in {"recording", "proposed"} => buttons[a]
    /\ approval[a] # "none" => buttons[a]
    /\ buttons[a] => staged[a] \in Patches /\ phase[a] \in {"recording", "proposed", "failed"}
    /\ restarts = 0 /\ phase[a] \in {"recording", "proposed"} => approval[a] # "none"

RequestInv ==
  \A r \in Requests :
    /\ req[r].at = "unused" => req[r].out = None
    /\ req[r].at \in Waits \/ req[r].out \in {"created", "existing", "rejected"} =>
         req[r].of \in Attempts /\ index[req[r].of] # "none"
    /\ req[r].at \in Landing => approval[req[r].of] = "APPROVED"
    /\ req[r].at \in Landing \cup {"killcheck", "confirm"} => req[r].kind \in {"merge", "approve"}
    /\ req[r].at = "status" => req[r].out \in {"created", "existing", "rejected", "regate"}
    /\ req[r].out \in {"created", "existing"} => req[r].at \in {"status", "done"}
    /\ req[r].at = "reread" => landing[Key(req[r].of)] # None

\* Every row of the ledger is vouched for by the request that wrote it.
RowsInv ==
  \A k \in Keys : landing[k] # None =>
    LET q == req[landing[k]] IN
    /\ q.kind \in {"merge", "approve"} /\ q.at \in {"reread", "status", "done"}
    /\ q.of \in Attempts /\ index[q.of] # "none" /\ k = Key(q.of)
    /\ approval[q.of] \in {"APPROVED", "none"}

\* What a request was told of the ledger is so.
ToldInv ==
  \A r \in Requests :
    /\ req[r].out = "created" => landing[Key(req[r].of)] = r
    /\ req[r].out = "existing" => landing[Key(req[r].of)] # None

ConfirmedInv == \A a \in Attempts : index[a] = "confirmed" => landing[Key(a)] # None

LedgerInv == RowsInv /\ ToldInv /\ ConfirmedInv

\* A rejection reported is a rejection taken.
RejectionsInv ==
  /\ \A a \in Attempts : index[a] = "rejected" => approval[a] \in {"REJECTED", "none"}
  /\ \A r \in Requests : req[r].out = "rejected" => approval[req[r].of] \in {"REJECTED", "none"}

\* What has landed was not rejected.
UnrejectedInv ==
  \A k \in Keys : landing[k] # None =>
    LET a == req[landing[k]].of IN
    /\ approval[a] # "REJECTED"
    /\ index[a] # "rejected"
    /\ \A q \in Requests : req[q].of = a => req[q].out # "rejected"

RejectInv == RejectionsInv /\ UnrejectedInv

FreezeInv ==
  \A r \in shutOut : /\ killed
                     /\ req[r].at \in {"killcheck", "reject", "status", "done"}
                     /\ ~Landed(r)

IInv == TypeOK /\ AttemptInv /\ RequestInv /\ LedgerInv /\ RejectInv /\ FreezeInv

-----------------------------------------------------------------------------
(* Types                                                                   *)

\* Suspending or answering a request leaves its kind and its proposal alone.
LEMMA GotoType ==
  ASSUME TypeOK, NEW r \in Requests, NEW at \in Waits \cup {"done"},
         NEW out \in Outcomes \cup {None}, Goto(r, at, out)
  PROVE  /\ req' \in [Requests -> [at : Waits \cup {"unused", "done"}, kind : Kinds \cup {None},
                                   of : Attempts \cup {None}, out : Outcomes \cup {None}]]
         /\ req'[r] = [at |-> at, kind |-> req[r].kind, of |-> req[r].of, out |-> out]
         /\ \A q \in Requests \ {r} : req'[q] = req[q]
BY DEF TypeOK, Goto

LEMMA ArriveType ==
  ASSUME TypeOK, NEW r \in Requests, NEW a \in Attempts, NEW kind \in Kinds,
         NEW at \in Waits \cup {"done"}, NEW out \in Outcomes \cup {None},
         Arrive(r, a, kind, at, out)
  PROVE  /\ req' \in [Requests -> [at : Waits \cup {"unused", "done"}, kind : Kinds \cup {None},
                                   of : Attempts \cup {None}, out : Outcomes \cup {None}]]
         /\ req'[r] = [at |-> at, kind |-> kind, of |-> a, out |-> out]
         /\ \A q \in Requests \ {r} : req'[q] = req[q]
         /\ shutOut' \in SUBSET Requests
BY DEF TypeOK, Arrive

-----------------------------------------------------------------------------
(* What the actions of a request have in common                            *)

LEMMA NoneFacts == /\ None \notin Requests /\ None \notin Attempts /\ None \notin Patches
                   /\ None \notin {"untracked", "regate", "frozen", "missing", "refused",
                                   "fault", "created", "existing", "rejected"}
BY NoneAssumption DEF Outcomes

\* A webhook and a tap differ only in what they ask for.
Arrival(r, a, kind, at, out) ==
  /\ req[r].at = "unused"
  /\ \/ index[a] = "none" /\ at = "done" /\ out = "untracked"
     \/ index[a] # "none" /\ at = "status" /\ out = "regate"
     \/ index[a] # "none" /\ at = "killcheck" /\ out = None /\ kind \in {"merge", "approve"}
     \/ index[a] # "none" /\ at = "reject" /\ out = None
  /\ req' \in [Requests -> [at : Waits \cup {"unused", "done"}, kind : Kinds \cup {None},
                            of : Attempts \cup {None}, out : Outcomes \cup {None}]]
  /\ req'[r] = [at |-> at, kind |-> kind, of |-> a, out |-> out]
  /\ \A q \in Requests \ {r} : req'[q] = req[q]
  /\ shutOut' = IF killed THEN shutOut \cup {r} ELSE shutOut
  /\ UNCHANGED <<phase, staged, gatePassed, pr, approval, buttons, index, landing,
                 killed, restarts>>

LEMMA Arriving ==
  ASSUME TypeOK, NEW r \in Requests, NEW a \in Attempts,
         MergeWebhook(r, a) \/ \E kind \in {"approve", "reject"} : Tap(r, a, kind)
  PROVE  \E kind \in Kinds, at \in Waits \cup {"done"}, out \in Outcomes \cup {None} :
           Arrival(r, a, kind, at, out)
<1> USE DEF attemptVars
<1>1. CASE MergeWebhook(r, a)
  <2>1. PICK at \in Waits \cup {"done"}, out \in Outcomes \cup {None} :
          /\ Arrive(r, a, "merge", at, out)
          /\ \/ index[a] = "none" /\ at = "done" /\ out = "untracked"
             \/ index[a] # "none" /\ at = "status" /\ out = "regate"
             \/ index[a] # "none" /\ at = "killcheck" /\ out = None
    BY <1>1 DEF MergeWebhook, Waits, DbWaits, Outcomes
  <2>2. "merge" \in Kinds
    BY DEF Kinds
  <2>3. Arrival(r, a, "merge", at, out)
    BY <1>1, <2>1, <2>2, ArriveType DEF MergeWebhook, Arrival, Arrive
  <2> QED BY <2>2, <2>3
<1>2. ASSUME NEW kind \in {"approve", "reject"}, Tap(r, a, kind)
      PROVE  \E at \in Waits \cup {"done"}, out \in Outcomes \cup {None} :
               Arrival(r, a, kind, at, out)
  <2>1. PICK at \in Waits \cup {"done"}, out \in Outcomes \cup {None} :
          /\ Arrive(r, a, kind, at, out)
          /\ \/ index[a] = "none" /\ at = "done" /\ out = "untracked"
             \/ index[a] # "none" /\ at = "killcheck" /\ out = None /\ kind = "approve"
             \/ index[a] # "none" /\ at = "reject" /\ out = None
    <3>1. CASE index[a] = "none"
      BY <1>2, <3>1 DEF Tap, Outcomes
    <3>2. CASE index[a] # "none" /\ kind = "approve"
      BY <1>2, <3>2 DEF Tap, Waits, DbWaits
    <3>3. CASE index[a] # "none" /\ kind = "reject"
      BY <1>2, <3>3 DEF Tap, Waits
    <3> QED BY <3>1, <3>2, <3>3
  <2>2. kind \in Kinds
    BY DEF Kinds
  <2> QED BY <1>2, <2>1, <2>2, ArriveType DEF Tap, Arrival, Arrive
<1> QED BY <1>1, <1>2 DEF Kinds

LEMMA TypeInit == Init => TypeOK
<1> SUFFICES ASSUME Init PROVE TypeOK
  OBVIOUS
<1>1. req \in [Requests -> [at : Waits \cup {"unused", "done"}, kind : Kinds \cup {None},
                           of : Attempts \cup {None}, out : Outcomes \cup {None}]]
  BY DEF Init
<1>2. restarts \in 0..MaxRestarts
  BY RestartAssumption DEF Init
<1> QED BY <1>1, <1>2 DEF Init, TypeOK, Phases

\* What a request has to report when it reaches setStatus.
StatusKnown ==
  \A r \in Requests :
    req[r].at = "status" => req[r].out \in {"created", "existing", "rejected", "regate"}

LEMMA StatusOfType ==
  /\ StatusOf("created") = "confirmed" /\ StatusOf("existing") = "confirmed"
  /\ StatusOf("rejected") = "rejected" /\ StatusOf("regate") = "needs_regate"
BY DEF StatusOf

LEMMA ScreenedType ==
  ASSUME NEW d \in SUBSET Defects
  PROVE  /\ Screened(d) \in {"blocked_protected_path", "blocked_ungrounded_repro",
                             "escalated_failed_check", "gating"}
         /\ Screened(d) = "gating" => d = {}
BY DEF Screened, Defects

\* The types alone are not inductive: StatusOf has a value only for these.
LEMMA TypeStep == TypeOK /\ StatusKnown /\ [Next]_vars => TypeOK'
<1> SUFFICES ASSUME TypeOK, StatusKnown, [Next]_vars PROVE TypeOK'
  OBVIOUS
<1> USE DEF attemptVars, requestOnly
<1>1. ASSUME NEW a \in Attempts, AttemptStep(a) PROVE TypeOK'
  <2>1. CASE CheckAutonomy(a)
    BY <2>1 DEF TypeOK, CheckAutonomy, Phases, Running, Refused
  <2>2. CASE Author(a)
    BY <2>2, ScreenedType DEF TypeOK, Author, Patches, Phases, Running, Refused
  <2>3. CASE RunGate(a)
    BY <2>3 DEF TypeOK, RunGate, Phases, Running, Refused
  <2>4. CASE Publish(a)
    BY <2>4 DEF TypeOK, Publish, Phases, Running
  <2>5. CASE Enqueue(a)
    BY <2>5 DEF TypeOK, Enqueue, Phases, Running
  <2>6. CASE Record(a)
    BY <2>6 DEF TypeOK, Record, Phases, Running
  <2>7. CASE AttemptFails(a)
    BY <2>7 DEF TypeOK, AttemptFails, Phases, Refused
  <2> QED BY <1>1, <2>1, <2>2, <2>3, <2>4, <2>5, <2>6, <2>7 DEF AttemptStep
<1>2. ASSUME NEW a \in Attempts, NEW how \in {"merged", "edited", "closed"}, ResolvePr(a, how)
      PROVE  TypeOK'
  BY <1>2 DEF TypeOK, ResolvePr
<1>3. ASSUME NEW r \in Requests, NEW a \in Attempts,
             MergeWebhook(r, a) \/ \E kind \in {"approve", "reject"} : Tap(r, a, kind)
      PROVE  TypeOK'
  <2>1. PICK kind \in Kinds, at \in Waits \cup {"done"}, out \in Outcomes \cup {None} :
          Arrival(r, a, kind, at, out)
    BY <1>3, Arriving
  <2> QED BY <2>1 DEF Arrival, TypeOK
<1>5. ASSUME NEW r \in Requests, RequestStep(r) \/ Fault(r) PROVE TypeOK'
  <2> USE DEF Waits, DbWaits, Outcomes, Answer
  <2>1. CASE KillCheck(r)
    BY <2>1, GotoType DEF TypeOK, KillCheck
  <2>2. CASE Confirm(r)
    BY <2>2, GotoType DEF TypeOK, Confirm
  <2>3. CASE Find(r)
    BY <2>3, GotoType DEF TypeOK, Find
  <2>4. CASE Insert(r)
    BY <2>4, GotoType DEF TypeOK, Insert
  <2>5. CASE Reread(r)
    BY <2>5, GotoType DEF TypeOK, Reread
  <2>6. CASE Reject(r)
    BY <2>6, GotoType DEF TypeOK, Reject
  <2>7. CASE SetStatus(r)
    BY <2>7, GotoType, StatusOfType DEF TypeOK, StatusKnown, SetStatus
  <2>8. CASE Fault(r)
    BY <2>8, GotoType DEF TypeOK, Fault
  <2> QED BY <1>5, <2>1, <2>2, <2>3, <2>4, <2>5, <2>6, <2>7, <2>8 DEF RequestStep
<1>6. CASE Freeze
  BY <1>6 DEF TypeOK, Freeze
<1>7. CASE Unfreeze
  BY <1>7 DEF TypeOK, Unfreeze
<1>8. CASE Restart
  BY <1>8, RestartAssumption DEF TypeOK, Restart, Phases, Refused, Outcomes
<1>9. CASE UNCHANGED vars
  BY <1>9 DEF TypeOK, vars
<1> QED BY <1>1, <1>2, <1>3, <1>5, <1>6, <1>7, <1>8, <1>9 DEF Next

\* What every step of a request leaves alone, field by field.
Framed(r) ==
  /\ \A q \in Requests : req'[q].of = req[q].of /\ req'[q].kind = req[q].kind
  /\ \A q \in Requests \ {r} : req'[q].at = req[q].at /\ req'[q].out = req[q].out
  /\ UNCHANGED <<phase, staged, gatePassed, pr, buttons, killed, restarts, shutOut>>

LEMMA Frame ==
  ASSUME TypeOK, NEW r \in Requests, RequestStep(r) \/ Fault(r)
  PROVE  Framed(r)
<1>1. PICK at, out : Goto(r, at, out)
  BY DEF RequestStep, KillCheck, Confirm, Find, Insert, Reread, Reject, SetStatus, Fault,
         Answer, Waits, DbWaits
<1>2. UNCHANGED <<phase, staged, gatePassed, pr, buttons, killed, restarts, shutOut>>
  BY DEF RequestStep, KillCheck, Confirm, Find, Insert, Reread, Reject, SetStatus, Fault,
         requestOnly, attemptVars
<1> QED BY <1>1, <1>2 DEF Goto, TypeOK, Framed

-----------------------------------------------------------------------------
(* The invariant                                                           *)

\* What each phase of an attempt knows.
LEMMA AttemptInvStep == IInv /\ TypeOK' /\ [Next]_vars => AttemptInv'
<1> SUFFICES ASSUME IInv, TypeOK', [Next]_vars PROVE AttemptInv'
  OBVIOUS
<1> USE DEF IInv, TypeOK, AttemptInv, RequestInv, Waits, DbWaits, Outcomes, attemptVars, requestOnly
<1>1. ASSUME NEW a \in Attempts, AttemptStep(a) PROVE AttemptInv'
  <2>1. CASE CheckAutonomy(a)
    BY <2>1 DEF CheckAutonomy
  <2>2. CASE Author(a)
    BY <2>2, ScreenedType DEF Author, Patches
  <2>3. CASE RunGate(a)
    BY <2>3 DEF RunGate
  <2>4. CASE Publish(a)
    BY <2>4 DEF Publish
  <2>5. CASE Enqueue(a)
    BY <2>5 DEF Enqueue
  <2>6. CASE Record(a)
    BY <2>6 DEF Record
  <2>7. CASE AttemptFails(a)
    BY <2>7 DEF AttemptFails, Running
  <2> QED BY <1>1, <2>1, <2>2, <2>3, <2>4, <2>5, <2>6, <2>7 DEF AttemptStep
<1>2. ASSUME NEW a \in Attempts, NEW how \in {"merged", "edited", "closed"}, ResolvePr(a, how)
      PROVE  AttemptInv'
  BY <1>2 DEF ResolvePr
<1>3. ASSUME NEW r \in Requests, NEW a \in Attempts,
             MergeWebhook(r, a) \/ \E kind \in {"approve", "reject"} : Tap(r, a, kind)
      PROVE  AttemptInv'
  <2>1. PICK kind \in Kinds, at \in Waits \cup {"done"}, out \in Outcomes \cup {None} :
          Arrival(r, a, kind, at, out)
    BY <1>3, Arriving DEF IInv
  <2> QED BY <2>1, NoneFacts DEF Arrival
<1>5. ASSUME NEW r \in Requests, RequestStep(r) \/ Fault(r) PROVE AttemptInv'
  <2>1. CASE KillCheck(r)
    BY <2>1, NoneFacts DEF KillCheck, Answer, Goto
  <2>2. CASE Confirm(r)
    BY <2>2, NoneFacts DEF Confirm, Answer, Goto
  <2>3. CASE Find(r)
    BY <2>3, NoneFacts DEF Find, Answer, Goto
  <2>4. CASE Insert(r)
    BY <2>4, NoneFacts DEF Insert, Answer, Goto
  <2>5. CASE Reread(r)
    BY <2>5, NoneFacts DEF Reread, Answer, Goto
  <2>6. CASE Reject(r)
    BY <2>6, NoneFacts DEF Reject, Answer, Goto
  <2>7. CASE SetStatus(r)
    BY <2>7, StatusOfType, NoneFacts DEF SetStatus, Answer, Goto
  <2>8. CASE Fault(r)
    BY <2>8, NoneFacts DEF Fault, Answer, Goto
  <2> QED BY <1>5, <2>1, <2>2, <2>3, <2>4, <2>5, <2>6, <2>7, <2>8 DEF RequestStep
<1>6. CASE Freeze
  BY <1>6 DEF Freeze
<1>7. CASE Unfreeze
  BY <1>7 DEF Unfreeze
<1>8. CASE Restart
  BY <1>8, NoneFacts DEF Restart, Running
<1>9. CASE UNCHANGED vars
  BY <1>9 DEF vars
<1> QED BY <1>1, <1>2, <1>3, <1>5, <1>6, <1>7, <1>8, <1>9 DEF Next

\* What each await of a request knows.
LEMMA RequestInvStep == IInv /\ TypeOK' /\ [Next]_vars => RequestInv'
<1> SUFFICES ASSUME IInv, TypeOK', [Next]_vars PROVE RequestInv'
  OBVIOUS
<1> USE DEF IInv, TypeOK, AttemptInv, RequestInv, Waits, DbWaits, Landing, Key,
           attemptVars, requestOnly
<1>1. ASSUME NEW a \in Attempts, AttemptStep(a) PROVE RequestInv'
  <2>1. CASE CheckAutonomy(a)
    BY <2>1 DEF CheckAutonomy
  <2>2. CASE Author(a)
    <3>1. \A b \in Attempts : index[b] # "none" => staged'[b] = staged[b]
      BY <2>2 DEF Author
    <3>2. UNCHANGED <<approval, index, landing, req>>
      BY <2>2 DEF Author
    <3> HIDE DEF TypeOK
    <3> QED BY <3>1, <3>2
  <2>3. CASE RunGate(a)
    BY <2>3 DEF RunGate
  <2>4. CASE Publish(a)
    BY <2>4 DEF Publish
  <2>5. CASE Enqueue(a)
    BY <2>5 DEF Enqueue
  <2>6. CASE Record(a)
    BY <2>6 DEF Record
  <2>7. CASE AttemptFails(a)
    BY <2>7 DEF AttemptFails, Running
  <2> QED BY <1>1, <2>1, <2>2, <2>3, <2>4, <2>5, <2>6, <2>7 DEF AttemptStep
<1>2. ASSUME NEW a \in Attempts, NEW how \in {"merged", "edited", "closed"}, ResolvePr(a, how)
      PROVE  RequestInv'
  BY <1>2 DEF ResolvePr
<1>3. ASSUME NEW r \in Requests, NEW a \in Attempts,
             MergeWebhook(r, a) \/ \E kind \in {"approve", "reject"} : Tap(r, a, kind)
      PROVE  RequestInv'
  <2>1. PICK kind \in Kinds, at \in Waits \cup {"done"}, out \in Outcomes \cup {None} :
          Arrival(r, a, kind, at, out)
    BY <1>3, Arriving DEF IInv
  <2> QED BY <2>1, NoneFacts DEF Arrival
<1>5. ASSUME NEW r \in Requests, RequestStep(r) \/ Fault(r) PROVE RequestInv'
  <2>1. CASE KillCheck(r)
    BY <2>1, NoneFacts DEF KillCheck, Answer, Goto
  <2>2. CASE Confirm(r)
    BY <2>2, NoneFacts DEF Confirm, Answer, Goto
  <2>3. CASE Find(r)
    BY <2>3, NoneFacts DEF Find, Answer, Goto
  <2>4. CASE Insert(r)
    BY <2>4, NoneFacts DEF Insert, Answer, Goto
  <2>5. CASE Reread(r)
    BY <2>5, NoneFacts DEF Reread, Answer, Goto
  <2>6. CASE Reject(r)
    BY <2>6, NoneFacts DEF Reject, Answer, Goto
  <2>7. CASE SetStatus(r)
    BY <2>7, StatusOfType, NoneFacts DEF SetStatus, Answer, Goto
  <2>8. CASE Fault(r)
    BY <2>8, NoneFacts DEF Fault, Answer, Goto
  <2> QED BY <1>5, <2>1, <2>2, <2>3, <2>4, <2>5, <2>6, <2>7, <2>8 DEF RequestStep
<1>6. CASE Freeze
  BY <1>6 DEF Freeze
<1>7. CASE Unfreeze
  BY <1>7 DEF Unfreeze
<1>8. CASE Restart
  BY <1>8, NoneFacts DEF Restart, Running
<1>9. CASE UNCHANGED vars
  BY <1>9 DEF vars
<1> QED BY <1>1, <1>2, <1>3, <1>5, <1>6, <1>7, <1>8, <1>9 DEF Next

\* What the ledger and the index say of each other.
LEMMA LedgerInvStep == IInv /\ TypeOK' /\ [Next]_vars => LedgerInv'
<1> SUFFICES ASSUME IInv, TypeOK', [Next]_vars PROVE LedgerInv'
  OBVIOUS
<1> USE DEF IInv, TypeOK, RequestInv, LedgerInv, RowsInv, ToldInv, ConfirmedInv,
           Waits, DbWaits, Landing, Key, attemptVars, requestOnly
<1>1. ASSUME NEW a \in Attempts, AttemptStep(a) PROVE LedgerInv'
  <2>1. CASE CheckAutonomy(a)
    BY <2>1 DEF CheckAutonomy
  <2>2. CASE Author(a)
    <3>0. \A b \in Attempts : index[b] # "none" => staged'[b] = staged[b]
      BY <2>2 DEF Author, AttemptInv
    <3>1. UNCHANGED <<approval, index, landing, req>>
      BY <2>2 DEF Author
    <3> HIDE DEF TypeOK
    <3>2. RowsInv'
      BY <3>0, <3>1
    <3>3. ToldInv'
      BY <3>0, <3>1
    <3>4. ConfirmedInv'
      BY <3>0, <3>1
    <3> QED BY <3>2, <3>3, <3>4
  <2>3. CASE RunGate(a)
    BY <2>3 DEF RunGate
  <2>4. CASE Publish(a)
    BY <2>4 DEF Publish
  <2>5. CASE Enqueue(a)
    BY <2>5 DEF Enqueue, AttemptInv
  <2>6. CASE Record(a)
    BY <2>6 DEF Record
  <2>7. CASE AttemptFails(a)
    BY <2>7 DEF AttemptFails, Running
  <2> QED BY <1>1, <2>1, <2>2, <2>3, <2>4, <2>5, <2>6, <2>7 DEF AttemptStep
<1>2. ASSUME NEW a \in Attempts, NEW how \in {"merged", "edited", "closed"}, ResolvePr(a, how)
      PROVE  LedgerInv'
  BY <1>2 DEF ResolvePr
<1>3. ASSUME NEW r \in Requests, NEW a \in Attempts,
             MergeWebhook(r, a) \/ \E kind \in {"approve", "reject"} : Tap(r, a, kind)
      PROVE  LedgerInv'
  <2>1. PICK kind \in Kinds, at \in Waits \cup {"done"}, out \in Outcomes \cup {None} :
          Arrival(r, a, kind, at, out)
    BY <1>3, Arriving DEF IInv
  <2>2. RowsInv'
    BY <2>1, NoneFacts DEF Arrival
  <2>3. ToldInv'
    BY <2>1, NoneFacts DEF Arrival
  <2>4. ConfirmedInv'
    BY <2>1, NoneFacts DEF Arrival
  <2> QED BY <2>2, <2>3, <2>4
<1>5. ASSUME NEW r \in Requests, RequestStep(r) \/ Fault(r) PROVE LedgerInv'
  <2>0. Framed(r)
    BY <1>5, Frame
  <2>1. CASE KillCheck(r)
    <3>1. RowsInv'
      BY <2>1, NoneFacts DEF KillCheck, Answer, Goto
    <3>2. ToldInv'
      BY <2>1, NoneFacts DEF KillCheck, Answer, Goto
    <3>3. ConfirmedInv'
      BY <2>1, NoneFacts DEF KillCheck, Answer, Goto
    <3> QED BY <3>1, <3>2, <3>3
  <2>2. CASE Confirm(r)
    <3>1. RowsInv'
      BY <2>2, NoneFacts DEF Confirm, Answer, Goto
    <3>2. ToldInv'
      BY <2>2, NoneFacts DEF Confirm, Answer, Goto
    <3>3. ConfirmedInv'
      BY <2>2, NoneFacts DEF Confirm, Answer, Goto
    <3> QED BY <3>1, <3>2, <3>3
  <2>3. CASE Find(r)
    <3>1. RowsInv'
      BY <2>3, NoneFacts DEF Find, Answer, Goto
    <3>2. ToldInv'
      <4>1. Key(req[r].of) = <<IncidentOf[req'[r].of], staged'[req'[r].of].fix>>
        BY <2>0 DEF Framed
      <4>2. req'[r].out = "created" => landing[Key(req[r].of)] = r
        BY <2>3, NoneFacts DEF Find, Answer, Goto
      <4>3. req'[r].out = "existing" => landing[Key(req[r].of)] # None
        BY <2>3, NoneFacts DEF Find, Answer, Goto
      <4>4. landing' = landing
        BY <2>3 DEF Find
      <4> HIDE DEF TypeOK
      <4> QED BY <4>1, <4>2, <4>3, <4>4, <2>0 DEF Framed
    <3>3. ConfirmedInv'
      BY <2>3, NoneFacts DEF Find, Answer, Goto
    <3> QED BY <3>1, <3>2, <3>3
  <2>4. CASE Insert(r)
    <3>1. RowsInv'
      <4>1. /\ req[r].of \in Attempts /\ index[req[r].of] # "none"
            /\ req[r].kind \in {"merge", "approve"} /\ approval[req[r].of] = "APPROVED"
            /\ req'[r].at = "reread" /\ UNCHANGED <<approval, index>>
        BY <2>4 DEF Insert, Goto
      <4>2. \A k \in Keys : landing'[k] # landing[k] => k = Key(req[r].of) /\ landing'[k] = r
        BY <2>4 DEF Insert
      <4>3. \A k \in Keys : landing[k] = r => req[r].at \in {"reread", "status", "done"}
        BY NoneFacts
      <4>4. \A k \in Keys : landing[k] # None => landing[k] \in Requests
        BY NoneFacts
      <4> SUFFICES ASSUME NEW k \in Keys, landing'[k] # None
                   PROVE  LET q == req'[landing'[k]] IN
                          /\ q.kind \in {"merge", "approve"} /\ q.at \in {"reread", "status", "done"}
                          /\ q.of \in Attempts /\ index'[q.of] # "none"
                          /\ k = <<IncidentOf[q.of], staged'[q.of].fix>>
                          /\ approval'[q.of] \in {"APPROVED", "none"}
        BY DEF RowsInv
      <4>5. CASE landing'[k] # landing[k]
        BY <4>1, <4>2, <4>5, <2>0 DEF Framed
      <4>6. CASE landing'[k] = landing[k]
        BY <4>1, <4>3, <4>4, <4>6, <2>0 DEF Framed
      <4> QED BY <4>5, <4>6
    <3>2. ToldInv'
      BY <2>4, NoneFacts DEF Insert, Answer, Goto
    <3>3. ConfirmedInv'
      BY <2>4, NoneFacts DEF Insert, Answer, Goto
    <3> QED BY <3>1, <3>2, <3>3
  <2>5. CASE Reread(r)
    <3>1. RowsInv'
      BY <2>5, NoneFacts DEF Reread, Answer, Goto
    <3>2. ToldInv'
      <4>1. Key(req[r].of) = <<IncidentOf[req'[r].of], staged'[req'[r].of].fix>>
        BY <2>0 DEF Framed
      <4>2. req'[r].out = "created" => landing[Key(req[r].of)] = r
        BY <2>5, NoneFacts DEF Reread, Answer, Goto
      <4>3. req'[r].out = "existing" => landing[Key(req[r].of)] # None
        BY <2>5, NoneFacts DEF Reread, Answer, Goto
      <4>4. landing' = landing
        BY <2>5 DEF Reread
      <4> HIDE DEF TypeOK
      <4> QED BY <4>1, <4>2, <4>3, <4>4, <2>0 DEF Framed
    <3>3. ConfirmedInv'
      BY <2>5, NoneFacts DEF Reread, Answer, Goto
    <3> QED BY <3>1, <3>2, <3>3
  <2>6. CASE Reject(r)
    <3>1. RowsInv'
      BY <2>0, <2>6, NoneFacts DEF Reject, Answer, Goto, Framed
    <3>2. ToldInv'
      BY <2>0, <2>6, NoneFacts DEF Reject, Answer, Goto, Framed
    <3>3. ConfirmedInv'
      BY <2>0, <2>6, NoneFacts DEF Reject, Answer, Goto, Framed
    <3> QED BY <3>1, <3>2, <3>3
  <2>7. CASE SetStatus(r)
    <3>1. RowsInv'
      BY <2>0, <2>7, StatusOfType, NoneFacts DEF SetStatus, Answer, Goto, Framed
    <3>2. ToldInv'
      BY <2>0, <2>7, StatusOfType, NoneFacts DEF SetStatus, Answer, Goto, Framed
    <3>3. ConfirmedInv'
      BY <2>0, <2>7, StatusOfType, NoneFacts DEF SetStatus, Answer, Goto, Framed
    <3> QED BY <3>1, <3>2, <3>3
  <2>8. CASE Fault(r)
    BY <2>8, NoneFacts DEF Fault, Answer, Goto
  <2> QED BY <1>5, <2>1, <2>2, <2>3, <2>4, <2>5, <2>6, <2>7, <2>8 DEF RequestStep
<1>6. CASE Freeze
  BY <1>6 DEF Freeze
<1>7. CASE Unfreeze
  BY <1>7 DEF Unfreeze
<1>8. CASE Restart
  BY <1>8, NoneFacts DEF Restart, Running
<1>9. CASE UNCHANGED vars
  BY <1>9 DEF vars
<1> QED BY <1>1, <1>2, <1>3, <1>5, <1>6, <1>7, <1>8, <1>9 DEF Next

\* What a rejection excludes.
LEMMA RejectInvStep == IInv /\ TypeOK' /\ [Next]_vars => RejectInv'
<1> SUFFICES ASSUME IInv, TypeOK', [Next]_vars PROVE RejectInv'
  OBVIOUS
<1> USE DEF IInv, TypeOK, RequestInv, LedgerInv, RowsInv, RejectInv, RejectionsInv, UnrejectedInv,
           Waits, DbWaits, Landing, attemptVars, requestOnly
<1>1. ASSUME NEW a \in Attempts, AttemptStep(a) PROVE RejectInv'
  <2>1. CASE CheckAutonomy(a)
    BY <2>1 DEF CheckAutonomy
  <2>2. CASE Author(a)
    BY <2>2, ScreenedType DEF Author, Patches
  <2>3. CASE RunGate(a)
    BY <2>3 DEF RunGate
  <2>4. CASE Publish(a)
    BY <2>4 DEF Publish
  <2>5. CASE Enqueue(a)
    <3>1. RejectionsInv'
      BY <2>5 DEF Enqueue, AttemptInv
    <3>2. UnrejectedInv'
      BY <2>5 DEF Enqueue, AttemptInv
    <3> QED BY <3>1, <3>2
  <2>6. CASE Record(a)
    BY <2>6 DEF Record, AttemptInv
  <2>7. CASE AttemptFails(a)
    BY <2>7 DEF AttemptFails, Running
  <2> QED BY <1>1, <2>1, <2>2, <2>3, <2>4, <2>5, <2>6, <2>7 DEF AttemptStep
<1>2. ASSUME NEW a \in Attempts, NEW how \in {"merged", "edited", "closed"}, ResolvePr(a, how)
      PROVE  RejectInv'
  BY <1>2 DEF ResolvePr
<1>3. ASSUME NEW r \in Requests, NEW a \in Attempts,
             MergeWebhook(r, a) \/ \E kind \in {"approve", "reject"} : Tap(r, a, kind)
      PROVE  RejectInv'
  <2>1. PICK kind \in Kinds, at \in Waits \cup {"done"}, out \in Outcomes \cup {None} :
          Arrival(r, a, kind, at, out)
    BY <1>3, Arriving DEF IInv
  <2>2. RejectionsInv'
    BY <2>1, NoneFacts DEF Arrival
  <2>3. UnrejectedInv'
    BY <2>1, NoneFacts DEF Arrival
  <2> QED BY <2>2, <2>3
<1>5. ASSUME NEW r \in Requests, RequestStep(r) \/ Fault(r) PROVE RejectInv'
  <2>0. Framed(r)
    BY <1>5, Frame
  <2>1. CASE KillCheck(r)
    <3>1. RejectionsInv'
      BY <2>1, NoneFacts DEF KillCheck, Answer, Goto
    <3>2. UnrejectedInv'
      BY <2>1, NoneFacts DEF KillCheck, Answer, Goto
    <3> QED BY <3>1, <3>2
  <2>2. CASE Confirm(r)
    <3>1. RejectionsInv'
      <4>1. \A a \in Attempts : approval[a] \in {"REJECTED", "none"} => approval'[a] = approval[a]
        BY <2>2 DEF Confirm
      <4>2. req'[r].out # "rejected" /\ index' = index
        BY <2>2, NoneFacts DEF Confirm, Answer, Goto
      <4>3. \A q \in Requests : req[q].out = "rejected" => req[q].of \in Attempts
        OBVIOUS
      <4> HIDE DEF TypeOK
      <4> QED BY <2>0, <4>1, <4>2, <4>3 DEF Framed
    <3>2. UnrejectedInv'
      BY <2>0, <2>2, NoneFacts DEF Confirm, Answer, Goto, Framed
    <3> QED BY <3>1, <3>2
  <2>3. CASE Find(r)
    <3>1. RejectionsInv'
      BY <2>0, <2>3, NoneFacts DEF Find, Answer, Goto, Framed
    <3>2. UnrejectedInv'
      BY <2>0, <2>3, NoneFacts DEF Find, Answer, Goto, Framed
    <3> QED BY <3>1, <3>2
  <2>4. CASE Insert(r)
    BY <2>4, NoneFacts DEF Insert, Answer, Goto
  <2>5. CASE Reread(r)
    BY <2>5, NoneFacts DEF Reread, Answer, Goto
  <2>6. CASE Reject(r)
    <3>1. RejectionsInv'
      BY <2>0, <2>6, NoneFacts DEF Reject, Answer, Goto, Framed
    <3>2. UnrejectedInv'
      BY <2>0, <2>6, NoneFacts DEF Reject, Answer, Goto, Framed
    <3> QED BY <3>1, <3>2
  <2>7. CASE SetStatus(r)
    <3>1. RejectionsInv'
      BY <2>7, StatusOfType, NoneFacts DEF SetStatus, Answer, Goto
    <3>2. UnrejectedInv'
      BY <2>7, StatusOfType, NoneFacts DEF SetStatus, Answer, Goto
    <3> QED BY <3>1, <3>2
  <2>8. CASE Fault(r)
    BY <2>8, NoneFacts DEF Fault, Answer, Goto
  <2> QED BY <1>5, <2>1, <2>2, <2>3, <2>4, <2>5, <2>6, <2>7, <2>8 DEF RequestStep
<1>6. CASE Freeze
  BY <1>6 DEF Freeze
<1>7. CASE Unfreeze
  BY <1>7 DEF Unfreeze
<1>8. CASE Restart
  <2>1. RejectionsInv'
    BY <1>8, NoneFacts DEF Restart, Running
  <2>2. UnrejectedInv'
    BY <1>8, NoneFacts DEF Restart, Running
  <2> QED BY <2>1, <2>2
<1>9. CASE UNCHANGED vars
  BY <1>9 DEF vars
<1> QED BY <1>1, <1>2, <1>3, <1>5, <1>6, <1>7, <1>8, <1>9 DEF Next

\* What a freeze keeps out.
LEMMA FreezeInvStep == IInv /\ TypeOK' /\ [Next]_vars => FreezeInv'
<1> SUFFICES ASSUME IInv, TypeOK', [Next]_vars PROVE FreezeInv'
  OBVIOUS
<1> USE DEF IInv, TypeOK, RequestInv, LedgerInv, RowsInv, FreezeInv, Landed, Waits, DbWaits, Landing, Key, Keys, Outcomes, attemptVars, requestOnly
<1>1. ASSUME NEW a \in Attempts, AttemptStep(a) PROVE FreezeInv'
  <2>1. CASE CheckAutonomy(a)
    BY <2>1 DEF CheckAutonomy
  <2>2. CASE Author(a)
    BY <2>2, ScreenedType DEF Author, Patches
  <2>3. CASE RunGate(a)
    BY <2>3 DEF RunGate
  <2>4. CASE Publish(a)
    BY <2>4 DEF Publish
  <2>5. CASE Enqueue(a)
    BY <2>5 DEF Enqueue
  <2>6. CASE Record(a)
    BY <2>6 DEF Record
  <2>7. CASE AttemptFails(a)
    BY <2>7 DEF AttemptFails, Running
  <2> QED BY <1>1, <2>1, <2>2, <2>3, <2>4, <2>5, <2>6, <2>7 DEF AttemptStep
<1>2. ASSUME NEW a \in Attempts, NEW how \in {"merged", "edited", "closed"}, ResolvePr(a, how)
      PROVE  FreezeInv'
  BY <1>2 DEF ResolvePr
<1>3. ASSUME NEW r \in Requests, NEW a \in Attempts,
             MergeWebhook(r, a) \/ \E kind \in {"approve", "reject"} : Tap(r, a, kind)
      PROVE  FreezeInv'
  <2>1. PICK kind \in Kinds, at \in Waits \cup {"done"}, out \in Outcomes \cup {None} :
          Arrival(r, a, kind, at, out)
    BY <1>3, Arriving DEF IInv
  <2> QED BY <2>1, NoneFacts DEF Arrival
<1>5. ASSUME NEW r \in Requests, RequestStep(r) \/ Fault(r) PROVE FreezeInv'
  <2>1. CASE KillCheck(r)
    BY <2>1, NoneFacts DEF KillCheck, Answer, Goto
  <2>2. CASE Confirm(r)
    BY <2>2, NoneFacts DEF Confirm, Answer, Goto
  <2>3. CASE Find(r)
    BY <2>3, NoneFacts DEF Find, Answer, Goto
  <2>4. CASE Insert(r)
    BY <2>4, NoneFacts DEF Insert, Answer, Goto
  <2>5. CASE Reread(r)
    BY <2>5, NoneFacts DEF Reread, Answer, Goto
  <2>6. CASE Reject(r)
    BY <2>6, NoneFacts DEF Reject, Answer, Goto
  <2>7. CASE SetStatus(r)
    BY <2>7, StatusOfType, NoneFacts DEF SetStatus, Answer, Goto
  <2>8. CASE Fault(r)
    BY <2>8, NoneFacts DEF Fault, Answer, Goto
  <2> QED BY <1>5, <2>1, <2>2, <2>3, <2>4, <2>5, <2>6, <2>7, <2>8 DEF RequestStep
<1>6. CASE Freeze
  BY <1>6 DEF Freeze
<1>7. CASE Unfreeze
  BY <1>7 DEF Unfreeze
<1>8. CASE Restart
  BY <1>8, NoneFacts DEF Restart, Running
<1>9. CASE UNCHANGED vars
  BY <1>9 DEF vars
<1> QED BY <1>1, <1>2, <1>3, <1>5, <1>6, <1>7, <1>8, <1>9 DEF Next

-----------------------------------------------------------------------------
(* The theorems                                                            *)

\* Before the first step there is nothing to strengthen.
LEMMA InvInit == Init => IInv
<1> SUFFICES ASSUME Init PROVE IInv
  OBVIOUS
<1>1. TypeOK
  BY TypeInit
<1>2. AttemptInv
  BY DEF Init, AttemptInv
<1>3. RequestInv
  BY NoneFacts DEF Init, RequestInv, Waits, DbWaits, Landing
<1>4. LedgerInv
  BY NoneFacts DEF Init, LedgerInv, RowsInv, ToldInv, ConfirmedInv, Keys
<1>5. RejectInv
  BY NoneFacts DEF Init, RejectInv, RejectionsInv, UnrejectedInv
<1>6. FreezeInv
  BY DEF Init, FreezeInv
<1> QED BY <1>1, <1>2, <1>3, <1>4, <1>5, <1>6 DEF IInv

LEMMA InvStep == IInv /\ [Next]_vars => IInv'
<1> SUFFICES ASSUME IInv, [Next]_vars PROVE IInv'
  OBVIOUS
<1>1. TypeOK'
  BY TypeStep DEF IInv, RequestInv, StatusKnown
<1> QED BY <1>1, AttemptInvStep, RequestInvStep, LedgerInvStep, RejectInvStep, FreezeInvStep DEF IInv

\* The strengthened invariant of every behaviour.
THEOREM Invariance == Spec => []IInv
BY InvInit, InvStep, PTL DEF Spec

\* Every variable keeps its type: in particular the index only ever holds a
\* status repairindex.ts names, because setStatus is only reached with an
\* outcome that has one.
THEOREM TypeCorrect == Spec => []TypeOK
<1>1. IInv => TypeOK
  BY DEF IInv
<1> QED BY <1>1, Invariance, PTL

\* A row of the ledger is vouched for, whatever the order of taps, merges,
\* faults and restarts (runRepair's guards and confirmRepair).
THEOREM Vouched == Spec => []LandingIsVouched
<1>1. IInv => LandingIsVouched
  <2> SUFFICES ASSUME IInv, NEW k \in Keys, landing[k] # None
               PROVE  LET a == req[landing[k]].of IN
                      /\ req[landing[k]].kind \in {"merge", "approve"}
                      /\ a \in Attempts /\ staged[a] # None /\ k = Key(a)
                      /\ staged[a].defects = {} /\ gatePassed[a]
                      /\ index[a] # "none"
    BY DEF LandingIsVouched
  <2> QED BY NoneFacts DEF IInv, AttemptInv, LedgerInv, RowsInv
<1> QED BY <1>1, Invariance, PTL

\* At most one request per (incident, fix) believes it created the landing,
\* and it is the one in the ledger (confirmRepair's re-read).
THEOREM Creator == Spec => []OneCreator
<1>1. IInv => OneCreator
  BY DEF IInv, LedgerInv, ToldInv, OneCreator
<1> QED BY <1>1, Invariance, PTL

\* A rejected proposal has landed nothing and never will (the compare-and-set
\* of ApprovalQueue).
THEOREM NoRejectedLanding == Spec => []RejectedNeverLands
<1>1. IInv => RejectedNeverLands
  <2> SUFFICES ASSUME IInv, NEW a \in Attempts, approval[a] = "REJECTED",
                      NEW r \in Requests, req[r].of = a, NEW k \in Keys, landing[k] = r
               PROVE  FALSE
    BY DEF RejectedNeverLands, RequestsOf, Landed
  <2> QED BY NoneFacts DEF IInv, RejectInv, UnrejectedInv
<1> QED BY <1>1, Invariance, PTL

\* A request that saw nothing but a freeze has landed nothing (the kill checks).
THEOREM ShutOut == Spec => []FreezeShutsOut
<1>1. IInv => FreezeShutsOut
  BY DEF IInv, FreezeInv, FreezeShutsOut
<1> QED BY <1>1, Invariance, PTL

\* What is in the index can be decided while its process lives.
THEOREM Decidable == Spec => []TrackedIsDecidable
<1>1. IInv => TrackedIsDecidable
  BY DEF IInv, AttemptInv, TrackedIsDecidable
<1> QED BY <1>1, Invariance, PTL

\* The index is never ahead of the ledger, nor against it.
THEOREM Agreement == Spec => []IndexAgreesWithLedger
<1>1. IInv => IndexAgreesWithLedger
  <2> SUFFICES ASSUME IInv, NEW a \in Attempts, index[a] = "rejected",
                      NEW r \in Requests, req[r].of = a, NEW k \in Keys, landing[k] = r
               PROVE  FALSE
    BY DEF IndexAgreesWithLedger, RequestsOf, Landed, IInv, LedgerInv, ConfirmedInv
  <2> QED BY NoneFacts DEF IInv, RejectInv, UnrejectedInv
<1> QED BY <1>1, Invariance, PTL

\* No step replaces or removes a landing (ON CONFLICT DO NOTHING).
THEOREM Immutable == Spec => LandingIsImmutable
<1>1. IInv /\ [Next]_vars => [\A k \in Keys : landing[k] # None => landing'[k] = landing[k]]_vars
  <2> SUFFICES ASSUME IInv, Next, NEW k \in Keys, landing[k] # None
               PROVE  landing'[k] = landing[k]
    OBVIOUS
  <2> USE DEF attemptVars, requestOnly
  <2>1. ASSUME NEW a \in Attempts, AttemptStep(a) PROVE landing' = landing
    BY <2>1 DEF AttemptStep, CheckAutonomy, Author, RunGate, Publish, Enqueue, Record, AttemptFails
  <2>2. ASSUME NEW r \in Requests, RequestStep(r) \/ Fault(r) PROVE landing'[k] = landing[k]
    <3>1. CASE Insert(r)
      BY <3>1 DEF Insert, IInv, TypeOK
    <3>2. CASE ~Insert(r)
      BY <2>2, <3>2 DEF RequestStep, KillCheck, Confirm, Find, Reread, Reject, SetStatus, Fault
    <3> QED BY <3>1, <3>2
  <2>3. CASE Freeze \/ Unfreeze \/ Restart
    BY <2>3 DEF Freeze, Unfreeze, Restart
  <2> QED BY <2>1, <2>2, <2>3 DEF Next, ResolvePr, MergeWebhook, Tap
<1> QED BY <1>1, Invariance, PTL DEF Spec, LandingIsImmutable
=============================================================================
