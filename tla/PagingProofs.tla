---------------------------- MODULE PagingProofs ----------------------------
(***************************************************************************)
(* One page per incident, for any number of calls, incidents, causes and   *)
(* restarts.  PagedOnce says nothing of the calls that have won the        *)
(* compare-and-set and not yet paged; WonInv does: a page, and a call      *)
(* about to send one, exclude every other call of that incident.           *)
(***************************************************************************)
EXTENDS NotifyPaging, TLAPS

WonInv ==
  /\ \A k \in Calls : at[k] = "won" =>
       /\ incident[k] \in notified /\ paged[incident[k]] = 0
       /\ \A q \in Calls : at[q] = "won" /\ incident[q] = incident[k] => q = k
  /\ \A i \in Ids : i \notin notified => paged[i] = 0

\* The row of an incident is there before anybody competes for it.
RowInv == \A k \in Calls : at[k] \in {"investigating", "cas", "won"} => incident[k] \in rows

IInv == TypeOK /\ WonInv /\ RowInv /\ PagedOnce /\ NotifiedMeansPaged /\ SilencedByAPage

LEMMA InvInit == Init => IInv
BY WindowAssumption, BoundAssumption
   DEF Init, IInv, TypeOK, WonInv, RowInv, PagedOnce, NotifiedMeansPaged, SilencedByAPage

LEMMA InvStep == IInv /\ [Next]_vars => IInv'
<1> SUFFICES ASSUME IInv, [Next]_vars PROVE IInv'
  OBVIOUS
<1> USE WindowAssumption, BoundAssumption, CauseAssumption
    DEF IInv, TypeOK, WonInv, RowInv, PagedOnce, NotifiedMeansPaged, SilencedByAPage,
        Reports, Waits, Ends, Cause
<1>1. ASSUME NEW k \in Calls, Receive(k) PROVE IInv'
  BY <1>1 DEF Receive
<1>2. ASSUME NEW k \in Calls, RecordRow(k) PROVE IInv'
  BY <1>2 DEF RecordRow
<1>3. ASSUME NEW k \in Calls, Decide(k) PROVE IInv'
  BY <1>3 DEF Decide
<1>4. ASSUME NEW k \in Calls, Cas(k) PROVE IInv'
  BY <1>4 DEF Cas
<1>5. ASSUME NEW k \in Calls, Deliver(k) PROVE IInv'
  BY <1>5 DEF Deliver, MarkPaged
<1>6. ASSUME NEW k \in Calls, Fail(k) PROVE IInv'
  BY <1>6 DEF Fail
<1>7. CASE Pass
  BY <1>7 DEF Pass
<1>8. CASE Restart
  BY <1>8 DEF Restart
<1>9. CASE UNCHANGED vars
  BY <1>9 DEF vars
<1> QED BY <1>1, <1>2, <1>3, <1>4, <1>5, <1>6, <1>7, <1>8, <1>9 DEF Next, CallStep

\* The strengthened invariant of every behaviour.
THEOREM Invariance == Spec => []IInv
BY InvInit, InvStep, PTL DEF Spec

\* Every call keeps its type; no window is longer than the configured one.
THEOREM TypeCorrect == Spec => []TypeOK
<1>1. IInv => TypeOK
  BY DEF IInv
<1> QED BY <1>1, Invariance, PTL

\* No interleaving of calls, failures and restarts pages an incident twice.
THEOREM Once == Spec => []PagedOnce
<1>1. IInv => PagedOnce
  BY DEF IInv
<1> QED BY <1>1, Invariance, PTL

\* The compare-and-set is only ever spent on a page, or lost with its call.
THEOREM Spent == Spec => []NotifiedMeansPaged
<1>1. IInv => NotifiedMeansPaged
  BY DEF IInv
<1> QED BY <1>1, Invariance, PTL

\* A cause is never silenced beyond a window after its last page.
THEOREM Silenced == Spec => []SilencedByAPage
<1>1. IInv => SilencedByAPage
  BY DEF IInv
<1> QED BY <1>1, Invariance, PTL
=============================================================================
