----------------------------- MODULE HumanGate -----------------------------
(***************************************************************************)
(* What Loop C promises, with no request, no await and no store in sight:  *)
(* a proposal waits for one human verdict, the verdict is never changed,   *)
(* only an approved proposal lands, and a fix of an incident lands once.   *)
(* A restart of the process forgets the verdicts and what still waits for  *)
(* one (the approval queue is process memory), never a landing.            *)
(***************************************************************************)

CONSTANTS Proposals,   \* the proposals a human may be asked about
          Keys,        \* what a landing is identified by: (incident, fix)
          NoKey        \* the key of a proposal nobody was asked about yet

VARIABLES verdict,     \* where each proposal stands
          fixOf,       \* the key each proposal would land
          landed       \* the keys that have landed

vars == <<verdict, fixOf, landed>>

Verdicts == {"absent", "open", "approved", "rejected", "lost"}

Init == /\ verdict = [p \in Proposals |-> "absent"]
        /\ fixOf = [p \in Proposals |-> NoKey]
        /\ landed = {}

\* A human is asked about p, which would land k.
Open(p, k) == /\ verdict[p] = "absent"
              /\ verdict' = [verdict EXCEPT ![p] = "open"]
              /\ fixOf' = [fixOf EXCEPT ![p] = k]
              /\ UNCHANGED landed

\* The human's one verdict on p.
Decide(p, v) == /\ verdict[p] = "open"
                /\ verdict' = [verdict EXCEPT ![p] = v]
                /\ UNCHANGED <<fixOf, landed>>

\* An approved fix lands, unless it already has.
Land(p) == /\ verdict[p] = "approved"
           /\ fixOf[p] \notin landed
           /\ landed' = landed \cup {fixOf[p]}
           /\ UNCHANGED <<verdict, fixOf>>

\* A restart.
Forget == /\ verdict' = [p \in Proposals |->
                           IF verdict[p] = "absent" THEN "absent" ELSE "lost"]
          /\ UNCHANGED <<fixOf, landed>>

Next == \/ \E p \in Proposals : \E k \in Keys : Open(p, k)
        \/ \E p \in Proposals : \E v \in {"approved", "rejected"} : Decide(p, v)
        \/ \E p \in Proposals : Land(p)
        \/ Forget

Spec == Init /\ [][Next]_vars
=============================================================================
