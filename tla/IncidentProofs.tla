--------------------------- MODULE IncidentProofs ---------------------------
(***************************************************************************)
(* What the decisions along an incident's path guarantee, proved for any   *)
(* signals, answers of the model, patches, suites and number of re-runs.   *)
(* Each property is about one part, and the other parts leave the          *)
(* variables of that part alone; what a part forgets on its way, its       *)
(* invariant carries from stage to stage.                                  *)
(***************************************************************************)
EXTENDS IncidentPath, FiniteSetTheorems, WellFoundedInduction, TLAPS

\* A trace is confirmed exactly if no boolean is on the list of the missing.
LEMMA MissingIsGate ==
  ASSUME NEW g, NEW class, NEW state
  PROVE  gate(g, class, state) # "CONFIRMED" => missingBooleans(g, class, state) # {}
<1> SUFFICES ASSUME gate(g, class, state) # "CONFIRMED"
             PROVE  \E n \in {"G4", "G5", "G2", "G7"} : n \in missingBooleans(g, class, state)
  OBVIOUS
<1>1. CASE ~g.cited
  BY <1>1 DEF missingBooleans
<1>2. CASE ~g.refuted
  BY <1>2 DEF missingBooleans
<1>3. CASE g.explains # "true"
  BY <1>3 DEF missingBooleans
<1>4. CASE g.cited /\ g.refuted /\ g.explains = "true"
  <2>1. ~grounded(g, class, state)
    BY <1>4 DEF gate
  <2>2. g.localized # "true"
    BY <2>1 DEF grounded
  <2> QED
    BY <2>1, <2>2 DEF missingBooleans
<1> QED
  BY <1>1, <1>2, <1>3, <1>4

LEMMA EscalationInit == Init => EscalationNamesWhatIsMissing
BY DEF Init, RcaIdle, EscalationNamesWhatIsMissing

LEMMA EscalationStep ==
  EscalationNamesWhatIsMissing /\ [Next]_vars => EscalationNamesWhatIsMissing'
<1> SUFFICES ASSUME EscalationNamesWhatIsMissing, [Next]_vars
             PROVE  EscalationNamesWhatIsMissing'
  OBVIOUS
<1>1. CASE UNCHANGED rcaVars
  BY <1>1 DEF EscalationNamesWhatIsMissing, rcaVars
<1>2. CASE Diagnose
  <2>1. CASE Reject
    BY <2>1 DEF Reject, EscalationNamesWhatIsMissing
  <2>2. CASE Receive
    BY <2>2 DEF Receive, EscalationNamesWhatIsMissing
  <2>3. ASSUME NEW reply \in Replies, Propose(reply) \/ ProposeFails(reply)
        PROVE  EscalationNamesWhatIsMissing'
    BY <2>3 DEF Propose, ProposeFails, EscalationNamesWhatIsMissing
  <2>4. ASSUME NEW o \in Observations, NEW u \in Uncertainties, Investigate(o, u)
        PROVE  EscalationNamesWhatIsMissing'
    <3> DEFINE class == deriveSignalClass(candidate)
               state == deriveCorrelationState(candidate, u)
               g == computeConfidence(candidate, proposal, o, u)
               decision == gate(g, class, state)
    <3>1. /\ diagnosis'.gate = decision
          /\ diagnosis'.missing = IF decision = "CONFIRMED" THEN {}
                                  ELSE missingBooleans(g, class, state)
      BY <2>4 DEF Investigate
    <3>2. decision # "CONFIRMED" => missingBooleans(g, class, state) # {}
      BY MissingIsGate
    <3> QED
      BY <3>1, <3>2 DEF EscalationNamesWhatIsMissing
  <2> QED
    BY <1>2, <2>1, <2>2, <2>3, <2>4 DEF Diagnose, RcaStep
<1>3. CASE HandOver
  BY <1>3 DEF HandOver, Respond, EscalationNamesWhatIsMissing
<1> QED
  BY <1>1, <1>2, <1>3
     DEF Next, vars, MergeSignal, MergeEnd, Repair, JudgeTest, Remember

\* An escalation always says what is missing, and a confirmation never does.
THEOREM EscalationIsExplained == Spec => []EscalationNamesWhatIsMissing
BY EscalationInit, EscalationStep, PTL DEF Spec

-----------------------------------------------------------------------------
(* The greatest of a finite set of numbers: the least of their bounds.     *)

LEMMA NatWellFounded == IsWellFoundedOn({ss \in Nat \X Nat : ss[1] < ss[2]}, Nat)
BY NatLessThanWellFounded DEF OpToRel

LEMMA LeastNat ==
  ASSUME NEW S, S \subseteq Nat, S # {}
  PROVE  \E x \in S : \A y \in S : x <= y
<1> DEFINE R == {ss \in Nat \X Nat : ss[1] < ss[2]}
<1>1. \A x, y \in Nat : y < x => <<y, x>> \in R
  OBVIOUS
<1>2. PICK x \in S : \A y \in S : ~(<<y, x>> \in R)
  BY NatWellFounded, WFMin, Zenon
<1> HIDE DEF R
<1>3. ASSUME NEW y \in S PROVE x <= y
  <2>1. x \in Nat /\ y \in Nat
    OBVIOUS
  <2>2. ~(y < x)
    BY <1>1, <1>2, <2>1
  <2> QED
    BY <2>1, <2>2
<1> QED
  BY <1>3

LEMMA MaxOfNats ==
  ASSUME NEW n \in Nat, NEW S, S \subseteq 0..n, S # {}
  PROVE  Max(S) \in S /\ \A x \in S : Max(S) >= x
<1> DEFINE bounds == {m \in Nat : \A x \in S : x <= m}
<1>1. n \in bounds
  OBVIOUS
<1>2. PICK m \in bounds : \A b \in bounds : m <= b
  BY <1>1, LeastNat
<1>3. m \in S
  <2> SUFFICES ASSUME m \notin S PROVE FALSE
    OBVIOUS
  <2>1. PICK x : x \in S
    OBVIOUS
  <2>2. x \in Nat /\ m \in Nat /\ \A y \in S : y \in Nat /\ y <= m
    BY <2>1
  <2>3. m > 0
    BY <2>1, <2>2
  <2>4. \A y \in S : y <= m - 1
    BY <2>2
  <2>5. m - 1 \in bounds
    BY <2>2, <2>3, <2>4
  <2> QED
    BY <1>2, <2>2, <2>5
<1> QED
  BY <1>2, <1>3 DEF Max

-----------------------------------------------------------------------------
(* A diagnosis.                                                            *)

\* What a normalized signal is.
CandidateOK(c) ==
  /\ c.occurrences \in Nat /\ c.signal_class \in {"unset", "exception", "metric"}
  /\ \E n \in Nat : DOMAIN c.deploys \subseteq 1..n
  /\ \A k \in DOMAIN c.deploys : c.deploys[k].ts \in Int
  /\ {"title", "message", "culprit", "path"} \subseteq DOMAIN c.text
  /\ c.suspicious <=> \E f \in {"title", "message", "culprit", "path"} : "inject" \in c.text[f]
  /\ c # <<>>

RcaInv ==
  /\ RcaTypeOK
  /\ rcaStage \in {"recorded", "proposed", "diagnosed"} => CandidateOK(candidate)
  /\ ConfirmedIsGrounded /\ QuietIsSafe

LEMMA NormalizedIs ==
  ASSUME NEW r \in Requests, rejection(r) = "none"
  PROVE  CandidateOK(normalizeIncidentCandidate(
           IF isSentry(r) THEN sentryWebhookToCandidate(r.body) ELSE r.body, r.source))
<1> DEFINE o == IF isSentry(r) THEN sentryWebhookToCandidate(r.body) ELSE r.body
           c == normalizeIncidentCandidate(o, r.source)
           dated == {k \in DOMAIN o.deploys : o.deploys[k].dated}
           flagged == \E f \in {"title", "message", "culprit", "path"} : "inject" \in o.text[f]
<1>1. /\ o.occurrences \in Nat /\ o.signal_class \in {"unset", "exception", "metric"}
      /\ {"title", "message", "culprit", "path"} \subseteq DOMAIN o.text
      /\ DOMAIN o.deploys = 1..Len(o.deploys) /\ Len(o.deploys) \in Nat
      /\ \A k \in dated : o.deploys[k].ts \in Int
  <2>1. CASE isSentry(r)
    <3>1. o = sentryWebhookToCandidate(r.body)
      BY <2>1
    <3>2. /\ o.deploys = <<>> /\ o.signal_class = "unset" /\ o.occurrences = r.body.occurrences
          /\ DOMAIN o.text = {"title", "culprit", "path", "rest", "message"}
      BY <3>1 DEF sentryWebhookToCandidate
    <3> QED
      BY <3>2, RequestAssumption
  <2>2. CASE ~isSentry(r)
    BY <2>2, RequestAssumption
  <2> QED
    BY <2>1, <2>2
<1> HIDE DEF o
<1>3. \E n \in Nat : dated \subseteq 1..n
  BY <1>1
<1>4. /\ c.occurrences = o.occurrences /\ c.signal_class = o.signal_class /\ c.text = o.text
      /\ c.deploys = [k \in dated |-> o.deploys[k]] /\ c # <<>>
      /\ c.suspicious = flagged
  <2>1. c.deploys = [k \in dated |-> o.deploys[k]]
    BY DEF normalizeIncidentCandidate, Restrict
  <2>2. c.suspicious = flagged
    BY Zenon DEF normalizeIncidentCandidate
  <2>3. c # <<>>
    <3>1. "text" \in DOMAIN c
      BY DEF normalizeIncidentCandidate
    <3>2. "text" \notin DOMAIN <<>>
      OBVIOUS
    <3> QED
      BY <3>1, <3>2
  <2> QED
    BY <2>1, <2>2, <2>3 DEF normalizeIncidentCandidate
<1> HIDE DEF c
<1>5. DOMAIN c.deploys = dated /\ \A k \in dated : c.deploys[k] = o.deploys[k]
  BY <1>4
<1>6. CandidateOK(c)
  BY <1>1, <1>3, <1>4, <1>5 DEF CandidateOK
<1> QED
  BY <1>6 DEF c, o

\* The anchor is the only deploy of the window, and it ended before the onset.
LEMMA AnchorIs ==
  ASSUME NEW c, CandidateOK(c), NEW u \in Nat, anchor(c, u) # 0
  PROVE  LET k == anchor(c, u)
         IN  /\ inWindow(c) = {k} /\ touching(c) = {k}
             /\ c.deploys[k].ts \in Int /\ c.deploys[k].ts + u < 0
<1> DEFINE W == inWindow(c)
           T == touching(c)
<1>1. /\ ~overlapsSomeDeploy(c, u) /\ ~conflicting(c) /\ Cardinality(T) = 1
      /\ \A k \in T : c.deploys[k].ts <= 0 - u
      /\ anchor(c, u) = CHOOSE k \in T : TRUE
  BY DEF anchor
<1>2. T \subseteq W /\ W \subseteq DOMAIN c.deploys /\ IsFiniteSet(W)
  <2>1. T \subseteq W /\ W \subseteq DOMAIN c.deploys
    BY DEF touching, inWindow
  <2>2. IsFiniteSet(DOMAIN c.deploys)
    <3>1. PICK n \in Nat : DOMAIN c.deploys \subseteq 1..n
      BY DEF CandidateOK
    <3>2. IsFiniteSet(1..n)
      BY FS_Interval
    <3> QED
      BY <3>1, <3>2, FS_Subset
  <2> QED
    BY <2>1, <2>2, FS_Subset
<1>3. IsFiniteSet(T) /\ Cardinality(W) \in Nat /\ Cardinality(T) <= Cardinality(W)
  BY <1>2, FS_Subset, FS_CardinalityType
<1>4. PICK k : T = {k}
  BY <1>1, <1>3, FS_Singleton
<1>5. W = T
  <2>1. ~(Cardinality(W) >= 2) \/ W = T
    BY <1>1, <1>4 DEF conflicting
  <2>2. Cardinality(W) = Cardinality(T) => W = T
    BY <1>2, FS_Subset
  <2> QED
    BY <1>1, <1>3, <2>1, <2>2
<1>6. anchor(c, u) = k
  BY <1>1, <1>4
<1>7. c.deploys[k].ts \in Int /\ c.deploys[k].ts <= 0 - u /\ c.deploys[k].ts # 0 - u
  BY <1>1, <1>2, <1>4, <1>5 DEF CandidateOK, overlapsSomeDeploy
<1>8. c.deploys[k].ts + u < 0
  BY <1>7
<1> QED
  BY <1>4, <1>5, <1>6, <1>7, <1>8

LEMMA ConfirmationIs ==
  ASSUME NEW c, CandidateOK(c), NEW p, NEW o \in Observations, NEW u \in Nat,
         gate(computeConfidence(c, p, o, u), deriveSignalClass(c), deriveCorrelationState(c, u))
           = "CONFIRMED"
  PROVE  /\ o.sampled > 0 /\ 20 * o.matched >= 19 * o.sampled
         /\ \/ o.reproduced = "true"
            \/ 10 * o.localized >= 9 * o.sampled
            \/ /\ anchor(c, u) # 0 /\ p.cited \in c.deploys[anchor(c, u)].diff
               /\ \/ c.signal_class = "exception"
                  \/ c.signal_class = "unset" /\ c.source = "sentry"
                  \/ c.shape = "step"
<1> DEFINE g == computeConfidence(c, p, o, u)
           class == deriveSignalClass(c)
           state == deriveCorrelationState(c, u)
           linked == state = "deploy_linked"
<1>1. o.sampled \in Nat /\ o.matched \in Nat /\ o.localized \in Nat
  BY CountAssumption
<1>2. /\ g.reproduced = o.reproduced
      /\ g.explains = IF o.sampled = 0 THEN "null" ELSE tri(100 * o.matched >= 95 * o.sampled)
      /\ g.localized = IF o.sampled = 0 THEN "null" ELSE tri(100 * o.localized >= 90 * o.sampled)
      /\ g.inDiff = IF linked THEN tri(p.cited \in c.deploys[anchor(c, u)].diff) ELSE "null"
      /\ g.step = IF class = "exception" THEN "null" ELSE tri(linked /\ c.shape = "step")
  BY DEF computeConfidence
<1>3. g.explains = "true" /\ grounded(g, class, state)
  BY DEF gate
<1> HIDE DEF g
<1>4. /\ tri(100 * o.matched >= 95 * o.sampled) = "true" => 100 * o.matched >= 95 * o.sampled
      /\ tri(100 * o.localized >= 90 * o.sampled) = "true" => 100 * o.localized >= 90 * o.sampled
      /\ tri(p.cited \in c.deploys[anchor(c, u)].diff) = "true" =>
           p.cited \in c.deploys[anchor(c, u)].diff
      /\ tri(linked /\ c.shape = "step") = "true" => c.shape = "step"
  BY Zenon DEF tri
<1>5. o.sampled # 0 /\ 100 * o.matched >= 95 * o.sampled
  BY <1>1, <1>2, <1>3, <1>4
<1>6. CASE g.localized = "true"
  <2>1. 100 * o.localized >= 90 * o.sampled
    BY <1>1, <1>2, <1>4, <1>6
  <2> QED
    BY <1>1, <1>5, <2>1
<1>7. CASE linked /\ g.inDiff = "true" /\ (class = "exception" \/ g.step = "true")
  <2>1. p.cited \in c.deploys[anchor(c, u)].diff
    BY <1>2, <1>4, <1>7
  <2>2. anchor(c, u) # 0
    BY <1>7 DEF deriveCorrelationState
  <2>3. class # "exception" => c.shape = "step"
    BY <1>2, <1>4, <1>7
  <2>4. class = "exception" => \/ c.signal_class = "exception"
                               \/ c.signal_class = "unset" /\ c.source = "sentry"
    <3>1. ASSUME c.signal_class = "metric" PROVE class = "non_exception"
      BY <3>1 DEF deriveSignalClass
    <3>2. ASSUME c.signal_class = "unset", c.source # "sentry" PROVE class = "non_exception"
      BY <3>2 DEF deriveSignalClass
    <3> QED
      BY <3>1, <3>2 DEF CandidateOK
  <2> QED
    BY <1>1, <1>5, <2>1, <2>2, <2>3, <2>4
<1>8. CASE g.reproduced = "true"
  BY <1>1, <1>2, <1>5, <1>8
<1> QED
  BY <1>3, <1>6, <1>7, <1>8 DEF grounded

\* The rules for billing and authentication come first, so that nothing else
\* in the text hides them.
LEMMA UpstreamIs ==
  ASSUME NEW c, classifyUpstream(c) \notin {"billing", "auth"}
  PROVE  said(c) \cap {"billing", "auth"} = {}
<1> DEFINE hits == {i \in DOMAIN upstreamRules : upstreamRules[i] \in said(c)}
<1>1. /\ DOMAIN upstreamRules = 1..4
      /\ upstreamRules[1] = "billing" /\ upstreamRules[2] = "auth"
  BY DEF upstreamRules
<1>2. classifyUpstream(c) = IF hits = {} THEN "none" ELSE upstreamRules[Min(hits)]
  BY DEF classifyUpstream
<1>3. \A i \in hits : i \in 1..4
  BY <1>1
<1>4. 1 \in hits => Min(hits) = 1
  BY <1>3 DEF Min
<1>5. 1 \notin hits /\ 2 \in hits => Min(hits) = 2
  <2>1. \A i \in hits : 1 \notin hits => i >= 2
    BY <1>3
  <2> HIDE DEF hits
  <2> QED
    BY <1>3, <2>1 DEF Min
<1>6. 1 \in hits \/ 2 \in hits => classifyUpstream(c) \in {"billing", "auth"}
  BY <1>1, <1>2, <1>4, <1>5
<1> QED
  BY <1>1, <1>6

LEMMA RcaInit == Init => RcaInv
BY DEF Init, RcaIdle, RcaInv, RcaTypeOK, ConfirmedIsGrounded, QuietIsSafe

LEMMA InvestigateInv ==
  ASSUME RcaInv, NEW o \in Observations, NEW u \in Uncertainties, Investigate(o, u)
  PROVE  RcaInv'
<1> DEFINE c == candidate
           class == deriveSignalClass(c)
           state == deriveCorrelationState(c, u)
           g == computeConfidence(c, proposal, o, u)
           decision == gate(g, class, state)
           suspicious == c.suspicious \/ "inject" \in c.text.title \cup c.text.message
           upstream == classifyUpstream(c)
<1>1. /\ rcaStage = "proposed" /\ rcaStage' = "diagnosed"
      /\ candidate' = candidate /\ proposal' = proposal /\ CandidateOK(c)
      /\ candidate # <<>> /\ proposal # <<>>
  BY DEF Investigate, RcaInv, RcaTypeOK
<1>2. /\ diagnosis'.observed = o /\ diagnosis'.uncertainty = u /\ diagnosis'.gate = decision
      /\ diagnosis'.missing = IF decision = "CONFIRMED" THEN {} ELSE missingBooleans(g, class, state)
      /\ diagnosis'.rollback = IF decision = "CONFIRMED" THEN recommendedFor(c, state) ELSE 0
      /\ diagnosis'.page = shouldPage(decision, suspicious, upstream, c.occurrences)
      /\ diagnosis' # <<>>
  <2>1. "gate" \in DOMAIN diagnosis' /\ "gate" \notin DOMAIN <<>>
    BY DEF Investigate
  <2>2. diagnosis' # <<>>
    BY <2>1
  <2> QED
    BY <2>2, Zenon DEF Investigate
<1>3. u \in Nat /\ c.occurrences \in Nat /\ PageFloor \in Nat
  BY <1>1, MinuteAssumption, CountAssumption DEF CandidateOK
<1>4. RcaTypeOK'
  <2>1. missingBooleans(g, class, state) \subseteq {"G1", "G2", "G3", "G4", "G5", "G6", "G7"}
    BY DEF missingBooleans
  <2>2. recommendedFor(c, state) \in {0} \cup DOMAIN c.deploys
    <3>1. PICK n \in Nat : DOMAIN c.deploys \subseteq 1..n
      BY <1>1 DEF CandidateOK
    <3>2. DOMAIN c.deploys # {} => Max(DOMAIN c.deploys) \in DOMAIN c.deploys
      BY <3>1, MaxOfNats
    <3> QED
      BY <3>2 DEF recommendedFor
  <2> HIDE DEF g, class, state, decision
  <2> QED
    BY <1>1, <1>2, <2>1, <2>2 DEF RcaTypeOK
<1>5. ConfirmedIsGrounded'
  <2> SUFFICES ASSUME decision = "CONFIRMED" PROVE ConfirmedIsGrounded'
    BY <1>2 DEF ConfirmedIsGrounded
  <2> DEFINE near == {k \in DOMAIN c.deploys :
                        c.deploys[k].ts >= 0 - WindowMinutes /\ c.deploys[k].ts <= WindowMinutes}
  <2>1. near = inWindow(c)
    BY <1>1, MinuteAssumption DEF inWindow, CandidateOK
  <2>2. /\ o.sampled > 0 /\ 20 * o.matched >= 19 * o.sampled
        /\ \/ o.reproduced = "true"
           \/ 10 * o.localized >= 9 * o.sampled
           \/ \E k \in near :
                /\ near = {k} /\ c.deploys[k].ts + u < 0
                /\ c.deploys[k].diff \cap ToSet(c.paths) # {} /\ proposal.cited \in c.deploys[k].diff
                /\ \/ c.signal_class = "exception"
                   \/ c.signal_class = "unset" /\ c.source = "sentry"
                   \/ c.shape = "step"
    <3>1. ASSUME anchor(c, u) # 0
          PROVE  LET k == anchor(c, u)
                 IN  /\ k \in near /\ near = {k} /\ c.deploys[k].ts + u < 0
                     /\ c.deploys[k].diff \cap ToSet(c.paths) # {}
      <4>1. near = {anchor(c, u)} /\ anchor(c, u) \in touching(c)
        BY <1>1, <1>3, <2>1, <3>1, AnchorIs
      <4>2. c.deploys[anchor(c, u)].ts + u < 0
        BY <1>1, <1>3, <3>1, AnchorIs
      <4> QED
        BY <4>1, <4>2 DEF touching
    <3> QED
      BY <1>1, <1>3, <3>1, ConfirmationIs
  <2> HIDE DEF g, class, state, decision
  <2> QED
    BY <1>1, <1>2, <2>2 DEF ConfirmedIsGrounded
<1>6. QuietIsSafe'
  <2> SUFFICES ASSUME ~shouldPage(decision, suspicious, upstream, c.occurrences)
               PROVE  QuietIsSafe'
    BY <1>2 DEF QuietIsSafe
  <2>1. /\ decision # "CONFIRMED" /\ ~suspicious /\ upstream \notin {"billing", "auth"}
        /\ ~(c.occurrences >= PageFloor)
    BY Zenon DEF shouldPage, isActionable
  <2>2. decision = "ESCALATE"
    BY <2>1 DEF gate
  <2>3. \A f \in {"title", "message", "culprit", "path"} : "inject" \notin c.text[f]
    BY <1>1, <2>1 DEF CandidateOK
  <2>4. \A f \in DOMAIN c.text : c.text[f] \cap {"billing", "auth"} = {}
    BY <2>1, UpstreamIs DEF said
  <2>5. c.occurrences < PageFloor
    BY <1>3, <2>1
  <2> HIDE DEF g, class, state, decision
  <2> QED
    BY <1>1, <1>2, <2>2, <2>3, <2>4, <2>5 DEF QuietIsSafe
<1> QED
  BY <1>1, <1>4, <1>5, <1>6 DEF RcaInv

LEMMA RcaNext == RcaInv /\ [Next]_vars => RcaInv'
<1> SUFFICES ASSUME RcaInv, [Next]_vars PROVE RcaInv'
  OBVIOUS
<1> USE DEF RcaInv, RcaTypeOK, ConfirmedIsGrounded, QuietIsSafe
<1>1. CASE UNCHANGED rcaVars
  BY <1>1 DEF rcaVars
<1>2. CASE Reject
  BY <1>2 DEF Reject
<1>3. CASE Receive
  <2>1. PICK r \in Requests :
          /\ rejection(r) = "none"
          /\ candidate' = normalizeIncidentCandidate(
                            IF isSentry(r) THEN sentryWebhookToCandidate(r.body) ELSE r.body, r.source)
    BY <1>3 DEF Receive
  <2>2. CandidateOK(candidate')
    BY <2>1, NormalizedIs
  <2>3. candidate' # <<>>
    BY <2>2 DEF CandidateOK
  <2>4. /\ rcaStage = "idle" /\ rcaStage' = "recorded" /\ proposal' = proposal /\ diagnosis' = diagnosis
    BY <1>3 DEF Receive
  <2> QED
    BY <2>2, <2>3, <2>4
<1>4. ASSUME NEW reply \in Replies, Propose(reply) PROVE RcaInv'
  <2>1. /\ rcaStage = "recorded" /\ rcaStage' = "proposed"
        /\ candidate' = candidate /\ diagnosis' = diagnosis
        /\ proposal' = coerceProposal(reply, candidate)
    BY <1>4 DEF Propose
  <2>2. coerceProposal(reply, candidate) # <<>>
    <3>1. "cited" \in DOMAIN coerceProposal(reply, candidate)
      BY DEF coerceProposal
    <3>2. "cited" \notin DOMAIN <<>>
      OBVIOUS
    <3> QED
      BY <3>1, <3>2
  <2> QED
    BY <2>1, <2>2
<1>5. ASSUME NEW reply \in Replies, ProposeFails(reply) PROVE RcaInv'
  BY <1>5 DEF ProposeFails
<1>6. ASSUME NEW o \in Observations, NEW u \in Uncertainties, Investigate(o, u) PROVE RcaInv'
  BY <1>6, InvestigateInv
<1>7. CASE HandOver
  BY <1>7 DEF HandOver, Respond
<1>8. CASE Diagnose
  BY <1>2, <1>3, <1>4, <1>5, <1>6, <1>8 DEF Diagnose, RcaStep
<1> QED
  BY <1>1, <1>7, <1>8 DEF Next, vars, MergeSignal, MergeEnd, Repair, JudgeTest, Remember

\* A confirmed diagnosis rests on a large enough share of a sample that is not
\* empty, and on a reproduction, a span, or the one deploy of the window that
\* ended before the onset can have been.
THEOREM ConfirmationsAreGrounded == Spec => []ConfirmedIsGrounded
<1>1. RcaInv => ConfirmedIsGrounded
  BY DEF RcaInv
<1> QED
  BY <1>1, RcaInit, RcaNext, PTL DEF Spec

\* Nobody is left asleep over an injection in one of the scanned fields, over a
\* billing or an authentication failure in any, whatever else the text says, nor
\* over a signal at the floor or above.
THEOREM QuietIsAlwaysSafe == Spec => []QuietIsSafe
<1>1. RcaInv => QuietIsSafe
  BY DEF RcaInv
<1> QED
  BY <1>1, RcaInit, RcaNext, PTL DEF Spec

-----------------------------------------------------------------------------
(* A test that goes red.                                                   *)

\* What is known of a test before its class is acted on.
FlakyInv ==
  /\ runs # <<>> => runs \in Seq(Outcomes)
  /\ runs # <<>> /\ verdict # "notBroken" => runs[1] # "pass"
  /\ runs = <<>> => verdict = "none"
  /\ verdict = "C_flaky" =>
       /\ runs[1] \in {"assertion", "crash"}
       /\ {runs[j] = "pass" : j \in 2..Len(runs)} = BOOLEAN
  /\ AutonomousOnlyOnEvidence

\* Re-runs disagree if and only if both answers are among theirs.
LEMMA FlakyIsBoth ==
  ASSUME NEW rs
  PROVE  detectFlaky(rs) <=> {rs[j] = "pass" : j \in 2..Len(rs)} = BOOLEAN
<1>1. detectFlaky(rs) <=> /\ TRUE \in {rs[j] = "pass" : j \in 2..Len(rs)}
                          /\ FALSE \in {rs[j] = "pass" : j \in 2..Len(rs)}
  BY DEF detectFlaky
<1>2. \A b \in {rs[j] = "pass" : j \in 2..Len(rs)} : b \in BOOLEAN
  OBVIOUS
<1> QED
  BY <1>1, <1>2

LEMMA FlakyInit == Init => FlakyInv
BY DEF Init, FlakyIdle, FlakyInv, AutonomousOnlyOnEvidence

LEMMA FlakyStepInv == FlakyInv /\ FlakyStep => FlakyInv'
<1> SUFFICES ASSUME FlakyInv, FlakyStep PROVE FlakyInv'
  OBVIOUS
<1> USE DEF FlakyInv, AutonomousOnlyOnEvidence
<1>1. ASSUME NEW o \in Outcomes, NEW t \in TestFiles, runTestOnce(o, t) PROVE FlakyInv'
  BY <1>1 DEF runTestOnce
<1>2. ASSUME NEW o \in Outcomes, Rerun(o) PROVE FlakyInv'
  BY <1>2 DEF Rerun
<1>3. CASE Classify
  <2>1. runs # <<>> /\ runs \in Seq(Outcomes) /\ runs[1] # "pass" /\ runs' = runs
    BY <1>3 DEF Classify
  <2>2. Head(runs) = runs[1] /\ runs[1] \in Outcomes
    BY <2>1
  <2>3. verdict' = classify(runs, testFile) /\ testFile' = testFile
    BY <1>3 DEF Classify
  <2>4. CASE verdict' = "C_flaky"
    <3>1. classify(runs, testFile) = "C_flaky"
      BY <2>3, <2>4
    <3>2. Head(runs) # "noRun"
      BY <3>1 DEF classify
    <3>3. detectFlaky(runs)
      BY <3>1 DEF classify
    <3> QED
      BY <2>1, <2>2, <2>4, <3>2, <3>3, FlakyIsBoth DEF Outcomes
  <2>5. CASE verdict' = "B_stale_candidate"
    <3>1. /\ ~detectFlaky(runs) /\ runs[1] = "assertion" /\ ~coversOutsideDiff(testFile)
      BY <2>2, <2>3, <2>5 DEF classify, classifyFailureMode
    <3>2. testFile.imports \subseteq testFile.changed
      BY <3>1 DEF coversOutsideDiff
    <3> QED
      BY <2>1, <2>3, <2>5, <3>1, <3>2, FlakyIsBoth
  <2>6. verdict' \in {"D_infra", "C_flaky", "A_regression", "B_stale_candidate"}
    BY <2>3 DEF classify
  <2> QED
    BY <2>1, <2>4, <2>5, <2>6
<1>4. CASE quarantineTest
  BY <1>4 DEF quarantineTest
<1>5. CASE FlakyEnd
  BY <1>5 DEF FlakyEnd
<1> QED
  BY <1>1, <1>2, <1>3, <1>4, <1>5 DEF FlakyStep

LEMMA FlakyNext == FlakyInv /\ [Next]_vars => FlakyInv'
<1> SUFFICES ASSUME FlakyInv, [Next]_vars PROVE FlakyInv'
  OBVIOUS
<1>1. CASE UNCHANGED flakyVars
  BY <1>1 DEF FlakyInv, AutonomousOnlyOnEvidence, flakyVars
<1>2. CASE JudgeTest
  BY <1>2, FlakyStepInv DEF JudgeTest
<1> QED
  BY <1>1, <1>2 DEF Next, vars, MergeSignal, MergeEnd, Diagnose, HandOver, Repair, Remember

\* No test is muted, or offered to be healed, without the runs that justify it.
THEOREM MutedOnEvidence == Spec => []AutonomousOnlyOnEvidence
<1>1. FlakyInv => AutonomousOnlyOnEvidence
  BY DEF FlakyInv
<1> QED
  BY <1>1, FlakyInit, FlakyNext, PTL DEF Spec

-----------------------------------------------------------------------------
(* A patch.                                                                *)

\* What an accepted patch writes to protected files no pattern matches.
Harmless ==
  /\ (patch.declared \cup {patch.testPath}) \cap Protected = {}
  /\ \A f \in DOMAIN patch.diff \cap Protected : named(f, patch.spelling[f]) \in Unmatched

\* A patch was screened before it went on, and knows whether it is committed and
\* what the gate is to read.
PatchInv ==
  /\ pgStage \in {"proposed", "ranOnParent", "applied", "staged", "blocked", "screened",
                   "passed", "rejected"} => Harmless
  /\ pgStage \in {"staged", "screened"} =>
       /\ {"committed", "suite"} \subseteq DOMAIN staged /\ staged.committed \in BOOLEAN
       /\ staged.sourceFiles = sourceFiles(patch) /\ staged.touchedPaths = touchedPaths(patch)
  /\ ProtectedNeverRuns
  /\ PassIsGrounded

LEMMA TouchedAreHarmless ==
  ASSUME NEW p, protectedPathsTouched(touchedPaths(p)) = {}
  PROVE  /\ (p.declared \cup {p.testPath}) \cap Protected = {}
         /\ \A f \in DOMAIN p.diff \cap Protected : named(f, p.spelling[f]) \in Unmatched
<1>1. \A n \in touchedPaths(p) : n.file \in Protected => n \in Unmatched
  BY DEF protectedPathsTouched
<1>2. ASSUME NEW f \in (p.declared \cup {p.testPath}), f \in Protected PROVE FALSE
  <2>1. named(f, "plain") \in touchedPaths(p)
    BY DEF touchedPaths, plainly
  <2>2. named(f, "plain").file = f /\ named(f, "plain").spelling = "plain"
    BY DEF named
  <2> QED
    BY <1>1, <1>2, <2>1, <2>2, PatternAssumption
<1>3. ASSUME NEW f \in DOMAIN p.diff \cap Protected PROVE named(f, p.spelling[f]) \in Unmatched
  <2>1. named(f, p.spelling[f]) \in touchedPaths(p)
    BY DEF touchedPaths, pathsFromUnifiedDiff
  <2>2. named(f, p.spelling[f]).file = f
    BY DEF named
  <2> QED
    BY <1>1, <2>1, <2>2
<1> QED
  BY <1>2, <1>3

\* A file spelled with quotes is to be mutated, so that the gate cannot read it.
LEMMA QuotedIsSource ==
  ASSUME NEW p, NEW f \in DOMAIN p.diff, p.spelling[f] = "quoted"
  PROVE  named(f, "quoted") \in sourceFiles(p)
<1>1. named(f, "quoted") \in pathsFromUnifiedDiff(p)
  BY DEF pathsFromUnifiedDiff
<1>2. named(f, "quoted").spelling = "quoted"
  BY DEF named
<1>3. named(f, "quoted") # named(p.testPath, "plain") /\ ~namesATest(named(f, "quoted"))
  <2>1. named(p.testPath, "plain").spelling = "plain"
    BY DEF named
  <2> QED
    BY <1>2, <2>1 DEF namesATest
<1> QED
  BY <1>1, <1>3 DEF sourceFiles

LEMMA RunIs ==
  ASSUME NEW who, NEW tree, NEW o
  PROVE  /\ run(who, tree, o).by = who /\ run(who, tree, o).tree = tree
         /\ run(who, tree, o).outcome = o
BY DEF run

\* A suite that discriminates was green on the fix and not on the parent.
LEMMA Discriminates ==
  ASSUME NEW parentRun \in RunOutcomes, NEW fixRun \in RunOutcomes,
         mustFailOnParent(parentRun, fixRun)
  PROVE  fixRun = "green" /\ parentRun \in {"red", "saysFail"}
BY DEF mustFailOnParent, failed, RunOutcomes

LEMMA RunsShow ==
  ASSUME NEW tree, NEW tests, NEW parentRun, NEW fixRun
  PROVE  /\ \E r \in validateChange(tree, tests, parentRun, fixRun) :
              r.by = "gate" /\ r.tree = tree /\ r.outcome = fixRun
         /\ \E r \in validateChange(tree, tests, parentRun, fixRun) :
              r.by = "gate" /\ r.tree = overlay(tree, tests) /\ r.outcome = parentRun
<1>1. /\ run("gate", tree, fixRun) \in validateChange(tree, tests, parentRun, fixRun)
      /\ run("gate", overlay(tree, tests), parentRun) \in validateChange(tree, tests, parentRun, fixRun)
  BY DEF validateChange
<1>2. /\ run("gate", tree, fixRun).by = "gate" /\ run("gate", tree, fixRun).tree = tree
      /\ run("gate", tree, fixRun).outcome = fixRun
  BY RunIs
<1>3. /\ run("gate", overlay(tree, tests), parentRun).by = "gate"
      /\ run("gate", overlay(tree, tests), parentRun).tree = overlay(tree, tests)
      /\ run("gate", overlay(tree, tests), parentRun).outcome = parentRun
  BY RunIs
<1> QED
  BY <1>1, <1>2, <1>3

LEMMA NothingToLay ==
  ASSUME NEW tests PROVE overlay(parentTree, tests) = parentTree
BY DEF overlay, parentTree

LEMMA PatchInit == Init => PatchInv
BY DEF Init, PgIdle, PatchInv, PassIsGrounded, ProtectedNeverRuns

LEMMA PassGrounds ==
  ASSUME PatchInv, NEW parentRun \in RunOutcomes, NEW fixRun \in RunOutcomes, NEW s \in Suites,
         RunGate(parentRun, fixRun, s)
  PROVE  PatchInv'
<1>1. /\ pgStage = "screened" /\ pgStage' \in {"crashed", "passed", "rejected"}
      /\ patch' = patch /\ ran' = ran \cup validateChange(fixRef, {patch.testPath}, parentRun, fixRun)
      /\ staged' = [staged EXCEPT !.suite = s]
  BY DEF RunGate
<1>2. /\ staged.committed \in BOOLEAN /\ staged'.committed = staged.committed
      /\ staged.sourceFiles = sourceFiles(patch) /\ Harmless
  BY <1>1 DEF PatchInv
<1>3. Harmless'
  BY <1>1, <1>2 DEF Harmless
<1>4. ASSUME pgStage' = "passed", NEW f \in DOMAIN patch.diff, patch.spelling[f] = "quoted"
      PROVE  FALSE
  <2>1. named(f, "quoted") \in staged.sourceFiles
    BY <1>2, <1>4, QuotedIsSource
  <2>2. ~readable(named(f, "quoted"), fixRef)
    BY DEF readable, named
  <2> QED
    BY <1>4, <2>1, <2>2 DEF RunGate
<1>5. ASSUME pgStage' = "passed", ~suiteContradictsItself'
      PROVE  /\ staged.committed
             /\ \E r \in ran' : r.by = "gate" /\ r.tree = fixTree(patch) /\ r.outcome \in {"green"}
             /\ \E r \in ran' : /\ r.by = "gate" /\ r.tree = overlay(fixTree(patch), {patch.testPath})
                                /\ r.outcome \in {"red", "saysFail"}
  <2>1. mustFailOnParent(parentRun, fixRun)
    BY <1>5 DEF RunGate, verify, combineGate
  <2>2. fixRun = "green" /\ parentRun \in {"red", "saysFail"}
    BY <2>1, Discriminates
  <2>3. /\ \E r \in ran' : r.by = "gate" /\ r.tree = fixRef /\ r.outcome = fixRun
        /\ \E r \in ran' : /\ r.by = "gate" /\ r.tree = overlay(fixRef, {patch.testPath})
                           /\ r.outcome = parentRun
    BY <1>1, RunsShow
  <2>4. ASSUME ~staged.committed PROVE FALSE
    <3>1. fixRef = parentTree
      BY <2>4 DEF fixRef
    <3>2. overlay(fixRef, {patch.testPath}) = fixRef
      BY <3>1, NothingToLay
    <3> QED
      BY <1>5, <2>2, <2>3, <3>2 DEF suiteContradictsItself
  <2>5. fixRef = fixTree(patch)
    BY <1>2, <2>4 DEF fixRef
  <2> QED
    BY <2>2, <2>3, <2>4, <2>5
<1>6. PassIsGrounded'
  BY <1>1, <1>2, <1>5 DEF PassIsGrounded
<1>7. ProtectedNeverRuns'
  BY <1>1, <1>3, <1>4 DEF ProtectedNeverRuns, Harmless
<1> QED
  BY <1>1, <1>3, <1>6, <1>7 DEF PatchInv

LEMMA CiGrounds == ASSUME CiGate PROVE PatchInv'
<1>1. PICK d \in PullRequests, parentRun \in RunOutcomes, fixRun \in RunOutcomes, s \in Suites :
        /\ patch' = [diff |-> d] /\ pgStage' = ciVerdict(d, parentRun, fixRun, s)
        /\ ran' = validateChange(d, classifyChanged(d).tests, parentRun, fixRun)
  BY DEF CiGate
<1>2. pgStage' \in {"ciSkipped", "ciRejected", "ciTestsOnly", "ciPassed"}
  BY <1>1 DEF ciVerdict
<1>3. patch'.diff = d
  BY <1>1
<1>4. ASSUME pgStage' = "ciPassed"
      PROVE  /\ \E r \in ran' : r.by = "gate" /\ r.tree = d /\ r.outcome \in {"green"}
             /\ \E r \in ran' : /\ r.by = "gate" /\ r.tree = overlay(d, classifyChanged(d).tests)
                                /\ r.outcome \in {"red", "saysFail"}
  <2> DEFINE tests == classifyChanged(d).tests
  <2>1. mustFailOnParent(parentRun, fixRun)
    BY <1>1, <1>4, Zenon DEF ciVerdict, verify, combineGate
  <2>2. fixRun = "green" /\ parentRun \in {"red", "saysFail"}
    BY <2>1, Discriminates
  <2>3. ran' = validateChange(d, tests, parentRun, fixRun)
    BY <1>1
  <2> HIDE DEF tests
  <2>4. /\ \E r \in ran' : r.by = "gate" /\ r.tree = d /\ r.outcome = fixRun
        /\ \E r \in ran' : r.by = "gate" /\ r.tree = overlay(d, tests) /\ r.outcome = parentRun
    BY <2>3, RunsShow
  <2> QED
    BY <2>2, <2>4 DEF tests
<1>5. classifyChanged(patch.diff)' = classifyChanged(d)
  BY <1>3 DEF classifyChanged
<1>6. PassIsGrounded'
  BY <1>2, <1>3, <1>4, <1>5 DEF PassIsGrounded, overlay
<1> QED
  BY <1>2, <1>6 DEF PatchInv, ProtectedNeverRuns

LEMMA PatchStepInv == PatchInv /\ PgStep => PatchInv'
<1> SUFFICES ASSUME PatchInv, PgStep PROVE PatchInv'
  OBVIOUS
<1> USE DEF PatchInv, PassIsGrounded, ProtectedNeverRuns, Harmless
<1>1. CASE AuthorFails
  BY <1>1 DEF AuthorFails
<1>2. ASSUME NEW p \in Patches, AuthorPatch(p) PROVE PatchInv'
  <2>1. pgStage' \in {"proposed", "declined"} /\ patch' = p
    BY <1>2 DEF AuthorPatch
  <2>2. pgStage' = "proposed" => protectedPathsTouched(touchedPaths(p)) = {}
    BY <1>2 DEF AuthorPatch
  <2> QED
    BY <2>1, <2>2, TouchedAreHarmless
<1>3. ASSUME NEW o \in RunOutcomes, RunOnParent(o) PROVE PatchInv'
  BY <1>3 DEF RunOnParent
<1>4. CASE ApplyDiff
  BY <1>4 DEF ApplyDiff
<1>5. ASSUME NEW committed \in BOOLEAN, NEW checks \in BOOLEAN, NEW o \in RunOutcomes,
             CommitAndRun(committed, o, checks)
      PROVE  PatchInv'
  <2>1. /\ pgStage = "applied" /\ pgStage' = "staged" /\ patch' = patch
        /\ {"committed", "suite"} \subseteq DOMAIN staged' /\ staged'.committed = committed
        /\ staged'.sourceFiles = sourceFiles(patch) /\ staged'.touchedPaths = touchedPaths(patch)
    BY <1>5 DEF CommitAndRun
  <2>2. sourceFiles(patch)' = sourceFiles(patch) /\ touchedPaths(patch)' = touchedPaths(patch)
    BY <2>1 DEF sourceFiles, touchedPaths, pathsFromUnifiedDiff
  <2> QED
    BY <2>1, <2>2
<1>6. CASE Screen
  <2>1. sourceFiles(patch)' = sourceFiles(patch) /\ touchedPaths(patch)' = touchedPaths(patch)
    BY <1>6 DEF Screen, sourceFiles, touchedPaths, pathsFromUnifiedDiff
  <2> QED
    BY <1>6, <2>1 DEF Screen
<1>7. ASSUME NEW parentRun \in RunOutcomes, NEW fixRun \in RunOutcomes, NEW s \in Suites,
             RunGate(parentRun, fixRun, s)
      PROVE  PatchInv'
  BY <1>7, PassGrounds
<1>8. CASE CiGate
  BY <1>8, CiGrounds
<1>9. CASE GateFails
  BY <1>9 DEF GateFails
<1>10. CASE PgEnd
  BY <1>10 DEF PgEnd
<1> QED
  BY <1>1, <1>2, <1>3, <1>4, <1>5, <1>6, <1>7, <1>8, <1>9, <1>10 DEF PgStep

LEMMA PatchNext == PatchInv /\ [Next]_vars => PatchInv'
<1> SUFFICES ASSUME PatchInv, [Next]_vars PROVE PatchInv'
  OBVIOUS
<1>1. CASE UNCHANGED pgVars
  <2>1. /\ fixTree(patch)' = fixTree(patch) /\ classifyChanged(patch.diff)' = classifyChanged(patch.diff)
        /\ sourceFiles(patch)' = sourceFiles(patch) /\ touchedPaths(patch)' = touchedPaths(patch)
        /\ suiteContradictsItself' = suiteContradictsItself
    BY <1>1 DEF pgVars, fixTree, classifyChanged, sourceFiles, touchedPaths, pathsFromUnifiedDiff,
       suiteContradictsItself
  <2> QED
    BY <1>1, <2>1 DEF PatchInv, PassIsGrounded, ProtectedNeverRuns, Harmless, pgVars, overlay
<1>2. CASE Repair
  BY <1>2, PatchStepInv DEF Repair
<1>3. CASE HandOver
  BY <1>3 DEF HandOver, PatchInv, PassIsGrounded, ProtectedNeverRuns
<1> QED
  BY <1>1, <1>2, <1>3 DEF Next, vars, MergeSignal, MergeEnd, Diagnose, JudgeTest, Remember

\* The suite runs on a tree with a write to a protected file only where no
\* pattern matches the path as the diff spells it, and no quoted one passes.
THEOREM ProtectedStaysOut == Spec => []ProtectedNeverRuns
<1>1. PatchInv => ProtectedNeverRuns
  BY DEF PatchInv
<1> QED
  BY <1>1, PatchInit, PatchNext, PTL DEF Spec

\* A patch the gate passes is committed, its tree was green and the old code
\* was not with its test, unless the suite contradicted itself on one tree.
THEOREM PassesAreFixes == Spec => []PassIsGrounded
<1>1. PatchInv => PassIsGrounded
  BY DEF PatchInv
<1> QED
  BY <1>1, PatchInit, PatchNext, PTL DEF Spec

-----------------------------------------------------------------------------
(* What of a patch the gate looks at.                                      *)

\* Every part of what is staged is audited before it passes.
AuditInv ==
  /\ \A r \in ran : r.by \in {"author", "gate"} /\ r.outcome \in RunOutcomes
  /\ pgStage \in {"proposed", "ranOnParent", "applied", "staged", "blocked", "screened"} =>
       patch \in Patches /\ patch.usable
  /\ pgStage \in {"applied", "staged", "screened"} => patch.testPath \notin DOMAIN patch.diff
  /\ EveryWriteIsAudited

\* The score is that of the paths the gate is given.
LEMMA ScoreIs ==
  ASSUME NEW files, NEW s, mutationOnRef(files, s)
  PROVE  100 * SumFunction([n \in files |-> s.killed[n.file]])
           >= RequiredScore * SumFunction([n \in files |-> s.mutants[n.file]])
<1> DEFINE reports == [n \in files |-> runMutationGate(n, s)]
           report == mergeReports(reports)
<1>1. \A n \in files : reports[n].killed = s.killed[n.file] /\ reports[n].total = s.mutants[n.file]
  BY DEF runMutationGate
<1>2. DOMAIN reports = files
  OBVIOUS
<1> HIDE DEF reports
<1>3. /\ [n \in DOMAIN reports |-> reports[n].killed] = [n \in files |-> s.killed[n.file]]
      /\ [n \in DOMAIN reports |-> reports[n].total] = [n \in files |-> s.mutants[n.file]]
  BY <1>1, <1>2
<1>4. /\ report.killed = SumFunction([n \in files |-> s.killed[n.file]])
      /\ report.total = SumFunction([n \in files |-> s.mutants[n.file]])
  BY <1>3 DEF mergeReports
<1>5. 100 * report.killed >= RequiredScore * report.total
  BY DEF mutationOnRef, scoreGate, reports
<1> HIDE DEF report
<1> QED
  BY <1>4, <1>5

\* An old test that is there and compared keeps its strong assertions.
LEMMA StrongAssertionsStay ==
  ASSUME NEW s \in Suites, NEW tree, NEW paths, noWeakeningOverPaths(paths, tree, s),
         named(OldTest, "plain") \in paths, OldTest \in DOMAIN tree, tree[OldTest] # "delete"
  PROVE  s.counts[OldTest].strongFix >= s.counts[OldTest].strongParent
<1>1. named(OldTest, "plain").file = OldTest /\ named(OldTest, "plain").spelling = "plain"
  BY DEF named
<1>2. OldTest \in DOMAIN tree \ {NewTest} /\ existsIn(tree, OldTest)
  BY DEF existsIn, OldTest, NewTest
<1>3. noWeakening(s.counts[OldTest])
  BY <1>1, <1>2 DEF noWeakeningOverPaths
<1> QED
  BY <1>3, SuiteAssumption DEF noWeakening

\* The paths of a patch without runs of slashes that can all be read on its tree
\* are its declared files and the files of code it writes, all there.
LEMMA ReadableIsWritten ==
  ASSUME NEW p, p.testPath \notin DOMAIN p.diff,
         \A f \in DOMAIN p.diff : p.spelling[f] \in {"plain", "quoted"},
         \A n \in sourceFiles(p) : readable(n, fixTree(p))
  PROVE  LET written == {f \in DOMAIN fixTree(p) : fixTree(p)[f] # "delete"}
         IN  /\ DOMAIN fixTree(p) \ Tests \subseteq written
             /\ sourceFiles(p) = plainly((written \ (Tests \cup {p.testPath})) \cup p.declared)
<1> DEFINE written == {f \in DOMAIN fixTree(p) : fixTree(p)[f] # "delete"}
<1>1. DOMAIN fixTree(p) = DOMAIN p.diff \cup {p.testPath}
  BY DEF fixTree
<1>2. \A f, spelling : named(f, spelling).file = f /\ named(f, spelling).spelling = spelling
  BY DEF named
<1>3. \A f \in DOMAIN p.diff : p.spelling[f] = "plain"
  BY QuotedIsSource, <1>2 DEF readable
<1>4. \A f, g : named(f, "plain") = named(g, "plain") => f = g
  BY <1>2
<1>5. \A f \in DOMAIN p.diff \ (Tests \cup {p.testPath}) : named(f, "plain") \in sourceFiles(p)
  BY <1>2, <1>3, <1>4 DEF sourceFiles, pathsFromUnifiedDiff, namesATest
<1>6. \A f \in DOMAIN p.diff \ (Tests \cup {p.testPath}) : f \in written
  <2> SUFFICES ASSUME NEW f \in DOMAIN p.diff \ (Tests \cup {p.testPath}) PROVE f \in written
    OBVIOUS
  <2>1. existsIn(fixTree(p), f)
    BY <1>2, <1>5 DEF readable
  <2> QED
    BY <1>1, <2>1 DEF existsIn
<1>7. DOMAIN fixTree(p) \ Tests \subseteq written
  <2>1. fixTree(p)[p.testPath] = "test"
    BY <1>1 DEF fixTree
  <2> QED
    BY <1>1, <1>6, <2>1
<1>8. ASSUME NEW n PROVE n \in sourceFiles(p) <=> n \in plainly((written \ (Tests \cup {p.testPath})) \cup p.declared)
  <2>1. n \in plainly(p.declared) => n \in plainly((written \ (Tests \cup {p.testPath})) \cup p.declared)
    BY DEF plainly
  <2>2. ASSUME NEW f \in DOMAIN p.diff, n = named(f, "plain"), n # named(p.testPath, "plain"), ~namesATest(n)
        PROVE  n \in plainly((written \ (Tests \cup {p.testPath})) \cup p.declared)
    <3>1. f \notin Tests \cup {p.testPath}
      BY <1>2, <2>2 DEF namesATest
    <3> QED
      BY <1>6, <2>2, <3>1 DEF plainly
  <2>3. n \in sourceFiles(p) => n \in plainly((written \ (Tests \cup {p.testPath})) \cup p.declared)
    BY <1>3, <2>1, <2>2 DEF sourceFiles, pathsFromUnifiedDiff
  <2>4. ASSUME NEW f \in (written \ (Tests \cup {p.testPath})) \cup p.declared, n = named(f, "plain")
        PROVE  n \in sourceFiles(p)
    <3>1. CASE f \in p.declared
      BY <2>4, <3>1 DEF sourceFiles, plainly
    <3>2. CASE f \in written \ (Tests \cup {p.testPath})
      BY <1>1, <1>5, <2>4, <3>2
    <3> QED
      BY <3>1, <3>2
  <2> QED
    BY <2>3, <2>4 DEF plainly
<1> QED
  BY <1>7, <1>8

\* The gate of the repair pipeline.
LEMMA RunGateAudits ==
  ASSUME PatchInv, AuditInv, NEW parentRun \in RunOutcomes, NEW fixRun \in RunOutcomes,
         NEW s \in Suites, RunGate(parentRun, fixRun, s)
  PROVE  AuditInv'
<1>1. /\ pgStage = "screened" /\ pgStage' \in {"crashed", "passed", "rejected"}
      /\ patch' = patch /\ ran' = ran \cup validateChange(fixRef, {patch.testPath}, parentRun, fixRun)
      /\ staged' = [staged EXCEPT !.suite = s]
  BY DEF RunGate
<1>2. /\ staged'.committed = staged.committed /\ staged'.suite = s /\ patch \in Patches
      /\ staged.sourceFiles = sourceFiles(patch) /\ staged.touchedPaths = touchedPaths(patch)
  BY <1>1 DEF PatchInv, AuditInv
<1>3. \A r \in ran' : r.by \in {"author", "gate"} /\ r.outcome \in RunOutcomes
  BY <1>1, RunIs DEF AuditInv, validateChange
<1> SUFFICES ASSUME pgStage' = "passed", staged.committed,
                    \A f \in DOMAIN patch.diff : patch.spelling[f] # "doubled"
             PROVE  EveryWriteIsAudited'
  BY <1>1, <1>2, <1>3 DEF AuditInv, EveryWriteIsAudited
<1> DEFINE tree == fixTree(patch)
           written == {f \in DOMAIN tree : tree[f] # "delete"}
           code == (written \ (Tests \cup {patch.testPath})) \cup patch.declared
<1>4. /\ \A n \in sourceFiles(patch) : readable(n, tree)
      /\ verify(tree, {patch.testPath}, {n \in touchedPaths(patch) : namesATest(n)},
                sourceFiles(patch), parentRun, fixRun, s)
  BY <1>2, Zenon DEF RunGate, fixRef
<1>5. \A f \in DOMAIN patch.diff : patch.spelling[f] \in {"plain", "quoted"}
  BY <1>2, PatchAssumption
<1>6. DOMAIN tree \ Tests \subseteq written /\ sourceFiles(patch) = plainly(code)
  <2>1. patch.testPath \notin DOMAIN patch.diff
    BY <1>1 DEF AuditInv
  <2> QED
    BY <1>4, <1>5, <2>1, ReadableIsWritten
<1>7. 100 * SumFunction([n \in plainly(code) |-> s.killed[n.file]])
        >= RequiredScore * SumFunction([n \in plainly(code) |-> s.mutants[n.file]])
  <2>1. mutationOnRef(sourceFiles(patch), s)
    BY <1>4, Zenon DEF verify, combineGate
  <2> HIDE DEF code
  <2> QED
    BY <1>6, <2>1, ScoreIs
<1>8. ASSUME OldTest \in written
      PROVE  s.counts[OldTest].strongFix >= s.counts[OldTest].strongParent
  <2> DEFINE paths == plainly({patch.testPath}) \cup {n \in touchedPaths(patch) : namesATest(n)}
  <2>1. noWeakeningOverPaths(paths, tree, s)
    BY <1>4, Zenon DEF verify, combineGate
  <2>2. named(OldTest, "plain") \in paths
    <3>1. CASE OldTest = patch.testPath
      BY <3>1 DEF plainly
    <3>2. CASE OldTest # patch.testPath
      <4>1. OldTest \in DOMAIN patch.diff
        BY <1>8, <3>2 DEF fixTree
      <4>2. named(OldTest, "quoted") \notin sourceFiles(patch)
        BY <1>4 DEF readable, named
      <4>3. patch.spelling[OldTest] = "plain"
        BY <1>5, <4>1, <4>2, QuotedIsSource
      <4>4. named(OldTest, "plain") \in touchedPaths(patch)
        BY <4>1, <4>3 DEF touchedPaths, pathsFromUnifiedDiff
      <4>5. namesATest(named(OldTest, "plain"))
        BY DEF namesATest, named, Tests
      <4> QED
        BY <4>4, <4>5
    <3> QED
      BY <3>1, <3>2
  <2> HIDE DEF paths
  <2> QED
    BY <1>8, <2>1, <2>2, StrongAssertionsStay
<1>9. fixTree(patch)' = tree
  BY <1>1 DEF fixTree
<1> HIDE DEF tree
<1> QED
  BY <1>1, <1>2, <1>6, <1>7, <1>8, <1>9 DEF EveryWriteIsAudited, plainly

\* The gate in CI.
LEMMA CiGateAudits ==
  ASSUME CiGate PROVE AuditInv'
<1>1. PICK d \in PullRequests, parentRun \in RunOutcomes, fixRun \in RunOutcomes, s \in Suites :
        /\ patch' = [diff |-> d] /\ staged' = [suite |-> s]
        /\ pgStage' = ciVerdict(d, parentRun, fixRun, s)
        /\ ran' = validateChange(d, classifyChanged(d).tests, parentRun, fixRun)
  BY DEF CiGate
<1>2. pgStage' \in {"ciSkipped", "ciRejected", "ciTestsOnly", "ciPassed"}
  BY <1>1 DEF ciVerdict
<1>3. \A r \in ran' : r.by \in {"author", "gate"} /\ r.outcome \in RunOutcomes
  BY <1>1, RunIs DEF validateChange
<1> SUFFICES ASSUME pgStage' = "ciPassed" PROVE EveryWriteIsAudited'
  BY <1>2, <1>3 DEF AuditInv, EveryWriteIsAudited
<1> DEFINE tests == classifyChanged(d).tests
           sources == classifyChanged(d).sources
           written == {f \in DOMAIN d : d[f] # "delete"}
           code == written \ (Tests \cup Documents \cup Ignored)
<1>4. mutationOnRef(plainly(sources), s) /\ noWeakeningOverPaths(plainly(tests) \cup {}, d, s)
  BY <1>1, Zenon DEF ciVerdict, verify, combineGate
<1>5. sources = code
  BY FileAssumption DEF classifyChanged
<1>6. 100 * SumFunction([n \in plainly(code) |-> s.killed[n.file]])
        >= RequiredScore * SumFunction([n \in plainly(code) |-> s.mutants[n.file]])
  <2> HIDE DEF code, sources
  <2> QED
    BY <1>4, <1>5, ScoreIs
<1>7. ASSUME OldTest \in written
      PROVE  s.counts[OldTest].strongFix >= s.counts[OldTest].strongParent
  <2>1. OldTest \in tests
    BY <1>7, FileAssumption DEF classifyChanged, Tests
  <2>2. named(OldTest, "plain") \in plainly(tests) \cup {}
    BY <2>1 DEF plainly
  <2>3. OldTest \in DOMAIN d /\ d[OldTest] # "delete"
    BY <1>7
  <2> QED
    BY <1>4, <2>2, <2>3, StrongAssertionsStay
<1>8. patch'.diff = d /\ staged'.suite = s
  BY <1>1
<1> QED
  BY <1>6, <1>7, <1>8 DEF EveryWriteIsAudited, plainly

LEMMA AuditStep == PatchInv /\ AuditInv /\ PgStep => AuditInv'
<1> SUFFICES ASSUME PatchInv, AuditInv, PgStep PROVE AuditInv'
  OBVIOUS
<1> USE DEF AuditInv, EveryWriteIsAudited
<1>1. CASE AuthorFails
  BY <1>1 DEF AuthorFails
<1>2. ASSUME NEW p \in Patches, AuthorPatch(p) PROVE AuditInv'
  BY <1>2 DEF AuthorPatch
<1>3. ASSUME NEW o \in RunOutcomes, RunOnParent(o) PROVE AuditInv'
  BY <1>3, RunIs DEF RunOnParent
<1>4. CASE ApplyDiff
  BY <1>4 DEF ApplyDiff
<1>5. ASSUME NEW committed \in BOOLEAN, NEW checks \in BOOLEAN, NEW o \in RunOutcomes,
             CommitAndRun(committed, o, checks)
      PROVE  AuditInv'
  <2>1. /\ pgStage = "applied" /\ pgStage' = "staged" /\ patch' = patch
        /\ ran' = ran \cup {run("author", fixTree(patch), o)}
    BY <1>5 DEF CommitAndRun
  <2> QED
    BY <2>1, RunIs
<1>6. CASE Screen
  BY <1>6 DEF Screen
<1>7. ASSUME NEW parentRun \in RunOutcomes, NEW fixRun \in RunOutcomes, NEW s \in Suites,
             RunGate(parentRun, fixRun, s)
      PROVE  AuditInv'
  BY <1>7, RunGateAudits
<1>8. CASE CiGate
  BY <1>8, CiGateAudits
<1>9. CASE GateFails
  BY <1>9 DEF GateFails
<1>10. CASE PgEnd
  BY <1>10 DEF PgEnd
<1> QED
  BY <1>1, <1>2, <1>3, <1>4, <1>5, <1>6, <1>7, <1>8, <1>9, <1>10 DEF PgStep

LEMMA AuditNext == PatchInv /\ AuditInv /\ [Next]_vars => AuditInv'
<1> SUFFICES ASSUME PatchInv, AuditInv, [Next]_vars PROVE AuditInv'
  OBVIOUS
<1>1. CASE UNCHANGED pgVars
  <2>1. fixTree(patch)' = fixTree(patch)
    BY <1>1 DEF pgVars, fixTree
  <2> QED
    BY <1>1, <2>1 DEF AuditInv, EveryWriteIsAudited, pgVars, plainly
<1>2. CASE Repair
  BY <1>2, AuditStep DEF Repair
<1>3. CASE HandOver
  BY <1>3 DEF HandOver, AuditInv, EveryWriteIsAudited
<1> QED
  BY <1>1, <1>2, <1>3 DEF Next, vars, MergeSignal, MergeEnd, Diagnose, JudgeTest, Remember

LEMMA AuditInit == Init => AuditInv
BY DEF Init, PgIdle, AuditInv, EveryWriteIsAudited

\* What passes, in the pipeline or in CI, was audited: every file of code its
\* diff writes is in the score, whatever was declared, and an old test that stays
\* keeps its strong assertions.
THEOREM WritesAreAudited == Spec => []EveryWriteIsAudited
<1>1. AuditInv => EveryWriteIsAudited
  BY DEF AuditInv
<1> QED
  BY <1>1, PatchInit, PatchNext, AuditInit, AuditNext, PTL DEF Spec
=============================================================================
