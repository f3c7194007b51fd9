----------------------------- MODULE RootCause -----------------------------
(***************************************************************************)
(* One signal on its way to a diagnosis: the signed webhook (app/http,     *)
(* signal-layer, ingest-sentry), the shared normalizer (contracts/guards), *)
(* the model's hypothesis (adapters/claude), Loop A's investigation        *)
(* (loop-a) and what the runtime makes of it (app/runtime, app/paging).    *)
(* A text is the set of words the regular expressions look for in it; a    *)
(* boolean that may be unset is "true", "false" or "null"; times are       *)
(* minutes from the onset.                                                 *)
(***************************************************************************)
EXTENDS Integers, Sequences, FiniteSets, FiniteSetsExt, SequencesExt

CONSTANTS Requests,      \* POSTs to /webhook/<source>
          Secret,        \* SIGNAL_SECRET is configured
          ClientSecret,  \* SENTRY_CLIENT_SECRET is configured
          Replies,       \* [kind, cited, alternatives, fixClass]: answers of the model
          Observations,  \* what repro.sandbox and trace.correlate may return
          Uncertainties, \* onset uncertainty of the investigation, in minutes
          WindowMinutes, \* correlation window
          PageFloor      \* occurrences that page whatever the verdict

ASSUME MinuteAssumption == Uncertainties \subseteq Nat /\ WindowMinutes \in Nat
ASSUME CountAssumption ==
  /\ PageFloor \in Nat
  /\ \A o \in Observations : o.sampled \in Nat /\ o.matched \in Nat /\ o.localized \in Nat

VARIABLES rcaStage,  \* idle, rejected, recorded, silent, proposed, diagnosed
          candidate, \* the normalized signal
          proposal,  \* [cited, alternatives, fixClass]
          diagnosis  \* the investigation and the page built on it

rcaVars == <<rcaStage, candidate, proposal, diagnosis>>

RcaIdle == /\ rcaStage = "idle" /\ candidate = <<>>
           /\ proposal = <<>>   /\ diagnosis = <<>>

\* A Sentry webhook is one that bears Sentry's own header.
isSentry(r) == r.source = "sentry" /\ ClientSecret /\ r.sentrySig # "none"

\* An HMAC over the raw body: whatever is not its digest fails.
verifyHmac(signature) == signature = "good"
verifySentrySignature(signature) == signature = "good"

\* Why a request is turned away, in the order of the code: half a pair of
\* secret and signature, the signature, then the JSON.
rejection(r) ==
  CASE ~isSentry(r) /\ Secret # (r.signature # "none") -> "incomplete_signature"
    [] isSentry(r) /\ ~verifySentrySignature(r.sentrySig) -> "bad_signature"
    [] ~isSentry(r) /\ Secret /\ r.signature # "none" /\ ~verifyHmac(r.signature) ->
         "bad_signature"
    [] OTHER -> IF r.json THEN "none" ELSE "malformed_json"

\* The file of the deepest frame of user code, else of the deepest frame, of
\* the last exception value that has one.
affectedPaths(values) ==
  LET framed == {i \in DOMAIN values : values[i] # <<>>}
      frames == values[Max(framed)]
      inApp == {j \in DOMAIN frames : frames[j].in_app}
  IN  IF framed = {} THEN <<>>
      ELSE <<frames[IF inApp = {} THEN Len(frames) ELSE Max(inApp)].file>>

\* Sentry sends no deploys and no shape; the message is the exception's value,
\* else the event's message, else the title.
sentryWebhookToCandidate(b) ==
  [signal_class |-> "unset", shape |-> "unknown", deploys |-> <<>>,
   paths |-> affectedPaths(b.values), occurrences |-> b.occurrences,
   text |-> [title |-> b.title, culprit |-> b.culprit, path |-> {}, rest |-> {},
             message |-> IF b.value # {} THEN b.value
                         ELSE IF b.message # {} THEN b.message ELSE b.title]]

\* Deploys without an id or a time that parses are dropped, the others keep
\* their place; instruction-like text in a field people read is flagged, never
\* acted on.
normalizeIncidentCandidate(o, source) ==
  [source |-> source, signal_class |-> o.signal_class, shape |-> o.shape,
   paths |-> o.paths, occurrences |-> o.occurrences, text |-> o.text,
   deploys |-> Restrict(o.deploys, {k \in DOMAIN o.deploys : o.deploys[k].dated}),
   suspicious |-> \E f \in {"title", "message", "culprit", "path"} : "inject" \in o.text[f]]

\* What the routes take: a request they do not turn away has numbers where
\* numbers are due and a list of deploys.
ASSUME RequestAssumption ==
  \A r \in Requests : rejection(r) = "none" =>
    /\ r.body.occurrences \in Nat
    /\ ~isSentry(r) =>
         /\ r.body.signal_class \in {"unset", "exception", "metric"}
         /\ DOMAIN r.body.deploys = 1..Len(r.body.deploys) /\ Len(r.body.deploys) \in Nat
         /\ \A k \in DOMAIN r.body.deploys :
              r.body.deploys[k].dated => r.body.deploys[k].ts \in Int
         /\ {"title", "message", "culprit", "path"} \subseteq DOMAIN r.body.text

Reject ==
  /\ rcaStage = "idle"
  /\ \E r \in Requests : rejection(r) # "none"
  /\ rcaStage' = "rejected"
  /\ UNCHANGED <<candidate, proposal, diagnosis>>

\* The incident is on record before the model is asked anything.
Receive ==
  /\ rcaStage = "idle"
  /\ rcaStage' = "recorded"
  /\ \E r \in Requests :
       /\ rejection(r) = "none"
       /\ candidate' = normalizeIncidentCandidate(
            IF isSentry(r) THEN sentryWebhookToCandidate(r.body) ELSE r.body, r.source)
  /\ UNCHANGED <<proposal, diagnosis>>

-----------------------------------------------------------------------------
(* The hypothesis.                                                         *)

firstPath(c) == IF c.paths = <<>> THEN "none" ELSE Head(c.paths)

\* What is not JSON falls back on the first affected path and no alternative;
\* without an API key the fake client cites it with two.
coerceProposal(reply, c) ==
  CASE reply.kind = "off" -> [cited |-> firstPath(c), alternatives |-> 2, fixClass |-> "code"]
    [] reply.kind = "garbage" -> [cited |-> firstPath(c), alternatives |-> 0, fixClass |-> "code"]
    [] OTHER -> [cited |-> reply.cited, alternatives |-> reply.alternatives,
                 fixClass |-> reply.fixClass]

Propose(reply) ==
  /\ rcaStage = "recorded" /\ reply.kind # "error"
  /\ rcaStage' = "proposed"
  /\ proposal' = coerceProposal(reply, candidate)
  /\ UNCHANGED <<candidate, diagnosis>>

\* The API answers with an error: the handler throws, the recorded incident is
\* never diagnosed and nobody hears of it.
ProposeFails(reply) ==
  /\ rcaStage = "recorded" /\ reply.kind = "error"
  /\ rcaStage' = "silent"
  /\ UNCHANGED <<candidate, proposal, diagnosis>>

-----------------------------------------------------------------------------
(* Loop A: correlation.                                                    *)

deriveSignalClass(c) ==
  CASE c.signal_class = "exception" -> "exception"
    [] c.signal_class = "metric" -> "non_exception"
    [] OTHER -> IF c.source = "sentry" THEN "exception" ELSE "non_exception"

inWindow(c) == {k \in DOMAIN c.deploys : c.deploys[k].ts \in (0 - WindowMinutes)..WindowMinutes}
touching(c) == {k \in inWindow(c) : c.deploys[k].diff \cap ToSet(c.paths) # {}}

\* The onset may be any time within u of the origin.
overlapsSomeDeploy(c, u) == \E k \in inWindow(c) : c.deploys[k].ts \in (0 - u)..u

\* Mutant: a deploy beside the anchor that does not touch the paths is ignored.
conflictingNever(c) == FALSE

conflicting(c) == Cardinality(inWindow(c)) >= 2 /\ touching(c) # {} /\ touching(c) # inWindow(c)

\* The index of the deploy to anchor on, 0 for none.
anchor(c, u) ==
  IF /\ inWindow(c) # {}
     /\ \A k \in inWindow(c) : c.deploys[k].ts <= u
     /\ ~overlapsSomeDeploy(c, u) /\ ~conflicting(c)
     /\ Cardinality(touching(c)) = 1
     /\ \A k \in touching(c) : c.deploys[k].ts <= 0 - u
  THEN CHOOSE k \in touching(c) : TRUE ELSE 0

deriveCorrelationState(c, u) ==
  CASE inWindow(c) = {} -> "no_recent_deploy"
    [] anchor(c, u) # 0 -> "deploy_linked"
    [] OTHER -> "ambiguous"

-----------------------------------------------------------------------------
(* Loop A: grounded confidence.                                            *)

tri(b) == IF b THEN "true" ELSE "false"

computeConfidence(c, p, o, u) ==
  LET linked == deriveCorrelationState(c, u) = "deploy_linked"
      share(n, percent) == IF o.sampled = 0 THEN "null" ELSE tri(100 * n >= percent * o.sampled)
  IN  [reproduced |-> o.reproduced,
       explains |-> share(o.matched, 95),
       inDiff |-> IF linked THEN tri(p.cited \in c.deploys[anchor(c, u)].diff) ELSE "null",
       step |-> IF deriveSignalClass(c) = "exception" THEN "null"
                ELSE tri(linked /\ c.shape = "step"),
       localized |-> share(o.localized, 90),
       cited |-> p.cited # "none" \/ o.matched > 0,
       refuted |-> p.alternatives > 0]

grounded(g, class, state) ==
  \/ g.reproduced = "true"
  \/ /\ state = "deploy_linked" /\ g.inDiff = "true"
     /\ class = "exception" \/ g.step = "true"
  \/ g.localized = "true"

gate(g, class, state) ==
  IF g.cited /\ g.refuted /\ g.explains = "true" /\ grounded(g, class, state)
  THEN "CONFIRMED" ELSE "ESCALATE"

\* Mutant: a trace that no span explains is not worth a name.
missingButG7(g, class, state) ==
  {n \in {"G1", "G2", "G4", "G5"} :
     \/ n = "G4" /\ ~g.cited
     \/ n = "G5" /\ ~g.refuted
     \/ n = "G2" /\ g.explains # "true"
     \/ n = "G1" /\ ~grounded(g, class, state) /\ g.reproduced = "null"}

\* The names of the booleans that keep a trace from CONFIRMED.
missingBooleans(g, class, state) ==
  LET open == ~grounded(g, class, state)
  IN  {n \in {"G1", "G2", "G3", "G4", "G5", "G6", "G7"} :
         \/ n = "G4" /\ ~g.cited
         \/ n = "G5" /\ ~g.refuted
         \/ n = "G2" /\ g.explains # "true"
         \/ n = "G1" /\ open /\ g.reproduced = "null"
         \/ n = "G3" /\ open /\ state = "deploy_linked" /\ g.inDiff # "true"
         \/ n = "G6" /\ open /\ class # "exception" /\ g.step = "false"
         \/ n = "G7" /\ open /\ g.localized # "true"}

\* The deploy the advice names: the last one of the signal.
recommendedFor(c, state) ==
  IF state = "deploy_linked" /\ DOMAIN c.deploys # {} THEN Max(DOMAIN c.deploys) ELSE 0

-----------------------------------------------------------------------------
(* What the runtime makes of it.                                           *)

\* Mutant: the transient classes are looked for first.
upstreamTransientFirst == <<"outage", "rate", "auth", "billing">>

\* The upstream rules in their order: the first that matches names the cause.
upstreamRules == <<"billing", "auth", "rate", "outage">>

said(c) == UNION {c.text[f] : f \in DOMAIN c.text}

classifyUpstream(c) ==
  LET hits == {i \in DOMAIN upstreamRules : upstreamRules[i] \in said(c)}
  IN  IF hits = {} THEN "none" ELSE upstreamRules[Min(hits)]

isActionable(decision, suspicious, upstream) ==
  decision = "CONFIRMED" \/ suspicious \/ upstream \in {"billing", "auth"}

shouldPage(decision, suspicious, upstream, occurrences) ==
  isActionable(decision, suspicious, upstream) \/ occurrences >= PageFloor

\* investigate, then the cause, the action and whether to page.
Investigate(o, u) ==
  LET class == deriveSignalClass(candidate)
      state == deriveCorrelationState(candidate, u)
      g == computeConfidence(candidate, proposal, o, u)
      decision == gate(g, class, state)
      suspicious == candidate.suspicious
                      \/ "inject" \in candidate.text.title \cup candidate.text.message
      upstream == classifyUpstream(candidate)
  IN  /\ rcaStage = "proposed"
      /\ rcaStage' = "diagnosed"
      /\ diagnosis' =
           [observed |-> o, uncertainty |-> u, gate |-> decision, state |-> state,
            missing |-> IF decision = "CONFIRMED" THEN {} ELSE missingBooleans(g, class, state),
            rollback |-> IF decision = "CONFIRMED" THEN recommendedFor(candidate, state) ELSE 0,
            cause |-> IF upstream = "none" THEN "hypothesis" ELSE upstream,
            page |-> shouldPage(decision, suspicious, upstream, candidate.occurrences)]
      /\ UNCHANGED <<candidate, proposal>>

\* The request is answered; a confirmed code diagnosis goes on to a repair.
wantsRepair == rcaStage = "diagnosed" /\ diagnosis.gate = "CONFIRMED" /\ proposal.fixClass = "code"

Respond ==
  /\ rcaStage \in {"rejected", "silent", "diagnosed"}
  /\ rcaStage' = "idle"
  /\ candidate' = <<>> /\ proposal' = <<>> /\ diagnosis' = <<>>

RcaStep ==
  \/ Reject
  \/ Receive
  \/ \E reply \in Replies : Propose(reply) \/ ProposeFails(reply)
  \/ \E o \in Observations, u \in Uncertainties : Investigate(o, u)

RcaTypeOK ==
  /\ rcaStage \in {"idle", "rejected", "recorded", "silent", "proposed", "diagnosed"}
  /\ rcaStage \in {"idle", "rejected"} <=> candidate = <<>>
  /\ rcaStage \in {"proposed", "diagnosed"} <=> proposal # <<>>
  /\ rcaStage = "diagnosed" <=> diagnosis # <<>>
  /\ rcaStage = "diagnosed" =>
       /\ diagnosis.missing \subseteq {"G1", "G2", "G3", "G4", "G5", "G6", "G7"}
       /\ diagnosis.rollback \in {0} \cup DOMAIN candidate.deploys

-----------------------------------------------------------------------------
(* Properties.                                                             *)

\* A confirmed diagnosis rests on what the tools saw: at least 95 % of a
\* non-empty sample match, and the failure was reproduced, or nine in ten
\* occurrences sit in one span, or the only deploy in the window ended before
\* the onset can have been, touches an affected path, changed the file the
\* model cites and, for a metric, broke it in a step.
ConfirmedIsGrounded ==
  rcaStage = "diagnosed" /\ diagnosis.gate = "CONFIRMED" =>
    LET o == diagnosis.observed
        near == {k \in DOMAIN candidate.deploys :
                   candidate.deploys[k].ts >= 0 - WindowMinutes /\ candidate.deploys[k].ts <= WindowMinutes}
    IN  /\ o.sampled > 0 /\ 20 * o.matched >= 19 * o.sampled
        /\ \/ o.reproduced = "true"
           \/ 10 * o.localized >= 9 * o.sampled
           \/ \E k \in near :
                LET d == candidate.deploys[k] IN
                /\ near = {k}
                /\ d.ts + diagnosis.uncertainty < 0
                /\ d.diff \cap ToSet(candidate.paths) # {} /\ proposal.cited \in d.diff
                /\ \/ candidate.signal_class = "exception"
                   \/ candidate.signal_class = "unset" /\ candidate.source = "sentry"
                   \/ candidate.shape = "step"

\* An escalation never reaches the on-call without a reason: the list of what
\* is missing is empty exactly for a confirmed diagnosis, although the gate and
\* the list are two separate readings of the same booleans.
EscalationNamesWhatIsMissing ==
  rcaStage = "diagnosed" => (diagnosis.missing = {} <=> diagnosis.gate = "CONFIRMED")

\* What stays quiet is safe to stay quiet as far as it is read: unconfirmed, below
\* the floor, with nothing that addresses the agent in the four fields that are
\* scanned for it (guards.ts:44: title, message, culprit and paths; the rest of
\* the signal is not), and no sign of a billing or authentication failure in any
\* field, not even next to a timeout that is transient.
QuietIsSafe ==
  rcaStage = "diagnosed" /\ ~diagnosis.page =>
    /\ diagnosis.gate = "ESCALATE" /\ candidate.occurrences < PageFloor
    /\ \A f \in {"title", "message", "culprit", "path"} : "inject" \notin candidate.text[f]
    /\ \A f \in DOMAIN candidate.text : candidate.text[f] \cap {"billing", "auth"} = {}

\* The deploy on-call is told to roll back is the one the diagnosis is
\* anchored on (correlation.ts:36: "the single in-window deploy that touches an
\* affected path").  The code names the last deploy of the signal instead.
RollbackNamesTheCause ==
  rcaStage = "diagnosed" /\ diagnosis.gate = "CONFIRMED" /\ diagnosis.state = "deploy_linked" =>
    diagnosis.rollback = anchor(candidate, diagnosis.uncertainty)
=============================================================================
