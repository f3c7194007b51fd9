---------------------------- MODULE SharedMemory ----------------------------
(***************************************************************************)
(* Incident memory kept in AgenticMind (packages/adapter-agenticmind): an  *)
(* incident is a material and a belief about its outcome, joined again at  *)
(* retrieval.  Each tool call is a step; what the adapter does once the    *)
(* answer is in is a step of its own, so that calls overlap.  AgenticMind  *)
(* keeps one current belief per subject; a call that fails may have been   *)
(* carried out.  Callers pass no askId of their own.                       *)
(***************************************************************************)
EXTENDS Integers, Sequences, FiniteSets

CONSTANTS Owned,        \* incidents of this system
          Foreign,      \* a material whose title is not of this system
          SetLabels,    \* labels the callers set
          kShared,      \* [pos, neg]: the limits of the two blocks
          Scores,       \* how similar the k-th material may be, for each k
          MaxCalls      \* bound: calls that write, in a run
ASSUME TitleAssumption == Foreign \notin Owned
ASSUME BlockAssumption == kShared \in [pos : Nat, neg : Nat]
ASSUME ScoreAssumption == Scores \subseteq Seq(Nat \ {0})
ASSUME CallAssumption == MaxCalls \in Nat

VARIABLES
  materials, \* AgenticMind: the incident each material is titled with
  belief,    \* AgenticMind: the current sho:outcome of each incident
  asks,      \* AgenticMind: the incident each ask was made for
  signals,   \* AgenticMind: reinforcements, [ask, strength, label]
  askIds,    \* the adapter: the last ask answered of each incident, 0 for none
  pending,   \* what the adapter goes on with when an answer comes
  retrieval, \* the retrieval under way: [hits, score, labels]
  held,      \* history: every label an incident had, and those it had while
             \* the retrieval is under way
  made       \* the calls made so far that write

sharedVars == <<materials, belief, asks, signals, askIds, pending, retrieval, held, made>>
agenticMind == <<materials, belief, asks, signals>>

SharedIdle ==
  /\ materials = <<>> /\ asks = <<>> /\ signals = {} /\ pending = {} /\ retrieval = <<>>
  /\ belief = [i \in Owned |-> "none"]
  /\ askIds = [i \in Owned |-> 0]
  /\ held = [ever |-> [i \in Owned |-> {}], lately |-> [i \in Owned |-> {}]]
  /\ made = 0

failures == {"recurred", "reverted", "wrong_rca"}

polarity(label) ==
  CASE label = "confirmed_good" -> "exemplar"
    [] label \in failures -> "anti-pattern"
    [] label = "superseded" -> "neutral"
    [] OTHER -> "weak"

\* In hundredths.
strength(label) ==
  CASE polarity(label) = "exemplar" -> 100
    [] polarity(label) = "anti-pattern" -> -100
    [] label = "applied" -> 55
    [] label = "provisional_human_confirmed" -> 50
    [] label = "superseded" -> 0
    [] OTHER -> 35

\* One more call, and what goes on after it.
call(c) == made < MaxCalls /\ made' = made + 1 /\ pending' = pending \cup c

-----------------------------------------------------------------------------
(* Writing.                                                                *)

\* kl_ingest.  The back-reference is a second call, of a belief nothing reads;
\* when it fails, the caller that tries again stores the incident once more.
recordIncident(i) ==
  /\ materials' = Append(materials, i)
  /\ call({})
  /\ UNCHANGED <<belief, asks, signals, askIds, retrieval, held>>

\* Somebody else's material.
ForeignMaterial ==
  /\ materials' = Append(materials, Foreign)
  /\ call({})
  /\ UNCHANGED <<belief, asks, signals, askIds, retrieval, held>>

\* kl_ask_global for an incident.
askGlobal(i) ==
  /\ asks' = Append(asks, i)
  /\ call({[to |-> "remember", ask |-> Len(asks')]})
  /\ UNCHANGED <<materials, belief, signals, askIds, retrieval, held>>

\* The last answer wins, whichever was asked last.
AskAnswered(c) ==
  /\ c \in pending /\ c.to = "remember"
  /\ pending' = pending \ {c}
  /\ askIds' = [askIds EXCEPT ![asks[c.ask]] = c.ask]
  /\ UNCHANGED <<agenticMind, retrieval, held, made>>

\* Mutant: the belief is not waited for and fails.
setOutcomeLabelUnwritten(i, l) ==
  /\ call({[to |-> "signal", incident |-> i, label |-> l]})
  /\ UNCHANGED <<agenticMind, askIds, retrieval, held>>

\* mem_write of the label, which replaces the one before.
setOutcomeLabel(i, l) ==
  /\ belief' = [belief EXCEPT ![i] = l]
  /\ held' = [held EXCEPT !.ever[i] = @ \cup {l},
                          !.lately[i] = IF retrieval = <<>> THEN {} ELSE @ \cup {l}]
  /\ call({[to |-> "signal", incident |-> i, label |-> l]})
  /\ UNCHANGED <<materials, asks, signals, askIds, retrieval>>

\* kl_signal on the ask known by now, for the labels that are final.
SignalAsk(c) ==
  /\ c \in pending /\ c.to = "signal"
  /\ pending' = pending \ {c}
  /\ signals' = IF askIds[c.incident] = 0 \/ polarity(c.label) \in {"weak", "neutral"}
                THEN signals
                ELSE signals \cup {[ask |-> askIds[c.incident], label |-> c.label,
                                    strength |-> strength(c.label)]}
  /\ UNCHANGED <<materials, belief, asks, askIds, retrieval, held, made>>

\* The call throws, whether it was carried out or not.
CallThrows(c) ==
  /\ c \in pending
  /\ pending' = pending \ {c}
  /\ UNCHANGED <<agenticMind, askIds, retrieval, held, made>>

\* A restart forgets the asks and every call under way.
AdapterRestart ==
  /\ askIds' = [i \in Owned |-> 0]
  /\ pending' = {}
  /\ retrieval' = <<>>
  /\ held' = [held EXCEPT !.lately = [i \in Owned |-> {}]]
  /\ UNCHANGED <<agenticMind, made>>

-----------------------------------------------------------------------------
(* Reading.                                                                *)

\* The title names an incident of ours.
parseShoTitle(m) == materials[m] # Foreign

\* kl_search answers with materials and their scores; those whose title is not
\* one of ours are dropped.
retrieveSimilar(score) ==
  /\ retrieval = <<>>
  /\ retrieval' = [hits |-> {m \in DOMAIN materials \cap DOMAIN score : parseShoTitle(m)},
                   score |-> score, labels |-> <<>>]
  /\ held' = [held EXCEPT !.lately = [i \in Owned |-> {belief[i]}]]
  /\ UNCHANGED <<agenticMind, askIds, pending, made>>

\* One mem_recall per hit, in any order.
currentOutcomeLabel(m) ==
  /\ retrieval # <<>>
  /\ m \in retrieval.hits \ DOMAIN retrieval.labels
  /\ retrieval' = [retrieval EXCEPT !.labels =
       [n \in DOMAIN @ \cup {m} |-> IF n = m THEN belief[materials[m]] ELSE @[n]]]
  /\ UNCHANGED <<agenticMind, askIds, pending, held, made>>

RetrievalEnd ==
  /\ retrieval # <<>>
  /\ retrieval' = <<>>
  /\ held' = [held EXCEPT !.lately = [i \in Owned |-> {}]]
  /\ UNCHANGED <<agenticMind, askIds, pending, made>>

\* The first k of a stable sort; the search lists its hits in their order.
first(S, rank, k) ==
  {m \in S : Cardinality({n \in S : \/ rank[n] > rank[m]
                                    \/ rank[n] = rank[m] /\ n < m}) < k}

\* The two blocks; an incident without a label counts as proposed.
blocks(r) ==
  LET of(P) == {m \in r.hits : polarity(r.labels[m]) \in P}
      positive == [m \in r.hits |-> r.score[m] * strength(r.labels[m])]
  IN  [exemplars |-> first(of({"exemplar", "weak"}), positive, kShared.pos),
       antiPatterns |-> first(of({"anti-pattern"}), r.score, kShared.neg)]

SharedStep ==
  \/ \E i \in Owned : recordIncident(i)
  \/ ForeignMaterial
  \/ \E i \in Owned : askGlobal(i)
  \/ \E c \in pending : AskAnswered(c)
  \/ \E i \in Owned, l \in SetLabels : setOutcomeLabel(i, l)
  \/ \E c \in pending : SignalAsk(c)
  \/ \E c \in pending : CallThrows(c)
  \/ AdapterRestart
  \/ \E score \in Scores : retrieveSimilar(score)
  \/ \E m \in DOMAIN materials : currentOutcomeLabel(m)
  \/ RetrievalEnd

SharedTypeOK ==
  /\ materials \in Seq(Owned \cup {Foreign})
  /\ made \in Cardinality(pending)..MaxCalls
  /\ belief \in [Owned -> SetLabels \cup {"none"}]
  /\ asks \in Seq(Owned)
  /\ askIds \in [Owned -> 0..Len(asks)]
  /\ retrieval # <<>> => DOMAIN retrieval.labels \subseteq retrieval.hits

\* Whatever overlaps, fails or restarts: an ask is rewarded or punished only
\* for a final label its own incident really got, with that label's sign; and
\* a finished retrieval offers as an example no incident that was a failure or
\* superseded all the while, warns of no incident that never was a failure,
\* keeps no standing failure back while there is room, and answers only with
\* incidents of this system.
PrecedentsAreHonest ==
  /\ \A s \in signals :
       /\ s.label \in held.ever[asks[s.ask]] /\ s.label \in {"confirmed_good"} \cup failures
       /\ s.strength > 0 <=> s.label = "confirmed_good"
  /\ retrieval # <<>> /\ DOMAIN retrieval.labels = retrieval.hits =>
       LET got == blocks(retrieval)
           during(m) == held.lately[materials[m]]
       IN  /\ \A m \in retrieval.hits : materials[m] \in Owned
           /\ \A m \in got.exemplars : during(m) \ (failures \cup {"superseded"}) # {}
           /\ \A m \in got.antiPatterns : during(m) \cap failures # {}
           /\ \A m \in retrieval.hits \ got.antiPatterns :
                during(m) \subseteq failures => Cardinality(got.antiPatterns) = kShared.neg
           /\ \A m \in retrieval.hits \ got.exemplars, n \in got.exemplars :
                during(m) = {"confirmed_good"} /\ "confirmed_good" \notin during(n) =>
                  retrieval.score[m] < retrieval.score[n]
=============================================================================
