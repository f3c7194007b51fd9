----------------------------- MODULE PathProofs -----------------------------
(***************************************************************************)
(* The shared memory, the types of the incident path and the merging of    *)
(* signals, proved for any incidents, labels, scores and limits of the two *)
(* blocks, and for any signals, requests, patches and test runs.           *)
(***************************************************************************)
EXTENDS IncidentProofs

(* The shared memory: writing.                                             *)

\* What goes on after an answer is about an ask that was made and a label that
\* was written; what is known of an ask is about its own incident; and what a
\* retrieval has recalled, it could have recalled.
SharedInv ==
  /\ SharedTypeOK
  /\ IsFiniteSet(pending)
  /\ held \in [ever : [Owned -> SUBSET SetLabels],
               lately : [Owned -> SUBSET (SetLabels \cup {"none"})]]
  /\ \A c \in pending : /\ c.to = "remember" => c.ask \in DOMAIN asks
                        /\ c.to = "signal" => /\ c.incident \in Owned
                                              /\ c.label \in held.ever[c.incident]
  /\ \A i \in Owned : askIds[i] # 0 => asks[askIds[i]] = i
  /\ \A s \in signals :
       /\ s.ask \in DOMAIN asks /\ s.label \in held.ever[asks[s.ask]]
       /\ s.label \in {"confirmed_good"} \cup failures
       /\ s.strength > 0 <=> s.label = "confirmed_good"
  /\ retrieval # <<>> =>
       /\ retrieval = [hits |-> retrieval.hits, score |-> retrieval.score, labels |-> retrieval.labels]
       /\ retrieval.hits \subseteq {m \in DOMAIN materials : materials[m] # Foreign}
       /\ retrieval.score \in Scores /\ retrieval.hits \subseteq DOMAIN retrieval.score
       /\ \A i \in Owned : belief[i] \in held.lately[i]
       /\ \A m \in DOMAIN retrieval.labels : retrieval.labels[m] \in held.lately[materials[m]]

LEMMA SharedInit == Init => SharedInv
<1> SUFFICES ASSUME SharedIdle PROVE SharedInv
  BY DEF Init
<1>1. IsFiniteSet(pending) /\ Cardinality(pending) = 0
  BY FS_EmptySet DEF SharedIdle
<1> QED
  BY <1>1, CallAssumption DEF SharedIdle, SharedInv, SharedTypeOK

\* One more call keeps the count of what is pending below that of the calls.
LEMMA CallCounts ==
  ASSUME SharedInv, NEW c, call({c})
  PROVE  /\ IsFiniteSet(pending') /\ made' \in Cardinality(pending')..MaxCalls
         /\ pending' = pending \cup {c}
<1>1. /\ made \in Cardinality(pending)..MaxCalls /\ IsFiniteSet(pending)
      /\ Cardinality(pending) \in Nat
  BY FS_CardinalityType DEF SharedInv, SharedTypeOK
<1>2. pending' = pending \cup {c} /\ made' = made + 1 /\ made < MaxCalls
  BY DEF call
<1>3. /\ IsFiniteSet(pending')
      /\ Cardinality(pending') = Cardinality(pending) \/ Cardinality(pending') = Cardinality(pending) + 1
  BY <1>1, <1>2, FS_AddElement
<1> QED
  BY <1>1, <1>2, <1>3, CallAssumption

\* What goes on is no longer pending.
LEMMA AnswerCounts ==
  ASSUME SharedInv, NEW c \in pending, pending' = pending \ {c}, UNCHANGED made
  PROVE  IsFiniteSet(pending') /\ made' \in Cardinality(pending')..MaxCalls
<1>1. /\ made \in Cardinality(pending)..MaxCalls /\ IsFiniteSet(pending)
      /\ Cardinality(pending) \in Nat
  BY FS_CardinalityType DEF SharedInv, SharedTypeOK
<1>2. IsFiniteSet(pending') /\ Cardinality(pending') = Cardinality(pending) - 1
  BY <1>1, FS_RemoveElement
<1> QED
  BY <1>1, <1>2, CallAssumption

LEMMA NothingToCallCounts ==
  ASSUME SharedInv, call({})
  PROVE  pending' = pending /\ made' \in Cardinality(pending')..MaxCalls
<1>1. /\ made \in Cardinality(pending)..MaxCalls /\ Cardinality(pending) \in Nat
  BY FS_CardinalityType DEF SharedInv, SharedTypeOK
<1> QED
  BY <1>1, CallAssumption DEF call

\* Nothing is Seq-typed but grows by a member of its own.
LEMMA AppendKeeps ==
  ASSUME NEW S, NEW s \in Seq(S), NEW e \in S
  PROVE  /\ Append(s, e) \in Seq(S) /\ DOMAIN s \subseteq DOMAIN Append(s, e)
         /\ Len(Append(s, e)) = Len(s) + 1 /\ Append(s, e)[Len(s) + 1] = e
         /\ Len(s) + 1 \in DOMAIN Append(s, e)
         /\ \A k \in DOMAIN s : Append(s, e)[k] = s[k]
OBVIOUS

LEMMA IngestInv ==
  ASSUME SharedInv, NEW i \in Owned \cup {Foreign}, materials' = Append(materials, i), call({}),
         UNCHANGED <<belief, asks, signals, askIds, retrieval, held>>
  PROVE  SharedInv'
<1>1. pending' = pending /\ made' \in Cardinality(pending')..MaxCalls
  BY NothingToCallCounts
<1>2. /\ materials' \in Seq(Owned \cup {Foreign}) /\ DOMAIN materials \subseteq DOMAIN materials'
      /\ \A m \in DOMAIN materials : materials'[m] = materials[m]
  BY AppendKeeps DEF SharedInv, SharedTypeOK
<1>3. SharedTypeOK'
  BY <1>1, <1>2 DEF SharedInv, SharedTypeOK
<1>4. retrieval # <<>> => DOMAIN retrieval.labels \subseteq retrieval.hits
  BY DEF SharedInv, SharedTypeOK
<1> QED
  BY <1>1, <1>2, <1>3, <1>4 DEF SharedInv

LEMMA AskInv == ASSUME SharedInv, NEW i \in Owned, askGlobal(i) PROVE SharedInv'
<1> DEFINE c == [to |-> "remember", ask |-> Len(asks')]
<1>1. /\ asks' = Append(asks, i) /\ call({c})
      /\ UNCHANGED <<materials, belief, signals, askIds, retrieval, held>>
  BY DEF askGlobal
<1>2. /\ IsFiniteSet(pending') /\ made' \in Cardinality(pending')..MaxCalls
      /\ pending' = pending \cup {c}
  BY <1>1, CallCounts
<1>3. /\ asks \in Seq(Owned) /\ asks' \in Seq(Owned) /\ DOMAIN asks \subseteq DOMAIN asks'
      /\ Len(asks') = Len(asks) + 1 /\ Len(asks') \in DOMAIN asks'
      /\ \A k \in DOMAIN asks : asks'[k] = asks[k]
  BY <1>1, AppendKeeps DEF SharedInv, SharedTypeOK
<1>4. 0..Len(asks) \subseteq 0..Len(asks') /\ \A n \in 0..Len(asks) : n # 0 => n \in DOMAIN asks
  BY <1>3
<1>5. SharedTypeOK'
  BY <1>1, <1>2, <1>3, <1>4 DEF SharedInv, SharedTypeOK
<1>6. \A j \in Owned : askIds[j] \in 0..Len(asks)
  BY DEF SharedInv, SharedTypeOK
<1>7. c.to = "remember" /\ c.ask = Len(asks')
  OBVIOUS
<1> HIDE DEF c
<1>8. \A d \in pending' : /\ d.to = "remember" => d.ask \in DOMAIN asks'
                          /\ d.to = "signal" => /\ d.incident \in Owned
                                                /\ d.label \in held.ever[d.incident]
  BY <1>2, <1>3, <1>7 DEF SharedInv
<1>9. \A j \in Owned : askIds[j] # 0 => asks'[askIds[j]] = j
  BY <1>3, <1>4, <1>6 DEF SharedInv
<1>10. \A s \in signals : /\ s.ask \in DOMAIN asks' /\ s.label \in held.ever[asks'[s.ask]]
                          /\ s.label \in {"confirmed_good"} \cup failures
                          /\ s.strength > 0 <=> s.label = "confirmed_good"
  BY <1>3 DEF SharedInv
<1> QED
  BY <1>1, <1>2, <1>5, <1>8, <1>9, <1>10 DEF SharedInv

LEMMA AnsweredInv == ASSUME SharedInv, NEW c \in pending, AskAnswered(c) PROVE SharedInv'
<1>1. /\ c.to = "remember" /\ pending' = pending \ {c}
      /\ askIds' = [askIds EXCEPT ![asks[c.ask]] = c.ask]
      /\ UNCHANGED <<materials, belief, asks, signals, retrieval, held, made>>
  BY DEF AskAnswered, agenticMind
<1>2. IsFiniteSet(pending') /\ made' \in Cardinality(pending')..MaxCalls
  BY <1>1, AnswerCounts
<1>3. /\ c.ask \in DOMAIN asks /\ asks \in Seq(Owned) /\ askIds \in [Owned -> 0..Len(asks)]
  BY <1>1 DEF SharedInv, SharedTypeOK
<1>4. c.ask \in 0..Len(asks) /\ asks[c.ask] \in Owned
  BY <1>3
<1>5. /\ askIds' \in [Owned -> 0..Len(asks)]
      /\ \A i \in Owned : askIds'[i] # 0 => asks[askIds'[i]] = i
  BY <1>1, <1>3, <1>4 DEF SharedInv
<1>6. SharedTypeOK'
  BY <1>1, <1>2, <1>5 DEF SharedInv, SharedTypeOK
<1> QED
  BY <1>1, <1>2, <1>5, <1>6 DEF SharedInv

LEMMA LabelInv ==
  ASSUME SharedInv, NEW i \in Owned, NEW l \in SetLabels, setOutcomeLabel(i, l) PROVE SharedInv'
<1> DEFINE c == [to |-> "signal", incident |-> i, label |-> l]
<1>1. /\ belief' = [belief EXCEPT ![i] = l] /\ call({c})
      /\ held' = [held EXCEPT !.ever[i] = @ \cup {l},
                              !.lately[i] = IF retrieval = <<>> THEN {} ELSE @ \cup {l}]
      /\ UNCHANGED <<materials, asks, signals, askIds, retrieval>>
  BY DEF setOutcomeLabel
<1>2. /\ IsFiniteSet(pending') /\ made' \in Cardinality(pending')..MaxCalls
      /\ pending' = pending \cup {c}
  BY <1>1, CallCounts
<1>3. c.to = "signal" /\ c.incident = i /\ c.label = l
  OBVIOUS
<1> HIDE DEF c
<1>4. held \in [ever : [Owned -> SUBSET SetLabels], lately : [Owned -> SUBSET (SetLabels \cup {"none"})]]
  BY DEF SharedInv
<1>5. /\ held'.ever = [held.ever EXCEPT ![i] = @ \cup {l}]
      /\ held'.lately = [held.lately EXCEPT ![i] = IF retrieval = <<>> THEN {} ELSE @ \cup {l}]
      /\ held' \in [ever : [Owned -> SUBSET SetLabels], lately : [Owned -> SUBSET (SetLabels \cup {"none"})]]
  BY <1>1, <1>4
<1>6. \A j \in Owned : held.ever[j] \subseteq held'.ever[j] /\ l \in held'.ever[i]
  BY <1>4, <1>5
<1>7. retrieval # <<>> => \A j \in Owned : held.lately[j] \subseteq held'.lately[j] /\ l \in held'.lately[i]
  BY <1>4, <1>5
<1>8. belief \in [Owned -> SetLabels \cup {"none"}] /\ belief' \in [Owned -> SetLabels \cup {"none"}]
  BY <1>1 DEF SharedInv, SharedTypeOK
<1>9. SharedTypeOK'
  BY <1>1, <1>2, <1>8 DEF SharedInv, SharedTypeOK
<1>10. \A d \in pending' : /\ d.to = "remember" => d.ask \in DOMAIN asks'
                           /\ d.to = "signal" => /\ d.incident \in Owned
                                                 /\ d.label \in held'.ever[d.incident]
  BY <1>1, <1>2, <1>3, <1>6 DEF SharedInv
<1>11. \A s \in signals' :
         /\ s.ask \in DOMAIN asks' /\ s.label \in held'.ever[asks'[s.ask]]
         /\ s.label \in {"confirmed_good"} \cup failures
         /\ s.strength > 0 <=> s.label = "confirmed_good"
  <2>1. \A s \in signals : asks[s.ask] \in Owned
    BY DEF SharedInv, SharedTypeOK
  <2> QED
    BY <1>1, <1>6, <2>1 DEF SharedInv
<1>12. ASSUME retrieval' # <<>>
       PROVE  /\ \A j \in Owned : belief'[j] \in held'.lately[j]
              /\ \A m \in DOMAIN retrieval'.labels :
                   retrieval'.labels[m] \in held'.lately[materials'[m]]
  <2>1. /\ \A j \in Owned : belief[j] \in held.lately[j]
        /\ \A m \in DOMAIN retrieval.labels : /\ retrieval.labels[m] \in held.lately[materials[m]]
                                              /\ materials[m] \in Owned
    BY <1>1, <1>12 DEF SharedInv, SharedTypeOK
  <2> QED
    BY <1>1, <1>7, <1>8, <1>12, <2>1
<1> QED
  BY <1>1, <1>2, <1>5, <1>9, <1>10, <1>11, <1>12 DEF SharedInv

LEMMA PolarityOf ==
  ASSUME NEW l
  PROVE  /\ polarity(l) = "anti-pattern" <=> l \in failures
         /\ polarity(l) = "exemplar" <=> l = "confirmed_good"
         /\ polarity(l) = "neutral" <=> l = "superseded"
         /\ polarity(l) \in {"exemplar", "anti-pattern", "neutral", "weak"}
         /\ l = "confirmed_good" => strength(l) = 100
         /\ l \in failures => strength(l) = -100
         /\ polarity(l) = "weak" => strength(l) \in {35, 50, 55}
<1>1. ASSUME l = "confirmed_good" PROVE polarity(l) = "exemplar" /\ strength(l) = 100
  BY <1>1 DEF polarity, strength, failures
<1>2. ASSUME l \in failures PROVE polarity(l) = "anti-pattern" /\ strength(l) = -100 /\ l # "superseded"
  <2>1. polarity(l) = "anti-pattern"
    BY <1>2 DEF polarity, failures
  <2> QED
    BY <1>2, <2>1 DEF strength, failures
<1>3. ASSUME l = "superseded" PROVE polarity(l) = "neutral"
  BY <1>3 DEF polarity, failures
<1>4. ASSUME l # "confirmed_good", l \notin failures, l # "superseded"
      PROVE  polarity(l) = "weak" /\ strength(l) \in {35, 50, 55}
  <2>1. polarity(l) = "weak"
    BY <1>4 DEF polarity
  <2> QED
    BY <1>4, <2>1 DEF strength
<1>5. "superseded" \notin failures /\ "confirmed_good" \notin failures
  BY DEF failures
<1> QED
  BY <1>1, <1>2, <1>3, <1>4, <1>5

LEMMA SignalInv == ASSUME SharedInv, NEW c \in pending, SignalAsk(c) PROVE SharedInv'
<1> DEFINE s0 == [ask |-> askIds[c.incident], label |-> c.label, strength |-> strength(c.label)]
<1>1. /\ c.to = "signal" /\ pending' = pending \ {c}
      /\ UNCHANGED <<materials, belief, asks, askIds, retrieval, held, made>>
      /\ \/ signals' = signals
         \/ /\ signals' = signals \cup {s0} /\ askIds[c.incident] # 0
            /\ polarity(c.label) \notin {"weak", "neutral"}
  BY DEF SignalAsk
<1>2. IsFiniteSet(pending') /\ made' \in Cardinality(pending')..MaxCalls
  BY <1>1, AnswerCounts
<1>3. SharedTypeOK'
  BY <1>1, <1>2 DEF SharedInv, SharedTypeOK
<1>4. c.incident \in Owned /\ c.label \in held.ever[c.incident]
  BY <1>1 DEF SharedInv
<1>5. ASSUME askIds[c.incident] # 0, polarity(c.label) \notin {"weak", "neutral"}
      PROVE  /\ s0.ask \in DOMAIN asks /\ s0.label \in held.ever[asks[s0.ask]]
             /\ s0.label \in {"confirmed_good"} \cup failures
             /\ s0.strength > 0 <=> s0.label = "confirmed_good"
  <2>1. asks[askIds[c.incident]] = c.incident
    BY <1>4, <1>5 DEF SharedInv
  <2>2. askIds[c.incident] \in 0..Len(asks) /\ asks \in Seq(Owned)
    BY <1>4 DEF SharedInv, SharedTypeOK
  <2>3. askIds[c.incident] \in DOMAIN asks
    BY <1>5, <2>2
  <2>4. c.label \in {"confirmed_good"} \cup failures
    BY <1>5, PolarityOf
  <2>5. strength(c.label) > 0 <=> c.label = "confirmed_good"
    <3>1. "confirmed_good" \notin failures
      BY DEF failures
    <3> QED
      BY <2>4, <3>1, PolarityOf
  <2> QED
    BY <1>4, <2>1, <2>3, <2>4, <2>5
<1> HIDE DEF s0
<1>6. \A s \in signals' :
        /\ s.ask \in DOMAIN asks /\ s.label \in held.ever[asks[s.ask]]
        /\ s.label \in {"confirmed_good"} \cup failures
        /\ s.strength > 0 <=> s.label = "confirmed_good"
  BY <1>1, <1>5 DEF SharedInv
<1> QED
  BY <1>1, <1>2, <1>3, <1>6 DEF SharedInv

LEMMA ThrowsInv == ASSUME SharedInv, NEW c \in pending, CallThrows(c) PROVE SharedInv'
<1>1. /\ pending' = pending \ {c}
      /\ UNCHANGED <<materials, belief, asks, signals, askIds, retrieval, held, made>>
  BY DEF CallThrows, agenticMind
<1>2. IsFiniteSet(pending') /\ made' \in Cardinality(pending')..MaxCalls
  BY <1>1, AnswerCounts
<1>3. SharedTypeOK'
  BY <1>1, <1>2 DEF SharedInv, SharedTypeOK
<1> QED
  BY <1>1, <1>2, <1>3 DEF SharedInv

LEMMA RestartInv == ASSUME SharedInv, AdapterRestart PROVE SharedInv'
<1>1. /\ askIds' = [i \in Owned |-> 0] /\ pending' = {} /\ retrieval' = <<>>
      /\ held' = [held EXCEPT !.lately = [i \in Owned |-> {}]]
      /\ UNCHANGED <<materials, belief, asks, signals, made>>
  BY DEF AdapterRestart, agenticMind
<1>2. IsFiniteSet(pending') /\ Cardinality(pending') = 0
  BY <1>1, FS_EmptySet
<1>3. made \in 0..MaxCalls /\ Len(asks) \in Nat
  BY FS_CardinalityType, CallAssumption DEF SharedInv, SharedTypeOK
<1>4. SharedTypeOK'
  BY <1>1, <1>2, <1>3 DEF SharedInv, SharedTypeOK
<1>5. /\ held'.ever = held.ever
      /\ held' \in [ever : [Owned -> SUBSET SetLabels], lately : [Owned -> SUBSET (SetLabels \cup {"none"})]]
  BY <1>1 DEF SharedInv
<1> QED
  BY <1>1, <1>2, <1>4, <1>5 DEF SharedInv

-----------------------------------------------------------------------------
(* The shared memory: reading.                                             *)

LEMMA SearchInv == ASSUME SharedInv, NEW score \in Scores, retrieveSimilar(score) PROVE SharedInv'
<1>1. /\ retrieval' = [hits |-> {m \in DOMAIN materials \cap DOMAIN score : parseShoTitle(m)},
                       score |-> score, labels |-> <<>>]
      /\ held' = [held EXCEPT !.lately = [i \in Owned |-> {belief[i]}]]
      /\ UNCHANGED <<materials, belief, asks, signals, askIds, pending, made>>
  BY DEF retrieveSimilar, agenticMind
<1>2. /\ retrieval' = [hits |-> retrieval'.hits, score |-> retrieval'.score, labels |-> retrieval'.labels]
      /\ retrieval'.hits \subseteq {m \in DOMAIN materials : materials[m] # Foreign}
      /\ retrieval'.score = score /\ retrieval'.hits \subseteq DOMAIN score
      /\ DOMAIN retrieval'.labels = {}
  BY <1>1 DEF parseShoTitle
<1>3. SharedTypeOK'
  BY <1>1, <1>2 DEF SharedInv, SharedTypeOK
<1>4. belief \in [Owned -> SetLabels \cup {"none"}]
  BY DEF SharedInv, SharedTypeOK
<1>5. /\ held'.ever = held.ever /\ \A i \in Owned : held'.lately[i] = {belief[i]}
      /\ held' \in [ever : [Owned -> SUBSET SetLabels], lately : [Owned -> SUBSET (SetLabels \cup {"none"})]]
  BY <1>1, <1>4 DEF SharedInv
<1> QED
  BY <1>1, <1>2, <1>3, <1>5 DEF SharedInv

LEMMA RecallInv ==
  ASSUME SharedInv, NEW m \in DOMAIN materials, currentOutcomeLabel(m) PROVE SharedInv'
<1> DEFINE known == DOMAIN retrieval.labels \cup {m}
           labels == [n \in known |-> IF n = m THEN belief[materials[m]] ELSE retrieval.labels[n]]
<1>1. /\ retrieval # <<>> /\ m \in retrieval.hits
      /\ retrieval' = [retrieval EXCEPT !.labels = labels]
      /\ UNCHANGED <<materials, belief, asks, signals, askIds, pending, held, made>>
  BY DEF currentOutcomeLabel, agenticMind
<1>2. /\ retrieval = [hits |-> retrieval.hits, score |-> retrieval.score, labels |-> retrieval.labels]
      /\ DOMAIN retrieval.labels \subseteq retrieval.hits
      /\ retrieval.hits \subseteq {n \in DOMAIN materials : materials[n] # Foreign}
      /\ retrieval.score \in Scores /\ retrieval.hits \subseteq DOMAIN retrieval.score
      /\ \A i \in Owned : belief[i] \in held.lately[i]
      /\ \A n \in DOMAIN retrieval.labels : retrieval.labels[n] \in held.lately[materials[n]]
      /\ materials \in Seq(Owned \cup {Foreign})
  BY <1>1 DEF SharedInv, SharedTypeOK
<1>3. \A n \in known : labels[n] \in held.lately[materials[n]]
  BY <1>1, <1>2
<1>4. DOMAIN labels = known
  OBVIOUS
<1> HIDE DEF labels, known
<1>5. retrieval' = [hits |-> retrieval.hits, score |-> retrieval.score, labels |-> labels]
  BY <1>1, <1>2
<1>6. /\ retrieval' = [hits |-> retrieval'.hits, score |-> retrieval'.score, labels |-> retrieval'.labels]
      /\ retrieval'.hits = retrieval.hits /\ retrieval'.score = retrieval.score
      /\ retrieval'.labels = labels
  BY <1>5
<1>7. known \subseteq retrieval.hits
  BY <1>1, <1>2 DEF known
<1>8. SharedTypeOK'
  BY <1>1, <1>4, <1>6, <1>7 DEF SharedInv, SharedTypeOK
<1> QED
  BY <1>1, <1>2, <1>3, <1>4, <1>6, <1>8 DEF SharedInv

LEMMA EndInv == ASSUME SharedInv, RetrievalEnd PROVE SharedInv'
<1>1. /\ retrieval' = <<>> /\ held' = [held EXCEPT !.lately = [i \in Owned |-> {}]]
      /\ UNCHANGED <<materials, belief, asks, signals, askIds, pending, made>>
  BY DEF RetrievalEnd, agenticMind
<1>2. /\ held'.ever = held.ever
      /\ held' \in [ever : [Owned -> SUBSET SetLabels], lately : [Owned -> SUBSET (SetLabels \cup {"none"})]]
  BY <1>1 DEF SharedInv
<1>3. SharedTypeOK'
  BY <1>1 DEF SharedInv, SharedTypeOK
<1> QED
  BY <1>1, <1>2, <1>3 DEF SharedInv

LEMMA SharedNext == SharedInv /\ [Next]_vars => SharedInv'
<1> SUFFICES ASSUME SharedInv, [Next]_vars PROVE SharedInv'
  OBVIOUS
<1>1. CASE UNCHANGED sharedVars
  BY <1>1 DEF SharedInv, SharedTypeOK, sharedVars
<1>2. CASE SharedStep
  <2>1. ASSUME NEW i \in Owned, recordIncident(i) PROVE SharedInv'
    BY <2>1, IngestInv DEF recordIncident
  <2>2. CASE ForeignMaterial
    BY <2>2, IngestInv DEF ForeignMaterial
  <2> QED
    BY <1>2, <2>1, <2>2, AskInv, AnsweredInv, LabelInv, SignalInv, ThrowsInv, RestartInv,
       SearchInv, RecallInv, EndInv DEF SharedStep
<1> QED
  BY <1>1, <1>2 DEF Next, vars, MergeSignal, MergeEnd, Diagnose, HandOver, Repair, JudgeTest, Remember

-----------------------------------------------------------------------------
(* The shared memory: the first k of a stable sort.                        *)

\* The members of S that come before m.
ahead(S, rank, m) == {n \in S : \/ rank[n] > rank[m]
                                \/ rank[n] = rank[m] /\ n < m}

LEMMA FirstIs ==
  ASSUME NEW S, NEW rank, NEW k
  PROVE  first(S, rank, k) = {m \in S : Cardinality(ahead(S, rank, m)) < k}
BY Zenon DEF first, ahead

LEMMA AheadCounts ==
  ASSUME NEW S, IsFiniteSet(S), S \subseteq Nat, NEW rank, \A m \in S : rank[m] \in Int
  PROVE  /\ Cardinality(S) \in Nat
         /\ \A m \in S : m \notin ahead(S, rank, m)
         /\ \A m \in S : Cardinality(ahead(S, rank, m)) \in 0..(Cardinality(S) - 1)
         /\ \A m, n \in S : n \in ahead(S, rank, m) =>
               Cardinality(ahead(S, rank, n)) < Cardinality(ahead(S, rank, m))
         /\ \A m, n \in S : m = n \/ n \in ahead(S, rank, m) \/ m \in ahead(S, rank, n)
<1>1. Cardinality(S) \in Nat
  BY FS_CardinalityType
<1>2. ASSUME NEW U, U \subseteq S, NEW x \in U, NEW V, V \subseteq U, x \notin V
      PROVE  /\ Cardinality(V) < Cardinality(U)
             /\ Cardinality(V) \in Nat /\ Cardinality(U) \in Nat
  <2>1. IsFiniteSet(U)
    BY <1>2, FS_Subset
  <2>2. IsFiniteSet(V) /\ Cardinality(V) <= Cardinality(U) /\ Cardinality(V) # Cardinality(U)
    BY <1>2, <2>1, FS_Subset
  <2> QED
    BY <2>1, <2>2, FS_CardinalityType
<1>3. \A m \in S : ahead(S, rank, m) \subseteq S /\ m \notin ahead(S, rank, m)
  BY DEF ahead
<1>4. ASSUME NEW m \in S PROVE Cardinality(ahead(S, rank, m)) \in 0..(Cardinality(S) - 1)
  <2>1. Cardinality(ahead(S, rank, m)) < Cardinality(S) /\ Cardinality(ahead(S, rank, m)) \in Nat
    BY <1>2, <1>3
  <2> QED
    BY <1>1, <2>1
<1>5. ASSUME NEW m \in S, NEW n \in S, n \in ahead(S, rank, m)
      PROVE  Cardinality(ahead(S, rank, n)) < Cardinality(ahead(S, rank, m))
  <2>1. n \notin ahead(S, rank, n)
    BY <1>3
  <2>2. ASSUME NEW p \in ahead(S, rank, n) PROVE p \in ahead(S, rank, m)
    <3>1. p \in S /\ rank[p] \in Int /\ rank[n] \in Int /\ rank[m] \in Int
      BY <2>2 DEF ahead
    <3>2. p \in Nat /\ n \in Nat /\ m \in Nat
      BY <3>1
    <3> QED
      BY <1>5, <2>2, <3>1, <3>2 DEF ahead
  <2> QED
    BY <1>2, <1>3, <1>5, <2>1, <2>2
<1>6. ASSUME NEW m \in S, NEW n \in S, m # n PROVE n \in ahead(S, rank, m) \/ m \in ahead(S, rank, n)
  BY <1>6 DEF ahead
<1> QED
  BY <1>1, <1>3, <1>4, <1>5, <1>6

LEMMA CountTo == ASSUME NEW n \in Nat PROVE IsFiniteSet(1..n) /\ Cardinality(1..n) = n
BY FS_Interval

LEMMA CountBelow == ASSUME NEW k \in Nat PROVE IsFiniteSet(0..(k - 1)) /\ Cardinality(0..(k - 1)) = k
BY FS_Interval

\* When somebody is left out there are k of them, all before who is left out.
LEMMA FirstCount ==
  ASSUME NEW S, IsFiniteSet(S), S \subseteq Nat, NEW rank, \A m \in S : rank[m] \in Int,
         NEW k \in Nat, NEW out \in S, out \notin first(S, rank, k)
  PROVE  /\ Cardinality(first(S, rank, k)) = k
         /\ \A m \in first(S, rank, k) : m \in S /\ rank[m] >= rank[out]
<1> DEFINE n == Cardinality(S)
           place == [m \in S |-> Cardinality(ahead(S, rank, m))]
           F == first(S, rank, k)
           f == [m \in F |-> place[m]]
<1>1. /\ n \in Nat
      /\ \A m \in S : place[m] \in 0..(n - 1)
      /\ \A m, q \in S : q \in ahead(S, rank, m) => place[q] < place[m]
      /\ \A m, q \in S : m = q \/ q \in ahead(S, rank, m) \/ m \in ahead(S, rank, q)
  BY AheadCounts
<1>2. IsFiniteSet(0..(n - 1)) /\ Cardinality(0..(n - 1)) = n
  BY <1>1, CountBelow
<1>3. place \in Injection(S, 0..(n - 1))
  <2> HIDE DEF n
  <2>1. ASSUME NEW m \in S, NEW q \in S, place[m] = place[q] PROVE m = q
    <3>1. place[m] \in Int /\ place[q] \in Int
      BY <1>1
    <3>2. ~(place[m] < place[q]) /\ ~(place[q] < place[m])
      BY <2>1, <3>1
    <3> QED
      BY <1>1, <3>2, Zenon
  <2> QED
    BY <1>1, <2>1 DEF Injection, IsInjective
<1>4. place \in Surjection(S, 0..(n - 1))
  BY <1>1, <1>2, <1>3, FS_Injection
<1>5. F = {m \in S : place[m] < k}
  BY FirstIs
<1>6. place[out] \in 0..(n - 1) /\ place[out] >= k
  BY <1>1, <1>5
<1>7. k <= n /\ \A x \in 0..(k - 1) : x \in 0..(n - 1) /\ x < k
  BY <1>1, <1>6
<1>8. ASSUME NEW m \in F PROVE m \in S /\ rank[m] >= rank[out]
  <2>1. m \in S /\ place[m] < k /\ place[m] \in 0..(n - 1)
    BY <1>1, <1>5
  <2>2. ~(place[out] < place[m]) /\ m # out
    BY <1>6, <2>1
  <2>3. m \in ahead(S, rank, out)
    BY <1>1, <2>1, <2>2, Zenon
  <2> QED
    BY <2>1, <2>3 DEF ahead
<1> HIDE DEF place, n
<1>9. f \in [F -> 0..(k - 1)]
  <2>1. ASSUME NEW m \in F PROVE place[m] \in 0..(k - 1)
    <3>1. place[m] \in 0..(n - 1) /\ place[m] < k
      BY <1>1, <1>5
    <3> QED
      BY <1>1, <3>1
  <2> QED
    BY <2>1
<1>10. f \in Injection(F, 0..(k - 1))
  BY <1>3, <1>5, <1>9 DEF Injection, IsInjective
<1>11. f \in Surjection(F, 0..(k - 1))
  <2>1. ASSUME NEW x \in 0..(k - 1) PROVE \E m \in F : f[m] = x
    <3>1. x \in 0..(n - 1) /\ x < k
      BY <1>7
    <3>2. PICK m \in S : place[m] = x
      BY <1>4, <3>1 DEF Surjection
    <3> QED
      BY <1>5, <3>1, <3>2
  <2> QED
    BY <1>9, <2>1 DEF Surjection
<1>12. IsFiniteSet(0..(k - 1)) /\ Cardinality(0..(k - 1)) = k
  BY CountBelow
<1> HIDE DEF f, F
<1>13. Cardinality(F) = k
  BY <1>10, <1>11, <1>12, FS_Injection
<1> QED
  BY <1>8, <1>13 DEF F

-----------------------------------------------------------------------------
(* The shared memory: what a retrieval answers.                            *)

LEMMA BlocksAreHonest ==
  ASSUME SharedInv, retrieval # <<>>, DOMAIN retrieval.labels = retrieval.hits
  PROVE  LET got == blocks(retrieval)
             during(m) == held.lately[materials[m]]
         IN  /\ \A m \in retrieval.hits : materials[m] \in Owned
             /\ \A m \in got.exemplars : during(m) \ (failures \cup {"superseded"}) # {}
             /\ \A m \in got.antiPatterns : during(m) \cap failures # {}
             /\ \A m \in retrieval.hits \ got.antiPatterns :
                  during(m) \subseteq failures => Cardinality(got.antiPatterns) = kShared.neg
             /\ \A m \in retrieval.hits \ got.exemplars, n \in got.exemplars :
                  during(m) = {"confirmed_good"} /\ "confirmed_good" \notin during(n) =>
                    retrieval.score[m] < retrieval.score[n]
<1> DEFINE hits == retrieval.hits
           label(m) == retrieval.labels[m]
           score == retrieval.score
           good == {m \in hits : polarity(label(m)) \in {"exemplar", "weak"}}
           bad == {m \in hits : polarity(label(m)) \in {"anti-pattern"}}
           positive == [m \in hits |-> score[m] * strength(label(m))]
           got == blocks(retrieval)
           during(m) == held.lately[materials[m]]
<1>1. /\ got.exemplars = first(good, positive, kShared.pos)
      /\ got.antiPatterns = first(bad, score, kShared.neg)
  BY DEF blocks
<1> HIDE DEF got
<1>2. /\ \A m \in hits : /\ materials[m] \in Owned /\ label(m) \in during(m)
                         /\ score[m] \in Nat \ {0} /\ m \in Nat
      /\ IsFiniteSet(hits)
  <2>1. /\ materials \in Seq(Owned \cup {Foreign}) /\ score \in Seq(Nat \ {0})
        /\ hits \subseteq {m \in DOMAIN materials : materials[m] # Foreign}
        /\ hits \subseteq DOMAIN score /\ \A m \in hits : label(m) \in during(m)
    BY ScoreAssumption DEF SharedInv, SharedTypeOK
  <2>2. IsFiniteSet(1..Len(score)) /\ hits \subseteq 1..Len(score)
    BY <2>1, FS_Interval
  <2>3. IsFiniteSet(hits)
    BY <2>2, FS_Subset
  <2> QED
    BY <2>1, <2>2, <2>3
<1>3. kShared.pos \in Nat /\ kShared.neg \in Nat
  BY BlockAssumption
<1>4. got.exemplars \subseteq good /\ got.antiPatterns \subseteq bad
  BY <1>1, FirstIs
<1>5. /\ IsFiniteSet(good) /\ good \subseteq Nat /\ IsFiniteSet(bad) /\ bad \subseteq Nat
  BY <1>2, FS_Subset
<1>6. \A m \in hits : /\ label(m) \in failures <=> m \in bad
                      /\ label(m) = "confirmed_good" => m \in good
                      /\ m \in good => label(m) \notin failures \cup {"superseded"}
  BY PolarityOf
<1>7. \A m \in good : /\ positive[m] \in Int /\ positive[m] = score[m] * strength(label(m))
                      /\ label(m) = "confirmed_good" => strength(label(m)) = 100
                      /\ label(m) # "confirmed_good" => strength(label(m)) \in {35, 50, 55}
  BY <1>2, PolarityOf
<1> HIDE DEF positive, good, bad
<1>8. ASSUME NEW m \in hits \ got.antiPatterns, during(m) \subseteq failures
      PROVE  Cardinality(got.antiPatterns) = kShared.neg
  <2>1. m \in bad
    BY <1>2, <1>6, <1>8
  <2>2. \A q \in bad : score[q] \in Int
    BY <1>2 DEF bad
  <2>3. m \notin first(bad, score, kShared.neg)
    BY <1>1, <1>8
  <2> HIDE DEF score
  <2>4. Cardinality(first(bad, score, kShared.neg)) = kShared.neg
    BY <1>3, <1>5, <2>1, <2>2, <2>3, FirstCount
  <2> QED
    BY <1>1, <2>4
<1>9. ASSUME NEW m \in hits \ got.exemplars, NEW n \in got.exemplars,
             during(m) = {"confirmed_good"}, "confirmed_good" \notin during(n)
      PROVE  score[m] < score[n]
  <2>1. label(m) = "confirmed_good" /\ m \in good
    BY <1>2, <1>6, <1>9
  <2>2. n \in good /\ n \in hits /\ label(n) # "confirmed_good"
    BY <1>2, <1>4, <1>9 DEF good
  <2>3. positive[n] >= positive[m]
    <3>1. m \notin first(good, positive, kShared.pos) /\ n \in first(good, positive, kShared.pos)
      BY <1>1, <1>9
    <3>2. \A q \in good : positive[q] \in Int
      BY <1>7
    <3> QED
      BY <1>3, <1>5, <2>1, <3>1, <3>2, FirstCount
  <2>4. positive[m] = score[m] * 100 /\ \E w \in {35, 50, 55} : positive[n] = score[n] * w
    BY <1>7, <2>1, <2>2
  <2>5. score[m] \in Nat \ {0} /\ score[n] \in Nat \ {0}
    BY <1>2, <2>2
  <2> QED
    BY <2>3, <2>4, <2>5
<1>10. \A m \in got.exemplars : during(m) \ (failures \cup {"superseded"}) # {}
  BY <1>2, <1>4, <1>6 DEF good
<1>11. \A m \in got.antiPatterns : during(m) \cap failures # {}
  BY <1>2, <1>4, <1>6 DEF bad
<1> QED
  BY <1>2, <1>8, <1>9, <1>10, <1>11, Zenon DEF got

\* Whatever calls overlap, throw or are forgotten: an ask is rewarded or
\* punished only for a final label its own incident really got, and a retrieval
\* offers and warns of nothing the labels of the while do not bear out.
THEOREM PrecedentsStayHonest == Spec => []PrecedentsAreHonest
<1>1. SharedInv => PrecedentsAreHonest
  <2> SUFFICES ASSUME SharedInv PROVE PrecedentsAreHonest
    OBVIOUS
  <2>1. \A s \in signals :
          /\ s.label \in held.ever[asks[s.ask]] /\ s.label \in {"confirmed_good"} \cup failures
          /\ s.strength > 0 <=> s.label = "confirmed_good"
    BY DEF SharedInv
  <2> QED
    BY <2>1, BlocksAreHonest, Zenon DEF PrecedentsAreHonest
<1> QED
  BY <1>1, SharedInit, SharedNext, PTL DEF Spec

-----------------------------------------------------------------------------
(* The union-find forest: a chain of parents exists, and stays inside.     *)

\* The chain of parents from x, as long as one likes.
chain(forest, x, n) ==
  CHOOSE up : up = [i \in 0..n |-> IF i = 0 THEN x ELSE forest[up[i - 1]]]

climbs(c, forest, D, x, n) ==
  /\ c \in [0..n -> D] /\ c[0] = x
  /\ \A i \in 1..n : c[i] = forest[c[i - 1]]

LEMMA FindIs ==
  ASSUME NEW forest, NEW x
  PROVE  find(forest, x) = chain(forest, x, Cardinality(DOMAIN forest))[Cardinality(DOMAIN forest)]
BY Zenon DEF find, chain

LEMMA ChainIs ==
  ASSUME NEW forest, NEW D, forest \in [D -> D], NEW x \in D, NEW n \in Nat
  PROVE  climbs(chain(forest, x, n), forest, D, x, n)
<1> DEFINE isChain(up, k) == up = [i \in 0..k |-> IF i = 0 THEN x ELSE forest[up[i - 1]]]
           without == {k \in Nat : ~\E up : isChain(up, k) /\ up \in [0..k -> D]}
<1>1. without = {}
  <2> SUFFICES ASSUME without # {} PROVE FALSE
    OBVIOUS
  <2>1. PICK k \in without : \A j \in without : k <= j
    <3>1. without \subseteq Nat
      OBVIOUS
    <3> QED
      BY <3>1, LeastNat
  <2>2. k \in Nat /\ k # 0
    <3> DEFINE up == [i \in 0..0 |-> x]
    <3>1. isChain(up, 0) /\ up \in [0..0 -> D]
      OBVIOUS
    <3> QED
      BY <3>1
  <2>3. k - 1 \in Nat /\ k - 1 \notin without
    <3>1. k - 1 \in Nat /\ ~(k <= k - 1)
      BY <2>2
    <3> HIDE DEF without
    <3> QED
      BY <2>1, <3>1
  <2>4. PICK up : isChain(up, k - 1) /\ up \in [0..(k - 1) -> D]
    BY <2>3
  <2> DEFINE longer == [i \in 0..k |-> IF i = 0 THEN x ELSE forest[up[i - 1]]]
  <2>5. longer \in [0..k -> D]
    <3>1. ASSUME NEW i \in 0..k, i # 0 PROVE forest[up[i - 1]] \in D
      <4>1. i - 1 \in 0..(k - 1)
        BY <2>2, <3>1
      <4> QED
        BY <2>4, <4>1
    <3> QED
      BY <3>1
  <2>6. \A i \in 0..(k - 1) : longer[i] = up[i]
    BY <2>3, <2>4
  <2>7. isChain(longer, k)
    <3>1. \A i \in 0..k : i # 0 => i - 1 \in 0..(k - 1) /\ longer[i - 1] = up[i - 1]
      <4> HIDE DEF longer
      <4>1. \A i \in 0..k : i # 0 => i - 1 \in 0..(k - 1)
        BY <2>2
      <4> QED
        BY <2>6, <4>1
    <3>2. \A i \in 0..k : (IF i = 0 THEN x ELSE forest[up[i - 1]])
                           = (IF i = 0 THEN x ELSE forest[longer[i - 1]])
      <4> HIDE DEF longer
      <4> QED
        BY <3>1
    <3> QED
      BY <3>2, Zenon
  <2> QED
    BY <2>1, <2>5, <2>7
<1>2. PICK up : isChain(up, n) /\ up \in [0..n -> D]
  BY <1>1
<1>3. isChain(chain(forest, x, n), n)
  BY <1>2, Zenon DEF chain
<1> DEFINE c == chain(forest, x, n)
<1>4. /\ c[0] = x /\ DOMAIN c = 0..n /\ c = [i \in 0..n |-> c[i]]
      /\ \A i \in 1..n : c[i] = forest[c[i - 1]]
  BY <1>3
<1> HIDE DEF c
<1> DEFINE outside == {i \in 0..n : c[i] \notin D}
<1>5. outside = {}
  <2> SUFFICES ASSUME outside # {} PROVE FALSE
    OBVIOUS
  <2>1. PICK i \in outside : \A j \in outside : i <= j
    <3>1. outside \subseteq Nat
      OBVIOUS
    <3> QED
      BY <3>1, LeastNat
  <2>2. i # 0 /\ i \in 1..n
    BY <1>4, <2>1
  <2>3. i - 1 \in 0..n /\ i - 1 \notin outside
    BY <2>1, <2>2
  <2> QED
    BY <1>4, <2>1, <2>2, <2>3
<1>6. climbs(c, forest, D, x, n)
  BY <1>4, <1>5 DEF climbs
<1> QED
  BY <1>6 DEF c

LEMMA FindIn ==
  ASSUME NEW D, IsFiniteSet(D), NEW forest \in [D -> D], NEW x \in D
  PROVE  find(forest, x) \in D
<1>1. Cardinality(D) \in Nat /\ DOMAIN forest = D
  BY FS_CardinalityType
<1> QED
  BY <1>1, FindIs, ChainIs DEF climbs

-----------------------------------------------------------------------------
(* The types, and that one part is at work.                                *)

\* The forest has a finite domain.
MergeInv == AggregationTypeOK /\ IsFiniteSet(DOMAIN parent)

LEMMA MergeStep == ASSUME MergeInv, NEW s \in Signals, Merge(s) PROVE MergeInv'
<1> DEFINE known == DOMAIN parent \cup keys(s)
           entered == [k \in known |-> IF k \in DOMAIN parent THEN parent[k] ELSE k]
           a == find(entered, fingerprint(s))
           b == find(entered, symptomSignature(s))
<1>1. /\ Len(stream) < MaxSignals /\ stream' = Append(stream, s)
      /\ parent' = [entered EXCEPT ![a] = b]
  BY DEF Merge, union
<1>2. stream \in Seq(Signals) /\ Len(stream) <= MaxSignals
  BY DEF MergeInv, AggregationTypeOK
<1>3. /\ IsFiniteSet(known) /\ fingerprint(s) \in known /\ symptomSignature(s) \in known
  <2>1. fingerprint(s) \in keys(s) /\ symptomSignature(s) \in keys(s)
    BY DEF keys
  <2>2. IsFiniteSet(keys(s))
    <3>1. \A p, q : IsFiniteSet({p} \cup {q})
      BY FS_Singleton, FS_Union
    <3>2. keys(s) = {fingerprint(s)} \cup {symptomSignature(s)}
      BY Zenon DEF keys
    <3> QED
      BY <3>1, <3>2, Zenon
  <2> QED
    BY <2>1, <2>2, FS_Union DEF MergeInv
<1>4. entered \in [known -> known]
  BY DEF MergeInv, AggregationTypeOK
<1> HIDE DEF known, entered
<1>5. a \in known /\ b \in known
  BY <1>3, <1>4, FindIn
<1>6. DOMAIN parent' = known /\ \A k \in DOMAIN parent' : parent'[k] \in DOMAIN parent'
  BY <1>1, <1>4, <1>5
<1>7. stream' \in Seq(Signals) /\ Len(stream') <= MaxSignals
  BY <1>1, <1>2, SignalAssumption
<1>8. known = UNION {keys(t) : t \in ToSet(stream')}
  <2>1. ToSet(stream') = ToSet(stream) \cup {s}
    BY <1>1, <1>2 DEF ToSet
  <2>2. DOMAIN parent = UNION {keys(t) : t \in ToSet(stream)}
    BY DEF MergeInv, AggregationTypeOK
  <2> QED
    BY <2>1, <2>2 DEF known
<1> QED
  BY <1>3, <1>6, <1>7, <1>8 DEF MergeInv, AggregationTypeOK

LEMMA MergeNext == MergeInv /\ [Next]_vars => MergeInv'
<1> SUFFICES ASSUME MergeInv, [Next]_vars PROVE MergeInv'
  OBVIOUS
<1>1. CASE UNCHANGED aggregationVars
  BY <1>1 DEF MergeInv, AggregationTypeOK, aggregationVars
<1>2. ASSUME NEW s \in Signals, MergeSignal(s) PROVE MergeInv'
  BY <1>2, MergeStep DEF MergeSignal
<1>3. CASE MergeEnd
  <2>1. stream' = <<>> /\ parent' = <<>>
    BY <1>3 DEF MergeEnd
  <2>2. ToSet(stream') = {} /\ DOMAIN parent' = {} /\ IsFiniteSet({})
    BY <2>1, FS_EmptySet DEF ToSet
  <2> QED
    BY <2>1, <2>2, SignalAssumption DEF MergeInv, AggregationTypeOK
<1> QED
  BY <1>1, <1>2, <1>3 DEF Next, vars, Diagnose, HandOver, Repair, JudgeTest, Remember

LEMMA MergeInit == Init => MergeInv
<1> SUFFICES ASSUME AggregationIdle PROVE MergeInv
  BY DEF Init
<1>1. ToSet(stream) = {} /\ DOMAIN parent = {} /\ IsFiniteSet({})
  BY FS_EmptySet DEF ToSet, AggregationIdle
<1> QED
  BY <1>1, SignalAssumption DEF MergeInv, AggregationTypeOK, AggregationIdle

LEMMA FlakyTypes == FlakyTypeOK /\ [Next]_vars => FlakyTypeOK'
<1> SUFFICES ASSUME FlakyTypeOK, [Next]_vars PROVE FlakyTypeOK'
  OBVIOUS
<1> USE DEF FlakyTypeOK
<1>1. CASE UNCHANGED flakyVars
  BY <1>1 DEF flakyVars
<1>2. CASE FlakyStep
  <2>1. ASSUME NEW o \in Outcomes, NEW t \in TestFiles, runTestOnce(o, t) PROVE FlakyTypeOK'
    BY <2>1, RerunsAssumption DEF runTestOnce
  <2>2. ASSUME NEW o \in Outcomes, Rerun(o) PROVE FlakyTypeOK'
    BY <2>2, RerunsAssumption DEF Rerun
  <2>3. CASE Classify
    BY <2>3 DEF Classify, classify
  <2>4. CASE quarantineTest
    BY <2>4 DEF quarantineTest
  <2>5. CASE FlakyEnd
    BY <2>5, RerunsAssumption DEF FlakyEnd
  <2> QED
    BY <1>2, <2>1, <2>2, <2>3, <2>4, <2>5 DEF FlakyStep
<1> QED
  BY <1>1, <1>2 DEF Next, vars, MergeSignal, MergeEnd, Diagnose, HandOver, Repair, JudgeTest, Remember

PgStages == {"idle", "opened", "declined", "proposed", "ranOnParent", "applied", "staged",
             "blocked", "screened", "crashed", "passed", "rejected",
             "ciSkipped", "ciTestsOnly", "ciPassed", "ciRejected"}

LEMMA PgStageStep == pgStage \in PgStages /\ [Next]_vars => pgStage' \in PgStages
<1> SUFFICES ASSUME pgStage \in PgStages, [Next]_vars PROVE pgStage' \in PgStages
  OBVIOUS
<1> USE DEF PgStages
<1>1. CASE UNCHANGED pgVars
  BY <1>1 DEF pgVars
<1>2. CASE PgStep
  <2>1. CASE CiGate
    BY <2>1 DEF CiGate, ciVerdict
  <2> QED
    BY <1>2, <2>1 DEF PgStep, AuthorFails, AuthorPatch, RunOnParent, ApplyDiff, CommitAndRun, Screen,
       RunGate, GateFails, PgEnd
<1>3. CASE HandOver
  BY <1>3 DEF HandOver
<1> QED
  BY <1>1, <1>2, <1>3 DEF Next, vars, MergeSignal, MergeEnd, Diagnose, Repair, JudgeTest, Remember

LEMMA PgTypes == PatchInv /\ AuditInv /\ pgStage \in PgStages => PgTypeOK
<1> SUFFICES ASSUME PatchInv, AuditInv, pgStage \in {"staged", "screened"}
             PROVE  staged.sourceFiles \subseteq staged.touchedPaths /\ staged.sourceFiles # {}
  BY DEF AuditInv, PgTypeOK, PgStages
<1>1. /\ staged.sourceFiles = sourceFiles(patch) /\ staged.touchedPaths = touchedPaths(patch)
      /\ patch \in Patches /\ patch.usable
  BY DEF PatchInv, AuditInv
<1>2. plainly(patch.declared) # {}
  BY <1>1, PatchAssumption DEF plainly
<1> QED
  BY <1>1, <1>2 DEF sourceFiles, touchedPaths, plainly

\* Everything but one part is at rest.
OneAtWork == \E part \in DOMAIN atRest : only(part)

LEMMA OnlyIs ==
  ASSUME NEW m, NEW d, NEW r, NEW j, NEW s
  PROVE  LET rest == [merging |-> m, diagnosing |-> d, repairing |-> r, judging |-> j, remembering |-> s]
         IN  /\ (\A p \in DOMAIN rest \ {"merging"} : rest[p]) <=> (d /\ r /\ j /\ s)
             /\ (\A p \in DOMAIN rest \ {"diagnosing"} : rest[p]) <=> (m /\ r /\ j /\ s)
             /\ (\A p \in DOMAIN rest \ {"repairing"} : rest[p]) <=> (m /\ d /\ j /\ s)
             /\ (\A p \in DOMAIN rest \ {"judging"} : rest[p]) <=> (m /\ d /\ r /\ s)
             /\ (\A p \in DOMAIN rest \ {"remembering"} : rest[p]) <=> (m /\ d /\ r /\ j)
             /\ DOMAIN rest = {"merging", "diagnosing", "repairing", "judging", "remembering"}
OBVIOUS

\* The number of parts at work, spelled out.
AtMostOne(m, d, r, j, s) ==
  (d /\ r /\ j /\ s) \/ (m /\ r /\ j /\ s) \/ (m /\ d /\ j /\ s) \/ (m /\ d /\ r /\ s) \/ (m /\ d /\ r /\ j)

LEMMA OneOf ==
  ASSUME NEW m, NEW d, NEW r, NEW j, NEW s
  PROVE  LET rest == [merging |-> m, diagnosing |-> d, repairing |-> r, judging |-> j, remembering |-> s]
         IN  (\E part \in DOMAIN rest : \A p \in DOMAIN rest \ {part} : rest[p])
               <=> AtMostOne(m, d, r, j, s)
<1> DEFINE rest == [merging |-> m, diagnosing |-> d, repairing |-> r, judging |-> j, remembering |-> s]
           one(part) == \A p \in DOMAIN rest \ {part} : rest[p]
<1>1. /\ one("merging") <=> (d /\ r /\ j /\ s)
      /\ one("diagnosing") <=> (m /\ r /\ j /\ s)
      /\ one("repairing") <=> (m /\ d /\ j /\ s)
      /\ one("judging") <=> (m /\ d /\ r /\ s)
      /\ one("remembering") <=> (m /\ d /\ r /\ j)
      /\ DOMAIN rest = {"merging", "diagnosing", "repairing", "judging", "remembering"}
  BY OnlyIs
<1> HIDE DEF rest, one
<1>2. (\E part \in DOMAIN rest : one(part)) <=> AtMostOne(m, d, r, j, s)
  BY <1>1 DEF AtMostOne
<1> QED
  BY <1>2, Zenon DEF rest, one

LEMMA AtWorkStep == OneAtWork /\ [Next]_vars => OneAtWork'
<1> DEFINE some == AtMostOne(AggregationIdle, RcaIdle, PgIdle, FlakyIdle, SharedIdle)
           someNext == AtMostOne(AggregationIdle', RcaIdle', PgIdle', FlakyIdle', SharedIdle')
<1>1. OneAtWork <=> some
  BY OneOf, Zenon DEF OneAtWork, only, atRest
<1>2. OneAtWork' <=> someNext
  BY OneOf, Zenon DEF OneAtWork, only, atRest
<1>3. /\ only("merging") => RcaIdle /\ PgIdle /\ FlakyIdle /\ SharedIdle
      /\ only("diagnosing") => AggregationIdle /\ PgIdle /\ FlakyIdle /\ SharedIdle
      /\ only("repairing") => AggregationIdle /\ RcaIdle /\ FlakyIdle /\ SharedIdle
      /\ only("judging") => AggregationIdle /\ RcaIdle /\ PgIdle /\ SharedIdle
      /\ only("remembering") => AggregationIdle /\ RcaIdle /\ PgIdle /\ FlakyIdle
  <2>1. /\ atRest["merging"] <=> AggregationIdle
        /\ atRest["diagnosing"] <=> RcaIdle
        /\ atRest["repairing"] <=> PgIdle
        /\ atRest["judging"] <=> FlakyIdle
        /\ atRest["remembering"] <=> SharedIdle
    BY Zenon DEF atRest
  <2>2. DOMAIN atRest = {"merging", "diagnosing", "repairing", "judging", "remembering"}
    BY DEF atRest
  <2> QED
    BY <2>1, <2>2 DEF only
<1>4. /\ UNCHANGED aggregationVars => (AggregationIdle' <=> AggregationIdle)
      /\ UNCHANGED rcaVars => (RcaIdle' <=> RcaIdle)
      /\ UNCHANGED pgVars => (PgIdle' <=> PgIdle)
      /\ UNCHANGED flakyVars => (FlakyIdle' <=> FlakyIdle)
      /\ UNCHANGED sharedVars => (SharedIdle' <=> SharedIdle)
  BY DEF aggregationVars, rcaVars, pgVars, flakyVars, sharedVars,
     AggregationIdle, RcaIdle, PgIdle, FlakyIdle, SharedIdle
<1> SUFFICES ASSUME some, [Next]_vars PROVE someNext
  BY <1>1, <1>2
<1> USE DEF AtMostOne
<1>5. CASE UNCHANGED vars
  BY <1>4, <1>5, Zenon DEF vars
<1>6. ASSUME NEW s \in Signals, MergeSignal(s) PROVE someNext
  BY <1>3, <1>4, <1>6, Zenon DEF MergeSignal
<1>7. CASE MergeEnd
  <2>1. AggregationIdle'
    BY <1>7 DEF MergeEnd, AggregationIdle
  <2> QED
    BY <1>4, <1>7, <2>1, Zenon DEF MergeEnd
<1>8. CASE Diagnose
  BY <1>3, <1>4, <1>8, Zenon DEF Diagnose
<1>9. CASE HandOver
  <2>1. ~RcaIdle /\ RcaIdle'
    BY <1>9 DEF HandOver, Respond, RcaIdle
  <2> QED
    BY <1>4, <1>9, <2>1, Zenon DEF HandOver
<1>10. CASE Repair
  BY <1>3, <1>4, <1>10, Zenon DEF Repair
<1>11. CASE JudgeTest
  BY <1>3, <1>4, <1>11, Zenon DEF JudgeTest
<1>12. CASE Remember
  BY <1>3, <1>4, <1>12, Zenon DEF Remember
<1> QED
  BY <1>5, <1>6, <1>7, <1>8, <1>9, <1>10, <1>11, <1>12 DEF Next

\* Every part keeps its types, and while one is at work the others rest.
THEOREM PathTypes == Spec => []TypeOK
<1> DEFINE Inv == /\ MergeInv /\ RcaInv /\ PatchInv /\ AuditInv /\ pgStage \in PgStages
                  /\ FlakyTypeOK /\ SharedInv /\ OneAtWork
<1>1. Init => Inv
  <2> SUFFICES ASSUME Init PROVE Inv
    OBVIOUS
  <2>1. FlakyTypeOK
    BY RerunsAssumption DEF Init, FlakyIdle, FlakyTypeOK
  <2>2. pgStage \in PgStages
    BY DEF Init, PgIdle, PgStages
  <2>3. OneAtWork
    <3>1. AtMostOne(AggregationIdle, RcaIdle, PgIdle, FlakyIdle, SharedIdle)
      BY Zenon DEF Init, AtMostOne
    <3> QED
      BY <3>1, OneOf, Zenon DEF OneAtWork, only, atRest
  <2> QED
    BY <2>1, <2>2, <2>3, MergeInit, RcaInit, PatchInit, AuditInit, SharedInit
<1>2. Inv /\ [Next]_vars => Inv'
  BY MergeNext, RcaNext, PatchNext, AuditNext, PgStageStep, FlakyTypes, SharedNext, AtWorkStep
<1>3. Inv => TypeOK
  <2> SUFFICES ASSUME Inv PROVE TypeOK
    OBVIOUS
  <2>1. AggregationTypeOK /\ RcaTypeOK /\ FlakyTypeOK /\ SharedTypeOK
    BY DEF MergeInv, RcaInv, SharedInv
  <2>2. PgTypeOK
    BY PgTypes
  <2> QED
    BY <2>1, <2>2, Zenon DEF TypeOK, OneAtWork
<1> HIDE DEF Inv
<1> QED
  BY <1>1, <1>2, <1>3, PTL DEF Spec

-----------------------------------------------------------------------------
(* Sums over finite sets.                                                  *)

\* Whatever goes wrong for some part of a finite set goes wrong for a least one.
LEMMA LeastSet ==
  ASSUME NEW T, IsFiniteSet(T), NEW Bad, Bad \subseteq SUBSET T, Bad # {}
  PROVE  \E S \in Bad : IsFiniteSet(S) /\ \A U \in Bad : U \subseteq S => U = S
<1> DEFINE sizes == {Cardinality(S) : S \in Bad}
<1>1. \A S \in Bad : IsFiniteSet(S) /\ Cardinality(S) \in Nat
  BY FS_Subset, FS_CardinalityType
<1>2. sizes \subseteq Nat /\ sizes # {}
  BY <1>1
<1>3. PICK n \in sizes : \A k \in sizes : n <= k
  BY <1>2, LeastNat
<1>4. PICK S \in Bad : Cardinality(S) = n
  BY <1>3
<1>5. ASSUME NEW U \in Bad, U \subseteq S PROVE U = S
  <2>1. Cardinality(S) <= Cardinality(U)
    BY <1>3, <1>4
  <2>2. Cardinality(U) <= Cardinality(S) /\ (Cardinality(U) = Cardinality(S) => U = S)
    BY <1>1, <1>5, FS_Subset
  <2>3. Cardinality(S) \in Nat /\ Cardinality(U) \in Nat
    BY <1>1
  <2> QED
    BY <2>1, <2>2, <2>3
<1> QED
  BY <1>1, <1>5

\* The sum over every part of S, each part adding up what it chooses first.
pick(s) == CHOOSE x \in s : TRUE
sums(f, S) ==
  CHOOSE g : g = [s \in SUBSET S |-> IF s = {} THEN 0 ELSE f[pick(s)] + g[s \ {pick(s)}]]

LEMMA SumIs == ASSUME NEW f, NEW S PROVE SumFunctionOnSet(f, S) = sums(f, S)[S]
BY Zenon DEF SumFunctionOnSet, FoldFunctionOnSet, MapThenFoldSet, sums, pick

LEMMA PickIs == ASSUME NEW s, s # {} PROVE pick(s) \in s
BY DEF pick

\* There is such a function: it is built up by size.
LEMMA SumsExist ==
  ASSUME NEW T, IsFiniteSet(T), NEW f
  PROVE  sums(f, T) = [s \in SUBSET T |-> IF s = {} THEN 0
                                          ELSE f[pick(s)] + sums(f, T)[s \ {pick(s)}]]
<1> DEFINE upTo(n) == {s \in SUBSET T : Cardinality(s) <= n}
           adds(g, n) == g = [s \in upTo(n) |-> IF s = {} THEN 0 ELSE f[pick(s)] + g[s \ {pick(s)}]]
           without == {n \in Nat : ~\E g : adds(g, n)}
<1>1. \A s \in SUBSET T : IsFiniteSet(s) /\ Cardinality(s) \in Nat
  BY FS_Subset, FS_CardinalityType
<1>2. \A s \in SUBSET T : s # {} =>
        /\ pick(s) \in s /\ s \ {pick(s)} \in SUBSET T
        /\ Cardinality(s \ {pick(s)}) = Cardinality(s) - 1
  BY <1>1, PickIs, FS_RemoveElement
<1>3. without = {}
  <2> SUFFICES ASSUME without # {} PROVE FALSE
    OBVIOUS
  <2>1. PICK n \in without : \A k \in without : n <= k
    <3>1. without \subseteq Nat
      OBVIOUS
    <3> QED
      BY <3>1, LeastNat
  <2>2. n \in Nat /\ ~\E g : adds(g, n)
    BY <2>1
  <2>3. n # 0
    <3> DEFINE g == [s \in upTo(0) |-> 0]
    <3>1. \A s \in upTo(0) : s = {}
      BY <1>1, FS_EmptySet
    <3>2. adds(g, 0)
      BY <3>1
    <3> QED
      BY <2>2, <3>2
  <2>4. n - 1 \in Nat /\ n - 1 \notin without
    <3>1. n - 1 \in Nat /\ ~(n <= n - 1)
      BY <2>2, <2>3
    <3> HIDE DEF without
    <3> QED
      BY <2>1, <3>1
  <2>5. PICK g : adds(g, n - 1)
    BY <2>4
  <2> DEFINE more == [s \in upTo(n) |-> IF s = {} THEN 0 ELSE f[pick(s)] + g[s \ {pick(s)}]]
  <2>6. \A s \in upTo(n) : s # {} => s \ {pick(s)} \in upTo(n - 1)
    BY <1>1, <1>2, <2>2
  <2>7. upTo(n - 1) \subseteq upTo(n)
    BY <1>1, <2>2
  <2>8. \A s \in upTo(n - 1) : g[s] = IF s = {} THEN 0 ELSE f[pick(s)] + g[s \ {pick(s)}]
    BY <2>5
  <2> HIDE DEF upTo
  <2>9. \A s \in upTo(n - 1) : more[s] = g[s]
    BY <2>7, <2>8
  <2>10. \A s \in upTo(n) : (IF s = {} THEN 0 ELSE f[pick(s)] + g[s \ {pick(s)}])
                           = (IF s = {} THEN 0 ELSE f[pick(s)] + more[s \ {pick(s)}])
    <3> HIDE DEF more
    <3> QED
      BY <2>6, <2>9
  <2>11. adds(more, n)
    BY <2>10, Zenon
  <2> QED
    BY <2>2, <2>11
<1>4. upTo(Cardinality(T)) = SUBSET T /\ Cardinality(T) \in Nat
  BY FS_Subset, FS_CardinalityType
<1>5. \E g : adds(g, Cardinality(T))
  BY <1>3, <1>4
<1>6. \E g : g = [s \in SUBSET T |-> IF s = {} THEN 0 ELSE f[pick(s)] + g[s \ {pick(s)}]]
  BY <1>4, <1>5, Zenon
<1> QED
  BY <1>6, Zenon DEF sums

\* Adding up a part of T gives the same whether T is told or not.
LEMMA SumsAgree ==
  ASSUME NEW T, IsFiniteSet(T), NEW f, NEW S, S \subseteq T
  PROVE  SumFunctionOnSet(f, S) = sums(f, T)[S]
<1> DEFINE Bad == {s \in SUBSET S : sums(f, S)[s] # sums(f, T)[s]}
<1>1. IsFiniteSet(S)
  BY FS_Subset
<1>2. Bad = {}
  <2> SUFFICES ASSUME Bad # {} PROVE FALSE
    OBVIOUS
  <2>1. PICK s \in Bad : \A u \in Bad : u \subseteq s => u = s
    <3>1. Bad \subseteq SUBSET S
      OBVIOUS
    <3> HIDE DEF Bad
    <3> QED
      BY <1>1, <3>1, LeastSet
  <2>2. /\ sums(f, S)[s] = IF s = {} THEN 0 ELSE f[pick(s)] + sums(f, S)[s \ {pick(s)}]
        /\ sums(f, T)[s] = IF s = {} THEN 0 ELSE f[pick(s)] + sums(f, T)[s \ {pick(s)}]
    <3>1. s \in SUBSET S /\ s \in SUBSET T
      BY <2>1
    <3>2. /\ sums(f, S) = [u \in SUBSET S |-> IF u = {} THEN 0
                                              ELSE f[pick(u)] + sums(f, S)[u \ {pick(u)}]]
          /\ sums(f, T) = [u \in SUBSET T |-> IF u = {} THEN 0
                                              ELSE f[pick(u)] + sums(f, T)[u \ {pick(u)}]]
      BY <1>1, SumsExist
    <3> DEFINE a == sums(f, S)
               b == sums(f, T)
    <3> HIDE DEF a, b
    <3>3. /\ a = [u \in SUBSET S |-> IF u = {} THEN 0 ELSE f[pick(u)] + a[u \ {pick(u)}]]
          /\ b = [u \in SUBSET T |-> IF u = {} THEN 0 ELSE f[pick(u)] + b[u \ {pick(u)}]]
      BY <3>2, Zenon DEF a, b
    <3>4. /\ a[s] = IF s = {} THEN 0 ELSE f[pick(s)] + a[s \ {pick(s)}]
          /\ b[s] = IF s = {} THEN 0 ELSE f[pick(s)] + b[s \ {pick(s)}]
      BY <3>1, <3>3
    <3> QED
      BY <3>4 DEF a, b
  <2>3. s # {} => /\ s \ {pick(s)} \in SUBSET S
                  /\ s \ {pick(s)} \subseteq s /\ s \ {pick(s)} # s
    BY <2>1, PickIs
  <2>4. s # {} => sums(f, S)[s \ {pick(s)}] = sums(f, T)[s \ {pick(s)}]
    BY <2>1, <2>3
  <2>5. sums(f, S)[s] # sums(f, T)[s]
    BY <2>1
  <2> QED
    BY <2>2, <2>4, <2>5
<1> QED
  BY <1>2, SumIs

LEMMA SumEquation ==
  ASSUME NEW T, IsFiniteSet(T), NEW f
  PROVE  /\ SumFunctionOnSet(f, {}) = 0
         /\ T # {} => /\ pick(T) \in T
                      /\ SumFunctionOnSet(f, T) = f[pick(T)] + SumFunctionOnSet(f, T \ {pick(T)})
<1> DEFINE a == sums(f, T)
<1>1. a = [u \in SUBSET T |-> IF u = {} THEN 0 ELSE f[pick(u)] + a[u \ {pick(u)}]]
  BY SumsExist, Zenon
<1>2. \A S \in SUBSET T : SumFunctionOnSet(f, S) = a[S]
  BY SumsAgree
<1> HIDE DEF a
<1>3. a[{}] = 0 /\ (T # {} => a[T] = f[pick(T)] + a[T \ {pick(T)}])
  BY <1>1
<1> QED
  BY <1>2, <1>3, PickIs

\* The order does not matter: any member may be set apart.
LEMMA SumRemove ==
  ASSUME NEW T, IsFiniteSet(T), NEW f, \A x \in T : f[x] \in Int
  PROVE  /\ SumFunctionOnSet(f, T) \in Int
         /\ \A x \in T : SumFunctionOnSet(f, T) = f[x] + SumFunctionOnSet(f, T \ {x})
<1> DEFINE sum(S) == SumFunctionOnSet(f, S)
           NoInt == {S \in SUBSET T : sum(S) \notin Int}
           Bad == {S \in SUBSET T : \E x \in S : sum(S) # f[x] + sum(S \ {x})}
<1>1. \A S \in SUBSET T : IsFiniteSet(S)
  BY FS_Subset
<1>2. /\ sum({}) = 0
      /\ \A S \in SUBSET T : S # {} => pick(S) \in S /\ sum(S) = f[pick(S)] + sum(S \ {pick(S)})
  <2>1. sum({}) = 0
    BY SumEquation
  <2>2. ASSUME NEW S \in SUBSET T, S # {}
        PROVE  pick(S) \in S /\ sum(S) = f[pick(S)] + sum(S \ {pick(S)})
    BY <1>1, <2>2, SumEquation
  <2> QED
    BY <2>1, <2>2
<1> HIDE DEF sum
<1>3. NoInt = {}
  <2> SUFFICES ASSUME NoInt # {} PROVE FALSE
    OBVIOUS
  <2>1. PICK S \in NoInt : \A U \in NoInt : U \subseteq S => U = S
    <3>1. NoInt \subseteq SUBSET T
      OBVIOUS
    <3> HIDE DEF NoInt
    <3> QED
      BY <3>1, LeastSet
  <2>2. S \in SUBSET T /\ sum(S) \notin Int
    BY <2>1
  <2>3. S # {}
    <3>1. sum({}) \in Int
      BY <1>2
    <3> QED
      BY <2>2, <3>1
  <2>4. /\ pick(S) \in S /\ sum(S) = f[pick(S)] + sum(S \ {pick(S)})
        /\ S \ {pick(S)} \in SUBSET T
    BY <1>2, <2>2, <2>3
  <2>5. sum(S \ {pick(S)}) \in Int
    BY <2>1, <2>4
  <2> QED
    BY <2>2, <2>4, <2>5
<1>4. \A S \in SUBSET T : sum(S) \in Int
  BY <1>3
<1>5. Bad = {}
  <2> SUFFICES ASSUME Bad # {} PROVE FALSE
    OBVIOUS
  <2>1. PICK S \in Bad : \A U \in Bad : U \subseteq S => U = S
    <3>1. Bad \subseteq SUBSET T
      OBVIOUS
    <3> HIDE DEF Bad
    <3> QED
      BY <3>1, LeastSet
  <2>2. PICK x \in S : sum(S) # f[x] + sum(S \ {x})
    BY <2>1
  <2>3. S \in SUBSET T /\ S # {}
    BY <2>1, <2>2
  <2> DEFINE c == pick(S)
             A == S \ {c}
             B == S \ {x}
             R == (S \ {c}) \ {x}
  <2>4. c \in S /\ sum(S) = f[c] + sum(A)
    BY <1>2, <2>3
  <2> HIDE DEF c
  <2>5. x # c
    BY <2>2, <2>4
  <2>6. /\ A \in SUBSET T /\ A \subseteq S /\ A # S /\ x \in A
        /\ B \in SUBSET T /\ B \subseteq S /\ B # S /\ c \in B
        /\ A \ {x} = R /\ B \ {c} = R /\ R \in SUBSET T
    BY <2>2, <2>3, <2>4, <2>5
  <2>7. A \notin Bad /\ B \notin Bad
    BY <2>1, <2>6
  <2> HIDE DEF A, B, R
  <2>8. sum(A) = f[x] + sum(R) /\ sum(B) = f[c] + sum(R)
    BY <2>6, <2>7
  <2>9. f[x] \in Int /\ f[c] \in Int /\ sum(R) \in Int
    BY <1>4, <2>2, <2>3, <2>4, <2>6
  <2>10. sum(S) = f[x] + sum(B)
    BY <2>4, <2>8, <2>9
  <2> QED
    BY <2>2, <2>10 DEF B
<1>6. ASSUME NEW x \in T PROVE sum(T) = f[x] + sum(T \ {x})
  BY <1>5
<1> QED
  BY <1>4, <1>6 DEF sum

LEMMA SumOfNats ==
  ASSUME NEW T, IsFiniteSet(T), NEW f, \A x \in T : f[x] \in Nat
  PROVE  /\ SumFunctionOnSet(f, T) \in Nat
         /\ \A x \in T : f[x] <= SumFunctionOnSet(f, T)
<1> DEFINE sum(S) == SumFunctionOnSet(f, S)
           Bad == {S \in SUBSET T : sum(S) \notin Nat}
<1>1. sum({}) = 0
  BY SumEquation
<1>2. ASSUME NEW S \in SUBSET T, NEW x \in S PROVE sum(S) = f[x] + sum(S \ {x})
  <2>1. IsFiniteSet(S) /\ \A y \in S : f[y] \in Int
    BY FS_Subset
  <2> QED
    BY <2>1, SumRemove
<1> HIDE DEF sum
<1>3. Bad = {}
  <2> SUFFICES ASSUME Bad # {} PROVE FALSE
    OBVIOUS
  <2>1. PICK S \in Bad : \A U \in Bad : U \subseteq S => U = S
    <3>1. Bad \subseteq SUBSET T
      OBVIOUS
    <3> HIDE DEF Bad
    <3> QED
      BY <3>1, LeastSet
  <2>2. S \in SUBSET T /\ sum(S) \notin Nat
    BY <2>1
  <2>3. PICK x : x \in S
    BY <1>1, <2>2
  <2>4. sum(S) = f[x] + sum(S \ {x}) /\ f[x] \in Nat
    BY <1>2, <2>2, <2>3
  <2>5. sum(S \ {x}) \in Nat
    BY <2>1, <2>2, <2>3
  <2> QED
    BY <2>2, <2>4, <2>5
<1>4. ASSUME NEW x \in T PROVE f[x] <= sum(T)
  <2>1. sum(T) = f[x] + sum(T \ {x}) /\ f[x] \in Nat
    BY <1>2
  <2>2. sum(T \ {x}) \in Nat
    BY <1>3
  <2> QED
    BY <2>1, <2>2
<1> QED
  BY <1>3, <1>4 DEF sum

LEMMA SumDisjoint ==
  ASSUME NEW T, IsFiniteSet(T), NEW f, \A x \in T : f[x] \in Int,
         NEW A, NEW B, A \subseteq T, B \subseteq T, A \cap B = {}
  PROVE  SumFunctionOnSet(f, A \cup B) = SumFunctionOnSet(f, A) + SumFunctionOnSet(f, B)
<1> DEFINE sum(S) == SumFunctionOnSet(f, S)
           Bad == {S \in SUBSET A : sum(S \cup B) # sum(S) + sum(B)}
<1>1. sum({}) = 0
  BY SumEquation
<1>2. ASSUME NEW S \in SUBSET T PROVE sum(S) \in Int /\ \A x \in S : sum(S) = f[x] + sum(S \ {x})
  <2>1. IsFiniteSet(S) /\ \A y \in S : f[y] \in Int
    BY FS_Subset
  <2> QED
    BY <2>1, SumRemove
<1> HIDE DEF sum
<1>3. Bad = {}
  <2> SUFFICES ASSUME Bad # {} PROVE FALSE
    OBVIOUS
  <2>1. PICK S \in Bad : \A U \in Bad : U \subseteq S => U = S
    <3>1. Bad \subseteq SUBSET T
      OBVIOUS
    <3> HIDE DEF Bad
    <3> QED
      BY <3>1, LeastSet
  <2>2. S \in SUBSET A /\ sum(S \cup B) # sum(S) + sum(B)
    BY <2>1
  <2>3. sum(B) \in Int
    BY <1>2
  <2>4. S # {}
    <3>1. {} \cup B = B
      OBVIOUS
    <3> QED
      BY <1>1, <2>2, <2>3, <3>1
  <2>5. PICK x : x \in S
    BY <2>4
  <2> DEFINE R == S \ {x}
  <2>6. /\ S \in SUBSET T /\ S \cup B \in SUBSET T /\ x \in S \cup B
        /\ (S \cup B) \ {x} = R \cup B /\ R \in SUBSET A /\ R \subseteq S /\ R # S
        /\ R \in SUBSET T /\ x \in T
    BY <2>2, <2>5
  <2>7. sum(S) = f[x] + sum(R)
    BY <1>2, <2>5, <2>6
  <2>8. sum(S \cup B) = f[x] + sum(R \cup B)
    BY <1>2, <2>6
  <2>9. R \notin Bad
    BY <2>1, <2>6
  <2> HIDE DEF R
  <2>10. sum(R \cup B) = sum(R) + sum(B)
    BY <2>6, <2>9
  <2>11. f[x] \in Int /\ sum(R) \in Int
    BY <1>2, <2>6
  <2> QED
    BY <2>2, <2>3, <2>7, <2>8, <2>10, <2>11
<1> QED
  BY <1>3 DEF sum

\* The sums of the parts add up to the sum of the whole.
LEMMA SumOfParts ==
  ASSUME NEW T, IsFiniteSet(T), NEW f, \A x \in T : f[x] \in Int,
         NEW P, IsFiniteSet(P), NEW part, \A p \in P : part[p] \subseteq T,
         \A x \in T : \E p \in P : x \in part[p],
         \A p, q \in P : p # q => part[p] \cap part[q] = {},
         NEW w, \A p \in P : w[p] = SumFunctionOnSet(f, part[p])
  PROVE  SumFunctionOnSet(w, P) = SumFunctionOnSet(f, T)
<1> DEFINE all(Q) == UNION {part[p] : p \in Q}
           sumw(Q) == SumFunctionOnSet(w, Q)
           sumf(S) == SumFunctionOnSet(f, S)
           Bad == {Q \in SUBSET P : sumw(Q) # sumf(all(Q))}
<1>1. sumw({}) = 0 /\ sumf({}) = 0
  BY SumEquation
<1>2. \A S \in SUBSET T : sumf(S) \in Int
  <2> SUFFICES ASSUME NEW S \in SUBSET T PROVE sumf(S) \in Int
    OBVIOUS
  <2>1. IsFiniteSet(S) /\ \A y \in S : f[y] \in Int
    BY FS_Subset
  <2> QED
    BY <2>1, SumRemove
<1>3. \A p \in P : w[p] \in Int /\ w[p] = sumf(part[p])
  BY <1>2
<1>4. ASSUME NEW Q \in SUBSET P, NEW p \in Q PROVE sumw(Q) = w[p] + sumw(Q \ {p})
  <2>1. IsFiniteSet(Q) /\ \A y \in Q : w[y] \in Int
    BY <1>3, FS_Subset
  <2> QED
    BY <2>1, SumRemove
<1>5. ASSUME NEW Q \in SUBSET P, NEW p \in Q PROVE sumf(all(Q)) = sumf(part[p]) + sumf(all(Q \ {p}))
  <2>1. /\ part[p] \subseteq T /\ all(Q \ {p}) \subseteq T
        /\ part[p] \cap all(Q \ {p}) = {} /\ all(Q) = part[p] \cup all(Q \ {p})
    OBVIOUS
  <2>2. \A A, B \in SUBSET T : A \cap B = {} => sumf(A \cup B) = sumf(A) + sumf(B)
    BY SumDisjoint
  <2> HIDE DEF all, sumf
  <2> QED
    BY <2>1, <2>2
<1>6. all({}) = {} /\ all(P) = T
  OBVIOUS
<1> HIDE DEF sumw, sumf, all
<1>7. Bad = {}
  <2> SUFFICES ASSUME Bad # {} PROVE FALSE
    OBVIOUS
  <2>1. PICK Q \in Bad : \A U \in Bad : U \subseteq Q => U = Q
    <3>1. Bad \subseteq SUBSET P
      OBVIOUS
    <3> HIDE DEF Bad
    <3> QED
      BY <3>1, LeastSet
  <2>2. Q \in SUBSET P /\ sumw(Q) # sumf(all(Q))
    BY <2>1
  <2>3. PICK p : p \in Q
    BY <1>1, <1>6, <2>2
  <2>4. /\ sumw(Q) = w[p] + sumw(Q \ {p}) /\ sumf(all(Q)) = sumf(part[p]) + sumf(all(Q \ {p}))
        /\ w[p] = sumf(part[p])
    BY <1>3, <1>4, <1>5, <2>2, <2>3
  <2>5. sumw(Q \ {p}) = sumf(all(Q \ {p}))
    BY <2>1, <2>2, <2>3
  <2> QED
    BY <2>2, <2>4, <2>5
<1>8. sumw(P) = sumf(T)
  BY <1>6, <1>7
<1> QED
  BY <1>8 DEF sumw, sumf

-----------------------------------------------------------------------------
(* The union-find forest: what find finds.                                 *)

links(forest) == {k \in DOMAIN forest : forest[k] # k}

\* Every key is at most as far from the end of its chain as there are links.
Ranked(forest, h) ==
  /\ h \in [DOMAIN forest -> 0..Cardinality(links(forest))]
  /\ \A k \in DOMAIN forest : IF forest[k] = k THEN h[k] = 0 ELSE h[forest[k]] < h[k]

\* A chain never leaves a set that every link stays in.
LEMMA ChainStays ==
  ASSUME NEW D, NEW forest \in [D -> D], NEW x \in D, NEW n \in Nat,
         NEW G, x \in G, \A k \in G \cap D : forest[k] \in G
  PROVE  \A i \in 0..n : chain(forest, x, n)[i] \in G
<1> DEFINE c == chain(forest, x, n)
           out == {i \in 0..n : c[i] \notin G}
<1>1. climbs(c, forest, D, x, n)
  BY ChainIs
<1> HIDE DEF c
<1>2. /\ c \in [0..n -> D] /\ c[0] = x /\ \A i \in 1..n : c[i] = forest[c[i - 1]]
  BY <1>1 DEF climbs
<1>3. out = {}
  <2> SUFFICES ASSUME out # {} PROVE FALSE
    OBVIOUS
  <2>1. PICK i \in out : \A j \in out : i <= j
    <3>1. out \subseteq Nat
      OBVIOUS
    <3> QED
      BY <3>1, LeastNat
  <2>2. i \in 0..n /\ c[i] \notin G
    BY <2>1
  <2>3. i # 0 /\ i \in 1..n /\ i - 1 \in 0..n /\ ~(i <= i - 1)
    BY <1>2, <2>2
  <2>4. c[i - 1] \in G /\ c[i - 1] \in D
    BY <1>2, <2>1, <2>3
  <2> QED
    BY <1>2, <2>2, <2>3, <2>4
<1> QED
  BY <1>3 DEF c

\* The chain ends in a root.
LEMMA FindEnds ==
  ASSUME NEW D, IsFiniteSet(D), NEW forest \in [D -> D], NEW h, Ranked(forest, h), NEW x \in D
  PROVE  find(forest, x) \in D /\ forest[find(forest, x)] = find(forest, x)
<1> DEFINE n == Cardinality(D)
           c == chain(forest, x, n)
           m == Cardinality(links(forest))
           far == {i \in 0..n : ~(forest[c[i]] = c[i] \/ h[c[i]] + i <= h[x])}
<1>1. /\ n \in Nat /\ m \in Nat /\ m <= n
  <2>1. links(forest) \subseteq D
    BY DEF links
  <2> QED
    BY <2>1, FS_Subset, FS_CardinalityType
<1>2. find(forest, x) = c[n]
  <2>1. DOMAIN forest = D
    OBVIOUS
  <2> QED
    BY <2>1, FindIs, Zenon
<1> HIDE DEF n, m
<1>3. climbs(c, forest, D, x, n)
  BY <1>1, ChainIs
<1> HIDE DEF c
<1>4. /\ c \in [0..n -> D] /\ c[0] = x /\ \A i \in 1..n : c[i] = forest[c[i - 1]]
  BY <1>3 DEF climbs
<1>5. /\ h \in [D -> 0..m]
      /\ \A k \in D : forest[k] = k => h[k] = 0
      /\ \A k \in D : forest[k] # k => h[forest[k]] < h[k]
  BY DEF Ranked, m
<1>6. far = {}
  <2> SUFFICES ASSUME far # {} PROVE FALSE
    OBVIOUS
  <2>1. PICK i \in far : \A j \in far : i <= j
    <3>1. far \subseteq Nat
      OBVIOUS
    <3> QED
      BY <3>1, LeastNat
  <2>2. i \in 0..n /\ forest[c[i]] # c[i] /\ ~(h[c[i]] + i <= h[x])
    BY <2>1
  <2>3. \A k \in D : h[k] \in Nat
    BY <1>1, <1>5
  <2>4. i # 0
    BY <1>4, <2>2, <2>3
  <2>5. i \in 1..n /\ i - 1 \in 0..n /\ ~(i <= i - 1)
    BY <1>1, <2>2, <2>4
  <2>6. c[i - 1] \in D /\ c[i] = forest[c[i - 1]] /\ c[i] \in D
    BY <1>4, <2>2, <2>5
  <2>7. i - 1 \notin far
    BY <2>1, <2>5
  <2>8. forest[c[i - 1]] # c[i - 1]
    BY <2>2, <2>6
  <2>9. h[c[i - 1]] + (i - 1) <= h[x]
    BY <2>5, <2>7, <2>8
  <2>10. h[c[i]] < h[c[i - 1]] /\ h[c[i]] \in Nat /\ h[c[i - 1]] \in Nat /\ h[x] \in Nat
    BY <1>5, <2>3, <2>6, <2>8
  <2> QED
    BY <2>2, <2>5, <2>9, <2>10
<1>7. c[n] \in D /\ n \in 0..n
  BY <1>1, <1>4
<1>8. forest[c[n]] = c[n]
  <2> SUFFICES ASSUME forest[c[n]] # c[n] PROVE FALSE
    OBVIOUS
  <2>1. h[c[n]] + n <= h[x]
    BY <1>6, <1>7
  <2>2. h[forest[c[n]]] < h[c[n]] /\ forest[c[n]] \in D
    BY <1>5, <1>7
  <2>3. h[x] \in 0..m /\ h[c[n]] \in 0..m /\ h[forest[c[n]]] \in 0..m
    BY <1>5, <1>7, <2>2
  <2> QED
    BY <1>1, <2>1, <2>2, <2>3
<1> QED
  BY <1>2, <1>7, <1>8

\* Keys with the same parent have the same root, and a root is its own.
LEMMA FindFollows ==
  ASSUME NEW D, IsFiniteSet(D), NEW forest \in [D -> D], NEW h, Ranked(forest, h), NEW x \in D
  PROVE  /\ find(forest, forest[x]) = find(forest, x)
         /\ forest[x] = x => find(forest, x) = x
<1> DEFINE n == Cardinality(D)
           c == chain(forest, x, n)
           d == chain(forest, forest[x], n)
<1>1. /\ n \in Nat /\ DOMAIN forest = D /\ forest[x] \in D
  BY FS_CardinalityType
<1>2. find(forest, x) = c[n] /\ find(forest, forest[x]) = d[n]
  BY <1>1, FindIs, Zenon
<1>3. n # 0
  BY FS_EmptySet
<1> HIDE DEF n
<1>4. climbs(c, forest, D, x, n) /\ climbs(d, forest, D, forest[x], n)
  BY <1>1, ChainIs
<1>5. ASSUME forest[x] = x PROVE c[n] = x
  <2>1. \A k \in {x} \cap D : forest[k] \in {x}
    BY <1>5
  <2>2. \A i \in 0..n : c[i] \in {x}
    BY <1>1, <2>1, ChainStays
  <2> QED
    BY <1>1, <2>2
<1> HIDE DEF c, d
<1> DEFINE apart == {i \in 0..(n - 1) : d[i] # c[i + 1]}
<1>6. apart = {}
  <2> SUFFICES ASSUME apart # {} PROVE FALSE
    OBVIOUS
  <2>1. PICK i \in apart : \A j \in apart : i <= j
    <3>1. apart \subseteq Nat
      BY <1>1
    <3> QED
      BY <3>1, LeastNat
  <2>2. i \in 0..(n - 1) /\ d[i] # c[i + 1]
    BY <2>1
  <2>3. i + 1 \in 1..n /\ (i + 1) - 1 = i
    BY <1>1, <2>2
  <2>4. c[i + 1] = forest[c[i]]
    BY <1>4, <2>3 DEF climbs
  <2>5. i # 0
    BY <1>4, <2>2, <2>4 DEF climbs
  <2>6. i \in 1..n /\ i - 1 \in 0..(n - 1) /\ ~(i <= i - 1) /\ (i - 1) + 1 = i
    BY <1>1, <2>2, <2>5
  <2>7. d[i - 1] = c[i]
    BY <2>1, <2>6
  <2> QED
    BY <1>4, <2>2, <2>4, <2>6, <2>7 DEF climbs
<1>7. n - 1 \in 0..(n - 1) /\ (n - 1) + 1 = n /\ n \in 1..n
  BY <1>1, <1>3
<1>8. d[n] = forest[c[n]]
  <2>1. d[n - 1] = c[n]
    BY <1>6, <1>7
  <2> QED
    BY <1>4, <1>7, <2>1 DEF climbs
<1>9. forest[c[n]] = c[n]
  BY <1>2, FindEnds
<1> QED
  BY <1>2, <1>5, <1>8, <1>9

\* Whatever is constant along every chain and names its end is what find finds.
LEMMA FindLeads ==
  ASSUME NEW D, IsFiniteSet(D), NEW forest \in [D -> D], NEW h, Ranked(forest, h),
         NEW R, \A k \in D : R[k] = R[forest[k]] /\ (forest[k] = k => R[k] = k), NEW x \in D
  PROVE  find(forest, x) = R[x]
<1> DEFINE n == Cardinality(D)
           G == {k \in D : R[k] = R[x]}
<1>1. n \in Nat /\ find(forest, x) = chain(forest, x, n)[n]
  <2>1. DOMAIN forest = D
    OBVIOUS
  <2> QED
    BY <2>1, FindIs, FS_CardinalityType
<1> HIDE DEF n
<1>2. x \in G /\ \A k \in G \cap D : forest[k] \in G
  OBVIOUS
<1> HIDE DEF G
<1>3. find(forest, x) \in G
  <2>1. n \in 0..n
    BY <1>1
  <2> QED
    BY <1>1, <1>2, <2>1, ChainStays
<1>4. find(forest, x) \in D /\ forest[find(forest, x)] = find(forest, x)
  BY FindEnds
<1> QED
  BY <1>3, <1>4 DEF G

\* Keys that were not met yet are roots, and nothing else changes.
LEMMA EnterKeeps ==
  ASSUME NEW D, NEW known, D \subseteq known, IsFiniteSet(known),
         NEW forest \in [D -> D], NEW h, Ranked(forest, h),
         NEW entered, entered = [k \in known |-> IF k \in D THEN forest[k] ELSE k]
  PROVE  /\ entered \in [known -> known]
         /\ \E g : Ranked(entered, g)
         /\ \A k \in known : find(entered, k) = IF k \in D THEN find(forest, k) ELSE k
<1> DEFINE g == [k \in known |-> IF k \in D THEN h[k] ELSE 0]
           R == [k \in known |-> IF k \in D THEN find(forest, k) ELSE k]
           m == Cardinality(links(forest))
<1>1. IsFiniteSet(D) /\ DOMAIN forest = D /\ DOMAIN entered = known /\ entered \in [known -> known]
  BY FS_Subset
<1>2. links(entered) = links(forest) /\ links(forest) \subseteq D
  BY <1>1 DEF links
<1>3. m \in Nat /\ Cardinality(links(entered)) = m
  BY <1>1, <1>2, FS_Subset, FS_CardinalityType
<1> HIDE DEF m
<1>4. /\ h \in [D -> 0..m]
      /\ \A k \in D : forest[k] = k => h[k] = 0
      /\ \A k \in D : forest[k] # k => h[forest[k]] < h[k]
  BY <1>1 DEF Ranked, m
<1>5. /\ g \in [known -> 0..m]
      /\ \A k \in known : IF entered[k] = k THEN g[k] = 0 ELSE g[entered[k]] < g[k]
  <2>1. ASSUME NEW k \in D
        PROVE  /\ g[k] \in 0..m /\ entered[k] = forest[k]
               /\ IF entered[k] = k THEN g[k] = 0 ELSE g[entered[k]] < g[k]
    BY <1>4
  <2>2. ASSUME NEW k \in known, k \notin D PROVE g[k] = 0 /\ g[k] \in 0..m /\ entered[k] = k
    BY <1>3, <2>2
  <2> QED
    BY <2>1, <2>2
<1> HIDE DEF g
<1>6. Ranked(entered, g)
  BY <1>1, <1>3, <1>5 DEF Ranked
<1>7. \A k \in known : R[k] = R[entered[k]] /\ (entered[k] = k => R[k] = k)
  <2>1. ASSUME NEW k \in D PROVE R[k] = R[entered[k]] /\ (entered[k] = k => R[k] = k)
    BY <1>1, FindFollows
  <2>2. ASSUME NEW k \in known, k \notin D PROVE R[k] = R[entered[k]] /\ (entered[k] = k => R[k] = k)
    BY <2>2
  <2> QED
    BY <2>1, <2>2
<1> HIDE DEF R
<1>8. \A k \in known : find(entered, k) = R[k]
  BY <1>1, <1>6, <1>7, FindLeads
<1> QED
  BY <1>1, <1>6, <1>8 DEF R

\* The tree of a is hung below the root of b, and nothing else changes.
LEMMA UnionJoins ==
  ASSUME NEW D, IsFiniteSet(D), NEW forest \in [D -> D], NEW h, Ranked(forest, h),
         NEW a \in D, NEW b \in D
  PROVE  /\ union(forest, a, b) \in [D -> D]
         /\ \E g : Ranked(union(forest, a, b), g)
         /\ \A k \in D : find(union(forest, a, b), k)
                           = IF find(forest, k) = find(forest, a) THEN find(forest, b)
                             ELSE find(forest, k)
<1> DEFINE ra == find(forest, a)
           rb == find(forest, b)
           joined == union(forest, a, b)
           R == [k \in D |-> IF find(forest, k) = ra THEN rb ELSE find(forest, k)]
           m == Cardinality(links(forest))
<1>1. joined = [forest EXCEPT ![ra] = rb]
  BY DEF union
<1>2. ra \in D /\ rb \in D /\ forest[ra] = ra /\ forest[rb] = rb
  BY FindEnds
<1>3. find(forest, ra) = ra /\ find(forest, rb) = rb
  BY <1>2, FindFollows
<1>4. \A k \in D : /\ find(forest, forest[k]) = find(forest, k)
                   /\ forest[k] = k => find(forest, k) = k
  BY FindFollows
<1> HIDE DEF ra, rb, joined
<1>5. joined \in [D -> D] /\ joined[ra] = rb /\ \A k \in D : k # ra => joined[k] = forest[k]
  BY <1>1, <1>2
<1>6. \E g : Ranked(joined, g)
  <2>1. CASE ra = rb
    <3>1. joined = forest
      BY <1>1, <1>2, <2>1
    <3> QED
      BY <3>1
  <2>2. CASE ra # rb
    <3> DEFINE g == [k \in D |-> IF find(forest, k) = ra THEN h[k] + 1 ELSE h[k]]
    <3>1. /\ links(joined) = links(forest) \cup {ra} /\ ra \notin links(forest)
          /\ links(forest) \subseteq D
      BY <1>2, <1>5, <2>2 DEF links
    <3>2. m \in Nat /\ Cardinality(links(joined)) = m + 1
      <4>1. IsFiniteSet(links(forest))
        BY <3>1, FS_Subset
      <4> QED
        BY <3>1, <4>1, FS_AddElement, FS_CardinalityType
    <3> HIDE DEF m
    <3>3. /\ h \in [D -> 0..m]
          /\ \A k \in D : forest[k] = k => h[k] = 0
          /\ \A k \in D : forest[k] # k => h[forest[k]] < h[k]
      BY DEF Ranked, m
    <3>4. g \in [D -> 0..(m + 1)]
      <4>1. \A k \in D : h[k] \in 0..m
        BY <3>3
      <4> QED
        BY <3>2, <4>1
    <3>5. ASSUME NEW k \in D
          PROVE  IF joined[k] = k THEN g[k] = 0 ELSE g[joined[k]] < g[k]
      <4>1. CASE k = ra
        BY <1>2, <1>3, <1>5, <2>2, <3>3, <4>1
      <4>2. CASE k # ra /\ forest[k] = k
        BY <1>4, <1>5, <3>3, <4>2
      <4>3. CASE k # ra /\ forest[k] # k
        <5>1. joined[k] = forest[k] /\ forest[k] \in D /\ find(forest, forest[k]) = find(forest, k)
          BY <1>4, <1>5, <4>3
        <5>2. h[forest[k]] < h[k] /\ h[k] \in Nat /\ h[forest[k]] \in Nat
          BY <3>2, <3>3, <4>3, <5>1
        <5> QED
          BY <4>3, <5>1, <5>2
      <4> QED
        BY <4>1, <4>2, <4>3
    <3> HIDE DEF g
    <3>6. Ranked(joined, g)
      BY <1>5, <3>2, <3>4, <3>5 DEF Ranked
    <3> QED
      BY <3>6
  <2> QED
    BY <2>1, <2>2
<1>7. \A k \in D : R[k] = R[joined[k]] /\ (joined[k] = k => R[k] = k)
  <2> SUFFICES ASSUME NEW k \in D PROVE R[k] = R[joined[k]] /\ (joined[k] = k => R[k] = k)
    OBVIOUS
  <2>1. CASE k = ra
    BY <1>2, <1>3, <1>5, <2>1
  <2>2. CASE k # ra
    <3>1. joined[k] = forest[k] /\ forest[k] \in D
      BY <1>5, <2>2
    <3> QED
      BY <1>4, <2>2, <3>1
  <2> QED
    BY <2>1, <2>2
<1> HIDE DEF R
<1>8. \A k \in D : find(joined, k) = R[k]
  BY <1>5, <1>6, <1>7, FindLeads
<1> QED
  BY <1>5, <1>6, <1>8 DEF R, joined, ra, rb

-----------------------------------------------------------------------------
(* Merging: the trees are what shares keys, no more and no less.           *)

\* No signal has one key inside the set and the other outside.
whole(X) == \A t \in ToSet(stream) : keys(t) \cap X # {} => keys(t) \subseteq X

\* Both keys of a signal are in one tree, and a tree never reaches beyond what
\* shared keys connect.
ForestInv ==
  /\ MergeInv
  /\ parent \in [DOMAIN parent -> DOMAIN parent] /\ \E h : Ranked(parent, h)
  /\ \A t \in ToSet(stream) : find(parent, fingerprint(t)) = find(parent, symptomSignature(t))
  /\ \A X \in SUBSET DOMAIN parent : whole(X) =>
       \A x \in X, y \in DOMAIN parent : find(parent, x) = find(parent, y) => y \in X

LEMMA EmptyForest ==
  ASSUME stream = <<>>, parent = <<>>, MergeInv
  PROVE  ForestInv
<1>1. ToSet(stream) = {} /\ DOMAIN parent = {}
  BY DEF ToSet
<1>2. \E h : Ranked(parent, h)
  <2> DEFINE h == [k \in {} |-> 0]
  <2>1. links(parent) = {}
    BY <1>1 DEF links
  <2>2. Ranked(parent, h)
    BY <1>1, <2>1, FS_EmptySet DEF Ranked
  <2> QED
    BY <2>2
<1>3. <<>> \in [{} -> {}]
  OBVIOUS
<1>4. parent \in [DOMAIN parent -> DOMAIN parent]
  BY <1>1, <1>3
<1> QED
  BY <1>1, <1>2, <1>4 DEF ForestInv

LEMMA ForestStep == ASSUME ForestInv, NEW s \in Signals, Merge(s) PROVE ForestInv'
<1> DEFINE D == DOMAIN parent
           known == D \cup keys(s)
           entered == [k \in known |-> IF k \in D THEN parent[k] ELSE k]
           a == fingerprint(s)
           b == symptomSignature(s)
           R(k) == find(entered, k)
<1>1. MergeInv /\ MergeInv'
  BY MergeStep DEF ForestInv
<1>2. parent' = union(entered, a, b) /\ stream' = Append(stream, s)
  BY DEF Merge
<1>3. ToSet(stream') = ToSet(stream) \cup {s}
  BY <1>1, <1>2 DEF ToSet, MergeInv, AggregationTypeOK
<1>4. /\ IsFiniteSet(D) /\ parent \in [D -> D]
      /\ \A t \in ToSet(stream) : keys(t) \subseteq D
  <2>1. IsFiniteSet(D) /\ D = UNION {keys(t) : t \in ToSet(stream)}
    BY <1>1 DEF MergeInv, AggregationTypeOK
  <2>2. parent \in [D -> D]
    BY DEF ForestInv
  <2> HIDE DEF D
  <2> QED
    BY <2>1, <2>2
<1>5. /\ a \in keys(s) /\ b \in keys(s) /\ a \in known /\ b \in known
      /\ \A t : keys(t) = {fingerprint(t), symptomSignature(t)}
  BY DEF keys
<1>6. IsFiniteSet(known)
  <2>1. DOMAIN parent' = UNION {keys(t) : t \in ToSet(stream')} /\ IsFiniteSet(DOMAIN parent')
    BY <1>1 DEF MergeInv, AggregationTypeOK
  <2>2. D = UNION {keys(t) : t \in ToSet(stream)}
    BY <1>1 DEF MergeInv, AggregationTypeOK
  <2> QED
    BY <1>3, <2>1, <2>2
<1>7. PICK h : Ranked(parent, h)
  BY DEF ForestInv
<1> HIDE DEF D, known, a, b
<1>8. D \subseteq known /\ entered = [k \in known |-> IF k \in D THEN parent[k] ELSE k]
  BY DEF known
<1> HIDE DEF entered
<1>9. /\ entered \in [known -> known] /\ \E g : Ranked(entered, g)
      /\ \A k \in known : R(k) = IF k \in D THEN find(parent, k) ELSE k
  BY <1>4, <1>6, <1>7, <1>8, EnterKeeps
<1>10. \A k \in D : find(parent, k) \in D
  BY <1>4, FindIn
<1>11. PICK g : Ranked(entered, g)
  BY <1>9
<1>12. /\ parent' \in [known -> known] /\ \E e : Ranked(parent', e)
       /\ \A k \in known : find(parent', k) = IF R(k) = R(a) THEN R(b) ELSE R(k)
  BY <1>2, <1>5, <1>6, <1>9, <1>11, UnionJoins
<1> HIDE DEF R
<1>13. \A t \in ToSet(stream') :
         find(parent', fingerprint(t)) = find(parent', symptomSignature(t))
  <2>1. find(parent', a) = find(parent', b)
    BY <1>5, <1>12
  <2>2. ASSUME NEW t \in ToSet(stream)
        PROVE  find(parent', fingerprint(t)) = find(parent', symptomSignature(t))
    <3>1. fingerprint(t) \in D /\ symptomSignature(t) \in D
      BY <1>4, <1>5
    <3>2. R(fingerprint(t)) = R(symptomSignature(t))
      BY <1>8, <1>9, <3>1 DEF ForestInv
    <3> QED
      BY <1>8, <1>12, <3>1, <3>2
  <2> QED
    BY <1>3, <2>1, <2>2 DEF a, b
<1>14. ASSUME NEW X \in SUBSET known,
              \A t \in ToSet(stream') : keys(t) \cap X # {} => keys(t) \subseteq X,
              NEW x \in X, NEW y \in known, find(parent', x) = find(parent', y)
       PROVE  y \in X
  <2>1. ASSUME NEW p \in X, NEW q \in known, R(p) = R(q) PROVE q \in X
    <3>1. p \in known
      OBVIOUS
    <3>2. CASE p \in D /\ q \in D
      <4>1. X \cap D \in SUBSET DOMAIN parent /\ whole(X \cap D)
        BY <1>3, <1>4, <1>14 DEF whole, D
      <4>2. find(parent, p) = find(parent, q)
        BY <1>9, <2>1, <3>1, <3>2
      <4>3. p \in X \cap D /\ q \in DOMAIN parent
        BY <3>2 DEF D
      <4> QED
        BY <4>1, <4>2, <4>3 DEF ForestInv
    <3>3. CASE ~(p \in D /\ q \in D)
      BY <1>9, <1>10, <2>1, <3>1, <3>3
    <3> QED
      BY <3>2, <3>3
  <2>2. a \in X <=> b \in X
    BY <1>3, <1>5, <1>14
  <2>3. x \in known
    OBVIOUS
  <2>4. CASE R(x) = R(y)
    BY <2>1, <2>4
  <2>5. CASE R(x) = R(a) /\ R(y) = R(b)
    BY <1>5, <2>1, <2>2, <2>5
  <2>6. CASE R(x) = R(b) /\ R(y) = R(a)
    BY <1>5, <2>1, <2>2, <2>6
  <2> QED
    BY <1>12, <1>14, <2>3, <2>4, <2>5, <2>6
<1>15. DOMAIN parent' = known
  BY <1>12
<1>16. \A X \in SUBSET DOMAIN parent' : whole(X)' =>
         \A x \in X, y \in DOMAIN parent' : find(parent', x) = find(parent', y) => y \in X
  BY <1>14, <1>15 DEF whole
<1> QED
  BY <1>1, <1>12, <1>13, <1>16 DEF ForestInv

LEMMA ForestNext == ForestInv /\ [Next]_vars => ForestInv'
<1> SUFFICES ASSUME ForestInv, [Next]_vars PROVE ForestInv'
  OBVIOUS
<1>1. CASE UNCHANGED aggregationVars
  <2>1. stream' = stream /\ parent' = parent
    BY <1>1 DEF aggregationVars
  <2>2. MergeInv'
    BY MergeNext DEF ForestInv
  <2>3. \A X : whole(X)' <=> whole(X)
    BY <2>1 DEF whole
  <2> QED
    BY <2>1, <2>2, <2>3 DEF ForestInv
<1>2. ASSUME NEW s \in Signals, MergeSignal(s) PROVE ForestInv'
  BY <1>2, ForestStep DEF MergeSignal
<1>3. CASE MergeEnd
  <2>1. stream' = <<>> /\ parent' = <<>> /\ MergeInv'
    BY <1>3, MergeNext DEF MergeEnd, ForestInv
  <2>2. ToSet(stream') = {} /\ DOMAIN parent' = {}
    BY <2>1 DEF ToSet
  <2>3. \E h : Ranked(parent', h)
    <3> DEFINE h == [k \in {} |-> 0]
    <3>1. links(parent') = {}
      BY <2>2 DEF links
    <3>2. Ranked(parent', h)
      BY <2>2, <3>1, FS_EmptySet DEF Ranked
    <3> QED
      BY <3>2
  <2>4. <<>> \in [{} -> {}]
    OBVIOUS
  <2>5. parent' \in [DOMAIN parent' -> DOMAIN parent']
    BY <2>1, <2>2, <2>4
  <2> QED
    BY <2>1, <2>2, <2>3, <2>5 DEF ForestInv
<1> QED
  BY <1>1, <1>2, <1>3 DEF Next, vars, Diagnose, HandOver, Repair, JudgeTest, Remember

-----------------------------------------------------------------------------
(* Merging: an incident is what shared keys connect.                       *)

linkedTo == [K \in SUBSET DOMAIN stream |->
               K \cup {j \in DOMAIN stream : \E q \in K : Linked(j, q)}]

LEMMA ReachIs ==
  ASSUME NEW k
  PROVE  Reach(k) = chain(linkedTo, {k}, Len(stream))[Len(stream)]
BY Zenon DEF Reach, linkedTo, chain

\* What is reached is closed, and is within every closed set of signals.
LEMMA ReachCloses ==
  ASSUME stream \in Seq(Signals), NEW k \in DOMAIN stream
  PROVE  /\ Reach(k) \subseteq DOMAIN stream /\ k \in Reach(k)
         /\ \A j \in DOMAIN stream : \A q \in Reach(k) : Linked(j, q) => j \in Reach(k)
         /\ \A C \in SUBSET DOMAIN stream :
              /\ k \in C
              /\ \A j \in DOMAIN stream : \A q \in C : Linked(j, q) => j \in C
              => Reach(k) \subseteq C
<1> DEFINE n == Len(stream)
           D == SUBSET DOMAIN stream
           c == chain(linkedTo, {k}, n)
           small == {i \in 0..n : ~(linkedTo[c[i]] = c[i] \/ Cardinality(c[i]) >= i + 1)}
<1>1. n \in Nat /\ DOMAIN stream = 1..n
  OBVIOUS
<1>2. linkedTo \in [D -> D] /\ {k} \in D
  BY DEF linkedTo
<1>3. IsFiniteSet(DOMAIN stream) /\ Cardinality(DOMAIN stream) = n
  BY <1>1, CountTo
<1>4. Reach(k) = c[n]
  BY ReachIs, Zenon
<1> HIDE DEF n
<1>5. \A G : {k} \in G /\ (\A K \in G \cap D : linkedTo[K] \in G) => \A i \in 0..n : c[i] \in G
  BY <1>1, <1>2, ChainStays
<1>6. climbs(c, linkedTo, D, {k}, n)
  BY <1>1, <1>2, ChainIs
<1> HIDE DEF c
<1>7. \A K \in D : /\ K \subseteq linkedTo[K] /\ IsFiniteSet(K) /\ Cardinality(K) \in Nat
                   /\ Cardinality(K) <= n
  BY <1>3, FS_Subset, FS_CardinalityType DEF linkedTo
<1>8. n \in 0..n /\ c[n] \in D
  BY <1>1, <1>6 DEF climbs
<1>9. small = {}
  <2> SUFFICES ASSUME small # {} PROVE FALSE
    OBVIOUS
  <2>1. PICK i \in small : \A j \in small : i <= j
    <3>1. small \subseteq Nat
      OBVIOUS
    <3> QED
      BY <3>1, LeastNat
  <2>2. i \in 0..n /\ linkedTo[c[i]] # c[i] /\ ~(Cardinality(c[i]) >= i + 1)
    BY <2>1
  <2>3. i # 0
    <3>1. c[0] = {k} /\ Cardinality({k}) = 1
      BY <1>6, FS_Singleton DEF climbs
    <3>2. Cardinality(c[0]) = 1 /\ 1 >= 0 + 1
      BY <3>1
    <3> QED
      BY <2>2, <3>2
  <2>4. i \in 1..n /\ i - 1 \in 0..n /\ ~(i <= i - 1) /\ (i - 1) + 1 = i
    BY <1>1, <2>2, <2>3
  <2>5. c[i] = linkedTo[c[i - 1]] /\ c[i] \in D /\ c[i - 1] \in D
    BY <1>6, <2>2, <2>4 DEF climbs
  <2>6. i - 1 \notin small
    BY <2>1, <2>4
  <2>7. c[i - 1] # c[i]
    BY <2>2, <2>5
  <2>8. Cardinality(c[i - 1]) >= i
    BY <2>4, <2>5, <2>6, <2>7
  <2>9. /\ c[i - 1] \subseteq c[i] /\ IsFiniteSet(c[i])
        /\ Cardinality(c[i - 1]) \in Nat /\ Cardinality(c[i]) \in Nat
    BY <1>7, <2>5
  <2>10. Cardinality(c[i - 1]) <= Cardinality(c[i]) /\ Cardinality(c[i - 1]) # Cardinality(c[i])
    BY <2>7, <2>9, FS_Subset
  <2> QED
    BY <2>2, <2>4, <2>8, <2>9, <2>10
<1>10. linkedTo[c[n]] = c[n]
  <2>1. linkedTo[c[n]] = c[n] \/ Cardinality(c[n]) >= n + 1
    BY <1>8, <1>9
  <2>2. Cardinality(c[n]) \in Nat /\ Cardinality(c[n]) <= n
    BY <1>7, <1>8
  <2> QED
    BY <1>1, <2>1, <2>2
<1>11. k \in c[n]
  <2> DEFINE G == {K \in D : k \in K}
  <2>1. {k} \in G /\ \A K \in G \cap D : linkedTo[K] \in G
    BY <1>2, <1>7
  <2> HIDE DEF G
  <2>2. c[n] \in G
    BY <1>5, <1>8, <2>1
  <2> QED
    BY <2>2 DEF G
<1>12. \A j \in DOMAIN stream : \A q \in c[n] : Linked(j, q) => j \in c[n]
  BY <1>8, <1>10 DEF linkedTo
<1>13. ASSUME NEW C \in SUBSET DOMAIN stream, k \in C,
              \A j \in DOMAIN stream : \A q \in C : Linked(j, q) => j \in C
       PROVE  c[n] \subseteq C
  <2>1. {k} \in SUBSET C /\ \A K \in (SUBSET C) \cap D : linkedTo[K] \in SUBSET C
    BY <1>13 DEF linkedTo
  <2>2. c[n] \in SUBSET C
    BY <1>5, <1>8, <2>1
  <2> QED
    BY <2>2
<1> QED
  BY <1>4, <1>8, <1>11, <1>12, <1>13

LEMMA TreesAreReach ==
  ASSUME ForestInv, NEW k \in DOMAIN stream
  PROVE  {j \in DOMAIN stream : root(stream[j]) = root(stream[k])} = Reach(k)
<1> DEFINE tree == {j \in DOMAIN stream : root(stream[j]) = root(stream[k])}
           C == Reach(k)
           X == UNION {keys(stream[q]) : q \in C}
<1>1. stream \in Seq(Signals) /\ \A j \in DOMAIN stream : stream[j] \in ToSet(stream)
  BY DEF ForestInv, MergeInv, AggregationTypeOK, ToSet
<1>2. /\ C \subseteq DOMAIN stream /\ k \in C
      /\ \A j \in DOMAIN stream : \A q \in C : Linked(j, q) => j \in C
      /\ (\A j \in DOMAIN stream : \A q \in tree : Linked(j, q) => j \in tree) => C \subseteq tree
  BY <1>1, ReachCloses
<1> HIDE DEF C
<1>3. \A t : keys(t) = {fingerprint(t), symptomSignature(t)}
  BY DEF keys
<1>4. \A t \in ToSet(stream) : /\ keys(t) \subseteq DOMAIN parent
                               /\ \A x \in keys(t) : find(parent, x) = root(t)
  BY <1>3 DEF ForestInv, MergeInv, AggregationTypeOK, root
<1>5. ASSUME NEW j \in DOMAIN stream, NEW q \in tree, Linked(j, q) PROVE j \in tree
  <2>1. PICK x : x \in keys(stream[j]) /\ x \in keys(stream[q])
    BY <1>5 DEF Linked
  <2>2. find(parent, x) = root(stream[j]) /\ find(parent, x) = root(stream[q])
    BY <1>1, <1>4, <2>1
  <2> QED
    BY <2>2
<1>6. X \subseteq DOMAIN parent /\ whole(X)
  <2>1. X \subseteq DOMAIN parent
    BY <1>1, <1>2, <1>4
  <2>2. ASSUME NEW t \in ToSet(stream), keys(t) \cap X # {} PROVE keys(t) \subseteq X
    <3>1. PICK j \in DOMAIN stream : t = stream[j]
      BY DEF ToSet
    <3>2. PICK q \in C : keys(stream[j]) \cap keys(stream[q]) # {}
      BY <2>2, <3>1
    <3>3. j \in C
      BY <1>2, <3>2 DEF Linked
    <3> QED
      BY <3>1, <3>3
  <2> QED
    BY <2>1, <2>2 DEF whole
<1>7. ASSUME NEW j \in tree PROVE j \in C
  <2>1. fingerprint(stream[k]) \in X
    BY <1>2, <1>3
  <2>2. fingerprint(stream[j]) \in DOMAIN parent
    BY <1>1, <1>3, <1>4
  <2>3. find(parent, fingerprint(stream[k])) = find(parent, fingerprint(stream[j]))
    BY <1>7 DEF root
  <2> HIDE DEF X
  <2>4. fingerprint(stream[j]) \in X
    BY <1>6, <2>1, <2>2, <2>3 DEF ForestInv
  <2>5. PICK q \in C : fingerprint(stream[j]) \in keys(stream[q])
    BY <2>4 DEF X
  <2>6. Linked(j, q)
    BY <1>3, <2>5 DEF Linked
  <2> QED
    BY <1>2, <2>6
<1> QED
  BY <1>2, <1>5, <1>7 DEF C

\* The incident of the tree with this root, as dedupe builds it.
countOf == [k \in DOMAIN stream |-> stream[k].occurrences]
inTree(r) == {k \in DOMAIN stream : root(stream[k]) = r}
recentIn(r) == {k \in inTree(r) : stream[k].seen >= NoiseFloor.windowStart}
incidentOf(r) ==
  [signals |-> inTree(r), occurrences |-> SumFunctionOnSet(countOf, inTree(r)),
   first_seen |-> Min({stream[k].seen : k \in inTree(r)}),
   suppressed |-> SumFunctionOnSet(countOf, recentIn(r)) < NoiseFloor.minOccurrences]

LEMMA DedupeIs == dedupe = {incidentOf(r) : r \in {root(stream[k]) : k \in DOMAIN stream}}
BY Zenon DEF dedupe, incidentOf, inTree, recentIn, countOf

\* Any two signals are in one incident exactly if shared keys connect them, the
\* incidents add up to the signals, and none that is suppressed has a signal
\* that would not be alone, for any signals and in any order.
THEOREM MergesWhatIsConnected == Spec => []IncidentsAreConnected
<1>1. ForestInv => IncidentsAreConnected
  <2> SUFFICES ASSUME ForestInv PROVE IncidentsAreConnected
    OBVIOUS
  <2> DEFINE D == DOMAIN stream
             roots == {root(stream[k]) : k \in D}
             members == [i \in dedupe |-> i.signals]
             w == [i \in dedupe |-> i.occurrences]
  <2>1. /\ IsFiniteSet(D) /\ \A k \in D : /\ countOf[k] \in Nat /\ countOf[k] = stream[k].occurrences
                                          /\ stream[k].seen \in Int
    <3>1. stream \in Seq(Signals)
      BY DEF ForestInv, MergeInv, AggregationTypeOK
    <3>2. Len(stream) \in Nat /\ D = 1..Len(stream) /\ \A k \in D : stream[k] \in Signals
      BY <3>1
    <3> QED
      BY <3>2, CountTo, SignalAssumption DEF countOf
  <2>2. \A i \in dedupe : \E r \in roots : i = incidentOf(r)
    BY DedupeIs
  <2>3. \A k \in D : incidentOf(root(stream[k])) \in dedupe
    BY DedupeIs
  <2>4. ASSUME NEW r
        PROVE  /\ incidentOf(r).signals = inTree(r)
               /\ incidentOf(r).occurrences = SumFunctionOnSet(countOf, inTree(r))
               /\ incidentOf(r).suppressed <=>
                    SumFunctionOnSet(countOf, recentIn(r)) < NoiseFloor.minOccurrences
    BY DEF incidentOf
  <2> HIDE DEF roots
  <2>5. ASSUME NEW k \in D PROVE \E i \in dedupe : i.signals = Reach(k)
    <3>1. inTree(root(stream[k])) = Reach(k)
      BY TreesAreReach DEF inTree
    <3> QED
      BY <2>3, <2>4, <3>1
  <2>6. /\ \A i \in dedupe : members[i] \subseteq D
        /\ \A i, q \in dedupe : i # q => members[i] \cap members[q] = {}
        /\ \A i \in dedupe : w[i] = SumFunctionOnSet(countOf, members[i])
        /\ \A k \in D : \E i \in dedupe : k \in members[i]
    <3>1. ASSUME NEW i \in dedupe
          PROVE  \E r : /\ i = incidentOf(r) /\ members[i] = inTree(r)
                        /\ w[i] = SumFunctionOnSet(countOf, inTree(r))
      BY <2>2, <2>4
    <3>2. \A r : inTree(r) \subseteq D /\ \A k \in inTree(r) : root(stream[k]) = r
      BY DEF inTree
    <3>3. ASSUME NEW k \in D PROVE \E i \in dedupe : k \in members[i]
      <4>1. k \in inTree(root(stream[k]))
        BY DEF inTree
      <4> QED
        BY <2>3, <2>4, <4>1
    <3> HIDE DEF members, w
    <3>4. ASSUME NEW i \in dedupe, NEW q \in dedupe, NEW k \in members[i], k \in members[q]
          PROVE  i = q
      BY <3>1, <3>2, <3>4
    <3> QED
      BY <3>1, <3>2, <3>3, <3>4
  <2>7. IsFiniteSet(dedupe)
    <3> DEFINE f == [k \in D |-> incidentOf(root(stream[k]))]
    <3>1. \A i \in dedupe : \E k \in D : f[k] = i
      BY DedupeIs
    <3>2. f \in Surjection(D, dedupe)
      BY <2>3, <3>1 DEF Surjection
    <3> HIDE DEF f
    <3> QED
      BY <2>1, <3>2, FS_Surjection
  <2>8. SumFunction(w) = SumFunction(countOf)
    <3>1. SumFunction(w) = SumFunctionOnSet(w, dedupe) /\ SumFunction(countOf) = SumFunctionOnSet(countOf, D)
      BY DEF SumFunction, countOf
    <3>2. IsFiniteSet(D) /\ \A k \in D : countOf[k] \in Int
      BY <2>1
    <3> HIDE DEF D, members, w
    <3>3. /\ \A i \in dedupe : members[i] \subseteq D
          /\ \A i, q \in dedupe : i # q => members[i] \cap members[q] = {}
          /\ \A i \in dedupe : w[i] = SumFunctionOnSet(countOf, members[i])
          /\ \A k \in D : \E i \in dedupe : k \in members[i]
      BY <2>6
    <3>4. SumFunctionOnSet(w, dedupe) = SumFunctionOnSet(countOf, D)
      BY <2>7, <3>2, <3>3, SumOfParts
    <3> QED
      BY <3>1, <3>4
  <2>9. ASSUME NEW i \in dedupe, i.suppressed, NEW k \in i.signals,
               stream[k].occurrences >= NoiseFloor.minOccurrences
        PROVE  stream[k].seen < NoiseFloor.windowStart
    <3> SUFFICES ASSUME ~(stream[k].seen < NoiseFloor.windowStart) PROVE FALSE
      OBVIOUS
    <3>1. PICK r : i = incidentOf(r)
      BY <2>2
    <3>2. k \in inTree(r) /\ SumFunctionOnSet(countOf, recentIn(r)) < NoiseFloor.minOccurrences
      BY <2>4, <2>9, <3>1
    <3>3. k \in D /\ recentIn(r) \subseteq D
      BY <3>2 DEF inTree, recentIn
    <3>4. NoiseFloor.windowStart \in Int /\ NoiseFloor.minOccurrences \in Nat
      BY NoiseAssumption
    <3>5. k \in recentIn(r)
      BY <2>1, <3>2, <3>3, <3>4 DEF recentIn
    <3>6. IsFiniteSet(recentIn(r)) /\ \A j \in recentIn(r) : countOf[j] \in Nat
      BY <2>1, <3>3, FS_Subset
    <3>7. /\ SumFunctionOnSet(countOf, recentIn(r)) \in Nat
          /\ countOf[k] <= SumFunctionOnSet(countOf, recentIn(r))
      BY <3>5, <3>6, SumOfNats
    <3> QED
      BY <2>1, <2>9, <3>2, <3>3, <3>4, <3>7
  <2>10. SumFunction([i \in dedupe |-> i.occurrences])
           = SumFunction([k \in DOMAIN stream |-> stream[k].occurrences])
    BY <2>8, Zenon DEF countOf
  <2> QED
    BY <2>5, <2>9, <2>10, Zenon DEF IncidentsAreConnected
<1>2. Init => ForestInv
  BY MergeInit, EmptyForest DEF Init, AggregationIdle
<1> QED
  BY <1>1, <1>2, ForestNext, PTL DEF Spec
=============================================================================
