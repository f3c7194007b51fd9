-------------------------- MODULE KillReleaseProofs --------------------------
(***************************************************************************)
(* What ends a freeze, proved for any set of nonces, any heartbeat and any *)
(* length of run.  A restart empties usedNonces, so that the nonces alone  *)
(* do not tell an old release from a new one; Spent does: a granted        *)
(* release either has its nonce on the list, or is of an earlier freeze    *)
(* than the one that is on.                                                *)
(***************************************************************************)
EXTENDS KillRelease, TLAPS

\* Nobody signs a freeze that is still to come, is granted what nobody signed,
\* or has a nonce spent that nobody drew.
Past ==
  /\ killedAt <= now
  /\ granted \subseteq signed
  /\ \A s \in signed : s.killedAt <= now
  /\ \A n \in usedNonces : \E s \in signed : s.nonce = n

Spent ==
  /\ durable => granted = {}
  /\ \A s \in granted : \/ s.nonce \in usedNonces
                        \/ s.killedAt < now /\ (engaged => s.killedAt < killedAt)

\* A durable call under way has seen what it must have, at its UPDATE or its
\* SELECT: whether the heartbeat was ever fresh can be told from the time the
\* call came, because a beat only ever moves the stamp forward.
CallIsWitness(c) ==
  /\ ops[c].time <= now
  /\ ~engaged => "off" \in ops[c].seen
  /\ "fresh" \in ops[c].seen <=> ops[c].time - beat <= Ttl
  /\ ops[c].at = "select" /\ ops[c].token /\ secret /\ engaged => "freeze" \in ops[c].seen

Witnesses ==
  /\ beat <= now
  /\ ~durable => row
  /\ \A c \in Calls : /\ ops[c].at = "update" => secret /\ ops[c].token
                      /\ ops[c].at \in {"update", "select"} => durable /\ CallIsWitness(c)

SignedOnce == \A s, t \in signed : s.nonce = t.nonce => s = t

IInv ==
  /\ TypeOK
  /\ Past
  /\ Spent
  /\ SignedOnce
  /\ NobodyIsLockedOut
  /\ AnswersAreTrue
  /\ Witnesses
  /\ OpsReplyWasSo

LEMMA InvInit == Init => IInv
<1> SUFFICES ASSUME Init PROVE IInv
  OBVIOUS
<1>1. TypeOK
  <2>1. 0 \in 0..MaxNow
    BY MaxNowAssumption
  <2>2. durable \in BOOLEAN /\ row \in BOOLEAN /\ secret \in BOOLEAN /\ engaged \in BOOLEAN
    BY DEF Init
  <2>3. Idle \in OpsCall
    BY <2>1 DEF Idle, OpsCall
  <2> QED
    BY <2>1, <2>2, <2>3 DEF Init, TypeOK, Answers
<1>2. Past /\ Spent /\ SignedOnce /\ NobodyIsLockedOut
  BY DEF Init, Past, Spent, SignedOnce, NobodyIsLockedOut
<1>3. AnswersAreTrue
  BY DEF Init, AnswersAreTrue
<1>4. Witnesses /\ OpsReplyWasSo
  BY DEF Init, Idle, Witnesses, OpsReplyWasSo
<1> QED
  BY <1>1, <1>2, <1>3, <1>4 DEF IInv

\* What a request that is granted brings with it.
LEMMA GrantFacts ==
  ASSUME IInv, NEW onCall \in BOOLEAN, NEW mfa \in BOOLEAN, NEW s \in Releases,
         NEW n \in Nonces, Grant(onCall, mfa, s, n)
  PROVE  /\ s \in signed /\ s.nonce = n /\ s.killedAt = killedAt
         /\ n \notin usedNonces
         /\ engaged => s \notin granted
<1>1. s \in signed /\ s = [nonce |-> n, killedAt |-> killedAt] /\ n \notin usedNonces
  BY DEF Grant, verifies
<1>2. s.nonce = n /\ s.killedAt = killedAt
  BY <1>1
<1>3. ASSUME engaged, s \in granted PROVE FALSE
  BY <1>1, <1>2, <1>3, MaxNowAssumption DEF IInv, TypeOK, Spent
<1> QED
  BY <1>1, <1>2, <1>3

-----------------------------------------------------------------------------
\* A step that hands the calls on with what it let them see keeps the type of
\* each, and says nothing false of the ones it leaves waiting.
LEMMA WitnessedCalls ==
  ASSUME TypeOK, NEW calls \in [Calls -> OpsCall], ops' = Witnessed(calls)
  PROVE  /\ ops' \in [Calls -> OpsCall]
         /\ \A c \in Calls :
              /\ ops'[c].at = calls[c].at
              /\ ops'[c].token = calls[c].token
              /\ ops'[c].time = calls[c].time
              /\ ops'[c].killed = calls[c].killed
              /\ calls[c].at \in {"update", "select"} =>
                   ops'[c].seen = calls[c].seen \cup Seen
              /\ calls[c].at \notin {"update", "select"} => ops'[c] = calls[c]
<1>1. Seen \subseteq {"off", "fresh", "freeze"}
  BY DEF Seen
<1> QED
  BY <1>1 DEF Witnessed, OpsCall

\* What a step of a durable call in its first two awaits, or a step of anybody
\* else, leaves behind, when time and the heartbeat only move forward.
LEMMA WitnessStep ==
  ASSUME IInv, TypeOK', NEW calls \in [Calls -> OpsCall], ops' = Witnessed(calls),
         UNCHANGED config,
         now <= now', beat = beat' \/ beat' = now', beat' <= now',
         NEW c \in Calls, calls[c].at \in {"update", "select"}, durable,
         \/ calls[c].seen = {} /\ calls[c].time = now'
            /\ (calls[c].at = "select" => ~(calls[c].token /\ secret))
         \/ /\ ops[c].at \in {"update", "select"}
            /\ calls[c].seen = ops[c].seen
            /\ calls[c].time = ops[c].time
            /\ calls[c].token = ops[c].token
            /\ calls[c].at = ops[c].at \/ ~engaged'
  PROVE  CallIsWitness(c)'
<1> USE MaxNowAssumption, TtlAssumption
<1>1. /\ ops'[c].at = calls[c].at /\ ops'[c].token = calls[c].token
      /\ ops'[c].time = calls[c].time /\ ops'[c].seen = calls[c].seen \cup Seen
  BY WitnessedCalls DEF IInv
<1>2. /\ "off" \in Seen <=> ~engaged'
      /\ "fresh" \in Seen <=> now' - beat' <= Ttl
      /\ "freeze" \in Seen <=> ~engaged /\ engaged'
  BY DEF Seen
<1>3. now \in Nat /\ now' \in Nat /\ beat \in Nat /\ beat' \in Nat /\ calls[c].time \in Nat
  BY DEF IInv, TypeOK, OpsCall
<1>4. CASE calls[c].seen = {} /\ calls[c].time = now'
           /\ (calls[c].at = "select" => ~(calls[c].token /\ secret))
  BY <1>1, <1>2, <1>3, <1>4 DEF CallIsWitness, config
<1>5. CASE /\ ops[c].at \in {"update", "select"}
           /\ calls[c].seen = ops[c].seen
           /\ calls[c].time = ops[c].time
           /\ calls[c].token = ops[c].token
           /\ calls[c].at = ops[c].at \/ ~engaged'
  <2>1. CallIsWitness(c) /\ beat <= now
    BY <1>5 DEF IInv, Witnesses
  <2>2. ops'[c].time <= now' /\ (~engaged' => "off" \in ops'[c].seen)
    BY <1>1, <1>2, <1>3, <1>5, <2>1 DEF CallIsWitness
  <2>3. "fresh" \in ops'[c].seen <=> ops'[c].time - beat' <= Ttl
    <3> DEFINE t == calls[c].time
    <3>1. t \in Nat /\ t <= now /\ ("fresh" \in ops[c].seen <=> t - beat <= Ttl)
      BY <1>3, <1>5, <2>1 DEF CallIsWitness
    <3>2. "fresh" \in ops'[c].seen <=> t - beat <= Ttl \/ now' - beat' <= Ttl
      BY <1>1, <1>2, <1>5, <3>1
    <3> HIDE DEF t
    <3>3. t - beat <= Ttl \/ now' - beat' <= Ttl <=> t - beat' <= Ttl
      BY <1>3, <2>1, <3>1
    <3> QED
      BY <1>1, <3>2, <3>3 DEF t
  <2>4. ops'[c].at = "select" /\ ops'[c].token /\ secret' /\ engaged' => "freeze" \in ops'[c].seen
    BY <1>1, <1>2, <1>5, <2>1 DEF CallIsWitness, config
  <2> QED
    BY <2>2, <2>3, <2>4 DEF CallIsWitness
<1> QED
  BY <1>4, <1>5

\* A step that is not a call's own leaves every call as it was, but for what it
\* has seen.
LEMMA OthersStep ==
  ASSUME IInv, TypeOK', ops' = Witnessed(ops), UNCHANGED config,
         now <= now', beat = beat' \/ beat' = now', beat' <= now'
  PROVE  Witnesses' /\ OpsReplyWasSo'
<1>0. ops \in [Calls -> OpsCall] /\ TypeOK
  BY DEF IInv, TypeOK
<1>1. ASSUME NEW c \in Calls, ops[c].at \in {"update", "select"} PROVE CallIsWitness(c)'
  <2>1. durable
    BY <1>1 DEF IInv, Witnesses
  <2> QED
    BY <1>0, <1>1, <2>1, WitnessStep
<1>2. Witnesses'
  BY <1>0, <1>1, WitnessedCalls DEF IInv, Witnesses, config
<1>3. OpsReplyWasSo'
  <2> SUFFICES ASSUME NEW c \in Calls, durable', ops'[c].at = "reply"
               PROVE  IF ops'[c].killed
                      THEN ops'[c].token /\ secret' /\ row' =>
                             "freeze" \in ops'[c].seen \/ "fresh" \notin ops'[c].seen
                      ELSE row' /\ {"off", "fresh"} \subseteq ops'[c].seen
    BY DEF OpsReplyWasSo
  <2>1. ops'[c] = ops[c]
    BY <1>0, WitnessedCalls
  <2> QED
    BY <2>1 DEF IInv, OpsReplyWasSo, config
<1> QED
  BY <1>2, <1>3

LEMMA InvStep == IInv /\ [Next]_vars => IInv'
<1> SUFFICES ASSUME IInv, [Next]_vars PROVE IInv'
  OBVIOUS
<1> DEFINE Gate == /\ Past
                   /\ Spent
                   /\ SignedOnce
                   /\ NobodyIsLockedOut
                   /\ AnswersAreTrue
           Step(calls) == /\ UNCHANGED config
                          /\ now <= now'
                          /\ beat = beat' \/ beat' = now'
                          /\ beat' <= now'
                          /\ ops' = Witnessed(calls)
<1> USE MaxNowAssumption, TtlAssumption
<1>a. /\ ops \in [Calls -> OpsCall] /\ now \in Nat /\ beat \in Nat /\ beat <= now
      /\ TypeOK
  BY DEF IInv, TypeOK, Witnesses
<1>b. ASSUME Gate', TypeOK', Witnesses' /\ OpsReplyWasSo' PROVE IInv'
  BY <1>b DEF IInv
<1>1. ASSUME NEW n \in Nonces, Sign(n) PROVE IInv'
  <2> DEFINE new == [nonce |-> n, killedAt |-> killedAt]
  <2>1. signed' = signed \cup {new} /\ new \in Releases
    BY <1>1, <1>a DEF Sign, Releases, TypeOK
  <2>2. \A s \in signed : s.nonce # n
    BY <1>1 DEF Sign
  <2>3. n \notin usedNonces
    BY <2>2 DEF IInv, Past
  <2>4. TypeOK' /\ AnswersAreTrue'
    BY <1>1, <1>a, <2>1 DEF Sign, TypeOK, AnswersAreTrue, Answers, config, switch, gate
  <2>5. Past' /\ Spent'
    BY <1>1, <1>a, <2>1 DEF Sign, IInv, TypeOK, Past, Spent, config, switch, gate
  <2>6. SignedOnce'
    BY <2>1, <2>2 DEF IInv, SignedOnce
  <2>7. NobodyIsLockedOut'
    BY <1>1, <2>1, <2>3 DEF Sign, IInv, NobodyIsLockedOut, gate
  <2>8. Witnesses' /\ OpsReplyWasSo'
    BY <1>1 DEF Sign, IInv, Witnesses, CallIsWitness, OpsReplyWasSo, config, switch
  <2> QED
    BY <1>b, <2>4, <2>5, <2>6, <2>7, <2>8
<1>2. ASSUME Heartbeat PROVE IInv'
  <2>1. Step(ops)
    BY <1>2, <1>a DEF Heartbeat, config
  <2>2. ops' \in [Calls -> OpsCall]
    BY <1>a, <2>1, WitnessedCalls
  <2>3. Gate' /\ TypeOK'
    BY <1>2, <2>2 DEF Heartbeat, IInv, TypeOK, Past, Spent, SignedOnce, NobodyIsLockedOut,
       AnswersAreTrue, Answers, config, gate
  <2> QED
    BY <1>b, <2>1, <2>3, OthersStep
<1>3. ASSUME Engage PROVE IInv'
  <2>1. Step(ops)
    BY <1>3, <1>a DEF Engage, config
  <2>2. ops' \in [Calls -> OpsCall]
    BY <1>a, <2>1, WitnessedCalls
  <2>3. Gate' /\ TypeOK'
    BY <1>3, <2>2 DEF Engage, IInv, TypeOK, Past, Spent, SignedOnce, NobodyIsLockedOut,
       AnswersAreTrue, Answers, Releases, config, gate
  <2> QED
    BY <1>b, <2>1, <2>3, OthersStep
<1>4. ASSUME NEW onCall \in BOOLEAN, NEW mfa \in BOOLEAN, NEW s \in Releases,
             NEW n \in Nonces, Refuse(onCall, mfa, s, n)
      PROVE  IInv'
  <2>1. Gate' /\ TypeOK'
    BY <1>4 DEF Refuse, IInv, TypeOK, Past, Spent, SignedOnce, NobodyIsLockedOut,
       AnswersAreTrue, Answers, config, switch, gate
  <2>2. Witnesses' /\ OpsReplyWasSo'
    BY <1>4 DEF Refuse, IInv, Witnesses, CallIsWitness, OpsReplyWasSo, config, switch
  <2> QED
    BY <1>b, <2>1, <2>2
<1>5. ASSUME ~durable, NEW onCall \in BOOLEAN, NEW mfa \in BOOLEAN, NEW s \in Releases,
             NEW n \in Nonces, Grant(onCall, mfa, s, n)
      PROVE  IInv'
  <2>1. s \in signed /\ s.nonce = n
    BY <1>5, GrantFacts
  <2>2. NobodyIsLockedOut'
    BY <1>5, <2>1 DEF Grant, IInv, NobodyIsLockedOut, SignedOnce
  <2>3. AnswersAreTrue'
    BY <1>5, <1>a DEF Grant, reply, afterRelease, AnswersAreTrue, isKilled, config, IInv, TypeOK,
       Witnesses
  <2>4. TypeOK' /\ Past' /\ SignedOnce'
    BY <1>5, <2>1 DEF Grant, reply, afterRelease, IInv, TypeOK, Past, SignedOnce, Answers, config
  <2>5. Spent'
    BY <1>5, <2>1 DEF Grant, afterRelease, IInv, TypeOK, Past, Spent, config
  <2>6. Witnesses' /\ OpsReplyWasSo'
    BY <1>5 DEF Grant, IInv, Witnesses, OpsReplyWasSo, config
  <2> QED
    BY <1>b, <2>2, <2>3, <2>4, <2>5, <2>6
<1>6. ASSUME NEW c \in Calls, NEW token \in BOOLEAN, OpsReceive(c, token) PROVE IInv'
  <2> DEFINE at == IF ~durable THEN "reply"
                   ELSE IF secret /\ token THEN "update" ELSE "select"
             call == [Idle EXCEPT !.at = at, !.token = token, !.time = now,
                                  !.killed = ~durable /\ engaged']
             calls == [ops EXCEPT ![c] = call]
  <2>1. /\ call.at = at /\ call.token = token /\ call.time = now /\ call.seen = {}
        /\ call \in OpsCall
    BY <1>6, <1>a DEF Idle, OpsCall, OpsReceive, afterRelease, TypeOK
  <2> HIDE DEF call
  <2>2. calls \in [Calls -> OpsCall] /\ calls[c] = call /\ \A d \in Calls \ {c} : calls[d] = ops[d]
    BY <1>a, <2>1
  <2>3. Step(calls)
    BY <1>6, <1>a DEF OpsReceive, config, call
  <2> HIDE DEF calls
  <2>4. ops' \in [Calls -> OpsCall]
    BY <1>a, <2>2, <2>3, WitnessedCalls
  <2>5. Gate' /\ TypeOK'
    BY <1>6, <2>4 DEF OpsReceive, afterRelease, IInv, TypeOK, Past, Spent, SignedOnce,
       NobodyIsLockedOut, AnswersAreTrue, Answers, config, gate
  <2>6. ASSUME NEW d \in Calls, calls[d].at \in {"update", "select"}
        PROVE  durable /\ CallIsWitness(d)'
    <3>1. durable
      BY <1>6, <2>1, <2>2, <2>6 DEF IInv, Witnesses
    <3>2. CASE d = c
      BY <1>6, <2>1, <2>2, <2>3, <2>5, <2>6, <3>1, <3>2, WitnessStep DEF OpsReceive
    <3>3. CASE d # c
      BY <2>2, <2>3, <2>5, <2>6, <3>1, <3>3, WitnessStep
    <3> QED
      BY <3>1, <3>2, <3>3
  <2>7. Witnesses'
    BY <1>a, <2>1, <2>2, <2>3, <2>6, WitnessedCalls DEF IInv, Witnesses, config
  <2>8. OpsReplyWasSo'
    <3>1. ASSUME NEW d \in Calls, durable, ops'[d].at = "reply" PROVE ops'[d] = ops[d]
      BY <1>a, <2>1, <2>2, <2>3, <3>1, WitnessedCalls
    <3> QED
      BY <2>3, <3>1 DEF IInv, OpsReplyWasSo, config
  <2> QED
    BY <1>b, <2>5, <2>7, <2>8
<1>7. ASSUME NEW c \in Calls, OpsUpdate(c) PROVE IInv'
  <2> DEFINE calls == [ops EXCEPT ![c].at = "select"]
  <2>1. /\ calls \in [Calls -> OpsCall]
        /\ calls[c].at = "select" /\ calls[c].token = ops[c].token
        /\ calls[c].time = ops[c].time /\ calls[c].seen = ops[c].seen
        /\ \A d \in Calls \ {c} : calls[d] = ops[d]
    BY <1>a DEF OpsCall
  <2>2. Step(calls)
    BY <1>7, <1>a DEF OpsUpdate, config
  <2> HIDE DEF calls
  <2>3. ops' \in [Calls -> OpsCall]
    BY <1>a, <2>1, <2>2, WitnessedCalls
  <2>4. Gate' /\ TypeOK'
    BY <1>7, <2>3 DEF OpsUpdate, IInv, TypeOK, Past, Spent, SignedOnce, NobodyIsLockedOut,
       AnswersAreTrue, Answers, config, gate
  <2>5. ASSUME NEW d \in Calls, calls[d].at \in {"update", "select"}
        PROVE  durable /\ CallIsWitness(d)'
    <3>1. ops[d].at \in {"update", "select"}
      BY <1>7, <2>1, <2>5 DEF OpsUpdate
    <3>2. durable
      BY <3>1 DEF IInv, Witnesses
    <3>3. /\ calls[d].seen = ops[d].seen /\ calls[d].time = ops[d].time
          /\ calls[d].token = ops[d].token /\ ~engaged'
      BY <1>7, <2>1 DEF OpsUpdate
    <3> QED
      BY <2>1, <2>2, <2>4, <2>5, <3>1, <3>2, <3>3, WitnessStep
  <2>6. Witnesses'
    BY <1>a, <2>1, <2>2, <2>5, WitnessedCalls DEF IInv, Witnesses, config
  <2>7. OpsReplyWasSo'
    <3>1. ASSUME NEW d \in Calls, ops'[d].at = "reply" PROVE ops'[d] = ops[d]
      BY <1>a, <2>1, <2>2, <3>1, WitnessedCalls
    <3> QED
      BY <2>2, <3>1 DEF IInv, OpsReplyWasSo, config
  <2> QED
    BY <1>b, <2>4, <2>6, <2>7
<1>8. ASSUME NEW c \in Calls, OpsSelect(c) PROVE IInv'
  <2> DEFINE killed == isKilled(engaged, ops[c].time)
             calls == [ops EXCEPT ![c].at = "reply", ![c].killed = killed]
  <2>0. killed \in BOOLEAN
    BY <1>a DEF isKilled, TypeOK
  <2>1. /\ calls \in [Calls -> OpsCall]
        /\ calls[c].at = "reply" /\ calls[c].token = ops[c].token
        /\ calls[c].killed = killed /\ calls[c].seen = ops[c].seen
        /\ \A d \in Calls \ {c} : calls[d] = ops[d]
    BY <1>a, <2>0 DEF OpsCall
  <2>2. Step(calls) /\ UNCHANGED <<row, secret, durable>>
    BY <1>8, <1>a DEF OpsSelect, config, switch
  <2> HIDE DEF calls
  <2>3. ops' \in [Calls -> OpsCall]
    BY <1>a, <2>1, <2>2, WitnessedCalls
  <2>4. Gate' /\ TypeOK'
    BY <1>8, <2>3 DEF OpsSelect, IInv, TypeOK, Past, Spent, SignedOnce, NobodyIsLockedOut,
       AnswersAreTrue, Answers, config, switch, gate
  <2>5. ASSUME NEW d \in Calls, calls[d].at \in {"update", "select"}
        PROVE  durable /\ CallIsWitness(d)'
    <3>1. d # c /\ calls[d] = ops[d]
      BY <2>1, <2>5
    <3>2. durable
      BY <2>5, <3>1 DEF IInv, Witnesses
    <3> QED
      BY <2>1, <2>2, <2>4, <2>5, <3>1, <3>2, WitnessStep
  <2>6. Witnesses'
    BY <1>a, <2>1, <2>2, <2>5, WitnessedCalls DEF IInv, Witnesses, config
  <2>7. OpsReplyWasSo'
    <3>1. ASSUME NEW d \in Calls, d # c, ops'[d].at = "reply" PROVE ops'[d] = ops[d]
      BY <1>a, <2>1, <2>2, <3>1, WitnessedCalls
    <3>2. /\ ops'[c].killed = killed /\ ops'[c].seen = ops[c].seen
          /\ ops'[c].token = ops[c].token
      BY <1>a, <2>1, <2>2, WitnessedCalls
    <3>3. CallIsWitness(c) /\ ops[c].at = "select" /\ ops[c].time \in Nat
      BY <1>8, <1>a DEF OpsSelect, IInv, Witnesses, OpsCall
    <3>4. killed => ~row \/ ~(ops[c].token /\ secret) \/ "freeze" \in ops[c].seen
                         \/ "fresh" \notin ops[c].seen
      BY <3>3, <1>a DEF isKilled, CallIsWitness
    <3>5. ~killed => row /\ "off" \in ops[c].seen /\ "fresh" \in ops[c].seen
      BY <3>3, <1>a DEF isKilled, CallIsWitness
    <3> HIDE DEF killed
    <3> QED
      BY <2>2, <3>1, <3>2, <3>4, <3>5 DEF IInv, OpsReplyWasSo
  <2> QED
    BY <1>b, <2>4, <2>6, <2>7
<1>9. ASSUME NEW c \in Calls, OpsEnd(c) PROVE IInv'
  <2>1. Idle \in OpsCall /\ Idle.at = "idle"
    BY DEF Idle, OpsCall
  <2>2. /\ ops' \in [Calls -> OpsCall] /\ ops'[c] = Idle
        /\ \A d \in Calls \ {c} : ops'[d] = ops[d]
    BY <1>9, <1>a, <2>1 DEF OpsEnd
  <2>3. Gate' /\ TypeOK'
    BY <1>9, <2>2 DEF OpsEnd, IInv, TypeOK, Past, Spent, SignedOnce, NobodyIsLockedOut,
       AnswersAreTrue, Answers, config, switch, gate
  <2>4. Witnesses' /\ OpsReplyWasSo'
    BY <1>9, <2>1, <2>2 DEF OpsEnd, IInv, Witnesses, CallIsWitness, OpsReplyWasSo, config, switch
  <2> QED
    BY <1>b, <2>3, <2>4
<1>10. ASSUME Restart PROVE IInv'
  <2>1. Idle \in OpsCall /\ Idle.at = "idle"
    BY DEF Idle, OpsCall
  <2>2. ops' = [d \in Calls |-> Idle] /\ ops' \in [Calls -> OpsCall]
    BY <1>10, <2>1 DEF Restart
  <2>3. Gate' /\ TypeOK'
    BY <1>10, <2>2 DEF Restart, IInv, TypeOK, Past, Spent, SignedOnce, NobodyIsLockedOut,
       AnswersAreTrue, Answers, Releases, config
  <2>4. Witnesses' /\ OpsReplyWasSo'
    BY <1>10, <1>a, <2>1, <2>2 DEF Restart, IInv, Witnesses, OpsReplyWasSo, config
  <2> QED
    BY <1>b, <2>3, <2>4
<1>11. ASSUME Pass PROVE IInv'
  <2>1. Step(ops)
    BY <1>11, <1>a DEF Pass, config, switch
  <2>2. ops' \in [Calls -> OpsCall]
    BY <1>a, <2>1, WitnessedCalls
  <2>3. Gate' /\ TypeOK'
    BY <1>11, <2>2 DEF Pass, IInv, TypeOK, Past, Spent, SignedOnce, NobodyIsLockedOut,
       AnswersAreTrue, Answers, Releases, config, switch, gate
  <2> QED
    BY <1>b, <2>1, <2>3, OthersStep
<1>12. ASSUME UNCHANGED vars PROVE IInv'
  <2>1. Gate' /\ TypeOK'
    BY <1>12 DEF vars, IInv, TypeOK, Past, Spent, SignedOnce, NobodyIsLockedOut,
       AnswersAreTrue, isKilled
  <2>2. Witnesses' /\ OpsReplyWasSo'
    BY <1>12 DEF vars, IInv, Witnesses, CallIsWitness, OpsReplyWasSo
  <2> QED
    BY <1>b, <2>1, <2>2
<1> QED
  BY <1>1, <1>2, <1>3, <1>4, <1>5, <1>6, <1>7, <1>8, <1>9, <1>10, <1>11, <1>12
     DEF Next, RequestRelease

LEMMA Invariance == Spec => []IInv
BY InvInit, InvStep, PTL DEF Spec

-----------------------------------------------------------------------------
\* The state is always one the code can hold.
THEOREM TypeCorrect == Spec => []TypeOK
<1> IInv => TypeOK
  BY DEF IInv
<1> QED
  BY Invariance, PTL

\* A reply of the gate is true when it is given.
THEOREM RepliesAreTrue == Spec => []AnswersAreTrue
<1> IInv => AnswersAreTrue
  BY DEF IInv
<1> QED
  BY Invariance, PTL

\* What the durable ops endpoint replies was so while the call was under way,
\* for any number of calls, whatever is done between its two queries.
THEOREM OpsRepliesWereSo == Spec => []OpsReplyWasSo
<1> IInv => OpsReplyWasSo
  BY DEF IInv
<1> QED
  BY Invariance, PTL

\* A member's nonce is spent by granting that member's release and by nothing else.
THEOREM NoLockout == Spec => []NobodyIsLockedOut
<1> IInv => NobodyIsLockedOut
  BY DEF IInv
<1> QED
  BY Invariance, PTL

\* A freeze ends by a release signed for it and granted just now, by a step of
\* an ops call with the token, or by a restart that loses the switch: never by a
\* copy of an earlier release.
THEOREM OneFreezePerSignature == Spec => SignatureEndsOneFreeze
<1> DEFINE Ended == engaged /\ ~engaged' =>
              \/ \E s \in granted' \ granted : s.killedAt = killedAt
              \/ \E c \in Calls : ops'[c].token /\ ops'[c].at # ops[c].at
              \/ Restart
<1>1. IInv /\ [Next]_vars => [Ended]_vars
  <2> SUFFICES ASSUME IInv, Next, engaged, ~engaged' PROVE Ended
    BY DEF vars
  <2>0. ops \in [Calls -> OpsCall] /\ TypeOK
    BY DEF IInv, TypeOK
  <2>1. ASSUME NEW n \in Nonces, Sign(n) PROVE FALSE
    BY <2>1 DEF Sign, switch
  <2>2. CASE Heartbeat \/ Engage \/ Pass
    BY <2>2 DEF Heartbeat, Engage, Pass, switch
  <2>3. ASSUME NEW onCall \in BOOLEAN, NEW mfa \in BOOLEAN, NEW s \in Releases,
               NEW n \in Nonces, Refuse(onCall, mfa, s, n)
        PROVE  FALSE
    BY <2>3 DEF Refuse, switch
  <2>4. ASSUME NEW onCall \in BOOLEAN, NEW mfa \in BOOLEAN, NEW s \in Releases,
               NEW n \in Nonces, Grant(onCall, mfa, s, n)
        PROVE  \E q \in granted' \ granted : q.killedAt = killedAt
    <3>1. s \notin granted /\ s.killedAt = killedAt
      BY <2>4, GrantFacts
    <3>2. s \in granted'
      BY <2>4 DEF Grant
    <3> QED
      BY <3>1, <3>2
  <2>5. ASSUME NEW c \in Calls, NEW token \in BOOLEAN, OpsReceive(c, token)
        PROVE  ops'[c].token /\ ops'[c].at # ops[c].at
    <3>1. ~durable /\ token
      BY <2>5 DEF OpsReceive, afterRelease
    <3> DEFINE call == [Idle EXCEPT !.at = "reply", !.token = token, !.time = now,
                                    !.killed = ~durable /\ engaged']
    <3>2. call.at = "reply" /\ call.token = token /\ call \in OpsCall
      BY <2>0, <2>5 DEF Idle, OpsCall, OpsReceive, afterRelease, TypeOK
    <3>3. ops' = Witnessed([ops EXCEPT ![c] = call])
      BY <2>5, <3>1 DEF OpsReceive
    <3> HIDE DEF call
    <3>4. [ops EXCEPT ![c] = call] \in [Calls -> OpsCall] /\ [ops EXCEPT ![c] = call][c] = call
      BY <2>0, <3>2
    <3>5. ops'[c].at = "reply" /\ ops'[c].token = token
      BY <2>0, <3>2, <3>3, <3>4, WitnessedCalls
    <3>6. ops[c].at = "idle"
      BY <2>5 DEF OpsReceive, Idle
    <3> QED
      BY <3>1, <3>5, <3>6
  <2>6. ASSUME NEW c \in Calls, OpsUpdate(c) PROVE ops'[c].token /\ ops'[c].at # ops[c].at
    <3> DEFINE calls == [ops EXCEPT ![c].at = "select"]
    <3>1. /\ calls \in [Calls -> OpsCall] /\ calls[c].at = "select"
          /\ calls[c].token = ops[c].token
      BY <2>0 DEF OpsCall
    <3>2. ops' = Witnessed(calls)
      BY <2>6 DEF OpsUpdate
    <3> HIDE DEF calls
    <3>3. ops'[c].at = "select" /\ ops'[c].token = ops[c].token
      BY <2>0, <3>1, <3>2, WitnessedCalls
    <3> QED
      BY <2>6, <3>3 DEF OpsUpdate, IInv, Witnesses
  <2>7. ASSUME NEW c \in Calls, OpsSelect(c) \/ OpsEnd(c) PROVE FALSE
    BY <2>7 DEF OpsSelect, OpsEnd, switch
  <2> QED
    BY <2>1, <2>2, <2>3, <2>4, <2>5, <2>6, <2>7 DEF Next, RequestRelease
<1> QED
  BY Invariance, <1>1, PTL DEF Spec, SignatureEndsOneFreeze
=============================================================================
