---------------------------- MODULE KillRelease ----------------------------
(***************************************************************************)
(* The kill switch and everything that can clear it: the signed release of *)
(* packages/hitl/src/killrelease.ts, the ops endpoints of app/src/http.ts, *)
(* and the two switches of packages/orchestrator, one in memory and one in *)
(* Postgres.  The gate takes the in-memory switch, and what it does is one *)
(* step; the endpoints take either, and over Postgres a release is two     *)
(* queries with everything else between them.  A signature is the record   *)
(* it signs: it verifies exactly for the message it was made over.         *)
(***************************************************************************)
EXTENDS Naturals

CONSTANTS Nonces,  \* single-use numbers of the release requests
          Calls,   \* requests to POST /release
          Ttl,     \* heartbeatTtlMs
          MaxNow   \* bound: the last instant of a run
ASSUME TtlAssumption == Ttl \in Nat
ASSUME MaxNowAssumption == MaxNow \in Nat

VARIABLES
  durable,    \* the switch is PgKillSwitch, not KillSwitch
  row,        \* the row of orch.kill_switch is there
  secret,     \* a release secret is configured
  now,
  engaged,
  beat,       \* lastHeartbeatMs
  killedAt,   \* when the last freeze was engaged: the caller's record of it
  signed,     \* releases an on-call member has put a signature on
  usedNonces,
  granted,    \* history: the signed releases the audit log shows as granted
  answer,     \* what the gate replied last, "none" once anything else happens
  ops         \* the calls of POST /release, from their receipt to their reply

vars == <<durable, row, secret, now, engaged, beat, killedAt, signed,
          usedNonces, granted, answer, ops>>
config == <<durable, row, secret>>
switch == <<engaged, beat, killedAt>>
gate == <<usedNonces, granted>>

Releases == [nonce: Nonces, killedAt: 0..MaxNow]
Answers == {"none", "ok", "still_killed", "refused"}

\* A call: the await it is in, whether it brought the token, the time the
\* route read when it came, and the state it will reply.  seen is history, of
\* a durable call up to its SELECT: at some moment of it the bit was "off", the
\* heartbeat was "fresh", a "freeze" began.
OpsCall == [at: {"idle", "update", "select", "reply"}, token: BOOLEAN,
            time: 0..MaxNow, killed: BOOLEAN, seen: SUBSET {"off", "fresh", "freeze"}]
Idle == [at |-> "idle", token |-> FALSE, time |-> 0, killed |-> FALSE, seen |-> {}]

TypeOK ==
  /\ durable \in BOOLEAN
  /\ row \in BOOLEAN
  /\ secret \in BOOLEAN
  /\ now \in 0..MaxNow
  /\ engaged \in BOOLEAN
  /\ beat \in 0..MaxNow
  /\ killedAt \in 0..MaxNow
  /\ signed \subseteq Releases
  /\ usedNonces \subseteq Nonces
  /\ granted \subseteq Releases
  /\ answer \in Answers
  /\ ops \in [Calls -> OpsCall]

Init ==
  /\ durable \in BOOLEAN
  /\ row \in BOOLEAN
  /\ ~durable => row
  /\ secret \in BOOLEAN
  /\ now = 0
  /\ engaged = FALSE
  /\ beat = 0
  /\ killedAt = 0
  /\ signed = {}
  /\ usedNonces = {}
  /\ granted = {}
  /\ answer = "none"
  /\ ops = [c \in Calls |-> Idle]

\* nowMs is the caller's; without a row the system is killed.
isKilled(e, nowMs) == ~row \/ e \/ nowMs - beat > Ttl

\* The calls as they are after a step, with what the step let them see.
Seen == {x \in {"off", "fresh", "freeze"} :
           \/ x = "off" /\ ~engaged'
           \/ x = "fresh" /\ now' - beat' <= Ttl
           \/ x = "freeze" /\ ~engaged /\ engaged'}
Witnessed(calls) ==
  [c \in Calls |-> IF calls[c].at \in {"update", "select"}
                   THEN [calls[c] EXCEPT !.seen = @ \cup Seen]
                   ELSE calls[c]]

\* A member of the on-call set signs a release of the freeze that is on, with
\* a nonce nobody has drawn before.
Sign(n) ==
  /\ engaged
  /\ \A s \in signed : s.nonce # n
  /\ signed' = signed \cup {[nonce |-> n, killedAt |-> killedAt]}
  /\ answer' = "none"
  /\ UNCHANGED <<config, now, switch, gate, ops>>

\* Mutant: the ping stores the deadline.
HeartbeatDeadline ==
  /\ row
  /\ beat' = now + Ttl
  /\ answer' = "none"
  /\ UNCHANGED <<config, now, engaged, killedAt, signed, gate>>
  /\ ops' = Witnessed(ops)

Heartbeat ==
  /\ row
  /\ beat' = now
  /\ answer' = "none"
  /\ UNCHANGED <<config, now, engaged, killedAt, signed, gate>>
  /\ ops' = Witnessed(ops)

\* POST /kill, or anyone else: engaging twice is one freeze.
Engage ==
  /\ row
  /\ engaged' = TRUE
  /\ killedAt' = IF engaged THEN killedAt ELSE now
  /\ answer' = "none"
  /\ UNCHANGED <<config, now, beat, signed, gate>>
  /\ ops' = Witnessed(ops)

\* The bit after release(token).
afterRelease(token) == engaged /\ ~(secret /\ token)

\* Mutant: the signature does not bind the freeze.
verifiesAnyFreeze(s, n) == s \in signed /\ s.nonce = n

\* verifySignature over canonical(action, by, nonce, killedAt).
verifies(s, n) == s \in signed /\ s = [nonce |-> n, killedAt |-> killedAt]

\* Mutant: the nonce is spent by whoever presents it.
RefuseSpending(onCall, mfa, s, n) ==
  /\ ~(onCall /\ mfa /\ verifies(s, n) /\ n \notin usedNonces)
  /\ answer' = "refused"
  /\ usedNonces' = IF onCall /\ mfa THEN usedNonces \cup {n} ELSE usedNonces
  /\ UNCHANGED <<config, now, switch, signed, granted, ops>>

\* A request that fails any link of the chain is audited and refused.
Refuse(onCall, mfa, s, n) ==
  /\ ~(onCall /\ mfa /\ verifies(s, n) /\ n \notin usedNonces)
  /\ answer' = "refused"
  /\ UNCHANGED <<config, now, switch, signed, gate, ops>>

\* Mutant: the answer is the bit release() returned.
replyBit(e) == IF e THEN "still_killed" ELSE "ok"

\* isKilled is read back after the release.
reply(e) == IF isKilled(e, now) THEN "still_killed" ELSE "ok"

\* The chain holds: spend the nonce, audit the grant, release, read back.
Grant(onCall, mfa, s, n) ==
  /\ onCall /\ mfa /\ verifies(s, n) /\ n \notin usedNonces
  /\ usedNonces' = usedNonces \cup {n}
  /\ granted' = granted \cup {s}
  /\ engaged' = afterRelease(TRUE)
  /\ answer' = reply(engaged')
  /\ UNCHANGED <<config, now, beat, killedAt, signed, ops>>

\* A request reaches the gate: a member's own, a copy of it that comes late or
\* again, or one put together from a signature and another nonce.
RequestRelease ==
  /\ ~durable
  /\ \E onCall, mfa \in BOOLEAN, s \in Releases, n \in Nonces :
       Refuse(onCall, mfa, s, n) \/ Grant(onCall, mfa, s, n)

\* POST /release: no gate, only the HMAC and the token.  KillSwitch.release is
\* done at once and replies the bit; PgKillSwitch.release has the UPDATE ahead
\* of it if the token is the secret, and the SELECT in any case.
OpsReceive(c, token) ==
  /\ ops[c] = Idle
  /\ engaged' = IF durable THEN engaged ELSE afterRelease(token)
  /\ answer' = "none"
  /\ UNCHANGED <<config, now, beat, killedAt, signed, gate>>
  /\ LET at == IF ~durable THEN "reply"
               ELSE IF secret /\ token THEN "update" ELSE "select"
         call == [Idle EXCEPT !.at = at, !.token = token, !.time = now,
                              !.killed = ~durable /\ engaged']
     IN  ops' = Witnessed([ops EXCEPT ![c] = call])

\* Mutant: the UPDATE is not awaited, and the SELECT overtakes it.
OpsUpdateOvertaken(c) ==
  /\ ops[c].at = "update"
  /\ answer' = "none"
  /\ UNCHANGED <<config, now, switch, signed, gate>>
  /\ ops' = Witnessed([ops EXCEPT ![c].at = "select"])

\* UPDATE orch.kill_switch SET engaged = false.
OpsUpdate(c) ==
  /\ ops[c].at = "update"
  /\ engaged' = FALSE
  /\ answer' = "none"
  /\ UNCHANGED <<config, now, beat, killedAt, signed, gate>>
  /\ ops' = Witnessed([ops EXCEPT ![c].at = "select"])

\* isKilled(nowMs), with the time the call came.
OpsSelect(c) ==
  /\ ops[c].at = "select"
  /\ answer' = "none"
  /\ UNCHANGED <<config, now, switch, signed, gate>>
  /\ ops' = Witnessed([ops EXCEPT ![c].at = "reply",
                                   ![c].killed = isKilled(engaged, ops[c].time)])

\* The reply goes out, or the query that is awaited fails and so does the call.
OpsEnd(c) ==
  /\ ops[c] # Idle
  /\ ops' = [ops EXCEPT ![c] = Idle]
  /\ answer' = "none"
  /\ UNCHANGED <<config, now, switch, signed, gate>>

\* The switch in memory, and the gate's nonces, start afresh; the row stays.
Restart ==
  /\ now < MaxNow
  /\ now' = now + 1
  /\ engaged' = (durable /\ engaged)
  /\ beat' = IF durable THEN beat ELSE now'
  /\ usedNonces' = {}
  /\ answer' = "none"
  /\ ops' = [c \in Calls |-> Idle]
  /\ UNCHANGED <<config, killedAt, signed, granted>>

Pass ==
  /\ now < MaxNow
  /\ now' = now + 1
  /\ answer' = "none"
  /\ UNCHANGED <<config, switch, signed, gate>>
  /\ ops' = Witnessed(ops)

Next ==
  \/ \E n \in Nonces : Sign(n)
  \/ Heartbeat
  \/ Engage
  \/ RequestRelease
  \/ \E c \in Calls, token \in BOOLEAN : OpsReceive(c, token)
  \/ \E c \in Calls : OpsUpdate(c) \/ OpsSelect(c) \/ OpsEnd(c)
  \/ Restart
  \/ Pass

Spec == Init /\ [][Next]_vars

(***************************************************************************)
(* Properties.                                                             *)
(***************************************************************************)
\* A freeze is lifted by a release that was signed for this very freeze and
\* had not been granted before, by a step of an ops call that brought the token,
\* or by losing the memory the switch is kept in.  In particular no copy of an
\* old release lifts a later freeze, not even when the restart has emptied the
\* gate's nonces.
SignatureEndsOneFreeze ==
  [][engaged /\ ~engaged' =>
       \/ \E s \in granted' \ granted : s.killedAt = killedAt
       \/ \E c \in Calls : ops'[c].token /\ ops'[c].at # ops[c].at
       \/ Restart]_vars

\* No member is locked out: the nonce of a signed release is spent only by
\* granting that release, never by a refused copy of it or by another request
\* that names the same nonce while the member's own is on its way.
NobodyIsLockedOut ==
  \A s \in signed : s.nonce \in usedNonces => s \in granted

\* What the gate answers is so: "ok" only when nothing freezes the system,
\* "still_killed" when the release went through and the heartbeat alone keeps
\* it frozen (the next one thaws it).
AnswersAreTrue ==
  /\ answer = "ok" => ~isKilled(engaged, now)
  /\ answer = "still_killed" /\ secret => ~engaged /\ now - beat > Ttl

\* What the durable ops endpoint replies was so while the call was under way,
\* whoever engaged, released or beat between its queries: "not killed" only if
\* the bit has been off and the heartbeat has been fresh (not always at the
\* same moment), and "killed" to who brought the token only if a new freeze
\* began, the heartbeat was never fresh, or there is no row to update.
OpsReplyWasSo ==
  \A c \in Calls : durable /\ ops[c].at = "reply" =>
    IF ops[c].killed
    THEN ops[c].token /\ secret /\ row => "freeze" \in ops[c].seen \/ "fresh" \notin ops[c].seen
    ELSE row /\ {"off", "fresh"} \subseteq ops[c].seen
=============================================================================
