--------------------------- MODULE MCIncidentPath ---------------------------
EXTENDS IncidentPath

\* Eight signals over two areas: two files of one area with one error and with
\* another, one file with two errors, a stack that moved, no stack at all.
signal(paths, location, error, seen, occurrences) ==
  [source |-> "sentry", paths |-> paths, location |-> location, error |-> error,
   service |-> "svc", seen |-> seen, occurrences |-> occurrences]
MCSignals ==
  {signal(<<"a/b/x">>, "f1", "E1", 0, 1), signal(<<"a/b/y">>, "f1", "E1", 1, 1),
   signal(<<"a/b/x">>, "f1", "E2", 1, 2), signal(<<"a/b/y">>, "f2", "E2", 1, 1),
   signal(<<"c/d/z">>, "f2", "E3", 0, 3), signal(<<>>, "nowhere", "E3", 1, 1),
   signal(<<>>, "f1", "E1", 1, 1), signal(<<"c/d/z">>, "f2", "E1", 0, 1)}
MCAreaOf == [p \in {"a/b/x", "a/b/y", "c/d/z"} |-> IF p = "c/d/z" THEN "c/d" ELSE "a/b"]
MCNoiseFloor == [minOccurrences |-> 2, windowStart |-> 1]

\* Deploys outside the window, before, at and after the onset, undated or not.
plain == [title |-> {}, message |-> {}, culprit |-> {}, path |-> {}, rest |-> {}]
body(class, shape, deploys, text, occurrences) ==
  [signal_class |-> class, shape |-> shape, paths |-> <<"p">>, occurrences |-> occurrences,
   deploys |-> deploys, text |-> text]
deploysAt(times) ==
  [ts : times, diff : {{}, {"p"}, {"p", "q"}}, dated : {TRUE}]
oneOrTwo == {<<>>, <<[ts |-> -5, diff |-> {"p"}, dated |-> FALSE]>>}
              \cup {<<d>> : d \in deploysAt({-61, -5, 0, 5})}
              \cup (deploysAt({-61, -5, 5}) \X deploysAt({-90, -5, 0}))
deployBodies ==
  {body(k[1], k[2], ds, plain, 1) :
     k \in {<<"exception", "unknown">>, <<"metric", "step">>, <<"unset", "slope">>}, ds \in oneOrTwo}
words == {{}, {"inject"}, {"billing"}, {"auth", "outage"}, {"rate"}}
textBodies ==
  {body("unset", "unknown", <<>>, [plain EXCEPT ![f] = w], n) :
     f \in {"title", "message", "culprit", "path", "rest"}, w \in words, n \in 1..2}
ownBodies == deployBodies \cup textBodies

frame(file, app) == [file |-> file, in_app |-> app]
sentryBodies ==
  {[values |-> v, title |-> t, value |-> w, message |-> {"billing"}, culprit |-> {}, occurrences |-> 1] :
     v \in {<<>>, <<<<frame("p", TRUE), frame("lib", FALSE)>>>>,
            <<<<frame("p", TRUE)>>, <<frame("q", FALSE), frame("lib", FALSE)>>, <<>>>>},
     t \in {{}, {"inject"}}, w \in {{}, {"auth", "outage"}}}

request(source, sentrySig, signature, parses, b) ==
  [source |-> source, sentrySig |-> sentrySig, signature |-> signature, json |-> parses, body |-> b]
MCRequests ==
  {request("otel", "none", "good", TRUE, b) : b \in ownBodies}
    \cup {request("sentry", "none", "good", TRUE, b) : b \in textBodies}
    \cup {request("sentry", "good", "none", TRUE, b) : b \in sentryBodies}
    \cup {request("sentry", sig, "good", FALSE, <<>>) : sig \in {"none", "good", "bad"}}
    \cup {request("otel", "none", sig, FALSE, <<>>) : sig \in {"none", "bad"}}

MCReplies ==
  [kind : {"off", "garbage", "error"}, cited : {"none"}, alternatives : {0}, fixClass : {"code"}]
    \cup [kind : {"json"}, cited : {"p", "q", "none"}, alternatives : {1}, fixClass : {"code"}]
    \cup [kind : {"json"}, cited : {"p"}, alternatives : {1}, fixClass : {"config"}]
MCObservations ==
  {[reproduced |-> r, sampled |-> o[1], matched |-> o[2], localized |-> o[3]] :
     r \in {"true", "false", "null"},
     o \in {<<0, 0, 0>>, <<20, 19, 18>>, <<20, 18, 18>>, <<20, 19, 17>>}}

\* Patches over two sources, one of them under src/auth, a document, a .env file
\* and the old test; headers spelled in three ways; the new test at a path of its
\* own, over a source and over the old test.
MCSources == {"s1", "s2", "auth"}
MCUnmatched == {named("auth", "doubled"), named("env", "quoted")}
patchOf(diff, spelling, declared, testPath) ==
  [diff |-> diff, spelling |-> [f \in DOMAIN diff |-> IF f = "s1" THEN "plain" ELSE spelling],
   declared |-> declared, testPath |-> testPath, usable |-> TRUE, applies |-> TRUE]
diffs == {d \in UNION {[{"s1", g} -> {"edit", "delete"}] :
                         g \in {"s1", "s2", "doc", "oldTest", "auth", "env", "newTest"}} : d["s1"] = "edit"}
MCPatches ==
  {patchOf(d, "plain", D, "newTest") : d \in diffs, D \in {{"s1"}, {"s1", "s2"}}}
    \cup {patchOf(d, spelling, {"s1"}, "newTest") : d \in diffs, spelling \in {"doubled", "quoted"}}
    \cup {patchOf(("s1" :> "edit") @@ d, "plain", {"s1"}, t) :
            d \in {("s1" :> "edit"), ("s2" :> "edit"), ("s2" :> "delete"), ("oldTest" :> "edit")},
            t \in {"s2", "oldTest"}}
    \cup {patchOf(("s1" :> "edit") @@ ("s2" :> "edit") @@ ("oldTest" :> a), "plain", {"s1"}, "newTest") :
            a \in {"edit", "delete"}}
    \cup {[patchOf(("s1" :> "edit"), "plain", {"s1"}, "newTest") EXCEPT !.usable = u, !.applies = ~u] :
            u \in BOOLEAN}
MCPullRequests ==
  {("s1" :> "edit"), ("doc" :> "edit"), ("newTest" :> "add"), ("s1" :> "delete") @@ ("oldTest" :> "edit"),
   ("s1" :> "edit") @@ ("newTest" :> "add"), ("s1" :> "edit") @@ ("oldTest" :> "edit"),
   ("s1" :> "edit") @@ ("oldTest" :> "delete") @@ ("newTest" :> "add"), ("conf" :> "edit"),
   ("s1" :> "edit") @@ ("conf" :> "edit") @@ ("newTest" :> "add"),
   ("s1" :> "edit") @@ ("s2" :> "edit") @@ ("doc" :> "edit") @@ ("newTest" :> "add") @@ ("oldTest" :> "edit")}
\* Strong and lax suites, and counts of assertions kept, diluted and dropped.
found(a, b) == [f \in {"s1", "s2", "auth", "doc", "env"} |-> IF f = "s1" THEN a ELSE IF f = "s2" THEN b ELSE 0]
MCSuites ==
  [mutants : {found(5, 5)}, killed : {found(2, 0), found(3, 0), found(5, 1)},
   counts : {[f \in {"s2", "oldTest"} |->
                [strongParent |-> 2, strongFix |-> c[1], weakParent |-> 1, weakFix |-> c[2]]] :
               c \in {<<2, 1>>, <<2, 2>>, <<1, 2>>}}]

\* Three materials, the middle one more like the question or not.
MCkShared == [pos |-> 1, neg |-> 1]
MCScores == {<<1, 1, 1>>, <<1, 2, 1>>}
Symmetry == Permutations(Owned)
=============================================================================
