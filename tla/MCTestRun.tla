----------------------------- MODULE MCTestRun -----------------------------
(***************************************************************************)
(* TestRun on generated test files: pairs of documents from a small family *)
(* of single-request and scenario tests over two URLs that use two         *)
(* backends.  TTL is 2, so a step at time 1 hits and a step at 2 misses.    *)
(***************************************************************************)
EXTENDS TestRun

MCUseBackend == [u |-> "a", v |-> "b", d |-> "default"]

Conf(status, mode) == [status |-> status, mode |-> mode, routes |-> <<>>]
\* A backend that answers 404, with one route.
Routed(url, status, mode) ==
  [status |-> 404, mode |-> "",
   routes |-> [x \in {url} |-> [status |-> status, mode |-> mode]]]
NoBackends == [b \in {} |-> None]
Only(b, c) == [x \in {b} |-> c]

\* The formats of the backend expectation: none, a name, a total, per backend.
Expect(status, n, hit) ==
  [status |-> status, used |-> None, total |-> n, per |-> <<>>, hit |-> hit,
   gt |-> None, lt |-> None]
Uses(status, b) ==
  [status |-> status, used |-> b, total |-> None, per |-> <<>>, hit |-> None,
   gt |-> None, lt |-> None]
PerBackend(status, per) ==
  [status |-> status, used |-> None, total |-> None, per |-> per, hit |-> None,
   gt |-> None, lt |-> None]
OneStep(at, url, specs, expect) ==
  [at |-> at, url |-> url, backends |-> specs, expect |-> expect]

Doc(url, expect, specs, scenario) ==
  [name |-> "test", url |-> url, expect |-> expect, backends |-> specs, scenario |-> scenario]

Expectations == {Expect(200, 1, FALSE), Uses(404, "a"), Expect(503, 1, None),
                 Expect(200, 0, TRUE), PerBackend(200, [a |-> 1, b |-> 0])}

SingleTest(url, c, e) == Doc(url, e, Only(MCUseBackend[url], c), <<>>)

SingleTests ==
  {SingleTest("u", c, e) : c \in {Conf(200, ""), Conf(0, ""), Conf(200, "failed"),
                                 Routed("u", 200, "other"), Routed("u", 0, "")},
                           e \in Expectations}
    \cup {SingleTest("v", Conf(200, "frozen"), Expect(503, 1, FALSE)),
          SingleTest("v", Conf(404, "echo"), Expect(200, 1, FALSE))}

\* Tests that leave the backend they use to the test before them.
Unnamed == {Doc("u", e, NoBackends, <<>>) : e \in Expectations}

\* A request at 0 and one later, with or without a new configuration for the
\* second step, expecting a hit or a miss.
ScenarioTest(c, at, specs, e) ==
  Doc(None, Expect(0, None, None), Only("a", c),
      <<OneStep(0, "u", NoBackends, Expect(200, 1, FALSE)), OneStep(at, "u", specs, e)>>)

ScenarioTests ==
  {ScenarioTest(c, at, specs, e) :
     c \in {Conf(0, ""), Conf(404, "other")}, at \in 0..2,
     specs \in {NoBackends, Only("a", Conf(0, ""))},
     e \in {Expect(200, 0, TRUE), Expect(404, 1, FALSE),
           [Expect(200, None, None) EXCEPT !.gt = 0, !.lt = 2]}}

\* The second step goes back in time (the loader does not order the offsets).
BackAndForth ==
  Doc(None, Expect(0, None, None), Only("a", Conf(200, "")),
      <<OneStep(2, "u", NoBackends, Expect(200, 1, FALSE)),
        OneStep(0, "u", NoBackends, Expect(200, 0, TRUE))>>)

\* A document for each rule of validate.
Good == SingleTest("u", Conf(200, ""), Expect(200, 1, FALSE))
GoodScenario == ScenarioTest(Conf(200, ""), 1, NoBackends, Expect(200, 0, TRUE))
Refused ==
  {[Good EXCEPT !.name = None],
   [Good EXCEPT !.url = None],
   [Good EXCEPT !.scenario = GoodScenario.scenario],
   [Good EXCEPT !.expect.status = 0],
   SingleTest("u", Conf(200, "other"), Expect(200, 1, FALSE)),
   [GoodScenario EXCEPT !.scenario[2].at = None],
   [GoodScenario EXCEPT !.scenario[2].url = None],
   [GoodScenario EXCEPT !.scenario[2].expect.status = 0],
   [GoodScenario EXCEPT !.scenario[2].backends = Only("a", Conf(200, "other"))]}

MCTests == SingleTests \cup ScenarioTests

Pairs == {<<x, y>> : x \in MCTests, y \in MCTests}
           \cup {<<x, y>> : x \in {d \in MCTests : "a" \in DOMAIN d.backends}, y \in Unnamed}
Triples == {<<x, BackAndForth, x>> : x \in SingleTests}
MCFiles == Pairs \cup Triples \cup {<<Good, x>> : x \in Refused} \cup {<<>>}

\* Files for the run about faults, grace and late log lines: few, but with every
\* kind of test.
SmallTests == {Good, SingleTest("u", Conf(404, ""), Expect(200, 1, FALSE)), BackAndForth,
               ScenarioTest(Conf(0, ""), 2, NoBackends, Expect(200, 0, TRUE))}
\* A file whose tests name no backend gets the one called "default".
Plain == Doc("d", Expect(200, 1, FALSE), NoBackends, <<>>)
\* The third ban is the first that can be stuck behind two bans that timed out.
FaultFiles == {<<x, y>> : x \in SmallTests, y \in SmallTests}
                \cup {<<Plain, Plain>>, <<Good, Good, Good>>, <<>>}
=============================================================================
