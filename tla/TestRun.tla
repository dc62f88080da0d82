------------------------------ MODULE TestRun ------------------------------
(***************************************************************************)
(* The test loop: the loading of a test file (pkg/testspec), runTests and  *)
(* configureBackendsForTest of pkg/harness, RunTestWithSharedVCL and the   *)
(* two shared-VCL runners of pkg/runner, the mock backends' counters and   *)
(* configurations (pkg/backend), the fake clock (pkg/varnish) and the log  *)
(* offsets (pkg/recorder), around an external Varnish with a cache, bans,  *)
(* TTL, grace and idle backend connections.                                *)
(*                                                                         *)
(* A configuration is a status, a mode and routes, where the mode "echo"   *)
(* stands for echo_request and "other" for a failure mode nobody knows; a   *)
(* response is a status, a hit flag and an age; a log line is the test and  *)
(* the step that caused it: what verdicts and traces can tell apart.       *)
(***************************************************************************)
EXTENDS Integers, Sequences, SequencesExt, FiniteSets

CONSTANTS Files,        \* the test files: sequences of documents, see below
          UseBackend,   \* UseBackend[url]: the backend the VCL picks
          Ttl, Grace,   \* of every object, in steps of the fake clock
          BanRefusals,  \* varnishd may answer "ban" with a status but 200
          FlushTimely,  \* SIGUSR1 and 10 ms are enough to see the log lines
          MaxFaults,    \* bound on failing CLI calls and HTTP requests
          None          \* nil

ASSUME TestRunAssumption ==
  /\ Ttl \in Nat \ {0} /\ Grace \in Nat /\ MaxFaults \in Nat
  /\ BanRefusals \in BOOLEAN /\ FlushTimely \in BOOLEAN

\* A document is [name, url, expect, backends, scenario]: backends is a function
\* from backend names to configurations, scenario a sequence of steps [at, url,
\* backends, expect].  Absent names, URLs and offsets are None, an absent status
\* is 0.  An expectation is [status, used, total, per, hit, gt, lt]: per is a
\* function from backend names to numbers of calls, gt and lt bound the Age
\* header, and all but status and per may be absent (None).
\* A test as loaded is [scenario, backends, steps] where scenario is the flag
\* IsScenario and a single-request test has one step, with at = 0.

\* The configurations of backends, by name.
Specs(specs) ==
  \A b \in DOMAIN specs :
    /\ DOMAIN specs[b] = {"status", "mode", "routes"} /\ specs[b].status \in Nat
    /\ \A u \in DOMAIN specs[b].routes : specs[b].routes[u].status \in Nat

\* The backends a file has mocks for, and the URLs the VCL sends to one of them.
Mocks(tests) ==
  LET named == UNION {DOMAIN tests[i].backends : i \in DOMAIN tests}
  IN IF named = {} THEN {"default"} ELSE named
Urls(file) == {u \in DOMAIN UseBackend : UseBackend[u] \in Mocks(file)}

\* Files and scenarios are sequences, offsets are numbers (of either sign) and the
\* VCL picks a mock backend for every URL.
ASSUME FilesAssumption ==
  \A file \in Files :
    /\ file \in Seq(ToSet(file))
    /\ \A i \in DOMAIN file :
         /\ file[i].url \in Urls(file) \cup {None} /\ Specs(file[i].backends)
         /\ file[i].scenario \in Seq(ToSet(file[i].scenario))
         /\ \A step \in ToSet(file[i].scenario) :
              /\ DOMAIN step = {"at", "url", "backends", "expect"}
              /\ step.at \in Int \cup {None} /\ Specs(step.backends)
              /\ step.url \in Urls(file) \cup {None}

\* Nil is no cached object.
ASSUME NoneAssumption ==
  None \notin [status : Nat, stored : Int]
                \cup [status : Nat, stored : Int, ban : Nat, by : Nat]

VARIABLES docs,       \* the documents of the test file (constant)
          suite,      \* the tests as loaded
          vclLoaded,  \* runner.loadedVCLName is set: VCLShow("boot") worked
          lost,       \* CLI commands that timed out so far
          pc, t, s,   \* the loop: program point, test, step
          cfg,        \* cfg[b]: the configuration of mock backend b
          calls,      \* calls[b]: its callCount
          seen,       \* backendCalls: the counts collected for this step
          now,        \* fake clock, relative to t0
          bans,       \* bans issued, an object survives only the ones before it
          cache,      \* cache[url]: an object, or None
          bg,         \* Varnish's background fetch in progress, or None
          idle,       \* idle[b]: Varnish has an idle connection to mock b
          resp,       \* the response to this step's request, or None
          failed,     \* a step of this test failed
          vsl,        \* log lines varnishlog has not written yet
          log, mark,  \* the log file and the offset MarkPosition returned
          results,    \* Result.Results
          tally,      \* Result.Passed and Result.Failed
          faults

vars == <<docs, suite, vclLoaded, lost, pc, t, s, cfg, calls, seen, now, bans, cache, bg,
          idle, resp, failed, vsl, log, mark, results, tally, faults>>
fileVars == <<docs, suite, vclLoaded, lost>>
loopVars == <<pc, t, s>>
mockVars == <<cfg, calls>>
extVars  == <<cache, bg, idle>>
logVars  == <<vsl, log, mark>>
outVars  == <<results, tally>>

Fault == faults < MaxFaults /\ faults' = faults + 1

Test == suite[t]
Step == Test.steps[s]

-----------------------------------------------------------------------------
(* testspec.Load                                                           *)

ValidBackends(specs) ==
  \A b \in DOMAIN specs : specs[b].mode \in {"", "failed", "frozen", "echo"}

\* Mutant: a document may have a request and a scenario.
ValidateNotBoth(doc) ==
  /\ doc.name # None
  /\ doc.scenario # <<>> \/ doc.url # None
  /\ doc.url # None => doc.expect.status # 0 /\ ValidBackends(doc.backends)
  /\ \A i \in DOMAIN doc.scenario : doc.scenario[i].at # None /\ doc.scenario[i].url # None

\* validate: a name, either a request or a scenario, a status for each request,
\* an offset for each step, and known failure modes, but not those of a
\* scenario's own backends nor those of routes.
Validate(doc) ==
  /\ doc.name # None
  /\ (doc.scenario # <<>>) # (doc.url # None)
  /\ doc.url # None => doc.expect.status # 0 /\ ValidBackends(doc.backends)
  /\ \A i \in DOMAIN doc.scenario :
       LET step == doc.scenario[i]
       IN /\ step.at # None /\ step.url # None /\ step.expect.status # 0
          /\ ValidBackends(step.backends)

NotFoundByDefault(specs) ==
  [b \in DOMAIN specs |-> IF specs[b].status = 0 THEN [specs[b] EXCEPT !.status = 404]
                                                ELSE specs[b]]

\* ApplyDefaults: the backends of a single-request test and of a scenario's steps
\* answer 404 when nothing else is said; a scenario's own backends are left as
\* they are, and so is every route.  (An expected status is never 0 here.)
ApplyDefaults(doc) ==
  IF doc.scenario = <<>>
  THEN [scenario |-> FALSE, backends |-> NotFoundByDefault(doc.backends),
        steps |-> <<[at |-> 0, url |-> doc.url, backends |-> <<>>, expect |-> doc.expect]>>]
  ELSE [scenario |-> TRUE, backends |-> doc.backends,
        steps |-> [i \in DOMAIN doc.scenario |->
                     [doc.scenario[i] EXCEPT !.backends = NotFoundByDefault(@)]]]

-----------------------------------------------------------------------------
(* Mock backends                                                           *)

\* if cfg.Status == 0 { cfg.Status = 200 }
Default(c) == IF c.status = 0 THEN [c EXCEPT !.status = 200] ELSE c

\* UpdateConfig for the mocks that exist; other names are skipped.
Update(conf, specs) ==
  [b \in DOMAIN conf |-> IF b \in DOMAIN specs THEN Default(specs[b]) ELSE conf[b]]

\* startAllBackends: the first test that names a backend configures it; a file
\* that names none gets one called "default".
StartConfig(tests) ==
  LET naming(b) == {i \in DOMAIN tests : b \in DOMAIN tests[i].backends}
      first(b) == CHOOSE i \in naming(b) : \A j \in naming(b) : i <= j
  IN [b \in Mocks(tests) |->
        IF naming(b) = {} THEN [status |-> 200, mode |-> "", routes |-> <<>>]
                          ELSE Default(tests[first(b)].backends[b])]

\* getRouteConfig: the path's route, else the configuration itself.
RouteConfig(c, url) == IF url \in DOMAIN c.routes THEN c.routes[url] ELSE c

\* handleRequest closes the connection without a response: failure mode "failed",
\* and WriteHeader(0), which panics.
Closes(c, url) ==
  LET rc == RouteConfig(c, url)
  IN rc.mode = "failed" \/ (rc.mode \notin {"echo", "frozen"} /\ rc.status = 0)

Answers(c, url) == ~Closes(c, url) /\ RouteConfig(c, url).mode # "frozen"

\* handleRequest: the echo answers 200 and unknown modes are ignored; without an
\* answer Varnish makes a 503.
Serve(c, url) ==
  LET rc == RouteConfig(c, url)
  IN CASE rc.mode = "echo" -> 200
       [] ~Answers(c, url) -> 503
       [] OTHER -> rc.status

-----------------------------------------------------------------------------
(* Varnish (external)                                                      *)

Cacheable(status) == status < 500

\* Objects inserted before the last ban are gone.
Live(obj) == obj # None /\ obj.ban = bans
Fresh(obj) == Live(obj) /\ now < obj.stored + Ttl
Stale(obj) == Live(obj) /\ ~Fresh(obj) /\ now < obj.stored + Ttl + Grace

Age(obj, time) == IF time > obj.stored THEN time - obj.stored ELSE 0

Object(status, by) == [status |-> status, stored |-> now, ban |-> bans, by |-> by]

Stored(url, status, by) ==
  IF Cacheable(status) THEN [cache EXCEPT ![url] = Object(status, by)] ELSE cache

\* How often Varnish asks the mock: once more when the connection it reused is
\* closed before the first byte.
Attempts(c, url, reused) == IF reused /\ Closes(c, url) THEN {1, 2} ELSE {1}

\* A fetch from the mock b; an answered request leaves the connection idle.
AskMock(b, url) ==
  /\ \E n \in Attempts(cfg[b], url, idle[b]) : calls' = [calls EXCEPT ![b] = @ + n]
  /\ idle' = [idle EXCEPT ![b] = Answers(cfg[b], url)]

Init ==
  /\ docs \in Files
  /\ suite = <<>>
  /\ vclLoaded \in BOOLEAN
  /\ lost \in IF vclLoaded THEN {0} ELSE {0, 1}
  /\ pc = "load" /\ t = 1 /\ s = 1
  /\ cfg = <<>> /\ calls = <<>> /\ seen = <<>> /\ idle = <<>>
  /\ now = 0 /\ bans = 0
  /\ cache = [u \in DOMAIN UseBackend |-> None]
  /\ bg = None /\ resp = None
  /\ failed = FALSE
  /\ vsl = <<>> /\ log = <<>> /\ mark = 0
  /\ results = <<>>
  /\ tally = [passed |-> 0, failed |-> 0]
  /\ faults = 0

\* testspec.Load, all documents or none, then the mocks for the loaded tests.
Load ==
  /\ pc = "load"
  /\ \/ /\ docs # <<>> /\ \A i \in DOMAIN docs : Validate(docs[i])
        /\ suite' = [i \in DOMAIN docs |-> ApplyDefaults(docs[i])]
        /\ cfg' = StartConfig(suite')
        /\ calls' = [b \in DOMAIN cfg' |-> 0]
        /\ seen' = calls'
        /\ idle' = [b \in DOMAIN cfg' |-> FALSE]
        /\ pc' = "ban"
     \/ /\ docs = <<>> \/ \E i \in DOMAIN docs : ~Validate(docs[i])
        /\ pc' = "rejected"
        /\ UNCHANGED <<suite, cfg, calls, seen, idle>>
  /\ UNCHANGED <<docs, vclLoaded, lost, t, s, now, bans, cache, bg, resp, failed, logVars,
                 outVars, faults>>

-----------------------------------------------------------------------------
(* runTests                                                                *)

\* Append the result of the test, count it, and go on to the next.
Record(passed, err, trace) ==
  /\ results' = Append(results, [passed |-> passed, err |-> err, trace |-> trace])
  /\ tally' = IF passed THEN [tally EXCEPT !.passed = @ + 1]
                        ELSE [tally EXCEPT !.failed = @ + 1]
  /\ t' = t + 1
  /\ pc' = "ban"

\* Mutants: no ban; the missing "continue" after a failed ban.
BanForgotten ==
  /\ pc = "ban" /\ t <= Len(suite)
  /\ \/ pc' = "configure" /\ UNCHANGED <<t, outVars, faults>>
     \/ Fault /\ Record(FALSE, TRUE, {})
  /\ UNCHANGED <<fileVars, s, mockVars, seen, now, bans, extVars, resp, failed, logVars>>

BanFallsThrough ==
  /\ pc = "ban" /\ t <= Len(suite)
  /\ \/ /\ bans' = bans + 1
        /\ UNCHANGED <<outVars, faults>>
     \/ /\ Fault
        /\ results' = Append(results, [passed |-> FALSE, err |-> TRUE, trace |-> {}])
        /\ tally' = [tally EXCEPT !.failed = @ + 1]
        /\ UNCHANGED bans
  /\ pc' = "configure"
  /\ UNCHANGED <<fileVars, t, s, mockVars, seen, now, extVars, resp, failed, logVars>>

\* BanNukeCache: only the error, a timeout, is looked at, not the status.  Behind
\* two commands that timed out Exec may not return (Varnishadm, ExecReturns).
Ban ==
  /\ pc = "ban" /\ t <= Len(suite)
  /\ \/ /\ bans' = bans + 1
        /\ pc' = "configure"
        /\ UNCHANGED <<t, lost, outVars, faults>>
     \/ /\ BanRefusals
        /\ pc' = "configure"
        /\ UNCHANGED <<t, lost, bans, outVars, faults>>
     \/ /\ Fault
        /\ lost' = lost + 1
        /\ Record(FALSE, TRUE, {})
        /\ UNCHANGED bans
     \/ /\ lost >= 2
        /\ pc' = "blocked"
        /\ UNCHANGED <<t, lost, bans, outVars, faults>>
  /\ UNCHANGED <<docs, suite, vclLoaded, s, mockVars, seen, now, extVars, resp, failed, logVars>>

\* Mutant: mocks the test does not name are reset.
ConfigureAfresh ==
  /\ pc = "configure"
  /\ cfg' = Update(StartConfig(suite), Test.backends)
  /\ pc' = "enter"
  /\ UNCHANGED <<fileVars, t, s, calls, seen, now, bans, extVars, resp,
                 failed, logVars, outVars, faults>>

ConfigureBackendsForTest ==
  /\ pc = "configure"
  /\ cfg' = Update(cfg, Test.backends)
  /\ pc' = "enter"
  /\ UNCHANGED <<fileVars, t, s, calls, seen, now, bans, extVars, resp,
                 failed, logVars, outVars, faults>>

RunTestWithSharedVCL ==
  /\ pc = "enter"
  /\ \/ /\ ~vclLoaded
        /\ Record(FALSE, TRUE, {})
        /\ UNCHANGED <<s, failed>>
     \/ /\ vclLoaded
        /\ s' = 1
        /\ failed' = FALSE
        /\ pc' = IF Test.scenario THEN "step" ELSE "reset"
        /\ UNCHANGED <<t, outVars>>
  /\ UNCHANGED <<fileVars, mockVars, seen, now, bans, extVars, resp, logVars, faults>>

Finish ==
  /\ pc = "ban" /\ t > Len(suite)
  /\ pc' = "done"
  /\ UNCHANGED <<fileVars, t, s, mockVars, seen, now, bans, extVars, resp,
                 failed, logVars, outVars, faults>>

-----------------------------------------------------------------------------
(* One request of a test                                                   *)

\* The clock is set to t0 + offset, whatever it was.
AdvanceTimeBy(offset) == now' = offset

\* A scenario step: the clock is set, the step's own backend configurations are
\* applied; a bad offset or a clock that cannot be set ends the test.
BeginStep ==
  /\ pc = "step"
  /\ \/ /\ AdvanceTimeBy(Step.at)
        /\ cfg' = Update(cfg, Step.backends)
        /\ pc' = "reset"
        /\ UNCHANGED <<t, outVars, faults>>
     \/ /\ Fault
        /\ Record(FALSE, TRUE, {})
        /\ UNCHANGED <<now, cfg>>
  /\ UNCHANGED <<fileVars, s, calls, seen, bans, extVars, resp, failed, logVars>>

\* Mutants: the log is not marked; it is marked before each step of a scenario.
ResetWithoutMark ==
  /\ pc = "reset"
  /\ calls' = [b \in DOMAIN calls |-> 0]
  /\ mark' = 0
  /\ pc' = "request"
  /\ UNCHANGED <<fileVars, t, s, cfg, seen, now, bans, extVars, resp, failed,
                 vsl, log, outVars, faults>>

ResetAndMarkAlways ==
  /\ pc = "reset"
  /\ calls' = [b \in DOMAIN calls |-> 0]
  /\ mark' = Len(log)
  /\ pc' = "request"
  /\ UNCHANGED <<fileVars, t, s, cfg, seen, now, bans, extVars, resp, failed,
                 vsl, log, outVars, faults>>

\* ResetCallCount on every mock; a single-request test also marks the log (a
\* failing MarkPosition only logs a warning and leaves the offset at 0).
ResetAndMark ==
  /\ pc = "reset"
  /\ calls' = [b \in DOMAIN calls |-> 0]
  /\ \/ mark' = (IF Test.scenario THEN 0 ELSE Len(log)) /\ UNCHANGED faults
     \/ ~Test.scenario /\ Fault /\ mark' = 0
  /\ pc' = "request"
  /\ UNCHANGED <<fileVars, t, s, cfg, seen, now, bans, extVars, resp, failed,
                 vsl, log, outVars>>

\* Mutant: a failed request is made again until it succeeds.
MakeRequestRetries ==
  /\ pc = "request"
  /\ LET obj == cache[Step.url]
     IN \/ /\ Fresh(obj) \/ Stale(obj)
           /\ resp' = [status |-> obj.status, hit |-> TRUE, age |-> Age(obj, now), by |-> obj.by]
           /\ pc' = "collect"
           /\ vsl' = Append(vsl, <<t, s>>)
        \/ /\ ~Fresh(obj) /\ ~Stale(obj)
           /\ pc' = "fetch"
           /\ UNCHANGED <<resp, vsl>>
        \/ /\ pc' = "reset"
           /\ UNCHANGED <<resp, vsl>>
  /\ UNCHANGED <<fileVars, t, s, mockVars, seen, now, bans, extVars, failed, log, mark,
                 outVars, faults>>

\* MakeRequest, the part Varnish decides: a hit, a stale hit that starts a
\* background fetch, or a miss; or the request fails and ends the test.
MakeRequest ==
  /\ pc = "request"
  /\ LET obj == cache[Step.url]
         hit == resp' = [status |-> obj.status, hit |-> TRUE, age |-> Age(obj, now), by |-> obj.by]
     IN \/ /\ Fresh(obj)
           /\ hit
           /\ pc' = "collect"
           /\ vsl' = Append(vsl, <<t, s>>)
           /\ UNCHANGED <<t, bg, outVars, faults>>
        \/ /\ Stale(obj)
           /\ hit
           /\ pc' = "collect"
           /\ vsl' = Append(vsl, <<t, s>>)
           /\ bg' = IF bg = None THEN [url |-> Step.url, by |-> t, counted |-> FALSE]
                                 ELSE bg
           /\ UNCHANGED <<t, outVars, faults>>
        \/ /\ ~Fresh(obj) /\ ~Stale(obj)
           /\ pc' = "fetch"
           /\ UNCHANGED <<t, resp, vsl, bg, outVars, faults>>
        \/ /\ Fault
           /\ Record(FALSE, TRUE, {})
           /\ UNCHANGED <<resp, vsl, bg>>
  /\ UNCHANGED <<fileVars, s, mockVars, seen, now, bans, cache, idle, failed, log, mark>>

\* The miss: the mock counts the call and serves its configuration, Varnish
\* stores the object and answers.
Fetch ==
  /\ pc = "fetch"
  /\ LET b == UseBackend[Step.url]
         status == Serve(cfg[b], Step.url)
     IN /\ AskMock(b, Step.url)
        /\ cache' = Stored(Step.url, status, t)
        /\ resp' = [status |-> status, hit |-> FALSE, age |-> 0, by |-> t]
  /\ vsl' = Append(vsl, <<t, s>>)
  /\ pc' = "collect"
  /\ UNCHANGED <<fileVars, t, s, cfg, seen, now, bans, bg, failed, log, mark,
                 outVars, faults>>

\* SIGUSR1 makes varnishlog write; 10 ms later the lines are in the file, or not.
Flush ==
  \/ log' = log \o vsl /\ vsl' = <<>>
  \/ ~FlushTimely /\ UNCHANGED <<log, vsl>>

\* Recorder.Flush, then GetCallCount of every mock.
FlushAndCollect ==
  /\ pc = "collect"
  /\ Flush
  /\ seen' = calls
  /\ pc' = "check"
  /\ UNCHANGED <<fileVars, t, s, mockVars, now, bans, extVars, resp, failed,
                 mark, outVars, faults>>

\* The calls of all mocks, each the name of the mock and the number of the call.
AllCalls(counts) == UNION {{b} \X (1..counts[b]) : b \in DOMAIN counts}

\* checkBackendExpectations; an expected backend that does not exist counts no
\* calls.
CheckBackend(expect, counts) ==
  /\ expect.used # None => expect.used \in DOMAIN counts /\ counts[expect.used] > 0
  /\ expect.total # None => expect.total = Cardinality(AllCalls(counts))
  /\ \A b \in DOMAIN expect.per :
       expect.per[b] = IF b \in DOMAIN counts THEN counts[b] ELSE 0

\* checkCacheExpectations and checkIfCached: two IDs in X-Varnish or a positive
\* Age make a hit.
CheckCache(expect, response) ==
  /\ expect.hit # None => expect.hit = (response.hit \/ response.age > 0)
  /\ expect.gt # None => response.age > expect.gt
  /\ expect.lt # None => response.age < expect.lt

\* assertion.Check
Check(expect, response, counts) ==
  /\ response.status = expect.status
  /\ CheckBackend(expect, counts)
  /\ CheckCache(expect, response)

\* The lines the trace of a failed test is built from.
TraceSince(offset) == {log[i] : i \in (offset + 1)..Len(log)}

\* assertion.Check on the step; after the last one the result, with a trace when
\* the test failed and the log can be read.
CheckStep ==
  /\ pc = "check"
  /\ LET bad == failed \/ ~Check(Step.expect, resp, seen)
     IN \/ /\ s < Len(Test.steps)
           /\ s' = s + 1
           /\ failed' = bad
           /\ pc' = "step"
           /\ UNCHANGED <<t, outVars, faults>>
        \/ /\ s = Len(Test.steps)
           /\ \/ /\ Record(~bad, FALSE, IF bad THEN TraceSince(mark) ELSE {})
                 /\ UNCHANGED faults
              \/ bad /\ Fault /\ Record(FALSE, FALSE, {})
           /\ UNCHANGED <<s, failed>>
  /\ UNCHANGED <<fileVars, mockVars, seen, now, bans, extVars, resp, logVars>>

-----------------------------------------------------------------------------
(* Running beside the loop (external)                                      *)

\* The background fetch reaches the mock at any time ...
BackgroundCall ==
  /\ bg # None /\ ~bg.counted
  /\ AskMock(UseBackend[bg.url], bg.url)
  /\ bg' = [bg EXCEPT !.counted = TRUE]
  /\ UNCHANGED <<fileVars, loopVars, cfg, seen, now, bans, cache, resp, failed,
                 logVars, outVars, faults>>

\* ... and its object, of whatever configuration is there by then, is inserted
\* under the bans of that moment.
BackgroundStore ==
  /\ bg # None /\ bg.counted
  /\ cache' = Stored(bg.url, Serve(cfg[UseBackend[bg.url]], bg.url), bg.by)
  /\ bg' = None
  /\ UNCHANGED <<fileVars, loopVars, mockVars, seen, now, bans, idle, resp, failed,
                 logVars, outVars, faults>>

\* varnishlog writes what it has buffered.
WriteLog ==
  /\ vsl # <<>>
  /\ log' = log \o vsl
  /\ vsl' = <<>>
  /\ UNCHANGED <<fileVars, loopVars, mockVars, seen, now, bans, extVars, resp,
                 failed, mark, outVars, faults>>

-----------------------------------------------------------------------------
Loop == \/ Load \/ Ban \/ ConfigureBackendsForTest \/ RunTestWithSharedVCL \/ Finish
        \/ BeginStep \/ ResetAndMark \/ MakeRequest \/ Fetch \/ FlushAndCollect \/ CheckStep

Next == Loop \/ BackgroundCall \/ BackgroundStore \/ WriteLog

Spec == Init /\ [][Next]_vars

FairSpec == Spec /\ WF_vars(Loop) /\ WF_vars(BackgroundCall \/ BackgroundStore)

-----------------------------------------------------------------------------
(* What a test means on its own                                            *)

NoObjects == [u \in DOMAIN UseBackend |-> None]

\* One request in a Varnish that has only seen this test's requests.  A verdict
\* depends on timing only where a closed connection may have been a reused one.
AloneStep(acc, step) ==
  LET conf == Update(acc.cfg, step.backends)
      b == UseBackend[step.url]
      obj == acc.cache[step.url]
      hit == obj # None /\ step.at < obj.stored + Ttl
      status == IF hit THEN obj.status ELSE Serve(conf[b], step.url)
      answer == [status |-> status, hit |-> hit,
                 age |-> IF hit THEN Age(obj, step.at) ELSE 0]
      counts(n) == [x \in DOMAIN conf |-> IF x = b THEN n ELSE 0]
      times == IF hit THEN {0} ELSE Attempts(conf[b], step.url, acc.warm)
  IN [cfg |-> conf,
      warm |-> acc.warm \/ ~hit,
      cache |-> IF hit \/ ~Cacheable(status) THEN acc.cache
                ELSE [acc.cache EXCEPT ![step.url] = [status |-> status, stored |-> step.at]],
      ok |-> {o /\ Check(step.expect, answer, counts(n)) : o \in acc.ok, n \in times}]

\* The verdicts of a test on mocks that are configured like this and, if warm,
\* have been used before.
AloneStart(test, conf, warm) ==
  [cfg |-> Update(conf, test.backends), warm |-> warm, cache |-> NoObjects, ok |-> {TRUE}]

AloneRun(test, conf, warm) ==
  LET run[k \in 0..Len(test.steps)] ==
        IF k = 0 THEN AloneStart(test, conf, warm) ELSE AloneStep(run[k - 1], test.steps[k])
  IN run

Verdicts(test, conf, warm) == AloneRun(test, conf, warm)[Len(test.steps)].ok

\* A test that names each backend it uses.
SelfContained(test) ==
  \A i \in DOMAIN test.steps : UseBackend[test.steps[i].url] \in DOMAIN test.backends

\* The configurations that the first n tests leave behind.
LeftBehind(tests, n) ==
  LET left[i \in 0..Len(tests)] ==
        IF i = 0 THEN StartConfig(tests)
        ELSE AloneRun(tests[i], left[i - 1], i > 1)[Len(tests[i].steps)].cfg
  IN left[n]

-----------------------------------------------------------------------------
(* Properties                                                              *)

\* Isolation: a test that names the backends it uses gets the verdict it would
\* get alone in its file, whatever the tests before it cached, counted and
\* configured (the ban, the counter reset and configureBackendsForTest before
\* each test).  Only a backend that closes connections may be counted twice,
\* once Varnish has an idle one to reuse.  It asks that bans are accepted.
ResultsAsAlone ==
  \A i \in DOMAIN results :
    ~results[i].err /\ SelfContained(suite[i])
      => results[i].passed \in Verdicts(suite[i], StartConfig(<<suite[i]>>), i > 1)

\* A test that leaves a backend out runs with what the last test or step before
\* it gave that backend: nothing resets a mock between tests, and a step's own
\* configuration outlives its scenario (configureBackendsForTest).  The status a
\* backend inherits is never 0, which WriteHeader cannot write, on either of the
\* two paths that give it a default; a route's status has no default, and one of 0
\* closes the connection (Closes).
ConfigCarriesOver ==
  /\ \A i \in DOMAIN results :
       ~results[i].err => results[i].passed \in Verdicts(suite[i], LeftBehind(suite, i - 1), i > 1)
  /\ \A b \in DOMAIN cfg : cfg[b].status # 0

\* No request that is written in the file is dropped: when a file was accepted and
\* nothing failed, each document's request or steps were all made (validate
\* refuses documents of which the loop would ignore a part).
EveryRequestMade ==
  (pc = "done" /\ \A i \in DOMAIN results : ~results[i].err) =>
    \A i \in DOMAIN docs :
      Cardinality({line \in ToSet(log \o vsl) : line[1] = i})
        = Len(docs[i].scenario) + (IF docs[i].url # None THEN 1 ELSE 0)

\* Every test is reported exactly once, in order, and the two totals add up to
\* the number of tests, whatever fails on the way (runTests).
Accounting ==
  pc = "done" =>
    /\ Len(results) = Len(suite)
    /\ tally.passed = Cardinality({i \in DOMAIN results : results[i].passed})
    /\ tally.passed + tally.failed = Len(suite)

\* The trace shown for a failed single-request test comes from the lines of its
\* own request and of no other (MarkPosition before, Flush after).
SingleTraceIsOwn ==
  \A i \in DOMAIN results :
    ~suite[i].scenario /\ ~results[i].passed /\ ~results[i].err
      => results[i].trace = {<<i, 1>>}

\* The trace of a failed scenario test has the lines of every one of its requests,
\* and none of a later test (GetVCLMessages reads from the start of the log, so
\* lines of earlier tests are in it too).
ScenarioTraceComplete ==
  \A i \in DOMAIN results :
    suite[i].scenario /\ ~results[i].passed /\ ~results[i].err =>
      /\ {<<i, k>> : k \in DOMAIN suite[i].steps} \subseteq results[i].trace
      /\ \A line \in results[i].trace : line[1] <= i

\* The loop reaches the end of the file, whatever fails, or the file was refused:
\* unless two commands timed out and the next ban is stuck in Exec.
LoopEnds == <>(pc \in {"done", "rejected"} \/ (pc = "blocked" /\ lost >= 2))

\* "Nuke the cache before each test to ensure clean state": with accepted bans
\* and no background fetches no response comes from an object that an earlier
\* test fetched, even when the clock is set back to before the object's expiry.
CleanCache == pc \in {"collect", "check"} => resp.by = t
=============================================================================
