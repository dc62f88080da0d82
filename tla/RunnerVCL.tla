----------------------------- MODULE RunnerVCL -----------------------------
(***************************************************************************)
(* Which VCL serves a test: the methods of Runner (pkg/runner) that load   *)
(* VCL into a running varnishd.  RunTest starts mocks, writes, loads and   *)
(* activates a VCL of its own for one test and removes it again; LoadVCL   *)
(* and UnloadVCL keep one VCL for RunTestWithSharedVCL.  All of them may   *)
(* return half-way, and what they leave in varnishd meets the calls after. *)
(*                                                                         *)
(* A caller makes one call after another, any call after any other.  What  *)
(* becomes of a request, the counters and the verdict are in TestRun; here *)
(* they are left out.                                                      *)
(***************************************************************************)
EXTENDS Naturals, Sequences, SequencesExt

CONSTANTS Tests,        \* tests: records [name, scenario, backends, steps]
          Sanitize,     \* Sanitize[name]: what sanitizeVCLName makes of it
          MaxCalls,     \* bound on the calls of the caller
          MaxFaults,    \* bound on what fails outside the runner
          None          \* "", nil

ASSUME RunnerAssumption ==
  /\ MaxCalls \in Nat /\ MaxFaults \in Nat
  /\ \A t \in Tests : t.steps \in Nat \ {0}

\* sanitizeVCLName puts "test-" before the name.
ASSUME NamesAssumption ==
  /\ None \notin {"boot", "shared-vcl", "test", "load", "unload", "shared"}
  /\ \A t \in Tests : Sanitize[t.name] \notin {None, "boot", "shared-vcl"}

VARIABLES timeController, \* SetTimeController was called
          id,       \* number of the current or last call
          op, test, \* the call: "test", "load", "unload"; and its test
          pc, step, \* program point, step of a scenario
          mocks,    \* mock backends that run
          tmpDir,   \* the call's temporary directory exists
          defers,   \* the call's deferred calls, in the order they were registered
          vclShow,  \* the call whose VCL the structure for traces is of, or None
          served,   \* the call whose VCL served the last request, or None
          loaded,   \* loadedVCLName
          vcls,     \* varnishd: vcls[name] is the call that loaded it
          active,   \* varnishd: name of the active VCL
          hurt,     \* sequence of the calls in which something failed outside
          results   \* results[i]: call i and its outcome, [op, out]

opVars   == <<timeController, id, op, test>>
heldVars == <<mocks, tmpDir, defers>>
testVars == <<step, vclShow, served>>
vars == <<opVars, pc, heldVars, testVars, loaded, vcls, active, hurt, results>>

Fault == Len(hurt) < MaxFaults /\ hurt' = Append(hurt, id)
Hurt(i) == \E k \in DOMAIN hurt : hurt[k] = i

\* The name the current call gives to the VCL it loads or removes.
VclName == CASE op = "test" -> Sanitize[test.name]
             [] op = "load" -> "shared-vcl"
             [] op = "unload" -> loaded

-----------------------------------------------------------------------------
(* varnishd (external): each command is answered 200 ("ok") or refused, or *)
(* the answer is lost ("error"), with or without an effect                 *)

VCLLoad(name, answer) ==
  LET with == [n \in DOMAIN vcls \cup {name} |-> IF n \in DOMAIN vcls THEN vcls[n] ELSE id]
  IN /\ UNCHANGED active
     /\ \/ /\ answer = "ok" /\ name \notin DOMAIN vcls
           /\ vcls' = with
           /\ UNCHANGED hurt
        \/ /\ answer = "refused" /\ name \in DOMAIN vcls
           /\ UNCHANGED <<vcls, hurt>>
        \/ /\ answer = "refused" /\ Fault     \* does not compile
           /\ UNCHANGED vcls
        \/ /\ answer = "error" /\ Fault
           /\ vcls' \in {vcls, with}

VCLUse(name, answer) ==
  /\ UNCHANGED vcls
  /\ \/ /\ answer = "ok" /\ name \in DOMAIN vcls
        /\ active' = name
        /\ UNCHANGED hurt
     \/ /\ answer = "refused"
        /\ (name \notin DOMAIN vcls /\ UNCHANGED hurt) \/ Fault
        /\ UNCHANGED active
     \/ /\ answer = "error" /\ Fault
        /\ active' \in {active} \cup ({name} \cap DOMAIN vcls)

\* The active VCL cannot be discarded.
VCLDiscard(name, answer) ==
  LET without == [n \in DOMAIN vcls \ {name} |-> vcls[n]]
  IN /\ UNCHANGED active
     /\ \/ /\ answer = "ok" /\ name \in DOMAIN vcls /\ name # active
           /\ vcls' = without
           /\ UNCHANGED hurt
        \/ /\ answer = "refused"
           /\ ((name \notin DOMAIN vcls \/ name = active) /\ UNCHANGED hurt) \/ Fault
           /\ UNCHANGED vcls
        \/ /\ answer = "error" /\ Fault
           /\ vcls' \in {vcls} \cup (IF name = active THEN {} ELSE {without})

Answer == {"ok", "refused", "error"}

-----------------------------------------------------------------------------
(* varnishd runs with the VCL "boot"; the harness sets loadedVCLName to it *)
(* (SetVCLShowResult), other callers start with none                       *)

Init ==
  /\ timeController \in BOOLEAN
  /\ id = 0 /\ op = None /\ test = None
  /\ pc = "idle" /\ step = 1
  /\ mocks = {} /\ tmpDir = FALSE /\ defers = <<>>
  /\ vclShow = None /\ served = None
  /\ loaded \in {None, "boot"}
  /\ vcls = [name \in {"boot"} |-> 0] /\ active = "boot"
  /\ hurt = <<>> /\ results = <<>>

\* return: the deferred calls registered so far run.
Return(call, outcome) ==
  /\ results' = Append(results, [op |-> call, out |-> outcome])
  /\ pc' = "unwind"

Defer(call) == defers' = Append(defers, call)

Begin(what) ==
  /\ pc = "idle" /\ id < MaxCalls
  /\ id' = id + 1
  /\ op' = what
  /\ step' = 1
  /\ vclShow' = None /\ served' = None
  /\ UNCHANGED <<timeController, heldVars, loaded, vcls, active, hurt>>

\* RunTest, up to startBackends: a scenario needs a time controller.
RunTest(spec) ==
  /\ Begin("test")
  /\ test' = spec
  /\ \/ spec.scenario /\ ~timeController /\ Return("test", "error")
     \/ /\ ~spec.scenario \/ timeController
        /\ pc' = "start"
        /\ UNCHANGED results

\* Mutant: the mocks that run already are forgotten.
StartBackendsLeak ==
  /\ pc = "start"
  /\ \/ /\ mocks # test.backends
        /\ \E b \in test.backends \ mocks : mocks' = mocks \cup {b}
        /\ UNCHANGED <<pc, defers, hurt, results>>
     \/ /\ mocks # test.backends
        /\ Fault
        /\ Return(op, "error")
        /\ UNCHANGED <<mocks, defers>>
     \/ /\ mocks = test.backends
        /\ Defer("stopAll")
        /\ pc' = "process"
        /\ UNCHANGED <<mocks, hurt, results>>
  /\ UNCHANGED <<opVars, tmpDir, testVars, loaded, vcls, active>>

\* startBackends, one mock after the other in any order; when one cannot be
\* started it stops those that run itself, for nothing is deferred yet.  (Its exit
\* for an address that does not parse, which forgets the mock just started, is
\* never taken: the address is that of a listener.)
StartBackends ==
  /\ pc = "start"
  /\ \/ /\ mocks # test.backends
        /\ \E b \in test.backends \ mocks : mocks' = mocks \cup {b}
        /\ UNCHANGED <<pc, defers, hurt, results>>
     \/ /\ mocks # test.backends
        /\ Fault
        /\ mocks' = {}
        /\ Return(op, "error")
        /\ UNCHANGED defers
     \/ /\ mocks = test.backends
        /\ Defer("stopAll")
        /\ pc' = "process"
        /\ UNCHANGED <<mocks, hurt, results>>
  /\ UNCHANGED <<opVars, tmpDir, testVars, loaded, vcls, active>>

LoadVCL ==
  /\ Begin("load")
  /\ test' = None
  /\ pc' = "process"
  /\ UNCHANGED results

\* One step of preparing the files of the VCL: it works, or the call returns.
Prepare(from, to) ==
  /\ pc = from
  /\ \/ pc' = to /\ UNCHANGED <<hurt, results>>
     \/ Fault /\ Return(op, "error")
  /\ UNCHANGED <<opVars, heldVars, testVars, loaded, vcls, active>>

\* ProcessVCLWithIncludes.
ProcessVCL == Prepare("process", IF op = "test" THEN "mkdir" ELSE "write")

\* MkdirTemp, in RunTest only; LoadVCL writes below the working directory.
MakeTempDir ==
  /\ pc = "mkdir"
  /\ \/ /\ tmpDir' = TRUE
        /\ Defer("removeAll")
        /\ pc' = "write"
        /\ UNCHANGED <<hurt, results>>
     \/ /\ Fault
        /\ Return(op, "error")
        /\ UNCHANGED <<tmpDir, defers>>
  /\ UNCHANGED <<opVars, mocks, testVars, loaded, vcls, active>>

WriteFiles == Prepare("write", "load")

\* Mutant: the status of the answer is not looked at.
LoadIntoVarnishAnyStatus ==
  /\ pc = "load"
  /\ \E answer \in Answer :
       /\ VCLLoad(VclName, answer)
       /\ IF answer # "error" THEN pc' = "use" /\ UNCHANGED results
                              ELSE Return(op, "error")
  /\ UNCHANGED <<opVars, heldVars, testVars, loaded>>

\* vcl.load: the caller gets an error unless varnishd answers 200.
LoadIntoVarnish ==
  /\ pc = "load"
  /\ \E answer \in Answer :
       /\ VCLLoad(VclName, answer)
       /\ IF answer = "ok" THEN pc' = "use" /\ UNCHANGED results
                           ELSE Return(op, "error")
  /\ UNCHANGED <<opVars, heldVars, testVars, loaded>>

\* vcl.use, likewise.
Activate ==
  /\ pc = "use"
  /\ \E answer \in Answer :
       /\ VCLUse(VclName, answer)
       /\ IF answer = "ok" THEN pc' = "show" /\ UNCHANGED results
                           ELSE Return(op, "error")
  /\ UNCHANGED <<opVars, heldVars, testVars, loaded>>

\* VCLShowStructured: a failure ends LoadVCL, RunTest goes on without traces.
ShowStructure ==
  /\ pc = "show"
  /\ \/ /\ vclShow' = vcls[VclName]
        /\ \/ /\ op = "test" /\ pc' = "step"
              /\ UNCHANGED <<loaded, results>>
           \/ /\ op = "load" /\ loaded' = "shared-vcl"
              /\ Return(op, "ok")
        /\ UNCHANGED hurt
     \/ /\ Fault
        /\ \/ /\ op = "test" /\ pc' = "step"
              /\ UNCHANGED results
           \/ op = "load" /\ Return(op, "error")
        /\ UNCHANGED <<loaded, vclShow>>
  /\ UNCHANGED <<opVars, heldVars, step, served, vcls, active>>

\* One request: a scenario sets the clock first; a clock that cannot be set or a
\* request that fails ends the test.  varnishd serves it with the active VCL.
MakeRequest ==
  /\ pc = "step"
  /\ \/ /\ served' = vcls[active]
        /\ pc' = "check"
        /\ UNCHANGED <<hurt, results>>
     \/ /\ Fault
        /\ Return(op, "error")
        /\ UNCHANGED served
  /\ UNCHANGED <<opVars, heldVars, step, vclShow, loaded, vcls, active>>

\* The next step, or the clean-up.
CheckStep ==
  /\ pc = "check"
  /\ IF step < test.steps THEN step' = step + 1 /\ pc' = "step"
                          ELSE pc' = "boot" /\ UNCHANGED step
  /\ UNCHANGED <<opVars, heldVars, vclShow, served, loaded, vcls, active, hurt, results>>

\* UnloadVCL: nothing to do when nothing is loaded.
UnloadVCL ==
  /\ Begin("unload")
  /\ test' = None
  /\ \/ loaded = None /\ Return("unload", "ok")
     \/ loaded # None /\ pc' = "boot" /\ UNCHANGED results

\* Mutant: the VCL is discarded while it is still the active one.
SwitchToBootLate ==
  /\ pc = "boot"
  /\ pc' = "discard"
  /\ UNCHANGED <<opVars, heldVars, testVars, loaded, vcls, active, hurt, results>>

\* "must switch to boot before discarding active VCL"; failures are only logged.
SwitchToBoot ==
  /\ pc = "boot"
  /\ \E answer \in Answer : VCLUse("boot", answer)
  /\ pc' = "discard"
  /\ UNCHANGED <<opVars, heldVars, testVars, loaded, results>>

\* Mutant: UnloadVCL does not forget the VCL it has discarded.
DiscardKeepsName ==
  /\ pc = "discard"
  /\ \E answer \in Answer : VCLDiscard(VclName, answer)
  /\ Return(op, IF op = "test" THEN "result" ELSE "ok")
  /\ UNCHANGED <<opVars, heldVars, testVars, loaded>>

\* vcl.discard, failures are only logged; the end of RunTest and of UnloadVCL.
Discard ==
  /\ pc = "discard"
  /\ \E answer \in Answer : VCLDiscard(VclName, answer)
  /\ Return(op, IF op = "test" THEN "result" ELSE "ok")
  /\ loaded' = IF op = "unload" THEN None ELSE loaded
  /\ UNCHANGED <<opVars, heldVars, testVars>>

\* RunTestWithSharedVCL: refused when nothing is loaded; its requests are those of
\* TestRun and are all served by the active VCL.
RunTestWithSharedVCL ==
  /\ Begin("shared")
  /\ test' = None
  /\ Return("shared", IF loaded = None THEN "error"
                      ELSE IF active = loaded THEN "result" ELSE "foreign")

-----------------------------------------------------------------------------
(* The deferred calls, last registered first                               *)

Unwinding(call) == pc = "unwind" /\ defers # <<>> /\ Last(defers) = call

StopAll ==
  /\ Unwinding("stopAll")
  /\ mocks' = {}
  /\ defers' = Front(defers)
  /\ UNCHANGED <<opVars, pc, tmpDir, testVars, loaded, vcls, active, hurt, results>>

RemoveAll ==
  /\ Unwinding("removeAll")
  /\ tmpDir' = FALSE
  /\ defers' = Front(defers)
  /\ UNCHANGED <<opVars, pc, mocks, testVars, loaded, vcls, active, hurt, results>>

EndCall ==
  /\ pc = "unwind" /\ defers = <<>>
  /\ pc' = "idle"
  /\ UNCHANGED <<opVars, heldVars, testVars, loaded, vcls, active, hurt, results>>

-----------------------------------------------------------------------------
Next ==
  \/ \E spec \in Tests : RunTest(spec)
  \/ StartBackends \/ LoadVCL \/ ProcessVCL \/ MakeTempDir \/ WriteFiles
  \/ LoadIntoVarnish \/ Activate
  \/ ShowStructure \/ MakeRequest \/ CheckStep \/ UnloadVCL \/ SwitchToBoot \/ Discard
  \/ RunTestWithSharedVCL \/ StopAll \/ RemoveAll \/ EndCall

Spec == Init /\ [][Next]_vars

-----------------------------------------------------------------------------
(* Properties                                                              *)

\* A test's requests are served by the VCL that this very call wrote and loaded,
\* with this call's mocks behind it, and its trace is read with the structure of
\* that VCL, although an earlier call may have left one of the same name in
\* varnishd (distinct test names can have one VCL name).
OwnVCLServes ==
  op = "test" =>
    /\ pc \in {"check", "boot", "discard"} => served = id
    /\ vclShow \in {None, id}

\* On every path, errors included, the mocks are stopped and the temporary
\* directory is removed when the call is over: whatever a call holds at a return,
\* a call that was deferred by then releases it.
NothingHeld == pc = "idle" => mocks = {} /\ ~tmpDir

\* When nothing fails outside, a call leaves varnishd as it found it: each VCL but
\* boot and the shared one goes back to a call in which something failed, and a
\* shared VCL that is no longer known to the runner to a failure after its load;
\* or boot itself is gone (UnloadVCL discards it when it could not be switched to).
LeaksExplained ==
  pc = "idle" /\ "boot" \in DOMAIN vcls =>
    \A name \in DOMAIN vcls \ {"boot", loaded} :
      IF name = "shared-vcl" THEN \E k \in DOMAIN hurt : hurt[k] >= vcls[name]
                             ELSE Hurt(vcls[name])

\* The calls after which another VCL than the loaded one may be active: a RunTest
\* that ran its test, and a RunTest or LoadVCL in which something failed.
Displaced(j) ==
  \/ results[j].op = "test" /\ results[j].out = "result"
  \/ results[j].op \in {"test", "load"} /\ Hurt(j)

Reloaded(k) == results[k].op = "load" /\ results[k].out = "ok"

\* A test of RunTestWithSharedVCL is served by the VCL the runner holds for loaded,
\* unless an earlier call has put another in its place (RunTest ends with boot
\* active and does not tell loadedVCLName) and no LoadVCL succeeded since.  No
\* UnloadVCL, whatever of it failed, and no LoadVCL that varnishd simply refused
\* can do that.
SharedServes ==
  \A i \in DOMAIN results :
    results[i].out = "foreign" =>
      \E j \in 1..(i - 1) : Displaced(j) /\ \A k \in j..(i - 1) : ~Reloaded(k)
=============================================================================
