------------------------------ MODULE Harness ------------------------------
(***************************************************************************)
(* The life of one vcltest run: Harness.Run with its deferred clean-up     *)
(* (pkg/harness/harness.go), the goroutines of service.Manager.Start, the  *)
(* CLI server and the varnishd process (pkg/service, pkg/varnish), and the *)
(* varnishlog recorder (pkg/recorder).                                     *)
(*                                                                         *)
(* Any step that can return an error may do so.  Child processes (varnishd *)
(* in its own process group, varnishlog) survive the exit of vcltest;      *)
(* goroutines do not.                                                      *)
(***************************************************************************)
EXTENDS Naturals, Sequences, SequencesExt

CONSTANTS NBackends,  \* number of mock backends the test file needs
          NTests      \* number of tests in the file

ASSUME HarnessAssumption == NBackends \in Nat \ {0} /\ NTests \in Nat

VARIABLES pc,         \* Harness.Run
          defers,     \* its deferred calls, in the order they were registered
          ret,        \* what it returns: "none", "error" or "result"
          debugDump,  \* cfg.DebugDump (constant)
          dirs,       \* the temporary directories that exist
          mocks,      \* the number of mock backends running
          mgr,        \* the goroutine of service.Manager.Start
          cli,        \* the goroutine of varnishadm.Server.Run
          proc,       \* the goroutine of varnish.Manager.Start
          errCh,      \* errors in Manager.Start's channel, capacity 2
          errChan,    \* errors in startServices' channel, capacity 1
          ctxDone,    \* the service context is cancelled
          port,       \* the goroutine that asks for the HTTP port
          varnishd,   \* process: "none", "running", "exit0" or "dead"
          cliLost,    \* the CLI server takes no more requests: its connection is
                      \* dead, or it waits to hand over an answer nobody takes
          reqFull,    \* an abandoned request sits in reqCh
          rec,        \* recorder: "nil", "new", "running" or "stopped"
          vlog,       \* process varnishlog: "none", "running" or "dead"
          testsLeft   \* tests still to run

vars == <<pc, defers, ret, debugDump, dirs, mocks, mgr, cli, proc, errCh, errChan,
          ctxDone, port, varnishd, cliLost, reqFull, rec, vlog, testsLeft>>

mainVars == <<pc, defers, ret, debugDump>>
srvVars  == <<mgr, cli, proc, errCh, errChan>>
cliVars  == <<cliLost, reqFull>>
recVars  == <<rec, vlog>>

AllDirs == {"work", "varnish"}

Alive == pc # "exited"

Init ==
  /\ pc = "load" /\ defers = <<>> /\ ret = "none"
  /\ debugDump \in BOOLEAN
  /\ dirs = {} /\ mocks = 0
  /\ mgr = "off" /\ cli = "off" /\ proc = "off" /\ errCh = 0 /\ errChan = 0
  /\ ctxDone = FALSE /\ port = "off"
  /\ varnishd = "none" /\ cliLost = FALSE /\ reqFull = FALSE
  /\ rec = "nil" /\ vlog = "none"
  /\ testsLeft = NTests

-----------------------------------------------------------------------------
(* Harness.Run                                                             *)

\* return nil, err: the deferred calls registered so far run.
ReturnError == pc' = "unwind" /\ ret' = "error" /\ UNCHANGED defers

Defer(call) == defers' = Append(defers, call)

\* ResolveVCL and testspec.Load.
LoadTests ==
  /\ pc = "load"
  /\ \/ pc' = "mkdir" /\ UNCHANGED <<ret, defers>>
     \/ ReturnError
  /\ UNCHANGED <<debugDump, dirs, mocks, srvVars, ctxDone, port, varnishd, cliVars, recVars, testsLeft>>

\* createTempDirs removes the first directory when it cannot make the second.
CreateTempDirs ==
  /\ pc = "mkdir"
  /\ \/ /\ dirs' = AllDirs
        /\ pc' = "backends"
        /\ IF debugDump THEN UNCHANGED defers ELSE Defer("dirs")
        /\ UNCHANGED ret
     \/ ReturnError /\ UNCHANGED dirs
  /\ UNCHANGED <<debugDump, mocks, srvVars, ctxDone, port, varnishd, cliVars, recVars, testsLeft>>

\* Mutant: the clean-up of the mock backends is deferred only once the VCL is
\* ready, too late for an error in prepareVCL.
PrepareVCLThenDefer ==
  /\ pc = "vcl"
  /\ \/ pc' = "services" /\ UNCHANGED <<ret, defers>>
     \/ pc' = "unwind" /\ ret' = "error" /\ defers' = SelectSeq(defers, LAMBDA d : d # "backends")
  /\ UNCHANGED <<debugDump, dirs, mocks, srvVars, ctxDone, port, varnishd, cliVars, recVars, testsLeft>>

\* startAllBackends stops the ones it started when one of them fails.  (Its one
\* exit that forgets the mock just started, an address that does not parse, is
\* never taken: the address is that of a listener on 127.0.0.1.)
StartBackendsEarly ==
  /\ pc = "backends"
  /\ \/ mocks' = NBackends /\ Defer("backends") /\ pc' = "vcl" /\ UNCHANGED ret
     \/ mocks' = 0 /\ ReturnError
  /\ UNCHANGED <<debugDump, dirs, srvVars, ctxDone, port, varnishd, cliVars, recVars, testsLeft>>

PrepareVCL ==
  /\ pc = "vcl"
  /\ \/ pc' = "services" /\ UNCHANGED <<ret, defers>>
     \/ ReturnError
  /\ UNCHANGED <<debugDump, dirs, mocks, srvVars, ctxDone, port, varnishd, cliVars, recVars, testsLeft>>

\* startServices: make the manager and run its Start in a goroutine.
StartServices ==
  /\ pc = "services"
  /\ \/ mgr' = "listen" /\ pc' = "early" /\ UNCHANGED <<ret, defers>>
     \/ ReturnError /\ UNCHANGED mgr
  /\ UNCHANGED <<debugDump, dirs, mocks, cli, proc, errCh, errChan, ctxDone, port,
                 varnishd, cliVars, recVars, testsLeft>>

\* waitForVarnishReady: an error within 100 ms, or go and ask for the port.
CheckEarlyCrash ==
  /\ pc = "early"
  /\ \/ errChan > 0 /\ errChan' = errChan - 1 /\ ReturnError /\ UNCHANGED port
     \/ pc' = "ready" /\ port' = "asking" /\ UNCHANGED <<ret, defers, errChan>>
  /\ UNCHANGED <<debugDump, dirs, mocks, mgr, cli, proc, errCh, ctxDone, varnishd,
                 cliVars, recVars, testsLeft>>

\* Mutant: the select does not listen to the error of GetHTTPPort.
WaitForVarnishReadyNoPortErr ==
  /\ pc = "ready"
  /\ \/ errChan > 0 /\ errChan' = errChan - 1 /\ ReturnError
     \/ port = "port" /\ pc' = "recorder" /\ UNCHANGED <<ret, defers, errChan>>
  /\ UNCHANGED <<debugDump, dirs, mocks, mgr, cli, proc, errCh, ctxDone, port, varnishd,
                 cliVars, recVars, testsLeft>>

\* The select: a service error, an error from GetHTTPPort, or the port.  (Nobody
\* cancels the context of its fourth case before stopServices is deferred.)
WaitForVarnishReady ==
  /\ pc = "ready"
  /\ \/ errChan > 0 /\ errChan' = errChan - 1 /\ ReturnError
     \/ port = "err" /\ ReturnError /\ UNCHANGED errChan
     \/ port = "port" /\ pc' = "recorder" /\ UNCHANGED <<ret, defers, errChan>>
  /\ UNCHANGED <<debugDump, dirs, mocks, mgr, cli, proc, errCh, ctxDone, port, varnishd,
                 cliVars, recVars, testsLeft>>

\* recorder.New (varnishlog is not installed) and Start may fail.
StartRecorder ==
  /\ pc = "recorder"
  /\ \/ rec' = "running" /\ vlog' = "running" /\ pc' = "show" /\ UNCHANGED <<ret, defers>>
     \/ rec' \in {"nil", "new"} /\ ReturnError /\ UNCHANGED vlog
  /\ UNCHANGED <<debugDump, dirs, mocks, srvVars, ctxDone, port, varnishd, cliVars, testsLeft>>

\* The CLI server reads reqCh.
Serving == cli = "up" /\ ~cliLost

\* One Exec against the CLI server (module Varnishadm): answered while varnishd
\* and the server are there; or it gives up after 30 s, and the server is lost with
\* it: the connection is dead, or the answer comes late and the server waits for
\* ever to hand it over.  With no server one request is abandoned in reqCh, and the
\* next never gets into reqCh.
ExecReturns ==
  \/ Serving /\ varnishd = "running" /\ UNCHANGED cliVars
  \/ Serving /\ cliLost' = TRUE /\ UNCHANGED reqFull
  \/ ~Serving /\ ~reqFull /\ reqFull' = TRUE /\ UNCHANGED cliLost

ExecBlocked == ~Serving /\ reqFull

\* Mutant: stopServices is deferred before everything else, so it runs last.
ShowVCLDefersFirst ==
  /\ pc = "show"
  /\ ExecReturns
  /\ defers' = <<"services">> \o defers
  /\ pc' = "tests"
  /\ UNCHANGED <<ret, debugDump, dirs, mocks, srvVars, ctxDone, port, varnishd, recVars, testsLeft>>

\* VCLShowStructured("boot"): a failure is only logged.  startServices returns
\* nil, and only now is stopServices deferred.
ShowVCL ==
  /\ pc = "show"
  /\ ExecReturns
  /\ Defer("services")
  /\ pc' = "tests"
  /\ UNCHANGED <<ret, debugDump, dirs, mocks, srvVars, ctxDone, port, varnishd, recVars, testsLeft>>

\* Mutant: the loop over the tests runs once too often.
RunOneTestTooMany ==
  /\ pc = "tests" /\ testsLeft >= 0
  /\ ExecReturns
  /\ testsLeft' = testsLeft - 1
  /\ UNCHANGED <<mainVars, dirs, mocks, srvVars, ctxDone, port, varnishd, recVars>>

\* runTests (module TestRun): each test starts with a ban.
RunOneTest ==
  /\ pc = "tests" /\ testsLeft > 0
  /\ ExecReturns
  /\ testsLeft' = testsLeft - 1
  /\ UNCHANGED <<mainVars, dirs, mocks, srvVars, ctxDone, port, varnishd, recVars>>

ReturnResult ==
  /\ pc = "tests" /\ testsLeft = 0
  /\ pc' = "unwind" /\ ret' = "result"
  /\ UNCHANGED <<defers, debugDump, dirs, mocks, srvVars, ctxDone, port, varnishd, cliVars,
                 recVars, testsLeft>>

-----------------------------------------------------------------------------
(* The deferred calls, last registered first                               *)

Unwinding(call) == pc = "unwind" /\ defers # <<>> /\ Last(defers) = call

CleanupTempDirs ==
  /\ Unwinding("dirs")
  /\ dirs' = {}
  /\ defers' = Front(defers)
  /\ UNCHANGED <<pc, ret, debugDump, mocks, srvVars, ctxDone, port, varnishd, cliVars,
                 recVars, testsLeft>>

StopAllBackends ==
  /\ Unwinding("backends")
  /\ mocks' = 0
  /\ defers' = Front(defers)
  /\ UNCHANGED <<pc, ret, debugDump, dirs, srvVars, ctxDone, port, varnishd, cliVars,
                 recVars, testsLeft>>

\* stopServices, first: Recorder.Stop interrupts varnishlog (one that has exited
\* is a zombie until this Wait and takes the signal too), waits for it, and kills
\* it after a second.
StopRecorder ==
  /\ Unwinding("services")
  /\ rec' = "stopped" /\ vlog' = "dead"
  /\ defers' = Front(defers)
  /\ pc' = "cancel"
  /\ UNCHANGED <<ret, debugDump, dirs, mocks, srvVars, ctxDone, port, varnishd, cliVars, testsLeft>>

CancelServices ==
  /\ pc = "cancel"
  /\ ctxDone' = TRUE
  /\ pc' = "sleep"
  /\ UNCHANGED <<defers, ret, debugDump, dirs, mocks, srvVars, port, varnishd, cliVars,
                 recVars, testsLeft>>

\* time.Sleep(100 ms): whether varnishd is dead by then is up to the scheduler.
SleepBriefly ==
  /\ pc = "sleep"
  /\ pc' = "unwind"
  /\ UNCHANGED <<defers, ret, debugDump, dirs, mocks, srvVars, ctxDone, port, varnishd,
                 cliVars, recVars, testsLeft>>

\* main returns or calls os.Exit: every goroutine is gone.
Exit ==
  /\ pc = "unwind" /\ defers = <<>>
  /\ pc' = "exited"
  /\ UNCHANGED <<defers, ret, debugDump, dirs, mocks, srvVars, ctxDone, port, varnishd,
                 cliVars, recVars, testsLeft>>

-----------------------------------------------------------------------------
(* service.Manager.Start and its goroutines                                *)

\* A service goroutine sends its error.
Fail == errCh < 2 /\ errCh' = errCh + 1

ManagerListen ==
  /\ Alive /\ mgr = "listen"
  /\ \/ mgr' = "workspace" /\ cli' = "up" /\ UNCHANGED errChan
     \/ mgr' = "returned" /\ errChan < 1 /\ errChan' = errChan + 1 /\ UNCHANGED cli
  /\ UNCHANGED <<mainVars, dirs, mocks, proc, errCh, ctxDone, port, varnishd, cliVars,
                 recVars, testsLeft>>

ManagerPrepareWorkspace ==
  /\ Alive /\ mgr = "workspace"
  /\ \/ mgr' = "wait" /\ proc' = "start" /\ UNCHANGED errChan
     \/ mgr' = "returned" /\ errChan < 1 /\ errChan' = errChan + 1 /\ UNCHANGED proc
  /\ UNCHANGED <<mainVars, dirs, mocks, cli, errCh, ctxDone, port, varnishd, cliVars,
                 recVars, testsLeft>>

\* The select; context.Canceled is not passed on to errChan.
ManagerWait ==
  /\ Alive /\ mgr = "wait"
  /\ \/ errCh > 0 /\ errCh' = errCh - 1 /\ errChan < 1 /\ errChan' = errChan + 1
     \/ ctxDone /\ UNCHANGED <<errCh, errChan>>
  /\ mgr' = "returned"
  /\ UNCHANGED <<mainVars, dirs, mocks, cli, proc, ctxDone, port, varnishd, cliVars,
                 recVars, testsLeft>>

\* varnish.Manager.Start: cmd.Start fails (also once the context is cancelled),
\* or varnishd runs.
ProcessStart ==
  /\ Alive /\ proc = "start"
  /\ \/ ~ctxDone /\ proc' = "wait" /\ varnishd' = "running" /\ UNCHANGED errCh
     \/ proc' = "returned" /\ Fail /\ UNCHANGED varnishd
  /\ UNCHANGED <<mainVars, dirs, mocks, mgr, cli, errChan, ctxDone, port, cliVars,
                 recVars, testsLeft>>

\* cmd.Cancel: SIGKILL to the process group.
KillVarnishd ==
  /\ Alive /\ proc = "wait" /\ ctxDone /\ varnishd = "running"
  /\ varnishd' = "dead"
  /\ UNCHANGED <<mainVars, dirs, mocks, srvVars, ctxDone, port, cliVars, recVars, testsLeft>>

\* cmd.Wait: an exit with status 0 is not an error.
ProcessWait ==
  /\ Alive /\ proc = "wait" /\ varnishd # "running"
  /\ proc' = "returned"
  /\ \/ varnishd = "exit0" /\ UNCHANGED errCh
     \/ varnishd = "dead" /\ Fail
  /\ UNCHANGED <<mainVars, dirs, mocks, mgr, cli, errChan, ctxDone, port, varnishd,
                 cliVars, recVars, testsLeft>>

\* varnishadm.Server.Run returns nil after cancellation, or fails in Accept.
CliReturn ==
  /\ Alive /\ cli = "up"
  /\ cli' = "down"
  /\ \/ ctxDone /\ UNCHANGED errCh
     \/ Fail
  /\ UNCHANGED <<mainVars, dirs, mocks, mgr, proc, errChan, ctxDone, port, varnishd,
                 cliVars, recVars, testsLeft>>

\* GetHTTPPort: the port, or an error: a refused or unparsable answer, and the
\* 30 s timeout when nobody answers.
GetHTTPPort ==
  /\ Alive /\ port = "asking"
  /\ \/ varnishd = "running" /\ cli = "up" /\ port' = "port"
     \/ port' = "err"
  /\ UNCHANGED <<mainVars, dirs, mocks, srvVars, ctxDone, varnishd, cliVars, recVars, testsLeft>>

-----------------------------------------------------------------------------
(* The child processes (external)                                          *)

VarnishdExits ==
  /\ varnishd = "running"
  /\ varnishd' \in {"exit0", "dead"}
  /\ UNCHANGED <<mainVars, dirs, mocks, srvVars, ctxDone, port, cliVars, recVars, testsLeft>>

VarnishlogExits ==
  /\ vlog = "running"
  /\ vlog' = "dead"
  /\ UNCHANGED <<mainVars, dirs, mocks, srvVars, ctxDone, port, varnishd, cliVars, rec, testsLeft>>

-----------------------------------------------------------------------------
Main == \/ LoadTests \/ CreateTempDirs \/ StartBackendsEarly \/ PrepareVCL \/ StartServices
        \/ CheckEarlyCrash \/ WaitForVarnishReady \/ StartRecorder \/ ShowVCL \/ RunOneTest
        \/ ReturnResult \/ CleanupTempDirs \/ StopAllBackends \/ StopRecorder
        \/ CancelServices \/ SleepBriefly \/ Exit

Manager == ManagerListen \/ ManagerPrepareWorkspace \/ ManagerWait
Process == ProcessStart \/ KillVarnishd \/ ProcessWait

Next == Main \/ Manager \/ Process \/ CliReturn \/ GetHTTPPort \/ VarnishdExits \/ VarnishlogExits

Spec == Init /\ [][Next]_vars

\* Every goroutine is scheduled; a running child process need not exit.
FairSpec == /\ Spec
            /\ WF_vars(Main) /\ WF_vars(Manager) /\ WF_vars(Process)
            /\ WF_vars(GetHTTPPort)
            /\ WF_vars(CliReturn /\ ctxDone)

-----------------------------------------------------------------------------
(* Properties                                                              *)

\* Types; the error channels within their capacities.
TypeOK ==
  /\ pc \in {"load", "mkdir", "backends", "vcl", "services", "early", "ready", "recorder",
             "show", "tests", "unwind", "cancel", "sleep", "exited"}
  /\ ret \in {"none", "error", "result"}
  /\ defers \in Seq({"dirs", "backends", "services"})
  /\ dirs \subseteq AllDirs /\ mocks \in 0..NBackends
  /\ mgr \in {"off", "listen", "workspace", "wait", "returned"}
  /\ cli \in {"off", "up", "down"}
  /\ proc \in {"off", "start", "wait", "returned"}
  /\ errCh \in 0..2 /\ errChan \in 0..1
  /\ ctxDone \in BOOLEAN /\ debugDump \in BOOLEAN
  /\ port \in {"off", "asking", "port", "err"}
  /\ varnishd \in {"none", "running", "exit0", "dead"}
  /\ cliLost \in BOOLEAN /\ reqFull \in BOOLEAN
  /\ rec \in {"nil", "new", "running", "stopped"} /\ vlog \in {"none", "running", "dead"}
  /\ testsLeft \in 0..NTests

\* On every path out of Run, each early return included, the mock backends are
\* stopped and the temporary directories removed (unless a debug dump keeps them).
ResourcesReleased == pc = "exited" => mocks = 0 /\ (debugDump \/ dirs = {})

\* After the tests ran, however long the 100 ms turn out to be: varnishlog is
\* stopped before varnishd is told to go, no mock backend and no directory that
\* varnishd uses is taken away before that, Run does not end without it, and the
\* cancelled context is one that a started varnishd hears of: the cancellation
\* never runs ahead of the goroutine that starts it.
TeardownInOrder ==
  ret = "result" =>
    /\ ctxDone => vlog # "running"
    /\ ctxDone => proc \in {"wait", "returned"}
    /\ mocks < NBackends \/ dirs # AllDirs => ctxDone
    /\ pc = "exited" => ctxDone

\* A failed start-up is noticed and Run ends, whichever goroutine fails and in
\* whichever order the channels deliver: unless a command is stuck in Exec.
RunEnds == <>(pc = "exited" \/ ExecBlocked)

\* "Stop varnishd and recorder when done".
NothingLeftRunning == pc = "exited" => varnishd # "running" /\ vlog # "running"
=============================================================================
