--------------------------- MODULE HarnessProofs ---------------------------
(***************************************************************************)
(* Proofs about Harness: whichever step of Run fails and however the       *)
(* goroutines interleave, what is held is what the deferred calls release. *)
(***************************************************************************)
EXTENDS Harness, SequenceTheorems, TLAPS

\* The deferred calls are registered in this order, some of them or all.
Rank == [dirs |-> 1, backends |-> 2, services |-> 3]
Calls == {"dirs", "backends", "services"}
InOrder ==
  \A i, j \in 1..Len(defers) : i < j => Rank[defers[i]] < Rank[defers[j]]
Deferred(call) == \E i \in 1..Len(defers) : defers[i] = call

\* The stages of start-up, by what is deferred when they begin.
NoneYet == pc \in {"load", "mkdir"}
DirsOnly == pc = "backends"
Mocked == pc \in {"vcl", "services", "early", "ready", "recorder", "show", "cancel", "sleep"}

DefersInv ==
  /\ defers \in Seq(Calls) /\ InOrder
  /\ Deferred("services") => Deferred("backends")
  /\ NoneYet => defers = <<>>
  /\ DirsOnly => ~Deferred("backends")
  /\ Mocked => Deferred("backends") /\ ~Deferred("services")
  /\ pc = "tests" => Deferred("services")
  /\ pc = "exited" => defers = <<>>
  /\ pc \notin {"load", "mkdir", "unwind", "exited"} /\ ~debugDump => Deferred("dirs")
  /\ Deferred("backends") /\ ~debugDump => Deferred("dirs")
  /\ Deferred("dirs") => ~debugDump

\* A deferred call stands for what it releases, and nothing else is held.
HeldInv ==
  /\ mocks = IF Deferred("backends") THEN NBackends ELSE 0
  /\ ~debugDump => dirs = IF Deferred("dirs") THEN AllDirs ELSE {}
  /\ Deferred("backends") => dirs = AllDirs
  /\ DirsOnly => dirs = AllDirs

\* varnishd is started once, by the goroutine that then waits for it.
StartedOnce ==
  /\ pc \in {"load", "mkdir", "backends", "vcl", "services"} => mgr = "off"
  /\ mgr \in {"off", "listen", "workspace"} => proc = "off"
  /\ varnishd = "running" => proc = "wait"
  /\ pc \in {"recorder", "show", "tests", "cancel", "sleep"} \/ ret = "result" => port = "port"
  /\ port = "port" => proc \in {"wait", "returned"}

\* The services are cancelled only by stopServices, after varnishlog was stopped
\* and at the end of a run with a result.
ServicesInv ==
  /\ pc \notin {"unwind", "cancel", "sleep", "exited"} => ret = "none"
  /\ pc = "unwind" /\ Deferred("services") => ret = "result"
  /\ pc \in {"cancel", "sleep"} => ret = "result" /\ vlog = "dead"
  /\ ctxDone <=> /\ ret = "result" /\ ~Deferred("services")
                 /\ pc \in {"sleep", "unwind", "exited"}
  /\ ctxDone => vlog = "dead"

IInv == TypeOK /\ DefersInv /\ HeldInv /\ StartedOnce /\ ServicesInv
-----------------------------------------------------------------------------
(* The list of deferred calls *)

\* Taking the last call off a list leaves the others where they are.
LEMMA FrontOfCalls ==
  ASSUME NEW s \in Seq(Calls), s # <<>>
  PROVE  /\ Front(s) \in Seq(Calls) /\ Len(s) \in Nat \ {0}
         /\ Len(Front(s)) = Len(s) - 1
         /\ \A i \in 1..Len(s) - 1 : Front(s)[i] = s[i]
<1>1. PICK n \in Nat : Len(s) = n + 1 /\ \A i \in 1..n : s[i] \in Calls
  <2>1. Len(s) \in Nat \ {0} /\ \A i \in 1..Len(s) : s[i] \in Calls
    OBVIOUS
  <2> QED
    BY <2>1, Len(s) - 1 \in Nat
<1>2. /\ SubSeq(s, 1, n) \in Seq(Calls)
      /\ Len(SubSeq(s, 1, n)) = IF 1 <= n THEN n - 1 + 1 ELSE 0
      /\ \A i \in 1..(n - 1 + 1) : SubSeq(s, 1, n)[i] = s[1 + i - 1]
  BY <1>1, SubSeqProperties
<1>3. n - 1 + 1 = n /\ (~(1 <= n) => n = 0) /\ \A i \in 1..n : 1 + i - 1 = i
  OBVIOUS
<1>4. Front(s) = SubSeq(s, 1, n)
  BY <1>1 DEF Front
<1> QED
  BY <1>1, <1>2, <1>3, <1>4

\* defer adds one call, which keeps the list in order if it belongs at the end.
LEMMA DeferAdds ==
  ASSUME NEW call \in Calls, defers \in Seq(Calls), InOrder, Defer(call),
         \A c \in Calls : Deferred(c) => Rank[c] < Rank[call]
  PROVE  /\ defers' \in Seq(Calls) /\ InOrder'
         /\ \A c : Deferred(c)' <=> Deferred(c) \/ c = call
<1>1. /\ Len(defers') = Len(defers) + 1 /\ Len(defers) \in Nat /\ defers' \in Seq(Calls)
      /\ \A i \in 1..Len(defers) : defers'[i] = defers[i] /\ defers[i] \in Calls
      /\ defers'[Len(defers) + 1] = call
  BY DEF Defer
<1>2. InOrder'
  BY <1>1 DEF InOrder, Deferred
<1>3. \A c : Deferred(c)' <=> Deferred(c) \/ c = call
  BY <1>1 DEF Deferred
<1> QED
  BY <1>1, <1>2, <1>3

\* The last call that was deferred is the next to run, and none that belongs
\* after it is left.
LEMMA UnwindTakes ==
  ASSUME NEW call \in Calls, defers \in Seq(Calls), InOrder,
         Unwinding(call), defers' = Front(defers)
  PROVE  /\ defers' \in Seq(Calls) /\ InOrder'
         /\ Deferred(call)
         /\ \A c \in Calls : Deferred(c)' <=> Deferred(c) /\ c # call
         /\ \A c \in Calls : Deferred(c) => c = call \/ Rank[c] < Rank[call]
<1>1. /\ Len(defers') = Len(defers) - 1 /\ Len(defers) \in Nat \ {0} /\ defers' \in Seq(Calls)
      /\ \A i \in 1..Len(defers) - 1 : defers'[i] = defers[i]
      /\ \A i \in 1..Len(defers) : defers[i] \in Calls
      /\ defers[Len(defers)] = call
  BY FrontOfCalls DEF Unwinding, Last
<1>2. InOrder'
  BY <1>1 DEF InOrder
<1>3. Deferred(call)
  BY <1>1 DEF Deferred
<1>4. \A i \in 1..Len(defers) - 1 : Rank[defers[i]] < Rank[call]
  BY <1>1 DEF InOrder
<1>5. \A c \in Calls : Rank[c] \in Nat
  BY DEF Rank, Calls
<1>6. \A c \in Calls : Deferred(c) => c = call \/ Rank[c] < Rank[call]
  BY <1>1, <1>4 DEF Deferred
<1>7. \A c \in Calls : Deferred(c)' <=> Deferred(c) /\ c # call
  BY <1>1, <1>4, <1>5 DEF Deferred
<1> QED
  BY <1>1, <1>2, <1>3, <1>6, <1>7

\* A step that leaves the list alone leaves the calls deferred.
LEMMA DefersKept ==
  ASSUME UNCHANGED defers
  PROVE  /\ InOrder' <=> InOrder
         /\ \A c : Deferred(c)' <=> Deferred(c)
  BY DEF InOrder, Deferred
-----------------------------------------------------------------------------
(* IInv is an invariant: the steps of Run *)

\* Before the first step nothing is deferred, held or started.
LEMMA InitInv ==
  ASSUME Init
  PROVE  IInv
<1>1. \A c : ~Deferred(c)
  BY DEF Init, Deferred
<1>2. InOrder /\ defers \in Seq(Calls)
  BY DEF Init, InOrder
<1>3. TypeOK
  <2>1. ctxDone \in BOOLEAN /\ debugDump \in BOOLEAN /\ cliLost \in BOOLEAN /\ reqFull \in BOOLEAN
    BY Zenon DEF Init
  <2>2. mocks \in 0..NBackends /\ testsLeft \in 0..NTests /\ errCh \in 0..2 /\ errChan \in 0..1
    BY HarnessAssumption DEF Init
  <2> QED
    BY <1>2, <2>1, <2>2 DEF Init, TypeOK, AllDirs, Calls
<1>4. DefersInv /\ HeldInv /\ StartedOnce /\ ServicesInv
  BY <1>1, <1>2 DEF Init, DefersInv, HeldInv, StartedOnce, ServicesInv, NoneYet, DirsOnly, Mocked, AllDirs
<1> QED
  BY <1>3, <1>4 DEF IInv

\* Up to the clean-up each step of Run either goes on to the next stage or
\* leaves with an error and what was deferred so far.
LEMMA StagesKeep ==
  ASSUME IInv,
         \/ LoadTests \/ PrepareVCL \/ StartServices \/ CheckEarlyCrash
         \/ WaitForVarnishReady \/ StartRecorder
  PROVE  IInv'
<1> USE DEF IInv, ReturnError, srvVars, cliVars, recVars
<1>1. UNCHANGED <<defers, debugDump, dirs, mocks, ctxDone, varnishd, proc>>
  BY DEF LoadTests, PrepareVCL, StartServices, CheckEarlyCrash, WaitForVarnishReady,
         StartRecorder
<1>2. (InOrder' <=> InOrder) /\ \A c : Deferred(c)' <=> Deferred(c)
  BY <1>1, DefersKept
<1>3. TypeOK'
  BY DEF TypeOK, LoadTests, PrepareVCL, StartServices, CheckEarlyCrash, WaitForVarnishReady,
         StartRecorder
<1>4. DefersInv' /\ HeldInv'
  BY <1>1, <1>2 DEF DefersInv, HeldInv, NoneYet, DirsOnly, Mocked, LoadTests, PrepareVCL,
     StartServices, CheckEarlyCrash, WaitForVarnishReady, StartRecorder
<1>5. ~Deferred("services")
  BY DEF DefersInv, NoneYet, Mocked, Deferred, LoadTests, PrepareVCL, StartServices,
         CheckEarlyCrash, WaitForVarnishReady, StartRecorder
<1>6. \/ pc' \in {"mkdir", "services", "early", "ready", "recorder", "show"} /\ UNCHANGED ret
      \/ pc' = "unwind" /\ ret' = "error"
  BY DEF LoadTests, PrepareVCL, StartServices, CheckEarlyCrash, WaitForVarnishReady,
         StartRecorder
<1>7. ServicesInv'
  <2>1. ~ctxDone /\ ret = "none"
    BY DEF ServicesInv, LoadTests, PrepareVCL, StartServices, CheckEarlyCrash,
           WaitForVarnishReady, StartRecorder
  <2> QED
    BY <1>1, <1>2, <1>5, <1>6, <2>1 DEF ServicesInv
<1>8. StartedOnce'
  <2>1. ret = "none"
    BY DEF ServicesInv, LoadTests, PrepareVCL, StartServices, CheckEarlyCrash,
           WaitForVarnishReady, StartRecorder
  <2>2. ret' # "result"
    BY <1>6, <2>1
  <2> QED
    BY <1>1, <2>2 DEF StartedOnce, LoadTests, PrepareVCL, StartServices, CheckEarlyCrash,
       WaitForVarnishReady, StartRecorder
<1> QED
  BY <1>3, <1>4, <1>7, <1>8

\* The directories: their clean-up is deferred at once, without a debug dump.
LEMMA CreateTempDirsKeeps ==
  ASSUME IInv, CreateTempDirs
  PROVE  IInv'
<1> USE DEF IInv, CreateTempDirs, ReturnError, srvVars, cliVars, recVars
<1>1. \A c : ~Deferred(c)
  BY DEF DefersInv, NoneYet, Deferred
<1>2. CASE Defer("dirs") /\ ~debugDump
  <2>1. /\ defers' \in Seq(Calls) /\ InOrder'
        /\ \A c : Deferred(c)' <=> Deferred(c) \/ c = "dirs"
    BY <1>1, <1>2, DeferAdds DEF Calls, DefersInv
  <2>2. pc' = "backends" /\ dirs' = AllDirs /\ UNCHANGED ret
    BY <1>2 DEF Defer, TypeOK
  <2>3. TypeOK'
    BY <2>1, <2>2 DEF TypeOK, AllDirs, Calls
  <2>4. DefersInv' /\ HeldInv' /\ StartedOnce' /\ ServicesInv'
    BY <1>1, <1>2, <2>1, <2>2 DEF DefersInv, HeldInv, StartedOnce, ServicesInv, NoneYet, DirsOnly, Mocked
  <2> QED
    BY <2>3, <2>4
<1>3. CASE UNCHANGED defers
  <2>1. (InOrder' <=> InOrder) /\ \A c : ~Deferred(c)'
    BY <1>1, <1>3, DefersKept
  <2>2. TypeOK'
    <3>1. dirs' \subseteq AllDirs /\ pc' \in {"backends", "unwind"} /\ ret' \in {"none", "error"}
      BY DEF TypeOK, ServicesInv
    <3> QED
      BY <1>3, <3>1 DEF TypeOK
  <2>3. DefersInv' /\ HeldInv' /\ StartedOnce' /\ ServicesInv'
    BY <1>1, <1>3, <2>1, <2>2 DEF TypeOK, DefersInv, HeldInv, StartedOnce, ServicesInv, NoneYet, DirsOnly, Mocked, Defer
  <2> QED
    BY <2>2, <2>3
<1> QED
  BY <1>2, <1>3

\* The mock backends are running exactly when stopping them is deferred.
LEMMA StartBackendsEarlyKeeps ==
  ASSUME IInv, StartBackendsEarly
  PROVE  IInv'
<1> USE DEF IInv, StartBackendsEarly, ReturnError, srvVars, cliVars, recVars
<1>1. ~Deferred("backends") /\ ~Deferred("services") /\ dirs = AllDirs
  BY DEF DefersInv, DirsOnly, HeldInv
<1>2. CASE mocks' = NBackends /\ Defer("backends") /\ pc' = "vcl" /\ UNCHANGED ret
  <2>1. /\ defers' \in Seq(Calls) /\ InOrder'
        /\ \A c : Deferred(c)' <=> Deferred(c) \/ c = "backends"
    BY <1>1, <1>2, DeferAdds DEF Calls, DefersInv, Rank
  <2>2. TypeOK'
    BY <1>2, <2>1, HarnessAssumption DEF TypeOK, Calls
  <2>3. DefersInv' /\ HeldInv' /\ StartedOnce' /\ ServicesInv'
    BY <1>1, <1>2, <2>1 DEF DefersInv, HeldInv, StartedOnce, ServicesInv, NoneYet, DirsOnly, Mocked
  <2> QED
    BY <2>2, <2>3
<1>3. CASE mocks' = 0 /\ ReturnError
  <2>1. (InOrder' <=> InOrder) /\ \A c : Deferred(c)' <=> Deferred(c)
    BY <1>3, DefersKept
  <2>2. TypeOK'
    BY <1>3, HarnessAssumption DEF TypeOK
  <2>3. DefersInv' /\ HeldInv' /\ StartedOnce' /\ ServicesInv'
    BY <1>1, <1>3, <2>1 DEF TypeOK, DefersInv, HeldInv, StartedOnce, ServicesInv, NoneYet, DirsOnly, Mocked
  <2> QED
    BY <2>2, <2>3
<1> QED
  BY <1>2, <1>3

\* stopServices is deferred only when start-up is complete.
LEMMA ShowVCLKeeps ==
  ASSUME IInv, ShowVCL
  PROVE  IInv'
<1> USE DEF IInv, ShowVCL, srvVars, cliVars, recVars
<1>1. Deferred("backends") /\ ~Deferred("services")
  BY DEF DefersInv, Mocked
<1>2. /\ defers' \in Seq(Calls) /\ InOrder'
      /\ \A c : Deferred(c)' <=> Deferred(c) \/ c = "services"
  BY <1>1, DeferAdds DEF Calls, DefersInv, Rank
<1>3. TypeOK'
  <2>1. cliLost' \in BOOLEAN /\ reqFull' \in BOOLEAN
    BY Zenon DEF TypeOK, ExecReturns
  <2> QED
    BY <1>2, <2>1 DEF TypeOK, Calls
<1>4. DefersInv' /\ HeldInv' /\ StartedOnce' /\ ServicesInv'
  BY <1>1, <1>2 DEF DefersInv, HeldInv, StartedOnce, ServicesInv, NoneYet, DirsOnly, Mocked
<1> QED
  BY <1>3, <1>4

\* The tests leave what is held alone, and end with a result.
LEMMA TestsKeep ==
  ASSUME IInv, RunOneTest \/ ReturnResult
  PROVE  IInv'
<1> USE DEF IInv, RunOneTest, ReturnResult, mainVars, srvVars, cliVars, recVars
<1>1. (InOrder' <=> InOrder) /\ \A c : Deferred(c)' <=> Deferred(c)
  BY DefersKept
<1>2. TypeOK'
  <2>1. cliLost' \in BOOLEAN /\ reqFull' \in BOOLEAN
    BY Zenon DEF TypeOK, ExecReturns
  <2> QED
    BY <2>1, HarnessAssumption DEF TypeOK
<1>3. DefersInv' /\ HeldInv' /\ StartedOnce' /\ ServicesInv'
  BY <1>1 DEF DefersInv, HeldInv, StartedOnce, ServicesInv, NoneYet, DirsOnly, Mocked
<1> QED
  BY <1>2, <1>3

-----------------------------------------------------------------------------
(* IInv is an invariant: the deferred calls *)

\* Stopping the services: the mock backends and the directories are still there.
LEMMA StopRecorderKeeps ==
  ASSUME IInv, StopRecorder
  PROVE  IInv'
<1> USE DEF IInv, StopRecorder, srvVars, cliVars, recVars
<1>1. /\ defers' \in Seq(Calls) /\ InOrder' /\ Deferred("services")
      /\ \A c \in Calls : Deferred(c)' <=> Deferred(c) /\ c # "services"
  BY UnwindTakes DEF Calls, DefersInv
<1>2. TypeOK'
  BY <1>1 DEF TypeOK, Calls
<1>3. pc = "unwind"
  BY DEF Unwinding
<1>4. DefersInv' /\ HeldInv'
  BY <1>1, <1>3 DEF DefersInv, HeldInv, NoneYet, DirsOnly, Mocked, Calls
<1>5. StartedOnce' /\ ServicesInv'
  BY <1>1, <1>3 DEF DefersInv, StartedOnce, ServicesInv, Calls
<1> QED
  BY <1>2, <1>4, <1>5

\* The mock backends go when the services are no longer deferred.
LEMMA StopAllBackendsKeeps ==
  ASSUME IInv, StopAllBackends
  PROVE  IInv'
<1> USE DEF IInv, StopAllBackends, srvVars, cliVars, recVars
<1>1. /\ defers' \in Seq(Calls) /\ InOrder' /\ Deferred("backends") /\ ~Deferred("services")
      /\ \A c \in Calls : Deferred(c)' <=> Deferred(c) /\ c # "backends"
  BY UnwindTakes DEF Calls, DefersInv, Rank
<1>2. TypeOK'
  BY <1>1, HarnessAssumption DEF TypeOK, Calls
<1>3. pc = "unwind"
  BY DEF Unwinding
<1>4. DefersInv' /\ HeldInv' /\ StartedOnce' /\ ServicesInv'
  BY <1>1, <1>3 DEF DefersInv, HeldInv, StartedOnce, ServicesInv, NoneYet, DirsOnly, Mocked, Calls
<1> QED
  BY <1>2, <1>4

\* The directories go last.
LEMMA CleanupTempDirsKeeps ==
  ASSUME IInv, CleanupTempDirs
  PROVE  IInv'
<1> USE DEF IInv, CleanupTempDirs, srvVars, cliVars, recVars
<1>1. /\ defers' \in Seq(Calls) /\ InOrder' /\ Deferred("dirs")
      /\ ~Deferred("backends") /\ ~Deferred("services")
      /\ \A c \in Calls : Deferred(c)' <=> Deferred(c) /\ c # "dirs"
  BY UnwindTakes DEF Calls, DefersInv, Rank
<1>2. TypeOK'
  BY <1>1 DEF TypeOK, Calls
<1>3. pc = "unwind"
  BY DEF Unwinding
<1>4. DefersInv' /\ HeldInv' /\ StartedOnce' /\ ServicesInv'
  BY <1>1, <1>3 DEF DefersInv, HeldInv, StartedOnce, ServicesInv, NoneYet, DirsOnly, Mocked, Calls
<1> QED
  BY <1>2, <1>4

\* stopServices cancels and waits a little; Exit comes when nothing is deferred.
LEMMA ShutdownKeeps ==
  ASSUME IInv, CancelServices \/ SleepBriefly \/ Exit
  PROVE  IInv'
<1> USE DEF IInv, CancelServices, SleepBriefly, Exit, srvVars, cliVars, recVars
<1>1. (InOrder' <=> InOrder) /\ \A c : Deferred(c)' <=> Deferred(c)
  BY DefersKept
<1>2. TypeOK'
  <2>1. ctxDone' \in BOOLEAN
    BY Zenon DEF TypeOK
  <2> QED
    BY <2>1 DEF TypeOK
<1>3. DefersInv' /\ HeldInv'
  BY <1>1 DEF DefersInv, HeldInv, NoneYet, DirsOnly, Mocked
<1>4. StartedOnce' /\ ServicesInv'
  BY <1>1 DEF TypeOK, DefersInv, StartedOnce, ServicesInv, Mocked
<1> QED
  BY <1>2, <1>3, <1>4
-----------------------------------------------------------------------------
(* IInv is an invariant: the goroutines and the child processes *)

\* The goroutines of the service manager and the child processes, in any order
\* between the steps of Run, take away nothing that is deferred.
LEMMA ServicesKeep ==
  ASSUME IInv,
         \/ Manager \/ Process \/ CliReturn \/ GetHTTPPort
         \/ VarnishdExits \/ VarnishlogExits \/ UNCHANGED vars
  PROVE  IInv'
<1> USE DEF IInv, Manager, ManagerListen, ManagerPrepareWorkspace, ManagerWait, Process,
        ProcessStart, KillVarnishd, ProcessWait, CliReturn, GetHTTPPort, VarnishdExits,
        VarnishlogExits, Fail, vars, mainVars, srvVars, cliVars, recVars
<1>1. UNCHANGED <<pc, defers, ret, debugDump, dirs, mocks, ctxDone, cliVars, rec, testsLeft>>
  OBVIOUS
<1>2. (InOrder' <=> InOrder) /\ \A c : Deferred(c)' <=> Deferred(c)
  BY <1>1, DefersKept
<1>3. TypeOK'
  <2>1. errCh' \in 0..2 /\ errChan' \in 0..1
    BY DEF TypeOK
  <2>2. /\ mgr' \in {"off", "listen", "workspace", "wait", "returned"}
        /\ cli' \in {"off", "up", "down"} /\ proc' \in {"off", "start", "wait", "returned"}
        /\ port' \in {"off", "asking", "port", "err"}
        /\ varnishd' \in {"none", "running", "exit0", "dead"}
        /\ vlog' \in {"none", "running", "dead"}
    BY DEF TypeOK
  <2> QED
    BY <1>1, <2>1, <2>2 DEF TypeOK
<1>4. DefersInv' /\ HeldInv'
  BY <1>1, <1>2 DEF DefersInv, HeldInv, NoneYet, DirsOnly, Mocked
<1>5. vlog = "dead" => vlog' = "dead"
  OBVIOUS
<1>8. StartedOnce'
  BY <1>1 DEF StartedOnce
<1>7. ServicesInv'
  BY <1>1, <1>2, <1>5 DEF ServicesInv
<1> QED
  BY <1>3, <1>4, <1>7, <1>8
-----------------------------------------------------------------------------
(* The theorems *)

\* IInv holds in every state of every run.
THEOREM HarnessInvariant == Spec => []IInv
<1>1. IInv /\ [Next]_vars => IInv'
  BY StagesKeep, CreateTempDirsKeeps, StartBackendsEarlyKeeps, ShowVCLKeeps, TestsKeep,
     StopRecorderKeeps, StopAllBackendsKeeps, CleanupTempDirsKeeps, ShutdownKeeps,
     ServicesKeep, Zenon DEF Next, Main
<1> QED
  BY InitInv, <1>1, PTL DEF Spec

\* The types, and the two error channels never exceed their capacities: no
\* goroutine of the service manager blocks on a send (TypeOK).
THEOREM HarnessTypes == Spec => []TypeOK
<1>1. IInv => TypeOK
  BY DEF IInv
<1> QED
  BY HarnessInvariant, <1>1, PTL

\* On every path out of Run the mock backends are stopped and the temporary
\* directories removed (ResourcesReleased), for every number of backends and tests.
THEOREM ReleasedOnEveryPath == Spec => []ResourcesReleased
<1>1. IInv => ResourcesReleased
  <2> SUFFICES ASSUME IInv, pc = "exited" PROVE mocks = 0 /\ (debugDump \/ dirs = {})
    BY DEF ResourcesReleased
  <2>1. \A c : ~Deferred(c)
    BY DEF IInv, DefersInv, Deferred
  <2> QED
    BY <2>1 DEF IInv, HeldInv
<1> QED
  BY HarnessInvariant, <1>1, PTL

\* After the tests ran, varnishlog is stopped before varnishd is told to go, no
\* mock backend and no directory goes before that, Run does not end without it,
\* and the varnishd that is told was started (TeardownInOrder), with nothing
\* assumed of the 100 ms that stopServices waits.
THEOREM TornDownInOrder == Spec => []TeardownInOrder
<1>1. IInv => TeardownInOrder
  <2> SUFFICES ASSUME IInv, ret = "result" PROVE
        /\ ctxDone => vlog # "running"
        /\ ctxDone => proc \in {"wait", "returned"}
        /\ mocks < NBackends \/ dirs # AllDirs => ctxDone
        /\ pc = "exited" => ctxDone
    BY DEF TeardownInOrder
  <2>1. pc = "exited" => ctxDone
    BY DEF IInv, DefersInv, ServicesInv, Deferred
  <2>2. ~ctxDone => Deferred("backends")
    BY DEF IInv, DefersInv, ServicesInv, Mocked, TypeOK, Deferred
  <2>3. Deferred("backends") => mocks = NBackends /\ dirs = AllDirs
    BY DEF IInv, HeldInv
  <2>4. ~(NBackends < NBackends)
    BY HarnessAssumption
  <2> QED
    BY <2>1, <2>2, <2>3, <2>4 DEF IInv, StartedOnce, ServicesInv
<1> QED
  BY HarnessInvariant, <1>1, PTL
=============================================================================
