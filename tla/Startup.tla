------------------------------ MODULE Startup -------------------------------
(***************************************************************************)
(* The event-driven start-up: the CLI server publishes that varnishd has   *)
(* connected (varnishadm.go, readBanner), the VCL loader answers by        *)
(* activating the VCL and publishing its mapping (vclloader/loader.go),    *)
(* the cache starter by starting the cache process and publishing that the *)
(* system is ready (cache/starter.go).  vcltest itself passes a nil broker *)
(* and lets varnishd load the VCL at boot; these packages are the other    *)
(* way, for programs that use them as a library.                           *)
(*                                                                         *)
(* The broker is vendored (borud/broker): one goroutine takes a message or  *)
(* a subscription, whichever it picks, and hands a message to the          *)
(* subscribers one after the other, in any order; it gives a message up    *)
(* for a subscriber whose channel stays full.  The exchange of a command   *)
(* with varnishd is one step (module Varnishadm has it in detail).         *)
(***************************************************************************)
EXTENDS Naturals, Sequences, Functions

CONSTANTS MaxConns,    \* how often varnishd connects
          MaxFaults,   \* bound on failing system calls, commands, connections
          PublishLen,  \* capacity of the broker's publish channel
          DownLen,     \* capacity of a subscriber's channel
          None         \* nil

ASSUME StartupAssumption ==
  MaxConns \in Nat \ {0} /\ MaxFaults \in Nat
  /\ PublishLen \in Nat \ {0} /\ DownLen \in Nat \ {0}

VARIABLES srv,        \* the server goroutine: "accept", "publish", "serve" or
                      \* "answer" (blocked on a response channel)
          conn,       \* number of the connection, 0 before the first one
          reqCh,      \* the server's request channel (one slot)
          cur,        \* the request it works on, with varnishd's status
          child,      \* the cache process runs
          publishCh,  \* broker: published messages
          subscribeCh,\* broker: subscriptions not yet registered
          members,    \* broker: registered subscribers
          msg,        \* broker: the message being delivered, or None
          left,       \* broker: the subscribers it has still to get to
          inbox,      \* inbox[s]: the channel of subscriber s
          pc,         \* pc[p] of the loader and of the starter
          job,        \* job[p]: the connection whose event p handles
          vclMapping, \* starter: the load its mapping is from, 0 = nil
          cwd,        \* the working directory of the process: "home", "vcl", or
                      \* "left": still the VCL's, because changing back failed
          original,   \* loader: originalDir
          seen,       \* the events a third subscriber has received
          missed,     \* missed[s]: events s acts on that will never reach it
          concluded,  \* connections with a Ready or ProcessError published
          faults      \* faults so far

brokerVars == <<publishCh, subscribeCh, members, msg, left>>
srvVars == <<srv, conn, reqCh, cur, child>>
dirVars == <<cwd, original>>
vars == <<srv, conn, reqCh, cur, child, publishCh, subscribeCh, members,
          msg, left, inbox, pc, job, vclMapping, cwd, original, seen, missed,
          concluded, faults>>

Proc == {"loader", "starter"}
Subscriber == Proc \cup {"observer"}
Conns == 1..MaxConns
Kind == {"Connected", "VCLLoaded", "CacheStarted", "Ready", "ProcessError"}
\* An event, and the connection that gave rise to it.
Event == [type : Kind, n : Conns]
Ev(t, n) == [type |-> t, n |-> n]

\* varnishd's answer to a command of p: live while p waits for it.
Answer == [by : Proc, live : BOOLEAN, status : {106, 200, 300}]

ASSUME NilAssumption == None \notin Event \cup Answer

\* The events a subscriber acts on; it skips the others.
Wants(s) == [type : CASE s = "loader" -> {"Connected"} [] s = "starter" -> {"VCLLoaded"}
                      [] OTHER -> Kind \ {"ProcessError"},
             n : Conns]

\* The program counters at which a process is in Exec: about to send its
\* request, and waiting for the answer.
Sending == {"use", "show", "start"}
WaitingFor == [use |-> "use?", show |-> "show?", start |-> "start?"]
Waiting == {"use?", "show?", "start?"}

Fault == faults < MaxFaults /\ faults' = faults + 1

Init ==
  /\ srv = "accept" /\ conn = 0 /\ reqCh = <<>> /\ cur = None
  /\ child \in BOOLEAN
  /\ publishCh = <<>> /\ subscribeCh = Subscriber /\ members = {}
  /\ msg = None /\ left = {}
  /\ inbox = [s \in Subscriber |-> <<>>]
  /\ pc = [p \in Proc |-> "wait"] /\ job = [p \in Proc |-> 0]
  /\ vclMapping = 0 /\ cwd = "home" /\ original = "home"
  /\ seen = {} /\ missed = [s \in Subscriber |-> {}]
  /\ concluded = {} /\ faults = 0
-----------------------------------------------------------------------------
(* The broker. *)

\* Publish waits for room for one second and gives up.
Publish(e) ==
  \/ /\ Len(publishCh) < PublishLen
     /\ publishCh' = Append(publishCh, e)
     /\ UNCHANGED missed
  \/ /\ Len(publishCh) = PublishLen
     /\ missed' = [s \in Subscriber |-> missed[s] \cup ({e} \cap Wants(s))]
     /\ UNCHANGED publishCh

Register(s) ==
  /\ s \in subscribeCh /\ msg = None
  /\ subscribeCh' = subscribeCh \ {s}
  /\ members' = members \cup {s}
  /\ UNCHANGED <<srvVars, publishCh, msg, left, inbox, pc, job, vclMapping,
                 dirVars, seen, missed, concluded, faults>>

TakeMessage ==
  /\ msg = None /\ publishCh # <<>>
  /\ publishCh' = Tail(publishCh)
  /\ msg' = IF members = {} THEN None ELSE Head(publishCh)
  /\ left' = members
  /\ missed' = [s \in Subscriber |->
                  IF s \in members THEN missed[s]
                  ELSE missed[s] \cup ({Head(publishCh)} \cap Wants(s))]
  /\ UNCHANGED <<srvVars, subscribeCh, members, inbox, pc, job, vclMapping,
                 dirVars, seen, concluded, faults>>

\* One subscriber: delivered, or dropped after the delivery timeout.
Deliver(s) ==
  /\ s \in left
  /\ left' = left \ {s}
  /\ msg' = IF left = {s} THEN None ELSE msg
  /\ \/ /\ Len(inbox[s]) < DownLen
        /\ inbox' = [inbox EXCEPT ![s] = Append(@, msg)]
        /\ UNCHANGED missed
     \/ /\ Len(inbox[s]) = DownLen
        /\ missed' = [missed EXCEPT ![s] = @ \cup ({msg} \cap Wants(s))]
        /\ UNCHANGED inbox
  /\ UNCHANGED <<srvVars, publishCh, subscribeCh, members, pc, job, vclMapping,
                 dirVars, seen, concluded, faults>>

\* A subscriber that only looks on, as slow as it likes.
Observe ==
  /\ inbox["observer"] # <<>>
  /\ seen' = seen \cup ({Head(inbox["observer"])} \cap Wants("observer"))
  /\ inbox' = [inbox EXCEPT !["observer"] = Tail(@)]
  /\ UNCHANGED <<srvVars, brokerVars, pc, job, vclMapping, dirVars, missed,
                 concluded, faults>>
-----------------------------------------------------------------------------
(* The CLI server and varnishd. *)

\* varnishd connects (again) and authenticates.
Accept ==
  /\ srv = "accept" /\ conn < MaxConns
  /\ srv' = "publish" /\ conn' = conn + 1
  /\ UNCHANGED <<reqCh, cur, child, brokerVars, inbox, pc, job, vclMapping,
                 dirVars, seen, missed, concluded, faults>>

\* readBanner publishes before the server serves its first command.
ReadBanner ==
  /\ srv = "publish"
  /\ Publish(Ev("Connected", conn))
  /\ srv' = "serve"
  /\ UNCHANGED <<conn, reqCh, cur, child, subscribeCh, members, msg, left,
                 inbox, pc, job, vclMapping, dirVars, seen, concluded, faults>>

\* varnishd's answers.  start: 300 when the child runs already.
Answers(cmd) ==
  {IF cmd = "start" /\ child THEN 300 ELSE 200}
    \cup (IF faults < MaxFaults THEN {106} ELSE {})

\* handleConnection takes a request and runs it; if the connection has
\* broken, which it does not notice before, it is given up and nobody
\* answers.
ServeRequest ==
  /\ srv = "serve" /\ reqCh # <<>>
  /\ reqCh' = <<>>
  /\ \/ /\ \E st \in Answers(Head(reqCh).cmd) :
             /\ cur' = [by |-> Head(reqCh).by, live |-> Head(reqCh).live, status |-> st]
             /\ child' = (child \/ (Head(reqCh).cmd = "start" /\ st = 200))
             /\ faults' = faults + IF st = 106 THEN 1 ELSE 0
        /\ srv' = "answer"
     \/ /\ Fault
        /\ srv' = "accept"
        /\ UNCHANGED <<cur, child>>
  /\ UNCHANGED <<conn, brokerVars, inbox, pc, job, vclMapping, dirVars,
                 seen, missed, concluded>>

\* Exec: the send on the request channel has no time limit.
ExecSend(p) ==
  /\ pc[p] \in Sending /\ reqCh = <<>>
  /\ reqCh' = <<[by |-> p, cmd |-> pc[p], live |-> TRUE]>>
  /\ pc' = [pc EXCEPT ![p] = WaitingFor[@]]
  /\ UNCHANGED <<srv, conn, cur, child, brokerVars, inbox, job, vclMapping,
                 dirVars, seen, missed, concluded, faults>>

\* Mutant: the status of the answer is not looked at.
StartOkAlways(st) == TRUE

\* startCache takes status 300 for a child that runs already.
StartOk(st) == st \in {200, 300}

\* What the caller does with the answer to the command it waited for.
Continue(w, st) ==
  CASE w = "use?"   -> IF st = 200 THEN "show" ELSE "restore!"
    [] w = "show?"  -> IF st = 200 THEN "loaded" ELSE "restore!"
    [] w = "start?" -> IF StartOk(st) THEN "started" ELSE "error"

\* The rendezvous on the response channel.
ExecAnswer ==
  /\ srv = "answer" /\ cur.live
  /\ pc' = [pc EXCEPT ![cur.by] = Continue(@, cur.status)]
  /\ srv' = "serve" /\ cur' = None
  /\ UNCHANGED <<conn, reqCh, child, brokerVars, inbox, job, vclMapping,
                 dirVars, seen, missed, concluded, faults>>

\* The 30 s timer: the request stays where it is, without a receiver.
ExecTimeout(p) ==
  /\ pc[p] \in Waiting
  /\ pc' = [pc EXCEPT ![p] = IF p = "loader" THEN "restore!" ELSE "error"]
  /\ reqCh' = [i \in DOMAIN reqCh |-> [reqCh[i] EXCEPT !.live = @ /\ reqCh[i].by # p]]
  /\ cur' = IF cur = None THEN None ELSE [cur EXCEPT !.live = @ /\ cur.by # p]
  /\ UNCHANGED <<srv, conn, child, brokerVars, inbox, job, vclMapping,
                 dirVars, seen, missed, concluded, faults>>
-----------------------------------------------------------------------------
(* The two handlers. *)

\* The loader's loop: anything but a connection is skipped.  loadVCL checks
\* the file and changes into its directory; an error up to there leaves the
\* directory as it was.  A relative path is resolved against the working
\* directory of the moment and need not be found once that is wrong.
LoaderReceive ==
  /\ pc["loader"] = "wait" /\ inbox["loader"] # <<>>
  /\ inbox' = [inbox EXCEPT !["loader"] = Tail(@)]
  /\ LET e == Head(inbox["loader"]) IN
     IF e.type # "Connected" THEN UNCHANGED <<pc, job, dirVars, faults>>
     ELSE /\ job' = [job EXCEPT !["loader"] = e.n]
          /\ \/ /\ pc' = [pc EXCEPT !["loader"] = "use"]
                /\ original' = cwd /\ cwd' = "vcl"
                /\ UNCHANGED faults
             \/ /\ Fault \/ (cwd = "left" /\ UNCHANGED faults)
                /\ pc' = [pc EXCEPT !["loader"] = "error"]
                /\ UNCHANGED dirVars
  /\ UNCHANGED <<srvVars, brokerVars, vclMapping, seen, missed, concluded>>

\* Mutant: the directory is restored at the end of loadVCL, not deferred.
LoaderRestoreOnSuccess ==
  /\ pc["loader"] \in {"restore", "restore!"}
  /\ cwd' = IF pc["loader"] = "restore" THEN original ELSE cwd
  /\ pc' = [pc EXCEPT !["loader"] = IF @ = "restore" THEN "wait" ELSE "error"]
  /\ UNCHANGED <<srvVars, brokerVars, inbox, job, vclMapping, original, seen,
                 missed, concluded, faults>>

\* The deferred Chdir; a failure is logged only.
\* Reached with EventVCLLoaded published ("restore") or an error ("restore!").
LoaderRestore ==
  /\ pc["loader"] \in {"restore", "restore!"}
  /\ \/ cwd' = original /\ UNCHANGED faults
     \/ Fault /\ cwd' = "left"
  /\ pc' = [pc EXCEPT !["loader"] = IF @ = "restore" THEN "wait" ELSE "error"]
  /\ UNCHANGED <<srvVars, brokerVars, inbox, job, vclMapping, original, seen,
                 missed, concluded>>

LoaderPublish ==
  /\ pc["loader"] = "loaded"
  /\ Publish(Ev("VCLLoaded", job["loader"]))
  /\ pc' = [pc EXCEPT !["loader"] = "restore"]
  /\ UNCHANGED <<srvVars, subscribeCh, members, msg, left, inbox, job,
                 vclMapping, dirVars, seen, concluded, faults>>

\* The starter's loop; it keeps the mapping before it starts the cache.
StarterReceive ==
  /\ pc["starter"] = "wait" /\ inbox["starter"] # <<>>
  /\ inbox' = [inbox EXCEPT !["starter"] = Tail(@)]
  /\ LET e == Head(inbox["starter"]) IN
     IF e.type # "VCLLoaded" THEN UNCHANGED <<pc, job, vclMapping>>
     ELSE /\ job' = [job EXCEPT !["starter"] = e.n]
          /\ vclMapping' = e.n
          /\ pc' = [pc EXCEPT !["starter"] = "start"]
  /\ UNCHANGED <<srvVars, brokerVars, dirVars, seen, missed, concluded, faults>>

\* Mutant: the other order.
StarterStagesSwapped == [started |-> [type |-> "Ready", then |-> "ready"],
                         ready   |-> [type |-> "CacheStarted", then |-> "wait"]]

\* EventCacheStarted, then EventReady.
StarterStages == [started |-> [type |-> "CacheStarted", then |-> "ready"],
                  ready   |-> [type |-> "Ready", then |-> "wait"]]

StarterPublish ==
  /\ pc["starter"] \in DOMAIN StarterStages
  /\ LET stage == StarterStages[pc["starter"]] IN
     /\ Publish(Ev(stage.type, job["starter"]))
     /\ pc' = [pc EXCEPT !["starter"] = stage.then]
     /\ concluded' = concluded \cup IF stage.type = "Ready" THEN {job["starter"]} ELSE {}
  /\ UNCHANGED <<srvVars, subscribeCh, members, msg, left, inbox, job,
                 vclMapping, dirVars, seen, faults>>

\* Mutant: the error is dropped.
PublishErrorNot(p) ==
  /\ pc[p] = "error"
  /\ pc' = [pc EXCEPT ![p] = "wait"]
  /\ UNCHANGED <<srvVars, brokerVars, inbox, job, vclMapping, dirVars, seen,
                 missed, concluded, faults>>

\* Either handler reports its error and waits for the next event.
PublishError(p) ==
  /\ pc[p] = "error"
  /\ Publish(Ev("ProcessError", job[p]))
  /\ pc' = [pc EXCEPT ![p] = "wait"]
  /\ concluded' = concluded \cup {job[p]}
  /\ UNCHANGED <<srvVars, subscribeCh, members, msg, left, inbox, job,
                 vclMapping, dirVars, seen, faults>>

LoaderStep == LoaderReceive \/ LoaderRestore \/ LoaderPublish \/ PublishError("loader")
StarterStep == StarterReceive \/ StarterPublish \/ PublishError("starter")
ServerStep == ReadBanner \/ ServeRequest \/ ExecAnswer
BrokerStep == TakeMessage \/ \E s \in Subscriber : Register(s) \/ Deliver(s)

Next ==
  \/ LoaderStep \/ StarterStep \/ ServerStep \/ BrokerStep
  \/ \E p \in Proc : ExecSend(p) \/ ExecTimeout(p)
  \/ Observe \/ Accept

Spec == Init /\ [][Next]_vars

\* Every goroutine that can run does, and timers fire.  varnishd need not
\* connect and the observer need not read.
Fairness ==
  /\ WF_vars(LoaderStep) /\ WF_vars(StarterStep) /\ WF_vars(ServerStep)
  /\ WF_vars(BrokerStep)
  /\ \A p \in Proc : WF_vars(ExecSend(p)) /\ WF_vars(ExecTimeout(p))
FairSpec == Spec /\ Fairness
-----------------------------------------------------------------------------
(* Properties. *)

Wedged == srv = "answer" /\ ~cur.live
InLoadVCL == Sending \cup Waiting \cup {"loaded", "restore", "restore!"}

\* Ready is true: nobody is told that the system is ready while the cache
\* process does not run (starter.go checks the status of start before it
\* publishes EventReady), and whoever was told can ask the starter for the
\* VCL mapping and gets the one of that start-up or of a later one
\* (GetVCLMapping).
ReadyMeansServing ==
  /\ (\E n \in Conns : Ev("Ready", n) \in
        seen \cup UNION {Range(q) : q \in {publishCh} \cup Range(inbox)})
       => child
  /\ \A n \in Conns : Ev("Ready", n) \in seen => vclMapping >= n

\* A subscriber sees the events of one connection in the order connected,
\* VCL loaded, cache started, ready, whoever published them and whatever
\* the broker does with the other subscribers; only an event that was lost
\* for it may be missing from the chain.
Before == [VCLLoaded |-> "Connected", CacheStarted |-> "VCLLoaded", Ready |-> "CacheStarted"]
EventsInOrder ==
  [][\A e \in seen' \ seen : e.type \in DOMAIN Before =>
       Ev(Before[e.type], e.n) \in seen \cup missed["observer"]]_vars

\* The working directory of the whole process is the VCL's only while
\* loadVCL runs; it is back before its error is published, on every path,
\* unless changing back itself failed.
CwdRestored ==
  cwd = "vcl" => pc["loader"] \in InLoadVCL

\* Each connection that is served comes to an end: EventReady or an error is
\* published for it, unless an event on the way was lost, the connection is
\* gone, or the server hangs on the answer of a call that timed out.
StartupConcludes ==
  \A n \in Conns :
    conn = n /\ srv = "serve" ~>
      \/ n \in concluded
      \/ Ev("Connected", n) \in missed["loader"]
      \/ Ev("VCLLoaded", n) \in missed["starter"]
      \/ srv = "accept" \/ Wedged
=============================================================================
