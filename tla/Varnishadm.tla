----------------------------- MODULE Varnishadm -----------------------------
(***************************************************************************)
(* The CLI server of pkg/varnishadm/varnishadm.go.  varnishd connects to   *)
(* it (varnishd -M), it authenticates, and then one goroutine (Run)        *)
(* forwards the commands that Exec puts on reqCh, one at a time, and hands *)
(* each answer back over the call's own unbuffered channel.                *)
(*                                                                         *)
(* Every I/O deadline and every 30 s Exec timer is a nondeterministic      *)
(* step: the code leaves room for both orders of a timer and the event it  *)
(* races with (a command may wait for varnishd to connect, and write,      *)
(* header and body each have a 10 s deadline of their own).                *)
(* varnishd itself is external: it is modelled by the frames it exchanges. *)
(***************************************************************************)
EXTENDS Naturals, Sequences

CONSTANTS Call,       \* the invocations of Exec; each is made once
          EmptyCmd,   \* those whose command is the empty string
          ReqCap,     \* capacity of reqCh: make(chan varnishRequest, 1)
          MaxFaults,  \* bound on crashes, expired deadlines, bad frames
          Hello,      \* names the challenge frame varnishd opens with
          Auth,       \* names the "auth" command and its answer
          None        \* nil

ASSUME VarnishadmAssumption ==
  /\ EmptyCmd \subseteq Call
  /\ ReqCap \in Nat \ {0}
  /\ MaxFaults \in Nat
  /\ Hello # Auth
  /\ Hello \notin Call /\ Auth \notin Call /\ None \notin Call

VARIABLES call,       \* call[c]: program counter of invocation c of Exec
          got,        \* got[c]: the response c returned, or None
          reqCh,      \* the request channel, oldest first
          srv,        \* program counter of the Run goroutine
          cur,        \* the request handleConnection took from reqCh, or None
          resp,       \* what run() returned for it, or None
          banner,     \* v.bannerReceived
          listener,   \* the TCP listener: "open" or "closed"
          ctxDone,    \* the context passed to Run is cancelled
          conn,       \* the TCP connection, as described at ConnState
          down,       \* frames on their way to varnishd
          up,         \* frames on their way to the server
          varnishd,   \* the process: "running" or "dead"
          authed,     \* varnishd accepted the auth command on this connection
          ran,        \* ran[c]: the statuses varnishd gave c, one per execution
          faults      \* faults so far

callVars == <<call, got>>
srvVars  == <<srv, cur, resp, banner>>
netVars  == <<conn, down, up>>
extVars  == <<varnishd, authed, ran>>
vars == <<call, got, reqCh, srv, cur, resp, banner, listener, ctxDone,
          conn, down, up, varnishd, authed, ran, faults>>

ClisOk   == 200
ClisAuth == 107
ClisCant == 300   \* stands for every status but 200
Status   == {ClisOk, ClisCant}

\* A frame from varnishd: the command it answers, and the status.
Frame == [of : Call \cup {Hello, Auth}, status : {ClisAuth} \cup Status]

\* "backlog": connected, not yet accepted; "open": both ends are up;
\* "peergone": varnishd's end is gone, what it had sent can still be read;
\* "srvclosed": the server closed its end, varnishd has not noticed yet.
ConnState == {"none", "backlog", "open", "peergone", "srvclosed"}

Reading == {"challenge", "authwait", "wait"}
Writing == {"authsend", "send"}
\* The goroutine is inside handleConnection.
Handling == Reading \cup Writing \cup {"idle", "deliver"}
SrvState == Handling \cup {"accept", "stopped", "failed"}

Fault == faults < MaxFaults /\ faults' = faults + 1

Init ==
  /\ call = [c \in Call |-> "idle"]
  /\ got = [c \in Call |-> None]
  /\ reqCh = <<>>
  /\ srv = "accept" /\ cur = None /\ resp = None /\ banner = FALSE
  /\ listener = "open"          \* Manager.Start calls Listen before go Run
  /\ ctxDone = FALSE
  /\ conn = "none" /\ down = <<>> /\ up = <<>>
  /\ varnishd = "running" /\ authed = FALSE
  /\ ran = [c \in Call |-> <<>>]
  /\ faults = 0

-----------------------------------------------------------------------------
(* Exec                                                                    *)

ExecEnter(c) ==
  /\ call[c] = "idle"
  /\ call' = [call EXCEPT ![c] = "send"]
  /\ UNCHANGED <<got, reqCh, srvVars, listener, ctxDone, netVars, extVars, faults>>

\* v.reqCh <- req: blocks while the channel is full, no timer is running yet.
ExecSend(c) ==
  /\ call[c] = "send"
  /\ Len(reqCh) < ReqCap
  /\ reqCh' = Append(reqCh, c)
  /\ call' = [call EXCEPT ![c] = "wait"]
  /\ UNCHANGED <<got, srvVars, listener, ctxDone, netVars, extVars, faults>>

\* Mutant: the timer runs only while the goroutine handles a connection.
ExecTimeoutConnected(c) ==
  /\ srv \in Handling
  /\ call[c] = "wait"
  /\ call' = [call EXCEPT ![c] = "timedout"]
  /\ UNCHANGED <<got, reqCh, srvVars, listener, ctxDone, netVars, extVars, faults>>

\* time.After(defaultCmdTimeout) wins the select; the request stays behind.
ExecTimeout(c) ==
  /\ call[c] = "wait"
  /\ call' = [call EXCEPT ![c] = "timedout"]
  /\ UNCHANGED <<got, reqCh, srvVars, listener, ctxDone, netVars, extVars, faults>>

-----------------------------------------------------------------------------
(* Run and handleConnection                                                *)

\* The deferred tcpConn.Close(): unread answers are lost, but a command that
\* was written may still reach a varnishd whose end is up.
CloseConn ==
  /\ conn' = IF conn = "open" THEN "srvclosed" ELSE "none"
  /\ down' = IF conn = "open" THEN down ELSE <<>>
  /\ up' = <<>>

\* handleConnection returns, with or without an error (Run only logs it).
ReturnToAccept ==
  /\ CloseConn
  /\ srv' = "accept"
  /\ cur' = None
  /\ resp' = None

Accept ==
  /\ srv = "accept"
  /\ listener = "open"
  /\ conn \in {"backlog", "peergone"}
  /\ srv' = "challenge"
  /\ banner' = FALSE
  /\ conn' = IF conn = "backlog" THEN "open" ELSE conn
  /\ UNCHANGED <<callVars, reqCh, cur, resp, listener, ctxDone, down, up, extVars, faults>>

\* Accept fails: the listener was closed, or the system refuses.  Run returns
\* nil when the context is cancelled and the error otherwise.
AcceptError ==
  /\ srv = "accept"
  /\ \/ listener = "closed" /\ UNCHANGED faults
     \/ listener = "open" /\ Fault
  /\ srv' = IF ctxDone THEN "stopped" ELSE "failed"
  /\ listener' = "closed"       \* deferred
  /\ conn' = IF conn \in {"backlog", "peergone"} THEN "none" ELSE conn
  /\ up' = <<>>
  /\ UNCHANGED <<callVars, reqCh, cur, resp, banner, ctxDone, down, extVars>>

\* readBanner, first half: the challenge must have status 107.
ReadChallenge ==
  /\ srv = "challenge"
  /\ up # <<>>
  /\ \/ /\ Head(up).status = ClisAuth
        /\ srv' = "authsend"
        /\ up' = Tail(up)
        /\ UNCHANGED <<cur, resp, conn, down>>
     \/ /\ Head(up).status # ClisAuth
        /\ ReturnToAccept
  /\ UNCHANGED <<callVars, reqCh, banner, listener, ctxDone, extVars, faults>>

\* A frame that is written to a peer that is gone is lost.
Write(frame) ==
  down' = IF conn = "open" THEN Append(down, frame) ELSE down

SendAuth ==
  /\ srv = "authsend"
  /\ Write(Auth)
  /\ srv' = "authwait"
  /\ UNCHANGED <<callVars, reqCh, cur, resp, banner, listener, ctxDone, conn, up, extVars, faults>>

\* Mutant: the answer to auth is not looked at.
ReadAuthAnyStatus ==
  /\ srv = "authwait"
  /\ up # <<>>
  /\ srv' = "idle"
  /\ banner' = TRUE
  /\ up' = Tail(up)
  /\ UNCHANGED <<callVars, reqCh, cur, resp, conn, down, listener, ctxDone, extVars, faults>>

\* readBanner, second half: the answer to auth must have status 200.
ReadAuth ==
  /\ srv = "authwait"
  /\ up # <<>>
  /\ \/ /\ Head(up).status = ClisOk
        /\ srv' = "idle"
        /\ banner' = TRUE
        /\ up' = Tail(up)
        /\ UNCHANGED <<cur, resp, conn, down>>
     \/ /\ Head(up).status # ClisOk
        /\ ReturnToAccept
        /\ UNCHANGED banner
  /\ UNCHANGED <<callVars, reqCh, listener, ctxDone, extVars, faults>>

\* The select of handleConnection: a request, or cancellation.
TakeRequest ==
  /\ srv = "idle"
  /\ reqCh # <<>>
  /\ cur' = Head(reqCh)
  /\ reqCh' = Tail(reqCh)
  /\ srv' = "send"
  /\ UNCHANGED <<callVars, resp, banner, listener, ctxDone, netVars, extVars, faults>>

\* Mutant: the select has no case for the context.
CancelIdleIgnored ==
  /\ srv = "idle"
  /\ ctxDone
  /\ UNCHANGED vars

CancelIdle ==
  /\ srv = "idle"
  /\ ctxDone
  /\ ReturnToAccept
  /\ UNCHANGED <<callVars, reqCh, banner, listener, ctxDone, extVars, faults>>

\* run(): an empty command is an error, and like every error of run it ends
\* the connection and drops the request without an answer.
SendCommand ==
  /\ srv = "send"
  /\ \/ /\ cur \notin EmptyCmd
        /\ Write(cur)
        /\ srv' = "wait"
        /\ UNCHANGED <<cur, resp, conn, up>>
     \/ /\ cur \in EmptyCmd
        /\ ReturnToAccept
  /\ UNCHANGED <<callVars, reqCh, banner, listener, ctxDone, extVars, faults>>

ReadReply ==
  /\ srv = "wait"
  /\ up # <<>>
  /\ resp' = Head(up)
  /\ up' = Tail(up)
  /\ srv' = "deliver"
  /\ UNCHANGED <<callVars, reqCh, cur, banner, listener, ctxDone, conn, down, extVars, faults>>

\* Mutants: serve the next request on the same connection after an error;
\* put the request of a failed exchange back on the channel.
IOErrorKeepsConn ==
  /\ srv \in Reading \cup Writing
  /\ \/ conn = "peergone" /\ (srv \in Reading => up = <<>>) /\ UNCHANGED faults
     \/ Fault
  /\ \/ /\ srv \in {"send", "wait"}
        /\ srv' = "idle" /\ cur' = None
        /\ UNCHANGED <<resp, netVars>>
     \/ srv \notin {"send", "wait"} /\ ReturnToAccept
  /\ UNCHANGED <<callVars, reqCh, banner, listener, ctxDone, extVars>>

IOErrorRetries ==
  /\ srv \in Reading \cup Writing
  /\ \/ conn = "peergone" /\ (srv \in Reading => up = <<>>) /\ UNCHANGED faults
     \/ Fault
  /\ reqCh' = IF cur # None /\ Len(reqCh) < ReqCap THEN <<cur>> \o reqCh ELSE reqCh
  /\ ReturnToAccept
  /\ UNCHANGED <<callVars, banner, listener, ctxDone, extVars>>

\* A read or a write fails: end of file or reset once the peer is gone; an
\* expired deadline or a malformed frame at any time.
IOError ==
  /\ srv \in Reading \cup Writing
  /\ \/ conn = "peergone" /\ (srv \in Reading => up = <<>>) /\ UNCHANGED faults
     \/ Fault
  /\ ReturnToAccept
  /\ UNCHANGED <<callVars, reqCh, banner, listener, ctxDone, extVars>>

\* req.responseChan <- resp: a rendezvous with the select in Exec.  When that
\* call has timed out nobody will ever receive, and the goroutine stays here.
Deliver ==
  /\ srv = "deliver"
  /\ call[cur] = "wait"
  /\ call' = [call EXCEPT ![cur] = "ok"]
  /\ got' = [got EXCEPT ![cur] = resp]
  /\ srv' = "idle"
  /\ cur' = None
  /\ resp' = None
  /\ UNCHANGED <<reqCh, banner, listener, ctxDone, netVars, extVars, faults>>

\* The service context is cancelled (Harness.stopServices), and the goroutine
\* that waits for it closes the listener, which resets what is not accepted.
Cancel ==
  /\ ~ctxDone
  /\ ctxDone' = TRUE
  /\ UNCHANGED <<callVars, reqCh, srvVars, listener, netVars, extVars, faults>>

CloseListener ==
  /\ ctxDone
  /\ listener = "open"
  /\ listener' = "closed"
  /\ conn' = IF srv = "accept" /\ conn \in {"backlog", "peergone"} THEN "none" ELSE conn
  /\ up' = IF srv = "accept" THEN <<>> ELSE up
  /\ UNCHANGED <<callVars, reqCh, srvVars, ctxDone, down, extVars, faults>>

-----------------------------------------------------------------------------
(* varnishd (external)                                                     *)

\* varnishd -M connects, and connects again once its connection is lost; it
\* opens with a challenge (or, a fault, with something else).
VConnect ==
  /\ varnishd = "running"
  /\ listener = "open"
  /\ conn = "none"
  /\ conn' = "backlog"
  /\ down' = <<>>
  /\ authed' = FALSE
  /\ \/ up' = <<[of |-> Hello, status |-> ClisAuth]>> /\ UNCHANGED faults
     \/ up' = <<[of |-> Hello, status |-> ClisOk]>> /\ Fault
  /\ UNCHANGED <<callVars, reqCh, srvVars, listener, ctxDone, varnishd, ran>>

\* An answer reaches the server only while the server's end is up.
Answer(frame) == up' = IF conn = "open" THEN Append(up, frame) ELSE up

VReplyAuth ==
  /\ varnishd = "running"
  /\ down # <<>> /\ Head(down) = Auth
  /\ \/ /\ Answer([of |-> Auth, status |-> ClisOk])
        /\ authed' = TRUE
        /\ UNCHANGED faults
     \/ /\ Answer([of |-> Auth, status |-> ClisAuth])   \* wrong secret
        /\ Fault
        /\ UNCHANGED authed
  /\ down' = Tail(down)
  /\ UNCHANGED <<callVars, reqCh, srvVars, listener, ctxDone, conn, varnishd, ran>>

VExecute ==
  /\ varnishd = "running"
  /\ down # <<>> /\ Head(down) \in Call
  /\ LET c == Head(down)
     IN \E st \in Status : /\ ran' = [ran EXCEPT ![c] = Append(@, st)]
                           /\ Answer([of |-> c, status |-> st])
  /\ down' = Tail(down)
  /\ UNCHANGED <<callVars, reqCh, srvVars, listener, ctxDone, conn, varnishd, authed, faults>>

VNoticeClose ==
  /\ conn = "srvclosed"
  /\ conn' = "none" /\ down' = <<>> /\ up' = <<>>
  /\ UNCHANGED <<callVars, reqCh, srvVars, listener, ctxDone, extVars, faults>>

VCrash ==
  /\ varnishd = "running"
  /\ Fault
  /\ varnishd' = "dead"
  /\ conn' = IF conn \in {"backlog", "open"} THEN "peergone" ELSE "none"
  /\ down' = <<>>
  /\ UNCHANGED <<callVars, reqCh, srvVars, listener, ctxDone, up, authed, ran>>

-----------------------------------------------------------------------------
Exec(c) == ExecEnter(c) \/ ExecSend(c) \/ ExecTimeout(c)

RunStep ==
  \/ Accept \/ AcceptError \/ ReadChallenge \/ SendAuth \/ ReadAuth
  \/ TakeRequest \/ CancelIdle \/ SendCommand \/ ReadReply \/ IOError \/ Deliver

VarnishdStep == VConnect \/ VReplyAuth \/ VExecute \/ VNoticeClose \/ VCrash

Next == (\E c \in Call : Exec(c)) \/ RunStep \/ Cancel \/ CloseListener \/ VarnishdStep

Spec == Init /\ [][Next]_vars

-----------------------------------------------------------------------------
(* Fairness: goroutines are scheduled, timers fire, and a varnishd that is *)
(* alive connects and answers.  Calls need not be made, faults need not    *)
(* happen, and nothing forces a cancellation.                              *)

FairSpec ==
  /\ Spec
  /\ \A c \in Call : WF_vars(ExecSend(c)) /\ WF_vars(ExecTimeout(c))
  /\ WF_vars(RunStep /\ UNCHANGED faults)
  /\ WF_vars(CloseListener)
  /\ WF_vars(VarnishdStep /\ UNCHANGED faults)

-----------------------------------------------------------------------------
(* Properties                                                              *)

\* Types, and the request channel within its capacity.
TypeOK ==
  /\ call \in [Call -> {"idle", "send", "wait", "ok", "timedout"}]
  /\ got \in [Call -> Frame \cup {None}]
  /\ reqCh \in Seq(Call) /\ Len(reqCh) <= ReqCap
  /\ srv \in SrvState
  /\ cur \in Call \cup {None}
  /\ resp \in Frame \cup {None}
  /\ banner \in BOOLEAN
  /\ listener \in {"open", "closed"}
  /\ ctxDone \in BOOLEAN
  /\ conn \in ConnState
  /\ down \in Seq(Call \cup {Auth})
  /\ up \in Seq(Frame)
  /\ varnishd \in {"running", "dead"}
  /\ authed \in BOOLEAN
  /\ ran \in [Call -> Seq(Status)]
  /\ faults \in 0..MaxFaults

\* The response Exec returns is varnishd's answer to that very command, never
\* one left over from an earlier command whose read failed (handleConnection
\* gives the connection up on every error of run).
OwnResponse ==
  \A c \in Call : call[c] = "ok" =>
    /\ got[c].of = c
    /\ ran[c] = <<got[c].status>>

\* varnishd never executes a command twice, whatever is lost, dropped or
\* reconnected: a request that failed is not sent again.
AtMostOnce == \A c \in Call : Len(ran[c]) <= 1

\* No command is on the wire to a varnishd that has not accepted the auth
\* command on this very connection, and the banner is then this connection's.
CommandsOnlyAfterAuth ==
  \A i \in 1..Len(down) : down[i] \in Call =>
    authed /\ (srv \in Handling => banner)

\* The goroutine offers an answer to a call that has already timed out.
Wedged == srv = "deliver" /\ call[cur] = "timedout"

Returned == {"ok", "timedout"}

\* A call whose request reqCh accepted returns: an answer, or the 30 s timer.
AcceptedCallReturns ==
  \A c \in Call : call[c] = "wait" ~> call[c] \in Returned

\* After cancellation Run returns, unless it is stuck on the unguarded send of
\* an answer nobody waits for: that is the only way it can fail to stop.
RunStopsUnlessWedged == ctxDone ~> (srv \in {"stopped", "failed"} \/ Wedged)

\* Every Exec returns while the service is up: "overall command timeout".
ExecReturns ==
  \A c \in Call : call[c] = "send" ~> (call[c] \in Returned \/ ctxDone)

-----------------------------------------------------------------------------
(* The inductive invariant: at most one frame is in flight, and where it   *)
(* is follows from where the goroutine is.                                 *)

\* The state of the connection decides which wires can carry anything.
ConnInv ==
  /\ srv \in Handling => conn \in {"open", "peergone"}
  /\ srv \in {"stopped", "failed"} =>
       listener = "closed" /\ conn \in {"none", "srvclosed"}
  /\ conn \in {"none", "backlog", "peergone"} => down = <<>>
  /\ conn \in {"none", "srvclosed"} => up = <<>>
  /\ conn = "backlog" => srv = "accept"
  /\ conn = "open" => srv \in Handling
  /\ conn = "peergone" => varnishd = "dead"

\* A frame on its way to varnishd is the auth command or an unexecuted one,
\* and the latter only on an authenticated connection.
DownInv ==
  \/ down = <<>>
  \/ down = <<Auth>>
  \/ \E c \in Call : down = <<c>> /\ ran[c] = <<>> /\ authed

\* What is in flight at each program point of the goroutine.
ExchangeInv ==
  /\ srv \in {"accept", "challenge"} =>
       /\ up = <<>> \/ \E f \in Frame : up = <<f>>
       /\ conn # "srvclosed" => down = <<>>
  /\ srv \in {"authsend", "idle", "send", "deliver"} => down = <<>> /\ up = <<>>
  /\ srv = "authwait" =>
       \/ down \in {<<>>, <<Auth>>} /\ up = <<>>
       \/ /\ down = <<>>
          /\ \E f \in Frame : up = <<f>> /\ (f.status = ClisOk => authed)
  /\ srv = "wait" =>
       \/ down \in {<<>>, <<cur>>} /\ up = <<>>
       \/ /\ down = <<>>
          /\ \E st \in Status : /\ up = <<[of |-> cur, status |-> st]>>
                                /\ ran[cur] = <<st>>

\* The request in hand and the response in hand.
CurrentInv ==
  /\ cur # None <=> srv \in {"send", "wait", "deliver"}
  /\ srv = "deliver" => \E st \in Status : /\ resp = [of |-> cur, status |-> st]
                                           /\ ran[cur] = <<st>>
  /\ srv \in {"idle", "send", "wait", "deliver"} => authed /\ banner

InReqCh(c) == \E i \in 1..Len(reqCh) : reqCh[i] = c

\* The request of c has not been written to any connection.
Unsent(c) ==
  call[c] \in {"idle", "send"} \/ InReqCh(c) \/ (cur = c /\ srv = "send")

UnsentInv ==
  /\ \A c \in Call : Unsent(c) => ran[c] = <<>> /\ down # <<c>>
  /\ \A c \in Call : InReqCh(c) \/ cur = c => call[c] \in {"wait", "timedout"}
  /\ \A c \in Call : ~(InReqCh(c) /\ cur = c)
  /\ \A i, j \in 1..Len(reqCh) : reqCh[i] = reqCh[j] => i = j

\* A frame to varnishd belongs to a request in flight or given up.
GivenUpInv ==
  \A c \in Call : down = <<c>> => call[c] \in {"wait", "timedout"}

IInv ==
  /\ TypeOK
  /\ ConnInv
  /\ DownInv
  /\ ExchangeInv
  /\ CurrentInv
  /\ UnsentInv
  /\ GivenUpInv
  /\ AtMostOnce
  /\ OwnResponse

-----------------------------------------------------------------------------
(* Refinement: Exec as its callers see it.                                 *)

CS == INSTANCE CommandService WITH
        phase <- [c \in Call |-> IF call[c] \in {"send", "wait"} THEN "pending"
                                 ELSE call[c]]

\* The server implements CommandService: each command at most once, its own
\* status back, a timeout as the only other outcome.
ImplementsCommandService == CS!Spec
=============================================================================
