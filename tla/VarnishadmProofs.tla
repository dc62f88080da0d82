------------------------- MODULE VarnishadmProofs -------------------------
(***************************************************************************)
(* IInv is an inductive invariant of Varnishadm (one lemma per action),    *)
(* the safety properties follow from it, and with it every step of the     *)
(* server is a step of CommandService or a stutter.                        *)
(***************************************************************************)
EXTENDS Varnishadm, TLAPS

\* The server starts without a connection, a request or a frame anywhere.
LEMMA InitIInv == Init => IInv
<1> SUFFICES ASSUME Init PROVE IInv
  OBVIOUS
<1> USE VarnishadmAssumption DEF Init
<1>1. TypeOK
  <2>1. reqCh \in Seq(Call) /\ Len(reqCh) <= ReqCap
    OBVIOUS
  <2>2. ran \in [Call -> Seq(Status)]
    OBVIOUS
  <2>3. down \in Seq(Call \cup {Auth}) /\ up \in Seq(Frame)
    OBVIOUS
  <2>4. /\ call \in [Call -> {"idle", "send", "wait", "ok", "timedout"}]
        /\ got \in [Call -> Frame \cup {None}]
    OBVIOUS
  <2>5. srv \in SrvState /\ conn \in ConnState
    BY DEF SrvState, ConnState
  <2>6. banner \in BOOLEAN /\ ctxDone \in BOOLEAN /\ authed \in BOOLEAN
    OBVIOUS
  <2>7. faults \in 0..MaxFaults
    OBVIOUS
  <2> QED
    BY <2>1, <2>2, <2>3, <2>4, <2>5, <2>6, <2>7 DEF TypeOK
<1>2. ConnInv /\ DownInv /\ ExchangeInv
  BY DEF ConnInv, DownInv, ExchangeInv, Handling, Reading, Writing
<1>3. CurrentInv /\ GivenUpInv
  BY DEF CurrentInv, GivenUpInv
<1>4. UnsentInv
  BY DEF UnsentInv, Unsent, InReqCh
<1>5. AtMostOnce /\ OwnResponse
  BY DEF AtMostOnce, OwnResponse
<1> QED
  BY <1>1, <1>2, <1>3, <1>4, <1>5 DEF IInv

\* handleConnection hands over the answer it holds, which CurrentInv says is the
\* status varnishd gave that very request.
LEMMA DeliverInv == IInv /\ Deliver => IInv'
<1> SUFFICES ASSUME IInv, Deliver PROVE IInv'
  OBVIOUS
<1> USE VarnishadmAssumption DEF IInv, Deliver, netVars, extVars
<1>1. TypeOK'
  BY DEF TypeOK, CurrentInv, SrvState, Handling, Reading, Writing
<1>2. ConnInv'
  BY DEF ConnInv, Handling, Reading, Writing
<1>3. DownInv'
  BY DEF DownInv
<1>4. ExchangeInv'
  BY DEF ExchangeInv
<1>5. CurrentInv'
  BY DEF CurrentInv
<1>6. UnsentInv'
  BY DEF UnsentInv, Unsent, InReqCh, TypeOK
<1>7. GivenUpInv'
  BY DEF GivenUpInv, ExchangeInv
<1>8. AtMostOnce'
  BY DEF AtMostOnce
<1>9. OwnResponse'
  BY DEF OwnResponse, CurrentInv, TypeOK
<1> QED
  BY <1>1, <1>2, <1>3, <1>4, <1>5, <1>6, <1>7, <1>8, <1>9

\* The one frame on the wire is an unexecuted command (DownInv), so its answer is
\* the only one, and it can reach only the request in hand.
LEMMA VExecuteInv == IInv /\ VExecute => IInv'
<1> SUFFICES ASSUME IInv, VExecute PROVE IInv'
  OBVIOUS
<1> USE VarnishadmAssumption DEF IInv
<1>0. PICK c \in Call, st \in Status :
        /\ down = <<c>> /\ ran[c] = <<>> /\ authed
        /\ ran' = [ran EXCEPT ![c] = <<st>>]
        /\ down' = <<>>
        /\ up' = IF conn = "open" THEN Append(up, [of |-> c, status |-> st]) ELSE up
        /\ UNCHANGED <<call, got, reqCh, srv, cur, resp, banner, listener, ctxDone, conn, varnishd, authed, faults>>
  <2>1. PICK c \in Call : down = <<c>> /\ ran[c] = <<>> /\ authed
    BY DEF VExecute, DownInv
  <2>2. Head(down) = c /\ Tail(down) = <<>>
    BY <2>1
  <2>3. PICK st \in Status : /\ ran' = [ran EXCEPT ![c] = Append(@, st)]
                             /\ Answer([of |-> c, status |-> st])
    BY <2>2 DEF VExecute
  <2>4. ran' = [ran EXCEPT ![c] = <<st>>]
    BY <2>1, <2>3
  <2> QED
    BY <2>1, <2>2, <2>3, <2>4 DEF VExecute, Answer, callVars, srvVars
<1>1. TypeOK'
  <2>1. [of |-> c, status |-> st] \in Frame
    BY DEF Frame
  <2>2. up' \in Seq(Frame)
    BY <1>0, <2>1 DEF TypeOK
  <2>3. ran' \in [Call -> Seq(Status)]
    BY <1>0 DEF TypeOK
  <2> QED
    BY <1>0, <2>2, <2>3 DEF TypeOK
<1>2. ConnInv'
  BY <1>0 DEF ConnInv
<1>3. DownInv'
  BY <1>0 DEF DownInv
<1>4. ExchangeInv'
  <2>1. CASE conn = "open"
    <3>1. srv = "wait" /\ cur = c /\ up = <<>>
      BY <1>0, <2>1 DEF ConnInv, ExchangeInv, Handling, Reading, Writing
    <3>2. up' = <<[of |-> c, status |-> st]>> /\ ran'[c] = <<st>>
      BY <1>0, <2>1, <3>1 DEF TypeOK
    <3> QED
      BY <1>0, <3>1, <3>2 DEF ExchangeInv
  <2>2. CASE conn # "open"
    BY <1>0, <2>2 DEF ExchangeInv, ConnInv, Handling, Reading, Writing
  <2> QED
    BY <2>1, <2>2
<1>5. CurrentInv'
  BY <1>0 DEF CurrentInv, TypeOK
<1>6. UnsentInv'
  BY <1>0 DEF UnsentInv, Unsent, InReqCh, TypeOK
<1>7. GivenUpInv'
  BY <1>0 DEF GivenUpInv
<1>8. AtMostOnce'
  BY <1>0 DEF AtMostOnce, TypeOK
<1>9. OwnResponse'
  BY <1>0 DEF OwnResponse, TypeOK, GivenUpInv
<1> QED
  BY <1>1, <1>2, <1>3, <1>4, <1>5, <1>6, <1>7, <1>8, <1>9

\* Entering Exec touches no channel and no wire.
LEMMA ExecEnterInv == ASSUME NEW c \in Call, IInv, ExecEnter(c) PROVE IInv'
<1> USE VarnishadmAssumption DEF IInv, ExecEnter, srvVars, netVars, extVars
<1>1. TypeOK'
  BY DEF TypeOK, CurrentInv, SrvState, Handling, Reading, Writing, ConnState
<1>2. ConnInv'
  BY DEF ConnInv, Handling, Reading, Writing
<1>3. DownInv'
  BY DEF DownInv, ExchangeInv, CurrentInv, UnsentInv, Unsent
<1>4. ExchangeInv'
  BY DEF ExchangeInv, ConnInv, Handling, Reading, Writing
<1>5. CurrentInv'
  BY DEF CurrentInv, ExchangeInv
<1>6. UnsentInv'
  BY DEF UnsentInv, Unsent, InReqCh, TypeOK
<1>7. GivenUpInv'
  BY DEF GivenUpInv, UnsentInv, ExchangeInv
<1>8. AtMostOnce'
  BY DEF AtMostOnce
<1>9. OwnResponse'
  BY DEF OwnResponse, TypeOK
<1> QED
  BY <1>1, <1>2, <1>3, <1>4, <1>5, <1>6, <1>7, <1>8, <1>9

\* A request enters reqCh once: no other slot holds it and it is not in hand.
LEMMA ExecSendInv == ASSUME NEW c \in Call, IInv, ExecSend(c) PROVE IInv'
<1> USE VarnishadmAssumption DEF IInv, ExecSend, srvVars, netVars, extVars
<1>1. TypeOK'
  BY DEF TypeOK, CurrentInv, SrvState, Handling, Reading, Writing, ConnState
<1>2. ConnInv'
  BY DEF ConnInv, Handling, Reading, Writing
<1>3. DownInv'
  BY DEF DownInv, ExchangeInv, CurrentInv, UnsentInv, Unsent
<1>4. ExchangeInv'
  BY DEF ExchangeInv, ConnInv, Handling, Reading, Writing
<1>5. CurrentInv'
  BY DEF CurrentInv, ExchangeInv
<1>6. UnsentInv'
  <2>1. ~InReqCh(c) /\ cur # c /\ ran[c] = <<>> /\ down # <<c>>
    BY DEF UnsentInv, Unsent
  <2>2. /\ Len(reqCh') = Len(reqCh) + 1
        /\ reqCh'[Len(reqCh) + 1] = c
        /\ \A i \in 1..Len(reqCh) : reqCh'[i] = reqCh[i]
    BY DEF TypeOK
  <2>3. Len(reqCh) \in Nat
    BY DEF TypeOK
  <2>4. \A d \in Call : InReqCh(d)' => InReqCh(d) \/ d = c
    BY <2>2, <2>3 DEF InReqCh
  <2>5. \A d \in Call : Unsent(d)' => Unsent(d)
    BY <2>4 DEF Unsent, TypeOK
  <2>6. \A d \in Call : InReqCh(d)' \/ cur' = d => call'[d] \in {"wait", "timedout"}
    BY <2>4 DEF UnsentInv, TypeOK
  <2>7. \A d \in Call : ~(InReqCh(d)' /\ cur' = d)
    BY <2>1, <2>4 DEF UnsentInv
  <2>8. \A i, j \in 1..Len(reqCh') : reqCh'[i] = reqCh'[j] => i = j
    BY <2>1, <2>2, <2>3 DEF UnsentInv, InReqCh
  <2> QED
    BY <2>5, <2>6, <2>7, <2>8 DEF UnsentInv
<1>7. GivenUpInv'
  BY DEF GivenUpInv, UnsentInv, ExchangeInv
<1>8. AtMostOnce'
  BY DEF AtMostOnce
<1>9. OwnResponse'
  BY DEF OwnResponse, TypeOK
<1> QED
  BY <1>1, <1>2, <1>3, <1>4, <1>5, <1>6, <1>7, <1>8, <1>9

\* A call that gives up leaves its request where it is.
LEMMA ExecTimeoutInv == ASSUME NEW c \in Call, IInv, ExecTimeout(c) PROVE IInv'
<1> USE VarnishadmAssumption DEF IInv, ExecTimeout, srvVars, netVars, extVars
<1>1. TypeOK'
  BY DEF TypeOK, CurrentInv, SrvState, Handling, Reading, Writing, ConnState
<1>2. ConnInv'
  BY DEF ConnInv, Handling, Reading, Writing
<1>3. DownInv'
  BY DEF DownInv, ExchangeInv, CurrentInv, UnsentInv, Unsent
<1>4. ExchangeInv'
  BY DEF ExchangeInv, ConnInv, Handling, Reading, Writing
<1>5. CurrentInv'
  BY DEF CurrentInv, ExchangeInv
<1>6. UnsentInv'
  BY DEF UnsentInv, Unsent, InReqCh, TypeOK
<1>7. GivenUpInv'
  BY DEF GivenUpInv, UnsentInv, ExchangeInv
<1>8. AtMostOnce'
  BY DEF AtMostOnce
<1>9. OwnResponse'
  BY DEF OwnResponse, TypeOK
<1> QED
  BY <1>1, <1>2, <1>3, <1>4, <1>5, <1>6, <1>7, <1>8, <1>9

\* An accepted connection carries at most the challenge.
LEMMA AcceptInv == ASSUME IInv, Accept PROVE IInv'
<1> USE VarnishadmAssumption DEF IInv, Accept, callVars, extVars
<1>1. TypeOK'
  BY DEF TypeOK, CurrentInv, SrvState, Handling, Reading, Writing, ConnState
<1>2. ConnInv'
  BY DEF ConnInv, Handling, Reading, Writing
<1>3. DownInv'
  BY DEF DownInv, ExchangeInv, CurrentInv, UnsentInv, Unsent
<1>4. ExchangeInv'
  BY DEF ExchangeInv, ConnInv, Handling, Reading, Writing
<1>5. CurrentInv'
  BY DEF CurrentInv, ExchangeInv
<1>6. UnsentInv'
  BY DEF UnsentInv, Unsent, InReqCh, TypeOK
<1>7. GivenUpInv'
  BY DEF GivenUpInv, UnsentInv, ExchangeInv
<1>8. AtMostOnce'
  BY DEF AtMostOnce
<1>9. OwnResponse'
  BY DEF OwnResponse, TypeOK
<1> QED
  BY <1>1, <1>2, <1>3, <1>4, <1>5, <1>6, <1>7, <1>8, <1>9

\* When Accept fails the listener and the backlog go.
LEMMA AcceptErrorInv == ASSUME IInv, AcceptError PROVE IInv'
<1> USE VarnishadmAssumption DEF IInv, AcceptError, Fault, callVars, extVars
<1>1. TypeOK'
  BY DEF TypeOK, CurrentInv, SrvState, Handling, Reading, Writing, ConnState
<1>2. ConnInv'
  BY DEF ConnInv, TypeOK, ConnState, Handling, Reading, Writing
<1>3. DownInv'
  BY DEF DownInv, ExchangeInv, CurrentInv, UnsentInv, Unsent
<1>4. ExchangeInv'
  BY DEF ExchangeInv, ConnInv, Handling, Reading, Writing
<1>5. CurrentInv'
  BY DEF CurrentInv, ExchangeInv
<1>6. UnsentInv'
  BY DEF UnsentInv, Unsent, InReqCh, TypeOK
<1>7. GivenUpInv'
  BY DEF GivenUpInv, UnsentInv, ExchangeInv
<1>8. AtMostOnce'
  BY DEF AtMostOnce
<1>9. OwnResponse'
  BY DEF OwnResponse, TypeOK
<1> QED
  BY <1>1, <1>2, <1>3, <1>4, <1>5, <1>6, <1>7, <1>8, <1>9

\* readBanner writes auth to wires that are empty.
LEMMA SendAuthInv == ASSUME IInv, SendAuth PROVE IInv'
<1> USE VarnishadmAssumption DEF IInv, SendAuth, Write, callVars, extVars
<1>1. TypeOK'
  BY DEF TypeOK, CurrentInv, SrvState, Handling, Reading, Writing, ConnState
<1>2. ConnInv'
  BY DEF ConnInv, Handling, Reading, Writing
<1>3. DownInv'
  BY DEF DownInv, ExchangeInv, CurrentInv, UnsentInv, Unsent
<1>4. ExchangeInv'
  BY DEF ExchangeInv, ConnInv, Handling, Reading, Writing
<1>5. CurrentInv'
  BY DEF CurrentInv, ExchangeInv
<1>6. UnsentInv'
  <2>1. down' \in {<<>>, <<Auth>>}
    BY DEF ExchangeInv
  <2>2. \A d \in Call : down' # <<d>>
    BY <2>1
  <2> QED
    BY <2>2 DEF UnsentInv, Unsent, InReqCh
<1>7. GivenUpInv'
  BY DEF GivenUpInv, UnsentInv, ExchangeInv
<1>8. AtMostOnce'
  BY DEF AtMostOnce
<1>9. OwnResponse'
  BY DEF OwnResponse, TypeOK
<1> QED
  BY <1>1, <1>2, <1>3, <1>4, <1>5, <1>6, <1>7, <1>8, <1>9

\* handleConnection takes a request that was never written.
LEMMA TakeRequestInv == ASSUME IInv, TakeRequest PROVE IInv'
<1> USE VarnishadmAssumption DEF IInv, TakeRequest, callVars, netVars, extVars
<1>1. TypeOK'
  BY DEF TypeOK, CurrentInv, SrvState, Handling, Reading, Writing, ConnState
<1>2. ConnInv'
  BY DEF ConnInv, Handling, Reading, Writing
<1>3. DownInv'
  BY DEF DownInv, ExchangeInv, CurrentInv, UnsentInv, Unsent
<1>4. ExchangeInv'
  BY DEF ExchangeInv, ConnInv, Handling, Reading, Writing
<1>5. CurrentInv'
  <2>1. Head(reqCh) \in Call
    BY DEF TypeOK
  <2> QED
    BY <2>1 DEF CurrentInv
<1>6. UnsentInv'
  BY DEF UnsentInv, Unsent, InReqCh, TypeOK
<1>7. GivenUpInv'
  BY DEF GivenUpInv, UnsentInv, ExchangeInv
<1>8. AtMostOnce'
  BY DEF AtMostOnce
<1>9. OwnResponse'
  BY DEF OwnResponse, TypeOK
<1> QED
  BY <1>1, <1>2, <1>3, <1>4, <1>5, <1>6, <1>7, <1>8, <1>9

\* The frame that run() reads answers the request in hand (ExchangeInv).
LEMMA ReadReplyInv == ASSUME IInv, ReadReply PROVE IInv'
<1> USE VarnishadmAssumption DEF IInv, ReadReply, callVars, extVars
<1>1. TypeOK'
  BY DEF TypeOK, CurrentInv, SrvState, Handling, Reading, Writing, ConnState
<1>2. ConnInv'
  BY DEF ConnInv, Handling, Reading, Writing
<1>3. DownInv'
  BY DEF DownInv, ExchangeInv, CurrentInv, UnsentInv, Unsent
<1>4. ExchangeInv'
  <2>1. down = <<>> /\ \E f : up = <<f>>
    BY DEF ExchangeInv
  <2>2. up' = <<>>
    BY <2>1
  <2> QED
    BY <2>1, <2>2 DEF ExchangeInv
<1>5. CurrentInv'
  BY DEF CurrentInv, ExchangeInv
<1>6. UnsentInv'
  BY DEF UnsentInv, Unsent, InReqCh, TypeOK
<1>7. GivenUpInv'
  BY DEF GivenUpInv, UnsentInv, ExchangeInv
<1>8. AtMostOnce'
  BY DEF AtMostOnce
<1>9. OwnResponse'
  BY DEF OwnResponse, TypeOK
<1> QED
  BY <1>1, <1>2, <1>3, <1>4, <1>5, <1>6, <1>7, <1>8, <1>9

\* Cancelling the context touches nothing else.
LEMMA CancelInv == ASSUME IInv, Cancel PROVE IInv'
<1> USE VarnishadmAssumption DEF IInv, Cancel, callVars, srvVars, netVars, extVars
<1>1. TypeOK'
  BY DEF TypeOK, CurrentInv, SrvState, Handling, Reading, Writing, ConnState
<1>2. ConnInv'
  BY DEF ConnInv, Handling, Reading, Writing
<1>3. DownInv'
  BY DEF DownInv, ExchangeInv, CurrentInv, UnsentInv, Unsent
<1>4. ExchangeInv'
  BY DEF ExchangeInv, ConnInv, Handling, Reading, Writing
<1>5. CurrentInv'
  BY DEF CurrentInv, ExchangeInv
<1>6. UnsentInv'
  BY DEF UnsentInv, Unsent, InReqCh, TypeOK
<1>7. GivenUpInv'
  BY DEF GivenUpInv, UnsentInv, ExchangeInv
<1>8. AtMostOnce'
  BY DEF AtMostOnce
<1>9. OwnResponse'
  BY DEF OwnResponse, TypeOK
<1> QED
  BY <1>1, <1>2, <1>3, <1>4, <1>5, <1>6, <1>7, <1>8, <1>9

\* Closing the listener resets a connection that was not accepted.
LEMMA CloseListenerInv == ASSUME IInv, CloseListener PROVE IInv'
<1> USE VarnishadmAssumption DEF IInv, CloseListener, callVars, srvVars, extVars
<1>1. TypeOK'
  BY DEF TypeOK, CurrentInv, SrvState, Handling, Reading, Writing, ConnState
<1>2. ConnInv'
  BY DEF ConnInv, Handling, Reading, Writing
<1>3. DownInv'
  BY DEF DownInv, ExchangeInv, CurrentInv, UnsentInv, Unsent
<1>4. ExchangeInv'
  BY DEF ExchangeInv, ConnInv, Handling, Reading, Writing
<1>5. CurrentInv'
  BY DEF CurrentInv, ExchangeInv
<1>6. UnsentInv'
  BY DEF UnsentInv, Unsent, InReqCh, TypeOK
<1>7. GivenUpInv'
  BY DEF GivenUpInv, UnsentInv, ExchangeInv
<1>8. AtMostOnce'
  BY DEF AtMostOnce
<1>9. OwnResponse'
  BY DEF OwnResponse, TypeOK
<1> QED
  BY <1>1, <1>2, <1>3, <1>4, <1>5, <1>6, <1>7, <1>8, <1>9

\* A new connection of varnishd starts unauthenticated, with its opening frame.
LEMMA VConnectInv == ASSUME IInv, VConnect PROVE IInv'
<1> USE VarnishadmAssumption DEF IInv, VConnect, Fault, callVars, srvVars
<1>0. PICK f \in Frame : up' = <<f>> /\ faults' \in 0..MaxFaults
  <2>1. [of |-> Hello, status |-> ClisAuth] \in Frame
    BY DEF Frame
  <2>2. [of |-> Hello, status |-> ClisOk] \in Frame
    BY DEF Frame, Status
  <2> QED
    BY <2>1, <2>2 DEF TypeOK
<1>s. srv = "accept" /\ cur = None
  BY DEF ConnInv, TypeOK, SrvState, CurrentInv
<1>1. TypeOK'
  <2>1. up' \in Seq(Frame) /\ down' \in Seq(Call \cup {Auth})
    BY <1>0
  <2>2. authed' \in BOOLEAN
    OBVIOUS
  <2> QED
    BY <1>0, <2>1, <2>2 DEF TypeOK, ConnState
<1>2. ConnInv'
  BY <1>s DEF ConnInv, Handling, Reading, Writing
<1>3. DownInv'
  BY DEF DownInv, ExchangeInv, CurrentInv, UnsentInv, Unsent
<1>4. ExchangeInv'
  BY <1>0, <1>s DEF ExchangeInv
<1>5. CurrentInv'
  BY <1>s DEF CurrentInv
<1>6. UnsentInv'
  BY DEF UnsentInv, Unsent, InReqCh, TypeOK
<1>7. GivenUpInv'
  BY DEF GivenUpInv, UnsentInv, ExchangeInv
<1>8. AtMostOnce'
  BY DEF AtMostOnce
<1>9. OwnResponse'
  BY DEF OwnResponse, TypeOK
<1> QED
  BY <1>1, <1>2, <1>3, <1>4, <1>5, <1>6, <1>7, <1>8, <1>9

\* varnishd answers auth, and a 200 means the connection is authenticated.
LEMMA VReplyAuthInv == ASSUME IInv, VReplyAuth PROVE IInv'
<1> USE VarnishadmAssumption DEF IInv, VReplyAuth, Answer, Fault, callVars, srvVars
<1>0. PICK f \in Frame :
        /\ down = <<Auth>> /\ down' = <<>>
        /\ up' = IF conn = "open" THEN Append(up, f) ELSE up
        /\ f.status = ClisOk => authed'
        /\ authed => authed'
        /\ authed' \in BOOLEAN
        /\ faults' \in 0..MaxFaults
  <2>1. down = <<Auth>>
    BY DEF DownInv
  <2>2. [of |-> Auth, status |-> ClisOk] \in Frame
    BY DEF Frame, Status
  <2>3. [of |-> Auth, status |-> ClisAuth] \in Frame
    BY DEF Frame
  <2>4. ClisOk # ClisAuth
    BY DEF ClisOk, ClisAuth
  <2>5. down' = <<>>
    BY <2>1
  <2>6. CASE Answer([of |-> Auth, status |-> ClisOk]) /\ authed' = TRUE /\ UNCHANGED faults
    BY <2>1, <2>2, <2>5, <2>6 DEF TypeOK
  <2>7. CASE Answer([of |-> Auth, status |-> ClisAuth]) /\ Fault /\ UNCHANGED authed
    BY <2>1, <2>3, <2>4, <2>5, <2>7 DEF TypeOK
  <2> QED
    BY <2>6, <2>7
<1>1. TypeOK'
  <2>1. up' \in Seq(Frame) /\ down' \in Seq(Call \cup {Auth})
    BY <1>0 DEF TypeOK
  <2> QED
    BY <1>0, <2>1 DEF TypeOK
<1>2. ConnInv'
  BY <1>0 DEF ConnInv
<1>3. DownInv'
  BY <1>0 DEF DownInv
<1>4. ExchangeInv'
  <2>1. CASE conn = "open"
    <3>1. srv = "authwait" /\ up = <<>>
      <4>1. srv # "wait"
        BY <1>0 DEF ExchangeInv, CurrentInv, TypeOK
      <4> QED
        BY <1>0, <2>1, <4>1 DEF ExchangeInv, ConnInv, Handling, Reading, Writing
    <3>2. up' = <<f>>
      BY <1>0, <2>1, <3>1
    <3> QED
      BY <1>0, <3>1, <3>2 DEF ExchangeInv
  <2>2. CASE conn # "open"
    BY <1>0, <2>2 DEF ExchangeInv, ConnInv, Handling, Reading, Writing
  <2> QED
    BY <2>1, <2>2
<1>5. CurrentInv'
  BY <1>0 DEF CurrentInv
<1>6. UnsentInv'
  BY <1>0 DEF UnsentInv, Unsent, InReqCh
<1>7. GivenUpInv'
  BY <1>0 DEF GivenUpInv
<1>8. AtMostOnce'
  BY DEF AtMostOnce
<1>9. OwnResponse'
  BY DEF OwnResponse, TypeOK
<1> QED
  BY <1>1, <1>2, <1>3, <1>4, <1>5, <1>6, <1>7, <1>8, <1>9

\* Once varnishd notices the closed connection nothing is left on the wires.
LEMMA VNoticeCloseInv == ASSUME IInv, VNoticeClose PROVE IInv'
<1> USE VarnishadmAssumption DEF IInv, VNoticeClose, callVars, srvVars, extVars
<1>1. TypeOK'
  BY DEF TypeOK, CurrentInv, SrvState, Handling, Reading, Writing, ConnState
<1>2. ConnInv'
  BY DEF ConnInv, Handling, Reading, Writing
<1>3. DownInv'
  BY DEF DownInv, ExchangeInv, CurrentInv, UnsentInv, Unsent
<1>4. ExchangeInv'
  BY DEF ExchangeInv, ConnInv, Handling, Reading, Writing
<1>5. CurrentInv'
  BY DEF CurrentInv, ExchangeInv
<1>6. UnsentInv'
  BY DEF UnsentInv, Unsent, InReqCh, TypeOK
<1>7. GivenUpInv'
  BY DEF GivenUpInv, UnsentInv, ExchangeInv
<1>8. AtMostOnce'
  BY DEF AtMostOnce
<1>9. OwnResponse'
  BY DEF OwnResponse, TypeOK
<1> QED
  BY <1>1, <1>2, <1>3, <1>4, <1>5, <1>6, <1>7, <1>8, <1>9

\* A crash loses what was on its way to varnishd; its answers can still be read.
LEMMA VCrashInv == ASSUME IInv, VCrash PROVE IInv'
<1> USE VarnishadmAssumption DEF IInv, VCrash, Fault, callVars, srvVars
<1>1. TypeOK'
  BY DEF TypeOK, CurrentInv, SrvState, Handling, Reading, Writing, ConnState
<1>2. ConnInv'
  BY DEF ConnInv, TypeOK, ConnState, Handling, Reading, Writing
<1>3. DownInv'
  BY DEF DownInv, ExchangeInv, CurrentInv, UnsentInv, Unsent
<1>4. ExchangeInv'
  BY DEF ExchangeInv, ConnInv, Handling, Reading, Writing
<1>5. CurrentInv'
  BY DEF CurrentInv, ExchangeInv
<1>6. UnsentInv'
  BY DEF UnsentInv, Unsent, InReqCh, TypeOK
<1>7. GivenUpInv'
  BY DEF GivenUpInv, UnsentInv, ExchangeInv
<1>8. AtMostOnce'
  BY DEF AtMostOnce
<1>9. OwnResponse'
  BY DEF OwnResponse, TypeOK
<1> QED
  BY <1>1, <1>2, <1>3, <1>4, <1>5, <1>6, <1>7, <1>8, <1>9

\* Every way handleConnection returns closes the connection: a command that
\* was written stays on its way, nothing else of the exchange survives.
LEMMA ReturnToAcceptInv ==
  ASSUME IInv, srv \in Handling, ReturnToAccept, faults' \in 0..MaxFaults,
         UNCHANGED <<call, got, reqCh, banner, listener, ctxDone, varnishd, authed, ran>>
  PROVE  IInv'
<1> USE VarnishadmAssumption DEF IInv, ReturnToAccept, CloseConn
<1>1. TypeOK'
  BY DEF TypeOK, ConnState, SrvState
<1>2. ConnInv'
  BY DEF ConnInv, Handling, Reading, Writing
<1>3. DownInv'
  BY DEF DownInv
<1>4. ExchangeInv'
  BY DEF ExchangeInv
<1>5. CurrentInv'
  BY DEF CurrentInv
<1>6. UnsentInv'
  BY DEF UnsentInv, Unsent, InReqCh, TypeOK
<1>7. GivenUpInv'
  BY DEF GivenUpInv
<1>8. AtMostOnce'
  BY DEF AtMostOnce
<1>9. OwnResponse'
  BY DEF OwnResponse
<1> QED
  BY <1>1, <1>2, <1>3, <1>4, <1>5, <1>6, <1>7, <1>8, <1>9

\* A failed read or write of readBanner or run() ends the connection.
LEMMA IOErrorInv == ASSUME IInv, IOError PROVE IInv'
<1>1. srv \in Handling
  BY DEF IOError, Handling
<1>2. faults' \in 0..MaxFaults
  BY VarnishadmAssumption DEF IOError, Fault, IInv, TypeOK
<1> QED
  BY <1>1, <1>2, ReturnToAcceptInv DEF IOError, callVars, extVars

\* Cancellation in the select of handleConnection ends the connection.
LEMMA CancelIdleInv == ASSUME IInv, CancelIdle PROVE IInv'
<1>1. srv \in Handling
  BY DEF CancelIdle, Handling
<1>2. faults' \in 0..MaxFaults
  BY DEF CancelIdle, IInv, TypeOK
<1> QED
  BY <1>1, <1>2, ReturnToAcceptInv DEF CancelIdle, callVars, extVars

\* readBanner goes on after a 107 and gives the connection up otherwise.
LEMMA ReadChallengeInv == ASSUME IInv, ReadChallenge PROVE IInv'
<1> USE DEF ReadChallenge, callVars, extVars
<1>1. CASE ReturnToAccept
  <2>1. srv \in Handling
    BY DEF Handling, Reading
  <2>2. faults' \in 0..MaxFaults
    BY DEF IInv, TypeOK
  <2> QED
    BY <1>1, <2>1, <2>2, ReturnToAcceptInv
<1>2. CASE srv' = "authsend" /\ up' = Tail(up) /\ UNCHANGED <<cur, resp, conn, down>>
  <2> USE <1>2 DEF IInv
  <2>0. up' = <<>> /\ down' = <<>>
    <3>1. PICK f \in Frame : up = <<f>>
      BY DEF ExchangeInv
    <3>2. down = <<>>
      BY DEF ExchangeInv, ConnInv, Handling, Reading
    <3> QED
      BY <3>1, <3>2
  <2>1. TypeOK'
    BY <2>0 DEF TypeOK, SrvState, Handling, Writing
  <2>2. ConnInv'
    BY <2>0 DEF ConnInv, Handling, Reading, Writing
  <2>3. DownInv' /\ ExchangeInv'
    BY <2>0 DEF DownInv, ExchangeInv
  <2>4. CurrentInv' /\ GivenUpInv'
    BY <2>0 DEF CurrentInv, GivenUpInv
  <2>5. UnsentInv'
    BY <2>0 DEF UnsentInv, Unsent, InReqCh
  <2>6. AtMostOnce' /\ OwnResponse'
    BY DEF AtMostOnce, OwnResponse
  <2> QED
    BY <2>1, <2>2, <2>3, <2>4, <2>5, <2>6
<1> QED
  BY <1>1, <1>2

\* readBanner succeeds on a 200 only: the connection is then authenticated.
LEMMA ReadAuthInv == ASSUME IInv, ReadAuth PROVE IInv'
<1> USE DEF ReadAuth, callVars, extVars
<1>1. CASE ReturnToAccept /\ UNCHANGED banner
  <2>1. srv \in Handling
    BY DEF Handling, Reading
  <2>2. faults' \in 0..MaxFaults
    BY DEF IInv, TypeOK
  <2> QED
    BY <1>1, <2>1, <2>2, ReturnToAcceptInv
<1>2. CASE /\ Head(up).status = ClisOk /\ srv' = "idle" /\ banner' = TRUE
           /\ up' = Tail(up) /\ UNCHANGED <<cur, resp, conn, down>>
  <2> USE <1>2 DEF IInv
  <2>0. up' = <<>> /\ down' = <<>> /\ authed
    <3>1. PICK f \in Frame : up = <<f>> /\ down = <<>> /\ (f.status = ClisOk => authed)
      BY DEF ExchangeInv
    <3>2. Head(up) = f /\ Tail(up) = <<>>
      BY <3>1
    <3> QED
      BY <3>1, <3>2
  <2>1. TypeOK'
    BY <2>0 DEF TypeOK, SrvState, Handling
  <2>2. ConnInv'
    BY <2>0 DEF ConnInv, Handling, Reading, Writing
  <2>3. DownInv' /\ ExchangeInv'
    BY <2>0 DEF DownInv, ExchangeInv
  <2>4. CurrentInv' /\ GivenUpInv'
    BY <2>0 DEF CurrentInv, GivenUpInv
  <2>5. UnsentInv'
    BY <2>0 DEF UnsentInv, Unsent, InReqCh
  <2>6. AtMostOnce' /\ OwnResponse'
    BY DEF AtMostOnce, OwnResponse
  <2> QED
    BY <2>1, <2>2, <2>3, <2>4, <2>5, <2>6
<1> QED
  BY <1>1, <1>2

\* run() writes the request in hand to empty wires, or refuses an empty command.
LEMMA SendCommandInv == ASSUME IInv, SendCommand PROVE IInv'
<1> USE VarnishadmAssumption DEF SendCommand, callVars, extVars
<1>1. CASE ReturnToAccept
  <2>1. srv \in Handling
    BY DEF Handling, Writing
  <2>2. faults' \in 0..MaxFaults
    BY DEF IInv, TypeOK
  <2> QED
    BY <1>1, <2>1, <2>2, ReturnToAcceptInv
<1>2. CASE Write(cur) /\ srv' = "wait" /\ UNCHANGED <<cur, resp, conn, up>>
  <2> USE <1>2 DEF IInv
  <2>0. /\ down' \in {<<>>, <<cur>>} /\ up' = <<>>
        /\ conn # "open" => down' = <<>>
        /\ cur \in Call /\ ran[cur] = <<>> /\ authed
    BY DEF Write, ExchangeInv, CurrentInv, UnsentInv, Unsent, TypeOK
  <2>1. TypeOK'
    <3>1. <<cur>> \in Seq(Call \cup {Auth})
      BY <2>0
    <3>2. <<>> \in Seq(Call \cup {Auth})
      OBVIOUS
    <3>3. down' \in Seq(Call \cup {Auth})
      <4> HIDE <1>2
      <4> QED
        BY <2>0, <3>1, <3>2
    <3> QED
      BY <3>3 DEF TypeOK, SrvState, Handling, Reading
  <2>2. ConnInv'
    BY <2>0 DEF ConnInv, Handling, Reading, Writing
  <2>3. DownInv' /\ ExchangeInv'
    BY <2>0 DEF DownInv, ExchangeInv
  <2>4. CurrentInv'
    BY <2>0 DEF CurrentInv
  <2>5. \A c \in Call : down' = <<c>> => c = cur
    BY <2>0
  <2>6. UnsentInv'
    BY <2>0, <2>5 DEF UnsentInv, Unsent, InReqCh
  <2>7. GivenUpInv'
    BY <2>5 DEF GivenUpInv, UnsentInv
  <2>8. AtMostOnce' /\ OwnResponse'
    BY DEF AtMostOnce, OwnResponse
  <2> QED
    BY <2>1, <2>2, <2>3, <2>4, <2>6, <2>7, <2>8
<1> QED
  BY <1>1, <1>2

\* The invariant is a state predicate over vars.
LEMMA StutterInv == ASSUME IInv, UNCHANGED vars PROVE IInv'
<1> USE DEF vars, IInv
<1>1. TypeOK' /\ ConnInv' /\ DownInv'
  BY DEF TypeOK, ConnInv, DownInv
<1>2. ExchangeInv' /\ CurrentInv' /\ GivenUpInv'
  BY DEF ExchangeInv, CurrentInv, GivenUpInv
<1>3. UnsentInv'
  BY DEF UnsentInv, Unsent, InReqCh
<1>4. AtMostOnce' /\ OwnResponse'
  BY DEF AtMostOnce, OwnResponse
<1> QED
  BY <1>1, <1>2, <1>3, <1>4

\* The invariant is inductive.
LEMMA NextIInv == IInv /\ [Next]_vars => IInv'
<1> SUFFICES ASSUME IInv, [Next]_vars PROVE IInv'
  OBVIOUS
<1>1. CASE \E c \in Call : Exec(c)
  BY <1>1, ExecEnterInv, ExecSendInv, ExecTimeoutInv DEF Exec
<1>2. CASE RunStep
  BY <1>2, AcceptInv, AcceptErrorInv, ReadChallengeInv, SendAuthInv, ReadAuthInv,
     TakeRequestInv, CancelIdleInv, SendCommandInv, ReadReplyInv, IOErrorInv, DeliverInv
  DEF RunStep
<1>3. CASE Cancel
  BY <1>3, CancelInv
<1>4. CASE CloseListener
  BY <1>4, CloseListenerInv
<1>5. CASE VarnishdStep
  BY <1>5, VConnectInv, VReplyAuthInv, VExecuteInv, VNoticeCloseInv, VCrashInv
  DEF VarnishdStep
<1>6. CASE UNCHANGED vars
  BY <1>6, StutterInv
<1> QED
  BY <1>1, <1>2, <1>3, <1>4, <1>5, <1>6 DEF Next

\* The inductive invariant holds in every reachable state.
THEOREM Invariance == Spec => []IInv
  BY InitIInv, NextIInv, PTL DEF Spec

\* Types, and reqCh within its capacity, for every number of calls and faults.
THEOREM TypeCorrect == Spec => []TypeOK
<1>1. IInv => TypeOK
  BY DEF IInv
<1> QED
  BY <1>1, Invariance, PTL

\* Exec never returns the answer to another command (handleConnection).
THEOREM ResponsesMatch == Spec => []OwnResponse
<1>1. IInv => OwnResponse
  BY DEF IInv
<1> QED
  BY <1>1, Invariance, PTL

\* No command is executed twice by varnishd.
THEOREM NoCommandTwice == Spec => []AtMostOnce
<1>1. IInv => AtMostOnce
  BY DEF IInv
<1> QED
  BY <1>1, Invariance, PTL

\* Commands are only written to an authenticated connection (readBanner).
THEOREM AuthenticatedFirst == Spec => []CommandsOnlyAfterAuth
<1>1. IInv => CommandsOnlyAfterAuth
  <2> SUFFICES ASSUME IInv, NEW i \in 1..Len(down), down[i] \in Call
               PROVE  authed /\ (srv \in Handling => banner)
    BY DEF CommandsOnlyAfterAuth
  <2>1. PICK c \in Call : down = <<c>> /\ authed
    BY VarnishadmAssumption DEF IInv, DownInv
  <2>2. srv \in Handling => srv = "wait"
    BY <2>1, VarnishadmAssumption
    DEF IInv, ExchangeInv, ConnInv, Handling, Reading, Writing
  <2> QED
    BY <2>1, <2>2 DEF IInv, CurrentInv
<1> QED
  BY <1>1, Invariance, PTL

-----------------------------------------------------------------------------
(* Refinement                                                              *)

\* A step that leaves call, ran and got alone is a stutter of CommandService.
LEMMA AbstractStutter ==
  ASSUME UNCHANGED <<call, got, ran>> PROVE UNCHANGED CS!vars
  BY DEF CS!vars

\* Exec issues a command, waits unseen, or gives it up.
LEMMA ExecRefines ==
  ASSUME IInv, NEW c \in Call, Exec(c) PROVE [CS!Next]_(CS!vars)
<1> USE DEF IInv, TypeOK
<1>1. CASE ExecEnter(c)
  <2>1. CS!Issue(c)
    BY <1>1 DEF ExecEnter, CS!Issue, extVars
  <2> QED
    BY <2>1 DEF CS!Next
<1>2. CASE ExecSend(c)
  BY <1>2 DEF ExecSend, extVars, CS!vars
<1>3. CASE ExecTimeout(c)
  <2>1. CS!GiveUp(c)
    BY <1>3 DEF ExecTimeout, CS!GiveUp, extVars
  <2> QED
    BY <2>1 DEF CS!Next
<1> QED
  BY <1>1, <1>2, <1>3 DEF Exec

\* Delivery returns the one status the command was executed with.
LEMMA DeliverRefines == ASSUME IInv, Deliver PROVE CS!Next
<1> USE VarnishadmAssumption DEF IInv, Deliver, extVars
<1>1. PICK st \in Status : resp = [of |-> cur, status |-> st] /\ ran[cur] = <<st>>
  BY DEF CurrentInv
<1>2. PICK c \in Call : c = cur
  BY DEF CurrentInv, TypeOK
<1>3. resp = [of |-> c, status |-> ran[c][1]] /\ ran[c] # <<>>
  BY <1>1, <1>2
<1>4. CS!Return(c)
  BY <1>2, <1>3 DEF CS!Return, TypeOK
<1> QED
  BY <1>4 DEF CS!Next

\* varnishd executes a command that is still pending or given up, once.
LEMMA VExecuteRefines == ASSUME IInv, VExecute PROVE CS!Next
<1>1. PICK c \in Call : down = <<c>> /\ ran[c] = <<>>
  BY VarnishadmAssumption DEF VExecute, IInv, DownInv
<1>2. PICK st \in Status : ran' = [ran EXCEPT ![c] = Append(@, st)]
  <2>1. Head(down) = c
    BY <1>1
  <2> QED
    BY <2>1 DEF VExecute
<1>3. ran' = [ran EXCEPT ![c] = <<st>>]
  BY <1>1, <1>2
<1>4. call[c] \in {"wait", "timedout"}
  BY <1>1 DEF IInv, GivenUpInv
<1>5. CS!Execute(c, st)
  BY <1>1, <1>3, <1>4 DEF CS!Execute, VExecute, callVars
<1> QED
  BY <1>5 DEF CS!Next

\* Exec with its channel, its goroutine and its connection implements the
\* service that runs each command at most once and answers it with its own
\* status, for every set of calls, every channel capacity and every fault bound.
THEOREM Refinement == Spec => ImplementsCommandService
<1>1. Init => CS!Init
  BY DEF Init, CS!Init
<1>2. IInv /\ [Next]_vars => [CS!Next]_(CS!vars)
  <2> SUFFICES ASSUME IInv, [Next]_vars PROVE [CS!Next]_(CS!vars)
    OBVIOUS
  <2>1. CASE \E c \in Call : Exec(c)
    BY <2>1, ExecRefines
  <2>2. CASE RunStep /\ ~Deliver
    <3>1. UNCHANGED <<call, got, ran>>
      BY <2>2 DEF RunStep, Accept, AcceptError, ReadChallenge, SendAuth, ReadAuth,
         TakeRequest, CancelIdle, SendCommand, ReadReply, IOError, callVars, extVars
    <3> QED
      BY <3>1, AbstractStutter
  <2>3. CASE Deliver
    BY <2>3, DeliverRefines
  <2>4. CASE Cancel \/ CloseListener \/ UNCHANGED vars
    <3>1. UNCHANGED <<call, got, ran>>
      BY <2>4 DEF Cancel, CloseListener, vars, callVars, extVars
    <3> QED
      BY <3>1, AbstractStutter
  <2>5. CASE VExecute
    BY <2>5, VExecuteRefines
  <2>6. CASE VarnishdStep /\ ~VExecute
    <3>1. UNCHANGED <<call, got, ran>>
      BY <2>6 DEF VarnishdStep, VConnect, VReplyAuth, VNoticeClose, VCrash,
         callVars, extVars
    <3> QED
      BY <3>1, AbstractStutter
  <2> QED
    BY <2>1, <2>2, <2>3, <2>4, <2>5, <2>6 DEF Next
<1> QED
  BY <1>1, <1>2, Invariance, PTL DEF Spec, ImplementsCommandService, CS!Spec
=============================================================================
