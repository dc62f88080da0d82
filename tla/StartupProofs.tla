--------------------------- MODULE StartupProofs ---------------------------
(***************************************************************************)
(* Proofs about Startup: whatever the broker loses and delays and however  *)
(* the server, the loader and the starter interleave, Ready means that     *)
(* varnishd serves, and each subscriber hears of a connection in order.    *)
(***************************************************************************)
EXTENDS Startup, SequenceTheorems, TLAPS

Elems(q) == {q[i] : i \in 1..Len(q)}

\* The message the broker still has for a subscriber.
Pending(s) == IF s \in left THEN {msg} ELSE {}

LoaderPC == {"wait", "use", "use?", "show", "show?", "loaded", "restore", "restore!", "error"}
StarterPC == {"wait", "start", "start?", "started", "ready", "error"}
Request == [by : Proc, cmd : Sending, live : BOOLEAN]

BrokerType ==
  /\ publishCh \in Seq(Event)
  /\ inbox \in [Subscriber -> Seq(Event)]
  /\ msg \in Event \cup {None}
  /\ left \in SUBSET Subscriber /\ members \in SUBSET Subscriber
  /\ seen \in SUBSET Event /\ missed \in [Subscriber -> SUBSET Event]
  /\ left # {} => msg # None

ProcType ==
  /\ conn \in 0..MaxConns
  /\ srv \in {"accept", "publish", "serve", "answer"}
  /\ srv # "accept" => conn \in Conns
  /\ pc \in [Proc -> LoaderPC \cup StarterPC]
  /\ pc["loader"] \in LoaderPC /\ pc["starter"] \in StarterPC
  /\ job \in [Proc -> 0..MaxConns]
  /\ \A p \in Proc : pc[p] # "wait" => job[p] \in Conns
  /\ vclMapping = job["starter"]

\* A request or an answer is live only while its caller waits for it, and a
\* caller has one at most; an answered start means that the child runs.
CallInv ==
  /\ reqCh \in Seq(Request) /\ Len(reqCh) <= 1
  /\ cur \in Answer \cup {None}
  /\ srv = "answer" => cur # None
  /\ \A r \in Elems(reqCh) :
       /\ r.by = "starter" <=> r.cmd = "start"
       /\ r.live => pc[r.by] \in Waiting
       /\ r.live /\ cur # None => ~(cur.live /\ cur.by = r.by)
  /\ cur # None =>
       /\ cur.live => pc[cur.by] \in Waiting
       /\ cur.by = "starter" /\ cur.status # 106 => child
  /\ pc["starter"] \in {"started", "ready"} => child

DirInv ==
  /\ cwd \in {"home", "vcl", "left"} /\ original \in {"home", "left"}
  /\ CwdRestored

\* The events of type t in a subscriber's channel q, the message P the broker
\* has for it and the published ones c come in the order of their connections,
\* from lo to hi.
InOrder(t, e, f) == e.type = t /\ f.type = t => e.n <= f.n
StreamOf(t, q, P, c, lo, hi) ==
  /\ \A i, j \in 1..Len(q) : i < j => InOrder(t, q[i], q[j])
  /\ \A i, j \in 1..Len(c) : i < j => InOrder(t, c[i], c[j])
  /\ \A e \in Elems(q), f \in P \cup Elems(c) : InOrder(t, e, f)
  /\ \A e \in P, f \in Elems(c) : InOrder(t, e, f)
  /\ \A e \in Elems(q) \cup P \cup Elems(c) : e.type = t => lo <= e.n /\ e.n <= hi
Stream(t, s, lo, hi) == StreamOf(t, inbox[s], Pending(s), publishCh, lo, hi)

OrderInv ==
  /\ vclMapping <= job["loader"] /\ job["loader"] <= conn
  /\ Stream("Connected", "loader", job["loader"], conn)
  /\ Stream("VCLLoaded", "starter", vclMapping, job["loader"])

\* The events somebody was told of, or will be.
InFlight == Elems(publishCh) \cup (IF msg = None THEN {} ELSE {msg})
            \cup UNION {Elems(inbox[s]) : s \in Subscriber}
ReadyInv ==
  \A e \in InFlight \cup seen : e.type = "Ready" => child /\ e.n <= vclMapping

\* What the observer has had or lost, and what it has had, lost or will get.
Past == seen \cup missed["observer"]
Known == Past \cup Elems(inbox["observer"]) \cup Pending("observer") \cup Elems(publishCh)

\* The event that comes before e is in S.
Follows(e, S) == e.type \in DOMAIN Before => Ev(Before[e.type], e.n) \in S

\* Every event still to come has the one before it in the past or ahead of it.
ChainOf(past, q, P, c) ==
  /\ \A i \in 1..Len(q) : Follows(q[i], past \cup {q[j] : j \in 1..(i - 1)})
  /\ \A e \in P : Follows(e, past \cup Elems(q))
  /\ \A i \in 1..Len(c) :
       Follows(c[i], past \cup Elems(q) \cup P \cup {c[j] : j \in 1..(i - 1)})
ChainInv == ChainOf(Past, inbox["observer"], Pending("observer"), publishCh)

KnownInv ==
  /\ \A e \in InFlight : e.type # "ProcessError" => e \in Known
  /\ pc["loader"] \in InLoadVCL => Ev("Connected", job["loader"]) \in Known
  /\ pc["starter"] \in {"start", "start?", "started"} => Ev("VCLLoaded", job["starter"]) \in Known
  /\ pc["starter"] = "ready" => Ev("CacheStarted", job["starter"]) \in Known

TypeInv == BrokerType /\ ProcType
IInv == TypeInv /\ CallInv /\ DirInv /\ OrderInv /\ ReadyInv /\ ChainInv /\ KnownInv
-----------------------------------------------------------------------------
(* Channels *)

\* r is the channel q with e sent to it, or with its first event received.
Sent(r, q, e) ==
  /\ r \in Seq(Event) /\ Len(r) = Len(q) + 1
  /\ \A i \in 1..Len(q) : r[i] = q[i]
  /\ r[Len(q) + 1] = e
Received(r, q) ==
  /\ r \in Seq(Event) /\ Len(q) = Len(r) + 1
  /\ \A i \in 1..Len(r) : r[i] = q[i + 1]

\* A channel send appends.
LEMMA SentIs ==
  ASSUME NEW q \in Seq(Event), NEW e \in Event
  PROVE  Sent(Append(q, e), q, e)
BY AppendProperties DEF Sent

\* A channel receive takes the oldest event.
LEMMA ReceivedIs ==
  ASSUME NEW q \in Seq(Event), q # <<>>
  PROVE  Received(Tail(q), q) /\ Head(q) = q[1] /\ q[1] \in Event /\ q[1] \in Elems(q)
<1>1. Len(q) \in Nat \ {0}
  BY EmptySeq
<1>2. q[1] \in Event /\ q[1] \in Elems(q)
  BY <1>1, ElementOfSeq DEF Elems
<1>3. /\ Tail(q) \in Seq(Event) /\ Len(Tail(q)) = Len(q) - 1
      /\ \A i \in 1..Len(Tail(q)) : Tail(q)[i] = q[i + 1]
  BY HeadTailProperties
<1>4. Head(q) = q[1]
  BY <1>1
<1> QED
  BY <1>1, <1>2, <1>3, <1>4 DEF Received

\* A channel of events holds events.
LEMMA ElemsType ==
  ASSUME NEW q \in Seq(Event)
  PROVE  Elems(q) \in SUBSET Event /\ Len(q) \in Nat
BY ElementOfSeq, LenProperties DEF Elems

\* What a channel holds after a send.
LEMMA SentElems ==
  ASSUME NEW q \in Seq(Event), NEW e \in Event, NEW r, Sent(r, q, e)
  PROVE  /\ Elems(r) = Elems(q) \cup {e}
         /\ \A i \in 1..Len(r) : i \in 1..Len(q) \/ i = Len(q) + 1
<1>1. Len(q) \in Nat
  BY LenProperties
<1>2. \A i \in 1..Len(r) : i \in 1..Len(q) \/ i = Len(q) + 1
  BY <1>1 DEF Sent
<1>3. \A i \in 1..Len(q) : i \in 1..Len(r)
  BY <1>1 DEF Sent
<1>4. Len(q) + 1 \in 1..Len(r)
  BY <1>1 DEF Sent
<1> QED
  BY <1>2, <1>3, <1>4 DEF Sent, Elems

\* What a channel holds after a receive.
LEMMA ReceivedElems ==
  ASSUME NEW q \in Seq(Event), NEW r, Received(r, q)
  PROVE  /\ q[1] \in Event /\ Elems(q) = {q[1]} \cup Elems(r)
         /\ 1 \in 1..Len(q)
         /\ \A i \in 1..Len(r) : i + 1 \in 1..Len(q)
<1>1. Len(q) \in Nat /\ Len(r) \in Nat
  BY LenProperties DEF Received
<1>2. 1 \in 1..Len(q) /\ \A i \in 1..Len(r) : i + 1 \in 1..Len(q)
  BY <1>1 DEF Received
<1>3. \A i \in 1..Len(q) : i = 1 \/ (i - 1 \in 1..Len(r) /\ (i - 1) + 1 = i)
  BY <1>1 DEF Received
<1>4. \A i \in 1..Len(q) : q[i] = q[1] \/ q[i] \in Elems(r)
  <2> TAKE i \in 1..Len(q)
  <2>1. CASE i = 1
    BY <2>1
  <2>2. CASE i - 1 \in 1..Len(r) /\ (i - 1) + 1 = i
    <3>1. r[i - 1] = q[i]
      BY <2>2 DEF Received
    <3> QED
      BY <2>2, <3>1 DEF Elems
  <2> QED
    BY <2>1, <2>2, <1>3
<1>5. Elems(r) \subseteq Elems(q)
  BY <1>2 DEF Received, Elems
<1>6. q[1] \in Elems(q)
  BY <1>2 DEF Elems
<1>7. Elems(q) = {q[1]} \cup Elems(r)
  <2>1. Elems(q) \subseteq {q[1]} \cup Elems(r)
    BY <1>4 DEF Elems
  <2> QED
    BY <2>1, <1>5, <1>6
<1>8. q[1] \in Event
  BY <1>2, ElementOfSeq
<1> QED
  BY <1>2, <1>7, <1>8
-----------------------------------------------------------------------------
(* Events keep the order of their connections *)

\* An event about the newest connection may be published.
LEMMA StreamSend ==
  ASSUME NEW t, NEW q \in Seq(Event), NEW P \in SUBSET Event, NEW c \in Seq(Event),
         NEW lo \in Nat, NEW hi \in Nat, StreamOf(t, q, P, c, lo, hi),
         NEW e \in Event, e.type = t => e.n = hi /\ lo <= hi,
         NEW d, Sent(d, c, e)
  PROVE  StreamOf(t, q, P, d, lo, hi)
<1>1. /\ Elems(d) = Elems(c) \cup {e} /\ Len(c) \in Nat
      /\ \A i \in 1..Len(d) : i \in 1..Len(c) \/ i = Len(c) + 1
  BY SentElems, ElemsType
<1>2. \A f \in Elems(q) \cup P \cup Elems(c) : InOrder(t, f, e)
  BY DEF StreamOf, InOrder
<1>3. ASSUME NEW i \in 1..Len(d), NEW j \in 1..Len(d), i < j
      PROVE  InOrder(t, d[i], d[j])
  <2>1. i \in 1..Len(c)
    BY <1>1, <1>3
  <2>2. d[i] = c[i] /\ d[i] \in Elems(c)
    BY <2>1 DEF Sent, Elems
  <2>3. CASE j \in 1..Len(c)
    BY <1>3, <2>1, <2>2, <2>3 DEF StreamOf, Sent
  <2>4. CASE j = Len(c) + 1
    BY <2>2, <2>4, <1>2 DEF Sent
  <2> QED
    BY <2>3, <2>4, <1>1
<1>4. \A f \in Elems(q), g \in P \cup Elems(d) : InOrder(t, f, g)
  BY <1>1, <1>2 DEF StreamOf
<1>5. \A f \in P, g \in Elems(d) : InOrder(t, f, g)
  BY <1>1, <1>2 DEF StreamOf
<1>6. \A f \in Elems(q) \cup P \cup Elems(d) : f.type = t => lo <= f.n /\ f.n <= hi
  BY <1>1 DEF StreamOf, Event, Conns
<1> QED
  BY <1>3, <1>4, <1>5, <1>6 DEF StreamOf

\* The broker takes a message for this subscriber or without it.
LEMMA StreamTake ==
  ASSUME NEW t, NEW q \in Seq(Event), NEW c \in Seq(Event),
         NEW lo, NEW hi, StreamOf(t, q, {}, c, lo, hi),
         NEW d, Received(d, c), NEW P \in SUBSET {c[1]}
  PROVE  StreamOf(t, q, P, d, lo, hi)
<1>1. /\ Elems(c) = {c[1]} \cup Elems(d) /\ 1 \in 1..Len(c) /\ Len(d) \in Nat
      /\ \A i \in 1..Len(d) : i + 1 \in 1..Len(c)
  BY ReceivedElems, LenProperties DEF Received
<1>2. ASSUME NEW i \in 1..Len(d), NEW j \in 1..Len(d), i < j
      PROVE  InOrder(t, d[i], d[j])
  <2>1. i + 1 < j + 1 /\ d[i] = c[i + 1] /\ d[j] = c[j + 1]
    BY <1>1, <1>2 DEF Received
  <2> QED
    BY <2>1, <1>1 DEF StreamOf
<1>3. \A f \in Elems(d) : InOrder(t, c[1], f)
  <2> SUFFICES ASSUME NEW i \in 1..Len(d) PROVE InOrder(t, c[1], d[i])
    BY DEF Elems
  <2>1. 1 < i + 1 /\ d[i] = c[i + 1]
    BY <1>1 DEF Received
  <2> QED
    BY <2>1, <1>1 DEF StreamOf
<1> QED
  BY <1>1, <1>2, <1>3 DEF StreamOf

\* The broker delivers it.
LEMMA StreamDeliver ==
  ASSUME NEW t, NEW q \in Seq(Event), NEW c \in Seq(Event), NEW e \in Event,
         NEW lo, NEW hi, StreamOf(t, q, {e}, c, lo, hi),
         NEW r, Sent(r, q, e)
  PROVE  StreamOf(t, r, {}, c, lo, hi)
<1>1. /\ Elems(r) = Elems(q) \cup {e} /\ Len(q) \in Nat
      /\ \A i \in 1..Len(r) : i \in 1..Len(q) \/ i = Len(q) + 1
  BY SentElems, ElemsType
<1>2. ASSUME NEW i \in 1..Len(r), NEW j \in 1..Len(r), i < j
      PROVE  InOrder(t, r[i], r[j])
  <2>1. i \in 1..Len(q)
    BY <1>1, <1>2
  <2>2. r[i] = q[i] /\ r[i] \in Elems(q)
    BY <2>1 DEF Sent, Elems
  <2>3. CASE j \in 1..Len(q)
    BY <1>2, <2>1, <2>2, <2>3 DEF StreamOf, Sent
  <2>4. CASE j = Len(q) + 1
    BY <2>2, <2>4 DEF Sent, StreamOf
  <2> QED
    BY <2>3, <2>4, <1>1
<1> QED
  BY <1>1, <1>2 DEF StreamOf

\* The broker gives a message up; fewer events are in order all the more.
LEMMA StreamDrop ==
  ASSUME NEW t, NEW q, NEW P, NEW c, NEW lo, NEW hi, StreamOf(t, q, P, c, lo, hi)
  PROVE  StreamOf(t, q, {}, c, lo, hi)
BY DEF StreamOf

\* The subscriber receives: what is left comes from its connection on.
LEMMA StreamReceive ==
  ASSUME NEW t, NEW q \in Seq(Event), NEW P \in SUBSET Event, NEW c \in Seq(Event),
         NEW lo, NEW hi, StreamOf(t, q, P, c, lo, hi),
         NEW r, Received(r, q)
  PROVE  /\ StreamOf(t, r, P, c, lo, hi)
         /\ q[1].type = t => /\ StreamOf(t, r, P, c, q[1].n, hi)
                             /\ lo <= q[1].n /\ q[1].n <= hi
<1>1. /\ Elems(q) = {q[1]} \cup Elems(r) /\ 1 \in 1..Len(q) /\ Len(r) \in Nat
      /\ \A i \in 1..Len(r) : i + 1 \in 1..Len(q)
  BY ReceivedElems, LenProperties DEF Received
<1>2. ASSUME NEW i \in 1..Len(r), NEW j \in 1..Len(r), i < j
      PROVE  InOrder(t, r[i], r[j])
  <2>1. i + 1 < j + 1 /\ r[i] = q[i + 1] /\ r[j] = q[j + 1]
    BY <1>1, <1>2 DEF Received
  <2> QED
    BY <2>1, <1>1 DEF StreamOf
<1>3. \A f \in Elems(r) : InOrder(t, q[1], f)
  <2> SUFFICES ASSUME NEW i \in 1..Len(r) PROVE InOrder(t, q[1], r[i])
    BY DEF Elems
  <2>1. 1 < i + 1 /\ r[i] = q[i + 1]
    BY <1>1 DEF Received
  <2> QED
    BY <2>1, <1>1 DEF StreamOf
<1>4. \A f \in P \cup Elems(c) : InOrder(t, q[1], f)
  BY <1>1 DEF StreamOf
<1>5. StreamOf(t, r, P, c, lo, hi)
  BY <1>1, <1>2 DEF StreamOf
<1>6. ASSUME q[1].type = t
      PROVE  \A f \in Elems(r) \cup P \cup Elems(c) : f.type = t => q[1].n <= f.n /\ f.n <= hi
  BY <1>3, <1>4, <1>5, <1>6 DEF StreamOf, InOrder
<1>7. q[1].type = t => lo <= q[1].n /\ q[1].n <= hi
  BY <1>1 DEF StreamOf
<1> QED
  BY <1>5, <1>6, <1>7 DEF StreamOf

\* The upper end may rise.
LEMMA StreamRaise ==
  ASSUME NEW t, NEW q \in Seq(Event), NEW P \in SUBSET Event, NEW c \in Seq(Event),
         NEW lo \in Nat, NEW hi \in Nat, NEW hj \in Nat, hi <= hj,
         StreamOf(t, q, P, c, lo, hi)
  PROVE  StreamOf(t, q, P, c, lo, hj)
<1>1. \A e \in Elems(q) \cup P \cup Elems(c) : e \in Event
  BY ElemsType
<1>2. \A e \in Event : e.n \in Nat
  BY StartupAssumption DEF Event, Conns
<1> QED
  BY <1>1, <1>2 DEF StreamOf
-----------------------------------------------------------------------------
(* Events of one connection come one after the other *)

\* The events the observer looks for: only errors are not among them.
Looked == Wants("observer")

\* The observer looks for every cause of what it looks for.
LEMMA LookedIs ==
  /\ \A e \in Event : e \in Looked <=> e.type # "ProcessError"
  /\ \A e \in Event : e.type \in DOMAIN Before => Ev(Before[e.type], e.n) \in Looked
  /\ Looked \in SUBSET Event
<1>1. Looked = [type : Kind \ {"ProcessError"}, n : Conns]
  BY DEF Looked, Wants
<1>2. \A e \in Event : e \in Looked <=> e.type # "ProcessError"
  BY <1>1 DEF Event
<1>3. ASSUME NEW e \in Event, e.type \in DOMAIN Before
      PROVE  Ev(Before[e.type], e.n) \in Looked
  <2>1. e.type \in {"VCLLoaded", "CacheStarted", "Ready"} /\ e.n \in Conns
    BY <1>3 DEF Before, Event
  <2>2. Before[e.type] \in Kind \ {"ProcessError"}
    BY <2>1 DEF Before, Kind
  <2> QED
    BY <1>1, <2>1, <2>2 DEF Ev
<1>4. Looked \in SUBSET Event
  BY <1>1 DEF Event
<1> QED
  BY <1>2, <1>3, <1>4

\* What counts is which of the looked-for events are in the set.
LEMMA FollowsMono ==
  ASSUME NEW e \in Event, NEW S, NEW T, S \cap Looked \subseteq T, Follows(e, S)
  PROVE  Follows(e, T)
BY LookedIs DEF Follows

\* An event whose cause is known may be published.
LEMMA ChainSend ==
  ASSUME NEW past, NEW q \in Seq(Event), NEW P, NEW c \in Seq(Event),
         ChainOf(past, q, P, c), NEW e \in Event,
         Follows(e, past \cup Elems(q) \cup P \cup Elems(c)),
         NEW d, Sent(d, c, e)
  PROVE  ChainOf(past, q, P, d)
<1>1. Len(c) \in Nat /\ \A i \in 1..Len(d) : i \in 1..Len(c) \/ i = Len(c) + 1
  BY SentElems, ElemsType
<1>2. ASSUME NEW i \in 1..Len(d)
      PROVE  Follows(d[i], past \cup Elems(q) \cup P \cup {d[j] : j \in 1..(i - 1)})
  <2>1. CASE i \in 1..Len(c)
    <3>1. \A j \in 1..(i - 1) : j \in 1..Len(c)
      BY <2>1, <1>1
    <3>2. {d[j] : j \in 1..(i - 1)} = {c[j] : j \in 1..(i - 1)}
      BY <3>1 DEF Sent
    <3>3. d[i] = c[i]
      BY <2>1 DEF Sent
    <3> QED
      BY <2>1, <3>2, <3>3 DEF ChainOf
  <2>2. CASE i = Len(c) + 1
    <3>1. i - 1 = Len(c)
      BY <2>2, <1>1
    <3>2. {d[j] : j \in 1..(i - 1)} = Elems(c)
      BY <3>1 DEF Sent, Elems
    <3>3. d[i] = e
      BY <2>2 DEF Sent
    <3> QED
      BY <3>2, <3>3
  <2> QED
    BY <1>1, <2>1, <2>2
<1> QED
  BY <1>2 DEF ChainOf

\* A longer past only helps.
LEMMA ChainGrow ==
  ASSUME NEW past, NEW q \in Seq(Event), NEW P \in SUBSET Event, NEW c \in Seq(Event),
         ChainOf(past, q, P, c), NEW past2, past \subseteq past2
  PROVE  ChainOf(past2, q, P, c)
<1>1. \A i \in 1..Len(q) : q[i] \in Event
  BY ElementOfSeq
<1>2. \A i \in 1..Len(c) : c[i] \in Event
  BY ElementOfSeq
<1>3. \A i \in 1..Len(q) : Follows(q[i], past2 \cup {q[j] : j \in 1..(i - 1)})
  BY <1>1 DEF ChainOf, Follows
<1>4. \A e \in P : Follows(e, past2 \cup Elems(q))
  BY DEF ChainOf, Follows
<1>5. \A i \in 1..Len(c) :
        Follows(c[i], past2 \cup Elems(q) \cup P \cup {c[j] : j \in 1..(i - 1)})
  BY DEF ChainOf, Follows
<1> QED
  BY <1>3, <1>4, <1>5 DEF ChainOf

\* The broker takes a message: it is either for the observer or lost for it.
LEMMA ChainTake ==
  ASSUME NEW past, NEW q \in Seq(Event), NEW c \in Seq(Event),
         ChainOf(past, q, {}, c), NEW d, Received(d, c),
         NEW P \in SUBSET {c[1]}, NEW past2, past \subseteq past2,
         {c[1]} \cap Looked \subseteq past2 \cup P
  PROVE  ChainOf(past2, q, P, d)
<1>1. /\ c[1] \in Event /\ 1 \in 1..Len(c) /\ Len(d) \in Nat
      /\ \A i \in 1..Len(d) : i + 1 \in 1..Len(c)
  BY ReceivedElems, LenProperties DEF Received
<1>2. ChainOf(past2, q, {}, c)
  BY ChainGrow
<1>3. \A f \in P : Follows(f, past2 \cup Elems(q))
  <2>1. {c[j] : j \in 1..(1 - 1)} = {}
    OBVIOUS
  <2>2. Follows(c[1], past2 \cup Elems(q) \cup {} \cup {c[j] : j \in 1..(1 - 1)})
    BY <1>1, <1>2 DEF ChainOf
  <2>3. Follows(c[1], past2 \cup Elems(q))
    BY <2>1, <2>2 DEF Follows
  <2> QED
    BY <2>3
<1>4. ASSUME NEW i \in 1..Len(d)
      PROVE  Follows(d[i], past2 \cup Elems(q) \cup P \cup {d[j] : j \in 1..(i - 1)})
  <2>1. /\ i + 1 \in 1..Len(c) /\ d[i] = c[i + 1] /\ (i + 1) - 1 = i /\ d[i] \in Event
    BY <1>1, ElementOfSeq DEF Received
  <2> DEFINE S == past2 \cup Elems(q) \cup {} \cup {c[j] : j \in 1..((i + 1) - 1)}
             T == past2 \cup Elems(q) \cup P \cup {d[j] : j \in 1..(i - 1)}
  <2>2. Follows(d[i], S)
    BY <2>1, <1>2 DEF ChainOf
  <2>3. S \cap Looked \subseteq T
    <3>1. \A j \in 1..i : j = 1 \/ (j - 1 \in 1..(i - 1) /\ j - 1 \in 1..Len(d)
                                    /\ (j - 1) + 1 = j)
      BY <1>1
    <3>2. \A j \in 1..i : c[j] = c[1] \/ c[j] \in {d[k] : k \in 1..(i - 1)}
      <4> TAKE j \in 1..i
      <4>1. CASE j # 1
        <5>1. d[j - 1] = c[j]
          BY <3>1, <4>1 DEF Received
        <5> QED
          BY <3>1, <4>1, <5>1
      <4> QED
        BY <4>1
    <3> QED
      BY <2>1, <3>2
  <2> QED
    BY <2>1, <2>2, <2>3, FollowsMono
<1> QED
  BY <1>2, <1>3, <1>4 DEF ChainOf

\* Delivery of the broker's message keeps the chain of causes.
LEMMA ChainDeliver ==
  ASSUME NEW past, NEW q \in Seq(Event), NEW c \in Seq(Event), NEW e \in Event,
         ChainOf(past, q, {e}, c), NEW r, Sent(r, q, e)
  PROVE  ChainOf(past, r, {}, c)
<1>1. /\ Elems(r) = Elems(q) \cup {e} /\ Len(q) \in Nat
      /\ \A i \in 1..Len(r) : i \in 1..Len(q) \/ i = Len(q) + 1
  BY SentElems, ElemsType
<1>2. ASSUME NEW i \in 1..Len(r)
      PROVE  Follows(r[i], past \cup {r[j] : j \in 1..(i - 1)})
  <2>1. CASE i \in 1..Len(q)
    <3>1. \A j \in 1..(i - 1) : j \in 1..Len(q)
      BY <2>1, <1>1
    <3>2. {r[j] : j \in 1..(i - 1)} = {q[j] : j \in 1..(i - 1)}
      BY <3>1 DEF Sent
    <3>3. r[i] = q[i]
      BY <2>1 DEF Sent
    <3> QED
      BY <2>1, <3>2, <3>3 DEF ChainOf
  <2>2. CASE i = Len(q) + 1
    <3>1. i - 1 = Len(q)
      BY <2>2, <1>1
    <3>2. {r[j] : j \in 1..(i - 1)} = Elems(q)
      BY <3>1 DEF Sent, Elems
    <3>3. r[i] = e
      BY <2>2 DEF Sent
    <3> QED
      BY <3>2, <3>3 DEF ChainOf
  <2> QED
    BY <1>1, <2>1, <2>2
<1>3. \A S : past \cup Elems(q) \cup {e} \cup S = past \cup Elems(r) \cup {} \cup S
  BY <1>1
<1> QED
  BY <1>2, <1>3 DEF ChainOf

\* The broker gives the observer's message up: it is lost.
LEMMA ChainDrop ==
  ASSUME NEW past, NEW q \in Seq(Event), NEW c \in Seq(Event), NEW e \in Event,
         ChainOf(past, q, {e}, c), NEW past2, past \subseteq past2,
         {e} \cap Looked \subseteq past2
  PROVE  ChainOf(past2, q, {}, c)
<1>1. ChainOf(past2, q, {e}, c)
  BY ChainGrow
<1>2. ASSUME NEW i \in 1..Len(c)
      PROVE  Follows(c[i], past2 \cup Elems(q) \cup {} \cup {c[j] : j \in 1..(i - 1)})
  <2>1. c[i] \in Event
    BY ElementOfSeq
  <2>2. Follows(c[i], past2 \cup Elems(q) \cup {e} \cup {c[j] : j \in 1..(i - 1)})
    BY <1>1 DEF ChainOf
  <2>3. (past2 \cup Elems(q) \cup {e} \cup {c[j] : j \in 1..(i - 1)}) \cap Looked
          \subseteq past2 \cup Elems(q) \cup {} \cup {c[j] : j \in 1..(i - 1)}
    OBVIOUS
  <2> QED
    BY <2>1, <2>2, <2>3, FollowsMono
<1> QED
  BY <1>1, <1>2 DEF ChainOf

\* The observer receives an event: the one before it is in the past by now.
LEMMA ChainReceive ==
  ASSUME NEW past, NEW q \in Seq(Event), NEW P \in SUBSET Event, NEW c \in Seq(Event),
         ChainOf(past, q, P, c), NEW r, Received(r, q),
         NEW past2, past \subseteq past2, {q[1]} \cap Looked \subseteq past2
  PROVE  ChainOf(past2, r, P, c) /\ Follows(q[1], past)
<1>1. /\ q[1] \in Event /\ 1 \in 1..Len(q) /\ Len(r) \in Nat
      /\ \A i \in 1..Len(r) : i + 1 \in 1..Len(q)
      /\ Elems(q) = {q[1]} \cup Elems(r)
  BY ReceivedElems, LenProperties DEF Received
<1>2. ChainOf(past2, q, P, c)
  BY ChainGrow
<1>3. Follows(q[1], past)
  <2>1. {q[j] : j \in 1..(1 - 1)} = {}
    OBVIOUS
  <2>2. Follows(q[1], past \cup {q[j] : j \in 1..(1 - 1)})
    BY <1>1 DEF ChainOf
  <2> QED
    BY <2>1, <2>2 DEF Follows
<1>4. ASSUME NEW i \in 1..Len(r)
      PROVE  Follows(r[i], past2 \cup {r[j] : j \in 1..(i - 1)})
  <2>1. /\ i + 1 \in 1..Len(q) /\ r[i] = q[i + 1] /\ (i + 1) - 1 = i /\ r[i] \in Event
    BY <1>1, ElementOfSeq DEF Received
  <2> DEFINE S == past2 \cup {q[j] : j \in 1..((i + 1) - 1)}
             T == past2 \cup {r[j] : j \in 1..(i - 1)}
  <2>2. Follows(r[i], S)
    BY <2>1, <1>2 DEF ChainOf
  <2>3. S \cap Looked \subseteq T
    <3>1. \A j \in 1..i : j = 1 \/ (j - 1 \in 1..(i - 1) /\ j - 1 \in 1..Len(r)
                                    /\ (j - 1) + 1 = j)
      BY <1>1
    <3>2. \A j \in 1..i : q[j] = q[1] \/ q[j] \in {r[k] : k \in 1..(i - 1)}
      <4> TAKE j \in 1..i
      <4>1. CASE j # 1
        <5>1. r[j - 1] = q[j]
          BY <3>1, <4>1 DEF Received
        <5> QED
          BY <3>1, <4>1, <5>1
      <4> QED
        BY <4>1
    <3> QED
      BY <2>1, <3>2
  <2> QED
    BY <2>1, <2>2, <2>3, FollowsMono
<1>5. \A e \in P : Follows(e, past2 \cup Elems(r))
  <2> TAKE e \in P
  <2>1. Follows(e, past2 \cup Elems(q))
    BY <1>2 DEF ChainOf
  <2>2. (past2 \cup Elems(q)) \cap Looked \subseteq past2 \cup Elems(r)
    BY <1>1
  <2> QED
    BY <2>1, <2>2, FollowsMono
<1>6. ASSUME NEW i \in 1..Len(c)
      PROVE  Follows(c[i], past2 \cup Elems(r) \cup P \cup {c[j] : j \in 1..(i - 1)})
  <2>1. c[i] \in Event
    BY ElementOfSeq
  <2>2. Follows(c[i], past2 \cup Elems(q) \cup P \cup {c[j] : j \in 1..(i - 1)})
    BY <1>2 DEF ChainOf
  <2>3. (past2 \cup Elems(q) \cup P \cup {c[j] : j \in 1..(i - 1)}) \cap Looked
          \subseteq past2 \cup Elems(r) \cup P \cup {c[j] : j \in 1..(i - 1)}
    BY <1>1
  <2> QED
    BY <2>1, <2>2, <2>3, FollowsMono
<1> QED
  BY <1>3, <1>4, <1>5, <1>6 DEF ChainOf
-----------------------------------------------------------------------------
(* What the steps do to the messages *)

\* No message is made up or reordered, and the observer's are lost only on record.
MessagesKept ==
  /\ BrokerType' /\ (ChainInv => ChainInv')
  /\ \A t, s, lo, hi :
       s \in Subscriber /\ Stream(t, s, lo, hi)
         => StreamOf(t, inbox'[s], Pending(s)', publishCh', lo, hi)
  /\ InFlight' \subseteq InFlight /\ seen' \subseteq seen \cup InFlight
  /\ Known \cap Looked \subseteq Known'

\* What the broker still has for a subscriber is in flight.
LEMMA PendingType ==
  ASSUME BrokerType, NEW s
  PROVE  Pending(s) \in SUBSET Event /\ Pending(s) \subseteq InFlight
BY DEF BrokerType, Pending, InFlight

\* Only events are in flight.
LEMMA InFlightType ==
  ASSUME BrokerType
  PROVE  InFlight \in SUBSET Event
<1>1. \A s \in Subscriber : inbox[s] \in Seq(Event)
  BY DEF BrokerType
<1>2. \A s \in Subscriber : Elems(inbox[s]) \in SUBSET Event
  BY <1>1, ElemsType
<1>3. Elems(publishCh) \in SUBSET Event
  BY ElemsType DEF BrokerType
<1> QED
  BY <1>2, <1>3 DEF InFlight, BrokerType

\* A step that touches no message keeps all about messages.
LEMMA MessagesSame ==
  ASSUME BrokerType, UNCHANGED <<publishCh, msg, left, members, inbox, seen, missed>>
  PROVE  MessagesKept /\ InFlight' = InFlight /\ seen' = seen /\ Known' = Known
<1>1. \A s : Pending(s)' = Pending(s)
  BY DEF Pending
<1>2. InFlight' = InFlight /\ Past' = Past
  BY DEF InFlight, Past
<1>3. Known' = Known
  BY <1>1, <1>2 DEF Known
<1>4. BrokerType'
  BY DEF BrokerType
<1>5. ChainInv => ChainInv'
  BY <1>1, <1>2 DEF ChainInv
<1>6. \A t, s, lo, hi : s \in Subscriber /\ Stream(t, s, lo, hi)
         => StreamOf(t, inbox'[s], Pending(s)', publishCh', lo, hi)
  BY <1>1 DEF Stream
<1> QED
  BY <1>2, <1>3, <1>4, <1>5, <1>6 DEF MessagesKept

\* Publish adds the event to the end, or loses it for everybody.
LEMMA MessagePublished ==
  ASSUME BrokerType, NEW e \in Event, Publish(e),
         UNCHANGED <<msg, left, members, inbox, seen>>
  PROVE  /\ BrokerType'
         /\ ChainInv /\ Follows(e, Known) => ChainInv'
         /\ \A t, s : \A lo \in Nat, hi \in Nat :
              s \in Subscriber /\ Stream(t, s, lo, hi) /\ (e.type = t => e.n = hi /\ lo <= hi)
                => StreamOf(t, inbox'[s], Pending(s)', publishCh', lo, hi)
         /\ InFlight' \subseteq InFlight \cup {e} /\ seen' = seen
         /\ Known \subseteq Known' /\ {e} \cap Looked \subseteq Known'
<1> USE DEF BrokerType
<1>1. \A s : Pending(s)' = Pending(s)
  BY DEF Pending
<1>2. "observer" \in Subscriber
  BY DEF Subscriber
<1>3. inbox["observer"] \in Seq(Event) /\ Pending("observer") \in SUBSET Event
  BY <1>2, PendingType
<1>4. CASE Sent(publishCh', publishCh, e) /\ UNCHANGED missed
  <2>1. Elems(publishCh') = Elems(publishCh) \cup {e} /\ publishCh' \in Seq(Event)
    BY <1>4, SentElems DEF Sent
  <2>2. BrokerType'
    BY <2>1, <1>4
  <2>3. Past' = Past
    BY <1>4 DEF Past
  <2>4. Known' = Known \cup {e}
    BY <2>1, <2>3, <1>1 DEF Known
  <2>5. InFlight' \subseteq InFlight \cup {e}
    BY <2>1 DEF InFlight
  <2>6. ASSUME ChainInv, Follows(e, Known)
        PROVE  ChainInv'
    <3>1. ChainOf(Past, inbox["observer"], Pending("observer"), publishCh')
      BY <1>3, <1>4, <2>6, ChainSend DEF ChainInv, Known
    <3> QED
      BY <3>1, <2>3, <1>1 DEF ChainInv
  <2>7. ASSUME NEW t, NEW s \in Subscriber, NEW lo \in Nat, NEW hi \in Nat,
               Stream(t, s, lo, hi), e.type = t => e.n = hi /\ lo <= hi
        PROVE  StreamOf(t, inbox'[s], Pending(s)', publishCh', lo, hi)
    <3>1. StreamOf(t, inbox[s], Pending(s), publishCh', lo, hi)
      BY <1>4, <2>7, StreamSend, PendingType DEF Stream
    <3> QED
      BY <3>1, <1>1
  <2> QED
    BY <2>2, <2>4, <2>5, <2>6, <2>7
<1>5. CASE /\ missed' = [s \in Subscriber |-> missed[s] \cup ({e} \cap Wants(s))]
           /\ UNCHANGED publishCh
  <2>1. BrokerType'
    BY <1>5
  <2>2. Past' = Past \cup ({e} \cap Looked)
    BY <1>2, <1>5 DEF Past, Looked
  <2>3. Known' = Known \cup ({e} \cap Looked)
    BY <2>2, <1>1, <1>5 DEF Known
  <2>4. InFlight' = InFlight
    BY <1>5 DEF InFlight
  <2>5. ChainInv => ChainInv'
    <3>1. ChainInv => ChainOf(Past', inbox["observer"], Pending("observer"), publishCh)
      BY <2>2, <1>3, ChainGrow DEF ChainInv
    <3> QED
      BY <3>1, <1>1, <1>5 DEF ChainInv
  <2>6. \A t, s, lo, hi : Stream(t, s, lo, hi)
           => StreamOf(t, inbox'[s], Pending(s)', publishCh', lo, hi)
    BY <1>1, <1>5 DEF Stream
  <2> QED
    BY <2>1, <2>3, <2>4, <2>5, <2>6
<1>6. publishCh' = Append(publishCh, e) => Sent(publishCh', publishCh, e)
  BY SentIs
<1> QED
  BY <1>4, <1>5, <1>6 DEF Publish

\* The broker's steps.
LEMMA BrokerRegisters ==
  ASSUME BrokerType, NEW s \in Subscriber, Register(s)
  PROVE  MessagesKept
<1>1. UNCHANGED <<publishCh, msg, left, inbox, seen, missed>> /\ members' \in SUBSET Subscriber
  BY DEF Register, BrokerType
<1>2. \A r : Pending(r)' = Pending(r)
  BY <1>1 DEF Pending
<1>3. InFlight' = InFlight /\ Past' = Past
  BY <1>1 DEF InFlight, Past
<1>4. Known' = Known
  BY <1>1, <1>2, <1>3 DEF Known
<1>5. BrokerType'
  BY <1>1 DEF BrokerType
<1>6. ChainInv => ChainInv'
  BY <1>1, <1>2, <1>3 DEF ChainInv
<1>7. \A t, r, lo, hi : r \in Subscriber /\ Stream(t, r, lo, hi)
         => StreamOf(t, inbox'[r], Pending(r)', publishCh', lo, hi)
  BY <1>1, <1>2 DEF Stream
<1> QED
  BY <1>1, <1>3, <1>4, <1>5, <1>6, <1>7 DEF MessagesKept

\* The broker takes a message from the publish channel for its subscribers.
LEMMA BrokerTakes ==
  ASSUME BrokerType, TakeMessage
  PROVE  MessagesKept
<1> USE DEF BrokerType
<1> DEFINE h == publishCh[1]
<1>1. /\ msg = None /\ publishCh # <<>> /\ publishCh' = Tail(publishCh)
      /\ msg' = IF members = {} THEN None ELSE Head(publishCh)
      /\ left' = members
      /\ missed' = [s \in Subscriber |->
                      IF s \in members THEN missed[s]
                      ELSE missed[s] \cup ({Head(publishCh)} \cap Wants(s))]
      /\ UNCHANGED <<members, inbox, seen>>
  BY DEF TakeMessage, srvVars
<1>2. /\ Received(publishCh', publishCh) /\ h \in Event /\ h \in Elems(publishCh)
      /\ Head(publishCh) = h
  BY <1>1, ReceivedIs
<1>3. Elems(publishCh) = {h} \cup Elems(publishCh')
  BY <1>2, ReceivedElems
<1> HIDE DEF h
<1>4. h # None
  BY <1>2, NilAssumption
<1>5. left = {} /\ \A s : Pending(s) = {} /\ Pending(s)' = IF s \in members THEN {h} ELSE {}
  BY <1>1, <1>2 DEF Pending
<1>6. BrokerType'
  <2>1. missed' \in [Subscriber -> SUBSET Event]
    BY <1>1, <1>2
  <2>2. msg' \in Event \cup {None} /\ (left' # {} => msg' # None)
    BY <1>1, <1>2, <1>4
  <2> QED
    BY <2>1, <2>2, <1>1, <1>2 DEF Received
<1>7. "observer" \in Subscriber /\ inbox["observer"] \in Seq(Event)
  BY DEF Subscriber
<1>8. Past \subseteq Past' /\ {h} \cap Looked \subseteq Past' \cup Pending("observer")'
  BY <1>1, <1>2, <1>5, <1>7 DEF Past, Looked
<1>9. Known \cap Looked \subseteq Known'
  BY <1>1, <1>3, <1>5, <1>8 DEF Known
<1>10. InFlight' \subseteq InFlight
  BY <1>1, <1>2, <1>3 DEF InFlight
<1>11. ChainInv => ChainInv'
  <2>1. Pending("observer")' \in SUBSET {publishCh[1]}
    BY <1>5 DEF h
  <2>2. {publishCh[1]} \cap Looked \subseteq Past' \cup Pending("observer")'
    BY <1>8 DEF h
  <2>3. ASSUME ChainInv
        PROVE  ChainOf(Past', inbox["observer"], Pending("observer")', publishCh')
    <3>1. ChainOf(Past, inbox["observer"], {}, publishCh)
      BY <2>3, <1>5 DEF ChainInv
    <3> QED
      BY <3>1, <2>1, <2>2, <1>2, <1>7, <1>8, ChainTake
  <2> QED
    BY <2>3, <1>1 DEF ChainInv
<1>12. ASSUME NEW t, NEW s \in Subscriber, NEW lo, NEW hi, Stream(t, s, lo, hi)
       PROVE  StreamOf(t, inbox'[s], Pending(s)', publishCh', lo, hi)
  <2>1. StreamOf(t, inbox[s], {}, publishCh, lo, hi)
    BY <1>12, <1>5 DEF Stream
  <2>2. Pending(s)' \in SUBSET {publishCh[1]}
    BY <1>5 DEF h
  <2>3. StreamOf(t, inbox[s], Pending(s)', publishCh', lo, hi)
    BY <2>1, <2>2, <1>2, StreamTake
  <2> QED
    BY <2>3, <1>1
<1> QED
  BY <1>1, <1>6, <1>9, <1>10, <1>11, <1>12 DEF MessagesKept

\* The broker delivers its message to a subscriber, or gives it up for a slow one.
LEMMA BrokerDelivers ==
  ASSUME BrokerType, NEW s \in Subscriber, Deliver(s)
  PROVE  MessagesKept
<1> USE DEF BrokerType
<1>1. /\ s \in left /\ left' = left \ {s} /\ msg' = IF left = {s} THEN None ELSE msg
      /\ UNCHANGED <<members, publishCh, seen>>
  BY DEF Deliver, srvVars
<1>2. msg \in Event /\ inbox[s] \in Seq(Event)
  BY <1>1
<1>3. /\ Pending(s) = {msg} /\ Pending(s)' = {}
      /\ \A r \in Subscriber \ {s} : Pending(r)' = Pending(r)
  BY <1>1 DEF Pending
<1>4. "observer" \in Subscriber /\ inbox["observer"] \in Seq(Event)
  BY DEF Subscriber
<1>5. CASE inbox' = [inbox EXCEPT ![s] = Append(@, msg)] /\ UNCHANGED missed
  <2>1. Sent(inbox'[s], inbox[s], msg) /\ \A r \in Subscriber \ {s} : inbox'[r] = inbox[r]
    BY <1>2, <1>5, SentIs
  <2>2. Elems(inbox'[s]) = Elems(inbox[s]) \cup {msg}
    BY <2>1, <1>2, SentElems
  <2>3. inbox' \in [Subscriber -> Seq(Event)]
    <3>1. Append(inbox[s], msg) \in Seq(Event)
      BY <1>2, AppendProperties
    <3> QED
      BY <3>1, <1>5
  <2>4. BrokerType'
    BY <2>3, <1>1, <1>5
  <2>5. Past' = Past
    BY <1>1, <1>5 DEF Past
  <2>6. Known \subseteq Known'
    <3>1. Elems(inbox["observer"]) \cup Pending("observer")
            \subseteq (Elems(inbox["observer"]) \cup Pending("observer"))'
      <4>1. CASE s = "observer"
        BY <4>1, <2>2, <1>3
      <4>2. CASE s # "observer"
        BY <4>2, <2>1, <1>3, <1>4
      <4> QED
        BY <4>1, <4>2
    <3> QED
      BY <3>1, <2>5, <1>1 DEF Known
  <2>7. InFlight' \subseteq InFlight
    <3>1. msg # None /\ msg \in InFlight
      BY <1>2, NilAssumption DEF InFlight
    <3>2. ASSUME NEW r \in Subscriber
          PROVE  Elems(inbox'[r]) \subseteq Elems(inbox[r]) \cup {msg}
      BY <2>1, <2>2
    <3>3. \A r \in Subscriber : Elems(inbox[r]) \subseteq InFlight
      BY DEF InFlight
    <3>4. \A r \in Subscriber : Elems(inbox'[r]) \subseteq InFlight
      BY <3>1, <3>2, <3>3
    <3>5. Elems(publishCh') \subseteq InFlight /\ (msg' # None => msg' \in InFlight)
      BY <3>1, <1>1 DEF InFlight
    <3> QED
      BY <3>4, <3>5 DEF InFlight
  <2>8. ASSUME ChainInv
        PROVE  ChainInv'
    <3>1. CASE s = "observer"
      <4>1. ChainOf(Past, inbox'["observer"], {}, publishCh)
        BY <3>1, <2>1, <2>8, <1>2, <1>3, ChainDeliver DEF ChainInv
      <4> QED
        BY <4>1, <3>1, <2>5, <1>1, <1>3 DEF ChainInv
    <3>2. CASE s # "observer"
      BY <3>2, <2>1, <2>5, <2>8, <1>1, <1>3, <1>4 DEF ChainInv
    <3> QED
      BY <3>1, <3>2
  <2>9. ASSUME NEW t, NEW r \in Subscriber, NEW lo, NEW hi, Stream(t, r, lo, hi)
        PROVE  StreamOf(t, inbox'[r], Pending(r)', publishCh', lo, hi)
    <3>1. CASE r = s
      <4>1. StreamOf(t, inbox[s], {msg}, publishCh, lo, hi)
        BY <3>1, <2>9, <1>3 DEF Stream
      <4>2. StreamOf(t, inbox'[s], {}, publishCh, lo, hi)
        BY <4>1, <2>1, <1>2, StreamDeliver
      <4> QED
        BY <4>2, <3>1, <1>1, <1>3
    <3>2. CASE r # s
      BY <3>2, <2>1, <2>9, <1>1, <1>3 DEF Stream
    <3> QED
      BY <3>1, <3>2
  <2> QED
    BY <2>4, <2>6, <2>7, <2>8, <2>9, <1>1 DEF MessagesKept
<1>6. CASE /\ missed' = [missed EXCEPT ![s] = @ \cup ({msg} \cap Wants(s))]
           /\ UNCHANGED inbox
  <2>1. BrokerType'
    BY <1>1, <1>2, <1>6
  <2>2. Past \subseteq Past' /\ (s = "observer" => {msg} \cap Looked \subseteq Past')
    BY <1>1, <1>4, <1>6 DEF Past, Looked
  <2>3. Known \cap Looked \subseteq Known'
    <3>1. CASE s = "observer"
      BY <3>1, <2>2, <1>1, <1>3, <1>6 DEF Known
    <3>2. CASE s # "observer"
      BY <3>2, <2>2, <1>1, <1>3, <1>4, <1>6 DEF Known
    <3> QED
      BY <3>1, <3>2
  <2>4. InFlight' \subseteq InFlight
    BY <1>1, <1>6 DEF InFlight
  <2>5. ASSUME ChainInv
        PROVE  ChainInv'
    <3>1. CASE s = "observer"
      <4>1. ChainOf(Past', inbox["observer"], {}, publishCh)
        BY <3>1, <2>2, <2>5, <1>2, <1>3, ChainDrop DEF ChainInv
      <4> QED
        BY <4>1, <3>1, <1>1, <1>3, <1>6 DEF ChainInv
    <3>2. CASE s # "observer"
      <4>1. ChainOf(Past', inbox["observer"], Pending("observer"), publishCh)
        BY <2>2, <2>5, <1>4, PendingType, ChainGrow DEF ChainInv
      <4> QED
        BY <4>1, <3>2, <1>1, <1>3, <1>4, <1>6 DEF ChainInv
    <3> QED
      BY <3>1, <3>2
  <2>6. ASSUME NEW t, NEW r \in Subscriber, NEW lo, NEW hi, Stream(t, r, lo, hi)
        PROVE  StreamOf(t, inbox'[r], Pending(r)', publishCh', lo, hi)
    <3>1. CASE r = s
      BY <3>1, <2>6, <1>1, <1>3, <1>6, StreamDrop DEF Stream
    <3>2. CASE r # s
      BY <3>2, <2>6, <1>1, <1>3, <1>6 DEF Stream
    <3> QED
      BY <3>1, <3>2
  <2> QED
    BY <2>1, <2>3, <2>4, <2>5, <2>6, <1>1 DEF MessagesKept
<1> QED
  BY <1>5, <1>6 DEF Deliver

\* A subscriber receives the first event of its channel.
LEMMA MessageReceived ==
  ASSUME BrokerType, NEW s \in Subscriber, inbox[s] # <<>>,
         inbox' = [inbox EXCEPT ![s] = Tail(@)],
         UNCHANGED <<publishCh, msg, left, members, missed>>,
         seen' = IF s = "observer" THEN seen \cup ({Head(inbox[s])} \cap Wants(s)) ELSE seen
  PROVE  /\ MessagesKept
         /\ Received(inbox'[s], inbox[s]) /\ Head(inbox[s]) = inbox[s][1]
         /\ inbox[s][1] \in Event /\ inbox[s][1] \in InFlight
         /\ s = "observer" /\ ChainInv => Follows(inbox[s][1], Past)
         /\ \A r : Pending(r)' = Pending(r)
<1> USE DEF BrokerType
<1>1. \A r : Pending(r)' = Pending(r)
  BY DEF Pending
<1>2. /\ Received(inbox'[s], inbox[s]) /\ Head(inbox[s]) = inbox[s][1]
      /\ inbox[s][1] \in Event /\ inbox[s][1] \in Elems(inbox[s])
  BY ReceivedIs
<1>3. \A r \in Subscriber \ {s} : inbox'[r] = inbox[r]
  OBVIOUS
<1>4. Elems(inbox[s]) = {inbox[s][1]} \cup Elems(inbox'[s]) /\ inbox[s] \in Seq(Event)
  BY <1>2, ReceivedElems
<1>5. BrokerType'
  <2>1. Tail(inbox[s]) \in Seq(Event)
    BY HeadTailProperties
  <2>2. inbox' \in [Subscriber -> Seq(Event)]
    BY <2>1
  <2>3. seen' \in SUBSET Event
    BY <1>2
  <2> QED
    BY <2>2, <2>3
<1>6. inbox[s][1] \in InFlight /\ InFlight' \subseteq InFlight
  BY <1>2, <1>3, <1>4 DEF InFlight
<1>7. seen' \subseteq seen \cup InFlight
  BY <1>2, <1>6
<1>8. Past \subseteq Past' /\ (s = "observer" => {inbox[s][1]} \cap Looked \subseteq Past')
  BY <1>2 DEF Past, Looked
<1>9. "observer" \in Subscriber
  BY DEF Subscriber
<1>10. Known \cap Looked \subseteq Known'
  <2>1. CASE s = "observer"
    BY <2>1, <1>1, <1>4, <1>8 DEF Known
  <2>2. CASE s # "observer"
    BY <2>2, <1>1, <1>3, <1>8, <1>9 DEF Known
  <2> QED
    BY <2>1, <2>2
<1>11. ASSUME ChainInv
       PROVE  ChainInv' /\ (s = "observer" => Follows(inbox[s][1], Past))
  <2>1. CASE s = "observer"
    <3>1. ChainOf(Past, inbox[s], Pending(s), publishCh)
      BY <2>1, <1>11 DEF ChainInv
    <3>2. ChainOf(Past', inbox'[s], Pending(s), publishCh) /\ Follows(inbox[s][1], Past)
      BY <2>1, <3>1, <1>2, <1>4, <1>8, PendingType, ChainReceive
    <3> QED
      BY <2>1, <3>2, <1>1 DEF ChainInv
  <2>2. CASE s # "observer"
    <3>1. ChainOf(Past', inbox["observer"], Pending("observer"), publishCh)
      BY <1>8, <1>9, <1>11, PendingType, ChainGrow DEF ChainInv
    <3> QED
      BY <2>2, <3>1, <1>1, <1>3, <1>9 DEF ChainInv
  <2> QED
    BY <2>1, <2>2
<1>12. ASSUME NEW t, NEW r \in Subscriber, NEW lo, NEW hi, Stream(t, r, lo, hi)
       PROVE  StreamOf(t, inbox'[r], Pending(r)', publishCh', lo, hi)
  <2>1. CASE r = s
    BY <2>1, <1>1, <1>2, <1>4, <1>12, PendingType, StreamReceive DEF Stream
  <2>2. CASE r # s
    BY <2>2, <1>1, <1>3, <1>12 DEF Stream
  <2> QED
    BY <2>1, <2>2
<1> QED
  BY <1>1, <1>2, <1>5, <1>6, <1>7, <1>10, <1>11, <1>12 DEF MessagesKept
-----------------------------------------------------------------------------
(* What the steps do to the invariant *)

Starting == {"start", "start?", "started"}
MessageInv == BrokerType /\ OrderInv /\ ReadyInv /\ ChainInv /\ KnownInv

\* The events a handler may publish for its connection are events.
LEMMA KnownEvents ==
  ASSUME IInv
  PROVE  /\ pc["loader"] # "wait" => \A k \in Kind : Ev(k, job["loader"]) \in Event
         /\ pc["starter"] # "wait" => \A k \in Kind : Ev(k, job["starter"]) \in Event
         /\ job["loader"] \in Nat /\ vclMapping \in Nat /\ conn \in Nat /\ MaxConns \in Nat
         /\ job["loader"] \in 0..MaxConns /\ vclMapping \in 0..MaxConns
BY StartupAssumption DEF IInv, TypeInv, ProcType, Proc, Ev, Event

\* What was known stays known.
LEMMA StillKnown ==
  ASSUME IInv, MessagesKept
  PROVE  /\ \A e \in InFlight' : e.type # "ProcessError" => e \in Known'
         /\ \A e \in InFlight : e.type # "ProcessError" => e \in Known'
         /\ pc["loader"] \in InLoadVCL => Ev("Connected", job["loader"]) \in Known'
         /\ pc["starter"] \in Starting => Ev("VCLLoaded", job["starter"]) \in Known'
         /\ pc["starter"] = "ready" => Ev("CacheStarted", job["starter"]) \in Known'
<1>1. /\ InFlight' \subseteq InFlight /\ Known \cap Looked \subseteq Known' /\ InFlight \subseteq Event
      /\ KnownInv
  BY InFlightType DEF IInv, TypeInv, MessagesKept
<1>2. \A e \in InFlight : e.type # "ProcessError" => e \in Known'
  BY <1>1, LookedIs DEF KnownInv
<1>3. pc["loader"] \in InLoadVCL => Ev("Connected", job["loader"]) \in Known'
  <2> SUFFICES ASSUME pc["loader"] \in InLoadVCL
               PROVE  Ev("Connected", job["loader"]) \in Known'
    OBVIOUS
  <2>1. Ev("Connected", job["loader"]) \in Event
    BY KnownEvents DEF InLoadVCL, Sending, Waiting, Kind
  <2>2. Ev("Connected", job["loader"]) \in Looked
    BY <2>1, LookedIs DEF Ev
  <2> QED
    BY <1>1, <2>2 DEF KnownInv
<1>4. pc["starter"] \in Starting => Ev("VCLLoaded", job["starter"]) \in Known'
  <2> SUFFICES ASSUME pc["starter"] \in Starting
               PROVE  Ev("VCLLoaded", job["starter"]) \in Known'
    OBVIOUS
  <2>1. Ev("VCLLoaded", job["starter"]) \in Event
    BY KnownEvents DEF Starting, Kind
  <2>2. Ev("VCLLoaded", job["starter"]) \in Looked
    BY <2>1, LookedIs DEF Ev
  <2> QED
    BY <1>1, <2>2 DEF KnownInv, Starting
<1>5. pc["starter"] = "ready" => Ev("CacheStarted", job["starter"]) \in Known'
  <2> SUFFICES ASSUME pc["starter"] = "ready"
               PROVE  Ev("CacheStarted", job["starter"]) \in Known'
    OBVIOUS
  <2>1. Ev("CacheStarted", job["starter"]) \in Event
    BY KnownEvents DEF Kind
  <2>2. Ev("CacheStarted", job["starter"]) \in Looked
    BY <2>1, LookedIs DEF Ev
  <2> QED
    BY <1>1, <2>2 DEF KnownInv
<1> QED
  BY <1>1, <1>2, <1>3, <1>4, <1>5

\* A step that publishes nothing and handles no new event.
LEMMA QuietKeeps ==
  ASSUME IInv, MessagesKept, UNCHANGED <<job, vclMapping>>, conn' \in Nat, conn <= conn',
         child => child',
         pc'["loader"] \in InLoadVCL => pc["loader"] \in InLoadVCL,
         pc'["starter"] \in Starting => pc["starter"] \in Starting,
         pc'["starter"] = "ready" => pc["starter"] = "ready"
  PROVE  MessageInv'
<1>1. /\ BrokerType /\ OrderInv /\ ReadyInv /\ ChainInv /\ KnownInv
      /\ job["loader"] \in Nat /\ vclMapping \in Nat /\ conn \in Nat
  BY KnownEvents DEF IInv, TypeInv
<1>2. BrokerType' /\ ChainInv'
  BY <1>1 DEF MessagesKept
<1>3. OrderInv'
  <2>1. "loader" \in Subscriber /\ "starter" \in Subscriber
    BY DEF Subscriber, Proc
  <2>2. StreamOf("Connected", inbox'["loader"], Pending("loader")', publishCh', job["loader"], conn)
    BY <1>1, <2>1 DEF MessagesKept, OrderInv
  <2>3. StreamOf("VCLLoaded", inbox'["starter"], Pending("starter")', publishCh',
                 vclMapping, job["loader"])
    BY <1>1, <2>1 DEF MessagesKept, OrderInv
  <2>4. /\ inbox'["loader"] \in Seq(Event) /\ publishCh' \in Seq(Event)
        /\ Pending("loader")' \in SUBSET Event
    BY <1>2, <2>1 DEF BrokerType, Pending
  <2>5. StreamOf("Connected", inbox'["loader"], Pending("loader")', publishCh', job["loader"], conn')
    BY <1>1, <2>2, <2>4, StreamRaise
  <2> QED
    BY <1>1, <2>3, <2>5 DEF OrderInv, Stream
<1>4. ReadyInv'
  BY <1>1 DEF ReadyInv, MessagesKept
<1>5. KnownInv'
  BY StillKnown DEF KnownInv, Starting
<1> QED
  BY <1>2, <1>3, <1>4, <1>5 DEF MessageInv

\* A step that publishes.
LEMMA PublishKeeps ==
  ASSUME IInv, NEW e \in Event, Publish(e),
         UNCHANGED <<msg, left, members, inbox, seen, job, vclMapping, conn, child>>,
         e.type = "Connected" => e.n = conn,
         e.type = "VCLLoaded" => e.n = job["loader"],
         e.type = "Ready" => child /\ e.n = vclMapping,
         Follows(e, Known),
         pc'["loader"] \in InLoadVCL => pc["loader"] \in InLoadVCL,
         pc'["starter"] \in Starting => pc["starter"] \in Starting,
         pc'["starter"] = "ready" =>
           pc["starter"] = "ready" \/ e = Ev("CacheStarted", job["starter"])
  PROVE  MessageInv'
<1>1. /\ BrokerType /\ OrderInv /\ ReadyInv /\ ChainInv /\ KnownInv
      /\ job["loader"] \in Nat /\ vclMapping \in Nat /\ conn \in Nat
  BY KnownEvents DEF IInv, TypeInv
<1>2. /\ BrokerType' /\ ChainInv'
      /\ InFlight' \subseteq InFlight \cup {e} /\ seen' = seen
      /\ Known \subseteq Known' /\ {e} \cap Looked \subseteq Known'
      /\ \A t, s : \A lo \in Nat, hi \in Nat :
           s \in Subscriber /\ Stream(t, s, lo, hi) /\ (e.type = t => e.n = hi /\ lo <= hi)
             => StreamOf(t, inbox'[s], Pending(s)', publishCh', lo, hi)
  BY <1>1, MessagePublished
<1>3. OrderInv'
  <2>1. "loader" \in Subscriber /\ "starter" \in Subscriber
    BY DEF Subscriber, Proc
  <2>2. StreamOf("Connected", inbox'["loader"], Pending("loader")', publishCh', job["loader"], conn)
    <3>1. job["loader"] <= conn /\ Stream("Connected", "loader", job["loader"], conn)
      BY <1>1 DEF OrderInv
    <3> QED
      BY <1>1, <1>2, <2>1, <3>1
  <2>3. StreamOf("VCLLoaded", inbox'["starter"], Pending("starter")', publishCh',
                 vclMapping, job["loader"])
    <3>1. vclMapping <= job["loader"] /\ Stream("VCLLoaded", "starter", vclMapping, job["loader"])
      BY <1>1 DEF OrderInv
    <3> QED
      BY <1>1, <1>2, <2>1, <3>1
  <2> QED
    BY <1>1, <2>2, <2>3 DEF OrderInv, Stream
<1>4. ReadyInv'
  BY <1>1, <1>2 DEF ReadyInv
<1>5. \A f \in InFlight' : f.type # "ProcessError" => f \in Known'
  BY <1>1, <1>2, LookedIs DEF KnownInv
<1>6. pc'["starter"] = "ready" => Ev("CacheStarted", job["starter"]) \in Known'
  <2>1. e = Ev("CacheStarted", job["starter"]) => e \in Known'
    BY <1>2, LookedIs DEF Ev
  <2> QED
    BY <1>1, <1>2, <2>1 DEF KnownInv
<1>7. KnownInv'
  BY <1>1, <1>2, <1>5, <1>6 DEF KnownInv, Starting
<1> QED
  BY <1>2, <1>3, <1>4, <1>7 DEF MessageInv

\* A step that leaves the calls alone: no caller stops waiting.
LEMMA CallsKept ==
  ASSUME IInv, UNCHANGED <<reqCh, cur, child>>, srv' = "answer" => srv = "answer",
         \A p \in Proc : pc[p] \in Waiting => pc'[p] \in Waiting,
         pc'["starter"] \in {"started", "ready"} => pc["starter"] \in {"started", "ready"}
  PROVE  CallInv'
<1>1. CallInv
  BY DEF IInv
<1>2. cur # None => cur.by \in Proc
  BY <1>1 DEF CallInv, Answer
<1>3. \A r \in Elems(reqCh) : r.by \in Proc
  <2>1. \A i \in 1..Len(reqCh) : reqCh[i] \in Request
    BY <1>1, ElementOfSeq DEF CallInv
  <2> QED
    BY <2>1 DEF Elems, Request
<1>4. Elems(reqCh)' = Elems(reqCh)
  BY DEF Elems
<1> QED
  BY <1>1, <1>2, <1>3, <1>4 DEF CallInv
-----------------------------------------------------------------------------
(* Init and the steps *)

\* The parts of the invariant that the steps below are shown to keep.
LEMMA Parts ==
  ASSUME MessageInv', ProcType', CallInv', DirInv'
  PROVE  IInv'
BY DEF IInv, TypeInv, MessageInv

\* Nothing has happened.
LEMMA InitInv ==
  Init => IInv
<1> SUFFICES ASSUME Init PROVE IInv
  OBVIOUS
<1>1. Len(<<>>) = 0 /\ <<>> \in Seq(Event) /\ <<>> \in Seq(Request)
  BY EmptySeq
<1>2. Elems(<<>>) = {}
  BY <1>1 DEF Elems
<1>3. \A s \in Subscriber : inbox[s] = <<>>
  BY DEF Init
<1>4. "loader" \in Subscriber /\ "starter" \in Subscriber /\ "observer" \in Subscriber
      /\ "loader" \in Proc /\ "starter" \in Proc
  BY DEF Subscriber, Proc
<1>5. \A s : Pending(s) = {}
  BY DEF Init, Pending
<1>6. BrokerType
  BY <1>1 DEF Init, BrokerType
<1>7. ProcType
  <2>1. 0 \in 0..MaxConns
    BY StartupAssumption
  <2>2. pc = [p \in Proc |-> "wait"] /\ job = [p \in Proc |-> 0] /\ vclMapping = 0
        /\ srv = "accept" /\ conn = 0
    BY DEF Init
  <2>3. pc \in [Proc -> LoaderPC \cup StarterPC] /\ \A p \in Proc : pc[p] = "wait"
    BY <2>2 DEF LoaderPC, StarterPC
  <2>4. job \in [Proc -> 0..MaxConns] /\ job["starter"] = 0
    BY <2>1, <2>2, <1>4
  <2> QED
    BY <2>1, <2>2, <2>3, <2>4, <1>4 DEF ProcType, LoaderPC, StarterPC
<1>8. CallInv
  BY <1>1, <1>2, <1>4 DEF Init, CallInv
<1>9. DirInv
  BY DEF Init, DirInv, CwdRestored
<1>10. InFlight = {}
  BY <1>2, <1>3 DEF Init, InFlight
<1>11. OrderInv
  <2>1. \A t, lo, hi : StreamOf(t, <<>>, {}, <<>>, lo, hi)
    BY <1>1, <1>2 DEF StreamOf
  <2>2. job["loader"] = 0 /\ conn = 0 /\ vclMapping = 0 /\ publishCh = <<>>
    BY <1>4 DEF Init
  <2>3. \A s \in Subscriber : \A t, lo, hi : Stream(t, s, lo, hi)
    BY <2>1, <2>2, <1>3, <1>5 DEF Stream
  <2> QED
    BY <2>2, <2>3, <1>4 DEF OrderInv
<1>12. ReadyInv
  BY <1>10 DEF Init, ReadyInv
<1>13. ChainInv
  <2>1. ChainOf(Past, <<>>, {}, <<>>)
    BY <1>1 DEF ChainOf
  <2> QED
    BY <2>1, <1>3, <1>4, <1>5 DEF Init, ChainInv
<1>14. KnownInv
  <2>1. pc["loader"] = "wait" /\ pc["starter"] = "wait"
    BY <1>4 DEF Init
  <2> QED
    BY <2>1, <1>10 DEF KnownInv, InLoadVCL, Sending, Waiting
<1> QED
  BY <1>6, <1>7, <1>8, <1>9, <1>11, <1>12, <1>13, <1>14 DEF IInv, TypeInv

\* The broker, the observer and varnishd's connecting leave the processes alone.
LEMMA ProcsUntouched ==
  ASSUME IInv, MessagesKept, UNCHANGED <<srv, conn, reqCh, cur, child, pc, job, vclMapping,
                                         cwd, original>>
  PROVE  IInv'
<1>1. MessageInv'
  <2>1. conn' \in Nat /\ conn <= conn'
    BY KnownEvents
  <2> QED
    BY <2>1, QuietKeeps
<1>2. ProcType'
  BY DEF IInv, TypeInv, ProcType
<1>3. CallInv'
  BY CallsKept
<1>4. DirInv'
  BY DEF IInv, DirInv, CwdRestored
<1> QED
  BY <1>1, <1>2, <1>3, <1>4, Parts

\* The broker's steps.
LEMMA BrokerKeeps ==
  ASSUME IInv, BrokerStep
  PROVE  IInv'
<1>1. BrokerType
  BY DEF IInv, TypeInv
<1>2. MessagesKept
  BY <1>1, BrokerTakes, BrokerRegisters, BrokerDelivers DEF BrokerStep
<1>3. UNCHANGED <<srv, conn, reqCh, cur, child, pc, job, vclMapping, cwd, original>>
  BY DEF BrokerStep, TakeMessage, Register, Deliver, srvVars, dirVars
<1> QED
  BY <1>2, <1>3, ProcsUntouched

\* The observer reads an event.
LEMMA ObserveKeeps ==
  ASSUME IInv, Observe
  PROVE  IInv'
<1>1. BrokerType /\ "observer" \in Subscriber
  BY DEF IInv, TypeInv, Subscriber
<1>2. MessagesKept
  BY <1>1, MessageReceived DEF Observe, brokerVars
<1>3. UNCHANGED <<srv, conn, reqCh, cur, child, pc, job, vclMapping, cwd, original>>
  BY DEF Observe, srvVars, dirVars
<1> QED
  BY <1>2, <1>3, ProcsUntouched

\* A step of something else changes nothing.
LEMMA StutterKeeps ==
  ASSUME IInv, UNCHANGED vars
  PROVE  IInv'
<1>1. BrokerType
  BY DEF IInv, TypeInv
<1>2. MessagesKept
  BY <1>1, MessagesSame DEF vars
<1> QED
  BY <1>2, ProcsUntouched DEF vars

\* varnishd connects, or connects again.
LEMMA AcceptKeeps ==
  ASSUME IInv, Accept
  PROVE  IInv'
<1>1. /\ srv = "accept" /\ conn < MaxConns /\ srv' = "publish" /\ conn' = conn + 1
      /\ UNCHANGED <<reqCh, cur, child, publishCh, msg, left, members, inbox, pc, job,
                     vclMapping, cwd, original, seen, missed>>
  BY DEF Accept, brokerVars, dirVars
<1>2. BrokerType
  BY DEF IInv, TypeInv
<1>3. MessagesKept
  BY <1>1, <1>2, MessagesSame
<1>4. conn' \in Nat /\ conn <= conn' /\ conn' \in Conns /\ conn' \in 0..MaxConns
  BY <1>1, KnownEvents DEF Conns
<1>5. MessageInv'
  BY <1>1, <1>3, <1>4, QuietKeeps
<1>6. ProcType'
  BY <1>1, <1>4 DEF IInv, TypeInv, ProcType
<1>7. CallInv'
  BY <1>1, CallsKept
<1>8. DirInv'
  BY <1>1 DEF IInv, DirInv, CwdRestored
<1> QED
  BY <1>5, <1>6, <1>7, <1>8, Parts

\* The server authenticates and publishes the connection.
LEMMA ReadBannerKeeps ==
  ASSUME IInv, ReadBanner
  PROVE  IInv'
<1> DEFINE e == Ev("Connected", conn)
<1>1. /\ srv = "publish" /\ srv' = "serve" /\ Publish(e)
      /\ UNCHANGED <<msg, left, members, inbox, seen, job, vclMapping, conn, child,
                     reqCh, cur, pc, cwd, original>>
  BY DEF ReadBanner, dirVars
<1>2. e \in Event /\ e.type = "Connected" /\ e.n = conn
  BY <1>1 DEF IInv, TypeInv, ProcType, Ev, Event, Kind
<1>3. Follows(e, Known)
  BY <1>2 DEF Follows, Before
<1> HIDE DEF e
<1>4. MessageInv'
  BY <1>1, <1>2, <1>3, PublishKeeps
<1>5. ProcType'
  BY <1>1 DEF IInv, TypeInv, ProcType
<1>6. CallInv'
  BY <1>1, CallsKept
<1>7. DirInv'
  BY <1>1 DEF IInv, DirInv, CwdRestored
<1> QED
  BY <1>4, <1>5, <1>6, <1>7, Parts

\* A handler queues a command.
LEMMA ExecSendKeeps ==
  ASSUME IInv, NEW p \in Proc, ExecSend(p)
  PROVE  IInv'
<1> USE DEF Proc
<1>1. /\ pc[p] \in Sending /\ reqCh = <<>>
      /\ reqCh' = <<[by |-> p, cmd |-> pc[p], live |-> TRUE]>>
      /\ pc' = [pc EXCEPT ![p] = WaitingFor[@]]
      /\ UNCHANGED <<srv, conn, cur, child, publishCh, msg, left, members, inbox, job,
                     vclMapping, cwd, original, seen, missed>>
  BY DEF ExecSend, brokerVars, dirVars
<1>2. BrokerType /\ ProcType /\ CallInv /\ DirInv
  BY DEF IInv, TypeInv
<1>3. /\ pc'[p] = WaitingFor[pc[p]] /\ \A r \in Proc \ {p} : pc'[r] = pc[r]
      /\ WaitingFor[pc[p]] \in Waiting
      /\ p = "starter" => pc[p] = "start" /\ WaitingFor[pc[p]] = "start?"
      /\ p = "loader" => pc[p] \in {"use", "show"} /\ WaitingFor[pc[p]] \in {"use?", "show?"}
  BY <1>1, <1>2 DEF ProcType, Sending, WaitingFor, Waiting, LoaderPC, StarterPC
<1>4. MessageInv'
  <2>1. MessagesKept
    BY <1>1, <1>2, MessagesSame
  <2>2. conn' \in Nat /\ conn <= conn'
    BY <1>1, KnownEvents
  <2>3. pc'["loader"] \in InLoadVCL => pc["loader"] \in InLoadVCL
    BY <1>1, <1>3 DEF InLoadVCL
  <2>4. /\ pc'["starter"] \in Starting => pc["starter"] \in Starting
        /\ pc'["starter"] = "ready" => pc["starter"] = "ready"
    BY <1>1, <1>3 DEF Starting
  <2> QED
    BY <1>1, <2>1, <2>2, <2>3, <2>4, QuietKeeps
<1>5. ProcType'
  <2>1. pc' \in [Proc -> LoaderPC \cup StarterPC]
    BY <1>1, <1>2, <1>3 DEF ProcType, LoaderPC, StarterPC
  <2>2. pc'["loader"] \in LoaderPC /\ pc'["starter"] \in StarterPC
    BY <1>2, <1>3 DEF ProcType, LoaderPC, StarterPC
  <2>3. \A r \in Proc : pc'[r] # "wait" => pc[r] # "wait"
    BY <1>1, <1>3 DEF Sending
  <2> QED
    BY <1>1, <1>2, <2>1, <2>2, <2>3 DEF ProcType
<1>6. CallInv'
  <2> DEFINE q == [by |-> p, cmd |-> pc[p], live |-> TRUE]
  <2>1. q \in Request /\ q.by = p /\ q.cmd = pc[p]
    BY <1>1 DEF Request
  <2>2. reqCh' = <<q>>
    BY <1>1
  <2> HIDE DEF q
  <2>3. reqCh' \in Seq(Request) /\ Len(reqCh') = 1 /\ reqCh'[1] = q
    BY <2>1, <2>2
  <2>4. Elems(reqCh') = {q}
    BY <2>3 DEF Elems
  <2>5. q.by = "starter" <=> q.cmd = "start"
    BY <2>1, <1>3
  <2>6. pc'[q.by] \in Waiting
    BY <2>1, <1>3
  <2>7. cur # None => cur.by \in Proc /\ (cur.live => pc[cur.by] \in Waiting)
    BY <1>2 DEF CallInv, Answer
  <2>8. pc[p] \notin Waiting
    BY <1>1 DEF Sending, Waiting
  <2>9. cur # None => ~(cur.live /\ cur.by = q.by)
    BY <2>1, <2>7, <2>8
  <2>10. cur # None /\ cur.live => pc'[cur.by] \in Waiting
    BY <1>3, <2>7
  <2>11. pc'["starter"] \in {"started", "ready"} => child
    BY <1>2, <1>3 DEF CallInv
  <2>12. srv' = srv /\ cur' = cur /\ (child <=> child')
    BY <1>1
  <2>13. \A r \in Elems(reqCh)' :
           /\ r.by = "starter" <=> r.cmd = "start"
           /\ r.live => pc'[r.by] \in Waiting
           /\ r.live /\ cur' # None => ~(cur'.live /\ cur'.by = r.by)
    BY <2>4, <2>5, <2>6, <2>9, <2>12
  <2>14. cur' # None => /\ cur'.live => pc'[cur'.by] \in Waiting
                        /\ cur'.by = "starter" /\ cur'.status # 106 => child'
    BY <1>2, <2>10, <2>12 DEF CallInv
  <2>15. cur' \in Answer \cup {None} /\ (srv' = "answer" => cur' # None)
    BY <1>2, <2>12 DEF CallInv
  <2> QED
    BY <2>3, <2>11, <2>12, <2>13, <2>14, <2>15 DEF CallInv
<1>7. DirInv'
  BY <1>1, <1>2, <1>3 DEF DirInv, CwdRestored, InLoadVCL
<1> QED
  BY <1>4, <1>5, <1>6, <1>7, Parts

\* A handler gives up on its command.
LEMMA ExecTimeoutKeeps ==
  ASSUME IInv, NEW p \in Proc, ExecTimeout(p)
  PROVE  IInv'
<1> USE DEF Proc
<1>1. /\ pc[p] \in Waiting
      /\ pc' = [pc EXCEPT ![p] = IF p = "loader" THEN "restore!" ELSE "error"]
      /\ reqCh' = [i \in DOMAIN reqCh |-> [reqCh[i] EXCEPT !.live = @ /\ reqCh[i].by # p]]
      /\ cur' = IF cur = None THEN None ELSE [cur EXCEPT !.live = @ /\ cur.by # p]
      /\ UNCHANGED <<srv, conn, child, publishCh, msg, left, members, inbox, job,
                     vclMapping, cwd, original, seen, missed>>
  BY DEF ExecTimeout, brokerVars, dirVars
<1>2. BrokerType /\ ProcType /\ CallInv /\ DirInv
  BY DEF IInv, TypeInv
<1>3. /\ pc'[p] = IF p = "loader" THEN "restore!" ELSE "error"
      /\ \A r \in Proc \ {p} : pc'[r] = pc[r]
  BY <1>1, <1>2 DEF ProcType
<1>4. MessageInv'
  <2>1. MessagesKept
    BY <1>1, <1>2, MessagesSame
  <2>2. conn' \in Nat /\ conn <= conn'
    BY <1>1, KnownEvents
  <2>3. pc'["loader"] \in InLoadVCL => pc["loader"] \in InLoadVCL
    BY <1>1, <1>3 DEF InLoadVCL
  <2>4. /\ pc'["starter"] \in Starting => pc["starter"] \in Starting
        /\ pc'["starter"] = "ready" => pc["starter"] = "ready"
    BY <1>1, <1>3 DEF Starting
  <2> QED
    BY <1>1, <2>1, <2>2, <2>3, <2>4, QuietKeeps
<1>5. ProcType'
  <2>1. pc' \in [Proc -> LoaderPC \cup StarterPC]
    BY <1>1, <1>2, <1>3 DEF ProcType, LoaderPC, StarterPC
  <2>2. pc'["loader"] \in LoaderPC /\ pc'["starter"] \in StarterPC
    BY <1>2, <1>3 DEF ProcType, LoaderPC, StarterPC
  <2>3. \A r \in Proc : pc'[r] # "wait" => pc[r] # "wait"
    BY <1>1, <1>3 DEF Waiting
  <2> QED
    BY <1>1, <1>2, <2>1, <2>2, <2>3 DEF ProcType
<1>6. CallInv'
  <2>1. reqCh \in Seq(Request) /\ Len(reqCh) \in Nat /\ DOMAIN reqCh = 1..Len(reqCh)
        /\ \A i \in 1..Len(reqCh) : reqCh[i] \in Request
    BY <1>2, LenProperties, ElementOfSeq DEF CallInv
  <2>2. ASSUME NEW i \in 1..Len(reqCh)
        PROVE  /\ reqCh'[i] \in Request
               /\ reqCh'[i].by = reqCh[i].by /\ reqCh'[i].cmd = reqCh[i].cmd
               /\ reqCh'[i].live => reqCh[i].live /\ reqCh[i].by # p
    <3>1. reqCh'[i] = [reqCh[i] EXCEPT !.live = reqCh[i].live /\ reqCh[i].by # p]
      BY <1>1, <2>1
    <3>2. reqCh[i] \in [by : Proc, cmd : Sending, live : BOOLEAN]
      BY <2>1 DEF Request
    <3>3. /\ reqCh'[i] \in [by : Proc, cmd : Sending, live : BOOLEAN]
          /\ reqCh'[i].by = reqCh[i].by /\ reqCh'[i].cmd = reqCh[i].cmd
      BY <3>1, <3>2
    <3>4. reqCh'[i].live = (reqCh[i].live /\ reqCh[i].by # p)
      BY <3>1, <3>2
    <3> QED
      BY <3>3, <3>4 DEF Request
  <2>3. reqCh' = [i \in 1..Len(reqCh) |-> reqCh'[i]]
    BY <1>1, <2>1
  <2>4. reqCh' \in Seq(Request) /\ Len(reqCh') = Len(reqCh)
    BY <2>1, <2>2, <2>3
  <2>5. ASSUME cur # None
        PROVE  /\ cur' \in Answer /\ cur'.by = cur.by /\ cur'.status = cur.status
               /\ cur'.live => cur.live /\ cur.by # p
    <3>1. cur' = [cur EXCEPT !.live = cur.live /\ cur.by # p]
      BY <1>1, <2>5
    <3>2. cur \in [by : Proc, live : BOOLEAN, status : {106, 200, 300}]
      BY <1>2, <2>5 DEF CallInv, Answer
    <3>a. PICK b : b = (cur.live /\ cur.by # p)
      OBVIOUS
    <3>b. b \in BOOLEAN /\ cur' = [cur EXCEPT !.live = b]
      BY <3>a, <3>1, Zenon
    <3>3. /\ cur' \in [by : Proc, live : BOOLEAN, status : {106, 200, 300}]
          /\ cur'.by = cur.by /\ cur'.status = cur.status
      BY <3>b, <3>2
    <3>4. cur'.live = (cur.live /\ cur.by # p)
      BY <3>1, <3>2
    <3> QED
      BY <3>3, <3>4 DEF Answer
  <2>6. cur' # None <=> cur # None
    BY <1>1, <2>5, NilAssumption
  <2>7. cur # None => cur.by \in Proc
    BY <1>2 DEF CallInv, Answer
  <2>8. ASSUME NEW r \in Elems(reqCh')
        PROVE  /\ r.by = "starter" <=> r.cmd = "start"
               /\ r.live => pc'[r.by] \in Waiting
               /\ r.live /\ cur' # None => ~(cur'.live /\ cur'.by = r.by)
    <3>1. PICK i \in 1..Len(reqCh) : r = reqCh'[i]
      BY <2>4 DEF Elems
    <3>2. PICK o \in Elems(reqCh) : o = reqCh[i]
      BY DEF Elems
    <3>3. o.by \in Proc
      BY <2>1, <3>2 DEF Request
    <3>4. r.by = o.by /\ r.cmd = o.cmd /\ (r.live => o.live /\ o.by # p)
      BY <2>2, <3>1, <3>2
    <3>5. r.live => pc'[r.by] \in Waiting
      BY <1>2, <1>3, <3>3, <3>4 DEF CallInv
    <3> QED
      BY <1>2, <2>5, <2>6, <3>4, <3>5 DEF CallInv
  <2>9. cur' # None => /\ cur'.live => pc'[cur'.by] \in Waiting
                       /\ cur'.by = "starter" /\ cur'.status # 106 => child
    BY <1>2, <1>3, <2>5, <2>6, <2>7 DEF CallInv
  <2>10. pc'["starter"] \in {"started", "ready"} => child
    BY <1>2, <1>3 DEF CallInv
  <2>11. cur' \in Answer \cup {None} /\ (srv' = "answer" => cur' # None)
    BY <1>1, <1>2, <2>5, <2>6 DEF CallInv
  <2> QED
    BY <1>1, <1>2, <2>4, <2>8, <2>9, <2>10, <2>11 DEF CallInv
<1>7. DirInv'
  BY <1>1, <1>2, <1>3 DEF DirInv, CwdRestored, InLoadVCL
<1> QED
  BY <1>4, <1>5, <1>6, <1>7, Parts

\* The server goroutine runs the next command, or loses the connection on it.
LEMMA ServeRequestKeeps ==
  ASSUME IInv, ServeRequest
  PROVE  IInv'
<1> USE DEF Proc
<1> DEFINE q == Head(reqCh)
<1>1. /\ srv = "serve" /\ reqCh # <<>> /\ reqCh' = <<>>
      /\ \/ /\ \E st \in Answers(q.cmd) :
                 /\ cur' = [by |-> q.by, live |-> q.live, status |-> st]
                 /\ child' = (child \/ (q.cmd = "start" /\ st = 200))
            /\ srv' = "answer"
         \/ /\ srv' = "accept"
            /\ UNCHANGED <<cur, child>>
      /\ UNCHANGED <<conn, publishCh, msg, left, members, inbox, pc, job,
                     vclMapping, cwd, original, seen, missed>>
  BY DEF ServeRequest, brokerVars, dirVars
<1>2. BrokerType /\ ProcType /\ CallInv /\ DirInv
  BY DEF IInv, TypeInv
<1>3. q \in Request /\ q \in Elems(reqCh)
  <2>1. Len(reqCh) \in Nat \ {0} /\ reqCh \in Seq(Request)
    BY <1>1, <1>2, EmptySeq DEF CallInv
  <2>2. q = reqCh[1] /\ 1 \in 1..Len(reqCh)
    BY <2>1
  <2> QED
    BY <2>1, <2>2, ElementOfSeq DEF Elems
<1> HIDE DEF q
<1>4. q.by \in Proc /\ q.live \in BOOLEAN
  BY <1>3 DEF Request
<1>5. Elems(reqCh') = {} /\ reqCh' \in Seq(Request) /\ Len(reqCh') = 0
  BY <1>1, EmptySeq DEF Elems
<1>6. child => child'
  BY <1>1
<1>7. ASSUME srv' = "answer"
      PROVE  /\ cur' \in Answer
             /\ cur'.live => pc[cur'.by] \in Waiting
             /\ cur'.by = "starter" /\ cur'.status # 106 => child'
  <2>1. PICK st \in Answers(q.cmd) :
          /\ cur' = [by |-> q.by, live |-> q.live, status |-> st]
          /\ child' = (child \/ (q.cmd = "start" /\ st = 200))
    BY <1>1, <1>7
  <2>2. st \in {106, 200, 300} /\ (q.cmd = "start" /\ st = 300 => child)
    BY <2>1 DEF Answers
  <2>3. cur'.by = q.by /\ cur'.status = st
    BY <2>1
  <2>4. cur'.live = q.live
    BY <2>1
  <2>5. cur' \in Answer
    BY <2>1, <2>2, <1>4 DEF Answer
  <2>6. (q.by = "starter" <=> q.cmd = "start") /\ (q.live => pc[q.by] \in Waiting)
    BY <1>2, <1>3 DEF CallInv
  <2>7. q.cmd = "start" /\ st = 200 => child'
    BY <2>1
  <2>8. q.by = "starter" /\ st # 106 => child'
    BY <2>2, <2>6, <2>7, <1>6
  <2> QED
    BY <2>3, <2>4, <2>5, <2>6, <2>8
<1>8. MessageInv'
  <2>1. MessagesKept
    BY <1>1, <1>2, MessagesSame
  <2>2. conn' \in Nat /\ conn <= conn'
    BY <1>1, KnownEvents
  <2> QED
    BY <1>1, <1>6, <2>1, <2>2, QuietKeeps
<1>9. ProcType'
  BY <1>1, <1>2 DEF ProcType
<1>10. CallInv'
  <2>1. pc' = pc /\ (pc["starter"] \in {"started", "ready"} => child')
    BY <1>1, <1>2, <1>6 DEF CallInv
  <2>2. CASE srv' = "answer"
    BY <2>1, <2>2, <1>5, <1>7, NilAssumption DEF CallInv
  <2>3. CASE srv' = "accept" /\ cur' = cur
    BY <2>1, <2>3, <1>2, <1>5, <1>6 DEF CallInv
  <2> QED
    BY <2>2, <2>3, <1>1
<1>11. DirInv'
  BY <1>1, <1>2 DEF DirInv, CwdRestored
<1> QED
  BY <1>8, <1>9, <1>10, <1>11, Parts

\* A handler gets the answer to its command.
LEMMA ExecAnswerKeeps ==
  ASSUME IInv, ExecAnswer
  PROVE  IInv'
<1> USE DEF Proc
<1>1. /\ srv = "answer" /\ cur.live
      /\ pc' = [pc EXCEPT ![cur.by] = Continue(@, cur.status)]
      /\ srv' = "serve" /\ cur' = None
      /\ UNCHANGED <<conn, reqCh, child, publishCh, msg, left, members, inbox, job,
                     vclMapping, cwd, original, seen, missed>>
  BY DEF ExecAnswer, brokerVars, dirVars
<1>2. BrokerType /\ ProcType /\ CallInv /\ DirInv
  BY DEF IInv, TypeInv
<1>3. PICK p \in Proc : p = cur.by
  BY <1>1, <1>2 DEF CallInv, Answer
<1>4. /\ cur # None /\ cur.live /\ pc[p] \in Waiting
      /\ p = "starter" /\ cur.status # 106 => child
      /\ cur.status \in {106, 200, 300}
  BY <1>1, <1>2, <1>3 DEF CallInv, Answer
<1>5. /\ p = "loader" => pc[p] \in {"use?", "show?"}
      /\ p = "starter" => pc[p] = "start?"
  BY <1>2, <1>4 DEF ProcType, LoaderPC, StarterPC, Waiting
<1>6. /\ pc'[p] = Continue(pc[p], cur.status) /\ \A r \in Proc \ {p} : pc'[r] = pc[r]
  BY <1>1, <1>2, <1>3 DEF ProcType
<1>7. /\ p = "loader" => pc'[p] \in {"show", "loaded", "restore!"}
      /\ p = "starter" => pc'[p] = IF StartOk(cur.status) THEN "started" ELSE "error"
  BY <1>5, <1>6 DEF Continue
<1>8. MessageInv'
  <2>1. MessagesKept
    BY <1>1, <1>2, MessagesSame
  <2>2. conn' \in Nat /\ conn <= conn'
    BY <1>1, KnownEvents
  <2>3. pc'["loader"] \in InLoadVCL => pc["loader"] \in InLoadVCL
    BY <1>4, <1>6 DEF InLoadVCL
  <2>4. /\ pc'["starter"] \in Starting => pc["starter"] \in Starting
        /\ pc'["starter"] = "ready" => pc["starter"] = "ready"
    BY <1>5, <1>6, <1>7 DEF Starting
  <2> QED
    BY <1>1, <2>1, <2>2, <2>3, <2>4, QuietKeeps
<1>9. ProcType'
  <2>1. /\ p = "loader" => pc'[p] \in LoaderPC
        /\ p = "starter" => pc'[p] \in StarterPC
    BY <1>7 DEF LoaderPC, StarterPC
  <2>2. pc' \in [Proc -> LoaderPC \cup StarterPC]
    BY <1>1, <1>2, <1>3, <1>6, <2>1 DEF ProcType
  <2>3. pc'["loader"] \in LoaderPC /\ pc'["starter"] \in StarterPC
    BY <1>2, <1>6, <2>1 DEF ProcType
  <2>4. \A r \in Proc : pc'[r] # "wait" => pc[r] # "wait"
    BY <1>4, <1>6 DEF Waiting
  <2> QED
    BY <1>1, <1>2, <2>2, <2>3, <2>4 DEF ProcType
<1>10. CallInv'
  <2>1. ASSUME NEW r \in Elems(reqCh)
        PROVE  /\ r.by = "starter" <=> r.cmd = "start"
               /\ r.live => pc'[r.by] \in Waiting
    <3>1. r \in Request
      BY <1>2, ElementOfSeq DEF CallInv, Elems
    <3>2. r.by \in Proc
      BY <3>1 DEF Request
    <3>3. /\ r.by = "starter" <=> r.cmd = "start"
          /\ r.live => pc[r.by] \in Waiting
          /\ r.live => r.by # p
      BY <1>2, <1>3, <1>4 DEF CallInv
    <3> QED
      BY <3>2, <3>3, <1>6
  <2>2. Elems(reqCh)' = Elems(reqCh)
    BY <1>1 DEF Elems
  <2>3. pc'["starter"] \in {"started", "ready"} => child
    <3>1. CASE p = "starter"
      BY <3>1, <1>4, <1>7 DEF StartOk
    <3>2. CASE p # "starter"
      BY <3>2, <1>2, <1>6 DEF CallInv
    <3> QED
      BY <3>1, <3>2
  <2> QED
    BY <1>1, <1>2, <2>1, <2>2, <2>3 DEF CallInv
<1>11. DirInv'
  BY <1>1, <1>2, <1>6, <1>7 DEF DirInv, CwdRestored, InLoadVCL, Sending
<1> QED
  BY <1>8, <1>9, <1>10, <1>11, Parts

\* An event is its type and its connection.
LEMMA EventIsEv ==
  ASSUME NEW e \in Event
  PROVE  e = Ev(e.type, e.n) /\ e.n \in Conns /\ e.n \in Nat /\ e.n \in 0..MaxConns
BY StartupAssumption DEF Event, Ev, Conns

\* The loader starts to work for a connection.
LEMMA LoaderReceiveKeeps ==
  ASSUME IInv, LoaderReceive
  PROVE  IInv'
<1> USE DEF Proc
<1> DEFINE q == inbox["loader"]
           e == inbox["loader"][1]
<1>1. /\ pc["loader"] = "wait" /\ q # <<>>
      /\ inbox' = [inbox EXCEPT !["loader"] = Tail(@)]
      /\ UNCHANGED <<srv, conn, reqCh, cur, child, publishCh, msg, left, members,
                     vclMapping, seen, missed>>
  BY DEF LoaderReceive, srvVars, brokerVars
<1>2. BrokerType /\ ProcType /\ CallInv /\ DirInv /\ OrderInv /\ ReadyInv /\ ChainInv
  BY DEF IInv, TypeInv
<1>3. "loader" \in Subscriber /\ "starter" \in Subscriber /\ "loader" # "observer"
  BY DEF Subscriber
<1>4. /\ MessagesKept /\ Received(inbox'["loader"], q) /\ Head(q) = e
      /\ e \in Event /\ e \in InFlight /\ \A r : Pending(r)' = Pending(r)
  BY <1>1, <1>2, <1>3, MessageReceived
<1>5. CASE e.type # "Connected"
  <2>1. UNCHANGED <<pc, job, cwd, original>>
    BY <1>4, <1>5 DEF LoaderReceive, dirVars
  <2> QED
    BY <1>1, <1>4, <2>1, ProcsUntouched
<1>6. CASE e.type = "Connected"
  <2>1. /\ job' = [job EXCEPT !["loader"] = e.n]
        /\ \/ pc' = [pc EXCEPT !["loader"] = "use"] /\ original' = cwd /\ cwd' = "vcl"
           \/ pc' = [pc EXCEPT !["loader"] = "error"] /\ original' = original /\ cwd' = cwd
    BY <1>4, <1>6 DEF LoaderReceive, dirVars
  <2>2. /\ job'["loader"] = e.n /\ job'["starter"] = job["starter"]
        /\ pc'["loader"] \in {"use", "error"} /\ pc'["starter"] = pc["starter"]
        /\ job["loader"] \in Nat /\ vclMapping \in Nat /\ conn \in Nat
    BY <1>2, <2>1, KnownEvents DEF ProcType
  <2>3. e = Ev("Connected", e.n) /\ e.n \in Conns /\ e.n \in Nat /\ e.n \in 0..MaxConns
    BY <1>4, <1>6, EventIsEv
  <2> HIDE DEF e, q
  <2>4. BrokerType' /\ ChainInv'
    BY <1>2, <1>4 DEF MessagesKept
  <2>5. /\ StreamOf("Connected", inbox'["loader"], Pending("loader")', publishCh', e.n, conn)
        /\ job["loader"] <= e.n /\ e.n <= conn
    <3>1. StreamOf("Connected", q, Pending("loader"), publishCh, job["loader"], conn)
      BY <1>2 DEF OrderInv, Stream, q
    <3>2. q \in Seq(Event) /\ Pending("loader") \in SUBSET Event /\ publishCh \in Seq(Event)
      BY <1>2, <1>3, PendingType DEF BrokerType, q
    <3>3. q[1] = e
      BY DEF q, e
    <3>4. /\ StreamOf("Connected", inbox'["loader"], Pending("loader"), publishCh, e.n, conn)
          /\ job["loader"] <= e.n /\ e.n <= conn
      BY <3>1, <3>2, <3>3, <1>4, <1>6, StreamReceive
    <3> QED
      BY <3>4, <1>1, <1>4
  <2>6. StreamOf("VCLLoaded", inbox'["starter"], Pending("starter")', publishCh', vclMapping, e.n)
    <3>1. StreamOf("VCLLoaded", inbox'["starter"], Pending("starter")', publishCh',
                   vclMapping, job["loader"])
      BY <1>2, <1>3, <1>4 DEF MessagesKept, OrderInv
    <3>2. /\ inbox'["starter"] \in Seq(Event) /\ publishCh' \in Seq(Event)
          /\ Pending("starter")' \in SUBSET Event
      BY <1>2, <1>3, <1>4, <2>4, PendingType DEF BrokerType
    <3> QED
      BY <3>1, <3>2, <2>2, <2>3, <2>5, StreamRaise
  <2>7. OrderInv'
    <3>1. vclMapping <= e.n
      BY <1>2, <2>2, <2>3, <2>5 DEF OrderInv
    <3> QED
      BY <3>1, <1>1, <2>2, <2>5, <2>6 DEF OrderInv, Stream
  <2>8. ReadyInv'
    BY <1>1, <1>2, <1>4 DEF ReadyInv, MessagesKept
  <2>9. KnownInv'
    <3>1. e \in Known'
      BY <1>4, <1>6, StillKnown
    <3>2. Ev("Connected", job'["loader"]) \in Known'
      BY <3>1, <2>2, <2>3
    <3> QED
      BY <3>2, <2>2, <1>4, StillKnown DEF KnownInv, Starting
  <2>10. MessageInv'
    BY <2>4, <2>7, <2>8, <2>9 DEF MessageInv
  <2>11. ProcType'
    <3>1. pc' \in [Proc -> LoaderPC \cup StarterPC] /\ pc'["loader"] \in LoaderPC
      BY <1>2, <2>1, <2>2 DEF ProcType, LoaderPC
    <3>2. job' \in [Proc -> 0..MaxConns]
      BY <1>2, <2>1, <2>3 DEF ProcType
    <3> QED
      BY <1>1, <1>2, <2>2, <2>3, <3>1, <3>2 DEF ProcType
  <2>12. CallInv'
    <3>1. \A p \in Proc : pc[p] \in Waiting => pc'[p] \in Waiting
      BY <1>1, <2>2 DEF Waiting
    <3> QED
      BY <1>1, <2>2, <3>1, CallsKept
  <2>13. DirInv'
    <3>1. cwd # "vcl"
      BY <1>1, <1>2 DEF DirInv, CwdRestored, InLoadVCL, Sending, Waiting
    <3> QED
      BY <1>2, <2>1, <3>1, <1>2 DEF DirInv, CwdRestored, InLoadVCL, Sending, ProcType
  <2> QED
    BY <2>10, <2>11, <2>12, <2>13, Parts
<1> QED
  BY <1>5, <1>6

\* The starter hears that the VCL of a connection is loaded.
LEMMA StarterReceiveKeeps ==
  ASSUME IInv, StarterReceive
  PROVE  IInv'
<1> USE DEF Proc
<1> DEFINE q == inbox["starter"]
           e == inbox["starter"][1]
<1>1. /\ pc["starter"] = "wait" /\ q # <<>>
      /\ inbox' = [inbox EXCEPT !["starter"] = Tail(@)]
      /\ UNCHANGED <<srv, conn, reqCh, cur, child, publishCh, msg, left, members,
                     cwd, original, seen, missed>>
  BY DEF StarterReceive, srvVars, brokerVars, dirVars
<1>2. BrokerType /\ ProcType /\ CallInv /\ DirInv /\ OrderInv /\ ReadyInv /\ ChainInv
  BY DEF IInv, TypeInv
<1>3. "loader" \in Subscriber /\ "starter" \in Subscriber /\ "starter" # "observer"
  BY DEF Subscriber
<1>4. /\ MessagesKept /\ Received(inbox'["starter"], q) /\ Head(q) = e
      /\ e \in Event /\ e \in InFlight /\ \A r : Pending(r)' = Pending(r)
  BY <1>1, <1>2, <1>3, MessageReceived
<1>5. CASE e.type # "VCLLoaded"
  <2>1. UNCHANGED <<pc, job, vclMapping>>
    BY <1>4, <1>5 DEF StarterReceive
  <2> QED
    BY <1>1, <1>4, <2>1, ProcsUntouched
<1>6. CASE e.type = "VCLLoaded"
  <2>1. /\ job' = [job EXCEPT !["starter"] = e.n] /\ vclMapping' = e.n
        /\ pc' = [pc EXCEPT !["starter"] = "start"]
    BY <1>4, <1>6 DEF StarterReceive
  <2>2. /\ job'["starter"] = e.n /\ job'["loader"] = job["loader"]
        /\ pc'["starter"] = "start" /\ pc'["loader"] = pc["loader"]
        /\ job["loader"] \in Nat /\ vclMapping \in Nat /\ conn \in Nat
    BY <1>2, <2>1, KnownEvents DEF ProcType
  <2>3. e = Ev("VCLLoaded", e.n) /\ e.n \in Conns /\ e.n \in Nat /\ e.n \in 0..MaxConns
    BY <1>4, <1>6, EventIsEv
  <2> HIDE DEF e, q
  <2>4. BrokerType' /\ ChainInv'
    BY <1>2, <1>4 DEF MessagesKept
  <2>5. /\ StreamOf("VCLLoaded", inbox'["starter"], Pending("starter")', publishCh',
                    e.n, job["loader"])
        /\ vclMapping <= e.n /\ e.n <= job["loader"]
    <3>1. StreamOf("VCLLoaded", q, Pending("starter"), publishCh, vclMapping, job["loader"])
      BY <1>2 DEF OrderInv, Stream, q
    <3>2. q \in Seq(Event) /\ Pending("starter") \in SUBSET Event /\ publishCh \in Seq(Event)
      BY <1>2, <1>3, PendingType DEF BrokerType, q
    <3>3. q[1] = e
      BY DEF q, e
    <3>4. /\ StreamOf("VCLLoaded", inbox'["starter"], Pending("starter"), publishCh,
                      e.n, job["loader"])
          /\ vclMapping <= e.n /\ e.n <= job["loader"]
      BY <3>1, <3>2, <3>3, <1>4, <1>6, StreamReceive
    <3> QED
      BY <3>4, <1>1, <1>4
  <2>6. StreamOf("Connected", inbox'["loader"], Pending("loader")', publishCh', job["loader"], conn)
    BY <1>2, <1>3, <1>4 DEF MessagesKept, OrderInv
  <2>7. OrderInv'
    BY <1>1, <1>2, <2>1, <2>2, <2>5, <2>6 DEF OrderInv, Stream
  <2>8. ReadyInv'
    <3>1. InFlight' \cup seen' \subseteq InFlight \cup seen
      BY <1>4 DEF MessagesKept
    <3>2. \A f \in InFlight \cup seen : f \in Event
      BY <1>2, InFlightType DEF BrokerType
    <3>3. \A f \in InFlight \cup seen : f.type = "Ready" => f.n <= e.n
      BY <1>2, <2>2, <2>3, <2>5, <3>2, EventIsEv DEF ReadyInv
    <3> QED
      BY <1>1, <1>2, <2>1, <3>1, <3>3 DEF ReadyInv
  <2>9. KnownInv'
    <3>1. e \in Known'
      BY <1>4, <1>6, StillKnown
    <3>2. Ev("VCLLoaded", job'["starter"]) \in Known'
      BY <3>1, <2>2, <2>3
    <3> QED
      BY <3>2, <2>2, <1>4, StillKnown DEF KnownInv
  <2>10. MessageInv'
    BY <2>4, <2>7, <2>8, <2>9 DEF MessageInv
  <2>11. ProcType'
    <3>1. pc' \in [Proc -> LoaderPC \cup StarterPC] /\ pc'["starter"] \in StarterPC
      BY <1>2, <2>1, <2>2 DEF ProcType, StarterPC
    <3>2. job' \in [Proc -> 0..MaxConns]
      BY <1>2, <2>1, <2>3 DEF ProcType
    <3> QED
      BY <1>1, <1>2, <2>1, <2>2, <2>3, <3>1, <3>2 DEF ProcType
  <2>12. CallInv'
    <3>1. \A p \in Proc : pc[p] \in Waiting => pc'[p] \in Waiting
      BY <1>1, <2>2 DEF Waiting
    <3> QED
      BY <1>1, <2>2, <3>1, CallsKept
  <2>13. DirInv'
    BY <1>1, <1>2, <2>2 DEF DirInv, CwdRestored
  <2> QED
    BY <2>10, <2>11, <2>12, <2>13, Parts
<1> QED
  BY <1>5, <1>6

\* The loader goes back to the original working directory.
LEMMA LoaderRestoreKeeps ==
  ASSUME IInv, LoaderRestore
  PROVE  IInv'
<1> USE DEF Proc
<1>1. /\ pc["loader"] \in {"restore", "restore!"}
      /\ cwd' = original \/ cwd' = "left"
      /\ pc' = [pc EXCEPT !["loader"] = IF @ = "restore" THEN "wait" ELSE "error"]
      /\ UNCHANGED <<srv, conn, reqCh, cur, child, publishCh, msg, left, members, inbox, job,
                     vclMapping, original, seen, missed>>
  BY DEF LoaderRestore, srvVars, brokerVars
<1>2. BrokerType /\ ProcType /\ CallInv /\ DirInv
  BY DEF IInv, TypeInv
<1>3. pc'["loader"] \in {"wait", "error"} /\ pc'["starter"] = pc["starter"]
  BY <1>1, <1>2 DEF ProcType
<1>4. MessageInv'
  <2>1. MessagesKept
    BY <1>1, <1>2, MessagesSame
  <2>2. conn' \in Nat /\ conn <= conn'
    BY <1>1, KnownEvents
  <2>3. pc["loader"] \in InLoadVCL
    BY <1>1 DEF InLoadVCL
  <2> QED
    BY <1>1, <1>3, <2>1, <2>2, <2>3, QuietKeeps
<1>5. ProcType'
  <2>1. pc' \in [Proc -> LoaderPC \cup StarterPC] /\ pc'["loader"] \in LoaderPC
    BY <1>1, <1>2, <1>3 DEF ProcType, LoaderPC
  <2> QED
    BY <1>1, <1>2, <1>3, <2>1 DEF ProcType
<1>6. CallInv'
  <2>1. \A p \in Proc : pc[p] \in Waiting => pc'[p] \in Waiting
    BY <1>1, <1>3 DEF Waiting
  <2> QED
    BY <1>1, <1>3, <2>1, CallsKept
<1>7. DirInv'
  BY <1>1, <1>2 DEF DirInv, CwdRestored
<1> QED
  BY <1>4, <1>5, <1>6, <1>7, Parts

\* The loader announces the loaded VCL.
LEMMA LoaderPublishKeeps ==
  ASSUME IInv, LoaderPublish
  PROVE  IInv'
<1> USE DEF Proc
<1> DEFINE e == Ev("VCLLoaded", job["loader"])
<1>1. /\ pc["loader"] = "loaded" /\ Publish(e)
      /\ pc' = [pc EXCEPT !["loader"] = "restore"]
      /\ UNCHANGED <<srv, conn, reqCh, cur, child, members, msg, left, inbox, job,
                     vclMapping, cwd, original, seen>>
  BY DEF LoaderPublish, srvVars, dirVars
<1>2. ProcType /\ CallInv /\ DirInv /\ KnownInv
  BY DEF IInv, TypeInv
<1>3. e \in Event /\ e.type = "VCLLoaded" /\ e.n = job["loader"]
  BY <1>1, KnownEvents DEF Ev, Kind
<1>4. pc["loader"] \in InLoadVCL
  BY <1>1 DEF InLoadVCL
<1>5. Follows(e, Known)
  BY <1>2, <1>3, <1>4 DEF KnownInv, Follows, Before
<1> HIDE DEF e
<1>6. pc'["loader"] = "restore" /\ pc'["starter"] = pc["starter"]
  BY <1>1, <1>2 DEF ProcType
<1>7. MessageInv'
  BY <1>1, <1>3, <1>4, <1>5, <1>6, PublishKeeps
<1>8. ProcType'
  <2>1. pc' \in [Proc -> LoaderPC \cup StarterPC] /\ pc'["loader"] \in LoaderPC
    BY <1>1, <1>2, <1>6 DEF ProcType, LoaderPC
  <2> QED
    BY <1>1, <1>2, <1>6, <2>1 DEF ProcType
<1>9. CallInv'
  <2>1. \A p \in Proc : pc[p] \in Waiting => pc'[p] \in Waiting
    BY <1>1, <1>6 DEF Waiting
  <2> QED
    BY <1>1, <1>6, <2>1, CallsKept
<1>10. DirInv'
  BY <1>1, <1>2, <1>6 DEF DirInv, CwdRestored, InLoadVCL
<1> QED
  BY <1>7, <1>8, <1>9, <1>10, Parts

\* The starter announces the running cache process.
LEMMA StarterPublishKeeps ==
  ASSUME IInv, StarterPublish
  PROVE  IInv'
<1> USE DEF Proc
<1>1. /\ pc["starter"] \in {"started", "ready"}
      /\ UNCHANGED <<srv, conn, reqCh, cur, child, members, msg, left, inbox, job,
                     vclMapping, cwd, original, seen>>
  BY DEF StarterPublish, StarterStages, srvVars, dirVars
<1>2. ProcType /\ CallInv /\ DirInv /\ KnownInv
  BY DEF IInv, TypeInv
<1>3. PICK e : /\ e \in Event /\ Publish(e) /\ e.n = job["starter"]
               /\ \/ /\ pc["starter"] = "started" /\ e.type = "CacheStarted"
                     /\ pc' = [pc EXCEPT !["starter"] = "ready"]
                     /\ e = Ev("CacheStarted", job["starter"])
                  \/ /\ pc["starter"] = "ready" /\ e.type = "Ready"
                     /\ pc' = [pc EXCEPT !["starter"] = "wait"]
  <2>1. CASE pc["starter"] = "started"
    <3>1. Publish(Ev("CacheStarted", job["starter"])) /\ pc' = [pc EXCEPT !["starter"] = "ready"]
      <4>1. StarterStages["started"].type = "CacheStarted" /\ StarterStages["started"].then = "ready"
        BY DEF StarterStages
      <4>2. /\ Publish(Ev(StarterStages["started"].type, job["starter"]))
            /\ pc' = [pc EXCEPT !["starter"] = StarterStages["started"].then]
        BY <2>1 DEF StarterPublish
      <4> QED
        BY <4>1, <4>2
    <3>2. Ev("CacheStarted", job["starter"]) \in Event
      BY <2>1, KnownEvents DEF Kind
    <3> QED
      BY <2>1, <3>1, <3>2 DEF Ev
  <2>2. CASE pc["starter"] = "ready"
    <3>1. Publish(Ev("Ready", job["starter"])) /\ pc' = [pc EXCEPT !["starter"] = "wait"]
      <4>1. StarterStages["ready"].type = "Ready" /\ StarterStages["ready"].then = "wait"
        BY DEF StarterStages
      <4>2. /\ Publish(Ev(StarterStages["ready"].type, job["starter"]))
            /\ pc' = [pc EXCEPT !["starter"] = StarterStages["ready"].then]
        BY <2>2 DEF StarterPublish
      <4> QED
        BY <4>1, <4>2
    <3>2. Ev("Ready", job["starter"]) \in Event
      BY <2>2, KnownEvents DEF Kind
    <3> QED
      BY <2>2, <3>1, <3>2 DEF Ev
  <2> QED
    BY <1>1, <2>1, <2>2
<1>4. child /\ vclMapping = job["starter"]
  BY <1>1, <1>2 DEF CallInv, ProcType
<1>5. Follows(e, Known)
  BY <1>2, <1>3 DEF KnownInv, Follows, Before
<1>6. /\ pc'["starter"] \in {"ready", "wait"} /\ pc'["loader"] = pc["loader"]
      /\ pc'["starter"] = "ready" => e = Ev("CacheStarted", job["starter"])
  BY <1>2, <1>3 DEF ProcType
<1>7. MessageInv'
  BY <1>1, <1>3, <1>4, <1>5, <1>6, PublishKeeps DEF Starting
<1>8. ProcType'
  <2>1. pc' \in [Proc -> LoaderPC \cup StarterPC] /\ pc'["starter"] \in StarterPC
    BY <1>2, <1>3, <1>6 DEF ProcType, StarterPC
  <2> QED
    BY <1>1, <1>2, <1>6, <2>1 DEF ProcType
<1>9. CallInv'
  <2>1. \A p \in Proc : pc[p] \in Waiting => pc'[p] \in Waiting
    BY <1>1, <1>6 DEF Waiting
  <2> QED
    BY <1>1, <1>6, <2>1, CallsKept
<1>10. DirInv'
  BY <1>1, <1>2, <1>6 DEF DirInv, CwdRestored
<1> QED
  BY <1>7, <1>8, <1>9, <1>10, Parts

\* A handler reports an error.
LEMMA PublishErrorKeeps ==
  ASSUME IInv, NEW p \in Proc, PublishError(p)
  PROVE  IInv'
<1> USE DEF Proc
<1> DEFINE e == Ev("ProcessError", job[p])
<1>1. /\ pc[p] = "error" /\ Publish(e) /\ pc' = [pc EXCEPT ![p] = "wait"]
      /\ UNCHANGED <<srv, conn, reqCh, cur, child, members, msg, left, inbox, job,
                     vclMapping, cwd, original, seen>>
  BY DEF PublishError, srvVars, dirVars
<1>2. ProcType /\ CallInv /\ DirInv
  BY DEF IInv, TypeInv
<1>3. e \in Event /\ e.type = "ProcessError"
  BY <1>1, KnownEvents DEF Ev, Kind
<1>4. Follows(e, Known)
  BY <1>3 DEF Follows, Before
<1> HIDE DEF e
<1>5. pc'[p] = "wait" /\ \A r \in Proc \ {p} : pc'[r] = pc[r]
  BY <1>1, <1>2 DEF ProcType
<1>6. /\ pc'["loader"] \in InLoadVCL => pc["loader"] \in InLoadVCL
      /\ pc'["starter"] \in Starting => pc["starter"] \in Starting
      /\ pc'["starter"] = "ready" => pc["starter"] = "ready"
      /\ pc'["starter"] \in {"started", "ready"} => pc["starter"] \in {"started", "ready"}
  BY <1>5 DEF InLoadVCL, Sending, Waiting, Starting
<1>7. MessageInv'
  BY <1>1, <1>3, <1>4, <1>6, PublishKeeps
<1>8. ProcType'
  <2>1. /\ pc' \in [Proc -> LoaderPC \cup StarterPC]
        /\ pc'["loader"] \in LoaderPC /\ pc'["starter"] \in StarterPC
    BY <1>1, <1>2, <1>5 DEF ProcType, LoaderPC, StarterPC
  <2> QED
    BY <1>1, <1>2, <1>5, <2>1 DEF ProcType
<1>9. CallInv'
  <2>1. \A r \in Proc : pc[r] \in Waiting => pc'[r] \in Waiting
    BY <1>1, <1>5 DEF Waiting
  <2> QED
    BY <1>1, <1>6, <2>1, CallsKept
<1>10. DirInv'
  <2>1. pc["loader"] \in InLoadVCL => pc'["loader"] \in InLoadVCL
    BY <1>1, <1>5 DEF InLoadVCL, Sending, Waiting
  <2> QED
    BY <1>1, <1>2, <2>1 DEF DirInv, CwdRestored
<1> QED
  BY <1>7, <1>8, <1>9, <1>10, Parts
-----------------------------------------------------------------------------
(* The results *)

\* Every step keeps the invariant.
LEMMA NextKeeps ==
  ASSUME IInv, [Next]_vars
  PROVE  IInv'
<1>1. CASE LoaderStep
  BY <1>1, LoaderReceiveKeeps, LoaderRestoreKeeps, LoaderPublishKeeps, PublishErrorKeeps
     DEF LoaderStep, Proc
<1>2. CASE StarterStep
  BY <1>2, StarterReceiveKeeps, StarterPublishKeeps, PublishErrorKeeps DEF StarterStep, Proc
<1>3. CASE ServerStep
  BY <1>3, ReadBannerKeeps, ServeRequestKeeps, ExecAnswerKeeps DEF ServerStep
<1>4. CASE \E p \in Proc : ExecSend(p) \/ ExecTimeout(p)
  BY <1>4, ExecSendKeeps, ExecTimeoutKeeps
<1> QED
  BY <1>1, <1>2, <1>3, <1>4, BrokerKeeps, ObserveKeeps, AcceptKeeps, StutterKeeps DEF Next

\* The invariant of the start-up: whose calls are live, which connections the
\* events on their way are of, and what each event was preceded by.
THEOREM StartupInvariant == Spec => []IInv
BY InitInv, NextKeeps, PTL DEF Spec

\* The directory of the process is the VCL's only while loadVCL runs, on every
\* path, time-outs included: the deferred Chdir comes before the error event.
THEOREM CwdIsRestored == Spec => []CwdRestored
<1>1. IInv => CwdRestored
  BY DEF IInv, DirInv
<1> QED
  BY <1>1, StartupInvariant, PTL

\* Nobody is told that the system is ready while the cache process does not run,
\* and whoever was told gets the mapping of that start-up or of a later one.
THEOREM ReadyIsTrue == Spec => []ReadyMeansServing
<1>1. IInv => ReadyMeansServing
  <2> SUFFICES ASSUME IInv PROVE ReadyMeansServing
    OBVIOUS
  <2>1. BrokerType /\ ReadyInv /\ vclMapping \in Nat
    BY KnownEvents DEF IInv, TypeInv
  <2>2. \A n : Ev("Ready", n).type = "Ready" /\ Ev("Ready", n).n = n
    BY DEF Ev
  <2>3. Range(publishCh) = Elems(publishCh)
    BY <2>1, LenProperties DEF BrokerType, Range, Elems
  <2>4. ASSUME NEW q \in Range(inbox)
        PROVE  Range(q) \subseteq InFlight
    <3>1. PICK s \in Subscriber : q = inbox[s]
      BY <2>1, <2>4 DEF BrokerType, Range
    <3>2. Range(q) = Elems(inbox[s])
      BY <2>1, <3>1, LenProperties DEF BrokerType, Range, Elems
    <3> QED
      BY <3>2 DEF InFlight
  <2>5. Elems(publishCh) \subseteq InFlight
    BY DEF InFlight
  <2>6. seen \cup UNION {Range(q) : q \in {publishCh} \cup Range(inbox)} \subseteq InFlight \cup seen
    BY <2>3, <2>4, <2>5
  <2>7. (\E n \in Conns : Ev("Ready", n) \in
           seen \cup UNION {Range(q) : q \in {publishCh} \cup Range(inbox)}) => child
    BY <2>1, <2>2, <2>6 DEF ReadyInv
  <2>8. \A n \in Conns : Ev("Ready", n) \in seen => n <= vclMapping
    BY <2>1, <2>2 DEF ReadyInv
  <2>9. \A n \in Conns : n \in Nat
    BY DEF Conns
  <2> QED
    BY <2>1, <2>7, <2>8, <2>9 DEF ReadyMeansServing
<1> QED
  BY <1>1, StartupInvariant, PTL

\* A subscriber hears of a connection in the order connected, VCL loaded, cache
\* started, ready; what is missing was lost for it.
THEOREM HeardInOrder == Spec => EventsInOrder
<1>1. ASSUME IInv, [Next]_vars
      PROVE  [\A e \in seen' \ seen : e.type \in DOMAIN Before =>
                Ev(Before[e.type], e.n) \in seen \cup missed["observer"]]_vars
  <2>1. CASE Observe
    <3>1. BrokerType /\ ChainInv /\ "observer" \in Subscriber
      BY <1>1 DEF IInv, TypeInv, Subscriber
    <3>2. Head(inbox["observer"]) = inbox["observer"][1] /\ Follows(inbox["observer"][1], Past)
      BY <2>1, <3>1, MessageReceived DEF Observe, brokerVars
    <3>3. \A e \in seen' \ seen : e = Head(inbox["observer"])
      BY <2>1 DEF Observe
    <3> QED
      BY <3>2, <3>3 DEF Follows, Past
  <2>2. CASE seen' = seen
    BY <2>2
  <2>3. Observe \/ seen' = seen
    BY <1>1 DEF Next, vars, LoaderStep, StarterStep, ServerStep, BrokerStep, LoaderReceive,
       LoaderRestore, LoaderPublish, PublishError, StarterReceive, StarterPublish, ReadBanner,
       ServeRequest, ExecAnswer, TakeMessage, Register, Deliver, ExecSend, ExecTimeout, Accept
  <2> QED
    BY <2>1, <2>2, <2>3
<1> QED
  BY <1>1, StartupInvariant, PTL DEF Spec, EventsInOrder
=============================================================================
