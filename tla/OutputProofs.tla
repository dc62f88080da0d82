---------------------------- MODULE OutputProofs ----------------------------
(***************************************************************************)
(* What vcltest makes of the output of varnishd: the listings (module      *)
(* Listings) and the VCL_trace lines in the log (module Coverage).         *)
(*                                                                         *)
(* PortIsReachable, ListIsExact and ShowIsExact for every listing varnishd *)
(* may give: any number of sockets, of VCLs and labels, and of files with  *)
(* any content.  The properties speak of a parser that is done; each       *)
(* inductive invariant says what it has built while it is in the middle of *)
(* the answer:                                                             *)
(*   - AddressInv: an address for each line behind it, and no other;       *)
(*   - RowsRead: an entry for each row behind it that is not blank, at its *)
(*     rank among them, and no bad row behind it;                          *)
(*   - FilesRead: the entries of the first k files, with the parser either *)
(*     on the next header or on the newline behind the k-th file.  So no   *)
(*     line is ever taken for a header inside a file, whatever it holds.   *)
(*                                                                         *)
(* PlainBlocksMarked, StatusOfDeepest and ReportTrue for every VCL file in *)
(* every layout, and every run of it.  ReportInv says that Varnish has     *)
(* entered all blocks around the token it is at, and that each traced line *)
(* is that of such a token.  The analysis and the matching are recursive   *)
(* over the tree of blocks; blocks are named in source order, children     *)
(* after their parent, so that the greatest or the least counterexample is *)
(* impossible.                                                             *)
(***************************************************************************)
EXTENDS Listings, Coverage, FiniteSetTheorems, WellFoundedInduction, NaturalsInduction, TLAPS

(* debug.listen_address *)

\* An address parseListenAddresses can return.
Address == [name : STRING, family : {"ipv4", "ipv6", "unix"}, port : Int]

\* A line that becomes an address.
Proper(l) == l # Blank /\ l # Garbled

\* The parser reads the complete answer only, and returns at its end.
AnswerInv ==
  /\ input.of \in Seq(Line)
  /\ status = ClisOk => data = input.of
  /\ pc = "asked" => pos = 1 /\ entries = <<>>
  /\ pc \in {"parse", "done"} => status = ClisOk
  /\ pos \in Nat \ {0}
  /\ pc = "done" => pos > Len(data)

\* The addresses so far are those of the lines so far.
AddressInv ==
  /\ entries \in Seq(Address)
  /\ \A e \in 1..Len(entries) : \E i \in 1..Len(input.of) :
       Proper(input.of[i]) /\ entries[e] = ParseAddress(input.of[i])
  /\ pc \in {"parse", "done"} =>
       \A i \in 1..Len(input.of) : i < pos /\ Proper(input.of[i]) =>
         \E e \in 1..Len(entries) : entries[e] = ParseAddress(input.of[i])

PortInv == input.kind = "port" => AnswerInv /\ AddressInv
-----------------------------------------------------------------------------
\* A proper line becomes an address of the same family, which has the line's port
\* if it is a TCP address and no positive port otherwise.
LEMMA ParsedLine ==
  ASSUME NEW l \in Line, Proper(l)
  PROVE  /\ ParseAddress(l) \in Address
         /\ ParseAddress(l).family = l.family
         /\ l.port > 0 => ParseAddress(l).port = l.port
         /\ l.port = 0 => ParseAddress(l).port = -1
         /\ l.port \in Nat
         /\ l.port > 0 => l.family \in {"ipv4", "ipv6"}
  BY DEF Line, Proper, ParseAddress, Address

\* A line is blank or bad, not both.
LEMMA BlankIsNotGarbled == Blank # Garbled
<1>1. Blank.port # Garbled.port
  BY DEF Blank, Garbled
<1> QED
  BY <1>1

\* A set of natural numbers that is not empty has a least one.
LEMMA LeastOf ==
  ASSUME NEW S \in SUBSET Nat, S # {}
  PROVE  \E m \in S : \A j \in S : m <= j
<1>1. PICK m \in S : \A j \in S : ~(<<j, m>> \in OpToRel(<, Nat))
  BY NatLessThanWellFounded, WFMin
<1>2. ASSUME NEW j \in S
      PROVE  m <= j
  <2>1. m \in Nat /\ j \in Nat /\ ~(j < m)
    BY <1>1 DEF OpToRel
  <2> QED
    BY <2>1
<1> QED
  BY <1>2

\* FirstOf finds a position, if there is one.
LEMMA FirstOfIn ==
  ASSUME NEW S \in SUBSET Nat, S # {}
  PROVE  FirstOf(S) \in S
  BY LeastOf DEF FirstOf

\* GetHTTPPort returns the port of an address of the list: of an IPv4 one if there is
\* one with a port, else of any with a port; 0 only if no address has one.
LEMMA PortOf ==
  ASSUME NEW addrs \in Seq(Address)
  PROVE  /\ (\E i \in 1..Len(addrs) : addrs[i].port > 0 /\ addrs[i].family = "ipv4") =>
              \E i \in 1..Len(addrs) : /\ addrs[i].port > 0 /\ addrs[i].family = "ipv4"
                                       /\ GetHTTPPort(addrs) = addrs[i].port
         /\ (\E i \in 1..Len(addrs) : addrs[i].port > 0) =>
              \E i \in 1..Len(addrs) : addrs[i].port > 0 /\ GetHTTPPort(addrs) = addrs[i].port
         /\ (\A i \in 1..Len(addrs) : ~(addrs[i].port > 0)) => GetHTTPPort(addrs) = 0
<1> DEFINE tcp == Tcp(addrs)
           ipv4 == {i \in tcp : addrs[i].family = "ipv4"}
<1>1. /\ tcp = {i \in 1..Len(addrs) : addrs[i].port > 0}
      /\ tcp \in SUBSET Nat /\ ipv4 \in SUBSET Nat
  BY DEF Tcp
<1>2. ipv4 # {} => FirstOf(ipv4) \in ipv4
  BY <1>1, FirstOfIn
<1>3. tcp # {} => FirstOf(tcp) \in tcp
  BY <1>1, FirstOfIn
<1>4. GetHTTPPort(addrs) = IF ipv4 # {} THEN addrs[FirstOf(ipv4)].port
                           ELSE IF tcp # {} THEN addrs[FirstOf(tcp)].port ELSE 0
  BY DEF GetHTTPPort
<1> HIDE DEF tcp
<1>5. \A i \in 1..Len(addrs) : i \in tcp <=> addrs[i].port > 0
  BY <1>1
<1>6. \A i \in tcp : i \in 1..Len(addrs) /\ addrs[i].port > 0
  BY <1>1
<1> QED
  BY <1>2, <1>3, <1>4, <1>5, <1>6

\* Before the answer nothing has been read.
LEMMA InitPortInv == Init => PortInv
<1> SUFFICES ASSUME Init, input.kind = "port"
             PROVE  AnswerInv /\ AddressInv
  BY DEF PortInv
<1>1. input.of \in Sockets
  BY DEF Init
<1>2. input.of \in Seq(Line)
  BY <1>1, SocketsAssumption
<1>3. AnswerInv
  BY <1>2 DEF Init, AnswerInv, ClisOk
<1>4. AddressInv
  BY <1>2 DEF Init, AddressInv
<1> QED
  BY <1>3, <1>4

\* A line of the answer is skipped, refused, or added to the addresses.
LEMMA AddressStep ==
  ASSUME PortInv, AddressEntry
  PROVE  PortInv'
<1>1. /\ input.kind = "port" /\ AnswerInv /\ AddressInv
      /\ pc = "parse" /\ data = input.of /\ pos \in 1..Len(input.of)
      /\ UNCHANGED <<input, status, data, configMap>>
  BY DEF PortInv, AddressEntry, Parsing, AnswerInv
<1> DEFINE l == input.of[pos]
<1>2. l \in Line /\ input.of \in Seq(Line)
  BY <1>1 DEF AnswerInv
<1>3. CASE l = Blank
  <2>1. pos' = pos + 1 /\ UNCHANGED <<entries, pc>>
    BY <1>1, <1>3, BlankIsNotGarbled DEF AddressEntry
  <2>2. ~Proper(l)
    BY <1>3 DEF Proper
  <2>3. AnswerInv'
    BY <1>1, <2>1 DEF AnswerInv
  <2>4. AddressInv'
    BY <1>1, <2>1, <2>2 DEF AddressInv
  <2> QED
    BY <2>3, <2>4 DEF PortInv
<1>4. CASE l = Garbled
  <2>1. pc' = "error" /\ UNCHANGED <<pos, entries>>
    BY <1>1, <1>4, BlankIsNotGarbled DEF AddressEntry
  <2>2. AnswerInv'
    BY <1>1, <2>1 DEF AnswerInv
  <2>3. AddressInv'
    BY <1>1, <2>1 DEF AddressInv
  <2> QED
    BY <2>2, <2>3 DEF PortInv
<1>5. CASE Proper(l)
  <2>1. entries' = Append(entries, ParseAddress(l)) /\ pos' = pos + 1 /\ UNCHANGED pc
    BY <1>1, <1>5 DEF AddressEntry, Proper
  <2>2. ParseAddress(l) \in Address /\ entries \in Seq(Address)
    BY <1>1, <1>2, <1>5, ParsedLine DEF AddressInv
  <2> DEFINE a == ParseAddress(l)
  <2> HIDE DEF a
  <2>3. /\ entries' \in Seq(Address) /\ Len(entries') = Len(entries) + 1
        /\ entries'[Len(entries) + 1] = a
        /\ \A e \in 1..Len(entries) : entries'[e] = entries[e]
    BY <2>1, <2>2 DEF a
  <2>4. AnswerInv'
    BY <1>1, <2>1 DEF AnswerInv
  <2>5. ASSUME NEW e \in 1..Len(entries')
        PROVE  \E i \in 1..Len(input.of) :
                 Proper(input.of[i]) /\ entries'[e] = ParseAddress(input.of[i])
    <3>1. CASE e = Len(entries) + 1
      BY <1>1, <1>5, <2>3, <3>1 DEF a
    <3>2. CASE e \in 1..Len(entries)
      BY <1>1, <2>3, <3>2 DEF AddressInv
    <3> QED
      BY <2>2, <2>3, <3>1, <3>2
  <2>6. ASSUME NEW i \in 1..Len(input.of), i < pos + 1, Proper(input.of[i])
        PROVE  \E e \in 1..Len(entries') : entries'[e] = ParseAddress(input.of[i])
    <3>1. CASE i = pos
      BY <2>2, <2>3, <3>1 DEF a
    <3>2. CASE i < pos
      <4>1. PICK e \in 1..Len(entries) : entries[e] = ParseAddress(input.of[i])
        BY <1>1, <2>6, <3>2 DEF AddressInv
      <4> QED
        BY <2>2, <2>3, <4>1
    <3> QED
      BY <1>1, <2>6, <3>1, <3>2
  <2>7. AddressInv'
    BY <1>1, <2>1, <2>3, <2>5, <2>6 DEF AddressInv
  <2> QED
    BY <2>4, <2>7 DEF PortInv
<1> QED
  BY <1>3, <1>4, <1>5 DEF Proper

\* No step of varnishd or of the parsers breaks it.
LEMMA NextPortInv == PortInv /\ [Next]_vars => PortInv'
<1> SUFFICES ASSUME PortInv, [Next]_vars, input'.kind = "port"
             PROVE  AnswerInv' /\ AddressInv'
  BY DEF PortInv
<1>0. input' = input
  BY DEF Next, vars, Answer, Structured, SkipLine, ShowEntry, ListEntry, AddressEntry, Finish
<1>1. input.kind = "port" /\ AnswerInv /\ AddressInv
  BY <1>0 DEF PortInv
<1>2. CASE Answer
  <2>1. /\ status = 0 /\ pc = "asked" /\ UNCHANGED <<input, pos, entries, configMap, pc>>
        /\ status' = ClisOk => data' = Payload(input)
    BY <1>2 DEF Answer, parser, ClisOk, ClisTruncated
  <2>2. Payload(input) = input.of
    BY <1>1 DEF Payload
  <2>3. AnswerInv'
    BY <1>1, <2>1, <2>2 DEF AnswerInv
  <2>4. AddressInv'
    BY <1>1, <2>1 DEF AddressInv
  <2> QED
    BY <2>3, <2>4
<1>3. CASE Structured
  <2>1. /\ pc = "asked" /\ UNCHANGED <<input, status, data, pos, entries, configMap>>
        /\ (pc' = "parse" /\ status = ClisOk) \/ pc' = "error"
    BY <1>3 DEF Structured
  <2>2. AnswerInv'
    BY <1>1, <2>1 DEF AnswerInv
  <2>3. AddressInv'
    BY <1>1, <2>1 DEF AnswerInv, AddressInv
  <2> QED
    BY <2>2, <2>3
<1>4. CASE SkipLine
  BY <1>1, <1>4 DEF SkipLine, Parsing
<1>5. CASE ShowEntry
  BY <1>1, <1>5 DEF ShowEntry, Parsing
<1>6. CASE ListEntry
  BY <1>1, <1>6 DEF ListEntry, Parsing
<1>7. CASE AddressEntry
  BY <1>0, <1>1, <1>7, AddressStep DEF PortInv
<1>8. CASE Finish
  <2>1. /\ pc = "parse" /\ pos > Len(data) /\ pc' = "done"
        /\ UNCHANGED <<input, status, data, pos, entries, configMap>>
    BY <1>8 DEF Finish
  <2>2. AnswerInv'
    BY <1>1, <2>1 DEF AnswerInv
  <2>3. AddressInv'
    BY <1>1, <2>1 DEF AddressInv
  <2> QED
    BY <2>2, <2>3
<1>9. CASE UNCHANGED vars
  BY <1>1, <1>9 DEF vars, AnswerInv, AddressInv
<1> QED
  BY <1>2, <1>3, <1>4, <1>5, <1>6, <1>7, <1>8, <1>9 DEF Next

\* The parser's addresses are those of the answer's lines, at every step of every
\* listing of sockets.
THEOREM PortInvariant == Spec => []PortInv
  BY InitPortInv, NextPortInv, PTL DEF Spec

\* The port the tests are sent to is one varnishd listens on: over IPv4 if it does
\* at all, and never that of a Unix socket; without any, GetHTTPPort fails.  For any
\* number of sockets in any order, with blank lines anywhere between them.
THEOREM PortReached == Spec => []PortIsReachable
<1>1. PortInv => PortIsReachable
  <2> SUFFICES ASSUME PortInv, pc = "done", input.kind = "port"
               PROVE  PortIsReachable
    BY DEF PortIsReachable
  <2> DEFINE lines == input.of
             port == GetHTTPPort(entries)
  <2>1. /\ AnswerInv /\ AddressInv /\ data = lines /\ pos > Len(lines)
        /\ lines \in Seq(Line) /\ entries \in Seq(Address) /\ pos \in Nat
    BY DEF PortInv, AnswerInv, AddressInv
  <2>2. \A i \in 1..Len(lines) : lines[i] \in Line /\ (lines[i].port > 0 => Proper(lines[i]))
    <3>1. ~(Blank.port > 0) /\ ~(Garbled.port > 0)
      BY DEF Blank, Garbled
    <3> QED
      BY <2>1, <3>1 DEF Proper
  \* An address with a port is a line with that port, and the other way round.
  <2>3. ASSUME NEW e \in 1..Len(entries), entries[e].port > 0
        PROVE  \E i \in 1..Len(lines) :
                 /\ lines[i].port = entries[e].port /\ lines[i].family = entries[e].family
                 /\ lines[i].family \in {"ipv4", "ipv6"}
    <3>1. PICK i \in 1..Len(lines) : Proper(lines[i]) /\ entries[e] = ParseAddress(lines[i])
      BY <2>1 DEF AddressInv
    <3> QED
      BY <2>2, <2>3, <3>1, ParsedLine
  <2>4. ASSUME NEW i \in 1..Len(lines), lines[i].port > 0
        PROVE  \E e \in 1..Len(entries) :
                 entries[e].port = lines[i].port /\ entries[e].family = lines[i].family
    <3>1. i < pos /\ Proper(lines[i]) /\ lines[i] \in Line
      BY <2>1, <2>2, <2>4
    <3>2. PICK e \in 1..Len(entries) : entries[e] = ParseAddress(lines[i])
      BY <2>1, <3>1 DEF AddressInv
    <3> QED
      BY <2>4, <3>1, <3>2, ParsedLine
  <2>5. DOMAIN lines = 1..Len(lines)
    BY <2>1
  <2> DEFINE listens(fam) == \E i \in DOMAIN lines : lines[i].port > 0 /\ lines[i].family \in fam
             of(fam) == \E i \in DOMAIN lines : lines[i].port = port /\ lines[i].family \in fam
  <2>6. listens({"ipv4"}) => of({"ipv4"})
    <3> SUFFICES ASSUME listens({"ipv4"}) PROVE of({"ipv4"})
      OBVIOUS
    <3>1. PICK e \in 1..Len(entries) : /\ entries[e].port > 0 /\ entries[e].family = "ipv4"
                                       /\ port = entries[e].port
      BY <2>1, <2>4, <2>5, PortOf
    <3> QED
      BY <2>3, <2>5, <3>1
  <2>7. listens({"ipv4", "ipv6"}) => port > 0 /\ of({"ipv4", "ipv6"})
    <3> SUFFICES ASSUME listens({"ipv4", "ipv6"}) PROVE port > 0 /\ of({"ipv4", "ipv6"})
      OBVIOUS
    <3>1. PICK e \in 1..Len(entries) : entries[e].port > 0 /\ port = entries[e].port
      BY <2>1, <2>4, <2>5, PortOf
    <3> QED
      BY <2>3, <2>5, <3>1
  <2>8. ~listens({"ipv4", "ipv6"}) => port = 0
    <3> SUFFICES ASSUME ~listens({"ipv4", "ipv6"}) PROVE port = 0
      OBVIOUS
    <3>1. \A e \in 1..Len(entries) : ~(entries[e].port > 0)
      BY <2>3, <2>5
    <3>2. entries \in Seq(Address)
      BY <2>1
    <3> QED
      BY <3>1, <3>2, PortOf
  <2> QED
    BY <2>6, <2>7, <2>8 DEF PortIsReachable
<1> QED
  BY <1>1, PortInvariant, PTL
-----------------------------------------------------------------------------
(* vcl.list *)

\* A part of a line of vcl.list.
Token == [sym : {"word", "paren"}, text : STRING \cup {"-", "->", "label", "return"}, n : Nat]

\* The rows up to the n-th that are not blank.
Filled(rows, n) == {i \in 1..n : rows[i] # BlankRow}

\* An entry of a parsed vcl.list.
Entry == {ParseVCLLine(line) : line \in Seq(Token)}

\* The entries are those of the rows read, each at the place it has among them, and no
\* bad row is behind the parser.
RowsRead(rows, n, es) ==
  /\ es \in Seq(Entry) /\ Len(es) = Cardinality(Filled(rows, n))
  /\ \A i \in Filled(rows, n) :
       /\ rows[i] # GarbledRow /\ Cardinality(Filled(rows, i)) \in 1..Len(es)
       /\ es[Cardinality(Filled(rows, i))] = ParseVCLLine(RenderRow(rows[i]))

\* How far parseVCLList is in the answer.
ListRead ==
  /\ input.of \in Seq(Row) /\ pos \in 1..(Len(input.of) + 1)
  /\ status = ClisOk => data = Payload(input)
  /\ pc = "asked" => pos = 1 /\ entries = <<>>
  /\ pc \in {"parse", "done"} => status = ClisOk /\ RowsRead(input.of, pos - 1, entries)
  /\ pc = "done" => pos > Len(data)

ListInv == input.kind = "list" => ListRead
-----------------------------------------------------------------------------
\* The parts of a line.
LEMMA PartType ==
  /\ \A r \in Row : /\ Word(r.status) \in Token /\ Word(r.temp) \in Token
                    /\ Word(r.name) \in Token /\ Word(r.target) \in Token
  /\ Word("-") \in Token /\ Word("->") \in Token
  /\ \A k \in Nat : Paren("label", k) \in Token /\ Paren("return", k) \in Token
<1>1. ASSUME NEW t \in STRING \cup {"-", "->", "label", "return"}, NEW k \in Nat
      PROVE  Word(t) \in Token /\ Paren(t, k) \in Token
  BY DEF Word, Paren, Token
<1>2. ASSUME NEW r \in Row
      PROVE  r.status \in STRING /\ r.temp \in STRING /\ r.name \in STRING /\ r.target \in STRING
  BY DEF Row
<1>3. 0 \in Nat
  OBVIOUS
<1> QED
  BY <1>1, <1>2, <1>3, Zenon

\* The four shapes of a line.
LEMMA FourWords ==
  ASSUME NEW T, NEW a \in T, NEW b \in T, NEW c \in T, NEW d \in T, NEW line,
         line = <<a, b, c, d>> \o <<>> \o <<>> \o <<>>
  PROVE  /\ line \in Seq(T) /\ Len(line) = 4
         /\ line[1] = a /\ line[2] = b /\ line[3] = c /\ line[4] = d
  OBVIOUS

LEMMA FiveWords ==
  ASSUME NEW T, NEW a \in T, NEW b \in T, NEW c \in T, NEW d \in T, NEW g \in T, NEW line,
         line = <<a, b, c, d>> \o <<>> \o <<g>> \o <<>>
  PROVE  /\ line \in Seq(T) /\ Len(line) = 5
         /\ line[1] = a /\ line[2] = b /\ line[3] = c /\ line[4] = d /\ line[5] = g
  OBVIOUS

LEMMA SixWords ==
  ASSUME NEW T, NEW a \in T, NEW b \in T, NEW c \in T, NEW d \in T, NEW e \in T, NEW f \in T,
         NEW line,
         line = <<a, b, c, d>> \o <<e, f>> \o <<>> \o <<>>
  PROVE  /\ line \in Seq(T) /\ Len(line) = 6
         /\ line[1] = a /\ line[2] = b /\ line[3] = c /\ line[4] = d /\ line[5] = e /\ line[6] = f
  OBVIOUS

LEMMA SevenWords ==
  ASSUME NEW T, NEW a \in T, NEW b \in T, NEW c \in T, NEW d \in T, NEW e \in T, NEW f \in T,
         NEW h \in T, NEW line,
         line = <<a, b, c, d>> \o <<e, f>> \o <<>> \o <<h>>
  PROVE  /\ line \in Seq(T) /\ Len(line) = 7
         /\ line[1] = a /\ line[2] = b /\ line[3] = c /\ line[4] = d /\ line[5] = e /\ line[6] = f
         /\ line[7] = h
  OBVIOUS

\* The parts of the line of a row.
LEMMA RowRendered ==
  ASSUME NEW r \in Row, r # BlankRow, r # GarbledRow, NEW line, line = RenderRow(r)
  PROVE  /\ line \in Seq(Token)
         /\ line[1] = Word(r.status) /\ line[2] = Word(r.temp) /\ line[4] = Word(r.name)
         /\ r.target = "" /\ r.labels = 0 => Len(line) = 4
         /\ r.target = "" /\ r.labels # 0 => Len(line) = 5 /\ line[5] = Paren("label", r.labels)
         /\ r.target # "" =>
              /\ line[5] = Word("->") /\ line[6] = Word(r.target)
              /\ r.returns = 0 => Len(line) = 6
              /\ r.returns # 0 => Len(line) = 7 /\ line[7] = Paren("return", r.returns)
<1>1. /\ r.labels \in Nat /\ r.returns \in Nat
      /\ IF r.target = "" THEN r.returns = 0 ELSE r.labels = 0
  BY DEF Row
<1>2. /\ r.labels = 0 => ~(r.labels > 0)
      /\ r.labels # 0 => r.labels > 0
      /\ r.returns = 0 => ~(r.returns > 0)
      /\ r.returns # 0 => r.returns > 0
  <2>1. \A k \in Nat : (k = 0 => ~(k > 0)) /\ (k # 0 => k > 0)
    OBVIOUS
  <2> QED
    BY <1>1, <2>1, Zenon
<1>3. PICK a \in Token, b \in Token, c \in Token, d \in Token, e \in Token, f \in Token :
        /\ a = Word(r.status) /\ b = Word(r.temp) /\ c = Word("-") /\ d = Word(r.name)
        /\ e = Word("->") /\ f = Word(r.target)
  BY PartType, Zenon
<1>4. PICK g \in Token, h \in Token :
        g = Paren("label", r.labels) /\ h = Paren("return", r.returns)
  BY <1>1, PartType, Zenon
<1>5. line = <<a, b, c, d>> \o (IF r.target = "" THEN <<>> ELSE <<e, f>>)
               \o (IF r.labels > 0 THEN <<g>> ELSE <<>>)
               \o (IF r.returns > 0 THEN <<h>> ELSE <<>>)
  BY <1>3, <1>4, Zenon DEF RenderRow
<1>6. CASE r.target = "" /\ r.labels = 0
  <2>1. line = <<a, b, c, d>> \o <<>> \o <<>> \o <<>>
    BY <1>1, <1>2, <1>5, <1>6, Zenon
  <2>2. /\ line \in Seq(Token) /\ Len(line) = 4
        /\ line[1] = a /\ line[2] = b /\ line[3] = c /\ line[4] = d
    BY <2>1, FourWords
  <2> QED
    BY <1>3, <1>6, <2>2, Zenon
<1>7. CASE r.target = "" /\ r.labels # 0
  <2>1. line = <<a, b, c, d>> \o <<>> \o <<g>> \o <<>>
    BY <1>1, <1>2, <1>5, <1>7, Zenon
  <2>2. /\ line \in Seq(Token) /\ Len(line) = 5
        /\ line[1] = a /\ line[2] = b /\ line[3] = c /\ line[4] = d /\ line[5] = g
    BY <2>1, FiveWords
  <2> QED
    BY <1>3, <1>4, <1>7, <2>2, Zenon
<1>8. CASE r.target # "" /\ r.returns = 0
  <2>1. line = <<a, b, c, d>> \o <<e, f>> \o <<>> \o <<>>
    BY <1>1, <1>2, <1>5, <1>8, Zenon
  <2>2. /\ line \in Seq(Token) /\ Len(line) = 6
        /\ line[1] = a /\ line[2] = b /\ line[3] = c /\ line[4] = d /\ line[5] = e /\ line[6] = f
    BY <2>1, SixWords
  <2> QED
    BY <1>3, <1>8, <2>2, Zenon
<1>9. CASE r.target # "" /\ r.returns # 0
  <2>1. line = <<a, b, c, d>> \o <<e, f>> \o <<>> \o <<h>>
    BY <1>1, <1>2, <1>5, <1>9, Zenon
  <2>2. /\ line \in Seq(Token) /\ Len(line) = 7
        /\ line[1] = a /\ line[2] = b /\ line[3] = c /\ line[4] = d /\ line[5] = e /\ line[6] = f
        /\ line[7] = h
    BY <2>1, SevenWords
  <2> QED
    BY <1>3, <1>4, <1>9, <2>2, Zenon
<1> QED
  BY <1>6, <1>7, <1>8, <1>9

\* The first of one position is that one.
LEMMA FirstOfOne ==
  ASSUME NEW n \in Nat
  PROVE  FirstOf({n}) = n
  BY DEF FirstOf

\* The words of a line without parentheses, and of one with parentheses at its end.
LEMMA WordsOf ==
  ASSUME NEW line \in Seq(Token), Len(line) \in 4..7,
         NEW n \in {Len(line), Len(line) - 1}, n >= 4,
         \A i \in 4..n : line[i].sym = "word",
         n # Len(line) => line[Len(line)].sym = "paren"
  PROVE  /\ NameEnd(line) = IF n = Len(line) THEN 0 ELSE Len(line)
         /\ Words(line) = [i \in 1..(n - 3) |-> line[3 + i].text]
<1> DEFINE parens == {i \in 4..Len(line) : line[i].sym = "paren"}
<1>1. parens = IF n = Len(line) THEN {} ELSE {Len(line)}
  <2>1. \A i \in 4..n : line[i].sym # "paren"
    OBVIOUS
  <2> QED
    BY <2>1
<1>2. NameEnd(line) = IF parens = {} THEN 0 ELSE FirstOf(parens)
  BY DEF NameEnd
<1>3. NameEnd(line) = IF n = Len(line) THEN 0 ELSE Len(line)
  <2>1. Len(line) \in Nat /\ FirstOf({Len(line)}) = Len(line)
    BY FirstOfOne
  <2> HIDE DEF parens
  <2> QED
    BY <1>1, <1>2, <2>1
<1>4. PICK words : words = SubSeq(line, 4, n)
  OBVIOUS
<1>5. Words(line) = [i \in DOMAIN words |-> words[i].text]
  <2>1. (IF NameEnd(line) = 0 THEN Len(line) ELSE NameEnd(line) - 1) = n
    BY <1>3
  <2> QED
    BY <1>4, <2>1 DEF Words
<1>6. Len(words) = n - 3 /\ words \in Seq(Token) /\ \A i \in 1..(n - 3) : words[i] = line[3 + i]
  BY <1>4
<1>7. DOMAIN words = 1..(n - 3) /\ n - 3 \in Nat
  BY <1>6
<1>8. Words(line) = [i \in 1..(n - 3) |-> line[3 + i].text]
  BY <1>5, <1>6, <1>7
<1> QED
  BY <1>3, <1>7, <1>8

\* The first of three words.
LEMMA FirstWord ==
  ASSUME NEW a, NEW b, NEW c, NEW w, w = <<a, b, c>>
  PROVE  Len(w) = 3 /\ w[2] = b /\ w[3] = c /\ SubSeq(w, 1, 1) = <<a>>
<1>1. w \in Seq({a, b, c}) /\ Len(w) = 3 /\ w[1] = a /\ w[2] = b /\ w[3] = c
  OBVIOUS
<1>2. PICK s : s = SubSeq(w, 1, 1)
  OBVIOUS
<1>3. s \in Seq({a, b, c}) /\ Len(s) = 1 /\ s[1] = a
  BY <1>1, <1>2
<1>4. s = <<a>>
  BY <1>3
<1> QED
  BY <1>1, <1>2, <1>4

\* parseVCLLine on a row of varnishd's.
LEMMA RowParsed ==
  ASSUME NEW r \in Row, r # BlankRow, r # GarbledRow, NEW line, line = RenderRow(r)
  PROVE  LET e == ParseVCLLine(line) IN
         /\ line \in Seq(Token) /\ Len(line) >= 4
         /\ e.status = r.status /\ e.temp = r.temp /\ e.labels = r.labels /\ e.returns = r.returns
         /\ IF r.target # "" /\ r.returns = 0
            THEN e.name = <<r.name, "->", r.target>> /\ e.target = ""
            ELSE e.name = <<r.name>> /\ e.target = r.target
<1>1. /\ r.labels \in Nat /\ r.returns \in Nat
      /\ IF r.target = "" THEN r.returns = 0 ELSE r.labels = 0
  BY DEF Row
<1>2. /\ line \in Seq(Token)
      /\ line[1] = Word(r.status) /\ line[2] = Word(r.temp) /\ line[4] = Word(r.name)
      /\ r.target = "" /\ r.labels = 0 => Len(line) = 4
      /\ r.target = "" /\ r.labels # 0 => Len(line) = 5 /\ line[5] = Paren("label", r.labels)
      /\ r.target # "" =>
           /\ line[5] = Word("->") /\ line[6] = Word(r.target)
           /\ r.returns = 0 => Len(line) = 6
           /\ r.returns # 0 => Len(line) = 7 /\ line[7] = Paren("return", r.returns)
  BY RowRendered
<1>3. \A t, k : /\ Word(t).sym = "word" /\ Word(t).text = t
               /\ Paren(t, k).sym = "paren" /\ Paren(t, k).text = t /\ Paren(t, k).n = k
  BY DEF Word, Paren
<1> DEFINE label == NameEnd(line) # 0 /\ Len(Words(line)) = 3 /\ Words(line)[2] = "->"
           Parsed(e) == /\ e.status = line[1].text /\ e.temp = line[2].text
                        /\ e.name = IF label THEN SubSeq(Words(line), 1, 1) ELSE Words(line)
                        /\ e.target = IF label THEN Words(line)[3] ELSE ""
                        /\ e.labels = Count(line, "label") /\ e.returns = Count(line, "return")
<1> DEFINE Right(e) == /\ Len(line) >= 4 /\ e.labels = r.labels /\ e.returns = r.returns
                       /\ IF r.target # "" /\ r.returns = 0
                          THEN e.name = <<r.name, "->", r.target>> /\ e.target = ""
                          ELSE e.name = <<r.name>> /\ e.target = r.target
<1>4. PICK e : e = ParseVCLLine(line)
  OBVIOUS
<1>5. Parsed(e)
  BY <1>4 DEF ParseVCLLine
<1>6. e.status = r.status /\ e.temp = r.temp
  BY <1>2, <1>3, <1>5
<1>7. ASSUME r.target = "" /\ r.labels = 0
       PROVE  Right(e)
  <2>1. /\ Len(line) = 4
        /\ line[4] = Word(r.name)
    BY <1>2, <1>7, Zenon
  <2>2. /\ line[4].sym = "word" /\ line[4].text = r.name
    BY <1>3, <2>1, Zenon
  <2>3. NameEnd(line) = 0 /\ Words(line) = [i \in 1..1 |-> line[3 + i].text]
    <3>1. Len(line) \in 4..7 /\ 4 \in {Len(line), Len(line) - 1} /\ 4 >= 4
      BY <2>1
    <3>2. \A i \in 4..4 : line[i].sym = "word"
      BY <2>2
    <3>3. 4 # Len(line) => line[Len(line)].sym = "paren"
      BY <2>1, <2>2
    <3>4. /\ NameEnd(line) = IF 4 = Len(line) THEN 0 ELSE Len(line)
          /\ Words(line) = [i \in 1..(4 - 3) |-> line[3 + i].text]
      BY <1>2, <3>1, <3>2, <3>3, WordsOf
    <3> QED
      BY <2>1, <3>4
  <2>4. Words(line) = <<r.name>>
    BY <2>2, <2>3
  <2>5. Count(line, "label") = 0 /\ Count(line, "return") = 0
    BY <2>2, <2>3 DEF Count
  <2>6. ~label
    BY <2>3, <2>4
  <2>7. e.name = <<r.name>> /\ e.target = ""
    BY <1>5, <2>4, <2>6, Zenon
  <2>8. e.labels = r.labels /\ e.returns = r.returns
    BY <1>1, <1>5, <1>7, <2>5, Zenon
  <2>9. Len(line) >= 4
    BY <2>1
  <2> QED
    BY <1>1, <1>7, <2>7, <2>8, <2>9, Zenon
<1>8. ASSUME r.target = "" /\ r.labels # 0
       PROVE  Right(e)
  <2>1. /\ Len(line) = 5
        /\ line[4] = Word(r.name)
        /\ line[5] = Paren("label", r.labels)
    BY <1>2, <1>8, Zenon
  <2>2. /\ line[4].sym = "word" /\ line[4].text = r.name
        /\ line[5].sym = "paren" /\ line[5].text = "label" /\ line[5].n = r.labels
    <3>1. line[5].sym = "paren" /\ line[5].text = "label" /\ line[5].n = r.labels
      BY <1>3, <2>1
    <3>2. line[4] = Word(r.name)
      BY <2>1, Zenon
    <3>3. line[4].sym = "word" /\ line[4].text = r.name
      BY <1>3, <3>2, Zenon
    <3> QED
      BY <3>1, <3>3
  <2>3. NameEnd(line) = 5 /\ Words(line) = [i \in 1..1 |-> line[3 + i].text]
    <3>1. Len(line) \in 4..7 /\ 4 \in {Len(line), Len(line) - 1} /\ 4 >= 4
      BY <2>1
    <3>2. \A i \in 4..4 : line[i].sym = "word"
      BY <2>2
    <3>3. 4 # Len(line) => line[Len(line)].sym = "paren"
      BY <2>1, <2>2
    <3>4. /\ NameEnd(line) = IF 4 = Len(line) THEN 0 ELSE Len(line)
          /\ Words(line) = [i \in 1..(4 - 3) |-> line[3 + i].text]
      BY <1>2, <3>1, <3>2, <3>3, WordsOf
    <3> QED
      BY <2>1, <3>4
  <2>4. Words(line) = <<r.name>>
    BY <2>2, <2>3
  <2>5. Count(line, "label") = r.labels /\ Count(line, "return") = 0
    BY <2>2, <2>3 DEF Count
  <2>6. ~label
    BY <2>3, <2>4
  <2>7. e.name = <<r.name>> /\ e.target = ""
    BY <1>5, <2>4, <2>6, Zenon
  <2>8. e.labels = r.labels /\ e.returns = r.returns
    BY <1>1, <1>5, <1>8, <2>5, Zenon
  <2>9. Len(line) >= 4
    BY <2>1
  <2> QED
    BY <1>1, <1>8, <2>7, <2>8, <2>9, Zenon
<1>9. ASSUME r.target # "" /\ r.returns = 0
       PROVE  Right(e)
  <2>1. /\ Len(line) = 6
        /\ line[4] = Word(r.name)
        /\ line[5] = Word("->")
        /\ line[6] = Word(r.target)
    BY <1>2, <1>9, Zenon
  <2>2. /\ line[4].sym = "word" /\ line[4].text = r.name
        /\ line[5].sym = "word" /\ line[5].text = "->"
        /\ line[6].sym = "word" /\ line[6].text = r.target
    BY <1>3, <2>1, Zenon
  <2>3. NameEnd(line) = 0 /\ Words(line) = [i \in 1..3 |-> line[3 + i].text]
    <3>1. Len(line) \in 4..7 /\ 6 \in {Len(line), Len(line) - 1} /\ 6 >= 4
      BY <2>1
    <3>2. \A i \in 4..6 : line[i].sym = "word"
      BY <2>2
    <3>3. 6 # Len(line) => line[Len(line)].sym = "paren"
      BY <2>1, <2>2
    <3>4. /\ NameEnd(line) = IF 6 = Len(line) THEN 0 ELSE Len(line)
          /\ Words(line) = [i \in 1..(6 - 3) |-> line[3 + i].text]
      BY <1>2, <3>1, <3>2, <3>3, WordsOf
    <3> QED
      BY <2>1, <3>4
  <2>4. Words(line) = <<r.name, "->", r.target>>
    BY <2>2, <2>3
  <2>5. Count(line, "label") = 0 /\ Count(line, "return") = 0
    BY <2>2, <2>3 DEF Count
  <2>6. ~label
    BY <2>3, <2>4
  <2>7. e.name = <<r.name, "->", r.target>> /\ e.target = ""
    BY <1>5, <2>4, <2>6, Zenon
  <2>8. e.labels = r.labels /\ e.returns = r.returns
    BY <1>1, <1>5, <1>9, <2>5, Zenon
  <2>9. Len(line) >= 4
    BY <2>1
  <2> QED
    BY <1>1, <1>9, <2>7, <2>8, <2>9, Zenon
<1>10. ASSUME r.target # "" /\ r.returns # 0
       PROVE  Right(e)
  <2>1. /\ Len(line) = 7
        /\ line[4] = Word(r.name)
        /\ line[5] = Word("->")
        /\ line[6] = Word(r.target)
        /\ line[7] = Paren("return", r.returns)
    BY <1>2, <1>10, Zenon
  <2>2. /\ line[4].sym = "word" /\ line[4].text = r.name
        /\ line[5].sym = "word" /\ line[5].text = "->"
        /\ line[6].sym = "word" /\ line[6].text = r.target
        /\ line[7].sym = "paren" /\ line[7].text = "return" /\ line[7].n = r.returns
    <3>1. line[7].sym = "paren" /\ line[7].text = "return" /\ line[7].n = r.returns
      BY <1>3, <2>1
    <3>2. line[5].sym = "word" /\ line[5].text = "->"
      BY <1>3, <2>1
    <3>3. line[4].sym = "word" /\ line[4].text = r.name
      BY <1>3, <2>1, Zenon
    <3>4. line[6].sym = "word" /\ line[6].text = r.target
      BY <1>3, <2>1, Zenon
    <3> QED
      BY <3>1, <3>2, <3>3, <3>4
  <2>3. NameEnd(line) = 7 /\ Words(line) = [i \in 1..3 |-> line[3 + i].text]
    <3>1. Len(line) \in 4..7 /\ 6 \in {Len(line), Len(line) - 1} /\ 6 >= 4
      BY <2>1
    <3>2. \A i \in 4..6 : line[i].sym = "word"
      BY <2>2
    <3>3. 6 # Len(line) => line[Len(line)].sym = "paren"
      BY <2>1, <2>2
    <3>4. /\ NameEnd(line) = IF 6 = Len(line) THEN 0 ELSE Len(line)
          /\ Words(line) = [i \in 1..(6 - 3) |-> line[3 + i].text]
      BY <1>2, <3>1, <3>2, <3>3, WordsOf
    <3> QED
      BY <2>1, <3>4
  <2>4. Words(line) = <<r.name, "->", r.target>>
    BY <2>2, <2>3
  <2>5. Count(line, "label") = 0 /\ Count(line, "return") = r.returns
    BY <2>2, <2>3 DEF Count
  <2>6. label /\ Words(line)[3] = r.target /\ SubSeq(Words(line), 1, 1) = <<r.name>>
    <3>1. /\ Len(Words(line)) = 3 /\ Words(line)[2] = "->" /\ Words(line)[3] = r.target
          /\ SubSeq(Words(line), 1, 1) = <<r.name>>
      BY <2>4, FirstWord
    <3> QED
      BY <2>3, <3>1
  <2>7. e.name = <<r.name>> /\ e.target = r.target
    BY <1>5, <2>6
  <2>8. e.labels = r.labels /\ e.returns = r.returns
    BY <1>1, <1>5, <1>10, <2>5, Zenon
  <2>9. Len(line) >= 4
    BY <2>1
  <2> QED
    BY <1>1, <1>10, <2>7, <2>8, <2>9, Zenon
<1>11. Right(e)
  BY <1>7, <1>8, <1>9, <1>10, Zenon
<1> QED
  BY <1>2, <1>4, <1>6, <1>11, Zenon

\* A row more makes one entry more, unless it is blank.
LEMMA Ranks ==
  ASSUME NEW rows, NEW n \in Nat
  PROVE  /\ Cardinality(Filled(rows, n)) \in Nat
         /\ Cardinality(Filled(rows, 0)) = 0 /\ Filled(rows, 0) = {}
         /\ rows[n + 1] = BlankRow => Filled(rows, n + 1) = Filled(rows, n)
         /\ rows[n + 1] # BlankRow =>
              /\ Filled(rows, n + 1) = Filled(rows, n) \cup {n + 1}
              /\ Cardinality(Filled(rows, n + 1)) = Cardinality(Filled(rows, n)) + 1
<1>1. IsFiniteSet(1..n)
  BY FS_Interval
<1>2. Filled(rows, n) \subseteq 1..n
  BY DEF Filled
<1>3. IsFiniteSet(Filled(rows, n))
  BY <1>1, <1>2, FS_Subset
<1>4. Cardinality(Filled(rows, n)) \in Nat
  BY <1>3, FS_CardinalityType
<1>5. Filled(rows, 0) = {}
  BY DEF Filled
<1>6. Cardinality(Filled(rows, 0)) = 0
  BY <1>5, FS_EmptySet
<1>7. 1..(n + 1) = (1..n) \cup {n + 1} /\ n + 1 \notin 1..n
  OBVIOUS
<1>8. ASSUME rows[n + 1] = BlankRow
      PROVE  Filled(rows, n + 1) = Filled(rows, n)
  BY <1>7, <1>8 DEF Filled
<1>9. ASSUME rows[n + 1] # BlankRow
      PROVE  /\ Filled(rows, n + 1) = Filled(rows, n) \cup {n + 1}
             /\ Cardinality(Filled(rows, n + 1)) = Cardinality(Filled(rows, n)) + 1
  <2>1. Filled(rows, n + 1) = Filled(rows, n) \cup {n + 1}
    BY <1>7, <1>9 DEF Filled
  <2>2. n + 1 \notin Filled(rows, n)
    BY <1>2, <1>7
  <2>3. Cardinality(Filled(rows, n) \cup {n + 1}) = Cardinality(Filled(rows, n)) + 1
    BY <1>3, <2>2, FS_AddElement
  <2> QED
    BY <2>1, <2>3
<1> QED
  BY <1>4, <1>5, <1>6, <1>8, <1>9

\* What parseVCLList has behind it after a row more.
LEMMA RowsOnward ==
  ASSUME NEW rows \in Seq(Row), NEW n \in Nat, n + 1 <= Len(rows), NEW es, RowsRead(rows, n, es)
  PROVE  /\ rows[n + 1] = BlankRow => RowsRead(rows, n + 1, es)
         /\ rows[n + 1] # BlankRow /\ rows[n + 1] # GarbledRow =>
              RowsRead(rows, n + 1, Append(es, ParseVCLLine(RenderRow(rows[n + 1]))))
<1>1. ASSUME rows[n + 1] = BlankRow
      PROVE  RowsRead(rows, n + 1, es)
  <2>1. Filled(rows, n + 1) = Filled(rows, n)
    BY <1>1, Ranks
  <2> QED
    BY <2>1 DEF RowsRead
<1>2. ASSUME rows[n + 1] # BlankRow, rows[n + 1] # GarbledRow
      PROVE  RowsRead(rows, n + 1, Append(es, ParseVCLLine(RenderRow(rows[n + 1]))))
  <2>1. PICK e : e = ParseVCLLine(RenderRow(rows[n + 1]))
    OBVIOUS
  <2>2. rows[n + 1] \in Row
    OBVIOUS
  <2>3. e \in Entry
    <3>1. RenderRow(rows[n + 1]) \in Seq(Token)
      BY <1>2, <2>2, RowParsed
    <3> QED
      BY <2>1, <3>1 DEF Entry
  <2>4. es \in Seq(Entry) /\ Len(es) = Cardinality(Filled(rows, n)) /\ Len(es) \in Nat
    BY DEF RowsRead
  <2>5. PICK fs : fs = Append(es, e)
    OBVIOUS
  <2>6. /\ fs \in Seq(Entry) /\ Len(fs) = Len(es) + 1 /\ fs[Len(es) + 1] = e
        /\ \A k \in 1..Len(es) : fs[k] = es[k] /\ k \in 1..Len(fs)
    BY <2>3, <2>4, <2>5
  <2>7. /\ Filled(rows, n + 1) = Filled(rows, n) \cup {n + 1}
        /\ Cardinality(Filled(rows, n + 1)) = Len(es) + 1
    BY <1>2, <2>4, Ranks
  <2>8. ASSUME NEW i \in Filled(rows, n + 1)
        PROVE  /\ rows[i] # GarbledRow /\ Cardinality(Filled(rows, i)) \in 1..Len(fs)
               /\ fs[Cardinality(Filled(rows, i))] = ParseVCLLine(RenderRow(rows[i]))
    <3>1. CASE i = n + 1
      BY <1>2, <2>1, <2>4, <2>6, <2>7, <3>1
    <3>2. CASE i \in Filled(rows, n)
      <4>1. /\ rows[i] # GarbledRow /\ Cardinality(Filled(rows, i)) \in 1..Len(es)
            /\ es[Cardinality(Filled(rows, i))] = ParseVCLLine(RenderRow(rows[i]))
        BY <3>2 DEF RowsRead
      <4> QED
        BY <2>6, <4>1, Zenon
    <3> QED
      BY <2>7, <3>1, <3>2
  <2>9. RowsRead(rows, n + 1, fs)
    BY <2>6, <2>7, <2>8 DEF RowsRead
  <2> QED
    BY <2>1, <2>5, <2>9
<1> QED
  BY <1>1, <1>2

\* The lines of a blank and of a garbled row.
LEMMA BadRows ==
  /\ RenderRow(BlankRow) = <<>> /\ BlankRow # GarbledRow
  /\ Len(RenderRow(GarbledRow)) = 1
<1>1. BlankRow.status # GarbledRow.status
  BY DEF BlankRow, GarbledRow, NoRow
<1>2. BlankRow # GarbledRow
  BY <1>1
<1>3. RenderRow(BlankRow) = <<>>
  BY DEF RenderRow
<1>4. RenderRow(GarbledRow) = <<Word("?")>>
  BY <1>2, Zenon DEF RenderRow
<1> QED
  BY <1>2, <1>3, <1>4

\* Before the answer no row has been read.
LEMMA InitListInv == Init => ListInv
<1> SUFFICES ASSUME Init, input.kind = "list"
             PROVE  ListRead
  BY DEF ListInv
<1>1. input.of \in Lists
  BY DEF Init
<1>2. input.of \in Seq(Row)
  BY <1>1, ListsAssumption
<1>3. Len(input.of) \in Nat
  BY <1>2
<1> QED
  BY <1>2, <1>3 DEF Init, ListRead, ClisOk

\* A line of the answer is skipped, refused, or added to the entries.
LEMMA ListStep ==
  ASSUME ListInv, ListEntry
  PROVE  ListRead'
<1>1. /\ input.kind = "list" /\ ListRead
      /\ pc = "parse" /\ data = Payload(input) /\ pos <= Len(data) /\ status = ClisOk
      /\ UNCHANGED <<input, status, data, configMap>>
  BY DEF ListInv, ListEntry, Parsing, ListRead
<1>2. PICK rows : rows = input.of
  OBVIOUS
<1>3. rows \in Seq(Row) /\ pos \in 1..(Len(rows) + 1) /\ RowsRead(rows, pos - 1, entries)
  BY <1>1, <1>2 DEF ListRead
<1>4. data = [i \in DOMAIN rows |-> RenderRow(rows[i])]
  BY <1>1, <1>2 DEF Payload
<1>5. /\ Len(data) = Len(rows) /\ pos \in 1..Len(rows) /\ data[pos] = RenderRow(rows[pos])
  <2>1. DOMAIN rows = 1..Len(rows) /\ Len(rows) \in Nat
    BY <1>3
  <2>2. Len(data) = Len(rows)
    BY <1>4, <2>1
  <2>3. pos \in 1..Len(rows)
    BY <1>1, <1>3, <2>1, <2>2
  <2> QED
    BY <1>4, <2>1, <2>2, <2>3
<1>6. PICK r \in Row : r = rows[pos]
  BY <1>3, <1>5
<1>7. PICK n \in Nat : n = pos - 1 /\ n + 1 = pos /\ n + 1 <= Len(rows)
  BY <1>5
<1>8. /\ r = BlankRow => RowsRead(rows, pos, entries)
      /\ r # BlankRow /\ r # GarbledRow =>
           RowsRead(rows, pos, Append(entries, ParseVCLLine(RenderRow(r))))
  BY <1>3, <1>6, <1>7, RowsOnward
<1>9. CASE r = BlankRow
  <2>1. data[pos] = <<>>
    BY <1>5, <1>6, <1>9, BadRows
  <2>2. pos' = pos + 1 /\ UNCHANGED <<entries, pc>>
    BY <2>1 DEF ListEntry
  <2>3. pos' \in 1..(Len(rows) + 1) /\ pos' - 1 = pos
    BY <1>5, <2>2
  <2> QED
    BY <1>1, <1>2, <1>3, <1>8, <1>9, <2>2, <2>3 DEF ListRead
<1>10. CASE r = GarbledRow
  <2>1. data[pos] # <<>> /\ Len(data[pos]) = 1
    BY <1>5, <1>6, <1>10, BadRows
  <2>2. Len(data[pos]) \in 1..3
    BY <2>1
  <2>3. pc' = "error" /\ UNCHANGED <<pos, entries>>
    BY <2>1, <2>2 DEF ListEntry
  <2> QED
    BY <1>1, <2>3 DEF ListRead
<1>11. CASE r # BlankRow /\ r # GarbledRow
  <2>1. PICK line : line = RenderRow(r)
    OBVIOUS
  <2>2. line \in Seq(Token) /\ Len(line) >= 4 /\ data[pos] = line
    BY <1>5, <1>6, <1>11, <2>1, RowParsed
  <2>3. line # <<>> /\ Len(line) \notin 1..3
    <3>1. Len(<<>>) = 0 /\ Len(line) \in Nat
      BY <2>2
    <3>2. PICK k \in Nat : k = Len(line) /\ k >= 4
      BY <2>2, <3>1, Zenon
    <3>3. k # 0 /\ k \notin 1..3
      BY <3>2
    <3> QED
      BY <3>1, <3>2, <3>3, Zenon
  <2>4. entries' = Append(entries, ParseVCLLine(line)) /\ pos' = pos + 1 /\ UNCHANGED pc
    BY <2>2, <2>3 DEF ListEntry
  <2>5. pos' \in 1..(Len(rows) + 1) /\ pos' - 1 = pos
    BY <1>5, <2>4
  <2>6. RowsRead(rows, pos, entries')
    BY <1>8, <1>11, <2>1, <2>4
  <2> QED
    BY <1>1, <1>2, <1>3, <2>4, <2>5, <2>6 DEF ListRead
<1> QED
  BY <1>9, <1>10, <1>11

\* No step of varnishd or of the parsers breaks it.
LEMMA NextListInv == ListInv /\ [Next]_vars => ListInv'
<1> SUFFICES ASSUME ListInv, [Next]_vars, input'.kind = "list"
             PROVE  ListRead'
  BY DEF ListInv
<1>0. input' = input
  BY DEF Next, vars, Answer, Structured, SkipLine, ShowEntry, ListEntry, AddressEntry, Finish
<1>1. input.kind = "list" /\ ListRead
  BY <1>0 DEF ListInv
<1>2. CASE Answer
  <2>1. /\ status = 0 /\ pc = "asked" /\ UNCHANGED <<input, pos, entries, configMap, pc>>
        /\ status' = ClisOk => data' = Payload(input)
    BY <1>2 DEF Answer, parser, ClisOk, ClisTruncated
  <2> QED
    BY <1>1, <2>1 DEF ListRead, Payload
<1>3. CASE Structured
  <2>1. /\ pc = "asked" /\ UNCHANGED <<input, status, data, pos, entries, configMap>>
        /\ (pc' = "parse" /\ status = ClisOk) \/ pc' = "error"
    BY <1>3 DEF Structured
  <2>2. pos = 1 /\ entries = <<>>
    BY <1>1, <2>1 DEF ListRead
  <2>3. RowsRead(input.of, pos - 1, entries)
    <3>1. Cardinality(Filled(input.of, 0)) = 0 /\ Filled(input.of, 0) = {}
      BY Ranks
    <3>2. pos - 1 = 0 /\ entries \in Seq(Entry) /\ Len(entries) = 0
      BY <2>2
    <3> QED
      BY <3>1, <3>2 DEF RowsRead
  <2> QED
    BY <1>1, <2>1, <2>3 DEF ListRead, Payload
<1>4. CASE SkipLine
  BY <1>1, <1>4 DEF SkipLine, Parsing
<1>5. CASE ShowEntry
  BY <1>1, <1>5 DEF ShowEntry, Parsing
<1>6. CASE ListEntry
  BY <1>6, ListStep
<1>7. CASE AddressEntry
  BY <1>1, <1>7 DEF AddressEntry, Parsing
<1>8. CASE Finish
  <2>1. /\ pc = "parse" /\ pos > Len(data) /\ pc' = "done"
        /\ UNCHANGED <<input, status, data, pos, entries, configMap>>
    BY <1>8 DEF Finish
  <2> QED
    BY <1>1, <2>1 DEF ListRead
<1>9. CASE UNCHANGED vars
  BY <1>1, <1>9 DEF vars, ListRead
<1> QED
  BY <1>2, <1>3, <1>4, <1>5, <1>6, <1>7, <1>8, <1>9 DEF Next

\* The entries are those of the rows read, in their order, at every step.
THEOREM ListInvariant == Spec => []ListInv
  BY InitListInv, NextListInv, PTL DEF Spec

\* vcl.list gives back varnishd's VCLs and labels, each once and in their order, with
\* status, temperature and counts, whatever their names (varnishd allows no blank, arrow
\* or parenthesis in one) and however many blank lines are between them, and VCLs and
\* labels that are returned to with name and target; a garbled line makes the whole
\* listing an error, never a listing with a row missing.
THEOREM ListedExactly == Spec => []ListIsExact
<1>1. ListInv => ListIsExact
  <2> SUFFICES ASSUME ListInv, pc = "done", input.kind = "list"
               PROVE  ListIsExact
    BY DEF ListIsExact
  <2>1. ListRead
    BY DEF ListInv
  <2>2. PICK rows : rows = input.of
    OBVIOUS
  <2>3. /\ rows \in Seq(Row) /\ pos \in 1..(Len(rows) + 1) /\ RowsRead(rows, pos - 1, entries)
        /\ data = Payload(input) /\ pos > Len(data)
    BY <2>1, <2>2 DEF ListRead
  <2>4. Len(data) = Len(rows)
    <3>1. data = [i \in DOMAIN rows |-> RenderRow(rows[i])]
      BY <2>2, <2>3 DEF Payload
    <3> QED
      BY <2>3, <3>1
  <2>5. pos - 1 = Len(rows)
    BY <2>3, <2>4
  <2>6. \A n : RowsUpTo(n) = Filled(rows, n)
    BY <2>2 DEF RowsUpTo, Filled
  <2>7. RowsRead(rows, Len(rows), entries)
    BY <2>3, <2>5
  <2>8. Len(entries) = Cardinality(RowsUpTo(Len(rows)))
    BY <2>6, <2>7 DEF RowsRead
  <2> DEFINE Matches(e, r) ==
               /\ e.status = r.status /\ e.temp = r.temp
               /\ e.labels = r.labels /\ e.returns = r.returns
               /\ r.target = "" \/ r.returns > 0 => e.name = <<r.name>> /\ e.target = r.target
  <2>9. ASSUME NEW i \in RowsUpTo(Len(rows))
        PROVE  Matches(EntryOfRow(i), rows[i])
    <3>0. PICK e, r : e = EntryOfRow(i) /\ r = rows[i]
      OBVIOUS
    <3>1. i \in Filled(rows, Len(rows)) /\ i \in 1..Len(rows) /\ r # BlankRow
      BY <2>6, <3>0 DEF Filled
    <3>2. e = ParseVCLLine(RenderRow(r)) /\ r # GarbledRow
      BY <2>6, <2>7, <3>0, <3>1 DEF RowsRead, EntryOfRow
    <3>3. r \in Row
      BY <2>3, <3>0, <3>1
    <3>4. /\ e.status = r.status /\ e.temp = r.temp
          /\ e.labels = r.labels /\ e.returns = r.returns
          /\ ~(r.target # "" /\ r.returns = 0) => e.name = <<r.name>> /\ e.target = r.target
      BY <3>1, <3>2, <3>3, RowParsed, Zenon
    <3>5. r.returns > 0 => r.returns # 0
      <4>1. PICK k : k = r.returns
        OBVIOUS
      <4>2. k > 0 => k # 0
        OBVIOUS
      <4> QED
        BY <4>1, <4>2, Zenon
    <3>6. Matches(e, r)
      BY <3>4, <3>5, Zenon
    <3> QED
      BY <3>0, <3>6
  <2>10. Len(entries) = Cardinality(RowsUpTo(Len(input.of)))
    BY <2>2, <2>8
  <2> QED
    BY <2>2, <2>9, <2>10, Zenon DEF ListIsExact
<1> QED
  BY <1>1, ListInvariant, PTL
-----------------------------------------------------------------------------
(* vcl.show *)

\* A symbol of an answer.
AnySymbol == Symbol \cup {NL}

\* What is behind a file.
Sep == {<<>>, <<NL>>}

\* The file f and the separator are added to p in q.
Added(p, f, sep, q) ==
  /\ q \in Seq(AnySymbol) /\ f.content \in Seq(AnySymbol)
  /\ Len(p) \in Nat /\ Len(f.content) \in Nat /\ Len(sep) \in Nat
  /\ Len(q) = Len(p) + 2 + Len(f.content) + Len(sep)
  /\ \A i \in 1..Len(p) : q[i] = p[i]
  /\ q[Len(p) + 1] = Header(f.id, Len(f.content), f.name) /\ q[Len(p) + 2] = NL
  /\ \A i \in 1..Len(f.content) : q[Len(p) + 2 + i] = f.content[i]
  /\ sep = <<NL>> => q[Len(q)] = NL

\* The entry of a file.
EntryOf(f) == [id |-> f.id, size |-> Len(f.content), name |-> f.name, source |-> f.content]

\* The entries are those of the first k files, and the parser is behind the last of
\* them or on the newline that ends it.
FilesRead(files, sep, k, p, es, cm) ==
  /\ es = [i \in 1..k |-> EntryOf(files[i])]
  /\ cm = {<<files[i].id, files[i].name>> : i \in 1..k}
  /\ \/ p = Len(RenderUpTo(files, sep)[k]) + 1
     \/ sep = <<NL>> /\ k # 0 /\ p = Len(RenderUpTo(files, sep)[k])

\* No two files have the same ID.
DistinctIds(files) == \A i, j \in 1..Len(files) : files[i].id = files[j].id => i = j

\* How far parseVCLShow is in the answer.
ShowRead ==
  /\ input.of \in Shows /\ input.sep \in Sep
  /\ status = ClisOk => data = RenderShow(input.of, input.sep)
  /\ pc = "asked" => pos = 1 /\ entries = <<>> /\ configMap = {}
  /\ pc \in {"parse", "done"} =>
       /\ status = ClisOk
       /\ \E k \in 0..Len(input.of) : FilesRead(input.of, input.sep, k, pos, entries, configMap)
  /\ pc = "done" => pos > Len(data)

ShowInv == input.kind = "show" => ShowRead
-----------------------------------------------------------------------------
\* RenderUpTo is well defined: it begins with nothing and adds a file at a time.
LEMMA RenderUnrolled ==
  ASSUME NEW files, NEW sep, Len(files) \in Nat
  PROVE  /\ RenderUpTo(files, sep)[0] = <<>>
         /\ \A k \in 1..Len(files) :
              RenderUpTo(files, sep)[k] = RenderUpTo(files, sep)[k - 1] \o RenderFile(files[k], sep)
<1> DEFINE n == Len(files)
           start == <<>>
           After(s, k) == s \o RenderFile(files[k], sep)
           IsRender(g, m) == g = [k \in 0..m |-> IF k = 0 THEN start ELSE After(g[k - 1], k)]
           Bad == {m \in Nat : ~\E g : IsRender(g, m)}
<1> HIDE DEF start, After
<1>1. Bad = {}
  <2> SUFFICES ASSUME Bad # {} PROVE FALSE
    OBVIOUS
  <2>1. PICK m \in Bad : \A j \in Bad : m <= j
    BY LeastOf
  <2>2. CASE m = 0
    <3>1. IsRender([k \in 0..0 |-> start], 0)
      OBVIOUS
    <3> QED
      BY <2>1, <2>2, <3>1
  <2>3. CASE m # 0
    <3>0. m \in Nat /\ m - 1 \in Nat /\ ~(m <= m - 1)
      BY <2>1, <2>3
    <3>1. m \in Nat /\ m - 1 \in Nat /\ m - 1 \notin Bad
      BY <2>1, <3>0
    <3>2. PICK g : IsRender(g, m - 1)
      BY <3>1
    <3> DEFINE h == [k \in 0..m |-> IF k = m THEN After(g[m - 1], m) ELSE g[k]]
    <3>3. \A k \in 0..(m - 1) :
            /\ h[k] = g[k] /\ k \in 0..m
            /\ g[k] = IF k = 0 THEN start ELSE After(g[k - 1], k)
      BY <3>1, <3>2
    <3>4. h[m] = After(g[m - 1], m) /\ h = [k \in 0..m |-> h[k]]
      BY <3>1
    <3> HIDE DEF h
    <3>5. ASSUME NEW k \in 0..m
          PROVE  h[k] = IF k = 0 THEN start ELSE After(h[k - 1], k)
      <4>1. CASE k = m
        <5>1. m - 1 \in 0..(m - 1)
          BY <3>1
        <5> QED
          BY <2>3, <3>3, <3>4, <4>1, <5>1
      <4>2. CASE k # m
        <5>1. k \in 0..(m - 1) /\ (k # 0 => k - 1 \in 0..(m - 1))
          BY <3>1, <4>2
        <5> QED
          BY <3>3, <4>2, <5>1
      <4> QED
        BY <4>1, <4>2
    <3>6. IsRender(h, m)
      BY <3>4, <3>5
    <3> QED
      BY <2>1, <3>6
  <2> QED
    BY <2>2, <2>3
<1>2. PICK g : IsRender(g, n)
  BY <1>1
<1> DEFINE r == RenderUpTo(files, sep)
<1>3. IsRender(r, n)
  BY <1>2 DEF RenderUpTo, start, After
<1> HIDE DEF r
<1>4. r[0] = start /\ \A k \in 1..n : r[k] = After(r[k - 1], k)
  BY <1>3
<1> QED
  BY <1>4 DEF r, start, After

\* The symbols of two sequences put together.
LEMMA Joined ==
  ASSUME NEW T, NEW s \in Seq(T), NEW t \in Seq(T), NEW u, u = s \o t
  PROVE  /\ u \in Seq(T) /\ Len(u) = Len(s) + Len(t) /\ Len(s) \in Nat /\ Len(t) \in Nat
         /\ \A i \in 1..Len(s) : u[i] = s[i]
         /\ \A i \in 1..Len(t) : u[Len(s) + i] = t[i]
  OBVIOUS

\* A separator or none.
LEMMA SepOf ==
  ASSUME NEW T, NEW b \in T, NEW sep, sep = <<>> \/ sep = <<b>>
  PROVE  sep \in Seq(T) /\ Len(sep) \in Nat /\ (sep = <<b>> => Len(sep) = 1 /\ sep[1] = b)
<1>1. CASE sep = <<>>
  BY <1>1
<1>2. CASE sep = <<b>>
  BY <1>2
<1> QED
  BY <1>1, <1>2

\* What a file more adds: its header line, its content and the separator.
LEMMA FileAdded ==
  ASSUME NEW f \in File, NEW sep \in Sep, NEW p \in Seq(AnySymbol), NEW q,
         q = p \o RenderFile(f, sep)
  PROVE  Added(p, f, sep, q)
<1>1. PICK a : a = Header(f.id, Len(f.content), f.name)
  OBVIOUS
<1>2. PICK c : c = f.content
  OBVIOUS
<1>3. c \in Seq(Symbol) /\ f.id \in Nat /\ f.name \in STRING
  BY <1>2 DEF File
<1>4. Len(c) \in Nat /\ c \in Seq(AnySymbol)
  BY <1>3 DEF AnySymbol
<1>5. a \in AnySymbol
  BY <1>1, <1>2, <1>3, <1>4 DEF Header, AnySymbol, Symbol
<1>6. PICK b : b = NL
  OBVIOUS
<1>7. b \in AnySymbol
  BY <1>6 DEF AnySymbol
<1>8. q = p \o (<<a, b>> \o c \o sep) /\ (sep = <<>> \/ sep = <<b>>)
  BY <1>1, <1>2, <1>6 DEF RenderFile, Sep
<1>9. PICK hc : hc = <<a, b>> \o c
  OBVIOUS
<1>10. /\ hc \in Seq(AnySymbol) /\ Len(hc) = 2 + Len(c) /\ hc[1] = a /\ hc[2] = b
       /\ \A i \in 1..Len(c) : hc[2 + i] = c[i]
  BY <1>4, <1>5, <1>7, <1>9
<1>11. PICK hcs : hcs = hc \o sep
  OBVIOUS
<1>12. sep \in Seq(AnySymbol) /\ Len(sep) \in Nat /\ (sep = <<b>> => Len(sep) = 1 /\ sep[1] = b)
  BY <1>7, <1>8, SepOf, Zenon
<1>13. /\ hcs \in Seq(AnySymbol) /\ Len(hcs) = 2 + Len(c) + Len(sep)
       /\ \A i \in 1..(2 + Len(c)) : hcs[i] = hc[i]
       /\ \A i \in 1..Len(sep) : hcs[2 + Len(c) + i] = sep[i]
  <2>0. hc \in Seq(AnySymbol) /\ sep \in Seq(AnySymbol)
    BY <1>10, <1>12
  <2>1. /\ hcs \in Seq(AnySymbol) /\ Len(hcs) = Len(hc) + Len(sep)
        /\ \A i \in 1..Len(hc) : hcs[i] = hc[i]
        /\ \A i \in 1..Len(sep) : hcs[Len(hc) + i] = sep[i]
    BY <1>11, <2>0, Joined
  <2> QED
    BY <1>10, <2>1
<1>14. q = p \o hcs
  BY <1>8, <1>9, <1>11
<1>15. /\ q \in Seq(AnySymbol) /\ Len(q) = Len(p) + Len(hcs)
       /\ \A i \in 1..Len(p) : q[i] = p[i]
       /\ \A i \in 1..Len(hcs) : q[Len(p) + i] = hcs[i]
  <2>1. hcs \in Seq(AnySymbol) /\ p \in Seq(AnySymbol)
    BY <1>13
  <2> QED
    BY <1>14, <2>1, Joined
<1>16. Len(p) \in Nat /\ Len(sep) \in Nat
  BY <1>12
<1>17. q[Len(p) + 1] = a /\ q[Len(p) + 2] = b
  BY <1>4, <1>10, <1>13, <1>15, <1>16
<1>18. ASSUME NEW i \in 1..Len(c)
       PROVE  q[Len(p) + 2 + i] = c[i]
  <2>1. 2 + i \in 1..(2 + Len(c)) /\ 2 + i \in 1..Len(hcs)
    BY <1>4, <1>13, <1>16
  <2>2. q[Len(p) + (2 + i)] = hcs[2 + i] /\ hcs[2 + i] = hc[2 + i] /\ hc[2 + i] = c[i]
    BY <1>10, <1>13, <1>15, <2>1
  <2>3. Len(p) + (2 + i) = Len(p) + 2 + i
    BY <1>16
  <2> QED
    BY <2>2, <2>3
<1>19. ASSUME sep = <<b>>
       PROVE  q[Len(q)] = b
  <2>1. Len(sep) = 1 /\ sep[1] = b
    BY <1>12, <1>19
  <2>2. hcs[Len(hcs)] = b /\ Len(hcs) \in 1..Len(hcs) /\ Len(hcs) \in Nat
    BY <1>4, <1>13, <2>1
  <2> QED
    BY <1>15, <1>16, <2>2
<1>20. Len(q) = Len(p) + 2 + Len(c) + Len(sep)
  BY <1>4, <1>13, <1>15, <1>16
<1> QED
  BY <1>1, <1>2, <1>4, <1>6, <1>15, <1>16, <1>17, <1>18, <1>19, <1>20 DEF Added

\* What is rendered is a sequence of symbols, file by file.
LEMMA Rendered ==
  ASSUME NEW files \in Seq(File), NEW sep \in Sep, NEW R, R = RenderUpTo(files, sep)
  PROVE  /\ R[0] = <<>>
         /\ \A k \in 1..Len(files) : R[k] = R[k - 1] \o RenderFile(files[k], sep)
         /\ \A k \in 0..Len(files) : R[k] \in Seq(AnySymbol)
<1>1. PICK n \in Nat : n = Len(files)
  OBVIOUS
<1>2. R[0] = <<>> /\ \A k \in 1..n : R[k] = R[k - 1] \o RenderFile(files[k], sep)
  BY <1>1, RenderUnrolled
<1> DEFINE Bad == {k \in 0..n : R[k] \notin Seq(AnySymbol)}
<1>3. Bad = {}
  <2> SUFFICES ASSUME Bad # {} PROVE FALSE
    OBVIOUS
  <2>0. Bad \in SUBSET Nat
    OBVIOUS
  <2>1. PICK m \in Bad : \A j \in Bad : m <= j
    BY <2>0, LeastOf
  <2>2. m # 0
    <3>1. <<>> \in Seq(AnySymbol)
      OBVIOUS
    <3> QED
      BY <1>2, <2>1, <3>1
  <2>3. m \in 1..n /\ m - 1 \in 0..n /\ ~(m <= m - 1)
    BY <2>1, <2>2
  <2>4. R[m - 1] \in Seq(AnySymbol)
    BY <2>1, <2>3
  <2>5. files[m] \in File
    BY <1>1, <2>3
  <2>6. R[m] = R[m - 1] \o RenderFile(files[m], sep)
    BY <1>2, <2>3
  <2>7. Added(R[m - 1], files[m], sep, R[m])
    BY <2>4, <2>5, <2>6, FileAdded
  <2>8. R[m] \in Seq(AnySymbol)
    BY <2>7 DEF Added
  <2> QED
    BY <2>1, <2>8
<1> QED
  BY <1>1, <1>2, <1>3

\* A sequence begins with another.
Begins(d, q) == Len(q) <= Len(d) /\ \A i \in 1..Len(q) : d[i] = q[i]

\* The first files are at the beginning of the answer.
LEMMA Beginning ==
  ASSUME NEW files \in Seq(File), NEW sep \in Sep, NEW R, R = RenderUpTo(files, sep),
         NEW k \in 0..Len(files)
  PROVE  Begins(R[Len(files)], R[k])
<1>1. PICK n \in Nat : n = Len(files)
  OBVIOUS
<1>2. /\ \A j \in 1..n : R[j] = R[j - 1] \o RenderFile(files[j], sep)
      /\ \A j \in 0..n : R[j] \in Seq(AnySymbol)
  BY <1>1, Rendered
<1>3. \A j \in 0..n : Len(R[j]) \in Nat
  BY <1>2
<1> DEFINE Bad == {j \in k..n : ~Begins(R[j], R[k])}
<1>4. Bad = {}
  <2> SUFFICES ASSUME Bad # {} PROVE FALSE
    OBVIOUS
  <2>0. Bad \in SUBSET Nat
    BY <1>1
  <2>1. PICK m \in Bad : \A j \in Bad : m <= j
    BY <2>0, LeastOf
  <2>2. Begins(R[k], R[k])
    BY <1>1, <1>3 DEF Begins
  <2>3. m \in 1..n /\ m - 1 \in k..n /\ m - 1 \in 0..n /\ ~(m <= m - 1)
    BY <1>1, <2>1, <2>2
  <2>4. Begins(R[m - 1], R[k])
    BY <2>1, <2>3
  <2>5. R[m] = R[m - 1] \o RenderFile(files[m], sep) /\ R[m - 1] \in Seq(AnySymbol)
    BY <1>2, <2>3
  <2>7. files[m] \in File
    BY <1>1, <2>3
  <2>6. /\ Len(R[m]) = Len(R[m - 1]) + 2 + Len(files[m].content) + Len(sep)
        /\ Len(files[m].content) \in Nat /\ Len(sep) \in Nat
        /\ \A i \in 1..Len(R[m - 1]) : R[m][i] = R[m - 1][i]
    <3>1. Added(R[m - 1], files[m], sep, R[m])
      BY <2>5, <2>7, FileAdded
    <3> QED
      BY <3>1, Zenon DEF Added
  <2>8. Len(R[k]) \in Nat /\ Len(R[m - 1]) \in Nat
    BY <1>1, <1>3, <2>3
  <2>9. Len(R[m - 1]) <= Len(R[m]) /\ Len(R[m]) \in Nat
    <3>1. PICK a \in Nat, b \in Nat, c \in Nat :
            a = Len(R[m - 1]) /\ b = Len(files[m].content) /\ c = Len(sep)
      BY <2>6, <2>8, Zenon
    <3>2. Len(R[m]) = a + 2 + b + c
      BY <2>6, <3>1, Zenon
    <3>3. a <= a + 2 + b + c /\ a + 2 + b + c \in Nat
      OBVIOUS
    <3> QED
      BY <3>1, <3>2, <3>3, Zenon
  <2>10. Begins(R[m], R[k])
    <3>1. /\ Len(R[k]) <= Len(R[m - 1])
          /\ \A i \in 1..Len(R[k]) : R[m - 1][i] = R[k][i]
      BY <2>4 DEF Begins
    <3>2. \A i \in 1..Len(R[m - 1]) : R[m][i] = R[m - 1][i]
      BY <2>6
    <3>3. \A i \in 1..Len(R[k]) : i \in 1..Len(R[m - 1])
      BY <2>8, <3>1
    <3>4. Len(R[k]) <= Len(R[m])
      BY <2>8, <2>9, <3>1
    <3> QED
      BY <3>1, <3>2, <3>3, <3>4 DEF Begins
  <2> QED
    BY <2>1, <2>10
<1>5. n \in k..n
  BY <1>1
<1> QED
  BY <1>1, <1>4, <1>5

\* At p is the header of f, with the content behind it up to e.
HeaderAt(d, p, f, sep, e) ==
  /\ d[p] = Header(f.id, Len(f.content), f.name) /\ d[p + 1] = NL
  /\ \A i \in 1..Len(f.content) : d[p + 1 + i] = f.content[i]
  /\ e = p + 1 + Len(f.content) + Len(sep)
  /\ e <= Len(d)

\* Behind the k-th file is the next one's header, or nothing.
LEMMA NextFile ==
  ASSUME NEW files \in Seq(File), NEW sep \in Sep, NEW R, R = RenderUpTo(files, sep),
         NEW k \in 0..Len(files), NEW d, d = R[Len(files)], NEW p, p = Len(R[k]) + 1, p <= Len(d)
  PROVE  /\ k + 1 \in 1..Len(files) /\ Len(d) \in Nat /\ d \in Seq(AnySymbol)
         /\ HeaderAt(d, p, files[k + 1], sep, Len(R[k + 1]))
<1>1. PICK n \in Nat : n = Len(files)
  OBVIOUS
<1>2. /\ \A j \in 1..n : R[j] = R[j - 1] \o RenderFile(files[j], sep)
      /\ \A j \in 0..n : R[j] \in Seq(AnySymbol)
  BY <1>1, Rendered
<1>3. \A j \in 0..n : Len(R[j]) \in Nat
  BY <1>2
<1>4. k # n
  <2>1. Len(R[n]) \in Nat /\ d = R[n]
    BY <1>1, <1>3
  <2> QED
    BY <2>1
<1>5. k + 1 \in 1..n /\ (k + 1) - 1 = k /\ k + 1 \in 0..n
  BY <1>1, <1>4
<1>6. PICK f \in File : f = files[k + 1]
  BY <1>1, <1>5
<1>7. PICK q : q = R[k + 1]
  OBVIOUS
<1>8. PICK r \in Seq(AnySymbol) : r = R[k]
  BY <1>1, <1>2
<1>9. q = r \o RenderFile(f, sep)
  BY <1>2, <1>5, <1>6, <1>7, <1>8
<1>10. /\ q \in Seq(AnySymbol)
       /\ Len(r) \in Nat /\ Len(f.content) \in Nat /\ Len(sep) \in Nat
       /\ Len(q) = Len(r) + 2 + Len(f.content) + Len(sep)
       /\ q[Len(r) + 1] = Header(f.id, Len(f.content), f.name) /\ q[Len(r) + 2] = NL
       /\ \A i \in 1..Len(f.content) : q[Len(r) + 2 + i] = f.content[i]
  <2>1. Added(r, f, sep, q)
    BY <1>9, FileAdded
  <2> QED
    BY <2>1, Zenon DEF Added
<1>11. Len(q) <= Len(d) /\ \A i \in 1..Len(q) : d[i] = q[i]
  <2>1. k + 1 \in 0..Len(files)
    BY <1>1, <1>5
  <2>2. Begins(d, q)
    BY <1>7, <2>1, Beginning
  <2> QED
    BY <2>2 DEF Begins
<1>12. /\ Len(r) \in Nat /\ Len(q) \in Nat /\ Len(f.content) \in Nat /\ Len(sep) \in Nat
       /\ p = Len(r) + 1
  <2>1. q \in Seq(AnySymbol)
    BY <1>10
  <2>2. Len(q) \in Nat
    BY <2>1
  <2> QED
    BY <1>8, <1>10, <2>2, Zenon
<1>13. PICK c : c = f.content
  OBVIOUS
<1>14. PICK l \in Nat : l = Len(c)
  BY <1>12, <1>13
<1>15. /\ Len(q) = p + 1 + l + Len(sep)
       /\ q[p] = Header(f.id, l, f.name) /\ q[p + 1] = NL
       /\ \A i \in 1..l : q[p + 1 + i] = c[i]
  <2>1. Len(q) = p + 1 + l + Len(sep)
    <3>1. Len(q) = Len(r) + 2 + l + Len(sep)
      BY <1>10, <1>13, <1>14, Zenon
    <3>2. PICK a \in Nat, m \in Nat : a = Len(r) /\ m = Len(sep)
      BY <1>12, Zenon
    <3>3. p = a + 1 /\ Len(q) = a + 2 + l + m
      BY <1>12, <3>1, <3>2, Zenon
    <3>4. a + 2 + l + m = (a + 1) + 1 + l + m
      BY <3>2
    <3> QED
      BY <3>2, <3>3, <3>4, Zenon
  <2>2. p + 1 = Len(r) + 2 /\ \A i \in Int : p + 1 + i = Len(r) + 2 + i
    <3>1. PICK a \in Nat : a = Len(r)
      BY <1>12, Zenon
    <3>2. p = a + 1
      BY <1>12, <3>1, Zenon
    <3>3. p + 1 = a + 2 /\ \A i \in Int : p + 1 + i = a + 2 + i
      BY <3>2
    <3> QED
      BY <3>1, <3>3, Zenon
  <2>3. q[p] = Header(f.id, l, f.name) /\ q[p + 1] = NL
    BY <1>10, <1>12, <1>13, <1>14, <2>2
  <2>4. ASSUME NEW i \in 1..l
        PROVE  q[p + 1 + i] = c[i]
    BY <1>10, <1>13, <1>14, <2>2
  <2> QED
    BY <2>1, <2>3, <2>4
<1>16. p \in 1..Len(q) /\ p + 1 \in 1..Len(q) /\ \A i \in 1..l : p + 1 + i \in 1..Len(q)
  <2>1. Len(r) \in Nat /\ Len(sep) \in Nat /\ p = Len(r) + 1
    BY <1>12, Zenon
  <2>2. PICK m \in Nat : m = Len(sep)
    BY <2>1
  <2>3. Len(q) = p + 1 + l + m /\ p \in Nat /\ p # 0
    BY <1>15, <2>1, <2>2
  <2>4. PICK t : t = Len(q) /\ t = p + 1 + l + m
    BY <2>3, Zenon
  <2>5. p \in 1..t /\ p + 1 \in 1..t /\ \A i \in 1..l : p + 1 + i \in 1..t
    BY <2>3, <2>4
  <2> QED
    BY <2>4, <2>5, Zenon
<1>17. /\ d[p] = Header(f.id, l, f.name) /\ d[p + 1] = NL
       /\ \A i \in 1..l : d[p + 1 + i] = c[i]
  BY <1>11, <1>15, <1>16
<1>18. d \in Seq(AnySymbol) /\ Len(d) \in Nat
  <2>1. n \in 0..n
    OBVIOUS
  <2> QED
    BY <1>1, <1>2, <1>3, <2>1
<1>19. HeaderAt(d, p, f, sep, Len(q))
  BY <1>11, <1>13, <1>14, <1>15, <1>17, Zenon DEF HeaderAt
<1> QED
  BY <1>1, <1>5, <1>6, <1>7, <1>18, <1>19

\* A file's newline is the last symbol of it.
LEMMA Separator ==
  ASSUME NEW files \in Seq(File), NEW sep, sep = <<NL>>, NEW R, R = RenderUpTo(files, sep),
         NEW k \in 1..Len(files), NEW d, d = R[Len(files)]
  PROVE  Len(R[k]) \in 1..Len(d) /\ Len(d) \in Nat /\ d[Len(R[k])] = NL
<1>0. sep \in Sep
  BY DEF Sep
<1>1. PICK n \in Nat : n = Len(files)
  OBVIOUS
<1>2. /\ \A j \in 1..n : R[j] = R[j - 1] \o RenderFile(files[j], sep)
      /\ \A j \in 0..n : R[j] \in Seq(AnySymbol)
  BY <1>0, <1>1, Rendered
<1>3. k - 1 \in 0..n /\ k \in 0..n /\ n \in 0..n
  BY <1>1
<1>4. PICK f \in File : f = files[k]
  BY <1>1
<1>5. PICK r \in Seq(AnySymbol) : r = R[k - 1]
  BY <1>2, <1>3
<1>6. PICK q : q = R[k]
  OBVIOUS
<1>7. q = r \o RenderFile(f, sep)
  BY <1>1, <1>2, <1>4, <1>5, <1>6
<1>8. /\ q \in Seq(AnySymbol)
      /\ Len(r) \in Nat /\ Len(f.content) \in Nat /\ Len(sep) \in Nat
      /\ Len(q) = Len(r) + 2 + Len(f.content) + Len(sep) /\ q[Len(q)] = NL
  <2>1. Added(r, f, sep, q)
    BY <1>0, <1>7, FileAdded
  <2> QED
    BY <2>1, Zenon DEF Added
<1>9. PICK a \in Nat, b \in Nat, c \in Nat : Len(q) = a + 2 + b + c
  BY <1>8, Zenon
<1>10. Len(q) \in 1..Len(q)
  BY <1>9
<1>11. Len(q) <= Len(d) /\ \A i \in 1..Len(q) : d[i] = q[i]
  <2>1. k \in 0..Len(files)
    BY <1>1, <1>3
  <2>2. Begins(d, q)
    BY <1>0, <1>6, <2>1, Beginning
  <2> QED
    BY <2>2 DEF Begins
<1>12. Len(d) \in Nat
  BY <1>1, <1>2, <1>3
<1>13. Len(q) \in 1..Len(d) /\ d[Len(q)] = q[Len(q)]
  BY <1>9, <1>10, <1>11, <1>12
<1> QED
  BY <1>6, <1>8, <1>12, <1>13, Zenon

\* The line that starts at pos ends at the first newline.
LEMMA LineEndIs ==
  ASSUME NEW e \in Nat, pos \in Nat, Len(data) \in Nat, pos <= e, e <= Len(data), data[e] = NL,
         \A i \in pos..(e - 1) : data[i] # NL
  PROVE  LineEnd = e
<1> DEFINE Ends(x) == /\ x = Len(data) + 1 \/ data[x] = NL
                      /\ \A i \in pos..(x - 1) : data[i] # NL
<1>1. e \in pos..(Len(data) + 1) /\ Ends(e)
  OBVIOUS
<1>2. ASSUME NEW x \in pos..(Len(data) + 1), Ends(x)
      PROVE  x = e
  <2>1. CASE x < e
    <3>1. x \in pos..(e - 1) /\ x # Len(data) + 1
      BY <2>1
    <3> QED
      BY <1>2, <3>1
  <2>2. CASE x > e
    <3>1. e \in pos..(x - 1)
      BY <2>2
    <3> QED
      BY <1>2, <3>1
  <2> QED
    BY <2>1, <2>2
<1>3. LineEnd = CHOOSE x \in pos..(Len(data) + 1) : Ends(x)
  BY DEF LineEnd
<1> HIDE DEF Ends
<1> QED
  BY <1>1, <1>2, <1>3

\* Before the answer no file has been read.
LEMMA InitShowInv == Init => ShowInv
<1> SUFFICES ASSUME Init, input.kind = "show"
             PROVE  ShowRead
  BY DEF ShowInv
<1>1. input.of \in Shows /\ input.sep \in Sep
  BY DEF Init, Sep
<1> QED
  BY <1>1 DEF Init, ShowRead, ClisOk

\* Where parseVCLShow is: before a file's header, or on the newline behind one.
LEMMA Reading ==
  ASSUME ShowRead, pc \in {"parse", "done"},
         NEW files, files = input.of, NEW sep, sep = input.sep
  PROVE  /\ files \in Seq(File) /\ sep \in Sep /\ data = RenderUpTo(files, sep)[Len(files)]
         /\ DistinctIds(files)
         /\ \E k \in 0..Len(files) : FilesRead(files, sep, k, pos, entries, configMap)
<1>1. files \in Shows /\ sep \in Sep /\ data = RenderShow(files, sep)
  BY DEF ShowRead
<1>2. /\ files \in Seq(File)
      /\ \A i, j \in DOMAIN files : files[i].id = files[j].id => i = j
  BY <1>1, ShowsAssumption
<1>3. DOMAIN files = 1..Len(files)
  BY <1>2
<1>4. DistinctIds(files)
  BY <1>2, <1>3, Zenon DEF DistinctIds
<1>5. data = RenderUpTo(files, sep)[Len(files)]
  BY <1>1 DEF RenderShow
<1>6. \E k \in 0..Len(files) : FilesRead(files, sep, k, pos, entries, configMap)
  BY DEF ShowRead
<1> QED
  BY <1>1, <1>2, <1>4, <1>5, <1>6

\* On the newline behind a file there is no header, and the next line is the next
\* file's.
LEMMA OnSeparator ==
  ASSUME ShowRead, pc = "parse", pos <= Len(data),
         NEW files, files = input.of, NEW sep, sep = input.sep,
         NEW k \in 1..Len(files), NEW R, R = RenderUpTo(files, sep), sep = <<NL>>, pos = Len(R[k])
  PROVE  ~IsHeader /\ LineEnd = pos /\ pos \in Nat
<1>1. files \in Seq(File) /\ data = R[Len(files)]
  BY Reading
<1>2. pos \in 1..Len(data) /\ Len(data) \in Nat /\ data[pos] = NL
  BY <1>1, Separator
<1>3. LineEnd = pos
  <2>1. pos \in Nat /\ pos <= pos /\ \A i \in pos..(pos - 1) : data[i] # NL
    BY <1>2
  <2> QED
    BY <1>2, <2>1, LineEndIs
<1>4. ~IsHeader
  BY <1>2, <1>3 DEF IsHeader
<1> QED
  BY <1>2, <1>3, <1>4

\* The parser is on the header of f, and what it takes is that file up to e.
OnFile(f, sep, e) ==
  /\ IsHeader /\ pos \in Nat
  /\ LineEnd = pos + 1 /\ Clip(LineEnd + 1) = pos + 2 /\ data[pos].size = Len(f.content)
  /\ Clip(pos + 2 + Len(f.content)) = pos + 2 + Len(f.content)
  /\ EntryAt(pos + 2, pos + 2 + Len(f.content)) = EntryOf(f)
  /\ e = pos + 1 + Len(f.content) + Len(sep)
  /\ Len(f.content) \in Nat

\* s is the l elements of d from x on.
IsCut(s, d, x, l, T) == s \in Seq(T) /\ Len(s) = l /\ \A i \in 1..l : s[i] = d[x + i - 1]

\* A part of a sequence.
LEMMA Cut ==
  ASSUME NEW T, NEW d \in Seq(T), NEW x \in Nat, NEW y \in Nat, NEW l \in Nat,
         x >= 1, y - x + 1 = l, y <= Len(d), NEW s, s = SubSeq(d, x, y)
  PROVE  IsCut(s, d, x, l, T)
  BY DEF IsCut

\* Two sequences with the same elements.
LEMMA SameElements ==
  ASSUME NEW S, NEW T, NEW s \in Seq(S), NEW t \in Seq(T), Len(s) = Len(t),
         \A i \in 1..Len(s) : s[i] = t[i]
  PROVE  s = t
  OBVIOUS

\* Behind a file the parser sees the next header, whose line is complete, and finds
\* the content behind it.
LEMMA OnHeader ==
  ASSUME ShowRead, pc = "parse", pos <= Len(data),
         NEW files, files = input.of, NEW sep, sep = input.sep,
         NEW k \in 0..Len(files), NEW R, R = RenderUpTo(files, sep), pos = Len(R[k]) + 1,
         NEW f, f = files[k + 1]
  PROVE  k + 1 \in 1..Len(files) /\ OnFile(f, sep, Len(R[k + 1]))
<1>1. files \in Seq(File) /\ sep \in Sep /\ data = R[Len(files)]
  BY Reading
<1>2. /\ k + 1 \in 1..Len(files) /\ Len(data) \in Nat /\ data \in Seq(AnySymbol)
      /\ data[pos] = Header(f.id, Len(f.content), f.name) /\ data[pos + 1] = NL
      /\ \A i \in 1..Len(f.content) : data[pos + 1 + i] = f.content[i]
      /\ Len(R[k + 1]) = pos + 1 + Len(f.content) + Len(sep)
      /\ Len(R[k + 1]) <= Len(data)
  <2>1. /\ k + 1 \in 1..Len(files) /\ Len(data) \in Nat /\ data \in Seq(AnySymbol)
        /\ HeaderAt(data, pos, f, sep, Len(R[k + 1]))
    BY <1>1, NextFile
  <2> QED
    BY <2>1, Zenon DEF HeaderAt
<1>3. f \in File
  BY <1>1, <1>2
<1>4. PICK c : c = f.content
  OBVIOUS
<1>5. c \in Seq(Symbol)
  BY <1>3, <1>4 DEF File
<1>6. PICK l \in Nat : l = Len(c)
  BY <1>5
<1>7. pos \in Nat /\ pos # 0
  <2>1. R[k] \in Seq(AnySymbol)
    BY <1>1, Rendered
  <2>2. Len(R[k]) \in Nat
    BY <2>1
  <2> QED
    BY <2>2
<1>8. Len(sep) \in Nat
  BY <1>1 DEF Sep
<1>9. pos + 1 + l <= Len(data) /\ pos + 1 + l + Len(sep) <= Len(data)
  <2>1. pos + 1 + l + Len(sep) <= Len(data)
    BY <1>2, <1>4, <1>6, Zenon
  <2>2. Len(data) \in Nat
    BY <1>2
  <2>3. PICK p \in Nat, m \in Nat, t \in Nat : p = pos /\ m = Len(sep) /\ t = Len(data)
    BY <1>7, <1>8, <2>2, Zenon
  <2>4. p + 1 + l + m <= t
    BY <2>1, <2>3, Zenon
  <2>5. p + 1 + l <= t
    BY <2>4
  <2> QED
    BY <2>1, <2>3, <2>5, Zenon
<1>10. /\ data[pos].sym = "header" /\ data[pos].size = l
       /\ data[pos].id = f.id /\ data[pos].name = f.name
  BY <1>2, <1>4, <1>6 DEF Header
<1>11. data[pos] # NL
  <2>1. NL.sym = "nl"
    BY DEF NL
  <2> QED
    BY <1>10, <2>1
<1>12. LineEnd = pos + 1
  <2>1. /\ pos + 1 \in Nat /\ pos <= pos + 1 /\ pos + 1 <= Len(data)
        /\ \A i \in pos..((pos + 1) - 1) : data[i] # NL
    BY <1>2, <1>7, <1>9, <1>11
  <2>2. data[pos + 1] = NL /\ Len(data) \in Nat
    BY <1>2
  <2> QED
    BY <1>7, <2>1, <2>2, LineEndIs
<1>13. IsHeader
  BY <1>7, <1>10, <1>12 DEF IsHeader
<1>14. Clip(LineEnd + 1) = pos + 2 /\ Clip(pos + 2 + l) = pos + 2 + l
  <2>1. Len(data) \in Nat
    BY <1>2
  <2> QED
    BY <1>7, <1>9, <1>12, <2>1 DEF Clip
<1>15. FileName = f.name
  BY <1>10, <1>12 DEF FileName
<1>16. SubSeq(data, pos + 2, (pos + 2 + l) - 1) = c
  <2>1. PICK x \in Nat, y \in Nat : x = pos + 2 /\ y = (pos + 2 + l) - 1 /\ y - x + 1 = l /\ x >= 1
    BY <1>7
  <2>2. PICK s : s = SubSeq(data, x, y)
    OBVIOUS
  <2>3. data \in Seq(AnySymbol) /\ Len(data) \in Nat /\ y <= Len(data)
    BY <1>2, <1>7, <1>9, <2>1
  <2>4. s \in Seq(AnySymbol) /\ Len(s) = l /\ \A i \in 1..l : s[i] = data[x + i - 1]
    <3>1. x >= 1 /\ y - x + 1 = l
      BY <2>1, Zenon
    <3>2. PICK d : d = data
      OBVIOUS
    <3>3. d \in Seq(AnySymbol) /\ y <= Len(d) /\ s = SubSeq(d, x, y)
      BY <2>2, <2>3, <3>2, Zenon
    <3>4. IsCut(s, d, x, l, AnySymbol)
      BY <3>1, <3>3, Cut, Zenon
    <3> QED
      BY <3>2, <3>4, Zenon DEF IsCut
  <2>5. \A i \in 1..l : data[pos + 1 + i] = c[i]
    BY <1>2, <1>4, <1>6, Zenon
  <2>6. ASSUME NEW i \in 1..l
        PROVE  s[i] = c[i]
    <3>1. x + i - 1 = pos + 1 + i
      BY <1>7, <2>1
    <3>2. s[i] = data[x + i - 1] /\ data[pos + 1 + i] = c[i]
      BY <2>4, <2>5, Zenon
    <3> QED
      BY <3>1, <3>2, Zenon
  <2>7. s = c
    <3>1. Len(s) = Len(c) /\ \A i \in 1..Len(s) : s[i] = c[i]
      BY <1>6, <2>4, <2>6, Zenon
    <3>2. s \in Seq(AnySymbol)
      BY <2>4
    <3> QED
      BY <1>5, <3>1, <3>2, SameElements, Zenon
  <2> QED
    BY <2>1, <2>2, <2>7
<1>17. EntryAt(pos + 2, pos + 2 + l) = EntryOf(f)
  BY <1>4, <1>6, <1>10, <1>15, <1>16 DEF EntryAt, EntryOf
<1> QED
  BY <1>2, <1>4, <1>6, <1>7, <1>10, <1>12, <1>13, <1>14, <1>17, Zenon DEF OnFile

\* An entry more for f.
Taken(f, es, cm, es2, cm2) ==
  es2 = Append(es, EntryOf(f)) /\ cm2 = {x \in cm : x[1] # f.id} \cup {<<f.id, f.name>>}

\* A header more: an entry more.
LEMMA FilesOnward ==
  ASSUME NEW files \in Seq(File), NEW sep \in Sep, DistinctIds(files),
         NEW k \in Nat, k + 1 \in 1..Len(files),
         NEW p, NEW es, NEW cm, FilesRead(files, sep, k, p, es, cm),
         NEW es2, NEW cm2, Taken(files[k + 1], es, cm, es2, cm2),
         NEW q \in Nat, q + Len(sep) = Len(RenderUpTo(files, sep)[k + 1]) + 1
  PROVE  FilesRead(files, sep, k + 1, q, es2, cm2)
<1>0. PICK e : /\ e = EntryOf(files[k + 1]) /\ es2 = Append(es, e)
              /\ cm2 = {x \in cm : x[1] # e.id} \cup {<<e.id, e.name>>}
  BY DEF Taken, EntryOf
<1>1. es = [i \in 1..k |-> EntryOf(files[i])] /\ cm = {<<files[i].id, files[i].name>> : i \in 1..k}
  BY DEF FilesRead
<1>2. Append(es, e) = [i \in 1..(k + 1) |-> EntryOf(files[i])]
  <2> DEFINE Entries == {EntryOf(f) : f \in File}
  <2>1. \A i \in 1..(k + 1) : i \in 1..Len(files) /\ files[i] \in File
    OBVIOUS
  <2>2. \A i \in 1..(k + 1) : EntryOf(files[i]) \in Entries
    BY <2>1
  <2> HIDE DEF Entries
  <2>3. es \in Seq(Entries) /\ Len(es) = k /\ e \in Entries
    <3>1. k + 1 \in 1..(k + 1)
      OBVIOUS
    <3> QED
      BY <1>0, <1>1, <2>2, <3>1
  <2>4. PICK fs : fs = Append(es, e)
    OBVIOUS
  <2>5. /\ fs \in Seq(Entries) /\ Len(fs) = k + 1 /\ fs[k + 1] = e
        /\ \A i \in 1..k : fs[i] = es[i]
    BY <2>3, <2>4
  <2>6. ASSUME NEW i \in 1..(k + 1)
        PROVE  fs[i] = EntryOf(files[i])
    <3>1. CASE i = k + 1
      BY <1>0, <2>5, <3>1, Zenon
    <3>2. CASE i # k + 1
      <4>1. i \in 1..k
        BY <3>2
      <4>2. es[i] = EntryOf(files[i])
        BY <1>1, <4>1
      <4> QED
        BY <2>5, <4>1, <4>2, Zenon
    <3> QED
      BY <3>1, <3>2
  <2>7. fs = [i \in 1..(k + 1) |-> fs[i]]
    BY <2>5
  <2> QED
    BY <2>4, <2>6, <2>7
<1>3. e.id = files[k + 1].id /\ e.name = files[k + 1].name
  BY <1>0 DEF EntryOf
<1>4. {x \in cm : x[1] # e.id} = cm
  <2>1. ASSUME NEW x \in cm
        PROVE  x[1] # e.id
    <3>1. PICK i \in 1..k : x = <<files[i].id, files[i].name>>
      BY <1>1
    <3>2. x[1] = files[i].id
      BY <3>1
    <3>3. i \in 1..Len(files) /\ i # k + 1
      OBVIOUS
    <3> QED
      BY <1>3, <3>2, <3>3 DEF DistinctIds
  <2> QED
    BY <2>1
<1>5. cm \cup {<<e.id, e.name>>} = {<<files[i].id, files[i].name>> : i \in 1..(k + 1)}
  <2>1. 1..(k + 1) = (1..k) \cup {k + 1}
    OBVIOUS
  <2> QED
    BY <1>1, <1>3, <2>1
<1>6. \/ q = Len(RenderUpTo(files, sep)[k + 1]) + 1
      \/ sep = <<NL>> /\ k + 1 # 0 /\ q = Len(RenderUpTo(files, sep)[k + 1])
  <2>1. PICK r : r = RenderUpTo(files, sep)
    OBVIOUS
  <2>2. r[k + 1] \in Seq(AnySymbol)
    <3>1. k + 1 \in 0..Len(files)
      OBVIOUS
    <3> QED
      BY <2>1, <3>1, Rendered
  <2>3. PICK l \in Nat : l = Len(r[k + 1])
    BY <2>2
  <2>4. q + Len(sep) = l + 1
    BY <2>1, <2>3
  <2>5. ASSUME sep = <<>>
        PROVE  q = l + 1
    <3>1. Len(sep) = 0
      BY <2>5
    <3> QED
      BY <2>4, <3>1
  <2>6. ASSUME sep = <<NL>>
        PROVE  q = l /\ k + 1 # 0
    <3>1. Len(sep) = 1
      BY <2>6
    <3> QED
      BY <2>4, <3>1
  <2>7. sep = <<>> \/ sep = <<NL>>
    BY DEF Sep
  <2> QED
    BY <2>1, <2>3, <2>5, <2>6, <2>7, Zenon
<1> QED
  BY <1>0, <1>2, <1>4, <1>5, <1>6 DEF FilesRead

\* A line is skipped only behind a file.
LEMMA SkipStep ==
  ASSUME ShowRead, input.kind = "show", SkipLine
  PROVE  ShowRead'
<1>1. /\ pc = "parse" /\ pos <= Len(data) /\ ~IsHeader /\ pos' = LineEnd + 1
      /\ UNCHANGED <<input, status, data, entries, configMap, pc>>
  BY DEF SkipLine, Parsing
<1>2. PICK files, sep : files = input.of /\ sep = input.sep
  OBVIOUS
<1>3. PICK k \in 0..Len(files) : FilesRead(files, sep, k, pos, entries, configMap)
  BY <1>1, <1>2, Reading
<1>4. PICK R : R = RenderUpTo(files, sep)
  OBVIOUS
<1>5. pos # Len(R[k]) + 1
  BY <1>1, <1>2, <1>4, OnHeader DEF OnFile
<1>6. sep = <<NL>> /\ k # 0 /\ pos = Len(R[k])
  BY <1>3, <1>4, <1>5 DEF FilesRead
<1>7. k \in 1..Len(files)
  BY <1>6
<1>8. LineEnd = pos /\ pos \in Nat
  BY <1>1, <1>2, <1>4, <1>6, <1>7, OnSeparator
<1>9. pos' = Len(R[k]) + 1
  BY <1>1, <1>6, <1>8
<1>10. FilesRead(files, sep, k, pos', entries, configMap)
  BY <1>3, <1>4, <1>9 DEF FilesRead
<1>11. \E j \in 0..Len(files) : FilesRead(files, sep, j, pos', entries, configMap)
  BY <1>10
<1> QED
  BY <1>1, <1>2, <1>11 DEF ShowRead

\* A header is read only where a file begins, and then the whole of it.
LEMMA EntryStep ==
  ASSUME ShowRead, input.kind = "show", ShowEntry
  PROVE  ShowRead'
<1>1. /\ pc = "parse" /\ pos <= Len(data) /\ IsHeader
      /\ UNCHANGED <<input, status, data, pc>>
  BY DEF ShowEntry, Parsing
<1>2. PICK files, sep : files = input.of /\ sep = input.sep
  OBVIOUS
<1>3. PICK k \in 0..Len(files) : FilesRead(files, sep, k, pos, entries, configMap)
  BY <1>1, <1>2, Reading
<1>4. PICK R : R = RenderUpTo(files, sep)
  OBVIOUS
<1>5. ~(sep = <<NL>> /\ k # 0 /\ pos = Len(R[k]))
  <2> SUFFICES ASSUME sep = <<NL>>, k # 0, pos = Len(R[k])
               PROVE  FALSE
    OBVIOUS
  <2>1. k \in 1..Len(files)
    OBVIOUS
  <2> QED
    BY <1>1, <1>2, <1>4, <2>1, OnSeparator
<1>6. pos = Len(R[k]) + 1
  BY <1>3, <1>4, <1>5 DEF FilesRead
<1>7. PICK f : f = files[k + 1]
  OBVIOUS
<1>8. PICK l : l = Len(f.content)
  OBVIOUS
<1>9. /\ k + 1 \in 1..Len(files) /\ pos \in Nat
      /\ Clip(LineEnd + 1) = pos + 2 /\ data[pos].size = l
      /\ Clip(pos + 2 + l) = pos + 2 + l
      /\ EntryAt(pos + 2, pos + 2 + l) = EntryOf(f)
      /\ Len(R[k + 1]) = pos + 1 + l + Len(sep)
      /\ l \in Nat
  <2>1. k + 1 \in 1..Len(files) /\ OnFile(f, sep, Len(R[k + 1]))
    BY <1>1, <1>2, <1>4, <1>6, <1>7, OnHeader
  <2> QED
    BY <1>8, <2>1, Zenon DEF OnFile
<1>10. PICK e : e = EntryOf(f)
  OBVIOUS
<1>11. /\ entries' = Append(entries, e)
       /\ configMap' = {x \in configMap : x[1] # e.id} \cup {<<e.id, e.name>>}
       /\ pos' = pos + 2 + l
  BY <1>9, <1>10, Zenon DEF ShowEntry
<1>12. /\ files \in Seq(File) /\ sep \in Sep
       /\ DistinctIds(files)
  BY <1>1, <1>2, Reading
<1>13. PICK q \in Nat : q = pos + 2 + l /\ q + Len(sep) = Len(R[k + 1]) + 1
  <2>1. Len(sep) \in Nat
    BY <1>12 DEF Sep
  <2> QED
    BY <1>9, <2>1
<1>14. Taken(files[k + 1], entries, configMap, entries', configMap')
  <2>1. e.id = f.id /\ e.name = f.name
    BY <1>10 DEF EntryOf
  <2> QED
    BY <1>7, <1>10, <1>11, <2>1 DEF Taken
<1>15. FilesRead(files, sep, k + 1, pos', entries', configMap')
  <2>1. k \in Nat /\ k + 1 \in 1..Len(files)
    BY <1>9
  <2>2. q + Len(sep) = Len(RenderUpTo(files, sep)[k + 1]) + 1
    BY <1>4, <1>13
  <2>3. PICK p, es, cm, es2, cm2 :
          /\ p = pos /\ es = entries /\ cm = configMap
          /\ es2 = entries' /\ cm2 = configMap'
    OBVIOUS
  <2>4. FilesRead(files, sep, k, p, es, cm) /\ Taken(files[k + 1], es, cm, es2, cm2)
    BY <1>3, <1>14, <2>3
  <2>5. FilesRead(files, sep, k + 1, q, es2, cm2)
    BY <1>12, <2>1, <2>2, <2>4, FilesOnward
  <2>6. q = pos'
    BY <1>11, <1>13
  <2> QED
    BY <2>3, <2>5, <2>6
<1>16. \E j \in 0..Len(files) : FilesRead(files, sep, j, pos', entries', configMap')
  <2>1. k + 1 \in 0..Len(files)
    BY <1>9
  <2> QED
    BY <1>15, <2>1
<1> QED
  BY <1>1, <1>2, <1>16 DEF ShowRead

\* No step of varnishd or of the parsers breaks it.
LEMMA NextShowInv == ShowInv /\ [Next]_vars => ShowInv'
<1> SUFFICES ASSUME ShowInv, [Next]_vars, input'.kind = "show"
             PROVE  ShowRead'
  BY DEF ShowInv
<1>0. input' = input
  BY DEF Next, vars, Answer, Structured, SkipLine, ShowEntry, ListEntry, AddressEntry, Finish
<1>1. input.kind = "show" /\ ShowRead
  BY <1>0 DEF ShowInv
<1>2. CASE Answer
  <2>1. /\ status = 0 /\ pc = "asked" /\ UNCHANGED <<input, pos, entries, configMap, pc>>
        /\ status' = ClisOk => data' = Payload(input)
    BY <1>2 DEF Answer, parser, ClisOk, ClisTruncated
  <2>2. Payload(input) = RenderShow(input.of, input.sep)
    BY <1>1 DEF Payload
  <2> QED
    BY <1>1, <2>1, <2>2 DEF ShowRead
<1>3. CASE Structured
  <2>1. /\ pc = "asked" /\ UNCHANGED <<input, status, data, pos, entries, configMap>>
        /\ (pc' = "parse" /\ status = ClisOk) \/ pc' = "error"
    BY <1>3 DEF Structured
  <2>2. pos = 1 /\ entries = <<>> /\ configMap = {}
    BY <1>1, <2>1 DEF ShowRead
  <2>3. PICK files, sep : files = input.of /\ sep = input.sep
    OBVIOUS
  <2>4. files \in Seq(File) /\ Len(files) \in Nat
    BY <1>1, <2>3, ShowsAssumption DEF ShowRead
  <2>5. RenderUpTo(files, sep)[0] = <<>>
    BY <2>4, RenderUnrolled
  <2>6. Len(RenderUpTo(files, sep)[0]) = 0
    BY <2>5
  <2>7. FilesRead(files, sep, 0, pos, entries, configMap)
    BY <2>2, <2>6 DEF FilesRead
  <2>8. \E k \in 0..Len(files) : FilesRead(files, sep, k, pos, entries, configMap)
    BY <2>4, <2>7
  <2> QED
    BY <1>1, <2>1, <2>3, <2>8 DEF ShowRead
<1>4. CASE SkipLine
  BY <1>1, <1>4, SkipStep
<1>5. CASE ShowEntry
  BY <1>1, <1>5, EntryStep
<1>6. CASE ListEntry
  BY <1>1, <1>6 DEF ListEntry, Parsing
<1>7. CASE AddressEntry
  BY <1>1, <1>7 DEF AddressEntry, Parsing
<1>8. CASE Finish
  <2>1. /\ pc = "parse" /\ pos > Len(data) /\ pc' = "done"
        /\ UNCHANGED <<input, status, data, pos, entries, configMap>>
    BY <1>8 DEF Finish
  <2> QED
    BY <1>1, <2>1 DEF ShowRead
<1>9. CASE UNCHANGED vars
  BY <1>1, <1>9 DEF vars, ShowRead
<1> QED
  BY <1>2, <1>3, <1>4, <1>5, <1>6, <1>7, <1>8, <1>9 DEF Next

\* The entries are those of the files read, at every step.
THEOREM ShowInvariant == Spec => []ShowInv
  BY InitShowInv, NextShowInv, PTL DEF Spec

\* vcl.show -v gives back every file of the VCL once, in order, with exactly its source,
\* for any number of files with any content: header lines, newlines or nothing in it, and
\* with or without a newline behind each.
THEOREM ShownExactly == Spec => []ShowIsExact
<1>1. ShowInv => ShowIsExact
  <2> SUFFICES ASSUME ShowInv, pc = "done", input.kind = "show"
               PROVE  ShowIsExact
    BY DEF ShowIsExact
  <2>1. ShowRead /\ pos > Len(data)
    BY DEF ShowInv, ShowRead
  <2>2. PICK files, sep : files = input.of /\ sep = input.sep
    OBVIOUS
  <2>3. PICK n : n = Len(files)
    OBVIOUS
  <2>4. PICK R : R = RenderUpTo(files, sep)
    OBVIOUS
  <2>5. /\ files \in Seq(File) /\ sep \in Sep /\ data = R[n]
        /\ \E k \in 0..n : FilesRead(files, sep, k, pos, entries, configMap)
    BY <2>1, <2>2, <2>3, <2>4, Reading
  <2>6. PICK k \in 0..n : FilesRead(files, sep, k, pos, entries, configMap)
    BY <2>5
  <2>7. n \in Nat /\ DOMAIN files = 1..n
    BY <2>3, <2>5
  <2>8. Len(R[k]) \in Nat /\ Len(R[n]) \in Nat /\ Len(R[k]) <= Len(R[n])
    <3>0. \A j \in 0..n : R[j] \in Seq(AnySymbol)
      BY <2>3, <2>4, <2>5, Rendered
    <3>1. R[k] \in Seq(AnySymbol) /\ R[n] \in Seq(AnySymbol)
      BY <2>7, <3>0
    <3>2. Begins(R[n], R[k])
      BY <2>3, <2>4, <2>5, Beginning
    <3> QED
      BY <3>1, <3>2 DEF Begins
  <2>9. pos = Len(R[k]) + 1
    <3>1. pos = Len(R[k]) + 1 \/ pos = Len(R[k])
      BY <2>4, <2>6 DEF FilesRead
    <3>2. pos # Len(R[k])
      BY <2>1, <2>5, <2>8
    <3> QED
      BY <3>1, <3>2
  <2>10. k = n
    <3> SUFFICES ASSUME k # n
                 PROVE  FALSE
      OBVIOUS
    <3>1. k + 1 \in 1..n /\ k + 1 \in 0..n /\ (k + 1) - 1 = k
      BY <2>7
    <3>2. R[k + 1] = R[k] \o RenderFile(files[k + 1], sep) /\ R[k] \in Seq(AnySymbol)
      BY <2>3, <2>4, <2>5, <3>1, Rendered
    <3>3. files[k + 1] \in File
      BY <2>3, <2>5, <3>1
    <3>4. Added(R[k], files[k + 1], sep, R[k + 1])
      BY <2>5, <3>2, <3>3, FileAdded
    <3>5. Begins(R[n], R[k + 1])
      BY <2>3, <2>4, <2>5, <3>1, Beginning
    <3>6. PICK a \in Nat, b \in Nat, c \in Nat : a = Len(R[k]) /\ Len(R[k + 1]) = a + 2 + b + c
      BY <3>4, Zenon DEF Added
    <3>7. a + 2 + b + c <= Len(data)
      BY <2>5, <3>5, <3>6 DEF Begins
    <3>8. a + 1 > Len(data) /\ Len(data) \in Nat
      BY <2>1, <2>5, <2>8, <2>9, <3>6
    <3> QED
      BY <3>7, <3>8
  <2>11. /\ entries = [i \in 1..n |-> EntryOf(files[i])]
         /\ configMap = {<<files[i].id, files[i].name>> : i \in 1..n}
    BY <2>6, <2>10 DEF FilesRead
  <2>12. Len(entries) = n /\ DOMAIN entries = 1..n
    BY <2>7, <2>11
  <2>13. ASSUME NEW i \in 1..n
         PROVE  /\ entries[i].source = files[i].content
                /\ entries[i].id = files[i].id /\ entries[i].name = files[i].name
    BY <2>11 DEF EntryOf
  <2>14. Len(entries) = Len(input.of)
    BY <2>2, <2>3, <2>12, Zenon
  <2>15. \A i \in DOMAIN entries :
           /\ entries[i].source = input.of[i].content
           /\ entries[i].id = input.of[i].id /\ entries[i].name = input.of[i].name
    BY <2>2, <2>12, <2>13, Zenon
  <2> QED
    BY <2>14, <2>15, Zenon DEF ShowIsExact
<1> QED
  BY <1>1, ShowInvariant, PTL
-----------------------------------------------------------------------------
(* Executed blocks *)

\* The blocks whose body or closing brace holds the token at x.
Holders(p, x) == {b \in Block(p) : p.open[b] < x /\ x <= p.close[b]}

\* The blocks around b.
Above(p, b) == {c \in Block(p) : Encloses(p, c, b)}

\* The token at x is in the condition or at the opening brace of a block.
InHeader(p, x) == \E c \in Block(p) : c < x /\ x <= p.open[c]

\* A set of numbers below a bound that is not empty has a greatest one.
LEMMA GreatestOf ==
  ASSUME NEW n \in Nat, NEW S \in SUBSET (0..n), S # {}
  PROVE  \E m \in S : \A j \in S : j <= m
<1> DEFINE T == {n - j : j \in S}
<1>0. PICK s \in S : TRUE
  OBVIOUS
<1>1. T \in SUBSET Nat /\ T # {}
  <2>1. \A j \in S : n - j \in Nat
    OBVIOUS
  <2>2. n - s \in T
    OBVIOUS
  <2> QED
    BY <2>1, <2>2
<1>2. PICK k \in T : \A j \in T : k <= j
  BY <1>1, LeastOf
<1>3. PICK m \in S : k = n - m
  OBVIOUS
<1>4. ASSUME NEW j \in S
      PROVE  j <= m
  <2>1. n - j \in T
    OBVIOUS
  <2>2. n - m <= n - j /\ j \in 0..n /\ m \in 0..n
    BY <1>2, <1>3, <2>1
  <2> QED
    BY <2>2
<1> QED
  BY <1>4

\* Last and First are in their set.
LEMMA LastOf ==
  ASSUME NEW n \in Nat, NEW S \in SUBSET (0..n), S # {}
  PROVE  Last(S) \in S /\ \A j \in S : j <= Last(S)
  BY GreatestOf DEF Last

LEMMA FirstIs ==
  ASSUME NEW S \in SUBSET Nat, S # {}
  PROVE  First(S) \in S /\ \A j \in S : First(S) <= j
  BY LeastOf DEF First

\* What a program is, in parts.
LEMMA ProgramTypes ==
  ASSUME NEW p, Program(p)
  PROVE  /\ p.n \in Nat /\ Block(p) \subseteq 1..p.n /\ p.subs \subseteq Block(p)
         /\ \A b \in Block(p) :
              /\ b \in Nat /\ p.open[b] \in 1..p.n /\ p.close[b] \in 1..p.n
              /\ b < p.open[b] /\ p.open[b] < p.close[b]
              /\ p.stmts[b] \subseteq Block(p) /\ p.els[b] \in Block(p) \cup {0}
              /\ p.els[b] # 0 => p.els[b] = p.close[b] + 1
              /\ 0 \notin Block(p)
         /\ \A x \in 1..p.n : p.line[x] \in Nat
<1>1. \A b \in Block(p) : p.els[b] \in {0, p.close[b] + 1}
  BY DEF Program, Block
<1>2. /\ p.n \in Nat /\ Block(p) \subseteq 1..p.n /\ p.subs \subseteq Block(p)
      /\ p.stmts \in [Block(p) -> SUBSET Block(p)] /\ p.els \in [Block(p) -> Block(p) \cup {0}]
      /\ p.open \in [Block(p) -> 1..p.n] /\ p.close \in [Block(p) -> 1..p.n]
      /\ p.line \in [1..p.n -> Nat]
      /\ \A b \in Block(p) : b < p.open[b] /\ p.open[b] < p.close[b]
  BY DEF Program, Block
<1>3. ASSUME NEW b \in Block(p)
      PROVE  /\ b \in Nat /\ p.open[b] \in 1..p.n /\ p.close[b] \in 1..p.n
             /\ b < p.open[b] /\ p.open[b] < p.close[b]
             /\ 0 \notin Block(p)
  BY <1>2
<1>4. ASSUME NEW b \in Block(p)
      PROVE  /\ p.stmts[b] \subseteq Block(p) /\ p.els[b] \in Block(p) \cup {0}
             /\ p.els[b] # 0 => p.els[b] = p.close[b] + 1
  BY <1>1, <1>2
<1>5. \A x \in 1..p.n : p.line[x] \in Nat
  BY <1>2
<1>6. p.n \in Nat /\ Block(p) \subseteq 1..p.n /\ p.subs \subseteq Block(p)
  BY <1>2
<1> QED
  BY <1>3, <1>4, <1>5, <1>6

\* Two blocks are apart or one is around the other.
LEMMA Nesting ==
  ASSUME NEW p, Program(p), NEW b \in Block(p), NEW c \in Block(p), b # c
  PROVE  \/ p.close[b] < c
         \/ p.close[c] < b
         \/ p.open[b] < c /\ p.close[c] < p.close[b]
         \/ p.open[c] < b /\ p.close[b] < p.close[c]
<1>1. b \in Nat /\ c \in Nat
  BY ProgramTypes
<1>2. \A x, y \in Block(p) : x < y => p.close[x] < y \/ Encloses(p, x, y)
  BY DEF Program, Block
<1> QED
  BY <1>1, <1>2 DEF Encloses

\* The order of two positions in a file is the order of their lines.
LEMMA LinesInOrder ==
  ASSUME NEW p, Program(p), NEW x \in 1..p.n, NEW y \in 1..p.n, p.file[x] = p.file[y]
  PROVE  /\ x <= y => p.line[x] <= p.line[y]
         /\ p.line[x] < p.line[y] => x < y
<1>1. \A u, v \in 1..p.n : u <= v /\ p.file[u] = p.file[v] => p.line[u] <= p.line[v]
  BY DEF Program
<1>2. p.line[x] \in Nat /\ p.line[y] \in Nat /\ p.n \in Nat
  BY ProgramTypes
<1> QED
  BY <1>1, <1>2

\* At the first token of a block one is in the blocks around it.
LEMMA AtStart ==
  ASSUME NEW p, Program(p), NEW b \in Block(p)
  PROVE  Holders(p, b) = Above(p, b) /\ ~InHeader(p, b)
<1>1. ASSUME NEW c \in Block(p)
      PROVE  /\ p.open[c] < b /\ b <= p.close[c] <=> Encloses(p, c, b)
             /\ ~(c < b /\ b <= p.open[c])
  <2>1. /\ b \in Nat /\ p.open[b] \in Nat /\ p.close[b] \in Nat
        /\ c \in Nat /\ p.open[c] \in Nat /\ p.close[c] \in Nat
        /\ b < p.open[b] /\ p.open[b] < p.close[b] /\ c < p.open[c] /\ p.open[c] < p.close[c]
    BY ProgramTypes
  <2>2. b # c => \/ p.close[b] < c
                 \/ p.close[c] < b
                 \/ p.open[b] < c /\ p.close[c] < p.close[b]
                 \/ p.open[c] < b /\ p.close[b] < p.close[c]
    BY Nesting
  <2> QED
    BY <2>1, <2>2 DEF Encloses
<1> QED
  BY <1>1 DEF Holders, Above, InHeader

\* A block is in one file, a user's file, with the blocks around it.
LEMMA FileOfBlock ==
  ASSUME NEW p, Program(p), NEW b \in Block(p)
  PROVE  /\ p.file[b] \in UserFiles(p) /\ b \in FileBlocks(p, p.file[b])
         /\ p.file[p.open[b]] = p.file[b] /\ p.file[p.close[b]] = p.file[b]
         /\ p.file[p.open[b] + 1] = p.file[b]
         /\ \A x \in Holders(p, b) \cup Above(p, b) : p.file[x] = p.file[b]
<1>1. \A c \in Block(p) : \A x \in c..p.close[c] : p.file[x] = p.file[c]
  BY DEF Program, Block
<1>2. /\ b \in Nat /\ p.open[b] \in Nat /\ p.close[b] \in Nat /\ b \in 1..p.n
      /\ b < p.open[b] /\ p.open[b] < p.close[b]
  BY ProgramTypes
<1>3. /\ p.open[b] \in b..p.close[b] /\ p.close[b] \in b..p.close[b]
      /\ p.open[b] + 1 \in b..p.close[b]
  BY <1>2
<1>4. p.file[b] \in UserFiles(p)
  BY <1>2 DEF UserFiles
<1>5. \A f \in UserFiles(p) : f \in p.tree[f]
  BY DEF Program
<1>6. b \in FileBlocks(p, p.file[b])
  BY <1>4, <1>5 DEF FileBlocks
<1>7. ASSUME NEW c \in Above(p, b)
      PROVE  p.file[c] = p.file[b]
  <2>1. c \in Block(p) /\ p.open[c] < b /\ p.close[b] < p.close[c]
    BY DEF Above, Encloses
  <2>2. c \in Nat /\ p.open[c] \in Nat /\ p.close[c] \in Nat /\ c < p.open[c]
    BY <2>1, ProgramTypes
  <2>3. b \in c..p.close[c]
    BY <1>2, <2>1, <2>2
  <2> QED
    BY <1>1, <2>1, <2>3
<1>8. Holders(p, b) = Above(p, b)
  BY AtStart
<1> QED
  BY <1>1, <1>3, <1>4, <1>6, <1>7, <1>8

\* The token a block holds is in the block's file.
LEMMA FileOfHolder ==
  ASSUME NEW p, Program(p), NEW x \in Nat, NEW b \in Holders(p, x)
  PROVE  b \in Block(p) /\ p.file[x] = p.file[b] /\ x \in 1..p.n
<1>1. \A c \in Block(p) : \A y \in c..p.close[c] : p.file[y] = p.file[c]
  BY DEF Program, Block
<1>2. b \in Block(p) /\ p.open[b] < x /\ x <= p.close[b]
  BY DEF Holders
<1>3. /\ b \in Nat /\ p.open[b] \in Nat /\ p.close[b] \in 1..p.n /\ b < p.open[b]
      /\ p.n \in Nat
  BY <1>2, ProgramTypes
<1>4. x \in b..p.close[b] /\ x \in 1..p.n
  BY <1>2, <1>3
<1> QED
  BY <1>1, <1>2, <1>4

\* Behind the opening brace of a block one is in it and in the blocks around it.
LEMMA AfterOpen ==
  ASSUME NEW p, Program(p), NEW b \in Block(p)
  PROVE  /\ Holders(p, p.open[b] + 1) \subseteq {b} \cup Above(p, b)
         /\ b \in Holders(p, p.open[b] + 1)
         /\ ~InHeader(p, p.open[b] + 1)
<1>0. /\ b \in Nat /\ p.open[b] \in Nat /\ p.close[b] \in Nat
      /\ b < p.open[b] /\ p.open[b] < p.close[b]
  BY ProgramTypes
<1>1. ASSUME NEW c \in Block(p)
      PROVE  /\ p.open[c] < p.open[b] + 1 /\ p.open[b] + 1 <= p.close[c] =>
                  c = b \/ Encloses(p, c, b)
             /\ ~(c < p.open[b] + 1 /\ p.open[b] + 1 <= p.open[c])
  <2>1. /\ c \in Nat /\ p.open[c] \in Nat /\ p.close[c] \in Nat
        /\ c < p.open[c] /\ p.open[c] < p.close[c]
    BY ProgramTypes
  <2>2. b # c => \/ p.close[b] < c
                 \/ p.close[c] < b
                 \/ p.open[b] < c /\ p.close[c] < p.close[b]
                 \/ p.open[c] < b /\ p.close[b] < p.close[c]
    BY Nesting
  <2> QED
    BY <1>0, <2>1, <2>2 DEF Encloses
<1>2. b \in Holders(p, p.open[b] + 1)
  BY <1>0 DEF Holders
<1> QED
  BY <1>1, <1>2 DEF Holders, Above, InHeader

\* Behind the closing brace of a block one is in the blocks around it.
LEMMA AfterClose ==
  ASSUME NEW p, Program(p), NEW b \in Block(p)
  PROVE  Holders(p, p.close[b] + 1) = Above(p, b) /\ ~InHeader(p, p.close[b] + 1)
<1>0. /\ b \in Nat /\ p.open[b] \in Nat /\ p.close[b] \in Nat
      /\ b < p.open[b] /\ p.open[b] < p.close[b]
  BY ProgramTypes
<1>1. ASSUME NEW c \in Block(p)
      PROVE  /\ p.open[c] < p.close[b] + 1 /\ p.close[b] + 1 <= p.close[c] <=> Encloses(p, c, b)
             /\ ~(c < p.close[b] + 1 /\ p.close[b] + 1 <= p.open[c])
  <2>1. /\ c \in Nat /\ p.open[c] \in Nat /\ p.close[c] \in Nat
        /\ c < p.open[c] /\ p.open[c] < p.close[c]
    BY ProgramTypes
  <2>2. b # c => \/ p.close[b] < c
                 \/ p.close[c] < b
                 \/ p.open[b] < c /\ p.close[c] < p.close[b]
                 \/ p.open[c] < b /\ p.close[b] < p.close[c]
    BY Nesting
  <2> QED
    BY <1>0, <2>1, <2>2 DEF Encloses
<1> QED
  BY <1>1 DEF Holders, Above, InHeader

\* At the closing brace of a block one is in it and in the blocks around it.
LEMMA AtClose ==
  ASSUME NEW p, Program(p), NEW b \in Block(p)
  PROVE  {b} \cup Above(p, b) \subseteq Holders(p, p.close[b])
<1>0. /\ b \in Nat /\ p.open[b] \in Nat /\ p.close[b] \in Nat
      /\ b < p.open[b] /\ p.open[b] < p.close[b]
  BY ProgramTypes
<1>1. ASSUME NEW c \in Block(p), Encloses(p, c, b)
      PROVE  p.open[c] < p.close[b] /\ p.close[b] <= p.close[c]
  <2>1. p.open[c] \in Nat /\ p.close[c] \in Nat
    BY ProgramTypes
  <2> QED
    BY <1>0, <1>1, <2>1 DEF Encloses
<1>2. p.open[b] < p.close[b] /\ p.close[b] <= p.close[b]
  BY <1>0
<1> QED
  BY <1>1, <1>2 DEF Holders, Above

\* The parts of an if chain are on one level.
LEMMA ElseLevel ==
  ASSUME NEW p, Program(p), NEW b \in Block(p), p.els[b] # 0
  PROVE  p.els[b] \in Block(p) /\ p.els[b] > b /\ Above(p, p.els[b]) = Above(p, b)
<1>1. p.els[b] \in Block(p) /\ p.els[b] = p.close[b] + 1
  BY ProgramTypes
<1>2. /\ b \in Nat /\ p.open[b] \in Nat /\ p.close[b] \in Nat
      /\ b < p.open[b] /\ p.open[b] < p.close[b]
  BY ProgramTypes
<1>3. p.els[b] > b
  BY <1>1, <1>2
<1>4. Holders(p, p.els[b]) = Above(p, p.els[b])
  BY <1>1, AtStart
<1>5. Holders(p, p.close[b] + 1) = Above(p, b)
  BY AfterClose
<1> QED
  BY <1>1, <1>3, <1>4, <1>5

\* A statement that is no if leads to a token of the same blocks.
LEMMA Onward ==
  ASSUME NEW p, Program(p), NEW x \in Nat, x \notin Block(p), ~InHeader(p, x),
         \A b \in Block(p) : x # p.close[b]
  PROVE  Holders(p, x + 1) = Holders(p, x) /\ ~InHeader(p, x + 1)
<1>1. ASSUME NEW c \in Block(p)
      PROVE  /\ p.open[c] < x + 1 /\ x + 1 <= p.close[c] <=> p.open[c] < x /\ x <= p.close[c]
             /\ ~(c < x + 1 /\ x + 1 <= p.open[c])
  <2>1. /\ c \in Nat /\ p.open[c] \in Nat /\ p.close[c] \in Nat
        /\ c < p.open[c] /\ p.open[c] < p.close[c]
    BY ProgramTypes
  <2>2. x # c /\ x # p.close[c] /\ ~(c < x /\ x <= p.open[c])
    BY DEF InHeader
  <2> QED
    BY <2>1, <2>2
<1> QED
  BY <1>1 DEF Holders, InHeader

-----------------------------------------------------------------------------
\* G[b] gives a value at b from the values at later blocks.
FromBehind(B, V, G) ==
  \A b \in B : \A f, g \in [B -> V] :
    (\A c \in B : b < c => f[c] = g[c]) => G[b][f] = G[b][g]

\* A function has at each block the value G gives.
Solved(B, V, G) == \E f \in [B -> V] : \A b \in B : f[b] = G[b][f]

\* There is such a function if values are determined by those at later blocks.
LEMMA DefinedFromBehind ==
  ASSUME NEW n \in Nat, NEW B, B \subseteq 1..n, NEW V, V # {},
         NEW G, G \in [B -> [[B -> V] -> V]], FromBehind(B, V, G)
  PROVE  Solved(B, V, G)
<1> DEFINE Good(m) == \E f \in [B -> V] : \A b \in B : n - m < b => f[b] = G[b][f]
           Bad == {m \in 0..n : ~Good(m)}
<1>1. Bad = {}
  <2> SUFFICES ASSUME Bad # {} PROVE FALSE
    OBVIOUS
  <2>0. Bad \in SUBSET Nat
    OBVIOUS
  <2>1. PICK m \in Bad : \A j \in Bad : m <= j
    BY <2>0, LeastOf
  <2>2. CASE m = 0
    <3>1. PICK v : v \in V
      OBVIOUS
    <3>2. [b \in B |-> v] \in [B -> V]
      BY <3>1
    <3>3. \A b \in B : ~(n - m < b)
      BY <2>2
    <3>4. Good(m)
      BY <3>2, <3>3
    <3> QED
      BY <2>1, <3>4
  <2>3. CASE m # 0
    <3>1. m \in 1..n /\ m - 1 \in 0..n /\ ~(m <= m - 1)
      BY <2>1, <2>3
    <3>2. Good(m - 1)
      BY <2>1, <3>1
    <3>3. PICK f \in [B -> V] : \A b \in B : n - (m - 1) < b => f[b] = G[b][f]
      BY <3>2
    <3>4. PICK k : k = n - (m - 1)
      OBVIOUS
    <3>5. k \in 1..n /\ n - m = k - 1 /\ k - 1 < k
      BY <3>1, <3>4
    <3>6. CASE k \notin B
      <4>1. \A b \in B : n - m < b => n - (m - 1) < b
        BY <3>4, <3>5, <3>6
      <4>2. Good(m)
        BY <3>3, <4>1
      <4> QED
        BY <2>1, <4>2
    <3>7. CASE k \in B
      <4> DEFINE h == [f EXCEPT ![k] = G[k][f]]
      <4>1. G[k][f] \in V
        BY <3>3, <3>7
      <4>2. h \in [B -> V] /\ h[k] = G[k][f] /\ \A c \in B : c # k => h[c] = f[c]
        BY <3>3, <3>7, <4>1
      <4> HIDE DEF h
      <4>3. ASSUME NEW b \in B, n - m < b
            PROVE  h[b] = G[b][h]
        <5>1. \A c \in B : b < c => h[c] = f[c]
          BY <3>5, <4>2, <4>3
        <5>2. G[b][h] = G[b][f]
          BY <3>3, <4>2, <5>1 DEF FromBehind
        <5>3. CASE b = k
          BY <4>2, <5>2, <5>3
        <5>4. CASE b # k
          <6>1. n - (m - 1) < b
            BY <3>4, <3>5, <4>3, <5>4
          <6>2. f[b] = G[b][f]
            BY <3>3, <6>1
          <6> QED
            BY <4>2, <5>2, <5>4, <6>2
        <5> QED
          BY <5>3, <5>4
      <4>4. Good(m)
        BY <4>2, <4>3
      <4> QED
        BY <2>1, <4>4
    <3> QED
      BY <3>6, <3>7
  <2> QED
    BY <2>2, <2>3
<1>2. Good(n)
  <2>1. \A m \in 0..n : Good(m)
    BY <1>1
  <2> HIDE DEF Good
  <2>2. n \in 0..n
    OBVIOUS
  <2> QED
    BY <2>1, <2>2
<1>3. \A b \in B : n - n < b
  OBVIOUS
<1> QED
  BY <1>2, <1>3 DEF Solved

\* ElseChain is well defined.
LEMMA ElseChainIs ==
  ASSUME NEW p, Program(p), NEW b \in Block(p)
  PROVE  ElseChain(p)[b] = {b} \cup (IF p.els[b] = 0 THEN {} ELSE ElseChain(p)[p.els[b]])
<1> DEFINE B == Block(p)
           V == SUBSET B
           Rest(f, x) == IF p.els[x] = 0 THEN {} ELSE f[p.els[x]]
           G == [x \in B |-> [f \in [B -> V] |-> {x} \cup Rest(f, x)]]
<1>1. p.n \in Nat /\ B \in SUBSET (1..p.n) /\ V # {}
  BY ProgramTypes
<1>2. \A x \in B : p.els[x] # 0 => p.els[x] \in B /\ x < p.els[x]
  <2> TAKE x \in B
  <2> HAVE p.els[x] # 0
  <2>1. p.els[x] \in B /\ p.els[x] > x
    BY ElseLevel
  <2>2. x \in Nat /\ p.els[x] \in Nat
    BY <1>1, <2>1
  <2> QED
    BY <2>1, <2>2
<1> HIDE DEF B
<1>3. ASSUME NEW x \in B, NEW f \in [B -> V]
      PROVE  {x} \cup Rest(f, x) \in V
  BY <1>2
<1>4. G \in [B -> [[B -> V] -> V]]
  BY <1>3
<1>5. \A x \in B : \A f \in [B -> V] : G[x][f] = {x} \cup Rest(f, x)
  OBVIOUS
<1> HIDE DEF G, V
<1>6. FromBehind(B, V, G)
  <2> SUFFICES ASSUME NEW x \in B, NEW f \in [B -> V], NEW g \in [B -> V],
                      \A c \in B : x < c => f[c] = g[c]
               PROVE  G[x][f] = G[x][g]
    BY DEF FromBehind
  <2>1. Rest(f, x) = Rest(g, x)
    BY <1>2
  <2> HIDE DEF Rest
  <2>2. G[x][f] = {x} \cup Rest(f, x)
    BY <1>5
  <2>3. G[x][g] = {x} \cup Rest(g, x)
    BY <1>5
  <2> QED
    BY <2>1, <2>2, <2>3
<1> HIDE DEF Rest
<1>7. PICK f \in [B -> V] : \A x \in B : f[x] = G[x][f]
  <2>1. PICK n : n = p.n
    OBVIOUS
  <2>2. n \in Nat
    BY <1>1, <2>1
  <2>3. B \subseteq 1..n
    BY <1>1, <2>1
  <2>4. V # {}
    BY <1>1
  <2>5. Solved(B, V, G)
    BY <1>4, <1>6, <2>2, <2>3, <2>4, DefinedFromBehind, Zenon
  <2> QED
    BY <2>5 DEF Solved
<1>8. \A x \in B : f[x] = {x} \cup Rest(f, x)
  BY <1>5, <1>7
<1>9. f = [x \in B |-> {x} \cup Rest(f, x)]
  BY <1>7, <1>8
<1>10. PICK e : e = ElseChain(p)
  OBVIOUS
<1>11. e = [x \in B |-> {x} \cup Rest(e, x)]
  BY <1>9, <1>10 DEF ElseChain, B, Rest
<1>12. e[b] = {b} \cup Rest(e, b)
  BY <1>11 DEF B
<1> QED
  BY <1>10, <1>12 DEF Rest

\* The parts of an if chain from b on: blocks of one level, b the first, with the
\* else part of each.
LEMMA ChainOf ==
  ASSUME NEW p, Program(p), NEW b \in Block(p)
  PROVE  /\ ElseChain(p)[b] \subseteq Block(p) /\ b \in ElseChain(p)[b]
         /\ \A c \in ElseChain(p)[b] :
              /\ b <= c /\ Above(p, c) = Above(p, b)
              /\ p.els[c] # 0 => p.els[c] \in ElseChain(p)[b]
<1> DEFINE B == Block(p)
           e == ElseChain(p)
           Good(x) == /\ e[x] \subseteq B
                      /\ \A c \in e[x] : /\ x <= c /\ Above(p, c) = Above(p, x)
                                         /\ p.els[c] # 0 => p.els[c] \in e[x]
           Bad == {x \in B : ~Good(x)}
<1>0. p.n \in Nat /\ B \subseteq 1..p.n /\ B \subseteq Nat
  BY ProgramTypes
<1>1. \A x \in B : e[x] = {x} \cup (IF p.els[x] = 0 THEN {} ELSE e[p.els[x]])
  BY ElseChainIs
<1>2. \A x \in B : x \in e[x]
  BY <1>1
<1>3. \A x \in B : p.els[x] # 0 => /\ p.els[x] \in B /\ p.els[x] > x
                                   /\ Above(p, p.els[x]) = Above(p, x)
  BY ElseLevel
<1> HIDE DEF B, e
<1>4. Bad = {}
  <2> SUFFICES ASSUME Bad # {} PROVE FALSE
    OBVIOUS
  <2>0. Bad \subseteq B
    OBVIOUS
  <2>1. Bad \in SUBSET (0..p.n)
    <3> HIDE DEF Bad
    <3>1. 1..p.n \subseteq 0..p.n
      BY <1>0
    <3> QED
      BY <1>0, <2>0, <3>1
  <2>2. PICK x \in Bad : \A j \in Bad : j <= x
    BY <1>0, <2>1, GreatestOf
  <2>3. x \in B /\ x \in Nat
    BY <1>0, <2>2
  <2>4. CASE p.els[x] = 0
    <3>1. e[x] = {x}
      BY <1>1, <2>3, <2>4
    <3>2. Good(x)
      BY <2>3, <2>4, <3>1
    <3> QED
      BY <2>2, <3>2
  <2>5. CASE p.els[x] # 0
    <3>1. PICK y : y = p.els[x]
      OBVIOUS
    <3>2. y \in B /\ y \in Nat /\ y > x /\ Above(p, y) = Above(p, x)
      BY <1>0, <1>3, <2>3, <2>5, <3>1
    <3>3. ~(y <= x)
      BY <2>3, <3>2
    <3>4. Good(y)
      BY <2>2, <3>2, <3>3
    <3>5. e[x] = {x} \cup e[y]
      BY <1>1, <2>3, <2>5, <3>1
    <3>6. y \in e[y]
      BY <1>2, <3>2
    <3>7. ASSUME NEW c \in e[x]
          PROVE  /\ x <= c /\ Above(p, c) = Above(p, x)
                 /\ p.els[c] # 0 => p.els[c] \in e[x]
      <4>1. CASE c = x
        BY <2>3, <3>1, <3>5, <3>6, <4>1
      <4>2. CASE c \in e[y]
        <5>1. c \in B /\ y <= c /\ Above(p, c) = Above(p, y) /\ (p.els[c] # 0 => p.els[c] \in e[y])
          BY <3>4, <4>2
        <5>2. x <= c
          BY <1>0, <2>3, <3>2, <5>1
        <5> QED
          BY <3>2, <3>5, <5>1, <5>2
      <4> QED
        BY <3>5, <4>1, <4>2
    <3>8. e[x] \subseteq B
      BY <2>3, <3>4, <3>5
    <3>9. Good(x)
      BY <3>7, <3>8
    <3> QED
      BY <2>2, <3>9
  <2> QED
    BY <2>4, <2>5
<1>5. b \in B
  BY DEF B
<1>6. Good(b)
  BY <1>4, <1>5
<1> QED
  BY <1>2, <1>5, <1>6 DEF B, e

\* The children of a block: blocks it encloses, with nothing between.
LEMMA ChildrenOf ==
  ASSUME NEW p, Program(p), NEW b \in Block(p), NEW c \in Children(p, b)
  PROVE  /\ c \in Block(p) /\ c > b /\ b \in Above(p, c)
         /\ Above(p, c) \subseteq {b} \cup Above(p, b)
         /\ p.els[c] # 0 => p.els[c] \in Children(p, b)
<1>1. PICK i \in p.stmts[b] : c \in ElseChain(p)[i]
  BY DEF Children
<1>2. i \in Block(p)
  BY <1>1, ProgramTypes
<1>3. /\ c \in Block(p) /\ Above(p, c) = Above(p, i) /\ i <= c
      /\ p.els[c] # 0 => p.els[c] \in ElseChain(p)[i]
  BY <1>1, <1>2, ChainOf
<1>4. Encloses(p, b, i) /\ \A d \in Block(p) : Encloses(p, d, i) => d = b \/ Encloses(p, d, b)
  BY <1>1 DEF Program, Block
<1>5. b \in Above(p, i) /\ Above(p, i) \subseteq {b} \cup Above(p, b)
  BY <1>4 DEF Above
<1>6. b < p.open[b] /\ p.open[b] < i /\ b \in Nat /\ i \in Nat /\ c \in Nat /\ p.open[b] \in Nat
  BY <1>2, <1>3, <1>4, ProgramTypes DEF Encloses
<1>7. c > b
  BY <1>3, <1>6
<1>8. p.els[c] # 0 => p.els[c] \in Children(p, b)
  BY <1>1, <1>3 DEF Children
<1> QED
  BY <1>3, <1>5, <1>7, <1>8

\* A block that is no subroutine is a child of some block.
LEMMA ParentOf ==
  ASSUME NEW p, Program(p), NEW b \in Block(p) \ p.subs
  PROVE  \E c \in Block(p) : b \in Children(p, c)
<1> DEFINE Bad == {x \in Block(p) \ p.subs : ~\E c \in Block(p) : x \in Children(p, c)}
<1>1. Bad = {}
  <2> SUFFICES ASSUME Bad # {} PROVE FALSE
    OBVIOUS
  <2>0. Block(p) \subseteq Nat
    BY ProgramTypes
  <2>1. Bad \in SUBSET Nat
    BY <2>0
  <2>2. PICK x \in Bad : \A j \in Bad : x <= j
    BY <2>1, LeastOf
  <2>3. PICK c \in Block(p) : x \in p.stmts[c] \/ p.els[c] = x
    <3>1. \A y \in Block(p) \ p.subs : \E d \in Block(p) : y \in p.stmts[d] \/ p.els[d] = y
      BY DEF Program, Block
    <3> QED
      BY <2>2, <3>1
  <2>4. CASE x \in p.stmts[c]
    <3>1. x \in ElseChain(p)[x]
      BY <2>2, ChainOf
    <3>2. x \in Children(p, c)
      BY <2>4, <3>1 DEF Children
    <3> QED
      BY <2>2, <2>3, <3>2
  <2>5. CASE p.els[c] = x
    <3>1. x # 0
      BY <2>2, ProgramTypes
    <3>2. x > c
      BY <2>3, <2>5, <3>1, ElseLevel
    <3>3. c \notin p.subs
      <4>1. \A s \in p.subs : p.els[s] = 0
        BY DEF Program
      <4> QED
        BY <2>5, <3>1, <4>1
    <3>4. ~(x <= c)
      BY <2>0, <2>2, <2>3, <3>2
    <3>5. PICK d \in Block(p) : c \in Children(p, d)
      BY <2>2, <2>3, <3>3, <3>4
    <3>6. x \in Children(p, d)
      BY <2>5, <3>1, <3>5, ChildrenOf
    <3> QED
      BY <2>2, <3>5, <3>6
  <2> QED
    BY <2>3, <2>4, <2>5
<1> QED
  BY <1>1

\* Between a block and one around it there is a child of the outer one.
LEMMA ChildBetween ==
  ASSUME NEW p, Program(p), NEW b \in Block(p), NEW c \in Block(p), b \in Above(p, c)
  PROVE  \E d \in Children(p, b) : d = c \/ d \in Above(p, c)
<1> DEFINE Bad == {x \in Block(p) : /\ b \in Above(p, x)
                                    /\ ~\E d \in Children(p, b) : d = x \/ d \in Above(p, x)}
<1>1. Bad = {}
  <2> SUFFICES ASSUME Bad # {} PROVE FALSE
    OBVIOUS
  <2>0. Block(p) \subseteq Nat
    BY ProgramTypes
  <2>1. Bad \in SUBSET Nat
    BY <2>0
  <2>2. PICK x \in Bad : \A j \in Bad : x <= j
    BY <2>1, LeastOf
  <2>3. x \in Block(p) /\ b \in Above(p, x)
    BY <2>2
  <2>4. x \notin p.subs
    <3>1. \A s \in p.subs : \A d \in Block(p) : ~Encloses(p, d, s)
      BY DEF Program, Block
    <3> QED
      BY <2>3, <3>1 DEF Above
  <2>5. PICK q \in Block(p) : x \in Children(p, q)
    BY <2>3, <2>4, ParentOf
  <2>6. x > q /\ q \in Above(p, x) /\ Above(p, x) \subseteq {q} \cup Above(p, q)
    BY <2>5, ChildrenOf
  <2>7. b # q
    BY <2>2, <2>5
  <2>8. b \in Above(p, q)
    BY <2>3, <2>6, <2>7
  <2>9. ~(x <= q)
    BY <2>0, <2>3, <2>5, <2>6
  <2>10. PICK d \in Children(p, b) : d = q \/ d \in Above(p, q)
    BY <2>2, <2>5, <2>8, <2>9
  <2>11. Above(p, q) \subseteq Above(p, x)
    <3>1. ASSUME NEW y \in Above(p, q)
          PROVE  Encloses(p, y, x)
      <4>1. y \in Block(p) /\ p.open[y] < q /\ p.close[q] < p.close[y]
        BY DEF Above, Encloses
      <4>2. p.open[q] < x /\ p.close[x] < p.close[q]
        BY <2>6 DEF Above, Encloses
      <4>3. /\ p.open[y] \in Nat /\ p.close[y] \in Nat /\ q \in Nat /\ q < p.open[q]
            /\ p.open[q] \in Nat /\ p.close[q] \in Nat /\ x \in Nat /\ p.close[x] \in Nat
        BY <2>3, <2>5, <4>1, ProgramTypes
      <4> QED
        BY <4>1, <4>2, <4>3 DEF Encloses
    <3> QED
      BY <3>1 DEF Above
  <2> QED
    BY <2>2, <2>6, <2>10, <2>11
<1> QED
  BY <1>1

\* matchBlockRecursive is well defined.
LEMMA MarkedIs ==
  ASSUME NEW p, Program(p), NEW traced, NEW b \in Block(p)
  PROVE  MatchBlockRecursive(p, traced)[b] <=>
           TracedItself(p, traced, b) \/ \E c \in Children(p, b) : MatchBlockRecursive(p, traced)[c]
<1> DEFINE B == Block(p)
           V == BOOLEAN
           Marked(f, x) == TracedItself(p, traced, x) \/ \E c \in Children(p, x) : f[c]
           G == [x \in B |-> [f \in [B -> V] |-> Marked(f, x)]]
<1>1. p.n \in Nat /\ B \subseteq 1..p.n /\ V # {}
  BY ProgramTypes
<1>2. \A x \in B : \A c \in Children(p, x) : c \in B /\ x < c
  <2> TAKE x \in B
  <2> TAKE c \in Children(p, x)
  <2>1. c \in B /\ c > x
    BY ChildrenOf
  <2>2. x \in Nat /\ c \in Nat
    BY <1>1, <2>1
  <2> QED
    BY <2>1, <2>2
<1> HIDE DEF B
<1>3. \A x \in B : \A f \in [B -> V] : Marked(f, x) \in V
  BY Zenon DEF TracedItself
<1>4. G \in [B -> [[B -> V] -> V]]
  <2> HIDE DEF Marked, V
  <2> QED
    BY <1>3
<1>5. \A x \in B : \A f \in [B -> V] : G[x][f] = Marked(f, x)
  <2> HIDE DEF Marked, V
  <2> QED
    OBVIOUS
<1> HIDE DEF G, V
<1>6. FromBehind(B, V, G)
  <2> SUFFICES ASSUME NEW x \in B, NEW f \in [B -> V], NEW g \in [B -> V],
                      \A c \in B : x < c => f[c] = g[c]
               PROVE  G[x][f] = G[x][g]
    BY DEF FromBehind
  <2>0. \A c \in Children(p, x) : f[c] = g[c]
    BY <1>2
  <2>1. Marked(f, x) = Marked(g, x)
    BY <2>0, Zenon DEF TracedItself
  <2> HIDE DEF Marked
  <2>2. G[x][f] = Marked(f, x)
    BY <1>5
  <2>3. G[x][g] = Marked(g, x)
    BY <1>5
  <2> QED
    BY <2>1, <2>2, <2>3
<1> HIDE DEF Marked
<1>7. PICK f \in [B -> V] : \A x \in B : f[x] = G[x][f]
  <2>1. PICK n : n = p.n
    OBVIOUS
  <2>2. n \in Nat
    BY <1>1, <2>1
  <2>3. B \subseteq 1..n
    BY <1>1, <2>1
  <2>4. V # {}
    BY <1>1
  <2>5. Solved(B, V, G)
    BY <1>4, <1>6, <2>2, <2>3, <2>4, DefinedFromBehind, Zenon
  <2> QED
    BY <2>5 DEF Solved
<1>8. \A x \in B : f[x] = Marked(f, x)
  BY <1>5, <1>7
<1>9. f = [x \in B |-> Marked(f, x)]
  BY <1>7, <1>8
<1>10. PICK e : e = MatchBlockRecursive(p, traced)
  OBVIOUS
<1>11. e = [x \in B |-> Marked(e, x)]
  BY <1>9, <1>10, Zenon DEF MatchBlockRecursive, B, Marked
<1>12. e[b] = Marked(e, b)
  BY <1>11 DEF B
<1> QED
  BY <1>10, <1>12, Zenon DEF Marked

\* findBlockAtLineRecursive is well defined.
LEMMA DeepestIs ==
  ASSUME NEW p, Program(p), NEW f, NEW l, NEW b \in Block(p)
  PROVE  FindBlockAtLineRecursive(p, f, l)[b] =
           IF Children(p, b) \cap Around(p, f, l) = {} THEN b
           ELSE FindBlockAtLineRecursive(p, f, l)[First(Children(p, b) \cap Around(p, f, l))]
<1> DEFINE B == Block(p)
           Inside(x) == Children(p, x) \cap Around(p, f, l)
           Found(h, x) == IF Inside(x) = {} THEN x ELSE h[First(Inside(x))]
           G == [x \in B |-> [h \in [B -> B] |-> Found(h, x)]]
<1>1. p.n \in Nat /\ B \subseteq 1..p.n /\ B # {} /\ B \subseteq Nat
  BY ProgramTypes
<1>2. \A x \in B : Inside(x) # {} => First(Inside(x)) \in B /\ x < First(Inside(x))
  <2> TAKE x \in B
  <2> HAVE Inside(x) # {}
  <2>1. \A c \in Inside(x) : c \in B /\ c > x
    BY ChildrenOf
  <2>2. Inside(x) \in SUBSET Nat
    BY <1>1, <2>1
  <2>3. First(Inside(x)) \in Inside(x)
    BY <2>2, FirstIs
  <2>4. PICK y : y = First(Inside(x))
    OBVIOUS
  <2>5. y \in B /\ y > x /\ x \in Nat /\ y \in Nat
    BY <1>1, <2>1, <2>3, <2>4
  <2> QED
    BY <2>4, <2>5
<1> HIDE DEF B, Inside
<1>3. \A x \in B : \A h \in [B -> B] : Found(h, x) \in B
  BY <1>2
<1>4. G \in [B -> [[B -> B] -> B]]
  BY <1>3
<1>5. \A x \in B : \A h \in [B -> B] : G[x][h] = Found(h, x)
  OBVIOUS
<1> HIDE DEF G
<1>6. FromBehind(B, B, G)
  <2> SUFFICES ASSUME NEW x \in B, NEW h \in [B -> B], NEW g \in [B -> B],
                      \A c \in B : x < c => h[c] = g[c]
               PROVE  G[x][h] = G[x][g]
    BY DEF FromBehind
  <2>1. Found(h, x) = Found(g, x)
    BY <1>2
  <2> HIDE DEF Found
  <2>2. G[x][h] = Found(h, x)
    BY <1>5
  <2>3. G[x][g] = Found(g, x)
    BY <1>5
  <2> QED
    BY <2>1, <2>2, <2>3
<1> HIDE DEF Found
<1>7. PICK h \in [B -> B] : \A x \in B : h[x] = G[x][h]
  <2>1. PICK n : n = p.n
    OBVIOUS
  <2>2. n \in Nat
    BY <1>1, <2>1
  <2>3. B \subseteq 1..n
    BY <1>1, <2>1
  <2>4. B # {}
    BY <1>1
  <2>5. Solved(B, B, G)
    BY <1>4, <1>6, <2>2, <2>3, <2>4, DefinedFromBehind, Zenon
  <2> QED
    BY <2>5 DEF Solved
<1>8. \A x \in B : h[x] = Found(h, x)
  BY <1>5, <1>7
<1>9. h = [x \in B |-> Found(h, x)]
  BY <1>7, <1>8
<1>10. PICK e : e = FindBlockAtLineRecursive(p, f, l)
  OBVIOUS
<1>11. e = [x \in B |-> Found(e, x)]
  BY <1>9, <1>10, Zenon DEF FindBlockAtLineRecursive, B, Found, Inside
<1>12. e[b] = Found(e, b)
  BY <1>11 DEF B
<1> QED
  BY <1>10, <1>12 DEF Found, Inside
-----------------------------------------------------------------------------
\* What Varnish is in the middle of: a token of a block, all of whose blocks it has
\* entered.
TokenInv(p, went, x) ==
  \/ x = 0
  \/ /\ x \in 1..p.n /\ ~InHeader(p, x)
     /\ Holders(p, x) # {} /\ Holders(p, x) \subseteq went

\* Varnish was in the blocks around each one it entered.
RanInv(p, went) ==
  /\ went \subseteq Block(p)
  /\ \A b \in went : Above(p, b) \subseteq went

\* The lines traced in a file hold the first of each entered block of the file, and
\* each is that of a token of entered blocks.
LinesInv(p, went, f, lines) ==
  /\ \A b \in went : p.file[b] = f => p.line[p.open[b] + 1] \in lines
  /\ \A l \in lines : \E x \in 1..p.n : /\ l = p.line[x] /\ p.file[x] = f
                                        /\ Holders(p, x) # {} /\ Holders(p, x) \subseteq went

\* Only blocks that ran are marked, of those in the file itself.
LEMMA MarkedRan ==
  ASSUME NEW p, Program(p), NEW went, NEW f, NEW lines,
         RanInv(p, went), LinesInv(p, went, f, lines)
  PROVE  \A b \in MatchTracesToBlocks(p, f, lines) : p.file[b] = f => b \in went
<1> DEFINE Own == {b \in MatchTracesToBlocks(p, f, lines) : p.file[b] = f}
           Bad == Own \ went
<1>0. p.n \in Nat /\ Block(p) \subseteq 1..p.n
  BY ProgramTypes
<1>1. Bad = {}
  <2> SUFFICES ASSUME Bad # {} PROVE FALSE
    OBVIOUS
  <2>0. /\ MatchTracesToBlocks(p, f, lines) \subseteq FileBlocks(p, f)
        /\ FileBlocks(p, f) \subseteq Block(p)
    BY DEF MatchTracesToBlocks, FileBlocks
  <2>1. Bad \subseteq Block(p)
    BY <2>0
  <2>2. Bad \in SUBSET (0..p.n)
    <3> HIDE DEF Bad
    <3>1. 1..p.n \subseteq 0..p.n
      BY <1>0
    <3> QED
      BY <1>0, <2>1, <3>1
  <2>3. PICK b \in Bad : \A j \in Bad : j <= b
    BY <1>0, <2>2, GreatestOf
  <2>4. b \in Block(p) /\ b \notin went /\ b \in Nat /\ p.file[b] = f /\ b \in FileBlocks(p, f)
    BY <1>0, <2>0, <2>1, <2>3
  <2>5. MatchBlockRecursive(p, lines)[b]
    BY <2>3, Zenon DEF MatchTracesToBlocks
  <2>6. TracedItself(p, lines, b) \/ \E c \in Children(p, b) : MatchBlockRecursive(p, lines)[c]
    BY <2>4, <2>5, MarkedIs, Zenon
  <2>7. CASE TracedItself(p, lines, b)
    <3>1. PICK l \in lines : OpenBrace(p, b) < l /\ l < CloseBrace(p, b)
      BY <2>7 DEF TracedItself
    <3>2. PICK x \in 1..p.n : l = p.line[x] /\ p.file[x] = f /\ Holders(p, x) \subseteq went
      BY DEF LinesInv
    <3>3. p.open[b] \in 1..p.n /\ p.close[b] \in 1..p.n
      BY <2>4, ProgramTypes
    <3>8. p.file[p.open[b]] = f /\ p.file[p.close[b]] = f
      BY <2>4, FileOfBlock
    <3>4. p.open[b] < x
      BY <3>1, <3>2, <3>3, <3>8, LinesInOrder DEF OpenBrace
    <3>5. x < p.close[b]
      BY <3>1, <3>2, <3>3, <3>8, LinesInOrder DEF CloseBrace
    <3>6. x <= p.close[b]
      BY <1>0, <3>3, <3>5
    <3>7. b \in Holders(p, x)
      BY <2>4, <3>4, <3>6 DEF Holders
    <3> QED
      BY <2>4, <3>2, <3>7
  <2>8. CASE \E c \in Children(p, b) : MatchBlockRecursive(p, lines)[c]
    <3>1. PICK c \in Children(p, b) : MatchBlockRecursive(p, lines)[c]
      BY <2>8
    <3>2. c \in Block(p) /\ c > b /\ b \in Above(p, c)
      BY <2>4, ChildrenOf
    <3>7. p.file[c] = f
      BY <2>4, <3>2, FileOfBlock
    <3>8. c \in FileBlocks(p, f)
      BY <3>2, <3>7, FileOfBlock
    <3>3. c \in MatchTracesToBlocks(p, f, lines)
      BY <3>1, <3>8, Zenon DEF MatchTracesToBlocks
    <3>4. ~(c <= b)
      BY <1>0, <2>4, <3>2
    <3>5. c \in went
      BY <2>3, <3>3, <3>4, <3>7
    <3>6. b \in went
      BY <3>2, <3>5 DEF RanInv
    <3> QED
      BY <2>4, <3>6
  <2> QED
    BY <2>6, <2>7, <2>8
<1> QED
  BY <1>1

\* The blocks around a marked one are marked.
LEMMA MarkedUpward ==
  ASSUME NEW p, Program(p), NEW f, NEW lines, NEW b \in MatchTracesToBlocks(p, f, lines)
  PROVE  Above(p, b) \subseteq MatchTracesToBlocks(p, f, lines)
<1> DEFINE M == MatchTracesToBlocks(p, f, lines)
           Bad == {x \in M : ~(Above(p, x) \subseteq M)}
<1>0. M \subseteq Block(p)
  BY DEF MatchTracesToBlocks, FileBlocks
<1>1. Block(p) \subseteq Nat
  BY ProgramTypes
<1>2. ASSUME NEW q \in Block(p), NEW c \in Children(p, q), c \in M
      PROVE  q \in M
  <2>1. MatchBlockRecursive(p, lines)[c]
    BY <1>2, Zenon DEF MatchTracesToBlocks
  <2>2. MatchBlockRecursive(p, lines)[q]
    BY <2>1, MarkedIs, Zenon
  <2>3. c \in Block(p) /\ q \in Above(p, c)
    BY ChildrenOf
  <2>4. p.file[q] = p.file[c]
    BY <2>3, FileOfBlock
  <2>5. q \in FileBlocks(p, f)
    BY <1>2, <2>4 DEF MatchTracesToBlocks, FileBlocks
  <2> QED
    BY <2>2, <2>5, Zenon DEF MatchTracesToBlocks
<1> HIDE DEF M
<1>3. Bad = {}
  <2> SUFFICES ASSUME Bad # {} PROVE FALSE
    OBVIOUS
  <2>1. Bad \in SUBSET Nat
    BY <1>0, <1>1
  <2>2. PICK x \in Bad : \A j \in Bad : x <= j
    BY <2>1, LeastOf
  <2>3. x \in Block(p) /\ x \in M
    BY <1>0, <2>2
  <2>4. CASE x \in p.subs
    <3>1. \A s \in p.subs : \A d \in Block(p) : ~Encloses(p, d, s)
      BY DEF Program, Block
    <3>2. Above(p, x) = {}
      BY <2>4, <3>1 DEF Above
    <3> QED
      BY <2>2, <3>2
  <2>5. CASE x \notin p.subs
    <3>1. PICK q \in Block(p) : x \in Children(p, q)
      BY <2>3, <2>5, ParentOf
    <3>2. x > q /\ Above(p, x) \subseteq {q} \cup Above(p, q)
      BY <3>1, ChildrenOf
    <3>3. q \in M
      BY <1>2, <2>3, <3>1
    <3>4. ~(x <= q)
      BY <1>1, <2>3, <3>1, <3>2
    <3>5. Above(p, q) \subseteq M
      BY <2>2, <3>3, <3>4
    <3> QED
      BY <2>2, <3>2, <3>3, <3>5
  <2> QED
    BY <2>4, <2>5
<1> QED
  BY <1>3 DEF M

\* A block that ran and begins with a plain statement between its braces' lines is
\* marked in the analysis of its file.
LEMMA ApartMarked ==
  ASSUME NEW p, Program(p), NEW went, NEW f, NEW lines,
         RanInv(p, went), LinesInv(p, went, f, lines),
         NEW b \in went, p.file[b] = f, BeginsApart(p, b)
  PROVE  b \in MatchTracesToBlocks(p, f, lines)
<1>1. b \in Block(p) /\ p.line[p.open[b] + 1] \in lines
  BY DEF RanInv, LinesInv
<1>2. TracedItself(p, lines, b)
  BY <1>1 DEF TracedItself, BeginsApart
<1>3. MatchBlockRecursive(p, lines)[b]
  BY <1>1, <1>2, MarkedIs, Zenon
<1>4. b \in FileBlocks(p, f)
  BY <1>1, FileOfBlock
<1> QED
  BY <1>3, <1>4, Zenon DEF MatchTracesToBlocks

\* The lines of a block are lines of the blocks around it.
LEMMA AroundUpward ==
  ASSUME NEW p, Program(p), NEW f, NEW l \in Nat, NEW b \in Around(p, f, l)
  PROVE  Above(p, b) \subseteq Around(p, f, l)
<1> SUFFICES ASSUME NEW c \in Above(p, b)
             PROVE  c \in Around(p, f, l)
  OBVIOUS
<1>0. b \in FileBlocks(p, f) /\ b \in Block(p)
  BY DEF Around, FileBlocks
<1>1. /\ b \in Block(p) /\ p.line[p.open[b]] <= l /\ l <= p.line[p.close[b]]
      /\ c \in Block(p) /\ p.open[c] < b /\ p.close[b] < p.close[c]
  BY <1>0 DEF Around, LineInBlock, OpenBrace, CloseBrace, Above, Encloses
<1>2. /\ p.open[b] \in 1..p.n /\ p.close[b] \in 1..p.n
      /\ p.open[c] \in 1..p.n /\ p.close[c] \in 1..p.n
      /\ b < p.open[b] /\ b \in Nat /\ p.n \in Nat
  BY <1>1, ProgramTypes
<1>3. p.open[c] <= p.open[b] /\ p.close[b] <= p.close[c]
  BY <1>1, <1>2
<1>7. /\ p.file[c] = p.file[b]
      /\ p.file[p.open[c]] = p.file[p.open[b]] /\ p.file[p.close[c]] = p.file[p.close[b]]
  BY <1>1, FileOfBlock
<1>4. p.line[p.open[c]] <= p.line[p.open[b]] /\ p.line[p.close[b]] <= p.line[p.close[c]]
  BY <1>2, <1>3, <1>7, LinesInOrder
<1>5. /\ p.line[p.open[c]] \in Nat /\ p.line[p.open[b]] \in Nat
      /\ p.line[p.close[c]] \in Nat /\ p.line[p.close[b]] \in Nat
  BY <1>2, ProgramTypes
<1>6. p.line[p.open[c]] <= l /\ l <= p.line[p.close[c]]
  BY <1>1, <1>4, <1>5
<1>8. c \in FileBlocks(p, f)
  BY <1>0, <1>1, <1>7 DEF FileBlocks
<1> QED
  BY <1>6, <1>8 DEF Around, LineInBlock, OpenBrace, CloseBrace

\* The blocks around a line are one in the other.
Nested(p, f, l) ==
  \A b, c \in Around(p, f, l) : b < c => p.open[b] < c /\ c < p.close[b]

\* FindBlockAtLine finds the last block around a line if they are nested.
LEMMA DeepestIsLast ==
  ASSUME NEW p, Program(p), NEW f, NEW l \in Nat, Around(p, f, l) # {}, Nested(p, f, l)
  PROVE  FindBlockAtLine(p, f, l) = Last(Around(p, f, l))
<1> DEFINE A == Around(p, f, l)
           d == FindBlockAtLineRecursive(p, f, l)
           last == Last(A)
           Inside(x) == Children(p, x) \cap A
           Bad == {x \in A : d[x] # last}
<1>0. p.n \in Nat /\ Block(p) \subseteq 1..p.n /\ p.subs \subseteq Block(p)
  BY ProgramTypes
<1>1. A \subseteq Block(p) /\ A # {}
  BY DEF Around, FileBlocks
<1>2. \A x \in A : Above(p, x) \subseteq A
  BY AroundUpward
<1>3. \A x \in Block(p) : d[x] = IF Inside(x) = {} THEN x ELSE d[First(Inside(x))]
  BY DeepestIs
<1>4. \A x, y \in A : x < y => x \in Above(p, y)
  <2> SUFFICES ASSUME NEW x \in A, NEW y \in A, x < y
               PROVE  x \in Above(p, y)
    OBVIOUS
  <2>1. p.open[x] < y /\ y < p.close[x]
    BY DEF Nested
  <2>2. x \in Block(p) /\ y \in Block(p)
    BY <1>1
  <2>3. /\ x \in Nat /\ y \in Nat /\ p.close[x] \in Nat /\ p.open[y] \in Nat /\ p.close[y] \in Nat
        /\ y < p.open[y] /\ p.open[y] < p.close[y]
    BY <2>2, ProgramTypes
  <2>4. x # y
    BY <2>3
  <2>5. \/ p.close[x] < y
        \/ p.close[y] < x
        \/ p.open[x] < y /\ p.close[y] < p.close[x]
        \/ p.open[y] < x /\ p.close[x] < p.close[y]
    BY <2>2, <2>4, Nesting
  <2>6. p.close[y] < p.close[x]
    BY <2>1, <2>3, <2>5
  <2> QED
    BY <2>1, <2>2, <2>6 DEF Above, Encloses
<1>5. FindBlockAtLine(p, f, l) = d[First(p.subs \cap A)]
  BY DEF FindBlockAtLine
<1> HIDE DEF A, d
<1>6. A \in SUBSET (0..p.n)
  <2>1. 1..p.n \subseteq 0..p.n
    BY <1>0
  <2> QED
    BY <1>0, <1>1, <2>1
<1>7. A \subseteq Nat
  BY <1>6
<1>8. last \in A /\ \A x \in A : x <= last
  BY <1>0, <1>1, <1>6, LastOf
<1> HIDE DEF last
<1>9. ASSUME NEW x \in A
      PROVE  /\ Inside(x) = {} => x = last
             /\ Inside(x) # {} => First(Inside(x)) \in A /\ First(Inside(x)) > x
  <2>1. CASE Inside(x) = {}
    <3> SUFFICES ASSUME x # last PROVE FALSE
      BY <2>1
    <3>1. x < last
      BY <1>7, <1>8
    <3>2. x \in Above(p, last)
      BY <1>4, <1>8, <3>1
    <3>3. PICK y \in Children(p, x) : y = last \/ y \in Above(p, last)
      BY <1>1, <1>8, <3>2, ChildBetween
    <3>4. y \in A
      BY <1>2, <1>8, <3>3
    <3> QED
      BY <2>1, <3>3, <3>4
  <2>2. CASE Inside(x) # {}
    <3>1. Inside(x) \in SUBSET Nat
      BY <1>7
    <3>2. First(Inside(x)) \in Inside(x)
      BY <2>2, <3>1, FirstIs
    <3>3. First(Inside(x)) > x
      BY <1>1, <3>2, ChildrenOf
    <3> QED
      BY <2>2, <3>2, <3>3
  <2> QED
    BY <2>1, <2>2
<1> HIDE DEF Inside
<1>10. Bad = {}
  <2> SUFFICES ASSUME Bad # {} PROVE FALSE
    OBVIOUS
  <2>1. Bad \in SUBSET (0..p.n)
    BY <1>6
  <2>2. PICK x \in Bad : \A j \in Bad : j <= x
    BY <1>0, <2>1, GreatestOf
  <2>3. x \in A /\ d[x] # last
    BY <2>2
  <2>4. d[x] = IF Inside(x) = {} THEN x ELSE d[First(Inside(x))]
    BY <1>1, <1>3, <2>3
  <2>5. CASE Inside(x) = {}
    BY <1>9, <2>3, <2>4, <2>5
  <2>6. CASE Inside(x) # {}
    <3>1. PICK y : y = First(Inside(x))
      OBVIOUS
    <3>2. y \in A /\ y > x /\ d[x] = d[y]
      BY <1>9, <2>3, <2>4, <2>6, <3>1
    <3>3. ~(y <= x)
      BY <1>7, <2>3, <3>2
    <3>4. d[y] = last
      BY <2>2, <3>2, <3>3
    <3> QED
      BY <2>3, <3>2, <3>4
  <2> QED
    BY <2>5, <2>6
<1>11. First(p.subs \cap A) \in A
  <2>1. PICK m \in A : \A j \in A : m <= j
    BY <1>1, <1>7, LeastOf
  <2>2. m \in p.subs
    <3> SUFFICES ASSUME m \notin p.subs PROVE FALSE
      OBVIOUS
    <3>1. PICK q \in Block(p) : m \in Children(p, q)
      BY <1>1, <2>1, ParentOf
    <3>2. m > q /\ q \in Above(p, m)
      BY <3>1, ChildrenOf
    <3>3. q \in A
      BY <1>2, <2>1, <3>2
    <3>4. m <= q /\ m \in Nat /\ q \in Nat
      BY <1>7, <2>1, <3>3
    <3> QED
      BY <3>2, <3>4
  <2>3. p.subs \cap A \in SUBSET Nat /\ p.subs \cap A # {}
    BY <1>7, <2>1, <2>2
  <2>4. First(p.subs \cap A) \in p.subs \cap A
    BY <2>3, FirstIs
  <2> QED
    BY <2>4
<1>12. d[First(p.subs \cap A)] = last
  BY <1>10, <1>11
<1> QED
  BY <1>5, <1>12 DEF A, last
-----------------------------------------------------------------------------
\* The traced lines of a file.
FileLines(messages, f) == {m.line : m \in {x \in messages : x.config = f}}

\* The message VCL_trace writes at the token x.
TraceOf(p, x) == [config |-> p.file[x], line |-> p.line[x]]

\* The log holds, of every file of the user, what LinesInv says.
LogInv(p, went, messages) ==
  \A f \in UserFiles(p) : LinesInv(p, went, f, FileLines(messages, f))

\* Varnish is in the middle of a run, with what it did in the log.
Running(p, went, messages, x) ==
  TokenInv(p, went, x) /\ RanInv(p, went) /\ LogInv(p, went, messages)

\* The inductive invariant: while Varnish runs, and then what each stage of the
\* report was made from.
ReportInv ==
  /\ prog \in Programs
  /\ phase \in {"run", "lines", "done", "reported"}
  /\ Running(prog, ran, log, token)
  /\ phase \in {"lines", "done", "reported"} =>
       \A f \in UserFiles(prog) : exec[f] = FileLines(log, f)
  /\ phase \in {"done", "reported"} =>
       entered = [f \in UserFiles(prog) |->
                    IF f \in parsed THEN MatchTracesToBlocks(prog, f, exec[f]) ELSE {}]
  /\ phase = "reported" =>
       report = IF parsed # {} THEN FormatTestFailureWithBlocks ELSE FormatTestFailure

\* A message adds its line to those of its file.
LEMMA FileLinesGrow ==
  ASSUME NEW messages, NEW r, NEW f, r.config = f
  PROVE  FileLines(messages \cup {r}, f) = FileLines(messages, f) \cup {r.line}
<1>1. ASSUME NEW u
      PROVE  u \in FileLines(messages \cup {r}, f) <=> u \in FileLines(messages, f) \/ u = r.line
  <2>1. \A S : u \in FileLines(S, f) <=> \E m \in S : m.config = f /\ u = m.line
    BY DEF FileLines
  <2> QED
    BY <2>1
<1> QED
  BY <1>1

\* And to those of no other.
LEMMA FileLinesStay ==
  ASSUME NEW messages, NEW r, NEW f, r.config # f
  PROVE  FileLines(messages \cup {r}, f) = FileLines(messages, f)
<1>1. ASSUME NEW u
      PROVE  u \in FileLines(messages \cup {r}, f) <=> u \in FileLines(messages, f)
  <2>1. \A S : u \in FileLines(S, f) <=> \E m \in S : m.config = f /\ u = m.line
    BY DEF FileLines
  <2> QED
    BY <2>1
<1> QED
  BY <1>1

\* The log stays so when the trace of a token of entered blocks is added, which is the
\* first of a block entered there.
LEMMA LogGrows ==
  ASSUME NEW p, Program(p), NEW went, NEW grown, NEW messages, NEW log2, NEW x \in 1..p.n,
         LogInv(p, went, messages), went \subseteq grown,
         Holders(p, x) # {}, Holders(p, x) \subseteq grown,
         log2 = messages \/ log2 = messages \cup {TraceOf(p, x)},
         \A b \in grown \ went : /\ p.open[b] + 1 = x /\ p.file[b] = p.file[x]
                                 /\ log2 = messages \cup {TraceOf(p, x)}
  PROVE  LogInv(p, grown, log2)
<1> SUFFICES ASSUME NEW f \in UserFiles(p)
             PROVE  LinesInv(p, grown, f, FileLines(log2, f))
  BY DEF LogInv
<1> DEFINE L == FileLines(messages, f)
           L2 == FileLines(log2, f)
<1>1. LinesInv(p, went, f, L)
  BY DEF LogInv
<1>2. FileLines(messages \cup {TraceOf(p, x)}, f) = IF p.file[x] = f THEN L \cup {p.line[x]} ELSE L
  <2>1. PICK r : r = TraceOf(p, x)
    OBVIOUS
  <2>2. r.config = p.file[x] /\ r.line = p.line[x]
    BY <2>1 DEF TraceOf
  <2>3. CASE r.config = f
    <3>1. FileLines(messages \cup {r}, f) = FileLines(messages, f) \cup {r.line}
      BY <2>3, FileLinesGrow
    <3> QED
      BY <2>1, <2>2, <2>3, <3>1
  <2>4. CASE r.config # f
    <3>1. FileLines(messages \cup {r}, f) = FileLines(messages, f)
      BY <2>4, FileLinesStay
    <3> QED
      BY <2>1, <2>2, <2>4, <3>1
  <2> QED
    BY <2>3, <2>4
<1>3. L \subseteq L2 /\ \A l \in L2 : l \in L \/ (l = p.line[x] /\ p.file[x] = f)
  BY <1>2
<1>4. \A b \in grown \ went : p.file[b] = f => p.line[p.open[b] + 1] \in L2
  BY <1>2
<1> HIDE DEF L, L2
<1>5. \A b \in grown : p.file[b] = f => p.line[p.open[b] + 1] \in L2
  BY <1>1, <1>3, <1>4 DEF LinesInv
<1>6. ASSUME NEW l \in L2
      PROVE  \E y \in 1..p.n : /\ l = p.line[y] /\ p.file[y] = f
                               /\ Holders(p, y) # {} /\ Holders(p, y) \subseteq grown
  <2>1. CASE l = p.line[x] /\ p.file[x] = f
    BY <2>1
  <2>2. CASE l \in L
    <3>1. PICK y \in 1..p.n : /\ l = p.line[y] /\ p.file[y] = f
                              /\ Holders(p, y) # {} /\ Holders(p, y) \subseteq went
      BY <1>1, <2>2 DEF LinesInv
    <3>2. Holders(p, y) \subseteq grown
      BY <3>1
    <3> QED
      BY <3>1, <3>2
  <2> QED
    BY <1>3, <2>1, <2>2
<1>7. LinesInv(p, grown, f, L2)
  BY <1>5, <1>6 DEF LinesInv
<1> QED
  BY <1>7 DEF L2

\* Entering a block keeps the invariant of the run.
LEMMA EntersBlock ==
  ASSUME NEW p, Program(p), NEW went, NEW messages, NEW b \in Block(p),
         RanInv(p, went), LogInv(p, went, messages), Above(p, b) \subseteq went
  PROVE  Running(p, went \cup {b}, messages \cup {TraceOf(p, p.open[b] + 1)}, p.open[b] + 1)
<1>1. PICK x : x = p.open[b] + 1
  OBVIOUS
<1>2. PICK M : M = messages \cup {TraceOf(p, x)}
  OBVIOUS
<1>3. PICK E : E = went \cup {b}
  OBVIOUS
<1>4. Holders(p, x) \subseteq {b} \cup Above(p, b) /\ b \in Holders(p, x) /\ ~InHeader(p, x)
  BY <1>1, AfterOpen
<1>5. x \in 1..p.n
  <2>1. p.n \in Nat /\ p.open[b] \in 1..p.n /\ p.close[b] \in 1..p.n /\ p.open[b] < p.close[b]
    BY ProgramTypes
  <2> QED
    BY <1>1, <2>1
<1>6. Holders(p, x) \subseteq E /\ Holders(p, x) # {} /\ went \subseteq E
  BY <1>3, <1>4
<1>7. TokenInv(p, E, x)
  BY <1>4, <1>5, <1>6 DEF TokenInv
<1>8. RanInv(p, E)
  BY <1>3 DEF RanInv
<1>9. p.file[b] = p.file[x]
  BY <1>1, FileOfBlock
<1>10. \A c \in E \ went : /\ p.open[c] + 1 = x /\ p.file[c] = p.file[x]
                           /\ M = messages \cup {TraceOf(p, x)}
  BY <1>1, <1>2, <1>3, <1>9
<1>11. LogInv(p, E, M)
  BY <1>2, <1>5, <1>6, <1>10, LogGrows
<1> QED
  BY <1>1, <1>2, <1>3, <1>7, <1>8, <1>11 DEF Running

\* So does going to a token of entered blocks, traced or not.
LEMMA GoesTo ==
  ASSUME NEW p, Program(p), NEW went, NEW messages, NEW x \in Nat, NEW log2,
         RanInv(p, went), LogInv(p, went, messages),
         ~InHeader(p, x), Holders(p, x) # {}, Holders(p, x) \subseteq went,
         log2 = messages \/ log2 = messages \cup {TraceOf(p, x)}
  PROVE  Running(p, went, log2, x)
<1>1. x \in 1..p.n
  BY FileOfHolder
<1>2. TokenInv(p, went, x)
  BY <1>1 DEF TokenInv
<1>3. LogInv(p, went, log2)
  BY <1>1, LogGrows
<1> QED
  BY <1>2, <1>3 DEF Running

\* While Varnish runs, the invariant is that of the run.
LEMMA StillRunning ==
  ASSUME ReportInv, phase = "run", UNCHANGED <<prog, phase>>, Running(prog, ran', log', token')
  PROVE  ReportInv'
<1>1. /\ prog' \in Programs /\ phase' = "run"
      /\ Running(prog, ran', log', token') <=> Running(prog', ran', log', token')
  BY DEF ReportInv
<1>2. Running(prog, ran, log, token)'
  BY <1>1
<1> QED
  BY <1>1, <1>2 DEF ReportInv

\* The files are programs.
LEMMA ProgIsProgram ==
  ASSUME ReportInv
  PROVE  Program(prog)
  BY CoverageAssumption DEF ReportInv

\* What the invariant says in the middle of a block.
LEMMA InTheMiddle ==
  ASSUME ReportInv
  PROVE  /\ RanInv(prog, ran) /\ LogInv(prog, ran, log)
         /\ token # 0 => /\ token \in 1..prog.n /\ token \in Nat /\ ~InHeader(prog, token)
                         /\ Holders(prog, token) # {} /\ Holders(prog, token) \subseteq ran
<1>1. Running(prog, ran, log, token) /\ Program(prog)
  BY ProgIsProgram DEF ReportInv
<1>2. prog.n \in Nat
  BY <1>1, ProgramTypes
<1> QED
  BY <1>1, <1>2 DEF Running, TokenInv

\* A file, nothing run and nothing in the log.
LEMMA InitReportInv == CoverageInit => ReportInv
<1> SUFFICES ASSUME CoverageInit PROVE ReportInv
  OBVIOUS
<1>1. prog \in Programs /\ phase = "run" /\ ran = {} /\ log = {} /\ token = 0
  BY DEF CoverageInit
<1>2. \A f : FileLines({}, f) = {}
  BY DEF FileLines
<1>3. Running(prog, {}, {}, 0)
  BY <1>2 DEF Running, TokenInv, RanInv, LogInv, LinesInv
<1>4. Running(prog, ran, log, token)
  BY <1>1, <1>3
<1> QED
  BY <1>1, <1>4 DEF ReportInv

\* EnterBlock from a place where the blocks around b have been entered.
LEMMA EnterBlockStep ==
  ASSUME ReportInv, NEW b \in Block(prog), Above(prog, b) \subseteq ran, EnterBlock(b)
  PROVE  Running(prog, ran', log', token')
<1>1. /\ token' = prog.open[b] + 1 /\ ran' = ran \cup {b}
      /\ log' = log \cup {TraceOf(prog, prog.open[b] + 1)}
  BY DEF EnterBlock, TracedAt, Traced, TraceOf
<1>2. Program(prog)
  BY ProgIsProgram
<1>3. RanInv(prog, ran) /\ LogInv(prog, ran, log)
  BY InTheMiddle
<1>4. Running(prog, ran \cup {b}, log \cup {TraceOf(prog, prog.open[b] + 1)}, prog.open[b] + 1)
  BY <1>2, <1>3, EntersBlock
<1> QED
  BY <1>1, <1>4

\* A subroutine is called.
LEMMA CallSubStep ==
  ASSUME ReportInv, CallSub
  PROVE  ReportInv'
<1>1. PICK b \in prog.subs : EnterBlock(b)
  BY DEF CallSub
<1>2. phase = "run" /\ UNCHANGED <<prog, phase>>
  BY DEF CallSub
<1>3. Program(prog)
  BY ProgIsProgram
<1>4. b \in Block(prog)
  BY <1>3, ProgramTypes
<1>5. \A d \in Block(prog) : ~Encloses(prog, d, b)
  BY <1>3 DEF Program, Block
<1>6. Above(prog, b) \subseteq ran
  BY <1>5 DEF Above
<1>7. Running(prog, ran', log', token')
  BY <1>1, <1>4, <1>6, EnterBlockStep
<1> QED
  BY <1>2, <1>7, StillRunning

\* A condition of an if chain.
LEMMA ConditionStep ==
  ASSUME ReportInv, Condition
  PROVE  ReportInv'
<1>1. phase = "run" /\ UNCHANGED <<prog, phase>> /\ token \in Block(prog)
  BY DEF Condition
<1>2. Program(prog)
  BY ProgIsProgram
<1>3. RanInv(prog, ran) /\ LogInv(prog, ran, log)
  BY InTheMiddle
<1>4. token # 0
  BY <1>1, <1>2, ProgramTypes
<1>5. Holders(prog, token) = Above(prog, token)
  BY <1>1, <1>2, AtStart
<1>6. Above(prog, token) \subseteq ran /\ Above(prog, token) # {}
  BY <1>4, <1>5, InTheMiddle
<1>7. prog.els[token] # 0 => /\ prog.els[token] \in Block(prog)
                             /\ Above(prog, prog.els[token]) = Above(prog, token)
  BY <1>1, <1>2, ElseLevel
<1>8. CASE EnterBlock(token)
  <2>1. Running(prog, ran', log', token')
    BY <1>1, <1>6, <1>8, EnterBlockStep
  <2> QED
    BY <1>1, <2>1, StillRunning
<1>9. CASE prog.els[token] # 0 /\ EnterBlock(prog.els[token])
  <2>1. PICK b : b = prog.els[token]
    OBVIOUS
  <2>2. b \in Block(prog) /\ Above(prog, b) \subseteq ran /\ EnterBlock(b)
    BY <1>6, <1>7, <1>9, <2>1
  <2>3. Running(prog, ran', log', token')
    BY <2>2, EnterBlockStep
  <2> QED
    BY <1>1, <2>3, StillRunning
<1>10. CASE prog.els[token] # 0 /\ token' = prog.els[token] /\ UNCHANGED <<ran, log>>
  <2>1. PICK b : b = prog.els[token]
    OBVIOUS
  <2>2. b \in Block(prog) /\ Above(prog, b) \subseteq ran /\ Above(prog, b) # {}
    BY <1>6, <1>7, <1>10, <2>1
  <2>3. Holders(prog, b) = Above(prog, b) /\ ~InHeader(prog, b)
    BY <1>2, <2>2, AtStart
  <2>4. Holders(prog, b) # {} /\ Holders(prog, b) \subseteq ran
    BY <2>2, <2>3
  <2>5. b \in Nat
    BY <1>2, <2>2, ProgramTypes
  <2>6. Running(prog, ran, log, b)
    BY <1>2, <1>3, <2>3, <2>4, <2>5, GoesTo
  <2>7. Running(prog, ran', log', token')
    BY <1>10, <2>1, <2>6
  <2> QED
    BY <1>1, <2>7, StillRunning
<1>11. CASE token' = prog.close[token] + 1 /\ TracedAt(token') /\ UNCHANGED ran
  <2>1. PICK x : x = prog.close[token] + 1
    OBVIOUS
  <2>2. Holders(prog, x) = Above(prog, token) /\ ~InHeader(prog, x)
    BY <1>1, <1>2, <2>1, AfterClose
  <2>3. Holders(prog, x) # {} /\ Holders(prog, x) \subseteq ran
    BY <1>6, <2>2
  <2>4. prog.close[token] \in 1..prog.n /\ prog.n \in Nat
    BY <1>1, <1>2, ProgramTypes
  <2>5. x \in Nat
    BY <2>1, <2>4
  <2>6. PICK log2 : log2 = log \cup {TraceOf(prog, x)}
    OBVIOUS
  <2>7. Running(prog, ran, log2, x)
    BY <1>2, <1>3, <2>2, <2>3, <2>5, <2>6, GoesTo
  <2>8. log' = log2 /\ token' = x /\ ran' = ran
    BY <1>11, <2>1, <2>6 DEF TracedAt, Traced, TraceOf
  <2>9. Running(prog, ran', log', token')
    BY <2>7, <2>8
  <2> QED
    BY <1>1, <2>9, StillRunning
<1>12. \/ EnterBlock(token)
       \/ prog.els[token] # 0 /\ EnterBlock(prog.els[token])
       \/ prog.els[token] # 0 /\ token' = prog.els[token] /\ UNCHANGED <<ran, log>>
       \/ token' = prog.close[token] + 1 /\ TracedAt(token') /\ UNCHANGED ran
  BY DEF Condition
<1> QED
  BY <1>8, <1>9, <1>10, <1>11, <1>12

\* Any other statement.
LEMMA StatementStep ==
  ASSUME ReportInv, Statement
  PROVE  ReportInv'
<1>1. /\ phase = "run" /\ UNCHANGED <<prog, phase, ran>>
      /\ token # 0 /\ token \notin Block(prog) /\ \A b \in Block(prog) : token # prog.close[b]
      /\ \/ token' = token + 1 /\ (UNCHANGED log \/ TracedAt(token'))
         \/ token' = 0 /\ UNCHANGED log
  BY DEF Statement
<1>2. Program(prog)
  BY ProgIsProgram
<1>3. RanInv(prog, ran) /\ LogInv(prog, ran, log)
  BY InTheMiddle
<1>4. /\ token \in Nat /\ ~InHeader(prog, token)
      /\ Holders(prog, token) # {} /\ Holders(prog, token) \subseteq ran
  BY <1>1, InTheMiddle
<1>5. CASE token' = token + 1 /\ (UNCHANGED log \/ TracedAt(token'))
  <2>1. PICK x : x = token + 1
    OBVIOUS
  <2>2. Holders(prog, x) = Holders(prog, token) /\ ~InHeader(prog, x)
    BY <1>1, <1>2, <1>4, <2>1, Onward
  <2>3. Holders(prog, x) # {} /\ Holders(prog, x) \subseteq ran
    BY <1>4, <2>2
  <2>4. x \in Nat
    BY <1>4, <2>1
  <2>7. PICK log2 : log2 = log'
    OBVIOUS
  <2>8. log2 = log \/ log2 = log \cup {TraceOf(prog, x)}
    BY <1>5, <2>1, <2>7 DEF TracedAt, Traced, TraceOf
  <2>5. Running(prog, ran, log2, x)
    BY <1>2, <1>3, <2>2, <2>3, <2>4, <2>8, GoesTo
  <2>6. Running(prog, ran', log', token')
    BY <1>1, <1>5, <2>1, <2>5, <2>7
  <2> QED
    BY <1>1, <2>6, StillRunning
<1>6. CASE token' = 0 /\ UNCHANGED log
  <2>1. Running(prog, ran, log, 0)
    BY <1>3 DEF Running, TokenInv
  <2>2. Running(prog, ran', log', token')
    BY <1>1, <1>6, <2>1
  <2> QED
    BY <1>1, <2>2, StillRunning
<1> QED
  BY <1>1, <1>5, <1>6

\* The end of a subroutine, or of a part of an if chain, which leads behind the chain.
LEMMA EndBlockStep ==
  ASSUME ReportInv, EndBlock
  PROVE  ReportInv'
<1>1. phase = "run" /\ UNCHANGED <<prog, phase, ran>>
  BY DEF EndBlock
<1>2. Program(prog)
  BY ProgIsProgram
<1>3. RanInv(prog, ran) /\ LogInv(prog, ran, log)
  BY InTheMiddle
<1>4. PICK b \in Block(prog) :
        /\ token = prog.close[b]
        /\ \/ token' = 0 /\ UNCHANGED log
           \/ /\ b \notin prog.subs
              /\ token' = prog.close[Last(ElseChain(prog)[b])] + 1
              /\ UNCHANGED log \/ TracedAt(token')
  BY DEF EndBlock
<1>5. CASE token' = 0 /\ UNCHANGED log
  <2>1. Running(prog, ran, log, 0)
    BY <1>3 DEF Running, TokenInv
  <2>2. Running(prog, ran', log', token')
    BY <1>1, <1>5, <2>1
  <2> QED
    BY <1>1, <2>2, StillRunning
<1>6. CASE /\ b \notin prog.subs
           /\ token' = prog.close[Last(ElseChain(prog)[b])] + 1
           /\ UNCHANGED log \/ TracedAt(token')
  <2>1. PICK end : end = Last(ElseChain(prog)[b])
    OBVIOUS
  <2>2. end \in Block(prog) /\ Above(prog, end) = Above(prog, b)
    <3>1. PICK C : C = ElseChain(prog)[b]
      OBVIOUS
    <3>2. C \subseteq Block(prog) /\ b \in C
      BY <1>2, <3>1, ChainOf
    <3>3. prog.n \in Nat /\ Block(prog) \subseteq 1..prog.n
      BY <1>2, ProgramTypes
    <3>4. C \in SUBSET (0..prog.n) /\ C # {}
      BY <3>2, <3>3
    <3>5. end \in C
      BY <2>1, <3>1, <3>3, <3>4, LastOf
    <3> QED
      BY <1>2, <3>1, <3>2, <3>5, ChainOf
  <2>3. PICK x : x = prog.close[end] + 1
    OBVIOUS
  <2>4. Holders(prog, x) = Above(prog, b) /\ ~InHeader(prog, x)
    BY <1>2, <2>2, <2>3, AfterClose
  <2>5. Above(prog, b) \subseteq ran
    <3>1. prog.close[b] # 0
      BY <1>2, ProgramTypes
    <3>2. Holders(prog, prog.close[b]) \subseteq ran
      BY <1>4, <3>1, InTheMiddle
    <3>3. Above(prog, b) \subseteq Holders(prog, prog.close[b])
      BY <1>2, AtClose
    <3> QED
      BY <3>2, <3>3
  <2>6. Above(prog, b) # {}
    <3>1. PICK c \in Block(prog) : b \in Children(prog, c)
      BY <1>2, <1>6, ParentOf
    <3>2. c \in Above(prog, b)
      BY <1>2, <3>1, ChildrenOf
    <3> QED
      BY <3>2
  <2>7. Holders(prog, x) # {} /\ Holders(prog, x) \subseteq ran
    BY <2>4, <2>5, <2>6
  <2>8. x \in Nat
    <3>1. prog.close[end] \in 1..prog.n
      BY <1>2, <2>2, ProgramTypes
    <3> QED
      BY <2>3, <3>1
  <2>9. token' = x
    BY <1>6, <2>1, <2>3
  <2>10. PICK log2 : log2 = log'
    OBVIOUS
  <2>11. log2 = log \/ log2 = log \cup {TraceOf(prog, x)}
    BY <1>6, <2>9, <2>10 DEF TracedAt, Traced, TraceOf
  <2>12. Running(prog, ran, log2, x)
    BY <1>2, <1>3, <2>4, <2>7, <2>8, <2>11, GoesTo
  <2>13. Running(prog, ran', log', token')
    BY <1>1, <2>9, <2>10, <2>12
  <2> QED
    BY <1>1, <2>13, StillRunning
<1> QED
  BY <1>4, <1>5, <1>6

\* A trace of another file.
LEMMA OtherFileStep ==
  ASSUME ReportInv, OtherFile
  PROVE  ReportInv'
<1>1. phase = "run" /\ UNCHANGED <<prog, phase, token, ran>>
  BY DEF OtherFile
<1>2. PICK c \in {Builtin, Unlisted}, l \in OtherLines :
        log' = log \cup {[config |-> c, line |-> l]}
  BY DEF OtherFile, Traced
<1>3. c \notin UserFiles(prog)
  <2>1. prog.file \in [1..prog.n -> Nat \ {Builtin, Unlisted}]
    BY ProgIsProgram DEF Program
  <2>2. c # 0
    BY DEF Builtin, Unlisted
  <2> QED
    BY <2>1, <2>2 DEF UserFiles
<1>7. PICK log2 : log2 = log'
  OBVIOUS
<1>9. PICK log1 : log1 = log
  OBVIOUS
<1>4. \A f \in UserFiles(prog) : FileLines(log2, f) = FileLines(log, f)
  <2> TAKE f \in UserFiles(prog)
  <2>1. PICK r : r = [config |-> c, line |-> l]
    OBVIOUS
  <2>2. log2 = log1 \cup {r} /\ r.config # f
    BY <1>2, <1>3, <1>7, <1>9, <2>1
  <2>3. FileLines(log1 \cup {r}, f) = FileLines(log1, f)
    BY <2>2, FileLinesStay
  <2> QED
    BY <1>9, <2>2, <2>3
<1>5. Running(prog, ran, log, token)
  BY DEF ReportInv
<1>8. LogInv(prog, ran, log2)
  BY <1>4, <1>5 DEF Running, LogInv
<1>6. Running(prog, ran', log', token')
  BY <1>1, <1>5, <1>7, <1>8 DEF Running
<1> QED
  BY <1>1, <1>6, StillRunning

\* The report depends on what the stages before it left.
LEMMA FormatsStay ==
  ASSUME UNCHANGED <<prog, exec, parsed, entered>>
  PROVE  /\ FormatTestFailure' = FormatTestFailure
         /\ FormatTestFailureWithBlocks' = FormatTestFailureWithBlocks
<1>1. prog' = prog /\ exec' = exec /\ parsed' = parsed /\ entered' = entered
  OBVIOUS
<1>2. UserFiles(prog)' = UserFiles(prog) /\ ConfigMap' = ConfigMap /\ Nothing' = Nothing
  BY <1>1 DEF UserFiles, ConfigMap, Nothing
<1>3. FormatTestFailure' = FormatTestFailure
  BY <1>1, <1>2 DEF FormatTestFailure
<1>4. \A f : FormatVCLWithBlocks(f)' = FormatVCLWithBlocks(f)
  BY <1>1 DEF FormatVCLWithBlocks, Lines
<1>5. [f \in UserFiles(prog) |-> FormatVCLWithBlocks(f)]' =
        [f \in UserFiles(prog) |-> FormatVCLWithBlocks(f)]
  BY <1>2, <1>4
<1>6. FormatTestFailureWithBlocks' = FormatTestFailureWithBlocks
  BY <1>1, <1>2, <1>5 DEF FormatTestFailureWithBlocks
<1> QED
  BY <1>3, <1>6

\* Once the stages before it are done, the invariant is about the report.
LEMMA ReportStays ==
  ASSUME ReportInv, UNCHANGED <<prog, token, ran, log, exec, parsed, entered>>,
         \/ UNCHANGED <<phase, report>>
         \/ /\ phase = "done" /\ phase' = "reported"
            /\ report' = IF parsed # {} THEN FormatTestFailureWithBlocks ELSE FormatTestFailure
  PROVE  ReportInv'
<1>1. /\ prog' = prog /\ token' = token /\ ran' = ran /\ log' = log
      /\ exec' = exec /\ parsed' = parsed /\ entered' = entered
  OBVIOUS
<1>2. prog' \in Programs /\ Running(prog, ran, log, token)'
  <2>1. prog \in Programs /\ Running(prog, ran, log, token)
    BY DEF ReportInv
  <2>2. Running(prog', ran', log', token')
    BY <1>1, <2>1
  <2> QED
    BY <1>1, <2>1, <2>2
<1>3. /\ FormatTestFailure' = FormatTestFailure
      /\ FormatTestFailureWithBlocks' = FormatTestFailureWithBlocks
  BY <1>1, FormatsStay
<1>4. phase' \in {"lines", "done", "reported"} =>
        \A f \in UserFiles(prog') : exec'[f] = FileLines(log', f)
  <2>1. phase' \in {"lines", "done", "reported"} => phase \in {"lines", "done", "reported"}
    OBVIOUS
  <2>2. phase \in {"lines", "done", "reported"} =>
          \A f \in UserFiles(prog) : exec[f] = FileLines(log, f)
    BY DEF ReportInv
  <2> QED
    BY <1>1, <2>1, <2>2
<1>5. phase' \in {"done", "reported"} =>
        entered' = [f \in UserFiles(prog') |->
                      IF f \in parsed' THEN MatchTracesToBlocks(prog', f, exec'[f]) ELSE {}]
  <2>1. phase' \in {"done", "reported"} => phase \in {"done", "reported"}
    OBVIOUS
  <2>2. phase \in {"done", "reported"} =>
          entered = [f \in UserFiles(prog) |->
                       IF f \in parsed THEN MatchTracesToBlocks(prog, f, exec[f]) ELSE {}]
    BY DEF ReportInv
  <2> QED
    BY <1>1, <2>1, <2>2
<1>6. phase' = "reported" =>
        report' = IF parsed' # {} THEN FormatTestFailureWithBlocks' ELSE FormatTestFailure'
  BY <1>1, <1>3 DEF ReportInv
<1>7. phase' \in {"run", "lines", "done", "reported"}
  BY DEF ReportInv
<1> QED
  BY <1>2, <1>4, <1>5, <1>6, <1>7 DEF ReportInv

\* The stages of the report.
LEMMA StagesStep ==
  ASSUME ReportInv, GetExecutedLinesByConfig \/ ExtractVCLFiles \/ DisplayResults
  PROVE  ReportInv'
<1>1. UNCHANGED <<prog, token, ran, log>>
  BY DEF GetExecutedLinesByConfig, ExtractVCLFiles, DisplayResults
<1>2. prog' \in Programs /\ Running(prog, ran, log, token)'
  <2>1. prog \in Programs /\ Running(prog, ran, log, token)
    BY DEF ReportInv
  <2>2. Running(prog', ran', log', token')
    BY <1>1, <2>1
  <2> QED
    BY <1>1, <2>1, <2>2
<1>3. UserFiles(prog)' = UserFiles(prog) /\ \A f : FileLines(log', f) = FileLines(log, f)
  BY <1>1 DEF UserFiles
<1>4. CASE GetExecutedLinesByConfig
  <2>1. phase' = "lines" /\ \A f \in UserFiles(prog) : exec'[f] = FileLines(log, f)
    BY <1>4 DEF GetExecutedLinesByConfig, FileLines, ConfigMap
  <2> QED
    BY <1>2, <1>3, <2>1 DEF ReportInv
<1>5. CASE ExtractVCLFiles
  <2>1. /\ phase = "lines" /\ phase' = "done" /\ exec' = exec
        /\ entered' = [f \in UserFiles(prog) |->
                         IF f \in parsed' THEN MatchTracesToBlocks(prog, f, exec[f]) ELSE {}]
    BY <1>5 DEF ExtractVCLFiles
  <2>2. \A f \in UserFiles(prog)' : exec'[f] = FileLines(log', f)
    BY <1>3, <2>1 DEF ReportInv
  <2>3. entered' = [f \in UserFiles(prog') |->
                      IF f \in parsed' THEN MatchTracesToBlocks(prog', f, exec'[f]) ELSE {}]
    BY <1>1, <2>1
  <2> QED
    BY <1>2, <2>1, <2>2, <2>3 DEF ReportInv
<1>6. CASE DisplayResults
  <2>1. /\ phase = "done" /\ phase' = "reported" /\ UNCHANGED <<exec, parsed, entered>>
        /\ report' = IF parsed # {} THEN FormatTestFailureWithBlocks ELSE FormatTestFailure
    BY <1>6 DEF DisplayResults
  <2>2. ReportInv'
    BY <1>1, <2>1, ReportStays
  <2> QED
    BY <2>2
<1> QED
  BY <1>4, <1>5, <1>6

\* Every step keeps the invariant.
LEMMA NextReportInv == ReportInv /\ [CoverageNext]_coverageVars => ReportInv'
<1> SUFFICES ASSUME ReportInv, [CoverageNext]_coverageVars PROVE ReportInv'
  OBVIOUS
<1>1. CASE CallSub
  BY <1>1, CallSubStep
<1>2. CASE Condition
  BY <1>2, ConditionStep
<1>3. CASE Statement
  BY <1>3, StatementStep
<1>4. CASE EndBlock
  BY <1>4, EndBlockStep
<1>5. CASE OtherFile
  BY <1>5, OtherFileStep
<1>6. CASE GetExecutedLinesByConfig \/ ExtractVCLFiles \/ DisplayResults
  BY <1>6, StagesStep
<1>7. CASE UNCHANGED coverageVars
  <2>1. /\ prog' = prog /\ phase' = phase /\ token' = token /\ ran' = ran /\ log' = log
        /\ exec' = exec /\ parsed' = parsed /\ entered' = entered /\ report' = report
    BY <1>7 DEF coverageVars
  <2> QED
    BY <2>1, ReportStays
<1> QED
  BY <1>1, <1>2, <1>3, <1>4, <1>5, <1>6, <1>7 DEF CoverageNext
-----------------------------------------------------------------------------
\* The invariant of the run and of the stages of the report.
THEOREM ReportInvariant == CoverageSpec => []ReportInv
<1>1. CoverageInit => ReportInv
  BY InitReportInv
<1>2. ReportInv /\ [CoverageNext]_coverageVars => ReportInv'
  BY NextReportInv
<1> QED
  BY <1>1, <1>2, PTL DEF CoverageSpec

\* What the stages of the report were made from, file by file.
LEMMA StagesOf ==
  ASSUME ReportInv, NEW f \in UserFiles(prog), phase \in {"done", "reported"}
  PROVE  /\ exec[f] = FileLines(log, f)
         /\ RanInv(prog, ran) /\ LinesInv(prog, ran, f, exec[f])
         /\ entered[f] = IF f \in parsed THEN MatchTracesToBlocks(prog, f, exec[f]) ELSE {}
<1>1. exec[f] = FileLines(log, f)
  BY DEF ReportInv
<1>2. entered[f] = IF f \in parsed THEN MatchTracesToBlocks(prog, f, exec[f]) ELSE {}
  BY DEF ReportInv
<1>3. RanInv(prog, ran) /\ LinesInv(prog, ran, f, FileLines(log, f))
  BY InTheMiddle DEF LogInv
<1> QED
  BY <1>1, <1>2, <1>3

\* What matchBlockRecursive marks, in every layout of every program and with includes
\* resolved: a block that ran and begins with a line of its own, and the blocks around
\* it, in the analysis of their file.
THEOREM PlainMarked == CoverageSpec => []PlainBlocksMarked
<1>1. ReportInv => PlainBlocksMarked
  <2> SUFFICES ASSUME ReportInv, phase = "done", NEW b \in ran,
                      prog.file[b] \in parsed, BeginsApart(prog, b),
                      NEW c \in Block(prog), b = c \/ (prog.open[c] < b /\ b < prog.close[c])
               PROVE  c \in entered[prog.file[b]]
    BY DEF PlainBlocksMarked
  <2>1. Program(prog)
    BY ProgIsProgram
  <2>2. PICK f : f = prog.file[b]
    OBVIOUS
  <2>7. b \in Block(prog)
    BY InTheMiddle DEF RanInv
  <2>9. f \in UserFiles(prog)
    BY <2>1, <2>2, <2>7, FileOfBlock
  <2>10. PICK lines : lines = exec[f]
    OBVIOUS
  <2>3. RanInv(prog, ran) /\ LinesInv(prog, ran, f, lines)
    BY <2>9, <2>10, StagesOf
  <2>4. entered[f] = MatchTracesToBlocks(prog, f, lines)
    BY <2>2, <2>9, <2>10, StagesOf
  <2>5. b \in MatchTracesToBlocks(prog, f, lines)
    BY <2>1, <2>2, <2>3, ApartMarked
  <2>6. Above(prog, b) \subseteq MatchTracesToBlocks(prog, f, lines)
    BY <2>1, <2>5, MarkedUpward
  <2>8. CASE b # c
    <3>1. \/ prog.close[b] < c
          \/ prog.close[c] < b
          \/ prog.open[b] < c /\ prog.close[c] < prog.close[b]
          \/ prog.open[c] < b /\ prog.close[b] < prog.close[c]
      BY <2>1, <2>7, <2>8, Nesting
    <3>2. /\ b \in Nat /\ c \in Nat /\ prog.open[b] \in Nat /\ prog.open[c] \in Nat
          /\ prog.close[b] \in Nat /\ prog.close[c] \in Nat
          /\ b < prog.open[b] /\ c < prog.open[c] /\ prog.open[b] < prog.close[b]
      BY <2>1, <2>7, ProgramTypes
    <3>3. prog.open[c] < b /\ prog.close[b] < prog.close[c]
      BY <2>8, <3>1, <3>2
    <3>4. c \in Above(prog, b)
      BY <3>3 DEF Above, Encloses
    <3> QED
      BY <2>2, <2>4, <2>6, <3>4
  <2> QED
    BY <2>2, <2>4, <2>5, <2>8
<1> QED
  BY <1>1, ReportInvariant, PTL

\* The status GetLineStatus gives a line of a file is that of the block FindBlockAtLine
\* finds, for every line whose blocks, of the file and of those it includes, are one in
\* the other.
THEOREM LineHasStatusOfDeepest == CoverageSpec => []StatusOfDeepest
<1>1. ReportInv => StatusOfDeepest
  <2> SUFFICES ASSUME ReportInv, NEW f \in UserFiles(prog), NEW l \in Lines(f),
                      Around(prog, f, l) # {},
                      \A b, c \in Around(prog, f, l) :
                        b < c => prog.open[b] < c /\ c < prog.close[b]
               PROVE  GetLineStatus(prog, f, entered[f], l)
                        <=> FindBlockAtLine(prog, f, l) \in entered[f]
    BY DEF StatusOfDeepest
  <2>1. Program(prog)
    BY ProgIsProgram
  <2>2. PICK x \in 1..prog.n : l = prog.line[x]
    BY DEF Lines
  <2>3. l \in Nat
    BY <2>1, <2>2, ProgramTypes
  <2>4. Around(prog, f, l) # {} /\ Nested(prog, f, l)
    BY DEF Nested
  <2>5. FindBlockAtLine(prog, f, l) = Last(Around(prog, f, l))
    BY <2>1, <2>3, <2>4, DeepestIsLast
  <2>6. GetLineStatus(prog, f, entered[f], l) <=> Last(Around(prog, f, l)) \in entered[f]
    BY <2>4 DEF GetLineStatus
  <2> QED
    BY <2>5, <2>6
<1> QED
  BY <1>1, ReportInvariant, PTL

\* What is printed about a file's own blocks is so, in every layout and with includes
\* resolved: the file's blocks that are listed ran; a line with a star, if no block of
\* an included file covers it, is in a block of the file that ran; and the report does
\* not say that only built-in VCL ran when a block that begins with a line of its own
\* did, in a file that was analysed, or any block when none was.
THEOREM ReportIsTrue == CoverageSpec => []ReportTrue
<1>1. ReportInv => ReportTrue
  <2> SUFFICES ASSUME ReportInv, phase = "reported"
               PROVE  /\ report.claim /\ parsed = {} => ran = {}
                      /\ report.claim =>
                           \A b \in ran : prog.file[b] \in parsed => ~BeginsApart(prog, b)
                      /\ \A f \in UserFiles(prog) :
                           /\ \A b \in report.listed[f] : prog.file[b] = f => b \in ran
                           /\ \A l \in report.starred[f] :
                                (\A b \in Around(prog, f, l) : prog.file[b] = f)
                                  => \E b \in ran : prog.file[b] = f /\ LineInBlock(prog, b, l)
    BY DEF ReportTrue
  <2>1. Program(prog)
    BY ProgIsProgram
  <2>2. report = IF parsed # {} THEN FormatTestFailureWithBlocks ELSE FormatTestFailure
    BY DEF ReportInv
  <2>3. \A f \in UserFiles(prog) :
          /\ RanInv(prog, ran) /\ LinesInv(prog, ran, f, exec[f])
          /\ entered[f] = IF f \in parsed THEN MatchTracesToBlocks(prog, f, exec[f]) ELSE {}
    BY StagesOf
  <2>4. \A b \in ran : b \in Block(prog) /\ prog.file[b] \in UserFiles(prog)
    BY <2>1, InTheMiddle, FileOfBlock DEF RanInv
  <2>5. \A f \in UserFiles(prog) : \A b \in entered[f] : prog.file[b] = f => b \in ran
    <3> SUFFICES ASSUME NEW f \in UserFiles(prog), NEW b \in entered[f], prog.file[b] = f
                 PROVE  b \in ran
      OBVIOUS
    <3>1. PICK lines : lines = exec[f]
      OBVIOUS
    <3>2. RanInv(prog, ran) /\ LinesInv(prog, ran, f, lines)
      BY <2>3, <3>1
    <3>3. b \in MatchTracesToBlocks(prog, f, lines)
      BY <2>3, <3>1
    <3> QED
      BY <2>1, <3>2, <3>3, MarkedRan
  <2>6. CASE parsed = {}
    <3>1. report = [claim |-> \A c \in ConfigMap : exec[c] = {},
                    starred |-> [f \in UserFiles(prog) |-> exec[f]], listed |-> Nothing]
      BY <2>2, <2>6 DEF FormatTestFailure
    <3>2. \A f \in UserFiles(prog) : report.starred[f] = exec[f] /\ report.listed[f] = {}
      BY <3>1 DEF Nothing
    <3>3. report.claim => \A f \in UserFiles(prog) : exec[f] = {}
      <4>1. report.claim <=> \A c \in ConfigMap : exec[c] = {}
        BY <3>1, Zenon
      <4> QED
        BY <4>1 DEF ConfigMap
    <3>4. report.claim => ran = {}
      BY <2>3, <2>4, <3>3 DEF LinesInv
    <3>5. ASSUME NEW f \in UserFiles(prog), NEW l \in exec[f]
          PROVE  \E b \in ran : prog.file[b] = f /\ LineInBlock(prog, b, l)
      <4>1. PICK x \in 1..prog.n : /\ l = prog.line[x] /\ prog.file[x] = f
                                   /\ Holders(prog, x) # {} /\ Holders(prog, x) \subseteq ran
        BY <2>3 DEF LinesInv
      <4>2. PICK b \in Holders(prog, x) : b \in ran
        BY <4>1
      <4>3. b \in Block(prog) /\ prog.open[b] < x /\ x <= prog.close[b]
        BY DEF Holders
      <4>4. prog.open[b] \in 1..prog.n /\ prog.close[b] \in 1..prog.n /\ prog.n \in Nat
        BY <2>1, <4>3, ProgramTypes
      <4>5. prog.open[b] <= x /\ x \in Nat
        BY <4>3, <4>4
      <4>7. prog.file[b] = f
        BY <2>1, <4>1, <4>2, <4>5, FileOfHolder
      <4>8. prog.file[prog.open[b]] = prog.file[x] /\ prog.file[x] = prog.file[prog.close[b]]
        BY <2>1, <4>1, <4>3, <4>7, FileOfBlock
      <4>6. prog.line[prog.open[b]] <= prog.line[x] /\ prog.line[x] <= prog.line[prog.close[b]]
        BY <2>1, <4>3, <4>4, <4>5, <4>8, LinesInOrder
      <4> QED
        BY <4>1, <4>2, <4>6, <4>7 DEF LineInBlock, OpenBrace, CloseBrace
    <3> QED
      BY <2>6, <3>2, <3>4, <3>5
  <2>7. CASE parsed # {}
    <3>1. /\ \A f \in UserFiles(prog) : /\ report.listed[f] \subseteq entered[f]
                                        /\ report.starred[f] \subseteq FormatVCLWithBlocks(f)
          /\ report.claim => \A f \in UserFiles(prog) : entered[f] = {}
      <4>1. CASE entered = Nothing /\ ~(Builtin \in parsed /\ exec[Builtin] # {})
        <5>1. report = [claim |-> TRUE, starred |-> Nothing, listed |-> Nothing]
          BY <2>2, <2>7, <4>1 DEF FormatTestFailureWithBlocks
        <5>2. \A f \in UserFiles(prog) : Nothing[f] = {}
          BY DEF Nothing
        <5> QED
          BY <4>1, <5>1, <5>2
      <4>2. CASE ~(entered = Nothing /\ ~(Builtin \in parsed /\ exec[Builtin] # {}))
        <5>1. report = [claim |-> FALSE,
                        starred |-> [f \in UserFiles(prog) |-> FormatVCLWithBlocks(f)],
                        listed |-> entered]
          BY <2>2, <2>7, <4>2 DEF FormatTestFailureWithBlocks
        <5> QED
          BY <5>1
      <4> QED
        BY <4>1, <4>2
    <3>2. ASSUME \A f \in UserFiles(prog) : entered[f] = {}, NEW b \in ran, prog.file[b] \in parsed
          PROVE  ~BeginsApart(prog, b)
      <4>1. PICK f : f = prog.file[b]
        OBVIOUS
      <4>2. PICK lines : lines = exec[f]
        OBVIOUS
      <4>3. f \in UserFiles(prog)
        BY <2>4, <4>1
      <4>4. RanInv(prog, ran) /\ LinesInv(prog, ran, f, lines)
        BY <2>3, <4>2, <4>3
      <4>5. b \notin MatchTracesToBlocks(prog, f, lines)
        BY <2>3, <3>2, <4>1, <4>2, <4>3
      <4> QED
        BY <2>1, <4>1, <4>4, <4>5, ApartMarked
    <3>3. ASSUME NEW f \in UserFiles(prog), NEW l \in FormatVCLWithBlocks(f),
                 \A b \in Around(prog, f, l) : prog.file[b] = f
          PROVE  \E b \in ran : prog.file[b] = f /\ LineInBlock(prog, b, l)
      <4>1. GetLineStatus(prog, f, entered[f], l)
        BY DEF FormatVCLWithBlocks
      <4>2. Around(prog, f, l) # {} /\ Last(Around(prog, f, l)) \in entered[f]
        BY <4>1 DEF GetLineStatus
      <4>3. PICK A : A = Around(prog, f, l)
        OBVIOUS
      <4>4. A \subseteq Block(prog)
        BY <4>3 DEF Around, FileBlocks
      <4>5. prog.n \in Nat /\ Block(prog) \subseteq 1..prog.n
        BY <2>1, ProgramTypes
      <4>6. A \in SUBSET (0..prog.n) /\ A # {}
        BY <4>2, <4>3, <4>4, <4>5
      <4>7. Last(A) \in A
        BY <4>5, <4>6, LastOf
      <4>8. PICK b : b = Last(A)
        OBVIOUS
      <4>9. b \in Around(prog, f, l) /\ b \in entered[f]
        BY <4>2, <4>3, <4>7, <4>8
      <4>10. prog.file[b] = f /\ LineInBlock(prog, b, l)
        BY <3>3, <4>9 DEF Around
      <4>11. b \in ran
        BY <2>5, <4>9, <4>10
      <4> QED
        BY <4>10, <4>11
    <3> QED
      BY <2>5, <2>7, <3>1, <3>2, <3>3
  <2> QED
    BY <2>6, <2>7
<1> QED
  BY <1>1, ReportInvariant, PTL
=============================================================================
