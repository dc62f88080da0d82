------------------------------ MODULE Listings ------------------------------
(***************************************************************************)
(* Reading varnishd's listings: vcl.show -v (parseVCLShow), vcl.list       *)
(* (parseVCLList, parsers.go) and debug.listen_address                     *)
(* (parseListenAddresses, commands.go, with GetHTTPPort of                 *)
(* service/manager.go), each with the wrapper that runs the command.       *)
(*                                                                         *)
(* A payload of vcl.show is a sequence of symbols, one per byte, except    *)
(* that a whole header text is one symbol; the other two are lines of      *)
(* words.  What varnishd writes is external; it is rendered here from the  *)
(* state it describes, so that the parser can be held against it.          *)
(***************************************************************************)
EXTENDS Integers, Sequences, FiniteSets, CLIStatus

CONSTANTS Shows,      \* the VCLs: sequences of [id, name, content]
          Lists,      \* the VCL tables: sequences of rows
          Sockets     \* the listening sockets: sequences of lines

VARIABLES input,      \* what varnishd was asked, and its state
          status,     \* of the answer
          data,       \* the payload of the answer
          pos,        \* parser: how far it has got
          entries,    \* parser: result.Entries, or the addresses
          configMap,  \* parser: result.ConfigMap, as a set of pairs
          pc          \* "asked", "parse", "done" or "error"

vars == <<input, status, data, pos, entries, configMap, pc>>
parser == <<pos, entries, configMap, pc>>
-----------------------------------------------------------------------------
(* varnishd *)

\* The symbols of a vcl.show payload.
NL == [sym |-> "nl", id |-> 0, size |-> 0, name |-> ""]
Char == [sym |-> "char", id |-> 0, size |-> 0, name |-> ""]
Header(id, size, name) == [sym |-> "header", id |-> id, size |-> size, name |-> name]

\* The files of a VCL, each with an ID of its own.
Symbol == [sym : {"nl", "char", "header"}, id : Nat, size : Nat, name : STRING]
File == [id : Nat, name : STRING, content : Seq(Symbol)]
ASSUME ShowsAssumption ==
  \A files \in Shows :
    /\ files \in Seq(File)
    /\ \A i, j \in DOMAIN files : files[i].id = files[j].id => i = j

\* Each file behind its header line, with or without a newline after it.
RenderFile(f, sep) == <<Header(f.id, Len(f.content), f.name), NL>> \o f.content \o sep
RenderUpTo(files, sep) ==
  LET render[i \in 0..Len(files)] ==
        IF i = 0 THEN <<>> ELSE render[i - 1] \o RenderFile(files[i], sep)
  IN render
RenderShow(files, sep) == RenderUpTo(files, sep)[Len(files)]

\* A word, or the text in parentheses at the end of a line: (2 labels).
Word(t) == [sym |-> "word", text |-> t, n |-> 0]
Paren(t, n) == [sym |-> "paren", text |-> t, n |-> n]

\* A row of vcl.list; a label has a target.  A line may be blank, or garbled.
NoRow(what) == [status |-> what, temp |-> "", name |-> "", target |-> "", labels |-> 0, returns |-> 0]
BlankRow == NoRow("blank")
GarbledRow == NoRow("garbled")
RenderRow(r) ==
  IF r = BlankRow THEN <<>> ELSE IF r = GarbledRow THEN <<Word("?")>> ELSE
  <<Word(r.status), Word(r.temp), Word("-"), Word(r.name)>>
    \o (IF r.target = "" THEN <<>> ELSE <<Word("->"), Word(r.target)>>)
    \o (IF r.labels > 0 THEN <<Paren("label", r.labels)>> ELSE <<>>)
    \o (IF r.returns > 0 THEN <<Paren("return", r.returns)>> ELSE <<>>)

\* A line of debug.listen_address; port 0 is the "-" of a Unix socket.  A
\* line with fields missing or a port that is no number is garbled.
Garbled == [name |-> "", family |-> "", port |-> -2]
Blank == [name |-> "", family |-> "", port |-> -3]

\* The lines of debug.listen_address; a TCP address is of one family or the other,
\* by whether there is a colon in it.
Line == [name : STRING, family : {"ipv4", "ipv6"}, port : Nat \ {0}]
          \cup [name : STRING, family : {"unix"}, port : {0}] \cup {Garbled, Blank}
ASSUME SocketsAssumption == Sockets \subseteq Seq(Line)

\* A VCL has labels, a label has returns.
Row == {r \in [status : STRING, temp : STRING, name : STRING, target : STRING,
               labels : Nat, returns : Nat] :
          IF r.target = "" THEN r.returns = 0 ELSE r.labels = 0}
ASSUME ListsAssumption == \A rows \in Lists : rows \in Seq(Row)

\* The answer: complete, cut short with status 201, or refused.
Payload(in) ==
  CASE in.kind = "show" -> RenderShow(in.of, in.sep)
    [] in.kind = "list" -> [i \in DOMAIN in.of |-> RenderRow(in.of[i])]
    [] in.kind = "port" -> in.of

Answer ==
  /\ pc = "asked" /\ status = 0
  /\ \/ status' = ClisOk /\ data' = Payload(input)
     \/ /\ status' = ClisTruncated
        /\ \E n \in 0..(Len(Payload(input)) - 1) : data' = SubSeq(Payload(input), 1, n)
     \/ status' = 106 /\ data' = <<>>
  /\ UNCHANGED <<input, parser>>
-----------------------------------------------------------------------------
Init ==
  /\ input \in [kind : {"show"}, of : Shows, sep : {<<>>, <<NL>>}]
                \cup [kind : {"list"}, of : Lists, sep : {<<>>}]
                \cup [kind : {"port"}, of : Sockets, sep : {<<>>}]
  /\ status = 0 /\ data = <<>>
  /\ pos = 1 /\ entries = <<>> /\ configMap = {} /\ pc = "asked"

\* VCLShowStructured, VCLListStructured, DebugListenAddressStructured: any
\* status but 200 is an error.
Structured ==
  /\ pc = "asked" /\ status # 0
  /\ pc' = IF status = ClisOk THEN "parse" ELSE "error"
  /\ UNCHANGED <<input, status, data, pos, entries, configMap>>

\* Taking a number of symbols that may not be there.
Clip(n) == IF n > Len(data) + 1 THEN Len(data) + 1 ELSE n

\* The end of the line that starts at pos.
LineEnd == CHOOSE e \in pos..(Len(data) + 1) :
             /\ e = Len(data) + 1 \/ data[e] = NL
             /\ \A i \in pos..(e - 1) : data[i] # NL

\* The expression for headers matches from the beginning of the line; what
\* follows a header text on its line becomes part of the file name.
IsHeader == LineEnd > pos /\ data[pos].sym = "header"
FileName == IF LineEnd = pos + 1 THEN data[pos].name ELSE data[pos].name \o " ..."

\* The entry a header and the content [from, to) behind it make.
EntryAt(from, to) ==
  [id |-> data[pos].id, size |-> data[pos].size, name |-> FileName,
   source |-> SubSeq(data, from, to - 1)]

Parsing(kind) == pc = "parse" /\ input.kind = kind /\ pos <= Len(data)

\* parseVCLShow's loop: a line that is no header is skipped, a header takes
\* its size of content, whatever that looks like.
SkipLine ==
  /\ Parsing("show") /\ ~IsHeader
  /\ pos' = LineEnd + 1
  /\ UNCHANGED <<input, status, data, entries, configMap, pc>>

\* Mutant: the search for headers goes on inside the content.
ShowLineByLine ==
  /\ Parsing("show") /\ IsHeader
  /\ LET from == Clip(LineEnd + 1)  e == EntryAt(from, Clip(from + data[pos].size)) IN
     /\ entries' = Append(entries, e)
     /\ configMap' = {p \in configMap : p[1] # e.id} \cup {<<e.id, e.name>>}
     /\ pos' = from
  /\ UNCHANGED <<input, status, data, pc>>

ShowEntry ==
  /\ Parsing("show") /\ IsHeader
  /\ LET from == Clip(LineEnd + 1)  to == Clip(from + data[pos].size)  e == EntryAt(from, to) IN
     /\ entries' = Append(entries, e)
     /\ configMap' = {p \in configMap : p[1] # e.id} \cup {<<e.id, e.name>>}
     /\ pos' = to
  /\ UNCHANGED <<input, status, data, pc>>

\* The first of some positions.
FirstOf(S) == CHOOSE i \in S : \A j \in S : i <= j

\* The first part behind the third with parentheses, or 0.
NameEnd(line) ==
  LET parens == {i \in 4..Len(line) : line[i].sym = "paren"}
  IN IF parens = {} THEN 0 ELSE FirstOf(parens)

Count(line, t) ==
  LET end == NameEnd(line) IN IF end # 0 /\ line[end].text = t THEN line[end].n ELSE 0

\* The words between the third and the parentheses.
Words(line) ==
  LET words == SubSeq(line, 4, IF NameEnd(line) = 0 THEN Len(line) ELSE NameEnd(line) - 1)
  IN [i \in DOMAIN words |-> words[i].text]

\* Mutant: the arrow is not looked for.
ParseVCLLineFlat(line) ==
  [status |-> line[1].text, temp |-> line[2].text, name |-> Words(line), target |-> "",
   labels |-> Count(line, "label"), returns |-> Count(line, "return")]

\* parseVCLLine.  The words make the name, and only with parentheses behind them
\* are they taken apart at the arrow.
ParseVCLLine(line) ==
  LET name == Words(line)
      label == NameEnd(line) # 0 /\ Len(name) = 3 /\ name[2] = "->"
  IN [status |-> line[1].text, temp |-> line[2].text,
      name |-> IF label THEN SubSeq(name, 1, 1) ELSE name,
      target |-> IF label THEN name[3] ELSE "",
      labels |-> Count(line, "label"), returns |-> Count(line, "return")]

\* One line of parseVCLList: blank lines are skipped, one of fewer than four
\* words is an error for the whole listing.
ListEntry ==
  /\ Parsing("list")
  /\ LET line == data[pos] IN
     CASE line = <<>> -> pos' = pos + 1 /\ UNCHANGED <<entries, pc>>
       [] Len(line) \in 1..3 -> pc' = "error" /\ UNCHANGED <<pos, entries>>
       [] OTHER -> /\ entries' = Append(entries, ParseVCLLine(line))
                   /\ pos' = pos + 1 /\ UNCHANGED pc
  /\ UNCHANGED <<input, status, data, configMap>>

\* A Unix socket gets port -1.
ParseAddress(l) == [l EXCEPT !.port = IF @ = 0 THEN -1 ELSE @]

\* One line of parseListenAddresses: blank lines are skipped, a bad one is
\* an error for the whole listing.
AddressEntry ==
  /\ Parsing("port")
  /\ LET l == data[pos] IN
     CASE l = Blank -> pos' = pos + 1 /\ UNCHANGED <<entries, pc>>
       [] l = Garbled -> pc' = "error" /\ UNCHANGED <<pos, entries>>
       [] OTHER -> /\ entries' = Append(entries, ParseAddress(l))
                   /\ pos' = pos + 1 /\ UNCHANGED pc
  /\ UNCHANGED <<input, status, data, configMap>>

Finish ==
  /\ pc = "parse" /\ pos > Len(data)
  /\ pc' = "done"
  /\ UNCHANGED <<input, status, data, pos, entries, configMap>>

\* The positions of the TCP addresses.
Tcp(addrs) == {i \in DOMAIN addrs : addrs[i].port > 0}

\* Mutant: the first TCP address, whatever its family.
GetHTTPPortFirst(addrs) ==
  IF Tcp(addrs) # {} THEN addrs[FirstOf(Tcp(addrs))].port ELSE 0

\* GetHTTPPort: the first IPv4 address, else the first TCP address, else an
\* error (0).
GetHTTPPort(addrs) ==
  LET ipv4 == {i \in Tcp(addrs) : addrs[i].family = "ipv4"}
  IN IF ipv4 # {} THEN addrs[FirstOf(ipv4)].port
     ELSE IF Tcp(addrs) # {} THEN addrs[FirstOf(Tcp(addrs))].port ELSE 0

Next == Answer \/ Structured \/ SkipLine \/ ShowEntry \/ ListEntry \/ AddressEntry \/ Finish
Spec == Init /\ [][Next]_vars
-----------------------------------------------------------------------------
(* Properties. *)

\* A parsed vcl.show has every file of the VCL once, in varnishd's order,
\* with exactly its source, even if a line in it looks like a header of
\* vcl.show itself; so the lines of a trace are looked up, by the config
\* ID, in the file they are from.
ShowIsExact ==
  pc = "done" /\ input.kind = "show" =>
    /\ Len(entries) = Len(input.of)
    /\ \A i \in DOMAIN entries :
         /\ entries[i].source = input.of[i].content
         /\ entries[i].id = input.of[i].id /\ entries[i].name = input.of[i].name

\* The rows up to the n-th that are not blank.
RowsUpTo(n) == {i \in 1..n : input.of[i] # BlankRow}

\* The entry of the i-th row.
EntryOfRow(i) == entries[Cardinality(RowsUpTo(i))]

\* vcl.list gives back the VCLs and labels varnishd has, each once and in their order,
\* with status, temperature and counts.  Name and target are claimed for the rows in
\* which parseVCLLine tells them apart, which are not all of them (see EntryIsNamed):
\* VCLs, and labels that some VCL returns to.
ListIsExact ==
  pc = "done" /\ input.kind = "list" =>
    /\ Len(entries) = Cardinality(RowsUpTo(Len(input.of)))
    /\ \A i \in RowsUpTo(Len(input.of)) :
         LET e == EntryOfRow(i)  r == input.of[i] IN
         /\ e.status = r.status /\ e.temp = r.temp
         /\ e.labels = r.labels /\ e.returns = r.returns
         /\ r.target = "" \/ r.returns > 0 => e.name = <<r.name>> /\ e.target = r.target

\* In every entry Name is the "VCL configuration name" and LabelTarget is set "for
\* label entries" (types.go 10 and 14), "like label-api -> vcl-api-orig" (parsers.go
\* 76).  A label nobody returns to has no parentheses behind it, and parseVCLLine
\* returns (parsers.go 64-68) before it looks for the arrow.
EntryIsNamed ==
  pc = "done" /\ input.kind = "list" =>
    \A i \in RowsUpTo(Len(input.of)) :
      EntryOfRow(i).name = <<input.of[i].name>> /\ EntryOfRow(i).target = input.of[i].target

\* The port the tests are sent to is one varnishd listens on: over IPv4 if
\* it does at all, and never that of a Unix socket; without any the call
\* fails.
PortIsReachable ==
  pc = "done" /\ input.kind = "port" =>
    LET port == GetHTTPPort(entries)
        listens(fam) == \E i \in DOMAIN input.of : input.of[i].port > 0 /\ input.of[i].family \in fam
        of(fam) == \E i \in DOMAIN input.of : input.of[i].port = port /\ input.of[i].family \in fam
    IN /\ listens({"ipv4"}) => of({"ipv4"})
       /\ listens({"ipv4", "ipv6"}) => port > 0 /\ of({"ipv4", "ipv6"})
       /\ ~listens({"ipv4", "ipv6"}) => port = 0

=============================================================================
