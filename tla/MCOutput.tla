------------------------------ MODULE MCOutput ------------------------------
(***************************************************************************)
(* What vcltest makes of varnishd's output, and the mock that stands for   *)
(* varnishd in tests: three sequential components that share no state.     *)
(* Each behaviour is one of one of them; the other two stay where they     *)
(* began.                                                                  *)
(*                                                                         *)
(* Listings: VCLs of up to two files whose contents have plain bytes,      *)
(* newlines and lines that look like headers; VCL tables of up to two      *)
(* rows; up to three sockets.  Coverage: nine small VCL programs, each in  *)
(* every layout, with a line break or none before every token but the      *)
(* first of a file; two of them are two files, one included before or      *)
(* behind the other's subroutine.  CLIMock: two certificates, one canned,  *)
(* one pattern and one unknown command, entries with every field that can  *)
(* be empty.                                                               *)
(***************************************************************************)
EXTENDS Listings, Coverage, CLIMock

CONSTANTS c1, c2
VARIABLE component  \* "listings", "coverage" or "mock" (constant)

-----------------------------------------------------------------------------
(* Listings *)

\* A header text in a file, claiming one byte.
Fake == Header(7, 1, "fake.vcl")
Contents == UNION {[1..n -> {Char, NL, Fake}] : n \in 0..3}
MCFile(i) == [id : {i}, name : {"a.vcl", "<builtin>"}, content : Contents]
MCShows == {<<f>> : f \in MCFile(0)} \cup
           {<<f, g>> : f \in MCFile(0), g \in [id : {1}, name : {"b.vcl"}, content : Contents]}

MCRow == {r \in [status : {"active", "available"}, temp : {"auto/warm"}, name : {"v", "w"},
                 target : {"", "v"}, labels : {0, 2}, returns : {0, 1}] :
            IF r.target = "" THEN r.returns = 0 ELSE r.labels = 0}
           \cup {BlankRow, GarbledRow}
MCLists == UNION {[1..n -> MCRow] : n \in 0..2}

SocketLine == {[name |-> "a0", family |-> "ipv4", port |-> 8080],
               [name |-> "a1", family |-> "ipv6", port |-> 8081],
               [name |-> "u", family |-> "unix", port |-> 0], Garbled, Blank}
MCSockets == UNION {[1..n -> SocketLine] : n \in 0..3}

-----------------------------------------------------------------------------
(* Coverage *)

\* The lines of the tokens: one more for each break before or at the token in its file.
Layouts(file) ==
  LET n == Cardinality(DOMAIN file)
      later == {x \in 1..n : \E y \in 1..(x - 1) : file[y] = file[x]}
  IN {[x \in 1..n |-> 1 + Cardinality({y \in breaks : y <= x /\ file[y] = file[x]})] :
        breaks \in SUBSET later}

\* A program in every layout, its tokens in the given files; file 0 includes file 3.
LaidOut(p, file) ==
  {[n |-> p.n, subs |-> p.subs, plain |-> p.plain, bare |-> p.bare, stmts |-> p.stmts,
    els |-> p.els, open |-> p.open, close |-> p.close, file |-> file,
    tree |-> [f \in {0, 3} |-> {f, 3}], line |-> l] :
     l \in Layouts(file)}
InOneFile(p) == LaidOut(p, [x \in 1..p.n |-> 0])

Zero(S) == [x \in S |-> 0]
NoStmts(S) == [x \in S |-> {}]

\* 1 sub 2 { 3 if 4 { 5 stmt 6 } 7 stmt 8 }
IfThenStmt ==
  [n |-> 8, subs |-> {1}, plain |-> {}, bare |-> {}, els |-> Zero({1, 3}),
   stmts |-> [b \in {1, 3} |-> IF b = 1 THEN {3} ELSE {}],
   open |-> [b \in {1, 3} |-> b + 1],
   close |-> [b \in {1, 3} |-> IF b = 1 THEN 8 ELSE 6]]

\* 1 sub 2 { 3 if 4 { 5 stmt 6 } 7 }
IfOnly ==
  [n |-> 7, subs |-> {1}, plain |-> {}, bare |-> {}, els |-> Zero({1, 3}),
   stmts |-> [b \in {1, 3} |-> IF b = 1 THEN {3} ELSE {}],
   open |-> [b \in {1, 3} |-> b + 1],
   close |-> [b \in {1, 3} |-> IF b = 1 THEN 7 ELSE 6]]

\* 1 sub 2 { 3 if 4 { 5 stmt 6 } 7 else 8 { 9 stmt 10 } 11 }
IfElse ==
  [n |-> 11, subs |-> {1}, plain |-> {7}, bare |-> {},
   els |-> [b \in {1, 3, 7} |-> IF b = 3 THEN 7 ELSE 0],
   stmts |-> [b \in {1, 3, 7} |-> IF b = 1 THEN {3} ELSE {}],
   open |-> [b \in {1, 3, 7} |-> b + 1],
   close |-> [b \in {1, 3, 7} |-> IF b = 1 THEN 11 ELSE b + 3]]

\* 1 sub 2 { 3 if 4 { 5 if 6 { 7 stmt 8 } 9 stmt 10 } 11 }
Nested ==
  [n |-> 11, subs |-> {1}, plain |-> {}, bare |-> {}, els |-> Zero({1, 3, 5}),
   stmts |-> [b \in {1, 3, 5} |-> IF b = 5 THEN {} ELSE {b + 2}],
   open |-> [b \in {1, 3, 5} |-> b + 1],
   close |-> [b \in {1, 3, 5} |-> IF b = 1 THEN 11 ELSE IF b = 3 THEN 10 ELSE 8]]

\* 1 sub 2 { 3 stmt 4 if 5 { 6 stmt 7 } 8 elseif 9 { 10 stmt 11 } 12 }
ElseIf ==
  [n |-> 12, subs |-> {1}, plain |-> {}, bare |-> {},
   els |-> [b \in {1, 4, 8} |-> IF b = 4 THEN 8 ELSE 0],
   stmts |-> [b \in {1, 4, 8} |-> IF b = 1 THEN {4} ELSE {}],
   open |-> [b \in {1, 4, 8} |-> b + 1],
   close |-> [b \in {1, 4, 8} |-> IF b = 1 THEN 12 ELSE b + 3]]

\* 1 sub 2 { 3 stmt 4 { 5 stmt 6 } 7 }
Bare ==
  [n |-> 7, subs |-> {1}, plain |-> {}, bare |-> {5}, els |-> Zero({1}), stmts |-> NoStmts({1}),
   open |-> [b \in {1} |-> 2], close |-> [b \in {1} |-> 7]]

\* 1 sub 2 { 3 stmt 4 } 5 sub 6 { 7 stmt 8 }
TwoSubs ==
  [n |-> 8, subs |-> {1, 5}, plain |-> {}, bare |-> {}, els |-> Zero({1, 5}),
   stmts |-> NoStmts({1, 5}),
   open |-> [b \in {1, 5} |-> b + 1], close |-> [b \in {1, 5} |-> b + 3]]

\* The first or the second subroutine is in a file that file 0 includes.
InTwoFiles(first, second) ==
  LaidOut(TwoSubs, [x \in 1..8 |-> IF x <= 4 THEN first ELSE second])

MCPrograms ==
  UNION {InOneFile(p) : p \in {IfThenStmt, IfOnly, IfElse, Nested, ElseIf, Bare, TwoSubs}}
    \cup InTwoFiles(3, 0) \cup InTwoFiles(0, 3)

-----------------------------------------------------------------------------
(* CLIMock *)

MCCert == {c1, c2}
MCPlain == {"ping", "vcl.use", "start"}
MCOverride == {Cmd("load", c1), Cmd("list", Empty)}
MCLoaded == [frontend |-> "main", state |-> "active", hostname |-> "host"]
MCEntry == {[frontend |-> Empty, state |-> "active", hostname |-> "host"],
            [frontend |-> "main", state |-> "active", hostname |-> Empty]}

-----------------------------------------------------------------------------
\* Some state of a component to stay in.
ListingsIdle ==
  /\ input = [kind |-> "port", of |-> <<>>, sep |-> <<>>] /\ status = 0 /\ data = <<>>
  /\ pos = 1 /\ entries = <<>> /\ configMap = {} /\ pc = "asked"

CoverageIdle ==
  /\ prog = CHOOSE p \in InOneFile(TwoSubs) : TRUE
  /\ phase = "run" /\ token = 0 /\ calls = 0 /\ other = 0 /\ ran = {} /\ log = {}
  /\ exec = [c \in ConfigMap |-> {}]
  /\ parsed = {} /\ entered = Nothing /\ report = NoReport

MCInit ==
  \/ component = "listings" /\ Init /\ CoverageIdle /\ MockInit
  \/ component = "coverage" /\ ListingsIdle /\ CoverageInit /\ MockInit
  \/ component = "mock" /\ ListingsIdle /\ CoverageIdle /\ MockInit

MCNext ==
  /\ UNCHANGED component
  /\ \/ component = "listings" /\ Next /\ UNCHANGED <<coverageVars, mockVars>>
     \/ component = "coverage" /\ CoverageNext /\ UNCHANGED <<vars, mockVars>>
     \/ component = "mock" /\ MockNext /\ UNCHANGED <<vars, coverageVars>>

MCSpec == MCInit /\ [][MCNext]_<<component, vars, coverageVars, mockVars>>
=============================================================================
