------------------------------ MODULE Coverage ------------------------------
(***************************************************************************)
(* The report of a failed test: from the VCL_trace lines in the log        *)
(* (pkg/recorder/parser.go) and the block structure of the VCL files       *)
(* (pkg/coverage) to the blocks and lines shown as executed                *)
(* (pkg/formatter, displayResults).  vcl.show -v lists the user's main VCL *)
(* (0), the files it includes, and the built-in VCL, which is treated like *)
(* the others; here that is one subroutine and OtherLines are in it.       *)
(*                                                                         *)
(* A program is what the parser delivers, with the includes resolved       *)
(* (analyzer.go 16-17): the tokens in the order of the merged              *)
(* declarations, each with its file and its line in that file; blocks,     *)
(* named by the position of their first token, the positions of their      *)
(* braces, the if statements of each body and the else part of each if.    *)
(* The execution by Varnish is external: VCL_trace fires at the first      *)
(* token of a block it enters, also of a bare one, and at the token behind *)
(* an if chain without an else (matcher.go 5-6 and 36-42).                 *)
(***************************************************************************)
EXTENDS Naturals, FiniteSets

CONSTANTS Programs,  \* parsed VCL programs, see Program
          MaxCalls,  \* bound on the subroutines run
          MaxOther,  \* bound on the traces of the built-in VCL and other files
          OtherLines \* lines of those traces

\* c is between the braces of b.
Encloses(p, b, c) == p.open[b] < c /\ p.close[c] < p.close[b]

\* The config IDs of the built-in VCL and of files that are not in the ConfigMap.
\* (varnishd gives the built-in VCL a high number; which one makes no difference.)
Builtin == 1
Unlisted == 2

\* The user's files; 0 is the main one.
UserFiles(p) == {0} \cup {p.file[x] : x \in 1..p.n}

\* A program with n tokens and the blocks DOMAIN open: stmts[b] holds the if
\* statements directly in b, els[b] the else part of b or 0, plain the else
\* parts without a condition, bare the tokens in braces without a condition at which
\* Varnish traces (the analyzer does not look into those: the ifs in them are no
\* blocks).  Blocks are nested or apart, each in the one it is a statement of, or
\* behind the part of its if chain before it; a subroutine is in none.  A block is
\* in one file, and lines increase within a file.  tree[f] holds f and the files it
\* includes, whose declarations stand among its own (include_resolver.go 38-52).  A
\* file included twice is refused there (93-96), so each occurs once.
Program(p) ==
  LET B == DOMAIN p.open
  IN /\ p.n \in Nat /\ B \subseteq 1..p.n /\ p.subs \subseteq B /\ p.plain \subseteq B
     /\ p.stmts \in [B -> SUBSET B] /\ p.els \in [B -> B \cup {0}]
     /\ p.open \in [B -> 1..p.n] /\ p.close \in [B -> 1..p.n]
     /\ p.line \in [1..p.n -> Nat] /\ p.bare \subseteq 1..p.n
     /\ p.file \in [1..p.n -> Nat \ {Builtin, Unlisted}]
     /\ \A f \in UserFiles(p) : f \in p.tree[f]
     /\ \A b \in B : b < p.open[b] /\ p.open[b] < p.close[b]
     /\ \A b, c \in B : b < c => p.close[b] < c \/ Encloses(p, b, c)
     /\ \A s \in p.subs : p.els[s] = 0 /\ \A b \in B : ~Encloses(p, b, s)
     /\ \A b \in B : p.els[b] \in {0, p.close[b] + 1}
     /\ \A b \in B : \A i \in p.stmts[b] :
          Encloses(p, b, i) /\ \A c \in B : Encloses(p, c, i) => c = b \/ Encloses(p, c, b)
     /\ \A b \in B \ p.subs : \E c \in B : b \in p.stmts[c] \/ p.els[c] = b
     /\ \A b \in B : \A x \in b..p.close[b] : p.file[x] = p.file[b]
     /\ \A x, y \in 1..p.n : x <= y /\ p.file[x] = p.file[y] => p.line[x] <= p.line[y]

ASSUME CoverageAssumption ==
  /\ \A p \in Programs : Program(p)
  /\ MaxCalls \in Nat /\ MaxOther \in Nat /\ OtherLines \subseteq Nat

VARIABLES prog,     \* the user's VCL (constant)
          phase,    \* "run", "lines", "done" or "reported"
          token,    \* what Varnish executes, 0 between subroutines
          calls, other,
          ran,      \* the blocks Varnish entered
          log,      \* the VCL_trace messages [config, line], order and repeats left out
          exec,     \* exec[id]: the executed lines of a file of the ConfigMap
          parsed,   \* the files whose analysis succeeded
          entered,  \* entered[f]: the blocks in the analysis of f with Entered set
          report    \* what is printed: whether no user VCL ran, and of each file

coverageVars == <<prog, phase, token, calls, other, ran, log, exec, parsed, entered, report>>

ConfigMap == UserFiles(prog) \cup {Builtin}
Nothing == [f \in UserFiles(prog) |-> {}]
NoReport == [claim |-> FALSE, starred |-> Nothing, listed |-> Nothing]
Block(p) == DOMAIN p.open
OpenBrace(p, b) == p.line[p.open[b]]
CloseBrace(p, b) == p.line[p.close[b]]
LineInBlock(p, b, l) == OpenBrace(p, b) <= l /\ l <= CloseBrace(p, b)

CoverageInit ==
  /\ prog \in Programs
  /\ phase = "run" /\ token = 0 /\ calls = 0 /\ other = 0
  /\ ran = {} /\ log = {}
  /\ exec = [c \in ConfigMap |-> {}]
  /\ parsed = {} /\ entered = Nothing /\ report = NoReport

-----------------------------------------------------------------------------
(* coverage: analyzer                                                      *)

\* AnalyzeVCL: the blocks of the file and of all it includes, with the lines they
\* have in their own files.
FileBlocks(p, f) == {b \in Block(p) : p.file[b] \in p.tree[f]}

\* extractElseBranch: an if and its else parts, one block each.
ElseChain(p) ==
  LET chain[b \in Block(p)] ==
        {b} \cup (IF p.els[b] = 0 THEN {} ELSE chain[p.els[b]])
  IN chain

\* extractNestedBlocks: the children of a block are the parts of its if
\* statements, all on one level.
Children(p, b) == UNION {ElseChain(p)[i] : i \in p.stmts[b]}

-----------------------------------------------------------------------------
(* coverage: matcher and line status                                       *)

\* Mutants: the boundaries count; traces inside children count for the parent
\* only through the children's marks, and those are not looked at.
MatchInclusive(p, f, traced) ==
  {b \in FileBlocks(p, f) : \E l \in traced : LineInBlock(p, b, l)}

\* A trace strictly inside the block and in no child.
TracedItself(p, traced, b) ==
  \E l \in traced : /\ OpenBrace(p, b) < l /\ l < CloseBrace(p, b)
                    /\ \A c \in Children(p, b) : ~LineInBlock(p, c, l)

MatchNoChildren(p, f, traced) == {b \in FileBlocks(p, f) : TracedItself(p, traced, b)}

\* Such a trace, or an entered child.
MatchBlockRecursive(p, traced) ==
  LET marked[b \in Block(p)] ==
        TracedItself(p, traced, b) \/ \E c \in Children(p, b) : marked[c]
  IN marked

\* All blocks in the analysis of f are held against the lines traced in f.
MatchTracesToBlocks(p, f, traced) ==
  {b \in FileBlocks(p, f) : MatchBlockRecursive(p, traced)[b]}

Last(S) == CHOOSE x \in S : \A y \in S : y <= x
First(S) == CHOOSE x \in S : \A y \in S : x <= y
Around(p, f, l) == {b \in FileBlocks(p, f) : LineInBlock(p, b, l)}

\* Mutant: the outermost block decides.
GetLineStatusOuter(p, f, marks, l) ==
  Around(p, f, l) # {} /\ First(Around(p, f, l)) \in marks

\* fillLineStatus overwrites in the order of the declarations, children after their parent: the
\* last block around the line decides.  (Lines in no block have no status.)
GetLineStatus(p, f, marks, l) ==
  Around(p, f, l) # {} /\ Last(Around(p, f, l)) \in marks

\* The first child around the line, as deep as it goes.
FindBlockAtLineRecursive(p, f, l) ==
  LET deepest[b \in Block(p)] ==
        LET inside == Children(p, b) \cap Around(p, f, l)
        IN IF inside = {} THEN b ELSE deepest[First(inside)]
  IN deepest

FindBlockAtLine(p, f, l) ==
  FindBlockAtLineRecursive(p, f, l)[First(p.subs \cap Around(p, f, l))]

-----------------------------------------------------------------------------
(* Varnish runs the VCL (external)                                         *)

Traced(config, l) == log' = log \cup {[config |-> config, line |-> l]}
TracedAt(x) == Traced(prog.file[x], prog.line[x])

EnterBlock(b) ==
  /\ token' = prog.open[b] + 1
  /\ ran' = ran \cup {b}
  /\ TracedAt(prog.open[b] + 1)

CallSub ==
  /\ phase = "run" /\ token = 0 /\ calls < MaxCalls
  /\ \E b \in prog.subs : EnterBlock(b)
  /\ calls' = calls + 1
  /\ UNCHANGED <<prog, phase, other, exec, parsed, entered, report>>

\* A condition: its block, or the next part of the chain, or behind the chain.
Condition ==
  /\ phase = "run" /\ token \in Block(prog)
  /\ \/ EnterBlock(token)
     \/ /\ prog.els[token] # 0 /\ prog.els[token] \in prog.plain
        /\ EnterBlock(prog.els[token])
     \/ /\ prog.els[token] # 0 /\ prog.els[token] \notin prog.plain
        /\ token' = prog.els[token]
        /\ UNCHANGED <<ran, log>>
     \/ /\ prog.els[token] = 0
        /\ token' = prog.close[token] + 1
        /\ TracedAt(token')
        /\ UNCHANGED ran
  /\ UNCHANGED <<prog, phase, calls, other, exec, parsed, entered, report>>

\* Any other statement goes on, into bare braces too, or returns.
Statement ==
  /\ phase = "run" /\ token # 0 /\ token \notin Block(prog)
  /\ \A b \in Block(prog) : token # prog.close[b]
  /\ \/ token' = token + 1 /\ (UNCHANGED log \/ (token' \in prog.bare /\ TracedAt(token')))
     \/ token' = 0 /\ UNCHANGED log
  /\ UNCHANGED <<prog, phase, calls, other, ran, exec, parsed, entered, report>>

\* The end of a block: of the subroutine, or of a part of an if chain.
EndBlock ==
  /\ phase = "run"
  /\ \E b \in Block(prog) :
       /\ token = prog.close[b]
       /\ \/ b \in prog.subs /\ token' = 0 /\ UNCHANGED log
          \/ /\ b \notin prog.subs
             /\ LET end == Last(ElseChain(prog)[b])
                IN /\ token' = prog.close[end] + 1
                   /\ \/ UNCHANGED log
                      \/ end \notin prog.plain /\ TracedAt(token')
  /\ UNCHANGED <<prog, phase, calls, other, ran, exec, parsed, entered, report>>

\* The built-in VCL is traced too, and in scenario tests the log goes back to
\* files that are not in the ConfigMap.  When makes no difference to the set of
\* messages, so only before the first call.
OtherFile ==
  /\ phase = "run" /\ token = 0 /\ calls = 0 /\ other < MaxOther
  /\ \E c \in {Builtin, Unlisted}, l \in OtherLines : Traced(c, l)
  /\ other' = other + 1
  /\ UNCHANGED <<prog, phase, token, calls, ran, exec, parsed, entered, report>>

-----------------------------------------------------------------------------
(* After the failed test                                                   *)

\* The lines per file of the ConfigMap, without duplicates.
GetExecutedLinesByConfig ==
  /\ phase = "run" /\ token = 0
  /\ exec' = [c \in ConfigMap |-> {m.line : m \in {x \in log : x.config = c}}]
  /\ phase' = "lines"
  /\ UNCHANGED <<prog, token, calls, other, ran, log, parsed, entered, report>>

\* extractVCLFiles; a source the parser refuses, or with an include that it does not
\* find or meets twice, has no blocks.
ExtractVCLFiles ==
  /\ phase = "lines"
  /\ parsed' \in SUBSET ConfigMap
  /\ entered' = [f \in UserFiles(prog) |->
                   IF f \in parsed' THEN MatchTracesToBlocks(prog, f, exec[f]) ELSE {}]
  /\ phase' = "done"
  /\ UNCHANGED <<prog, token, calls, other, ran, log, exec, report>>

Lines(f) == {prog.line[x] : x \in {y \in 1..prog.n : prog.file[y] = f}}

\* The lines of f with a star; without blocks there is none.
FormatVCLWithBlocks(f) ==
  IF f \in parsed THEN {l \in Lines(f) : GetLineStatus(prog, f, entered[f], l)} ELSE {}

\* Without an entered block in any file, the built-in one included, the report
\* says that no user VCL ran and shows the first file without stars.
FormatTestFailureWithBlocks ==
  IF entered = Nothing /\ ~(Builtin \in parsed /\ exec[Builtin] # {})
  THEN [claim |-> TRUE, starred |-> Nothing, listed |-> Nothing]
  ELSE [claim |-> FALSE, starred |-> [f \in UserFiles(prog) |-> FormatVCLWithBlocks(f)],
        listed |-> entered]

\* The same by executed lines.
FormatTestFailure ==
  [claim |-> \A c \in ConfigMap : exec[c] = {},
   starred |-> [f \in UserFiles(prog) |-> exec[f]], listed |-> Nothing]

\* displayResults: by blocks if any file has them, else by lines.
DisplayResults ==
  /\ phase = "done"
  /\ report' = IF parsed # {} THEN FormatTestFailureWithBlocks ELSE FormatTestFailure
  /\ phase' = "reported"
  /\ UNCHANGED <<prog, token, calls, other, ran, log, exec, parsed, entered>>

CoverageNext == CallSub \/ Condition \/ Statement \/ EndBlock \/ OtherFile
                \/ GetExecutedLinesByConfig \/ ExtractVCLFiles \/ DisplayResults

CoverageSpec == CoverageInit /\ [][CoverageNext]_coverageVars

-----------------------------------------------------------------------------
(* Properties                                                              *)

\* The first statement of b has a line to itself and no block of its own.
BeginsApart(p, b) ==
  LET first == p.line[p.open[b] + 1]
  IN /\ OpenBrace(p, b) < first /\ first < CloseBrace(p, b)
     /\ \A c \in Children(p, b) : ~LineInBlock(p, c, first)

\* A block that ran and begins with a plain statement between its braces' lines is
\* marked in the analysis of its file, and so are the blocks around it, whatever its
\* statements did next and whatever other files are merged into the analysis.
PlainBlocksMarked ==
  phase = "done" =>
    \A b \in ran :
      prog.file[b] \in parsed /\ BeginsApart(prog, b) =>
        {c \in Block(prog) : b = c \/ (prog.open[c] < b /\ b < prog.close[c])}
          \subseteq entered[prog.file[b]]

\* The line markers and FindBlockAtLine agree: a line of a file all of whose blocks,
\* those of merged files included, are one in the other has the status of the deepest
\* (fillLineStatus lets children overwrite their parents).
StatusOfDeepest ==
  phase = "done" =>
    \A f \in UserFiles(prog) : \A l \in Lines(f) :
      LET around == Around(prog, f, l)
          nested == \A b, c \in around :
                      b < c => prog.open[b] < c /\ c < prog.close[b]
      IN around # {} /\ nested
           => (GetLineStatus(prog, f, entered[f], l)
                 <=> FindBlockAtLine(prog, f, l) \in entered[f])

\* A block is marked only if Varnish entered it: "Entered: Whether VCL_trace fired for
\* this block" (block.go 16).  It is not so for the blocks of an included file, which
\* are held against the lines of the file that includes it (analyzer.go 16-17).
EnteredMeansRan == phase = "done" => \A f \in UserFiles(prog) : entered[f] \subseteq ran

\* What is printed about a file's own blocks is so, in every layout: only those are
\* listed that Varnish entered (matchBlockRecursive leaves out the lines of the braces,
\* which blocks share with their neighbours), a star beside a line that no merged block
\* covers means that a block around it ran, and "handled entirely by built-in VCL" is
\* not printed when a block ran that begins with a line of its own in a file that was
\* analysed (by lines: when any ran).  Beyond that the report is wrong: the blocks of
\* included files that are merged into a file are held against its lines, so they are
\* listed and starred whether they ran or not; and the text is printed although user VCL
\* ran when the file could not be analysed, or its blocks begin with an if.
ReportTrue ==
  phase = "reported" =>
    /\ report.claim /\ parsed = {} => ran = {}
    /\ report.claim => \A b \in ran : prog.file[b] \in parsed => ~BeginsApart(prog, b)
    /\ \A f \in UserFiles(prog) :
         /\ \A b \in report.listed[f] : prog.file[b] = f => b \in ran
         /\ \A l \in report.starred[f] :
              (\A b \in Around(prog, f, l) : prog.file[b] = f)
                => \E b \in ran : prog.file[b] = f /\ LineInBlock(prog, b, l)
=============================================================================
