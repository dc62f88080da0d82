--------------------------- MODULE IncludeWalker ---------------------------
(***************************************************************************)
(* Preparing the VCL: the include walker of pkg/vclmod/include_walker.go,  *)
(* which parses the main VCL and everything it includes, points the mocked *)
(* backends at the mock servers and validates their names, and prepareVCL  *)
(* of pkg/harness/harness.go, which writes the result.                     *)
(*                                                                         *)
(* A VCL file is the list of the files it includes and the set of backends *)
(* it declares.  The recursion of walkFile is an explicit stack.           *)
(***************************************************************************)
EXTENDS Naturals, Sequences, FiniteSets

CONSTANTS File,         \* the VCL files, each standing for its absolute path
          Main,         \* the main VCL file
          Backend,      \* backend names
          MaxDepth,     \* maxIncludeDepth
          Base,         \* Base[f]: f with its directory removed
          Programs,     \* the programs: [incl : [File -> Seq(File)],
                        \*   decl : [File -> SUBSET Backend], broken : SUBSET File]
          MockSets,     \* the possible sets of mocked backends
          NoFile

ASSUME IncludeWalkerAssumption ==
  /\ Main \in File
  /\ MaxDepth \in Nat \ {0}
  /\ Base \in [File -> File]
  /\ Programs \subseteq [incl : [File -> Seq(File)], decl : [File -> SUBSET Backend],
                         broken : SUBSET File]
  /\ MockSets \subseteq SUBSET Backend
  /\ NoFile \notin File

VARIABLES prog,         \* the VCL program (constant)
          backends,     \* the backends of the test file (constant)
          mainAbsolute, \* the main VCL was given by an absolute path (constant)
          status,       \* "start", "walk", "validate", "write" or how it ended
          stack,        \* the calls of walkFile in progress: [file, next]
          visited,      \* w.visitedFiles
          processed,    \* w.processedFiles, main file first
          vclBackends,  \* the names in w.vclBackends
          at,           \* the file walkFile rejected, or NoFile
          written       \* written[path]: the content prepareVCL wrote there, or NoFile

walkVars == <<prog, backends, mainAbsolute, status, stack, visited, processed, vclBackends,
              at, written>>
input == <<prog, backends, mainAbsolute>>

Failed == {"depth", "broken", "missing", "ioerror"}
Ended == Failed \cup {"done"}

WalkInit ==
  /\ prog \in Programs
  /\ backends \in MockSets
  /\ mainAbsolute \in BOOLEAN
  /\ status = "start"
  /\ stack = <<>> /\ visited = {} /\ processed = <<>> /\ vclBackends = {}
  /\ at = NoFile
  /\ written = [f \in File |-> NoFile]

-----------------------------------------------------------------------------
(* walkFile                                                                *)

\* The callers on the stack, the innermost one past the include it follows.
Advanced ==
  [stack EXCEPT ![Len(stack)].next = @ + 1]

\* Mutants: a visited file is read again; the loop over the includes does not go
\* on after one that was visited; a file is appended in front of those before it.
WalkFileAgain(f, callers) ==
  \/ /\ Len(callers) >= MaxDepth
     /\ status' = "depth" /\ at' = f
     /\ UNCHANGED <<stack, visited, processed, vclBackends>>
  \/ /\ Len(callers) < MaxDepth
     /\ visited' = visited \cup {f}
     /\ stack' = Append(callers, [file |-> f, next |-> 1])
     /\ processed' = Append(processed, f)
     /\ vclBackends' = vclBackends \cup prog.decl[f]
     /\ status' = "walk"
     /\ UNCHANGED at

WalkFileStuck(f, callers) ==
  \/ /\ f \in visited
     /\ UNCHANGED <<status, stack, at, visited, processed, vclBackends>>
  \/ /\ f \notin visited
     /\ visited' = visited \cup {f}
     /\ stack' = Append(callers, [file |-> f, next |-> 1])
     /\ processed' = Append(processed, f)
     /\ vclBackends' = vclBackends \cup prog.decl[f]
     /\ status' = "walk"
     /\ UNCHANGED at

WalkFileLastFirst(f, callers) ==
  \/ /\ Len(callers) >= MaxDepth
     /\ status' = "depth" /\ at' = f
     /\ UNCHANGED <<stack, visited, processed, vclBackends>>
  \/ /\ Len(callers) < MaxDepth
     /\ f \in visited
     /\ stack' = callers
     /\ UNCHANGED <<status, at, visited, processed, vclBackends>>
  \/ /\ Len(callers) < MaxDepth
     /\ f \notin visited
     /\ visited' = visited \cup {f}
     /\ stack' = Append(callers, [file |-> f, next |-> 1])
     /\ processed' = <<f>> \o processed
     /\ vclBackends' = vclBackends \cup prog.decl[f]
     /\ status' = "walk"
     /\ UNCHANGED at

\* The depth limit, then the files already seen, then reading and parsing; the
\* includes follow after the file itself.
WalkFile(f, callers) ==
  \/ /\ Len(callers) >= MaxDepth
     /\ status' = "depth" /\ at' = f
     /\ UNCHANGED <<stack, visited, processed, vclBackends>>
  \/ /\ Len(callers) < MaxDepth
     /\ f \in visited
     /\ stack' = callers
     /\ UNCHANGED <<status, at, visited, processed, vclBackends>>
  \/ /\ Len(callers) < MaxDepth
     /\ f \notin visited
     /\ visited' = visited \cup {f}
     /\ \/ /\ f \in prog.broken
           /\ status' = "broken" /\ at' = f
           /\ UNCHANGED <<stack, processed, vclBackends>>
        \/ /\ f \notin prog.broken
           /\ stack' = Append(callers, [file |-> f, next |-> 1])
           /\ processed' = Append(processed, f)
           /\ vclBackends' = vclBackends \cup prog.decl[f]
           /\ status' = "walk"
           /\ UNCHANGED at

WalkMain ==
  /\ status = "start"
  /\ WalkFile(Main, <<>>)
  /\ UNCHANGED <<input, written>>

Top == stack[Len(stack)]

WalkInclude ==
  /\ status = "walk" /\ stack # <<>>
  /\ Top.next <= Len(prog.incl[Top.file])
  /\ WalkFile(prog.incl[Top.file][Top.next], Advanced)
  /\ UNCHANGED <<input, written>>

WalkReturn ==
  /\ status = "walk" /\ stack # <<>>
  /\ Top.next > Len(prog.incl[Top.file])
  /\ stack' = SubSeq(stack, 1, Len(stack) - 1)
  /\ status' = IF Len(stack) = 1 THEN "validate" ELSE status
  /\ UNCHANGED <<input, visited, processed, vclBackends, at, written>>

\* validateBackends: every mocked backend must be declared somewhere.
ValidateBackends ==
  /\ status = "validate"
  /\ status' = IF backends \subseteq vclBackends THEN "write" ELSE "missing"
  /\ UNCHANGED <<input, stack, visited, processed, vclBackends, at, written>>

-----------------------------------------------------------------------------
(* prepareVCL                                                              *)

\* Mutant: only the main file's backends are modified.
ContentMainOnly(f) ==
  [of |-> f, mocked |-> IF f = Main THEN prog.decl[f] \cap backends ELSE {}]

\* modifyBackendsInAST: the declarations of mocked backends get the address of
\* the mock.
Content(f) == [of |-> f, mocked |-> prog.decl[f] \cap backends]

\* filepath.Rel(mainVCLDir, absPath) fails when the main path is relative, and
\* the base name is taken instead.
RelativePath(f) == IF mainAbsolute THEN f ELSE Base[f]

\* What a path holds once all files are written, in order: of two files with the
\* same path the later one stays.
WrittenAt(p) ==
  LET from == {i \in 1..Len(processed) : RelativePath(processed[i]) = p}
  IN IF from = {} THEN NoFile
     ELSE Content(processed[CHOOSE i \in from : \A j \in from : j <= i])

\* A write that fails ends the run, and nobody looks at what was written.
PrepareVCL ==
  /\ status = "write"
  /\ \/ /\ written' = [p \in File |-> WrittenAt(p)]
        /\ status' = "done"
     \/ status' = "ioerror" /\ UNCHANGED written
  /\ UNCHANGED <<input, stack, visited, processed, vclBackends, at>>

-----------------------------------------------------------------------------
WalkNext == WalkMain \/ WalkInclude \/ WalkReturn \/ ValidateBackends \/ PrepareVCL

WalkSpec == WalkInit /\ [][WalkNext]_walkVars

-----------------------------------------------------------------------------
(* Properties                                                              *)

\* Includes(f): the files f includes; the last set is the least one that holds
\* the main file and is closed under including.
Includes(f) == {prog.incl[f][i] : i \in 1..Len(prog.incl[f])}
Closed(S) == \A f \in S : f \notin prog.broken => Includes(f) \subseteq S
Reachable == {f \in File : \A S \in SUBSET File : Main \in S /\ Closed(S) => f \in S}

\* A walk that succeeds has processed the main file first and each file of the
\* include graph exactly once, whatever cycles and diamonds the graph has.
WalkComplete ==
  status \in {"validate", "write", "done"} =>
    /\ processed[1] = Main
    /\ {processed[i] : i \in 1..Len(processed)} = Reachable
    /\ Len(processed) = Cardinality(Reachable)

\* A chain of includes through n different files that starts at the main file
\* and whose last file includes f.
DeepChain(n, f) ==
  \E c \in [1..n -> File] :
    /\ c[1] = Main
    /\ \A i \in 1..(n - 1) : c[i + 1] \in Includes(c[i])
    /\ \A i, j \in 1..n : c[i] = c[j] => i = j
    /\ f \in Includes(c[n])

Declared == UNION {prog.decl[f] : f \in Reachable}

\* A program is rejected only for the reason given, at the file the error names,
\* and one with an unreadable file or without a mocked backend is never accepted.
RejectedForCause ==
  /\ status = "depth" => DeepChain(MaxDepth, at)
  /\ status = "broken" => at \in Reachable \cap prog.broken
  /\ status = "missing" => ~(backends \subseteq Declared)
  /\ status \in {"write", "done"} => Reachable \cap prog.broken = {} /\ backends \subseteq Declared

\* Each file of the program is written under its own path, with its mocked backends
\* redirected, however the main VCL was named: prepareVCL's "Write each processed
\* file to vclDir preserving directory structure" (harness.go 367, runner.go 374).
\* The code does not do so for a relative main path (include_walker.go 105-108).
DirectoryStructurePreserved ==
  status = "done" =>
    \A f \in Reachable : written[f] = [of |-> f, mocked |-> prog.decl[f] \cap backends]

\* The same for a main VCL named by an absolute path, for which it holds: no file is
\* lost, moved or overwritten, and no mocked declaration is left as it was.
TreePreserved == mainAbsolute => DirectoryStructurePreserved

\* The walk ends on every include graph, cyclic ones included.
WalkEnds == <>(status \in Ended)
=============================================================================
