------------------------ MODULE IncludeWalkerProofs ------------------------
(***************************************************************************)
(* Proofs about IncludeWalker: whatever cycles and diamonds the include    *)
(* graph has, a walk that succeeds has processed every file of it once.    *)
(***************************************************************************)
EXTENDS IncludeWalker, SequenceTheorems, FiniteSetTheorems, FunctionTheorems,
        WellFoundedInduction, TLAPS

Frame == [file : File, next : Nat \ {0}]
Processed == {processed[i] : i \in 1..Len(processed)}

\* The calls in progress are a chain of includes of different files.
Chain(calls) ==
  /\ calls # <<>> => calls[1].file = Main
  /\ \A i \in 1..(Len(calls) - 1) : calls[i + 1].file \in Includes(calls[i].file)
  /\ \A i, j \in 1..Len(calls) : calls[i].file = calls[j].file => i = j

\* What the files before it include has been visited, but for what is still
\* ahead in a call in progress.
Followed(files, seen, calls) ==
  \A f \in files : \A k \in 1..Len(prog.incl[f]) :
    \/ prog.incl[f][k] \in seen
    \/ \E i \in 1..Len(calls) : calls[i].file = f /\ calls[i].next <= k

TypeInv ==
  /\ prog \in Programs /\ backends \in MockSets
  /\ status \in Ended \cup {"start", "walk", "validate", "write"}
  /\ stack \in Seq(Frame) /\ visited \in SUBSET File /\ processed \in Seq(File)

StackInv ==
  /\ Chain(stack) /\ Len(stack) <= MaxDepth
  /\ \A i \in 1..Len(stack) : stack[i].file \in Processed
  /\ status = "walk" => stack # <<>>
  /\ status \notin {"walk", "depth", "broken"} => stack = <<>>

WalkInv ==
  /\ status = "start" => processed = <<>>
  /\ status \notin {"start", "depth", "broken"} => processed # <<>>
  /\ processed # <<>> => processed[1] = Main
  /\ \A i, j \in 1..Len(processed) : processed[i] = processed[j] => i = j
  /\ Processed \subseteq Reachable \ prog.broken
  /\ status # "broken" => visited = Processed
  /\ status \notin {"depth", "broken"} => Followed(Processed, visited, stack)
  /\ vclBackends = UNION {prog.decl[f] : f \in Processed}

EndInv ==
  /\ status = "depth" => DeepChain(MaxDepth, at)
  /\ status = "broken" => at \in Reachable \cap prog.broken
  /\ status = "missing" => ~(backends \subseteq vclBackends)
  /\ status \in {"write", "done"} => backends \subseteq vclBackends
  /\ status = "done" => written = [p \in File |-> WrittenAt(p)]

IInv == TypeInv /\ StackInv /\ WalkInv /\ EndInv
-----------------------------------------------------------------------------
(* The include graph *)

\* The files a file includes are files.
LEMMA IncludesType ==
  ASSUME prog \in Programs, NEW f \in File
  PROVE  /\ prog.incl[f] \in Seq(File) /\ Includes(f) \subseteq File
         /\ prog.decl[f] \in SUBSET Backend
<1>1. prog.incl \in [File -> Seq(File)] /\ prog.decl \in [File -> SUBSET Backend]
  BY IncludeWalkerAssumption
<1>2. prog.incl[f] \in Seq(File) /\ prog.decl[f] \in SUBSET Backend
  BY <1>1
<1>3. \A i \in 1..Len(prog.incl[f]) : prog.incl[f][i] \in File
  BY <1>2, ElementOfSeq
<1> QED
  BY <1>2, <1>3 DEF Includes

\* The main file is reachable, and so is what a readable file includes that is.
LEMMA ReachableClosed ==
  ASSUME prog \in Programs
  PROVE  /\ Main \in Reachable
         /\ \A f \in Reachable \ prog.broken : Includes(f) \subseteq Reachable
<1>1. Main \in Reachable
  BY IncludeWalkerAssumption DEF Reachable
<1>2. ASSUME NEW f \in Reachable \ prog.broken, NEW g \in Includes(f)
      PROVE  g \in Reachable
  <2>1. f \in File /\ g \in File
    BY <1>2, IncludesType DEF Reachable
  <2>2. ASSUME NEW S \in SUBSET File, Main \in S, Closed(S)
        PROVE  g \in S
    BY <1>2, <2>2 DEF Reachable, Closed
  <2> QED
    BY <2>1, <2>2 DEF Reachable
<1> QED
  BY <1>1, <1>2

\* A set of reachable, readable files that has the main file and what its files
\* include is the whole program.
LEMMA ReachableLeast ==
  ASSUME NEW S \in SUBSET File, Main \in S, S \subseteq Reachable,
         \A f \in S : Includes(f) \subseteq S
  PROVE  S = Reachable
BY DEF Reachable, Closed

\* The program does not change under the walk.
LEMMA SameProgram ==
  ASSUME UNCHANGED input
  PROVE  /\ Reachable' = Reachable /\ prog' = prog /\ backends' = backends
         /\ mainAbsolute' = mainAbsolute
         /\ \A f : Includes(f)' = Includes(f)
         /\ \A c : Chain(c)' <=> Chain(c)
         /\ \A F, V, c : Followed(F, V, c)' <=> Followed(F, V, c)
<1>1. prog' = prog /\ backends' = backends /\ mainAbsolute' = mainAbsolute
  BY DEF input
<1>2. \A f : Includes(f)' = Includes(f)
  BY <1>1 DEF Includes
<1>3. Reachable' = Reachable
  BY <1>1, <1>2 DEF Reachable, Closed
<1>4. \A c : Chain(c)' <=> Chain(c)
  BY <1>2 DEF Chain
<1>5. \A F, V, c : Followed(F, V, c)' <=> Followed(F, V, c)
  BY <1>1 DEF Followed
<1> QED
  BY <1>1, <1>2, <1>3, <1>4, <1>5

\* The program is fixed, so a chain of includes stays as long as it was.
LEMMA SameDepth ==
  ASSUME UNCHANGED prog
  PROVE  \A n, f : DeepChain(n, f)' <=> DeepChain(n, f)
BY DEF DeepChain, Includes
-----------------------------------------------------------------------------
(* The calls in progress *)

Push(calls, new) == Append(calls, new)

\* A call for a new file that the innermost one includes keeps them a chain.
LEMMA PushKeepsChain ==
  ASSUME NEW calls \in Seq(Frame), Chain(calls), NEW new \in Frame,
         calls = <<>> => new.file = Main,
         calls # <<>> => new.file \in Includes(calls[Len(calls)].file),
         \A i \in 1..Len(calls) : calls[i].file # new.file,
         NEW pushed, pushed = Push(calls, new)
  PROVE  /\ pushed \in Seq(Frame) /\ Chain(pushed) /\ Len(pushed) = Len(calls) + 1
         /\ \A i \in 1..Len(calls) : pushed[i] = calls[i]
         /\ pushed[Len(pushed)] = new
         /\ pushed # <<>>
<1>2. /\ pushed \in Seq(Frame) /\ Len(pushed) = Len(calls) + 1
      /\ \A i \in 1..Len(calls) : pushed[i] = calls[i]
      /\ pushed[Len(calls) + 1] = new
      /\ pushed # <<>>
  BY AppendProperties DEF Push
<1>3. Len(calls) \in Nat /\ (calls = <<>> <=> Len(calls) = 0)
  BY EmptySeq, LenProperties
<1>5. pushed[1].file = Main
  BY <1>2, <1>3 DEF Chain
<1>6. ASSUME NEW i \in 1..(Len(pushed) - 1)
      PROVE  pushed[i + 1].file \in Includes(pushed[i].file)
  <2>1. CASE i < Len(calls)
    <3>1. i \in 1..(Len(calls) - 1) /\ i + 1 \in 1..Len(calls) /\ i \in 1..Len(calls)
      BY <2>1, <1>3, <1>2
    <3> QED
      BY <3>1, <1>2 DEF Chain
  <2>2. CASE i = Len(calls)
    BY <2>2, <1>2, <1>3
  <2> QED
    BY <2>1, <2>2, <1>2, <1>3
<1>7. ASSUME NEW i \in 1..Len(pushed), NEW j \in 1..Len(pushed),
             pushed[i].file = pushed[j].file
      PROVE  i = j
  <2>1. \A k \in 1..Len(pushed) : k \in 1..Len(calls) \/ k = Len(calls) + 1
    BY <1>2, <1>3
  <2>2. CASE i \in 1..Len(calls) /\ j \in 1..Len(calls)
    BY <2>2, <1>2, <1>7 DEF Chain
  <2> QED
    BY <2>1, <2>2, <1>2, <1>7
<1> QED
  BY <1>2, <1>5, <1>6, <1>7 DEF Chain

\* Following an include leaves the chain as it is.
LEMMA AdvanceKeepsChain ==
  ASSUME stack \in Seq(Frame), stack # <<>>, Chain(stack),
         NEW callers, callers = Advanced
  PROVE  /\ callers \in Seq(Frame) /\ Len(callers) = Len(stack) /\ Chain(callers)
         /\ \A i \in 1..Len(stack) :
              /\ callers[i].file = stack[i].file
              /\ i # Len(stack) => callers[i].next = stack[i].next
         /\ callers[Len(stack)].next = Top.next + 1
<1> DEFINE n == Len(stack)
<1>1. n \in Nat /\ n \in 1..n /\ \A i \in 1..n : stack[i] \in Frame
  BY EmptySeq, LenProperties, ElementOfSeq
<1>2. callers = [stack EXCEPT ![n].next = @ + 1]
  BY DEF Advanced
<1>3. DOMAIN stack = 1..n
  BY LenProperties
<1>4. DOMAIN callers = 1..n /\ \A i \in 1..n : i # n => callers[i] = stack[i]
  BY <1>2, <1>3
<1>5. callers[n] = [stack[n] EXCEPT !.next = @ + 1]
  BY <1>1, <1>2, <1>3
<1>6. callers[n] \in Frame /\ callers[n].file = stack[n].file
      /\ callers[n].next = stack[n].next + 1
  BY <1>1, <1>5 DEF Frame
<1>7. \A i \in 1..n : callers[i] \in Frame
  BY <1>1, <1>4, <1>6
<1>8. callers = [i \in 1..n |-> callers[i]]
  BY <1>2, <1>4
<1>9. callers \in Seq(Frame) /\ Len(callers) = n
  BY <1>1, <1>7, <1>8, IsASeq
<1>10. \A i \in 1..n : callers[i].file = stack[i].file
  BY <1>4, <1>6
<1>11. callers # <<>>
  BY <1>1, <1>9, EmptySeq
<1>12. Chain(callers)
  BY <1>9, <1>10, <1>11, <1>1 DEF Chain
<1> QED
  BY <1>4, <1>6, <1>9, <1>10, <1>12 DEF Top
-----------------------------------------------------------------------------
(* walkFile *)

\* What holds when walkFile is called: it is for a file of the program that the
\* innermost caller has just come to.
CallFor(f, callers) ==
  /\ callers \in Seq(Frame) /\ Chain(callers) /\ Len(callers) <= MaxDepth
  /\ \A i \in 1..Len(callers) : callers[i].file \in Processed
  /\ callers = <<>> => f = Main
  /\ callers # <<>> => f \in Includes(callers[Len(callers)].file)
  /\ \/ status = "start" /\ callers = <<>>
     \/ status = "walk" /\ callers # <<>>
  /\ Followed(Processed, visited \cup {f}, callers)
  /\ f \in Reachable

\* At the depth limit the calls in progress are the chain that is too deep.
LEMMA DepthIsReal ==
  ASSUME TypeInv, NEW f, NEW callers, CallFor(f, callers), Len(callers) >= MaxDepth
  PROVE  DeepChain(MaxDepth, f)
<1>1. Len(callers) = MaxDepth /\ MaxDepth \in Nat \ {0} /\ callers # <<>>
  BY IncludeWalkerAssumption, LenProperties, EmptySeq DEF CallFor
<1> DEFINE c == [i \in 1..MaxDepth |-> callers[i].file]
<1>2. \A i \in 1..MaxDepth : callers[i].file \in File
  <2>1. callers \in Seq(Frame)
    BY DEF CallFor
  <2>2. \A i \in 1..MaxDepth : callers[i] \in Frame
    BY <1>1, <2>1, ElementOfSeq
  <2> QED
    BY <2>2 DEF Frame
<1>3. c \in [1..MaxDepth -> File] /\ \A i \in 1..MaxDepth : c[i] = callers[i].file
  BY <1>2
<1> HIDE DEF c
<1>4. c[1] = Main /\ f \in Includes(c[MaxDepth])
  BY <1>1, <1>3 DEF CallFor, Chain
<1>5. \A i \in 1..(MaxDepth - 1) : i \in 1..MaxDepth /\ i + 1 \in 1..MaxDepth
  BY <1>1
<1>6. \A i \in 1..(MaxDepth - 1) : c[i + 1] \in Includes(c[i])
  BY <1>1, <1>3, <1>5 DEF CallFor, Chain
<1>7. \A i, j \in 1..MaxDepth : c[i] = c[j] => i = j
  BY <1>1, <1>3 DEF CallFor, Chain
<1> QED
  BY <1>3, <1>4, <1>6, <1>7 DEF DeepChain

\* A file is processed: it is new, and its includes are all ahead.
LEMMA ProcessKeeps ==
  ASSUME IInv, UNCHANGED <<input, written>>, NEW f, NEW callers, CallFor(f, callers),
         Len(callers) < MaxDepth, f \notin visited, f \notin prog.broken,
         visited' = visited \cup {f},
         stack' = Append(callers, [file |-> f, next |-> 1]),
         processed' = Append(processed, f),
         vclBackends' = vclBackends \cup prog.decl[f],
         status' = "walk"
  PROVE  IInv'
<1> USE DEF IInv, TypeInv
<1>1. f \in File /\ status # "broken" /\ Processed = visited
  BY DEF CallFor, Reachable, WalkInv
<1>2. /\ processed' \in Seq(File) /\ Len(processed') = Len(processed) + 1
      /\ \A i \in 1..Len(processed) : processed'[i] = processed[i]
      /\ processed'[Len(processed) + 1] = f
      /\ Len(processed) \in Nat
      /\ processed' # <<>>
  BY <1>1, AppendProperties, LenProperties
<1>3. \A k \in 1..Len(processed') : k \in 1..Len(processed) \/ k = Len(processed) + 1
  BY <1>2
<1>4. Processed' = Processed \cup {f}
  <2>1. \A i \in 1..Len(processed) : i \in 1..Len(processed')
    BY <1>2
  <2>2. Len(processed) + 1 \in 1..Len(processed')
    BY <1>2
  <2> QED
    BY <1>2, <1>3, <2>1, <2>2 DEF Processed
<1>5. /\ stack' \in Seq(Frame) /\ Chain(stack') /\ Len(stack') = Len(callers) + 1
      /\ \A i \in 1..Len(callers) : stack'[i] = callers[i]
      /\ stack'[Len(stack')] = [file |-> f, next |-> 1]
      /\ stack' # <<>>
  <2>1. \A i \in 1..Len(callers) : callers[i].file # f
    BY <1>1 DEF CallFor
  <2>2. /\ callers \in Seq(Frame) /\ Chain(callers)
        /\ callers = <<>> => f = Main
        /\ callers # <<>> => f \in Includes(callers[Len(callers)].file)
    BY DEF CallFor
  <2>3. PICK new \in Frame : new = [file |-> f, next |-> 1] /\ new.file = f
    BY <1>1 DEF Frame
  <2>4. /\ callers = <<>> => new.file = Main
        /\ callers # <<>> => new.file \in Includes(callers[Len(callers)].file)
        /\ \A i \in 1..Len(callers) : callers[i].file # new.file
        /\ stack' = Push(callers, new)
    BY <2>1, <2>2, <2>3 DEF Push
  <2>5. /\ stack' \in Seq(Frame) /\ Chain(stack') /\ Len(stack') = Len(callers) + 1
        /\ \A i \in 1..Len(callers) : stack'[i] = callers[i]
        /\ stack'[Len(stack')] = new
        /\ stack' # <<>>
    BY ONLY <2>2, <2>3, <2>4, PushKeepsChain
  <2> QED
    BY <2>3, <2>5
<1>6. Len(callers) \in Nat /\ MaxDepth \in Nat
  BY LenProperties, IncludeWalkerAssumption DEF CallFor
<1>7. \A i \in 1..Len(stack') : i \in 1..Len(callers) \/ i = Len(stack')
  BY <1>5, <1>6
<1>8. TypeInv'
  BY <1>1, <1>2, <1>5 DEF input, Ended
<1>9. StackInv'
  <2>1. Chain(stack)'
    BY <1>5, SameProgram
  <2>2. \A i \in 1..Len(stack') : stack'[i].file \in Processed'
    BY <1>4, <1>5, <1>7 DEF CallFor
  <2> QED
    BY <2>1, <2>2, <1>5, <1>6 DEF StackInv
<1>10. WalkInv'
  <2>1. processed'[1] = Main
    <3>1. CASE processed = <<>>
      <4>1. callers = <<>>
        BY <3>1 DEF CallFor, WalkInv
      <4>2. Len(processed) = 0
        BY <3>1, EmptySeq
      <4> QED
        BY <4>1, <4>2, <1>2 DEF CallFor
    <3>2. CASE processed # <<>>
      <4>1. 1 \in 1..Len(processed)
        BY <3>2, EmptySeq
      <4> QED
        BY <4>1, <3>2, <1>2 DEF WalkInv
    <3> QED
      BY <3>1, <3>2
  <2>2. ASSUME NEW i \in 1..Len(processed'), NEW j \in 1..Len(processed'),
               processed'[i] = processed'[j]
        PROVE  i = j
    <3>1. \A k \in 1..Len(processed) : processed[k] # f
      BY <1>1 DEF Processed
    <3> QED
      BY <3>1, <1>2, <1>3, <2>2 DEF WalkInv
  <2>3. Processed' \subseteq (Reachable \ prog.broken)'
    BY <1>4, SameProgram DEF CallFor, WalkInv
  <2>4. visited' = Processed'
    BY <1>1, <1>4
  <2>5. Followed(Processed', visited', stack')
    <3> SUFFICES ASSUME NEW g \in Processed', NEW k \in 1..Len(prog.incl[g])
                 PROVE  \/ prog.incl[g][k] \in visited'
                        \/ \E i \in 1..Len(stack') : stack'[i].file = g /\ stack'[i].next <= k
      BY DEF Followed
    <3>1. CASE g = f
      <4>1. Len(stack') \in 1..Len(stack')
        BY <1>5, <1>6
      <4>2. 1 <= k
        BY IncludesType, <1>1, <3>1, LenProperties
      <4> QED
        BY <4>1, <4>2, <3>1, <1>5
    <3>2. CASE g \in Processed
      <4>1. \/ prog.incl[g][k] \in visited \cup {f}
            \/ \E i \in 1..Len(callers) : callers[i].file = g /\ callers[i].next <= k
        BY <3>2 DEF CallFor, Followed
      <4>2. \A i \in 1..Len(callers) : i \in 1..Len(stack')
        BY <1>5, <1>6
      <4> QED
        BY <4>1, <4>2, <1>5
    <3> QED
      BY <3>1, <3>2, <1>4
  <2>6. Followed(Processed, visited, stack)'
    BY <2>5, SameProgram
  <2>7. vclBackends' = UNION {prog.decl[g] : g \in Processed'}
    BY <1>4 DEF WalkInv
  <2> QED
    BY <2>1, <2>2, <2>3, <2>4, <2>6, <2>7, <1>2, SameProgram, SMTT(30) DEF WalkInv
<1>11. EndInv'
  BY DEF EndInv
<1> QED
  BY <1>8, <1>9, <1>10, <1>11

\* walkFile keeps the invariant, whichever way it goes.
LEMMA WalkFileKeeps ==
  ASSUME IInv, UNCHANGED <<input, written>>, NEW f, NEW callers, CallFor(f, callers),
         WalkFile(f, callers)
  PROVE  IInv'
<1> USE DEF IInv
<1>1. CASE /\ Len(callers) >= MaxDepth
           /\ status' = "depth" /\ at' = f
           /\ UNCHANGED <<stack, visited, processed, vclBackends>>
  <2>1. DeepChain(MaxDepth, f)'
    <3>1. DeepChain(MaxDepth, f)
      BY <1>1, DepthIsReal
    <3> QED
      BY <3>1, SameDepth DEF input
  <2>2. Processed' = Processed
    BY <1>1 DEF Processed
  <2>3. TypeInv'
    BY <1>1, SameProgram DEF TypeInv, Ended, Failed
  <2>4. StackInv'
    BY <1>1, <2>2, SameProgram DEF StackInv
  <2>5. WalkInv'
    BY <1>1, <2>2, SameProgram DEF WalkInv, CallFor
  <2> QED
    BY <1>1, <2>1, <2>3, <2>4, <2>5 DEF EndInv
<1>2. CASE /\ f \in visited
           /\ stack' = callers
           /\ UNCHANGED <<status, at, visited, processed, vclBackends>>
  <2>1. Processed' = Processed
    BY <1>2 DEF Processed
  <2>2. status = "walk" /\ callers # <<>>
    <3>1. status # "start"
      <4>1. SUFFICES ASSUME status = "start" PROVE FALSE
        OBVIOUS
      <4>2. visited = Processed /\ processed = <<>>
        BY <4>1 DEF WalkInv
      <4>3. Len(processed) = 0
        BY <4>2, EmptySeq
      <4> QED
        BY <4>2, <4>3, <1>2 DEF Processed
    <3> QED
      BY <3>1 DEF CallFor
  <2>3. visited \cup {f} = visited
    BY <1>2
  <2>4. TypeInv'
    BY <1>2, SameProgram DEF TypeInv, CallFor
  <2>5. StackInv'
    BY <1>2, <2>1, <2>2, SameProgram DEF StackInv, CallFor
  <2>6. Followed(Processed, visited, stack)'
    BY <1>2, <2>1, <2>3, SameProgram DEF CallFor
  <2>7. WalkInv'
    BY <1>2, <2>1, <2>6, SameProgram DEF WalkInv
  <2> QED
    BY <1>2, <2>2, <2>4, <2>5, <2>7 DEF EndInv
<1>3. CASE /\ visited' = visited \cup {f}
           /\ f \in prog.broken
           /\ status' = "broken" /\ at' = f
           /\ UNCHANGED <<stack, processed, vclBackends>>
  <2>1. Processed' = Processed
    BY <1>3 DEF Processed
  <2>2. f \in Reachable /\ f \in File
    BY DEF CallFor, Reachable
  <2>3. TypeInv'
    BY <1>3, <2>2, SameProgram DEF TypeInv, Ended, Failed
  <2>4. StackInv'
    BY <1>3, <2>1, SameProgram DEF StackInv
  <2>5. WalkInv'
    BY <1>3, <2>1, SameProgram DEF WalkInv, CallFor
  <2> QED
    BY <1>3, <2>2, <2>3, <2>4, <2>5, SameProgram DEF EndInv
<1>4. CASE /\ Len(callers) < MaxDepth /\ f \notin visited /\ f \notin prog.broken
           /\ visited' = visited \cup {f}
           /\ stack' = Append(callers, [file |-> f, next |-> 1])
           /\ processed' = Append(processed, f)
           /\ vclBackends' = vclBackends \cup prog.decl[f]
           /\ status' = "walk"
  BY <1>4, ProcessKeeps
<1> QED
  BY <1>1, <1>2, <1>3, <1>4 DEF WalkFile
-----------------------------------------------------------------------------
(* WalkInit and the steps *)

\* Nothing has been walked.
LEMMA InitInv ==
  WalkInit => IInv
<1> SUFFICES ASSUME WalkInit PROVE IInv
  OBVIOUS
<1> USE DEF WalkInit
<1>1. Len(<<>>) = 0 /\ <<>> \in Seq(Frame) /\ <<>> \in Seq(File)
  BY EmptySeq
<1>2. Processed = {}
  BY <1>1 DEF Processed
<1>3. TypeInv
  BY <1>1 DEF TypeInv
<1>4. StackInv
  BY <1>1, IncludeWalkerAssumption DEF StackInv, Chain
<1>5. WalkInv
  BY <1>1, <1>2 DEF WalkInv, Followed
<1> QED
  BY <1>3, <1>4, <1>5 DEF IInv, EndInv

\* The first call of walkFile, on the main VCL.
LEMMA WalkMainKeeps ==
  ASSUME IInv, WalkMain
  PROVE  IInv'
<1> USE DEF IInv, TypeInv
<1>1. status = "start" /\ WalkFile(Main, <<>>) /\ UNCHANGED <<input, written>>
  BY DEF WalkMain
<1>2. Len(<<>>) = 0 /\ <<>> \in Seq(Frame) /\ processed = <<>>
  BY <1>1, EmptySeq DEF WalkInv
<1>3. Processed = {}
  BY <1>2 DEF Processed
<1>4. Chain(<<>>) /\ 0 <= MaxDepth
  BY <1>2, IncludeWalkerAssumption DEF Chain
<1>5. CallFor(Main, <<>>)
  BY <1>1, <1>2, <1>3, <1>4, ReachableClosed DEF CallFor, Followed
<1> QED
  BY <1>1, <1>5, WalkFileKeeps

\* The recursive call for the next include of the innermost file.
LEMMA WalkIncludeKeeps ==
  ASSUME IInv, WalkInclude
  PROVE  IInv'
<1> USE DEF IInv, TypeInv
<1> DEFINE f == prog.incl[Top.file][Top.next]
<1>1. /\ status = "walk" /\ stack # <<>> /\ Top.next <= Len(prog.incl[Top.file])
      /\ WalkFile(f, Advanced) /\ UNCHANGED <<input, written>>
  BY DEF WalkInclude
<1>2. PICK callers : callers = Advanced
  OBVIOUS
<1>3. /\ callers \in Seq(Frame) /\ Len(callers) = Len(stack) /\ Chain(callers)
      /\ \A i \in 1..Len(stack) :
           /\ callers[i].file = stack[i].file
           /\ i # Len(stack) => callers[i].next = stack[i].next
      /\ callers[Len(stack)].next = Top.next + 1
  BY <1>1, <1>2, AdvanceKeepsChain DEF StackInv
<1>4. Len(stack) \in Nat \ {0} /\ Len(stack) \in 1..Len(stack) /\ callers # <<>>
  BY <1>1, <1>3, EmptySeq
<1>5. Top \in Frame /\ Top.file \in Processed
  BY <1>4, ElementOfSeq DEF Top, StackInv
<1>6. Top.file \in Reachable \ prog.broken /\ Top.file \in File /\ Top.next \in Nat \ {0}
  BY <1>5 DEF WalkInv, Frame
<1>7. Top.next \in 1..Len(prog.incl[Top.file])
  BY <1>1, <1>6, IncludesType, LenProperties
<1>8. f \in Includes(Top.file)
  BY <1>7 DEF Includes
<1>9. f \in Reachable
  BY <1>6, <1>8, ReachableClosed
<1>10. Followed(Processed, visited \cup {f}, callers)
  <2> SUFFICES ASSUME NEW g \in Processed, NEW k \in 1..Len(prog.incl[g])
               PROVE  \/ prog.incl[g][k] \in visited \cup {f}
                      \/ \E i \in 1..Len(callers) : callers[i].file = g /\ callers[i].next <= k
    BY DEF Followed
  <2>1. \/ prog.incl[g][k] \in visited
        \/ \E i \in 1..Len(stack) : stack[i].file = g /\ stack[i].next <= k
    BY <1>1 DEF WalkInv, Followed
  <2>2. ASSUME NEW i \in 1..Len(stack), stack[i].file = g, stack[i].next <= k
        PROVE  prog.incl[g][k] = f \/ (callers[i].file = g /\ callers[i].next <= k)
    <3>1. CASE i # Len(stack)
      BY <3>1, <2>2, <1>3
    <3>2. CASE i = Len(stack) /\ Top.next = k
      BY <3>2, <2>2 DEF Top
    <3>3. CASE i = Len(stack) /\ Top.next # k
      <4>1. k \in Int /\ Top.next < k
        BY <3>3, <2>2, <1>6 DEF Top
      <4> QED
        BY <4>1, <3>3, <2>2, <1>3, <1>6
    <3> QED
      BY <3>1, <3>2, <3>3
  <2> QED
    BY <2>1, <2>2, <1>3
<1>11. \A i \in 1..Len(callers) : callers[i].file \in Processed
  BY <1>3 DEF StackInv
<1>12. f \in Includes(callers[Len(callers)].file)
  BY <1>3, <1>4, <1>8 DEF Top
<1> HIDE DEF f
<1>13. CallFor(f, callers)
  BY <1>1, <1>3, <1>4, <1>9, <1>10, <1>11, <1>12 DEF CallFor, StackInv
<1> QED
  BY <1>1, <1>2, <1>13, WalkFileKeeps

\* walkFile returns: every include of the file has been dealt with.
LEMMA ReturnKeeps ==
  ASSUME IInv, WalkReturn
  PROVE  IInv'
<1> USE DEF IInv, TypeInv
<1>0. PICK n : n = Len(stack)
  OBVIOUS
<1>1. /\ status = "walk" /\ stack # <<>> /\ Top.next > Len(prog.incl[Top.file])
      /\ stack' = SubSeq(stack, 1, n - 1)
      /\ status' = IF n = 1 THEN "validate" ELSE "walk"
      /\ UNCHANGED <<input, visited, processed, vclBackends, at, written>>
  BY <1>0 DEF WalkReturn
<1>2. n \in Nat \ {0} /\ n \in 1..n /\ \A i \in 1..n : stack[i] \in Frame
  BY <1>0, <1>1, EmptySeq, ElementOfSeq
<1>3. /\ stack' \in Seq(Frame) /\ Len(stack') = n - 1
      /\ \A i \in 1..(n - 1) : stack'[i] = stack[i]
  <2>1. \A i \in 1..(n - 1) : stack[i] \in Frame
    BY <1>2
  <2>2. /\ SubSeq(stack, 1, n - 1) \in Seq(Frame)
        /\ Len(SubSeq(stack, 1, n - 1)) = IF 1 <= n - 1 THEN (n - 1) - 1 + 1 ELSE 0
        /\ \A i \in 1..(n - 1) - 1 + 1 : SubSeq(stack, 1, n - 1)[i] = stack[1 + i - 1]
    <3>1. 1 \in Int /\ n - 1 \in Int
      BY <1>2
    <3> QED
      BY <2>1, <3>1, SubSeqProperties
  <2> QED
    BY <2>2, <1>1, <1>2
<1>4. n = 1 <=> stack' = <<>>
  BY <1>2, <1>3, EmptySeq
<1>5. Processed' = Processed /\ prog' = prog
  BY <1>1, SameProgram DEF Processed
<1>6. TypeInv'
  BY <1>1, <1>3, SameProgram
<1>7. Chain(stack')
  <2>1. n # 1 => 1 \in 1..(n - 1)
    BY <1>2
  <2>2. \A i \in 1..(n - 1 - 1) : i \in 1..(n - 1) /\ i + 1 \in 1..(n - 1)
    BY <1>2
  <2>3. \A i \in 1..(n - 1) : i \in 1..n
    BY <1>2
  <2>4. Chain(stack)
    BY DEF StackInv
  <2>5. stack' # <<>> => stack'[1].file = Main
    BY <2>1, <2>4, <1>1, <1>3, <1>4 DEF Chain
  <2>6. \A i \in 1..(n - 1 - 1) : stack'[i + 1].file \in Includes(stack'[i].file)
    BY <1>0, <2>2, <2>4, <1>3 DEF Chain
  <2>7. \A i, j \in 1..(n - 1) : stack'[i].file = stack'[j].file => i = j
    BY <1>0, <2>3, <2>4, <1>3 DEF Chain
  <2> QED
    BY <2>5, <2>6, <2>7, <1>3 DEF Chain
<1>8. StackInv'
  <2>1. \A i \in 1..Len(stack') : stack'[i].file \in Processed
    BY <1>0, <1>2, <1>3 DEF StackInv
  <2>2. Len(stack') <= MaxDepth
    BY <1>0, <1>2, <1>3, IncludeWalkerAssumption DEF StackInv
  <2> QED
    BY <2>1, <2>2, <1>1, <1>4, <1>5, <1>7, SameProgram DEF StackInv
<1>9. Followed(Processed, visited, stack')
  <2> SUFFICES ASSUME NEW g \in Processed, NEW k \in 1..Len(prog.incl[g])
               PROVE  \/ prog.incl[g][k] \in visited
                      \/ \E i \in 1..Len(stack') : stack'[i].file = g /\ stack'[i].next <= k
    BY DEF Followed
  <2>1. \/ prog.incl[g][k] \in visited
        \/ \E i \in 1..n : stack[i].file = g /\ stack[i].next <= k
    BY <1>0, <1>1 DEF WalkInv, Followed
  <2>2. ASSUME NEW i \in 1..n, stack[i].file = g, stack[i].next <= k
        PROVE  i \in 1..(n - 1)
    <3>1. SUFFICES ASSUME i = n PROVE FALSE
      BY <1>2
    <3>2. g \in File
      BY <2>2, <1>2 DEF Frame
    <3>3. Len(prog.incl[g]) \in Nat
      BY <3>2, IncludesType, LenProperties
    <3>4. stack[n].next \in Nat
      BY <1>2 DEF Frame
    <3> QED
      BY <1>0, <1>1, <2>2, <3>1, <3>3, <3>4 DEF Top
  <2> QED
    BY <2>1, <2>2, <1>3
<1>10. WalkInv'
  <2>1. Followed(Processed, visited, stack)'
    BY <1>1, <1>5, <1>9, SameProgram
  <2> QED
    BY <2>1, <1>1, <1>5, SameProgram DEF WalkInv
<1>11. EndInv'
  BY <1>1 DEF EndInv
<1> QED
  BY <1>6, <1>8, <1>10, <1>11

\* validateBackends and prepareVCL look only at what the walk has left.
LEMMA EndKeeps ==
  ASSUME IInv, ValidateBackends \/ PrepareVCL
  PROVE  IInv'
<1> USE DEF IInv
<1>1. /\ UNCHANGED <<input, stack, visited, processed, vclBackends, at>>
      /\ status \in {"validate", "write"}
      /\ status' \in {"write", "missing", "done", "ioerror"}
      /\ status' \in {"write", "done"} => backends \subseteq vclBackends
      /\ status' = "missing" => ~(backends \subseteq vclBackends)
      /\ status' = "done" => written' = [p \in File |-> WrittenAt(p)]
  BY DEF ValidateBackends, PrepareVCL, EndInv
<1>2. Processed' = Processed
  BY <1>1 DEF Processed
<1>3. TypeInv'
  BY <1>1, SameProgram DEF TypeInv, Ended, Failed
<1>4. StackInv'
  BY <1>1, <1>2, SameProgram DEF StackInv
<1>5. Followed(Processed, visited, stack)'
  BY <1>1, <1>2, SameProgram DEF WalkInv
<1>6. WalkInv'
  BY <1>1, <1>2, <1>5, SameProgram DEF WalkInv
<1>7. \A p : WrittenAt(p)' = WrittenAt(p)
  BY <1>1, SameProgram DEF WrittenAt, RelativePath, Content
<1>8. EndInv'
  BY <1>1, <1>7, SameProgram DEF EndInv
<1> QED
  BY <1>3, <1>4, <1>6, <1>8

\* A step outside the walk changes nothing.
LEMMA StutterKeeps ==
  ASSUME IInv, UNCHANGED walkVars
  PROVE  IInv'
<1> USE DEF walkVars, IInv
<1>1. UNCHANGED input
  BY DEF input
<1>2. Processed' = Processed /\ \A p : WrittenAt(p)' = WrittenAt(p)
  BY DEF Processed, WrittenAt, RelativePath, Content
<1>3. TypeInv' /\ StackInv'
  BY <1>1, <1>2, SameProgram DEF TypeInv, StackInv
<1>4. Followed(Processed, visited, stack)' <=> Followed(Processed, visited, stack)
  BY <1>1, <1>2, SameProgram
<1>5. WalkInv'
  BY <1>1, <1>2, <1>4, SameProgram DEF WalkInv
<1>6. EndInv'
  BY <1>1, <1>2, SameProgram, SameDepth DEF EndInv
<1> QED
  BY <1>3, <1>5, <1>6

\* The invariant of the walk: what is on the stack, what was visited and what is
\* still ahead of the calls in progress make up the include graph.
THEOREM WalkInvariant == WalkSpec => []IInv
<1>1. IInv /\ [WalkNext]_walkVars => IInv'
  BY WalkMainKeeps, WalkIncludeKeeps, ReturnKeeps, EndKeeps, StutterKeeps DEF WalkNext
<1> QED
  BY <1>1, InitInv, PTL DEF WalkSpec
-----------------------------------------------------------------------------
(* The results *)

\* Once walkFile has returned to ProcessVCLWithIncludes nothing is ahead any more.
LEMMA AllProcessed ==
  ASSUME IInv, status \in {"validate", "write", "done", "missing"}
  PROVE  /\ Processed = Reachable /\ processed[1] = Main
         /\ \A i, j \in 1..Len(processed) : processed[i] = processed[j] => i = j
<1> USE DEF IInv, TypeInv
<1>1. /\ stack = <<>> /\ processed # <<>> /\ processed[1] = Main
      /\ visited = Processed /\ Processed \subseteq Reachable \ prog.broken
      /\ Followed(Processed, visited, stack)
      /\ \A i, j \in 1..Len(processed) : processed[i] = processed[j] => i = j
  BY DEF StackInv, WalkInv
<1>2. Len(stack) = 0
  BY <1>1, EmptySeq
<1>3. Main \in Processed
  <2>1. 1 \in 1..Len(processed)
    BY <1>1, EmptySeq
  <2> QED
    BY <2>1, <1>1 DEF Processed
<1>4. \A f \in Processed : Includes(f) \subseteq Processed
  BY <1>1, <1>2 DEF Followed, Includes
<1>5. Processed = Reachable
  BY <1>1, <1>3, <1>4, ReachableLeast
<1> QED
  BY <1>1, <1>5

\* walkFile with its visited map is a search of the whole include graph: a walk
\* that succeeds has processed the main file first and each file of the program
\* exactly once, for every program and every depth limit.
THEOREM WalkIsComplete == WalkSpec => []WalkComplete
<1>1. IInv => WalkComplete
  <2> SUFFICES ASSUME IInv, status \in {"validate", "write", "done"}
               PROVE  /\ processed[1] = Main /\ Processed = Reachable
                      /\ Len(processed) = Cardinality(Reachable)
    BY DEF WalkComplete, Processed
  <2>1. /\ Processed = Reachable /\ processed[1] = Main
        /\ \A i, j \in 1..Len(processed) : processed[i] = processed[j] => i = j
    BY AllProcessed
  <2>2. Len(processed) \in Nat /\ processed \in [1..Len(processed) -> File]
        /\ DOMAIN processed = 1..Len(processed)
    BY LenProperties DEF IInv, TypeInv
  <2>3. processed \in Bijection(1..Len(processed), Reachable)
    <3>1. processed \in [1..Len(processed) -> Reachable]
      BY <2>1, <2>2 DEF Processed
    <3>2. \A f \in Reachable : \E i \in 1..Len(processed) : processed[i] = f
      BY <2>1 DEF Processed
    <3> QED
      BY <2>1, <3>1, <3>2 DEF Bijection, Injection, Surjection, IsInjective
  <2>4. IsFiniteSet(1..Len(processed)) /\ Cardinality(1..Len(processed)) = Len(processed)
    BY <2>2, FS_Interval
  <2>5. ExistsBijection(1..Len(processed), Reachable)
    BY <2>3 DEF ExistsBijection
  <2> QED
    BY <2>1, <2>4, <2>5, FS_Bijection
<1> QED
  BY <1>1, WalkInvariant, PTL

\* A program is refused only for the reason given: at the depth limit there is a
\* chain of that many different files, an unreadable file belongs to the program,
\* a missing backend is declared nowhere in it; and a program that is written has
\* none of these faults.
THEOREM RefusedForCause == WalkSpec => []RejectedForCause
<1>1. IInv => RejectedForCause
  <2> SUFFICES ASSUME IInv PROVE RejectedForCause
    OBVIOUS
  <2>1. /\ status = "depth" => DeepChain(MaxDepth, at)
        /\ status = "broken" => at \in Reachable \cap prog.broken
    BY DEF IInv, EndInv
  <2>2. status \in {"write", "done", "missing"} =>
          vclBackends = Declared /\ Reachable \cap prog.broken = {}
    <3> SUFFICES ASSUME status \in {"write", "done", "missing"}
                 PROVE  vclBackends = Declared /\ Reachable \cap prog.broken = {}
      OBVIOUS
    <3>1. Processed = Reachable
      BY AllProcessed
    <3> QED
      BY <3>1 DEF IInv, WalkInv, Declared
  <2>3. status = "missing" => ~(backends \subseteq Declared)
    BY <2>2 DEF IInv, EndInv
  <2>4. status \in {"write", "done"} => backends \subseteq Declared
    BY <2>2 DEF IInv, EndInv
  <2> QED
    BY <2>1, <2>2, <2>3, <2>4 DEF RejectedForCause
<1> QED
  BY <1>1, WalkInvariant, PTL

\* A set of positions that is not empty has a last one.
LEMMA LastOf ==
  ASSUME NEW n \in Nat, NEW P \in SUBSET (1..n), P # {}
  PROVE  \E i \in P : \A j \in P : j <= i
<1> DEFINE T == {n - i : i \in P}
<1>1. T \in SUBSET Nat /\ T # {}
  OBVIOUS
<1>2. PICK x \in T : \A y \in T : ~(<<y, x>> \in OpToRel(<, Nat))
  BY <1>1, NatLessThanWellFounded, WFMin
<1>3. PICK i \in P : x = n - i
  BY <1>2
<1>4. ASSUME NEW j \in P
      PROVE  j <= i
  <2>1. n - j \in T /\ n - j \in Nat /\ x \in Nat
    BY <1>1, <1>2
  <2>2. ~(n - j < x)
    BY <1>2, <2>1 DEF OpToRel
  <2> QED
    BY <1>3, <2>1, <2>2
<1> QED
  BY <1>4

\* Each file of a program that was written is found under its own path, with its
\* mocked backends redirected, when the main VCL was given by an absolute path.
THEOREM TreeIsPreserved == WalkSpec => []TreePreserved
<1>1. IInv => TreePreserved
  <2> SUFFICES ASSUME IInv, status = "done", mainAbsolute, NEW f \in Reachable
               PROVE  written[f] = Content(f)
    BY DEF TreePreserved, DirectoryStructurePreserved, Content
  <2>1. Processed = Reachable
    BY AllProcessed
  <2>2. PICK k \in 1..Len(processed) : processed[k] = f
    BY <2>1 DEF Processed
  <2>3. f \in File
    BY DEF Reachable
  <2>4. written = [p \in File |-> WrittenAt(p)]
    BY DEF IInv, EndInv
  <2> DEFINE from == {i \in 1..Len(processed) : RelativePath(processed[i]) = f}
             last == CHOOSE i \in from : \A j \in from : j <= i
  <2>5. k \in from /\ from \in SUBSET (1..Len(processed)) /\ Len(processed) \in Nat
    BY <2>2, LenProperties DEF IInv, TypeInv, RelativePath
  <2>6. last \in from
    <3>1. \E i \in from : \A j \in from : j <= i
      BY <2>5, LastOf
    <3> QED
      BY <3>1
  <2>7. written[f] = Content(processed[last])
    BY <2>3, <2>4, <2>5 DEF WrittenAt
  <2>8. processed[last] = f
    BY <2>6 DEF RelativePath
  <2> QED
    BY <2>7, <2>8
<1> QED
  BY <1>1, WalkInvariant, PTL
=============================================================================
