--------------------------- MODULE TestRunProofs ---------------------------
(***************************************************************************)
(* Theorems about the test loop, for any test files, TTL and VCL.          *)
(*                                                                         *)
(* LoopInv says where the loop is and that the results so far are those of *)
(* the tests before t; LinesInv which requests have left a line in the log *)
(* or in varnishlog's buffer.  Both need nothing of the surroundings.      *)
(* TraceInv, about the offset and what is behind it, is for a flush that   *)
(* is in time and no faults; CacheInv for bans that are accepted and no    *)
(* grace: where the code does not get these, the properties fail.          *)
(* AloneInv and CarryInv put a second run beside the loop, that of the     *)
(* test in progress on its own: Within(run) says what the two share at     *)
(* each point of a step.                                                   *)
(***************************************************************************)
EXTENDS TestRun, SequenceTheorems, FiniteSetTheorems, WellFoundedInduction, NaturalsInduction,
        TLAPS

-----------------------------------------------------------------------------
(* The inductive invariants *)

InStep == {"step", "reset", "request", "fetch", "collect", "check"}
Running == {"configure", "enter"} \cup InStep
Loaded == Running \cup {"ban", "done", "blocked"}

Line == Nat \X Nat
Outcome == [passed : BOOLEAN, err : BOOLEAN, trace : SUBSET Line]
NSteps(i) == Len(suite[i].steps)

\* The tests are those of the file, and each document was accepted.
SuiteInv ==
  /\ docs \in Files
  /\ pc \in {"load", "rejected"} => suite = <<>>
  /\ pc \in Loaded =>
       /\ Len(suite) = Len(docs) /\ suite \in Seq(ToSet(suite))
       /\ \A i \in 1..Len(docs) : Validate(docs[i]) /\ suite[i] = ApplyDefaults(docs[i])

\* Where the loop can be.
PlaceInv ==
  /\ pc \in Loaded \cup {"load", "rejected"}
  /\ t \in 1..(Len(suite) + 1)
  /\ pc \in Running => t <= Len(suite)
  /\ pc = "done" => t = Len(suite) + 1
  /\ pc \in InStep => s \in 1..NSteps(t)
  /\ failed \in BOOLEAN /\ faults \in Nat

\* One result for each test before t, counted once.
ResultsInv ==
  /\ results \in Seq(Outcome) /\ Len(results) = t - 1
  /\ tally \in [passed : Nat, failed : Nat]
  /\ tally.passed = Cardinality({i \in 1..Len(results) : results[i].passed})
  /\ tally.passed + tally.failed = Len(results)

LoopInv == SuiteInv /\ PlaceInv /\ ResultsInv

\* The lines in the log file and those varnishlog still holds.
Lines == ToSet(log) \cup ToSet(vsl)

\* The steps of test t whose request was answered.
Answered ==
  IF pc \in {"step", "reset", "request", "fetch"} THEN 1..(s - 1)
  ELSE IF pc \in {"collect", "check"} THEN 1..s ELSE {}

\* A line for each request that was answered and for no other.
LinesInv ==
  /\ log \in Seq(Line) /\ vsl \in Seq(Line) /\ mark \in Nat
  /\ \A l \in Lines : \/ l[1] \in 1..(t - 1) /\ l[2] \in 1..NSteps(l[1])
                      \/ l[1] = t /\ l[2] \in Answered
  /\ \A k \in Answered : <<t, k>> \in Lines
  /\ \A i \in 1..(t - 1) : ~results[i].err => \A k \in 1..NSteps(i) : <<i, k>> \in Lines

\* What is behind the offset of MarkPosition at each point of a request.
Marked ==
  /\ pc \in {"request", "fetch"} => mark = Len(log)
  /\ pc \in {"collect", "check"} =>
       /\ Len(log) + Len(vsl) = mark + 1
       /\ \A i \in (mark + 1)..Len(log) : log[i] = <<t, 1>>
       /\ \A i \in 1..Len(vsl) : vsl[i] = <<t, 1>>

TraceInv ==
  /\ vsl # <<>> => pc = "collect"
  /\ pc \in {"request", "fetch", "collect", "check"} =>
       IF suite[t].scenario THEN mark = 0 ELSE Marked
  /\ SingleTraceIsOwn
  /\ ScenarioTraceComplete

\* An object under the current bans was fetched by the test that is running.
CacheInv ==
  /\ now \in Int /\ bans \in Nat /\ bg = None
  /\ cache = [u \in DOMAIN UseBackend |-> cache[u]]
  /\ \A u \in DOMAIN UseBackend : cache[u] # None =>
       /\ cache[u].stored \in Int /\ cache[u].ban \in 0..bans
       /\ pc \in Running /\ cache[u].ban = bans => cache[u].by = t
  /\ CleanCache

IInv == LoopInv /\ LinesInv

-----------------------------------------------------------------------------
(* Documents, sequences and results *)

\* What the loader makes of a document: a step for each request.
WellFormed(test, doc) ==
  /\ Len(test.steps) \in Nat \ {0} /\ DOMAIN test.steps = 1..Len(test.steps)
  /\ Len(test.steps) = Len(doc.scenario) + (IF doc.url # None THEN 1 ELSE 0)
  /\ test.scenario \in BOOLEAN /\ (~test.scenario => Len(test.steps) = 1)
  /\ \A k \in 1..Len(test.steps) :
       test.steps[k].at \in Int /\ test.steps[k].url \in DOMAIN UseBackend

\* An accepted document gives a well-formed test.
LEMMA StepsOf ==
  ASSUME NEW file \in Files, NEW i \in 1..Len(file), Validate(file[i])
  PROVE  WellFormed(ApplyDefaults(file[i]), file[i])
<1> DEFINE doc == file[i]
           sc == doc.scenario
           test == ApplyDefaults(doc)
<1>1. file \in Seq(ToSet(file)) /\ i \in DOMAIN file
  BY FilesAssumption
<1>2. /\ doc.url \in DOMAIN UseBackend \cup {None}
      /\ sc \in Seq(ToSet(sc))
      /\ \A step \in ToSet(sc) :
           /\ DOMAIN step = {"at", "url", "backends", "expect"}
           /\ step.at \in Int \cup {None}
           /\ step.url \in DOMAIN UseBackend \cup {None}
  BY <1>1, FilesAssumption DEF Urls
<1>3. Len(sc) \in Nat /\ DOMAIN sc = 1..Len(sc) /\ (sc = <<>> <=> Len(sc) = 0)
  BY <1>2, LenProperties, EmptySeq
<1>4. CASE sc = <<>>
  <2>1. doc.url # None
    BY <1>4 DEF Validate
  <2>2. /\ test.scenario = FALSE
        /\ test.steps = <<[at |-> 0, url |-> doc.url, backends |-> <<>>, expect |-> doc.expect]>>
    BY <1>4 DEF ApplyDefaults
  <2>3. Len(test.steps) = 1 /\ DOMAIN test.steps = 1..1
    BY <2>2
  <2>4. test.steps[1].at = 0 /\ test.steps[1].url = doc.url
    BY <2>2
  <2>5. test.scenario = FALSE
    BY <2>2
  <2> HIDE DEF test
  <2>6. \A k \in 1..Len(test.steps) :
          test.steps[k].at \in Int /\ test.steps[k].url \in DOMAIN UseBackend
    BY <2>1, <2>3, <2>4, <1>2
  <2>7. Len(test.steps) = Len(sc) + (IF doc.url # None THEN 1 ELSE 0)
    BY <1>3, <1>4, <2>1, <2>3
  <2>8. Len(test.steps) \in Nat \ {0} /\ DOMAIN test.steps = 1..Len(test.steps)
    BY <2>3
  <2>9. WellFormed(test, doc)
    BY <2>3, <2>5, <2>6, <2>7, <2>8 DEF WellFormed
  <2> QED
    BY <2>9 DEF test
<1>5. CASE sc # <<>>
  <2>1. doc.url = None
    BY <1>5 DEF Validate
  <2>2. /\ test.scenario = TRUE
        /\ test.steps = [k \in DOMAIN sc |-> [sc[k] EXCEPT !.backends = NotFoundByDefault(@)]]
    BY <1>5 DEF ApplyDefaults
  <2>3. Len(test.steps) = Len(sc) /\ DOMAIN test.steps = 1..Len(sc)
    BY <1>3, <2>2
  <2>4. ASSUME NEW k \in 1..Len(sc)
        PROVE  test.steps[k].at \in Int /\ test.steps[k].url \in DOMAIN UseBackend
    <3>1. sc[k] \in ToSet(sc)
      BY <1>3 DEF ToSet
    <3>2. sc[k].at # None /\ sc[k].url # None
      BY <1>3 DEF Validate
    <3>3. test.steps[k] = [sc[k] EXCEPT !.backends = NotFoundByDefault(@)]
      BY <1>3, <2>2
    <3>4. test.steps[k].at = sc[k].at /\ test.steps[k].url = sc[k].url
      BY <1>2, <3>1, <3>3
    <3> QED
      BY <1>2, <3>1, <3>2, <3>4
  <2>5. test.scenario = TRUE
    BY <2>2
  <2> HIDE DEF test
  <2>6. Len(test.steps) = Len(sc) + (IF doc.url # None THEN 1 ELSE 0)
    BY <1>3, <2>1, <2>3
  <2>7. Len(test.steps) \in Nat \ {0}
    BY <1>3, <1>5, <2>3
  <2>8. WellFormed(test, doc)
    BY <2>3, <2>4, <2>5, <2>6, <2>7 DEF WellFormed
  <2> QED
    BY <2>8 DEF test
<1> QED
  BY <1>4, <1>5

\* The tests of the suite, once it is loaded.
LEMMA StepsOfTest ==
  ASSUME SuiteInv, pc \in Loaded
  PROVE  /\ Len(suite) \in Nat /\ DOMAIN suite = 1..Len(suite)
         /\ \A i \in 1..Len(suite) : WellFormed(suite[i], docs[i])
         /\ \A i \in 1..Len(suite) :
              /\ NSteps(i) \in Nat \ {0}
              /\ suite[i].scenario \in BOOLEAN /\ (~suite[i].scenario => NSteps(i) = 1)
<1>1. /\ docs \in Files /\ Len(suite) = Len(docs) /\ suite \in Seq(ToSet(suite))
      /\ \A i \in 1..Len(docs) : Validate(docs[i]) /\ suite[i] = ApplyDefaults(docs[i])
  BY DEF SuiteInv
<1>2. Len(suite) \in Nat /\ DOMAIN suite = 1..Len(suite)
  BY <1>1, LenProperties
<1>3. ASSUME NEW i \in 1..Len(suite)
      PROVE  WellFormed(suite[i], docs[i])
  <2>1. i \in 1..Len(docs) /\ Validate(docs[i]) /\ suite[i] = ApplyDefaults(docs[i])
    BY <1>1
  <2> QED
    BY <1>1, <2>1, StepsOf
<1> QED
  BY <1>2, <1>3 DEF WellFormed, NSteps

\* A line that is written is there, and the others stay.
LEMMA LinesAppended ==
  ASSUME NEW q \in Seq(Line), NEW l \in Line
  PROVE  Append(q, l) \in Seq(Line) /\ ToSet(Append(q, l)) = ToSet(q) \cup {l}
<1>1. /\ Append(q, l) \in Seq(Line) /\ Len(q) \in Nat /\ DOMAIN q = 1..Len(q)
      /\ DOMAIN Append(q, l) = 1..(Len(q) + 1)
      /\ \A i \in 1..Len(q) : Append(q, l)[i] = q[i]
      /\ Append(q, l)[Len(q) + 1] = l
  BY AppendProperties, LenProperties
<1> DEFINE r == Append(q, l)
<1> HIDE DEF r
<1>2. \A i \in 1..(Len(q) + 1) : i \in 1..Len(q) \/ i = Len(q) + 1
  BY <1>1
<1>3. Len(q) + 1 \in 1..(Len(q) + 1) /\ \A i \in 1..Len(q) : i \in 1..(Len(q) + 1)
  BY <1>1
<1>4. {r[i] : i \in 1..(Len(q) + 1)} = {q[i] : i \in 1..Len(q)} \cup {l}
  BY <1>1, <1>2, <1>3 DEF r
<1> QED
  BY <1>1, <1>4 DEF r, ToSet

\* What varnishlog writes goes from its buffer to the end of the file.
LEMMA LinesFlushed ==
  ASSUME NEW p \in Seq(Line), NEW q \in Seq(Line)
  PROVE  /\ p \o q \in Seq(Line) /\ Len(p \o q) = Len(p) + Len(q)
         /\ Len(p) \in Nat /\ Len(q) \in Nat
         /\ \A i \in 1..Len(p) : (p \o q)[i] = p[i]
         /\ \A i \in (Len(p) + 1)..(Len(p) + Len(q)) :
              i - Len(p) \in 1..Len(q) /\ (p \o q)[i] = q[i - Len(p)]
         /\ ToSet(p \o q) = ToSet(p) \cup ToSet(q)
<1>1. /\ p \o q \in Seq(Line) /\ Len(p \o q) = Len(p) + Len(q)
      /\ \A i \in 1..(Len(p) + Len(q)) :
           (p \o q)[i] = IF i <= Len(p) THEN p[i] ELSE q[i - Len(p)]
  BY ConcatProperties
<1>2. /\ Len(p) \in Nat /\ DOMAIN p = 1..Len(p) /\ Len(q) \in Nat /\ DOMAIN q = 1..Len(q)
      /\ DOMAIN (p \o q) = 1..Len(p \o q)
  BY <1>1, LenProperties
<1> DEFINE r == p \o q
           m == Len(p)
           n == Len(q)
<1> HIDE DEF r
<1>3. \A i \in 1..m : r[i] = p[i] /\ i \in 1..(m + n)
  BY <1>1, <1>2 DEF r
<1>4. \A i \in (m + 1)..(m + n) : i - m \in 1..n /\ r[i] = q[i - m]
  BY <1>1, <1>2 DEF r
<1>5. \A j \in 1..n : m + j \in 1..(m + n) /\ r[m + j] = q[j]
  BY <1>1, <1>2 DEF r
<1>6. \A i \in 1..(m + n) : i \in 1..m \/ i \in (m + 1)..(m + n)
  BY <1>2
<1>7. ToSet(r) \subseteq ToSet(p) \cup ToSet(q)
  BY <1>1, <1>2, <1>3, <1>4, <1>6 DEF r, ToSet
<1>8. DOMAIN r = 1..(m + n)
  BY <1>1, <1>2 DEF r
<1>9. ToSet(p) \subseteq ToSet(r)
  BY <1>2, <1>3, <1>8 DEF ToSet
<1>10. ToSet(q) \subseteq ToSet(r)
  BY <1>2, <1>5, <1>8 DEF ToSet
<1> QED
  BY <1>1, <1>2, <1>3, <1>4, <1>7, <1>9, <1>10 DEF r

\* The results after one more test.
LEMMA Recorded ==
  ASSUME ResultsInv, t \in Nat \ {0}, NEW passed \in BOOLEAN, NEW err \in BOOLEAN,
         NEW trace \in SUBSET Line, Record(passed, err, trace)
  PROVE  /\ ResultsInv' /\ t' = t + 1 /\ pc' = "ban"
         /\ \A i \in 1..(t - 1) : results'[i] = results[i]
         /\ results'[t] = [passed |-> passed, err |-> err, trace |-> trace]
         /\ DOMAIN results = 1..(t - 1) /\ DOMAIN results' = 1..t
<1> DEFINE o == [passed |-> passed, err |-> err, trace |-> trace]
           n == t - 1
           Good == {i \in 1..n : results[i].passed}
<1>1. o \in Outcome
  BY DEF Outcome
<1>2. results \in Seq(Outcome) /\ Len(results) = n /\ n \in Nat /\ n + 1 = t
  BY DEF ResultsInv
<1>3. results' = Append(results, o) /\ t' = t + 1 /\ pc' = "ban"
  BY DEF Record
<1>4. /\ results' \in Seq(Outcome) /\ Len(results') = t
      /\ DOMAIN results = 1..n /\ DOMAIN results' = 1..t
      /\ \A i \in 1..n : results'[i] = results[i]
      /\ results'[t] = o
  BY <1>1, <1>2, <1>3, AppendProperties, LenProperties
<1> HIDE DEF o
<1>5. IsFiniteSet(Good) /\ Cardinality(Good) \in Nat
  <2>1. IsFiniteSet(1..n)
    BY <1>2, FS_Interval
  <2>2. Good \in SUBSET (1..n)
    OBVIOUS
  <2> HIDE DEF Good
  <2> QED
    BY <2>1, <2>2, FS_Subset, FS_CardinalityType
<1>6. o.passed = passed
  BY DEF o
<1>7. {i \in 1..t : results'[i].passed} = IF passed THEN Good \cup {t} ELSE Good
  <2>1. \A i \in 1..t : i \in 1..n \/ i = t
    BY <1>2
  <2>2. t \in 1..t /\ \A i \in 1..n : i \in 1..t
    BY <1>2
  <2> QED
    BY <1>4, <1>6, <2>1, <2>2
<1>8. t \notin Good
  BY <1>2
<1>9. Cardinality(Good \cup {t}) = Cardinality(Good) + 1
  BY <1>5, <1>8, FS_AddElement
<1>10. /\ tally \in [passed : Nat, failed : Nat] /\ tally.passed = Cardinality(Good)
       /\ tally.passed + tally.failed = n
  BY <1>2 DEF ResultsInv
<1>11. tally' = IF passed THEN [tally EXCEPT !.passed = @ + 1] ELSE [tally EXCEPT !.failed = @ + 1]
  BY DEF Record
<1> DEFINE Now == {i \in 1..t : results'[i].passed}
           many == Cardinality(Good)
<1>12. Cardinality(Now) = IF passed THEN many + 1 ELSE many
  BY <1>7, <1>9
<1>13. many \in Nat /\ many = tally.passed
  BY <1>5, <1>10
<1> HIDE DEF Now, many
<1>14. /\ tally' \in [passed : Nat, failed : Nat]
       /\ tally'.passed = Cardinality(Now)
       /\ tally'.passed + tally'.failed = t
  <2>1. CASE passed
    <3>1. tally'.passed = tally.passed + 1 /\ tally'.failed = tally.failed
      BY <1>10, <1>11, <2>1
    <3>2. tally' \in [passed : Nat, failed : Nat]
      BY <1>10, <1>11, <2>1
    <3>3. tally'.passed = Cardinality(Now)
      BY <1>12, <1>13, <2>1, <3>1
    <3>4. tally'.passed + tally'.failed = t
      BY <1>2, <1>10, <3>1
    <3> QED
      BY <3>2, <3>3, <3>4
  <2>2. CASE ~passed
    <3>1. tally'.passed = tally.passed /\ tally'.failed = tally.failed + 1
      BY <1>10, <1>11, <2>2
    <3>2. tally' \in [passed : Nat, failed : Nat]
      BY <1>10, <1>11, <2>2
    <3>3. tally'.passed = Cardinality(Now)
      BY <1>12, <1>13, <2>2, <3>1
    <3>4. tally'.passed + tally'.failed = t
      BY <1>2, <1>10, <3>1
    <3> QED
      BY <3>2, <3>3, <3>4
  <2> QED
    BY <2>1, <2>2
<1>15. Len(results') = t' - 1
  BY <1>2, <1>3, <1>4
<1>16. tally'.passed = Cardinality({i \in 1..Len(results') : results'[i].passed})
  BY <1>4, <1>14 DEF Now
<1>17. ResultsInv'
  BY <1>4, <1>14, <1>15, <1>16 DEF ResultsInv
<1> QED
  BY <1>2, <1>3, <1>4, <1>17 DEF o

-----------------------------------------------------------------------------
(* The loop and the lines *)

\* A step within a test that answers no request.
LEMMA Moves ==
  ASSUME IInv, UNCHANGED <<docs, suite, t, results, tally>>,
         pc \in Loaded, pc' \in Loaded,
         pc' \in Running => t <= Len(suite),
         pc' = "done" => t = Len(suite) + 1,
         pc' \in InStep => s' \in 1..NSteps(t),
         failed' \in BOOLEAN, faults' \in Nat,
         log' \in Seq(Line), vsl' \in Seq(Line), mark' \in Nat,
         Lines' = Lines, Answered' = Answered
  PROVE  IInv'
<1> USE DEF IInv, LoopInv
<1>1. SuiteInv'
  BY DEF SuiteInv, Loaded, Running, InStep
<1>2. PlaceInv'
  BY DEF PlaceInv, NSteps
<1>3. ResultsInv'
  BY DEF ResultsInv
<1>4. \A i : NSteps(i)' = NSteps(i)
  BY DEF NSteps
<1>5. LinesInv'
  BY <1>4 DEF LinesInv
<1> QED
  BY <1>1, <1>2, <1>3, <1>5

\* The result of a test: an error, or each of its requests was answered.
LEMMA Reports ==
  ASSUME IInv, UNCHANGED <<docs, suite, log, vsl, mark, failed>>, faults' \in Nat,
         pc \in Running \/ (pc = "ban" /\ t <= Len(suite)),
         NEW passed \in BOOLEAN, NEW err \in BOOLEAN,
         NEW trace \in SUBSET Line, Record(passed, err, trace),
         err \/ Answered = 1..NSteps(t)
  PROVE  IInv'
<1> USE DEF IInv, LoopInv
<1>1. pc \in Loaded /\ t <= Len(suite) /\ t \in Nat \ {0} /\ Len(suite) \in Nat
  <2>1. pc \in Loaded
    BY DEF Loaded, Running, InStep
  <2>2. Len(suite) \in Nat
    BY <2>1, StepsOfTest
  <2> QED
    BY <2>1, <2>2 DEF PlaceInv
<1>2. /\ ResultsInv' /\ t' = t + 1 /\ pc' = "ban"
      /\ \A i \in 1..(t - 1) : results'[i] = results[i]
      /\ results'[t] = [passed |-> passed, err |-> err, trace |-> trace]
  BY <1>1, Recorded
<1>3. SuiteInv'
  BY <1>1, <1>2 DEF SuiteInv, Loaded, Running, InStep
<1>4. PlaceInv'
  BY <1>1, <1>2 DEF PlaceInv, Loaded, Running, InStep
<1>5. /\ \A i : NSteps(i)' = NSteps(i)
      /\ Lines' = Lines /\ Answered' = {}
  BY <1>2 DEF NSteps, Lines, Answered
<1>6. results'[t].err = err
  BY <1>2
<1>7. \A i \in 1..(t' - 1) : i \in 1..(t - 1) \/ i = t
  BY <1>1, <1>2
<1>8. Answered \subseteq 1..NSteps(t)
  <2>1. NSteps(t) \in Nat
    BY <1>1, StepsOfTest
  <2> QED
    BY <1>1, <2>1 DEF PlaceInv, Answered, InStep
<1>9. ASSUME NEW l \in Lines
      PROVE  l[1] \in 1..(t' - 1) /\ l[2] \in 1..NSteps(l[1])
  <2>1. \/ l[1] \in 1..(t - 1) /\ l[2] \in 1..NSteps(l[1])
        \/ l[1] = t /\ l[2] \in Answered
    BY DEF LinesInv
  <2>2. CASE l[1] \in 1..(t - 1) /\ l[2] \in 1..NSteps(l[1])
    BY <1>1, <1>2, <2>2
  <2>3. CASE l[1] = t /\ l[2] \in Answered
    <3>1. t \in 1..(t' - 1)
      BY <1>1, <1>2
    <3>2. l[2] \in 1..NSteps(t)
      BY <1>8, <2>3
    <3> QED
      BY <2>3, <3>1, <3>2
  <2> QED
    BY <2>1, <2>2, <2>3
<1>10. ASSUME NEW i \in 1..(t' - 1), ~results'[i].err, NEW k \in 1..NSteps(i)
       PROVE  <<i, k>> \in Lines
  <2>1. CASE i \in 1..(t - 1)
    BY <1>2, <1>10, <2>1 DEF LinesInv
  <2>2. CASE i = t
    BY <1>6, <1>10, <2>2 DEF LinesInv
  <2> QED
    BY <1>7, <2>1, <2>2
<1>11. LinesInv'
  BY <1>2, <1>5, <1>9, <1>10 DEF LinesInv
<1> QED
  BY <1>2, <1>3, <1>4, <1>11

\* A request is answered, and Varnish logs it.
LEMMA Logs ==
  ASSUME IInv, UNCHANGED <<docs, suite, t, s, results, tally, failed, faults, log, mark>>,
         pc \in {"request", "fetch"}, pc' = "collect", vsl' = Append(vsl, <<t, s>>)
  PROVE  IInv'
<1> USE DEF IInv, LoopInv
<1>1. pc \in Loaded /\ pc \in Running /\ pc \in InStep
  BY DEF Loaded, Running, InStep
<1>2. t \in Nat \ {0} /\ s \in Nat \ {0} /\ s \in 1..NSteps(t) /\ t <= Len(suite)
  <2>1. Len(suite) \in Nat
    BY <1>1, StepsOfTest
  <2>2. t \in Nat \ {0} /\ t <= Len(suite)
    BY <1>1, <2>1 DEF PlaceInv
  <2>3. NSteps(t) \in Nat
    BY <1>1, <2>1, <2>2, StepsOfTest
  <2> QED
    BY <1>1, <2>2, <2>3 DEF PlaceInv
<1>3. SuiteInv'
  BY <1>1 DEF SuiteInv, Loaded, Running, InStep
<1>4. PlaceInv'
  BY <1>1, <1>2 DEF PlaceInv, Loaded, Running, InStep, NSteps
<1>5. ResultsInv'
  BY DEF ResultsInv
<1> DEFINE l1 == <<t, s>>
<1>6. l1 \in Line /\ l1[1] = t /\ l1[2] = s
  BY <1>2 DEF Line
<1>7. vsl' \in Seq(Line) /\ ToSet(vsl') = ToSet(vsl) \cup {l1}
  BY <1>6, LinesAppended DEF LinesInv
<1>8. Lines' = Lines \cup {l1}
  BY <1>7 DEF Lines
<1>9. Answered = 1..(s - 1) /\ Answered' = 1..s
  BY DEF Answered
<1>10. \A i : NSteps(i)' = NSteps(i)
  BY DEF NSteps
<1>11. \A k \in 1..s : k \in 1..(s - 1) \/ k = s
  BY <1>2
<1>12. (1..(s - 1)) \subseteq 1..s /\ s \in 1..s
  BY <1>2
<1>13. \A k \in Answered' : <<t, k>> \in Lines'
  BY <1>8, <1>9, <1>11 DEF LinesInv
<1> HIDE DEF l1
<1>14. ASSUME NEW l \in Lines'
       PROVE  \/ l[1] \in 1..(t - 1) /\ l[2] \in 1..NSteps(l[1])
              \/ l[1] = t /\ l[2] \in 1..s
  <2>1. CASE l \in Lines
    BY <1>9, <1>12, <2>1 DEF LinesInv
  <2>2. CASE l = l1
    BY <1>6, <1>12, <2>2
  <2> QED
    BY <1>8, <2>1, <2>2
<1>15. LinesInv'
  BY <1>7, <1>8, <1>9, <1>10, <1>13, <1>14 DEF LinesInv
<1> QED
  BY <1>3, <1>4, <1>5, <1>15

-----------------------------------------------------------------------------
(* Init and the steps *)

\* Nothing is loaded and nothing reported.
LEMMA InitInv ==
  Init => IInv
<1> SUFFICES ASSUME Init PROVE IInv
  OBVIOUS
<1> USE DEF Init
<1>1. Len(<<>>) = 0 /\ <<>> \in Seq(Outcome) /\ <<>> \in Seq(Line) /\ ToSet(<<>>) = {}
  BY EmptySeq DEF ToSet
<1>2. SuiteInv
  BY DEF SuiteInv, Loaded, Running, InStep
<1>3. PlaceInv
  <2>1. Len(suite) = 0 /\ 1 \in 1..(0 + 1)
    BY <1>1
  <2>2. pc \notin Loaded /\ pc \notin Running /\ pc \notin InStep /\ pc = "load"
    BY DEF Loaded, Running, InStep
  <2> QED
    BY <2>1, <2>2 DEF PlaceInv
<1>4. ResultsInv
  <2>1. {i \in 1..0 : results[i].passed} = {} /\ Cardinality({}) = 0
    BY FS_EmptySet
  <2> QED
    BY <1>1, <2>1 DEF ResultsInv
<1>5. LinesInv
  BY <1>1 DEF LinesInv, Lines, Answered
<1> QED
  BY <1>2, <1>3, <1>4, <1>5 DEF IInv, LoopInv

\* The file is loaded, or refused.
LEMMA LoadKeeps ==
  ASSUME IInv, Load
  PROVE  IInv'
<1> USE DEF IInv, LoopInv
<1>1. /\ pc = "load" /\ pc' \in {"ban", "rejected"}
      /\ UNCHANGED <<docs, t, s, failed, vsl, log, mark, results, tally, faults>>
  BY DEF Load, logVars, outVars
<1>2. suite = <<>> /\ docs \in Files
  BY <1>1 DEF SuiteInv
<1>3. t = 1 /\ Len(<<>>) = 0
  BY <1>1, <1>2 DEF PlaceInv
<1>4. docs \in Seq(ToSet(docs)) /\ Len(docs) \in Nat /\ DOMAIN docs = 1..Len(docs)
  BY <1>2, FilesAssumption, LenProperties
<1>5. SuiteInv' /\ Len(suite') \in Nat
  <2>1. CASE pc' = "rejected"
    <3>1. suite' = suite
      BY <1>1, <2>1 DEF Load
    <3> QED
      BY <1>1, <1>2, <1>3, <2>1, <3>1 DEF SuiteInv, Loaded, Running, InStep
  <2>2. CASE pc' = "ban"
    <3>1. /\ \A i \in DOMAIN docs : Validate(docs[i])
          /\ suite' = [i \in DOMAIN docs |-> ApplyDefaults(docs[i])]
      BY <1>1, <2>2 DEF Load
    <3>2. DOMAIN suite' = 1..Len(docs) /\ \A i \in 1..Len(docs) : suite'[i] = ApplyDefaults(docs[i])
      BY <1>4, <3>1
    <3>3. suite' \in [1..Len(docs) -> ToSet(suite')]
      <4>1. \A i \in 1..Len(docs) : suite'[i] \in ToSet(suite')
        BY <3>2 DEF ToSet
      <4> QED
        BY <1>4, <3>1, <4>1
    <3>4. suite' \in Seq(ToSet(suite')) /\ Len(suite') = Len(docs)
      BY <1>4, <3>3, IsASeq, LenProperties
    <3>5. \A i \in 1..Len(docs) : Validate(docs[i])
      BY <1>4, <3>1
    <3> QED
      BY <1>1, <1>2, <1>4, <2>2, <3>2, <3>4, <3>5 DEF SuiteInv, Loaded, Running, InStep
  <2> QED
    BY <1>1, <2>1, <2>2
<1>6. PlaceInv'
  BY <1>1, <1>3, <1>5 DEF PlaceInv, Loaded, Running, InStep
<1>7. ResultsInv'
  BY <1>1 DEF ResultsInv
<1>8. /\ Lines' = Lines /\ Lines = {} /\ Answered' = {} /\ \A i \in 1..(t' - 1) : FALSE
  <2>1. Answered' = {} /\ Answered = {}
    BY <1>1 DEF Answered
  <2>2. \A i \in 1..(t - 1) : FALSE
    BY <1>3
  <2>3. Lines = {}
    BY <2>1, <2>2 DEF LinesInv
  <2> QED
    BY <1>1, <2>1, <2>2, <2>3 DEF Lines
<1>9. LinesInv'
  BY <1>1, <1>8 DEF LinesInv
<1> QED
  BY <1>5, <1>6, <1>7, <1>9

\* The ban before a test: done, refused, stuck, or an error that is the test's
\* result.
LEMMA BanKeeps ==
  ASSUME IInv, Ban
  PROVE  IInv'
<1> USE DEF IInv, LoopInv
<1>1. /\ pc = "ban" /\ t <= Len(suite) /\ faults \in Nat /\ failed \in BOOLEAN
      /\ UNCHANGED <<docs, suite, s, failed, vsl, log, mark>>
      /\ log \in Seq(Line) /\ vsl \in Seq(Line) /\ mark \in Nat
  BY DEF Ban, fileVars, logVars, PlaceInv, LinesInv
<1>2. CASE pc' \in {"configure", "blocked"} /\ UNCHANGED <<t, results, tally, faults>>
  <2>1. Lines' = Lines /\ Answered' = Answered
    BY <1>1, <1>2 DEF Lines, Answered
  <2>2. pc \in Loaded /\ pc' \in Loaded /\ pc' \notin InStep /\ pc' # "done"
    BY <1>1, <1>2 DEF Loaded, Running, InStep
  <2> QED
    BY <1>1, <1>2, <2>1, <2>2, Moves
<1>3. CASE Fault /\ Record(FALSE, TRUE, {})
  <2>1. faults' \in Nat
    BY <1>1, <1>3 DEF Fault
  <2> QED
    BY <1>1, <1>3, <2>1, Reports
<1> QED
  BY <1>2, <1>3 DEF Ban, outVars

\* The mocks are configured, or there is no test left.
LEMMA BetweenTestsKeeps ==
  ASSUME IInv, ConfigureBackendsForTest \/ Finish
  PROVE  IInv'
<1> USE DEF IInv, LoopInv
<1>1. /\ UNCHANGED <<docs, suite, t, s, failed, vsl, log, mark, results, tally, faults>>
      /\ faults \in Nat /\ failed \in BOOLEAN
      /\ log \in Seq(Line) /\ vsl \in Seq(Line) /\ mark \in Nat
      /\ \/ pc = "configure" /\ pc' = "enter"
         \/ pc = "ban" /\ pc' = "done" /\ t > Len(suite)
  BY DEF ConfigureBackendsForTest, Finish, fileVars, logVars, outVars, PlaceInv, LinesInv
<1>2. pc \in Loaded /\ pc' \in Loaded /\ pc' \notin InStep
  BY <1>1 DEF Loaded, Running, InStep
<1>3. Len(suite) \in Nat
  BY <1>2, StepsOfTest
<1>4. (pc' \in Running => t <= Len(suite)) /\ (pc' = "done" => t = Len(suite) + 1)
  BY <1>1, <1>3 DEF PlaceInv, Running, InStep
<1>5. Lines' = Lines /\ Answered' = Answered
  BY <1>1 DEF Lines, Answered
<1> QED
  BY <1>1, <1>2, <1>4, <1>5, Moves

\* The first step of the test, or the error for a VCL that is not loaded.
LEMMA EnterKeeps ==
  ASSUME IInv, RunTestWithSharedVCL
  PROVE  IInv'
<1> USE DEF IInv, LoopInv
<1>1. /\ pc = "enter" /\ faults \in Nat /\ UNCHANGED <<docs, suite, vsl, log, mark, faults>>
      /\ log \in Seq(Line) /\ vsl \in Seq(Line) /\ mark \in Nat
  BY DEF RunTestWithSharedVCL, fileVars, logVars, PlaceInv, LinesInv
<1>2. pc \in Loaded /\ pc \in Running
  BY <1>1 DEF Loaded, Running, InStep
<1>3. CASE Record(FALSE, TRUE, {}) /\ UNCHANGED <<s, failed>>
  BY <1>1, <1>2, <1>3, Reports
<1>4. CASE /\ s' = 1 /\ failed' = FALSE /\ pc' \in {"step", "reset"}
           /\ UNCHANGED <<t, results, tally>>
  <2>1. t \in 1..Len(suite)
    <3>1. Len(suite) \in Nat
      BY <1>2, StepsOfTest
    <3> QED
      BY <1>2, <3>1 DEF PlaceInv
  <2>2. 1 \in 1..NSteps(t)
    BY <1>2, <2>1, StepsOfTest
  <2>3. pc' \in Loaded /\ pc' # "done"
    BY <1>4 DEF Loaded, Running, InStep
  <2>4. Lines' = Lines
    BY <1>1 DEF Lines
  <2>5. Answered' = {} /\ Answered = {}
    BY <1>1, <1>4 DEF Answered
  <2>6. t <= Len(suite)
    BY <1>2 DEF PlaceInv
  <2> QED
    BY <1>1, <1>2, <1>4, <2>2, <2>3, <2>4, <2>5, <2>6, Moves
<1> QED
  BY <1>3, <1>4 DEF RunTestWithSharedVCL, outVars

\* A step of a scenario begins, or the clock cannot be set.
LEMMA BeginStepKeeps ==
  ASSUME IInv, BeginStep
  PROVE  IInv'
<1> USE DEF IInv, LoopInv
<1>1. /\ pc = "step" /\ faults \in Nat /\ failed \in BOOLEAN
      /\ UNCHANGED <<docs, suite, s, failed, vsl, log, mark>>
      /\ log \in Seq(Line) /\ vsl \in Seq(Line) /\ mark \in Nat
  BY DEF BeginStep, fileVars, logVars, PlaceInv, LinesInv
<1>2. pc \in Loaded /\ pc \in Running /\ pc \in InStep
  BY <1>1 DEF Loaded, Running, InStep
<1>3. CASE pc' = "reset" /\ UNCHANGED <<t, results, tally, faults>>
  <2>1. pc' \in Loaded /\ pc' # "done" /\ t <= Len(suite) /\ s \in 1..NSteps(t)
    BY <1>2, <1>3 DEF Loaded, Running, InStep, PlaceInv
  <2>2. Lines' = Lines /\ Answered' = Answered
    BY <1>1, <1>3 DEF Lines, Answered
  <2> QED
    BY <1>1, <1>2, <1>3, <2>1, <2>2, Moves
<1>4. CASE Fault /\ Record(FALSE, TRUE, {})
  <2>1. faults' \in Nat
    BY <1>1, <1>4 DEF Fault
  <2> QED
    BY <1>1, <1>2, <1>4, <2>1, Reports
<1> QED
  BY <1>3, <1>4 DEF BeginStep, outVars

\* The counters are reset and the log is marked.
LEMMA ResetKeeps ==
  ASSUME IInv, ResetAndMark
  PROVE  IInv'
<1> USE DEF IInv, LoopInv
<1>1. /\ pc = "reset" /\ pc' = "request" /\ faults \in Nat /\ failed \in BOOLEAN
      /\ UNCHANGED <<docs, suite, t, s, failed, vsl, log, results, tally>>
      /\ log \in Seq(Line) /\ vsl \in Seq(Line)
  BY DEF ResetAndMark, fileVars, outVars, PlaceInv, LinesInv
<1>2. faults' \in Nat /\ mark' \in Nat
  <2>1. Len(log) \in Nat
    BY <1>1, LenProperties
  <2> QED
    BY <1>1, <2>1 DEF ResetAndMark, Fault
<1>3. /\ pc \in Loaded /\ pc' \in Loaded /\ pc' # "done" /\ t <= Len(suite) /\ s \in 1..NSteps(t)
  BY <1>1 DEF Loaded, Running, InStep, PlaceInv
<1>4. Lines' = Lines /\ Answered' = Answered
  BY <1>1 DEF Lines, Answered
<1> QED
  BY <1>1, <1>2, <1>3, <1>4, Moves

\* The request: a hit, a miss that goes on to the mock, or an error.
LEMMA RequestKeeps ==
  ASSUME IInv, MakeRequest
  PROVE  IInv'
<1> USE DEF IInv, LoopInv
<1>1. /\ pc = "request" /\ faults \in Nat /\ failed \in BOOLEAN
      /\ UNCHANGED <<docs, suite, s, failed, log, mark>>
      /\ log \in Seq(Line) /\ vsl \in Seq(Line) /\ mark \in Nat
  BY DEF MakeRequest, fileVars, PlaceInv, LinesInv
<1>2. pc \in Loaded /\ pc \in Running /\ pc \in InStep
  BY <1>1 DEF Loaded, Running, InStep
<1>3. CASE pc' = "collect" /\ vsl' = Append(vsl, <<t, s>>) /\ UNCHANGED <<t, results, tally, faults>>
  BY <1>1, <1>3, Logs
<1>4. CASE pc' = "fetch" /\ UNCHANGED <<t, vsl, results, tally, faults>>
  <2>1. pc' \in Loaded /\ pc' # "done" /\ t <= Len(suite) /\ s \in 1..NSteps(t)
    BY <1>2, <1>4 DEF Loaded, Running, InStep, PlaceInv
  <2>2. Lines' = Lines /\ Answered' = Answered
    BY <1>1, <1>4 DEF Lines, Answered
  <2> QED
    BY <1>1, <1>2, <1>4, <2>1, <2>2, Moves
<1>5. CASE Fault /\ Record(FALSE, TRUE, {}) /\ UNCHANGED vsl
  <2>1. faults' \in Nat
    BY <1>1, <1>5 DEF Fault
  <2> QED
    BY <1>1, <1>2, <1>5, <2>1, Reports
<1> QED
  BY <1>3, <1>4, <1>5 DEF MakeRequest, outVars

\* The mock answers.
LEMMA FetchKeeps ==
  ASSUME IInv, Fetch
  PROVE  IInv'
BY Logs DEF Fetch, fileVars, outVars

\* The lines go to the file, at the test's request or before.
LEMMA WritesKeep ==
  ASSUME IInv, FlushAndCollect \/ WriteLog
  PROVE  IInv'
<1> USE DEF IInv, LoopInv
<1>1. /\ UNCHANGED <<docs, suite, t, s, failed, mark, results, tally, faults>>
      /\ faults \in Nat /\ failed \in BOOLEAN
      /\ log \in Seq(Line) /\ vsl \in Seq(Line) /\ mark \in Nat
      /\ (pc = "collect" /\ pc' = "check") \/ pc' = pc
  BY DEF FlushAndCollect, WriteLog, fileVars, outVars, loopVars, PlaceInv, LinesInv
<1>2. \/ log' = log \o vsl /\ vsl' = <<>>
      \/ UNCHANGED <<log, vsl>>
  BY DEF FlushAndCollect, WriteLog, Flush
<1>3. log' \in Seq(Line) /\ vsl' \in Seq(Line) /\ Lines' = Lines
  <2>1. <<>> \in Seq(Line) /\ ToSet(<<>>) = {}
    BY EmptySeq DEF ToSet
  <2>2. CASE log' = log \o vsl /\ vsl' = <<>>
    <3>1. log \o vsl \in Seq(Line) /\ ToSet(log \o vsl) = ToSet(log) \cup ToSet(vsl)
      BY <1>1, LinesFlushed
    <3>2. ToSet(log') = ToSet(log) \cup ToSet(vsl) /\ ToSet(vsl') = {}
      BY <2>1, <2>2, <3>1
    <3>3. log' \in Seq(Line) /\ vsl' \in Seq(Line)
      BY <2>1, <2>2, <3>1
    <3> QED
      BY <3>2, <3>3 DEF Lines
  <2>3. CASE UNCHANGED <<log, vsl>>
    BY <1>1, <2>3 DEF Lines
  <2> QED
    BY <1>2, <2>2, <2>3
<1>4. Answered' = Answered
  BY <1>1 DEF Answered
<1>5. CASE pc \in Loaded
  <2>1. pc' \in Loaded /\ (pc' \in Running <=> pc \in Running) /\ (pc' \in InStep <=> pc \in InStep)
        /\ (pc' = "done" <=> pc = "done")
    BY <1>1, <1>5 DEF Loaded, Running, InStep
  <2> QED
    BY <1>1, <1>3, <1>4, <1>5, <2>1, Moves DEF PlaceInv
<1>6. CASE pc \notin Loaded
  <2>1. pc' = pc
    BY <1>1, <1>6 DEF Loaded, Running, InStep
  <2>2. SuiteInv' /\ PlaceInv' /\ ResultsInv'
    BY <1>1, <1>6, <2>1 DEF SuiteInv, PlaceInv, ResultsInv, NSteps
  <2>3. \A i : NSteps(i)' = NSteps(i)
    BY <1>1 DEF NSteps
  <2> QED
    BY <1>1, <1>3, <1>4, <2>2, <2>3 DEF LinesInv
<1> QED
  BY <1>5, <1>6

\* The lines a trace can be built from are lines.
LEMMA TraceType ==
  ASSUME log \in Seq(Line), mark \in Nat
  PROVE  TraceSince(mark) \in SUBSET Line
<1>1. Len(log) \in Nat /\ \A i \in 1..Len(log) : log[i] \in Line
  BY LenProperties, ElementOfSeq
<1>2. \A i \in (mark + 1)..Len(log) : i \in 1..Len(log)
  BY <1>1
<1> QED
  BY <1>1, <1>2 DEF TraceSince

\* The check of a step, and after the last one the result.
LEMMA CheckKeeps ==
  ASSUME IInv, CheckStep
  PROVE  IInv'
<1> USE DEF IInv, LoopInv
<1>1. /\ pc = "check" /\ faults \in Nat /\ failed \in BOOLEAN
      /\ UNCHANGED <<docs, suite, vsl, log, mark>>
      /\ log \in Seq(Line) /\ vsl \in Seq(Line) /\ mark \in Nat
  BY DEF CheckStep, fileVars, logVars, PlaceInv, LinesInv
<1>2. pc \in Loaded /\ pc \in Running /\ pc \in InStep
  BY <1>1 DEF Loaded, Running, InStep
<1>3. t \in 1..Len(suite) /\ NSteps(t) \in Nat /\ s \in 1..NSteps(t) /\ t <= Len(suite)
  <2>1. Len(suite) \in Nat
    BY <1>2, StepsOfTest
  <2>2. t \in 1..Len(suite)
    BY <1>2, <2>1 DEF PlaceInv
  <2> QED
    BY <1>2, <2>2, StepsOfTest DEF PlaceInv
<1> DEFINE bad == failed \/ ~Check(Step.expect, resp, seen)
<1>4. bad \in BOOLEAN
  BY <1>1
<1>5. Len(Test.steps) = NSteps(t)
  BY DEF Test, NSteps
<1>6. \/ /\ s < NSteps(t) /\ s' = s + 1 /\ failed' = bad /\ pc' = "step"
         /\ UNCHANGED <<t, results, tally, faults>>
      \/ /\ s = NSteps(t) /\ UNCHANGED <<s, failed>>
         /\ \/ /\ Record(~bad, FALSE, IF bad THEN TraceSince(mark) ELSE {})
               /\ UNCHANGED faults
            \/ Fault /\ Record(FALSE, FALSE, {})
  BY <1>5 DEF CheckStep, outVars
<1>7. UNCHANGED faults \/ Fault
  BY DEF CheckStep
<1> HIDE DEF bad
<1>8. CASE /\ s < NSteps(t) /\ s' = s + 1 /\ failed' = bad /\ pc' = "step"
           /\ UNCHANGED <<t, results, tally, faults>>
  <2>1. pc' \in Loaded /\ pc' # "done"
    BY <1>8 DEF Loaded, Running, InStep
  <2>2. s' \in 1..NSteps(t)
    BY <1>3, <1>8
  <2>3. Lines' = Lines
    BY <1>1 DEF Lines
  <2>4. Answered = 1..s /\ Answered' = 1..(s' - 1)
    BY <1>1, <1>8 DEF Answered
  <2>5. s' - 1 = s
    BY <1>3, <1>8
  <2> QED
    BY <1>1, <1>2, <1>3, <1>4, <1>8, <2>1, <2>2, <2>3, <2>4, <2>5, Moves
<1>9. CASE /\ s = NSteps(t) /\ UNCHANGED <<s, failed>>
           /\ \/ /\ Record(~bad, FALSE, IF bad THEN TraceSince(mark) ELSE {})
                 /\ UNCHANGED faults
              \/ Fault /\ Record(FALSE, FALSE, {})
  <2>1. Answered = 1..NSteps(t)
    BY <1>1, <1>9 DEF Answered
  <2>2. PICK passed \in BOOLEAN, trace \in SUBSET Line : Record(passed, FALSE, trace)
    <3>1. TraceSince(mark) \in SUBSET Line
      BY <1>1, TraceType
    <3>2. (~bad) \in BOOLEAN
      BY <1>4
    <3>3. (IF bad THEN TraceSince(mark) ELSE {}) \in SUBSET Line
      BY <3>1
    <3>4. CASE Record(~bad, FALSE, IF bad THEN TraceSince(mark) ELSE {})
      BY <3>2, <3>3, <3>4
    <3>5. CASE Record(FALSE, FALSE, {})
      BY <3>5
    <3> QED
      BY <1>9, <3>4, <3>5
  <2>3. faults' \in Nat
    BY <1>1, <1>7 DEF Fault
  <2> QED
    BY <1>1, <1>2, <1>9, <2>1, <2>2, <2>3, Reports
<1> QED
  BY <1>6, <1>8, <1>9

\* What runs beside the loop and logs nothing.
LEMMA BesideKeeps ==
  ASSUME IInv, BackgroundCall \/ BackgroundStore \/ UNCHANGED vars
  PROVE  IInv'
<1>1. UNCHANGED <<docs, suite, pc, t, s, failed, vsl, log, mark, results, tally, faults>>
  BY DEF BackgroundCall, BackgroundStore, vars, fileVars, loopVars, logVars, outVars
<1>2. SuiteInv' /\ PlaceInv' /\ ResultsInv'
  BY <1>1 DEF IInv, LoopInv, SuiteInv, PlaceInv, ResultsInv, NSteps
<1>3. /\ Lines' = Lines /\ Answered' = Answered /\ \A i : NSteps(i)' = NSteps(i)
  BY <1>1 DEF Lines, Answered, NSteps
<1> QED
  BY <1>1, <1>2, <1>3 DEF IInv, LoopInv, LinesInv

\* The loop's place, its results and the lines of its requests are an invariant of
\* the test loop (runTests and the shared-VCL runners), whatever fails.
THEOREM TestRunInvariant == Spec => []IInv
<1>1. Init => IInv
  BY InitInv
<1>2. IInv /\ [Next]_vars => IInv'
  <2> SUFFICES ASSUME IInv, [Next]_vars PROVE IInv'
    OBVIOUS
  <2>1. CASE Loop
    BY <2>1, LoadKeeps, BanKeeps, BetweenTestsKeeps, EnterKeeps, BeginStepKeeps, ResetKeeps,
       RequestKeeps, FetchKeeps, WritesKeep, CheckKeeps DEF Loop
  <2> QED
    BY <2>1, WritesKeep, BesideKeeps DEF Next
<1> QED
  BY <1>1, <1>2, PTL DEF Spec

-----------------------------------------------------------------------------
(* What the invariant gives *)

\* For any test file and whatever fails on the way, each test is reported once, in
\* order, and the totals add up (runTests).
THEOREM EveryTestCounted == Spec => []Accounting
<1>1. IInv => Accounting
  <2> SUFFICES ASSUME IInv, pc = "done" PROVE Accounting
    BY DEF Accounting
  <2>1. pc \in Loaded
    BY DEF Loaded
  <2>2. Len(suite) \in Nat /\ t = Len(suite) + 1 /\ Len(results) = Len(suite)
    BY <2>1, StepsOfTest DEF IInv, LoopInv, PlaceInv, ResultsInv
  <2>3. DOMAIN results = 1..Len(results)
    BY LenProperties DEF IInv, LoopInv, ResultsInv
  <2> QED
    BY <2>2, <2>3 DEF Accounting, IInv, LoopInv, ResultsInv
<1> QED
  BY <1>1, TestRunInvariant, PTL

\* The lines of one test are as many as its steps.
LEMMA LinesOfTest ==
  ASSUME NEW i \in Nat, NEW n \in Nat
  PROVE  Cardinality({<<i, k>> : k \in 1..n}) = n
<1> DEFINE P == {<<i, k>> : k \in 1..n}
           f == [k \in 1..n |-> <<i, k>>]
<1>1. \A j, k \in 1..n : <<i, j>> = <<i, k>> => j = k
  OBVIOUS
<1>2. f \in Bijection(1..n, P)
  <2>1. f \in [1..n -> P]
    OBVIOUS
  <2>2. \A j, k \in 1..n : f[j] = f[k] => j = k
    BY <1>1
  <2>3. \A p \in P : \E k \in 1..n : f[k] = p
    OBVIOUS
  <2> QED
    BY <2>1, <2>2, <2>3 DEF Bijection, Injection, Surjection, IsInjective
<1>3. IsFiniteSet(1..n) /\ Cardinality(1..n) = n
  BY FS_Interval
<1>4. ExistsBijection(1..n, P)
  BY <1>2 DEF ExistsBijection
<1> HIDE DEF P
<1>5. Cardinality(P) = n
  BY <1>3, <1>4, FS_Bijection
<1> QED
  BY <1>5 DEF P

\* For any test file: when no test ended in an error, each request that the file
\* has was made, once, and no other (validate, ApplyDefaults and the runners).
THEOREM NoRequestDropped == Spec => []EveryRequestMade
<1>1. IInv => EveryRequestMade
  <2> SUFFICES ASSUME IInv, pc = "done", \A i \in DOMAIN results : ~results[i].err,
                      NEW i \in DOMAIN docs
               PROVE  Cardinality({line \in ToSet(log \o vsl) : line[1] = i})
                        = Len(docs[i].scenario) + (IF docs[i].url # None THEN 1 ELSE 0)
    BY DEF EveryRequestMade
  <2> USE DEF IInv, LoopInv
  <2>1. pc \in Loaded
    BY DEF Loaded
  <2>2. /\ Len(suite) \in Nat /\ t = Len(suite) + 1 /\ Len(results) = Len(suite)
        /\ Len(docs) = Len(suite)
    BY <2>1, StepsOfTest DEF PlaceInv, ResultsInv, SuiteInv
  <2>3. DOMAIN results = 1..Len(results) /\ DOMAIN docs = 1..Len(docs)
    BY LenProperties, FilesAssumption DEF ResultsInv, SuiteInv
  <2>4. i \in 1..Len(suite) /\ i \in 1..(t - 1) /\ i \in Nat /\ i # t
    BY <2>2, <2>3
  <2>5. /\ NSteps(i) \in Nat
        /\ NSteps(i) = Len(docs[i].scenario) + (IF docs[i].url # None THEN 1 ELSE 0)
    BY <2>1, <2>4, StepsOfTest DEF WellFormed, NSteps
  <2>6. ToSet(log \o vsl) = Lines
    BY LinesFlushed DEF Lines, LinesInv
  <2>7. \A k \in 1..NSteps(i) : <<i, k>> \in Lines
    BY <2>2, <2>3, <2>4 DEF LinesInv
  <2>8. ASSUME NEW l \in Lines, l[1] = i
        PROVE  \E k \in 1..NSteps(i) : l = <<i, k>>
    <3>1. l \in Line
      <4>1. \A x \in ToSet(log) : x \in Line
        BY ElementOfSeq, LenProperties DEF ToSet, LinesInv
      <4>2. \A x \in ToSet(vsl) : x \in Line
        BY ElementOfSeq, LenProperties DEF ToSet, LinesInv
      <4> QED
        BY <4>1, <4>2 DEF Lines
    <3>2. l = <<l[1], l[2]>>
      BY <3>1 DEF Line
    <3>3. l[2] \in 1..NSteps(i)
      BY <2>4, <2>8 DEF LinesInv
    <3> QED
      BY <2>8, <3>2, <3>3
  <2>9. {line \in Lines : line[1] = i} = {<<i, k>> : k \in 1..NSteps(i)}
    <3>1. \A k \in 1..NSteps(i) : <<i, k>>[1] = i
      OBVIOUS
    <3> QED
      BY <2>7, <2>8, <3>1
  <2>10. Cardinality({<<i, k>> : k \in 1..NSteps(i)}) = NSteps(i)
    BY <2>4, <2>5, LinesOfTest
  <2> QED
    BY <2>5, <2>6, <2>9, <2>10
<1> QED
  BY <1>1, TestRunInvariant, PTL

-----------------------------------------------------------------------------
(* The cache *)

\* A step that fetches nothing: it goes on with the test, or leaves it.
LEMMA CacheKept ==
  ASSUME CacheInv, UNCHANGED <<cache, bg, bans>>, now' \in Int,
         pc' \in Running => pc \in Running /\ t' = t,
         pc' \in {"collect", "check"} => resp'.by = t'
  PROVE  CacheInv'
BY DEF CacheInv, CleanCache

\* The test in progress and its step are well-formed.
LEMMA StepInProgress ==
  ASSUME IInv, pc \in InStep
  PROVE  /\ t \in 1..Len(suite) /\ s \in 1..NSteps(t)
         /\ Step.at \in Int /\ Step.url \in DOMAIN UseBackend
<1> USE DEF IInv, LoopInv
<1>1. pc \in Loaded /\ pc \in Running
  BY DEF Loaded, Running
<1>2. t \in 1..Len(suite) /\ s \in 1..NSteps(t)
  BY <1>1, StepsOfTest DEF PlaceInv
<1>3. WellFormed(suite[t], docs[t])
  BY <1>1, <1>2, StepsOfTest
<1> QED
  BY <1>2, <1>3 DEF WellFormed, NSteps, Step, Test

\* The steps of the loop that do not touch the cache or the bans.
LEMMA QuietCache ==
  ASSUME IInv, CacheInv,
         \/ Load \/ ConfigureBackendsForTest \/ RunTestWithSharedVCL \/ Finish
         \/ BeginStep \/ ResetAndMark \/ FlushAndCollect \/ CheckStep
         \/ WriteLog \/ UNCHANGED vars
  PROVE  CacheInv'
<1> USE DEF fileVars, loopVars, extVars, logVars, outVars
<1>1. now \in Int /\ (pc \in {"collect", "check"} => resp.by = t)
  BY DEF CacheInv, CleanCache
<1>2. CASE Load \/ Finish
  <2>1. UNCHANGED <<cache, bg, bans, now>> /\ pc' \in {"ban", "rejected", "done"}
    BY <1>2 DEF Load, Finish
  <2>2. pc' \notin Running /\ pc' \notin {"collect", "check"}
    BY <2>1 DEF Running, InStep
  <2> QED
    BY <1>1, <2>1, <2>2, CacheKept
<1>3. CASE ConfigureBackendsForTest \/ ResetAndMark
  <2>1. /\ UNCHANGED <<cache, bg, bans, now, t>> /\ pc \in {"configure", "reset"}
        /\ pc' \in {"enter", "request"}
    BY <1>3 DEF ConfigureBackendsForTest, ResetAndMark
  <2>2. pc \in Running
    BY <2>1 DEF Running, InStep
  <2> QED
    BY <1>1, <2>1, <2>2, CacheKept
<1>4. CASE RunTestWithSharedVCL \/ CheckStep
  <2>1. /\ UNCHANGED <<cache, bg, bans, now>> /\ pc \in {"enter", "check"}
        /\ pc' = "ban" \/ (pc' \in {"step", "reset"} /\ t' = t)
    BY <1>4 DEF RunTestWithSharedVCL, CheckStep, Record
  <2>2. pc \in Running /\ "ban" \notin Running
    BY <2>1 DEF Running, InStep
  <2> QED
    BY <1>1, <2>1, <2>2, CacheKept
<1>5. CASE BeginStep
  <2>1. /\ UNCHANGED <<cache, bg, bans>> /\ pc = "step" /\ now' \in {now, Step.at}
        /\ pc' = "ban" \/ (pc' = "reset" /\ t' = t)
    BY <1>5 DEF BeginStep, Record, AdvanceTimeBy
  <2>2. pc \in Running /\ "ban" \notin Running /\ pc \in InStep
    BY <2>1 DEF Running, InStep
  <2>3. now' \in Int
    BY <1>1, <2>1, <2>2, StepInProgress
  <2> QED
    BY <1>1, <2>1, <2>2, <2>3, CacheKept
<1>6. CASE FlushAndCollect
  <2>1. UNCHANGED <<cache, bg, bans, now, t, resp>> /\ pc = "collect" /\ pc' = "check"
    BY <1>6 DEF FlushAndCollect
  <2>2. pc \in Running
    BY <2>1 DEF Running, InStep
  <2> QED
    BY <1>1, <2>1, <2>2, CacheKept
<1>7. CASE WriteLog \/ UNCHANGED vars
  <2>1. UNCHANGED <<cache, bg, bans, now, pc, t, resp>>
    BY <1>7 DEF WriteLog, vars
  <2> QED
    BY <1>1, <2>1, CacheKept
<1> QED
  BY <1>2, <1>3, <1>4, <1>5, <1>6, <1>7

\* An accepted ban leaves no object that is live.
LEMMA BanClears ==
  ASSUME ~BanRefusals, IInv, CacheInv, Ban
  PROVE  CacheInv'
<1> USE DEF extVars
<1>1. UNCHANGED <<cache, bg, now>> /\ now \in Int /\ bans \in Nat
  BY DEF Ban, CacheInv
<1>2. CASE bans' = bans + 1 /\ pc' = "configure"
  <2>1. \A n \in 0..bans : n \in 0..bans' /\ n # bans'
    BY <1>1, <1>2
  <2>2. bans' \in Nat /\ pc' \notin {"collect", "check"}
    BY <1>1, <1>2
  <2> QED
    BY <1>1, <2>1, <2>2 DEF CacheInv, CleanCache
<1>3. CASE (Record(FALSE, TRUE, {}) \/ pc' = "blocked") /\ UNCHANGED bans
  <2>1. pc' \notin Running /\ pc' \notin {"collect", "check"}
    BY <1>3 DEF Record, Running, InStep
  <2> QED
    BY <1>1, <1>3, <2>1, CacheKept
<1> QED
  BY <1>2, <1>3 DEF Ban

\* A hit is on an object of the test's own, and without grace nothing is stale.
LEMMA HitIsOwn ==
  ASSUME Grace = 0, IInv, CacheInv, MakeRequest
  PROVE  CacheInv'
<1> DEFINE obj == cache[Step.url]
<1>1. pc = "request" /\ pc \in Running /\ pc \in InStep /\ pc \notin {"collect", "check"}
  BY DEF MakeRequest, Running, InStep
<1>2. UNCHANGED <<cache, bans, now>> /\ now \in Int
  BY DEF MakeRequest, CacheInv
<1>3. Step.url \in DOMAIN UseBackend
  BY <1>1, StepInProgress
<1>4. Live(obj) => obj.by = t /\ obj.stored \in Int
  BY <1>1, <1>3 DEF CacheInv, Live
<1>5. ~Stale(obj)
  BY <1>2, <1>4, TestRunAssumption DEF Stale, Fresh
<1>6. CASE /\ Fresh(obj) /\ pc' = "collect" /\ UNCHANGED <<t, bg>>
           /\ resp' = [status |-> obj.status, hit |-> TRUE, age |-> Age(obj, now), by |-> obj.by]
  <2>1. resp'.by = t'
    BY <1>4, <1>6 DEF Fresh
  <2> QED
    BY <1>1, <1>2, <1>6, <2>1, CacheKept
<1>7. CASE pc' = "fetch" /\ UNCHANGED <<t, bg>>
  BY <1>1, <1>2, <1>7, CacheKept
<1>8. CASE Record(FALSE, TRUE, {}) /\ UNCHANGED bg
  <2>1. pc' = "ban" /\ "ban" \notin Running
    BY <1>8 DEF Record, Running, InStep
  <2> QED
    BY <1>2, <1>8, <2>1, CacheKept
<1>9. \/ /\ Fresh(obj) /\ pc' = "collect" /\ UNCHANGED <<t, bg>>
         /\ resp' = [status |-> obj.status, hit |-> TRUE, age |-> Age(obj, now), by |-> obj.by]
      \/ Stale(obj)
      \/ pc' = "fetch" /\ UNCHANGED <<t, bg>>
      \/ Record(FALSE, TRUE, {}) /\ UNCHANGED bg
  BY Zenon DEF MakeRequest
<1> QED
  BY <1>5, <1>6, <1>7, <1>8, <1>9

\* A fetched object belongs to the test that asked for it.
LEMMA FetchIsOwn ==
  ASSUME IInv, CacheInv, Fetch
  PROVE  CacheInv'
<1>1. /\ pc = "fetch" /\ pc' = "collect" /\ UNCHANGED <<t, now, bans, bg>>
      /\ resp'.by = t
  BY DEF Fetch
<1>2. pc \in Running /\ pc \in InStep
  BY <1>1 DEF Running, InStep
<1>3. Step.url \in DOMAIN UseBackend
  BY <1>2, StepInProgress
<1>4. PICK status : cache' = Stored(Step.url, status, t)
  BY DEF Fetch
<1> DEFINE o == Object(status, t)
<1>5. o.stored = now /\ o.ban = bans /\ o.by = t
  BY DEF Object
<1>6. cache' = cache \/ cache' = [cache EXCEPT ![Step.url] = o]
  BY <1>4 DEF Stored
<1> HIDE DEF o
<1>7. CASE cache' = cache
  BY <1>1, <1>2, <1>7, CacheKept DEF CacheInv
<1>8. CASE cache' = [cache EXCEPT ![Step.url] = o]
  <2>1. now \in Int /\ bans \in Nat /\ cache = [u \in DOMAIN UseBackend |-> cache[u]]
    BY DEF CacheInv
  <2>2. /\ cache' = [u \in DOMAIN UseBackend |-> cache'[u]]
        /\ \A u \in DOMAIN UseBackend : cache'[u] = IF u = Step.url THEN o ELSE cache[u]
    BY <1>3, <1>8, <2>1
  <2>3. \A u \in DOMAIN UseBackend : cache'[u] # None =>
          /\ cache'[u].stored \in Int /\ cache'[u].ban \in 0..bans
          /\ cache'[u].ban = bans => cache'[u].by = t
    BY <1>2, <1>5, <2>1, <2>2 DEF CacheInv
  <2> QED
    BY <1>1, <2>1, <2>2, <2>3 DEF CacheInv, CleanCache
<1> QED
  BY <1>6, <1>7, <1>8

\* The invariant of the cache holds throughout.
LEMMA CacheInvariant ==
  ASSUME ~BanRefusals, Grace = 0
  PROVE  Spec => []CacheInv
<1>1. Init => CacheInv
  BY DEF Init, CacheInv, CleanCache, Running, InStep
<1>2. IInv /\ CacheInv /\ [Next]_vars => CacheInv'
  <2> SUFFICES ASSUME IInv, CacheInv, [Next]_vars PROVE CacheInv'
    OBVIOUS
  <2>1. ~BackgroundCall /\ ~BackgroundStore
    BY DEF BackgroundCall, BackgroundStore, CacheInv
  <2> QED
    BY <2>1, QuietCache, BanClears, HitIsOwn, FetchIsOwn DEF Next, Loop
<1> QED
  BY <1>1, <1>2, TestRunInvariant, PTL DEF Spec

\* When bans are accepted and objects have no grace, no response comes from an
\* object an earlier test fetched, for any test file, TTL and VCL, also when the
\* clock is set back ("Nuke the cache before each test", runTests).
THEOREM CacheIsClean ==
  ASSUME ~BanRefusals, Grace = 0
  PROVE  Spec => []CleanCache
<1>1. CacheInv => CleanCache
  BY DEF CacheInv
<1> QED
  BY <1>1, CacheInvariant, PTL

-----------------------------------------------------------------------------
(* The traces *)

InRequest == {"request", "fetch", "collect", "check"}

\* The traces of the results so far are as they should be.
TracesInv == SingleTraceIsOwn /\ ScenarioTraceComplete

\* Nothing fails when no fault is left.
LEMMA NoFault ==
  ASSUME MaxFaults = 0, IInv
  PROVE  ~Fault
BY DEF Fault, IInv, LoopInv, PlaceInv

\* One more result, with the right trace.
LEMMA TracesGrow ==
  ASSUME IInv, TracesInv, UNCHANGED suite, pc \in Running,
         NEW passed \in BOOLEAN, NEW err \in BOOLEAN, NEW trace \in SUBSET Line,
         Record(passed, err, trace),
         ~passed /\ ~err /\ ~suite[t].scenario => trace = {<<t, 1>>},
         ~passed /\ ~err /\ suite[t].scenario =>
           /\ {<<t, k>> : k \in DOMAIN suite[t].steps} \subseteq trace
           /\ \A line \in trace : line[1] <= t
  PROVE  TracesInv'
<1>1. pc \in Loaded
  BY DEF Loaded
<1>2. t \in Nat \ {0}
  BY <1>1, StepsOfTest DEF IInv, LoopInv, PlaceInv
<1> DEFINE o == [passed |-> passed, err |-> err, trace |-> trace]
<1>3. /\ \A i \in 1..(t - 1) : results'[i] = results[i]
      /\ results'[t] = o
      /\ DOMAIN results = 1..(t - 1) /\ DOMAIN results' = 1..t
  BY <1>2, Recorded DEF IInv, LoopInv
<1>4. o.passed = passed /\ o.err = err /\ o.trace = trace
  OBVIOUS
<1> HIDE DEF o
<1>5. \A i \in 1..t : i \in 1..(t - 1) \/ i = t
  BY <1>2
<1>6. ASSUME NEW i \in DOMAIN results', ~suite[i].scenario, ~results'[i].passed, ~results'[i].err
      PROVE  results'[i].trace = {<<i, 1>>}
  <2>1. CASE i \in 1..(t - 1)
    BY <1>3, <1>6, <2>1 DEF TracesInv, SingleTraceIsOwn
  <2>2. CASE i = t
    BY <1>3, <1>4, <1>6, <2>2
  <2> QED
    BY <1>3, <1>5, <2>1, <2>2
<1>7. ASSUME NEW i \in DOMAIN results', suite[i].scenario, ~results'[i].passed, ~results'[i].err
      PROVE  /\ {<<i, k>> : k \in DOMAIN suite[i].steps} \subseteq results'[i].trace
             /\ \A line \in results'[i].trace : line[1] <= i
  <2>1. CASE i \in 1..(t - 1)
    BY <1>3, <1>7, <2>1 DEF TracesInv, ScenarioTraceComplete
  <2>2. CASE i = t
    BY <1>3, <1>4, <1>7, <2>2
  <2> QED
    BY <1>3, <1>5, <2>1, <2>2
<1> QED
  BY <1>6, <1>7 DEF TracesInv, SingleTraceIsOwn, ScenarioTraceComplete

\* The steps between two requests of the loop.
LEMMA QuietTrace ==
  ASSUME MaxFaults = 0, IInv, TraceInv,
         \/ Load \/ Ban \/ ConfigureBackendsForTest \/ RunTestWithSharedVCL \/ Finish
         \/ BeginStep
  PROVE  TraceInv'
<1> USE DEF fileVars, logVars, outVars
<1>1. ~Fault
  BY NoFault
<1>2. TracesInv /\ (vsl # <<>> => pc = "collect")
  BY DEF TraceInv, TracesInv
<1>3. vsl' = <<>> /\ pc' \notin InRequest
  <2>1. pc # "collect" /\ vsl' = vsl
    BY DEF Load, Ban, ConfigureBackendsForTest, RunTestWithSharedVCL, Finish, BeginStep
  <2>2. pc' \notin InRequest
    BY DEF Load, Ban, ConfigureBackendsForTest, RunTestWithSharedVCL, Finish, BeginStep, Record,
       InRequest
  <2> QED
    BY <1>2, <2>1, <2>2
<1>4. TracesInv'
  <2>1. CASE Load
    <3>1. results' = results /\ pc = "load"
      BY <2>1 DEF Load
    <3>2. suite = <<>> /\ Len(<<>>) = 0
      BY <3>1 DEF IInv, LoopInv, SuiteInv
    <3>3. results \in Seq(Outcome) /\ Len(results) = 0
      BY <3>2 DEF IInv, LoopInv, PlaceInv, ResultsInv
    <3>4. DOMAIN results' = {}
      BY <3>1, <3>3, LenProperties
    <3> QED
      BY <3>4 DEF TracesInv, SingleTraceIsOwn, ScenarioTraceComplete
  <2>2. CASE RunTestWithSharedVCL /\ Record(FALSE, TRUE, {})
    <3>1. pc \in Running /\ UNCHANGED suite
      BY <2>2 DEF RunTestWithSharedVCL, Running
    <3> QED
      BY <1>2, <2>2, <3>1, TracesGrow
  <2>3. CASE UNCHANGED <<suite, results>>
    BY <1>2, <2>3 DEF TracesInv, SingleTraceIsOwn, ScenarioTraceComplete
  <2> QED
    BY <1>1, <2>1, <2>2, <2>3
       DEF Ban, ConfigureBackendsForTest, RunTestWithSharedVCL, Finish, BeginStep
<1> QED
  BY <1>3, <1>4 DEF TraceInv, TracesInv, InRequest

\* The log is marked at its end.
LEMMA MarkSet ==
  ASSUME MaxFaults = 0, IInv, TraceInv, ResetAndMark
  PROVE  TraceInv'
<1>1. /\ pc = "reset" /\ pc' = "request" /\ UNCHANGED <<suite, t, vsl, log, results>>
      /\ mark' = IF Test.scenario THEN 0 ELSE Len(log)
  BY NoFault DEF ResetAndMark, fileVars, outVars
<1>2. vsl' = <<>>
  BY <1>1 DEF TraceInv
<1>3. SingleTraceIsOwn' /\ ScenarioTraceComplete'
  BY <1>1 DEF TraceInv, SingleTraceIsOwn, ScenarioTraceComplete
<1>4. IF suite'[t'].scenario THEN mark' = 0 ELSE Marked'
  BY <1>1 DEF Marked, Test
<1> QED
  BY <1>2, <1>3, <1>4 DEF TraceInv

\* The answered request is the one line behind the mark.
LEMMA LineMarked ==
  ASSUME MaxFaults = 0, IInv, TraceInv, MakeRequest \/ Fetch
  PROVE  TraceInv'
<1> USE DEF fileVars, outVars
<1>1. /\ pc \in {"request", "fetch"} /\ UNCHANGED <<suite, t, s, log, mark, results>>
      /\ \/ pc' = "collect" /\ vsl' = Append(vsl, <<t, s>>)
         \/ pc' = "fetch" /\ vsl' = vsl
  BY NoFault DEF MakeRequest, Fetch
<1>2. vsl = <<>> /\ log \in Seq(Line) /\ Len(log) \in Nat
  BY <1>1, LenProperties DEF TraceInv, IInv, LinesInv
<1>3. SingleTraceIsOwn' /\ ScenarioTraceComplete'
  BY <1>1 DEF TraceInv, SingleTraceIsOwn, ScenarioTraceComplete
<1>4. IF suite[t].scenario THEN mark = 0 ELSE mark = Len(log)
  BY <1>1 DEF TraceInv, Marked
<1>5. CASE pc' = "fetch" /\ vsl' = vsl
  <2>1. IF suite'[t'].scenario THEN mark' = 0 ELSE Marked'
    BY <1>1, <1>4, <1>5 DEF Marked
  <2> QED
    BY <1>2, <1>3, <1>5, <2>1 DEF TraceInv
<1>6. CASE pc' = "collect" /\ vsl' = Append(vsl, <<t, s>>)
  <2>1. vsl' = <<<<t, s>>>>
    BY <1>2, <1>6
  <2>2. Len(vsl') = 1 /\ vsl'[1] = <<t, s>>
    BY <2>1
  <2>3. ~suite[t].scenario => s = 1
    <3>1. pc \in InStep /\ pc \in Loaded
      BY <1>1 DEF InStep, Loaded, Running
    <3> QED
      BY <3>1, StepInProgress, StepsOfTest DEF IInv, LoopInv
  <2>4. ASSUME ~suite[t].scenario PROVE Marked'
    <3>1. Len(log) + Len(vsl') = mark + 1 /\ \A i \in (mark + 1)..Len(log) : FALSE
      BY <1>2, <1>4, <2>2, <2>4
    <3>2. \A i \in 1..Len(vsl') : vsl'[i] = <<t, 1>>
      BY <2>2, <2>3, <2>4
    <3> QED
      BY <1>1, <1>6, <3>1, <3>2 DEF Marked
  <2> QED
    BY <1>1, <1>3, <1>4, <1>6, <2>4 DEF TraceInv
<1> QED
  BY <1>1, <1>5, <1>6

\* A line that is written to the file stays behind the mark.
LEMMA LineWritten ==
  ASSUME FlushTimely, IInv, TraceInv, FlushAndCollect \/ WriteLog
  PROVE  TraceInv'
<1>1. /\ pc = "collect" /\ pc' \in {"collect", "check"}
      /\ UNCHANGED <<suite, t, mark, results>>
      /\ log' = log \o vsl /\ vsl' = <<>>
  BY DEF FlushAndCollect, WriteLog, Flush, TraceInv, fileVars, loopVars, outVars
<1>2. SingleTraceIsOwn' /\ ScenarioTraceComplete'
  BY <1>1 DEF TraceInv, SingleTraceIsOwn, ScenarioTraceComplete
<1>3. log \in Seq(Line) /\ vsl \in Seq(Line) /\ mark \in Nat
  BY DEF IInv, LinesInv
<1>4. /\ Len(log') = Len(log) + Len(vsl) /\ Len(log) \in Nat /\ Len(vsl) \in Nat
      /\ \A i \in 1..Len(log) : log'[i] = log[i]
      /\ \A i \in (Len(log) + 1)..(Len(log) + Len(vsl)) :
           i - Len(log) \in 1..Len(vsl) /\ log'[i] = vsl[i - Len(log)]
  BY <1>1, <1>3, LinesFlushed
<1>5. ASSUME ~suite[t].scenario PROVE Marked'
  <2>1. /\ Len(log) + Len(vsl) = mark + 1
        /\ \A i \in (mark + 1)..Len(log) : log[i] = <<t, 1>>
        /\ \A i \in 1..Len(vsl) : vsl[i] = <<t, 1>>
    BY <1>1, <1>5 DEF TraceInv, Marked
  <2>2. ASSUME NEW i \in (mark + 1)..Len(log')
        PROVE  log'[i] = <<t, 1>>
    <3>1. CASE i <= Len(log)
      <4>1. i \in 1..Len(log) /\ i \in (mark + 1)..Len(log)
        BY <1>3, <1>4, <3>1
      <4> QED
        BY <1>4, <2>1, <4>1
    <3>2. CASE i > Len(log)
      <4>1. i \in (Len(log) + 1)..(Len(log) + Len(vsl))
        BY <1>3, <1>4, <3>2
      <4> QED
        BY <1>4, <2>1, <4>1
    <3> QED
      BY <1>3, <1>4, <3>1, <3>2
  <2>3. Len(vsl') = 0
    BY <1>1
  <2>4. Len(log') + Len(vsl') = mark' + 1 /\ \A i \in 1..Len(vsl') : FALSE
    BY <1>1, <1>4, <2>1, <2>3
  <2> QED
    BY <1>1, <2>2, <2>4 DEF Marked
<1> QED
  BY <1>1, <1>2, <1>5 DEF TraceInv

\* The trace of a failed test is what is behind the mark.
LEMMA TraceBuilt ==
  ASSUME MaxFaults = 0, IInv, TraceInv, CheckStep
  PROVE  TraceInv'
<1> USE DEF fileVars, logVars, outVars
<1> DEFINE bad == failed \/ ~Check(Step.expect, resp, seen)
<1>1. /\ pc = "check" /\ pc \in Running /\ pc \in InStep /\ pc \in Loaded
      /\ UNCHANGED <<suite, vsl, log, mark>>
  BY DEF CheckStep, Running, InStep, Loaded
<1>2. vsl = <<>> /\ ToSet(<<>>) = {} /\ Len(<<>>) = 0
  BY <1>1 DEF TraceInv, ToSet
<1>3. TracesInv
  BY DEF TraceInv, TracesInv
<1>4. bad \in BOOLEAN
  BY DEF IInv, LoopInv, PlaceInv
<1>5. \/ pc' = "step" /\ UNCHANGED results
      \/ s = NSteps(t) /\ Record(~bad, FALSE, IF bad THEN TraceSince(mark) ELSE {})
  BY NoFault DEF CheckStep, Test, NSteps
<1> HIDE DEF bad
<1>6. CASE pc' = "step" /\ UNCHANGED results
  <2>1. SingleTraceIsOwn' /\ ScenarioTraceComplete'
    BY <1>1, <1>3, <1>6 DEF TracesInv, SingleTraceIsOwn, ScenarioTraceComplete
  <2> QED
    BY <1>1, <1>2, <1>6, <2>1 DEF TraceInv
<1>7. CASE s = NSteps(t) /\ Record(~bad, FALSE, IF bad THEN TraceSince(mark) ELSE {})
  <2>1. /\ log \in Seq(Line) /\ mark \in Nat /\ Len(log) \in Nat /\ DOMAIN log = 1..Len(log)
        /\ TraceSince(mark) \in SUBSET Line
    BY LenProperties, TraceType DEF IInv, LinesInv
  <2>2. t \in 1..Len(suite) /\ s \in 1..NSteps(t)
    BY <1>1, StepInProgress
  <2>3. ASSUME ~suite[t].scenario
        PROVE  TraceSince(mark) = {<<t, 1>>}
    <3>1. /\ Len(log) + Len(vsl) = mark + 1
          /\ \A i \in (mark + 1)..Len(log) : log[i] = <<t, 1>>
      BY <1>1, <2>3 DEF TraceInv, Marked
    <3>2. Len(vsl) = 0
      BY <1>2
    <3>3. mark + 1 \in (mark + 1)..Len(log)
      BY <2>1, <3>1, <3>2
    <3> DEFINE l1 == <<t, 1>>
    <3> HIDE DEF l1
    <3>4. {log[i] : i \in (mark + 1)..Len(log)} = {l1}
      BY <3>1, <3>3 DEF l1
    <3> QED
      BY <3>4 DEF TraceSince, l1
  <2>4. ASSUME suite[t].scenario
        PROVE  /\ {<<t, k>> : k \in DOMAIN suite[t].steps} \subseteq TraceSince(mark)
               /\ \A line \in TraceSince(mark) : line[1] <= t
    <3>1. mark = 0 /\ 0 + 1 = 1
      BY <1>1, <2>4 DEF TraceInv
    <3>2. TraceSince(mark) = Lines
      BY <1>2, <2>1, <3>1 DEF TraceSince, Lines, ToSet
    <3>3. WellFormed(suite[t], docs[t])
      BY <1>1, <2>2, StepsOfTest DEF IInv, LoopInv
    <3>4. DOMAIN suite[t].steps = 1..NSteps(t)
      BY <3>3 DEF WellFormed, NSteps
    <3>5. Answered = 1..NSteps(t)
      BY <1>1, <1>7 DEF Answered
    <3>6. \A k \in DOMAIN suite[t].steps : <<t, k>> \in Lines
      BY <3>4, <3>5 DEF IInv, LinesInv
    <3>7. \A line \in Lines : line[1] <= t
      <4>1. Len(suite) \in Nat
        BY <1>1, StepsOfTest DEF IInv, LoopInv
      <4> QED
        BY <2>2, <4>1 DEF IInv, LinesInv
    <3> QED
      BY <3>2, <3>6, <3>7
  <2>5. (~bad) \in BOOLEAN
    BY <1>4
  <2>6. (IF bad THEN TraceSince(mark) ELSE {}) \in SUBSET Line
    BY <2>1
  <2>7. TracesInv'
    <3>1. CASE bad
      <4>1. Record(FALSE, FALSE, TraceSince(mark))
        BY <1>4, <1>7, <3>1
      <4> QED
        BY <1>1, <1>3, <2>1, <2>3, <2>4, <4>1, TracesGrow
    <3>2. CASE ~bad
      <4>1. Record(TRUE, FALSE, {})
        BY <1>4, <1>7, <3>2
      <4> QED
        BY <1>1, <1>3, <4>1, TracesGrow
    <3> QED
      BY <3>1, <3>2
  <2>8. pc' = "ban"
    BY <1>7 DEF Record
  <2> QED
    BY <1>1, <1>2, <2>7, <2>8 DEF TraceInv, TracesInv
<1> QED
  BY <1>5, <1>6, <1>7

\* What runs beside the loop and writes nothing.
LEMMA BesideTrace ==
  ASSUME TraceInv, BackgroundCall \/ BackgroundStore \/ UNCHANGED vars
  PROVE  TraceInv'
<1>1. UNCHANGED <<suite, pc, t, vsl, log, mark, results>>
  BY DEF BackgroundCall, BackgroundStore, vars, fileVars, loopVars, logVars, outVars
<1>2. SingleTraceIsOwn' /\ ScenarioTraceComplete'
  BY <1>1 DEF TraceInv, SingleTraceIsOwn, ScenarioTraceComplete
<1>3. Marked' <=> Marked
  BY <1>1 DEF Marked
<1> QED
  BY <1>1, <1>2, <1>3 DEF TraceInv

\* When the flush is in time and nothing fails, the lines behind the mark are those
\* of the running test, at each point of a request (MarkPosition, Flush and
\* GetVCLMessagesSince).
THEOREM TraceInvariant ==
  ASSUME FlushTimely, MaxFaults = 0
  PROVE  Spec => []TraceInv
<1>1. Init => TraceInv
  BY DEF Init, TraceInv, SingleTraceIsOwn, ScenarioTraceComplete
<1>2. IInv /\ TraceInv /\ [Next]_vars => TraceInv'
  <2> SUFFICES ASSUME IInv, TraceInv, [Next]_vars PROVE TraceInv'
    OBVIOUS
  <2> QED
    BY QuietTrace, MarkSet, LineMarked, LineWritten, TraceBuilt, BesideTrace DEF Next, Loop
<1> QED
  BY <1>1, <1>2, TestRunInvariant, PTL DEF Spec

\* Then the trace of a failed single-request test has the line of its own request
\* and no other, whatever the tests before it left in the log.
THEOREM TraceIsOwn ==
  ASSUME FlushTimely, MaxFaults = 0
  PROVE  Spec => []SingleTraceIsOwn
<1>1. TraceInv => SingleTraceIsOwn
  BY DEF TraceInv
<1> QED
  BY <1>1, TraceInvariant, PTL

\* And the trace of a failed scenario has the lines of all its requests, and none
\* of a later test.
THEOREM TraceIsComplete ==
  ASSUME FlushTimely, MaxFaults = 0
  PROVE  Spec => []ScenarioTraceComplete
<1>1. TraceInv => ScenarioTraceComplete
  BY DEF TraceInv
<1> QED
  BY <1>1, TraceInvariant, PTL

-----------------------------------------------------------------------------
(* Induction, and the recursive definitions *)

\* A set of numbers that is not empty has a least one.
LEMMA LeastOf ==
  ASSUME NEW S \in SUBSET Nat, S # {}
  PROVE  \E m \in S : \A j \in S : m <= j
<1>1. PICK m \in S : \A j \in S : ~(<<j, m>> \in OpToRel(<, Nat))
  BY NatLessThanWellFounded, WFMin
<1>2. ASSUME NEW j \in S
      PROVE  m <= j
  <2>1. m \in Nat /\ j \in Nat /\ ~(j < m)
    BY <1>1 DEF OpToRel
  <2> QED
    BY <2>1
<1> QED
  BY <1>2

\* AloneRun is well defined: it begins with the test's configuration and goes on step
\* by step.
LEMMA AloneUnrolled ==
  ASSUME NEW test, NEW conf, NEW warm, Len(test.steps) \in Nat
  PROVE  /\ AloneRun(test, conf, warm)[0] = AloneStart(test, conf, warm)
         /\ \A k \in 1..Len(test.steps) :
              AloneRun(test, conf, warm)[k]
                = AloneStep(AloneRun(test, conf, warm)[k - 1], test.steps[k])
<1> DEFINE n == Len(test.steps)
           start == AloneStart(test, conf, warm)
           IsRun(g, m) == g = [k \in 0..m |-> IF k = 0 THEN start
                                              ELSE AloneStep(g[k - 1], test.steps[k])]
           Bad == {m \in Nat : ~\E g : IsRun(g, m)}
<1> HIDE DEF start
<1>1. Bad = {}
  <2> SUFFICES ASSUME Bad # {} PROVE FALSE
    OBVIOUS
  <2>1. PICK m \in Bad : \A j \in Bad : m <= j
    BY LeastOf
  <2>2. CASE m = 0
    <3>1. IsRun([k \in 0..0 |-> start], 0)
      OBVIOUS
    <3> QED
      BY <2>1, <2>2, <3>1
  <2>3. CASE m # 0
    <3>0. m \in Nat /\ m - 1 \in Nat /\ ~(m <= m - 1)
      BY <2>1, <2>3
    <3>1. m \in Nat /\ m - 1 \in Nat /\ m - 1 \notin Bad
      BY <2>1, <3>0
    <3>2. PICK g : IsRun(g, m - 1)
      BY <3>1
    <3> DEFINE h == [k \in 0..m |-> IF k = m THEN AloneStep(g[m - 1], test.steps[m]) ELSE g[k]]
    <3>3. \A k \in 0..(m - 1) :
            /\ h[k] = g[k] /\ k \in 0..m
            /\ g[k] = IF k = 0 THEN start ELSE AloneStep(g[k - 1], test.steps[k])
      <4> TAKE k \in 0..(m - 1)
      <4>1. k \in 0..m /\ k # m
        BY <3>1
      <4>2. h[k] = g[k]
        BY <4>1
      <4>3. g[k] = IF k = 0 THEN start ELSE AloneStep(g[k - 1], test.steps[k])
        BY <3>2
      <4> QED
        BY <4>1, <4>2, <4>3, Zenon
    <3>4. h[m] = AloneStep(g[m - 1], test.steps[m]) /\ h = [k \in 0..m |-> h[k]]
      BY <3>1
    <3> HIDE DEF h
    <3>5. ASSUME NEW k \in 0..m
          PROVE  h[k] = IF k = 0 THEN start ELSE AloneStep(h[k - 1], test.steps[k])
      <4>1. CASE k = m
        <5>1. m - 1 \in 0..(m - 1)
          BY <3>1
        <5> QED
          BY <2>3, <3>3, <3>4, <4>1, <5>1
      <4>2. CASE k # m
        <5>1. k \in 0..(m - 1) /\ (k # 0 => k - 1 \in 0..(m - 1))
          BY <3>1, <4>2
        <5> QED
          BY <3>3, <4>2, <5>1
      <4> QED
        BY <4>1, <4>2
    <3>6. IsRun(h, m)
      BY <3>4, <3>5
    <3> QED
      BY <2>1, <3>6
  <2> QED
    BY <2>2, <2>3
<1>2. PICK g : IsRun(g, n)
  BY <1>1
<1> DEFINE r == AloneRun(test, conf, warm)
<1>3. IsRun(r, n)
  BY <1>2 DEF AloneRun, start
<1> HIDE DEF r
<1>4. r[0] = start /\ \A k \in 1..n : r[k] = AloneStep(r[k - 1], test.steps[k])
  BY <1>3
<1> QED
  BY <1>4 DEF r, start

\* LeftBehind is well defined.
LEMMA LeftUnrolled ==
  ASSUME NEW tests, Len(tests) \in Nat
  PROVE  /\ LeftBehind(tests, 0) = StartConfig(tests)
         /\ \A n \in 1..Len(tests) :
              LeftBehind(tests, n)
                = AloneRun(tests[n], LeftBehind(tests, n - 1), n > 1)[Len(tests[n].steps)].cfg
<1> DEFINE n == Len(tests)
           start == StartConfig(tests)
           After(c, k) == AloneRun(tests[k], c, k > 1)[Len(tests[k].steps)].cfg
           IsRun(g, m) == g = [k \in 0..m |-> IF k = 0 THEN start ELSE After(g[k - 1], k)]
           Bad == {m \in Nat : ~\E g : IsRun(g, m)}
<1> HIDE DEF start, After
<1>1. Bad = {}
  <2> SUFFICES ASSUME Bad # {} PROVE FALSE
    OBVIOUS
  <2>1. PICK m \in Bad : \A j \in Bad : m <= j
    BY LeastOf
  <2>2. CASE m = 0
    <3>1. IsRun([k \in 0..0 |-> start], 0)
      OBVIOUS
    <3> QED
      BY <2>1, <2>2, <3>1
  <2>3. CASE m # 0
    <3>0. m \in Nat /\ m - 1 \in Nat /\ ~(m <= m - 1)
      BY <2>1, <2>3
    <3>1. m \in Nat /\ m - 1 \in Nat /\ m - 1 \notin Bad
      BY <2>1, <3>0
    <3>2. PICK g : IsRun(g, m - 1)
      BY <3>1
    <3> DEFINE h == [k \in 0..m |-> IF k = m THEN After(g[m - 1], m) ELSE g[k]]
    <3>3. \A k \in 0..(m - 1) :
            /\ h[k] = g[k] /\ k \in 0..m
            /\ g[k] = IF k = 0 THEN start ELSE After(g[k - 1], k)
      BY <3>1, <3>2
    <3>4. h[m] = After(g[m - 1], m) /\ h = [k \in 0..m |-> h[k]]
      BY <3>1
    <3> HIDE DEF h
    <3>5. ASSUME NEW k \in 0..m
          PROVE  h[k] = IF k = 0 THEN start ELSE After(h[k - 1], k)
      <4>1. CASE k = m
        <5>1. m - 1 \in 0..(m - 1)
          BY <3>1
        <5> QED
          BY <2>3, <3>3, <3>4, <4>1, <5>1
      <4>2. CASE k # m
        <5>1. k \in 0..(m - 1) /\ (k # 0 => k - 1 \in 0..(m - 1))
          BY <3>1, <4>2
        <5> QED
          BY <3>3, <4>2, <5>1
      <4> QED
        BY <4>1, <4>2
    <3>6. IsRun(h, m)
      BY <3>4, <3>5
    <3> QED
      BY <2>1, <3>6
  <2> QED
    BY <2>2, <2>3
<1>2. PICK g : IsRun(g, n)
  BY <1>1
<1> DEFINE left == CHOOSE f : IsRun(f, n)
<1>3. IsRun(left, n)
  BY <1>2
<1>4. \A k \in 0..n : LeftBehind(tests, k) = left[k]
  BY DEF LeftBehind, start, After
<1> HIDE DEF left
<1>5. left[0] = start /\ \A k \in 1..n : left[k] = After(left[k - 1], k)
  BY <1>3
<1>6. \A k \in 1..n :
        k - 1 \in 0..n /\ k \in 0..n /\ LeftBehind(tests, k) = After(LeftBehind(tests, k - 1), k)
  BY <1>4, <1>5
<1>7. LeftBehind(tests, 0) = start
  BY <1>4, <1>5
<1> QED
  BY <1>6, <1>7 DEF start, After

-----------------------------------------------------------------------------
(* Configurations *)

\* Configurations for the backends in D that a mock can serve.
Proper(conf, D) ==
  /\ DOMAIN conf = D /\ conf = [b \in D |-> conf[b]]
  /\ Specs(conf) /\ \A b \in D : conf[b].status # 0

\* A test that has what the loop asks of its backends and steps.
Furnished(test, D) ==
  /\ Specs(test.backends) /\ DOMAIN test.backends \subseteq D
  /\ \A k \in 1..Len(test.steps) :
       /\ Specs(test.steps[k].backends) /\ test.steps[k].url \in DOMAIN UseBackend
       /\ UseBackend[test.steps[k].url] \in D

\* UpdateConfig makes a status 0 into 200 and keeps the rest.
LEMMA DefaultProper ==
  ASSUME NEW specs, Specs(specs), NEW b \in DOMAIN specs
  PROVE  /\ DOMAIN Default(specs[b]) = {"status", "mode", "routes"}
         /\ Default(specs[b]).status \in Nat \ {0}
         /\ Default(specs[b]).routes = specs[b].routes
<1> DEFINE c == specs[b]
<1>1. DOMAIN c = {"status", "mode", "routes"} /\ c.status \in Nat
  BY DEF Specs
<1> HIDE DEF c
<1> QED
  BY <1>1 DEF Default, c

\* The same for all the mocks a test names.
LEMMA UpdateProper ==
  ASSUME NEW D, NEW conf, NEW specs, Proper(conf, D), Specs(specs)
  PROVE  Proper(Update(conf, specs), D)
<1> DEFINE u == Update(conf, specs)
<1>1. u = [b \in D |-> IF b \in DOMAIN specs THEN Default(specs[b]) ELSE conf[b]]
  BY DEF Update, Proper
<1>2. DOMAIN u = D /\ u = [b \in D |-> u[b]]
  BY <1>1
<1>3. ASSUME NEW b \in D
      PROVE  /\ DOMAIN u[b] = {"status", "mode", "routes"} /\ u[b].status \in Nat \ {0}
             /\ \A x \in DOMAIN u[b].routes : u[b].routes[x].status \in Nat
  <2>1. CASE b \in DOMAIN specs
    <3>1. u[b] = Default(specs[b])
      BY <1>1, <2>1
    <3> QED
      BY <2>1, <3>1, DefaultProper DEF Specs
  <2>2. CASE b \notin DOMAIN specs
    <3>1. u[b] = conf[b]
      BY <1>1, <2>2
    <3> QED
      BY <3>1 DEF Proper, Specs
  <2> QED
    BY <2>1, <2>2
<1> HIDE DEF u
<1>4. Proper(u, D)
  BY <1>2, <1>3 DEF Proper, Specs
<1> QED
  BY <1>4 DEF u

\* The mocks start with configurations they can serve.
LEMMA StartProper ==
  ASSUME NEW tests, NEW n \in Nat, DOMAIN tests = 1..n,
         \A i \in 1..n : Specs(tests[i].backends)
  PROVE  Proper(StartConfig(tests), Mocks(tests))
<1> DEFINE D == Mocks(tests)
           naming(b) == {i \in DOMAIN tests : b \in DOMAIN tests[i].backends}
           first(b) == CHOOSE i \in naming(b) : \A j \in naming(b) : i <= j
           c == StartConfig(tests)
           val(b) == IF naming(b) = {} THEN [status |-> 200, mode |-> "", routes |-> <<>>]
                     ELSE Default(tests[first(b)].backends[b])
<1>1. c = [b \in D |-> val(b)]
  BY DEF StartConfig
<1> HIDE DEF c, val
<1>2. DOMAIN c = D /\ c = [b \in D |-> c[b]]
  BY <1>1
<1>3. ASSUME NEW b \in D
      PROVE  /\ DOMAIN c[b] = {"status", "mode", "routes"} /\ c[b].status \in Nat \ {0}
             /\ \A x \in DOMAIN c[b].routes : c[b].routes[x].status \in Nat
  <2>1. CASE naming(b) = {}
    <3> DEFINE e == <<>>
               rec == [status |-> 200, mode |-> "", routes |-> e]
    <3>0. c[b] = val(b)
      BY <1>1
    <3>1. c[b] = rec
      BY <2>1, <3>0 DEF val
    <3>3. DOMAIN e = {}
      OBVIOUS
    <3> HIDE DEF e
    <3>2. DOMAIN rec = {"status", "mode", "routes"} /\ rec.status = 200 /\ rec.routes = e
      OBVIOUS
    <3> HIDE DEF rec
    <3> QED
      BY <3>1, <3>2, <3>3
  <2>2. CASE naming(b) # {}
    <3>1. naming(b) \in SUBSET Nat
      OBVIOUS
    <3>2. first(b) \in naming(b)
      <4> DEFINE S == naming(b)
      <4>1. S \in SUBSET Nat /\ S # {}
        BY <2>2, <3>1
      <4> HIDE DEF S
      <4>2. \E m \in S : \A j \in S : m <= j
        BY <4>1, LeastOf
      <4>3. (CHOOSE i \in S : \A j \in S : i <= j) \in S
        BY <4>2
      <4> QED
        BY <4>3 DEF S
    <3> DEFINE f == first(b)
    <3>3. f \in 1..n /\ b \in DOMAIN tests[f].backends
      BY <3>2
    <3>4. c[b] = Default(tests[f].backends[b])
      BY <1>1, <2>2 DEF val
    <3> HIDE DEF f
    <3> DEFINE sp == tests[f].backends
    <3>5. Specs(sp) /\ b \in DOMAIN sp /\ c[b] = Default(sp[b])
      BY <3>3, <3>4
    <3> HIDE DEF sp
    <3> QED
      BY <3>5, DefaultProper DEF Specs
  <2> QED
    BY <2>1, <2>2
<1>4. Proper(c, D)
  BY <1>2, <1>3 DEF Proper, Specs
<1> QED
  BY <1>4 DEF c

\* What a mock serves is a status.
LEMMA ServeType ==
  ASSUME NEW D, NEW conf, Proper(conf, D), NEW b \in D, NEW url
  PROVE  Serve(conf[b], url) \in Nat
<1> DEFINE rc == RouteConfig(conf[b], url)
<1>1. rc.status \in Nat
  BY DEF RouteConfig, Proper, Specs
<1>2. ~(rc.mode = "echo" /\ ~Answers(conf[b], url))
  BY DEF Answers, Closes
<1> HIDE DEF rc
<1> QED
  BY <1>1, <1>2 DEF Serve, rc

-----------------------------------------------------------------------------
(* A test on its own *)

\* The cache answers the step.
Hits(acc, step) ==
  acc.cache[step.url] # None /\ step.at < acc.cache[step.url].stored + Ttl

StatusOf(acc, step) ==
  IF Hits(acc, step) THEN acc.cache[step.url].status
  ELSE Serve(Update(acc.cfg, step.backends)[UseBackend[step.url]], step.url)

AnswerOf(acc, step) ==
  [status |-> StatusOf(acc, step), hit |-> Hits(acc, step),
   age |-> IF Hits(acc, step) THEN Age(acc.cache[step.url], step.at) ELSE 0]

TimesOf(acc, step) ==
  IF Hits(acc, step) THEN {0}
  ELSE Attempts(Update(acc.cfg, step.backends)[UseBackend[step.url]], step.url, acc.warm)

\* The backend b was called n times, and no other.
CountsOf(D, b, n) == [x \in D |-> IF x = b THEN n ELSE 0]

\* How a test on its own begins.
LEMMA StartCfg ==
  ASSUME NEW test, NEW conf, NEW warm
  PROVE  AloneStart(test, conf, warm).cfg = Update(conf, test.backends)
BY DEF AloneStart

\* What one step of a test on its own does to the mocks, ...
LEMMA AloneCfg ==
  ASSUME NEW acc, NEW step
  PROVE  AloneStep(acc, step).cfg = Update(acc.cfg, step.backends)
BY DEF AloneStep

LEMMA AloneWarm ==
  ASSUME NEW acc, NEW step
  PROVE  AloneStep(acc, step).warm = (acc.warm \/ ~Hits(acc, step))
BY DEF AloneStep, Hits

\* ... to the cache ...
LEMMA AloneCache ==
  ASSUME NEW acc, NEW step
  PROVE  AloneStep(acc, step).cache
           = IF Hits(acc, step) \/ ~Cacheable(StatusOf(acc, step)) THEN acc.cache
             ELSE [acc.cache EXCEPT ![step.url] =
                     [status |-> StatusOf(acc, step), stored |-> step.at]]
BY DEF AloneStep, Hits, StatusOf

\* ... and to the verdicts.
LEMMA AloneOk ==
  ASSUME NEW acc, NEW step
  PROVE  AloneStep(acc, step).ok
           = {o /\ Check(step.expect, AnswerOf(acc, step),
                         CountsOf(DOMAIN Update(acc.cfg, step.backends),
                                  UseBackend[step.url], n)) :
                o \in acc.ok, n \in TimesOf(acc, step)}
BY DEF AloneStep, Hits, StatusOf, AnswerOf, TimesOf, CountsOf

\* checkBackendExpectations cannot tell a mock that was not called from one that is
\* not there.
LEMMA CountsAlike ==
  ASSUME NEW D1, NEW D2, NEW b, b \in D1, b \in D2, NEW n \in Nat, NEW expect, NEW answer
  PROVE  Check(expect, answer, CountsOf(D1, b, n)) = Check(expect, answer, CountsOf(D2, b, n))
<1> DEFINE c1 == CountsOf(D1, b, n)
           c2 == CountsOf(D2, b, n)
<1>1. DOMAIN c1 = D1 /\ \A x \in D1 : c1[x] = IF x = b THEN n ELSE 0
  BY DEF CountsOf
<1>2. DOMAIN c2 = D2 /\ \A x \in D2 : c2[x] = IF x = b THEN n ELSE 0
  BY DEF CountsOf
<1> HIDE DEF c1, c2
<1>3. AllCalls(c1) = {b} \X (1..n)
  BY <1>1 DEF AllCalls
<1>4. AllCalls(c2) = {b} \X (1..n)
  BY <1>2 DEF AllCalls
<1>5. \A u : (u \in DOMAIN c1 /\ c1[u] > 0) <=> (u \in DOMAIN c2 /\ c2[u] > 0)
  BY <1>1, <1>2
<1>6. \A u : (IF u \in DOMAIN c1 THEN c1[u] ELSE 0) = (IF u \in DOMAIN c2 THEN c2[u] ELSE 0)
  BY <1>1, <1>2
<1>7. CheckBackend(expect, c1) <=> CheckBackend(expect, c2)
  BY <1>3, <1>4, <1>5, <1>6 DEF CheckBackend
<1>8. Check(expect, answer, c1) = Check(expect, answer, c2)
  BY <1>7 DEF Check
<1> QED
  BY <1>8 DEF c1, c2

\* A test that names the backends it uses has the same verdicts whatever the mocks
\* were configured to before it.
LEMMA SameVerdicts ==
  ASSUME NEW test, Len(test.steps) \in Nat, NEW warm, NEW c1, NEW c2,
         \A k \in 1..Len(test.steps) :
           UseBackend[test.steps[k].url] \in DOMAIN test.backends,
         DOMAIN test.backends \subseteq DOMAIN c1, DOMAIN test.backends \subseteq DOMAIN c2
  PROVE  Verdicts(test, c1, warm) = Verdicts(test, c2, warm)
<1> DEFINE n == Len(test.steps)
           own == DOMAIN test.backends
           r1 == AloneRun(test, c1, warm)
           r2 == AloneRun(test, c2, warm)
           Same(k) == /\ r1[k].cache = r2[k].cache /\ r1[k].warm = r2[k].warm
                      /\ r1[k].ok = r2[k].ok
                      /\ DOMAIN r1[k].cfg = DOMAIN c1 /\ DOMAIN r2[k].cfg = DOMAIN c2
                      /\ \A b \in own : r1[k].cfg[b] = r2[k].cfg[b]
           Bad == {k \in 0..n : ~Same(k)}
<1>1. /\ r1[0] = AloneStart(test, c1, warm)
      /\ \A k \in 1..n : r1[k] = AloneStep(r1[k - 1], test.steps[k])
  BY AloneUnrolled
<1>2. /\ r2[0] = AloneStart(test, c2, warm)
      /\ \A k \in 1..n : r2[k] = AloneStep(r2[k - 1], test.steps[k])
  BY AloneUnrolled
<1> HIDE DEF r1, r2
<1>3. Same(0)
  <2>1. r1[0].cfg = Update(c1, test.backends) /\ r2[0].cfg = Update(c2, test.backends)
    BY <1>1, <1>2, StartCfg
  <2>2. \A b \in own : r1[0].cfg[b] = r2[0].cfg[b]
    BY <2>1 DEF Update
  <2>3. DOMAIN r1[0].cfg = DOMAIN c1 /\ DOMAIN r2[0].cfg = DOMAIN c2
    BY <2>1 DEF Update
  <2> DEFINE yes == {TRUE}
  <2>6. \A c : /\ AloneStart(test, c, warm).warm = warm /\ AloneStart(test, c, warm).ok = yes
               /\ AloneStart(test, c, warm).cache = NoObjects
    BY DEF AloneStart
  <2> HIDE DEF yes
  <2>4. r1[0].cache = NoObjects /\ r1[0].warm = warm /\ r1[0].ok = yes
    BY <1>1, <2>6
  <2>5. r2[0].cache = NoObjects /\ r2[0].warm = warm /\ r2[0].ok = yes
    BY <1>2, <2>6
  <2> QED
    BY <2>2, <2>3, <2>4, <2>5
<1>4. ASSUME NEW k \in 1..n, Same(k - 1)
      PROVE  Same(k)
  <2> DEFINE a1 == r1[k - 1]
             a2 == r2[k - 1]
             step == test.steps[k]
             b == UseBackend[step.url]
  <2>1. r1[k] = AloneStep(a1, step) /\ r2[k] = AloneStep(a2, step)
    BY <1>1, <1>2
  <2>2. /\ a1.cache = a2.cache /\ a1.warm = a2.warm /\ a1.ok = a2.ok
        /\ DOMAIN a1.cfg = DOMAIN c1 /\ DOMAIN a2.cfg = DOMAIN c2
        /\ \A x \in own : a1.cfg[x] = a2.cfg[x]
    BY <1>4
  <2>3. b \in own /\ b \in DOMAIN c1 /\ b \in DOMAIN c2
    OBVIOUS
  <2> DEFINE u1 == Update(a1.cfg, step.backends)
             u2 == Update(a2.cfg, step.backends)
  <2> HIDE DEF a1, a2, step, b
  <2>4. /\ DOMAIN u1 = DOMAIN c1 /\ DOMAIN u2 = DOMAIN c2
        /\ \A x \in own : u1[x] = u2[x]
    BY <2>2 DEF Update
  <2>5. u1[b] = u2[b]
    BY <2>3, <2>4
  <2>6. Hits(a1, step) = Hits(a2, step)
    BY <2>2 DEF Hits
  <2>7. StatusOf(a1, step) = StatusOf(a2, step)
    BY <2>2, <2>5, <2>6 DEF StatusOf, b
  <2>8. AnswerOf(a1, step) = AnswerOf(a2, step)
    BY <2>2, <2>6, <2>7 DEF AnswerOf
  <2>9. TimesOf(a1, step) = TimesOf(a2, step) /\ TimesOf(a1, step) \in SUBSET Nat
    BY <2>2, <2>5, <2>6 DEF TimesOf, b, Attempts
  <2>10. \A m \in TimesOf(a1, step) :
           Check(step.expect, AnswerOf(a1, step), CountsOf(DOMAIN u1, b, m))
             = Check(step.expect, AnswerOf(a2, step), CountsOf(DOMAIN u2, b, m))
    BY <2>3, <2>4, <2>8, <2>9, CountsAlike
  <2>11. AloneStep(a1, step).ok = AloneStep(a2, step).ok
    <3> DEFINE v1(m) == Check(step.expect, AnswerOf(a1, step), CountsOf(DOMAIN u1, b, m))
               v2(m) == Check(step.expect, AnswerOf(a2, step), CountsOf(DOMAIN u2, b, m))
    <3>1. /\ AloneStep(a1, step).ok = {o /\ v1(m) : o \in a1.ok, m \in TimesOf(a1, step)}
          /\ AloneStep(a2, step).ok = {o /\ v2(m) : o \in a2.ok, m \in TimesOf(a2, step)}
      BY AloneOk DEF b
    <3>2. \A m \in TimesOf(a1, step) : v1(m) = v2(m)
      BY <2>10
    <3> DEFINE T == TimesOf(a1, step)
               O == a1.ok
               w1 == [m \in T |-> v1(m)]
               w2 == [m \in T |-> v2(m)]
    <3> HIDE DEF v1, v2
    <3>3. w1 = w2
      BY <3>2
    <3>4. AloneStep(a1, step).ok = {o /\ w1[m] : o \in O, m \in T}
      BY <3>1
    <3>5. AloneStep(a2, step).ok = {o /\ w2[m] : o \in O, m \in T}
      BY <2>2, <2>9, <3>1
    <3> QED
      BY <3>3, <3>4, <3>5
  <2>12. AloneStep(a1, step).cache = AloneStep(a2, step).cache
    <3> DEFINE new(acc) ==
                 IF Hits(acc, step) \/ ~Cacheable(StatusOf(acc, step)) THEN acc.cache
                 ELSE [acc.cache EXCEPT ![step.url] =
                         [status |-> StatusOf(acc, step), stored |-> step.at]]
    <3>1. AloneStep(a1, step).cache = new(a1) /\ AloneStep(a2, step).cache = new(a2)
      BY AloneCache
    <3>2. new(a1) = new(a2)
      BY <2>2, <2>6, <2>7
    <3> QED
      BY <3>1, <3>2
  <2>13. AloneStep(a1, step).warm = AloneStep(a2, step).warm
    BY <2>2, <2>6, AloneWarm
  <2>14. AloneStep(a1, step).cfg = u1 /\ AloneStep(a2, step).cfg = u2
    BY AloneCfg
  <2> QED
    BY <2>1, <2>4, <2>11, <2>12, <2>13, <2>14
<1> HIDE DEF Same
<1>5. Bad = {}
  <2> SUFFICES ASSUME Bad # {} PROVE FALSE
    OBVIOUS
  <2>1. PICK m \in Bad : \A j \in Bad : m <= j
    <3>1. Bad \in SUBSET Nat
      OBVIOUS
    <3> HIDE DEF Bad
    <3> QED
      BY <3>1, LeastOf
  <2>2. m # 0 /\ m \in 1..n /\ m - 1 \in 0..n /\ ~(m <= m - 1)
    BY <1>3
  <2>3. Same(m - 1)
    BY <2>1, <2>2
  <2> QED
    BY <1>4, <2>2, <2>3
<1>6. Same(n)
  BY <1>5
<1> QED
  BY <1>6 DEF Same, r1, r2, Verdicts
-----------------------------------------------------------------------------
(* The test in progress, beside the same test on its own *)

\* Varnish has the objects of c and no others.
LikeCache(c) ==
  /\ c = [u \in DOMAIN UseBackend |-> c[u]]
  /\ \A u \in DOMAIN UseBackend :
       IF Live(cache[u])
       THEN c[u] # None /\ c[u].status = cache[u].status /\ c[u].stored = cache[u].stored
       ELSE c[u] = None

SomeIdle == \E b \in DOMAIN idle : idle[b]

\* Cache and connections are as they would be for the test on its own.
Follows(acc) == LikeCache(acc.cache) /\ (SomeIdle => acc.warm)

\* The verdict so far, with what the checks of this step will say.
Verdict == IF failed THEN FALSE ELSE TRUE
VerdictWith(counts) == Verdict /\ Check(Step.expect, resp, counts)

\* The test is where run is, the same test on its own.
Within(run) ==
  /\ pc = "enter" => cfg = run[0].cfg /\ Follows(run[0])
  /\ pc \in {"step", "reset", "request", "fetch"} =>
       Follows(run[s - 1]) /\ Verdict \in run[s - 1].ok
  /\ pc = "step" => cfg = run[s - 1].cfg
  /\ pc \in {"reset", "request", "fetch"} =>
       /\ cfg = Update(run[s - 1].cfg, Step.backends)
       /\ Test.scenario => now = Step.at
  /\ pc \in {"request", "fetch"} => calls = [b \in Mocks(suite) |-> 0]
  /\ pc = "fetch" => ~Fresh(cache[Step.url])
  /\ pc \in {"collect", "check"} =>
       /\ cfg = run[s].cfg
       /\ Test.scenario => Follows(run[s])
       /\ VerdictWith(IF pc = "collect" THEN calls ELSE seen) \in run[s].ok

\* The mocks that exist can serve what they are configured to.
MockInv ==
  pc \in Loaded =>
    /\ Proper(cfg, Mocks(suite))
    /\ DOMAIN calls = Mocks(suite) /\ DOMAIN idle = Mocks(suite)

\* There are no mocks before there is a suite.
NoMocks == pc \notin Loaded => DOMAIN cfg = {}

\* Before a test no object is left, and before the first no connection was used.
FreshInv ==
  /\ pc = "configure" => \A u \in DOMAIN UseBackend : ~Live(cache[u])
  /\ pc \in {"ban", "configure"} /\ t = 1 => ~SomeIdle

InTest == Running \ {"configure"}

\* Each test behaves as it would alone, on mocks that are configured somehow.
AloneInv ==
  /\ \A i \in 1..(t - 1) : ~results[i].err =>
       \E conf : /\ Proper(conf, Mocks(suite))
                 /\ results[i].passed \in Verdicts(suite[i], conf, i > 1)
  /\ pc \in InTest =>
       \E conf : Proper(conf, Mocks(suite)) /\ Within(AloneRun(suite[t], conf, t > 1))

\* And those are the configurations that the tests before it have left behind.
CarryInv ==
  /\ \A i \in 1..(t - 1) : ~results[i].err =>
       results[i].passed \in Verdicts(suite[i], LeftBehind(suite, i - 1), i > 1)
  /\ pc \in {"ban", "configure"} /\ vclLoaded => cfg = LeftBehind(suite, t - 1)
  /\ pc \in InTest /\ vclLoaded => Within(AloneRun(suite[t], LeftBehind(suite, t - 1), t > 1))
  /\ pc \in InStep => vclLoaded

-----------------------------------------------------------------------------
(* The backends of the suite *)

\* The default 404 keeps the rest of a configuration.
LEMMA NotFoundProper ==
  ASSUME NEW specs, Specs(specs)
  PROVE  Specs(NotFoundByDefault(specs)) /\ DOMAIN NotFoundByDefault(specs) = DOMAIN specs
<1> DEFINE d == NotFoundByDefault(specs)
<1>1. d = [b \in DOMAIN specs |-> IF specs[b].status = 0 THEN [specs[b] EXCEPT !.status = 404]
                                                        ELSE specs[b]]
  BY DEF NotFoundByDefault
<1> HIDE DEF d
<1>2. ASSUME NEW b \in DOMAIN specs
      PROVE  /\ DOMAIN d[b] = {"status", "mode", "routes"} /\ d[b].status \in Nat
             /\ \A u \in DOMAIN d[b].routes : d[b].routes[u].status \in Nat
  <2> DEFINE c == specs[b]
  <2>1. DOMAIN c = {"status", "mode", "routes"} /\ c.status \in Nat
    BY DEF Specs
  <2>2. \A u \in DOMAIN c.routes : c.routes[u].status \in Nat
    BY DEF Specs
  <2>3. d[b] = IF c.status = 0 THEN [c EXCEPT !.status = 404] ELSE c
    BY <1>1
  <2> HIDE DEF c
  <2>4. DOMAIN d[b] = {"status", "mode", "routes"} /\ d[b].status \in Nat /\ d[b].routes = c.routes
    BY <2>1, <2>3
  <2> QED
    BY <2>2, <2>4
<1>3. DOMAIN d = DOMAIN specs
  BY <1>1
<1>4. Specs(d)
  BY <1>2, <1>3 DEF Specs
<1> QED
  BY <1>3, <1>4 DEF d

\* What the loader makes of the backends of a document.
LEMMA BackendsOf ==
  ASSUME NEW file \in Files, NEW i \in 1..Len(file), Validate(file[i])
  PROVE  /\ DOMAIN ApplyDefaults(file[i]).backends = DOMAIN file[i].backends
         /\ Specs(ApplyDefaults(file[i]).backends)
         /\ \A k \in 1..Len(ApplyDefaults(file[i]).steps) :
              /\ Specs(ApplyDefaults(file[i]).steps[k].backends)
              /\ ApplyDefaults(file[i]).steps[k].url \in Urls(file)
              /\ ~ApplyDefaults(file[i]).scenario =>
                   DOMAIN ApplyDefaults(file[i]).steps[k].backends = {}
<1> DEFINE doc == file[i]
           sc == doc.scenario
           test == ApplyDefaults(doc)
<1>1. file \in Seq(ToSet(file)) /\ i \in DOMAIN file
  BY FilesAssumption
<1>2. /\ doc.url \in Urls(file) \cup {None} /\ Specs(doc.backends)
      /\ sc \in Seq(ToSet(sc))
      /\ \A step \in ToSet(sc) :
           /\ DOMAIN step = {"at", "url", "backends", "expect"}
           /\ step.url \in Urls(file) \cup {None} /\ Specs(step.backends)
  BY <1>1, FilesAssumption
<1>3. Len(sc) \in Nat /\ DOMAIN sc = 1..Len(sc) /\ (sc = <<>> <=> Len(sc) = 0)
  BY <1>2, LenProperties, EmptySeq
<1>4. CASE sc = <<>>
  <2> DEFINE e == <<>>
             only == [at |-> 0, url |-> doc.url, backends |-> e, expect |-> doc.expect]
  <2>1. doc.url # None
    BY <1>4 DEF Validate
  <2>2. /\ test.backends = NotFoundByDefault(doc.backends)
        /\ test.scenario = FALSE /\ test.steps = <<only>>
    BY <1>4 DEF ApplyDefaults
  <2>3. only.url = doc.url /\ only.backends = e /\ DOMAIN e = {}
    OBVIOUS
  <2>4. Specs(e)
    BY <2>3 DEF Specs
  <2> HIDE DEF e
  <2> HIDE DEF only, test
  <2>5. Len(test.steps) = 1 /\ test.steps[1] = only
    BY <2>2
  <2>6. \A k \in 1..Len(test.steps) : test.steps[k] = only
    BY <2>5
  <2>7. only.url \in Urls(file)
    BY <1>2, <2>1, <2>3
  <2>8. Specs(test.backends) /\ DOMAIN test.backends = DOMAIN doc.backends
    BY <1>2, <2>2, NotFoundProper
  <2>9. \A k \in 1..Len(test.steps) :
          /\ Specs(test.steps[k].backends) /\ test.steps[k].url \in Urls(file)
          /\ DOMAIN test.steps[k].backends = {}
    BY <2>3, <2>4, <2>6, <2>7
  <2> QED
    BY <2>8, <2>9 DEF test
<1>5. CASE sc # <<>>
  <2>1. /\ test.backends = doc.backends /\ test.scenario = TRUE
        /\ test.steps = [k \in DOMAIN sc |-> [sc[k] EXCEPT !.backends = NotFoundByDefault(@)]]
    BY <1>5 DEF ApplyDefaults
  <2> HIDE DEF test
  <2>2. Len(test.steps) = Len(sc)
    BY <1>3, <2>1
  <2>3. ASSUME NEW k \in 1..Len(sc)
        PROVE  Specs(test.steps[k].backends) /\ test.steps[k].url \in Urls(file)
    <3> DEFINE step == sc[k]
    <3>1. step \in ToSet(sc)
      BY <1>3 DEF ToSet
    <3>2. /\ DOMAIN step = {"at", "url", "backends", "expect"}
          /\ step.url \in Urls(file) \cup {None} /\ Specs(step.backends)
      BY <1>2, <3>1
    <3>3. step.url # None
      BY <1>3 DEF Validate
    <3>4. test.steps[k] = [step EXCEPT !.backends = NotFoundByDefault(step.backends)]
      BY <1>3, <2>1
    <3> HIDE DEF step
    <3>5. test.steps[k].url = step.url /\ test.steps[k].backends = NotFoundByDefault(step.backends)
      BY <3>2, <3>4
    <3> QED
      BY <3>2, <3>3, <3>5, NotFoundProper
  <2> QED
    BY <1>2, <2>1, <2>2, <2>3 DEF test
<1> QED
  BY <1>4, <1>5

\* The tests of the suite use its mocks.
LEMMA SuiteFurnished ==
  ASSUME SuiteInv, pc \in Loaded
  PROVE  /\ Proper(StartConfig(suite), Mocks(suite))
         /\ \A i \in 1..Len(suite) :
              /\ Furnished(suite[i], Mocks(suite))
              /\ ~suite[i].scenario => DOMAIN suite[i].steps[1].backends = {}
<1>1. /\ docs \in Files /\ Len(suite) = Len(docs)
      /\ \A i \in 1..Len(docs) : Validate(docs[i]) /\ suite[i] = ApplyDefaults(docs[i])
  BY DEF SuiteInv
<1>2. Len(suite) \in Nat /\ DOMAIN suite = 1..Len(suite)
  BY StepsOfTest
<1>3. DOMAIN docs = 1..Len(docs)
  BY <1>1, FilesAssumption, LenProperties
<1>4. \A i \in 1..Len(suite) :
        /\ DOMAIN suite[i].backends = DOMAIN docs[i].backends /\ Specs(suite[i].backends)
        /\ \A k \in 1..Len(suite[i].steps) :
             /\ Specs(suite[i].steps[k].backends) /\ suite[i].steps[k].url \in Urls(docs)
             /\ ~suite[i].scenario => DOMAIN suite[i].steps[k].backends = {}
  <2> SUFFICES ASSUME NEW i \in 1..Len(suite)
               PROVE  /\ DOMAIN suite[i].backends = DOMAIN docs[i].backends /\ Specs(suite[i].backends)
                      /\ \A k \in 1..Len(suite[i].steps) :
                           /\ Specs(suite[i].steps[k].backends)
                           /\ suite[i].steps[k].url \in Urls(docs)
                           /\ ~suite[i].scenario => DOMAIN suite[i].steps[k].backends = {}
    OBVIOUS
  <2>1. i \in 1..Len(docs) /\ Validate(docs[i]) /\ suite[i] = ApplyDefaults(docs[i])
    BY <1>1
  <2> DEFINE test == ApplyDefaults(docs[i])
  <2>2. /\ DOMAIN test.backends = DOMAIN docs[i].backends /\ Specs(test.backends)
        /\ \A k \in 1..Len(test.steps) :
             /\ Specs(test.steps[k].backends) /\ test.steps[k].url \in Urls(docs)
             /\ ~test.scenario => DOMAIN test.steps[k].backends = {}
    BY <1>1, <2>1, BackendsOf
  <2>3. suite[i] = test
    BY <2>1
  <2> HIDE DEF test
  <2> QED
    BY <2>2, <2>3
<1>5. Mocks(suite) = Mocks(docs)
  <2>1. {DOMAIN suite[i].backends : i \in DOMAIN suite} = {DOMAIN docs[i].backends : i \in DOMAIN docs}
    BY <1>1, <1>2, <1>3, <1>4
  <2> QED
    BY <2>1 DEF Mocks
<1>6. Proper(StartConfig(suite), Mocks(suite))
  BY <1>2, <1>4, StartProper
<1>7. \A i \in 1..Len(suite) : DOMAIN suite[i].backends \subseteq Mocks(suite)
  <2> SUFFICES ASSUME NEW i \in 1..Len(suite), NEW b \in DOMAIN suite[i].backends
               PROVE  b \in Mocks(suite)
    OBVIOUS
  <2>1. b \in UNION {DOMAIN suite[j].backends : j \in DOMAIN suite}
    BY <1>2
  <2> QED
    BY <2>1 DEF Mocks
<1>8. \A i \in 1..Len(suite) : Furnished(suite[i], Mocks(suite))
  BY <1>4, <1>5, <1>7 DEF Furnished, Urls
<1>9. \A i \in 1..Len(suite) : ~suite[i].scenario => DOMAIN suite[i].steps[1].backends = {}
  <2> SUFFICES ASSUME NEW i \in 1..Len(suite) PROVE 1 \in 1..Len(suite[i].steps)
    BY <1>4
  <2> QED
    BY StepsOfTest DEF NSteps
<1> QED
  BY <1>6, <1>8, <1>9

-----------------------------------------------------------------------------
(* One step of the test in progress *)

\* run is the test on its own.
IsAlone(run, test, conf, warm) ==
  /\ run[0] = AloneStart(test, conf, warm)
  /\ \A k \in 1..Len(test.steps) : run[k] = AloneStep(run[k - 1], test.steps[k])

\* The checks see the status, the hit and the age of a response, nothing else.
LEMMA AnswersAlike ==
  ASSUME NEW expect, NEW a1, NEW a2, NEW counts,
         a1.status = a2.status, a1.hit = a2.hit, a1.age = a2.age
  PROVE  Check(expect, a1, counts) = Check(expect, a2, counts)
<1>1. CheckCache(expect, a1) <=> CheckCache(expect, a2)
  BY DEF CheckCache
<1> QED
  BY <1>1 DEF Check

\* The fields of the answer a test on its own gets.
LEMMA AnswerFields ==
  ASSUME NEW acc, NEW step
  PROVE  /\ AnswerOf(acc, step).status = StatusOf(acc, step)
         /\ AnswerOf(acc, step).hit = Hits(acc, step)
         /\ AnswerOf(acc, step).age
              = IF Hits(acc, step) THEN Age(acc.cache[step.url], step.at) ELSE 0
BY DEF AnswerOf

\* An answer and counts like those of the test on its own give one of its verdicts.
LEMMA StepEnds ==
  ASSUME NEW acc, NEW step, NEW o, o \in acc.ok, NEW n, n \in TimesOf(acc, step),
         NEW D, D = DOMAIN Update(acc.cfg, step.backends), NEW answer,
         answer.status = StatusOf(acc, step), answer.hit = Hits(acc, step),
         answer.age = IF Hits(acc, step) THEN Age(acc.cache[step.url], step.at) ELSE 0
  PROVE  (o /\ Check(step.expect, answer, CountsOf(D, UseBackend[step.url], n)))
           \in AloneStep(acc, step).ok
<1> DEFINE b == UseBackend[step.url]
           like == AnswerOf(acc, step)
           v(m) == Check(step.expect, like, CountsOf(D, b, m))
<1>1. answer.status = like.status /\ answer.hit = like.hit /\ answer.age = like.age
  BY AnswerFields
<1>2. Check(step.expect, answer, CountsOf(D, b, n)) = v(n)
  BY <1>1, AnswersAlike
<1>3. AloneStep(acc, step).ok = {q /\ v(m) : q \in acc.ok, m \in TimesOf(acc, step)}
  BY AloneOk
<1> HIDE DEF v, b, like
<1>4. (o /\ v(n)) \in AloneStep(acc, step).ok
  BY <1>3
<1> QED
  BY <1>2, <1>4 DEF b

\* Varnish answers from its cache when the test on its own would get a hit.
LEMMA HitsAlike ==
  ASSUME NEW acc, NEW step, LikeCache(acc.cache), step.url \in DOMAIN UseBackend,
         acc.cache[step.url] = None \/ now = step.at
  PROVE  /\ Fresh(cache[step.url]) <=> Hits(acc, step)
         /\ Fresh(cache[step.url]) =>
              /\ cache[step.url].status = StatusOf(acc, step)
              /\ Age(cache[step.url], now) = Age(acc.cache[step.url], step.at)
<1> DEFINE c == acc.cache[step.url]
           obj == cache[step.url]
<1>1. IF Live(obj) THEN c # None /\ c.status = obj.status /\ c.stored = obj.stored ELSE c = None
  BY DEF LikeCache
<1> HIDE DEF c, obj
<1>2. Fresh(obj) <=> Hits(acc, step)
  BY <1>1 DEF Fresh, Hits, c, obj
<1>3. Fresh(obj) => Live(obj) /\ c # None /\ now = step.at
  BY <1>1 DEF Fresh, c
<1>4. Fresh(obj) => obj.status = StatusOf(acc, step)
  BY <1>1, <1>2, <1>3 DEF StatusOf, c
<1>5. Fresh(obj) => Age(obj, now) = Age(c, step.at)
  BY <1>1, <1>3 DEF Age
<1> QED
  BY <1>2, <1>4, <1>5 DEF c, obj

\* The test in progress has what the loop asks of it.
LEMMA TestInProgress ==
  ASSUME IInv, pc \in InTest
  PROVE  /\ t \in 1..Len(suite) /\ Test = suite[t] /\ NSteps(t) \in Nat \ {0}
         /\ Furnished(Test, Mocks(suite)) /\ Test.scenario \in BOOLEAN
         /\ ~Test.scenario => NSteps(t) = 1 /\ DOMAIN Test.steps[1].backends = {}
<1> USE DEF IInv, LoopInv
<1>1. pc \in Loaded /\ pc \in Running
  BY DEF Loaded, InTest
<1>2. t \in 1..Len(suite)
  BY <1>1, StepsOfTest DEF PlaceInv
<1> QED
  BY <1>1, <1>2, StepsOfTest, SuiteFurnished DEF Test

\* What the parts of Within need stays when these variables do.
LEMMA FollowsStays ==
  ASSUME NEW acc, Follows(acc), UNCHANGED <<cache, bans, idle>>
  PROVE  Follows(acc)'
<1>1. (\A u : Live(cache[u])' <=> Live(cache[u]))
  BY DEF Live
<1>2. LikeCache(acc.cache)'
  BY <1>1 DEF LikeCache, Follows
<1> QED
  BY <1>2 DEF Follows, SomeIdle

\* A step beside the test.
LEMMA WithinStays ==
  ASSUME NEW run, Within(run),
         UNCHANGED <<suite, pc, t, s, cfg, calls, seen, now, bans, cache, idle, resp, failed>>
  PROVE  Within(run)'
<1>1. \A acc : Follows(acc) => Follows(acc)'
  BY FollowsStays
<1>2. Test' = Test /\ Step' = Step /\ Verdict' = Verdict
  BY DEF Test, Step, Verdict
<1>3. VerdictWith(calls)' = VerdictWith(calls) /\ VerdictWith(seen)' = VerdictWith(seen)
  BY <1>2 DEF VerdictWith
<1>4. \A u : Fresh(cache[u])' <=> Fresh(cache[u])
  BY DEF Fresh, Live
<1> QED
  BY <1>1, <1>2, <1>3, <1>4 DEF Within

\* RunTestWithSharedVCL begins the test, with nothing failed yet.
LEMMA EnterAlone ==
  ASSUME IInv, MockInv, NEW run, NEW conf, NEW warm, IsAlone(run, Test, conf, warm),
         Within(run), RunTestWithSharedVCL, vclLoaded
  PROVE  Within(run)'
<1> USE DEF fileVars, mockVars, extVars, logVars, outVars
<1>1. /\ pc = "enter" /\ s' = 1 /\ failed' = FALSE
      /\ pc' = (IF Test.scenario THEN "step" ELSE "reset")
      /\ UNCHANGED <<suite, t, cfg, cache, bans, idle>>
  BY DEF RunTestWithSharedVCL
<1>2. cfg = run[0].cfg /\ Follows(run[0])
  BY <1>1 DEF Within
<1>3. Follows(run[0])'
  BY <1>1, <1>2, FollowsStays
<1>4. Verdict' \in run[0].ok
  <2>1. Verdict' = TRUE
    BY <1>1 DEF Verdict
  <2>2. run[0].ok = {TRUE}
    BY DEF IsAlone, AloneStart
  <2> QED
    BY <2>1, <2>2
<1>5. Test' = Test /\ Step' = Test.steps[1]
  BY <1>1 DEF Test, Step
<1>6. pc' = "reset" => cfg' = Update(run[0].cfg, Step'.backends)
  <2> SUFFICES ASSUME pc' = "reset" PROVE cfg' = Update(run[0].cfg, Step'.backends)
    OBVIOUS
  <2>1. pc \in InTest
    BY <1>1 DEF InTest, Running
  <2>2. DOMAIN Step'.backends = {}
    BY <1>1, <1>5, <2>1, TestInProgress
  <2>3. cfg = [b \in DOMAIN cfg |-> cfg[b]]
    BY <1>1 DEF MockInv, Proper, Loaded, Running
  <2>4. Update(cfg, Step'.backends) = [b \in DOMAIN cfg |-> cfg[b]]
    BY <2>2 DEF Update
  <2> QED
    BY <1>1, <1>2, <2>3, <2>4
<1>7. s' - 1 = 0 /\ (pc' = "reset" => ~Test'.scenario) /\ pc' \in {"step", "reset"}
  BY <1>1, <1>5
<1> QED
  BY <1>1, <1>2, <1>3, <1>4, <1>6, <1>7 DEF Within

\* A scenario step sets the clock and its own configurations, which is how the step of
\* the test on its own begins.
LEMMA BeginAlone ==
  ASSUME NEW run, Within(run), BeginStep, pc' # "ban"
  PROVE  Within(run)'
<1> USE DEF fileVars, mockVars, extVars, logVars, outVars
<1>1. /\ pc = "step" /\ pc' = "reset" /\ now' = Step.at /\ cfg' = Update(cfg, Step.backends)
      /\ UNCHANGED <<suite, t, s, cache, bans, idle, failed>>
  BY DEF BeginStep, AdvanceTimeBy, Record
<1>2. cfg = run[s - 1].cfg /\ Follows(run[s - 1]) /\ Verdict \in run[s - 1].ok
  BY <1>1 DEF Within
<1>3. Follows(run[s - 1])'
  BY <1>1, <1>2, FollowsStays
<1>4. Test' = Test /\ Step' = Step /\ Verdict' = Verdict
  BY <1>1 DEF Test, Step, Verdict
<1> QED
  BY <1>1, <1>2, <1>3, <1>4 DEF Within

\* Every mock counts from 0.
LEMMA ResetAlone ==
  ASSUME MockInv, NEW run, Within(run), ResetAndMark
  PROVE  Within(run)'
<1> USE DEF fileVars, mockVars, extVars, logVars, outVars
<1>1. /\ pc = "reset" /\ pc' = "request" /\ calls' = [b \in DOMAIN calls |-> 0]
      /\ UNCHANGED <<suite, t, s, cfg, now, cache, bans, idle, failed>>
  BY DEF ResetAndMark
<1>2. DOMAIN calls = Mocks(suite) /\ Mocks(suite)' = Mocks(suite)
  BY <1>1 DEF MockInv, Loaded, Running, InStep, Mocks
<1>3. /\ Follows(run[s - 1]) /\ Verdict \in run[s - 1].ok
      /\ cfg = Update(run[s - 1].cfg, Step.backends) /\ (Test.scenario => now = Step.at)
  BY <1>1 DEF Within
<1>4. Follows(run[s - 1])'
  BY <1>1, <1>3, FollowsStays
<1>5. Test' = Test /\ Step' = Step /\ Verdict' = Verdict
  BY <1>1 DEF Test, Step, Verdict
<1> QED
  BY <1>1, <1>2, <1>3, <1>4, <1>5 DEF Within

\* The step of the test on its own that the request belongs to.
LEMMA RequestInProgress ==
  ASSUME IInv, NEW run, NEW conf, NEW warm, IsAlone(run, Test, conf, warm), Within(run),
         pc \in {"request", "fetch"}
  PROVE  /\ run[s] = AloneStep(run[s - 1], Step)
         /\ run[s].cfg = cfg
         /\ Step.url \in DOMAIN UseBackend /\ UseBackend[Step.url] \in Mocks(suite)
         /\ Step.at \in Int
         /\ run[s - 1].cache[Step.url] = None \/ now = Step.at
<1>1. pc \in InTest /\ pc \in InStep
  BY DEF InTest, Running, InStep
<1>2. s \in 1..NSteps(t) /\ Step.at \in Int /\ Step.url \in DOMAIN UseBackend
  BY <1>1, StepInProgress
<1>3. s \in 1..Len(Test.steps)
  BY <1>2 DEF NSteps, Test
<1>4. run[s] = AloneStep(run[s - 1], Step)
  BY <1>3 DEF IsAlone, Step
<1>5. UseBackend[Step.url] \in Mocks(suite)
  BY <1>1, <1>3, TestInProgress DEF Furnished, Step
<1>8. run[s].cfg = cfg
  BY <1>4, AloneCfg DEF Within
<1>6. CASE Test.scenario
  BY <1>2, <1>4, <1>5, <1>6, <1>8 DEF Within
<1>7. CASE ~Test.scenario
  <2>1. s = 1
    BY <1>1, <1>2, <1>7, TestInProgress
  <2>2. run[0].cache = NoObjects
    BY DEF IsAlone, AloneStart
  <2>3. run[s - 1].cache[Step.url] = None
    BY <1>2, <2>1, <2>2 DEF NoObjects
  <2> QED
    BY <1>2, <1>4, <1>5, <1>8, <2>3
<1> QED
  BY <1>6, <1>7

\* A hit is the hit of the test on its own, and calls no mock.
LEMMA RequestAlone ==
  ASSUME Grace = 0, IInv, CacheInv, MockInv, NEW run, NEW conf, NEW warm,
         IsAlone(run, Test, conf, warm), Within(run), MakeRequest, pc' # "ban"
  PROVE  Within(run)'
<1> USE DEF fileVars, mockVars, extVars, logVars, outVars
<1>0. PICK acc, next : acc = run[s - 1] /\ next = run[s]
  OBVIOUS
<1> DEFINE obj == cache[Step.url]
           b == UseBackend[Step.url]
<1>1. /\ pc = "request"
      /\ UNCHANGED <<suite, s, cfg, calls, now, cache, bans, idle, failed>>
  BY DEF MakeRequest
<1>2. \/ /\ Fresh(obj) /\ pc' = "collect" /\ UNCHANGED t
         /\ resp' = [status |-> obj.status, hit |-> TRUE, age |-> Age(obj, now), by |-> obj.by]
      \/ Stale(obj)
      \/ ~Fresh(obj) /\ pc' = "fetch" /\ UNCHANGED t
  BY Zenon DEF MakeRequest, Record
<1>3. /\ next = AloneStep(acc, Step) /\ next.cfg = cfg
      /\ Step.url \in DOMAIN UseBackend /\ b \in Mocks(suite)
      /\ acc.cache[Step.url] = None \/ now = Step.at
  BY <1>0, <1>1, RequestInProgress
<1>4. /\ Follows(acc) /\ Verdict \in acc.ok /\ cfg = Update(acc.cfg, Step.backends)
      /\ (Test.scenario => now = Step.at) /\ calls = [x \in Mocks(suite) |-> 0]
  BY <1>0, <1>1 DEF Within
<1>5. LikeCache(acc.cache)
  BY <1>4 DEF Follows
<1>6. /\ Fresh(obj) <=> Hits(acc, Step)
      /\ Fresh(obj) => /\ obj.status = StatusOf(acc, Step)
                       /\ Age(obj, now) = Age(acc.cache[Step.url], Step.at)
  BY <1>3, <1>5, HitsAlike
<1>7. ~Stale(obj)
  <2>1. now \in Int /\ (obj # None => obj.stored \in Int)
    BY <1>3 DEF CacheInv
  <2> QED
    BY <2>1, TestRunAssumption DEF Stale, Fresh, Live
<1>8. Follows(acc)'
  BY <1>1, <1>4, FollowsStays
<1>9. UNCHANGED t
  BY <1>2, <1>7
<1>10. Test' = Test /\ Step' = Step /\ Verdict' = Verdict /\ Mocks(suite)' = Mocks(suite)
  BY <1>1, <1>9 DEF Test, Step, Verdict, Mocks
<1>11. CASE ~Fresh(obj) /\ pc' = "fetch"
  <2>1. ~Fresh(cache[Step.url])'
    BY <1>1, <1>10, <1>11 DEF Fresh, Live
  <2> QED
    BY <1>0, <1>1, <1>4, <1>8, <1>10, <1>11, <2>1 DEF Within
<1>12. CASE /\ Fresh(obj) /\ pc' = "collect"
            /\ resp' = [status |-> obj.status, hit |-> TRUE, age |-> Age(obj, now), by |-> obj.by]
  <2>1. DOMAIN cfg = Mocks(suite)
    BY <1>1 DEF MockInv, Loaded, Running, InStep, Proper
  <2>2. calls = CountsOf(DOMAIN Update(acc.cfg, Step.backends), b, 0)
    BY <1>4, <2>1 DEF CountsOf
  <2>3. 0 \in TimesOf(acc, Step)
    BY <1>6, <1>12 DEF TimesOf
  <2>4. /\ resp'.status = StatusOf(acc, Step) /\ resp'.hit = TRUE
        /\ resp'.age = Age(acc.cache[Step.url], Step.at)
    BY <1>6, <1>12
  <2>5. Hits(acc, Step) = TRUE
    BY <1>6, <1>12 DEF Hits
  <2>6. (Verdict /\ Check(Step.expect, resp', calls)) \in next.ok
    <3>1. PICK step, answer, o : step = Step /\ answer = resp' /\ o = Verdict
      OBVIOUS
    <3>2. (o /\ Check(step.expect, answer, CountsOf(DOMAIN Update(acc.cfg, step.backends),
                                                    UseBackend[step.url], 0)))
            \in AloneStep(acc, step).ok
      <4>1. o \in acc.ok
        BY <1>4, <3>1
      <4>2. 0 \in TimesOf(acc, step)
        BY <2>3, <3>1
      <4>3. answer.status = StatusOf(acc, step)
        BY <2>4, <3>1
      <4>4. answer.hit = Hits(acc, step)
        BY <2>4, <2>5, <3>1
      <4>5. answer.age = IF Hits(acc, step) THEN Age(acc.cache[step.url], step.at) ELSE 0
        BY <2>4, <2>5, <3>1
      <4> QED
        BY <4>1, <4>2, <4>3, <4>4, <4>5, StepEnds
    <3> QED
      BY <1>3, <2>2, <3>1, <3>2
  <2>7. VerdictWith(calls)' \in next.ok
    BY <1>1, <1>10, <2>6 DEF VerdictWith
  <2>8. next.cache = acc.cache /\ next.warm = (acc.warm \/ ~Hits(acc, Step))
    BY <1>3, <2>5, AloneCache, AloneWarm
  <2>9. Follows(next)'
    BY <1>8, <2>8 DEF Follows
  <2>10. next = run[s']
    BY <1>0, <1>1
  <2> QED
    BY <1>1, <1>3, <1>10, <1>12, <2>7, <2>9, <2>10 DEF Within
<1> QED
  BY <1>2, <1>7, <1>11, <1>12

\* Varnish with one more object, which the test on its own stores too.
LEMMA StoredAlike ==
  ASSUME CacheInv, NEW c, LikeCache(c), NEW url \in DOMAIN UseBackend, NEW status \in Nat,
         NEW by \in Nat, cache' = [cache EXCEPT ![url] = Object(status, by)], UNCHANGED bans,
         NEW d, d = [c EXCEPT ![url] = [status |-> status, stored |-> now]]
  PROVE  LikeCache(d)'
<1> DEFINE o == Object(status, by)
<1>1. now \in Int /\ bans \in Nat /\ cache = [u \in DOMAIN UseBackend |-> cache[u]]
  BY DEF CacheInv
<1>2. o # None /\ o.status = status /\ o.stored = now /\ o.ban = bans
  <2>1. o = [status |-> status, stored |-> now, ban |-> bans, by |-> by]
    BY DEF Object
  <2>2. o \in [status : Nat, stored : Int, ban : Nat, by : Nat]
    BY <1>1, <2>1
  <2> QED
    BY <2>1, <2>2, NoneAssumption
<1>3. PICK p : p = [status |-> status, stored |-> now]
  OBVIOUS
<1>4. p # None /\ p.status = status /\ p.stored = now
  <2>1. p \in [status : Nat, stored : Int]
    BY <1>1, <1>3
  <2> QED
    BY <1>3, <2>1, NoneAssumption
<1> HIDE DEF o
<1>5. d = [c EXCEPT ![url] = p]
  BY <1>3
<1>6. /\ d = [u \in DOMAIN UseBackend |-> d[u]]
      /\ \A u \in DOMAIN UseBackend : d[u] = IF u = url THEN p ELSE c[u]
  BY <1>5 DEF LikeCache
<1>7. \A u \in DOMAIN UseBackend : cache'[u] = IF u = url THEN o ELSE cache[u]
  BY <1>1 DEF o
<1>8. \A u \in DOMAIN UseBackend : Live(cache[u])' <=> (u = url \/ Live(cache[u]))
  BY <1>2, <1>7 DEF Live
<1>9. LikeCache(d)'
  BY <1>2, <1>4, <1>6, <1>7, <1>8 DEF LikeCache
<1> QED
  BY <1>9

\* A miss calls the mock, and stores what it serves, as in the test on its own.
LEMMA FetchAlone ==
  ASSUME IInv, CacheInv, MockInv, NEW run, NEW conf, NEW warm,
         IsAlone(run, Test, conf, warm), Within(run), Fetch
  PROVE  Within(run)'
<1> USE DEF fileVars, mockVars, extVars, logVars, outVars
<1>0. PICK acc, next, b, step :
        acc = run[s - 1] /\ next = run[s] /\ b = UseBackend[Step.url] /\ step = Step
  OBVIOUS
<1> DEFINE status == Serve(cfg[b], step.url)
<1>1. /\ pc = "fetch" /\ pc' = "collect" /\ AskMock(b, step.url)
      /\ cache' = Stored(step.url, status, t)
      /\ resp' = [status |-> status, hit |-> FALSE, age |-> 0, by |-> t]
      /\ UNCHANGED <<suite, t, s, cfg, now, bans, failed>>
  BY <1>0 DEF Fetch
<1>2. pc \in InTest /\ pc \in Loaded
  BY <1>1 DEF InTest, Running, InStep, Loaded
<1>3. /\ next = AloneStep(acc, step) /\ next.cfg = cfg
      /\ step.url \in DOMAIN UseBackend /\ b \in Mocks(suite) /\ b = UseBackend[step.url]
      /\ acc.cache[step.url] = None \/ now = step.at
  BY <1>0, <1>1, RequestInProgress
<1>4. /\ Follows(acc) /\ Verdict \in acc.ok /\ cfg = Update(acc.cfg, step.backends)
      /\ (Test.scenario => now = step.at) /\ calls = [x \in Mocks(suite) |-> 0]
      /\ ~Fresh(cache[step.url])
  BY <1>0, <1>1 DEF Within
<1>5. Hits(acc, step) = FALSE
  <2>1. ~Hits(acc, step)
    BY <1>3, <1>4, HitsAlike DEF Follows
  <2> QED
    BY <2>1 DEF Hits
<1>6. StatusOf(acc, step) = status
  BY <1>3, <1>4, <1>5 DEF StatusOf
<1>7. /\ Proper(cfg, Mocks(suite)) /\ DOMAIN cfg = Mocks(suite)
      /\ DOMAIN calls = Mocks(suite) /\ DOMAIN idle = Mocks(suite)
  BY <1>2 DEF MockInv, Proper
<1>8. status \in Nat /\ t \in Nat
  <2>1. status \in Nat
    BY <1>3, <1>7, ServeType
  <2>2. t \in 1..Len(suite) /\ Len(suite) \in Nat
    BY <1>2, TestInProgress, StepsOfTest DEF IInv, LoopInv
  <2> QED
    BY <2>1, <2>2
<1>9. PICK n \in Attempts(cfg[b], step.url, idle[b]) : calls' = [calls EXCEPT ![b] = @ + n]
  BY <1>1 DEF AskMock
<1>10. n \in TimesOf(acc, step) /\ n \in Nat
  <2>1. idle[b] => acc.warm
    BY <1>3, <1>4, <1>7 DEF Follows, SomeIdle
  <2> QED
    BY <1>3, <1>4, <1>5, <1>9, <2>1 DEF TimesOf, Attempts
<1>11. calls' = CountsOf(Mocks(suite), b, n)
  BY <1>3, <1>4, <1>9, <1>10 DEF CountsOf
<1>12. (Verdict /\ Check(step.expect, resp', calls')) \in next.ok
  <2>1. PICK answer, o : answer = resp' /\ o = Verdict
    OBVIOUS
  <2>2. o \in acc.ok
    BY <1>4, <2>1
  <2>3. answer.status = StatusOf(acc, step) /\ answer.hit = FALSE /\ answer.age = 0
    BY <1>1, <1>6, <2>1
  <2>4. answer.age = IF Hits(acc, step) THEN Age(acc.cache[step.url], step.at) ELSE 0
    BY <1>5, <2>3
  <2>5. answer.hit = Hits(acc, step)
    BY <1>5, <2>3
  <2>6. Mocks(suite) = DOMAIN Update(acc.cfg, step.backends)
    BY <1>4, <1>7
  <2>7. (o /\ Check(step.expect, answer, CountsOf(Mocks(suite), UseBackend[step.url], n)))
          \in AloneStep(acc, step).ok
    BY <1>10, <2>2, <2>3, <2>4, <2>5, <2>6, StepEnds
  <2> QED
    BY <1>3, <1>11, <2>1, <2>7
<1>13. Test' = Test /\ Step' = step /\ Verdict' = Verdict /\ next = run[s']
  BY <1>0, <1>1 DEF Test, Step, Verdict
<1>14. VerdictWith(calls)' \in next.ok
  BY <1>12, <1>13 DEF VerdictWith
<1>15. Test.scenario => Follows(next)'
  <2> SUFFICES ASSUME Test.scenario PROVE Follows(next)'
    OBVIOUS
  <2>1. now = step.at /\ LikeCache(acc.cache)
    BY <1>4 DEF Follows
  <2>2. next.warm
    BY <1>3, <1>5, AloneWarm
  <2>3. LikeCache(next.cache)'
    <3>1. CASE Cacheable(status)
      <4>1. cache' = [cache EXCEPT ![step.url] = Object(status, t)]
        BY <1>1, <3>1 DEF Stored
      <4>2. PICK d : d = next.cache
        OBVIOUS
      <4>3. d = [acc.cache EXCEPT ![step.url] = [status |-> status, stored |-> now]]
        BY <1>3, <1>5, <1>6, <2>1, <3>1, <4>2, AloneCache
      <4>4. PICK st, by, url, c : st = status /\ by = t /\ url = step.url /\ c = acc.cache
        OBVIOUS
      <4>5. LikeCache(d)'
        BY <1>1, <1>3, <1>8, <2>1, <4>1, <4>3, <4>4, StoredAlike
      <4> QED
        BY <4>2, <4>5
    <3>2. CASE ~Cacheable(status)
      <4>1. cache' = cache
        BY <1>1, <3>2 DEF Stored
      <4>4. ~Cacheable(StatusOf(acc, step))
        BY <1>6, <3>2
      <4>2. next.cache = acc.cache
        BY <1>3, <4>4, AloneCache
      <4>3. \A u : Live(cache[u])' <=> Live(cache[u])
        BY <1>1, <4>1 DEF Live
      <4> QED
        BY <2>1, <4>1, <4>2, <4>3 DEF LikeCache
    <3> QED
      BY <3>1, <3>2
  <2> QED
    BY <2>2, <2>3 DEF Follows
<1> QED
  BY <1>1, <1>3, <1>13, <1>14, <1>15 DEF Within

\* The counts are collected as they are.
LEMMA CollectAlone ==
  ASSUME NEW run, Within(run), FlushAndCollect
  PROVE  Within(run)'
<1> USE DEF fileVars, mockVars, extVars, logVars, outVars
<1>1. /\ pc = "collect" /\ pc' = "check" /\ seen' = calls
      /\ UNCHANGED <<suite, t, s, cfg, calls, cache, bans, idle, resp, failed>>
  BY DEF FlushAndCollect
<1>2. /\ cfg = run[s].cfg /\ (Test.scenario => Follows(run[s]))
      /\ VerdictWith(calls) \in run[s].ok
  BY <1>1 DEF Within
<1>3. Follows(run[s]) => Follows(run[s])'
  BY <1>1, FollowsStays
<1>4. Test' = Test /\ Step' = Step /\ Verdict' = Verdict
  BY <1>1 DEF Test, Step, Verdict
<1>5. VerdictWith(seen)' = VerdictWith(calls)
  BY <1>1, <1>4 DEF VerdictWith
<1> QED
  BY <1>1, <1>2, <1>3, <1>4, <1>5 DEF Within

\* The verdict of the step goes into that of the test.
LEMMA CheckAlone ==
  ASSUME IInv, NEW run, Within(run), CheckStep, pc' # "ban"
  PROVE  Within(run)'
<1> USE DEF fileVars, mockVars, extVars, logVars, outVars
<1>1. /\ pc = "check" /\ pc' = "step" /\ s < Len(Test.steps) /\ s' = s + 1
      /\ failed' = (failed \/ ~Check(Step.expect, resp, seen))
      /\ UNCHANGED <<suite, t, cfg, cache, bans, idle>>
  BY DEF CheckStep, Record
<1>2. pc \in InTest /\ pc \in InStep
  BY <1>1 DEF InTest, Running, InStep
<1>3. s \in 1..NSteps(t) /\ NSteps(t) = Len(Test.steps) /\ NSteps(t) \in Nat
  BY <1>2, StepInProgress, TestInProgress DEF NSteps, Test
<1>4. Test.scenario
  <2>1. Test.scenario \in BOOLEAN /\ (~Test.scenario => NSteps(t) = 1)
    BY <1>2, TestInProgress
  <2>2. NSteps(t) # 1
    <3>1. s < Len(Test.steps)
      BY <1>1
    <3>2. \A n \in Nat : s \in 1..n /\ s < n => n # 1
      OBVIOUS
    <3> QED
      BY <1>3, <3>1, <3>2
  <2> QED
    BY <2>1, <2>2, Zenon
<1>5. cfg = run[s].cfg /\ Follows(run[s]) /\ VerdictWith(seen) \in run[s].ok
  BY <1>1, <1>4 DEF Within
<1>6. PICK acc : acc = run[s]
  OBVIOUS
<1>7. Follows(acc)'
  BY <1>1, <1>5, <1>6, FollowsStays
<1>8. Verdict' = VerdictWith(seen)
  BY <1>1 DEF Verdict, VerdictWith
<1>9. acc = run[s' - 1]
  BY <1>1, <1>3, <1>6
<1> QED
  BY <1>1, <1>5, <1>6, <1>7, <1>8, <1>9 DEF Within

\* configureBackendsForTest is where the test on its own begins, after a ban and,
\* before the first test, with no connection used.
LEMMA ConfigureAlone ==
  ASSUME FreshInv, t \in Nat \ {0}, NEW run, NEW conf, NEW warm, IsAlone(run, Test, conf, warm),
         conf = cfg, warm = (t > 1), ConfigureBackendsForTest
  PROVE  Within(run)'
<1> USE DEF fileVars, mockVars, extVars, logVars, outVars
<1>1. /\ pc = "configure" /\ pc' = "enter" /\ cfg' = Update(cfg, Test.backends)
      /\ UNCHANGED <<suite, t, cache, bans, idle>>
  BY DEF ConfigureBackendsForTest
<1>2. run[0].cfg = Update(conf, Test.backends)
  BY StartCfg DEF IsAlone
<1>3. run[0].cache = NoObjects /\ run[0].warm = warm
  BY DEF IsAlone, AloneStart
<1>4. (t = 1 => ~SomeIdle) /\ \A u \in DOMAIN UseBackend : ~Live(cache[u])
  BY <1>1 DEF FreshInv
<1>5. /\ NoObjects = [u \in DOMAIN UseBackend |-> NoObjects[u]]
      /\ \A u \in DOMAIN UseBackend : NoObjects[u] = None
  BY DEF NoObjects
<1>6. LikeCache(run[0].cache)
  BY <1>3, <1>4, <1>5 DEF LikeCache
<1>7. SomeIdle => run[0].warm
  <2>1. t = 1 \/ t > 1
    OBVIOUS
  <2> QED
    BY <1>3, <1>4, <2>1
<1>8. Follows(run[0])'
  BY <1>1, <1>6, <1>7, FollowsStays DEF Follows
<1> QED
  BY <1>1, <1>2, <1>8 DEF Within

\* At the end of a test its verdict is one of the test on its own, and the mocks are
\* left as that one leaves them.
LEMMA EndAlone ==
  ASSUME IInv, NEW run, Within(run), CheckStep, pc' = "ban"
  PROVE  /\ results'[t].passed \in run[NSteps(t)].ok /\ cfg = run[NSteps(t)].cfg
         /\ ~results'[t].err /\ UNCHANGED cfg
<1> USE DEF fileVars, mockVars, extVars, logVars, outVars
<1> DEFINE bad == failed \/ ~Check(Step.expect, resp, seen)
<1>1. /\ pc = "check" /\ s = Len(Test.steps) /\ UNCHANGED cfg
      /\ \/ Record(~bad, FALSE, IF bad THEN TraceSince(mark) ELSE {})
         \/ bad /\ Record(FALSE, FALSE, {})
  BY DEF CheckStep
<1>2. pc \in Loaded /\ pc \in InStep
  BY <1>1 DEF Loaded, Running, InStep
<1>3. s = NSteps(t)
  BY <1>1 DEF NSteps, Test
<1>4. cfg = run[s].cfg /\ VerdictWith(seen) \in run[s].ok
  BY <1>1 DEF Within
<1>5. (~bad) = VerdictWith(seen)
  BY DEF Verdict, VerdictWith
<1>6. results \in Seq(Outcome) /\ Len(results) = t - 1 /\ t \in Nat
  BY <1>2, StepInProgress DEF IInv, LoopInv, ResultsInv
<1>7. \E trace : results' = Append(results, [passed |-> ~bad, err |-> FALSE, trace |-> trace])
  BY <1>1 DEF Record
<1> HIDE DEF bad
<1>8. results'[t].passed = (~bad) /\ results'[t].err = FALSE
  BY <1>6, <1>7
<1>9. results'[t].passed \in run[s].ok
  BY <1>4, <1>5, <1>8
<1> QED
  BY <1>1, <1>3, <1>4, <1>8, <1>9

\* The result of a test that ends is the last one, and the loop goes to the next test.
LEMMA ResultAdded ==
  ASSUME IInv, pc \in Running, NEW passed, NEW err, NEW trace, Record(passed, err, trace)
  PROVE  /\ pc' = "ban" /\ t' = t + 1
         /\ \A i \in 1..(t - 1) : results'[i] = results[i]
         /\ results'[t].passed = passed /\ results'[t].err = err
<1>1. results \in Seq(Outcome) /\ Len(results) = t - 1
  BY DEF IInv, LoopInv, ResultsInv
<1>2. t \in Nat \ {0}
  <2>1. pc \in Loaded
    BY DEF Loaded
  <2> QED
    BY <2>1, StepsOfTest DEF IInv, LoopInv, PlaceInv
<1>3. PICK o : o = [passed |-> passed, err |-> err, trace |-> trace]
  OBVIOUS
<1>4. results' = Append(results, o) /\ pc' = "ban" /\ t' = t + 1
  BY <1>3 DEF Record
<1>5. results'[t] = o /\ \A i \in 1..(t - 1) : results'[i] = results[i]
  BY <1>1, <1>2, <1>4
<1>6. o.passed = passed /\ o.err = err
  BY <1>3
<1> QED
  BY <1>4, <1>5, <1>6

\* A test in progress goes on as the test on its own does, or it ends: with an error,
\* or with one of the verdicts of the test on its own.
LEMMA TestGoesOn ==
  ASSUME Grace = 0, IInv, CacheInv, MockInv, NEW run, NEW conf, NEW warm,
         IsAlone(run, Test, conf, warm), Within(run), pc \in InTest, [Next]_vars
  PROVE  /\ UNCHANGED <<suite, vclLoaded>>
         /\ \/ pc' \in InTest /\ t' = t /\ results' = results /\ Within(run)'
            \/ /\ pc' = "ban" /\ t' = t + 1
               /\ \A i \in 1..(t - 1) : results'[i] = results[i]
               /\ \/ ~vclLoaded \/ Fault
                  \/ cfg' = run[NSteps(t)].cfg /\ ~results'[t].err
               /\ ~results'[t].err => results'[t].passed \in run[NSteps(t)].ok
<1> USE DEF fileVars, loopVars, mockVars, extVars, logVars, outVars
<1> DEFINE Left == /\ pc' = "ban" /\ t' = t + 1
                   /\ \A i \in 1..(t - 1) : results'[i] = results[i]
<1>0. pc \in Running /\ "ban" \notin InTest
  BY DEF InTest, Running, InStep
<1>1. \A p, e : Record(p, TRUE, e) => Left /\ results'[t].err = TRUE
  BY <1>0, ResultAdded
<1>2. CASE RunTestWithSharedVCL
  <2>1. UNCHANGED <<suite, vclLoaded>>
    BY <1>2 DEF RunTestWithSharedVCL
  <2>2. CASE vclLoaded
    <3>1. UNCHANGED <<t, results>> /\ pc' \in {"step", "reset"}
      BY <1>2, <2>2 DEF RunTestWithSharedVCL
    <3>2. Within(run)'
      BY <1>2, <2>2, EnterAlone
    <3> QED
      BY <2>1, <3>1, <3>2 DEF InTest, Running, InStep
  <2>3. CASE ~vclLoaded
    <3>1. Record(FALSE, TRUE, {})
      BY <1>2, <2>3 DEF RunTestWithSharedVCL
    <3>2. Left /\ results'[t].err = TRUE
      BY <1>1, <3>1
    <3> QED
      BY <2>1, <2>3, <3>2
  <2> QED
    BY <2>2, <2>3
<1>3. CASE BeginStep \/ MakeRequest
  <2>1. /\ UNCHANGED <<suite, vclLoaded>>
        /\ \/ Fault /\ Record(FALSE, TRUE, {})
           \/ pc' \in {"reset", "collect", "fetch"} /\ UNCHANGED <<t, results>>
    BY <1>3, Zenon DEF BeginStep, MakeRequest
  <2>2. CASE Fault /\ Record(FALSE, TRUE, {})
    <3>1. Left /\ results'[t].err = TRUE
      BY <1>1, <2>2
    <3> QED
      BY <2>1, <2>2, <3>1
  <2>3. CASE pc' \in {"reset", "collect", "fetch"} /\ UNCHANGED <<t, results>>
    <3>1. Within(run)'
      BY <1>3, <2>3, BeginAlone, RequestAlone
    <3> QED
      BY <2>1, <2>3, <3>1 DEF InTest, Running, InStep
  <2> QED
    BY <2>1, <2>2, <2>3
<1>4. CASE ResetAndMark \/ Fetch \/ FlushAndCollect
  <2>1. /\ UNCHANGED <<suite, vclLoaded>>
        /\ pc' \in {"request", "collect", "check"} /\ UNCHANGED <<t, results>>
    BY <1>4 DEF ResetAndMark, Fetch, FlushAndCollect
  <2>2. Within(run)'
    BY <1>4, ResetAlone, FetchAlone, CollectAlone
  <2> QED
    BY <2>1, <2>2 DEF InTest, Running, InStep
<1>5. CASE CheckStep
  <2>1. UNCHANGED <<suite, vclLoaded>>
    BY <1>5 DEF CheckStep
  <2>2. CASE pc' # "ban"
    <3>1. pc' = "step" /\ UNCHANGED <<t, results>>
      BY <1>5, <2>2 DEF CheckStep, Record
    <3>2. Within(run)'
      BY <1>5, <2>2, CheckAlone
    <3> QED
      BY <2>1, <3>1, <3>2 DEF InTest, Running, InStep
  <2>3. CASE pc' = "ban"
    <3>1. /\ results'[t].passed \in run[NSteps(t)].ok /\ cfg' = run[NSteps(t)].cfg
          /\ ~results'[t].err
      BY <1>5, <2>3, EndAlone
    <3>2. \E p, e : Record(p, FALSE, e)
      BY <1>5, <2>3, Zenon DEF CheckStep
    <3>3. Left
      BY <1>0, <3>2, ResultAdded
    <3> QED
      BY <2>1, <3>1, <3>3
  <2> QED
    BY <2>2, <2>3
<1>6. CASE WriteLog \/ UNCHANGED vars
  <2>1. UNCHANGED <<suite, vclLoaded, pc, t, s, cfg, calls, seen, now, bans, cache, idle,
                    resp, failed, results>>
    BY <1>6 DEF WriteLog, vars
  <2>2. Within(run)'
    BY <2>1, WithinStays
  <2> QED
    BY <2>1, <2>2
<1>7. ~Load /\ ~Ban /\ ~Finish /\ ~ConfigureBackendsForTest
  BY DEF Load, Ban, Finish, ConfigureBackendsForTest, InTest, Running, InStep
<1>8. ~BackgroundCall /\ ~BackgroundStore
  BY DEF BackgroundCall, BackgroundStore, CacheInv
<1> QED
  BY <1>2, <1>3, <1>4, <1>5, <1>6, <1>7, <1>8 DEF Next, Loop

-----------------------------------------------------------------------------
(* The mocks, the cache before a test, and the theorems *)

\* The mocks start with configurations they can serve.
LEMMA LoadMocks ==
  ASSUME IInv, Load
  PROVE  MockInv'
<1> SUFFICES ASSUME pc' \in Loaded PROVE MockInv'
  BY DEF MockInv
<1>1. /\ pc = "load" /\ docs \in Files /\ \A i \in DOMAIN docs : Validate(docs[i])
      /\ suite' = [i \in DOMAIN docs |-> ApplyDefaults(docs[i])]
      /\ cfg' = StartConfig(suite') /\ calls' = [b \in DOMAIN cfg' |-> 0]
      /\ idle' = [b \in DOMAIN cfg' |-> FALSE]
  BY DEF Load, Loaded, Running, InStep, IInv, LoopInv, SuiteInv
<1>2. DOMAIN docs = 1..Len(docs) /\ Len(docs) \in Nat
  BY <1>1, FilesAssumption, LenProperties
<1>3. PICK tests : tests = suite'
  OBVIOUS
<1>4. ASSUME NEW i \in 1..Len(docs)
      PROVE  Specs(tests[i].backends)
  <2>1. Validate(docs[i]) /\ tests[i] = ApplyDefaults(docs[i])
    BY <1>1, <1>2, <1>3
  <2>2. Specs(ApplyDefaults(docs[i]).backends)
    BY <1>1, <2>1, BackendsOf
  <2> QED
    BY <2>1, <2>2
<1>5. DOMAIN tests = 1..Len(docs)
  BY <1>1, <1>2, <1>3
<1>6. Proper(StartConfig(tests), Mocks(tests))
  BY <1>2, <1>4, <1>5, StartProper
<1>7. PICK c : c = cfg'
  OBVIOUS
<1>8. Proper(c, Mocks(suite'))
  BY <1>1, <1>3, <1>6, <1>7
<1>9. DOMAIN c = Mocks(suite')
  BY <1>8 DEF Proper
<1> QED
  BY <1>1, <1>7, <1>8, <1>9 DEF MockInv

\* Whatever a test or a step gives them, they can serve.
LEMMA UpdateMocks ==
  ASSUME IInv, MockInv, ConfigureBackendsForTest \/ BeginStep
  PROVE  MockInv'
<1> USE DEF fileVars, mockVars, extVars, logVars, outVars
<1>1. pc \in Loaded /\ pc \in Running /\ pc \in {"configure", "step"}
  BY DEF ConfigureBackendsForTest, BeginStep, Loaded, Running, InStep
<1>2. /\ Proper(cfg, Mocks(suite))
      /\ DOMAIN calls = Mocks(suite) /\ DOMAIN idle = Mocks(suite)
  BY <1>1 DEF MockInv
<1>3. UNCHANGED <<suite, calls, idle>>
  BY DEF ConfigureBackendsForTest, BeginStep
<1>4. t \in 1..Len(suite)
  BY <1>1, StepsOfTest DEF IInv, LoopInv, PlaceInv
<1>5. Furnished(suite[t], Mocks(suite))
  BY <1>1, <1>4, SuiteFurnished DEF IInv, LoopInv
<1>6. PICK D, c : D = Mocks(suite) /\ c = cfg'
  OBVIOUS
<1>7. Proper(c, D)
  <2>1. CASE ConfigureBackendsForTest
    <3>1. c = Update(cfg, suite[t].backends) /\ Specs(suite[t].backends)
      BY <1>5, <1>6, <2>1 DEF ConfigureBackendsForTest, Test, Furnished
    <3> QED
      BY <1>2, <1>6, <3>1, UpdateProper
  <2>2. CASE BeginStep
    <3>1. pc \in InStep /\ (c = Update(cfg, Step.backends) \/ c = cfg)
      BY <1>6, <2>2 DEF BeginStep, InStep
    <3>2. s \in 1..Len(suite[t].steps)
      BY <3>1, StepInProgress DEF NSteps
    <3>3. Specs(Step.backends)
      BY <1>5, <3>2 DEF Furnished, Step, Test
    <3> QED
      BY <1>2, <1>6, <3>1, <3>3, UpdateProper
  <2> QED
    BY <2>1, <2>2
<1> QED
  BY <1>2, <1>3, <1>6, <1>7 DEF MockInv, Mocks

\* The other steps change at most the counts and the connections.
LEMMA MocksKept ==
  ASSUME IInv, CacheInv, MockInv, [Next]_vars
  PROVE  MockInv'
<1> USE DEF fileVars, mockVars, extVars, logVars, outVars
<1>1. CASE \/ Ban \/ RunTestWithSharedVCL \/ Finish \/ MakeRequest \/ FlushAndCollect
           \/ CheckStep \/ WriteLog \/ UNCHANGED vars
  <2>1. UNCHANGED <<suite, cfg, calls, idle>>
    BY <1>1 DEF Ban, RunTestWithSharedVCL, Finish, MakeRequest, FlushAndCollect,
                CheckStep, WriteLog, vars
  <2>2. UNCHANGED pc \/ pc \in Loaded
    BY <1>1 DEF Ban, RunTestWithSharedVCL, Finish, MakeRequest, FlushAndCollect,
                CheckStep, WriteLog, vars, loopVars, Loaded, Running, InStep
  <2> QED
    BY <2>1, <2>2 DEF MockInv, Mocks
<1>2. CASE ResetAndMark \/ Fetch
  <2>1. pc \in Loaded /\ UNCHANGED <<suite, cfg>>
    BY <1>2 DEF ResetAndMark, Fetch, Loaded, Running, InStep
  <2>2. DOMAIN calls' = DOMAIN calls /\ DOMAIN idle' = DOMAIN idle
    BY <1>2 DEF ResetAndMark, Fetch, AskMock
  <2> QED
    BY <2>1, <2>2 DEF MockInv, Mocks
<1>3. ~BackgroundCall /\ ~BackgroundStore
  BY DEF BackgroundCall, BackgroundStore, CacheInv
<1> QED
  BY <1>1, <1>2, <1>3, LoadMocks, UpdateMocks DEF Next, Loop

\* No object is live after an accepted ban, and nothing is connected before the
\* first test.
LEMMA FreshKept ==
  ASSUME ~BanRefusals, IInv, CacheInv, FreshInv, [Next]_vars
  PROVE  FreshInv'
<1> USE DEF fileVars, mockVars, extVars, logVars, outVars
<1>0. t \in Nat \ {0}
  <2>1. CASE pc \in Loaded
    BY <2>1, StepsOfTest DEF IInv, LoopInv, PlaceInv
  <2>2. CASE pc \notin Loaded
    <3>1. suite = <<>> /\ t \in 1..(Len(suite) + 1)
      BY <2>2 DEF IInv, LoopInv, PlaceInv, SuiteInv
    <3> QED
      BY <3>1
  <2> QED
    BY <2>1, <2>2
<1>1. CASE Load
  <2>1. pc' = "ban" => idle' = [b \in DOMAIN idle' |-> FALSE]
    BY <1>1 DEF Load
  <2>2. pc' \in {"ban", "rejected"}
    BY <1>1 DEF Load
  <2> QED
    BY <2>1, <2>2 DEF FreshInv, SomeIdle
<1>2. CASE Ban
  <2>1. UNCHANGED <<cache, idle>> /\ pc = "ban" /\ bans \in Nat
    BY <1>2 DEF Ban, CacheInv
  <2>2. CASE bans' = bans + 1 /\ pc' = "configure" /\ t' = t
    <3>1. \A u \in DOMAIN UseBackend : cache[u] # None => cache[u].ban # bans'
      BY <2>1, <2>2 DEF CacheInv
    <3>2. \A u \in DOMAIN UseBackend : ~Live(cache[u])'
      BY <2>1, <3>1 DEF Live
    <3> QED
      BY <2>1, <2>2, <3>2 DEF FreshInv, SomeIdle
  <2>3. CASE (pc' = "ban" /\ t' = t + 1) \/ pc' = "blocked"
    BY <1>0, <2>3 DEF FreshInv
  <2> QED
    BY <1>2, <2>2, <2>3 DEF Ban, Record
<1>3. CASE WriteLog \/ UNCHANGED vars
  <2>1. UNCHANGED <<pc, t, cache, bans, idle>>
    BY <1>3 DEF WriteLog, vars, loopVars
  <2>2. \A u : Live(cache[u])' <=> Live(cache[u])
    BY <2>1 DEF Live
  <2> QED
    BY <2>1, <2>2 DEF FreshInv, SomeIdle
<1>4. CASE \/ ConfigureBackendsForTest \/ RunTestWithSharedVCL \/ Finish \/ BeginStep
           \/ ResetAndMark \/ MakeRequest \/ Fetch \/ FlushAndCollect \/ CheckStep
  <2>1. pc' \notin {"ban", "configure"} \/ (pc' = "ban" /\ t' = t + 1)
    BY <1>4 DEF ConfigureBackendsForTest, RunTestWithSharedVCL, Finish, BeginStep,
                ResetAndMark, MakeRequest, Fetch, FlushAndCollect, CheckStep, Record
  <2> QED
    BY <1>0, <2>1 DEF FreshInv
<1>5. ~BackgroundCall /\ ~BackgroundStore
  BY DEF BackgroundCall, BackgroundStore, CacheInv
<1> QED
  BY <1>1, <1>2, <1>3, <1>4, <1>5 DEF Next, Loop

\* Between two tests nothing is reported, unless the ban fails.
LEMMA BetweenTests ==
  ASSUME IInv, CacheInv, pc \in {"ban", "configure", "done", "blocked"}, [Next]_vars
  PROVE  /\ UNCHANGED <<suite, vclLoaded>> /\ t \in Nat \ {0}
         /\ \/ UNCHANGED <<t, results, cfg>> /\ pc' \in {"ban", "configure", "done", "blocked"}
            \/ UNCHANGED <<t, results>> /\ ConfigureBackendsForTest /\ pc' = "enter"
            \/ /\ pc' = "ban" /\ t' = t + 1 /\ results'[t].err /\ Fault
               /\ \A i \in 1..(t - 1) : results'[i] = results[i]
<1> USE DEF fileVars, loopVars, mockVars, extVars, logVars, outVars
<1>0. t \in Nat \ {0} /\ Len(results) = t - 1 /\ results \in Seq(Outcome)
  <2>1. pc \in Loaded
    BY DEF Loaded, Running
  <2> QED
    BY <2>1, StepsOfTest DEF IInv, LoopInv, PlaceInv, ResultsInv
<1>1. CASE WriteLog \/ Finish \/ ConfigureBackendsForTest \/ UNCHANGED vars
  BY <1>0, <1>1 DEF WriteLog, Finish, ConfigureBackendsForTest, vars
<1>2. CASE Ban
  <2>1. CASE Record(FALSE, TRUE, {}) /\ Fault
    <3>1. PICK o : o = [passed |-> FALSE, err |-> TRUE, trace |-> {}]
      OBVIOUS
    <3>2. results' = Append(results, o) /\ pc' = "ban" /\ t' = t + 1 /\ o.err = TRUE
      BY <2>1, <3>1 DEF Record
    <3>3. results'[t] = o /\ \A i \in 1..(t - 1) : results'[i] = results[i]
      BY <1>0, <3>2
    <3> QED
      BY <1>0, <1>2, <2>1, <3>2, <3>3 DEF Ban
  <2>2. CASE UNCHANGED <<t, outVars>> /\ pc' \in {"configure", "blocked"}
    BY <1>0, <1>2, <2>2 DEF Ban
  <2> QED
    BY <1>2, <2>1, <2>2 DEF Ban
<1>3. ~ \/ Load \/ RunTestWithSharedVCL \/ BeginStep \/ ResetAndMark \/ MakeRequest \/ Fetch
        \/ FlushAndCollect \/ CheckStep
  BY DEF Load, RunTestWithSharedVCL, BeginStep, ResetAndMark, MakeRequest, Fetch,
         FlushAndCollect, CheckStep
<1>4. ~BackgroundCall /\ ~BackgroundStore
  BY DEF BackgroundCall, BackgroundStore, CacheInv
<1> QED
  BY <1>1, <1>2, <1>3, <1>4 DEF Next, Loop

\* Before the suite is loaded there are no tests.
LEMMA NotLoaded ==
  ASSUME IInv, CacheInv, pc \in {"load", "rejected"}, [Next]_vars
  PROVE  t = 1 /\ UNCHANGED t /\ pc' \in {"load", "rejected", "ban"}
<1> USE DEF loopVars
<1>1. suite = <<>> /\ t \in 1..(Len(suite) + 1)
  BY DEF IInv, LoopInv, PlaceInv, SuiteInv
<1>2. t = 1
  BY <1>1
<1>3. UNCHANGED t /\ pc' \in {"load", "rejected", "ban"}
  BY DEF Next, Loop, Load, Ban, ConfigureBackendsForTest, RunTestWithSharedVCL, Finish, BeginStep,
         ResetAndMark, MakeRequest, Fetch, FlushAndCollect, CheckStep, WriteLog, BackgroundCall,
         BackgroundStore, CacheInv, vars
<1> QED
  BY <1>2, <1>3

\* The invariant about single tests is kept.
LEMMA AloneKept ==
  ASSUME ~BanRefusals, Grace = 0, IInv, CacheInv, MockInv, FreshInv, AloneInv, [Next]_vars
  PROVE  AloneInv'
<1>1. CASE pc \in InTest
  <2>1. PICK conf : Proper(conf, Mocks(suite)) /\ Within(AloneRun(suite[t], conf, t > 1))
    BY <1>1 DEF AloneInv
  <2>2. PICK run, warm : run = AloneRun(suite[t], conf, t > 1) /\ warm = (t > 1)
    OBVIOUS
  <2>3. Test = suite[t] /\ NSteps(t) \in Nat \ {0} /\ t \in 1..Len(suite)
    BY <1>1, TestInProgress
  <2>4. IsAlone(run, Test, conf, warm)
    BY <2>2, <2>3, AloneUnrolled DEF IsAlone, NSteps
  <2>5. Within(run)
    BY <2>1, <2>2
  <2>6. /\ UNCHANGED suite
        /\ \/ pc' \in InTest /\ t' = t /\ results' = results /\ Within(run)'
           \/ /\ pc' = "ban" /\ t' = t + 1
              /\ \A i \in 1..(t - 1) : results'[i] = results[i]
              /\ ~results'[t].err => results'[t].passed \in run[NSteps(t)].ok
    BY <1>1, <2>4, <2>5, TestGoesOn
  <2>7. CASE pc' \in InTest /\ t' = t /\ results' = results /\ Within(run)'
    <3>1. run = AloneRun(suite[t], conf, t > 1)'
      BY <2>2, <2>6, <2>7
    <3>2. Within(AloneRun(suite[t], conf, t > 1))'
      BY <2>7, <3>1
    <3> QED
      BY <2>1, <2>6, <2>7, <3>2 DEF AloneInv
  <2>8. CASE /\ pc' = "ban" /\ t' = t + 1
             /\ \A i \in 1..(t - 1) : results'[i] = results[i]
             /\ ~results'[t].err => results'[t].passed \in run[NSteps(t)].ok
    <3>1. ~results'[t].err => results'[t].passed \in Verdicts(suite[t], conf, t > 1)
      BY <2>2, <2>8 DEF Verdicts, NSteps
    <3>2. pc' \notin InTest
      BY <2>8 DEF InTest, Running, InStep
    <3>3. \A i \in 1..(t' - 1) : i \in 1..(t - 1) \/ i = t
      BY <2>3, <2>8
    <3> QED
      BY <2>1, <2>6, <2>8, <3>1, <3>2, <3>3 DEF AloneInv
  <2> QED
    BY <2>6, <2>7, <2>8
<1>2. CASE pc \in {"ban", "configure", "done", "blocked"}
  <2>1. /\ UNCHANGED suite /\ t \in Nat \ {0}
        /\ \/ UNCHANGED <<t, results>> /\ pc' \in {"ban", "configure", "done", "blocked"}
           \/ UNCHANGED <<t, results>> /\ ConfigureBackendsForTest /\ pc' = "enter"
           \/ /\ pc' = "ban" /\ t' = t + 1 /\ results'[t].err
              /\ \A i \in 1..(t - 1) : results'[i] = results[i]
    BY <1>2, BetweenTests
  <2>2. CASE UNCHANGED <<t, results>> /\ pc' \in {"ban", "configure", "done", "blocked"}
    <3>1. pc' \notin InTest
      BY <2>2 DEF InTest, Running, InStep
    <3> QED
      BY <2>1, <2>2, <3>1 DEF AloneInv
  <2>3. CASE UNCHANGED <<t, results>> /\ ConfigureBackendsForTest /\ pc' = "enter"
    <3>1. PICK conf, warm : conf = cfg /\ warm = (t > 1)
      OBVIOUS
    <3>2. PICK run : run = AloneRun(suite[t], conf, warm)
      OBVIOUS
    <3>3. pc = "configure" /\ pc \in Loaded /\ pc \in Running
      BY <2>3 DEF ConfigureBackendsForTest, Loaded, Running
    <3>4. t \in 1..Len(suite) /\ NSteps(t) \in Nat
      BY <3>3, StepsOfTest DEF IInv, LoopInv, PlaceInv
    <3>5. IsAlone(run, Test, conf, warm)
      BY <3>2, <3>4, AloneUnrolled DEF IsAlone, NSteps, Test
    <3>6. Within(run)'
      BY <2>1, <2>3, <3>1, <3>5, ConfigureAlone
    <3>7. run = AloneRun(suite[t], conf, t > 1)'
      BY <2>1, <2>3, <3>1, <3>2
    <3>8. Within(AloneRun(suite[t], conf, t > 1))'
      BY <3>6, <3>7
    <3>9. Proper(conf, Mocks(suite))
      BY <3>1, <3>3 DEF MockInv
    <3> QED
      BY <2>1, <2>3, <3>8, <3>9 DEF AloneInv
  <2>4. CASE /\ pc' = "ban" /\ t' = t + 1 /\ results'[t].err
             /\ \A i \in 1..(t - 1) : results'[i] = results[i]
    <3>1. pc' \notin InTest
      BY <2>4 DEF InTest, Running, InStep
    <3>2. \A i \in 1..(t' - 1) : i \in 1..(t - 1) \/ i = t
      BY <2>1, <2>4
    <3> QED
      BY <2>1, <2>4, <3>1, <3>2 DEF AloneInv
  <2> QED
    BY <2>1, <2>2, <2>3, <2>4
<1>3. CASE pc \in {"load", "rejected"}
  <2>1. t = 1 /\ UNCHANGED t /\ pc' \in {"load", "rejected", "ban"}
    BY <1>3, NotLoaded
  <2>2. pc' \notin InTest
    BY <2>1 DEF InTest, Running, InStep
  <2> QED
    BY <2>1, <2>2 DEF AloneInv
<1> QED
  BY <1>1, <1>2, <1>3 DEF IInv, LoopInv, PlaceInv, Loaded, InTest

\* What the configuration before a test can be does not matter to a test that names the
\* backends it uses.
LEMMA AloneSuffices ==
  ASSUME IInv, AloneInv
  PROVE  ResultsAsAlone
<1> SUFFICES ASSUME NEW i \in DOMAIN results, ~results[i].err, SelfContained(suite[i])
             PROVE  results[i].passed \in Verdicts(suite[i], StartConfig(<<suite[i]>>), i > 1)
  BY DEF ResultsAsAlone
<1> USE DEF IInv, LoopInv
<1>1. /\ DOMAIN results = 1..(t - 1) /\ t \in 1..(Len(suite) + 1)
      /\ pc \in Loaded \cup {"load", "rejected"}
  BY LenProperties DEF ResultsInv, PlaceInv
<1>2. pc \in Loaded
  <2> SUFFICES ASSUME pc \in {"load", "rejected"} PROVE FALSE
    BY <1>1
  <2>1. suite = <<>>
    BY DEF SuiteInv
  <2> QED
    BY <1>1, <2>1
<1>3. Len(suite) \in Nat
  BY <1>2, StepsOfTest
<1>4. i \in 1..(t - 1) /\ i \in 1..Len(suite)
  BY <1>1, <1>3
<1>5. PICK conf : /\ Proper(conf, Mocks(suite))
                  /\ results[i].passed \in Verdicts(suite[i], conf, i > 1)
  BY <1>4 DEF AloneInv
<1>6. PICK test, start : test = suite[i] /\ start = StartConfig(<<suite[i]>>)
  OBVIOUS
<1>7. /\ Len(test.steps) \in Nat /\ DOMAIN test.steps = 1..Len(test.steps)
      /\ Furnished(test, Mocks(suite))
  BY <1>2, <1>4, <1>6, StepsOfTest, SuiteFurnished DEF WellFormed
<1>8. \A k \in 1..Len(test.steps) : UseBackend[test.steps[k].url] \in DOMAIN test.backends
  BY <1>6, <1>7 DEF SelfContained
<1>9. DOMAIN test.backends \subseteq DOMAIN conf
  BY <1>5, <1>7 DEF Proper, Furnished
<1>10. DOMAIN test.backends \subseteq DOMAIN start
  <2>1. PICK one : one = <<test>>
    OBVIOUS
  <2>2. DOMAIN one = {1} /\ one[1] = test
    BY <2>1
  <2>3. DOMAIN start = Mocks(one)
    BY <1>6, <2>1 DEF StartConfig
  <2>4. UNION {DOMAIN one[j].backends : j \in DOMAIN one} = DOMAIN test.backends
    BY <2>2
  <2> QED
    BY <2>3, <2>4 DEF Mocks
<1>11. Verdicts(test, conf, i > 1) = Verdicts(test, start, i > 1)
  <2>1. PICK warm : warm = (i > 1)
    OBVIOUS
  <2>2. Verdicts(test, conf, warm) = Verdicts(test, start, warm)
    BY <1>7, <1>8, <1>9, <1>10, SameVerdicts
  <2> QED
    BY <2>1, <2>2
<1> QED
  BY <1>5, <1>6, <1>11

\* The invariants of the mocks and of the cache hold throughout.
LEMMA MocksInvariant ==
  ASSUME ~BanRefusals, Grace = 0
  PROVE  Spec => [](IInv /\ CacheInv /\ MockInv /\ FreshInv)
<1>1. Init => MockInv /\ FreshInv
  <2>1. Init => pc = "load" /\ "load" \notin Loaded
    BY DEF Init, Loaded, Running, InStep
  <2> QED
    BY <2>1 DEF MockInv, FreshInv
<1>2. IInv /\ CacheInv /\ MockInv /\ FreshInv /\ [Next]_vars => MockInv' /\ FreshInv'
  BY MocksKept, FreshKept
<1> QED
  BY <1>1, <1>2, TestRunInvariant, CacheInvariant, PTL DEF Spec

\* When bans are accepted and objects have no grace, a test that names the backends it
\* uses gets a verdict it would get alone in its file, for any test files, TTL and VCL
\* and whatever faults there are (runTests, configureBackendsForTest).
THEOREM ResultsAreAsAlone ==
  ASSUME ~BanRefusals, Grace = 0
  PROVE  Spec => []ResultsAsAlone
<1>1. Init => AloneInv
  <2> SUFFICES ASSUME Init PROVE AloneInv
    OBVIOUS
  <2>1. t = 1 /\ pc = "load" /\ "load" \notin InTest
    BY DEF Init, InTest, Running, InStep
  <2> QED
    BY <2>1 DEF AloneInv
<1>2. IInv /\ CacheInv /\ MockInv /\ FreshInv /\ AloneInv /\ [Next]_vars => AloneInv'
  BY AloneKept
<1>3. IInv /\ AloneInv => ResultsAsAlone
  BY AloneSuffices
<1> QED
  BY <1>1, <1>2, <1>3, MocksInvariant, PTL DEF Spec

\* The loop is where the tests before it have left the mocks.
LEMMA CarryKept ==
  ASSUME ~BanRefusals, Grace = 0, MaxFaults = 0, IInv, CacheInv, MockInv, FreshInv,
         CarryInv, [Next]_vars
  PROVE  CarryInv'
<1>0. ~Fault
  BY NoFault DEF IInv, LoopInv, PlaceInv
<1>1. CASE pc \in InTest
  <2>1. Test = suite[t] /\ NSteps(t) \in Nat \ {0} /\ t \in 1..Len(suite)
    BY <1>1, TestInProgress
  <2>2. PICK conf, warm : conf = LeftBehind(suite, t - 1) /\ warm = (t > 1)
    OBVIOUS
  <2>3. PICK run : run = AloneRun(suite[t], conf, warm)
    OBVIOUS
  <2>4. IsAlone(run, Test, conf, warm)
    BY <2>1, <2>3, AloneUnrolled DEF IsAlone, NSteps
  <2>5. CASE vclLoaded
    <3>1. Within(run)
      BY <1>1, <2>2, <2>3, <2>5 DEF CarryInv
    <3>2. /\ UNCHANGED <<suite, vclLoaded>>
          /\ \/ pc' \in InTest /\ t' = t /\ results' = results /\ Within(run)'
             \/ /\ pc' = "ban" /\ t' = t + 1
                /\ \A i \in 1..(t - 1) : results'[i] = results[i]
                /\ cfg' = run[NSteps(t)].cfg /\ ~results'[t].err
                /\ ~results'[t].err => results'[t].passed \in run[NSteps(t)].ok
      BY <1>0, <1>1, <2>4, <2>5, <3>1, TestGoesOn
    <3>3. CASE pc' \in InTest /\ t' = t /\ results' = results /\ Within(run)'
      <4>1. conf = LeftBehind(suite, t - 1)'
        BY <2>2, <3>2, <3>3
      <4>2. run = AloneRun(suite[t], LeftBehind(suite, t - 1), t > 1)'
        BY <2>2, <2>3, <3>2, <3>3, <4>1
      <4>3. Within(AloneRun(suite[t], LeftBehind(suite, t - 1), t > 1))'
        BY <3>3, <4>2
      <4>4. pc' \notin {"ban", "configure"}
        BY <3>3 DEF InTest, Running, InStep
      <4> QED
        BY <2>5, <3>2, <3>3, <4>3, <4>4 DEF CarryInv
    <3>4. CASE /\ pc' = "ban" /\ t' = t + 1
               /\ \A i \in 1..(t - 1) : results'[i] = results[i]
               /\ cfg' = run[NSteps(t)].cfg /\ ~results'[t].err
               /\ ~results'[t].err => results'[t].passed \in run[NSteps(t)].ok
      <4>1. results'[t].passed \in Verdicts(suite[t], conf, warm)
        BY <2>3, <3>4 DEF Verdicts, NSteps
      <4>2. run[NSteps(t)].cfg = LeftBehind(suite, t)
        <5>1. pc \in Loaded
          BY <1>1 DEF InTest, Loaded
        <5>2. Len(suite) \in Nat
          BY <5>1, StepsOfTest DEF IInv, LoopInv
        <5> QED
          BY <2>1, <2>2, <2>3, <5>2, LeftUnrolled DEF NSteps
      <4>4. t' - 1 = t /\ pc' \notin InTest /\ pc' \notin InStep
        BY <2>1, <3>4 DEF InTest, Running, InStep
      <4>5. cfg' = LeftBehind(suite, t - 1)'
        BY <3>2, <3>4, <4>2, <4>4
      <4>6. \A i \in 1..(t' - 1) : i \in 1..(t - 1) \/ i = t
        BY <2>1, <3>4
      <4>7. \A i \in 1..(t' - 1) : ~results'[i].err =>
              results'[i].passed \in Verdicts(suite[i], LeftBehind(suite, i - 1), i > 1)
        BY <2>2, <3>4, <4>1, <4>6 DEF CarryInv
      <4>8. \A i \in 1..(t' - 1) : ~results'[i].err =>
              results'[i].passed \in Verdicts(suite'[i], LeftBehind(suite', i - 1), i > 1)
        BY <3>2, <4>7
      <4> QED
        BY <4>4, <4>5, <4>8 DEF CarryInv
    <3> QED
      BY <3>2, <3>3, <3>4
  <2>6. CASE ~vclLoaded
    <3>1. pc = "enter"
      BY <1>1, <2>6 DEF CarryInv, InTest, Running
    <3>2. CASE UNCHANGED <<suite, vclLoaded, pc, t, results>>
      <4>2. pc' \notin {"ban", "configure"} /\ pc' \notin InStep
        BY <3>1, <3>2 DEF InStep
      <4>3. \A i \in 1..(t' - 1) : ~results'[i].err =>
              results'[i].passed \in Verdicts(suite'[i], LeftBehind(suite', i - 1), i > 1)
        BY <3>2 DEF CarryInv
      <4> QED
        BY <2>6, <3>2, <4>2, <4>3 DEF CarryInv
    <3>3. CASE /\ UNCHANGED <<suite, vclLoaded>> /\ pc' = "ban" /\ t' = t + 1
               /\ \A i \in 1..(t - 1) : results'[i] = results[i]
               /\ results'[t].err
      <4>2. pc' \notin InStep
        BY <3>3 DEF InStep
      <4>3. \A i \in 1..(t' - 1) : i \in 1..(t - 1) \/ i = t
        BY <2>1, <3>3
      <4>4. \A i \in 1..(t' - 1) : ~results'[i].err =>
              results'[i].passed \in Verdicts(suite'[i], LeftBehind(suite', i - 1), i > 1)
        BY <3>3, <4>3 DEF CarryInv
      <4> QED
        BY <2>6, <3>3, <4>2, <4>4 DEF CarryInv
    <3>4. \/ UNCHANGED <<suite, vclLoaded, pc, t, results>>
          \/ RunTestWithSharedVCL
      BY <3>1 DEF Next, Loop, Load, Ban, ConfigureBackendsForTest, Finish, BeginStep,
           ResetAndMark, MakeRequest, Fetch, FlushAndCollect, CheckStep, WriteLog,
           BackgroundCall, BackgroundStore, CacheInv, vars, loopVars, fileVars, outVars
    <3>5. ASSUME RunTestWithSharedVCL
          PROVE  /\ UNCHANGED <<suite, vclLoaded>> /\ pc' = "ban" /\ t' = t + 1
                 /\ \A i \in 1..(t - 1) : results'[i] = results[i]
                 /\ results'[t].err
      <4>1. UNCHANGED <<suite, vclLoaded>> /\ Record(FALSE, TRUE, {}) /\ pc \in Running
        BY <2>6, <3>1, <3>5 DEF RunTestWithSharedVCL, fileVars, Running
      <4>2. /\ pc' = "ban" /\ t' = t + 1 /\ results'[t].err = TRUE
            /\ \A i \in 1..(t - 1) : results'[i] = results[i]
        BY <4>1, ResultAdded
      <4> QED
        BY <4>1, <4>2
    <3> QED
      BY <3>2, <3>3, <3>4, <3>5
  <2> QED
    BY <2>5, <2>6
<1>2. CASE pc \in {"ban", "configure", "done", "blocked"}
  <2>1. /\ UNCHANGED <<suite, vclLoaded>> /\ t \in Nat \ {0} /\ UNCHANGED <<t, results>>
        /\ \/ UNCHANGED cfg /\ pc' \in {"ban", "configure", "done", "blocked"}
           \/ ConfigureBackendsForTest /\ pc' = "enter"
    BY <1>0, <1>2, BetweenTests
  <2>3. \A i \in 1..(t' - 1) : ~results'[i].err =>
          results'[i].passed \in Verdicts(suite'[i], LeftBehind(suite', i - 1), i > 1)
    BY <2>1 DEF CarryInv
  <2>4. CASE UNCHANGED cfg /\ pc' \in {"ban", "configure", "done", "blocked"}
    <3>1. pc' \notin InTest /\ pc' \notin InStep
      BY <2>4 DEF InTest, Running, InStep
    <3>2. pc \in {"done", "blocked"} => pc' = pc
      BY <1>2 DEF Next, Loop, Load, Ban, ConfigureBackendsForTest, RunTestWithSharedVCL, Finish,
           BeginStep, ResetAndMark, MakeRequest, Fetch, FlushAndCollect, CheckStep, WriteLog,
           BackgroundCall, BackgroundStore, CacheInv, vars, loopVars
    <3>3. pc' \in {"ban", "configure"} /\ vclLoaded' => cfg' = LeftBehind(suite, t - 1)'
      BY <1>2, <2>1, <2>4, <3>2 DEF CarryInv
    <3> QED
      BY <2>3, <3>1, <3>3 DEF CarryInv
  <2>5. CASE ConfigureBackendsForTest /\ pc' = "enter"
    <3>1. pc = "configure" /\ pc \in Loaded /\ pc \in Running
      BY <2>5 DEF ConfigureBackendsForTest, Loaded, Running
    <3>2. pc' \notin InStep /\ pc' \notin {"ban", "configure"}
      BY <2>5 DEF InStep
    <3>3. CASE ~vclLoaded
      BY <2>1, <2>3, <3>2, <3>3 DEF CarryInv
    <3>4. CASE vclLoaded
      <4>1. PICK conf, warm : conf = cfg /\ warm = (t > 1)
        OBVIOUS
      <4>2. PICK run : run = AloneRun(suite[t], conf, warm)
        OBVIOUS
      <4>3. t \in 1..Len(suite) /\ NSteps(t) \in Nat
        BY <3>1, StepsOfTest DEF IInv, LoopInv, PlaceInv
      <4>4. IsAlone(run, Test, conf, warm)
        BY <4>2, <4>3, AloneUnrolled DEF IsAlone, NSteps, Test
      <4>5. Within(run)'
        BY <2>1, <2>5, <4>1, <4>4, ConfigureAlone
      <4>6. conf = LeftBehind(suite, t - 1) /\ conf = LeftBehind(suite, t - 1)'
        BY <2>1, <3>1, <3>4, <4>1 DEF CarryInv
      <4>7. run = AloneRun(suite[t], LeftBehind(suite, t - 1), t > 1)'
        BY <2>1, <4>1, <4>2, <4>6
      <4>8. Within(AloneRun(suite[t], LeftBehind(suite, t - 1), t > 1))'
        BY <4>5, <4>7
      <4> QED
        BY <2>3, <3>2, <4>8 DEF CarryInv
    <3> QED
      BY <3>3, <3>4
  <2> QED
    BY <2>1, <2>4, <2>5
<1>3. CASE pc \in {"load", "rejected"}
  <2>1. t = 1 /\ UNCHANGED t /\ pc' \in {"load", "rejected", "ban"}
    BY <1>3, NotLoaded
  <2>2. pc' \notin InTest /\ pc' \notin InStep
    BY <2>1 DEF InTest, Running, InStep
  <2>3. pc' = "ban" => Load /\ cfg' = StartConfig(suite')
    BY <1>3 DEF Next, Loop, Load, Ban, ConfigureBackendsForTest, RunTestWithSharedVCL, Finish,
         BeginStep, ResetAndMark, MakeRequest, Fetch, FlushAndCollect, CheckStep, WriteLog,
         BackgroundCall, BackgroundStore, CacheInv, vars, loopVars
  <2>4. pc' = "ban" => LeftBehind(suite', t' - 1) = StartConfig(suite')
    <3> SUFFICES ASSUME pc' = "ban" PROVE LeftBehind(suite', 0) = StartConfig(suite')
      BY <2>1
    <3>1. docs \in Files /\ suite' = [i \in DOMAIN docs |-> ApplyDefaults(docs[i])]
      BY <2>3 DEF Load, IInv, LoopInv, SuiteInv
    <3>2. DOMAIN docs = 1..Len(docs) /\ Len(docs) \in Nat
      BY <3>1, FilesAssumption, LenProperties
    <3>3. Len(suite') \in Nat
      BY <3>1, <3>2
    <3> QED
      BY <3>3, LeftUnrolled
  <2> QED
    BY <2>1, <2>2, <2>3, <2>4 DEF CarryInv
<1> QED
  BY <1>1, <1>2, <1>3 DEF IInv, LoopInv, PlaceInv, Loaded, InTest

\* When bans are accepted, objects have no grace and no call fails, each test runs on
\* the configurations that the tests before it have left behind, step configurations
\* included, and these never have the status 0 (configureBackendsForTest, UpdateConfig).
THEOREM ConfigIsCarriedOver ==
  ASSUME ~BanRefusals, Grace = 0, MaxFaults = 0
  PROVE  Spec => []ConfigCarriesOver
<1>1. Init => CarryInv
  <2> SUFFICES ASSUME Init PROVE CarryInv
    OBVIOUS
  <2>1. t = 1 /\ pc = "load" /\ "load" \notin InTest /\ "load" \notin InStep
    BY DEF Init, InTest, Running, InStep
  <2> QED
    BY <2>1 DEF CarryInv
<1>2. IInv /\ CacheInv /\ MockInv /\ FreshInv /\ CarryInv /\ [Next]_vars => CarryInv'
  BY CarryKept
<1>3. IInv /\ MockInv /\ NoMocks /\ CarryInv => ConfigCarriesOver
  <2> SUFFICES ASSUME IInv, MockInv, NoMocks, CarryInv PROVE ConfigCarriesOver
    OBVIOUS
  <2>1. DOMAIN results = 1..(t - 1)
    BY LenProperties DEF IInv, LoopInv, ResultsInv
  <2>2. \A b \in DOMAIN cfg : cfg[b].status # 0
    <3>1. CASE pc \in Loaded
      BY <3>1 DEF MockInv, Proper
    <3>2. CASE pc \notin Loaded
      BY <3>2 DEF NoMocks
    <3> QED
      BY <3>1, <3>2
  <2> QED
    BY <2>1, <2>2 DEF CarryInv, ConfigCarriesOver
<1>4. Init => NoMocks
  BY DEF Init, NoMocks
<1>5. IInv /\ CacheInv /\ NoMocks /\ [Next]_vars => NoMocks'
  <2> SUFFICES ASSUME IInv, CacheInv, NoMocks, [Next]_vars, pc' \notin Loaded PROVE DOMAIN cfg' = {}
    BY DEF NoMocks
  <2>1. pc \notin Loaded /\ UNCHANGED cfg
    BY DEF Next, Loop, Load, Ban, ConfigureBackendsForTest, RunTestWithSharedVCL, Finish,
         BeginStep, ResetAndMark, MakeRequest, Fetch, FlushAndCollect, CheckStep, WriteLog, Record,
         BackgroundCall, BackgroundStore, CacheInv, vars, loopVars, mockVars, Loaded, Running, InStep
  <2> QED
    BY <2>1 DEF NoMocks
<1> QED
  BY <1>1, <1>2, <1>3, <1>4, <1>5, MocksInvariant, PTL DEF Spec

=============================================================================
