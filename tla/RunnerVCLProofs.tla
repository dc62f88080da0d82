-------------------------- MODULE RunnerVCLProofs --------------------------
(***************************************************************************)
(* Proofs about RunnerVCL: whatever fails in whichever call, a test is     *)
(* served by its own VCL, a shared test by the shared one unless an earlier *)
(* call has put another in its place, a call releases what it holds, and   *)
(* what stays behind in varnishd goes back to a failure.                   *)
(***************************************************************************)
EXTENDS RunnerVCL, SequenceTheorems, TLAPS

Calls == {"test", "load", "unload", "shared"}
Outcome == [op : Calls, out : {"ok", "error", "result", "foreign"}]
Over == pc \in {"idle", "unwind"}
BootGone == "boot" \notin DOMAIN vcls

\* The VCLs in varnishd were loaded by calls so far, and the active one is there.
VarnishdInv ==
  /\ id \in Nat
  /\ vcls = [name \in DOMAIN vcls |-> vcls[name]]
  /\ \A name \in DOMAIN vcls : vcls[name] \in Nat /\ vcls[name] <= id
  /\ active \in DOMAIN vcls /\ None \notin DOMAIN vcls
  /\ hurt \in Seq(Nat)

\* Which calls have which program points.
CallInv ==
  /\ op = "test" => test \in Tests
  /\ pc \in {"idle", "start", "process", "mkdir", "write", "load", "use", "show", "step",
             "check", "boot", "discard", "unwind"}
  /\ pc \in {"start", "mkdir", "step", "check"} => op = "test"
  /\ pc \in {"process", "write", "load", "use", "show"} => op \in {"test", "load"}
  /\ pc \in {"boot", "discard"} => op \in {"test", "unload"}
  /\ loaded \in {None, "boot", "shared-vcl"}
  /\ ~Over /\ op = "unload" => loaded # None

\* What a call holds, a deferred call releases; only startBackends stops its mocks
\* itself.
Deferred(call) == \E i \in 1..Len(defers) : defers[i] = call
HoldInv ==
  /\ defers \in Seq({"stopAll", "removeAll"})
  /\ pc = "idle" => defers = <<>>
  /\ mocks # {} => pc = "start" \/ Deferred("stopAll")
  /\ tmpDir \in BOOLEAN /\ (tmpDir => Deferred("removeAll"))

\* From its load on the call's VCL is in varnishd, from its use on it is active.
Held == pc \in {"use", "show", "step", "check"} \/ (op = "test" /\ pc \in {"boot", "discard"})
OwnInv ==
  /\ Held => VclName \in DOMAIN vcls /\ vcls[VclName] = id
  /\ pc \in {"show", "step", "check"} => active = VclName

\* Each VCL but boot, the shared one and that of the call under way goes back to
\* a failure; before the discard varnishd has switched to boot, or it failed to.
Explained(name) ==
  IF name = "shared-vcl" THEN \E k \in DOMAIN hurt : hurt[k] >= vcls[name]
                         ELSE Hurt(vcls[name])
LeakInv ==
  ~BootGone =>
    /\ \A name \in DOMAIN vcls \ {"boot", loaded} : Explained(name) \/ (Held /\ name = VclName)
    /\ pc = "discard" => active = "boot" \/ Hurt(id)

\* An earlier call has put another VCL in the place of the loaded one.
DisplacedSince(n) == \E j \in 1..n : Displaced(j) /\ \A k \in j..n : ~Reloaded(k)

\* Every call has one result; the loaded VCL is in varnishd, and it is the active
\* one unless it was displaced, or is about to be by the call under way.
SharedInv ==
  /\ results \in Seq(Outcome)
  /\ Len(results) + (IF Over THEN 0 ELSE 1) = id
  /\ loaded # None =>
       /\ loaded \in DOMAIN vcls
       /\ \/ active = loaded \/ DisplacedSince(Len(results))
          \/ op \in {"test", "load"} /\ pc \in {"show", "step", "check", "boot", "discard"}
          \/ op = "unload" /\ pc = "discard"

IInv == /\ VarnishdInv /\ CallInv /\ HoldInv /\ OwnInv /\ OwnVCLServes /\ LeakInv
        /\ SharedInv /\ SharedServes
-----------------------------------------------------------------------------
(* Names, failures and results *)

\* A test's VCL is named neither boot nor shared-vcl.
LEMMA Names ==
  ASSUME CallInv
  PROVE  /\ op = "test" => VclName = Sanitize[test.name] /\ VclName \notin {None, "boot", "shared-vcl"}
         /\ op = "load" => VclName = "shared-vcl"
         /\ op = "unload" => VclName = loaded
  BY NamesAssumption DEF CallInv, VclName

\* A call that is under way and keeps loadedVCLName keeps the name of its VCL.
LEMMA NameKept ==
  ASSUME UNCHANGED <<op, test>>, op = "unload" => UNCHANGED loaded,
         op \in {"test", "load", "unload"}
  PROVE  VclName' = VclName
  BY DEF VclName

\* What failed stays on record, and so does a failure in this step.
LEMMA HurtGrows ==
  ASSUME VarnishdInv, UNCHANGED hurt \/ Fault
  PROVE  /\ hurt' \in Seq(Nat)
         /\ \A k \in DOMAIN hurt : k \in DOMAIN hurt' /\ hurt'[k] = hurt[k]
         /\ Fault => \E k \in DOMAIN hurt' : hurt'[k] = id
<1>1. CASE UNCHANGED hurt /\ ~Fault
  BY <1>1 DEF VarnishdInv
<1>2. CASE Fault
  <2>1. hurt \in Seq(Nat) /\ id \in Nat /\ hurt' = Append(hurt, id)
    BY <1>2 DEF VarnishdInv, Fault
  <2>2. /\ hurt' \in Seq(Nat) /\ Len(hurt) \in Nat /\ Len(hurt') = Len(hurt) + 1
        /\ DOMAIN hurt = 1..Len(hurt) /\ DOMAIN hurt' = 1..Len(hurt')
        /\ hurt'[Len(hurt) + 1] = id
        /\ \A k \in 1..Len(hurt) : hurt'[k] = hurt[k]
    BY <2>1
  <2> QED
    BY <2>2
<1> QED
  BY <1>1, <1>2

\* The same, of the calls that were hurt.
LEMMA StillHurt ==
  ASSUME VarnishdInv, UNCHANGED hurt \/ Fault
  PROVE  /\ \A i : Hurt(i) => Hurt(i)'
         /\ Fault /\ UNCHANGED id => Hurt(id)'
<1>1. ASSUME NEW i, Hurt(i) PROVE Hurt(i)'
  BY <1>1, HurtGrows DEF Hurt
<1>2. ASSUME Fault, UNCHANGED id PROVE Hurt(id)'
  BY <1>2, HurtGrows DEF Hurt
<1> QED
  BY <1>1, <1>2

\* A VCL that stays in varnishd stays explained.
LEMMA StillExplained ==
  ASSUME VarnishdInv, UNCHANGED hurt \/ Fault,
         NEW name, vcls'[name] = vcls[name], Explained(name)
  PROVE  Explained(name)'
  BY HurtGrows DEF Explained, Hurt

\* A failure in this step explains the VCL of this call, and the shared one.
LEMMA FaultExplains ==
  ASSUME VarnishdInv, Fault, NEW name,
         \/ vcls'[name] = id
         \/ name = "shared-vcl" /\ vcls'[name] \in Nat /\ vcls'[name] <= id
  PROVE  Explained(name)'
  BY HurtGrows DEF Explained, Hurt, VarnishdInv

\* A step that adds no result keeps what the results say.
LEMMA ResultsKept ==
  ASSUME VarnishdInv, SharedInv, SharedServes, UNCHANGED results, UNCHANGED hurt \/ Fault
  PROVE  /\ SharedServes' /\ \A n : DisplacedSince(n) => DisplacedSince(n)'
<1>1. /\ \A j : Displaced(j) => Displaced(j)'
      /\ \A k : Reloaded(k)' <=> Reloaded(k)
  BY StillHurt DEF Displaced, Reloaded
<1> QED
  BY <1>1 DEF SharedServes, DisplacedSince

\* A call returns: its result is added, and a call that displaced the loaded VCL
\* is on record as one that did.
LEMMA ResultAdded ==
  ASSUME VarnishdInv, SharedInv, SharedServes, UNCHANGED hurt \/ Fault,
         NEW n \in Nat, n = Len(results),
         NEW call \in Calls, NEW outcome \in {"ok", "error", "result", "foreign"},
         Return(call, outcome), outcome = "foreign" => DisplacedSince(n)
  PROVE  /\ results' \in Seq(Outcome) /\ Len(results') = n + 1
         /\ SharedServes'
         /\ (DisplacedSince(n) /\ ~(call = "load" /\ outcome = "ok")) => DisplacedSince(n + 1)'
         /\ (call = "test" /\ outcome = "result") => DisplacedSince(n + 1)'
         /\ (call \in {"test", "load"} /\ outcome # "ok" /\ Hurt(n + 1)') => DisplacedSince(n + 1)'
<1>1. PICK r : r = [op |-> call, out |-> outcome]
  OBVIOUS
<1>3. r \in Outcome /\ r.op = call /\ r.out = outcome
  BY <1>1 DEF Outcome
<1>4. /\ results' \in Seq(Outcome) /\ Len(results') = n + 1
      /\ DOMAIN results = 1..n /\ DOMAIN results' = 1..(n + 1)
      /\ results'[n + 1] = r
      /\ \A i \in 1..n : results'[i] = results[i]
  BY <1>1, <1>3 DEF SharedInv, Return
<1>5. /\ \A j \in 1..n : Displaced(j) => Displaced(j)'
      /\ \A k \in 1..n : Reloaded(k)' <=> Reloaded(k)
  BY <1>4, StillHurt DEF Displaced, Reloaded
<1>6. \A m \in 0..n : DisplacedSince(m) => DisplacedSince(m)'
  BY <1>5 DEF DisplacedSince
<1>7. SharedServes'
  <2>1. ASSUME NEW i \in 1..(n + 1), results'[i].out = "foreign"
        PROVE  DisplacedSince(i - 1)'
    <3>1. CASE i = n + 1
      <4>1. DisplacedSince(n) /\ i - 1 = n /\ n \in 0..n
        BY <1>3, <1>4, <2>1, <3>1
      <4> QED
        BY <1>6, <4>1
    <3>2. CASE i \in 1..n
      <4>1. DisplacedSince(i - 1) /\ i - 1 \in 0..n
        BY <1>4, <2>1, <3>2 DEF SharedServes, DisplacedSince
      <4> QED
        BY <1>6, <4>1
    <3> QED
      BY <3>1, <3>2
  <2> QED
    BY <1>4, <2>1 DEF SharedServes, DisplacedSince
<1>8. ASSUME DisplacedSince(n), ~(call = "load" /\ outcome = "ok")
      PROVE  DisplacedSince(n + 1)'
  <2>1. PICK j \in 1..n : Displaced(j)' /\ \A k \in j..n : ~Reloaded(k)'
    BY <1>5, <1>8 DEF DisplacedSince
  <2>2. ~Reloaded(n + 1)'
    BY <1>3, <1>4, <1>8 DEF Reloaded
  <2>3. j \in 1..(n + 1) /\ \A k \in j..(n + 1) : k \in j..n \/ k = n + 1
    OBVIOUS
  <2> QED
    BY <2>1, <2>2, <2>3 DEF DisplacedSince
<1>9. ASSUME \/ call = "test" /\ outcome = "result"
             \/ call \in {"test", "load"} /\ outcome # "ok" /\ Hurt(n + 1)'
      PROVE  DisplacedSince(n + 1)'
  <2>1. Displaced(n + 1)' /\ ~Reloaded(n + 1)'
    BY <1>3, <1>4, <1>9 DEF Displaced, Reloaded
  <2>2. n + 1 \in 1..(n + 1) /\ \A k \in (n + 1)..(n + 1) : k = n + 1
    OBVIOUS
  <2> QED
    BY <2>1, <2>2 DEF DisplacedSince
<1> QED
  BY <1>4, <1>7, <1>8, <1>9, Zenon

\* A call that returns: what it leaves active is the loaded VCL, or it is on record
\* as a call that displaced it, or one before it is.
LEMMA ReturnShared ==
  ASSUME VarnishdInv, SharedInv, SharedServes, UNCHANGED hurt \/ Fault,
         NEW call \in Calls, NEW outcome \in {"ok", "error", "result", "foreign"},
         Return(call, outcome), outcome = "foreign" => DisplacedSince(Len(results)),
         id' = IF Over THEN id + 1 ELSE id,
         loaded' # None =>
           /\ loaded' \in DOMAIN vcls'
           /\ \/ active' = loaded'
              \/ DisplacedSince(Len(results)) /\ ~(call = "load" /\ outcome = "ok")
              \/ call = "test" /\ outcome = "result"
              \/ call \in {"test", "load"} /\ outcome # "ok" /\ Fault /\ ~Over
  PROVE  SharedInv' /\ SharedServes'
<1>1. PICK n \in Nat : n = Len(results)
  BY DEF SharedInv
<1>2. outcome = "foreign" => DisplacedSince(n)
  BY <1>1
<1>3. /\ results' \in Seq(Outcome) /\ Len(results') = n + 1
      /\ SharedServes'
      /\ (DisplacedSince(n) /\ ~(call = "load" /\ outcome = "ok")) => DisplacedSince(n + 1)'
      /\ (call = "test" /\ outcome = "result") => DisplacedSince(n + 1)'
      /\ (call \in {"test", "load"} /\ outcome # "ok" /\ Hurt(n + 1)') => DisplacedSince(n + 1)'
  BY <1>1, <1>2, ResultAdded
<1>4. id' = n + 1 /\ Over'
  BY <1>1 DEF SharedInv, VarnishdInv, Over, Return
<1>5. ~Over /\ Fault => Hurt(n + 1)'
  BY <1>4, StillHurt DEF Hurt
<1>6. DisplacedSince(n + 1)' => DisplacedSince(Len(results))'
  BY <1>3 DEF DisplacedSince
<1>7. loaded' # None =>
        loaded' \in DOMAIN vcls' /\ (active' = loaded' \/ DisplacedSince(Len(results))')
  BY <1>1, <1>3, <1>5, <1>6
<1> QED
  BY <1>3, <1>4, <1>7 DEF SharedInv

\* A step in which no call returns.
LEMMA KeptShared ==
  ASSUME VarnishdInv, SharedInv, SharedServes, UNCHANGED hurt \/ Fault,
         UNCHANGED <<results, loaded>>,
         \/ Over /\ ~Over' /\ id' = id + 1
         \/ (Over <=> Over') /\ UNCHANGED id,
         loaded # None =>
           /\ loaded \in DOMAIN vcls'
           /\ \/ active' = loaded \/ DisplacedSince(Len(results))
              \/ op' \in {"test", "load"} /\ pc' \in {"show", "step", "check", "boot", "discard"}
              \/ op' = "unload" /\ pc' = "discard"
  PROVE  SharedInv' /\ SharedServes'
<1>1. PICK n \in Nat : n = Len(results)
  BY DEF SharedInv
<1>2. SharedServes' /\ (DisplacedSince(n) => DisplacedSince(n)')
  BY ResultsKept
<1>3. DisplacedSince(Len(results)) => DisplacedSince(Len(results))'
  BY <1>1, <1>2 DEF DisplacedSince
<1>4. Len(results') + (IF Over' THEN 0 ELSE 1) = id'
  BY <1>1 DEF SharedInv, VarnishdInv
<1> QED
  BY <1>2, <1>3, <1>4 DEF SharedInv
-----------------------------------------------------------------------------
(* What a call holds *)

\* What is deferred stays deferred when one more is.
LEMMA DeferGrows ==
  ASSUME HoldInv, NEW call \in {"stopAll", "removeAll"}, Defer(call)
  PROVE  /\ defers' \in Seq({"stopAll", "removeAll"}) /\ Deferred(call)'
         /\ \A c : Deferred(c) => Deferred(c)'
<1>1. PICK n \in Nat : n = Len(defers)
  BY DEF HoldInv
<1>2. /\ defers' \in Seq({"stopAll", "removeAll"}) /\ Len(defers') = n + 1
      /\ defers'[n + 1] = call
      /\ \A i \in 1..n : defers'[i] = defers[i]
  BY <1>1 DEF HoldInv, Defer
<1> QED
  BY <1>1, <1>2 DEF Deferred

\* When the last deferred call has run the others are still to come.
LEMMA DeferPopped ==
  ASSUME HoldInv, NEW call \in {"stopAll", "removeAll"}, Unwinding(call),
         defers' = Front(defers)
  PROVE  /\ defers' \in Seq({"stopAll", "removeAll"})
         /\ \A c : Deferred(c) /\ c # call => Deferred(c)'
<1>1. PICK n \in Nat : n = Len(defers)
  BY DEF HoldInv
<1>2. n # 0 /\ defers[n] = call /\ \A i \in 1..n : defers[i] \in {"stopAll", "removeAll"}
  BY <1>1 DEF HoldInv, Unwinding, Last
<1>3. defers' = SubSeq(defers, 1, n - 1)
  BY <1>1 DEF Front
<1>4. /\ defers' \in Seq({"stopAll", "removeAll"}) /\ Len(defers') = n - 1
      /\ \A i \in 1..(n - 1) : defers'[i] = defers[i]
  BY <1>1, <1>2, <1>3 DEF HoldInv
<1>5. \A i \in 1..n : i \in 1..(n - 1) \/ i = n
  OBVIOUS
<1> QED
  BY <1>1, <1>2, <1>4, <1>5 DEF Deferred

\* A call that begins holds nothing, and a step that touches nothing the call
\* holds keeps the deferred calls.
LEMMA HoldKept ==
  ASSUME HoldInv, UNCHANGED heldVars, pc' = "idle" => defers = <<>>,
         pc = "start" => pc' = "start"
  PROVE  HoldInv'
<1>1. Deferred("stopAll")' <=> Deferred("stopAll")
  BY DEF Deferred, heldVars
<1>2. Deferred("removeAll")' <=> Deferred("removeAll")
  BY DEF Deferred, heldVars
<1> QED
  BY <1>1, <1>2 DEF HoldInv, heldVars

\* A call that is over holds nothing.
LEMMA IdleHolds ==
  ASSUME HoldInv, pc = "idle"
  PROVE  mocks = {} /\ ~tmpDir
<1>1. Len(defers) = 0
  BY DEF HoldInv
<1>2. \A c : ~Deferred(c)
  BY <1>1 DEF Deferred
<1> QED
  BY <1>2 DEF HoldInv
-----------------------------------------------------------------------------
(* IInv is an invariant *)

\* Before the first call varnishd has boot alone.
LEMMA InitInv ==
  ASSUME Init
  PROVE  IInv
<1>1. VarnishdInv
  BY NamesAssumption DEF Init, VarnishdInv
<1>2. CallInv /\ OwnInv /\ OwnVCLServes
  BY NamesAssumption DEF Init, CallInv, OwnInv, Held, OwnVCLServes, Over
<1>3. HoldInv
  <2>1. defers \in Seq({"stopAll", "removeAll"})
    BY DEF Init
  <2>2. mocks = {} /\ tmpDir = FALSE /\ defers = <<>>
    BY DEF Init
  <2> QED
    BY <2>1, <2>2 DEF HoldInv
<1>4. LeakInv
  BY NamesAssumption DEF Init, LeakInv
<1>5. SharedInv /\ SharedServes
  BY NamesAssumption DEF Init, SharedInv, Over, SharedServes
<1> QED
  BY <1>1, <1>2, <1>3, <1>4, <1>5 DEF IInv

\* A call that begins finds what the calls before it left.
LEMMA BeginKeeps ==
  ASSUME IInv, NEW what \in Calls, Begin(what),
         what = "test" => test' \in Tests,
         \/ UNCHANGED results /\ \/ pc' = "start" /\ what = "test"
                                 \/ pc' = "process" /\ what = "load"
                                 \/ pc' = "boot" /\ what = "unload" /\ loaded # None
         \/ \E outcome \in {"ok", "error", "result", "foreign"} :
              /\ Return(what, outcome) /\ ~(what = "load" /\ outcome = "ok")
              /\ outcome = "foreign" => DisplacedSince(Len(results))
  PROVE  IInv'
<1> USE DEF IInv, Begin
<1>1. VarnishdInv' /\ HoldInv'
  <2>1. UNCHANGED hurt \/ Fault
    OBVIOUS
  <2>2. HoldInv'
    BY HoldKept DEF Return
  <2> QED
    BY <2>2 DEF VarnishdInv
<1>2. CallInv'
  BY DEF CallInv, Calls, Return, Over
<1>3. ~Held /\ ~Held' /\ pc' \notin {"idle", "discard", "check"}
  BY DEF Held, Return
<1>4. OwnInv' /\ OwnVCLServes'
  BY <1>3 DEF OwnInv, OwnVCLServes, Return
<1>5. LeakInv'
  <2>1. ASSUME NEW name \in DOMAIN vcls \ {"boot", loaded}, ~BootGone PROVE Explained(name)'
    BY <1>3, <2>1, StillExplained DEF LeakInv
  <2> QED
    BY <1>3, <2>1 DEF LeakInv, BootGone
<1>6. loaded # None => loaded \in DOMAIN vcls /\ (active = loaded \/ DisplacedSince(Len(results)))
  BY DEF SharedInv
<1>7. CASE UNCHANGED results /\ pc' \in {"start", "process", "boot"}
  <2>1. SharedInv' /\ SharedServes'
    BY <1>6, <1>7, KeptShared DEF Over
  <2> QED
    BY <1>1, <1>2, <1>4, <1>5, <2>1
<1>8. CASE \E outcome \in {"ok", "error", "result", "foreign"} :
              /\ Return(what, outcome) /\ ~(what = "load" /\ outcome = "ok")
              /\ outcome = "foreign" => DisplacedSince(Len(results))
  <2>1. PICK outcome \in {"ok", "error", "result", "foreign"} :
              /\ Return(what, outcome) /\ ~(what = "load" /\ outcome = "ok")
              /\ outcome = "foreign" => DisplacedSince(Len(results))
    BY <1>8
  <2>2. SharedInv' /\ SharedServes'
    BY <1>6, <2>1, ReturnShared DEF Over
  <2> QED
    BY <1>1, <1>2, <1>4, <1>5, <2>2
<1> QED
  BY <1>7, <1>8

\* A call that returns because something failed outside; by then varnishd may
\* have loaded the call's VCL, or made it active.
LEMMA FailedReturn ==
  ASSUME IInv, Fault, Return(op, "error"), op \in {"test", "load"},
         pc \notin {"idle", "unwind", "discard"}, HoldInv',
         UNCHANGED <<opVars, vclShow, loaded>>,
         vcls' = [name \in DOMAIN vcls' |-> vcls'[name]],
         \A name \in DOMAIN vcls : name \in DOMAIN vcls' /\ vcls'[name] = vcls[name],
         \A name \in DOMAIN vcls' \ DOMAIN vcls :
           vcls'[name] = id /\ name \notin {None, "boot"},
         active' \in DOMAIN vcls
  PROVE  IInv'
<1> USE DEF IInv, opVars
<1>1. pc' = "unwind"
  BY DEF Return
<1>2. VarnishdInv'
  <2>1. None \notin DOMAIN vcls' /\ active' \in DOMAIN vcls'
    BY DEF VarnishdInv
  <2>2. \A name \in DOMAIN vcls' : vcls'[name] \in Nat /\ vcls'[name] <= id
    BY DEF VarnishdInv
  <2> QED
    BY <2>1, <2>2, HurtGrows DEF VarnishdInv
<1>3. CallInv'
  BY <1>1 DEF CallInv, Over
<1>4. ~Held' /\ OwnInv' /\ OwnVCLServes'
  BY <1>1 DEF Held, OwnInv, OwnVCLServes
<1>5. SharedInv' /\ SharedServes'
  <2>1. ~Over /\ op \in Calls
    BY DEF Over, Calls
  <2>2. loaded' # None => loaded' \in DOMAIN vcls'
    BY DEF SharedInv
  <2> QED
    BY <2>1, <2>2, ReturnShared
<1>6. ASSUME NEW name \in DOMAIN vcls' \ {"boot", loaded}, ~BootGone
      PROVE  Explained(name)'
  <2>1. CASE name \notin DOMAIN vcls
    BY <2>1, FaultExplains
  <2>2. CASE name \in DOMAIN vcls /\ Explained(name)
    BY <2>2, StillExplained
  <2>3. CASE name \in DOMAIN vcls /\ Held /\ name = VclName
    BY <2>3, FaultExplains DEF OwnInv
  <2> QED
    BY <1>6, <2>1, <2>2, <2>3 DEF LeakInv
<1>7. LeakInv'
  BY <1>1, <1>6 DEF LeakInv, BootGone
<1> QED
  BY <1>2, <1>3, <1>4, <1>5, <1>7

\* A step of the preparations that goes on to the next one.
LEMMA PreparedNext ==
  ASSUME IInv, UNCHANGED <<opVars, vclShow, loaded, vcls, active, hurt, results>>,
         \/ pc = "start" /\ pc' \in {"start", "process"}
         \/ pc = "process" /\ pc' = (IF op = "test" THEN "mkdir" ELSE "write")
         \/ pc = "mkdir" /\ pc' = "write"
         \/ pc = "write" /\ pc' = "load",
         HoldInv'
  PROVE  IInv'
<1> USE DEF IInv, opVars
<1>1. VarnishdInv' /\ CallInv'
  BY DEF VarnishdInv, CallInv, Over
<1>2. ~Held /\ ~Held' /\ OwnInv' /\ OwnVCLServes'
  BY DEF Held, OwnInv, OwnVCLServes
<1>3. SharedInv' /\ SharedServes'
  <2>1. ~Over /\ ~Over'
    BY DEF Over
  <2>2. loaded # None => loaded \in DOMAIN vcls /\ (active = loaded \/ DisplacedSince(Len(results)))
    BY DEF SharedInv
  <2> QED
    BY <2>1, <2>2, KeptShared
<1>4. LeakInv'
  <2>1. ASSUME NEW name \in DOMAIN vcls \ {"boot", loaded}, ~BootGone PROVE Explained(name)'
    BY <1>2, <2>1, StillExplained DEF LeakInv
  <2> QED
    BY <1>2, <2>1 DEF LeakInv, BootGone
<1> QED
  BY <1>1, <1>2, <1>3, <1>4

\* The calls of the caller: RunTest, LoadVCL, UnloadVCL, RunTestWithSharedVCL.
LEMMA CallsKeep ==
  ASSUME IInv,
         \/ \E spec \in Tests : RunTest(spec)
         \/ LoadVCL \/ UnloadVCL \/ RunTestWithSharedVCL
  PROVE  IInv'
<1>1. CASE \E spec \in Tests : RunTest(spec)
  BY <1>1, BeginKeeps DEF RunTest, Calls
<1>2. CASE LoadVCL
  BY <1>2, BeginKeeps DEF LoadVCL, Calls
<1>3. CASE UnloadVCL
  BY <1>3, BeginKeeps DEF UnloadVCL, Calls
<1>4. CASE RunTestWithSharedVCL
  <2>1. loaded # None => active = loaded \/ DisplacedSince(Len(results))
    BY <1>4 DEF RunTestWithSharedVCL, Begin, IInv, SharedInv
  <2>2. PICK outcome \in {"ok", "error", "result", "foreign"} :
          Return("shared", outcome) /\ (outcome = "foreign" => DisplacedSince(Len(results)))
    BY <1>4, <2>1 DEF RunTestWithSharedVCL
  <2> QED
    BY <1>4, <2>2, BeginKeeps DEF RunTestWithSharedVCL, Calls
<1> QED
  BY <1>1, <1>2, <1>3, <1>4

\* Starting the mocks and preparing the files of the VCL.
LEMMA PrepareKeeps ==
  ASSUME IInv, StartBackends \/ ProcessVCL \/ MakeTempDir \/ WriteFiles
  PROVE  IInv'
<1> USE DEF StartBackends, ProcessVCL, MakeTempDir, WriteFiles, Prepare
<1>1. /\ UNCHANGED <<opVars, vclShow, loaded, vcls, active>>
      /\ pc \in {"start", "process", "mkdir", "write"} /\ op \in {"test", "load"}
  BY DEF IInv, CallInv, testVars
<1>2. HoldInv'
  <2>1. CASE StartBackends
    <3>1. CASE defers' = defers /\ tmpDir' = tmpDir
      <4>1. Deferred("removeAll")' <=> Deferred("removeAll")
        BY <3>1 DEF Deferred
      <4>2. mocks' # {} => pc' = "start"
        BY <2>1, <3>1 DEF Return, IInv, HoldInv, Defer
      <4>3. pc' # "idle"
        BY <2>1 DEF Return
      <4> QED
        BY <3>1, <4>1, <4>2, <4>3 DEF IInv, HoldInv
    <3>2. CASE Defer("stopAll") /\ pc' = "process" /\ tmpDir' = tmpDir
      BY <3>2, DeferGrows DEF IInv, HoldInv
    <3> QED
      BY <2>1, <3>1, <3>2
  <2>2. CASE ProcessVCL \/ WriteFiles
    BY <2>2, HoldKept DEF IInv, Return
  <2>3. CASE MakeTempDir
    <3>1. CASE UNCHANGED heldVars
      BY <2>3, <3>1, HoldKept DEF IInv, Return
    <3>2. CASE tmpDir' = TRUE /\ Defer("removeAll") /\ pc' = "write" /\ mocks' = mocks
      BY <2>3, <3>2, DeferGrows DEF IInv, HoldInv
    <3> QED
      BY <2>3, <3>1, <3>2 DEF heldVars
  <2> QED
    BY <2>1, <2>2, <2>3
<1>3. CASE Fault /\ Return(op, "error")
  BY <1>1, <1>2, <1>3, FailedReturn DEF IInv, VarnishdInv
<1>4. CASE ~(Fault /\ Return(op, "error"))
  BY <1>1, <1>2, <1>4, PreparedNext
<1> QED
  BY <1>3, <1>4

\* vcl.load: an answer of 200 means that this call's VCL is new in varnishd.
LEMMA LoadKeeps ==
  ASSUME IInv, LoadIntoVarnish
  PROVE  IInv'
<1> USE DEF IInv, opVars
<1>1. PICK answer \in Answer :
        /\ VCLLoad(VclName, answer)
        /\ IF answer = "ok" THEN pc' = "use" /\ UNCHANGED results
                            ELSE Return(op, "error")
  BY DEF LoadIntoVarnish
<1>2. /\ UNCHANGED <<opVars, heldVars, testVars, loaded>> /\ pc = "load"
      /\ op \in {"test", "load"} /\ op \in Calls
  BY DEF LoadIntoVarnish, CallInv, Calls
<1>3. VclName \notin {None, "boot"}
  BY <1>2, Names, NamesAssumption
<1>4. HoldInv'
  BY <1>1, <1>2, HoldKept DEF Return
<1>5. ~Held /\ ~Over /\ UNCHANGED <<vclShow, served>>
  BY <1>2 DEF Held, Over, testVars
<1>6. loaded # None => loaded \in DOMAIN vcls /\ (active = loaded \/ DisplacedSince(Len(results)))
  BY <1>2, <1>5 DEF SharedInv
<1>7. CASE answer = "ok"
  <2>1. /\ VclName \notin DOMAIN vcls /\ UNCHANGED <<hurt, active, results>> /\ pc' = "use"
        /\ DOMAIN vcls' = DOMAIN vcls \cup {VclName}
        /\ vcls' = [name \in DOMAIN vcls' |-> vcls'[name]]
        /\ \A name \in DOMAIN vcls : vcls'[name] = vcls[name]
        /\ vcls'[VclName] = id
    BY <1>1, <1>7 DEF VCLLoad
  <2>2. VarnishdInv' /\ CallInv'
    BY <1>2, <1>3, <2>1 DEF VarnishdInv, CallInv, Over
  <2>3. VclName' = VclName
    BY <1>2, NameKept
  <2>4. Held' /\ OwnInv' /\ OwnVCLServes'
    BY <1>2, <1>5, <2>1, <2>3 DEF Held, OwnInv, OwnVCLServes
  <2>5. SharedInv' /\ SharedServes'
    <3>1. ~Over'
      BY <2>1 DEF Over
    <3> QED
      BY <1>2, <1>5, <1>6, <2>1, <3>1, KeptShared
  <2>6. ASSUME NEW name \in DOMAIN vcls \ {"boot", loaded}, ~BootGone PROVE Explained(name)'
    BY <1>5, <2>1, <2>6, StillExplained DEF LeakInv
  <2>7. LeakInv'
    BY <1>2, <1>3, <2>1, <2>3, <2>4, <2>6 DEF LeakInv, BootGone
  <2> QED
    BY <1>4, <2>2, <2>4, <2>5, <2>7
<1>8. CASE answer # "ok" /\ Fault
  <2>1. /\ vcls' = [name \in DOMAIN vcls' |-> vcls'[name]]
        /\ \A name \in DOMAIN vcls : name \in DOMAIN vcls' /\ vcls'[name] = vcls[name]
        /\ \A name \in DOMAIN vcls' \ DOMAIN vcls : vcls'[name] = id /\ name = VclName
        /\ active' = active
    BY <1>1, <1>8 DEF VCLLoad, VarnishdInv
  <2>2. active' \in DOMAIN vcls
    BY <2>1 DEF VarnishdInv
  <2> QED
    BY <1>1, <1>2, <1>3, <1>4, <1>5, <1>8, <2>1, <2>2, FailedReturn
<1>9. CASE answer # "ok" /\ ~Fault
  <2>1. UNCHANGED <<vcls, hurt, active>> /\ Return(op, "error") /\ pc' = "unwind"
    BY <1>1, <1>9 DEF VCLLoad, Return
  <2>2. VarnishdInv' /\ CallInv'
    BY <1>2, <2>1 DEF VarnishdInv, CallInv, Over
  <2>3. ~Held' /\ OwnInv' /\ OwnVCLServes'
    BY <1>2, <1>5, <2>1 DEF Held, OwnInv, OwnVCLServes
  <2>4. SharedInv' /\ SharedServes'
    BY <1>2, <1>5, <1>6, <2>1, ReturnShared
  <2>5. ASSUME NEW name \in DOMAIN vcls \ {"boot", loaded}, ~BootGone PROVE Explained(name)'
    BY <1>5, <2>1, <2>5, StillExplained DEF LeakInv
  <2>6. LeakInv'
    BY <1>2, <2>1, <2>3, <2>5 DEF LeakInv, BootGone
  <2> QED
    BY <1>4, <2>2, <2>3, <2>4, <2>6
<1> QED
  BY <1>7, <1>8, <1>9

\* vcl.use: the VCL is there, so anything but 200 is a failure outside.
LEMMA ActivateKeeps ==
  ASSUME IInv, Activate
  PROVE  IInv'
<1> USE DEF IInv, opVars
<1>1. PICK answer \in Answer :
        /\ VCLUse(VclName, answer)
        /\ IF answer = "ok" THEN pc' = "show" /\ UNCHANGED results
                            ELSE Return(op, "error")
  BY DEF Activate
<1>2. /\ UNCHANGED <<opVars, heldVars, testVars, loaded, vcls>> /\ pc = "use"
      /\ op \in {"test", "load"} /\ op \in Calls
  BY <1>1 DEF Activate, CallInv, Calls, VCLUse
<1>3. Held /\ ~Over /\ VclName \in DOMAIN vcls /\ vcls[VclName] = id
  BY <1>2 DEF Held, OwnInv, Over
<1>4. HoldInv' /\ UNCHANGED <<vclShow, served>>
  BY <1>1, <1>2, HoldKept DEF Return, testVars
<1>5. CASE answer = "ok"
  <2>1. active' = VclName /\ UNCHANGED <<hurt, results>> /\ pc' = "show"
    BY <1>1, <1>5 DEF VCLUse
  <2>2. VarnishdInv' /\ CallInv'
    BY <1>2, <1>3, <2>1 DEF VarnishdInv, CallInv, Over
  <2>3. VclName' = VclName
    BY <1>2, NameKept
  <2>4. Held' /\ OwnInv' /\ OwnVCLServes'
    BY <1>2, <1>3, <1>4, <2>1, <2>3 DEF Held, OwnInv, OwnVCLServes
  <2>5. SharedInv' /\ SharedServes'
    <3>1. ~Over' /\ (loaded # None => loaded \in DOMAIN vcls')
      BY <1>2, <2>1 DEF Over, SharedInv
    <3>2. op' \in {"test", "load"}
      BY <1>2
    <3> QED
      BY <1>2, <1>3, <2>1, <3>1, <3>2, KeptShared
  <2>6. ASSUME NEW name \in DOMAIN vcls \ {"boot", loaded}, ~BootGone
        PROVE  Explained(name)' \/ name = VclName
    BY <1>2, <2>1, <2>6, StillExplained DEF LeakInv
  <2>7. LeakInv'
    BY <1>2, <2>1, <2>3, <2>4, <2>6 DEF LeakInv, BootGone
  <2> QED
    BY <1>4, <2>2, <2>4, <2>5, <2>7
<1>6. CASE answer # "ok"
  <2>1. Fault /\ Return(op, "error") /\ active' \in DOMAIN vcls
    BY <1>1, <1>3, <1>6 DEF VCLUse, VarnishdInv
  <2> QED
    BY <1>2, <1>3, <1>4, <2>1, FailedReturn DEF VarnishdInv
<1> QED
  BY <1>5, <1>6

\* VCLShowStructured: the structure of this call's VCL, or none.
LEMMA ShowKeeps ==
  ASSUME IInv, ShowStructure
  PROVE  IInv'
<1> USE DEF IInv, ShowStructure, opVars
<1>1. /\ UNCHANGED <<id, op, test, served, vcls, active>> /\ pc = "show"
      /\ Held /\ VclName \in DOMAIN vcls /\ vcls[VclName] = id
      /\ active = VclName /\ op \in {"test", "load"}
  BY DEF Held, OwnInv, CallInv
<1>2. HoldInv' /\ ~Over
  BY HoldKept DEF Return, Over
<1>3. CASE op = "test"
  <2>1. /\ pc' = "step" /\ UNCHANGED <<loaded, results>>
        /\ UNCHANGED hurt \/ Fault
        /\ vclShow' \in {id, vclShow}
    BY <1>1, <1>3
  <2>2. VarnishdInv' /\ CallInv'
    BY <1>1, <1>3, <2>1, HurtGrows DEF VarnishdInv, CallInv, Over
  <2>3. VclName' = VclName
    BY <1>1, NameKept
  <2>4. Held' /\ OwnInv' /\ OwnVCLServes'
    BY <1>1, <1>3, <2>1, <2>3 DEF Held, OwnInv, OwnVCLServes
  <2>5. SharedInv' /\ SharedServes'
    <3>1. ~Over' /\ op' = "test" /\ (loaded # None => loaded \in DOMAIN vcls')
      BY <1>1, <1>3, <2>1 DEF Over, SharedInv
    <3> QED
      BY <1>1, <1>2, <2>1, <3>1, KeptShared
  <2>6. ASSUME NEW name \in DOMAIN vcls \ {"boot", loaded}, ~BootGone
        PROVE  Explained(name)' \/ name = VclName
    BY <1>1, <2>1, <2>6, StillExplained DEF LeakInv
  <2>7. LeakInv'
    BY <1>1, <2>1, <2>3, <2>4, <2>6 DEF LeakInv, BootGone
  <2> QED
    BY <1>2, <2>2, <2>4, <2>5, <2>7
<1>4. CASE op = "load" /\ loaded' = "shared-vcl" /\ Return(op, "ok") /\ UNCHANGED hurt
  <2>1. VclName = "shared-vcl" /\ pc' = "unwind"
    BY <1>4, Names DEF Return
  <2>2. VarnishdInv' /\ CallInv'
    BY <1>1, <1>4, <2>1 DEF VarnishdInv, CallInv, Over
  <2>3. ~Held' /\ OwnInv' /\ OwnVCLServes'
    BY <1>1, <1>4, <2>1 DEF Held, OwnInv, OwnVCLServes
  <2>4. SharedInv' /\ SharedServes'
    <3>1. active' = loaded' /\ loaded' \in DOMAIN vcls' /\ op \in Calls
      BY <1>1, <1>4, <2>1 DEF Calls
    <3> QED
      BY <1>1, <1>2, <1>4, <3>1, ReturnShared
  <2>5. ASSUME NEW name \in DOMAIN vcls \ {"boot", loaded, "shared-vcl"}, ~BootGone
        PROVE  Explained(name)'
    BY <1>1, <1>4, <2>1, <2>5, StillExplained DEF LeakInv
  <2>6. loaded \in {None, "boot", "shared-vcl"} /\ None \notin DOMAIN vcls
    BY DEF CallInv, VarnishdInv
  <2>7. LeakInv'
    BY <1>1, <1>4, <2>1, <2>3, <2>5, <2>6 DEF LeakInv, BootGone
  <2> QED
    BY <1>2, <2>2, <2>3, <2>4, <2>7
<1>5. CASE op = "load" /\ Fault /\ Return(op, "error") /\ UNCHANGED <<loaded, vclShow>>
  BY <1>1, <1>2, <1>5, FailedReturn DEF VarnishdInv
<1> QED
  BY <1>1, <1>3, <1>4, <1>5

\* Each request is served by the active VCL, which is this call's until the last.
LEMMA RequestsKeep ==
  ASSUME IInv, MakeRequest \/ CheckStep
  PROVE  IInv'
<1> USE DEF IInv, opVars
<1>1. /\ UNCHANGED <<opVars, heldVars, vclShow, loaded, vcls, active>> /\ op = "test"
      /\ pc \in {"step", "check"} /\ Held /\ VclName \in DOMAIN vcls /\ vcls[VclName] = id
      /\ active = VclName
  BY DEF MakeRequest, CheckStep, Held, OwnInv, CallInv
<1>2. HoldInv' /\ ~Over
  BY <1>1, HoldKept DEF MakeRequest, CheckStep, Return, Over
<1>3. CASE UNCHANGED <<hurt, results>> /\ pc' \in {"step", "check", "boot"}
  <2>1. pc' \in {"check", "boot"} => served' = id
    BY <1>1, <1>3 DEF MakeRequest, CheckStep, Return, OwnVCLServes
  <2>2. VarnishdInv' /\ CallInv'
    BY <1>1, <1>3 DEF VarnishdInv, CallInv, Over
  <2>3. VclName' = VclName
    BY <1>1, NameKept
  <2>4. Held' /\ OwnInv' /\ OwnVCLServes'
    BY <1>1, <1>3, <2>1, <2>3 DEF Held, OwnInv, OwnVCLServes
  <2>5. SharedInv' /\ SharedServes'
    <3>1. ~Over' /\ op' = "test" /\ (loaded # None => loaded \in DOMAIN vcls')
      BY <1>1, <1>3 DEF Over, SharedInv
    <3> QED
      BY <1>1, <1>2, <1>3, <3>1, KeptShared
  <2>6. ASSUME NEW name \in DOMAIN vcls \ {"boot", loaded}, ~BootGone
        PROVE  Explained(name)' \/ name = VclName
    BY <1>1, <1>3, <2>6, StillExplained DEF LeakInv
  <2>7. LeakInv'
    BY <1>1, <1>3, <2>3, <2>4, <2>6 DEF LeakInv, BootGone
  <2> QED
    BY <1>2, <2>2, <2>4, <2>5, <2>7
<1>4. CASE Fault /\ Return(op, "error")
  BY <1>1, <1>2, <1>4, FailedReturn DEF VarnishdInv
<1> QED
  BY <1>3, <1>4 DEF MakeRequest, CheckStep

\* Before the discard varnishd is told to use boot, if it still has it.
LEMMA SwitchToBootKeeps ==
  ASSUME IInv, SwitchToBoot
  PROVE  IInv'
<1> USE DEF IInv, opVars
<1>1. PICK answer \in Answer : VCLUse("boot", answer)
  BY DEF SwitchToBoot
<1>2. /\ UNCHANGED <<opVars, heldVars, loaded, vcls, served, vclShow, results>>
      /\ pc = "boot" /\ pc' = "discard" /\ op \in {"test", "unload"}
      /\ UNCHANGED hurt \/ Fault
      /\ active' = "boot" \/ (Fault /\ UNCHANGED active) \/ (BootGone /\ UNCHANGED active)
      /\ active' \in DOMAIN vcls
  BY <1>1 DEF SwitchToBoot, VCLUse, VarnishdInv, CallInv, Answer, testVars, BootGone
<1>3. VarnishdInv' /\ CallInv'
  BY <1>2, HurtGrows DEF VarnishdInv, CallInv, Over
<1>4. HoldInv' /\ ~Over /\ ~Over'
  BY <1>2, HoldKept DEF Over
<1>5. VclName' = VclName
  BY <1>2, NameKept
<1>6. (Held' <=> Held) /\ OwnInv' /\ OwnVCLServes'
  BY <1>2, <1>5 DEF Held, OwnInv, OwnVCLServes
<1>7. SharedInv' /\ SharedServes'
  <2>1. op' \in {"test", "unload"} /\ (loaded # None => loaded \in DOMAIN vcls')
    BY <1>2 DEF SharedInv
  <2> QED
    BY <1>2, <1>4, <2>1, KeptShared
<1>8. ASSUME NEW name \in DOMAIN vcls \ {"boot", loaded}, ~BootGone
      PROVE  Explained(name)' \/ (Held /\ name = VclName)
  BY <1>2, <1>8, StillExplained DEF LeakInv
<1>9. ~BootGone => active' = "boot" \/ Hurt(id)'
  BY <1>2, StillHurt
<1>10. LeakInv'
  BY <1>2, <1>5, <1>6, <1>8, <1>9 DEF LeakInv, BootGone
<1> QED
  BY <1>3, <1>4, <1>6, <1>7, <1>10

\* vcl.discard: what stays behind although the call is over goes back to a
\* failure of the discard, or of the switch to boot before it.
LEMMA DiscardKeeps ==
  ASSUME IInv, Discard
  PROVE  IInv'
<1> USE DEF IInv, opVars
<1>1. PICK answer \in Answer : VCLDiscard(VclName, answer)
  BY DEF Discard
<1>2. PICK outcome \in {"ok", "result"} :
        Return(op, outcome) /\ outcome = (IF op = "test" THEN "result" ELSE "ok")
  BY DEF Discard
<1>3. /\ UNCHANGED <<opVars, heldVars, active, vclShow, served>> /\ op \in {"test", "unload"}
      /\ pc = "discard" /\ pc' = "unwind"
      /\ loaded' = (IF op = "unload" THEN None ELSE loaded)
  BY <1>1, <1>2 DEF Discard, VCLDiscard, CallInv, testVars, Return
<1>4. /\ UNCHANGED hurt \/ Fault
      /\ vcls' = [name \in DOMAIN vcls' |-> vcls'[name]]
      /\ DOMAIN vcls' \subseteq DOMAIN vcls /\ DOMAIN vcls \ {VclName} \subseteq DOMAIN vcls'
      /\ \A name \in DOMAIN vcls' : vcls'[name] = vcls[name]
      /\ VclName = active => DOMAIN vcls' = DOMAIN vcls
      /\ VclName \in DOMAIN vcls' => Fault \/ VclName = active
  BY <1>1 DEF VCLDiscard, VarnishdInv
<1>5. VarnishdInv' /\ CallInv'
  BY <1>3, <1>4, HurtGrows DEF VarnishdInv, CallInv, Over
<1>6. HoldInv' /\ ~Over
  BY <1>3, HoldKept DEF Over
<1>7. ~Held' /\ OwnInv' /\ OwnVCLServes'
  BY <1>3 DEF Held, OwnInv, OwnVCLServes
<1>8. SharedInv' /\ SharedServes'
  <2>1. op \in Calls /\ outcome \in {"ok", "error", "result", "foreign"} /\ outcome # "foreign"
    BY <1>3 DEF Calls
  <2>2. loaded' # None => loaded' \in DOMAIN vcls' /\ op = "test" /\ outcome = "result"
    BY <1>2, <1>3, <1>4, Names, NamesAssumption DEF SharedInv, CallInv
  <2> QED
    BY <1>2, <1>3, <1>4, <1>6, <2>1, <2>2, ReturnShared
<1>9. ASSUME NEW name \in DOMAIN vcls' \ {"boot", loaded'}, ~BootGone
      PROVE  Explained(name)'
  <2>1. CASE name # VclName
    <3>1. name # loaded
      BY <1>3, <2>1, Names
    <3> QED
      BY <1>4, <1>9, <2>1, <3>1, StillExplained DEF LeakInv
  <2>2. CASE name = VclName
    <3>1. vcls[name] = id \/ (name = "shared-vcl" /\ vcls[name] \in Nat /\ vcls[name] <= id)
      BY <1>3, <1>4, <2>2, Names DEF CallInv, OwnInv, Held, VarnishdInv
    <3>2. CASE Fault
      BY <1>4, <3>1, <3>2, FaultExplains
    <3>3. CASE ~Fault
      <4>1. UNCHANGED hurt /\ Hurt(id)
        BY <1>3, <1>4, <1>9, <2>2, <3>3 DEF LeakInv
      <4>2. \E k \in DOMAIN hurt' : hurt'[k] = id
        BY <4>1 DEF Hurt
      <4> QED
        BY <1>4, <3>1, <4>2 DEF Explained, Hurt, VarnishdInv
    <3> QED
      BY <3>2, <3>3
  <2> QED
    BY <2>1, <2>2
<1>10. LeakInv'
  BY <1>3, <1>4, <1>9 DEF LeakInv, BootGone
<1> QED
  BY <1>5, <1>6, <1>7, <1>8, <1>10

\* The deferred calls release what they were deferred for; the call ends when none
\* is left.
LEMMA UnwindKeeps ==
  ASSUME IInv, StopAll \/ RemoveAll \/ EndCall
  PROVE  IInv'
<1> USE DEF IInv
<1>1. /\ UNCHANGED <<opVars, testVars, loaded, vcls, active, hurt, results>>
      /\ pc = "unwind" /\ pc' \in {"unwind", "idle"}
  BY DEF StopAll, RemoveAll, EndCall, Unwinding
<1>2. UNCHANGED <<id, op, test, vclShow, served>>
  BY <1>1 DEF opVars, testVars
<1>3. HoldInv'
  <2>1. CASE StopAll
    <3>1. /\ Unwinding("stopAll") /\ defers' = Front(defers) /\ mocks' = {}
          /\ UNCHANGED tmpDir /\ pc' = "unwind"
      BY <2>1 DEF StopAll, Unwinding
    <3>2. defers' \in Seq({"stopAll", "removeAll"}) /\ (Deferred("removeAll") => Deferred("removeAll")')
      BY <3>1, DeferPopped
    <3> QED
      BY <3>1, <3>2 DEF HoldInv
  <2>2. CASE RemoveAll
    <3>1. /\ Unwinding("removeAll") /\ defers' = Front(defers) /\ tmpDir' = FALSE
          /\ UNCHANGED mocks /\ pc' = "unwind"
      BY <2>2 DEF RemoveAll, Unwinding
    <3>2. defers' \in Seq({"stopAll", "removeAll"}) /\ (Deferred("stopAll") => Deferred("stopAll")')
      BY <3>1, DeferPopped
    <3> QED
      BY <1>1, <3>1, <3>2 DEF HoldInv
  <2>3. CASE EndCall
    BY <2>3, HoldKept DEF EndCall
  <2> QED
    BY <2>1, <2>2, <2>3
<1>4. VarnishdInv' /\ CallInv'
  BY <1>1, <1>2 DEF VarnishdInv, CallInv, Over
<1>5. ~Held /\ ~Held' /\ OwnInv' /\ OwnVCLServes'
  BY <1>1, <1>2 DEF Held, OwnInv, OwnVCLServes
<1>6. SharedInv' /\ SharedServes'
  <2>1. Over /\ Over'
    BY <1>1 DEF Over
  <2>2. loaded # None => loaded \in DOMAIN vcls /\ (active = loaded \/ DisplacedSince(Len(results)))
    BY <1>1 DEF SharedInv
  <2> QED
    BY <1>1, <1>2, <2>1, <2>2, KeptShared
<1>7. LeakInv'
  <2>1. ASSUME NEW name \in DOMAIN vcls \ {"boot", loaded}, ~BootGone PROVE Explained(name)'
    BY <1>1, <1>5, <2>1, StillExplained DEF LeakInv
  <2> QED
    BY <1>1, <1>5, <2>1 DEF LeakInv, BootGone
<1> QED
  BY <1>3, <1>4, <1>5, <1>6, <1>7

\* IInv holds in every state of every sequence of calls.
THEOREM RunnerInvariant == Spec => []IInv
<1>1. IInv /\ UNCHANGED vars => IInv'
  <2> SUFFICES ASSUME IInv, UNCHANGED vars PROVE IInv'
    OBVIOUS
  <2>1. UNCHANGED <<id, op, test, pc, mocks, tmpDir, defers, step, vclShow, served, loaded,
                    vcls, active, hurt, results>>
    BY DEF vars, opVars, heldVars, testVars
  <2>2. VclName' = VclName /\ (Held' <=> Held) /\ (Over' <=> Over) /\ \A i : Hurt(i)' <=> Hurt(i)
    BY <2>1 DEF VclName, Held, Hurt, Over
  <2>3. \A name : Explained(name)' <=> Explained(name)
    BY <2>1, <2>2 DEF Explained
  <2>4. VarnishdInv' /\ CallInv' /\ OwnInv' /\ OwnVCLServes'
    BY <2>1, <2>2 DEF IInv, VarnishdInv, CallInv, OwnInv, OwnVCLServes
  <2>5. LeakInv'
    BY <2>1, <2>2, <2>3 DEF IInv, LeakInv, BootGone
  <2>6. HoldInv'
    <3>1. UNCHANGED heldVars /\ (pc' = "idle" => defers = <<>>)
      BY <2>1 DEF IInv, HoldInv, heldVars
    <3> QED
      BY <2>1, <3>1, HoldKept DEF IInv
  <2>7. SharedInv' /\ SharedServes'
    BY <2>1, <2>2, KeptShared DEF IInv, SharedInv
  <2> QED
    BY <2>4, <2>5, <2>6, <2>7 DEF IInv
<1>2. IInv /\ [Next]_vars => IInv'
  BY <1>1, CallsKeep, PrepareKeeps, LoadKeeps, ActivateKeeps, ShowKeeps, RequestsKeep,
     SwitchToBootKeeps, DiscardKeeps, UnwindKeeps, Zenon DEF Next
<1> QED
  BY InitInv, <1>2, PTL DEF Spec

\* RunTest: every request of a test is served by the VCL that this call loaded,
\* and its trace is read with the structure of that VCL (OwnVCLServes), for all
\* tests, names that collide included, and any sequence of calls and failures.
THEOREM ServedByOwnVCL == Spec => []OwnVCLServes
<1>1. IInv => OwnVCLServes
  BY DEF IInv
<1> QED
  BY RunnerInvariant, <1>1, PTL

\* Whatever fails, the mocks are stopped and the temporary directory is removed
\* when a call is over (NothingHeld): at every return of RunTest the deferred calls
\* registered by then are those for what the call holds.
THEOREM HeldByNone == Spec => []NothingHeld
<1>1. IInv => NothingHeld
  BY IdleHolds DEF IInv, NothingHeld
<1> QED
  BY RunnerInvariant, <1>1, PTL

\* While varnishd has boot, a VCL that a finished call leaves in it goes back to a
\* failure outside the runner (LeaksExplained).
THEOREM EveryLeakExplained == Spec => []LeaksExplained
<1>1. IInv => LeaksExplained
  BY DEF IInv, LeakInv, Explained, Held, LeaksExplained, BootGone
<1> QED
  BY RunnerInvariant, <1>1, PTL

\* RunTestWithSharedVCL runs a test against another VCL than the one the runner
\* believes to have loaded only after a RunTest, or a RunTest or LoadVCL in which
\* something failed, with no successful LoadVCL since (SharedServes).
THEOREM ServedByShared == Spec => []SharedServes
<1>1. IInv => SharedServes
  BY DEF IInv
<1> QED
  BY RunnerInvariant, <1>1, PTL
=============================================================================
