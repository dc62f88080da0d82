--------------------------- MODULE CLIMockProofs ---------------------------
(***************************************************************************)
(* Proofs about CLIMock: the copied certificate maps implement the store   *)
(* of CertStore, and what is committed is what the history amounts to.     *)
(***************************************************************************)
EXTENDS CLIMock, SequenceTheorems, TLAPS

\* The maps are functions on sets of certificate IDs; no answer but these is set.
MapsInv ==
  /\ transaction \in BOOLEAN
  /\ DOMAIN committed \subseteq Cert /\ DOMAIN staged \subseteq Cert
  /\ \A c \in DOMAIN responses : responses[c] \in {ClisOk, Exists}

\* The certificates after a commit: those of the map a change starts from.
Drafted == DOMAIN StartTransaction

\* The refinement mapping of CertStore's edit.
Edit == [c \in Cert |->
           IF ~transaction \/ (c \in DOMAIN staged <=> c \in DOMAIN committed) THEN "keep"
           ELSE IF c \in DOMAIN staged THEN "add" ELSE "drop"]
-----------------------------------------------------------------------------
(* What one command does to the maps *)

\* A map with one more or one certificate less has the domain it should have.
LEMMA LoadMaps ==
  ASSUME MapsInv, NEW c \in Cert, HandleTLSCertLoad(c)
  PROVE  /\ transaction' = TRUE /\ UNCHANGED committed
         /\ Drafted' = Drafted \cup {c} /\ DOMAIN staged' = Drafted'
         /\ answer' = IF c \in Drafted THEN Exists ELSE ClisOk
  BY DEF HandleTLSCertLoad, Drafted, StartTransaction

\* Likewise for a discard.
LEMMA DiscardMaps ==
  ASSUME MapsInv, NEW c \in Cert, HandleTLSCertDiscard(c)
  PROVE  /\ transaction' = TRUE /\ UNCHANGED committed
         /\ Drafted' = Drafted \ {c} /\ DOMAIN staged' = Drafted'
         /\ answer' = IF c \in Drafted THEN ClisOk ELSE Exists
  BY DEF HandleTLSCertDiscard, Drafted, StartTransaction

\* A commit puts the draft in use.
LEMMA CommitMaps ==
  ASSUME MapsInv, HandleTLSCertCommit
  PROVE  /\ transaction' = FALSE /\ DOMAIN committed' = Drafted /\ Drafted' = Drafted
         /\ DOMAIN staged' \subseteq Cert /\ answer' = ClisOk
  BY DEF HandleTLSCertCommit, Drafted, StartTransaction, MapsInv, NoCerts, tlsVars

\* A rollback leaves what is in use alone.
LEMMA RollbackMaps ==
  ASSUME MapsInv, HandleTLSCertRollback
  PROVE  /\ transaction' = FALSE /\ UNCHANGED committed /\ Drafted' = DOMAIN committed
         /\ DOMAIN staged' \subseteq Cert /\ answer' = ClisOk
  BY DEF HandleTLSCertRollback, Drafted, StartTransaction, MapsInv, NoCerts, tlsVars

\* The draft is a set of certificate IDs.
LEMMA DraftedCerts ==
  ASSUME MapsInv
  PROVE  Drafted \subseteq Cert
  BY DEF MapsInv, Drafted, StartTransaction

\* Exec runs one of the four handlers, or changes no certificate.
LEMMA ExecCases ==
  ASSUME MapsInv, NEW c \in Command, Exec(c)
  PROVE  \/ c.arg \in Cert /\ c.verb = "load" /\ HandleTLSCertLoad(c.arg)
         \/ c.arg \in Cert /\ c.verb = "discard" /\ HandleTLSCertDiscard(c.arg)
         \/ c.verb = "commit" /\ HandleTLSCertCommit
         \/ c.verb = "rollback" /\ HandleTLSCertRollback
         \/ UNCHANGED tlsVars /\ answer' \in {ClisUnknown, ClisOk, Exists}
<1>1. Dispatch(c)
  BY DEF Exec
<1>2. CASE Overridden(c)
  BY <1>1, <1>2 DEF Dispatch, Overridden, MapsInv
<1>3. CASE ~Overridden(c) /\ c \notin TLSCommand
  <2>1. Canned(c) \in {ClisUnknown, ClisOk, Exists}
    BY DEF Canned, MapsInv
  <2> QED
    BY <1>1, <1>3, <2>1 DEF Dispatch
<1>4. CASE ~Overridden(c) /\ c \in TLSCommand
  <2>1. c.arg # Empty => c.arg \in Cert
    BY <1>4 DEF TLSCommand
  <2> QED
    BY <1>1, <1>4, <2>1 DEF Dispatch
<1> QED
  BY <1>2, <1>3, <1>4

\* MapsInv is an invariant.
LEMMA MapsKept ==
  ASSUME MapsInv, [MockNext]_mockVars
  PROVE  MapsInv'
<1>1. CASE \E c \in Command : Exec(c)
  <2>1. PICK c \in Command : Exec(c)
    BY <1>1
  <2>2. transaction' \in BOOLEAN
    BY <2>1, ExecCases, LoadMaps, DiscardMaps, CommitMaps, RollbackMaps, Zenon DEF tlsVars, MapsInv
  <2>3. DOMAIN committed' \subseteq Cert /\ DOMAIN staged' \subseteq Cert
    BY <2>1, ExecCases, LoadMaps, DiscardMaps, CommitMaps, RollbackMaps, DraftedCerts
    DEF tlsVars, MapsInv
  <2> QED
    BY <2>1, <2>2, <2>3 DEF MapsInv, Exec
<1>2. CASE TLSCertListStructured \/ UNCHANGED mockVars
  BY <1>2 DEF TLSCertListStructured, mockVars, tlsVars, MapsInv
<1>3. CASE \E c \in Override, st \in {ClisOk, Exists} : SetResponse(c, st)
  BY <1>3 DEF SetResponse, tlsVars, MapsInv
<1>4. CASE \E S \in SUBSET Cert : \E certs \in [S -> Entry] : SetTLSState(certs)
  <2>1. transaction' \in BOOLEAN
    BY <1>4, Zenon DEF SetTLSState
  <2> QED
    BY <1>4, <2>1 DEF SetTLSState, MapsInv, NoCerts
<1> QED
  BY <1>1, <1>2, <1>3, <1>4 DEF MockNext
-----------------------------------------------------------------------------
(* The mock implements the certificate store *)

\* What the mapped edit says of each certificate.
EditInv ==
  \A c \in Cert :
    /\ c \in Drafted /\ c \notin DOMAIN committed => Edit[c] = "add"
    /\ c \notin Drafted /\ c \in DOMAIN committed => Edit[c] = "drop"
    /\ (c \in Drafted <=> c \in DOMAIN committed) => Edit[c] = "keep"

\* It is so in any state.
LEMMA EditOf ==
  EditInv /\ EditInv'
  BY DEF EditInv, Edit, Drafted, StartTransaction

\* The store's draft is the mock's.
LEMMA DraftIsDrafted ==
  ASSUME MapsInv
  PROVE  Store!Draft = Drafted
  BY DEF Store!Draft, Drafted, StartTransaction, MapsInv

\* Two states map to the same edits if each certificate's is the same.
LEMMA EditEqual ==
  ASSUME \A c \in Cert : Edit'[c] = Edit[c]
  PROVE  Edit' = Edit
  BY DEF Edit

\* Nothing is edited when the draft is what is in use.
LEMMA NoEditsLeft ==
  ASSUME Drafted' = DOMAIN committed'
  PROVE  Edit' = Store!NoEdits
  BY DEF Edit, Store!NoEdits, Drafted, StartTransaction

\* load and discard change the edit of one certificate.
LEMMA ChangeImplements ==
  ASSUME MapsInv, NEW a \in Cert, HandleTLSCertLoad(a) \/ HandleTLSCertDiscard(a)
  PROVE  Store!Load(a) \/ Store!Discard(a)
<1>1. UNCHANGED committed /\ \A c \in Cert : c # a => (c \in Drafted' <=> c \in Drafted)
  <2>1. CASE HandleTLSCertLoad(a)
    <3>1. UNCHANGED committed /\ Drafted' = Drafted \cup {a}
      BY <2>1, LoadMaps
    <3> QED
      BY <3>1
  <2>2. CASE HandleTLSCertDiscard(a)
    <3>1. UNCHANGED committed /\ Drafted' = Drafted \ {a}
      BY <2>2, DiscardMaps
    <3> QED
      BY <3>1
  <2> QED
    BY <2>1, <2>2
<1>2. EditInv /\ EditInv'
  BY EditOf
<1>3. \A c \in Cert : c # a => Edit'[c] = Edit[c]
  <2> SUFFICES ASSUME NEW c \in Cert, c # a PROVE Edit'[c] = Edit[c]
    OBVIOUS
  <2>1. c \in Drafted' <=> c \in Drafted
    BY <1>1
  <2> QED
    BY <1>1, <1>2, <2>1 DEF EditInv
<1>4. ASSUME Drafted' = Drafted
      PROVE  Edit' = Edit
  BY <1>1, <1>2, <1>3, <1>4, EditEqual DEF EditInv
<1>5. ASSUME NEW e, Edit'[a] = e
      PROVE  Edit' = [Edit EXCEPT ![a] = e]
  BY <1>3, <1>5 DEF Edit
<1>6. CASE HandleTLSCertLoad(a)
  <2>1. CASE a \in Drafted
    <3>1. Edit' = Edit /\ answer' = 300 /\ a \in Store!Draft
      BY <1>4, <1>6, <2>1, LoadMaps, DraftIsDrafted DEF Exists
    <3> QED
      BY <1>1, <3>1 DEF Store!Load, Edit
  <2>2. CASE a \notin Drafted
    <3>1. Edit'[a] = IF a \in DOMAIN committed THEN "keep" ELSE "add"
      BY <1>1, <1>2, <1>6, <2>2, LoadMaps DEF EditInv
    <3>2. Edit' = [Edit EXCEPT ![a] = IF a \in DOMAIN committed THEN "keep" ELSE "add"]
      BY <1>5, <3>1
    <3>3. answer' = 200 /\ a \notin Store!Draft
      BY <1>6, <2>2, LoadMaps, DraftIsDrafted DEF ClisOk
    <3> QED
      BY <1>1, <3>2, <3>3 DEF Store!Load, Edit
  <2> QED
    BY <2>1, <2>2
<1>7. CASE HandleTLSCertDiscard(a)
  <2>1. CASE a \notin Drafted
    <3>1. Edit' = Edit /\ answer' = 300 /\ a \notin Store!Draft
      BY <1>4, <1>7, <2>1, DiscardMaps, DraftIsDrafted DEF Exists
    <3> QED
      BY <1>1, <3>1 DEF Store!Discard, Edit
  <2>2. CASE a \in Drafted
    <3>1. Edit'[a] = IF a \in DOMAIN committed THEN "drop" ELSE "keep"
      BY <1>1, <1>2, <1>7, <2>2, DiscardMaps DEF EditInv
    <3>2. Edit' = [Edit EXCEPT ![a] = IF a \in DOMAIN committed THEN "drop" ELSE "keep"]
      BY <1>5, <3>1
    <3>3. answer' = 200 /\ a \in Store!Draft
      BY <1>7, <2>2, DiscardMaps, DraftIsDrafted DEF ClisOk
    <3> QED
      BY <1>1, <3>2, <3>3 DEF Store!Discard, Edit
  <2> QED
    BY <2>1, <2>2
<1> QED
  BY <1>6, <1>7

\* Every step of the mock is a step of the store, or changes nothing it knows of.
LEMMA StepImplements ==
  ASSUME MapsInv, [MockNext]_mockVars
  PROVE  [Store!Next]_<<DOMAIN committed, Edit, answer>>
<1>1. CASE \E c \in Command : Exec(c)
  <2>1. PICK c \in Command : Exec(c)
    BY <1>1
  <2>2. CASE c.arg \in Cert /\ (HandleTLSCertLoad(c.arg) \/ HandleTLSCertDiscard(c.arg))
    BY <2>2, ChangeImplements DEF Store!Next
  <2>3. CASE HandleTLSCertCommit
    BY <2>3, CommitMaps, NoEditsLeft, DraftIsDrafted DEF Store!Next, Store!Commit, Edit, ClisOk
  <2>4. CASE HandleTLSCertRollback
    BY <2>4, RollbackMaps, NoEditsLeft DEF Store!Next, Store!Rollback, Edit, ClisOk
  <2>5. CASE UNCHANGED tlsVars /\ answer' \in {ClisUnknown, ClisOk, Exists}
    BY <2>5 DEF Store!Next, Store!Other, tlsVars, ClisUnknown, ClisOk, Exists, Edit
  <2> QED
    BY <2>1, <2>2, <2>3, <2>4, <2>5, ExecCases
<1>2. CASE TLSCertListStructured
  <2>1. UNCHANGED tlsVars /\ answer' \in {ClisOk, Exists}
    BY <1>2 DEF TLSCertListStructured, Overridden, MapsInv
  <2> QED
    BY <2>1 DEF Store!Next, Store!Other, tlsVars, ClisOk, Exists, Edit
<1>3. CASE UNCHANGED <<tlsVars, answer>>
  BY <1>3 DEF tlsVars, Edit
<1>4. CASE \E S \in SUBSET Cert : \E certs \in [S -> Entry] : SetTLSState(certs)
  <2>1. PICK S \in SUBSET Cert : \E certs \in [S -> Entry] : SetTLSState(certs)
    BY <1>4
  <2>2. DOMAIN committed' = S /\ UNCHANGED answer /\ Drafted' = DOMAIN committed'
    BY <2>1 DEF SetTLSState, Drafted, StartTransaction
  <2>3. Store!Reset(S)
    BY <2>2, NoEditsLeft DEF Store!Reset, Edit
  <2> QED
    BY <2>3 DEF Store!Next
<1> QED
  BY <1>1, <1>2, <1>3, <1>4 DEF MockNext, SetResponse, mockVars, tlsVars

\* The mock implements the abstract certificate store (ImplementsCertStore), for
\* every set of certificates, commands and overridden answers.
THEOREM MockImplementsStore == MockSpec => ImplementsCertStore
<1>1. MockInit => MapsInv
  <2> SUFFICES ASSUME MockInit PROVE MapsInv
    OBVIOUS
  <2>1. transaction \in BOOLEAN
    BY Zenon DEF MockInit
  <2> QED
    BY <2>1 DEF MockInit, MapsInv, NoCerts
<1>2. MockInit => Store!Init
  <2> SUFFICES ASSUME MockInit PROVE Store!Init
    OBVIOUS
  <2>1. DOMAIN committed = {} /\ transaction = FALSE /\ answer = 0
    BY DEF MockInit, NoCerts
  <2> QED
    BY <2>1 DEF Store!Init, Store!NoEdits
<1>3. MapsInv /\ [MockNext]_mockVars => MapsInv'
  BY MapsKept
<1>4. MapsInv /\ [MockNext]_mockVars => [Store!Next]_<<DOMAIN committed, Edit, answer>>
  BY StepImplements
<1> QED
  BY <1>1, <1>2, <1>3, <1>4, PTL DEF MockSpec, ImplementsCertStore, Store!Spec, Edit
-----------------------------------------------------------------------------
(* The history: what one more command does to what it amounts to *)

Ending == {"commit", "rollback", "set"}
Handled == [verb : {"load", "discard"} \cup Ending, certs : SUBSET (Cert \cup {Empty})]

\* The commands of a history l that end a transaction after position i; whether
\* the change there was committed; the positions that count for c, and those that
\* would count after a commit.
EndsIn(l, i) == {k \in (i + 1)..Len(l) : l[k].verb \in Ending}
AppliedIn(l, i) ==
  \E k \in EndsIn(l, i) : l[k].verb = "commit" /\ \A j \in EndsIn(l, i) : k <= j
ChangeIn(l, i, c) == l[i].verb \in {"load", "discard"} /\ c \in l[i].certs
CountsIn(l, c) ==
  {i \in 1..Len(l) : l[i].verb = "set" \/ (ChangeIn(l, i, c) /\ AppliedIn(l, i))}
DraftCountsIn(l, c) ==
  {i \in 1..Len(l) : \/ l[i].verb = "set"
                     \/ ChangeIn(l, i, c) /\ (AppliedIn(l, i) \/ EndsIn(l, i) = {})}

\* The last of the positions S adds c; there is a last one; there is a first one.
AddsIn(l, S, c) ==
  \E i \in S : (\A j \in S : j <= i) /\ l[i].verb # "discard" /\ c \in l[i].certs
HasLast(S) == S = {} \/ \E i \in S : \A j \in S : j <= i
HasFirst(S) == S = {} \/ \E i \in S : \A j \in S : i <= j

\* Facts about one more element of a history.
LEMMA Longer ==
  ASSUME NEW l \in Seq(Handled), NEW e \in Handled
  PROVE  /\ Len(l) \in Nat /\ Len(Append(l, e)) = Len(l) + 1
         /\ \A i \in 1..Len(l) : Append(l, e)[i] = l[i] /\ l[i] \in Handled
         /\ Append(l, e)[Len(l) + 1] = e
         /\ Append(l, e) \in Seq(Handled)
  OBVIOUS

\* A command that ends a transaction does so for all the changes before it.
LEMMA EndsGrow ==
  ASSUME NEW l \in Seq(Handled), NEW e \in Handled
  PROVE  /\ \A i \in 1..Len(l) :
              EndsIn(Append(l, e), i) =
                IF e.verb \in Ending THEN EndsIn(l, i) \cup {Len(l) + 1} ELSE EndsIn(l, i)
         /\ EndsIn(Append(l, e), Len(l) + 1) = {}
<1> DEFINE m == Append(l, e)
           n == Len(l)
<1>1. /\ n \in Nat /\ Len(m) = n + 1 /\ m[n + 1] = e
      /\ \A i \in 1..n : m[i] = l[i]
  BY Longer
<1> HIDE DEF m
<1>2. ASSUME NEW i \in 1..n
      PROVE  EndsIn(m, i) =
               IF e.verb \in Ending THEN EndsIn(l, i) \cup {n + 1} ELSE EndsIn(l, i)
  BY <1>1 DEF EndsIn
<1>3. EndsIn(m, n + 1) = {}
  BY <1>1 DEF EndsIn
<1> QED
  BY <1>2, <1>3 DEF m

\* So the first end stays the first, and a commit applies what was pending.
LEMMA AppliedGrow ==
  ASSUME NEW l \in Seq(Handled), NEW e \in Handled,
         \A i \in 1..Len(l) : HasFirst(EndsIn(l, i))
  PROVE  /\ \A i \in 1..Len(l) + 1 : HasFirst(EndsIn(Append(l, e), i))
         /\ \A i \in 1..Len(l) :
              /\ EndsIn(Append(l, e), i) = {} <=> EndsIn(l, i) = {} /\ e.verb \notin Ending
              /\ AppliedIn(Append(l, e), i) <=>
                   AppliedIn(l, i) \/ (EndsIn(l, i) = {} /\ e.verb = "commit")
         /\ ~AppliedIn(Append(l, e), Len(l) + 1)
<1> DEFINE m == Append(l, e)
           n == Len(l)
<1>1. /\ n \in Nat /\ Len(m) = n + 1 /\ m[n + 1] = e
      /\ \A i \in 1..n : m[i] = l[i]
  BY Longer
<1>2. /\ \A i \in 1..n : EndsIn(m, i) =
           IF e.verb \in Ending THEN EndsIn(l, i) \cup {n + 1} ELSE EndsIn(l, i)
      /\ EndsIn(m, n + 1) = {}
  BY EndsGrow
<1>3. \A i \in 1..n : \A k \in EndsIn(l, i) : k \in 1..n
  BY <1>1 DEF EndsIn
<1> HIDE DEF m
<1>4. HasFirst(EndsIn(m, n + 1)) /\ ~AppliedIn(m, n + 1)
  BY <1>2 DEF HasFirst, AppliedIn
<1>5. ASSUME NEW i \in 1..n
      PROVE  /\ HasFirst(EndsIn(m, i))
             /\ EndsIn(m, i) = {} <=> EndsIn(l, i) = {} /\ e.verb \notin Ending
             /\ AppliedIn(m, i) <=>
                  AppliedIn(l, i) \/ (EndsIn(l, i) = {} /\ e.verb = "commit")
  <2>1. CASE e.verb \notin Ending
    <3>1. EndsIn(m, i) = EndsIn(l, i) /\ e.verb # "commit"
      BY <1>2, <2>1 DEF Ending
    <3> QED
      BY <1>1, <1>3, <2>1, <3>1 DEF AppliedIn
  <2>2. CASE e.verb \in Ending /\ EndsIn(l, i) = {}
    <3>1. EndsIn(m, i) = {n + 1}
      BY <1>2, <2>2
    <3> QED
      BY <1>1, <2>2, <3>1 DEF AppliedIn, HasFirst
  <2>3. CASE e.verb \in Ending /\ EndsIn(l, i) # {}
    <3>1. EndsIn(m, i) = EndsIn(l, i) \cup {n + 1}
      BY <1>2, <2>3
    <3>2. PICK f \in EndsIn(l, i) : \A j \in EndsIn(l, i) : f <= j
      BY <2>3 DEF HasFirst
    <3>3. f \in 1..n /\ \A j \in EndsIn(m, i) : f <= j
      BY <1>1, <1>3, <3>1, <3>2
    <3>4. HasFirst(EndsIn(m, i))
      BY <3>1, <3>3 DEF HasFirst
    <3>5. AppliedIn(l, i) <=> l[f].verb = "commit"
      BY <1>3, <3>2, <3>3 DEF AppliedIn
    <3>6. AppliedIn(m, i) <=> m[f].verb = "commit"
      BY <1>1, <1>3, <3>1, <3>2, <3>3 DEF AppliedIn
    <3> QED
      BY <1>1, <2>3, <3>1, <3>3, <3>4, <3>5, <3>6
  <2> QED
    BY <2>1, <2>2, <2>3
<1> QED
  BY <1>4, <1>5, <1>1 DEF m

\* A commit makes count what the draft counts; a rollback or a reset makes the
\* draft forget what is pending; a change counts for the draft at once.
LEMMA CountsGrow ==
  ASSUME NEW l \in Seq(Handled), NEW e \in Handled, NEW c,
         \A i \in 1..Len(l) : HasFirst(EndsIn(l, i))
  PROVE  /\ CountsIn(Append(l, e), c) =
              (IF e.verb = "commit" THEN DraftCountsIn(l, c) ELSE CountsIn(l, c))
                \cup (IF e.verb = "set" THEN {Len(l) + 1} ELSE {})
         /\ DraftCountsIn(Append(l, e), c) =
              (IF e.verb \in {"rollback", "set"} THEN CountsIn(l, c) ELSE DraftCountsIn(l, c))
                \cup (IF e.verb = "set" \/ (e.verb \in {"load", "discard"} /\ c \in e.certs)
                      THEN {Len(l) + 1} ELSE {})
<1> DEFINE m == Append(l, e)
           n == Len(l)
<1>1. /\ n \in Nat /\ Len(m) = n + 1 /\ m[n + 1] = e
      /\ \A i \in 1..n : m[i] = l[i]
  BY Longer
<1>2. /\ \A i \in 1..n :
           /\ EndsIn(m, i) = {} <=> EndsIn(l, i) = {} /\ e.verb \notin Ending
           /\ AppliedIn(m, i) <=> AppliedIn(l, i) \/ (EndsIn(l, i) = {} /\ e.verb = "commit")
      /\ ~AppliedIn(m, n + 1) /\ EndsIn(m, n + 1) = {}
  BY AppliedGrow, EndsGrow
<1>3. \A i \in 1..n : ChangeIn(m, i, c) <=> ChangeIn(l, i, c)
  BY <1>1 DEF ChangeIn
<1>4. ChangeIn(m, n + 1, c) <=> e.verb \in {"load", "discard"} /\ c \in e.certs
  BY <1>1 DEF ChangeIn
<1>5. e.verb \in {"load", "discard", "commit", "rollback", "set"}
  BY DEF Handled, Ending
<1> HIDE DEF m
<1>6. 1..Len(m) = (1..n) \cup {n + 1} /\ n + 1 \notin 1..n
  BY <1>1
<1>7. CountsIn(m, c) =
        (IF e.verb = "commit" THEN DraftCountsIn(l, c) ELSE CountsIn(l, c))
          \cup (IF e.verb = "set" THEN {n + 1} ELSE {})
  BY <1>1, <1>2, <1>3, <1>6 DEF CountsIn, DraftCountsIn
<1>8. DraftCountsIn(m, c) =
        (IF e.verb \in {"rollback", "set"} THEN CountsIn(l, c) ELSE DraftCountsIn(l, c))
          \cup (IF e.verb = "set" \/ (e.verb \in {"load", "discard"} /\ c \in e.certs)
                THEN {n + 1} ELSE {})
  BY <1>1, <1>2, <1>3, <1>4, <1>5, <1>6 DEF CountsIn, DraftCountsIn, Ending
<1> QED
  BY <1>7, <1>8 DEF m

\* The last of some positions, with and without the new one.
LEMMA AddsGrow ==
  ASSUME NEW l \in Seq(Handled), NEW e \in Handled, NEW c, NEW S \in SUBSET (1..Len(l))
  PROVE  /\ AddsIn(Append(l, e), S, c) <=> AddsIn(l, S, c)
         /\ AddsIn(Append(l, e), S \cup {Len(l) + 1}, c) <=> e.verb # "discard" /\ c \in e.certs
         /\ HasLast(S \cup {Len(l) + 1})
<1> DEFINE m == Append(l, e)
           n == Len(l)
<1>1. /\ n \in Nat /\ m[n + 1] = e
      /\ \A i \in 1..n : m[i] = l[i]
  BY Longer
<1> HIDE DEF m
<1>2. AddsIn(m, S, c) <=> AddsIn(l, S, c)
  BY <1>1 DEF AddsIn
<1>3. \A j \in S \cup {n + 1} : j <= n + 1
  BY <1>1
<1>4. \A i \in S : ~(n + 1 <= i)
  BY <1>1
<1>5. AddsIn(m, S \cup {n + 1}, c) <=> e.verb # "discard" /\ c \in e.certs
  BY <1>1, <1>3, <1>4 DEF AddsIn
<1>6. HasLast(S \cup {n + 1})
  BY <1>3 DEF HasLast
<1> QED
  BY <1>2, <1>5, <1>6 DEF m

\* What the history l amounts to: in use, and after a commit.
InUseIn(l) == {c \in Cert : AddsIn(l, CountsIn(l, c), c)}
DraftIn(l) == {c \in Cert : AddsIn(l, DraftCountsIn(l, c), c)}
Ordered(l) ==
  /\ l \in Seq(Handled)
  /\ \A i \in 1..Len(l) : HasFirst(EndsIn(l, i))
  /\ \A c \in Cert : HasLast(CountsIn(l, c)) /\ HasLast(DraftCountsIn(l, c))

\* What one more command adds.
LEMMA HistoryGrows ==
  ASSUME NEW l, Ordered(l), NEW e \in Handled
  PROVE  /\ Ordered(Append(l, e))
         /\ e.verb \in {"load", "discard", "rollback"} => InUseIn(Append(l, e)) = InUseIn(l)
         /\ e.verb = "commit" => /\ InUseIn(Append(l, e)) = DraftIn(l)
                                 /\ DraftIn(Append(l, e)) = DraftIn(l)
         /\ e.verb = "rollback" => DraftIn(Append(l, e)) = InUseIn(l)
         /\ e.verb = "load" => DraftIn(Append(l, e)) = DraftIn(l) \cup (e.certs \cap Cert)
         /\ e.verb = "discard" => DraftIn(Append(l, e)) = DraftIn(l) \ e.certs
         /\ e.verb = "set" => /\ InUseIn(Append(l, e)) = e.certs \cap Cert
                              /\ DraftIn(Append(l, e)) = e.certs \cap Cert
<1> DEFINE m == Append(l, e)
           n == Len(l)
<1>1. /\ n \in Nat /\ Len(m) = n + 1 /\ m \in Seq(Handled) /\ l \in Seq(Handled)
      /\ \A i \in 1..n + 1 : HasFirst(EndsIn(m, i))
      /\ \A i \in 1..n : HasFirst(EndsIn(l, i))
  BY Longer, AppliedGrow DEF Ordered
<1>2. \A c : CountsIn(l, c) \in SUBSET (1..n) /\ DraftCountsIn(l, c) \in SUBSET (1..n)
  BY DEF CountsIn, DraftCountsIn
<1>3. \A c :
        /\ CountsIn(m, c) =
             (IF e.verb = "commit" THEN DraftCountsIn(l, c) ELSE CountsIn(l, c))
               \cup (IF e.verb = "set" THEN {n + 1} ELSE {})
        /\ DraftCountsIn(m, c) =
             (IF e.verb \in {"rollback", "set"} THEN CountsIn(l, c) ELSE DraftCountsIn(l, c))
               \cup (IF e.verb = "set" \/ (e.verb \in {"load", "discard"} /\ c \in e.certs)
                     THEN {n + 1} ELSE {})
  BY <1>1, CountsGrow
<1>4. \A c : \A S \in SUBSET (1..n) :
        /\ AddsIn(m, S, c) <=> AddsIn(l, S, c)
        /\ AddsIn(m, S \cup {n + 1}, c) <=> e.verb # "discard" /\ c \in e.certs
        /\ HasLast(S \cup {n + 1})
  BY <1>1, AddsGrow
<1> HIDE DEF m, n
<1>5. e.verb \in {"load", "discard", "commit", "rollback", "set"}
  BY DEF Handled, Ending
<1>6. ASSUME NEW c \in Cert
      PROVE  LET U == CountsIn(l, c)
                 D == DraftCountsIn(l, c)
             IN /\ CountsIn(m, c) \in {U, D, U \cup {n + 1}}
                /\ DraftCountsIn(m, c) \in {U, D, D \cup {n + 1}, U \cup {n + 1}}
                /\ e.verb \in {"load", "discard", "rollback"} => CountsIn(m, c) = U
                /\ e.verb = "commit" => CountsIn(m, c) = D /\ DraftCountsIn(m, c) = D
                /\ e.verb = "rollback" => DraftCountsIn(m, c) = U
                /\ e.verb \in {"load", "discard"} =>
                     DraftCountsIn(m, c) = IF c \in e.certs THEN D \cup {n + 1} ELSE D
                /\ e.verb = "set" => /\ CountsIn(m, c) = U \cup {n + 1}
                                     /\ DraftCountsIn(m, c) = U \cup {n + 1}
  <2> DEFINE U == CountsIn(l, c)
             D == DraftCountsIn(l, c)
  <2>1. /\ CountsIn(m, c) =
             (IF e.verb = "commit" THEN D ELSE U) \cup (IF e.verb = "set" THEN {n + 1} ELSE {})
        /\ DraftCountsIn(m, c) =
             (IF e.verb \in {"rollback", "set"} THEN U ELSE D)
               \cup (IF e.verb = "set" \/ (e.verb \in {"load", "discard"} /\ c \in e.certs)
                     THEN {n + 1} ELSE {})
    BY <1>3
  <2>2. U \cup {} = U /\ D \cup {} = D
    OBVIOUS
  <2> HIDE DEF U, D
  <2>3. CASE e.verb \in {"load", "discard"}
    BY <2>1, <2>2, <2>3 DEF U, D
  <2>4. CASE e.verb = "commit"
    BY <2>1, <2>2, <2>4 DEF U, D
  <2>5. CASE e.verb = "rollback"
    BY <2>1, <2>2, <2>5 DEF U, D
  <2>6. CASE e.verb = "set"
    BY <2>1, <2>2, <2>6 DEF U, D
  <2> QED
    BY <1>5, <2>3, <2>4, <2>5, <2>6
<1>7. Ordered(m)
  <2>1. ASSUME NEW c \in Cert
        PROVE  HasLast(CountsIn(m, c)) /\ HasLast(DraftCountsIn(m, c))
    <3>1. HasLast(CountsIn(l, c)) /\ HasLast(DraftCountsIn(l, c))
      BY DEF Ordered
    <3>2. HasLast(CountsIn(l, c) \cup {n + 1}) /\ HasLast(DraftCountsIn(l, c) \cup {n + 1})
      BY <1>2, <1>4
    <3> QED
      BY <1>6, <3>1, <3>2
  <2> QED
    BY <1>1, <2>1 DEF Ordered, n
<1>8. ASSUME NEW c \in Cert
      PROVE  /\ e.verb \in {"load", "discard", "rollback"} =>
                  (AddsIn(m, CountsIn(m, c), c) <=> AddsIn(l, CountsIn(l, c), c))
             /\ e.verb = "commit" =>
                  /\ AddsIn(m, CountsIn(m, c), c) <=> AddsIn(l, DraftCountsIn(l, c), c)
                  /\ AddsIn(m, DraftCountsIn(m, c), c) <=> AddsIn(l, DraftCountsIn(l, c), c)
             /\ e.verb = "rollback" =>
                  (AddsIn(m, DraftCountsIn(m, c), c) <=> AddsIn(l, CountsIn(l, c), c))
             /\ e.verb = "load" =>
                  (AddsIn(m, DraftCountsIn(m, c), c) <=>
                     c \in e.certs \/ AddsIn(l, DraftCountsIn(l, c), c))
             /\ e.verb = "discard" =>
                  (AddsIn(m, DraftCountsIn(m, c), c) <=>
                     c \notin e.certs /\ AddsIn(l, DraftCountsIn(l, c), c))
             /\ e.verb = "set" =>
                  /\ AddsIn(m, CountsIn(m, c), c) <=> c \in e.certs
                  /\ AddsIn(m, DraftCountsIn(m, c), c) <=> c \in e.certs
  <2>1. /\ AddsIn(m, CountsIn(l, c), c) <=> AddsIn(l, CountsIn(l, c), c)
        /\ AddsIn(m, DraftCountsIn(l, c), c) <=> AddsIn(l, DraftCountsIn(l, c), c)
        /\ AddsIn(m, CountsIn(l, c) \cup {n + 1}, c) <=> e.verb # "discard" /\ c \in e.certs
        /\ AddsIn(m, DraftCountsIn(l, c) \cup {n + 1}, c) <=> e.verb # "discard" /\ c \in e.certs
    BY <1>2, <1>4
  <2> QED
    BY <1>6, <2>1
<1> QED
  BY <1>7, <1>8 DEF InUseIn, DraftIn, m, n

\* Before the first command the history amounts to nothing.
LEMMA EmptyHistory ==
  Ordered(<<>>) /\ InUseIn(<<>>) = {} /\ DraftIn(<<>>) = {}
<1>1. Len(<<>>) = 0 /\ 1..0 = {} /\ <<>> \in Seq(Handled)
  OBVIOUS
<1>2. \A c : CountsIn(<<>>, c) = {} /\ DraftCountsIn(<<>>, c) = {}
  BY <1>1 DEF CountsIn, DraftCountsIn
<1> QED
  BY <1>1, <1>2 DEF Ordered, InUseIn, DraftIn, AddsIn, HasLast

\* InUse is the same set, with a CHOOSE for the last position that counts.
LEMMA InUseIsInUseIn ==
  ASSUME Ordered(history)
  PROVE  InUse = InUseIn(history)
<1>1. DOMAIN history = 1..Len(history) /\ Len(history) \in Nat
  BY DEF Ordered
<1>2. \A i : Applied(i) <=> AppliedIn(history, i)
  BY DEF Applied, AppliedIn, EndsIn, Ending
<1>3. ASSUME NEW c \in Cert
      PROVE  {i \in DOMAIN history : \/ history[i].verb = "set"
                                 \/ /\ history[i].verb \in {"load", "discard"}
                                    /\ c \in history[i].certs /\ Applied(i)} = CountsIn(history, c)
  BY <1>1, <1>2 DEF CountsIn, ChangeIn
<1>4. ASSUME NEW c \in Cert, NEW S \in SUBSET (1..Len(history)), HasLast(S)
      PROVE  AddsIn(history, S, c) <=>
               S # {} /\ LET l == history[Latest(S)] IN l.verb # "discard" /\ c \in l.certs
  <2>1. CASE S = {}
    BY <2>1 DEF AddsIn
  <2>2. CASE S # {}
    <3>1. Latest(S) \in S /\ \A j \in S : j <= Latest(S)
      BY <1>4, <2>2 DEF HasLast, Latest
    <3>2. \A i \in S : (\A j \in S : j <= i) => i = Latest(S)
      <4> SUFFICES ASSUME NEW i \in S, \A j \in S : j <= i PROVE i = Latest(S)
        OBVIOUS
      <4>1. i <= Latest(S) /\ Latest(S) <= i
        BY <3>1
      <4>2. i \in 1..Len(history) /\ Latest(S) \in 1..Len(history)
        BY <3>1
      <4> QED
        BY <1>1, <4>1, <4>2
    <3> QED
      BY <2>2, <3>1, <3>2 DEF AddsIn
  <2> QED
    BY <2>1, <2>2
<1>5. \A c \in Cert : CountsIn(history, c) \in SUBSET (1..Len(history)) /\ HasLast(CountsIn(history, c))
  BY DEF Ordered, CountsIn
<1>6. ASSUME NEW c \in Cert
      PROVE  c \in InUse <=> AddsIn(history, CountsIn(history, c), c)
  <2> DEFINE S == {i \in DOMAIN history : \/ history[i].verb = "set"
                                      \/ /\ history[i].verb \in {"load", "discard"}
                                         /\ c \in history[i].certs /\ Applied(i)}
  <2>1. S = CountsIn(history, c)
    BY <1>3
  <2>2. c \in InUse <=>
          S # {} /\ LET l == history[Latest(S)] IN l.verb # "discard" /\ c \in l.certs
    BY DEF InUse
  <2> HIDE DEF S
  <2> QED
    BY <1>4, <1>5, <2>1, <2>2
<1>7. InUse \subseteq Cert
  BY DEF InUse
<1> QED
  BY <1>6, <1>7 DEF InUseIn
-----------------------------------------------------------------------------
(* The list is the replay of the history *)

\* A field is one word, or lost.
LEMMA FieldIs ==
  ASSUME NEW A, NEW x \in A
  PROVE  Field(x) \in Seq(A) /\ Len(Field(x)) = IF x = Empty THEN 0 ELSE 1
<1>1. CASE x = Empty
  BY <1>1 DEF Field
<1>2. CASE x # Empty
  <2>1. Field(x) = <<x>>
    BY <1>2 DEF Field
  <2> QED
    BY <1>2, <2>1
<1> QED
  BY <1>1, <1>2

\* A line is three fields and the rest.
Joined(s, t, u, v) == s \o t \o u \o v

\* Where the parts of a line end up.
LEMMA PartsOfLine ==
  ASSUME NEW A, NEW s \in Seq(A), NEW t \in Seq(A), NEW u \in Seq(A), NEW v \in Seq(A),
         Len(v) = 7, Len(s) = 1
  PROVE  /\ Len(Joined(s, t, u, v)) = Len(t) + Len(u) + 8
         /\ Len(t) = 1 /\ Len(u) = 1 => Joined(s, t, u, v)[4] = v[1]
<1>1. \A x, y \in Seq(A) :
        /\ x \o y \in Seq(A) /\ Len(x \o y) = Len(x) + Len(y)
        /\ \A i \in 1..(Len(x) + Len(y)) : (x \o y)[i] = IF i <= Len(x) THEN x[i] ELSE y[i - Len(x)]
  BY ConcatProperties
<1>2. s \o t \in Seq(A) /\ Len(s \o t) = 1 + Len(t)
  BY <1>1
<1>3. (s \o t) \o u \in Seq(A) /\ Len((s \o t) \o u) = Len(s \o t) + Len(u)
  BY <1>1, <1>2, Zenon
<1> DEFINE w == (s \o t) \o u
<1> HIDE DEF w
<1>4. Len(w) = 1 + Len(t) + Len(u) /\ w \in Seq(A)
  BY <1>2, <1>3 DEF w
<1>5. /\ Len(w \o v) = Len(w) + Len(v)
      /\ \A i \in 1..(Len(w) + Len(v)) : (w \o v)[i] = IF i <= Len(w) THEN w[i] ELSE v[i - Len(w)]
  BY <1>1, <1>4
<1>6. Len(t) \in Nat /\ Len(u) \in Nat
  OBVIOUS
<1>7. Len(w) = 3 => (w \o v)[4] = v[1]
  BY <1>5
<1>8. Len(w \o v) = Len(t) + Len(u) + 8
  <2>1. Len(w \o v) = (1 + Len(t) + Len(u)) + 7
    BY <1>4, <1>5
  <2> QED
    BY <1>6, <2>1
<1>9. ASSUME Len(t) = 1, Len(u) = 1 PROVE (w \o v)[4] = v[1]
  <2>1. Len(w) = 3
    BY <1>4, <1>9
  <2> QED
    BY <1>7, <2>1
<1> QED
  BY <1>8, <1>9, Zenon DEF w, Joined

\* The line of a certificate has ten fields if none is empty, and its ID is then
\* the fourth.
LEMMA LineFields ==
  ASSUME NEW c \in DOMAIN committed
  PROVE  /\ Len(ListLine(c)) < 10 <=> Empty \in {committed[c].state, committed[c].hostname}
         /\ ~(Len(ListLine(c)) < 10) => ListLine(c)[4] = c
<1> DEFINE e == committed[c]
<1>1. PICK f : f = (IF e.frontend = Empty THEN "default" ELSE e.frontend) /\ f # Empty
  BY CLIMockAssumption
<1>2. PICK A : A = {f, e.state, e.hostname, c, "month", "day", "time", "year", "zone", "ocsp"}
  OBVIOUS
<1>3. PICK rest \in Seq(A) :
        /\ rest = <<c, "month", "day", "time", "year", "zone", "ocsp">>
        /\ Len(rest) = 7 /\ rest[1] = c
  <2>1. LET r == <<c, "month", "day", "time", "year", "zone", "ocsp">>
        IN r \in Seq(A) /\ Len(r) = 7 /\ r[1] = c
    BY <1>2
  <2> QED
    BY <2>1
<1>4. ListLine(c) = Joined(Field(f), Field(e.state), Field(e.hostname), rest)
  BY <1>1, <1>3 DEF ListLine, Joined
<1>5. f \in A /\ e.state \in A /\ e.hostname \in A
  BY <1>2
<1>6. PICK s \in Seq(A) : s = Field(f) /\ Len(s) = 1
  BY <1>1, <1>5, FieldIs
<1>7. PICK t \in Seq(A) : t = Field(e.state) /\ Len(t) = IF e.state = Empty THEN 0 ELSE 1
  BY <1>5, FieldIs
<1>8. PICK u \in Seq(A) : u = Field(e.hostname) /\ Len(u) = IF e.hostname = Empty THEN 0 ELSE 1
  BY <1>5, FieldIs
<1>9. Len(s) = 1 /\ Len(rest) = 7
  BY <1>3, <1>6
<1>10. /\ Len(Joined(s, t, u, rest)) = Len(t) + Len(u) + 8
       /\ Len(t) = 1 /\ Len(u) = 1 => Joined(s, t, u, rest)[4] = rest[1]
  BY <1>9, PartsOfLine
<1>11. ListLine(c) = Joined(s, t, u, rest) /\ rest[1] = c
  BY <1>3, <1>4, <1>6, <1>7, <1>8
<1> QED
  BY <1>7, <1>8, <1>10, <1>11

\* What TLSCertListStructured returns lists the committed certificates, or fails
\* for want of a field.
LEMMA ParsedList ==
  LET r == ParseTLSCertList({ListLine(d) : d \in DOMAIN committed})
  IN /\ r.result = "ok" => {x.id : x \in r.entries} = DOMAIN committed
     /\ r.result = "error" =>
          \E c \in DOMAIN committed : Empty \in {committed[c].state, committed[c].hostname}
<1> DEFINE lines == {ListLine(d) : d \in DOMAIN committed}
           r == ParseTLSCertList(lines)
<1>1. CASE \E l \in lines : Len(l) < 10
  <2>1. \E c \in DOMAIN committed : Empty \in {committed[c].state, committed[c].hostname}
    BY <1>1, LineFields
  <2>2. r.result = "error"
    BY <1>1 DEF ParseTLSCertList
  <2> QED
    BY <2>1, <2>2
<1>2. CASE ~\E l \in lines : Len(l) < 10
  <2>1. /\ r.result = "ok"
        /\ r.entries = {[id |-> l[4], frontend |-> l[1], state |-> l[2], hostname |-> l[3]] :
                          l \in lines}
    BY <1>2 DEF ParseTLSCertList
  <2>2. \A d \in DOMAIN committed : ListLine(d)[4] = d
    BY <1>2, LineFields
  <2> HIDE DEF r
  <2>3. \A x \in r.entries : \E l \in lines : x.id = l[4]
    BY <2>1
  <2>4. ASSUME NEW l \in lines PROVE \E x \in r.entries : x.id = l[4]
    <3>1. [id |-> l[4], frontend |-> l[1], state |-> l[2], hostname |-> l[3]] \in r.entries
      BY <2>1
    <3> QED
      BY <3>1
  <2>5. {x.id : x \in r.entries} = DOMAIN committed
    <3>1. ASSUME NEW x \in r.entries PROVE x.id \in DOMAIN committed
      BY <2>2, <2>3
    <3>2. ASSUME NEW d \in DOMAIN committed PROVE \E x \in r.entries : x.id = d
      BY <2>2, <2>4
    <3> QED
      BY <3>1, <3>2
  <2> QED
    BY <2>1, <2>5 DEF r
<1> QED
  BY <1>1, <1>2

\* What is in use and what is drafted is what the history amounts to.
ReplayInv ==
  /\ Ordered(history)
  /\ DOMAIN committed = InUseIn(history) /\ Drafted = DraftIn(history)

\* What the last list says is still so.
ListInv ==
  /\ list.result = "ok" => {r.id : r \in list.entries} = DOMAIN committed
  /\ ListFailsForCause

IInv == MapsInv /\ ReplayInv /\ ListInv

\* The history Exec adds to, and what it leaves alone.
LEMMA ExecLogs ==
  ASSUME MapsInv, NEW c \in Command, Exec(c)
  PROVE  \/ /\ c.arg \in Cert /\ c.verb = "load" /\ HandleTLSCertLoad(c.arg)
            /\ history' = Append(history, [verb |-> "load", certs |-> {c.arg}])
         \/ /\ c.arg \in Cert /\ c.verb = "discard" /\ HandleTLSCertDiscard(c.arg)
            /\ history' = Append(history, [verb |-> "discard", certs |-> {c.arg}])
         \/ /\ HandleTLSCertCommit
            /\ history' = Append(history, [verb |-> "commit", certs |-> {Empty}])
         \/ /\ HandleTLSCertRollback
            /\ history' = Append(history, [verb |-> "rollback", certs |-> {Empty}])
         \/ UNCHANGED <<tlsVars, history>>
<1>1. /\ Dispatch(c)
      /\ history' = IF Overridden(c) \/ (c.arg = Empty /\ c.verb \notin {"commit", "rollback"})
                    THEN history ELSE Append(history, [verb |-> c.verb, certs |-> {c.arg}])
  BY DEF Exec
<1>2. c \notin TLSCommand => c.arg = Empty /\ c.verb \notin {"commit", "rollback"}
  BY DEF Command, TLSCommand
<1>3. c \in TLSCommand => /\ c.verb \in {"commit", "rollback", "list"} => c.arg = Empty
                          /\ c.arg # Empty => c.arg \in Cert
  BY DEF TLSCommand
<1>4. CASE Overridden(c) \/ c \notin TLSCommand
  BY <1>1, <1>2, <1>4 DEF Dispatch
<1>5. CASE ~Overridden(c) /\ c \in TLSCommand
  BY <1>1, <1>3, <1>5 DEF Dispatch
<1> QED
  BY <1>4, <1>5

\* Each handler does to the maps what its command does to the history.
LEMMA ReplayKept ==
  ASSUME MapsInv, ReplayInv, [MockNext]_mockVars
  PROVE  ReplayInv'
<1> USE DEF ReplayInv
<1>1. CASE \E c \in Command : Exec(c)
  <2>1. PICK c \in Command : Exec(c)
    BY <1>1
  <2>2. CASE /\ c.arg \in Cert /\ c.verb = "load" /\ HandleTLSCertLoad(c.arg)
             /\ history' = Append(history, [verb |-> "load", certs |-> {c.arg}])
    <3>1. PICK e \in Handled : e = [verb |-> "load", certs |-> {c.arg}]
      BY <2>2 DEF Handled
    <3>2. /\ Ordered(history') /\ InUseIn(history') = InUseIn(history)
          /\ DraftIn(history') = DraftIn(history) \cup {c.arg}
      <4>1. /\ Ordered(Append(history, e)) /\ InUseIn(Append(history, e)) = InUseIn(history)
            /\ DraftIn(Append(history, e)) = DraftIn(history) \cup ({c.arg} \cap Cert)
        <5>1. e.verb = "load" /\ e.certs = {c.arg}
          BY <3>1
        <5>2. PICK l : l = history
          OBVIOUS
        <5>3. Ordered(l)
          BY <5>2
        <5>4. /\ Ordered(Append(l, e)) /\ InUseIn(Append(l, e)) = InUseIn(l)
              /\ DraftIn(Append(l, e)) = DraftIn(l) \cup (e.certs \cap Cert)
          BY <5>1, <5>3, HistoryGrows
        <5> QED
          BY <5>1, <5>2, <5>4
      <4> QED
        BY <2>2, <3>1, <4>1
    <3> QED
      BY <2>2, <3>2, LoadMaps
  <2>3. CASE /\ c.arg \in Cert /\ c.verb = "discard" /\ HandleTLSCertDiscard(c.arg)
             /\ history' = Append(history, [verb |-> "discard", certs |-> {c.arg}])
    <3>1. PICK e \in Handled : e = [verb |-> "discard", certs |-> {c.arg}]
      BY <2>3 DEF Handled
    <3>2. /\ Ordered(history') /\ InUseIn(history') = InUseIn(history)
          /\ DraftIn(history') = DraftIn(history) \ {c.arg}
      BY <2>3, <3>1, HistoryGrows
    <3> QED
      BY <2>3, <3>2, DiscardMaps
  <2>4. CASE /\ HandleTLSCertCommit
             /\ history' = Append(history, [verb |-> "commit", certs |-> {Empty}])
    <3>1. PICK e \in Handled : e = [verb |-> "commit", certs |-> {Empty}]
      BY DEF Handled, Ending
    <3>2. Ordered(history') /\ InUseIn(history') = DraftIn(history) /\ DraftIn(history') = DraftIn(history)
      BY <2>4, <3>1, HistoryGrows
    <3> QED
      BY <2>4, <3>2, CommitMaps
  <2>5. CASE /\ HandleTLSCertRollback
             /\ history' = Append(history, [verb |-> "rollback", certs |-> {Empty}])
    <3>1. PICK e \in Handled : e = [verb |-> "rollback", certs |-> {Empty}]
      BY DEF Handled, Ending
    <3>2. Ordered(history') /\ InUseIn(history') = InUseIn(history) /\ DraftIn(history') = InUseIn(history)
      BY <2>5, <3>1, HistoryGrows
    <3> QED
      BY <2>5, <3>2, RollbackMaps
  <2>6. CASE UNCHANGED <<tlsVars, history>>
    BY <2>6 DEF tlsVars, Drafted, StartTransaction
  <2> QED
    BY <2>1, <2>2, <2>3, <2>4, <2>5, <2>6, ExecLogs
<1>2. CASE UNCHANGED <<tlsVars, history>>
  BY <1>2 DEF tlsVars, Drafted, StartTransaction
<1>3. CASE \E S \in SUBSET Cert : \E certs \in [S -> Entry] : SetTLSState(certs)
  <2>1. PICK S \in SUBSET Cert : \E certs \in [S -> Entry] : SetTLSState(certs)
    BY <1>3
  <2>2. /\ DOMAIN committed' = S /\ Drafted' = S
        /\ history' = Append(history, [verb |-> "set", certs |-> S])
    BY <2>1 DEF SetTLSState, Drafted, StartTransaction
  <2>3. PICK e \in Handled : e = [verb |-> "set", certs |-> S]
    BY DEF Handled, Ending
  <2>4. Ordered(history') /\ InUseIn(history') = S \cap Cert /\ DraftIn(history') = S \cap Cert
    BY <2>2, <2>3, HistoryGrows
  <2> QED
    BY <2>2, <2>4
<1> QED
  BY <1>1, <1>2, <1>3 DEF MockNext, TLSCertListStructured, SetResponse, mockVars, tlsVars

\* Every operation but the list forgets the last list.
LEMMA ListKept ==
  ASSUME MapsInv, ListInv, [MockNext]_mockVars
  PROVE  ListInv'
<1>1. CASE list' = NoList
  BY <1>1 DEF NoList, ListInv, ListFailsForCause
<1>2. CASE TLSCertListStructured
  <2>1. UNCHANGED <<committed, responses>>
    BY <1>2 DEF TLSCertListStructured, tlsVars
  <2>2. CASE Overridden(Cmd("list", Empty))
    <3>1. list' = [result |-> "error", entries |-> {}] /\ Overridden(Cmd("list", Empty))'
      BY <1>2, <2>1, <2>2 DEF TLSCertListStructured, Overridden, Cmd
    <3> QED
      BY <3>1 DEF ListInv, ListFailsForCause
  <2>3. CASE ~Overridden(Cmd("list", Empty))
    <3>1. list' = ParseTLSCertList({ListLine(d) : d \in DOMAIN committed})
      BY <1>2, <2>3 DEF TLSCertListStructured
    <3>2. /\ list'.result = "ok" => {x.id : x \in list'.entries} = DOMAIN committed
          /\ list'.result = "error" =>
               \E c \in DOMAIN committed : Empty \in {committed[c].state, committed[c].hostname}
      BY <3>1, ParsedList
    <3> QED
      BY <2>1, <3>2 DEF ListInv, ListFailsForCause
  <2> QED
    BY <2>2, <2>3
<1>3. CASE UNCHANGED mockVars
  BY <1>3 DEF mockVars, ListInv, ListFailsForCause, Overridden
<1> QED
  BY <1>1, <1>2, <1>3 DEF MockNext, Exec, SetResponse, SetTLSState

\* IInv holds in every state.
THEOREM MockInvariant == MockSpec => []IInv
<1>1. MockInit => IInv
  <2> SUFFICES ASSUME MockInit PROVE IInv
    OBVIOUS
  <2>1. transaction \in BOOLEAN
    BY Zenon DEF MockInit
  <2>2. MapsInv
    BY <2>1 DEF MockInit, MapsInv, NoCerts
  <2>3. ReplayInv
    BY EmptyHistory DEF MockInit, ReplayInv, NoCerts, Drafted, StartTransaction
  <2>4. ListInv
    BY DEF MockInit, ListInv, ListFailsForCause, NoList
  <2> QED
    BY <2>2, <2>3, <2>4 DEF IInv
<1>2. IInv /\ [MockNext]_mockVars => IInv'
  BY MapsKept, ReplayKept, ListKept DEF IInv
<1> QED
  BY <1>1, <1>2, PTL DEF MockSpec

\* The certificates in use, and those a successful list shows, are what the
\* commands handled so far amount to (ListIsReplay), for histories of any length.
THEOREM ListIsTheReplay == MockSpec => []ListIsReplay
<1>1. IInv => ListIsReplay
  BY InUseIsInUseIn DEF IInv, ReplayInv, ListInv, ListIsReplay
<1> QED
  BY MockInvariant, <1>1, PTL

\* Listing the certificates fails only for an overridden answer or an entry
\* without its state or host name (ListFailsForCause).
THEOREM ListFailsOnlyForCause == MockSpec => []ListFailsForCause
<1>1. IInv => ListFailsForCause
  BY DEF IInv, ListInv
<1> QED
  BY MockInvariant, <1>1, PTL
=============================================================================
