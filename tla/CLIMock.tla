------------------------------ MODULE CLIMock -------------------------------
(***************************************************************************)
(* The mock of the varnishd CLI (pkg/varnishadm/mock.go): the dispatch of  *)
(* Exec, the certificate transactions behind tls.cert.*, the canned        *)
(* answers, and the wrappers that turn a command's answer into a value or  *)
(* an error (also in commands.go).  Exec holds the mutex from beginning to *)
(* end, the simulated delay included, so a command is one step.            *)
(*                                                                         *)
(* Left out: the texts of the answers, except for the certificate list,    *)
(* which is formatted and parsed again, and what nothing depends on: the   *)
(* call history, the running flag, the port and the delay.                 *)
(***************************************************************************)
EXTENDS Naturals, Sequences, CLIStatus

CONSTANTS Cert,      \* certificate IDs
          Plain,     \* the other commands that are sent
          Override,  \* the commands tests give an answer of their own
          Entry,     \* the entries tests fill the store with
          Loaded,    \* the entry tls.cert.load makes
          Empty,     \* the empty string
          MaxHistory     \* bound on the number of certificate commands

\* The fields of an entry that may be empty; the ID is the key.
ASSUME CLIMockAssumption ==
  /\ MaxHistory \in Nat /\ Empty \notin Cert \cup {"main", "default", "active", "host"}
  /\ Entry \cup {Loaded} \subseteq
       [frontend : {Empty, "main", "default"}, state : {Empty, "active"}, hostname : {Empty, "host"}]
  /\ Loaded = [frontend |-> "main", state |-> "active", hostname |-> "host"]

VARIABLES responses,   \* the answers set by SetResponse and by default
          committed,   \* tlsCertsCommitted: a function on a set of IDs
          staged,      \* tlsCertsStaged
          transaction, \* tlsTransaction
          answer,      \* status of the last answer
          list,        \* what the last TLSCertListStructured returned
          history          \* the certificate commands handled so far

tlsVars == <<committed, staged, transaction>>
mockVars == <<responses, committed, staged, transaction, answer, list, history>>

Exists == 300
NoList == [result |-> "none", entries |-> {}]
NoCerts == [c \in {} |-> Loaded]
Cmd(v, a) == [verb |-> v, arg |-> a]

\* A TLS command without its argument has too few fields.
TLSCommand == [verb : {"load", "discard"}, arg : Cert \cup {Empty}]
                \cup [verb : {"commit", "rollback", "list"}, arg : {Empty}]
Command == TLSCommand \cup [verb : Plain, arg : {Empty}]

\* setDefaultResponses.
Preset == {"ping", "status", "banner", "vcl.list", "backend.list", "debug.listen_address"}

\* Commands that are answered by their prefix.
Pattern == {"vcl.load", "vcl.use"}

MockInit ==
  /\ responses = [c \in {Cmd(v, Empty) : v \in Preset \cap Plain} \cup {Cmd("list", Empty)} |-> ClisOk]
  /\ history = <<>>
  /\ committed = NoCerts /\ staged = NoCerts /\ transaction = FALSE
  /\ answer = 0 /\ list = NoList
-----------------------------------------------------------------------------
(* The certificate handlers; each sets the certificates and the answer. *)

\* Mutant: every change starts from the committed certificates.
StartTransactionAgain == committed

\* The first change copies the committed certificates.
StartTransaction == IF transaction THEN staged ELSE committed

\* Refused or not, a well-formed change opens the transaction.
HandleTLSCertLoad(c) ==
  LET before == StartTransaction IN
  /\ transaction' = TRUE
  /\ IF c \in DOMAIN before
     THEN answer' = Exists /\ staged' = before
     ELSE /\ answer' = ClisOk
          /\ staged' = [d \in DOMAIN before \cup {c} |-> IF d = c THEN Loaded ELSE before[d]]
  /\ UNCHANGED committed

HandleTLSCertDiscard(c) ==
  LET before == StartTransaction IN
  /\ transaction' = TRUE
  /\ IF c \notin DOMAIN before
     THEN answer' = Exists /\ staged' = before
     ELSE answer' = ClisOk /\ staged' = [d \in DOMAIN before \ {c} |-> before[d]]
  /\ UNCHANGED committed

HandleTLSCertCommit ==
  /\ answer' = ClisOk
  /\ IF transaction
     THEN committed' = staged /\ staged' = NoCerts /\ transaction' = FALSE
     ELSE UNCHANGED tlsVars

HandleTLSCertRollback ==
  /\ answer' = ClisOk
  /\ IF transaction
     THEN staged' = NoCerts /\ transaction' = FALSE /\ UNCHANGED committed
     ELSE UNCHANGED tlsVars

\* An empty field is lost between the blanks around it (strings.Fields).
Field(f) == IF f = Empty THEN <<>> ELSE <<f>>

\* Mutant: only the certificates' own fields are written.
ListLineNoDefault(c) ==
  Field(committed[c].frontend) \o Field(committed[c].state) \o Field(committed[c].hostname)
    \o <<c, "month", "day", "time", "year", "zone", "ocsp">>

\* handleTLSCertList: one line per committed certificate, as the fields that
\* are found in it again.
ListLine(c) ==
  LET e == committed[c]
  IN Field(IF e.frontend = Empty THEN "default" ELSE e.frontend)
       \o Field(e.state) \o Field(e.hostname)
       \o <<c, "month", "day", "time", "year", "zone", "ocsp">>

\* parseTLSCertLine and parseTLSCertList: by position, at least ten fields.
ParseTLSCertList(lines) ==
  IF \E l \in lines : Len(l) < 10 THEN [result |-> "error", entries |-> {}]
  ELSE [result |-> "ok", entries |-> {[id |-> l[4], frontend |-> l[1], state |-> l[2], hostname |-> l[3]] : l \in lines}]
-----------------------------------------------------------------------------
(* The operations. *)

\* Exec: an error set by SetResponse goes before everything, a success
\* behind the certificate handlers and before the patterns.
Overridden(c) == c \in DOMAIN responses /\ responses[c] # ClisOk
Canned(c) ==
  CASE c \in DOMAIN responses -> responses[c]
    [] c.verb \in Pattern -> ClisOk
    [] OTHER -> ClisUnknown

Dispatch(c) ==
  \/ Overridden(c) /\ answer' = responses[c] /\ UNCHANGED tlsVars
  \/ /\ ~Overridden(c) /\ c \notin TLSCommand
     /\ answer' = Canned(c) /\ UNCHANGED tlsVars
  \/ /\ ~Overridden(c) /\ c \in TLSCommand
     /\ \/ /\ c.verb \in {"load", "discard"} /\ c.arg = Empty
           /\ answer' = ClisUnknown /\ UNCHANGED tlsVars
        \/ c.verb = "load" /\ c.arg # Empty /\ HandleTLSCertLoad(c.arg)
        \/ c.verb = "discard" /\ c.arg # Empty /\ HandleTLSCertDiscard(c.arg)
        \/ c.verb = "commit" /\ HandleTLSCertCommit
        \/ c.verb = "rollback" /\ HandleTLSCertRollback
        \/ c.verb = "list" /\ answer' = ClisOk /\ UNCHANGED tlsVars

Exec(c) ==
  /\ Len(history) < MaxHistory
  /\ Dispatch(c)
  /\ history' = IF Overridden(c) \/ (c.arg = Empty /\ c.verb \notin {"commit", "rollback"})
                THEN history ELSE Append(history, [verb |-> c.verb, certs |-> {c.arg}])
  /\ list' = NoList
  /\ UNCHANGED responses

\* TLSCertListStructured: Exec, then the payload is parsed; any status but
\* 200 is an error, as in the other wrappers that return a parsed value.
TLSCertListStructured ==
  LET c == Cmd("list", Empty) IN
  /\ answer' = IF Overridden(c) THEN responses[c] ELSE ClisOk
  /\ list' = IF answer' # ClisOk THEN [result |-> "error", entries |-> {}]
             ELSE ParseTLSCertList({ListLine(d) : d \in DOMAIN committed})
  /\ UNCHANGED <<responses, tlsVars, history>>

SetResponse(c, st) ==
  /\ responses' = [d \in DOMAIN responses \cup {c} |-> IF d = c THEN st ELSE responses[d]]
  /\ list' = NoList
  /\ UNCHANGED <<tlsVars, answer, history>>

\* Mutant: a transaction survives.
SetTLSStateOnly(certs) ==
  /\ Len(history) < MaxHistory
  /\ committed' = certs
  /\ history' = Append(history, [verb |-> "set", certs |-> DOMAIN certs])
  /\ list' = NoList
  /\ UNCHANGED <<responses, staged, transaction, answer>>

SetTLSState(certs) ==
  /\ Len(history) < MaxHistory
  /\ committed' = certs /\ staged' = NoCerts /\ transaction' = FALSE
  /\ history' = Append(history, [verb |-> "set", certs |-> DOMAIN certs])
  /\ list' = NoList
  /\ UNCHANGED <<responses, answer>>

MockNext ==
  \/ \E c \in Command : Exec(c)
  \/ TLSCertListStructured
  \/ \E c \in Override, st \in {ClisOk, Exists} : SetResponse(c, st)
  \/ \E S \in SUBSET Cert : \E certs \in [S -> Entry] : SetTLSState(certs)

MockSpec == MockInit /\ [][MockNext]_mockVars
-----------------------------------------------------------------------------
(* Properties. *)

\* The position of the last element of a non-empty set of positions.
Latest(S) == CHOOSE i \in S : \A j \in S : j <= i

\* The change at position i was committed: the next command that ends a
\* transaction is a commit.
Applied(i) ==
  LET ends == {k \in (i + 1)..Len(history) : history[k].verb \in {"commit", "rollback", "set"}}
  IN ends # {} /\ \E k \in ends : history[k].verb = "commit" /\ \A j \in ends : k <= j

\* What the history says is in use: the last change to a certificate that
\* counts, an explicit reset or a committed load or discard, added it.
InUse ==
  {c \in Cert :
     LET counts == {i \in DOMAIN history : \/ history[i].verb = "set"
                                       \/ /\ history[i].verb \in {"load", "discard"}
                                          /\ c \in history[i].certs /\ Applied(i)}
     IN counts # {} /\ LET l == history[Latest(counts)] IN l.verb # "discard" /\ c \in l.certs}

\* The certificate list a caller gets is what the commands so far amount
\* to, told from the history alone: changes count once committed, a
\* rollback or a reset forgets them, a refused or malformed command does
\* not count (mock.go: staged and committed maps).
ListIsReplay ==
  /\ DOMAIN committed = InUse
  /\ list.result = "ok" => {r.id : r \in list.entries} = InUse

\* TLSCertListStructured fails only when the answer was overridden or an
\* entry lacks its state or its host name; a missing frontend is filled in.
ListFailsForCause ==
  list.result = "error" =>
    \/ Overridden(Cmd("list", Empty))
    \/ \E c \in DOMAIN committed : Empty \in {committed[c].state, committed[c].hostname}

\* A copied set of certificates is as good as a list of changes: the mock
\* implements the abstract store, although a refused command leaves it in
\* a transaction the store does not know of.
Store == INSTANCE CertStore WITH
  certs <- DOMAIN committed,
  edit <- [c \in Cert |->
             IF ~transaction \/ (c \in DOMAIN staged <=> c \in DOMAIN committed) THEN "keep"
             ELSE IF c \in DOMAIN staged THEN "add" ELSE "drop"],
  status <- answer
ImplementsCertStore == Store!Spec
=============================================================================
