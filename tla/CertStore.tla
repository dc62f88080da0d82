----------------------------- MODULE CertStore ------------------------------
(***************************************************************************)
(* What the TLS certificate commands promise, whoever implements them: a   *)
(* store and a list of changes to it that commit applies and rollback      *)
(* forgets.  Nobody sees a change before it is committed.                  *)
(***************************************************************************)
CONSTANT Cert
VARIABLES certs,   \* the certificates in use
          edit,    \* edit[c]: the pending change to c
          status   \* status of the last answer

Change == {"keep", "add", "drop"}
NoEdits == [c \in Cert |-> "keep"]

\* The store as it would be after a commit.
Draft == {c \in Cert : edit[c] = "add" \/ (c \in certs /\ edit[c] = "keep")}

Init == certs = {} /\ edit = NoEdits /\ status = 0

Load(c) ==
  /\ IF c \in Draft
     THEN status' = 300 /\ UNCHANGED edit
     ELSE status' = 200 /\ edit' = [edit EXCEPT ![c] = IF c \in certs THEN "keep" ELSE "add"]
  /\ UNCHANGED certs

Discard(c) ==
  /\ IF c \notin Draft
     THEN status' = 300 /\ UNCHANGED edit
     ELSE status' = 200 /\ edit' = [edit EXCEPT ![c] = IF c \in certs THEN "drop" ELSE "keep"]
  /\ UNCHANGED certs

Commit == certs' = Draft /\ edit' = NoEdits /\ status' = 200

Rollback == edit' = NoEdits /\ status' = 200 /\ UNCHANGED certs

\* The store is filled from outside; pending changes are forgotten.
Reset(S) == certs' = S /\ edit' = NoEdits /\ UNCHANGED status

\* A command that changes nothing: a query, or one that is refused.
Other == status' \in {100, 101, 200, 300, 400, 500} /\ UNCHANGED <<certs, edit>>

Next == \/ \E c \in Cert : Load(c) \/ Discard(c)
        \/ \E S \in SUBSET Cert : Reset(S)
        \/ Commit \/ Rollback \/ Other

Spec == Init /\ [][Next]_<<certs, edit, status>>
=============================================================================
