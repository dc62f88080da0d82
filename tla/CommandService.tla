--------------------------- MODULE CommandService ---------------------------
(***************************************************************************)
(* What Exec of pkg/varnishadm promises to its callers, with the channel,  *)
(* the connection and the handshake left out: a command runs in varnishd   *)
(* at most once and only after it was issued; a call that returns a        *)
(* response returns the status varnishd gave to that very command; a call  *)
(* may give up, and its command may still run afterwards.                  *)
(***************************************************************************)
EXTENDS Naturals, Sequences

CONSTANTS Call,     \* the invocations of Exec
          Status,   \* the status codes varnishd can answer a command with
          None      \* no response

VARIABLES phase,    \* phase[c]: where invocation c is
          ran,      \* ran[c]: the statuses varnishd gave to c, one per execution
          got       \* got[c]: the response Exec returned, or None

vars == <<phase, ran, got>>

Init == /\ phase = [c \in Call |-> "idle"]
        /\ ran = [c \in Call |-> <<>>]
        /\ got = [c \in Call |-> None]

Issue(c) == /\ phase[c] = "idle"
            /\ phase' = [phase EXCEPT ![c] = "pending"]
            /\ UNCHANGED <<ran, got>>

Execute(c, st) == /\ phase[c] \in {"pending", "timedout"}
                  /\ ran[c] = <<>>
                  /\ ran' = [ran EXCEPT ![c] = <<st>>]
                  /\ UNCHANGED <<phase, got>>

Return(c) == /\ phase[c] = "pending"
             /\ ran[c] # <<>>
             /\ phase' = [phase EXCEPT ![c] = "ok"]
             /\ got' = [got EXCEPT ![c] = [of |-> c, status |-> ran[c][1]]]
             /\ UNCHANGED ran

GiveUp(c) == /\ phase[c] = "pending"
             /\ phase' = [phase EXCEPT ![c] = "timedout"]
             /\ UNCHANGED <<ran, got>>

Next == \E c \in Call : \/ Issue(c)
                        \/ \E st \in Status : Execute(c, st)
                        \/ Return(c)
                        \/ GiveUp(c)

Spec == Init /\ [][Next]_vars
=============================================================================
