------------------------------- MODULE MCVCL -------------------------------
(***************************************************************************)
(* How VCL gets into varnishd: the include walker that prepares it and the *)
(* runner that loads it.  They share no state (the runner's ProcessVCL     *)
(* sums up the walker as a success or an error), so each behaviour is one  *)
(* of one of them; the other stays where it ended or began.                *)
(***************************************************************************)
EXTENDS MCIncludeWalker, MCRunnerVCL

VARIABLE component  \* "walker" or "runner" (constant)

\* A walk that is over.
WalkOver ==
  /\ prog = CHOOSE p \in MCPrograms : TRUE
  /\ backends = {"a"} /\ mainAbsolute = TRUE /\ status = "ioerror"
  /\ stack = <<>> /\ visited = {} /\ processed = <<>> /\ vclBackends = {}
  /\ at = NoFile /\ written = [f \in File |-> NoFile]

MCInit ==
  \/ component = "walker" /\ WalkInit /\ Init /\ timeController = FALSE /\ loaded = None
  \/ component = "runner" /\ WalkOver /\ Init

WalkerStep == component = "walker" /\ WalkNext /\ UNCHANGED <<component, vars>>
RunnerStep == component = "runner" /\ Next /\ UNCHANGED <<component, walkVars>>

MCSpec ==
  /\ MCInit /\ [][WalkerStep \/ RunnerStep]_<<component, walkVars, vars>>
  /\ WF_<<component, walkVars, vars>>(WalkerStep)
=============================================================================
