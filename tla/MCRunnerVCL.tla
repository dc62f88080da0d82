---------------------------- MODULE MCRunnerVCL ----------------------------
(***************************************************************************)
(* Three tests, two of which get the same VCL name.                        *)
(***************************************************************************)
EXTENDS RunnerVCL, TLC

Test(name, scenario, backends, steps) ==
  [name |-> name, scenario |-> scenario, backends |-> backends, steps |-> steps]

MCTests == {Test("a b", FALSE, {"x"}, 1), Test("a-b", TRUE, {"x", "y"}, 2),
            Test("c", FALSE, {}, 1)}
MCSanitize == ("a b" :> "test-a-b") @@ ("a-b" :> "test-a-b") @@ ("c" :> "test-c")
=============================================================================
