----------------------------- MODULE MCMachine -----------------------------
(* A graph for Machine with a branch, a way back, a self-loop and a node    *)
(* without a way out of the loop, so that most pairs of nodes have no edge. *)
EXTENDS Machine, TLC

CONSTANTS a, b, c, e1, e2

MCNodes == {a, b, c}
MCEvents == {e1, e2}

MCEdges ==
    [x \in MCNodes \X MCEvents |->
        CASE x = <<a, e1>> -> b
          [] x = <<a, e2>> -> c
          [] x = <<b, e1>> -> a
          [] x = <<c, e2>> -> c
          [] OTHER -> NoNode]
=============================================================================
