------------------------------ MODULE MCKernel ------------------------------
(***************************************************************************)
(* Instances of Kernel for TLC.                                            *)
(***************************************************************************)
EXTENDS Kernel

\* Two tasks of the same priority above a third, and the idle task.
MCCreated  == <<"low", "high", "other", "idle">>
MCPriority == [t \in {"low", "high", "other", "idle"} |->
                 CASE t \in {"high", "other"} -> 2 [] t = "low" -> 1 [] OTHER -> 0]

=============================================================================
