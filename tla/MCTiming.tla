------------------------------ MODULE MCTiming -----------------------------
(***************************************************************************)
(* Model-checking instance of PipelineTiming and of its invariant: the     *)
(* machine of MCPipeline.                                                  *)
(***************************************************************************)
EXTENDS TimingInv, ProgramFamilies

=============================================================================
