----------------------------- MODULE MCPipeline ----------------------------
(***************************************************************************)
(* Model-checking instances of the pipeline: four registers, 12 bit words, *)
(* six instruction addresses and two data words.                           *)
(***************************************************************************)
EXTENDS ExecuteUnit, ProgramFamilies

=============================================================================
