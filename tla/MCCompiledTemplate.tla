------------------------- MODULE MCCompiledTemplate -------------------------
(***************************************************************************)
(* Instances of CompiledTemplate: one Environment, two Templates.          *)
(***************************************************************************)
EXTENDS MCParseCacheBase, CompiledTemplate
=============================================================================
