---------------------------- MODULE MCParseCache ----------------------------
(***************************************************************************)
(* Instances of ParseCacheSound, where each keyword has one registration.  *)
(***************************************************************************)
EXTENDS MCParseCacheBase, ParseCacheSound

MCHome == (t1 :> [owner |-> x1, end |-> end1])
       @@ (t2 :> [owner |-> x2, end |-> NoTag])
       @@ (end1 :> [owner |-> x1, end |-> NoTag])
       @@ (raw :> [owner |-> x2, end |-> NoTag])
=============================================================================
