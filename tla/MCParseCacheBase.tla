-------------------------- MODULE MCParseCacheBase --------------------------
(***************************************************************************)
(* Values for the constants of ParseCache.  Bounds: at most two clones,    *)
(* two renders, two sources, one named template and two loader addresses.  *)
(***************************************************************************)
EXTENDS ParseCache, TLC

CONSTANTS x1, x2, t1, t2, end1, raw, s1, s2, s3, s4, h1, n1, n2, k1

MCTags == {t1, t2, end1, raw}
MCReserved == {raw}

(* s1 and s4 are plain text, s2 a block tag t1 ... end1, s3 a lone t2.     *)
Shapes == (s1 :> [open |-> NoTag, close |-> NoTag])
       @@ (s2 :> [open |-> t1, close |-> end1])
       @@ (s3 :> [open |-> t2, close |-> NoTag])
       @@ (s4 :> [open |-> NoTag, close |-> NoTag])

MCShapeOf == [s \in Sources |-> Shapes[s]]

(* Every source of a run has the same hash: the worst collision there is.  *)
MCHashOf == [s \in Sources |-> h1]

(* Both names resolve to one file.                                         *)
MCCanonical == [n \in Names |-> k1]

Spec1 == [tag |-> t1, end |-> end1]
Spec2 == [tag |-> t2, end |-> NoTag]
SpecRaw == [tag |-> raw, end |-> NoTag]

(* Besides what is accepted: an empty and a repeating specification, and a *)
(* reserved keyword, which Accepts refuses.                                *)
MCRegistrations ==
    {[ext |-> x1, specs |-> <<Spec1>>],
     [ext |-> x1, specs |-> << >>],
     [ext |-> x1, specs |-> <<Spec1, Spec1>>],
     [ext |-> x2, specs |-> <<SpecRaw>>],
     [ext |-> x2, specs |-> <<Spec2>>]}

(* x1 and x2 may each register t1, x1 also without an end tag, and x2 a    *)
(* tag that is x1's end tag.                                               *)
MCReassigned ==
    {[ext |-> x1, specs |-> <<Spec1>>],
     [ext |-> x2, specs |-> <<Spec1>>],
     [ext |-> x1, specs |-> <<[tag |-> t1, end |-> NoTag]>>],
     [ext |-> x1, specs |-> <<Spec1, Spec2>>],
     [ext |-> x2, specs |-> <<Spec2, [tag |-> end1, end |-> NoTag]>>]}

(* Clones and renders are interchangeable.                                 *)
Symmetry == Permutations(Envs) \cup Permutations(Procs)

(* The extension x1 with its block tag t1, as the source s2 needs it.      *)
MCOne == {[ext |-> x1, specs |-> <<Spec1>>]}

NoRegistrations == {}
=============================================================================
