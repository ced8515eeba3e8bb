----------------------------- MODULE FrontEndExpr -----------------------------
(***************************************************************************)
(* What the front end makes of expressions, compared with their grammar.   *)
(***************************************************************************)
EXTENDS FrontEnd, ExprGrammar

(* Whatever the parser accepts between {{ and }} it reads as the grammar   *)
(* of expressions allows: no token is dropped or taken twice, and the      *)
(* operators bind as they should.  And it refuses no expression of the     *)
(* grammar, unless that has a keyword for a variable.                      *)
ExprFollowsGrammar ==
    /\ outcome # "on" =>
          \A j \in DOMAIN ast : tokens[j].tok = "expr" =>
              ast[j].value \in Trees(tokens[j].head, 0, Words)
    /\ outcome = "error" /\ cursor <= Len(tokens) /\ AtNode /\ Token.tok = "expr" =>
          Trees(Token.head, 0, Identifiers) = {}
=============================================================================
