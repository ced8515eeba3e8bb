------------------------------- MODULE FrontEnd -------------------------------
(***************************************************************************)
(* From a source to a tree: parse_source_to_ast of an Environment, the     *)
(* lexer and then the parser under its options and its registry.           *)
(***************************************************************************)
EXTENDS TemplateParser

CONSTANT Inputs     \* what is parsed: a source, the options and a registry

ASSUME InputsAreSources ==
    \A given \in Inputs : /\ given.source \in Seq(Piece)
                          /\ given.opts \in Options
                          /\ given.registry \in Registry /\ RegistryOK(given.registry)

Init ==
    \E given \in Inputs :
        /\ LexInit(given.source, given.opts)
        /\ ParseInit(given.registry)

Lexing == LexNext /\ UNCHANGED <<registry, parser>>

Next == Lexing \/ ParseNext

vars == <<input, lexer, registry, parser>>

Done == lexing = "failed" \/ outcome # "on"

Spec == Init /\ [][Next]_vars

(* parse_source_to_ast is a function that is run until it returns.         *)
FairSpec == Spec /\ WF_vars(Next)

-----------------------------------------------------------------------------
TypeOK ==
    /\ LexTypeOK
    /\ cursor \in 1 .. Len(tokens) + 1
    /\ Len(ast) = cursor - 1
    /\ outcome \in {"on", "ok", "error", "panic"}
    /\ \A block \in {stack[k] : k \in DOMAIN stack} :
            1 <= block.open /\ block.open <= block.section /\ block.section < cursor

(* The lexer and the parser end on every source: no marker, raw block or   *)
(* tag makes a turn of their loops that does not move on.                  *)
Finishes == <>Done

(* parser/mod.rs: "Returns an error on malformed {% %} blocks".            *)
NoPanic == outcome # "panic"
=============================================================================
