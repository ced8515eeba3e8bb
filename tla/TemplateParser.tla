---------------------------- MODULE TemplateParser ----------------------------
(***************************************************************************)
(* The template parser (parser/template.rs): text, expression and tag      *)
(* tokens become a tree of nodes.                                          *)
(*                                                                         *)
(* The code descends recursively; here stack has the functions that wait   *)
(* for an end tag.  The body of a tag is its keyword, the names it gives   *)
(* and its expression: None for a set without "=", nothing for a tag that  *)
(* has none.  Of the tree, ast keeps for each token the tag that begins    *)
(* the list of nodes it is in (0 for the root) and the expression read.    *)
(***************************************************************************)
EXTENDS Lexer, ExprParser, Extensions

VARIABLES
    registry,   \* extension_tags and extension_closing_tag_names
    cursor,     \* i: the next token
    stack,      \* the blocks that are open, innermost last
    ast,
    outcome     \* "on", "ok", "error" or "panic"

parser == <<cursor, stack, ast, outcome>>

ParseInit(view) ==
    /\ registry = view
    /\ cursor = 1
    /\ stack = << >>
    /\ ast = << >>
    /\ outcome = "on"

-----------------------------------------------------------------------------
BlockEnd == [if |-> "endif", ifAsync |-> "endif",
             for |-> "endfor", asyncEach |-> "endeach", asyncAll |-> "endall",
             switch |-> "endswitch", set |-> "endset", block |-> "endblock",
             filter |-> "endfilter", call |-> "endcall", macro |-> "endmacro",
             raw |-> "endraw", verbatim |-> "endverbatim"]

Conditions == {"if", "ifAsync"}
Loops == {"for", "asyncEach", "asyncAll"}
Sections == {"elif", "elseif", "else", "case", "default"}
Simple == {"include", "import", "from", "extends"}

(* The keywords parse_node knows.                                          *)
Builtin == DOMAIN BlockEnd \cup {BlockEnd[kw] : kw \in DOMAIN BlockEnd} \cup Sections \cup Simple

(* is_reserved_tag_keyword has the same words in a table of its own.       *)
ASSUME ReservedIsBuiltin == Reserved = Builtin

Top == Last(stack)

(* Mutant of Section: the block a token is in, whatever its part.          *)
OpeningTag == IF stack = << >> THEN 0 ELSE Top.open

Section == IF stack = << >> THEN 0 ELSE Top.section
In(blocks) == stack # << >> /\ Top.kw \in blocks

EndTag(kw) == IF kw \in DOMAIN BlockEnd THEN BlockEnd[kw] ELSE registry.tags[kw].end

(* Mutant of MayFollow: a for may have more than one else.                 *)
MayFollowTwice(block) ==
    LET now == tokens[block.section].body.kw
    IN  CASE block.kw \in Conditions /\ now # "else" -> {"elif", "elseif", "else"}
          [] block.kw \in Loops                      -> {"else"}
          [] block.kw = "switch" /\ now # "default"  -> {"case", "default"}
          [] OTHER                                   -> {}

(* The stop words of parse_until_tags but for the end tag.                 *)
MayFollow(block) ==
    LET now == tokens[block.section].body.kw
    IN  CASE block.kw \in Conditions /\ now # "else" -> {"elif", "elseif", "else"}
          [] block.kw \in Loops /\ now # "else"      -> {"else"}
          [] block.kw = "switch" /\ now # "default"  -> {"case", "default"}
          [] OTHER                                   -> {}

(* Mutant of Extension: a closing name may open a tag.                     *)
AnyExtension(kw) == kw \in Tags \ Reserved /\ registry.tags[kw] # NoMeta

Extension(kw) == kw \in Tags \ Reserved /\ OpensExtension(registry, kw)

(* The expression of a token, and whether it must have one.                *)
HeadOf(token) ==
    CASE token.tok = "expr"                           -> token.head
      [] token.tok = "tag" /\ token.body.head # None -> token.body.head
      [] OTHER                                       -> << >>

Expression(token) == ParseExpr[HeadOf(token)]

NeedsExpression(token) ==
    \/ token.tok = "expr"
    \/ /\ token.tok = "tag"
       /\ \/ token.body.kw \in Conditions \cup Loops \cup Simple
                                \cup {"elif", "elseif", "case", "switch", "call"}
          \/ token.body.kw = "set" /\ token.body.head # None

(* parse_for_header, parse_block_name, parse_macro_header and the like.    *)
NamesOK(body) ==
    /\ body.kw \in {"block", "filter", "import", "macro"} => Len(body.names) = 1
    /\ body.kw \in Loops \cup {"from", "set"} => body.names # << >>
    /\ body.kw = "set" /\ body.head = None => Len(body.names) = 1

HeaderOK(token) ==
    /\ token.tok = "tag" => NamesOK(token.body)
    /\ NeedsExpression(token) => Expression(token).ok

(* The tokens that are nodes of their own, and those that begin a block.   *)
IsLeaf(token) ==
    token.tok = "tag" =>
        \/ token.body.kw \in Simple
        \/ token.body.kw = "set" /\ token.body.head # None
        \/ Extension(token.body.kw) /\ EndTag(token.body.kw) = NoTag

IsOpening(token) ==
    /\ token.tok = "tag"
    /\ \/ token.body.kw \in DOMAIN BlockEnd \ {"set"}
       \/ token.body.kw = "set" /\ token.body.head = None
       \/ Extension(token.body.kw) /\ EndTag(token.body.kw) # NoTag

-----------------------------------------------------------------------------
Parsing == lexing = "done" /\ outcome = "on"
More == Parsing /\ cursor <= Len(tokens)
Token == tokens[cursor]
Keyword == IF Token.tok = "tag" THEN Token.body.kw ELSE "none"

AtSection == stack # << >> /\ Keyword \in MayFollow(Top)
AtEnd == stack # << >> /\ Token.tok = "tag" /\ Keyword = EndTag(Top.kw)

(* Where parse_node is called: not between a switch and its first case,    *)
(* and not in a raw block.                                                 *)
AtNode ==
    /\ ~AtSection /\ ~AtEnd
    /\ ~In({"raw", "verbatim"})
    /\ In({"switch"}) => Top.section # Top.open

AtRawText == In({"raw", "verbatim"}) /\ Token.tok = "text" /\ cursor = Top.open + 1

(* parse_block_stmt: an end tag may repeat the name.                       *)
NameRepeated ==
    Keyword = "endblock" /\ Token.body.names # << >> =>
        Token.body.names = tokens[Top.open].body.names

Taken ==
    /\ cursor' = cursor + 1
    /\ ast' = Append(ast, [in |-> Section, value |-> Expression(Token).value])
    /\ UNCHANGED <<registry, outcome, input, lexer>>

ParseLeaf ==
    /\ More
    /\ \/ AtNode /\ IsLeaf(Token) /\ HeaderOK(Token)
       \/ AtRawText
    /\ Taken
    /\ UNCHANGED stack

(* Mutant of OpenBlock: its body begins one token later.                   *)
OpenBlockLate ==
    /\ More
    /\ AtNode
    /\ IsOpening(Token)
    /\ HeaderOK(Token)
    /\ Taken
    /\ stack' = Append(stack, [kw |-> Keyword, open |-> cursor, section |-> cursor + 1])

OpenBlock ==
    /\ More
    /\ AtNode
    /\ IsOpening(Token)
    /\ HeaderOK(Token)
    /\ Taken
    /\ stack' = Append(stack, [kw |-> Keyword, open |-> cursor, section |-> cursor])

NextSection ==
    /\ More
    /\ AtSection
    /\ HeaderOK(Token)
    /\ Taken
    /\ stack' = Append(Front(stack), [Top EXCEPT !.section = cursor])

CloseBlock ==
    /\ More
    /\ AtEnd
    /\ NameRepeated
    /\ Taken
    /\ stack' = Front(stack)

(* Every ? of the parser: the error is returned at once.                   *)
Reject ==
    /\ More
    /\ \/ AtNode /\ ~IsLeaf(Token) /\ ~IsOpening(Token)
       \/ (AtNode \/ AtSection) /\ ~HeaderOK(Token)
       \/ AtEnd /\ ~NameRepeated
       \/ ~AtNode /\ ~AtSection /\ ~AtEnd /\ ~AtRawText
    /\ outcome' = "error"
    /\ UNCHANGED <<registry, cursor, stack, ast, input, lexer>>

(* The end of the tokens: parse_block_stmt indexes past them.              *)
Finish ==
    /\ Parsing
    /\ cursor > Len(tokens)
    /\ outcome' = CASE stack = << >>    -> "ok"
                    [] In({"block"})    -> "panic"
                    [] OTHER            -> "error"
    /\ UNCHANGED <<registry, cursor, stack, ast, input, lexer>>

ParseNext == ParseLeaf \/ OpenBlock \/ NextSection \/ CloseBlock \/ Reject \/ Finish

-----------------------------------------------------------------------------
(* The grammar of templates, said of the tokens and not of a stack.        *)
Word(j) == IF tokens[j].tok = "tag" THEN tokens[j].body.kw ELSE "none"

(* A block: its first and its last tag, and those between its parts.       *)
IsBlock(first, parts, last) ==
    LET Only(S) == \A k \in parts : Word(k) \in S
        Ending(kw) == \A k \in parts : Word(k) = kw => \A l \in parts : l <= k
        Ends(words) == <<Word(first), Word(last)>> \in words
    IN  /\ \A k \in parts \cup {first, last} : HeaderOK(tokens[k])
        /\ CASE Word(first) \in {"if", "ifAsync"} ->
                    /\ Word(last) = "endif"
                    /\ Only({"elif", "elseif", "else"}) /\ Ending("else")
             [] Word(first) = "switch" ->
                    /\ Word(last) = "endswitch" /\ first + 1 \in parts \cup {last}
                    /\ Only({"case", "default"}) /\ Ending("default")
             [] Word(first) \in {"for", "asyncEach", "asyncAll"} ->
                    /\ Ends({<<"for", "endfor">>, <<"asyncEach", "endeach">>,
                             <<"asyncAll", "endall">>})
                    /\ Only({"else"}) /\ \A k, l \in parts : k = l
             [] Word(first) = "block" ->
                    /\ parts = {} /\ Word(last) = "endblock"
                    /\ tokens[last].body.names \in {<< >>, tokens[first].body.names}
             [] Word(first) \in {"set", "filter", "call", "macro", "raw", "verbatim"} ->
                    /\ parts = {}
                    /\ Ends({<<"set", "endset">>, <<"filter", "endfilter">>,
                             <<"call", "endcall">>, <<"macro", "endmacro">>,
                             <<"raw", "endraw">>, <<"verbatim", "endverbatim">>})
                    /\ Word(first) = "set" => tokens[first].body.head = None
             [] OTHER -> /\ parts = {} /\ Word(first) \in Tags \ registry.closing
                         /\ registry.tags[Word(first)] # NoMeta
                         /\ registry.tags[Word(first)].end \in {Word(last)} \ {NoTag}

(* The places i and j are next to each other in S.                         *)
Adjacent(S, i, j) == i \in S /\ j \in S /\ i < j /\ S \cap i + 1 .. j - 1 = {}

(* The tokens from a up to b are one node, if nodes tells of fewer tokens  *)
(* whether they are a list of nodes.                                       *)
IsNode(nodes, a, b) ==
    \/ b = a + 1 /\ IsLeaf(tokens[a]) /\ HeaderOK(tokens[a])
    \/ /\ b > a + 1 /\ tokens[a].tok = "tag" /\ tokens[b - 1].tok = "tag"
       /\ \E parts \in SUBSET {c \in a + 1 .. b - 2 : Word(c) \in Sections} :
             /\ IsBlock(a, parts, b - 1)
             /\ \A i, j \in parts \cup {a, b - 1} :
                   Adjacent(parts \cup {a, b - 1}, i, j) => nodes[<<i + 1, j>>]

(* Nodes[<<a, b>>]: the tokens from a up to b are a list of nodes.         *)
Nodes[s \in Nat \X Nat] ==
    \/ s[1] = s[2]
    \/ \E c \in s[1] + 1 .. s[2] : IsNode(Nodes, s[1], c) /\ Nodes[<<c, s[2]>>]

(* The parser accepts exactly the templates of the grammar, however tags   *)
(* of all kinds are nested, misplaced or left out.                         *)
AcceptsGrammar == outcome # "on" => (outcome = "ok" <=> Nodes[<<1, Len(tokens) + 1>>])

(* Each token is in the list of nodes it belongs to: between the tag that  *)
(* begins that list and the token there are complete nodes only.           *)
TreeNests ==
    outcome # "on" =>
        \A j \in DOMAIN ast : ast[j].in < j /\ Nodes[<<ast[j].in + 1, j>>]

(* The lexer and the parser agree where a raw block is: what the lexer     *)
(* takes for the text of one, the parser never refuses.                    *)
RawNeverFails == outcome # "on" => ~In({"raw", "verbatim"})

(* A tag that is said to be alone, or around a text.                       *)
ShapeOfTokens ==
    LET Tag(j) == tokens[j].body.kw
    IN  CASE Len(tokens) = 1 /\ tokens[1].tok = "tag" -> [open |-> Tag(1), close |-> NoTag]
          [] /\ Len(tokens) = 3
             /\ tokens[1].tok = "tag" /\ tokens[2].tok = "text" /\ tokens[3].tok = "tag" ->
                [open |-> Tag(1), close |-> Tag(3)]
          [] OTHER -> [open |-> NoTag, close |-> NoTag]

(* What the parse caches take the parser to make of extension tags is what *)
(* it makes of them, under every registry.                                 *)
AgreesWithShapes ==
    LET shape == ShapeOfTokens
        others == Tags \ Reserved
    IN  /\ outcome # "on" /\ shape.open \in others
        /\ shape.close \in IF Len(tokens) = 1 THEN {NoTag} ELSE others
        => (outcome = "ok" <=> Parses(registry, shape))
=============================================================================
