------------------------------ MODULE MCFrontEnd ------------------------------
(* Sources for FrontEnd: families over small alphabets of pieces, and      *)
(* templates that nest everything, with one piece missing or misplaced.    *)
EXTENDS FrontEndExpr

MCIdentifiers == {"x", "y", "f"}
MCTags == Builtin \cup {"e1", "e2", "e3"}
MCReserved ==
    {"endswitch", "endset", "elseif", "elif", "endcall", "endfilter", "endblock", "endmacro",
     "endif", "endfor", "endeach", "endall", "extends", "include", "import", "from", "macro",
     "call", "filter", "block", "switch", "case", "default", "asyncEach", "asyncAll", "ifAsync",
     "for", "set", "if", "else", "raw", "verbatim", "endraw", "endverbatim"}

Upto(S, n) == UNION {[1 .. k -> S] : k \in 0 .. n}

-----------------------------------------------------------------------------
(* Pieces.                                                                 *)
Char(c) == [kind |-> "char", char |-> c]
Var(head) ==
    [kind |-> "var", closed |-> TRUE, trimOpen |-> FALSE, trimClose |-> FALSE, head |-> head]
Tag(kw, names, head) ==
    [kind |-> "tag", closed |-> TRUE, trimOpen |-> FALSE, trimClose |-> FALSE,
     body |-> [kw |-> kw, names |-> names, head |-> head]]
Plain(kw) == Tag(kw, << >>, << >>)
With(kw) == Tag(kw, << >>, <<"x">>)
Open(piece) == [piece EXCEPT !.trimOpen = TRUE]
Close(piece) == [piece EXCEPT !.trimClose = TRUE]
Unfinished(piece) == [piece EXCEPT !.closed = FALSE]
Comment == [kind |-> "comment", closed |-> TRUE]

NL == Char("nl")
SP == Char("sp")
X == Char("x")
V == Var(<<"x">>)
I == With("include")

Default == [trim |-> FALSE, lstrip |-> FALSE]
Both == [trim |-> TRUE, lstrip |-> TRUE]

Given(sources, options, registries) ==
    [source : sources, opts : options, registry : registries]

-----------------------------------------------------------------------------
(* Whitespace, raw blocks, comments and regions that are not closed.       *)
Spacing == {NL, SP, X, I, Open(I), Close(I), Open(Close(V))}
RawSpaced ==
    {<<open>> \o rest : open \in {Plain("raw"), Close(Plain("verbatim"))},
                        rest \in Upto({NL, X, Plain("raw"), Plain("endraw"),
                                       Open(Close(Plain("endraw"))), Plain("endverbatim")}, 3)}
Strayed == Upto({NL, X, Comment, Unfinished(Comment), Unfinished(Plain("none")),
                 Unfinished(V), Close(I)}, 3)

Lexed ==
    Given(Upto(Spacing, 3), Options, {EmptyRegistry})
    \cup Given([1 .. 4 -> Spacing], {Both}, {EmptyRegistry})
    \cup Given(RawSpaced, {Default, Both}, {EmptyRegistry})
    \cup Given(Strayed, {Both}, {EmptyRegistry})

-----------------------------------------------------------------------------
(* Blocks.                                                                 *)
For == Tag("for", <<"x">>, <<"y">>)
Block(n) == Tag("block", <<n>>, << >>)
EndBlock(n) == Tag("endblock", <<n>>, << >>)
SetIs == Tag("set", <<"x">>, <<"y">>)
SetOf(names) == Tag("set", names, None)
Macro == Tag("macro", <<"f">>, << >>)
Filter == Tag("filter", <<"f">>, << >>)

Blocks ==
    Upto({X, With("if"), With("elif"), Plain("else"), Plain("endif")}, 4)
    \cup Upto({For, Plain("else"), Plain("endfor"), With("if"), Plain("endif")}, 4)
    \cup Upto({X, With("switch"), With("case"), Plain("default"), Plain("endswitch")}, 4)
    \cup Upto({V, Block("x"), Block("y"), Plain("endblock"), EndBlock("x")}, 4)
    \cup Upto({V, Plain("raw"), Plain("endraw"), Plain("verbatim"), Plain("endverbatim")}, 4)
    \cup Upto({Filter, Plain("endfilter"), With("call"), Plain("endcall"), Macro,
               Plain("endmacro"), SetOf(<<"x">>), Plain("endset")}, 3)

Malformed ==
    {<<tag, Plain(end)>> :
        tag \in {Plain("if"), Plain("for"), Tag("for", <<"x">>, << >>), Tag("for", << >>, <<"x">>),
                 Plain("block"), Plain("filter"), Plain("macro"), Plain("call"), Plain("switch"),
                 SetOf(<< >>), SetOf(<<"x", "y">>), Tag("set", <<"x">>, << >>),
                 Tag("import", <<"x">>, << >>), Tag("import", << >>, <<"x">>), Plain("from")},
        end \in {BlockEnd[kw] : kw \in DOMAIN BlockEnd} \cup {"include"}}

Nested == {
    <<With("if"), For, V, Plain("else"), X, Plain("endfor"), With("elif"), X, Plain("else"),
      SetOf(<<"x">>), X, Plain("endset"), Plain("endif")>>,
    <<With("extends"), Block("x"), With("switch"), With("case"), For, V, Plain("endfor"),
      Plain("default"), Block("y"), EndBlock("y"), Plain("endswitch"), Plain("endblock")>>,
    <<Macro, With("if"), V, Plain("else"), Filter, X, Plain("endfilter"), Plain("endif"),
      Plain("endmacro"), With("call"), V, Plain("endcall")>>,
    <<Tag("asyncEach", <<"x", "y">>, <<"f">>), With("ifAsync"), With("include"), With("elseif"),
      X, Plain("endif"), Plain("else"), V, Plain("endeach")>>,
    <<Tag("asyncAll", <<"x">>, <<"f">>), SetIs, Plain("raw"), With("if"), Plain("endraw"),
      Plain("else"), Tag("import", <<"x">>, <<"y">>), Plain("endall"),
      Tag("from", <<"x">>, <<"y">>)>>}

Misprints(text) ==
    {text}
    \cup {RemoveAt(text, k) : k \in DOMAIN text}
    \cup {ReplaceAt(ReplaceAt(text, k, text[k + 1]), k + 1, text[k])
          : k \in 1 .. Len(text) - 1}

Built ==
    Given(Blocks \cup Malformed \cup UNION {Misprints(text) : text \in Nested},
          {Default}, {EmptyRegistry})

-----------------------------------------------------------------------------
(* Extension tags, under the registries one or two registrations make.     *)
Specs == {<<[tag |-> t, end |-> e]>> : t \in {"e1", "e2"}, e \in {"e1", "e2", "e3", NoTag}}
Once == {Register(EmptyRegistry, "a", specs) : specs \in Specs}
Twice == UNION {{Register(reg, "b", specs) : specs \in {specs \in Specs : Accepts(reg, "b", specs)}}
                : reg \in Once}

Extended ==
    Given(Upto({X, Plain("e1"), Plain("e2"), Plain("e3")}, 3), {Default},
          {EmptyRegistry} \cup Once \cup Twice)
    \cup Given({<<With("if"), Plain("e1"), X, Plain("e2"), Plain("endif")>>,
                <<Plain("e1"), With("if"), Plain("e2"), Plain("endif"), Plain("e3")>>,
                <<Plain("e1"), Plain("e1"), X, Plain("e3"), Plain("e3")>>},
               {Default}, Twice)

-----------------------------------------------------------------------------
(* Expressions.                                                            *)
Operators == DOMAIN Tightness \cup {<<op>> : op \in CompareOps}
Signs == {<< >>, <<"not">>, <<"-">>}
Endings == {<< >>, <<"|", "f">>, <<"if", "f">>}

Expressions ==
    Upto({"x", "not", "and", "in", "is", "=="}, 4)
    \cup Upto({"x", "1", "-", "*", "(", ")"}, 4)
    \cup Upto({"x", "if", "else", "or", "|", "~"}, 4)
    \cup {<<"x">> \o a \o <<"y">> \o b \o <<"f">> : a, b \in Operators}
    \cup {pre \o <<"x">> \o a \o mid \o <<"y">> \o suf :
            a \in Operators, pre, mid \in Signs, suf \in Endings}
    \cup {<<"x">> \o rest : rest \in Upto({"y", ".", "[", "]", ":"}, 4)}
    \cup {<<"x", "(">> \o rest : rest \in Upto({"y", ",", "=", ")", "("}, 4)}
    \cup {<<open>> \o rest : open \in {"[", "{"}, rest \in Upto({"x", ",", ":", "]", "}"}, 4)}
    \cup {<<"x", "|", "f">> \o rest : rest \in Upto({"|", ".", "f", "(", "s", ")"}, 4)}

Read == Given({<<Var(head)>> : head \in Expressions}, {Default}, {EmptyRegistry})

MCInputs == Lexed \cup Built \cup Extended \cup Read
=============================================================================
