------------------------------ MODULE ExprParser ------------------------------
(***************************************************************************)
(* The expression parser (parser/expr.rs) and the comma splitting it uses  *)
(* (parser/split.rs): from the tokens between {{ and }} to a tree.         *)
(*                                                                         *)
(* A token is a string; spaces, the spelling of literals and of names are  *)
(* left out, and a minus is taken to stand right before a number that      *)
(* follows it.  The keywords are names too: the code has no reserved words *)
(* and takes an operator only where it looks for one.  A tree is a tuple   *)
(* of an operator and its operands.  As in the code, a parser maps what is *)
(* left of the input to a value and what is left then.                     *)
(***************************************************************************)
EXTENDS Integers, SequencesExt

CONSTANTS
    Identifiers,    \* names that are no keywords
    Numbers,
    Constants       \* strings, true, none, regular expressions

Keywords == {"or", "and", "not", "in", "is", "if", "else"}
Words == Identifiers \cup Keywords
CompareOps == {"===", "!==", "==", "!=", "<=", ">=", "<", ">"}
Symbols == {"~", "+", "-", "*", "/", "//", "%", "**", "(", ")", "[", "]",
            "{", "}", ",", ":", ".", "|", "="}

ASSUME TokenConstants ==
    /\ (Identifiers \cup Numbers \cup Constants) \cap (Keywords \cup CompareOps \cup Symbols) = {}
    /\ Identifiers \cap (Numbers \cup Constants) = {}

ExprTokens == Words \cup Numbers \cup Constants \cup CompareOps \cup Symbols

Ok(value, rest) == [ok |-> TRUE, value |-> value, rest |-> rest]
Fail == [ok |-> FALSE, value |-> << >>, rest |-> << >>]

(* The parser that goes on with the value and the rest of another, or      *)
(* fails with it.  (Bound in a set, the result is computed once.)          *)
Then(result, Continue(_, _)) ==
    CHOOSE next \in {IF r.ok THEN Continue(r.value, r.rest) ELSE Fail : r \in {result}} : TRUE

Drop(s, n) == SubSeq(s, n + 1, Len(s))
Begins(s, token) == s # << >> /\ Head(s) = token

-----------------------------------------------------------------------------
(* Binary operators, from parse_or to parse_pow: each level reads operands *)
(* of the next.  Level 0 is parse_inline_if, 14 parse_unary, 15            *)
(* parse_unary_no_filters, 16 parse_atom_with_postfix.                     *)

OperatorsOf(level) ==
    CASE level = 1  -> {<<"or">>}
      [] level = 2  -> {<<"and">>}
      [] level = 3  -> {<<"in">>, <<"not", "in">>}
      [] level = 4  -> {<<"is">>, <<"is", "not">>}
      [] level = 5  -> {<<op>> : op \in CompareOps}
      [] OTHER      -> {<< <<"~">>, <<"+">>, <<"-">>, <<"*">>, <<"/">>, <<"//">>, <<"%">>,
                           <<"**">> >>[level - 5]}

(* The longest operator of a level the input begins with.                  *)
OperatorAt(level, s) ==
    LET found == {op \in OperatorsOf(level) : IsPrefix(op, s)}
    IN  IF found = {} THEN << >>
        ELSE CHOOSE op \in found : \A other \in found : Len(other) <= Len(op)

Binary(op, left, right) ==
    CASE op = <<"not", "in">> -> <<"not", <<"in", left, right>>>>
      [] op = <<"is", "not">> -> <<"not", <<"is", left, right>>>>
      [] OTHER                -> <<op[1], left, right>>

(* The operators of one level associate to the left; comparisons make one  *)
(* chain.                                                                  *)
Combine(level, head, pairs) ==
    IF pairs = << >> THEN head
    ELSE IF level = 5 THEN <<"compare", head>> \o pairs
    ELSE FoldLeft(LAMBDA acc, pair : Binary(pair[1], acc, pair[2]), head, pairs)

-----------------------------------------------------------------------------
(* Brackets.                                                               *)

(* The first place where a token stands outside of all brackets, 0 if      *)
(* there is none.                                                          *)
FirstOutside(s, token, opening, closing) ==
    LET depth[i \in 0 .. Len(s)] ==
            IF i = 0 THEN 0
            ELSE depth[i - 1] + CASE s[i] \in opening -> 1
                                  [] s[i] \in closing -> -1
                                  [] OTHER            -> 0
        places == {i \in 1 .. Len(s) : s[i] = token /\ depth[i - 1] = 0}
    IN  IF places = {} THEN 0 ELSE Min(places)

(* split_top_level_commas, split_top_level_colon                           *)
SplitAt(s, token, opening, closing) ==
    LET split[rest \in Seq(ExprTokens)] ==
            LET at == FirstOutside(rest, token, opening, closing)
            IN  IF at = 0 THEN <<rest>>
                ELSE <<SubSeq(rest, 1, at - 1)>> \o split[Drop(rest, at)]
    IN  split[s]

Commas(s) == SplitAt(s, ",", {"(", "[", "{"}, {")", "]", "}"})

(* split_top_level_colon does not look at braces.                          *)
Colons(s) == SplitAt(s, ":", {"(", "["}, {")", "]"})

(* split_call_kw_seg: name = value                                         *)
IsKeywordArg(segment) == Len(segment) >= 2 /\ segment[1] \in Words /\ segment[2] = "="

-----------------------------------------------------------------------------
(* The parsers.  Each is given parse, the parser of all of them together:  *)
(* parse["expr", level, s] reads an expression, parse["more", level, s]    *)
(* what may follow one of that level, any number of times, parse["list",   *)
(* 0, s] and parse["dict", 0, s] the elements of a literal.                *)

(* parse_inline_if                                                         *)
InlineIf(parse, s) ==
    Then(parse["expr", 1, s], LAMBDA first, r :
        IF ~Begins(r, "if") THEN Ok(first, r)
        ELSE Then(parse["expr", 1, Tail(r)], LAMBDA cond, r1 :
            IF ~Begins(r1, "else") THEN Ok(<<"if", cond, first>>, r1)
            ELSE Then(parse["expr", 1, Tail(r1)], LAMBDA other, r2 :
                    Ok(<<"if", cond, first, other>>, r2))))

(* all_consuming(parse_inline_if)                                          *)
Whole(parse, s) ==
    LET result == parse["expr", 0, s]
    IN  IF result.ok /\ result.rest = << >> THEN result ELSE Fail

(* parse_or, parse_and, ... parse_pow: an operand, and what follows it.    *)
Operands(parse, level, s) ==
    Then(parse["expr", level + 1, s], LAMBDA head, r :
        Then(parse["more", level, r], LAMBDA pairs, r1 : Ok(Combine(level, head, pairs), r1)))

MoreOperands(parse, level, s) ==
    LET op == OperatorAt(level, s)
    IN  IF op = << >> THEN Ok(<< >>, s)
        ELSE Then(parse["expr", level + 1, Drop(s, Len(op))], LAMBDA right, r :
                Then(parse["more", level, r], LAMBDA pairs, r1 :
                    Ok(<<<<op, right>>>> \o pairs, r1)))

(* parse_call_argument_list: segments that are empty do not count.         *)
Arguments(parse, s) ==
    LET close == FirstOutside(s, ")", {"("}, {")"})
        segments == SelectSeq(Commas(SubSeq(s, 1, close - 1)), LAMBDA seg : seg # << >>)
        Value(seg) == Whole(parse, IF IsKeywordArg(seg) THEN Drop(seg, 2) ELSE seg)
        positional == SelectSeq(segments, LAMBDA seg : ~IsKeywordArg(seg))
        named == SelectSeq(segments, IsKeywordArg)
    IN  IF close = 0 \/ \E seg \in ToSet(segments) : ~Value(seg).ok THEN Fail
        ELSE Ok([positional |-> [k \in DOMAIN positional |-> Value(positional[k]).value],
                 named |-> [k \in DOMAIN named |-> <<named[k][1], Value(named[k]).value>>]],
                Drop(s, close))

(* parse_unary: the filters apply to all of the operand.                   *)
Unary(parse, s) ==
    Then(parse["expr", 15, s], LAMBDA operand, r :
        Then(parse["more", 14, r], LAMBDA filters, r1 :
            Ok(FoldLeft(LAMBDA acc, f : <<"filter", acc, f[1], f[2]>>, operand, filters), r1)))

(* parse_filter_chain: a name may have dots, an argument no keyword.       *)
MoreFilters(parse, s) ==
    LET nameEnd[n \in Nat] ==
            IF n + 2 <= Len(s) /\ s[n + 1] = "." /\ s[n + 2] \in Words THEN nameEnd[n + 2] ELSE n
        rest == Drop(s, nameEnd[2])
        arguments == IF Begins(rest, "(") THEN Arguments(parse, Tail(rest))
                     ELSE Ok([positional |-> << >>, named |-> << >>], rest)
    IN  IF ~Begins(s, "|") THEN Ok(<< >>, s)
        ELSE IF Len(s) < 2 \/ s[2] \notin Words \/ Begins(rest, ".") THEN Fail
        ELSE Then(arguments, LAMBDA args, r :
                IF args.named # << >> THEN Fail
                ELSE Then(parse["more", 14, r], LAMBDA filters, r1 :
                        Ok(<<<<SubSeq(s, 2, nameEnd[2]), args.positional>>>> \o filters, r1)))

(* Mutant of UnaryNoFilters: a minus takes the filters of its operand.     *)
UnaryWithFilters(parse, s) ==
    IF Begins(s, "-") /\ Len(s) > 1 /\ s[2] \in Numbers
    THEN Ok(<<"literal", "-", s[2]>>, Drop(s, 2))
    ELSE IF \E op \in {"not", "-", "+"} : Begins(s, op)
    THEN Then(parse["expr", 14, Tail(s)], LAMBDA operand, r : Ok(<<Head(s), operand>>, r))
    ELSE parse["expr", 16, s]

(* parse_unary_no_filters: a number takes its sign with it.                *)
UnaryNoFilters(parse, s) ==
    IF Begins(s, "-") /\ Len(s) > 1 /\ s[2] \in Numbers
    THEN Ok(<<"literal", "-", s[2]>>, Drop(s, 2))
    ELSE IF \E op \in {"not", "-", "+"} : Begins(s, op)
    THEN Then(parse["expr", 15, Tail(s)], LAMBDA operand, r : Ok(<<Head(s), operand>>, r))
    ELSE parse["expr", 16, s]

(* parse_list_literal, parse_dict_literal: no comma before the bracket.    *)
Element(parse, what, s) ==
    IF what = "list" THEN parse["expr", 0, s]
    ELSE Then(parse["expr", 0, s], LAMBDA key, r :
            IF ~Begins(r, ":") THEN Fail
            ELSE Then(parse["expr", 0, Tail(r)], LAMBDA value, r1 : Ok(<<key, value>>, r1)))

Elements(parse, what, s) ==
    Then(Element(parse, what, s), LAMBDA v, r :
        CASE Begins(r, IF what = "list" THEN "]" ELSE "}") -> Ok(<<v>>, Tail(r))
          [] Begins(r, ",") -> Then(parse[what, 0, Tail(r)],
                                    LAMBDA vs, r1 : Ok(<<v>> \o vs, r1))
          [] OTHER          -> Fail)

(* parse_atom                                                              *)
Atom(parse, s) ==
    IF s = << >> THEN Fail
    ELSE LET first == Head(s)
             Literal(what, close) ==
                IF Begins(Tail(s), close) THEN Ok(<<what>>, Drop(s, 2))
                ELSE Then(parse[what, 0, Tail(s)], LAMBDA v, r : Ok(<<what>> \o v, r))
         IN  CASE first = "(" -> Then(parse["expr", 0, Tail(s)], LAMBDA v, r :
                                    IF Begins(r, ")") THEN Ok(v, Tail(r)) ELSE Fail)
               [] first = "[" -> Literal("list", "]")
               [] first = "{" -> Literal("dict", "}")
               [] first \in Numbers \cup Constants -> Ok(<<"literal", first>>, Tail(s))
               [] first \in Words -> Ok(<<"variable", first>>, Tail(s))
               [] OTHER -> Fail

(* parse_subscript                                                         *)
Subscript(parse, s) ==
    LET close == FirstOutside(s, "]", {"["}, {"]"})
        bounds == Colons(SubSeq(s, 1, close - 1))
        Bound(k) == IF k > Len(bounds) \/ bounds[k] = << >> THEN Ok(<<"absent">>, << >>)
                    ELSE Whole(parse, bounds[k])
    IN  CASE close = 0 \/ Len(bounds) > 3 -> Fail
          [] Len(bounds) = 1 ->
                Then(Whole(parse, bounds[1]), LAMBDA v, r : Ok(v, Drop(s, close)))
          [] OTHER ->
                IF \E k \in 1 .. 3 : ~Bound(k).ok THEN Fail
                ELSE Ok(<<"slice">> \o [k \in 1 .. 3 |-> Bound(k).value], Drop(s, close))

(* parse_atom_with_postfix                                                 *)
WithPostfix(parse, s) ==
    Then(Atom(parse, s), LAMBDA base, r :
        Then(parse["more", 16, r], LAMBDA parts, r1 :
            Ok(FoldLeft(LAMBDA acc, part : <<part[1], acc, part[2]>>, base, parts), r1)))

(* parse_postfix                                                           *)
MorePostfix(parse, s) ==
    LET After(kind, result) ==
            Then(result, LAMBDA v, r :
                Then(parse["more", 16, r], LAMBDA parts, r1 : Ok(<<<<kind, v>>>> \o parts, r1)))
    IN  CASE Begins(s, ".") -> IF Len(s) > 1 /\ s[2] \in Words
                               THEN After("attr", Ok(s[2], Drop(s, 2))) ELSE Fail
          [] Begins(s, "[") -> After("item", Subscript(parse, Tail(s)))
          [] Begins(s, "(") -> After("call", Arguments(parse, Tail(s)))
          [] OTHER          -> Ok(<< >>, s)

Parser ==
    LET parse[what \in {"expr", "more", "list", "dict"}, level \in 0 .. 16,
              s \in Seq(ExprTokens)] ==
        CASE what \in {"list", "dict"}           -> Elements(parse, what, s)
          [] what = "expr" /\ level = 0          -> InlineIf(parse, s)
          [] what = "expr" /\ level \in 1 .. 13  -> Operands(parse, level, s)
          [] what = "expr" /\ level = 14         -> Unary(parse, s)
          [] what = "expr" /\ level = 15         -> UnaryNoFilters(parse, s)
          [] what = "expr" /\ level = 16         -> WithPostfix(parse, s)
          [] what = "more" /\ level \in 1 .. 13  -> MoreOperands(parse, level, s)
          [] what = "more" /\ level = 14         -> MoreFilters(parse, s)
          [] what = "more" /\ level = 16         -> MorePostfix(parse, s)
    IN  parse

(* parse_expression: all of a tag's or variable's expression, or an error. *)
ParseExpr == [s \in Seq(ExprTokens) |-> Whole(Parser, s)]
=============================================================================
