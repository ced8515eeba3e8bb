------------------------------ MODULE ExprGrammar ------------------------------
(***************************************************************************)
(* What the expression parser should make of its input: the grammar of     *)
(* expressions, without the choices of a parser.  Trees(s, level, names)   *)
(* is the set of all trees that s may be read as where only operators that *)
(* bind at least as tightly as level may stand without parentheses; the    *)
(* words in names may be variables.                                        *)
(***************************************************************************)
EXTENDS ExprParser

Unary15 == {"not", "-", "+"}

Tightness ==
    <<"or">> :> 1 @@ <<"and">> :> 2 @@ <<"in">> :> 3 @@ <<"not", "in">> :> 3
        @@ <<"is">> :> 4 @@ <<"is", "not">> :> 4
        @@ <<"~">> :> 6 @@ <<"+">> :> 7 @@ <<"-">> :> 8 @@ <<"*">> :> 9
        @@ <<"/">> :> 10 @@ <<"//">> :> 11 @@ <<"%">> :> 12 @@ <<"**">> :> 13

Left(s, k) == SubSeq(s, 1, k - 1)
Right(s, k) == SubSeq(s, k + 1, Len(s))
Inner(s) == SubSeq(s, 2, Len(s) - 1)
Places(s, what) == {k \in DOMAIN s : s[k] \in what}
Encloses(s, open, close) == Len(s) >= 2 /\ s[1] = open /\ s[Len(s)] = close

(* s without the places in S, which separate its pieces.                   *)
Pieces(s, S) ==
    LET marks == SetToSortSeq(S \cup {0, Len(s) + 1}, <)
    IN  [k \in 1 .. Len(marks) - 1 |-> SubSeq(s, marks[k] + 1, marks[k + 1] - 1)]

(* One tree for each piece.                                                *)
OneOfEach(pieces, Of(_)) ==
    {f \in [DOMAIN pieces -> UNION {Of(pieces[k]) : k \in DOMAIN pieces}] :
        \A k \in DOMAIN pieces : f[k] \in Of(pieces[k])}

(* T reads a part of the input at a level.                                 *)
Conditionals(s, T(_, _)) ==
    UNION {
        {<<"if", c, v>> : c \in T(Right(s, k), 1), v \in T(Left(s, k), 1)}
        \cup UNION {
            {<<"if", c, v, w>> : c \in T(SubSeq(s, k + 1, l - 1), 1), v \in T(Left(s, k), 1),
                                 w \in T(Right(s, l), 1)}
            : l \in {l \in Places(s, {"else"}) : l > k}}
        : k \in Places(s, {"if"})}

Operations(s, level, T(_, _)) ==
    UNION {
        UNION {{Binary(op, l, r) : l \in T(Left(s, k), Tightness[op]),
                                   r \in T(Right(s, k + Len(op) - 1), Tightness[op] + 1)}
               : k \in {k \in DOMAIN s : IsPrefix(op, SubSeq(s, k, Len(s)))}}
        : op \in {op \in DOMAIN Tightness : Tightness[op] >= level}}

Comparisons(s, T(_, _)) ==
    UNION {
        LET ops == SetToSortSeq(S, <)
        IN  {<<"compare", f[1]>> \o [k \in DOMAIN ops |-> <<<<s[ops[k]]>>, f[k + 1]>>] :
                f \in OneOfEach(Pieces(s, S), LAMBDA piece : T(piece, 6))}
        : S \in SUBSET Places(s, CompareOps) \ {{}}}

(* Positional and named arguments; a comma more does no harm.              *)
ArgumentLists(s, T(_, _)) ==
    UNION {
        LET segments == SelectSeq(Pieces(s, S), LAMBDA seg : seg # << >>)
            IsNamed(seg) == Len(seg) > 2 /\ seg[1] \in Words /\ seg[2] = "="
            Positional(seg) == T(seg, 0)
            Named(seg) == {<<seg[1], v>> : v \in T(SubSeq(seg, 3, Len(seg)), 0)}
        IN  {[positional |-> p, named |-> n] :
                p \in OneOfEach(SelectSeq(segments, LAMBDA seg : ~IsNamed(seg)), Positional),
                n \in OneOfEach(SelectSeq(segments, IsNamed), Named)}
        : S \in SUBSET Places(s, {","})}

Filters(s, T(_, _)) ==
    LET IsName(name) == \A k \in DOMAIN name :
                            IF k % 2 = 1 THEN name[k] \in Words ELSE name[k] = "."
        Applied(k, name, lists) ==
            {<<"filter", v, name, args.positional>> :
                v \in T(Left(s, k), 14), args \in {a \in lists : a.named = << >>}}
        After(k, l) == SubSeq(s, k + 1, l)
        Fits(k, l) == (l - k) % 2 = 1 /\ IsName(After(k, l))
    IN  UNION {
            UNION {IF l = Len(s) THEN Applied(k, After(k, l), {[positional |-> << >>, named |-> << >>]})
                   ELSE IF Encloses(Right(s, l), "(", ")")
                   THEN Applied(k, After(k, l), ArgumentLists(Inner(Right(s, l)), T))
                   ELSE {}
                   : l \in {l \in k + 1 .. Len(s) : Fits(k, l)}}
            : k \in Places(s, {"|"})}

Prefixed(s, T(_, _)) ==
    IF Len(s) = 2 /\ s[1] = "-" /\ s[2] \in Numbers THEN {<<"literal", "-", s[2]>>}
    ELSE IF s[1] \in Unary15 /\ Len(s) > 1 /\ ~(s[1] = "-" /\ s[2] \in Numbers)
    THEN {<<s[1], v>> : v \in T(Tail(s), 15)}
    ELSE {}

Indices(s, T(_, _)) ==
    LET Bound(piece) == IF piece = << >> THEN {<<"absent">>} ELSE T(piece, 0)
        Three(pieces) == IF Len(pieces) = 3 THEN pieces ELSE Append(pieces, << >>)
    IN  T(s, 0) \cup UNION {
            {<<"slice">> \o f : f \in OneOfEach(Three(Pieces(s, S)), Bound)}
            : S \in {S \in SUBSET Places(s, {":"}) : Cardinality(S) \in {1, 2}}}

Entries(piece, T(_, _)) ==
    UNION {{<<key, v>> : key \in T(Left(piece, k), 0), v \in T(Right(piece, k), 0)}
           : k \in Places(piece, {":"})}

Displays(s, open, close, what, Of(_)) ==
    IF ~Encloses(s, open, close) THEN {}
    ELSE IF Len(s) = 2 THEN {<<what>>}
    ELSE UNION {{<<what>> \o f : f \in OneOfEach(Pieces(Inner(s), S), Of)}
                : S \in SUBSET Places(Inner(s), {","})}

Atoms(s, names, T(_, _)) ==
    (IF Len(s) > 1 THEN {}
     ELSE IF s[1] \in Numbers \cup Constants THEN {<<"literal", s[1]>>}
     ELSE IF s[1] \in names THEN {<<"variable", s[1]>>} ELSE {})
    \cup (IF Encloses(s, "(", ")") THEN T(Inner(s), 0) ELSE {})
    \cup Displays(s, "[", "]", "list", LAMBDA piece : T(piece, 0))
    \cup Displays(s, "{", "}", "dict", LAMBDA piece : Entries(piece, T))

Postfixed(s, T(_, _)) ==
    LET n == Len(s)
        Ends(k, open, close) == Encloses(SubSeq(s, k, n), open, close)
    IN  (IF n > 2 /\ s[n - 1] = "." /\ s[n] \in Words
         THEN {<<"attr", v, s[n]>> : v \in T(SubSeq(s, 1, n - 2), 16)} ELSE {})
        \cup UNION {{<<"item", v, at>> : v \in T(Left(s, k), 16),
                                         at \in Indices(SubSeq(s, k + 1, n - 1), T)}
                    : k \in {k \in 2 .. n : Ends(k, "[", "]")}}
        \cup UNION {{<<"call", v, args>> : v \in T(Left(s, k), 16),
                                           args \in ArgumentLists(SubSeq(s, k + 1, n - 1), T)}
                    : k \in {k \in 2 .. n : Ends(k, "(", ")")}}

RECURSIVE Trees(_, _, _)
Trees(s, level, names) ==
    LET T(part, l) == Trees(part, l, names)
    IN  IF s = << >> THEN {}
        ELSE UNION {IF level = 0 THEN Conditionals(s, T) ELSE {},
                    Operations(s, level, T),
                    IF level <= 5 THEN Comparisons(s, T) ELSE {},
                    IF level <= 14 THEN Filters(s, T) ELSE {},
                    IF level <= 15 THEN Prefixed(s, T) ELSE {},
                    Atoms(s, names, T),
                    Postfixed(s, T)}
=============================================================================
