------------------------------- MODULE MCCalls -------------------------------
(* Small tables, renders and computations for Calls.                       *)
EXTENDS Calls, TLC

MCCallables == {"cycler", "joiner", "v"}
MCFilterNames == {"upper", "length", "reverse", "shout"}

(* Nothing tells the functions of the host apart.                          *)
MCSymmetry == Permutations(Functions)

Nothing == [n \in MCCallables |-> None]

(* A variable of the context may be the handle of an earlier render, or    *)
(* hide a built-in function.                                               *)
MCContexts ==
    {Nothing, [Nothing EXCEPT !["v"] = Cycler(0), !["cycler"] = Joiner(0)],
     [Nothing EXCEPT !["cycler"] = Plain]}

MCItems == {<< >>, <<"a">>, <<"a", "b">>}

Upto(S, n) == UNION {[1 .. k -> S] : k \in 0 .. n}
Letters(n) == {[k \in 1 .. len |-> <<"a", "b", "c", "d", "e">>[k]] : len \in 0 .. n}
Numbered(keys) == [k \in DOMAIN keys |-> [key |-> keys[k], id |-> k]]

Bounds == -4 .. 4 \cup {None}

MCAsked ==
    [op : {"range"}, start : -1 .. 2, stop : -2 .. 4, step : {-3, -2, -1, 1, 2, 3}]
    \cup [op : {"array slice"}, items : Letters(3), start : Bounds, stop : Bounds,
          step : -2 .. 2 \cup {None}]
    \cup {[op |-> "loop", place |-> i, length |-> len] : i \in 0 .. 3, len \in {4}}
    \cup {[op |-> "loop", place |-> 0, length |-> len] : len \in {1}}
    \cup [op : {"batch", "slice"}, items : Letters(5), count : 1 .. 4, fill : {None, "z"}]
    \cup [op : {"groupby"}, items : {Numbered(keys) : keys \in Upto({"k1", "k2", "k3"}, 4)}]
    \cup [op : {"truncate"}, items : Upto({"x", "space", "wide"}, 4), length : 0 .. 4,
          killwords : BOOLEAN]
=============================================================================
