----------------------------- MODULE MCRenderer -----------------------------
(* Renderer on small libraries: templates that loop, include, import, call *)
(* and inherit from each other in every combination, cycles included.      *)
EXTENDS AsyncRenderer

(* Nodes.                                                                  *)
Words == [kind |-> "text", blank |-> FALSE, reads |-> {}]
Space == [kind |-> "text", blank |-> TRUE, reads |-> {}]
Show(v) == [kind |-> "out", reads |-> {v}]
DoMacro(ns, m) == [kind |-> "invoke", ns |-> ns, macro |-> m, reads |-> {}]
DoSuper == [kind |-> "super", reads |-> {}]
DoCaller(args) == [kind |-> "caller", args |-> args, reads |-> {}]
DoIf(branches, otherwise) ==
    [kind |-> "if", branches |-> branches, otherwise |-> otherwise, reads |-> {"x"}]
DoSwitch(cases, default) ==
    [kind |-> "switch", cases |-> cases, default |-> default, reads |-> {"x"}]
DoFor(vs, body, otherwise) ==
    [kind |-> "for", vars |-> vs, body |-> body, otherwise |-> otherwise, reads |-> {}]
DoIfAsync(branches, otherwise) ==
    [kind |-> "ifAsync", branches |-> branches, otherwise |-> otherwise, reads |-> {"x"}]
DoEach(vs, body, otherwise) ==
    [kind |-> "asyncFor", vars |-> vs, body |-> body, otherwise |-> otherwise, reads |-> {}]
DoSet(v) == [kind |-> "set", var |-> v, reads |-> {}]
DoCapture(v, body) == [kind |-> "setblock", var |-> v, body |-> body, reads |-> {}]
DoFilter(body) == [kind |-> "filter", body |-> body, reads |-> {}]
DoTag(body) == [kind |-> "ext", body |-> body, reads |-> {}]
DoExtends(name, literal) ==
    [kind |-> "extends", name |-> name, literal |-> literal, reads |-> {}]
DoBlock(name, body) == [kind |-> "block", name |-> name, body |-> body, reads |-> {}]
DoInclude(name, missing, context) ==
    [kind |-> "include", name |-> name, missing |-> missing, context |-> context, reads |-> {}]
DoImport(name, literal, context) ==
    [kind |-> "import", name |-> name, literal |-> literal, alias |-> "ns",
     context |-> context, reads |-> {}]
DoFrom(name, literal, imports) ==
    [kind |-> "from", name |-> name, literal |-> literal, names |-> imports,
     context |-> FALSE, reads |-> {}]
As(export, local) == [export |-> export, local |-> local]
DefMacro(name, params, body) ==
    [kind |-> "macro", name |-> name, params |-> params, body |-> body, reads |-> {}]
DoCall(ns, m, params, body) ==
    [kind |-> "call", ns |-> ns, macro |-> m, params |-> params, body |-> body, reads |-> {}]

MCVars == {"loop", "x", "y"}
MCNames == {"main", "a", "b"}
MCMacroNames == {"m", "k"}
MCBlockNames == {"p", "q"}

(* By name, so that TLC evaluates it once.                                 *)
Corpus == [
    empty    |-> << >>,
    text     |-> <<Words>>,
    readX    |-> <<Show("x")>>,
    readLoop |-> <<Show("loop")>>,
    tags     |-> <<DoTag(None), DoSet("y"), DoTag("readX")>>,
    \* main
    loops    |-> <<DoFor(<<"x">>, "inLoop", "text"), DoTag(None)>>,
    inLoop   |-> <<DoTag(None), DoFor(<<"x", "y">>, "inner", None), Show("loop"), DoTag("tags")>>,
    inner    |-> <<DoTag(None), Show("x")>>,
    shows    |-> <<DoFor(<<"x">>, "each", None), DoInclude("b", TRUE, FALSE)>>,
    each     |-> <<DoInclude("a", TRUE, TRUE)>>,
    calls    |-> <<DefMacro("m", <<"x">>, "wraps"), DefMacro("k", << >>, "readX"),
                   DoCall(None, "m", <<"y">>, "given"), DoMacro(None, "m")>>,
    wraps    |-> <<Show("x"), DoTag(None), DoMacro(None, "k"), DoCaller(TRUE), DoTag(None)>>,
    given    |-> <<DoTag(None), Show("y"), DoInclude("a", TRUE, TRUE)>>,
    child    |-> <<Space, DoExtends("a", TRUE), DoBlock("p", "over"), Space,
                   DefMacro("m", << >>, "text")>>,
    over     |-> <<DoFor(<<"x">>, "supers", None), DoTag(None)>>,
    supers   |-> <<DoSuper, Show("loop")>>,
    dynamic  |-> <<DoExtends("b", FALSE), DoBlock("q", "twice")>>,
    twice    |-> <<DoSuper, DoSuper>>,
    broken   |-> <<DoExtends("a", TRUE), Show("x")>>,
    late     |-> <<Words, DoExtends("a", TRUE), DoIf(<<"text", "misplaced">>, TRUE)>>,
    misplaced |-> <<DoExtends("a", TRUE)>>,
    choices  |-> <<DoSwitch(<<"empty", "readX", "empty">>, "text"), DoIf(<<"tags">>, FALSE),
                   DoSwitch(<<"readX">>, None), DoFilter("readX"), DoCapture("y", "tags")>>,
    users    |-> <<DoImport("a", TRUE, TRUE), DoCall("ns", "m", << >>, "readX"),
                   DoFrom("b", FALSE, <<As("k", "m"), As("x", "y")>>), DoMacro(None, "m"),
                   DefMacro("k", << >>, "text")>>,
    \* a and b
    page     |-> <<DoBlock("p", "inPage"), DoBlock("q", "text"), DoTag(None)>>,
    inPage   |-> <<DoFor(<<"y">>, "readLoop", None)>>,
    module   |-> <<DefMacro("m", <<"x">>, "inMacro"), DefMacro("k", << >>, "tags"),
                   DoSet("x"), DoCapture("y", "inPage"), Words>>,
    inMacro  |-> <<DoCaller(FALSE)>>,
    heir     |-> <<DoExtends("b", FALSE), DoBlock("p", "supers")>>,
    heirOfA  |-> <<DoExtends("a", TRUE), DoBlock("q", "over")>>,
    again    |-> <<DoInclude("main", FALSE, FALSE)>>,
    imports  |-> <<DoImport("b", TRUE, FALSE), DoInclude("b", FALSE, FALSE), DoMacro("ns", "m")>>,
    importsA |-> <<DoFrom("a", TRUE, << >>), DoSet("x")>>,
    \* async tags
    asyncs   |-> <<DefMacro("k", << >>, "readLoop"), DoEach(<<"x">>, "eachItem", "tags"),
                   DoIfAsync(<<"text">>, TRUE), DoIfAsync(<<"tags">>, FALSE)>>,
    eachItem |-> <<DoMacro(None, "k"), DoTag("tags"), DoInclude("a", TRUE, TRUE)>>,
    \* disagreements
    grows    |-> <<DoBlock("p", "loopP"), DoBlock("q", "loopQ")>>,
    loopP    |-> <<DoFor(<<"x">>, "readX", None)>>,
    loopQ    |-> <<DoFor(<<"x">>, "readLoop", None)>>,
    lists    |-> <<DoFor(<<"x">>, "slots", None)>>,
    slots    |-> <<DoBlock("p", "text")>>,
    fills    |-> <<DoExtends("a", TRUE), DoBlock("p", "readLoop")>>]

MCCode == Corpus
MCBodies == DOMAIN Corpus

MainPool == {"loops", "shows", "calls", "child", "dynamic", "broken", "late", "choices", "users", "asyncs"}
APool == {"page", "module", "heir", "again", "imports", "readLoop", None}
BPool == {"page", "module", "heirOfA", "importsA", "readLoop", None}

Library(main, a, b) == [main |-> main, a |-> a, b |-> b]

MCLibraries == {Library(m, a, b) : m \in MainPool, a \in APool, b \in BPool}
MCAsyncLibraries ==
    {Library(m, a, b) : m \in {"asyncs", "child", "fills", "users"},
                        a \in {"lists", "heir", "module"}, b \in {"page", "importsA"}}
NoLibraries == {}
MCClones == {Library("grows", None, None)}
MCLayouts == {Library("child", "heir", "page")}

(* What the libraries reach, and what loops without a variable loop render *)
(* there: LoopsAreSeen holds of these runs.  What disagrees is left out.   *)
MCReached == MCBodies \ {"grows", "loopP", "loopQ", "lists", "slots", "fills"}
MCCalm == {"inner"}

ASSUME LoopsAreAnalysed ==
    /\ Reaches(MCLibraries, MCReached) /\ OnlyLoopsBindLoop(MCReached)
    /\ AnalysisHolds(MCLibraries, MCReached, MCCalm)
    /\ Reaches(MCAsyncLibraries, MCBodies) /\ OnlyLoopsBindLoop(MCBodies)
=============================================================================
