-------------------------------- MODULE Calls --------------------------------
(***************************************************************************)
(* What a name stands for when a template calls it or filters with it.     *)
(*                                                                         *)
(* An Environment keeps functions and filters in tables of its own for the *)
(* synchronous and the asynchronous renderer; the host registers them in   *)
(* any order between renders.  A render looks a call up in its variables,  *)
(* among the built-in functions and in the tables, and keeps the cyclers   *)
(* and joiners it makes, which its variables name by their place.          *)
(* Macros, super() and caller() are the Renderer's.                        *)
(***************************************************************************)
EXTENDS Values

CONSTANTS
    Callables,      \* names that are registered, bound and called
    FilterNames,
    Functions,      \* what the host registers
    Contexts,       \* what renders are called with: functions from names
    Items,          \* the arguments calls are made with
    Asked,          \* the computations of Values that templates ask for
    MaxLog,         \* bound on the registrations
    MaxUsed,        \* bound on the registrations before a render that makes calls
    MaxMade,        \* bound on the cyclers and joiners of a render
    MaxTurns        \* bound on how often each of them is called

ASSUME NoneIsNoFunction == None \notin Functions

VARIABLES
    globals,        \* Environment::globals, for lookups
    customGlobals, asyncGlobals,    \* custom_globals, async_custom_globals
    customFilters, asyncFilters,    \* custom_filters, async_custom_filters
    mode,           \* "none" between renders, "sync" or "async" in one
    bound,          \* the variables of the render
    cyclers, joiners,   \* RenderState's, in the order they were made
    answer,         \* what the last computation of the render gave
    log,            \* every registration so far, for the properties
    turns           \* what each cycler and joiner has given, for the properties

tables == <<globals, customGlobals, asyncGlobals, customFilters, asyncFilters>>
render == <<mode, bound, cyclers, joiners, answer, turns>>
vars == <<tables, render, log>>

BuiltinFunctions == {"range", "cycler", "joiner"}

(* upper, lower, trim, capitalize and title have a fused form, and length  *)
(* at the end of a chain of them.                                          *)
Fused == {"upper", "lower", "trim", "capitalize", "title", "length"}

BuiltinFilters ==
    Fused \cup {"join", "replace", "random", "round", "escape", "e", "safe", "forceescape",
                "default", "d", "batch", "first", "last", "reverse", "sum", "wordcount", "nl2br",
                "indent", "truncate", "striptags", "urlencode", "string", "float", "int", "sort",
                "dictsort", "center", "dump", "list", "slice", "urlize", "selectattr",
                "rejectattr", "select", "reject", "groupby", "abs"}

(* Values that lookups tell apart.                                         *)
Plain == [type |-> "plain"]
Undefined == [type |-> "undefined"]
Callable == [type |-> "callable"]
Marker(name) == [type |-> "builtin", name |-> name]
Cycler(id) == [type |-> "cycler", id |-> id]
Joiner(id) == [type |-> "joiner", id |-> id]

Value == [type : {"plain", "undefined", "callable"}]
         \cup [type : {"builtin"}, name : BuiltinFunctions]
         \cup [type : {"cycler", "joiner"}, id : Nat]

ASSUME InputsAreValues ==
    /\ Contexts \subseteq [Callables -> Value \cup {None}]
    /\ Items \subseteq Seq(STRING)
    /\ None \notin Value

NoTurns == [cyclers |-> << >>, joiners |-> << >>]

Init ==
    /\ globals = [n \in Callables |-> IF n \in BuiltinFunctions THEN Marker(n) ELSE None]
    /\ customGlobals = [n \in Callables |-> None]
    /\ asyncGlobals = [n \in Callables |-> None]
    /\ customFilters = [f \in FilterNames |-> None]
    /\ asyncFilters = [f \in FilterNames |-> None]
    /\ mode = "none"
    /\ bound = [n \in Callables |-> None]
    /\ cyclers = << >>
    /\ joiners = << >>
    /\ answer = None
    /\ log = << >>
    /\ turns = NoTurns

-----------------------------------------------------------------------------
(* Registrations.  The Environment is locked while it renders.             *)
Kinds == {"value", "callable", "async callable", "filter", "async filter"}

Registers(kind, name, fn) ==
    /\ mode = "none"
    /\ Len(log) < MaxLog
    /\ log' = Append(log, [kind |-> kind, name |-> name, fn |-> fn])
    /\ UNCHANGED render

(* Mutant of AddGlobal: the function the name had stays.                   *)
AddGlobalOverFunction(n) ==
    /\ Registers("value", n, None)
    /\ globals' = [globals EXCEPT ![n] = Plain]
    /\ UNCHANGED <<customGlobals, asyncGlobals, customFilters, asyncFilters>>

AddGlobal(n) ==
    /\ Registers("value", n, None)
    /\ customGlobals' = [customGlobals EXCEPT ![n] = None]
    /\ globals' = [globals EXCEPT ![n] = Plain]
    /\ UNCHANGED <<asyncGlobals, customFilters, asyncFilters>>

(* Mutant of AddGlobalCallable: lookups are not told.                      *)
AddGlobalCallableUnseen(n, fn) ==
    /\ Registers("callable", n, fn)
    /\ customGlobals' = [customGlobals EXCEPT ![n] = fn]
    /\ UNCHANGED <<globals, asyncGlobals, customFilters, asyncFilters>>

AddGlobalCallable(n, fn) ==
    /\ Registers("callable", n, fn)
    /\ globals' = [globals EXCEPT ![n] = Callable]
    /\ customGlobals' = [customGlobals EXCEPT ![n] = fn]
    /\ UNCHANGED <<asyncGlobals, customFilters, asyncFilters>>

AddAsyncGlobalCallable(n, fn) ==
    /\ Registers("async callable", n, fn)
    /\ globals' = [globals EXCEPT ![n] = Callable]
    /\ asyncGlobals' = [asyncGlobals EXCEPT ![n] = fn]
    /\ UNCHANGED <<customGlobals, customFilters, asyncFilters>>

AddFilter(f, fn) ==
    /\ Registers("filter", f, fn)
    /\ customFilters' = [customFilters EXCEPT ![f] = fn]
    /\ UNCHANGED <<globals, customGlobals, asyncGlobals, asyncFilters>>

AddAsyncFilter(f, fn) ==
    /\ Registers("async filter", f, fn)
    /\ asyncFilters' = [asyncFilters EXCEPT ![f] = fn]
    /\ UNCHANGED <<globals, customGlobals, asyncGlobals, customFilters>>

-----------------------------------------------------------------------------
(* Calls.                                                                  *)

(* The context, then the globals.                                          *)
Resolve(n) ==
    IF bound[n] # None THEN bound[n]
    ELSE IF globals[n] # None THEN globals[n]
    ELSE Undefined

(* A built-in function is called by its name unless a variable, not a      *)
(* global, of the name is anything else.                                   *)
Dispatches(n) == n \in BuiltinFunctions /\ bound[n] \in {None, Marker(n)}

Refused == [by |-> "nothing"]
Function(fn) == [by |-> "host", fn |-> fn]

FirstOf(a, b) == IF a # None THEN Function(a) ELSE IF b # None THEN Function(b) ELSE Refused

(* Who answers a call of n that is neither a joiner nor built in: a        *)
(* synchronous render refuses an asynchronous function, an asynchronous    *)
(* one prefers it.                                                         *)
Target(m, n) ==
    FirstOf(IF m = "async" THEN asyncGlobals[n] ELSE None, customGlobals[n])

InRender == mode # "none"

(* Filters and computations need nothing of a render: bounds on the        *)
(* registrations after which a render goes further than its start, and on  *)
(* what it does after a computation.                                       *)
Working ==
    /\ InRender
    /\ answer = None
    /\ Len(log) <= MaxUsed
    /\ \A r \in Range(log) : r.kind \notin {"filter", "async filter"}

(* An error ends the render, whose state is dropped with it.               *)
Drop ==
    /\ mode' = "none"
    /\ bound' = [n \in Callables |-> None]
    /\ cyclers' = << >>
    /\ joiners' = << >>
    /\ answer' = None
    /\ turns' = NoTurns

Abort == Drop

StartRender(m, context) ==
    /\ ~InRender
    /\ mode' = m
    /\ bound' = context
    /\ UNCHANGED <<cyclers, joiners, answer, turns, tables, log>>

(* Called without arguments, a name may hold a joiner of this render.      *)
HoldsJoiner(n) == Resolve(n).type = "joiner" /\ Resolve(n).id < Len(joiners)

CallJoiner(n) ==
    LET k == Resolve(n).id + 1
        given == IF joiners[k].first THEN "" ELSE joiners[k].sep
    IN /\ Working
       /\ HoldsJoiner(n)
       /\ Len(turns.joiners[k]) < MaxTurns
       /\ joiners' = [joiners EXCEPT ![k].first = FALSE]
       /\ turns' = [turns EXCEPT !.joiners[k] = Append(@, given)]
       /\ UNCHANGED <<mode, bound, cyclers, answer, tables, log>>

Answers(args, n) == args = << >> /\ HoldsJoiner(n)

(* A call goes on to the tables when neither a joiner nor a built-in       *)
(* function answers it.  No variable keeps it from there.                  *)
ReachesTables(args, n) == ~Answers(args, n) /\ ~Dispatches(n)

(* Mutant of MakeCycler: it stands at its first item from the start.       *)
MakeCyclerAtFirst(v, args) ==
    /\ Working
    /\ "cycler" \in Callables
    /\ ~Answers(args, "cycler")
    /\ Dispatches("cycler")
    /\ Len(cyclers) + Len(joiners) < MaxMade
    /\ cyclers' = Append(cyclers, [items |-> args, pos |-> 0])
    /\ bound' = [bound EXCEPT ![v] = Cycler(Len(cyclers))]
    /\ turns' = [turns EXCEPT !.cyclers = Append(@, << >>)]
    /\ UNCHANGED <<mode, joiners, answer, tables, log>>

(* {% set v = cycler(...) %} and {% set v = joiner(sep) %}                 *)
MakeCycler(v, args) ==
    /\ Working
    /\ "cycler" \in Callables
    /\ ~Answers(args, "cycler")
    /\ Dispatches("cycler")
    /\ Len(cyclers) + Len(joiners) < MaxMade
    /\ cyclers' = Append(cyclers, [items |-> args, pos |-> -1])
    /\ bound' = [bound EXCEPT ![v] = Cycler(Len(cyclers))]
    /\ turns' = [turns EXCEPT !.cyclers = Append(@, << >>)]
    /\ UNCHANGED <<mode, joiners, answer, tables, log>>

MakeJoiner(v, args) ==
    /\ Working
    /\ "joiner" \in Callables
    /\ ~Answers(args, "joiner")
    /\ Dispatches("joiner")
    /\ IF Len(args) > 1 THEN Abort
       ELSE /\ Len(cyclers) + Len(joiners) < MaxMade
            /\ joiners' = Append(joiners, [sep |-> IF args = << >> THEN "," ELSE args[1],
                                           first |-> TRUE])
            /\ bound' = [bound EXCEPT ![v] = Joiner(Len(joiners))]
            /\ turns' = [turns EXCEPT !.joiners = Append(@, << >>)]
            /\ UNCHANGED <<mode, cyclers, answer>>
    /\ UNCHANGED <<tables, log>>

CallFunction(n, args) ==
    /\ Working
    /\ ReachesTables(args, n)
    /\ IF Target(mode, n) = Refused THEN Abort ELSE UNCHANGED render
    /\ UNCHANGED <<tables, log>>

(* Mutant of Advance: the comparison is off by one.                        *)
AdvanceToEnd(cycler) ==
    IF cycler.pos + 2 >= Len(cycler.items) THEN 0 ELSE cycler.pos + 1

(* CyclerState::next; -1 is before the first.                              *)
Advance(cycler) ==
    IF cycler.pos + 1 >= Len(cycler.items) THEN 0 ELSE cycler.pos + 1

(* {{ v.next() }}: null of an empty cycler or of one this render has not   *)
(* made, an error of anything else.                                        *)
CallNext(v) ==
    LET held == Resolve(v)
        k == held.id + 1
        next == Advance(cyclers[k])
        empty == cyclers[k].items = << >>
        given == IF empty THEN "null" ELSE cyclers[k].items[next + 1]
    IN /\ Working
       /\ \/ held.type # "cycler" /\ Abort
          \/ held.type = "cycler" /\ k > Len(cyclers) /\ UNCHANGED render
          \/ /\ held.type = "cycler"
             /\ k <= Len(cyclers)
             /\ Len(turns.cyclers[k]) < MaxTurns
             /\ cyclers' = IF empty THEN cyclers ELSE [cyclers EXCEPT ![k].pos = next]
             /\ turns' = [turns EXCEPT !.cyclers[k] = Append(@, given)]
             /\ UNCHANGED <<mode, bound, joiners, answer>>
       /\ UNCHANGED <<tables, log>>

(* {% set v = w %}: both name the same cycler from then on.  Bound on what *)
(* is copied: what a call tells apart.                                     *)
SetVariable(v, w) ==
    /\ Working
    /\ Resolve(w).type \in {"cycler", "joiner", "builtin"}
    /\ bound' = [bound EXCEPT ![v] = Resolve(w)]
    /\ UNCHANGED <<mode, cyclers, joiners, answer, turns, tables, log>>

(* Bound: a value is computed in a render that has done nothing else.      *)
Compute ==
    /\ Working
    /\ log = << >>
    /\ \A n \in Callables : bound[n] = None
    /\ \E asked \in Asked : answer' = [asked |-> asked, given |-> Computed(asked)]
    /\ UNCHANGED <<mode, bound, cyclers, joiners, turns, tables, log>>

EndRender == InRender /\ Drop /\ UNCHANGED <<tables, log>>

-----------------------------------------------------------------------------
Registration ==
    \/ \E n \in Callables : AddGlobal(n)
    \/ \E n \in Callables, fn \in Functions :
            AddGlobalCallable(n, fn) \/ AddAsyncGlobalCallable(n, fn)
    \/ \E f \in FilterNames, fn \in Functions : AddFilter(f, fn) \/ AddAsyncFilter(f, fn)

Rendering ==
    \/ \E m \in {"sync", "async"}, context \in Contexts : StartRender(m, context)
    \/ \E n \in Callables : CallJoiner(n) \/ CallNext(n)
    \/ \E n \in Callables, args \in Items :
            MakeCycler(n, args) \/ MakeJoiner(n, args) \/ CallFunction(n, args)
    \/ \E v, w \in Callables : SetVariable(v, w)
    \/ Compute
    \/ EndRender

Next == Registration \/ Rendering

Spec == Init /\ [][Next]_vars

-----------------------------------------------------------------------------
(* Filters.  A chain is a sequence of filters, the innermost first, each   *)
(* with or without arguments, applied to a variable or attribute ("plain") *)
(* or to another expression; it is output, or is evaluated to a value.     *)

Builtin(f) == [by |-> "builtin", fn |-> f]

(* apply_builtin, behind the check for an asynchronous filter that each    *)
(* renderer makes before it evaluates the input.                           *)
Applied(m, f) ==
    IF asyncFilters[f] # None
    THEN IF m = "async" THEN Function(asyncFilters[f]) ELSE Refused
    ELSE IF customFilters[f] # None THEN Function(customFilters[f])
    ELSE IF f \in BuiltinFilters THEN Builtin(f)
    ELSE Refused

(* Mutant of Peels: a filter of the host is not looked for.                *)
PeelsAnyway(chain) ==
    \A k \in DOMAIN chain :
        /\ ~chain[k].args
        /\ chain[k].name \in Fused
        /\ chain[k].name = "length" => k = Len(chain)

(* peel_builtin_upper_lower_length_chain, up to a leaf that is plain.      *)
Peels(chain) ==
    \A k \in DOMAIN chain :
        /\ ~chain[k].args
        /\ customFilters[chain[k].name] = None
        /\ chain[k].name \in Fused
        /\ chain[k].name = "length" => k = Len(chain)

AsyncIn(chain) == \E k \in DOMAIN chain : asyncFilters[chain[k].name] # None

Ran(filters) == [failed |-> FALSE, ran |-> filters]
Failed == [failed |-> TRUE, ran |-> << >>]

FusedRun(chain) == Ran([k \in DOMAIN chain |-> Builtin(chain[k].name)])

(* Expr::Filter of eval_to_value: the fused chain, or the last filter on   *)
(* what the others give.                                                   *)
EvalToValue(m, chain, plain) ==
    LET value[k \in 0 .. Len(chain)] ==
            LET upto == SubSeq(chain, 1, k)
                applied == Applied(m, chain[k].name)
            IN IF k = 0 THEN Ran(<< >>)
               ELSE IF plain /\ ~AsyncIn(upto) /\ Peels(upto) THEN FusedRun(upto)
               ELSE IF applied = Refused \/ value[k - 1].failed THEN Failed
               ELSE Ran(Append(value[k - 1].ran, applied))
    IN value[Len(chain)]

(* eval_for_output: the synchronous renderer asks only of the last filter  *)
(* whether it is asynchronous, the asynchronous one of them all.           *)
EvalForOutput(m, chain, plain) ==
    IF m = "sync" /\ asyncFilters[Last(chain).name] # None THEN Failed
    ELSE IF plain /\ Peels(chain) /\ (m = "sync" \/ ~AsyncIn(chain)) THEN FusedRun(chain)
    ELSE EvalToValue(m, chain, plain)

-----------------------------------------------------------------------------
TypeOK ==
    /\ globals \in [Callables -> Value \cup {None}]
    /\ customGlobals \in [Callables -> Functions \cup {None}]
    /\ asyncGlobals \in [Callables -> Functions \cup {None}]
    /\ customFilters \in [FilterNames -> Functions \cup {None}]
    /\ asyncFilters \in [FilterNames -> Functions \cup {None}]
    /\ mode \in {"none", "sync", "async"}
    /\ bound \in [Callables -> Value \cup {None}]
    /\ log \in Seq([kind : Kinds, name : Callables \cup FilterNames,
                    fn : Functions \cup {None}])
    /\ \A c \in DOMAIN cyclers : cyclers[c].pos \in -1 .. Len(cyclers[c].items) - 1

(* The function of the last registration of a name in one of these ways,   *)
(* None if that gave it none or if there is none.                          *)
Places(kinds, name) == {i \in DOMAIN log : log[i].kind \in kinds /\ log[i].name = name}

LastOf(kinds, name) ==
    LET mine == Places(kinds, name)
    IN IF mine = {} THEN None ELSE log[CHOOSE i \in mine : \A j \in mine : j <= i].fn

LastFunction(n) == LastOf({"value", "callable"}, n)
LastAsyncFunction(n) == LastOf({"async callable"}, n)

(* Whatever was registered before, under the same name or another, a call  *)
(* that a render passes on to the tables is answered by the function that  *)
(* addGlobal was last called with, and refused if that was a value.  An    *)
(* asynchronous render prefers the last asynchronous function, which no    *)
(* addGlobal takes back; a synchronous one refuses it, against what        *)
(* javascript-api.md:54 says.  That a variable has the name changes        *)
(* nothing, against environment.rs:485.  Calls that joiners and built-in   *)
(* functions answer are not spoken of.                                     *)
CallsReachLastFunction ==
    InRender =>
        \A n \in Callables, args \in Items :
            ReachesTables(args, n) =>
                Target(mode, n) =
                    FirstOf(IF mode = "async" THEN LastAsyncFunction(n) ELSE None,
                            LastFunction(n))

(* `is callable` and calls have tables of their own, which each            *)
(* registration has to keep together.  Of a name that no variable has and  *)
(* that is not built in: what a synchronous call reaches is found to be    *)
(* callable, and what is found to be callable an asynchronous call         *)
(* reaches.  The converses do not hold: a synchronous render refuses an    *)
(* asynchronous function it finds, and an asynchronous one calls one that  *)
(* a value has since replaced for lookups.                                 *)
LookupsTellCalls ==
    InRender =>
        \A n \in Callables \ BuiltinFunctions :
            bound[n] = None =>
                /\ mode = "sync" /\ Target(mode, n) # Refused => Resolve(n) = Callable
                /\ mode = "async" /\ Resolve(n) = Callable => Target(mode, n) # Refused

(* Chains of one, two and three filters, the longest without arguments.    *)
Chains ==
    [1 .. 1 -> [name : FilterNames, args : BOOLEAN]]
    \cup [1 .. 2 -> [name : FilterNames, args : BOOLEAN]]
    \cup [1 .. 3 -> [name : FilterNames, args : {FALSE}]]

(* The fused forms, which four places of the renderers choose by checks of *)
(* their own, are never seen: a chain runs each of its filters, in order   *)
(* and the one registered last, or fails as a whole.  The one exception is *)
(* a chain that a synchronous render outputs and one of whose inner        *)
(* filters is asynchronous, see EvalForOutput.                             *)
RunEachFilter(chains) ==
    LET async == [f \in FilterNames |-> LastOf({"async filter"}, f)]
        sync == [f \in FilterNames |-> LastOf({"filter"}, f)]
        own(m, f) ==
            IF async[f] # None THEN IF m = "sync" THEN Refused ELSE Function(async[f])
            ELSE IF sync[f] # None THEN Function(sync[f])
            ELSE IF f \in BuiltinFilters THEN Builtin(f) ELSE Refused
        expected(m, chain) ==
            LET runs == [k \in DOMAIN chain |-> own(m, chain[k].name)]
            IN IF Refused \in Range(runs) THEN Failed ELSE Ran(runs)
    IN ~InRender =>
        \A m \in {"sync", "async"}, chain \in chains, plain \in BOOLEAN :
            /\ EvalToValue(m, chain, plain) = expected(m, chain)
            /\ m = "async" \/ ~AsyncIn(Front(chain)) =>
                    EvalForOutput(m, chain, plain) = expected(m, chain)

(* The fused forms of chains of up to three filters, with and without      *)
(* arguments, are never seen.                                              *)
ChainsRunEachFilter == RunEachFilter(Chains)

(* Each cycler goes round its own items and each joiner keeps quiet once,  *)
(* however their calls are mixed, whichever variable they are called       *)
(* through, and whatever has been copied, shadowed or left over from       *)
(* another render.                                                         *)
TurnsFollowCalls ==
    /\ Len(turns.cyclers) = Len(cyclers) /\ Len(turns.joiners) = Len(joiners)
    /\ \A c \in DOMAIN cyclers : \A k \in DOMAIN turns.cyclers[c] :
            LET items == cyclers[c].items
            IN turns.cyclers[c][k] =
                IF items = << >> THEN "null" ELSE items[((k - 1) % Len(items)) + 1]
    /\ \A j \in DOMAIN joiners : \A k \in DOMAIN turns.joiners[j] :
            turns.joiners[j][k] = IF k = 1 THEN "" ELSE joiners[j].sep

(* Slices, ranges, loop objects and the filters that cut a sequence up     *)
(* give what their definitions without a loop say.                         *)
ValuesAreRight ==
    answer # None => IsRight(answer.asked, answer.given)
=============================================================================
