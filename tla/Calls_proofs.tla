----------------------------- MODULE Calls_proofs -----------------------------
(***************************************************************************)
(* Proofs about Calls: the tables of functions and filters agree with the  *)
(* history of registrations, of any length and for any names and           *)
(* functions, so what a call finds in them is the function that was        *)
(* registered last, which lookups tell of, and every chain of filters runs *)
(* those; and the cyclers and joiners of a render keep their turns, in any *)
(* number and through any calls.                                           *)
(***************************************************************************)
EXTENDS Calls, TLAPS, WellFoundedInduction

Entry == [kind : Kinds, name : Callables \cup FilterNames, fn : Functions \cup {None}]

Matching(entries, kinds, name) ==
    {i \in DOMAIN entries : entries[i].kind \in kinds /\ entries[i].name = name}

(* What LastOf says, without a choice: the last of the entries of one of   *)
(* these kinds and this name gave this function.                           *)
LastGave(entries, kinds, name, fn) ==
    LET mine == Matching(entries, kinds, name)
    IN \/ mine = {} /\ fn = None
       \/ \E i \in mine : entries[i].fn = fn /\ \A j \in mine : j <= i

SyncKinds == {"value", "callable"}
AsyncKinds == {"async callable"}

(* A table has, under each of its keys, what the last of these entries     *)
(* gave.                                                                   *)
Follows(entries, table, keys, kinds) ==
    /\ table \in [keys -> Functions \cup {None}]
    /\ \A n \in keys : LastGave(entries, kinds, n, table[n])

(* The tables of functions follow the registrations.                       *)
TablesFollowLog ==
    /\ log \in Seq(Entry)
    /\ Follows(log, customGlobals, Callables, SyncKinds)
    /\ Follows(log, asyncGlobals, Callables, AsyncKinds)
    /\ Follows(log, customFilters, FilterNames, {"filter"})
    /\ Follows(log, asyncFilters, FilterNames, {"async filter"})

(* One entry at most is the last.                                          *)
LEMMA LastIsLast ==
    ASSUME log \in Seq(Entry), NEW kinds, NEW name, NEW fn, LastGave(log, kinds, name, fn)
    PROVE  LastOf(kinds, name) = fn
<1>1. Matching(log, kinds, name) = Places(kinds, name) /\ Places(kinds, name) \subseteq Nat
  BY DEF Places, Matching
<1>2. CASE Places(kinds, name) = {}
  BY <1>1, <1>2 DEF LastGave, LastOf
<1>3. CASE Places(kinds, name) # {}
  <2>1. PICK i \in Places(kinds, name) :
           log[i].fn = fn /\ \A j \in Places(kinds, name) : j <= i
    BY <1>1, <1>3 DEF LastGave
  <2>2. \A k \in Places(kinds, name) : (\A j \in Places(kinds, name) : j <= k) => k = i
    BY <1>1, <2>1
  <2>3. (CHOOSE k \in Places(kinds, name) : \A j \in Places(kinds, name) : j <= k) = i
    BY <2>1, <2>2
  <2> QED
    BY <1>3, <2>1, <2>3 DEF LastOf
<1> QED
  BY <1>2, <1>3

(* A registration is the last of its kind and name.                        *)
LEMMA LastAfter ==
    ASSUME NEW s \in Seq(Entry), NEW r \in Entry, NEW kinds, r.kind \in kinds
    PROVE  LastGave(Append(s, r), kinds, r.name, r.fn)
<1>1. PICK last \in Nat : last = Len(s)
  OBVIOUS
<1> DEFINE t == Append(s, r)
<1>2. DOMAIN t = 1 .. last + 1 /\ t[last + 1] = r
  BY <1>1
<1> HIDE DEF t
<1>3. last + 1 \in Matching(t, kinds, r.name) /\ \A j \in Matching(t, kinds, r.name) : j <= last + 1
  BY <1>2 DEF Matching
<1>4. LastGave(t, kinds, r.name, r.fn)
  BY <1>2, <1>3 DEF LastGave
<1> QED
  BY <1>4 DEF t

(* A registration of another kind or name changes nothing.                 *)
LEMMA LastBefore ==
    ASSUME NEW s \in Seq(Entry), NEW r \in Entry, NEW kinds, NEW name, NEW fn,
           r.kind \notin kinds \/ r.name # name, LastGave(s, kinds, name, fn)
    PROVE  LastGave(Append(s, r), kinds, name, fn)
<1>1. PICK last \in Nat : last = Len(s)
  OBVIOUS
<1> DEFINE t == Append(s, r)
<1>2. /\ DOMAIN t = 1 .. last + 1 /\ t[last + 1] = r
      /\ DOMAIN s = 1 .. last /\ \A i \in 1 .. last : t[i] = s[i]
  BY <1>1
<1> HIDE DEF t
<1>3. Matching(t, kinds, name) = Matching(s, kinds, name)
  BY <1>2 DEF Matching
<1>4. \A i \in Matching(s, kinds, name) : t[i] = s[i]
  BY <1>2 DEF Matching
<1>5. LastGave(t, kinds, name, fn)
  BY <1>3, <1>4 DEF LastGave
<1> QED
  BY <1>5 DEF t

(* A registration sets the entry of its name in the table of its kind.     *)
LEMMA TableSet ==
    ASSUME NEW s \in Seq(Entry), NEW r \in Entry, NEW table, NEW keys, NEW kinds,
           Follows(s, table, keys, kinds), r.kind \in kinds
    PROVE  Follows(Append(s, r), [table EXCEPT ![r.name] = r.fn], keys, kinds)
<1> DEFINE after == [table EXCEPT ![r.name] = r.fn]
<1>1. table \in [keys -> Functions \cup {None}] /\ r.fn \in Functions \cup {None}
  BY DEF Follows, Entry
<1>2. after \in [keys -> Functions \cup {None}]
  BY <1>1
<1>3. ASSUME NEW n \in keys
      PROVE  LastGave(Append(s, r), kinds, n, after[n])
  <2>1. CASE r.name = n
    <3>1. after[n] = r.fn
      BY <1>1, <2>1
    <3> QED
      BY <2>1, <3>1, LastAfter
  <2>2. CASE r.name # n
    <3>1. after[n] = table[n] /\ LastGave(s, kinds, n, table[n])
      BY <1>1, <2>2 DEF Follows
    <3> QED
      BY <2>2, <3>1, LastBefore
  <2> QED
    BY <2>1, <2>2
<1> QED
  BY <1>2, <1>3 DEF Follows

(* The log stays one of registrations.                                     *)
LEMMA LogGrows == ASSUME NEW s \in Seq(Entry), NEW r \in Entry PROVE Append(s, r) \in Seq(Entry)
OBVIOUS

(* What a registration does to a table: it sets the entry of its name in   *)
(* the table of its kind and leaves the others alone.                      *)
Registered(r, before, after, kinds) ==
    \/ r.kind \in kinds /\ after = [before EXCEPT ![r.name] = r.fn]
    \/ r.kind \notin kinds /\ after = before

(* It keeps each of them in step with the log.                             *)
LEMMA TablesAfter ==
    ASSUME TablesFollowLog, NEW r \in Entry, log' = Append(log, r),
           Registered(r, customGlobals, customGlobals', SyncKinds),
           Registered(r, asyncGlobals, asyncGlobals', AsyncKinds),
           Registered(r, customFilters, customFilters', {"filter"}),
           Registered(r, asyncFilters, asyncFilters', {"async filter"})
    PROVE  TablesFollowLog'
<1>1. /\ log \in Seq(Entry)
      /\ Follows(log, customGlobals, Callables, SyncKinds)
      /\ Follows(log, asyncGlobals, Callables, AsyncKinds)
      /\ Follows(log, customFilters, FilterNames, {"filter"})
      /\ Follows(log, asyncFilters, FilterNames, {"async filter"})
  BY DEF TablesFollowLog
<1>2. ASSUME NEW before, NEW after, NEW keys, NEW kinds,
             Follows(log, before, keys, kinds), Registered(r, before, after, kinds)
      PROVE  Follows(log', after, keys, kinds)
  <2>1. CASE r.kind \in kinds
    <3>1. after = [before EXCEPT ![r.name] = r.fn]
      BY <1>2, <2>1 DEF Registered
    <3> QED
      BY <1>1, <1>2, <2>1, <3>1, TableSet
  <2>2. CASE r.kind \notin kinds
    <3>1. after = before
      BY <1>2, <2>2 DEF Registered
    <3> QED
      BY <1>1, <1>2, <2>2, <3>1, LastBefore DEF Follows
  <2> QED
    BY <2>1, <2>2
<1>3. Follows(log', customGlobals', Callables, SyncKinds)
  BY <1>1, <1>2
<1>4. Follows(log', asyncGlobals', Callables, AsyncKinds)
  BY <1>1, <1>2
<1>5. Follows(log', customFilters', FilterNames, {"filter"})
  BY <1>1, <1>2
<1>6. Follows(log', asyncFilters', FilterNames, {"async filter"})
  BY <1>1, <1>2
<1>7. log' \in Seq(Entry)
  BY <1>1, LogGrows
<1> QED
  BY <1>3, <1>4, <1>5, <1>6, <1>7 DEF TablesFollowLog

(* The tables keep following the registrations, and renders change none.   *)
LEMMA TablesStep == TablesFollowLog /\ [Next]_vars => TablesFollowLog'
<1> SUFFICES ASSUME TablesFollowLog, [Next]_vars PROVE TablesFollowLog'
  OBVIOUS
<1> DEFINE entry(kind, name, fn) == [kind |-> kind, name |-> name, fn |-> fn]
<1>1. UNCHANGED <<tables, log>> => TablesFollowLog'
  BY DEF TablesFollowLog, tables
<1>2. ASSUME NEW n \in Callables, AddGlobal(n)
      PROVE  TablesFollowLog'
  <2>1. PICK r \in Entry : r = entry("value", n, None)
    BY DEF Entry, Kinds
  <2>2. log' = Append(log, r)
    BY <1>2, <2>1 DEF AddGlobal, Registers
  <2>3. /\ Registered(r, customGlobals, customGlobals', SyncKinds)
        /\ Registered(r, asyncGlobals, asyncGlobals', AsyncKinds)
        /\ Registered(r, customFilters, customFilters', {"filter"})
        /\ Registered(r, asyncFilters, asyncFilters', {"async filter"})
    BY <1>2, <2>1 DEF AddGlobal, Registered, SyncKinds, AsyncKinds
  <2> QED
    BY <2>2, <2>3, TablesAfter
<1>3. ASSUME NEW n \in Callables, NEW fn \in Functions, AddGlobalCallable(n, fn)
      PROVE  TablesFollowLog'
  <2>1. PICK r \in Entry : r = entry("callable", n, fn)
    BY DEF Entry, Kinds
  <2>2. log' = Append(log, r)
    BY <1>3, <2>1 DEF AddGlobalCallable, Registers
  <2>3. /\ Registered(r, customGlobals, customGlobals', SyncKinds)
        /\ Registered(r, asyncGlobals, asyncGlobals', AsyncKinds)
        /\ Registered(r, customFilters, customFilters', {"filter"})
        /\ Registered(r, asyncFilters, asyncFilters', {"async filter"})
    BY <1>3, <2>1 DEF AddGlobalCallable, Registered, SyncKinds, AsyncKinds
  <2> QED
    BY <2>2, <2>3, TablesAfter
<1>4. ASSUME NEW n \in Callables, NEW fn \in Functions, AddAsyncGlobalCallable(n, fn)
      PROVE  TablesFollowLog'
  <2>1. PICK r \in Entry : r = entry("async callable", n, fn)
    BY DEF Entry, Kinds
  <2>2. log' = Append(log, r)
    BY <1>4, <2>1 DEF AddAsyncGlobalCallable, Registers
  <2>3. /\ Registered(r, customGlobals, customGlobals', SyncKinds)
        /\ Registered(r, asyncGlobals, asyncGlobals', AsyncKinds)
        /\ Registered(r, customFilters, customFilters', {"filter"})
        /\ Registered(r, asyncFilters, asyncFilters', {"async filter"})
    BY <1>4, <2>1 DEF AddAsyncGlobalCallable, Registered, SyncKinds, AsyncKinds
  <2> QED
    BY <2>2, <2>3, TablesAfter
<1>5. ASSUME NEW n \in FilterNames, NEW fn \in Functions, AddFilter(n, fn)
      PROVE  TablesFollowLog'
  <2>1. PICK r \in Entry : r = entry("filter", n, fn)
    BY DEF Entry, Kinds
  <2>2. log' = Append(log, r)
    BY <1>5, <2>1 DEF AddFilter, Registers
  <2>3. /\ Registered(r, customGlobals, customGlobals', SyncKinds)
        /\ Registered(r, asyncGlobals, asyncGlobals', AsyncKinds)
        /\ Registered(r, customFilters, customFilters', {"filter"})
        /\ Registered(r, asyncFilters, asyncFilters', {"async filter"})
    BY <1>5, <2>1 DEF AddFilter, Registered, SyncKinds, AsyncKinds
  <2> QED
    BY <2>2, <2>3, TablesAfter
<1>6. ASSUME NEW n \in FilterNames, NEW fn \in Functions, AddAsyncFilter(n, fn)
      PROVE  TablesFollowLog'
  <2>1. PICK r \in Entry : r = entry("async filter", n, fn)
    BY DEF Entry, Kinds
  <2>2. log' = Append(log, r)
    BY <1>6, <2>1 DEF AddAsyncFilter, Registers
  <2>3. /\ Registered(r, customGlobals, customGlobals', SyncKinds)
        /\ Registered(r, asyncGlobals, asyncGlobals', AsyncKinds)
        /\ Registered(r, customFilters, customFilters', {"filter"})
        /\ Registered(r, asyncFilters, asyncFilters', {"async filter"})
    BY <1>6, <2>1 DEF AddAsyncFilter, Registered, SyncKinds, AsyncKinds
  <2> QED
    BY <2>2, <2>3, TablesAfter
<1>7. Rendering => UNCHANGED <<tables, log>>
  BY DEF Rendering, StartRender, CallJoiner, CallNext, MakeCycler, MakeJoiner, CallFunction,
         SetVariable, Compute, EndRender
<1>8. UNCHANGED vars => UNCHANGED <<tables, log>>
  BY DEF vars
<1> QED
  BY <1>1, <1>2, <1>3, <1>4, <1>5, <1>6, <1>7, <1>8 DEF Next, Registration

(* Nothing is registered at first.                                         *)
LEMMA TablesInit == Init => TablesFollowLog
<1> SUFFICES ASSUME Init PROVE TablesFollowLog
  OBVIOUS
<1>1. log = << >> /\ log \in Seq(Entry)
  BY DEF Init
<1>2. \A keys, kinds : Follows(log, [n \in keys |-> None], keys, kinds)
  BY <1>1 DEF Follows, LastGave, Matching
<1>3. /\ customGlobals = [n \in Callables |-> None]
      /\ asyncGlobals = [n \in Callables |-> None]
      /\ customFilters = [n \in FilterNames |-> None]
      /\ asyncFilters = [n \in FilterNames |-> None]
  BY DEF Init
<1> QED
  BY <1>1, <1>2, <1>3 DEF TablesFollowLog

(* What a render's calls find in the tables, when neither a joiner nor a   *)
(* built-in function answers them, is the function that addGlobal was last *)
(* called with, or none if that was a value; an asynchronous render        *)
(* prefers the last asynchronous function.                                 *)
THEOREM CallsCorrect == Spec => []CallsReachLastFunction
<1>1. ASSUME TablesFollowLog
      PROVE  CallsReachLastFunction
  <2>1. log \in Seq(Entry)
    BY <1>1 DEF TablesFollowLog
  <2>2. ASSUME NEW n \in Callables
        PROVE  /\ LastFunction(n) = customGlobals[n]
               /\ LastAsyncFunction(n) = asyncGlobals[n]
    <3>1. /\ LastGave(log, SyncKinds, n, customGlobals[n])
          /\ LastGave(log, AsyncKinds, n, asyncGlobals[n])
      BY <1>1 DEF TablesFollowLog, Follows
    <3>2. /\ LastOf(SyncKinds, n) = customGlobals[n]
          /\ LastOf(AsyncKinds, n) = asyncGlobals[n]
      BY <2>1, <3>1, LastIsLast
    <3> QED
      BY <3>2 DEF LastFunction, LastAsyncFunction, SyncKinds, AsyncKinds
  <2> QED
    BY <2>2 DEF CallsReachLastFunction, Target
<1> QED
  BY <1>1, TablesInit, TablesStep, PTL DEF Spec

(* The table for lookups marks a name as callable when it has a function   *)
(* to be called, and only if it has one for one of the renderers.          *)
MarkersFollow ==
    /\ globals \in [Callables -> Value \cup {None}]
    /\ customGlobals \in [Callables -> Functions \cup {None}]
    /\ asyncGlobals \in [Callables -> Functions \cup {None}]
    /\ \A n \in Callables :
        /\ customGlobals[n] # None => globals[n] = Callable
        /\ globals[n] = Callable => customGlobals[n] # None \/ asyncGlobals[n] # None

(* At first the built-in functions are marked, as such.                    *)
LEMMA MarkersInit == Init => MarkersFollow
<1> SUFFICES ASSUME Init PROVE MarkersFollow
  OBVIOUS
<1>1. /\ globals = [n \in Callables |-> IF n \in BuiltinFunctions THEN Marker(n) ELSE None]
      /\ customGlobals = [n \in Callables |-> None]
      /\ asyncGlobals = [n \in Callables |-> None]
  BY DEF Init
<1>2. \A n \in BuiltinFunctions : Marker(n) \in Value /\ Marker(n) # Callable
  BY DEF Marker, Value, Callable
<1>3. Callable # None
  BY InputsAreValues DEF Callable, Value
<1> QED
  BY <1>1, <1>2, <1>3 DEF MarkersFollow

(* Each registration keeps the markers and the functions together.         *)
LEMMA MarkersStep == MarkersFollow /\ [Next]_vars => MarkersFollow'
<1> SUFFICES ASSUME MarkersFollow, [Next]_vars PROVE MarkersFollow'
  OBVIOUS
<1>1. Plain \in Value /\ Callable \in Value /\ Plain # Callable
  BY DEF Plain, Callable, Value
<1>2. UNCHANGED <<globals, customGlobals, asyncGlobals>> => MarkersFollow'
  BY DEF MarkersFollow
<1>3. ASSUME NEW n \in Callables, AddGlobal(n)
      PROVE  MarkersFollow'
  BY <1>1, <1>3 DEF AddGlobal, MarkersFollow
<1>4. ASSUME NEW n \in Callables, NEW fn \in Functions, AddGlobalCallable(n, fn)
      PROVE  MarkersFollow'
  BY <1>1, <1>4, NoneIsNoFunction DEF AddGlobalCallable, MarkersFollow
<1>5. ASSUME NEW n \in Callables, NEW fn \in Functions, AddAsyncGlobalCallable(n, fn)
      PROVE  MarkersFollow'
  BY <1>1, <1>5, NoneIsNoFunction DEF AddAsyncGlobalCallable, MarkersFollow
<1>6. ASSUME NEW f \in FilterNames, NEW fn \in Functions, AddFilter(f, fn) \/ AddAsyncFilter(f, fn)
      PROVE  MarkersFollow'
  BY <1>2, <1>6 DEF AddFilter, AddAsyncFilter
<1>7. Rendering \/ UNCHANGED vars => UNCHANGED tables
  BY DEF Rendering, StartRender, CallJoiner, CallNext, MakeCycler, MakeJoiner, CallFunction,
         SetVariable, Compute, EndRender, vars
<1> QED
  BY <1>2, <1>3, <1>4, <1>5, <1>6, <1>7 DEF Next, Registration, tables

(* Of a name that no variable has and that is not built in, a lookup tells *)
(* what calls find: it is callable where a synchronous call reaches a      *)
(* function, and not callable where an asynchronous call reaches none.     *)
THEOREM LookupsCorrect == Spec => []LookupsTellCalls
<1>1. ASSUME MarkersFollow
      PROVE  LookupsTellCalls
  <2>1. SUFFICES ASSUME NEW n \in Callables, bound[n] = None
                 PROVE  /\ mode = "sync" /\ Target(mode, n) # Refused => Resolve(n) = Callable
                        /\ mode = "async" /\ Resolve(n) = Callable => Target(mode, n) # Refused
    BY <2>1 DEF LookupsTellCalls
  <2>2. Callable # None /\ Undefined # Callable /\ \A fn : Function(fn) # Refused
    BY InputsAreValues DEF Callable, Undefined, Value, Function, Refused
  <2>3. /\ customGlobals[n] # None => globals[n] = Callable
        /\ globals[n] = Callable => customGlobals[n] # None \/ asyncGlobals[n] # None
    BY <1>1 DEF MarkersFollow
  <2>4. Resolve(n) = Callable <=> globals[n] = Callable
    BY <2>1, <2>2 DEF Resolve
  <2>5. mode = "sync" /\ Target(mode, n) # Refused => customGlobals[n] # None
    BY DEF Target, FirstOf
  <2>6. mode = "async" /\ (customGlobals[n] # None \/ asyncGlobals[n] # None)
            => Target(mode, n) # Refused
    BY <2>2 DEF Target, FirstOf
  <2> QED
    BY <2>3, <2>4, <2>5, <2>6
<1> QED
  BY <1>1, MarkersInit, MarkersStep, PTL DEF Spec

-----------------------------------------------------------------------------
(* Filters.                                                                *)

(* Some numbers have a least one.                                          *)
LEMMA LeastOf ==
    ASSUME NEW S \in SUBSET Nat, S # {}
    PROVE  \E n \in S : \A m \in S : n <= m
<1>1. PICK n \in S : \A m \in S : ~(<<m, n>> \in OpToRel(<, Nat))
  BY NatLessThanWellFounded, WFMin
<1>2. \A m \in S : ~(m < n)
  BY <1>1 DEF OpToRel
<1> QED
  BY <1>2

Step == [name : FilterNames, args : BOOLEAN]

(* What is to run for a filter, by the tables.                             *)
Answer(m, f) ==
    IF asyncFilters[f] # None THEN IF m = "sync" THEN Refused ELSE Function(asyncFilters[f])
    ELSE IF customFilters[f] # None THEN Function(customFilters[f])
    ELSE IF f \in BuiltinFilters THEN Builtin(f) ELSE Refused

AnswersUpto(m, chain, k) == [j \in 1 .. k |-> Answer(m, chain[j].name)]

(* What the first k filters of a chain are to give.                        *)
Given(m, chain, k) ==
    IF \E j \in 1 .. k : Answer(m, chain[j].name) = Refused THEN Failed
    ELSE Ran(AnswersUpto(m, chain, k))

(* What EvalToValue makes of the first k filters, from what it has made of *)
(* those before.                                                           *)
Stage(before, m, chain, plain, k) ==
    LET upto == SubSeq(chain, 1, k)
        applied == Applied(m, chain[k].name)
    IN IF k = 0 THEN Ran(<< >>)
       ELSE IF plain /\ ~AsyncIn(upto) /\ Peels(upto) THEN FusedRun(upto)
       ELSE IF applied = Refused \/ before[k - 1].failed THEN Failed
       ELSE Ran(Append(before[k - 1].ran, applied))

(* The two renderers are the only ones.                                    *)
LEMMA AppliedAnswers ==
    ASSUME NEW m \in {"sync", "async"}, NEW f
    PROVE  Applied(m, f) = Answer(m, f)
BY DEF Applied, Answer

(* A chain that the fused form takes has no filter of the host, and all of *)
(* its filters are built in.                                               *)
LEMMA FusedAnswers ==
    ASSUME NEW chain \in Seq(Step), ~AsyncIn(chain), Peels(chain), NEW m, NEW k \in 1 .. Len(chain)
    PROVE  Answer(m, chain[k].name) = Builtin(chain[k].name) /\ Answer(m, chain[k].name) # Refused
<1>1. k \in DOMAIN chain
  OBVIOUS
<1>2. chain[k].name \in BuiltinFilters
  BY <1>1 DEF Peels, BuiltinFilters
<1>3. asyncFilters[chain[k].name] = None /\ customFilters[chain[k].name] = None
  BY <1>1 DEF AsyncIn, Peels
<1>4. Builtin(chain[k].name) # Refused
  BY DEF Builtin, Refused
<1> QED
  BY <1>2, <1>3, <1>4 DEF Answer

(* So it gives what is to be given.                                        *)
LEMMA FusedGives ==
    ASSUME NEW chain \in Seq(Step), ~AsyncIn(chain), Peels(chain), NEW m
    PROVE  FusedRun(chain) = Given(m, chain, Len(chain))
<1>1. DOMAIN chain = 1 .. Len(chain)
  OBVIOUS
<1>2. [j \in DOMAIN chain |-> Builtin(chain[j].name)] = AnswersUpto(m, chain, Len(chain))
  BY <1>1, FusedAnswers DEF AnswersUpto
<1>3. ~\E j \in 1 .. Len(chain) : Answer(m, chain[j].name) = Refused
  BY FusedAnswers
<1> QED
  BY <1>2, <1>3 DEF FusedRun, Given

(* What the filters before give, and the filter itself.                    *)
LEMMA GivenNext ==
    ASSUME NEW m, NEW chain, NEW k \in Nat \ {0}
    PROVE  Given(m, chain, k) =
              IF Answer(m, chain[k].name) = Refused \/ Given(m, chain, k - 1).failed THEN Failed
              ELSE Ran(Append(Given(m, chain, k - 1).ran, Answer(m, chain[k].name)))
<1> DEFINE A(j) == Answer(m, chain[j].name)
<1>1. PICK l \in Nat : l = k - 1
  OBVIOUS
<1>2. Given(m, chain, l).failed <=> \E j \in 1 .. l : A(j) = Refused
  BY DEF Given, Failed, Ran
<1>3. (\E j \in 1 .. k : A(j) = Refused) <=> A(k) = Refused \/ \E j \in 1 .. l : A(j) = Refused
  BY <1>1
<1>4. CASE \E j \in 1 .. k : A(j) = Refused
  <2>1. Given(m, chain, k) = Failed
    BY <1>4 DEF Given
  <2> QED
    BY <1>1, <1>2, <1>3, <1>4, <2>1
<1>5. CASE ~\E j \in 1 .. k : A(j) = Refused
  <2>1. Given(m, chain, l).ran = [j \in 1 .. l |-> A(j)]
    BY <1>3, <1>5 DEF Given, Ran, AnswersUpto
  <2>2. [j \in 1 .. k |-> A(j)] = Append([j \in 1 .. l |-> A(j)], A(k))
    <3> DEFINE s == [j \in 1 .. l |-> A(j)]
    <3>1. s \in Seq({A(j) : j \in 1 .. k})
      BY <1>1
    <3>2. Len(s) = l
      BY <1>1
    <3>3. /\ DOMAIN Append(s, A(k)) = 1 .. k
          /\ Append(s, A(k)) = [j \in 1 .. k |-> IF j = k THEN A(k) ELSE s[j]]
      BY <1>1, <3>1, <3>2
    <3> QED
      BY <1>1, <3>3
  <2>3. Given(m, chain, k) = Ran([j \in 1 .. k |-> A(j)])
    BY <1>5 DEF Given, AnswersUpto
  <2> QED
    BY <1>1, <1>2, <1>3, <1>5, <2>1, <2>2, <2>3
<1> QED
  BY <1>4, <1>5

(* A prefix has the same filters.                                          *)
LEMMA PrefixGives ==
    ASSUME NEW m, NEW chain \in Seq(Step), NEW k \in 1 .. Len(chain)
    PROVE  /\ SubSeq(chain, 1, k) \in Seq(Step) /\ Len(SubSeq(chain, 1, k)) = k
           /\ Given(m, SubSeq(chain, 1, k), k) = Given(m, chain, k)
<1>1. PICK upto : upto = SubSeq(chain, 1, k)
  OBVIOUS
<1>2. upto \in Seq(Step) /\ Len(upto) = k /\ \A j \in 1 .. k : upto[j] = chain[j]
  BY <1>1
<1>3. AnswersUpto(m, upto, k) = AnswersUpto(m, chain, k)
  BY <1>2 DEF AnswersUpto
<1>4. Given(m, upto, k) = Given(m, chain, k)
  BY <1>2, <1>3 DEF Given
<1> QED
  BY <1>1, <1>2, <1>4

(* If EvalToValue has made what is to be given of the filters before, it   *)
(* does so of the next.                                                    *)
LEMMA StageGives ==
    ASSUME NEW m \in {"sync", "async"}, NEW chain \in Seq(Step), NEW plain, NEW before,
           NEW k \in 0 .. Len(chain), k # 0 => before[k - 1] = Given(m, chain, k - 1)
    PROVE  Stage(before, m, chain, plain, k) = Given(m, chain, k)
<1>1. CASE k = 0
  <2>1. AnswersUpto(m, chain, 0) = << >> /\ 1 .. 0 = {}
    BY DEF AnswersUpto
  <2> QED
    BY <1>1, <2>1 DEF Stage, Given
<1>2. CASE k # 0
  <2>1. PICK upto : upto = SubSeq(chain, 1, k)
    OBVIOUS
  <2>2. upto \in Seq(Step) /\ Len(upto) = k /\ Given(m, upto, k) = Given(m, chain, k)
    BY <1>2, <2>1, PrefixGives
  <2>3. ~AsyncIn(upto) /\ Peels(upto) => FusedRun(upto) = Given(m, chain, k)
    BY <2>2, FusedGives
  <2>4. Applied(m, chain[k].name) = Answer(m, chain[k].name)
    BY AppliedAnswers
  <2>5. Given(m, chain, k) =
           IF Applied(m, chain[k].name) = Refused \/ before[k - 1].failed THEN Failed
           ELSE Ran(Append(before[k - 1].ran, Applied(m, chain[k].name)))
    BY <1>2, <2>4, GivenNext
  <2> QED
    BY <1>2, <2>1, <2>3, <2>5 DEF Stage
<1> QED
  BY <1>1, <1>2

(* The values of a chain: its definition by what comes before has one      *)
(* solution, which is what is to be given.                                 *)
LEMMA ValueGives ==
    ASSUME NEW m \in {"sync", "async"}, NEW chain \in Seq(Step), NEW plain
    PROVE  EvalToValue(m, chain, plain) = Given(m, chain, Len(chain))
<1> DEFINE IsValue(h) == h = [k \in 0 .. Len(chain) |-> Stage(h, m, chain, plain, k)]
           value == CHOOSE h : IsValue(h)
           wrong == {k \in 0 .. Len(chain) : value[k] # Given(m, chain, k)}
<1>1. EvalToValue(m, chain, plain) = value[Len(chain)]
  BY Zenon DEF EvalToValue, Stage
<1>2. \E h : IsValue(h)
  <2> DEFINE g == [k \in 0 .. Len(chain) |-> Given(m, chain, k)]
  <2>1. ASSUME NEW k \in 0 .. Len(chain)
        PROVE  Stage(g, m, chain, plain, k) = Given(m, chain, k)
    <3>1. k # 0 => k - 1 \in 0 .. Len(chain)
      OBVIOUS
    <3>2. k # 0 => g[k - 1] = Given(m, chain, k - 1)
      BY <3>1
    <3> HIDE DEF g
    <3> QED
      BY <3>2, StageGives
  <2>2. IsValue(g)
    BY <2>1
  <2> QED
    BY <2>2
<1>3. IsValue(value)
  BY <1>2
<1> HIDE DEF value
<1>4. wrong = {}
  <2> SUFFICES ASSUME wrong # {} PROVE FALSE
    OBVIOUS
  <2>1. wrong \in SUBSET Nat /\ wrong # {}
    OBVIOUS
  <2>2. PICK k \in wrong : \A j \in wrong : k <= j
    <3> HIDE DEF wrong
    <3> QED
      BY <2>1, LeastOf
  <2>3. k # 0 => k - 1 \in 0 .. Len(chain) /\ k - 1 \notin wrong
    BY <2>2
  <2>4. k \in 0 .. Len(chain) /\ (k # 0 => value[k - 1] = Given(m, chain, k - 1))
    BY <2>2, <2>3
  <2>5. Stage(value, m, chain, plain, k) = Given(m, chain, k)
    BY <2>4, StageGives
  <2>6. value[k] = Stage(value, m, chain, plain, k)
    BY <1>3, <2>4
  <2> QED
    BY <2>2, <2>5, <2>6
<1>5. Len(chain) \in 0 .. Len(chain)
  OBVIOUS
<1> QED
  BY <1>1, <1>4, <1>5

(* What is output of a chain is what is to be given, unless a synchronous  *)
(* render outputs one whose inner filters are asynchronous.                *)
LEMMA OutputGives ==
    ASSUME NEW m \in {"sync", "async"}, NEW chain \in Seq(Step), chain # << >>, NEW plain,
           m = "async" \/ ~AsyncIn(Front(chain))
    PROVE  EvalForOutput(m, chain, plain) = Given(m, chain, Len(chain))
<1>1. PICK n \in Nat \ {0} : n = Len(chain)
  OBVIOUS
<1>2. Last(chain) = chain[n]
  BY <1>1 DEF Last
<1>3. CASE m = "sync" /\ asyncFilters[Last(chain).name] # None
  <2>1. Answer(m, chain[n].name) = Refused
    BY <1>2, <1>3 DEF Answer
  <2>2. Given(m, chain, n) = Failed
    BY <1>1, <2>1 DEF Given
  <2> QED
    BY <1>1, <1>3, <2>2 DEF EvalForOutput
<1>4. CASE /\ ~(m = "sync" /\ asyncFilters[Last(chain).name] # None)
           /\ plain /\ Peels(chain) /\ (m = "sync" \/ ~AsyncIn(chain))
  <2>1. ~AsyncIn(chain)
    <3>1. CASE m = "sync"
      <4>1. \A j \in 1 .. n - 1 : asyncFilters[chain[j].name] = None
        BY <1>1, <3>1 DEF Front, AsyncIn
      <4>2. asyncFilters[chain[n].name] = None
        BY <1>2, <1>4, <3>1
      <4> QED
        BY <1>1, <4>1, <4>2 DEF AsyncIn
    <3>2. CASE m = "async"
      BY <1>4, <3>2
    <3> QED
      BY <3>1, <3>2
  <2>2. FusedRun(chain) = Given(m, chain, Len(chain))
    BY <1>4, <2>1, FusedGives
  <2> QED
    BY <1>4, <2>2 DEF EvalForOutput
<1>5. CASE /\ ~(m = "sync" /\ asyncFilters[Last(chain).name] # None)
           /\ ~(plain /\ Peels(chain) /\ (m = "sync" \/ ~AsyncIn(chain)))
  BY <1>5, ValueGives DEF EvalForOutput
<1> QED
  BY <1>3, <1>4, <1>5

(* The chains of the property have filters.                                *)
LEMMA ChainsAreSeqs ==
    ASSUME NEW chain \in Chains
    PROVE  chain \in Seq(Step) /\ chain # << >>
<1>1. \A n \in {1, 2, 3} : \A s \in [1 .. n -> Step] : s \in Seq(Step) /\ s # << >>
  OBVIOUS
<1>2. [name : FilterNames, args : {FALSE}] \subseteq Step
  BY DEF Step
<1> QED
  BY <1>1, <1>2 DEF Chains, Step

(* The fused forms are never seen: whatever is registered, a chain of any  *)
(* length runs each of its filters, in order and the one registered last,  *)
(* or fails.                                                               *)
THEOREM AnyChainCorrect == Spec => []RunEachFilter(Seq(Step) \ {<< >>})
<1>1. ASSUME TablesFollowLog
      PROVE  RunEachFilter(Seq(Step) \ {<< >>})
  <2> DEFINE async == [f \in FilterNames |-> LastOf({"async filter"}, f)]
             sync == [f \in FilterNames |-> LastOf({"filter"}, f)]
             own(m, f) ==
                IF async[f] # None THEN IF m = "sync" THEN Refused ELSE Function(async[f])
                ELSE IF sync[f] # None THEN Function(sync[f])
                ELSE IF f \in BuiltinFilters THEN Builtin(f) ELSE Refused
             runs(m, chain) == [k \in DOMAIN chain |-> own(m, chain[k].name)]
             expected(m, chain) ==
                IF Refused \in Range(runs(m, chain)) THEN Failed ELSE Ran(runs(m, chain))
  <2>1. async = asyncFilters /\ sync = customFilters
    <3>1. log \in Seq(Entry)
      BY <1>1 DEF TablesFollowLog
    <3>2. ASSUME NEW f \in FilterNames
          PROVE  /\ LastOf({"async filter"}, f) = asyncFilters[f]
                 /\ LastOf({"filter"}, f) = customFilters[f]
      <4>1. /\ LastGave(log, {"async filter"}, f, asyncFilters[f])
            /\ LastGave(log, {"filter"}, f, customFilters[f])
        BY <1>1 DEF TablesFollowLog, Follows
      <4> QED
        BY <3>1, <4>1, LastIsLast
    <3>3. /\ asyncFilters \in [FilterNames -> Functions \cup {None}]
          /\ customFilters \in [FilterNames -> Functions \cup {None}]
      BY <1>1 DEF TablesFollowLog, Follows
    <3> QED
      BY <3>2, <3>3
  <2>2. ASSUME NEW m \in {"sync", "async"}, NEW chain \in Seq(Step)
        PROVE  expected(m, chain) = Given(m, chain, Len(chain))
    <3> HIDE DEF async, sync
    <3>1. \A f : own(m, f) = Answer(m, f)
      BY <2>1 DEF Answer
    <3>2. DOMAIN chain = 1 .. Len(chain)
      OBVIOUS
    <3> HIDE DEF own
    <3>3. runs(m, chain) = AnswersUpto(m, chain, Len(chain))
      BY <3>1, <3>2 DEF AnswersUpto
    <3>4. Refused \in Range(runs(m, chain))
             <=> \E j \in 1 .. Len(chain) : Answer(m, chain[j].name) = Refused
      BY <3>1, <3>2 DEF Range
    <3> HIDE DEF runs
    <3> QED
      BY <3>3, <3>4 DEF Given
  <2>3. ASSUME NEW m \in {"sync", "async"}, NEW chain \in Seq(Step) \ {<< >>},
               NEW plain \in BOOLEAN
        PROVE  /\ EvalToValue(m, chain, plain) = expected(m, chain)
               /\ m = "async" \/ ~AsyncIn(Front(chain)) =>
                     EvalForOutput(m, chain, plain) = expected(m, chain)
    <3> HIDE DEF expected
    <3> QED
      BY <2>2, ValueGives, OutputGives
  <2> QED
    BY <2>3, Zenon DEF RunEachFilter
<1> QED
  BY <1>1, TablesInit, TablesStep, PTL DEF Spec

(* So do the chains of up to three filters.                                *)
THEOREM ChainsCorrect == Spec => []ChainsRunEachFilter
<1>1. RunEachFilter(Seq(Step) \ {<< >>}) => ChainsRunEachFilter
  <2>1. \A chain \in Chains : chain \in Seq(Step) \ {<< >>}
    BY ChainsAreSeqs
  <2> QED
    BY <2>1, Zenon DEF ChainsRunEachFilter, RunEachFilter
<1> QED
  BY <1>1, AnyChainCorrect, PTL

-----------------------------------------------------------------------------
(* Cyclers and joiners.                                                    *)

(* The literals are strings, which the provers are not told.               *)
Quiet == ""
Text == STRING \cup {Quiet, ",", "null"}
Strings == Seq(Text)
CyclerState == [items : Strings, pos : Int]
JoinerState == [sep : Text, first : BOOLEAN]

(* A cycler and what it has given so far.                                  *)
GoesRound(cycler, given) ==
    LET n == Len(cycler.items)
    IN /\ cycler.pos = IF given = << >> \/ n = 0 THEN -1 ELSE (Len(given) - 1) % n
       /\ \A k \in DOMAIN given :
            given[k] = IF n = 0 THEN "null" ELSE cycler.items[((k - 1) % n) + 1]

(* A joiner and what it has given so far.                                  *)
KeepsQuietOnce(joiner, given) ==
    /\ joiner.first <=> given = << >>
    /\ \A k \in DOMAIN given : given[k] = IF k = 1 THEN Quiet ELSE joiner.sep

(* The same of all that a render has made.                                 *)
Turns(cs, js, given) ==
    /\ cs \in Seq(CyclerState) /\ js \in Seq(JoinerState)
    /\ given \in [cyclers : Seq(Strings), joiners : Seq(Strings)]
    /\ Len(given.cyclers) = Len(cs) /\ Len(given.joiners) = Len(js)
    /\ \A c \in 1 .. Len(cs) : GoesRound(cs[c], given.cyclers[c])
    /\ \A j \in 1 .. Len(js) : KeepsQuietOnce(js[j], given.joiners[j])

TurnInv ==
    /\ globals \in [Callables -> Value \cup {None}]
    /\ bound \in [Callables -> Value \cup {None}]
    /\ Turns(cyclers, joiners, turns)

(* Only zero times a number is smaller than the number.                    *)
LEMMA SmallProduct ==
    ASSUME NEW a \in Int, NEW n \in Nat \ {0}, NEW r \in Int, n * a = r, -n < r, r < n
    PROVE  a = 0
<1>1. a >= 1 => n * a >= n
  OBVIOUS
<1>2. a <= -1 => n * a <= -n
  OBVIOUS
<1> QED
  BY <1>1, <1>2

(* The remainder of the next number.                                       *)
LEMMA NextRemainder ==
    ASSUME NEW m \in Nat, NEW n \in Nat \ {0}
    PROVE  /\ m % n \in 0 .. n - 1
           /\ (m + 1) % n = IF (m % n) + 1 >= n THEN 0 ELSE (m % n) + 1
<1>1. PICK q \in Int, r \in 0 .. n - 1 : r = m % n /\ m = n * q + r
  <2>1. m % n \in 0 .. n - 1 /\ m \div n \in Int /\ m = n * (m \div n) + (m % n)
    OBVIOUS
  <2> QED
    BY <2>1
<1>2. PICK p \in Int, s \in 0 .. n - 1 : s = (m + 1) % n /\ m + 1 = n * p + s
  <2>1. /\ (m + 1) % n \in 0 .. n - 1 /\ (m + 1) \div n \in Int
        /\ m + 1 = n * ((m + 1) \div n) + ((m + 1) % n)
    OBVIOUS
  <2> QED
    BY <2>1
<1>3. PICK d \in Int : d = p - q
  BY <1>1, <1>2
<1>4. n * d = r + 1 - s
  <2>1. n * p = n * q + n * d
    BY <1>1, <1>2, <1>3
  <2>2. PICK a \in Int, b \in Int, e \in Int : a = n * q /\ b = n * p /\ e = n * d
    OBVIOUS
  <2>3. m = a + r /\ m + 1 = b + s /\ b = a + e
    BY <1>1, <1>2, <2>1, <2>2
  <2>4. e = r + 1 - s
    BY <2>3
  <2> QED
    BY <2>2, <2>4
<1>5. CASE r + 1 < n
  <2>1. d = 0
    BY <1>4, <1>5, SmallProduct
  <2>2. n * d = 0
    BY <2>1
  <2>3. s = r + 1
    BY <1>4, <2>2
  <2>4. (m + 1) % n = r + 1 /\ m % n = r
    BY <1>1, <1>2, <2>3
  <2> QED
    BY <1>5, <2>4
<1>6. CASE r + 1 >= n
  <2>1. r + 1 = n
    BY <1>6
  <2>2. PICK f \in Int : f = d - 1
    OBVIOUS
  <2>3. n * f = -s
    <3>1. n * f = n * d - n
      BY <2>2
    <3> QED
      BY <1>4, <2>1, <3>1
  <2>4. f = 0
    BY <2>3, SmallProduct
  <2>5. n * f = 0
    BY <2>4
  <2>6. s = 0
    BY <2>3, <2>5
  <2>7. (m + 1) % n = 0 /\ m % n = r
    BY <1>1, <1>2, <2>6
  <2> QED
    BY <1>6, <2>7
<1> QED
  BY <1>5, <1>6

(* Zero has no remainder.                                                  *)
LEMMA ZeroRemainder == ASSUME NEW n \in Nat \ {0} PROVE 0 % n = 0
<1>1. 0 % n \in 0 .. n - 1
  OBVIOUS
<1>2. 0 = n * (0 \div n) + (0 % n)
  OBVIOUS
<1>3. 0 \div n = 0
  OBVIOUS
<1> QED
  BY <1>1, <1>2, <1>3

(* The length of strings.                                                  *)
LEMMA EmptyOrNot ==
    ASSUME NEW s \in Strings
    PROVE  Len(s) \in Nat /\ (s = << >> <=> Len(s) = 0)
<1>1. s \in Seq(Text)
  BY DEF Strings
<1> QED
  BY <1>1

(* What Append does to what has been given.                                *)
LEMMA AppendString ==
    ASSUME NEW given \in Strings, NEW x \in Text
    PROVE  /\ Append(given, x) \in Strings /\ Append(given, x) # << >>
           /\ Len(given) \in Nat /\ Len(Append(given, x)) = Len(given) + 1
           /\ DOMAIN given = 1 .. Len(given)
           /\ DOMAIN Append(given, x) = 1 .. Len(given) + 1
           /\ \A k \in 1 .. Len(given) : Append(given, x)[k] = given[k]
           /\ Append(given, x)[Len(given) + 1] = x
           /\ given = << >> <=> Len(given) = 0
<1>1. given \in Seq(Text) /\ x \in Text
  BY DEF Strings
<1>2. /\ Append(given, x) \in Seq(Text) /\ Len(given) \in Nat
      /\ Len(Append(given, x)) = Len(given) + 1
  BY <1>1
<1>3. /\ DOMAIN given = 1 .. Len(given) /\ DOMAIN Append(given, x) = 1 .. Len(given) + 1
      /\ \A k \in 1 .. Len(given) : Append(given, x)[k] = given[k]
      /\ Append(given, x)[Len(given) + 1] = x
  BY <1>1
<1>4. given = << >> <=> Len(given) = 0
  BY <1>1
<1>5. Append(given, x) # << >>
  BY <1>1, <1>2
<1> QED
  BY <1>2, <1>3, <1>4, <1>5 DEF Strings

(* A cycler goes on where it was.                                          *)
LEMMA CyclerTurn ==
    ASSUME NEW c \in CyclerState, NEW given \in Strings, GoesRound(c, given),
           c.items # << >>, NEW next, next = Advance(c)
    PROVE  /\ next + 1 \in 1 .. Len(c.items)
           /\ [c EXCEPT !.pos = next] \in CyclerState
           /\ c.items[next + 1] \in Text
           /\ GoesRound([c EXCEPT !.pos = next], Append(given, c.items[next + 1]))
<1>1. PICK items \in Strings, pos \in Int : c.items = items /\ c.pos = pos
  BY DEF CyclerState
<1>2. PICK n \in Nat \ {0}, m \in Nat : n = Len(items) /\ m = Len(given)
  BY <1>1, EmptyOrNot
<1>3. next = m % n
  <2>1. next = IF pos + 1 >= n THEN 0 ELSE pos + 1
    BY <1>1, <1>2 DEF Advance
  <2>2. pos = IF m = 0 THEN -1 ELSE (m - 1) % n
    <3>1. given = << >> <=> m = 0
      BY <1>2, EmptyOrNot
    <3> QED
      BY <1>1, <1>2, <3>1 DEF GoesRound
  <2>3. CASE m = 0
    BY <2>1, <2>2, <2>3, ZeroRemainder
  <2>4. CASE m # 0
    <3>1. PICK l \in Nat : l = m - 1
      BY <2>4
    <3>2. m = l + 1 /\ pos = l % n
      BY <2>2, <2>4, <3>1
    <3>3. (l + 1) % n = IF (l % n) + 1 >= n THEN 0 ELSE (l % n) + 1
      BY NextRemainder
    <3> QED
      BY <2>1, <3>2, <3>3
  <2> QED
    BY <2>3, <2>4
<1>4. m % n \in 0 .. n - 1
  BY NextRemainder
<1>5. next \in 0 .. n - 1 /\ next + 1 \in 1 .. n
  BY <1>3, <1>4
<1>6. PICK x \in Text : x = items[next + 1]
  <2>1. items[next + 1] \in Text
    BY <1>2, <1>5 DEF Strings
  <2> QED
    BY <2>1
<1>7. PICK d : d = [c EXCEPT !.pos = next]
  OBVIOUS
<1>8. d.items = items /\ d.pos = next /\ d \in CyclerState
  BY <1>1, <1>5, <1>7 DEF CyclerState
<1>9. PICK after : after = Append(given, x)
  OBVIOUS
<1>10. /\ after # << >> /\ Len(after) = m + 1
       /\ DOMAIN given = 1 .. m /\ DOMAIN after = 1 .. m + 1
       /\ \A k \in 1 .. m : after[k] = given[k]
       /\ after[m + 1] = x
  BY <1>2, <1>9, AppendString
<1>11. GoesRound(d, after)
  <2>1. d.pos = (Len(after) - 1) % n
    BY <1>3, <1>8, <1>10
  <2>2. ASSUME NEW k \in 1 .. m + 1
        PROVE  after[k] = items[((k - 1) % n) + 1]
    <3>1. CASE k = m + 1
      BY <1>3, <1>6, <1>10, <3>1
    <3>2. CASE k \in 1 .. m
      <4>1. after[k] = given[k] /\ k \in DOMAIN given
        BY <1>10, <3>2
      <4>2. given[k] = items[((k - 1) % n) + 1]
        BY <1>1, <1>2, <4>1 DEF GoesRound
      <4> QED
        BY <4>1, <4>2
    <3> QED
      BY <3>1, <3>2
  <2>3. n = Len(d.items) /\ n # 0
    BY <1>2, <1>8
  <2> QED
    BY <1>8, <1>10, <2>1, <2>2, <2>3 DEF GoesRound
<1> QED
  BY <1>1, <1>2, <1>5, <1>6, <1>7, <1>8, <1>9, <1>11

(* An empty cycler gives null.                                             *)
LEMMA EmptyTurn ==
    ASSUME NEW c \in CyclerState, NEW given \in Strings, GoesRound(c, given), c.items = << >>
    PROVE  GoesRound(c, Append(given, "null"))
<1>1. PICK x \in Text : x = "null"
  BY DEF Text
<1>2. Len(c.items) = 0
  OBVIOUS
<1>3. c.pos = -1 /\ \A k \in DOMAIN given : given[k] = x
  BY <1>1, <1>2 DEF GoesRound
<1>4. \A k \in DOMAIN Append(given, x) : Append(given, x)[k] = x
  BY <1>3, AppendString
<1> QED
  BY <1>1, <1>2, <1>3, <1>4 DEF GoesRound

(* What is quiet at first and then says the same, goes on to say it.       *)
LEMMA QuietFirst ==
    ASSUME NEW given \in Strings, NEW x \in Text, NEW quiet, NEW sep,
           x = IF given = << >> THEN quiet ELSE sep,
           \A k \in DOMAIN given : given[k] = IF k = 1 THEN quiet ELSE sep
    PROVE  \A k \in DOMAIN Append(given, x) :
              Append(given, x)[k] = IF k = 1 THEN quiet ELSE sep
<1>1. PICK after : after = Append(given, x)
  OBVIOUS
<1>2. PICK m \in Nat : m = Len(given)
  BY EmptyOrNot
<1>3. /\ DOMAIN given = 1 .. m /\ DOMAIN after = 1 .. m + 1
      /\ \A k \in 1 .. m : after[k] = given[k]
      /\ after[m + 1] = x
  BY <1>1, <1>2, AppendString
<1>4. given = << >> <=> m = 0
  BY <1>2, EmptyOrNot
<1>5. after[m + 1] = IF m + 1 = 1 THEN quiet ELSE sep
  BY <1>2, <1>3, <1>4
<1>6. \A k \in 1 .. m : after[k] = IF k = 1 THEN quiet ELSE sep
  BY <1>3
<1>7. \A k \in 1 .. m + 1 : k \in 1 .. m \/ k = m + 1
  BY <1>2
<1> QED
  BY <1>1, <1>3, <1>5, <1>6, <1>7

(* A joiner gives its separator from the second call on.                   *)
LEMMA JoinerTurn ==
    ASSUME NEW j \in JoinerState, NEW given \in Strings, KeepsQuietOnce(j, given),
           NEW x \in Text, x = IF given = << >> THEN Quiet ELSE j.sep
    PROVE  /\ [j EXCEPT !.first = FALSE] \in JoinerState
           /\ KeepsQuietOnce([j EXCEPT !.first = FALSE], Append(given, x))
<1>1. PICK d : d = [j EXCEPT !.first = FALSE]
  OBVIOUS
<1>2. d.first = FALSE /\ d.sep = j.sep /\ d \in JoinerState
  BY <1>1 DEF JoinerState
<1>3. \A k \in DOMAIN given : given[k] = IF k = 1 THEN Quiet ELSE j.sep
  BY DEF KeepsQuietOnce
<1>4. PICK quiet, sep : quiet = Quiet /\ sep = j.sep
  OBVIOUS
<1>5. /\ x = IF given = << >> THEN quiet ELSE sep
      /\ \A k \in DOMAIN given : given[k] = IF k = 1 THEN quiet ELSE sep
  BY <1>3, <1>4
<1>6. \A k \in DOMAIN Append(given, x) : Append(given, x)[k] = IF k = 1 THEN quiet ELSE sep
  BY <1>5, QuietFirst
<1>7. Append(given, x) # << >>
  BY AppendString
<1> QED
  BY <1>1, <1>2, <1>4, <1>7, <1>6 DEF KeepsQuietOnce

(* A render starts with nothing made.                                      *)
LEMMA NothingMade == Turns(<< >>, << >>, NoTurns)
BY DEF Turns, NoTurns, Strings

(* What is made has given nothing.                                         *)
LEMMA CyclerMade ==
    ASSUME NEW cs, NEW js, NEW given, Turns(cs, js, given), NEW items \in Strings
    PROVE  Turns(Append(cs, [items |-> items, pos |-> -1]), js,
                 [given EXCEPT !.cyclers = Append(@, << >>)])
<1>1. PICK c : c = [items |-> items, pos |-> -1]
  OBVIOUS
<1>2. c \in CyclerState /\ GoesRound(c, << >>)
  BY <1>1 DEF CyclerState, GoesRound
<1>3. PICK made : made = Append(given.cyclers, << >>)
  OBVIOUS
<1>4. PICK after : /\ after = [given EXCEPT !.cyclers = Append(@, << >>)]
                  /\ after = [given EXCEPT !.cyclers = made]
  BY <1>3
<1>5. /\ made \in Seq(Strings) /\ after \in [cyclers : Seq(Strings), joiners : Seq(Strings)]
      /\ after.cyclers = made /\ after.joiners = given.joiners
  <2>1. given.cyclers \in Seq(Strings) /\ given.joiners \in Seq(Strings)
    BY DEF Turns
  <2>2. made \in Seq(Strings)
    BY <1>3, <2>1 DEF Strings
  <2> QED
    BY <1>4, <2>1, <2>2 DEF Turns
<1>6. Turns(Append(cs, c), js, after)
  <2>1. PICK all : all = Append(cs, c)
    OBVIOUS
  <2>2. /\ cs \in Seq(CyclerState) /\ given.cyclers \in Seq(Strings)
        /\ Len(given.cyclers) = Len(cs)
        /\ \A i \in 1 .. Len(cs) : GoesRound(cs[i], given.cyclers[i])
    BY DEF Turns
  <2>3. /\ all \in Seq(CyclerState) /\ Len(all) = Len(cs) + 1
        /\ Len(made) = Len(all)
        /\ all[Len(cs) + 1] = c /\ made[Len(cs) + 1] = << >>
        /\ \A i \in 1 .. Len(cs) : all[i] = cs[i] /\ made[i] = given.cyclers[i]
    <3>1. << >> \in Strings
      BY DEF Strings
    <3>2. all \in Seq(CyclerState) /\ Len(all) = Len(cs) + 1
      BY <1>2, <2>1, <2>2
    <3>3. all[Len(cs) + 1] = c /\ \A i \in 1 .. Len(cs) : all[i] = cs[i]
      BY <1>2, <2>1, <2>2
    <3>4. Len(made) = Len(cs) + 1
      BY <1>3, <2>2, <3>1
    <3>5. made[Len(cs) + 1] = << >>
      BY <1>3, <2>2, <3>1
    <3>6. \A i \in 1 .. Len(cs) : made[i] = given.cyclers[i]
      BY <1>3, <2>2, <3>1
    <3> QED
      BY <3>2, <3>3, <3>4, <3>5, <3>6
  <2>4. ASSUME NEW i \in 1 .. Len(all)
        PROVE  GoesRound(all[i], made[i])
    <3>1. Len(cs) \in Nat /\ (i \in 1 .. Len(cs) \/ i = Len(cs) + 1)
      BY <2>2, <2>3
    <3> QED
      BY <1>2, <2>2, <2>3, <3>1
  <2>5. /\ js \in Seq(JoinerState) /\ Len(given.joiners) = Len(js)
        /\ \A i \in 1 .. Len(js) : KeepsQuietOnce(js[i], given.joiners[i])
    BY DEF Turns
  <2> QED
    BY <1>5, <2>1, <2>3, <2>4, <2>5 DEF Turns
<1> QED
  BY <1>1, <1>4, <1>6

(* Neither has a joiner that is made.                                      *)
LEMMA JoinerMade ==
    ASSUME NEW cs, NEW js, NEW given, Turns(cs, js, given), NEW sep \in Text
    PROVE  Turns(cs, Append(js, [sep |-> sep, first |-> TRUE]),
                 [given EXCEPT !.joiners = Append(@, << >>)])
<1>1. PICK j : j = [sep |-> sep, first |-> TRUE]
  OBVIOUS
<1>2. j \in JoinerState /\ KeepsQuietOnce(j, << >>)
  BY <1>1 DEF JoinerState, KeepsQuietOnce
<1>3. PICK made : made = Append(given.joiners, << >>)
  OBVIOUS
<1>4. PICK after : /\ after = [given EXCEPT !.joiners = Append(@, << >>)]
                  /\ after = [given EXCEPT !.joiners = made]
  BY <1>3
<1>5. /\ made \in Seq(Strings) /\ after \in [cyclers : Seq(Strings), joiners : Seq(Strings)]
      /\ after.joiners = made /\ after.cyclers = given.cyclers
  <2>1. given.joiners \in Seq(Strings) /\ given.cyclers \in Seq(Strings)
    BY DEF Turns
  <2>2. made \in Seq(Strings)
    BY <1>3, <2>1 DEF Strings
  <2> QED
    BY <1>4, <2>1, <2>2 DEF Turns
<1>6. Turns(cs, Append(js, j), after)
  <2>1. PICK all : all = Append(js, j)
    OBVIOUS
  <2>2. /\ js \in Seq(JoinerState) /\ given.joiners \in Seq(Strings)
        /\ Len(given.joiners) = Len(js)
        /\ \A i \in 1 .. Len(js) : KeepsQuietOnce(js[i], given.joiners[i])
    BY DEF Turns
  <2>3. /\ all \in Seq(JoinerState) /\ Len(all) = Len(js) + 1
        /\ Len(made) = Len(all)
        /\ all[Len(js) + 1] = j /\ made[Len(js) + 1] = << >>
        /\ \A i \in 1 .. Len(js) : all[i] = js[i] /\ made[i] = given.joiners[i]
    <3>1. << >> \in Strings
      BY DEF Strings
    <3>2. all \in Seq(JoinerState) /\ Len(all) = Len(js) + 1
      BY <1>2, <2>1, <2>2
    <3>3. all[Len(js) + 1] = j /\ \A i \in 1 .. Len(js) : all[i] = js[i]
      BY <1>2, <2>1, <2>2
    <3>4. Len(made) = Len(js) + 1
      BY <1>3, <2>2, <3>1
    <3>5. made[Len(js) + 1] = << >>
      BY <1>3, <2>2, <3>1
    <3>6. \A i \in 1 .. Len(js) : made[i] = given.joiners[i]
      BY <1>3, <2>2, <3>1
    <3> QED
      BY <3>2, <3>3, <3>4, <3>5, <3>6
  <2>4. ASSUME NEW i \in 1 .. Len(all)
        PROVE  KeepsQuietOnce(all[i], made[i])
    <3>1. Len(js) \in Nat /\ (i \in 1 .. Len(js) \/ i = Len(js) + 1)
      BY <2>2, <2>3
    <3> QED
      BY <1>2, <2>2, <2>3, <3>1
  <2>5. /\ cs \in Seq(CyclerState) /\ Len(given.cyclers) = Len(cs)
        /\ \A i \in 1 .. Len(cs) : GoesRound(cs[i], given.cyclers[i])
    BY DEF Turns
  <2> QED
    BY <1>5, <2>1, <2>3, <2>4, <2>5 DEF Turns
<1> QED
  BY <1>1, <1>4, <1>6

(* A call changes one cycler or joiner and what it has given.              *)
LEMMA CyclerCalled ==
    ASSUME NEW cs, NEW js, NEW given, Turns(cs, js, given), NEW k \in 1 .. Len(cs),
           NEW c \in CyclerState, NEW g \in Strings, GoesRound(c, g)
    PROVE  Turns([cs EXCEPT ![k] = c], js, [given EXCEPT !.cyclers[k] = g])
<1>1. PICK made : made = [given.cyclers EXCEPT ![k] = g]
  OBVIOUS
<1>2. PICK after : /\ after = [given EXCEPT !.cyclers = [@ EXCEPT ![k] = g]]
                  /\ after = [given EXCEPT !.cyclers = made]
  BY <1>1
<1>3. /\ made \in Seq(Strings) /\ after \in [cyclers : Seq(Strings), joiners : Seq(Strings)]
      /\ after.cyclers = made /\ after.joiners = given.joiners
  <2>1. /\ given.cyclers \in Seq(Strings) /\ given.joiners \in Seq(Strings)
        /\ k \in 1 .. Len(given.cyclers)
    BY DEF Turns
  <2>2. made \in Seq(Strings)
    BY <1>1, <2>1
  <2> QED
    BY <1>2, <2>1, <2>2 DEF Turns
<1>4. Turns([cs EXCEPT ![k] = c], js, after)
  BY <1>1, <1>3 DEF Turns
<1> QED
  BY <1>2, <1>4

(* Neither does a call of a joiner change another.                         *)
LEMMA JoinerCalled ==
    ASSUME NEW cs, NEW js, NEW given, Turns(cs, js, given), NEW k \in 1 .. Len(js),
           NEW j \in JoinerState, NEW g \in Strings, KeepsQuietOnce(j, g)
    PROVE  Turns(cs, [js EXCEPT ![k] = j], [given EXCEPT !.joiners[k] = g])
<1>1. PICK made : made = [given.joiners EXCEPT ![k] = g]
  OBVIOUS
<1>2. PICK after : /\ after = [given EXCEPT !.joiners = [@ EXCEPT ![k] = g]]
                  /\ after = [given EXCEPT !.joiners = made]
  BY <1>1
<1>3. /\ made \in Seq(Strings) /\ after \in [cyclers : Seq(Strings), joiners : Seq(Strings)]
      /\ after.joiners = made /\ after.cyclers = given.cyclers
  <2>1. /\ given.joiners \in Seq(Strings) /\ given.cyclers \in Seq(Strings)
        /\ k \in 1 .. Len(given.joiners)
    BY DEF Turns
  <2>2. made \in Seq(Strings)
    BY <1>1, <2>1
  <2> QED
    BY <1>2, <2>1, <2>2 DEF Turns
<1>4. Turns(cs, [js EXCEPT ![k] = j], after)
  BY <1>1, <1>3 DEF Turns
<1> QED
  BY <1>2, <1>4

(* A lookup gives a value; handles are numbered from 0.                    *)
LEMMA Resolved ==
    ASSUME TurnInv, NEW n \in Callables
    PROVE  /\ Resolve(n) \in Value
           /\ Resolve(n).type \in {"cycler", "joiner"} => Resolve(n).id \in Nat
<1>1. Resolve(n) \in Value
  BY DEF TurnInv, Resolve, Undefined, Value
<1>2. \A v \in Value : v.type \in {"cycler", "joiner"} => v.id \in Nat
  BY DEF Value
<1> QED
  BY <1>1, <1>2

(* What each step does to what a render has made.                          *)
LEMMA TurnStep == TurnInv /\ [Next]_vars => TurnInv'
<1> SUFFICES ASSUME TurnInv, [Next]_vars PROVE TurnInv'
  OBVIOUS
<1>1. /\ globals \in [Callables -> Value \cup {None}] /\ bound \in [Callables -> Value \cup {None}]
      /\ Turns(cyclers, joiners, turns)
  BY DEF TurnInv
<1>2. ASSUME UNCHANGED <<globals, bound, cyclers, joiners, turns>>
      PROVE  TurnInv'
  BY <1>1, <1>2 DEF TurnInv
<1>3. ASSUME Drop, UNCHANGED globals
      PROVE  TurnInv'
  BY <1>1, <1>3, NothingMade DEF TurnInv, Drop
<1>4. ASSUME NEW args \in Items
      PROVE  args \in Strings
  <2>1. PICK S : S = STRING
    OBVIOUS
  <2>2. args \in Seq(S) /\ S \subseteq Text
    BY <2>1, InputsAreValues, Zenon DEF Text
  <2> QED
    BY <2>2 DEF Strings
<1>5. CASE UNCHANGED vars
  BY <1>2, <1>5 DEF vars, tables, render
<1>6. CASE Registration
  <2>1. globals' \in [Callables -> Value \cup {None}]
    <3>1. Plain \in Value /\ Callable \in Value
      BY DEF Plain, Callable, Value
    <3> QED
      BY <1>1, <1>6, <3>1
      DEF Registration, AddGlobal, AddGlobalCallable, AddAsyncGlobalCallable, AddFilter,
          AddAsyncFilter
  <2>2. UNCHANGED render
    BY <1>6
    DEF Registration, AddGlobal, AddGlobalCallable, AddAsyncGlobalCallable, AddFilter,
        AddAsyncFilter, Registers
  <2> QED
    BY <1>1, <2>1, <2>2 DEF TurnInv, render
<1>7. ASSUME NEW m, NEW context \in Contexts, StartRender(m, context)
      PROVE  TurnInv'
  BY <1>1, <1>7, InputsAreValues DEF TurnInv, StartRender, tables
<1>8. ASSUME NEW n \in Callables, CallJoiner(n)
      PROVE  TurnInv'
  <2>1. PICK k : k = Resolve(n).id + 1
    OBVIOUS
  <2>2. PICK x : x = IF joiners[k].first THEN "" ELSE joiners[k].sep
    OBVIOUS
  <2>3. /\ HoldsJoiner(n)
        /\ joiners' = [joiners EXCEPT ![k].first = FALSE]
        /\ turns' = [turns EXCEPT !.joiners[k] = Append(@, x)]
        /\ UNCHANGED <<bound, cyclers, globals>>
    BY <1>8, <2>1, <2>2 DEF CallJoiner, tables
  <2>4. k \in 1 .. Len(joiners)
    BY <1>1, <2>1, <2>3, Resolved DEF HoldsJoiner, Turns
  <2>5. /\ joiners[k] \in JoinerState /\ turns.joiners[k] \in Strings
        /\ KeepsQuietOnce(joiners[k], turns.joiners[k])
    BY <1>1, <2>4 DEF Turns
  <2>6. x = IF turns.joiners[k] = << >> THEN Quiet ELSE joiners[k].sep
    BY <2>2, <2>5 DEF KeepsQuietOnce, Quiet
  <2>7. x \in Text
    <3>1. joiners[k].sep \in Text /\ Quiet \in Text
      BY <2>5 DEF JoinerState, Text
    <3> QED
      BY <2>6, <3>1
  <2>8. PICK j, g : j = [joiners[k] EXCEPT !.first = FALSE] /\ g = Append(turns.joiners[k], x)
    OBVIOUS
  <2>9. j \in JoinerState /\ g \in Strings /\ KeepsQuietOnce(j, g)
    BY <2>5, <2>6, <2>7, <2>8, JoinerTurn, AppendString
  <2>10. /\ joiners' = [joiners EXCEPT ![k] = j]
         /\ turns' = [turns EXCEPT !.joiners[k] = g]
    BY <2>3, <2>8
  <2>11. Turns(cyclers, [joiners EXCEPT ![k] = j], [turns EXCEPT !.joiners[k] = g])
    BY <1>1, <2>4, <2>9, JoinerCalled
  <2>12. Turns(cyclers', joiners', turns')
    BY <2>3, <2>10, <2>11
  <2> QED
    BY <1>1, <2>3, <2>12 DEF TurnInv
<1>9. ASSUME NEW n \in Callables, CallNext(n)
      PROVE  TurnInv'
  <2>1. PICK k : k = Resolve(n).id + 1
    OBVIOUS
  <2>2. CASE Abort
    BY <1>3, <1>9, <2>2 DEF Abort, CallNext, tables
  <2>3. CASE UNCHANGED render
    BY <1>2, <1>9, <2>3 DEF CallNext, tables, render
  <2>4. ASSUME Resolve(n).type = "cycler", k <= Len(cyclers), ~Abort, ~UNCHANGED render
        PROVE  TurnInv'
    <3>1. PICK next : next = Advance(cyclers[k])
      OBVIOUS
    <3>2. PICK x : x = IF cyclers[k].items = << >> THEN "null" ELSE cyclers[k].items[next + 1]
      OBVIOUS
    <3>3. /\ cyclers' = IF cyclers[k].items = << >> THEN cyclers
                        ELSE [cyclers EXCEPT ![k].pos = next]
          /\ turns' = [turns EXCEPT !.cyclers[k] = Append(@, x)]
          /\ UNCHANGED <<bound, joiners, globals>>
      BY <1>9, <2>1, <2>4, <3>1, <3>2 DEF CallNext, tables
    <3>4. k \in 1 .. Len(cyclers)
      BY <1>1, <2>1, <2>4, Resolved DEF Turns
    <3>5. /\ cyclers[k] \in CyclerState /\ turns.cyclers[k] \in Strings
          /\ GoesRound(cyclers[k], turns.cyclers[k])
      BY <1>1, <3>4 DEF Turns
    <3>6. PICK c, g : /\ c = IF cyclers[k].items = << >> THEN cyclers[k]
                             ELSE [cyclers[k] EXCEPT !.pos = next]
                     /\ g = Append(turns.cyclers[k], x)
      OBVIOUS
    <3>7. c \in CyclerState /\ g \in Strings /\ GoesRound(c, g)
      <4>1. CASE cyclers[k].items = << >>
        <5>1. "null" \in Text
          BY DEF Text
        <5> QED
          BY <3>2, <3>5, <3>6, <4>1, <5>1, EmptyTurn, AppendString
      <4>2. CASE cyclers[k].items # << >>
        BY <3>1, <3>2, <3>5, <3>6, <4>2, CyclerTurn, AppendString
      <4> QED
        BY <4>1, <4>2
    <3>8. cyclers' = [cyclers EXCEPT ![k] = c]
      <4>1. CASE cyclers[k].items = << >>
        <5>1. cyclers' = cyclers /\ c = cyclers[k] /\ cyclers \in Seq(CyclerState)
          BY <1>1, <3>3, <3>6, <4>1 DEF Turns
        <5> QED
          BY <3>4, <5>1
      <4>2. CASE cyclers[k].items # << >>
        BY <3>3, <3>6, <4>2
      <4> QED
        BY <4>1, <4>2
    <3>9. turns' = [turns EXCEPT !.cyclers[k] = g]
      BY <3>3, <3>6
    <3>10. Turns([cyclers EXCEPT ![k] = c], joiners, [turns EXCEPT !.cyclers[k] = g])
      BY <1>1, <3>4, <3>7, CyclerCalled
    <3>11. Turns(cyclers', joiners', turns')
      BY <3>3, <3>8, <3>9, <3>10
    <3> QED
      BY <1>1, <3>3, <3>11 DEF TurnInv
  <2> QED
    BY <1>9, <2>1, <2>2, <2>3, <2>4 DEF CallNext
<1>10. ASSUME NEW v \in Callables, NEW args \in Items, MakeCycler(v, args)
       PROVE  TurnInv'
  <2>1. Cycler(Len(cyclers)) \in Value
    BY <1>1 DEF Turns, Cycler, Value
  <2>2. bound' \in [Callables -> Value \cup {None}]
    BY <1>1, <1>10, <2>1 DEF MakeCycler
  <2>3. Turns(cyclers', joiners', turns')
    BY <1>1, <1>4, <1>10, CyclerMade DEF MakeCycler
  <2> QED
    BY <1>1, <1>10, <2>2, <2>3 DEF MakeCycler, TurnInv, tables
<1>11. ASSUME NEW v \in Callables, NEW args \in Items, MakeJoiner(v, args)
       PROVE  TurnInv'
  <2>1. CASE Abort
    BY <1>3, <1>11, <2>1 DEF Abort, MakeJoiner, tables
  <2>2. CASE ~Abort
    <3>1. Joiner(Len(joiners)) \in Value
      BY <1>1 DEF Turns, Joiner, Value
    <3>2. bound' \in [Callables -> Value \cup {None}]
      BY <1>1, <1>11, <2>2, <3>1 DEF MakeJoiner
    <3>3. PICK sep : sep = IF args = << >> THEN "," ELSE args[1]
      OBVIOUS
    <3>4. sep \in Text
      <4>1. "," \in Text
        BY DEF Text
      <4>2. args # << >> => args[1] \in Text
        BY <1>4, EmptyOrNot DEF Strings
      <4> QED
        BY <3>3, <4>1, <4>2
    <3>5. /\ joiners' = Append(joiners, [sep |-> sep, first |-> TRUE])
          /\ turns' = [turns EXCEPT !.joiners = Append(@, << >>)]
          /\ UNCHANGED <<cyclers, globals>>
      BY <1>11, <2>2, <3>3 DEF MakeJoiner, tables
    <3>6. Turns(cyclers', joiners', turns')
      BY <1>1, <3>4, <3>5, JoinerMade
    <3> QED
      BY <1>1, <3>2, <3>5, <3>6 DEF TurnInv
  <2> QED
    BY <2>1, <2>2
<1>12. ASSUME NEW n \in Callables, NEW args \in Items, CallFunction(n, args)
       PROVE  TurnInv'
  <2>1. CASE Abort
    BY <1>3, <1>12, <2>1 DEF Abort, CallFunction, tables
  <2>2. CASE UNCHANGED render
    BY <1>2, <1>12, <2>2 DEF CallFunction, tables, render
  <2> QED
    BY <1>12, <2>1, <2>2 DEF CallFunction
<1>13. ASSUME NEW v \in Callables, NEW w \in Callables, SetVariable(v, w)
       PROVE  TurnInv'
  <2>1. Resolve(w) \in Value
    BY Resolved
  <2> QED
    BY <1>1, <1>13, <2>1 DEF SetVariable, TurnInv, tables
<1>14. CASE Compute
  BY <1>2, <1>14 DEF Compute, tables
<1>15. CASE EndRender
  BY <1>3, <1>15 DEF EndRender, tables
<1> QED
  BY <1>5, <1>6, <1>7, <1>8, <1>9, <1>10, <1>11, <1>12, <1>13, <1>14, <1>15 DEF Next, Rendering

(* A render that has not begun has made nothing.                           *)
LEMMA TurnInit == Init => TurnInv
<1> SUFFICES ASSUME Init PROVE TurnInv
  OBVIOUS
<1>1. globals \in [Callables -> Value \cup {None}]
  BY DEF Init, Marker, Value
<1> QED
  BY <1>1, NothingMade DEF Init, TurnInv

(* Each cycler goes round its own items and each joiner keeps quiet once,  *)
(* through any calls, copies, shadowed names and other renders.            *)
THEOREM TurnsCorrect == Spec => []TurnsFollowCalls
<1>1. ASSUME TurnInv
      PROVE  TurnsFollowCalls
  <2>1. /\ cyclers \in Seq(CyclerState) /\ joiners \in Seq(JoinerState)
        /\ Len(turns.cyclers) = Len(cyclers) /\ Len(turns.joiners) = Len(joiners)
        /\ \A c \in 1 .. Len(cyclers) : GoesRound(cyclers[c], turns.cyclers[c])
        /\ \A j \in 1 .. Len(joiners) : KeepsQuietOnce(joiners[j], turns.joiners[j])
    BY <1>1 DEF TurnInv, Turns
  <2>2. DOMAIN cyclers = 1 .. Len(cyclers) /\ DOMAIN joiners = 1 .. Len(joiners)
    BY <2>1
  <2>3. ASSUME NEW c \in DOMAIN cyclers, NEW k \in DOMAIN turns.cyclers[c]
        PROVE  LET items == cyclers[c].items
               IN turns.cyclers[c][k] =
                    IF items = << >> THEN "null" ELSE items[((k - 1) % Len(items)) + 1]
    <3>1. cyclers[c] \in CyclerState /\ GoesRound(cyclers[c], turns.cyclers[c])
      BY <2>1, <2>2
    <3>2. cyclers[c].items \in Strings
      BY <3>1 DEF CyclerState
    <3> QED
      BY <3>1, <3>2, EmptyOrNot DEF GoesRound
  <2>4. ASSUME NEW j \in DOMAIN joiners, NEW k \in DOMAIN turns.joiners[j]
        PROVE  turns.joiners[j][k] = IF k = 1 THEN "" ELSE joiners[j].sep
    BY <2>1, <2>2 DEF KeepsQuietOnce, Quiet
  <2> QED
    BY <2>1, <2>3, <2>4 DEF TurnsFollowCalls
<1> QED
  BY <1>1, TurnInit, TurnStep, PTL DEF Spec

(* The position of a cycler is one of its items, or before the first.      *)
LEMMA StandsAtItem ==
    ASSUME NEW c \in CyclerState, NEW given \in Strings, GoesRound(c, given)
    PROVE  c.pos \in -1 .. Len(c.items) - 1
<1>1. PICK items \in Strings, pos \in Int : c.items = items /\ c.pos = pos
  BY DEF CyclerState
<1>2. PICK n \in Nat, m \in Nat : n = Len(items) /\ m = Len(given)
  BY <1>1, EmptyOrNot
<1>3. CASE given = << >> \/ n = 0
  BY <1>1, <1>2, <1>3 DEF GoesRound
<1>4. CASE ~(given = << >> \/ n = 0)
  <2>1. PICK l \in Nat : l = m - 1
    BY <1>2, <1>4, EmptyOrNot
  <2>2. pos = l % n
    BY <1>1, <1>2, <1>4, <2>1 DEF GoesRound
  <2>3. l % n \in 0 .. n - 1
    BY <1>2, <1>4, NextRemainder
  <2> QED
    BY <1>1, <1>2, <2>2, <2>3
<1> QED
  BY <1>3, <1>4

(* The tables hold functions, the variables and the globals hold values,   *)
(* the log is one of registrations, and every cycler stands at one of its  *)
(* items or before them.                                                   *)
THEOREM TypeCorrect == Spec => []TypeOK
<1> DEFINE ModeOK == mode \in {"none", "sync", "async"}
<1>1. Init => ModeOK
  BY DEF Init
<1>2. ModeOK /\ [Next]_vars => ModeOK'
  <2> SUFFICES ASSUME ModeOK, [Next]_vars PROVE ModeOK'
    OBVIOUS
  <2>1. ASSUME Drop PROVE ModeOK'
    BY <2>1 DEF Drop
  <2>2. ASSUME UNCHANGED mode PROVE ModeOK'
    BY <2>2
  <2>3. CASE Registration
    BY <2>2, <2>3
    DEF Registration, AddGlobal, AddGlobalCallable, AddAsyncGlobalCallable, AddFilter,
        AddAsyncFilter, Registers, render
  <2>4. CASE UNCHANGED vars
    BY <2>2, <2>4 DEF vars, render
  <2>5. CASE Rendering
    <3>1. ASSUME NEW m \in {"sync", "async"}, NEW context, StartRender(m, context)
          PROVE  ModeOK'
      BY <3>1 DEF StartRender
    <3>2. ASSUME NEW n, CallJoiner(n) \/ CallNext(n)
          PROVE  ModeOK'
      BY <2>1, <2>2, <3>2 DEF CallJoiner, CallNext, Abort, render
    <3>3. ASSUME NEW n, NEW args,
                 MakeCycler(n, args) \/ MakeJoiner(n, args) \/ CallFunction(n, args)
          PROVE  ModeOK'
      BY <2>1, <2>2, <3>3 DEF MakeCycler, MakeJoiner, CallFunction, Abort, render
    <3>4. ASSUME NEW v, NEW w, SetVariable(v, w)
          PROVE  ModeOK'
      BY <2>2, <3>4 DEF SetVariable
    <3>5. Compute \/ EndRender => ModeOK'
      BY <2>1, <2>2 DEF Compute, EndRender
    <3> QED
      BY <2>5, <3>1, <3>2, <3>3, <3>4, <3>5 DEF Rendering
  <2> QED
    BY <2>3, <2>4, <2>5 DEF Next
<1>3. ASSUME TablesFollowLog, TurnInv, ModeOK
      PROVE  TypeOK
  <2>1. ASSUME NEW c \in DOMAIN cyclers
        PROVE  cyclers[c].pos \in -1 .. Len(cyclers[c].items) - 1
    <3>1. /\ cyclers \in Seq(CyclerState) /\ turns.cyclers \in Seq(Strings)
          /\ Len(turns.cyclers) = Len(cyclers)
          /\ \A i \in 1 .. Len(cyclers) : GoesRound(cyclers[i], turns.cyclers[i])
      BY <1>3 DEF TurnInv, Turns
    <3>2. /\ cyclers[c] \in CyclerState /\ turns.cyclers[c] \in Strings
          /\ GoesRound(cyclers[c], turns.cyclers[c])
      BY <3>1
    <3> QED
      BY <3>2, StandsAtItem
  <2>2. /\ log \in Seq(Entry)
        /\ customGlobals \in [Callables -> Functions \cup {None}]
        /\ asyncGlobals \in [Callables -> Functions \cup {None}]
        /\ customFilters \in [FilterNames -> Functions \cup {None}]
        /\ asyncFilters \in [FilterNames -> Functions \cup {None}]
    BY <1>3 DEF TablesFollowLog, Follows
  <2>3. globals \in [Callables -> Value \cup {None}] /\ bound \in [Callables -> Value \cup {None}]
    BY <1>3 DEF TurnInv
  <2> QED
    BY <1>3, <2>1, <2>2, <2>3 DEF TypeOK, Entry
<1> QED
  BY <1>1, <1>2, <1>3, TablesInit, TablesStep, TurnInit, TurnStep, PTL DEF Spec
=============================================================================
