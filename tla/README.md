# runjucks: specifications, model checking and proofs

TLA+ models of runjucks, a Nunjucks-compatible template engine in Rust with a
Node.js addon. Paths below are relative to the repository; `core/` stands for
`native/crates/runjucks-core/src/` and `napi/` for
`native/crates/runjucks-napi/src/`.

## The system

| Part | State | Operations | Talks to |
|---|---|---|---|
| Environment (`core/environment.rs`) | lexer options, extension registry, loader, globals, filters; the inline and the named parse cache, shared by clones | configure, register and remove extensions, render a string or a named template, invalidate | loader, lexer and parser, renderer |
| Extension registry (`core/extension.rs`) | tag -> (owner, end tag), closing names, handlers | register (all or nothing), remove | parser (which tags open), renderer (which handler) |
| Loaders (`core/loader.rs`) | a map, a directory, a closure | `load`, `cache_key`, `cache_keys_are_stable` | environment |
| Lexer (`core/lexer.rs`) | position, mode, pending token, two whitespace flags | next token | parser |
| Parser (`core/parser/`) | position in the tokens | parse a template, an expression | registry |
| Renderer (`core/renderer.rs`) | `RenderState`: include stack, macro scopes, block chains, `super` position, callers, three caches; `CtxStack`: binding frames | render nodes | environment, loaders, callbacks |
| Async renderer (`core/async_renderer/`) | the same, but for two of the caches | render nodes, async tags | the same |
| Filters, tests, globals (`core/filters.rs`, `globals.rs`) | the tables of the Environment; cyclers and joiners of a render | register; call, filter; pure functions otherwise | renderer |
| Addon (`napi/lib.rs`) | `Arc<Mutex<Environment>>` handles, Template objects with their kept AST, the process-wide default Environment, a thread-local render context | everything JavaScript calls | environment, JavaScript callbacks |
| JavaScript glue (`render-with-callback.js`, `express.js`, ...) | none | adapters | addon |

What is hard: parse caches shared by clones whose configuration differs, filled
between two lock sections, keyed by hash or by path and validated by a
signature and an address; files that change between two calls of one request;
renders that call JavaScript with a mutex held and JavaScript that calls back
into renders; a process-wide default Environment reached from several threads;
caches in the renderer keyed by the address of an AST; block inheritance,
includes, macros and callers that share one mutable state with error paths out
of each; flags of the lexer that outlive the token that set them; a parser that
has to find the end of every block and fourteen levels of operators in one
pass; functions kept in one table to be called and in another to be looked up. `PROJECT.json` lists each hazard at its line.

What makes each part correct:

- registry: its three maps agree after any history (`RegistriesAgree`);
- caches: a render sees what it would see without them (`ImplementsService`,
  `AnswerIsCurrent`), sharing them is harmless (`CachesShareable`), and the
  renderer finds the handlers its AST names (`HandlersPresent`);
- Template objects: parsed once, from their source, current until the next
  configuration (`ParsedOnce`, `TemplatesSound`, `KeptIsCurrent`);
- addon: locks follow calls, no deadlock, every call returns, callbacks on
  their own thread with a render context that lasts as long as the render
  (`LocksMatchFrames`, `NoDeadlock`, `CallsReturn`, `FunctionsOnOwnThread`,
  `ContextEndsWithRender`);
- renderer: the state all nodes share is that of the calls in progress
  (`StateFollowsCalls`, `CleanWhenDone`), blocks and `super()` follow the
  inheritance in force (`ChainsAreLineage`, `SuperIsRunning`), its caches do not
  show (`LoopSeen`, `ExtCacheCurrent`), and it ends (`Ends`);
- lexer: it loses nothing, trims only where it was asked, takes raw text as it
  is (`NothingLost`, `TrimmedWhereAsked`, `RawNeverFails`);
- parser: it accepts the grammar of templates, builds its tree, and reads
  expressions as the grammar of expressions does (`AcceptsGrammar`, `TreeNests`,
  `AgreesWithShapes`, `ExprFollowsGrammar`), and both end (`Finishes`);
- functions and filters: a call that no joiner or built-in function answers gets
  the function registered last, and what lookups tell of it is right
  (`CallsReachLastFunction`, `LookupsTellCalls`), the shortcuts for chains of
  filters do not show, cyclers and joiners keep their turns, and what cuts
  sequences up does so by its definition (`ChainsRunEachFilter`,
  `TurnsFollowCalls`, `ValuesAreRight`).

## Modules

| Module | Models | Uses |
|---|---|---|
| `Extensions` | `extension.rs` and the extension arm of `parser/template.rs`, as operators on a registry | |
| `ParseCache` | `environment.rs`: both caches, the loaders, the configuration | `Extensions` |
| `TemplateService` | what a render is promised: no caches | |
| `ParseCacheSound` | when the caches are transparent: assumptions, inductive invariant, refinement mapping | `ParseCache`, `TemplateService` |
| `ParseCache_proofs` | the theorems, and the refinement of `TemplateService`, step by step | `ParseCacheSound`, `TLAPS` |
| `CompiledTemplate` | `JsTemplate` on top of one Environment | `ParseCache` |
| `CompiledTemplate_proofs` | the theorems about it | `CompiledTemplate`, `ParseCache_proofs` |
| `NapiHost` | the addon: threads, mutexes, callbacks, the default Environment | |
| `NapiHost_proofs` | the theorems about it | `NapiHost`, `TLAPS` |
| `Lexer` | `lexer.rs` | |
| `ExprParser` | `parser/expr.rs` and the splitting of heads, as operators on tokens | |
| `ExprGrammar` | the grammar of expressions, what `ExprParser` is compared with | `ExprParser` |
| `TemplateParser` | `parser/template.rs` | `Lexer`, `ExprParser`, `Extensions` |
| `FrontEnd` | `parse_source_to_ast`: lexer, then parser | `TemplateParser` |
| `FrontEndExpr` | what the front end reads of expressions, against their grammar | `FrontEnd`, `ExprGrammar` |
| `FrontEnd_proofs` | the theorems about the lexer, and the parser's about raw blocks and shapes | `FrontEnd`, `TLAPS` |
| `Grammar_proofs` | the parser against the grammar of templates | `FrontEnd_proofs` |
| `Values` | `range`, array slices, `loop`, cutting filters, as operators, each beside its definition | |
| `Calls` | functions and filters: registration, lookup, cyclers, joiners, chains | `Values` |
| `Calls_proofs` | the theorems about it | `Calls`, `TLAPS` |
| `Templates` | what the renderer asks of an AST: layout, blocks, macros, block chains, the scans for cycles, the analysis of `loop` | |
| `CtxStack` | the binding frames of `renderer.rs`, with identity and revision | |
| `Renderer` | one render by `renderer.rs` | `Templates`, `CtxStack` |
| `AsyncRenderer` | one render by `async_renderer/`, and either | `Renderer` |
| `RendererStacks_proofs` | lemmas about the call stack and what has to follow it | `AsyncRenderer`, `TLAPS` |
| `Renderer_proofs` | the theorems about both renderers | `RendererStacks_proofs` |
| `MCParseCacheBase`, `MCParseCache`, `MCCompiledTemplate`, `MCNapiHost`, `MCRenderer`, `MCFrontEnd`, `MCCalls` | values for the constants | |

### ParseCache

One family of clones `Envs` and the renders `Procs` in progress. `opts`, `reg`
and `loader` are the fields of each Environment; `heap` says which loader lives
at an address; `inline` and `named` are the two maps, shared by the family;
`run[p]` is a render with the local variables of `parse_or_cached_inline` and
`load_and_parse_named`. A render borrows its Environment (`&self`), so the
methods that take `&mut self` wait for it (`Borrowed`); everything else may
happen between two lock sections. One action is one lock section with what
precedes it and touches nothing shared: `InlineLookup` and `InlineParse` are
the two of `parse_or_cached_inline`; `StableLookup`, `LoadSource`, `TakeKey`,
`NamedLookup`, `NamedParse` are the steps of `load_and_parse_named`. Inside a
render any number of requests follow each other, as its entry template, its
parents, includes and imports. `invalidate_cache` is `ClearNamed` and
`ClearInline`, two steps.

An AST is what distinguishes parses: the source, the options, and the owner of
each extension tag. A source is a model value with a shape (the tag it opens
and the tag that follows its body).

### CompiledTemplate

`tmpl[m]` is the source and `cached_ast` of a Template. The mutex of the host
is the borrow of `ParseCache`, so there is one render at a time
(`HostOnly`). The files and callbacks behind a loader may change in between, as
in `ParseCache` (`ChangeSource`). `kept` is a history variable that only
properties read: the Template has been parsed since its Environment was
configured last.

### NapiHost

`stack[t]` holds the frames of a JavaScript thread: a call that waits for a
mutex, one that holds it, or a callback it made. `owner[e]` is the mutex,
`active[t]` the thread-local `RENDER_NAPI_ENV`, `global` the default
Environment. `configure` makes a new Environment each time, as the code does;
`render` takes the default one before it waits for its mutex, so `configure` or
`reset` may replace it meanwhile. `program` says what JavaScript may do and is
fixed at the start: which threads there are, whether callbacks call into an
Environment their own thread has locked, whether there are JavaScript loaders
and asynchronous renders.

### Lexer, TemplateParser, FrontEnd

A source is a sequence of pieces: characters (a newline, a blank, any other)
and the regions between delimiters, each with its two trim markers and whether
it is closed. `source`, `opts`, `position`, `mode`, `pending`, `strip` and
`trimNewline` are the fields of the lexer; one step is one turn of the loop in
`next_token`, one action per branch. A text token keeps the positions of its
pieces, so that the properties can say what was left out and why.

The parser descends recursively over the tokens; `stack` is that recursion: a
frame is a block that waits for its end tag, with the token that opened it and
the one that opened the section it is in. One action takes one token: text and
expressions, simple tags, an opening tag, the start of the next section, an end
tag, an extension, or an error. `ast` keeps, for each token, which tag owns the
list of nodes it is in, and the expression tree read from its head: the shape of
the AST and no more. The parser reads the tokens after the lexer is done, as the
code does.

The grammar of templates is what the parser is compared with. It says of places
in the token sequence what lies between them: `Nodes[<<a, b>>]` that the tokens
from `a` up to `b` are a list of nodes, `IsNode` that they are one node,
`IsBlock(first, parts, last)` that the tags at these places are those of one
block, with its sections in an order the block allows. The lists between
neighbouring tags (`Adjacent`) are lists of nodes again, so `Nodes` is a
recursive function. It does not know the order in which a parser reads.

### ExprParser, ExprGrammar

The parser of expressions is a function, so it is operators: one per level of
precedence, each taking the tokens and giving a tree and the rest, or failing,
with the places where the code gives back what it has read. A token is a word.
`ExprGrammar` is not the code: `Trees` is the set of readings a grammar allows,
found by splitting the input everywhere, without the order in which a parser
looks at it. It is recursive over the input, which no theorem may reach, so the
property that compares the two is in a module of its own, `FrontEndExpr`.

### Values, Calls

`Values` has the algorithms as the code computes them (loops become folds and
recursive functions) and, next to each, what it should give, said without a
loop. `Calls` holds the tables of the Environment, which the host fills between
renders, and a render that calls by name: `bound` are its variables, `cyclers`
and `joiners` those of its `RenderState`, which values name by number. The
context of a render may hold a handle of an earlier render or hide a built-in
function. A call is answered by a joiner of the render, then by a built-in
function (`Dispatches`), then from the tables (`ReachesTables`, `Target`), in the
order of `Expr::Call`. Chains of filters are operators over the tables: `EvalToValue` and
`EvalForOutput`, for both renderers, with the test that decides on the fused
form. `log` and `turns` are histories for the properties.

### Templates, CtxStack, Renderer

A list of nodes lives at an address (`Bodies`), and `Code` says what is there; a
template is the body of its root. `ctl` is the Rust call stack: a frame runs
the nodes of a body (`pos` is the next one), `role` says which function it is
in and `save` holds the locals that function needs afterwards. A step starts a
node (`StartNode`, one action per arm of `render_node_into`) or does what
follows a body (`EndFrame`). `names`, `scopes`, `spaces`, `chains`, `super`,
`callers`, `loopUse` and `extCache` are the fields of `RenderState`; `ctxs`
holds the `CtxStack` of each template, import and macro in progress.

Values are not computed. An expression is the set of variables it reads and the
macro it calls; an `if` may take any branch, an iterable has up to `MaxItems`
items or does not fit the loop's variables, and `Throw` lets any expression,
filter or handler fail. What is kept of values is where they come from: the
item and the `loop` object say which iteration they are of. A frame of
`CtxStack` also has `item`, which the code does not: the iteration it serves,
so that `LoopSeen` can compare what `loop` is with what it should be. The async
renderer binds `loop` in every iteration, so `LoopSeen` is also where the two
renderers agree.

Blocks, callers and exported `set` blocks render a clone of their body; `copy`
is the clone a frame runs, 0 the AST itself. With `Recycles` a body may lie
where one of the same length lay in a clone that was dropped, which is what the
allocator does with a vector of the same size. The key of `loop_usage_cache` is
`<<copy, body>>`.

`AsyncRenderer` is the other renderer on the same state, as in the code. Its own
are the loops (`loop` is always bound, and `asyncEach` and `asyncAll` are
loops: the future holds `&mut RenderState`, so iterations follow each other),
`ifAsync`, and the extension tags, which merge the variables anew each time.
Its other nodes do what the synchronous ones do, so its actions are theirs,
grouped by the function that has the code. `AnyNext` renders with the renderer
that `async` says.

A failed render drops its `RenderState`, so `Fail` clears everything at once:
the code's error paths leave counters and stacks as they are, and no one reads
them.

## Runs

Every bound is in the `.cfg` file. Deadlock is checked except in `MCNapiHost`,
whose second program may stop (its thread locks itself out, or panics), and in
`MCFrontEnd` and the runs of `Renderer`, which end.

| Run | Bounds | Shows |
|---|---|---|
| `MCParseCacheClones` | 2 clones, 2 renders, 2 sources with one hash, 1 name, 2 addresses, map loaders | `IInv`, `AnswerIsCurrent`, `HandlersPresent`, `CachesShareable` under every interleaving of two renders on shared caches |
| `MCParseCacheHost` | 1 Environment, 1 render, all three kinds of loader, recycled addresses, rejected registrations | `IInv`, `RegistriesAgree`, and `ImplementsService`: the refinement of `TemplateService` |
| `MCParseCacheOwner` | 1 Environment, 2 extensions that may both register a tag | `AnswerIsCurrent` fails (see Disagreements) |
| `MCNapiHost` | two programs: 2 threads, 3 Environments, 5 frames; and 1 thread, 2 Environments, 6 frames, re-entry, JavaScript loaders, async; fair | locks and render context in every nesting, thread affinity, the default Environment; in the first, deadlock freedom and that every call returns |
| `MCNapiHostContext` | 1 thread, 2 Environments | `ContextDuringRender` fails |
| `MCCompiledTemplate` | 2 Templates, 2 sources with one hash, 2 options, 1 extension, 1 name behind 1 callback | `TemplatesSound`, `KeptIsCurrent`, `ParsedOnce` |
| `MCRenderer` | sync: 420 libraries of 3 templates (10 entries, 7 and 6 others, absent ones too); async: 24, with the async tags; 2 items, 24 frames, fair | the seven invariants of `Renderer` and `Ends` |
| `MCRendererClones` | 1 template with 2 blocks, recycled addresses | `LoopSeen` fails |
| `MCRendererLayout` | 3 levels of `extends` | `LayoutIsRoot` fails |
| `MCFrontEnd` | sources of up to 5 pieces in families, 5 long templates and their misprints, 0 to 2 registrations of extensions, expressions of up to 8 tokens; fair | the eight invariants of the front end and `Finishes` |
| `MCFrontEndPanic` | the blocks, long templates and misprints among these | `NoPanic` fails |
| `MCCalls` | 2 registrations, 2 cyclers or joiners, 3 turns each, 3 names, 4 filters; every computation of `MCAsked` | the six invariants of `Calls` |

The bounds are enough in this sense: two renders on two clones are every pair
the caches can confuse, since an entry is written by one render and read by one
other; one hash for all sources makes every lookup collide; two loader
addresses are the old and the new loader; three Environments are the two a
thread nests and the default one another thread waits for.

In `MCRenderer` each template is one way to use the renderer (loops with
extension tags, call blocks, a child, a page, a module, ...), and the libraries
are all their combinations: a page that includes its child, a module that
imports itself, a parent that extends what includes it. Twenty-four frames are
never reached: `Ends` would fail there. Left out of these libraries, and no
claim made of them: macros that call themselves and `caller()` in a call body,
which recurse until the Rust stack overflows; loops whose `loop` is read by an
override or by a macro they call only (see Disagreements; the async libraries
have both, and there `LoopSeen` holds); bodies at recycled addresses
(`MCRendererClones`).

In `MCFrontEnd` the inputs are families over small alphabets, each with all the
sequences up to a length, because what goes wrong in a lexer or a parser goes
wrong between neighbours: whitespace and trim markers in up to 3 pieces under
all four options and in 4 under both; raw blocks and regions that are not
closed, with up to 3 pieces around them; the sections of each block in up to 4
tags; the tags that extensions may claim under the registries that one or two
registrations make. Deeper nesting comes from 5 templates that use every
statement, each also with a tag left out or two exchanged at every place.
Expressions are every pair of operators with and without prefixes and
suffixes, and all short sequences over the tokens of one construct at a time.

In `MCCalls` a render that calls anything starts after at most one registration
(`MaxUsed`), because what it reads of the tables is one name at a time; the two
that `MaxLog` allows are one registration over another of the same name, in every
order of their kinds, after which a render only starts: `CallsReachLastFunction`
and `LookupsTellCalls` are about the calls and lookups it could make then. A
render that computes a value does nothing else.

Symmetry is used for clones and renders in `MCParseCacheClones` and for the
functions of the host in `MCCalls`, neither of which has a temporal property.

Fairness is assumed in `MCNapiHost`, `MCRenderer` and `MCFrontEnd`. In the
first, weak fairness of each thread's `Complete`. A thread inside the addon or a
callback is scheduled, the template or callback it runs ends, and a mutex that
stays free is granted. Nothing forces JavaScript to make a call or a template to
call back. `CallsReturn` says that unless new calls are made for ever, all
return. In the second, weak fairness of `AnyRender`: a renderer is a function
that runs until it returns. `Throw` is not in it, so `Ends` does not rely on
failures. In the third, weak fairness of `Next`: the lexer and the parser are
functions that run until they return.

## Disagreements with the documentation

- `MCParseCacheOwner`: `current_parse_signature` records which keywords open
  extension tags, not whose they are. After `removeExtension("a")` and
  `addExtension("b", ...)` of the same keyword, a cached AST names `a`.
- `MCNapiHostContext`: a callback that renders another Environment leaves the
  outer render without a context; its next callback is refused.
- `MCRendererClones`: a `for` body is known by its address, but the bodies of
  rendered blocks are clones that are dropped. In a page with two blocks, the
  loop of the second may be taken for that of the first and get no `loop`.
- `MCRendererLayout`: with three levels, the text around the blocks is that of
  the middle template. The tests of three levels repeat the block in the middle
  one, where it makes no difference.
- `MCFrontEndPanic`: a `{% block %}` that is not closed panics, where every
  other statement returns an error.

Two more are what a property that holds says of the code, in every state of its
run and, as a theorem (`CallsCorrect`), for any names and functions. They are
findings as well:

- `CallsReachLastFunction`, asynchronous functions: `javascript-api.md` has
  `addAsyncGlobal` (and `addAsyncFilter`) available in both kinds of render. A
  synchronous render finds only what `addGlobal` registered last and refuses
  the call if that is nothing, as `async-render.test.mjs` expects.
- `CallsReachLastFunction`, the context: the comment on `add_global` says that
  names lose to context keys. Lookups do that; a call asks the variables for
  joiners and built-in functions only, so one that comes to the tables gets the
  registered function whatever the context has under its name. `MCContexts` has
  such contexts.

Seen in the models or while they were written, and kept out of the runs:

- A callback that uses the Environment that is rendering it waits for its own
  mutex for ever; no document promises otherwise, so `NoDeadlock` and
  `CallsReturn` are about programs that do not (`reentrant`).
- A Rust embedder that assigns `Environment::loader` directly may get the new
  loader at the address of the old one, whose stable named entries are then
  hits (`PutLoader`, `AssignLoader` with `Recycles`); the setters of the addon
  clear the cache.
- `invalidateCache` is said to clear the parse of `Template` sources; a
  Template that has rendered keeps its own (`InvalidateCache` leaves `tmpl`).
- `RUNJUCKS_PERF.md` says that leaving `loop` out is not shipped. It is, and
  the analysis takes a block's default for what will be rendered there: an
  override or a macro that reads `loop` finds it undefined. So do the assignments
  of a template imported `with context`, and the handler of an extension tag.
  `AnalysisHolds` is what templates need for their own nodes not to notice.
- A synchronous render that outputs a chain of filters asks only of the last
  whether it is asynchronous. An asynchronous `upper` inside `x | upper | trim`
  is silently replaced by the built-in one; elsewhere it is an error
  (`EvalForOutput`; `ChainsRunEachFilter` leaves this case out).
- The comment on `add_global_callable` says that invocation uses the function.
  Registered as `range`, `cycler` or `joiner` it is found by lookups but not
  called, unless a variable of the name hides the built-in one (`Dispatches`);
  `CallsReachLastFunction` does not speak of the calls that are answered so.
- `addGlobal` after `addAsyncGlobal` leaves the asynchronous function, which
  asynchronous renders prefer, also when lookups find a value by now
  (`CallsReachLastFunction` says so, and `LookupsTellCalls` leaves it out). No
  document says otherwise.
- In expressions, `not` binds tighter than `in`, unlike in Nunjucks; `f(,)` and
  `f(a,,b)` are calls, while a list does not allow a comma at its end; the
  search for the colon of a slice ignores braces. `ExprGrammar` describes these
  as they are.
- `lstrip_blocks` strips before `{%` after any text, also when a `}}` precedes
  it on the line. Text between `{% switch %}` and its first `case` is an error.
- Slices that start outside of the array differ from Python, as in Nunjucks.
  `truncate` takes a byte offset for a number of characters: with characters of
  several bytes it cuts inside a word. Keys that are neither all numbers nor all
  strings have no total order, so what `sort` gives is unspecified. Whether a
  chain of filters is escaped is decided by its input's mark when it is fused,
  by its result's elsewhere.

## Proofs

Every theorem is for all values of the constants: the runs bound clones,
templates, threads, depth and lengths, the theorems do not.

| Module | Proves |
|---|---|
| `ParseCache_proofs` | `IInv`, `AnswerIsCurrent`, `CachesShareable`, `HandlersPresent`, `RegistriesAgree`, `ImplementsService` |
| `CompiledTemplate_proofs` | `KeptIsCurrent`, `TemplatesSound`, `ParsedOnce` |
| `Renderer_proofs` | `TypeOK`, `StateFollowsCalls`, `CleanWhenDone`, `SuperIsRunning`, `ChainsAreLineage`, `ExtCacheCurrent`, of both renderers; `LoopSeen`, of the libraries for which the analysis of loops is right |
| `NapiHost_proofs` | `TypeOK`, `LocksMatchFrames`, `ContextEndsWithRender`, `FunctionsOnOwnThread`, `DefaultNeverReturns`, `NoDeadlock` |
| `Calls_proofs` | `TypeOK`, `CallsReachLastFunction`, `LookupsTellCalls`, `TurnsFollowCalls`, `ChainsRunEachFilter` |
| `FrontEnd_proofs` | `TypeOK`, `NothingLost`, `RawNeverFails`, `AgreesWithShapes`, `TrimmedWhereAsked` |
| `Grammar_proofs` | `AcceptsGrammar`, `TreeNests` |

### Parse caches

Assumptions. `TagConstants`, `CacheConstants` and `NoneIsNoLoader` give the
constants their types. `OneHomePerTag` says that each keyword is only ever
registered by one extension with one end tag, and `AddressIdentifiesLoader`
that addresses are not recycled or that the loader is replaced by the host's
setters on an Environment without clones. Without the first,
`MCParseCacheOwner` is a counterexample; without the second, a loader assigned
at a recycled address is.

Argument. `AnswerIsCurrent` alone is not inductive: an answer may come from a
cache entry, so the entries have to be right, and a signature has to determine
the configuration that made an entry. `ViewOfSig` reconstructs it: the closing
names and options are in the signature, and the tag map is the restriction of
`Home` to the keys, because registries only hold home registrations (`Homed`).
`InlineEntriesSound` and `NamedEntriesSound` say that an entry's AST is the
parse of its source under that configuration; the latter also that a stable
loader alive at the entry's address still holds that source under the entry's
key, which is what the lookup without a load relies on. `RunsSound` carries
what a render has read from one step to the next. These make `CacheInv`, and
`IInv` is `CacheInv` with `AnswerIsCurrent`: the parts are kept apart because a
Template's render keeps the first and not the second. Each action has a lemma;
the facts about registries (`RegistryOK` is preserved by `Register` and
`Unregister`) are lemmas of their own.

The refinement forgets the caches, the keys and the addresses. A render is in
one of four phases of the service (`PhaseOf`); a request begins and ends one
for one, the steps within a phase and the clearing of caches are stutters, a
load is the service's reading, and a hit is its answer: that the entry found is
the parse of what was read is `IInv`, and for a stable loader the service may
answer without reading (`AnswerUnread`). Configuration is a step of the service
that changes only what no render uses, which is where the borrow and, for new
loaders, `AddressIdentifiesLoader` are needed.

`CompiledTemplate_proofs` reuses the lemmas of the caches. The inductive
invariant `TIInv` has `CacheInv`, but `AnswerIsCurrent` only for renders of no
Template, since a Template answers with the AST it keeps, whatever has been
configured since. `KeptFresh` says that what is kept is what any Environment
would parse until a configuration intervenes. `HostOnly` (one Environment, one
render at a time) is the host's mutex; `NoneIsNoTemplate` keeps the absent value
out of the types.

### Renderers

`RInv` is inductive for `AnyNext`, the steps of either renderer. None of the
properties is: that a stack has as many entries as there are calls that pushed
does not say that the entry popped is the one pushed. So for each part of the
state there is a predicate on that part and the call stack, which says what it
is for these calls, entry by entry:

- `NamesInv`: the k-th open template is that of the k-th frame that opened one;
- `CallersInv`: one caller for each call block in progress;
- `ScopesInv`: every root frame knows how many macro scopes there were below it
  (`scope_base`), and there are at least as many now;
- `SupersInv`: there is a history of `super_context` and of the chains, one
  value for each depth of the call stack, in which each block and layout starts
  from the value before it, restores it and shows the body that its position in
  the chain names; the present values are the last of it;
- `ContextsInv`: which frames hold a stack of variables, and how deep each
  stack is at each depth of the calls;
- `IdsInv`, `EntryOK`: stacks have identities of their own, the younger the
  greater, and variables merged for one are right for the revision they name.
  That is also required of what extension tags keep in their locals, since it
  becomes the cache again when they end (`SavesInv`).

`RendererStacks_proofs` says of each how it changes when a call begins, ends or
goes on to its next node. An action is one of these, or a combination, so
`Renderer_proofs` has a lemma for each action that puts them together, and
`StepSound` is the case distinction. A render that has failed keeps nothing
(`Dropped`). `ChainsAreLineage` also needs what `build_block_chains` computes:
that the ancestors found are a path of parents (`AscentSteps`), and that the
chain of a block lists the bodies along it that define the block, by descent
from the oldest ancestor (`ListsStep`).

`LoopSeen` is not true of all templates: it fails where only an override or a
macro reads `loop` (see Disagreements) and where the address of a body is used
again. `LoopsAreSeen` says when it is true, with hypotheses about the library
alone. `Reaches` gives a set of bodies that contains all that is rendered from
it. `OnlyLoopsBindLoop`: no `set`, parameter, loop target or import there has
the name `loop`. `AnalysisHolds` has a set of calm bodies that contains the body
of every loop for which `nodes_use_variable_name` says no; the nodes of a calm
body read no `loop`, which is asked only where the analysis does not say so
itself, and what they render with the same variables is calm: what stands in
them, and the overrides, macros, callers and imports they find by a name. It is
this last part that the code does not look at. In the async renderer, which always binds
`loop`, nothing is asked of the analysis. `LoopsAreAnalysed` of `MCRenderer` says
that the libraries of the run, all of the async ones included, meet the
hypotheses, and TLC evaluates it.

The invariant, `LoopsInv`, is about each call: it has the iteration of the
innermost loop among its variables under the name `loop` (`Sees`), or it is calm
(`Calm`). `View` is the part of a stack of variables that a call has, which
calls above it do not change. The rest says where bodies come from: the macro
scopes, namespaces, callers and chains hold macros, call blocks and blocks that
are reached (`ScopesFit` to `ChainsFit`), and `loop_usage_cache` holds what the
analysis says (`UsesRight`). `UsesLoopIs` is the fact about the analysis: its
recursive definition has a solution, by the least set closed under it.

Assumptions. `TemplateConstants` and `RendererConstants` give the types: there
are finitely many names, `None` is no node, name, body, position or value, `loop`
is a variable. `AsyncConstants` are those of the inputs. `LoopsAreSeen` also has
`~Recycles`.

### The addon

`NapiHost_proofs` proves six properties of the addon, for any programs,
threads and bounds on Environments and frames. `TypeCorrect` is inductive by
itself, with a lemma for each way a step changes a stack (`Push`, `Pop`, turn
the top frame). `LocksCorrect` is inductive relative to the types: a mutex is
taken by the frame that begins to hold it and given back by the frame that ends.
`ContextCorrect` needs that it does not hurt a render to be without context:
`Finish` of an inner render clears the outer one's, which `ContextEndsWithRender`
allows and `ContextDuringRender` does not. `DefaultCorrect` needs types only.
`ThreadsCorrect` has an assumption, `LoadersStayHome`: a program
of more than one thread uses no JavaScript loader. The callbacks are checked by
`MayCallBack`; `CallLoader`, like the code, has no check, and the JavaScript
loader of an Environment that one thread has made the default is called on
whichever thread renders it.

`DeadlockFree` has the longest argument. Say a thread waits for a mutex whose
owner waits in turn. `StackShape`: every frame below a top is a call that holds
its mutex and the JavaScript it called, which runs on its own thread.
`OwnMethods`: a call other than `render` is made by the maker of the
Environment. So a thread that owns an Environment and waits for another has
called JavaScript from the first, hence made it; the thread that waits for it
has no handle and came through the default Environment (`Foreign`).
`WaitOrder`: defaults are newer and newer Environments; who waits for one that
was default does not own the present default, and whoever waits for what it
owns waits for an older one. Hence along a chain of
waiting threads the number of the awaited Environment grows, and a set that
only waits for itself would have none that is greatest (`NoCircle`, by
well-foundedness of the numbers). `DeadlockInv` is the conjunction; it was
checked by TLC on the programs of `MCNapiHost` before it was proved. The
property has an exception for programs that re-enter, and so has `WaitOrder`.

### Calls

`Calls_proofs` proves its five properties for any names, functions, arguments
and lengths. For `CallsReachLastFunction`, `TablesFollowLog` says of the tables,
those of filters too, what the property says of the calls that come to them:
what a table has under a name is what the last entry of its kinds in the log
gave. It says so without `CHOOSE` (`LastGave`), and `LastIsLast` that this is
the same. For `LookupsTellCalls`, `MarkersFollow` relates the table of lookups
to the two of functions, name by name: a synchronous function is marked, and
what is marked has a function in one of the two. It is inductive by itself.

`ChainsRunEachFilter` needs the same of the filters, and what a chain gives. That
is a recursive function over the chain: `ValueGives` shows that its definition
has a solution and only one, by the shortest prefix on which it might differ
from what is to be given (`Given`). `FusedGives` is the fused form. The run asks
for chains of up to three filters, `AnyChainCorrect` is about those of any
length.

For `TurnsFollowCalls`, `TurnInv`
has what the property leaves out: where each cycler stands (`GoesRound`: at the
remainder of what it has given, less one) and whether each joiner has spoken
(`KeepsQuietOnce`), and that every handle a lookup can find is a natural number,
so that a call changes one of them and no other. The arithmetic is
`NextRemainder`: the comparison in `CyclerState::next` is a remainder.

### The front end

The theorems are about sources of any length, any whitespace options and any
registry of extensions. Assumptions: `InputsAreSources`, the types of what is
parsed, with registries in which names, tags and end tags agree (`RegistryOK`,
which every registry an Environment gets into satisfies: `RegistriesAgree` of
`ParseCache`, a theorem), `NoneIsNoToken` and, for extension tags,
`TagConstants`.

The invariant of the lexer, `LexInv`, has two parts besides types. `Told` says
of the tokens so far, with the pending one, what `NothingLost` says at the end:
they hold all pieces before `position`, each once and in order, but those that
are `Excusable`. For the text of a token this comes from `TextKept`: whatever
the flags, markers and options, what trimming leaves is a contiguous part of the
text, and the rest is whitespace. For a region it comes from `EndIs`: what lies
between its beginning and its end was swallowed. `RawsPaired` says where raw
blocks are in the tokens: after the tag that opens one comes its end tag, with
at most one text between, unless it is the last token and the lexer is in the
block. That the position `MatchingClose` finds has the end tag is `CloseIs`: the
balance of end tags over opening ones grows by one at most, and only there.

The invariant of the parser, `ParseInv`, adds what is open (`Stacked`): each
block's tags are before the cursor, only the innermost block is a raw one, and
then the cursor is right after its tag or after a text that follows it. With
`RawsPaired` the next token is that text or the end tag, so that neither
`Reject` nor `Finish` happens in a raw block, which is `RawNeverFails`. The
invariant was checked by TLC on the inputs of `MCFrontEnd` before it was proved.

`AgreesWithShapes` ties the front end to `ParseCache`, which knows templates by
their shape only and asks `Parses` of `Extensions` instead of running a parser.
`ShapeInv` follows the parser through the three tokens such a template has at
most; that built-in tags do not interfere is `ReservedIsBuiltin`, the assumption
that the two tables of keywords in the parser agree.

`TrimmedWhereAsked` says which characters of a finished template are missing, in
terms of the regions around each text. The lexer looks back through two flags
only, which it sets at one region and uses or clears at some later piece.
`TrimInv` says what they mean at every moment. `Trims` takes the borders met so
far (the regions that are not in a text). Between two neighbouring ones the text
is `Settled`: dropped is exactly what the regions before it lead to and the
region after it cuts. `strip` and `trimNewline` are set exactly when a region of
the unbroken run of regions right before `position` asks for it (`Leading`,
`DashLeads`, `NewlineLeads`). A raw block's tag is right before `position` as
long as the mode is raw. There is a lemma for each branch of `next_token`, and
`AsAsked` translates from the borders met to the tokens of the whole source,
where the property looks. Where a region is not closed the lexer fails, so the
invariant is about sources whose regions are (`AllClosed`), as the property is.
TLC checked it on the inputs of `MCFrontEnd` before it was proved.

`Grammar_proofs` first shows that `Nodes` is what it is meant to be: its
equation has a solution (`SolutionExists`: more spans that are lists make no
fewer nodes, so the least set closed under the equation solves it), hence
`Nodes` is one (`NodesSolve`), and there is no other (`SolutionIsOne`, by the
shortest span on which two would differ). Then there are two invariants, one for
each direction of `AcceptsGrammar`:

- `GrammarInv`: what has been read is part of the grammar. For each block on the
  stack, `HasRead` gives the places of its tags so far and lists of nodes
  between them; `Nesting` adds the lists around the blocks and the one being
  read. When the stack is empty at the end, this is `Nodes` of everything. It
  also has what `TreeNests` asks: each entry of `ast` has a list of nodes before
  it, from its owner on.
- `CompleteInv`: if the tokens are a template, the parser has not given up, and
  what remains completes what is open. `Ahead` gives for each block on the stack
  the place of its end, and `Unread` the tags and lists from its innermost
  section to there. A token that the parser would reject contradicts it.

`FollowIs` and `BlockIs` are where the order of sections and the keywords that
end a block in the code meet those of the grammar. TLC has checked
`AcceptsGrammar` and `TreeNests` themselves, on `MCFrontEnd`; the second
invariant speaks of any sequence of places, which TLC cannot enumerate.

### What stays with TLC

`CallsReturn`, `Ends` and `Finishes` are liveness under fairness, which the
prover does not reach. `ExprFollowsGrammar` compares what the parser
of expressions, one recursive descent within a step, computes for every input
with `Trees`, which is recursive over the input too; `ValuesAreRight` is about
folds over sequences: induction over data.

## Not modelled, and the plan

1. The renderer with the parse caches: a callback that invalidates during a
   render frees ASTs that `top_level_macro_cache` and `loop_usage_cache` know by
   address.
2. Filters that sort (`sort`, `dictsort`), `replace` and `indent` with bounds,
   `wordcount`, the radix of `int` and the division of `divisibleby`, which may
   overflow or trap; tests.
3. Proofs: of `ValuesAreRight`, the parts that do not fold (`range`'s bounds,
   slices).

Out of scope: formatting of values and errors, string filters, the spelling of
numbers, names and strings, the search for delimiters inside strings, the words
inside the headers of tags (`ignore missing`, `with context`), regular
expressions: text, not control. `tag_lex.rs` is not on the path of a render. The
JavaScript glue (`render-with-callback.js`, `express.js`) keeps no state; that
its callback is called again with its own exception is a hazard no module
states, because promises are the JavaScript runtime's. The loader of the native
binding is generated; benchmarks and documentation tooling hold no program
logic.
