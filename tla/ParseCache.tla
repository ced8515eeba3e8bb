----------------------------- MODULE ParseCache -----------------------------
(***************************************************************************)
(* How an Environment turns a template into an AST (environment.rs): the   *)
(* inline and the named parse cache, the loaders behind them, the part of  *)
(* the configuration an AST depends on, and the operations that change it. *)
(*                                                                         *)
(* An Environment is Clone, and a clone shares both caches (they are       *)
(* Arc<Mutex<HashMap>>) while its configuration is its own.  Envs is one   *)
(* such family of clones.  Procs are renders in progress: each borrows one *)
(* Environment (&self), so nothing configures that Environment (&mut self) *)
(* until the render returns, but other renders, and the configuration of   *)
(* other clones, interleave with it between any two lock sections.         *)
(*                                                                         *)
(* A loader is identified by its address, as in loader_identity.  Loaders  *)
(* are of three kinds: "map" (HashMap: immutable, stable keys), "fs"       *)
(* (FileSystemLoader: files change under it, the key is the canonical      *)
(* path, absent with the file) and "callback" (FnLoader and the host's     *)
(* JavaScript loader: no key, any source at any time).                     *)
(***************************************************************************)
EXTENDS Extensions, FiniteSets

CONSTANTS
    Envs,           \* clones that share their parse caches
    Procs,          \* renders in progress
    Opts,           \* values of (trim_blocks, lstrip_blocks, tags)
    Registrations,  \* extension registrations the embedder may ask for
    Sources,        \* template sources
    ShapeOf,        \* what the parser sees of a source
    HashKeys,       \* keys of the inline cache
    HashOf,         \* hash_source, which may collide
    Names,          \* template names
    Keys,           \* keys of the named cache: names and canonical paths
    Canonical,      \* the path a file system loader resolves a name to
    Addrs,          \* addresses a loader may live at
    Kinds,          \* kinds of loader in use
    Recycles,       \* the allocator hands out a dropped loader's address again
    Host,           \* the loader is replaced through the host's setters only
    None            \* Option::None, and what was never there

ASSUME CacheConstants ==
    /\ ShapeOf \in [Sources -> SourceShape]
    /\ HashOf \in [Sources -> HashKeys]
    /\ Names \subseteq Keys
    /\ Canonical \in [Names -> Keys]
    /\ Kinds \subseteq {"map", "fs", "callback"}
    /\ {Recycles, Host} \subseteq BOOLEAN
    /\ \A r \in Registrations : r.ext \in ExtNames /\ r.specs \in Seq(TagSpec)
    /\ None \notin Sources \cup Keys \cup Addrs \cup {"inline", "named"}

(* TemplateLoader: what a loader of each kind holds, by name or by path.   *)
Paths(kind) == IF kind = "fs" THEN {Canonical[n] : n \in Names} ELSE Names

Loaders ==
    UNION {[kind : {kind}, files : [Paths(kind) -> Sources \cup {None}]] : kind \in Kinds}

ASSUME NoneIsNoLoader == None \notin Loaders

VARIABLES
    opts,       \* per Environment: the lexer options
    reg,        \* per Environment: the extension registry
    loader,     \* per Environment: the address of its loader, or None
    heap,       \* per address: the loader last created there, or None
    inline,     \* the shared inline_parse_cache
    named,      \* the shared named_parse_cache
    run         \* per render: its progress and registers

vars == <<opts, reg, loader, heap, inline, named, run>>

-----------------------------------------------------------------------------
(* The configuration the lexer and the parser read.                        *)
ViewOf(o, r) == [opts |-> o, tags |-> r.tags, closing |-> r.closing]
View(e) == ViewOf(opts[e], reg[e])

(* Mutant of SigOf: a signature of the lexer options alone.                *)
SigOfOptions(view) == [opts |-> view.opts, tags |-> {}, closing |-> {}]

(* current_parse_signature: of the tag map it takes the sorted keys only.  *)
SigOf(view) == [opts |-> view.opts,
                tags |-> OpeningTags(view.tags),
                closing |-> view.closing]

Failed == [ok |-> FALSE]

(* parse_source_to_ast.  The AST depends on the source, on the lexer       *)
(* options, and on the owner of each extension tag in the source.          *)
ParseOf(src, view) ==
    IF Parses(view, ShapeOf[src])
    THEN [ok |-> TRUE, src |-> src, opts |-> view.opts,
          owners |-> OwnersIn(view, ShapeOf[src])]
    ELSE Failed

-----------------------------------------------------------------------------
(* The methods of TemplateLoader.                                          *)
PathOf(l, n) == IF l.kind = "fs" THEN Canonical[n] ELSE n
Load(l, n) == l.files[PathOf(l, n)]
Stable(l) == l.kind = "map"

CacheKey(l, n) ==
    CASE l.kind = "map"      -> n
      [] l.kind = "fs"       -> IF Load(l, n) = None THEN None ELSE PathOf(l, n)
      [] l.kind = "callback" -> None

LoaderFor(p) == heap[loader[run[p].env]]

-----------------------------------------------------------------------------
(* The registers of a render that has just been started on a request.      *)
Request(pc, e, how, n, s) ==
    [pc |-> pc, env |-> e, how |-> how, name |-> n, src |-> s, key |-> None, res |-> None]

Idle == Request("idle", None, None, None, None)

Init ==
    /\ opts \in [Envs -> Opts]
    /\ \A e, f \in Envs : opts[e] = opts[f]
    /\ reg = [e \in Envs |-> EmptyRegistry]
    /\ loader = [e \in Envs |-> None]
    /\ heap = [a \in Addrs |-> None]
    /\ inline = [h \in HashKeys |-> None]
    /\ named = [k \in Keys |-> None]
    /\ run = [p \in Procs |-> Idle]

config == <<opts, reg, loader>>
caches == <<inline, named>>

Borrowed(e) == \E p \in Procs : run[p].pc # "idle" /\ run[p].env = e

-----------------------------------------------------------------------------
(* Configuration of an Environment: &mut self, hence of one not borrowed.  *)

SetOptions(e) ==
    /\ ~Borrowed(e)
    /\ \E o \in Opts : opts' = [opts EXCEPT ![e] = o]
    /\ UNCHANGED <<reg, loader, heap, caches, run>>

(* A rejected registration changes nothing.                                *)
RegisterExtension(e) ==
    /\ ~Borrowed(e)
    /\ \E r \in Registrations :
          /\ Accepts(reg[e], r.ext, r.specs)
          /\ reg' = [reg EXCEPT ![e] = Register(@, r.ext, r.specs)]
    /\ UNCHANGED <<opts, loader, heap, caches, run>>

RemoveExtension(e) ==
    /\ ~Borrowed(e)
    /\ \E x \in ExtNames : reg' = [reg EXCEPT ![e] = Unregister(@, x)]
    /\ UNCHANGED <<opts, loader, heap, caches, run>>

(* The new loader is allocated before the old one is dropped, so it takes  *)
(* an address no Environment refers to: a new one, or a recycled one.      *)
Allocatable(a) ==
    /\ \A e \in Envs : loader[e] # a
    /\ Recycles \/ heap[a] = None

PutLoader(e) ==
    \E a \in Addrs, l \in Loaders :
        /\ Allocatable(a)
        /\ heap' = [heap EXCEPT ![a] = l]
        /\ loader' = [loader EXCEPT ![e] = a]

(* The public field Environment::loader, assigned by a Rust embedder.      *)
AssignLoader(e) ==
    /\ ~Host
    /\ ~Borrowed(e)
    /\ PutLoader(e)
    /\ UNCHANGED <<opts, reg, caches, run>>

(* Mutant of SetLoader: the named cache is not cleared.                    *)
SetLoaderOnly(e) ==
    /\ Host
    /\ ~Borrowed(e)
    /\ PutLoader(e)
    /\ UNCHANGED <<opts, reg, caches, run>>

(* setTemplateMap, setLoaderRoot and setLoaderCallback: assign, then clear *)
(* the named cache, under the host's lock on the Environment.              *)
SetLoader(e) ==
    /\ Host
    /\ ~Borrowed(e)
    /\ PutLoader(e)
    /\ named' = [k \in Keys |-> None]
    /\ UNCHANGED <<opts, reg, inline, run>>

(* Clone for Environment: the target's former value is dropped.            *)
CloneEnv(e, f) ==
    /\ e # f /\ ~Borrowed(f)
    /\ opts' = [opts EXCEPT ![f] = opts[e]]
    /\ reg' = [reg EXCEPT ![f] = reg[e]]
    /\ loader' = [loader EXCEPT ![f] = loader[e]]
    /\ UNCHANGED <<heap, caches, run>>

(* A file is written or removed, a callback starts to answer differently.  *)
ChangeFile(a) ==
    /\ heap[a] # None /\ ~Stable(heap[a])
    /\ \E k \in Paths(heap[a].kind), s \in Sources \cup {None} :
          heap' = [heap EXCEPT ![a].files[k] = s]
    /\ UNCHANGED <<config, caches, run>>

(* clear_named_parse_cache, and the first half of invalidate_cache.  Both  *)
(* take &self: a render of any clone may be between two lock sections.     *)
ClearNamed ==
    /\ named' = [k \in Keys |-> None]
    /\ UNCHANGED <<config, heap, inline, run>>

(* The second half of invalidate_cache, under its own lock.                *)
ClearInline ==
    /\ inline' = [h \in HashKeys |-> None]
    /\ UNCHANGED <<config, heap, named, run>>

-----------------------------------------------------------------------------
(* A render: borrow an Environment, ask for any number of templates (the   *)
(* entry template, then its includes, imports and parents), return.        *)

Advance(p, label, src, key, res) ==
    run' = [run EXCEPT ![p] =
               [pc |-> label, env |-> @.env, how |-> @.how, name |-> @.name,
                src |-> src, key |-> key, res |-> res]]

Goto(p, label) == Advance(p, label, run[p].src, run[p].key, None)
Answer(p, ast) == Advance(p, "ready", run[p].src, run[p].key, ast)

Begin(p, e) ==
    /\ run[p].pc = "idle"
    /\ run' = [run EXCEPT ![p] = Request("ready", e, None, None, None)]
    /\ UNCHANGED <<config, heap, caches>>

Return(p) ==
    /\ run[p].pc = "ready"
    /\ run' = [run EXCEPT ![p] = Idle]
    /\ UNCHANGED <<config, heap, caches>>

AskInline(p, s) ==
    /\ run[p].pc = "ready"
    /\ run' = [run EXCEPT ![p] = Request("inline_lookup", @.env, "inline", None, s)]
    /\ UNCHANGED <<config, heap, caches>>

(* load_and_parse_named: a stable loader is looked up before it is read.   *)
AskNamed(p, n) ==
    /\ run[p].pc = "ready"
    /\ loader[run[p].env] # None
    /\ LET first == IF Stable(LoaderFor(p)) THEN "stable_lookup" ELSE "load"
       IN  run' = [run EXCEPT ![p] = Request(first, @.env, "named", n, None)]
    /\ UNCHANGED <<config, heap, caches>>

Signature(p) == SigOf(View(run[p].env))
LoaderId(p) == loader[run[p].env]
Fresh(p) == ParseOf(run[p].src, View(run[p].env))

(* Mutant of InlineHit: an entry of another configuration is a hit.        *)
InlineHitAnySig(p) ==
    LET c == inline[HashOf[run[p].src]]
    IN  c # None /\ c.src = run[p].src

InlineHit(p) ==
    LET c == inline[HashOf[run[p].src]]
    IN  c # None /\ c.sig = Signature(p) /\ c.src = run[p].src

(* The first lock section of parse_or_cached_inline.                       *)
InlineLookup(p) ==
    /\ run[p].pc = "inline_lookup"
    /\ IF InlineHit(p)
       THEN Answer(p, inline[HashOf[run[p].src]].ast)
       ELSE Goto(p, "inline_parse")
    /\ UNCHANGED <<config, heap, caches>>

(* Parsing reads the borrowed Environment only, so it and the second lock  *)
(* section are one step.  Errors are not cached.                           *)
InlineParse(p) ==
    /\ run[p].pc = "inline_parse"
    /\ Answer(p, Fresh(p))
    /\ inline' = IF Fresh(p).ok
                 THEN [inline EXCEPT ![HashOf[run[p].src]] =
                          [sig |-> Signature(p), src |-> run[p].src, ast |-> Fresh(p)]]
                 ELSE inline
    /\ UNCHANGED <<config, heap, named>>

(* Mutant of StableHit: an entry of another loader is a hit.               *)
StableHitAnyLoader(p) ==
    LET c == named[run[p].name]
    IN  c # None /\ c.sig = Signature(p)

StableHit(p) ==
    LET c == named[run[p].name]
    IN  c # None /\ c.sig = Signature(p) /\ c.loader = LoaderId(p)

(* The stable path of load_and_parse_named: a hit reads no source.         *)
StableLookup(p) ==
    /\ run[p].pc = "stable_lookup"
    /\ IF StableHit(p)
       THEN Answer(p, named[run[p].name].ast)
       ELSE Goto(p, "load")
    /\ UNCHANGED <<config, heap, caches>>

(* TemplateLoader::load; an error ends the request.                        *)
LoadSource(p) ==
    /\ run[p].pc = "load"
    /\ LET s == Load(LoaderFor(p), run[p].name)
       IN  IF s = None THEN Answer(p, Failed) ELSE Advance(p, "key", s, None, None)
    /\ UNCHANGED <<config, heap, caches>>

(* The key is taken after the source: a file may have gone in between.     *)
TakeKey(p) ==
    /\ run[p].pc = "key"
    /\ LET k == CacheKey(LoaderFor(p), run[p].name)
       IN  Advance(p, "named_lookup", run[p].src, k, None)
    /\ UNCHANGED <<config, heap, caches>>

(* Mutant of NamedHit: an entry of another source is a hit.                *)
NamedHitAnySource(p) ==
    LET c == named[run[p].key]
    IN  c # None /\ c.sig = Signature(p) /\ c.loader = LoaderId(p)

NamedHit(p) ==
    LET c == named[run[p].key]
    IN  /\ c # None
        /\ c.sig = Signature(p) /\ c.loader = LoaderId(p) /\ c.src = run[p].src

(* parse_with_named_cache_precomputed: without a key, parse and keep       *)
(* nothing; with one, its first lock section.                              *)
NamedLookup(p) ==
    /\ run[p].pc = "named_lookup"
    /\ IF run[p].key = None THEN Answer(p, Fresh(p))
       ELSE IF NamedHit(p)  THEN Answer(p, named[run[p].key].ast)
       ELSE Goto(p, "named_parse")
    /\ UNCHANGED <<config, heap, caches>>

(* The parse and the second lock section.                                  *)
NamedParse(p) ==
    /\ run[p].pc = "named_parse"
    /\ Answer(p, Fresh(p))
    /\ named' = IF Fresh(p).ok
                THEN [named EXCEPT ![run[p].key] =
                         [sig |-> Signature(p), src |-> run[p].src,
                          loader |-> LoaderId(p), ast |-> Fresh(p)]]
                ELSE named
    /\ UNCHANGED <<config, heap, inline>>

-----------------------------------------------------------------------------
Configure(e) ==
    \/ SetOptions(e)
    \/ RegisterExtension(e)
    \/ RemoveExtension(e)
    \/ AssignLoader(e)
    \/ SetLoader(e)
    \/ \E f \in Envs : CloneEnv(e, f)

Resolve(p) ==
    \/ \E e \in Envs : Begin(p, e)
    \/ Return(p)
    \/ \E s \in Sources : AskInline(p, s)
    \/ \E n \in Names : AskNamed(p, n)
    \/ InlineLookup(p)
    \/ InlineParse(p)
    \/ StableLookup(p)
    \/ LoadSource(p)
    \/ TakeKey(p)
    \/ NamedLookup(p)
    \/ NamedParse(p)

Next ==
    \/ \E e \in Envs : Configure(e)
    \/ \E a \in Addrs : ChangeFile(a)
    \/ ClearNamed
    \/ ClearInline
    \/ \E p \in Procs : Resolve(p)

Spec == Init /\ [][Next]_vars

-----------------------------------------------------------------------------
(* Type invariant.                                                         *)
Sigs == [opts : Opts, tags : SUBSET Tags, closing : SUBSET Tags]
Asts == {Failed} \cup
        [ok : {TRUE}, src : Sources, opts : Opts,
         owners : UNION {[T -> ExtNames] : T \in SUBSET Tags}]

InlineEntry == [sig : Sigs, src : Sources, ast : Asts]
NamedEntry == [sig : Sigs, src : Sources, loader : Addrs, ast : Asts]

Labels == {"idle", "ready", "inline_lookup", "inline_parse", "stable_lookup",
           "load", "key", "named_lookup", "named_parse"}

Runs == [pc : Labels, env : Envs \cup {None},
         how : {"inline", "named", None}, name : Names \cup {None},
         src : Sources \cup {None}, key : Keys \cup {None},
         res : Asts \cup {None}]

(* The source an answer has to be the parse of: what the loader holds if   *)
(* its keys are stable, and what was read if they are not.                 *)
Asked(p) ==
    IF run[p].how = "named" /\ Stable(LoaderFor(p))
    THEN Load(LoaderFor(p), run[p].name)
    ELSE run[p].src

Expected(p) == IF Asked(p) = None THEN Failed ELSE ParseOf(Asked(p), View(run[p].env))

Current(p) ==
    run[p].pc = "ready" /\ run[p].res # None => run[p].res = Expected(p)

(* A cached AST is what this Environment would parse from this template    *)
(* now: no interleaving of renders, configuration of clones, loader        *)
(* replacement, file changes and invalidation lets a render run an AST of  *)
(* another source or another configuration.  This is render_parsed's       *)
(* "caller must use the same environment configuration as when the AST was *)
(* produced", which render_string and render_template owe it.              *)
AnswerIsCurrent == \A p \in Procs : Current(p)

(* The renderer finds a handler for every extension tag of the AST it got  *)
(* (else it stops with "unknown extension").                               *)
HandlersPresent ==
    \A p \in Procs : run[p].pc = "ready" /\ run[p].res # None /\ run[p].res.ok =>
        \A t \in DOMAIN run[p].res.owners :
            run[p].res.owners[t] \in reg[run[p].env].handlers

(* Every registry any sequence of accepted and rejected registrations,     *)
(* removals and clones leads to has agreeing maps.                         *)
RegistriesAgree == \A e \in Envs : RegistryOK(reg[e])
=============================================================================
