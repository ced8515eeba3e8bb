------------------------- MODULE ParseCache_proofs -------------------------
(***************************************************************************)
(* Proofs about ParseCacheSound: IInv is an inductive invariant, so every  *)
(* answer of the parse caches is current, for any number of clones,        *)
(* renders, sources, names, addresses and extensions.                      *)
(***************************************************************************)
EXTENDS ParseCacheSound, TLAPS

-----------------------------------------------------------------------------
(* Extensions: the registry operations keep the registry well formed.      *)

(* TagsWithout yields a tag map that holds nothing new.                    *)
LEMMA TagsWithoutType ==
    ASSUME NEW tags \in [Tags -> Meta \cup {NoMeta}], NEW x
    PROVE  /\ TagsWithout(tags, x) \in [Tags -> Meta \cup {NoMeta}]
           /\ \A t \in Tags : TagsWithout(tags, x)[t] \in {tags[t], NoMeta}
BY DEF TagsWithout

(* The closing names of a tag map are tags.                                *)
LEMMA ClosingTagsType ==
    ASSUME NEW tags \in [Tags -> Meta \cup {NoMeta}]
    PROVE  ClosingTags(tags) \subseteq Tags
BY DEF ClosingTags, OpeningTags, Meta

(* A specification's tag map holds either what TagsWithout left or the new *)
(* registration of the tag.                                                *)
LEMMA TagsWithType ==
    ASSUME NEW tags \in [Tags -> Meta \cup {NoMeta}],
           NEW x \in ExtNames, NEW specs \in Seq(TagSpec)
    PROVE  /\ TagsWith(tags, x, specs) \in [Tags -> Meta \cup {NoMeta}]
           /\ \A t \in Tags :
                 \/ TagsWith(tags, x, specs)[t] \in {tags[t], NoMeta}
                 \/ \E i \in DOMAIN specs :
                       /\ specs[i].tag = t
                       /\ TagsWith(tags, x, specs)[t]
                             = [owner |-> x, end |-> specs[i].end]
<1> DEFINE With == TagsWith(tags, x, specs)
<1>1. ASSUME NEW t \in Tags, NEW j \in DOMAIN specs, specs[j].tag = t
      PROVE  \E i \in DOMAIN specs :
                /\ specs[i].tag = t
                /\ With[t] = [owner |-> x, end |-> specs[i].end]
                /\ With[t] \in Meta
  <2> DEFINE i == CHOOSE i \in DOMAIN specs : specs[i].tag = t
  <2>1. i \in DOMAIN specs /\ specs[i].tag = t
    BY <1>1
  <2>2. With[t] = [owner |-> x, end |-> specs[i].end]
    BY <1>1 DEF TagsWith
  <2>3. specs[i] \in TagSpec
    BY <2>1
  <2>4. With[t] \in Meta
    BY <2>2, <2>3 DEF TagSpec, Meta
  <2> QED
    BY <2>1, <2>2, <2>4
<1>2. ASSUME NEW t \in Tags, ~ \E j \in DOMAIN specs : specs[j].tag = t
      PROVE  With[t] \in {tags[t], NoMeta}
  BY <1>2, TagsWithoutType DEF TagsWith
<1>3. With = [t \in Tags |-> With[t]]
  BY DEF TagsWith
<1>4. \A t \in Tags : With[t] \in Meta \cup {NoMeta}
  BY <1>1, <1>2
<1>5. With \in [Tags -> Meta \cup {NoMeta}]
  BY <1>3, <1>4
<1>6. \A t \in Tags :
         \/ With[t] \in {tags[t], NoMeta}
         \/ \E i \in DOMAIN specs :
               /\ specs[i].tag = t
               /\ With[t] = [owner |-> x, end |-> specs[i].end]
  BY <1>1, <1>2
<1> QED
  BY <1>5, <1>6

(* Removing an extension: its tags, their closing names and its handler go *)
(* together.                                                               *)
LEMMA RemoveGood ==
    ASSUME NEW g \in Registry, RegistryOK(g), NEW x \in ExtNames
    PROVE  Unregister(g, x) \in Registry /\ RegistryOK(Unregister(g, x))
<1> DEFINE tags == TagsWithout(g.tags, x)
<1>1. g.tags \in [Tags -> Meta \cup {NoMeta}]
  BY DEF Registry
<1>2. tags \in [Tags -> Meta \cup {NoMeta}]
  BY <1>1, TagsWithoutType
<1>3. ClosingTags(tags) \subseteq Tags
  BY <1>2, ClosingTagsType
<1>4. \A t \in Tags : tags[t] = IF g.tags[t] # NoMeta /\ g.tags[t].owner = x
                                THEN NoMeta ELSE g.tags[t]
  BY DEF TagsWithout
<1>5. Unregister(g, x) \in Registry
  BY <1>2, <1>3 DEF Unregister, Registry
<1>6. g.handlers \ {x} = {tags[t].owner : t \in OpeningTags(tags)}
  BY <1>4 DEF RegistryOK, OpeningTags
<1>7. (OpeningTags(tags) \cup ClosingTags(tags)) \cap Reserved = {}
  <2>1. OpeningTags(tags) \subseteq OpeningTags(g.tags)
    BY <1>4 DEF OpeningTags
  <2>2. \A t \in OpeningTags(tags) : tags[t] = g.tags[t]
    BY <1>4 DEF OpeningTags
  <2>3. ClosingTags(tags) \subseteq g.closing
    BY <2>1, <2>2 DEF ClosingTags, RegistryOK
  <2> QED
    BY <2>1, <2>3 DEF RegistryOK
<1> QED
  BY <1>5, <1>6, <1>7 DEF RegistryOK, Unregister

(* Registering an extension whose specification was accepted: no tag of    *)
(* another extension is lost, so every other handler keeps its tags.       *)
LEMMA RegisterGood ==
    ASSUME NEW g \in Registry, RegistryOK(g), NEW x \in ExtNames,
           NEW specs \in Seq(TagSpec), Accepts(g, x, specs)
    PROVE  Register(g, x, specs) \in Registry /\ RegistryOK(Register(g, x, specs))
<1> DEFINE tags == TagsWith(g.tags, x, specs)
<1>1. g.tags \in [Tags -> Meta \cup {NoMeta}]
  BY DEF Registry
<1>2. tags \in [Tags -> Meta \cup {NoMeta}]
  BY <1>1, TagsWithType
<1>3. ClosingTags(tags) \subseteq Tags
  BY <1>2, ClosingTagsType
<1>4. Register(g, x, specs) \in Registry
  BY <1>2, <1>3 DEF Register, Registry
<1>5. ASSUME NEW t \in OpeningTags(tags)
      PROVE  \/ t \in OpeningTags(g.tags) /\ tags[t] = g.tags[t]
             \/ \E i \in DOMAIN specs :
                   specs[i].tag = t /\ tags[t] = [owner |-> x, end |-> specs[i].end]
  BY <1>1, <1>5, TagsWithType DEF OpeningTags
<1>6. ASSUME NEW t \in OpeningTags(g.tags), g.tags[t].owner # x
      PROVE  t \in OpeningTags(tags) /\ tags[t] = g.tags[t]
  <2>1. t \notin SpecTags(specs)
    BY <1>6 DEF Accepts
  <2>2. ~ \E i \in DOMAIN specs : specs[i].tag = t
    BY <2>1 DEF SpecTags
  <2> QED
    BY <1>6, <2>2 DEF TagsWith, TagsWithout, OpeningTags
<1>7. x \in {tags[t].owner : t \in OpeningTags(tags)}
  <2>1. 1 \in DOMAIN specs /\ specs[1] \in TagSpec
    BY DEF Accepts
  <2> DEFINE t == specs[1].tag
  <2>2. t \in Tags
    BY <2>1 DEF TagSpec
  <2> DEFINE i == CHOOSE i \in DOMAIN specs : specs[i].tag = t
  <2>3. i \in DOMAIN specs /\ specs[i] \in TagSpec
    BY <2>1
  <2>4. tags[t] = [owner |-> x, end |-> specs[i].end]
    BY <2>1, <2>2 DEF TagsWith
  <2>5. tags[t] \in Meta
    BY <2>3, <2>4 DEF TagSpec, Meta
  <2>6. t \in OpeningTags(tags)
    BY <2>2, <2>5, TagConstants DEF OpeningTags, Meta
  <2>7. tags[t].owner = x
    BY <2>4
  <2> QED
    BY <2>6, <2>7
<1>8. g.handlers \cup {x} = {tags[t].owner : t \in OpeningTags(tags)}
  <2>1. ASSUME NEW y \in g.handlers, y # x
        PROVE  y \in {tags[t].owner : t \in OpeningTags(tags)}
    <3>1. PICK t \in OpeningTags(g.tags) : g.tags[t].owner = y
      BY DEF RegistryOK
    <3> QED
      BY <1>6, <2>1, <3>1
  <2>2. ASSUME NEW t \in OpeningTags(tags)
        PROVE  tags[t].owner \in g.handlers \cup {x}
    <3>1. CASE t \in OpeningTags(g.tags) /\ tags[t] = g.tags[t]
      BY <3>1 DEF RegistryOK
    <3>2. CASE \E i \in DOMAIN specs : tags[t] = [owner |-> x, end |-> specs[i].end]
      BY <3>2
    <3> QED
      BY <1>5, <3>1, <3>2
  <2> QED
    BY <1>7, <2>1, <2>2
<1>9. (OpeningTags(tags) \cup ClosingTags(tags)) \cap Reserved = {}
  <2>1. ASSUME NEW t \in OpeningTags(tags)
        PROVE  t \notin Reserved /\ (tags[t].end # NoTag => tags[t].end \notin Reserved)
    <3>1. CASE t \in OpeningTags(g.tags) /\ tags[t] = g.tags[t]
      BY <3>1 DEF RegistryOK, ClosingTags
    <3>2. CASE \E i \in DOMAIN specs :
                  specs[i].tag = t /\ tags[t] = [owner |-> x, end |-> specs[i].end]
      BY <3>2 DEF Accepts
    <3> QED
      BY <1>5, <3>1, <3>2
  <2> QED
    BY <2>1 DEF ClosingTags
<1> QED
  BY <1>4, <1>8, <1>9 DEF RegistryOK, Register

-----------------------------------------------------------------------------
(* Parsing, signatures and loaders.                                        *)

ViewType == [opts : Opts, tags : [Tags -> Meta \cup {NoMeta}], closing : SUBSET Tags]

(* Parsing a source yields an AST or the error.                            *)
LEMMA ParseType ==
    ASSUME NEW s \in Sources, NEW v \in ViewType
    PROVE  ParseOf(s, v) \in Asts
<1> DEFINE shape == ShapeOf[s]
           T == {shape.open, shape.close} \cap OpeningTags(v.tags)
<1>1. T \subseteq Tags /\ \A t \in T : v.tags[t] \in Meta
  BY DEF OpeningTags, ViewType
<1>2. OwnersIn(v, shape) \in [T -> ExtNames]
  BY <1>1 DEF OwnersIn, Meta
<1>3. OwnersIn(v, shape) \in UNION {[U -> ExtNames] : U \in SUBSET Tags}
  BY <1>1, <1>2
<1>4. v.opts \in Opts
  BY DEF ViewType
<1> QED
  BY <1>3, <1>4 DEF ParseOf, Asts

(* Under one registration per keyword, a signature stands for exactly one  *)
(* configuration: the reason why comparing signatures is enough.           *)
LEMMA SignatureDeterminesView ==
    ASSUME TypeOK, Homed, NEW e \in Envs
    PROVE  /\ View(e) \in ViewType
           /\ SigOf(View(e)) \in Sigs
           /\ ViewOfSig(SigOf(View(e))) = View(e)
<1>1. reg[e] \in Registry /\ opts[e] \in Opts
  BY DEF TypeOK
<1>2. View(e) \in ViewType
  BY <1>1 DEF View, ViewOf, ViewType, Registry
<1>3. SigOf(View(e)) \in Sigs
  BY <1>2 DEF SigOf, Sigs, ViewType, OpeningTags
<1>4. \A t \in Tags : reg[e].tags[t] =
         IF t \in OpeningTags(reg[e].tags) THEN Home[t] ELSE NoMeta
  BY DEF Homed, OpeningTags
<1>5. reg[e].tags = [t \in Tags |-> reg[e].tags[t]]
  BY <1>1 DEF Registry
<1>6. reg[e].tags =
         [t \in Tags |-> IF t \in OpeningTags(reg[e].tags) THEN Home[t] ELSE NoMeta]
  BY <1>4, <1>5
<1>7. ViewOfSig(SigOf(View(e))) = View(e)
  BY <1>6 DEF ViewOfSig, SigOf, View, ViewOf
<1> QED
  BY <1>2, <1>3, <1>7

(* A loader's kind and files.                                              *)
LEMMA LoaderType ==
    ASSUME NEW l \in Loaders
    PROVE  /\ l.kind \in Kinds
           /\ l.files \in [Paths(l.kind) -> Sources \cup {None}]
           /\ l = [kind |-> l.kind, files |-> l.files]
BY DEF Loaders

(* Loading a name yields a source or nothing.                              *)
LEMMA LoadType ==
    ASSUME NEW l \in Loaders, NEW n \in Names
    PROVE  Load(l, n) \in Sources \cup {None}
<1>1. PathOf(l, n) \in Paths(l.kind)
  BY DEF PathOf, Paths
<1> QED
  BY <1>1, LoaderType DEF Load

(* A stable loader holds a template under its name and keys it by it.      *)
LEMMA StableLoad ==
    ASSUME NEW l, NEW n, Stable(l)
    PROVE  Load(l, n) = l.files[n] /\ CacheKey(l, n) = n
BY DEF Stable, Load, PathOf, CacheKey

(* A cache key is a key or nothing.                                        *)
LEMMA CacheKeyType ==
    ASSUME NEW l \in Loaders, NEW n \in Names
    PROVE  CacheKey(l, n) \in Keys \cup {None}
<1>1. l.kind \in {"map", "fs", "callback"}
  BY LoaderType, CacheConstants
<1>2. n \in Keys /\ Canonical[n] \in Keys
  BY CacheConstants
<1> QED
  BY <1>1, <1>2 DEF CacheKey, PathOf

(* Writing a file leaves a loader a loader of the same kind.               *)
LEMMA ChangedLoaderType ==
    ASSUME NEW l \in Loaders, NEW k \in Paths(l.kind), NEW s \in Sources \cup {None}
    PROVE  /\ [l EXCEPT !.files[k] = s] \in Loaders
           /\ [l EXCEPT !.files[k] = s].kind = l.kind
<1> DEFINE m == [l EXCEPT !.files[k] = s]
<1>1. m = [kind |-> l.kind, files |-> [l.files EXCEPT ![k] = s]]
  BY LoaderType
<1>2. [l.files EXCEPT ![k] = s] \in [Paths(l.kind) -> Sources \cup {None}]
  BY LoaderType
<1>3. m \in [kind : {l.kind}, files : [Paths(l.kind) -> Sources \cup {None}]]
  BY <1>1, <1>2
<1>4. l.kind \in Kinds
  BY LoaderType
<1> QED
  BY <1>1, <1>3, <1>4 DEF Loaders

(* The loader of an Environment that has one.                              *)
LEMMA LiveLoader ==
    ASSUME TypeOK, LoadersLive, NEW e \in Envs, loader[e] # None
    PROVE  loader[e] \in Addrs /\ heap[loader[e]] \in Loaders
BY DEF TypeOK, LoadersLive

-----------------------------------------------------------------------------
(* Steps of one render.                                                    *)

OthersCurrent(p) == \A q \in Procs : q # p => Current(q)

(* The answers of the other renders are current, whatever a render holds.  *)
LEMMA OthersAreCurrent == IInv => CacheInv /\ \A p \in Procs : OthersCurrent(p)
BY DEF IInv, AnswerIsCurrent, OthersCurrent

(* What a step that only moves one render on has to show.                  *)
LEMMA RunStep ==
    ASSUME CacheInv, NEW p \in Procs, OthersCurrent(p), NEW R \in Runs,
           run' = [run EXCEPT ![p] = R],
           UNCHANGED <<config, heap>>,
           RunSound(p)', Current(p)'
    PROVE  run' \in [Procs -> Runs] /\ RunsSound' /\ AnswerIsCurrent'
<1>1. run' \in [Procs -> Runs]
  BY DEF CacheInv, TypeOK
<1>2. ASSUME NEW q \in Procs, q # p
      PROVE  RunSound(q)' /\ Current(q)'
  <2>1. run'[q] = run[q]
    BY <1>2 DEF CacheInv, TypeOK
  <2>2. RunSound(q) /\ Current(q)
    BY <1>2 DEF CacheInv, RunsSound, OthersCurrent
  <2>3. LoaderFor(q)' = LoaderFor(q)
    BY <2>1 DEF config, LoaderFor
  <2>4. RunSound(q)'
    BY <2>1, <2>2, <2>3 DEF RunSound, config
  <2>5. Current(q)'
    BY <2>1, <2>2, <2>3 DEF Current, Expected, Asked, View, config
  <2> QED
    BY <2>4, <2>5
<1> QED
  BY <1>1, <1>2 DEF RunsSound, AnswerIsCurrent

(* The invariant's parts that a step leaving everything but runs alone     *)
(* keeps.                                                                  *)
LEMMA OnlyRunChanges ==
    ASSUME CacheInv, UNCHANGED <<config, heap, caches>>,
           run' \in [Procs -> Runs], RunsSound', AnswerIsCurrent'
    PROVE  IInv'
BY DEF IInv, CacheInv, config, caches, TypeOK, RegistriesAgree, Homed, LoadersLive,
       InlineEntriesSound, NamedEntriesSound

(* A render borrows an Environment: only its own registers change.         *)
LEMMA BeginStep ==
    ASSUME IInv, NEW p \in Procs, NEW e \in Envs, Begin(p, e)
    PROVE  IInv'
<1> DEFINE R == Request("ready", e, None, None, None)
<1>1. R \in Runs
  BY DEF Request, Runs, Labels
<1>2. run' = [run EXCEPT ![p] = R] /\ UNCHANGED <<config, heap, caches>>
  BY DEF Begin
<1>3. run'[p] = R
  BY <1>2 DEF IInv, CacheInv, TypeOK
<1>4. RunSound(p)'
  BY <1>3, CacheConstants DEF RunSound, Request, Reading, Read
<1>5. Current(p)'
  BY <1>3 DEF Current, Request
<1> QED
  BY <1>1, <1>2, <1>4, <1>5, OthersAreCurrent, RunStep, OnlyRunChanges

(* A render returns the Environment it borrowed.                           *)
LEMMA ReturnStep ==
    ASSUME CacheInv, NEW p \in Procs, OthersCurrent(p), Return(p)
    PROVE  IInv'
<1>1. Idle \in Runs
  BY DEF Idle, Request, Runs, Labels
<1>2. run' = [run EXCEPT ![p] = Idle] /\ UNCHANGED <<config, heap, caches>>
  BY DEF Return
<1>3. run'[p] = Idle
  BY <1>2 DEF CacheInv, TypeOK
<1>4. RunSound(p)'
  BY <1>3, CacheConstants DEF RunSound, Idle, Request, Reading, Read
<1>5. Current(p)'
  BY <1>3 DEF Current, Idle, Request
<1> QED
  BY <1>1, <1>2, <1>4, <1>5, RunStep, OnlyRunChanges

(* A request for an inline source carries no name and no key.              *)
LEMMA AskInlineStep ==
    ASSUME CacheInv, NEW p \in Procs, OthersCurrent(p), NEW s \in Sources, AskInline(p, s)
    PROVE  IInv'
<1> DEFINE R == Request("inline_lookup", run[p].env, "inline", None, s)
<1>1. run[p] \in Runs /\ run[p].env \in Envs
  BY DEF CacheInv, TypeOK, RunsSound, RunSound, AskInline
<1>2. R \in Runs
  BY <1>1 DEF Request, Runs, Labels
<1>3. run' = [run EXCEPT ![p] = R] /\ UNCHANGED <<config, heap, caches>>
  BY DEF AskInline
<1>4. run'[p] = R
  BY <1>3 DEF CacheInv, TypeOK
<1>5. RunSound(p)'
  BY <1>1, <1>4 DEF RunSound, Request, Reading, Read
<1>6. Current(p)'
  BY <1>4 DEF Current, Request
<1> QED
  BY <1>2, <1>3, <1>5, <1>6, RunStep, OnlyRunChanges

(* A request for a name starts at the lookup of a stable loader or at the load. *)
LEMMA AskNamedStep ==
    ASSUME CacheInv, NEW p \in Procs, OthersCurrent(p), NEW n \in Names, AskNamed(p, n)
    PROVE  IInv'
<1> DEFINE first == IF Stable(LoaderFor(p)) THEN "stable_lookup" ELSE "load"
           R == Request(first, run[p].env, "named", n, None)
<1>1. run[p] \in Runs /\ run[p].env \in Envs /\ loader[run[p].env] # None
  BY DEF CacheInv, TypeOK, RunsSound, RunSound, AskNamed
<1>2. R \in Runs
  BY <1>1 DEF Request, Runs, Labels
<1>3. run' = [run EXCEPT ![p] = R] /\ UNCHANGED <<config, heap, caches>>
  BY DEF AskNamed
<1>4. run'[p] = R
  BY <1>3 DEF CacheInv, TypeOK
<1>5. LoaderFor(p)' = LoaderFor(p) /\ loader'[run'[p].env] # None
  BY <1>1, <1>3, <1>4 DEF LoaderFor, Request, config
<1>6. RunSound(p)'
  BY <1>1, <1>4, <1>5 DEF RunSound, Request, Reading, Read
<1>7. Current(p)'
  BY <1>4 DEF Current, Request
<1> QED
  BY <1>2, <1>3, <1>6, <1>7, RunStep, OnlyRunChanges

(* The registers after Advance, and what does not move with them.          *)
LEMMA AdvanceRegisters ==
    ASSUME IInv, NEW p \in Procs, run[p].pc # "idle",
           NEW label \in Labels, NEW src \in Sources \cup {None},
           NEW key \in Keys \cup {None}, NEW res \in Asts \cup {None},
           Advance(p, label, src, key, res), UNCHANGED <<config, heap>>
    PROVE  /\ \E R \in Runs : run' = [run EXCEPT ![p] = R]
           /\ run'[p] = [pc |-> label, env |-> run[p].env, how |-> run[p].how,
                         name |-> run[p].name, src |-> src, key |-> key, res |-> res]
           /\ run[p].env \in Envs
           /\ LoaderFor(p)' = LoaderFor(p)
           /\ loader'[run'[p].env] = loader[run[p].env]
           /\ View(run[p].env)' = View(run[p].env)
<1> DEFINE R == [pc |-> label, env |-> run[p].env, how |-> run[p].how,
                 name |-> run[p].name, src |-> src, key |-> key, res |-> res]
<1>1. run[p] \in Runs /\ run[p].env \in Envs
  BY DEF IInv, CacheInv, TypeOK, RunsSound, RunSound
<1>2. R \in Runs
  BY <1>1 DEF Runs
<1>3. run' = [run EXCEPT ![p] = R]
  BY DEF Advance
<1>4. run'[p] = R
  BY <1>3 DEF IInv, CacheInv, TypeOK
<1>5. LoaderFor(p)' = LoaderFor(p) /\ loader'[run'[p].env] = loader[run[p].env]
  BY <1>4 DEF LoaderFor, config
<1>6. View(run[p].env)' = View(run[p].env)
  BY <1>4 DEF View, config
<1> QED
  BY <1>1, <1>2, <1>3, <1>4, <1>5, <1>6

(* A step of a request that is not over only has to show what its new      *)
(* label requires.                                                         *)
LEMMA PendingStep ==
    ASSUME IInv, NEW p \in Procs, run[p].pc # "idle",
           NEW label \in Labels \ {"idle", "ready"}, NEW src \in Sources \cup {None},
           NEW key \in Keys \cup {None},
           Advance(p, label, src, key, None), UNCHANGED <<config, heap, caches>>,
           RunSound(p)'
    PROVE  IInv'
<1>1. PICK R \in Runs : run' = [run EXCEPT ![p] = R]
  BY AdvanceRegisters
<1>2. run'[p] = [pc |-> label, env |-> run[p].env, how |-> run[p].how,
                 name |-> run[p].name, src |-> src, key |-> key, res |-> None]
  BY AdvanceRegisters
<1>3. Current(p)'
  BY <1>2 DEF Current
<1> QED
  BY <1>1, <1>3, OthersAreCurrent, RunStep, OnlyRunChanges

(* An answer only has to be the expected one.                              *)
LEMMA AnswerStep ==
    ASSUME IInv, NEW p \in Procs, run[p].pc # "idle", NEW ast \in Asts,
           Answer(p, ast), UNCHANGED <<config, heap>>,
           run[p].how = "named" \/ run[p].how = "inline",
           ast = Expected(p)
    PROVE  run' \in [Procs -> Runs] /\ RunsSound' /\ AnswerIsCurrent'
<1>1. run[p].src \in Sources \cup {None} /\ run[p].key \in Keys \cup {None}
  BY DEF IInv, CacheInv, TypeOK, Runs
<1>2. /\ Advance(p, "ready", run[p].src, run[p].key, ast)
      /\ "ready" \in Labels
  BY DEF Answer, Labels
<1>3. PICK R \in Runs : run' = [run EXCEPT ![p] = R]
  BY <1>1, <1>2, AdvanceRegisters
<1>4. /\ run'[p] = [pc |-> "ready", env |-> run[p].env, how |-> run[p].how,
                    name |-> run[p].name, src |-> run[p].src, key |-> run[p].key,
                    res |-> ast]
      /\ run[p].env \in Envs
      /\ LoaderFor(p)' = LoaderFor(p)
      /\ loader'[run'[p].env] = loader[run[p].env]
      /\ View(run[p].env)' = View(run[p].env)
  BY <1>1, <1>2, AdvanceRegisters
<1>5. RunSound(p)
  BY DEF IInv, CacheInv, RunsSound
<1>6. RunSound(p)'
  BY <1>4, <1>5 DEF RunSound, Reading, Read
<1>7. Expected(p)' = Expected(p)
  BY <1>4 DEF Expected, Asked
<1>8. Current(p)'
  BY <1>4, <1>7 DEF Current
<1> QED
  BY <1>3, <1>6, <1>8, OthersAreCurrent, RunStep

(* What was read is what a stable loader holds, since it cannot change.    *)
LEMMA LoadSourceStep ==
    ASSUME IInv, NEW p \in Procs, LoadSource(p)
    PROVE  IInv'
<1> DEFINE s == Load(LoaderFor(p), run[p].name)
<1>1. /\ run[p].pc = "load" /\ run[p].how = "named" /\ run[p].name \in Names
      /\ run[p].env \in Envs /\ loader[run[p].env] # None
  BY DEF LoadSource, IInv, CacheInv, RunsSound, RunSound, Reading
<1>2. LoaderFor(p) \in Loaders
  BY <1>1, LiveLoader DEF IInv, CacheInv, LoaderFor
<1>3. s \in Sources \cup {None}
  BY <1>1, <1>2, LoadType
<1>4. UNCHANGED <<config, heap, caches>>
  BY DEF LoadSource
<1>5. CASE s = None
  <2>1. Answer(p, Failed)
    BY <1>5 DEF LoadSource
  <2>2. run[p].src = None
    BY <1>1 DEF IInv, CacheInv, RunsSound, RunSound
  <2>3. Asked(p) = None
    BY <1>1, <1>5, <2>2 DEF Asked
  <2>4. Failed = Expected(p) /\ Failed \in Asts
    BY <2>3 DEF Expected, Asts
  <2> QED
    BY <1>1, <1>4, <2>1, <2>4, AnswerStep, OthersAreCurrent, OnlyRunChanges
<1>6. CASE s # None
  <2>1. Advance(p, "key", s, None, None)
    BY <1>6 DEF LoadSource
  <2>2. "key" \in Labels \ {"idle", "ready"}
    BY DEF Labels
  <2>3. /\ run'[p] = [pc |-> "key", env |-> run[p].env, how |-> run[p].how,
                      name |-> run[p].name, src |-> s, key |-> None, res |-> None]
        /\ LoaderFor(p)' = LoaderFor(p)
        /\ loader'[run'[p].env] = loader[run[p].env]
    BY <1>1, <1>3, <1>4, <2>1, <2>2, AdvanceRegisters
  <2>4. RunSound(p)'
    BY <1>1, <1>3, <1>6, <2>3 DEF RunSound, Reading, Read
  <2> QED
    BY <1>1, <1>3, <1>4, <2>1, <2>2, <2>4, PendingStep
<1> QED
  BY <1>5, <1>6

(* The key of a stable loader is the name it was asked for.                *)
LEMMA TakeKeyStep ==
    ASSUME IInv, NEW p \in Procs, TakeKey(p)
    PROVE  IInv'
<1> DEFINE k == CacheKey(LoaderFor(p), run[p].name)
<1>1. /\ run[p].pc = "key" /\ run[p].how = "named" /\ run[p].name \in Names
      /\ run[p].env \in Envs /\ loader[run[p].env] # None
      /\ run[p].src \in Sources
      /\ Stable(LoaderFor(p)) => run[p].src = Load(LoaderFor(p), run[p].name)
  BY DEF TakeKey, IInv, CacheInv, RunsSound, RunSound, Reading, Read
<1>2. LoaderFor(p) \in Loaders
  BY <1>1, LiveLoader DEF IInv, CacheInv, LoaderFor
<1>3. k \in Keys \cup {None} /\ (Stable(LoaderFor(p)) => k = run[p].name)
  BY <1>1, <1>2, CacheKeyType, StableLoad
<1>4. Advance(p, "named_lookup", run[p].src, k, None) /\ UNCHANGED <<config, heap, caches>>
  BY DEF TakeKey
<1>5. "named_lookup" \in Labels \ {"idle", "ready"}
  BY DEF Labels
<1>6. /\ run'[p] = [pc |-> "named_lookup", env |-> run[p].env, how |-> run[p].how,
                    name |-> run[p].name, src |-> run[p].src, key |-> k, res |-> None]
      /\ LoaderFor(p)' = LoaderFor(p)
      /\ loader'[run'[p].env] = loader[run[p].env]
  BY <1>1, <1>3, <1>4, <1>5, AdvanceRegisters
<1>7. RunSound(p)'
  BY <1>1, <1>3, <1>6 DEF RunSound, Reading, Read
<1> QED
  BY <1>1, <1>3, <1>4, <1>5, <1>7, PendingStep

(* A hit by signature and address alone is the parse of what the loader    *)
(* holds.                                                                  *)
LEMMA StableHitIsHeld ==
    ASSUME IInv, NEW p \in Procs, run[p].pc = "stable_lookup", StableHit(p)
    PROVE  LET c == named[run[p].name]
           IN  /\ c.src \in Sources /\ c.ast \in Asts
               /\ c.src = Load(LoaderFor(p), run[p].name)
               /\ c.ast = ParseOf(c.src, View(run[p].env))
<1> DEFINE e == run[p].env
           n == run[p].name
           c == named[n]
<1>1. /\ n \in Names /\ e \in Envs /\ loader[e] # None /\ Stable(LoaderFor(p))
  BY DEF IInv, CacheInv, RunsSound, RunSound, Reading
<1>2. /\ c # None /\ c.sig = SigOf(View(e)) /\ c.loader = loader[e]
  BY DEF StableHit, Signature, LoaderId
<1>3. n \in Keys
  BY <1>1, CacheConstants
<1>4. c \in NamedEntry
  BY <1>2, <1>3 DEF IInv, CacheInv, TypeOK
<1>5. c.ast = ParseOf(c.src, ViewOfSig(c.sig)) /\ LoaderFor(p).files[n] = c.src
  BY <1>1, <1>2, <1>3 DEF IInv, CacheInv, NamedEntriesSound, LoaderFor
<1>6. ViewOfSig(c.sig) = View(e)
  BY <1>1, <1>2, SignatureDeterminesView DEF IInv, CacheInv
<1> QED
  BY <1>1, <1>4, <1>5, <1>6, StableLoad DEF NamedEntry

(* So the answer without a load is the expected one.                       *)
LEMMA StableLookupStep ==
    ASSUME IInv, NEW p \in Procs, StableLookup(p)
    PROVE  IInv'
<1> DEFINE e == run[p].env
           n == run[p].name
<1>1. /\ run[p].pc = "stable_lookup" /\ run[p].how = "named" /\ n \in Names
      /\ e \in Envs /\ loader[e] # None /\ Stable(LoaderFor(p))
      /\ run[p].src = None
  BY DEF StableLookup, IInv, CacheInv, RunsSound, RunSound, Reading
<1>2. UNCHANGED <<config, heap, caches>>
  BY DEF StableLookup
<1>3. CASE StableHit(p)
  <2> DEFINE c == named[n]
  <2>1. Answer(p, c.ast)
    BY <1>3 DEF StableLookup
  <2>2. /\ c.src \in Sources /\ c.ast \in Asts
        /\ c.src = Load(LoaderFor(p), n) /\ c.ast = ParseOf(c.src, View(e))
    BY <1>1, <1>3, StableHitIsHeld
  <2>3. c.ast = Expected(p)
    BY <1>1, <2>2, CacheConstants DEF Expected, Asked
  <2> QED
    BY <1>1, <1>2, <2>1, <2>2, <2>3, AnswerStep, OthersAreCurrent, OnlyRunChanges
<1>4. CASE ~StableHit(p)
  <2>1. Advance(p, "load", None, run[p].key, None)
    BY <1>1, <1>4 DEF StableLookup, Goto
  <2>2. "load" \in Labels \ {"idle", "ready"} /\ run[p].key \in Keys \cup {None}
    BY DEF Labels, IInv, CacheInv, TypeOK, Runs
  <2>3. /\ run'[p] = [pc |-> "load", env |-> run[p].env, how |-> run[p].how,
                      name |-> run[p].name, src |-> None, key |-> run[p].key, res |-> None]
        /\ LoaderFor(p)' = LoaderFor(p)
        /\ loader'[run'[p].env] = loader[run[p].env]
    BY <1>1, <1>2, <2>1, <2>2, AdvanceRegisters
  <2>4. RunSound(p)'
    BY <1>1, <2>3 DEF RunSound, Reading, Read
  <2> QED
    BY <1>1, <1>2, <2>1, <2>2, <2>4, PendingStep
<1> QED
  BY <1>3, <1>4

(* A source that was read, parsed by the Environment that read it.         *)
LEMMA FreshIsExpected ==
    ASSUME IInv, NEW p \in Procs,
           run[p].pc \in {"inline_lookup", "inline_parse", "named_lookup", "named_parse"}
    PROVE  /\ Fresh(p) = Expected(p) /\ Fresh(p) \in Asts
           /\ run[p].how = "named" \/ run[p].how = "inline"
           /\ run[p].env \in Envs /\ run[p].src \in Sources
<1>1. RunSound(p)
  BY DEF IInv, CacheInv, RunsSound
<1>2. /\ run[p].env \in Envs /\ run[p].src \in Sources
      /\ run[p].how = "named" \/ run[p].how = "inline"
      /\ Asked(p) = run[p].src
  BY <1>1 DEF RunSound, Read, Reading, Asked
<1>3. Fresh(p) \in Asts
  BY <1>2, SignatureDeterminesView, ParseType DEF Fresh, IInv, CacheInv
<1>4. Fresh(p) = Expected(p)
  BY <1>2, CacheConstants DEF Fresh, Expected
<1> QED
  BY <1>2, <1>3, <1>4

(* A hit by hash, signature and source is the parse of that source.        *)
LEMMA InlineHitIsFresh ==
    ASSUME IInv, NEW p \in Procs, run[p].pc = "inline_lookup", InlineHit(p)
    PROVE  inline[HashOf[run[p].src]].ast = Fresh(p)
<1> DEFINE e == run[p].env
           c == inline[HashOf[run[p].src]]
<1>1. /\ e \in Envs /\ HashOf[run[p].src] \in HashKeys
  BY FreshIsExpected, CacheConstants
<1>2. c # None /\ c.sig = SigOf(View(e)) /\ c.src = run[p].src
  BY DEF InlineHit, Signature
<1>3. c.ast = ParseOf(c.src, ViewOfSig(c.sig))
  BY <1>1, <1>2 DEF IInv, CacheInv, InlineEntriesSound
<1> QED
  BY <1>1, <1>2, <1>3, SignatureDeterminesView DEF IInv, CacheInv, Fresh

(* So the answer of the inline cache is the expected one.                  *)
LEMMA InlineLookupStep ==
    ASSUME IInv, NEW p \in Procs, InlineLookup(p)
    PROVE  IInv'
<1> DEFINE e == run[p].env
           c == inline[HashOf[run[p].src]]
<1>1. /\ run[p].pc = "inline_lookup" /\ e \in Envs /\ run[p].src \in Sources
      /\ run[p].how = "inline"
  BY DEF InlineLookup, IInv, CacheInv, RunsSound, RunSound
<1>2. UNCHANGED <<config, heap, caches>>
  BY DEF InlineLookup
<1>3. CASE InlineHit(p)
  <2>1. Answer(p, c.ast)
    BY <1>3 DEF InlineLookup
  <2>2. c.ast = Fresh(p)
    BY <1>1, <1>3, InlineHitIsFresh
  <2> QED
    BY <1>1, <1>2, <2>1, <2>2, FreshIsExpected, AnswerStep, OthersAreCurrent, OnlyRunChanges
<1>4. CASE ~InlineHit(p)
  <2>1. Advance(p, "inline_parse", run[p].src, run[p].key, None)
    BY <1>4 DEF InlineLookup, Goto
  <2>2. "inline_parse" \in Labels \ {"idle", "ready"} /\ run[p].key \in Keys \cup {None}
    BY DEF Labels, IInv, CacheInv, TypeOK, Runs
  <2>3. run'[p] = [pc |-> "inline_parse", env |-> run[p].env, how |-> run[p].how,
                   name |-> run[p].name, src |-> run[p].src, key |-> run[p].key,
                   res |-> None]
    BY <1>1, <1>2, <2>1, <2>2, AdvanceRegisters
  <2>4. RunSound(p)'
    BY <1>1, <2>3 DEF RunSound, Reading, Read
  <2> QED
    BY <1>1, <1>2, <2>1, <2>2, <2>4, PendingStep
<1> QED
  BY <1>3, <1>4

(* A parse is current, and what it leaves in the inline cache is sound.    *)
LEMMA InlineParseStep ==
    ASSUME IInv, NEW p \in Procs, InlineParse(p)
    PROVE  IInv'
<1> DEFINE e == run[p].env
           h == HashOf[run[p].src]
           c == [sig |-> SigOf(View(e)), src |-> run[p].src, ast |-> Fresh(p)]
<1>1. /\ run[p].pc = "inline_parse" /\ Answer(p, Fresh(p))
      /\ UNCHANGED <<config, heap>> /\ named' = named
      /\ inline' = IF Fresh(p).ok THEN [inline EXCEPT ![h] = c] ELSE inline
  BY DEF InlineParse, Signature
<1>2. /\ Fresh(p) = Expected(p) /\ Fresh(p) \in Asts
      /\ run[p].how = "named" \/ run[p].how = "inline"
      /\ e \in Envs /\ run[p].src \in Sources
  BY <1>1, FreshIsExpected
<1>3. run' \in [Procs -> Runs] /\ RunsSound' /\ AnswerIsCurrent'
  BY <1>1, <1>2, AnswerStep
<1>4. /\ SigOf(View(e)) \in Sigs
      /\ ViewOfSig(SigOf(View(e))) = View(e)
  BY <1>2, SignatureDeterminesView DEF IInv, CacheInv
<1>5. c \in InlineEntry /\ c.ast = ParseOf(c.src, ViewOfSig(c.sig))
  BY <1>2, <1>4 DEF InlineEntry, Fresh
<1>6. inline' \in [HashKeys -> InlineEntry \cup {None}]
  BY <1>1, <1>5 DEF IInv, CacheInv, TypeOK
<1>7. InlineEntriesSound'
  <2> SUFFICES ASSUME NEW k \in HashKeys, inline'[k] # None
               PROVE  inline'[k].ast = ParseOf(inline'[k].src, ViewOfSig(inline'[k].sig))
    BY DEF InlineEntriesSound
  <2>1. inline'[k] = c \/ inline'[k] = inline[k]
    BY <1>1 DEF IInv, CacheInv, TypeOK
  <2> QED
    BY <1>5, <2>1 DEF IInv, CacheInv, InlineEntriesSound
<1> QED
  BY <1>1, <1>3, <1>6, <1>7
  DEF IInv, CacheInv, config, TypeOK, RegistriesAgree, Homed, LoadersLive, NamedEntriesSound

(* A hit by key, signature, address and source is the parse of that source.*)
LEMMA NamedHitIsFresh ==
    ASSUME IInv, NEW p \in Procs, run[p].pc = "named_lookup",
           run[p].key \in Keys, NamedHit(p)
    PROVE  named[run[p].key].ast = Fresh(p)
<1> DEFINE e == run[p].env
           c == named[run[p].key]
<1>1. e \in Envs
  BY FreshIsExpected
<1>2. c # None /\ c.sig = SigOf(View(e)) /\ c.src = run[p].src
  BY DEF NamedHit, Signature
<1>3. c.ast = ParseOf(c.src, ViewOfSig(c.sig))
  BY <1>2 DEF IInv, CacheInv, NamedEntriesSound
<1> QED
  BY <1>1, <1>2, <1>3, SignatureDeterminesView DEF IInv, CacheInv, Fresh

(* So the answer of the named cache is the expected one.                   *)
LEMMA NamedLookupStep ==
    ASSUME IInv, NEW p \in Procs, NamedLookup(p)
    PROVE  IInv'
<1> DEFINE e == run[p].env
           k == run[p].key
           c == named[k]
<1>1. run[p].pc = "named_lookup" /\ UNCHANGED <<config, heap, caches>>
  BY DEF NamedLookup
<1>2. /\ Fresh(p) = Expected(p) /\ Fresh(p) \in Asts
      /\ run[p].how = "named" \/ run[p].how = "inline"
      /\ e \in Envs /\ run[p].src \in Sources
  BY <1>1, FreshIsExpected
<1>3. RunSound(p) /\ k \in Keys \cup {None}
  BY DEF IInv, CacheInv, RunsSound, TypeOK, Runs
<1>4. CASE k = None
  <2>1. Answer(p, Fresh(p))
    BY <1>4 DEF NamedLookup
  <2> QED
    BY <1>1, <1>2, <2>1, AnswerStep, OthersAreCurrent, OnlyRunChanges
<1>5. CASE k # None /\ NamedHit(p)
  <2>1. Answer(p, c.ast) /\ k \in Keys
    BY <1>3, <1>5 DEF NamedLookup
  <2>2. c.ast = Fresh(p)
    BY <1>1, <1>5, <2>1, NamedHitIsFresh
  <2> QED
    BY <1>1, <1>2, <2>1, <2>2, AnswerStep, OthersAreCurrent, OnlyRunChanges
<1>6. CASE k # None /\ ~NamedHit(p)
  <2>1. Advance(p, "named_parse", run[p].src, k, None) /\ k \in Keys
    BY <1>3, <1>6 DEF NamedLookup, Goto
  <2>2. "named_parse" \in Labels \ {"idle", "ready"}
    BY DEF Labels
  <2>3. /\ run'[p] = [pc |-> "named_parse", env |-> run[p].env, how |-> run[p].how,
                      name |-> run[p].name, src |-> run[p].src, key |-> k, res |-> None]
        /\ LoaderFor(p)' = LoaderFor(p)
        /\ loader'[run'[p].env] = loader[run[p].env]
    BY <1>1, <1>2, <2>1, <2>2, AdvanceRegisters
  <2>4. RunSound(p)'
    BY <1>1, <1>2, <1>3, <2>1, <2>3 DEF RunSound, Reading, Read
  <2> QED
    BY <1>1, <1>2, <2>1, <2>2, <2>4, PendingStep
<1> QED
  BY <1>4, <1>5, <1>6

(* A parse is current, and what it leaves in the named cache is sound.     *)
LEMMA NamedParseStep ==
    ASSUME IInv, NEW p \in Procs, NamedParse(p)
    PROVE  IInv'
<1> DEFINE e == run[p].env
           k == run[p].key
           c == [sig |-> SigOf(View(e)), src |-> run[p].src,
                 loader |-> loader[e], ast |-> Fresh(p)]
<1>1. /\ run[p].pc = "named_parse" /\ Answer(p, Fresh(p))
      /\ UNCHANGED <<config, heap>> /\ inline' = inline
      /\ named' = IF Fresh(p).ok THEN [named EXCEPT ![k] = c] ELSE named
  BY DEF NamedParse, Signature, LoaderId
<1>2. /\ Fresh(p) = Expected(p) /\ Fresh(p) \in Asts
      /\ run[p].how = "named" \/ run[p].how = "inline"
      /\ e \in Envs /\ run[p].src \in Sources
  BY <1>1, FreshIsExpected
<1>3. run' \in [Procs -> Runs] /\ RunsSound' /\ AnswerIsCurrent'
  BY <1>1, <1>2, AnswerStep
<1>4. /\ SigOf(View(e)) \in Sigs
      /\ ViewOfSig(SigOf(View(e))) = View(e)
  BY <1>2, SignatureDeterminesView DEF IInv, CacheInv
<1>5. /\ run[p].name \in Names /\ k \in Keys /\ loader[e] # None
      /\ Stable(LoaderFor(p)) => /\ run[p].src = Load(LoaderFor(p), run[p].name)
                                 /\ k = run[p].name
  BY <1>1 DEF IInv, CacheInv, RunsSound, RunSound, Reading, Read
<1>6. loader[e] \in Addrs /\ heap[loader[e]] # None
  BY <1>2, <1>5, LiveLoader DEF IInv, CacheInv, LoadersLive
<1>7. c \in NamedEntry /\ c.ast = ParseOf(c.src, ViewOfSig(c.sig))
  BY <1>2, <1>4, <1>6 DEF NamedEntry, Fresh
<1>8. Stable(heap[c.loader]) => k \in Names /\ heap[c.loader].files[k] = c.src
  BY <1>5, StableLoad DEF LoaderFor
<1>9. named' \in [Keys -> NamedEntry \cup {None}]
  BY <1>1, <1>7 DEF IInv, CacheInv, TypeOK
<1>10. NamedEntriesSound'
  <2> SUFFICES ASSUME NEW j \in Keys, named'[j] # None
               PROVE  /\ named'[j].ast = ParseOf(named'[j].src, ViewOfSig(named'[j].sig))
                      /\ heap'[named'[j].loader] # None
                      /\ Stable(heap'[named'[j].loader]) =>
                            /\ j \in Names
                            /\ heap'[named'[j].loader].files[j] = named'[j].src
    BY DEF NamedEntriesSound
  <2>1. (j = k /\ named'[j] = c) \/ named'[j] = named[j]
    BY <1>1 DEF IInv, CacheInv, TypeOK
  <2>2. CASE j = k /\ named'[j] = c
    <3>1. named'[j].ast = ParseOf(named'[j].src, ViewOfSig(named'[j].sig))
      BY <1>7, <2>2
    <3>2. named'[j].loader = loader[e] /\ named'[j].src = run[p].src
      BY <2>2
    <3>3. heap' = heap
      BY <1>1
    <3> QED
      BY <1>6, <1>8, <2>2, <3>1, <3>2, <3>3
  <2>3. CASE named'[j] = named[j]
    BY <1>1, <2>3 DEF IInv, CacheInv, NamedEntriesSound
  <2> QED
    BY <2>1, <2>2, <2>3
<1> QED
  BY <1>1, <1>3, <1>9, <1>10
  DEF IInv, CacheInv, config, TypeOK, RegistriesAgree, Homed, LoadersLive, InlineEntriesSound

-----------------------------------------------------------------------------
(* Configuration, the files behind a loader, and invalidation.             *)

(* Renders in progress are safe from a step that leaves the Environments   *)
(* they borrow, and the stable loaders of those, as they were.             *)
LEMMA BorrowedStays ==
    ASSUME CacheInv, UNCHANGED run,
           \A e \in Envs : Borrowed(e) =>
              /\ opts'[e] = opts[e] /\ reg'[e] = reg[e] /\ loader'[e] = loader[e]
              /\ loader[e] # None =>
                    /\ Stable(heap'[loader[e]]) <=> Stable(heap[loader[e]])
                    /\ Stable(heap[loader[e]]) => heap'[loader[e]] = heap[loader[e]]
    PROVE  RunsSound' /\ \A p \in Procs : Current(p) => Current(p)'
<1> SUFFICES ASSUME NEW p \in Procs
             PROVE  RunSound(p)' /\ (Current(p) => Current(p)')
  BY DEF RunsSound
<1>1. RunSound(p)
  BY DEF CacheInv, RunsSound
<1>2. CASE run[p].pc = "idle"
  <2>1. run'[p] = Idle
    BY <1>1, <1>2 DEF RunSound
  <2>2. RunSound(p)'
    BY <2>1, CacheConstants DEF RunSound, Idle, Request, Reading, Read
  <2>3. Current(p)'
    BY <2>1 DEF Current, Idle, Request
  <2> QED
    BY <2>2, <2>3
<1>3. CASE run[p].pc # "idle"
  <2> DEFINE e == run[p].env
  <2>1. e \in Envs /\ Borrowed(e)
    BY <1>1, <1>3 DEF RunSound, Borrowed
  <2>2. /\ opts'[e] = opts[e] /\ reg'[e] = reg[e] /\ loader'[e] = loader[e]
        /\ loader[e] # None =>
              /\ Stable(heap'[loader[e]]) <=> Stable(heap[loader[e]])
              /\ Stable(heap[loader[e]]) => heap'[loader[e]] = heap[loader[e]]
    BY <2>1
  <2>3. View(e)' = View(e)
    BY <2>2 DEF View
  <2>4. LoaderFor(p)' = heap'[loader[e]]
    BY <2>2 DEF LoaderFor
  <2>5. RunSound(p)'
    BY <1>1, <1>3, <2>2, <2>4 DEF RunSound, LoaderFor, Reading, Read
  <2>6. run[p].how = "named" => loader[e] # None
    BY <1>1 DEF RunSound
  <2>7. Asked(p)' = Asked(p)
    BY <2>2, <2>4, <2>6 DEF Asked, LoaderFor
  <2>8. Expected(p)' = Expected(p)
    BY <2>3, <2>7 DEF Expected
  <2>9. Current(p) => Current(p)'
    BY <2>8 DEF Current
  <2> QED
    BY <2>5, <2>9
<1> QED
  BY <1>2, <1>3

(* Then answers that are current stay so.                                  *)
LEMMA BorrowedFrame ==
    ASSUME IInv, UNCHANGED run,
           \A e \in Envs : Borrowed(e) =>
              /\ opts'[e] = opts[e] /\ reg'[e] = reg[e] /\ loader'[e] = loader[e]
              /\ loader[e] # None =>
                    /\ Stable(heap'[loader[e]]) <=> Stable(heap[loader[e]])
                    /\ Stable(heap[loader[e]]) => heap'[loader[e]] = heap[loader[e]]
    PROVE  RunsSound' /\ AnswerIsCurrent'
BY BorrowedStays DEF IInv, AnswerIsCurrent

(* New lexer options are those of an Environment that no render uses.      *)
LEMMA SetOptionsStep ==
    ASSUME IInv, NEW e \in Envs, SetOptions(e)
    PROVE  IInv'
<1>1. PICK o \in Opts : opts' = [opts EXCEPT ![e] = o]
  BY DEF SetOptions
<1>2. ~Borrowed(e) /\ UNCHANGED <<reg, loader, heap, inline, named, run>>
  BY DEF SetOptions, caches
<1>3. opts' \in [Envs -> Opts] /\ \A f \in Envs : f # e => opts'[f] = opts[f]
  BY <1>1 DEF IInv, CacheInv, TypeOK
<1>4. RunsSound' /\ AnswerIsCurrent'
  BY <1>2, <1>3, BorrowedFrame
<1> QED
  BY <1>2, <1>3, <1>4
  DEF IInv, CacheInv, TypeOK, RegistriesAgree, Homed, LoadersLive,
      InlineEntriesSound, NamedEntriesSound

(* What a step that only replaces one registry has to show.                *)
LEMMA RegistryStep ==
    ASSUME IInv, NEW e \in Envs, ~Borrowed(e),
           NEW g \in Registry, RegistryOK(g),
           \A t \in Tags : g.tags[t] \in {NoMeta, Home[t]},
           reg' = [reg EXCEPT ![e] = g],
           UNCHANGED <<opts, loader, heap, inline, named, run>>
    PROVE  IInv'
<1>1. /\ reg' \in [Envs -> Registry] /\ reg'[e] = g
      /\ \A f \in Envs : f # e => reg'[f] = reg[f]
  BY DEF IInv, CacheInv, TypeOK
<1>2. RunsSound' /\ AnswerIsCurrent'
  BY <1>1, BorrowedFrame
<1>3. RegistriesAgree' /\ Homed'
  BY <1>1 DEF IInv, CacheInv, RegistriesAgree, Homed
<1> QED
  BY <1>1, <1>2, <1>3
  DEF IInv, CacheInv, TypeOK, LoadersLive, InlineEntriesSound, NamedEntriesSound

(* An accepted registration keeps the registry homed and consistent.       *)
LEMMA RegisterExtensionStep ==
    ASSUME IInv, NEW e \in Envs, RegisterExtension(e)
    PROVE  IInv'
<1>1. PICK r \in Registrations :
         /\ Accepts(reg[e], r.ext, r.specs)
         /\ reg' = [reg EXCEPT ![e] = Register(reg[e], r.ext, r.specs)]
  BY DEF RegisterExtension
<1>2. ~Borrowed(e) /\ UNCHANGED <<opts, loader, heap, inline, named, run>>
  BY DEF RegisterExtension, caches
<1>3. /\ r.ext \in ExtNames /\ r.specs \in Seq(TagSpec)
      /\ reg[e] \in Registry /\ RegistryOK(reg[e])
  BY CacheConstants DEF IInv, CacheInv, TypeOK, RegistriesAgree
<1> DEFINE g == Register(reg[e], r.ext, r.specs)
<1>4. g \in Registry /\ RegistryOK(g)
  BY <1>1, <1>3, RegisterGood
<1>5. ASSUME NEW t \in Tags
      PROVE  g.tags[t] \in {NoMeta, Home[t]}
  <2>1. reg[e].tags \in [Tags -> Meta \cup {NoMeta}] /\ reg[e].tags[t] \in {NoMeta, Home[t]}
    BY <1>3 DEF Registry, IInv, CacheInv, Homed
  <2>2. g.tags[t] = TagsWith(reg[e].tags, r.ext, r.specs)[t]
    BY DEF Register
  <2>3. \A i \in DOMAIN r.specs :
           r.specs[i].tag = t => Home[t] = [owner |-> r.ext, end |-> r.specs[i].end]
    BY OneHomePerTag
  <2>4. CASE g.tags[t] \in {reg[e].tags[t], NoMeta}
    BY <2>1, <2>4
  <2>5. CASE \E i \in DOMAIN r.specs :
                /\ r.specs[i].tag = t
                /\ g.tags[t] = [owner |-> r.ext, end |-> r.specs[i].end]
    BY <2>3, <2>5
  <2>6. \/ g.tags[t] \in {reg[e].tags[t], NoMeta}
        \/ \E i \in DOMAIN r.specs :
              /\ r.specs[i].tag = t
              /\ g.tags[t] = [owner |-> r.ext, end |-> r.specs[i].end]
    <3> DEFINE with == TagsWith(reg[e].tags, r.ext, r.specs)
    <3>1. \A u \in Tags :
             \/ with[u] \in {reg[e].tags[u], NoMeta}
             \/ \E i \in DOMAIN r.specs :
                   /\ r.specs[i].tag = u
                   /\ with[u] = [owner |-> r.ext, end |-> r.specs[i].end]
      BY <1>3, <2>1, TagsWithType, ZenonT(60)
    <3>2. g.tags[t] = with[t]
      BY <2>2
    <3> HIDE DEF g, with
    <3> QED
      BY <3>1, <3>2
  <2> QED
    BY <2>4, <2>5, <2>6
<1> QED
  BY <1>1, <1>2, <1>4, <1>5, RegistryStep

(* A removal keeps the registry homed and consistent.                      *)
LEMMA RemoveExtensionStep ==
    ASSUME IInv, NEW e \in Envs, RemoveExtension(e)
    PROVE  IInv'
<1>1. PICK x \in ExtNames : reg' = [reg EXCEPT ![e] = Unregister(reg[e], x)]
  BY DEF RemoveExtension
<1>2. ~Borrowed(e) /\ UNCHANGED <<opts, loader, heap, inline, named, run>>
  BY DEF RemoveExtension, caches
<1>3. reg[e] \in Registry /\ RegistryOK(reg[e])
  BY DEF IInv, CacheInv, TypeOK, RegistriesAgree
<1> DEFINE g == Unregister(reg[e], x)
<1>4. g \in Registry /\ RegistryOK(g)
  BY <1>3, RemoveGood
<1>5. \A t \in Tags : g.tags[t] \in {NoMeta, Home[t]}
  BY <1>3, TagsWithoutType DEF Unregister, Registry, IInv, CacheInv, Homed
<1> QED
  BY <1>1, <1>2, <1>4, <1>5, RegistryStep

(* A new loader takes an address no Environment refers to.                 *)
LEMMA PutLoaderEffect ==
    ASSUME IInv, NEW e \in Envs, PutLoader(e), ~Borrowed(e), UNCHANGED <<opts, reg, run>>
    PROVE  /\ loader' \in [Envs -> Addrs \cup {None}]
           /\ heap' \in [Addrs -> Loaders \cup {None}]
           /\ LoadersLive'
           /\ RunsSound' /\ AnswerIsCurrent'
           /\ \E a \in Addrs : /\ Recycles \/ heap[a] = None
                              /\ \A b \in Addrs : b # a => heap'[b] = heap[b]
<1>1. PICK a \in Addrs, l \in Loaders :
         /\ Allocatable(a)
         /\ heap' = [heap EXCEPT ![a] = l]
         /\ loader' = [loader EXCEPT ![e] = a]
  BY DEF PutLoader
<1>2. /\ loader' \in [Envs -> Addrs \cup {None}] /\ loader'[e] = a
      /\ \A f \in Envs : f # e => loader'[f] = loader[f]
  BY <1>1 DEF IInv, CacheInv, TypeOK
<1>3. /\ heap' \in [Addrs -> Loaders \cup {None}] /\ heap'[a] = l
      /\ \A b \in Addrs : b # a => heap'[b] = heap[b]
  BY <1>1 DEF IInv, CacheInv, TypeOK
<1>4. \A f \in Envs : loader[f] # None => loader[f] \in Addrs /\ loader[f] # a
  BY <1>1 DEF Allocatable, IInv, CacheInv, TypeOK
<1>5. LoadersLive'
  BY <1>2, <1>3, <1>4, NoneIsNoLoader DEF IInv, CacheInv, LoadersLive
<1>6. RunsSound' /\ AnswerIsCurrent'
  BY <1>2, <1>3, <1>4, BorrowedFrame
<1>7. Recycles \/ heap[a] = None
  BY <1>1 DEF Allocatable
<1> QED
  BY <1>2, <1>3, <1>5, <1>6, <1>7

(* Nothing cleared the named cache: no entry may be about the new loader,  *)
(* because its address has never been used.                                *)
LEMMA AssignLoaderStep ==
    ASSUME IInv, NEW e \in Envs, AssignLoader(e)
    PROVE  IInv'
<1>1. /\ ~Host /\ ~Borrowed(e) /\ PutLoader(e)
      /\ UNCHANGED <<opts, reg, inline, named, run>>
  BY DEF AssignLoader, caches
<1>2. PICK a \in Addrs : /\ heap[a] = None
                         /\ \A b \in Addrs : b # a => heap'[b] = heap[b]
  BY <1>1, PutLoaderEffect, AddressIdentifiesLoader
<1>3. NamedEntriesSound'
  <2> SUFFICES ASSUME NEW k \in Keys, named[k] # None
               PROVE  heap'[named[k].loader] = heap[named[k].loader]
    BY <1>1 DEF IInv, CacheInv, NamedEntriesSound
  <2>1. named[k].loader \in Addrs /\ heap[named[k].loader] # None
    BY DEF IInv, CacheInv, TypeOK, NamedEntry, NamedEntriesSound
  <2> QED
    BY <1>2, <2>1
<1> QED
  BY <1>1, <1>3, PutLoaderEffect
  DEF IInv, CacheInv, TypeOK, RegistriesAgree, Homed, InlineEntriesSound

(* The named cache was cleared: no entry is about any loader.              *)
LEMMA SetLoaderStep ==
    ASSUME IInv, NEW e \in Envs, SetLoader(e)
    PROVE  IInv'
<1>1. /\ ~Borrowed(e) /\ PutLoader(e) /\ named' = [k \in Keys |-> None]
      /\ UNCHANGED <<opts, reg, inline, run>>
  BY DEF SetLoader
<1>2. NamedEntriesSound' /\ named' \in [Keys -> NamedEntry \cup {None}]
  BY <1>1 DEF NamedEntriesSound
<1> QED
  BY <1>1, <1>2, PutLoaderEffect
  DEF IInv, CacheInv, TypeOK, RegistriesAgree, Homed, InlineEntriesSound

(* A clone refers to the loader of its original.                           *)
LEMMA CloneEnvStep ==
    ASSUME IInv, NEW e \in Envs, NEW f \in Envs, CloneEnv(e, f)
    PROVE  IInv'
<1>1. /\ ~Borrowed(f)
      /\ opts' = [opts EXCEPT ![f] = opts[e]]
      /\ reg' = [reg EXCEPT ![f] = reg[e]]
      /\ loader' = [loader EXCEPT ![f] = loader[e]]
      /\ UNCHANGED <<heap, inline, named, run>>
  BY DEF CloneEnv, caches
<1>2. /\ opts' \in [Envs -> Opts] /\ reg' \in [Envs -> Registry]
      /\ loader' \in [Envs -> Addrs \cup {None}]
      /\ \A g \in Envs : g # f =>
            opts'[g] = opts[g] /\ reg'[g] = reg[g] /\ loader'[g] = loader[g]
      /\ opts'[f] = opts[e] /\ reg'[f] = reg[e] /\ loader'[f] = loader[e]
  BY <1>1 DEF IInv, CacheInv, TypeOK
<1>3. RunsSound' /\ AnswerIsCurrent'
  BY <1>1, <1>2, BorrowedFrame
<1>4. RegistriesAgree' /\ Homed'
  BY <1>2 DEF IInv, CacheInv, RegistriesAgree, Homed
<1>5. LoadersLive'
  BY <1>1, <1>2 DEF IInv, CacheInv, LoadersLive
<1> QED
  BY <1>1, <1>2, <1>3, <1>4, <1>5
  DEF IInv, CacheInv, TypeOK, InlineEntriesSound, NamedEntriesSound

(* Only a loader that is read on every request changes.                    *)
LEMMA ChangeFileStep ==
    ASSUME CacheInv, NEW a \in Addrs, ChangeFile(a)
    PROVE  CacheInv' /\ \A p \in Procs : Current(p) => Current(p)'
<1>1. PICK k \in Paths(heap[a].kind), s \in Sources \cup {None} :
         heap' = [heap EXCEPT ![a].files[k] = s]
  BY DEF ChangeFile
<1>2. /\ heap[a] # None /\ ~Stable(heap[a])
      /\ UNCHANGED <<opts, reg, loader, inline, named, run>>
  BY DEF ChangeFile, config, caches
<1> DEFINE l == [heap[a] EXCEPT !.files[k] = s]
<1>3. heap[a] \in Loaders
  BY <1>2 DEF CacheInv, TypeOK
<1>4. l \in Loaders /\ l.kind = heap[a].kind
  BY <1>3, ChangedLoaderType
<1>5. heap' = [heap EXCEPT ![a] = l]
  BY <1>1
<1> HIDE DEF l
<1>6. /\ heap' \in [Addrs -> Loaders \cup {None}] /\ heap'[a] = l
      /\ \A b \in Addrs : b # a => heap'[b] = heap[b]
  BY <1>4, <1>5 DEF CacheInv, TypeOK
<1>7. l # None /\ ~Stable(l)
  BY <1>2, <1>4, NoneIsNoLoader DEF Stable
<1>8. LoadersLive'
  BY <1>2, <1>6, <1>7 DEF CacheInv, LoadersLive, TypeOK
<1>9. \A e \in Envs : loader[e] # None =>
         /\ loader[e] \in Addrs
         /\ Stable(heap'[loader[e]]) <=> Stable(heap[loader[e]])
         /\ Stable(heap[loader[e]]) => heap'[loader[e]] = heap[loader[e]]
  BY <1>2, <1>6, <1>7 DEF CacheInv, TypeOK
<1>10. RunsSound' /\ \A p \in Procs : Current(p) => Current(p)'
  BY <1>2, <1>9, BorrowedStays
<1>11. NamedEntriesSound'
  <2> SUFFICES ASSUME NEW j \in Keys, named[j] # None
               PROVE  /\ heap'[named[j].loader] # None
                      /\ Stable(heap'[named[j].loader]) =>
                            heap'[named[j].loader] = heap[named[j].loader]
    BY <1>2 DEF CacheInv, NamedEntriesSound
  <2>1. named[j].loader \in Addrs /\ heap[named[j].loader] # None
    BY DEF CacheInv, TypeOK, NamedEntry, NamedEntriesSound
  <2> QED
    BY <1>6, <1>7, <2>1
<1> QED
  BY <1>2, <1>6, <1>8, <1>10, <1>11
  DEF CacheInv, TypeOK, RegistriesAgree, Homed, InlineEntriesSound

(* Fewer entries are no less sound, whichever caches are emptied.          *)
LEMMA ClearedStep ==
    ASSUME IInv, UNCHANGED <<config, heap, run>>,
           inline' = inline \/ inline' = [h \in HashKeys |-> None],
           named' = named \/ named' = [k \in Keys |-> None]
    PROVE  IInv'
<1>1. UNCHANGED <<opts, reg, loader, heap, run>>
  BY DEF config
<1>2. RunsSound' /\ AnswerIsCurrent'
  BY <1>1, BorrowedFrame
<1>3. /\ inline' \in [HashKeys -> InlineEntry \cup {None}]
      /\ named' \in [Keys -> NamedEntry \cup {None}]
  BY DEF IInv, CacheInv, TypeOK
<1>4. InlineEntriesSound' /\ NamedEntriesSound'
  BY <1>1 DEF IInv, CacheInv, InlineEntriesSound, NamedEntriesSound
<1> QED
  BY <1>1, <1>2, <1>3, <1>4 DEF IInv, CacheInv, TypeOK, RegistriesAgree, Homed, LoadersLive

(* clear_named_parse_cache and either half of invalidate_cache.            *)
LEMMA ClearStep ==
    ASSUME IInv, ClearNamed \/ ClearInline
    PROVE  IInv'
BY ClearedStep DEF ClearNamed, ClearInline

-----------------------------------------------------------------------------
(* The inductive invariant.                                                *)

(* The inductive invariant holds initially.                                *)
LEMMA InitIInv == Init => IInv
<1> SUFFICES ASSUME Init PROVE IInv
  OBVIOUS
<1>1. EmptyRegistry \in Registry /\ RegistryOK(EmptyRegistry)
  BY DEF EmptyRegistry, Registry, RegistryOK, OpeningTags, ClosingTags
<1>2. Idle \in Runs
  BY DEF Idle, Request, Runs, Labels
<1>3. TypeOK
  BY <1>1, <1>2 DEF Init, TypeOK
<1>4. RegistriesAgree /\ Homed
  BY <1>1 DEF Init, RegistriesAgree, Homed, EmptyRegistry
<1>5. LoadersLive /\ InlineEntriesSound /\ NamedEntriesSound
  BY DEF Init, LoadersLive, InlineEntriesSound, NamedEntriesSound
<1>6. RunsSound /\ AnswerIsCurrent
  BY CacheConstants DEF Init, RunsSound, RunSound, AnswerIsCurrent, Current,
                        Idle, Request, Reading, Read
<1> QED
  BY <1>3, <1>4, <1>5, <1>6 DEF IInv, CacheInv

(* Every step keeps the inductive invariant.                               *)
LEMMA NextIInv == IInv /\ [Next]_vars => IInv'
<1> SUFFICES ASSUME IInv, [Next]_vars PROVE IInv'
  OBVIOUS
<1>1. ASSUME NEW e \in Envs, Configure(e)
      PROVE  IInv'
  BY <1>1, SetOptionsStep, RegisterExtensionStep, RemoveExtensionStep,
     AssignLoaderStep, SetLoaderStep, CloneEnvStep DEF Configure
<1>2. ASSUME NEW p \in Procs, Resolve(p)
      PROVE  IInv'
  BY <1>2, BeginStep, ReturnStep, AskInlineStep, AskNamedStep, InlineLookupStep,
     InlineParseStep, StableLookupStep, LoadSourceStep, TakeKeyStep,
     NamedLookupStep, NamedParseStep, OthersAreCurrent DEF Resolve
<1>3. ASSUME NEW a \in Addrs, ChangeFile(a)
      PROVE  IInv'
  BY <1>3, ChangeFileStep DEF IInv, AnswerIsCurrent
<1>4. CASE UNCHANGED vars
  <2>1. UNCHANGED <<config, heap, caches>> /\ UNCHANGED run
    BY <1>4 DEF vars, config, caches
  <2>2. RunsSound' /\ AnswerIsCurrent'
    BY <2>1, BorrowedFrame DEF config
  <2> QED
    BY <2>1, <2>2, OthersAreCurrent, OnlyRunChanges DEF IInv, CacheInv, TypeOK
<1> QED
  BY <1>1, <1>2, <1>3, <1>4, ClearStep DEF Next

(* No render is ever given an AST of another source or configuration, in   *)
(* any family of clones and under any number of concurrent renders.        *)
THEOREM AnswersAreCurrent == Spec => []AnswerIsCurrent
<1>1. IInv => AnswerIsCurrent
  BY DEF IInv, CacheInv
<1> QED
  BY InitIInv, NextIInv, <1>1, PTL DEF Spec

(* The conjunction that makes it inductive: the type invariant, the        *)
(* soundness of every cache entry and of every register a render holds.    *)
THEOREM Invariance == Spec => []IInv
  BY InitIInv, NextIInv, PTL DEF Spec

(* Whatever is registered, replaced, removed and cloned, the three maps of *)
(* every extension registry agree.                                         *)
THEOREM RegistriesStayConsistent == Spec => []RegistriesAgree
<1>1. IInv => RegistriesAgree
  BY DEF IInv, CacheInv
<1> QED
  BY InitIInv, NextIInv, <1>1, PTL DEF Spec

(* The renderer never meets an extension tag without its handler.          *)
LEMMA HandlersFromIInv == IInv => HandlersPresent
<1> SUFFICES ASSUME IInv, NEW p \in Procs,
                    run[p].pc = "ready", run[p].res # None, run[p].res.ok,
                    NEW t \in DOMAIN run[p].res.owners
             PROVE  run[p].res.owners[t] \in reg[run[p].env].handlers
  BY DEF HandlersPresent
<1> DEFINE e == run[p].env
           v == View(e)
           s == Asked(p)
           shape == ShapeOf[s]
<1>1. e \in Envs /\ RegistryOK(reg[e]) /\ run[p].res = Expected(p)
  BY DEF IInv, CacheInv, RunsSound, RunSound, RegistriesAgree, AnswerIsCurrent, Current
<1>2. run[p].res = ParseOf(s, v) /\ Parses(v, shape)
  BY <1>1 DEF Expected, ParseOf, Failed
<1>3. run[p].res.owners = OwnersIn(v, shape)
  BY <1>2 DEF ParseOf
<1>4. t \in OpeningTags(v.tags) /\ run[p].res.owners[t] = v.tags[t].owner
  BY <1>3 DEF OwnersIn
<1>5. v.tags = reg[e].tags
  BY DEF View, ViewOf
<1> QED
  BY <1>1, <1>4, <1>5 DEF RegistryOK

(* No "unknown extension" while a render runs a template it was given.     *)
THEOREM HandlersArePresent == Spec => []HandlersPresent
  BY InitIInv, NextIInv, HandlersFromIInv, PTL DEF Spec

(* Clones may share the caches: an entry that a clone would be answered    *)
(* from is what that clone would load and parse itself.                    *)
LEMMA ShareableFromIInv == IInv => CachesShareable
<1> SUFFICES ASSUME IInv PROVE CachesShareable
  OBVIOUS
<1>1. ASSUME NEW h \in HashKeys, NEW e \in Envs,
             inline[h] # None, inline[h].sig = SigOf(View(e))
      PROVE  inline[h].ast = ParseOf(inline[h].src, View(e))
  BY <1>1, SignatureDeterminesView DEF IInv, CacheInv, InlineEntriesSound
<1>2. ASSUME NEW k \in Keys, NEW e \in Envs,
             named[k] # None, named[k].sig = SigOf(View(e)), named[k].loader = loader[e]
      PROVE  /\ named[k].ast = ParseOf(named[k].src, View(e))
             /\ Stable(heap[loader[e]]) /\ k \in Names =>
                   named[k].src = Load(heap[loader[e]], k)
  BY <1>2, SignatureDeterminesView, StableLoad DEF IInv, CacheInv, NamedEntriesSound
<1> QED
  BY <1>1, <1>2 DEF CachesShareable

(* Sharing the caches between clones stays harmless for ever.              *)
THEOREM CachesStayShareable == Spec => []CachesShareable
  BY InitIInv, NextIInv, ShareableFromIInv, PTL DEF Spec

-----------------------------------------------------------------------------
(***************************************************************************)
(* ParseCache implements TemplateService: with the caches, the keys and    *)
(* the addresses forgotten, every step of an Environment is a step of the  *)
(* service without caches, or none.                                        *)
(***************************************************************************)

(* The refinement mapping.                                                 *)

(* The phase of the service that each label of a render is in.             *)
LEMMA Phases ==
    /\ \A pc \in {"idle", "ready"} : PhaseOf(pc) = pc
    /\ \A pc \in {"stable_lookup", "load"} : PhaseOf(pc) = "asked"
    /\ \A pc \in {"inline_lookup", "inline_parse", "key", "named_lookup", "named_parse"} :
          PhaseOf(pc) = "read"
BY DEF PhaseOf

(* What the service sees of the registers R of a render.                   *)
Seen(R) == [phase |-> PhaseOf(R.pc), env |-> R.env, how |-> R.how,
            name |-> R.name, src |-> R.src, res |-> R.res]

(* What the service sees of a new request.                                 *)
LEMMA SeenRequest ==
    ASSUME NEW pc, NEW e, NEW how, NEW n, NEW s
    PROVE  Seen(Request(pc, e, how, n, s)) = Service!Request(PhaseOf(pc), e, how, n, s)
BY DEF Seen, Request, Service!Request

(* The requests change as the registers do.                                *)
LEMMA SeenStep ==
    ASSUME IInv, NEW p \in Procs, NEW R, run' = [run EXCEPT ![p] = R]
    PROVE  /\ AbsReq' = [AbsReq EXCEPT ![p] = Seen(R)]
           /\ AbsReq = [q \in Procs |-> Seen(run[q])]
<1>1. run \in [Procs -> Runs]
  BY DEF IInv, CacheInv, TypeOK
<1>2. AbsReq = [q \in Procs |-> Seen(run[q])] /\ AbsReq' = [q \in Procs |-> Seen(run'[q])]
  BY DEF AbsReq, Seen
<1> QED
  BY <1>1, <1>2

(* What the service sees of an Environment does not change with a render.  *)
LEMMA SameService ==
    ASSUME UNCHANGED <<config, heap>>
    PROVE  UNCHANGED Service!service
BY DEF Service!service, config, View, AbsStable, AbsFiles

(* The service's Environments in use are those that are borrowed.          *)
LEMMA InUseIsBorrowed ==
    ASSUME IInv, NEW e \in Envs
    PROVE  Service!InUse(e) <=> Borrowed(e)
<1>1. \A p \in Procs : AbsReq[p].phase # "idle" <=> run[p].pc # "idle"
  BY Phases DEF IInv, CacheInv, TypeOK, Runs, Labels, AbsReq
<1> QED
  BY <1>1 DEF Service!InUse, Borrowed, AbsReq

(* What the service holds for a name, of an Environment that has a loader. *)
LEMMA HeldIsLoad ==
    ASSUME IInv, NEW p \in Procs, run[p].env \in Envs, run[p].name \in Names,
           loader[run[p].env] # None
    PROVE  /\ Service!Held(p) = Load(LoaderFor(p), run[p].name)
           /\ AbsStable[run[p].env] = Stable(LoaderFor(p))
<1>1. AbsReq[p].env = run[p].env /\ AbsReq[p].name = run[p].name
  BY DEF AbsReq
<1>2. /\ AbsFiles[run[p].env][run[p].name] = Load(LoaderFor(p), run[p].name)
      /\ AbsStable[run[p].env] = Stable(LoaderFor(p))
  BY DEF AbsFiles, AbsStable, LoaderFor, Stable
<1> QED
  BY <1>1, <1>2 DEF Service!Held

-----------------------------------------------------------------------------
(* Every step maps to a step of the service, or to none.                   *)

(* A step that leaves alone what a render in progress depends on is a      *)
(* reconfiguration.                                                        *)
LEMMA ReconfigureIs ==
    ASSUME IInv, UNCHANGED run,
           \A e \in Envs : Borrowed(e) =>
              /\ opts'[e] = opts[e] /\ reg'[e] = reg[e] /\ loader'[e] = loader[e]
              /\ loader[e] # None =>
                    /\ Stable(heap'[loader[e]]) <=> Stable(heap[loader[e]])
                    /\ Stable(heap[loader[e]]) => heap'[loader[e]] = heap[loader[e]]
    PROVE  Service!Reconfigure
<1>1. UNCHANGED AbsReq
  BY DEF AbsReq
<1>2. ASSUME NEW e \in Envs, Service!InUse(e)
      PROVE  /\ View(e)' = View(e)
             /\ AbsStable'[e] = AbsStable[e]
             /\ AbsStable[e] => AbsFiles'[e] = AbsFiles[e]
  <2>1. Borrowed(e)
    BY <1>2, InUseIsBorrowed
  <2>2. View(e)' = View(e)
    BY <2>1 DEF View
  <2>3. AbsStable'[e] = AbsStable[e]
    BY <2>1 DEF AbsStable
  <2>4. AbsStable[e] => AbsFiles'[e] = AbsFiles[e]
    BY <2>1 DEF AbsStable, AbsFiles
  <2> QED
    BY <2>2, <2>3, <2>4
<1> QED
  BY <1>1, <1>2 DEF Service!Reconfigure

(* Configuration is of Environments that no render uses, and a new loader  *)
(* takes the address of no loader in use.                                  *)
LEMMA ConfigureIs ==
    ASSUME IInv, NEW e \in Envs, Configure(e)
    PROVE  Service!Reconfigure
<1>1. UNCHANGED run
  BY DEF Configure, SetOptions, RegisterExtension, RemoveExtension, AssignLoader,
         SetLoader, CloneEnv
<1>2. CASE SetOptions(e) \/ RegisterExtension(e) \/ RemoveExtension(e)
  <2>1. /\ ~Borrowed(e) /\ UNCHANGED <<loader, heap>>
        /\ \A f \in Envs : f # e => opts'[f] = opts[f] /\ reg'[f] = reg[f]
    BY <1>2 DEF SetOptions, RegisterExtension, RemoveExtension, IInv, CacheInv, TypeOK
  <2> QED
    BY <1>1, <2>1, ReconfigureIs
<1>3. CASE AssignLoader(e) \/ SetLoader(e)
  <2>1. ~Borrowed(e) /\ PutLoader(e) /\ UNCHANGED <<opts, reg>>
    BY <1>3 DEF AssignLoader, SetLoader
  <2>2. PICK a \in Addrs, l \in Loaders :
           /\ Allocatable(a)
           /\ heap' = [heap EXCEPT ![a] = l]
           /\ loader' = [loader EXCEPT ![e] = a]
    BY <2>1 DEF PutLoader
  <2>3. \A f \in Envs : f # e => loader'[f] = loader[f]
    BY <2>2 DEF IInv, CacheInv, TypeOK
  <2>4. \A f \in Envs : loader[f] # None => heap'[loader[f]] = heap[loader[f]]
    BY <2>2 DEF Allocatable, IInv, CacheInv, TypeOK
  <2> QED
    BY <1>1, <2>1, <2>3, <2>4, ReconfigureIs
<1>4. ASSUME NEW f \in Envs, CloneEnv(e, f)
      PROVE  Service!Reconfigure
  <2>1. /\ ~Borrowed(f) /\ UNCHANGED heap
        /\ \A g \in Envs : g # f =>
              opts'[g] = opts[g] /\ reg'[g] = reg[g] /\ loader'[g] = loader[g]
    BY <1>4 DEF CloneEnv, IInv, CacheInv, TypeOK
  <2> QED
    BY <1>1, <2>1, ReconfigureIs
<1> QED
  BY <1>2, <1>3, <1>4 DEF Configure

(* A file changes under a loader that is read on every request.            *)
LEMMA ChangeFileIs ==
    ASSUME IInv, NEW a \in Addrs, ChangeFile(a)
    PROVE  Service!Reconfigure
<1>1. PICK k \in Paths(heap[a].kind), s \in Sources \cup {None} :
         heap' = [heap EXCEPT ![a].files[k] = s]
  BY DEF ChangeFile
<1>2. /\ heap[a] # None /\ ~Stable(heap[a]) /\ UNCHANGED <<opts, reg, loader, run>>
  BY DEF ChangeFile, config
<1> DEFINE l == [heap[a] EXCEPT !.files[k] = s]
<1>3. heap[a] \in Loaders
  BY <1>2 DEF IInv, CacheInv, TypeOK
<1>4. l.kind = heap[a].kind
  BY <1>3, ChangedLoaderType
<1>5. heap' = [heap EXCEPT ![a] = l]
  BY <1>1
<1> HIDE DEF l
<1>6. /\ \A b \in Addrs : b # a => heap'[b] = heap[b]
      /\ ~Stable(heap'[a])
  BY <1>2, <1>4, <1>5 DEF Stable, IInv, CacheInv, TypeOK
<1>7. \A e \in Envs : loader[e] # None =>
         /\ Stable(heap'[loader[e]]) <=> Stable(heap[loader[e]])
         /\ Stable(heap[loader[e]]) => heap'[loader[e]] = heap[loader[e]]
  BY <1>2, <1>6 DEF IInv, CacheInv, TypeOK
<1> QED
  BY <1>2, <1>7, ReconfigureIs

(* Invalidation is nothing that the service sees.                          *)
LEMMA ClearIs ==
    ASSUME ClearNamed \/ ClearInline
    PROVE  UNCHANGED Service!vars
<1>1. UNCHANGED <<config, heap>> /\ UNCHANGED run
  BY DEF ClearNamed, ClearInline
<1> QED
  BY <1>1, SameService DEF Service!vars, Service!service, AbsReq

(* The requests of a render, one for one.                                  *)
LEMMA RequestIs ==
    ASSUME IInv, NEW p \in Procs,
           \/ \E e \in Envs : Begin(p, e)
           \/ Return(p)
           \/ \E s \in Sources : AskInline(p, s)
           \/ \E n \in Names : AskNamed(p, n)
    PROVE  \/ \E e \in Envs : Service!Begin(p, e)
           \/ Service!Return(p)
           \/ \E s \in Sources : Service!AskInline(p, s)
           \/ \E n \in Names : Service!AskNamed(p, n)
<1>1. UNCHANGED <<config, heap>>
  BY DEF Begin, Return, AskInline, AskNamed
<1>2. UNCHANGED Service!service
  BY <1>1, SameService
<1>3. AbsReq[p] = Seen(run[p])
  BY DEF AbsReq, Seen
<1>4. ASSUME NEW e \in Envs, Begin(p, e)
      PROVE  Service!Begin(p, e)
  <2>1. AbsReq[p].phase = "idle"
    BY <1>3, <1>4, Phases DEF Begin, Seen
  <2>2. Seen(Request("ready", e, None, None, None))
           = Service!Request("ready", e, None, None, None)
    BY SeenRequest, Phases
  <2> QED
    BY <1>2, <1>4, <2>1, <2>2, SeenStep DEF Begin, Service!Begin
<1>5. ASSUME Return(p)
      PROVE  Service!Return(p)
  <2>1. AbsReq[p].phase = "ready"
    BY <1>3, <1>5, Phases DEF Return, Seen
  <2>2. Seen(Idle) = Service!NoRequest
    BY SeenRequest, Phases DEF Idle, Service!NoRequest
  <2> QED
    BY <1>2, <1>5, <2>1, <2>2, SeenStep DEF Return, Service!Return
<1>6. ASSUME NEW s \in Sources, AskInline(p, s)
      PROVE  Service!AskInline(p, s)
  <2> DEFINE R == Request("inline_lookup", run[p].env, "inline", None, s)
  <2>1. AbsReq[p].phase = "ready" /\ AbsReq[p].env = run[p].env
    BY <1>3, <1>6, Phases DEF AskInline, Seen
  <2>2. Seen(R) = Service!Request("read", run[p].env, "inline", None, s)
    BY SeenRequest, Phases
  <2>3. run' = [run EXCEPT ![p] = R]
    BY <1>6 DEF AskInline
  <2> HIDE DEF R
  <2> QED
    BY <1>2, <2>1, <2>2, <2>3, SeenStep DEF Service!AskInline
<1>7. ASSUME NEW n \in Names, AskNamed(p, n)
      PROVE  Service!AskNamed(p, n)
  <2> DEFINE first == IF Stable(LoaderFor(p)) THEN "stable_lookup" ELSE "load"
             R == Request(first, run[p].env, "named", n, None)
  <2>1. AbsReq[p].phase = "ready" /\ AbsReq[p].env = run[p].env
    BY <1>3, <1>7, Phases DEF AskNamed, Seen
  <2>2. PhaseOf(first) = "asked"
    BY Phases
  <2>3. Seen(R) = Service!Request("asked", run[p].env, "named", n, None)
    BY <2>2, SeenRequest
  <2>4. run' = [run EXCEPT ![p] = R]
    BY <1>7 DEF AskNamed
  <2> HIDE DEF R
  <2> QED
    BY <1>2, <2>1, <2>3, <2>4, SeenStep DEF Service!AskNamed
<1> QED
  BY <1>4, <1>5, <1>6, <1>7

(* The requests after Advance, as the service sees them.                   *)
LEMMA AdvanceSeen ==
    ASSUME IInv, NEW p \in Procs, NEW label, NEW src, NEW key, NEW res,
           Advance(p, label, src, key, res)
    PROVE  AbsReq' = [AbsReq EXCEPT ![p] =
                         [phase |-> PhaseOf(label), env |-> run[p].env,
                          how |-> run[p].how, name |-> run[p].name,
                          src |-> src, res |-> res]]
<1> DEFINE R == [pc |-> label, env |-> run[p].env, how |-> run[p].how,
                 name |-> run[p].name, src |-> src, key |-> key, res |-> res]
<1>1. run' = [run EXCEPT ![p] = R]
  BY DEF Advance
<1>2. Seen(R) = [phase |-> PhaseOf(label), env |-> run[p].env, how |-> run[p].how,
                 name |-> run[p].name, src |-> src, res |-> res]
  BY DEF Seen
<1> HIDE DEF R
<1> QED
  BY <1>1, <1>2, SeenStep

(* A move within a phase is nothing that the service sees.                 *)
LEMMA SamePhase ==
    ASSUME IInv, NEW p \in Procs, run[p].pc # "ready", UNCHANGED <<config, heap>>,
           NEW label, PhaseOf(label) = PhaseOf(run[p].pc), NEW key,
           Advance(p, label, run[p].src, key, None)
    PROVE  UNCHANGED Service!vars
<1>1. run[p].res = None
  BY DEF IInv, CacheInv, RunsSound, RunSound
<1>2. AbsReq \in [Procs -> {AbsReq[q] : q \in Procs}]
  BY DEF AbsReq
<1>3. AbsReq[p] = [phase |-> PhaseOf(label), env |-> run[p].env, how |-> run[p].how,
                   name |-> run[p].name, src |-> run[p].src, res |-> None]
  BY <1>1 DEF AbsReq
<1>4. AbsReq' = [AbsReq EXCEPT ![p] = AbsReq[p]]
  BY <1>3, AdvanceSeen
<1>5. AbsReq' = AbsReq
  BY <1>2, <1>4
<1> QED
  BY <1>5, SameService DEF Service!vars, Service!service

(* An answer of the parse of what was read.                                *)
LEMMA AnswerIs ==
    ASSUME IInv, NEW p \in Procs, PhaseOf(run[p].pc) = "read",
           UNCHANGED <<config, heap>>, NEW ast, Answer(p, ast), ast = Fresh(p),
           run[p].env \in Envs
    PROVE  Service!Answer(p)
<1>1. AbsReq[p] = [phase |-> "read", env |-> run[p].env, how |-> run[p].how,
                   name |-> run[p].name, src |-> run[p].src, res |-> run[p].res]
  BY DEF AbsReq
<1>2. AbsReq' = [AbsReq EXCEPT ![p] =
                    [phase |-> "ready", env |-> run[p].env, how |-> run[p].how,
                     name |-> run[p].name, src |-> run[p].src, res |-> ast]]
  BY AdvanceSeen, Phases DEF Answer
<1>3. ast = ParseOf(AbsReq[p].src, [e \in Envs |-> View(e)][AbsReq[p].env])
  BY <1>1 DEF Fresh
<1>4. AbsReq' = [AbsReq EXCEPT ![p].phase = "ready", ![p].res = ast]
  BY <1>1, <1>2 DEF AbsReq
<1> QED
  BY <1>1, <1>3, <1>4, SameService DEF Service!Answer

(* The inline cache: a hit is the answer of a parse.                       *)
LEMMA InlineIs ==
    ASSUME IInv, NEW p \in Procs, InlineLookup(p) \/ InlineParse(p)
    PROVE  Service!Answer(p) \/ UNCHANGED Service!vars
<1>1. /\ run[p].pc \in {"inline_lookup", "inline_parse"} /\ run[p].env \in Envs
      /\ PhaseOf(run[p].pc) = "read" /\ UNCHANGED <<config, heap>>
  BY Phases, FreshIsExpected DEF InlineLookup, InlineParse
<1>2. CASE InlineLookup(p) /\ InlineHit(p)
  <2>1. Answer(p, inline[HashOf[run[p].src]].ast)
    BY <1>2 DEF InlineLookup
  <2>2. inline[HashOf[run[p].src]].ast = Fresh(p)
    BY <1>2, InlineHitIsFresh DEF InlineLookup
  <2> QED
    BY <1>1, <2>1, <2>2, AnswerIs
<1>3. CASE InlineLookup(p) /\ ~InlineHit(p)
  <2>1. Advance(p, "inline_parse", run[p].src, run[p].key, None)
    BY <1>3 DEF InlineLookup, Goto
  <2>2. PhaseOf("inline_parse") = "read"
    BY Phases
  <2> QED
    BY <1>1, <2>1, <2>2, SamePhase
<1>4. CASE InlineParse(p)
  <2>1. Answer(p, Fresh(p))
    BY <1>4 DEF InlineParse
  <2> QED
    BY <1>1, <2>1, AnswerIs
<1> QED
  BY <1>2, <1>3, <1>4

(* A hit on the name of a stable loader is an answer without reading.      *)
LEMMA StableLookupIs ==
    ASSUME IInv, NEW p \in Procs, StableLookup(p)
    PROVE  Service!AnswerUnread(p) \/ UNCHANGED Service!vars
<1> DEFINE e == run[p].env
           n == run[p].name
<1>1. /\ run[p].pc = "stable_lookup" /\ run[p].src = None
      /\ n \in Names /\ e \in Envs /\ loader[e] # None /\ Stable(LoaderFor(p))
      /\ UNCHANGED <<config, heap>>
  BY DEF StableLookup, IInv, CacheInv, RunsSound, RunSound, Reading
<1>2. PhaseOf(run[p].pc) = "asked" /\ PhaseOf("load") = "asked" /\ PhaseOf("ready") = "ready"
  BY <1>1, Phases
<1>3. CASE StableHit(p)
  <2> DEFINE c == named[n]
  <2>1. Answer(p, c.ast)
    BY <1>3 DEF StableLookup
  <2>2. /\ c.src \in Sources /\ c.src = Service!Held(p)
        /\ c.ast = ParseOf(c.src, View(e)) /\ AbsStable[e]
    BY <1>1, <1>3, StableHitIsHeld, HeldIsLoad
  <2>3. AbsReq[p] = [phase |-> "asked", env |-> e, how |-> run[p].how, name |-> n,
                     src |-> run[p].src, res |-> run[p].res]
    BY <1>2 DEF AbsReq
  <2>4. AbsReq' = [AbsReq EXCEPT ![p] =
                      [phase |-> "ready", env |-> e, how |-> run[p].how, name |-> n,
                       src |-> run[p].src, res |-> c.ast]]
    BY <1>2, <2>1, AdvanceSeen DEF Answer
  <2>5. c.ast = ParseOf(Service!Held(p), [f \in Envs |-> View(f)][AbsReq[p].env])
    BY <1>1, <2>2, <2>3
  <2>6. AbsReq' = [AbsReq EXCEPT ![p].phase = "ready", ![p].res = c.ast]
    BY <2>3, <2>4 DEF AbsReq
  <2>7. Service!Held(p) # None
    BY <2>2, CacheConstants
  <2> HIDE DEF c
  <2> QED
    BY <1>1, <2>2, <2>3, <2>5, <2>6, <2>7, SameService DEF Service!AnswerUnread
<1>4. CASE ~StableHit(p)
  <2>1. Advance(p, "load", run[p].src, run[p].key, None)
    BY <1>4 DEF StableLookup, Goto
  <2> QED
    BY <1>1, <1>2, <2>1, SamePhase
<1> QED
  BY <1>3, <1>4

(* A load is the reading of what the service holds, or its failure.        *)
LEMMA LoadSourceIs ==
    ASSUME IInv, NEW p \in Procs, LoadSource(p)
    PROVE  Service!Read(p)
<1> DEFINE e == run[p].env
           n == run[p].name
           s == Load(LoaderFor(p), n)
<1>1. /\ run[p].pc = "load" /\ run[p].src = None /\ run[p].res = None
      /\ n \in Names /\ e \in Envs /\ loader[e] # None
      /\ UNCHANGED <<config, heap>>
  BY DEF LoadSource, IInv, CacheInv, RunsSound, RunSound, Reading
<1>2. PhaseOf(run[p].pc) = "asked" /\ PhaseOf("key") = "read" /\ PhaseOf("ready") = "ready"
  BY <1>1, Phases
<1>3. s = Service!Held(p)
  BY <1>1, HeldIsLoad
<1>4. AbsReq[p] = [phase |-> "asked", env |-> e, how |-> run[p].how, name |-> n,
                   src |-> None, res |-> None]
  BY <1>1, <1>2 DEF AbsReq
<1>5. CASE s = None
  <2>1. Advance(p, "ready", None, run[p].key, Failed)
    BY <1>1, <1>5 DEF LoadSource, Answer
  <2>2. AbsReq' = [AbsReq EXCEPT ![p] =
                      [phase |-> "ready", env |-> e, how |-> run[p].how, name |-> n,
                       src |-> None, res |-> Failed]]
    BY <1>2, <2>1, AdvanceSeen
  <2>3. AbsReq' = [AbsReq EXCEPT ![p].phase = "ready", ![p].res = Failed]
    BY <1>4, <2>2 DEF AbsReq
  <2> QED
    BY <1>1, <1>3, <1>4, <1>5, <2>3, SameService DEF Service!Read
<1>6. CASE s # None
  <2>1. Advance(p, "key", s, None, None)
    BY <1>6 DEF LoadSource
  <2>2. AbsReq' = [AbsReq EXCEPT ![p] =
                      [phase |-> "read", env |-> e, how |-> run[p].how, name |-> n,
                       src |-> s, res |-> None]]
    BY <1>2, <2>1, AdvanceSeen
  <2>3. AbsReq' = [AbsReq EXCEPT ![p].phase = "read", ![p].src = s]
    BY <1>4, <2>2 DEF AbsReq
  <2> HIDE DEF s
  <2> QED
    BY <1>1, <1>3, <1>4, <1>6, <2>3, SameService DEF Service!Read
<1> QED
  BY <1>5, <1>6

(* The key is nothing that the service sees.                               *)
LEMMA TakeKeyIs ==
    ASSUME IInv, NEW p \in Procs, TakeKey(p)
    PROVE  UNCHANGED Service!vars
<1> DEFINE k == CacheKey(LoaderFor(p), run[p].name)
<1>1. /\ run[p].pc = "key" /\ UNCHANGED <<config, heap>>
      /\ Advance(p, "named_lookup", run[p].src, k, None)
  BY DEF TakeKey
<1>2. PhaseOf("key") = "read" /\ PhaseOf("named_lookup") = "read"
  BY Phases
<1> QED
  BY <1>1, <1>2, SamePhase

(* The named cache: without a key, and on a hit, the answer of a parse.    *)
LEMMA NamedIs ==
    ASSUME IInv, NEW p \in Procs, NamedLookup(p) \/ NamedParse(p)
    PROVE  Service!Answer(p) \/ UNCHANGED Service!vars
<1>1. /\ run[p].pc \in {"named_lookup", "named_parse"} /\ run[p].env \in Envs
      /\ PhaseOf(run[p].pc) = "read" /\ UNCHANGED <<config, heap>>
  BY Phases, FreshIsExpected DEF NamedLookup, NamedParse
<1>2. run[p].key \in Keys \cup {None}
  BY DEF IInv, CacheInv, TypeOK, Runs
<1>3. CASE NamedParse(p) \/ (NamedLookup(p) /\ run[p].key = None)
  <2>1. Answer(p, Fresh(p))
    BY <1>3 DEF NamedParse, NamedLookup
  <2> QED
    BY <1>1, <2>1, AnswerIs
<1>4. CASE NamedLookup(p) /\ run[p].key # None /\ NamedHit(p)
  <2>1. Answer(p, named[run[p].key].ast)
    BY <1>4 DEF NamedLookup
  <2>2. named[run[p].key].ast = Fresh(p)
    BY <1>2, <1>4, NamedHitIsFresh DEF NamedLookup
  <2> QED
    BY <1>1, <2>1, <2>2, AnswerIs
<1>5. CASE NamedLookup(p) /\ run[p].key # None /\ ~NamedHit(p)
  <2>1. Advance(p, "named_parse", run[p].src, run[p].key, None)
    BY <1>5 DEF NamedLookup, Goto
  <2>2. PhaseOf("named_parse") = "read"
    BY Phases
  <2> QED
    BY <1>1, <2>1, <2>2, SamePhase
<1> QED
  BY <1>3, <1>4, <1>5

-----------------------------------------------------------------------------
(* The refinement.                                                         *)

(* Initial states map to initial states.                                   *)
LEMMA InitIs == Init => Service!Init
<1> SUFFICES ASSUME Init PROVE AbsReq = [p \in Procs |-> Service!NoRequest]
  BY DEF Service!Init
<1>1. Seen(Idle) = Service!NoRequest
  BY SeenRequest, Phases DEF Idle, Service!NoRequest
<1> QED
  BY <1>1 DEF Init, AbsReq, Seen

(* Every step maps to a step of the service, or to none.                   *)
LEMMA NextIs == IInv /\ [Next]_vars => [Service!Next]_Service!vars
<1> SUFFICES ASSUME IInv, [Next]_vars PROVE Service!Next \/ UNCHANGED Service!vars
  OBVIOUS
<1>1. ASSUME NEW e \in Envs, Configure(e)
      PROVE  Service!Next
  BY <1>1, ConfigureIs DEF Service!Next
<1>2. ASSUME NEW a \in Addrs, ChangeFile(a)
      PROVE  Service!Next
  BY <1>2, ChangeFileIs DEF Service!Next
<1>3. CASE ClearNamed \/ ClearInline
  BY <1>3, ClearIs
<1>4. ASSUME NEW p \in Procs, Resolve(p)
      PROVE  Service!Next \/ UNCHANGED Service!vars
  <2>1. CASE \/ \E e \in Envs : Begin(p, e)
             \/ Return(p)
             \/ \E s \in Sources : AskInline(p, s)
             \/ \E n \in Names : AskNamed(p, n)
    BY <2>1, RequestIs DEF Service!Next
  <2>2. CASE InlineLookup(p) \/ InlineParse(p) \/ NamedLookup(p) \/ NamedParse(p)
    BY <2>2, InlineIs, NamedIs DEF Service!Next
  <2>3. CASE StableLookup(p)
    BY <2>3, StableLookupIs DEF Service!Next
  <2>4. CASE LoadSource(p)
    BY <2>4, LoadSourceIs DEF Service!Next
  <2>5. CASE TakeKey(p)
    BY <2>5, TakeKeyIs
  <2> QED
    BY <1>4, <2>1, <2>2, <2>3, <2>4, <2>5 DEF Resolve
<1>5. CASE UNCHANGED vars
  <2>1. UNCHANGED <<config, heap>> /\ UNCHANGED run
    BY <1>5 DEF vars, config
  <2> QED
    BY <2>1, SameService DEF Service!vars, Service!service, AbsReq
<1> QED
  BY <1>1, <1>2, <1>3, <1>4, <1>5 DEF Next

(* An Environment answers as if it had no caches: for any clones, renders, *)
(* loaders and sources, its behaviours are behaviours of TemplateService.  *)
THEOREM CachesAreTransparent == Spec => ImplementsService
  BY InitIInv, NextIInv, InitIs, NextIs, PTL DEF Spec, Service!Spec, ImplementsService
=============================================================================
