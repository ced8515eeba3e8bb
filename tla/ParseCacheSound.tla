-------------------------- MODULE ParseCacheSound --------------------------
(***************************************************************************)
(* When the parse caches are transparent.  A ParseSignature records which  *)
(* keywords open extension tags, not whose they are or how they close, and *)
(* a named entry records the address of its loader.  Two assumptions make  *)
(* that enough:                                                            *)
(*   - each keyword is only ever registered by one extension and with one  *)
(*     end tag (Home);                                                     *)
(*   - an address identifies a loader: it is never used again, or the only *)
(*     Environment of the family has its loader replaced by the host's     *)
(*     setters, which clear the named cache.                               *)
(***************************************************************************)
EXTENDS ParseCache

CONSTANT Home   \* the one registration of each keyword

ASSUME OneHomePerTag ==
    /\ Home \in [Tags -> Meta]
    /\ \A r \in Registrations : \A i \in DOMAIN r.specs :
          Home[r.specs[i].tag] = [owner |-> r.ext, end |-> r.specs[i].end]

ASSUME AddressIdentifiesLoader ==
    ~Recycles \/ (Host /\ \A e, f \in Envs : e = f)

(* The one configuration a signature stands for.                           *)
ViewOfSig(sig) ==
    [opts |-> sig.opts,
     tags |-> [t \in Tags |-> IF t \in sig.tags THEN Home[t] ELSE NoMeta],
     closing |-> sig.closing]

-----------------------------------------------------------------------------
(* The parts of the inductive invariant.                                   *)

TypeOK ==
    /\ opts \in [Envs -> Opts]
    /\ reg \in [Envs -> Registry]
    /\ loader \in [Envs -> Addrs \cup {None}]
    /\ heap \in [Addrs -> Loaders \cup {None}]
    /\ inline \in [HashKeys -> InlineEntry \cup {None}]
    /\ named \in [Keys -> NamedEntry \cup {None}]
    /\ run \in [Procs -> Runs]

(* Registries only hold the one registration of each keyword.              *)
Homed == \A e \in Envs : \A t \in Tags : reg[e].tags[t] \in {NoMeta, Home[t]}

(* A loader an Environment refers to is alive.                             *)
LoadersLive == \A e \in Envs : loader[e] # None => heap[loader[e]] # None

(* An entry's AST is the parse of its source under the configuration its   *)
(* signature stands for.                                                   *)
InlineEntriesSound ==
    \A h \in HashKeys : inline[h] # None =>
        inline[h].ast = ParseOf(inline[h].src, ViewOfSig(inline[h].sig))

(* An entry of the named cache also agrees with the loader at its address, *)
(* whenever that loader may be answered for without being read.            *)
NamedEntriesSound ==
    \A k \in Keys : named[k] # None =>
        /\ named[k].ast = ParseOf(named[k].src, ViewOfSig(named[k].sig))
        /\ heap[named[k].loader] # None
        /\ Stable(heap[named[k].loader]) =>
              k \in Names /\ heap[named[k].loader].files[k] = named[k].src

(* What a render has in its registers on the way to an answer.             *)
Reading == {"stable_lookup", "load", "key", "named_lookup", "named_parse"}
Read == {"key", "named_lookup", "named_parse"}

RunSound(p) ==
    /\ run[p].pc = "idle" => run[p] = Idle
    /\ run[p].pc # "idle" => run[p].env \in Envs
    /\ run[p].pc # "ready" => run[p].res = None
    /\ run[p].pc \in {"inline_lookup", "inline_parse"} =>
          run[p].src \in Sources /\ run[p].how = "inline"
    /\ run[p].pc \in Reading \/ run[p].how = "named" =>
          /\ run[p].how = "named" /\ run[p].name \in Names
          /\ loader[run[p].env] # None
    /\ run[p].pc = "stable_lookup" => Stable(LoaderFor(p))
    /\ run[p].pc \in {"stable_lookup", "load"} => run[p].src = None
    /\ run[p].pc \in Read =>
          /\ run[p].src \in Sources
          /\ Stable(LoaderFor(p)) => run[p].src = Load(LoaderFor(p), run[p].name)
    /\ run[p].pc \in {"named_lookup", "named_parse"} /\ Stable(LoaderFor(p)) =>
          run[p].key = run[p].name
    /\ run[p].pc = "named_parse" => run[p].key \in Keys

RunsSound == \A p \in Procs : RunSound(p)

CacheInv ==
    /\ TypeOK
    /\ RegistriesAgree
    /\ Homed
    /\ LoadersLive
    /\ InlineEntriesSound
    /\ NamedEntriesSound
    /\ RunsSound

IInv == CacheInv /\ AnswerIsCurrent

(* No two Environments that share a cache entry's signature disagree about *)
(* the entry: sharing the caches between clones is harmless.               *)
CachesShareable ==
    /\ \A h \in HashKeys, e \in Envs :
          inline[h] # None /\ inline[h].sig = SigOf(View(e)) =>
              inline[h].ast = ParseOf(inline[h].src, View(e))
    /\ \A k \in Keys, e \in Envs :
          named[k] # None /\ named[k].sig = SigOf(View(e)) /\ named[k].loader = loader[e] =>
              /\ named[k].ast = ParseOf(named[k].src, View(e))
              /\ Stable(heap[loader[e]]) /\ k \in Names =>
                    named[k].src = Load(heap[loader[e]], k)
-----------------------------------------------------------------------------
(* ParseCache as an implementation of TemplateService: forget the caches,  *)
(* the keys and the addresses.                                             *)
AbsStable == [e \in Envs |-> loader[e] # None /\ Stable(heap[loader[e]])]

AbsFiles ==
    [e \in Envs |-> [n \in Names |->
        IF loader[e] = None THEN None ELSE Load(heap[loader[e]], n)]]

PhaseOf(pc) ==
    CASE pc \in {"idle", "ready"}           -> pc
      [] pc \in {"stable_lookup", "load"}   -> "asked"
      [] pc \in {"inline_lookup", "inline_parse", "key", "named_lookup", "named_parse"}
                                            -> "read"

AbsReq ==
    [p \in Procs |->
        [phase |-> PhaseOf(run[p].pc), env |-> run[p].env, how |-> run[p].how,
         name |-> run[p].name, src |-> run[p].src, res |-> run[p].res]]

Service == INSTANCE TemplateService
    WITH Parse <- ParseOf, view <- [e \in Envs |-> View(e)],
         stable <- AbsStable, files <- AbsFiles, req <- AbsReq

(* Whatever the caches do, a render sees what it would see without them:   *)
(* every answer is the parse of the template as the Environment it borrows *)
(* would load and parse it during that request.                            *)
ImplementsService == Service!Spec
=============================================================================
