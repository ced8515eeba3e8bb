-------------------------- MODULE CompiledTemplate --------------------------
(***************************************************************************)
(* Template objects of the host (JsTemplate in runjucks-napi/src/lib.rs):  *)
(* an inline template keeps the AST of its first render, and later renders *)
(* use it without a look at the parse caches of ParseCache.                *)
(*                                                                         *)
(* The host's mutex on an Environment is ParseCache's borrow: the same     *)
(* calls exclude each other.  A template made by getTemplate keeps its     *)
(* name only and renders as a named request of ParseCache.  An eager       *)
(* compile is, for the AST it keeps, a first render.                       *)
(***************************************************************************)
EXTENDS ParseCache

CONSTANT Templates  \* Template objects

ASSUME NoneIsNoTemplate == None \notin Templates \cup Asts

(* One Environment behind its mutex: one render at a time.                 *)
ASSUME HostOnly ==
    /\ Host
    /\ \E e \in Envs : Envs = {e}
    /\ \E p \in Procs : Procs = {p}

VARIABLES
    tmpl,       \* per Template: its source and cached_ast
    renders,    \* per render: the inline Template it renders, or None
    kept        \* history: no reconfiguration since the Template was compiled

tvars == <<vars, tmpl, renders, kept>>

NoTemplate == [src |-> None, ast |-> None]

TInit ==
    /\ Init
    /\ tmpl = [m \in Templates |-> NoTemplate]
    /\ renders = [p \in Procs |-> None]
    /\ kept = [m \in Templates |-> FALSE]

-----------------------------------------------------------------------------
NewTemplate(m) ==
    /\ tmpl[m] = NoTemplate
    /\ \E s \in Sources : tmpl' = [tmpl EXCEPT ![m].src = s]
    /\ UNCHANGED <<vars, renders, kept>>

(* Mutant of RenderTemplate: the source is asked for every time.           *)
RenderReparsed(p, m) ==
    /\ run[p].pc = "idle"
    /\ tmpl[m].src # None
    /\ \E e \in Envs :
          run' = [run EXCEPT ![p] = Request("inline_lookup", e, "inline", None, tmpl[m].src)]
    /\ renders' = [renders EXCEPT ![p] = m]
    /\ UNCHANGED <<config, heap, caches, tmpl, kept>>

(* JsTemplate::render: the AST it has, or a request for its source.        *)
RenderTemplate(p, m) ==
    /\ run[p].pc = "idle"
    /\ tmpl[m].src # None
    /\ \E e \in Envs :
          LET ask(pc, ast) ==
                  [Request(pc, e, "inline", None, tmpl[m].src) EXCEPT !.res = ast]
          IN  run' = [run EXCEPT ![p] = IF tmpl[m].ast # None
                                        THEN ask("ready", tmpl[m].ast)
                                        ELSE ask("inline_lookup", None)]
    /\ renders' = [renders EXCEPT ![p] = m]
    /\ UNCHANGED <<config, heap, caches, tmpl, kept>>

(* Mutant of CompileTemplate: a failed parse is kept too.                  *)
CompileAnyway(p) ==
    /\ renders[p] # None
    /\ InlineLookup(p) \/ InlineParse(p)
    /\ LET m == renders[p]
           done == run'[p].pc = "ready"
       IN  /\ tmpl' = IF done THEN [tmpl EXCEPT ![m].ast = run'[p].res] ELSE tmpl
           /\ kept' = IF done THEN [kept EXCEPT ![m] = TRUE] ELSE kept
    /\ UNCHANGED renders

(* The rest of a first render: the AST is kept unless the parse failed.    *)
CompileTemplate(p) ==
    /\ renders[p] # None
    /\ InlineLookup(p) \/ InlineParse(p)
    /\ LET m == renders[p]
           done == run'[p].pc = "ready" /\ run'[p].res.ok
       IN  /\ tmpl' = IF done THEN [tmpl EXCEPT ![m].ast = run'[p].res] ELSE tmpl
           /\ kept' = IF done THEN [kept EXCEPT ![m] = TRUE] ELSE kept
    /\ UNCHANGED renders

(* Any other step of a render: what it asks for is not a Template's.       *)
OtherStep(p) ==
    /\ renders[p] = None \/ run[p].pc = "ready"
    /\ Resolve(p)
    /\ renders' = [renders EXCEPT ![p] = None]
    /\ UNCHANGED <<tmpl, kept>>

Reconfigure ==
    /\ \E e \in Envs : Configure(e)
    /\ kept' = [m \in Templates |-> FALSE]
    /\ UNCHANGED <<tmpl, renders>>

(* The files and callbacks behind a loader change during a render too.     *)
ChangeSource ==
    /\ \E a \in Addrs : ChangeFile(a)
    /\ UNCHANGED <<tmpl, renders, kept>>

(* invalidateCache: both caches, under the host's mutex.                   *)
InvalidateCache ==
    /\ \A e \in Envs : ~Borrowed(e)
    /\ named' = [k \in Keys |-> None]
    /\ inline' = [h \in HashKeys |-> None]
    /\ UNCHANGED <<config, heap, run, tmpl, renders, kept>>

TNext ==
    \/ \E m \in Templates : NewTemplate(m)
    \/ \E p \in Procs, m \in Templates : RenderTemplate(p, m)
    \/ \E p \in Procs : CompileTemplate(p) \/ OtherStep(p)
    \/ Reconfigure
    \/ ChangeSource
    \/ InvalidateCache

TSpec == TInit /\ [][TNext]_tvars

-----------------------------------------------------------------------------
Template == [src : Sources \cup {None}, ast : Asts \cup {None}]

TTypeOK ==
    /\ tmpl \in [Templates -> Template]
    /\ renders \in [Procs -> Templates \cup {None}]
    /\ kept \in [Templates -> BOOLEAN]

(* The AST a Template keeps is that of a successful parse of its source.   *)
TemplatesSound ==
    /\ TTypeOK
    /\ \A m \in Templates : tmpl[m].ast # None =>
          tmpl[m].ast.ok /\ tmpl[m].ast.src = tmpl[m].src

Rendered(p) == renders[p] # None /\ run[p].pc = "ready"

(* Until the Environment is configured again, a Template renders the AST   *)
(* that its Environment would parse, through any renders of other          *)
(* templates and invalidations in between.                                 *)
KeptIsCurrent ==
    \A p \in Procs : Rendered(p) /\ kept[renders[p]] => Current(p)

(* "parses once per Template instance ... and reuses the parsed AST".      *)
ParsedOnce ==
    [][\A m \in Templates : tmpl[m].ast # None => tmpl'[m] = tmpl[m]]_tvars
=============================================================================
