---------------------- MODULE CompiledTemplate_proofs ----------------------
(***************************************************************************)
(* Proofs about CompiledTemplate: the AST a Template keeps is that of its  *)
(* source, and until its Environment is configured again it is what the    *)
(* Environment would parse.  A Template's render answers from outside the  *)
(* caches, so AnswerIsCurrent is no invariant here: the inductive one has  *)
(* the other parts of IInv, and Current for the renders of no Template.    *)
(***************************************************************************)
EXTENDS CompiledTemplate, ParseCache_proofs

(* A render of a Template: it is on the way to its first AST, or it has    *)
(* the one the Template keeps, if it keeps any.                            *)
TemplateRender(p) ==
    renders[p] # None =>
        /\ run[p].pc \in {"inline_lookup", "inline_parse", "ready"}
        /\ run[p].how = "inline"
        /\ tmpl[renders[p]].src # None
        /\ run[p].src = tmpl[renders[p]].src
        /\ tmpl[renders[p]].ast # None =>
              run[p].pc = "ready" /\ run[p].res = tmpl[renders[p]].ast

(* A Template whose Environment has not been configured since it was       *)
(* compiled keeps what any Environment would parse.                        *)
KeptFresh ==
    \A m \in Templates : kept[m] =>
        /\ tmpl[m].ast # None
        /\ \A e \in Envs : tmpl[m].ast = ParseOf(tmpl[m].src, View(e))

TIInv ==
    /\ CacheInv
    /\ TemplatesSound
    /\ \A p \in Procs : TemplateRender(p)
    /\ KeptFresh
    /\ \A p \in Procs : renders[p] = None => Current(p)

-----------------------------------------------------------------------------
(* One Environment and one render: no other render has an answer.          *)
LEMMA OneOfEach ==
    /\ \A e, f \in Envs : e = f
    /\ \A p, q \in Procs : p = q
BY HostOnly

(* Whatever a Template's render holds, there is no other render.           *)
LEMMA OnlyRender == \A p \in Procs : OthersCurrent(p)
BY OneOfEach DEF OthersCurrent

(* Unless a Template's render has its AST, the whole of IInv holds.        *)
LEMMA UnlessRendered ==
    ASSUME TIInv, \A p \in Procs : ~Rendered(p)
    PROVE  IInv
BY DEF TIInv, IInv, AnswerIsCurrent, Rendered, Current

(* What is the parse of a Template's source stays so with the              *)
(* configuration.                                                          *)
LEMMA SameViews ==
    ASSUME UNCHANGED config
    PROVE  \A e \in Envs : View(e)' = View(e)
BY DEF config, View, ViewOf

(* A step that leaves the state of ParseCache alone.                       *)
LEMMA UnchangedCache ==
    ASSUME CacheInv, UNCHANGED <<opts, reg, loader, heap, inline, named, run>>
    PROVE  CacheInv' /\ \A p \in Procs : Current(p) => Current(p)'
<1>1. CacheInv'
  BY DEF CacheInv, TypeOK, RegistriesAgree, Homed, LoadersLive, InlineEntriesSound,
         NamedEntriesSound, RunsSound, RunSound, LoaderFor
<1>2. \A p \in Procs : Current(p) => Current(p)'
  BY DEF Current, Expected, Asked, View, LoaderFor
<1> QED
  BY <1>1, <1>2

(* The AST of a Template that is never configured away.                    *)
LEMMA KeptStays ==
    ASSUME KeptFresh, UNCHANGED <<config, tmpl, kept>>
    PROVE  KeptFresh'
BY SameViews DEF KeptFresh

(* A new Template is in no render and has no AST.                          *)
LEMMA NewTemplateStep ==
    ASSUME TIInv, NEW m \in Templates, NewTemplate(m)
    PROVE  TIInv'
<1>1. PICK s \in Sources : tmpl' = [tmpl EXCEPT ![m].src = s]
  BY DEF NewTemplate
<1>2. /\ tmpl[m] = NoTemplate /\ UNCHANGED <<renders, kept>>
      /\ UNCHANGED <<opts, reg, loader, heap, inline, named, run>>
  BY DEF NewTemplate, vars
<1>3. tmpl \in [Templates -> Template]
  BY DEF TIInv, TemplatesSound, TTypeOK
<1>4. /\ tmpl'[m] = [src |-> s, ast |-> None]
      /\ \A k \in Templates : k # m => tmpl'[k] = tmpl[k]
  BY <1>1, <1>2, <1>3 DEF NoTemplate
<1>5. tmpl' \in [Templates -> Template]
  BY <1>1, <1>3, <1>4 DEF Template
<1>6. TemplatesSound'
  BY <1>2, <1>4, <1>5 DEF TIInv, TemplatesSound, TTypeOK
<1>7. \A p \in Procs : renders[p] # None => tmpl'[renders[p]] = tmpl[renders[p]]
  BY <1>2, <1>4 DEF TIInv, TemplatesSound, TTypeOK, TemplateRender, NoTemplate
<1>8. \A p \in Procs : TemplateRender(p)'
  BY <1>2, <1>7 DEF TIInv, TemplateRender
<1>9. KeptFresh'
  BY <1>2, <1>4, SameViews DEF TIInv, KeptFresh, NoTemplate, config
<1>10. CacheInv' /\ \A p \in Procs : Current(p) => Current(p)'
  BY <1>2, UnchangedCache DEF TIInv
<1> QED
  BY <1>2, <1>6, <1>8, <1>9, <1>10 DEF TIInv

(* A render of a Template starts from its AST or at the inline cache.      *)
LEMMA RenderTemplateStep ==
    ASSUME TIInv, NEW p \in Procs, NEW m \in Templates, RenderTemplate(p, m)
    PROVE  TIInv'
<1>1. PICK e \in Envs :
         run' = [run EXCEPT ![p] =
                    IF tmpl[m].ast # None
                    THEN [Request("ready", e, "inline", None, tmpl[m].src)
                             EXCEPT !.res = tmpl[m].ast]
                    ELSE [Request("inline_lookup", e, "inline", None, tmpl[m].src)
                             EXCEPT !.res = None]]
  BY DEF RenderTemplate
<1> DEFINE R == [pc |-> IF tmpl[m].ast # None THEN "ready" ELSE "inline_lookup",
                 env |-> e, how |-> "inline", name |-> None, src |-> tmpl[m].src,
                 key |-> None, res |-> tmpl[m].ast]
<1>2. /\ run[p].pc = "idle" /\ tmpl[m].src # None
      /\ renders' = [renders EXCEPT ![p] = m]
      /\ UNCHANGED <<config, heap, caches, tmpl, kept>>
  BY DEF RenderTemplate
<1>3. run' = [run EXCEPT ![p] = R]
  <2> DEFINE S(pc, ast) == [pc |-> pc, env |-> e, how |-> "inline", name |-> None,
                            src |-> tmpl[m].src, key |-> None, res |-> ast]
  <2>0. \A pc, ast :
           [Request(pc, e, "inline", None, tmpl[m].src) EXCEPT !.res = ast] = S(pc, ast)
    BY DEF Request
  <2>1. CASE tmpl[m].ast = None
    <3>1. [Request("inline_lookup", e, "inline", None, tmpl[m].src) EXCEPT !.res = None] = R
      BY <2>0, <2>1
    <3>2. run' = [run EXCEPT ![p] =
                    [Request("inline_lookup", e, "inline", None, tmpl[m].src)
                        EXCEPT !.res = None]]
      BY <1>1, <2>1
    <3> QED
      BY <3>1, <3>2, Zenon
  <2>2. CASE tmpl[m].ast # None
    <3>1. [Request("ready", e, "inline", None, tmpl[m].src) EXCEPT !.res = tmpl[m].ast] = R
      BY <2>0, <2>2
    <3>2. run' = [run EXCEPT ![p] =
                    [Request("ready", e, "inline", None, tmpl[m].src)
                        EXCEPT !.res = tmpl[m].ast]]
      BY <1>1, <2>2
    <3> QED
      BY <3>1, <3>2, Zenon
  <2> QED
    BY <2>1, <2>2
<1>4. /\ tmpl[m].src \in Sources /\ tmpl[m].ast \in Asts \cup {None}
      /\ renders \in [Procs -> Templates \cup {None}]
  BY <1>2 DEF TIInv, TemplatesSound, TTypeOK, Template
<1>5. R \in Runs
  BY <1>4 DEF Runs, Labels
<1> HIDE DEF R
<1>6. run'[p] = R
  BY <1>3 DEF TIInv, CacheInv, TypeOK
<1>7. RunSound(p)'
  BY <1>4, <1>6, CacheConstants DEF R, RunSound, Reading, Read
<1>8. run' \in [Procs -> Runs] /\ RunsSound'
  BY <1>3, <1>5, <1>7, OneOfEach DEF TIInv, CacheInv, TypeOK, RunsSound
<1>9. CacheInv'
  BY <1>2, <1>8 DEF TIInv, CacheInv, config, caches, TypeOK, RegistriesAgree, Homed,
     LoadersLive, InlineEntriesSound, NamedEntriesSound
<1>10. renders' \in [Procs -> Templates \cup {None}] /\ renders'[p] = m
  BY <1>2, <1>4
<1>11. TemplatesSound'
  BY <1>2, <1>10 DEF TIInv, TemplatesSound, TTypeOK
<1>12. TemplateRender(p)'
  BY <1>2, <1>6, <1>10 DEF R, TemplateRender
<1>13. KeptFresh'
  BY <1>2, KeptStays DEF TIInv
<1> QED
  BY <1>9, <1>10, <1>11, <1>12, <1>13, OneOfEach, NoneIsNoTemplate DEF TIInv

(* The registers of a first render after its step at the inline cache.     *)
LEMMA InlineRegisters ==
    ASSUME IInv, NEW p \in Procs, InlineLookup(p) \/ InlineParse(p)
    PROVE  /\ run'[p].pc \in {"inline_parse", "ready"}
           /\ run'[p].how = run[p].how /\ run'[p].src = run[p].src
           /\ run'[p].env = run[p].env
           /\ run'[p].pc = "ready" => run'[p].res \in Asts
<1>1. run \in [Procs -> Runs]
  BY DEF IInv, CacheInv, TypeOK
<1>2. ASSUME NEW ast \in Asts, Answer(p, ast)
      PROVE  run'[p] = [pc |-> "ready", env |-> run[p].env, how |-> run[p].how,
                        name |-> run[p].name, src |-> run[p].src,
                        key |-> run[p].key, res |-> ast]
  BY <1>1, <1>2 DEF Answer, Advance
<1>3. ASSUME Goto(p, "inline_parse")
      PROVE  run'[p] = [pc |-> "inline_parse", env |-> run[p].env, how |-> run[p].how,
                        name |-> run[p].name, src |-> run[p].src,
                        key |-> run[p].key, res |-> None]
  BY <1>1, <1>3 DEF Goto, Advance
<1>4. CASE InlineLookup(p)
  <2> DEFINE c == inline[HashOf[run[p].src]]
  <2>1. run[p].src \in Sources
    BY <1>4 DEF InlineLookup, IInv, CacheInv, RunsSound, RunSound
  <2>2. c \in InlineEntry \cup {None}
    BY <2>1, CacheConstants DEF IInv, CacheInv, TypeOK
  <2>3. CASE InlineHit(p)
    <3>1. c.ast \in Asts /\ Answer(p, c.ast)
      BY <1>4, <2>2, <2>3 DEF InlineLookup, InlineHit, InlineEntry
    <3>2. run'[p] = [pc |-> "ready", env |-> run[p].env, how |-> run[p].how,
                     name |-> run[p].name, src |-> run[p].src,
                     key |-> run[p].key, res |-> c.ast]
      BY <1>2, <3>1
    <3> QED
      BY <3>1, <3>2
  <2>4. CASE ~InlineHit(p)
    BY <1>3, <1>4, <2>4 DEF InlineLookup
  <2> QED
    BY <2>3, <2>4
<1>5. CASE InlineParse(p)
  <2>1. Fresh(p) \in Asts
    BY <1>5, FreshIsExpected DEF InlineParse
  <2>2. run'[p] = [pc |-> "ready", env |-> run[p].env, how |-> run[p].how,
                   name |-> run[p].name, src |-> run[p].src,
                   key |-> run[p].key, res |-> Fresh(p)]
    BY <1>2, <1>5, <2>1 DEF InlineParse
  <2> QED
    BY <2>1, <2>2
<1> QED
  BY <1>4, <1>5

(* The first render of a Template: what it keeps is the answer of the      *)
(* inline cache, which is current.                                         *)
LEMMA CompileTemplateStep ==
    ASSUME TIInv, NEW p \in Procs, CompileTemplate(p)
    PROVE  TIInv'
<1> DEFINE m == renders[p]
           res == run'[p].res
           done == run'[p].pc = "ready" /\ res.ok
<1>1. /\ m # None /\ renders' = renders
      /\ InlineLookup(p) \/ InlineParse(p)
      /\ tmpl' = IF done THEN [tmpl EXCEPT ![m].ast = res] ELSE tmpl
      /\ kept' = IF done THEN [kept EXCEPT ![m] = TRUE] ELSE kept
  BY DEF CompileTemplate
<1>2. run[p].pc \in {"inline_lookup", "inline_parse"} /\ UNCHANGED <<config, heap>>
  BY <1>1 DEF InlineLookup, InlineParse
<1>3. /\ m \in Templates /\ tmpl[m].ast = None /\ tmpl[m].src # None
      /\ run[p].how = "inline" /\ run[p].src = tmpl[m].src
      /\ renders \in [Procs -> Templates \cup {None}]
      /\ tmpl \in [Templates -> Template] /\ kept \in [Templates -> BOOLEAN]
  BY <1>1, <1>2 DEF TIInv, TemplatesSound, TTypeOK, TemplateRender
<1>4. IInv
  BY <1>2, OneOfEach, UnlessRendered DEF Rendered
<1>5. IInv'
  BY <1>1, <1>4, InlineLookupStep, InlineParseStep
<1>6. /\ run'[p].pc \in {"inline_parse", "ready"} /\ run'[p].how = "inline"
      /\ run'[p].src = tmpl[m].src /\ run'[p].env = run[p].env
      /\ run'[p].pc = "ready" => res \in Asts /\ res # None
  BY <1>1, <1>3, <1>4, InlineRegisters, NoneIsNoTemplate
<1>7. \A k \in Templates : k # m => tmpl'[k] = tmpl[k] /\ kept'[k] = kept[k]
  BY <1>1, <1>3
<1>8. CASE ~done
  <2>1. UNCHANGED <<tmpl, kept, renders, config>>
    BY <1>1, <1>2, <1>8
  <2>2. TemplatesSound' /\ KeptFresh'
    BY <2>1, KeptStays DEF TIInv, TemplatesSound, TTypeOK
  <2>3. TemplateRender(p)'
    BY <1>3, <1>6, <2>1 DEF TemplateRender
  <2> QED
    BY <1>5, <2>2, <2>3, OneOfEach DEF TIInv, IInv, AnswerIsCurrent
<1>9. CASE done
  <2>1. run'[p].env \in Envs /\ res = ParseOf(tmpl[m].src, View(run[p].env)')
    <3>1. RunSound(p)' /\ Current(p)'
      BY <1>5 DEF IInv, CacheInv, RunsSound, AnswerIsCurrent
    <3>2. Asked(p)' = tmpl[m].src
      BY <1>3, <1>6 DEF Asked
    <3> QED
      BY <1>3, <1>6, <1>9, <3>1, <3>2 DEF RunSound, Current, Expected
  <2>2. /\ tmpl'[m] = [src |-> tmpl[m].src, ast |-> res]
        /\ kept'[m] = TRUE
    BY <1>1, <1>3, <1>9 DEF Template
  <2>3. res.src = tmpl[m].src
    BY <1>9, <2>1 DEF ParseOf, Failed
  <2>4. TTypeOK'
    BY <1>1, <1>3, <1>6, <1>9, <2>2 DEF TTypeOK, Template
  <2>5. TemplatesSound'
    BY <1>7, <1>9, <2>2, <2>3, <2>4 DEF TIInv, TemplatesSound
  <2>6. TemplateRender(p)'
    BY <1>1, <1>3, <1>6, <1>9, <2>2 DEF TemplateRender
  <2>7. KeptFresh'
    <3> SUFFICES ASSUME NEW k \in Templates, kept'[k]
                 PROVE  /\ tmpl'[k].ast # None
                        /\ \A e \in Envs : tmpl'[k].ast = ParseOf(tmpl'[k].src, View(e)')
      BY DEF KeptFresh
    <3>1. CASE k = m
      BY <1>6, <1>9, <2>1, <2>2, <3>1, OneOfEach
    <3>2. CASE k # m
      BY <1>2, <1>7, <3>2, SameViews DEF TIInv, KeptFresh
    <3> QED
      BY <3>1, <3>2
  <2> QED
    BY <1>5, <2>5, <2>6, <2>7, OneOfEach DEF TIInv, IInv, AnswerIsCurrent
<1> QED
  BY <1>8, <1>9

(* The render of a Template ends with the next thing it asks for; any      *)
(* other render goes on as in ParseCache.                                  *)
LEMMA OtherStepStep ==
    ASSUME TIInv, NEW p \in Procs, OtherStep(p)
    PROVE  TIInv'
<1>1. /\ renders[p] = None \/ run[p].pc = "ready"
      /\ Resolve(p) /\ renders' = [renders EXCEPT ![p] = None]
      /\ UNCHANGED <<tmpl, kept>>
  BY DEF OtherStep
<1>2. /\ renders \in [Procs -> Templates \cup {None}]
      /\ renders' \in [Procs -> Templates \cup {None}] /\ renders'[p] = None
  BY <1>1 DEF TIInv, TemplatesSound, TTypeOK
<1>3. UNCHANGED config
  BY <1>1 DEF Resolve, Begin, Return, AskInline, AskNamed, InlineLookup, InlineParse,
              StableLookup, LoadSource, TakeKey, NamedLookup, NamedParse
<1>4. IInv'
  <2>1. CASE renders[p] = None
    <3>1. IInv
      BY <2>1, OneOfEach, UnlessRendered DEF Rendered
    <3> QED
      BY <1>1, <3>1, NextIInv DEF Next
  <2>2. CASE renders[p] # None
    <3>1. run[p].pc = "ready" /\ CacheInv
      BY <1>1, <2>2 DEF TIInv
    <3>2. \/ Return(p)
          \/ \E s \in Sources : AskInline(p, s)
          \/ \E n \in Names : AskNamed(p, n)
      BY <1>1, <3>1 DEF Resolve, Begin, InlineLookup, InlineParse, StableLookup,
                        LoadSource, TakeKey, NamedLookup, NamedParse
    <3> QED
      BY <3>1, <3>2, OnlyRender, ReturnStep, AskInlineStep, AskNamedStep
  <2> QED
    BY <2>1, <2>2
<1>5. TemplatesSound' /\ KeptFresh'
  BY <1>1, <1>2, <1>3, KeptStays DEF TIInv, TemplatesSound, TTypeOK
<1>6. TemplateRender(p)'
  BY <1>2 DEF TemplateRender
<1> QED
  BY <1>4, <1>5, <1>6, OneOfEach DEF TIInv, IInv, AnswerIsCurrent

(* Under the mutex an Environment is configured between renders only.      *)
LEMMA NoRenderWhenFree ==
    ASSUME TIInv, NEW e \in Envs, ~Borrowed(e)
    PROVE  \A p \in Procs : run[p].pc = "idle" /\ renders[p] = None
<1> SUFFICES ASSUME NEW p \in Procs
             PROVE  run[p].pc = "idle" /\ renders[p] = None
  OBVIOUS
<1>1. RunSound(p) /\ TemplateRender(p)
  BY DEF TIInv, CacheInv, RunsSound
<1>2. run[p].pc = "idle"
  BY <1>1, OneOfEach DEF RunSound, Borrowed
<1> QED
  BY <1>1, <1>2 DEF TemplateRender

(* A new configuration: no Template is known to be fresh any more.         *)
LEMMA ReconfigureStep ==
    ASSUME TIInv, Reconfigure
    PROVE  TIInv'
<1>1. PICK e \in Envs : Configure(e)
  BY DEF Reconfigure
<1>2. kept' = [m \in Templates |-> FALSE] /\ UNCHANGED <<tmpl, renders>>
  BY DEF Reconfigure
<1>3. ~Borrowed(e)
  BY <1>1, OneOfEach DEF Configure, SetOptions, RegisterExtension, RemoveExtension,
                         AssignLoader, SetLoader, CloneEnv
<1>4. \A p \in Procs : renders[p] = None
  BY <1>3, NoRenderWhenFree
<1>5. IInv'
  BY <1>1, <1>4, UnlessRendered, NextIInv DEF Rendered, Next
<1> QED
  BY <1>2, <1>4, <1>5
  DEF TIInv, IInv, AnswerIsCurrent, TemplatesSound, TTypeOK, TemplateRender, KeptFresh

(* A file changes: an inline Template does not depend on any.              *)
LEMMA ChangeSourceStep ==
    ASSUME TIInv, ChangeSource
    PROVE  TIInv'
<1>1. PICK a \in Addrs : ChangeFile(a)
  BY DEF ChangeSource
<1>2. UNCHANGED <<config, run, tmpl, renders, kept>>
  BY <1>1 DEF ChangeSource, ChangeFile
<1>3. CacheInv' /\ \A p \in Procs : Current(p) => Current(p)'
  BY <1>1, ChangeFileStep DEF TIInv
<1> QED
  BY <1>2, <1>3, KeptStays DEF TIInv, TemplatesSound, TTypeOK, TemplateRender

(* Emptying the caches takes no Template its AST.                          *)
LEMMA InvalidateCacheStep ==
    ASSUME TIInv, InvalidateCache
    PROVE  TIInv'
<1>1. /\ \A e \in Envs : ~Borrowed(e)
      /\ named' = [k \in Keys |-> None] /\ inline' = [h \in HashKeys |-> None]
      /\ UNCHANGED <<config, heap, run>> /\ UNCHANGED <<tmpl, renders, kept>>
  BY DEF InvalidateCache
<1>2. \A p \in Procs : renders[p] = None
  BY <1>1, HostOnly, NoRenderWhenFree
<1>3. IInv'
  BY <1>1, <1>2, UnlessRendered, ClearedStep DEF Rendered
<1> QED
  BY <1>1, <1>2, <1>3, KeptStays
  DEF TIInv, IInv, AnswerIsCurrent, TemplatesSound, TTypeOK, TemplateRender

-----------------------------------------------------------------------------
(* The inductive invariant holds initially.                                *)
LEMMA InitTIInv == TInit => TIInv
<1> SUFFICES ASSUME TInit PROVE TIInv
  OBVIOUS
<1>1. IInv
  BY InitIInv DEF TInit
<1>2. TemplatesSound /\ KeptFresh
  BY DEF TInit, TemplatesSound, TTypeOK, KeptFresh, NoTemplate, Template
<1>3. \A p \in Procs : TemplateRender(p)
  BY DEF TInit, TemplateRender
<1> QED
  BY <1>1, <1>2, <1>3 DEF TIInv, IInv, AnswerIsCurrent

(* Every step keeps the inductive invariant.                               *)
LEMMA NextTIInv == TIInv /\ [TNext]_tvars => TIInv'
<1> SUFFICES ASSUME TIInv, [TNext]_tvars PROVE TIInv'
  OBVIOUS
<1>1. CASE TNext
  BY <1>1, NewTemplateStep, RenderTemplateStep, CompileTemplateStep, OtherStepStep,
     ReconfigureStep, ChangeSourceStep, InvalidateCacheStep DEF TNext
<1>2. CASE UNCHANGED tvars
  <2>1. UNCHANGED <<tmpl, renders, kept, opts, reg, loader, heap, inline, named, run>>
    BY <1>2 DEF tvars, vars
  <2>2. CacheInv' /\ \A p \in Procs : Current(p) => Current(p)'
    BY <2>1, UnchangedCache DEF TIInv
  <2>3. KeptFresh'
    BY <2>1, KeptStays DEF TIInv, config
  <2> QED
    BY <2>1, <2>2, <2>3 DEF TIInv, TemplatesSound, TTypeOK, TemplateRender
<1> QED
  BY <1>1, <1>2

(* A Template never keeps an error or the AST of another source.           *)
THEOREM TemplatesStaySound == TSpec => []TemplatesSound
<1>1. TIInv => TemplatesSound
  BY DEF TIInv
<1> QED
  BY InitTIInv, NextTIInv, <1>1, PTL DEF TSpec

(* What a Template renders is what its Environment would parse, until the  *)
(* Environment is configured again.                                        *)
THEOREM KeptStaysCurrent == TSpec => []KeptIsCurrent
<1>1. TIInv => KeptIsCurrent
  BY DEF TIInv, TemplatesSound, TTypeOK, TemplateRender, KeptFresh, CacheInv, RunsSound,
         RunSound, KeptIsCurrent, Rendered, Current, Expected, Asked
<1> QED
  BY InitTIInv, NextTIInv, <1>1, PTL DEF TSpec

(* A Template is parsed once: no step replaces or drops an AST it keeps.   *)
THEOREM TemplatesParseOnce == TSpec => ParsedOnce
<1>1. TIInv /\ [TNext]_tvars =>
         [\A m \in Templates : tmpl[m].ast # None => tmpl'[m] = tmpl[m]]_tvars
  <2> SUFFICES ASSUME TIInv, TNext, NEW m \in Templates, tmpl[m].ast # None
               PROVE  tmpl'[m] = tmpl[m]
    OBVIOUS
  <2>1. tmpl \in [Templates -> Template]
    BY DEF TIInv, TemplatesSound, TTypeOK
  <2>2. CASE \E k \in Templates : NewTemplate(k)
    BY <2>1, <2>2 DEF NewTemplate, NoTemplate
  <2>3. ASSUME NEW p \in Procs, CompileTemplate(p)
        PROVE  tmpl'[m] = tmpl[m]
    <3>1. /\ renders[p] # None /\ run[p].pc \in {"inline_lookup", "inline_parse"}
          /\ \/ tmpl' = [tmpl EXCEPT ![renders[p]].ast = run'[p].res]
             \/ tmpl' = tmpl
      BY <2>3 DEF CompileTemplate, InlineLookup, InlineParse
    <3>2. renders[p] # m
      BY <3>1 DEF TIInv, TemplateRender
    <3> QED
      BY <2>1, <3>1, <3>2
  <2>4. CASE UNCHANGED tmpl
    BY <2>4
  <2> QED
    BY <2>2, <2>3, <2>4 DEF TNext, RenderTemplate, OtherStep, Reconfigure,
                            ChangeSource, InvalidateCache
<1> QED
  BY InitTIInv, NextTIInv, <1>1, PTL DEF TSpec, ParsedOnce
=============================================================================
