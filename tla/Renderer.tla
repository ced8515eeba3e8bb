------------------------------ MODULE Renderer ------------------------------
(***************************************************************************)
(* One render by the synchronous renderer (renderer.rs): render_entry and  *)
(* render_node_into over the templates of a library, with the RenderState  *)
(* they share and the CtxStack of each template and macro that is being    *)
(* rendered.                                                               *)
(*                                                                         *)
(* The Rust call stack is ctl.  A frame runs the nodes of a body; what its *)
(* function does after them is its role, with the locals that needs in     *)
(* save.  A step starts one node, or ends one frame.  Output, conditions,  *)
(* and the items of iterables are left open: an if may take any branch, an *)
(* iterable has any length up to MaxItems, and any expression, filter or   *)
(* handler may fail.  A failed render drops the whole state.               *)
(*                                                                         *)
(* Addresses.  Blocks, callers and exported set blocks render a clone of   *)
(* their body, freed afterwards; copy says which clone a frame runs, and   *)
(* 0 that it runs the AST.  Recycles tells whether the nodes of a clone    *)
(* may lie where those of a freed one lay.  ASTs and top-level macros are  *)
(* kept by their caches (a loader with stable keys).                       *)
(***************************************************************************)
EXTENDS Templates

CONSTANTS
    Lib,            \* the libraries to render from
    Main,           \* the template to render
    MaxItems,       \* bound: items of an iterable
    MaxDepth,       \* bound: frames of the call stack
    Recycles        \* freed nodes are allocated again during a render

INSTANCE CtxStack

ASSUME RendererConstants ==
    /\ Lib \subseteq Libraries
    /\ Main \in Names /\ \A lib \in Lib : lib[Main] # None
    /\ {MaxItems, MaxDepth} \subseteq Nat
    /\ Recycles \in BOOLEAN
    /\ None \notin (BlockNames \X Nat) \cup Values

Roles == {"entry", "template", "layout", "module", "root", "nodes", "filter", "capture",
          "for", "block", "super", "macro", "call", "caller", "ext"}

VARIABLES
    lib,        \* what the loader has
    status,     \* "start", "running", "done" or "failed"
    ctl,        \* the call stack
    names,      \* stack: the open templates, for the cycle check
    scopes,     \* macro_scopes
    spaces,     \* macro_namespaces, macro_namespace_values
    chains,     \* block_chains
    super,      \* super_context: <<block, layer>> or None
    callers,    \* caller_stack
    ctxs,       \* the CtxStacks in use, innermost last
    loopUse,    \* loop_usage_cache, by <<copy, body>>
    extCache,   \* extension_context_cache
    serial      \* counter of stack ids and of clones

vars == <<lib, status, ctl, names, scopes, spaces, chains, super, callers, ctxs,
          loopUse, extCache, serial>>

modules == <<scopes, spaces>>
caches == <<loopUse, extCache>>

StartIn(libs) ==
    /\ lib \in libs
    /\ status = "start"
    /\ ctl = << >>
    /\ names = << >>
    /\ scopes = << >>
    /\ spaces = << >>
    /\ chains = None
    /\ super = None
    /\ callers = << >>
    /\ ctxs = <<FromRoot(1, EmptyFrame)>>
    /\ loopUse = << >>
    /\ extCache = None
    /\ serial = 1

Init == StartIn(Lib)

-----------------------------------------------------------------------------
(* A map after insert.                                                     *)
Inserted(map, key, val) == [k \in DOMAIN map \cup {key} |-> IF k = key THEN val ELSE map[k]]

Top == Last(ctl)
Ctx == Last(ctxs)
WithCtx(ctx) == ctxs' = Append(Front(ctxs), ctx)

NodesOf(body) == IF body = None THEN << >> ELSE Code[body]
Finished(f) == f.pos > Len(NodesOf(f.body))

Current == Code[Top.body][Top.pos]

(* Root skips macros and extends; an import evaluates the exports only.    *)
Skipped(f, node) ==
    \/ node.kind = "macro"
    \/ f.role = "root" /\ node.kind = "extends"
    \/ f.role = "module" /\ node.kind \notin {"set", "setblock"}

Starting == status = "running" /\ ~Finished(Top)
At(kind) == Starting /\ Current.kind = kind /\ ~Skipped(Top, Current)
Ending(role) == status = "running" /\ Finished(Top) /\ Top.role = role

Frame(role, body, copy, save) ==
    [role |-> role, body |-> body, copy |-> copy, pos |-> 1, save |-> save]

Past == [ctl EXCEPT ![Len(ctl)].pos = @ + 1]

Continue == ctl' = Past /\ status' = status

Push(frame) ==
    /\ Len(ctl) < MaxDepth
    /\ ctl' = Append(Past, frame)
    /\ status' = status

(* The body of a statement: the same clone as the statement itself.        *)
Nested(role, body, save) == Frame(role, body, Top.copy, save)

MaybeNodes(body) ==
    IF body = None THEN Continue ELSE Push(Nested("nodes", body, None))

Leave ==
    /\ ctl' = Front(ctl)
    /\ status' = IF Len(ctl) = 1 THEN "done" ELSE "running"

(* The error goes up to the host, and the state is dropped on the way.     *)
Fail ==
    /\ status' = "failed"
    /\ ctl' = << >> /\ names' = << >> /\ scopes' = << >> /\ spaces' = << >>
    /\ chains' = None /\ super' = None /\ callers' = << >> /\ ctxs' = << >>
    /\ loopUse' = << >> /\ extCache' = None /\ serial' = 1
    /\ UNCHANGED lib

-----------------------------------------------------------------------------
(* Templates: render_entry, render_extends and Node::Root.                 *)

(* Mutant of MayOpen: push_template lets a name be open twice.             *)
MayOpenTwice(open, name) == lib[name] # None

(* load_and_parse_named and push_template.                                 *)
MayOpen(open, name) == lib[name] # None /\ name \notin Range(open)

RootFrame(root) == Frame("root", root, 0, [base |-> Len(scopes)])

PushMacros(root) ==
    scopes' = IF Places(root, {"macro"}) = {} THEN scopes
              ELSE Append(scopes, MacrosOf[root])

LayoutBroken(open, root) ==
    LET parent == ParentOf[root].name
    IN  \/ ~ValidChild(root)
        \/ ~MayOpen(open, parent)
        \/ ~ParentsOK(lib, parent)

(* render_entry of the template at root, on top of the frames below.  The  *)
(* parent's own extends is skipped by the root frame like any other.       *)
RenderEntry(below, open, root) ==
    \/ /\ ~IsChild(root)
       /\ Len(below) < MaxDepth
       /\ ctl' = Append(below, RootFrame(root))
       /\ names' = open
       /\ PushMacros(root)
       /\ status' = "running"
       /\ UNCHANGED chains
    \/ LET parent == ParentOf[root].name
       IN  /\ IsChild(root) /\ ~LayoutBroken(open, root)
           /\ Len(below) + 1 < MaxDepth
           /\ ctl' = below \o <<Frame("layout", None, 0,
                                      [name |-> parent, child |-> root, prev |-> chains]),
                                RootFrame(lib[parent])>>
           /\ names' = Append(open, parent)
           /\ chains' = ChainsOf(lib, parent, BlocksOf[root])
           /\ PushMacros(lib[parent])
           /\ status' = "running"

EntryFails(open, root) == IsChild(root) /\ LayoutBroken(open, root)

(* render_template; or render_string of a source that the loader has too.  *)
Begin ==
    /\ status = "start"
    /\ \E named \in BOOLEAN :
          LET open == IF named THEN <<Main>> ELSE << >>
              name == IF named THEN Main ELSE None
              scanned == named => LiteralExtendsOK(lib, open, lib[Main])
          IN  \/ /\ scanned
                 /\ RenderEntry(<<Frame("entry", None, 0, [name |-> name])>>, open, lib[Main])
                 /\ UNCHANGED <<lib, spaces, super, callers, ctxs, caches, serial>>
              \/ /\ ~scanned \/ EntryFails(open, lib[Main])
                 /\ Fail

(* Mutant of EndRoot: its own macros go, those of a `from` stay.           *)
EndRootPoppingOne ==
    /\ Ending("root")
    /\ Leave
    /\ scopes' = IF Len(scopes) > Top.save.base THEN Front(scopes) ELSE scopes
    /\ UNCHANGED <<lib, names, spaces, chains, super, callers, ctxs, caches, serial>>

EndRoot ==
    /\ Ending("root")
    /\ Leave
    /\ scopes' = SubSeq(scopes, 1, Top.save.base)
    /\ UNCHANGED <<lib, names, spaces, chains, super, callers, ctxs, caches, serial>>

EndLayout ==
    /\ Ending("layout")
    /\ Leave
    /\ names' = Front(names)
    /\ chains' = Top.save.prev
    /\ UNCHANGED <<lib, modules, super, callers, ctxs, caches, serial>>

EndEntry ==
    /\ Ending("entry")
    /\ Leave
    /\ names' = IF Top.save.name = None THEN names ELSE Front(names)
    /\ UNCHANGED <<lib, modules, chains, super, callers, ctxs, caches, serial>>

-----------------------------------------------------------------------------
(* Nodes that need nothing but the next node, or one body.                 *)

Skip ==
    /\ Starting
    /\ Skipped(Top, Current) \/ Current.kind \in {"text", "out"}
    /\ Continue
    /\ UNCHANGED <<lib, names, modules, chains, super, callers, ctxs, caches, serial>>

If ==
    /\ At("if")
    /\ \/ \E body \in Range(Current.branches) : Push(Nested("nodes", body, None))
       \/ ~Current.otherwise /\ Continue
    /\ UNCHANGED <<lib, names, modules, chains, super, callers, ctxs, caches, serial>>

(* Empty cases fall through: to the next body, at last to the default.     *)
Switch ==
    /\ At("switch")
    /\ \E start \in 1 .. Len(Current.cases) + 1 :
          LET full == {i \in start .. Len(Current.cases) : Code[Current.cases[i]] # << >>}
          IN  IF full = {} THEN MaybeNodes(Current.default)
              ELSE Push(Nested("nodes", Current.cases[Min(full)], None))
    /\ UNCHANGED <<lib, names, modules, chains, super, callers, ctxs, caches, serial>>

FilterBlock ==
    /\ At("filter")
    /\ Push(Nested("filter", Current.body, None))
    /\ UNCHANGED <<lib, names, modules, chains, super, callers, ctxs, caches, serial>>

EndNodes ==
    /\ Ending("nodes") \/ Ending("filter")
    /\ Leave
    /\ UNCHANGED <<lib, names, modules, chains, super, callers, ctxs, caches, serial>>

(* "`extends` is only valid at the top level of a loaded template"         *)
Misplaced ==
    /\ At("extends")
    /\ Fail

(* "requires async render mode"                                            *)
AsyncOnly ==
    /\ At("asyncFor") \/ At("ifAsync")
    /\ Fail

(* An error from an expression, a filter or an extension's handler.        *)
Throw ==
    /\ \/ /\ Starting /\ ~Skipped(Top, Current)
          /\ Current.kind \notin {"text", "super", "setblock", "block", "extends"}
       \/ Ending("filter") \/ Ending("ext")
    /\ Fail

-----------------------------------------------------------------------------
(* Assignments and extension tags.                                         *)

(* A variable that an import assigns at its top level is exported.         *)
Export(stack, v) ==
    IF Last(stack).role = "module"
    THEN [stack EXCEPT ![Len(stack)].save.out[v] = Some]
    ELSE stack

Set ==
    /\ At("set")
    /\ ctl' = Export(Past, Current.var)
    /\ WithCtx(SetVar(Ctx, Current.var, Some))
    /\ UNCHANGED <<lib, status, names, modules, chains, super, callers, caches, serial>>

SetBlock ==
    /\ At("setblock")
    /\ Push(Nested("capture", Current.body, [var |-> Current.var]))
    /\ UNCHANGED <<lib, names, modules, chains, super, callers, ctxs, caches, serial>>

EndCapture ==
    /\ Ending("capture")
    /\ ctl' = Export(Front(ctl), Top.save.var)
    /\ WithCtx(SetVar(Ctx, Top.save.var, Some))
    /\ UNCHANGED <<lib, status, names, modules, chains, super, callers, caches, serial>>

(* The variables the handler gets: merged for this tag or for an earlier   *)
(* one, before its body is rendered.                                       *)
ExtContext ==
    LET hit == extCache # None /\ extCache.id = Ctx.id /\ extCache.rev = Ctx.rev
    IN  [id |-> Ctx.id, rev |-> Ctx.rev,
         vars |-> IF hit THEN extCache.vars ELSE Flatten(Ctx)]

ExtensionTag ==
    /\ At("ext")
    /\ IF Current.body = None
       THEN Continue /\ extCache' = ExtContext
       ELSE Push(Nested("ext", Current.body, ExtContext)) /\ extCache' = None
    /\ UNCHANGED <<lib, names, modules, chains, super, callers, ctxs, loopUse, serial>>

EndExtensionTag ==
    /\ Ending("ext")
    /\ Leave
    /\ extCache' = Top.save
    /\ UNCHANGED <<lib, names, modules, chains, super, callers, ctxs, loopUse, serial>>

-----------------------------------------------------------------------------
(* Loops.                                                                  *)

(* What loop_usage_cache may answer for a body: what it has under its      *)
(* address, and there may be what it had for a body that has been freed.   *)
Freed(key) == key[1] # 0 /\ \A i \in DOMAIN ctl : ctl[i].copy # key[1]

KnownUses(key) ==
    IF key \in DOMAIN loopUse THEN {loopUse[key]}
    ELSE {UsesLoop[key[2]]} \cup
         IF Recycles /\ key[1] # 0
         THEN {loopUse[old] : old \in {k \in DOMAIN loopUse :
                   Freed(k) /\ Len(Code[k[2]]) = Len(Code[key[2]])}}
         ELSE {}

(* Mutant of Iterate: loop is bound before the first item only.            *)
IterateOnce(ctx, needs, i, n, targets) ==
    LET looped == IF needs /\ i = 1 THEN SetLocal(ctx, <<"loop">>, LoopObject(i, n)) ELSE ctx
        bound == SetLocal(looped, targets, Item(i))
    IN  Revised(bound, 0, [bound.frames EXCEPT ![Len(bound.frames)].item = LoopObject(i, n)])

(* The bindings of iteration i of n.                                       *)
Iterate(ctx, needs, i, n, targets) ==
    LET looped == IF needs THEN SetLocal(ctx, <<"loop">>, LoopObject(i, n)) ELSE ctx
        bound == SetLocal(looped, targets, Item(i))
    IN  Revised(bound, 0, [bound.frames EXCEPT ![Len(bound.frames)].item = LoopObject(i, n)])

ForEmpty ==
    /\ At("for")
    /\ MaybeNodes(Current.otherwise)
    /\ UNCHANGED <<lib, names, modules, chains, super, callers, ctxs, caches, serial>>

(* The first item.                                                         *)
For ==
    /\ At("for")
    /\ LET key == <<Top.copy, Current.body>>
       IN  \E n \in 1 .. MaxItems, needs \in KnownUses(key) :
              /\ Push(Nested("for", Current.body,
                             [vars |-> Current.vars, i |-> 1, n |-> n, needs |-> needs]))
              /\ WithCtx(Iterate(PushFrame(Ctx), needs, 1, n, Current.vars))
              /\ loopUse' = Inserted(loopUse, key, needs)
    /\ UNCHANGED <<lib, names, modules, chains, super, callers, extCache, serial>>

(* Items that do not fit the loop's variables.                             *)
ForMisfit ==
    /\ At("for")
    /\ MaybeNodes(Current.otherwise)
    /\ WithCtx(PopFrame(PushFrame(Ctx)))
    /\ LET key == <<Top.copy, Current.body>>
       IN  \E needs \in KnownUses(key) : loopUse' = Inserted(loopUse, key, needs)
    /\ UNCHANGED <<lib, names, modules, chains, super, callers, extCache, serial>>

NextItem ==
    /\ Ending("for")
    /\ Top.save.i < Top.save.n
    /\ ctl' = [ctl EXCEPT ![Len(ctl)].pos = 1, ![Len(ctl)].save.i = @ + 1]
    /\ WithCtx(Iterate(Ctx, Top.save.needs, Top.save.i + 1, Top.save.n, Top.save.vars))
    /\ UNCHANGED <<lib, status, names, modules, chains, super, callers, caches, serial>>

EndFor ==
    /\ Ending("for")
    /\ Top.save.i = Top.save.n
    /\ Leave
    /\ WithCtx(PopFrame(Ctx))
    /\ UNCHANGED <<lib, names, modules, chains, super, callers, caches, serial>>

-----------------------------------------------------------------------------
(* Includes and imports.                                                   *)

(* `ignore missing` forgives any failure to load or parse the template,    *)
(* the only one of which is here its absence; it does not forgive a cycle  *)
(* or an error of the render of what was included.                         *)
Include ==
    /\ At("include")
    /\ LET name == Current.name
           open == Append(names, name)
           frame == Frame("template", None, 0, [name |-> name])
           vars0 == IF Current.context THEN Flattened(Ctx) ELSE EmptyFrame
       IN  \/ /\ lib[name] = None /\ Current.missing
              /\ Continue
              /\ UNCHANGED <<lib, names, modules, chains, super, callers, ctxs, caches, serial>>
           \/ /\ MayOpen(names, name)
              /\ RenderEntry(Append(Past, frame), open, lib[name])
              /\ ctxs' = Append(ctxs, FromRoot(serial + 1, vars0))
              /\ serial' = serial + 1
              /\ UNCHANGED <<lib, spaces, super, callers, caches>>
           \/ /\ IF lib[name] = None THEN ~Current.missing
                 ELSE ~MayOpen(names, name) \/ EntryFails(open, lib[name])
              /\ Fail

EndInclude ==
    /\ Ending("template")
    /\ Leave
    /\ names' = Front(names)
    /\ ctxs' = Front(ctxs)
    /\ UNCHANGED <<lib, modules, chains, super, callers, caches, serial>>

(* import and from, up to the evaluation of the exports: the set nodes at  *)
(* the template's top level, cloned, on a stack of their own.              *)
Import ==
    /\ At("import") \/ At("from")
    /\ LET name == Current.name
           open == Append(names, name)
           opens == MayOpen(names, name) /\ LiteralImportsOK(lib, open, lib[name])
           vars0 == IF Current.context THEN Flattened(Ctx) ELSE EmptyFrame
       IN  \/ /\ opens
              /\ Push(Frame("module", lib[name], serial + 1,
                            [name |-> name, node |-> Current, out |-> NoBindings]))
              /\ names' = open
              /\ ctxs' = Append(ctxs, FromRoot(serial + 1, vars0))
              /\ serial' = serial + 1
              /\ UNCHANGED <<lib, modules, chains, super, callers, caches>>
           \/ /\ ~opens
              /\ Fail

EndImport ==
    /\ Ending("module")
    /\ Top.save.node.kind = "import"
    /\ Leave
    /\ names' = Front(names)
    /\ ctxs' = Front(ctxs)
    /\ spaces' = Inserted(spaces, Top.save.node.alias,
                          [macros |-> MacrosOf[Top.body], vals |-> Top.save.out])
    /\ UNCHANGED <<lib, scopes, chains, super, callers, caches, serial>>

(* What the template of an ending from exports under a name.               *)
ExportsMacro(name) == name \in MacroNames /\ Named(Top.body, "macro", name) # None
ExportsValue(name) == name \in Vars /\ Top.save.out[name] # None

(* The macros make a new scope; the values are variables of the importer.  *)
(* Of two exports under one name the last one stays.                       *)
Imported(local, macro) ==
    LET from == {i \in DOMAIN Top.save.node.names :
                    /\ Top.save.node.names[i].local = local
                    /\ (ExportsMacro(Top.save.node.names[i].export) <=> macro)}
    IN  IF from = {} THEN None ELSE Top.save.node.names[Max(from)].export

ImportedScope ==
    [m \in MacroNames |->
        LET export == Imported(m, TRUE)
        IN  IF export = None THEN None ELSE Named(Top.body, "macro", export)]

ImportValues(ctx) ==
    SetVars(ctx,
            [v \in Vars |->
                LET export == Imported(v, FALSE)
                IN  IF export = None THEN None ELSE Top.save.out[export]],
            Cardinality({i \in DOMAIN Top.save.node.names :
                            ~ExportsMacro(Top.save.node.names[i].export)}))

EndFrom ==
    /\ Ending("module")
    /\ Top.save.node.kind = "from"
    /\ LET found == \A x \in Range(Top.save.node.names) :
                        ExportsMacro(x.export) \/ ExportsValue(x.export)
       IN  \/ /\ found
              /\ Leave
              /\ names' = Front(names)
              /\ ctxs' = Append(Front(Front(ctxs)), ImportValues(Last(Front(ctxs))))
              /\ scopes' = Append(scopes, ImportedScope)
              /\ UNCHANGED <<lib, spaces, chains, super, callers, caches, serial>>
           \/ /\ ~found
              /\ Fail

-----------------------------------------------------------------------------
(* Blocks.                                                                 *)

Chain(b) == IF chains = None THEN << >> ELSE chains[b]

(* Every block and super body is a clone.                                  *)
PushClone(role, body, save) ==
    /\ Push(Frame(role, body, serial + 1, save))
    /\ serial' = serial + 1

Block ==
    /\ At("block")
    /\ LET layers == Chain(Current.name)
       IN  PushClone("block", IF layers = << >> THEN Current.body ELSE layers[1],
                     [prev |-> super])
    /\ super' = <<Current.name, 0>>
    /\ UNCHANGED <<lib, names, modules, chains, callers, ctxs, caches>>

(* super(): the next layer of the block that is being rendered.            *)
Super ==
    /\ At("super")
    /\ IF super # None /\ super[2] + 1 < Len(Chain(super[1]))
       THEN /\ PushClone("super", Chain(super[1])[super[2] + 2], [prev |-> super])
            /\ super' = <<super[1], super[2] + 1>>
            /\ UNCHANGED <<lib, names, modules, chains, callers, ctxs, caches>>
       ELSE Fail

(* Mutant of EndBlock: super_context stays.                                *)
EndBlockKeepingSuper ==
    /\ Ending("block") \/ Ending("super")
    /\ Leave
    /\ UNCHANGED <<lib, names, modules, chains, super, callers, ctxs, caches, serial>>

EndBlock ==
    /\ Ending("block") \/ Ending("super")
    /\ Leave
    /\ super' = Top.save.prev
    /\ UNCHANGED <<lib, names, modules, chains, callers, ctxs, caches, serial>>

-----------------------------------------------------------------------------
(* Macros and call blocks.                                                 *)

(* lookup_macro, or lookup_namespaced_macro.                               *)
FindMacro(node) ==
    IF node.ns # None
    THEN IF node.ns \in DOMAIN spaces THEN spaces[node.ns].macros[node.macro] ELSE None
    ELSE LET found == {i \in DOMAIN scopes : scopes[i][node.macro] # None}
         IN  IF found = {} THEN None ELSE scopes[Max(found)][node.macro]

(* The module's values, under the parameters: given, default, or null.     *)
Arguments(node, macro) ==
    [v \in Vars |-> IF v \in Range(macro.params) THEN Some
                    ELSE IF node.ns # None THEN spaces[node.ns].vals[v]
                    ELSE None]

EnterMacro(role, macro) ==
    /\ Push(Frame(role, macro.body, 0, None))
    /\ ctxs' = Append(ctxs, ForkWith(Ctx, serial + 1, Arguments(Current, macro)))
    /\ serial' = serial + 1

Invoke ==
    /\ At("invoke")
    /\ LET macro == FindMacro(Current)
       IN  IF macro # None
           THEN /\ EnterMacro("macro", macro)
                /\ UNCHANGED <<lib, names, modules, chains, super, callers, caches>>
           ELSE Fail

EndMacro ==
    /\ Ending("macro")
    /\ Leave
    /\ ctxs' = Front(ctxs)
    /\ UNCHANGED <<lib, names, modules, chains, super, callers, caches, serial>>

CallBlock ==
    /\ At("call")
    /\ LET macro == FindMacro(Current)
       IN  IF macro # None
           THEN /\ EnterMacro("call", macro)
                /\ callers' = Append(callers, [body |-> Current.body, params |-> Current.params])
                /\ UNCHANGED <<lib, names, modules, chains, super, caches>>
           ELSE Fail

(* Mutant of EndCall: the caller frame stays.                              *)
EndCallKeepingCaller ==
    /\ Ending("call")
    /\ Leave
    /\ ctxs' = Front(ctxs)
    /\ UNCHANGED <<lib, names, modules, chains, super, callers, caches, serial>>

EndCall ==
    /\ Ending("call")
    /\ Leave
    /\ ctxs' = Front(ctxs)
    /\ callers' = Front(callers)
    /\ UNCHANGED <<lib, names, modules, chains, super, caches, serial>>

(* The parameters are inserted without a revision of their own.            *)
BindCaller(ctx, params) ==
    Revised(ctx, 1, Append(ctx.frames,
        [vars |-> [v \in Vars |-> IF v \in Range(params) THEN Some ELSE None], item |-> None]))

(* caller(): the body of the innermost call block, on the stack of the     *)
(* code that calls it.                                                     *)
Caller ==
    /\ At("caller")
    /\ IF callers = << >> \/ (Last(callers).params = << >> /\ Current.args)
       THEN Fail
       ELSE LET frame == Last(callers)
                bound == frame.params # << >>
            IN  /\ PushClone("caller", frame.body, [bound |-> bound])
                /\ IF bound THEN WithCtx(BindCaller(Ctx, frame.params)) ELSE UNCHANGED ctxs
                /\ UNCHANGED <<lib, names, modules, chains, super, callers, caches>>

EndCaller ==
    /\ Ending("caller")
    /\ Leave
    /\ IF Top.save.bound THEN WithCtx(PopFrame(Ctx)) ELSE UNCHANGED ctxs
    /\ UNCHANGED <<lib, names, modules, chains, super, callers, caches, serial>>

-----------------------------------------------------------------------------
StartNode ==
    \/ Skip \/ If \/ Switch \/ FilterBlock \/ Misplaced \/ AsyncOnly
    \/ Set \/ SetBlock \/ ExtensionTag
    \/ ForEmpty \/ For \/ ForMisfit
    \/ Include \/ Import \/ Block \/ Super
    \/ Invoke \/ CallBlock \/ Caller

EndFrame ==
    \/ EndRoot \/ EndLayout \/ EndEntry
    \/ EndNodes \/ EndCapture \/ EndExtensionTag \/ NextItem \/ EndFor
    \/ EndInclude \/ EndImport \/ EndFrom \/ EndBlock
    \/ EndMacro \/ EndCall \/ EndCaller

Render == Begin \/ StartNode \/ EndFrame

Next == Render \/ Throw

Spec == Init /\ [][Next]_vars

(* The renderer is a function call: it goes on until it returns.           *)
FairSpec == Spec /\ WF_vars(Render)

-----------------------------------------------------------------------------
TypeOK ==
    /\ lib \in Libraries
    /\ status \in {"start", "running", "done", "failed"}
    /\ \A i \in DOMAIN ctl :
          /\ ctl[i].role \in Roles /\ ctl[i].body \in Bodies \cup {None}
          /\ ctl[i].copy \in 0 .. serial /\ ctl[i].pos \in Nat \ {0}
    /\ names \in Seq(Names)
    /\ chains = None \/ chains \in [BlockNames -> Seq(Bodies)]
    /\ super = None \/ super \in BlockNames \X Nat
    /\ \A i \in DOMAIN callers : callers[i].body \in Bodies
    /\ ctxs \in Seq(Context)
    /\ DOMAIN loopUse \subseteq (0 .. serial) \X Bodies

FramesOf(roles) == {i \in DOMAIN ctl : ctl[i].role \in roles}

(* The cycle check looks at the templates that are being rendered or       *)
(* imported, each from the moment it is opened until it is left.           *)
NamesFollow ==
    LET open == {i \in FramesOf({"entry", "template", "layout", "module"}) :
                    ctl[i].save.name # None}
    IN  /\ Len(names) = Cardinality(open)
        /\ \A i \in open : names[Cardinality({j \in open : j <= i})] = ctl[i].save.name

(* There is one CtxStack per template, import and macro, and it has the    *)
(* frames of the loops, macros and callers since its template began.       *)
Deepens(f) ==
    f.role \in {"macro", "call", "for"} \/ (f.role = "caller" /\ f.save.bound)

ContextsFollow ==
    /\ Len(ctxs) = 1 + Cardinality(FramesOf({"template", "module", "macro", "call"}))
    /\ Len(Ctx.frames) =
           1 + Cardinality({i \in DOMAIN ctl :
                   /\ Deepens(ctl[i])
                   /\ \A began \in FramesOf({"template", "module"}) : began < i})

CallersFollow == Len(callers) = Cardinality(FramesOf({"call"}))

(* Macro scopes outlive imports, but no root.                              *)
ScopesFollow ==
    LET roots == FramesOf({"root"})
    IN  /\ \A i \in roots : ctl[i].save.base <= Len(scopes)
        /\ \A i, j \in roots : i < j => ctl[i].save.base <= ctl[j].save.base
        /\ roots = {} => scopes = << >>

(* Whatever the order in which templates, blocks, macros and callers nest, *)
(* the RenderState they share is always that of the calls in progress.     *)
StateFollowsCalls ==
    status = "running" =>
        NamesFollow /\ ContextsFollow /\ CallersFollow /\ ScopesFollow

(* A render that succeeds leaves nothing behind.                           *)
CleanWhenDone ==
    status = "done" =>
        /\ names = << >> /\ scopes = << >> /\ callers = << >>
        /\ chains = None /\ super = None
        /\ Len(ctxs) = 1 /\ Len(Ctx.frames) = 1

(* super_context is the layer of the block that runs: what super() renders *)
(* next is the layer after it.                                             *)
SuperIsRunning ==
    LET inner == FramesOf({"block", "super", "layout"})
        block == ctl[Max(inner)]
    IN  status = "running" =>
            IF inner = {} THEN super = None
            ELSE block.role # "layout" =>
                    /\ super # None
                    /\ Chain(super[1]) # << >> =>
                          block.body = Chain(super[1])[super[2] + 1]
                    /\ Chain(super[1]) = << >> => super[2] = 0

(* A template and its ancestors.                                           *)
Lineage(child) == <<child>> \o Ancestry(lib, ParentOf[child].name)

(* What the templates of a line, from the child upwards, define of a block *)
(* and nothing else.                                                       *)
DefinedAlong(line, b, chain) ==
    LET definers == {k \in DOMAIN line : BlocksOf[line[k]][b] # None}
    IN  /\ Len(chain) = Cardinality(definers)
        /\ \A k \in definers :
              chain[Cardinality({j \in definers : j <= k})] = BlocksOf[line[k]][b]

(* The block chains in force are those of the innermost child template:    *)
(* per block, what it and its ancestors define, in this order.             *)
ChainsAreLineage ==
    LET layouts == FramesOf({"layout"})
    IN  status = "running" =>
            IF layouts = {} THEN chains = None
            ELSE LET line == Lineage(ctl[Max(layouts)].save.child)
                 IN  \A b \in BlockNames : DefinedAlong(line, b, chains[b])

(* Wherever a template reads loop, it sees the iteration of the innermost  *)
(* for loop around it, as it does in the async renderer.                   *)
LoopSeen ==
    (/\ Starting /\ ~Skipped(Top, Current)
     /\ "loop" \in Current.reads /\ Iteration(Ctx) # None)
        => Lookup(Ctx, "loop") = Iteration(Ctx)

(* The merged variables kept for extension tags are never out of date      *)
(* where they would be used.                                               *)
ExtCacheCurrent ==
    extCache # None =>
        \A i \in DOMAIN ctxs :
            extCache.id = ctxs[i].id /\ extCache.rev = ctxs[i].rev =>
                extCache.vars = Flatten(ctxs[i])

(* No set of templates, however they include, extend and import each       *)
(* other, makes a render that neither ends nor fails.                      *)
Ends == <>(status \in {"done", "failed"})

(* "multi-level inheritance": what is rendered around the blocks is the    *)
(* template at the top of the chain.                                       *)
LayoutIsRoot ==
    \A i \in 2 .. Len(ctl) :
        ctl[i - 1].role = "layout" => ParentOf[ctl[i].body] = None
=============================================================================
