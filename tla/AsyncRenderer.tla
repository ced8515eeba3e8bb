---------------------------- MODULE AsyncRenderer ----------------------------
(***************************************************************************)
(* The asynchronous renderer (async_renderer/), which shares RenderState,  *)
(* CtxStack and the scans with the synchronous one and is otherwise        *)
(* written anew, node by node.  It knows the async tags, binds loop in     *)
(* every iteration and keeps no merged variables for extension tags.       *)
(*                                                                         *)
(* The future of a render holds &mut RenderState and is awaited at once:   *)
(* an asyncAll runs its iterations one after the other, like an asyncEach  *)
(* and a for.                                                              *)
(*                                                                         *)
(* An Environment renders with either renderer; async says with which.     *)
(***************************************************************************)
EXTENDS Renderer

CONSTANT AsyncLib       \* the libraries the async renderer renders from

ASSUME AsyncConstants ==
    /\ AsyncLib \subseteq Libraries
    /\ \A l \in AsyncLib : l[Main] # None

VARIABLE async

anyVars == <<vars, async>>

-----------------------------------------------------------------------------
(* Nodes that this renderer treats in its own way.                         *)

IfAsync ==
    /\ At("ifAsync")
    /\ \/ \E body \in Range(Current.branches) : Push(Nested("nodes", body, None))
       \/ ~Current.otherwise /\ Continue
    /\ UNCHANGED <<lib, names, modules, chains, super, callers, ctxs, caches, serial>>

AtLoop == At("for") \/ At("asyncFor")

AsyncForEmpty ==
    /\ AtLoop
    /\ MaybeNodes(Current.otherwise)
    /\ UNCHANGED <<lib, names, modules, chains, super, callers, ctxs, caches, serial>>

AsyncFor ==
    /\ AtLoop
    /\ \E n \in 1 .. MaxItems :
          /\ Push(Nested("for", Current.body,
                         [vars |-> Current.vars, i |-> 1, n |-> n, needs |-> TRUE]))
          /\ WithCtx(Iterate(PushFrame(Ctx), TRUE, 1, n, Current.vars))
    /\ UNCHANGED <<lib, names, modules, chains, super, callers, caches, serial>>

AsyncForMisfit ==
    /\ AtLoop
    /\ MaybeNodes(Current.otherwise)
    /\ WithCtx(PopFrame(PushFrame(Ctx)))
    /\ UNCHANGED <<lib, names, modules, chains, super, callers, caches, serial>>

AsyncLoops == AsyncForEmpty \/ AsyncFor \/ AsyncForMisfit \/ NextItem \/ EndFor

AsyncTag ==
    /\ At("ext")
    /\ IF Current.body = None THEN Continue ELSE Push(Nested("ext", Current.body, None))
    /\ UNCHANGED <<lib, names, modules, chains, super, callers, ctxs, caches, serial>>

EndAsyncTag ==
    /\ Ending("ext")
    /\ Leave
    /\ UNCHANGED <<lib, names, modules, chains, super, callers, ctxs, caches, serial>>

AsyncTags == AsyncTag \/ EndAsyncTag

-----------------------------------------------------------------------------
(* Nodes that it treats as the other does.                                 *)

AsyncEntries == Begin \/ EndEntry
AsyncLayouts == EndRoot \/ EndLayout
AsyncBranches == If \/ IfAsync \/ Misplaced \/ EndNodes
AsyncSwitches == Switch
AsyncSets == Set \/ SetBlock \/ EndCapture
AsyncModules == Include \/ EndInclude \/ Import \/ EndImport \/ EndFrom
AsyncBlocks == Block \/ EndBlock \/ FilterBlock
AsyncCallBlocks == CallBlock \/ EndCall
AsyncCalls == Skip \/ Invoke \/ Super \/ Caller
AsyncMacros == EndMacro \/ EndCaller

AsyncRender ==
    \/ AsyncEntries \/ AsyncLayouts
    \/ AsyncBranches \/ AsyncSwitches \/ AsyncLoops \/ AsyncSets \/ AsyncTags
    \/ AsyncModules \/ AsyncBlocks
    \/ AsyncCallBlocks \/ AsyncCalls \/ AsyncMacros

-----------------------------------------------------------------------------
(* Either renderer.                                                        *)

AnyInit ==
    /\ async \in BOOLEAN
    /\ StartIn(IF async THEN AsyncLib ELSE Lib)

AnyRender ==
    /\ IF async THEN AsyncRender ELSE Render
    /\ async' = async

AnyThrow == Throw /\ async' = async

AnyNext == AnyRender \/ AnyThrow

AnySpec == AnyInit /\ [][AnyNext]_anyVars

(* Both renderers go on until they return.                                 *)
AnyFairSpec == AnySpec /\ WF_anyVars(AnyRender)
=============================================================================
