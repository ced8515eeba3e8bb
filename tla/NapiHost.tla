------------------------------ MODULE NapiHost ------------------------------
(***************************************************************************)
(* The native addon as JavaScript sees it (runjucks-napi/src/lib.rs):      *)
(* Environments behind non-reentrant mutexes, renders that call JavaScript *)
(* functions back while they hold the mutex, the thread-local render       *)
(* context those functions are checked against, and the default            *)
(* Environment of configure, render and reset, a process-wide static.      *)
(*                                                                         *)
(* A thread is a JavaScript thread with its own napi_env: the main thread  *)
(* or a worker.  It runs JavaScript at the bottom of its stack or in a     *)
(* callback, and is otherwise inside a call into the addon.  An            *)
(* Environment is numbered by its creation; JavaScript holds a handle to   *)
(* the ones its own thread made, and handles do not cross threads.         *)
(*                                                                         *)
(* Abstraction.  callback[e] stands for e's filters, tests, function       *)
(* globals, extensions and their async kin: all are called back through    *)
(* the same check.  Templates are what Arc<Mutex<Environment>> they hold.  *)
(* A JavaScript function that throws ends the render like one that         *)
(* returns (Finish), so results are left out.                              *)
(***************************************************************************)
EXTENDS Integers, SequencesExt

CONSTANTS
    Threads,    \* JavaScript threads, one napi_env each
    Programs,   \* what JavaScript may do, see Program
    None

(* A program: the threads it runs on; whether callbacks call into          *)
(* Environments their thread has locked, setLoaderCallback is used and     *)
(* templates are rendered asynchronously; and two bounds, on the           *)
(* Environments ever made and on the frames on a thread's stack.           *)
Program == [threads : SUBSET Threads, reentrant : BOOLEAN, loaderCallbacks : BOOLEAN,
            async : BOOLEAN, maxEnvs : Nat, maxDepth : Nat]

ASSUME HostConstants ==
    /\ Programs \subseteq Program
    /\ None \notin Threads \cup Nat

VARIABLES
    program,    \* the program that runs
    created,    \* number of Environments made so far
    maker,      \* per Environment: the thread with a handle to it, or None
    global,     \* GLOBAL_ENV
    owner,      \* per Environment: the thread that holds its mutex
    callback,   \* per Environment: the thread of a registered JS function
    loaderFn,   \* per Environment: the thread of the JS loader
    active,     \* per thread: RENDER_NAPI_ENV
    stack,      \* per thread: its frames, innermost last
    panicked    \* a Rust panic has ended the process

state == <<created, maker, global, owner, callback, loaderFn, active, stack, panicked>>
vars == <<program, state>>

Envs == 1 .. program.maxEnvs

Renders == {"render"} \cup IF program.async THEN {"render_async"} ELSE {}
Updates == {"add_callback", "remove_callback", "set_template_map"}
           \cup IF program.loaderCallbacks THEN {"set_loader_callback"} ELSE {}
Ops == Renders \cup {"get_template"} \cup Updates

(* A frame waits for an Environment's mutex, holds it, or is a JavaScript  *)
(* function that the frame below has called.                               *)
Frame == [at : {"wait", "held", "js"}, op : Ops, env : Envs, fn : Threads \cup {None}]

made == <<created, maker>>
fns == <<callback, loaderFn>>

Init ==
    /\ program \in Programs
    /\ created = 0
    /\ maker = [e \in Envs |-> None]
    /\ global = None
    /\ owner = [e \in Envs |-> None]
    /\ callback = [e \in Envs |-> None]
    /\ loaderFn = [e \in Envs |-> None]
    /\ active = [t \in Threads |-> None]
    /\ stack = [t \in Threads |-> << >>]
    /\ panicked = FALSE

-----------------------------------------------------------------------------
Top(t) == Last(stack[t])
At(t, place) == ~panicked /\ stack[t] # << >> /\ Top(t).at = place

(* What a function does on a thread that is not its own is undefined: it   *)
(* is modelled as doing nothing but return.                                *)
RunsJs(t) == ~panicked /\ (stack[t] = << >> \/ (At(t, "js") /\ Top(t).fn = t))

Push(t, frame) ==
    /\ Len(stack[t]) < program.maxDepth
    /\ stack' = [stack EXCEPT ![t] = Append(@, frame)]

Pop(t) == stack' = [stack EXCEPT ![t] = Front(@)]

Waiting(op, e) == [at |-> "wait", op |-> op, env |-> e, fn |-> None]

(* Environment::default() behind a mutex of its own.                       *)
Make(t) ==
    /\ created < program.maxEnvs
    /\ created' = created + 1
    /\ maker' = [maker EXCEPT ![created + 1] = t]

(* Mutant of EnsureGlobal: the default is the Environment before the last. *)
EnsureGlobalOffByOne ==
    IF global = None
    THEN Make(None) /\ global' = created
    ELSE UNCHANGED <<made, global>>

(* global_env: no thread has a handle to the Environment it makes.         *)
EnsureGlobal ==
    IF global = None
    THEN Make(None) /\ global' = created + 1
    ELSE UNCHANGED <<made, global>>

-----------------------------------------------------------------------------
(* Calls of JavaScript into the addon.                                     *)

NewEnvironment(t) ==
    /\ RunsJs(t)
    /\ Make(t)
    /\ UNCHANGED <<global, owner, fns, active, stack, panicked>>

(* Mutant of ConfigureDefault: it may take an Environment the thread has.  *)
ConfigureExisting(t) ==
    /\ RunsJs(t)
    /\ \/ /\ Make(t)
          /\ global' = created + 1
       \/ /\ \E e \in Envs : maker[e] = t /\ global' = e
          /\ UNCHANGED made
    /\ UNCHANGED <<owner, fns, active, stack, panicked>>

(* configure: always a new Environment, locked before others can see it.   *)
ConfigureDefault(t) ==
    /\ RunsJs(t)
    /\ Make(t)
    /\ global' = created + 1
    /\ UNCHANGED <<owner, fns, active, stack, panicked>>

Reset(t) ==
    /\ RunsJs(t)
    /\ global' = None
    /\ UNCHANGED <<made, owner, fns, active, stack, panicked>>

(* compile and new Template without eagerCompile lock nothing, yet they    *)
(* make the default Environment if there is none.                          *)
Compile(t) ==
    /\ RunsJs(t)
    /\ EnsureGlobal
    /\ UNCHANGED <<owner, fns, active, stack, panicked>>

(* Mutant of Call: a handle to render with crosses threads.                *)
RenderFromAnyThread(t, e, op) ==
    /\ RunsJs(t)
    /\ maker[e] = t \/ (op \in Renders /\ maker[e] # None)
    /\ program.reentrant \/ owner[e] # t
    /\ Push(t, Waiting(op, e))
    /\ IF op = "get_template" THEN EnsureGlobal ELSE UNCHANGED <<made, global>>
    /\ UNCHANGED <<owner, fns, active, panicked>>

(* A method of a JsEnvironment, or of a JsTemplate made from one.          *)
Call(t, e, op) ==
    /\ RunsJs(t)
    /\ maker[e] = t
    /\ program.reentrant \/ owner[e] # t
    /\ Push(t, Waiting(op, e))
    /\ IF op = "get_template" THEN EnsureGlobal ELSE UNCHANGED <<made, global>>
    /\ UNCHANGED <<owner, fns, active, panicked>>

(* The module's render(name): takes the default Environment, then waits.   *)
RenderDefault(t) ==
    /\ RunsJs(t)
    /\ EnsureGlobal
    /\ program.reentrant \/ owner[global'] # t
    /\ Push(t, Waiting("render", global'))
    /\ UNCHANGED <<owner, fns, active, panicked>>

-----------------------------------------------------------------------------
(* Inside the addon.                                                       *)

CanLock(t) == At(t, "wait") /\ owner[Top(t).env] = None

(* An async render runs under block_on, which panics inside another one.   *)
InAsync(t) ==
    \E i \in 1 .. Len(stack[t]) - 1 :
        stack[t][i].at = "held" /\ stack[t][i].op = "render_async"

Panic(t) ==
    /\ CanLock(t)
    /\ Top(t).op = "render_async" /\ InAsync(t)
    /\ panicked' = TRUE
    /\ UNCHANGED <<made, global, owner, fns, active, stack>>

(* Lock, then with_render_napi_env.  getTemplate calls the loader of a     *)
(* locked Environment too (eagerCompile), without a render context.        *)
Acquire(t) ==
    /\ CanLock(t)
    /\ Top(t).op \in Renders \cup {"get_template"}
    /\ Top(t).op = "render_async" => ~InAsync(t)
    /\ owner' = [owner EXCEPT ![Top(t).env] = t]
    /\ active' = IF Top(t).op \in Renders THEN [active EXCEPT ![t] = t] ELSE active
    /\ stack' = [stack EXCEPT ![t] = Append(Front(@), [Top(t) EXCEPT !.at = "held"])]
    /\ UNCHANGED <<made, global, fns, panicked>>

(* The setters: lock, assign, unlock; they call nothing back.              *)
Update(t) ==
    /\ CanLock(t)
    /\ LET e == Top(t).env
       IN  \/ /\ Top(t).op = "add_callback"
              /\ callback' = [callback EXCEPT ![e] = t]
              /\ UNCHANGED loaderFn
           \/ /\ Top(t).op = "remove_callback"
              /\ callback' = [callback EXCEPT ![e] = None]
              /\ UNCHANGED loaderFn
           \/ /\ Top(t).op = "set_loader_callback"
              /\ loaderFn' = [loaderFn EXCEPT ![e] = t]
              /\ UNCHANGED callback
           \/ /\ Top(t).op = "set_template_map"
              /\ loaderFn' = [loaderFn EXCEPT ![e] = None]
              /\ UNCHANGED callback
    /\ Pop(t)
    /\ UNCHANGED <<made, global, owner, active, panicked>>

Enter(t, fn) ==
    /\ Push(t, [Top(t) EXCEPT !.at = "js", !.fn = fn])
    /\ UNCHANGED <<made, global, owner, fns, active, panicked>>

(* Mutant of MayCallBack: any napi_env will do.                            *)
MayCallAnywhere(t, fn) == fn # None

(* The check of the callback wrappers: called in its own napi_env only.  A *)
(* call that fails the check ends the render with an error (Finish).       *)
MayCallBack(t, fn) == fn # None /\ active[t] = fn

CallBack(t) ==
    /\ At(t, "held") /\ Top(t).op \in Renders
    /\ MayCallBack(t, callback[Top(t).env])
    /\ Enter(t, callback[Top(t).env])

(* JsTemplateLoader::load has no such check.                               *)
CallLoader(t) ==
    /\ At(t, "held")
    /\ loaderFn[Top(t).env] # None
    /\ Enter(t, loaderFn[Top(t).env])

Return(t) ==
    /\ At(t, "js")
    /\ Pop(t)
    /\ UNCHANGED <<made, global, owner, fns, active, panicked>>

(* Mutant of Finish: the mutex stays locked, as by a forgotten guard.      *)
FinishHoldingLock(t) ==
    /\ At(t, "held")
    /\ active' = IF Top(t).op \in Renders THEN [active EXCEPT ![t] = None] ELSE active
    /\ Pop(t)
    /\ UNCHANGED <<made, global, owner, fns, panicked>>

(* Mutant of Finish: no RenderEnvGuard.                                    *)
FinishWithoutGuard(t) ==
    /\ At(t, "held")
    /\ owner' = [owner EXCEPT ![Top(t).env] = None]
    /\ Pop(t)
    /\ UNCHANGED <<made, global, fns, active, panicked>>

(* The end of a call, whatever its result: RenderEnvGuard forgets the      *)
(* render context, then the mutex is released.                             *)
Finish(t) ==
    /\ At(t, "held")
    /\ owner' = [owner EXCEPT ![Top(t).env] = None]
    /\ active' = IF Top(t).op \in Renders THEN [active EXCEPT ![t] = None] ELSE active
    /\ Pop(t)
    /\ UNCHANGED <<made, global, fns, panicked>>

-----------------------------------------------------------------------------
Script(t) ==
    \/ NewEnvironment(t)
    \/ ConfigureDefault(t)
    \/ Reset(t)
    \/ Compile(t)
    \/ \E e \in Envs, op \in Ops : Call(t, e, op)
    \/ RenderDefault(t)

(* The steps that bring a call nearer to its return.                       *)
Complete(t) == Panic(t) \/ Acquire(t) \/ Update(t) \/ Return(t) \/ Finish(t)

Native(t) == Complete(t) \/ CallBack(t) \/ CallLoader(t)

Next == UNCHANGED program /\ \E t \in program.threads : Script(t) \/ Native(t)

Spec == Init /\ [][Next]_vars

(* A thread in the addon or in a callback is scheduled, templates and      *)
(* callbacks end, and a mutex that stays free is granted.                  *)
FairSpec == Spec /\ \A t \in Threads : WF_vars(UNCHANGED program /\ Complete(t))

-----------------------------------------------------------------------------
TypeOK ==
    /\ program \in Programs
    /\ created \in 0 .. program.maxEnvs
    /\ maker \in [Envs -> Threads \cup {None}]
    /\ global \in Envs \cup {None}
    /\ owner \in [Envs -> Threads \cup {None}]
    /\ callback \in [Envs -> Threads \cup {None}]
    /\ loaderFn \in [Envs -> Threads \cup {None}]
    /\ active \in [Threads -> Threads \cup {None}]
    /\ stack \in [Threads -> Seq(Frame)]
    /\ panicked \in BOOLEAN

(* The mutex of an Environment is held by exactly one frame, for as long   *)
(* as that frame is on the stack of the thread that locked it.             *)
LocksMatchFrames ==
    \A t \in Threads, e \in Envs :
        LET held == {i \in DOMAIN stack[t] : stack[t][i].at = "held" /\ stack[t][i].env = e}
        IN  IF owner[e] = t THEN \E i \in held : held = {i} ELSE held = {}

(* A JavaScript function is only ever called on the thread that registered *)
(* it: "N-API handles are only exercised from the Node main thread".       *)
FunctionsOnOwnThread ==
    \A t \in Threads : \A i \in DOMAIN stack[t] :
        stack[t][i].at = "js" => stack[t][i].fn = t

(* No render context outlives the renders of its thread, however they      *)
(* nest, fail, or alternate with callbacks.                                *)
ContextEndsWithRender ==
    \A t \in Threads : active[t] # None =>
        \E i \in DOMAIN stack[t] : stack[t][i].at = "held" /\ stack[t][i].op \in Renders

(* A render that is about to call a function back has a render context.    *)
ContextDuringRender ==
    \A t \in Threads : At(t, "held") /\ Top(t).op \in Renders => active[t] = t

(* No set of threads all waiting for mutexes that they hold themselves,    *)
(* unless a callback calls into an Environment its own thread has locked.  *)
Blocked(t, group) == At(t, "wait") /\ owner[Top(t).env] \in group
NoDeadlock ==
    program.reentrant \/
        \A group \in (SUBSET Threads) \ {{}} : \E t \in group : ~Blocked(t, group)

(* An Environment that is no longer the default never becomes it again.    *)
DefaultNeverReturns == [][global' # global /\ global' # None => global' > created]_vars

(* Unless new calls are made for ever, every call returns, in a program as *)
(* for NoDeadlock.                                                         *)
Deeper == \E t \in Threads : Len(stack'[t]) > Len(stack[t])
CallsReturn ==
    program.reentrant \/ []<><<Deeper>>_vars \/ <>[](\A t \in Threads : stack[t] = << >>)
=============================================================================
