------------------------------ MODULE CtxStack ------------------------------
(***************************************************************************)
(* CtxStack (renderer.rs): the variables a template sees, in frames from   *)
(* the outermost to the innermost, with the identity and the revision by   *)
(* which a merged copy of them is known to be current.                     *)
(*                                                                         *)
(* item is not in the code: it says of the frame of a for loop which       *)
(* iteration it serves, whether or not the variable loop is bound.         *)
(***************************************************************************)
EXTENDS Integers, SequencesExt

CONSTANTS Vars, None

(* A value is of no interest, the i-th item of an iterable, or the loop    *)
(* object of iteration i of n.                                             *)
Some == << >>
Item(i) == <<i>>
LoopObject(i, n) == <<i, n>>
Values == Seq(Nat)

Bindings == [Vars -> Values \cup {None}]
NoBindings == [v \in Vars |-> None]

Frames == [vars : Bindings, item : Values \cup {None}]
Context == [id : Nat, rev : Nat, frames : Seq(Frames)]

EmptyFrame == [vars |-> NoBindings, item |-> None]

(* from_root                                                               *)
FromRoot(id, frame) == [id |-> id, rev |-> 0, frames |-> <<frame>>]

(* fork_isolated, then push_frame: the frames of a macro body.             *)
ForkWith(ctx, id, vars) ==
    [id |-> id, rev |-> ctx.rev + 1,
     frames |-> Append(ctx.frames, [vars |-> vars, item |-> None])]

(* The same stack n operations later.                                      *)
Revised(ctx, n, frames) == [id |-> ctx.id, rev |-> ctx.rev + n, frames |-> frames]

PushFrame(ctx) == Revised(ctx, 1, Append(ctx.frames, EmptyFrame))

PopFrame(ctx) ==
    IF Len(ctx.frames) > 1 THEN Revised(ctx, 1, Front(ctx.frames)) ELSE ctx

Binders(ctx, v) == {i \in DOMAIN ctx.frames : ctx.frames[i].vars[v] # None}

(* get_ref                                                                 *)
Lookup(ctx, v) ==
    IF Binders(ctx, v) = {} THEN None ELSE ctx.frames[Max(Binders(ctx, v))].vars[v]

(* The frame that a set of the variable goes to: where it is bound, else   *)
(* the innermost.                                                          *)
Binder(ctx, v) == IF Binders(ctx, v) = {} THEN Len(ctx.frames) ELSE Max(Binders(ctx, v))

(* set                                                                     *)
SetVar(ctx, v, val) ==
    Revised(ctx, 1, [ctx.frames EXCEPT ![Binder(ctx, v)].vars[v] = val])

(* The n calls of set that give each variable its value in vals, if any.   *)
SetVars(ctx, vals, n) ==
    Revised(ctx, n, [i \in DOMAIN ctx.frames |->
        [ctx.frames[i] EXCEPT !.vars = [v \in Vars |->
            IF vals[v] # None /\ Binder(ctx, v) = i THEN vals[v] ELSE @[v]]]])

BindAll(vars, targets, val) == [v \in Vars |-> IF v \in Range(targets) THEN val ELSE vars[v]]

BindInner(frames, targets, val) ==
    [frames EXCEPT ![Len(frames)].vars = BindAll(@, targets, val)]

(* Mutant of SetLocal: no new revision.                                    *)
SetLocalQuietly(ctx, targets, val) == Revised(ctx, 0, BindInner(ctx.frames, targets, val))

(* set_local of each target, and inject_loop with the binding it makes.    *)
SetLocal(ctx, targets, val) ==
    Revised(ctx, Len(targets), BindInner(ctx.frames, targets, val))

(* flatten                                                                 *)
Flatten(ctx) == [v \in Vars |-> Lookup(ctx, v)]

(* The iteration that surrounds what runs with these variables.            *)
Iteration(ctx) ==
    LET loops == {i \in DOMAIN ctx.frames : ctx.frames[i].item # None}
    IN  IF loops = {} THEN None ELSE ctx.frames[Max(loops)].item

Flattened(ctx) == [vars |-> Flatten(ctx), item |-> Iteration(ctx)]
=============================================================================
