-------------------------- MODULE Renderer_proofs ---------------------------
(***************************************************************************)
(* Proofs about both renderers: RInv is inductive, and implies the safety  *)
(* properties of Renderer.  It says of a render that has not failed that   *)
(* each part of its state is what the active calls make it (CallsInv),     *)
(* that the stacks of variables are as many and as deep as they need, each *)
(* with an identity of its own, and the merged variables right for the     *)
(* revision they name (DataInv); a render that has failed keeps nothing.   *)
(* A step begins calls, ends one or goes on, so that each action is a      *)
(* combination of the lemmas of RendererStacks_proofs about a Push, a Pop  *)
(* and a Turn.                                                             *)
(*                                                                         *)
(* LoopsInv comes on top of it: every call sees the iteration of the       *)
(* innermost loop around it, or it renders a body that reads no loop and   *)
(* that renders none which does.  It needs to know which bodies a library  *)
(* reaches, and that the analysis of the bodies of loops is right there.   *)
(***************************************************************************)
EXTENDS RendererStacks_proofs

-----------------------------------------------------------------------------
(* The inductive invariant.                                                *)

(* All that follows the calls, whatever the variables are.                 *)
CallsInv(l, c, open, given, stack, now, lined) ==
    /\ StackOK(c)
    /\ NamesInv(c, open)
    /\ CallersInv(c, given)
    /\ ScopesInv(c, stack)
    /\ SupersInv(l, c, now, lined)

(* The variables, and what is kept of them.                                *)
DataInv(c, xs, e, s) ==
    /\ ContextsInv(c, xs)
    /\ IdsInv(xs, s)
    /\ EntryOK(e, xs, s)
    /\ SavesInv(c, xs, s)

(* The locals of a frame.                                                  *)
SaveTyped(f, s) ==
    /\ f.copy \in 0 .. s
    /\ f.role \in {"template", "layout"} => f.save.name \in Names
    /\ f.role = "for" => /\ f.save = [vars |-> f.save.vars, i |-> f.save.i,
                                      n |-> f.save.n, needs |-> f.save.needs]
                         /\ f.save.vars \in Seq(Vars)
                         /\ f.save.i \in Nat /\ f.save.n \in Nat
    /\ f.role = "capture" => f.save.var \in Vars

SavesTyped(c, s) == \A i \in 1 .. Len(c) : SaveTyped(c[i], s)

Scope == [MacroNames -> Macros \cup {None}]

SpacesTyped(sp) ==
    \A ns \in DOMAIN sp : sp[ns].macros \in Scope /\ sp[ns].vals \in Bindings

CallersTyped(given) ==
    \A i \in 1 .. Len(given) : given[i].body \in Bodies /\ given[i].params \in Seq(Vars)

LoopsTyped(use, s) == DOMAIN use \subseteq (0 .. s) \X Bodies

StateTyped ==
    /\ SavesTyped(ctl, serial)
    /\ names \in Seq(Names)
    /\ scopes \in Seq(Scope)
    /\ SpacesTyped(spaces)
    /\ CallersTyped(callers)
    /\ LoopsTyped(loopUse, serial)

(* A render that has not failed.                                           *)
Sound ==
    /\ StateTyped
    /\ CallsInv(lib, ctl, names, callers, scopes, super, chains)
    /\ DataInv(ctl, ctxs, extCache, serial)

(* One that has failed keeps nothing.                                      *)
Dropped ==
    /\ ctl = << >> /\ names = << >> /\ chains = None /\ super = None /\ callers = << >>
    /\ ctxs = << >> /\ loopUse = << >> /\ extCache = None /\ serial = 1

RInv ==
    /\ lib \in Libraries /\ lib[Main] # None
    /\ status \in {"start", "running", "done", "failed"}
    /\ status = "running" <=> ctl # << >>
    /\ IF status = "failed" THEN Dropped ELSE Sound

-----------------------------------------------------------------------------
(* What a call that begins, goes on or ends does to what follows the calls.*)

(* A call that begins: a template opened is pushed, a call block pushes    *)
(* its caller, a root starts its macro scope, a block or a layout changes  *)
(* the position or the chains, and the rest stays.                         *)
LEMMA CallsPush ==
    ASSUME NEW l, NEW c, NEW open, NEW given, NEW stack, NEW now, NEW lined,
           CallsInv(l, c, open, given, stack, now, lined),
           NEW f, IsFrame(f),
           f.role \in {"entry", "template", "layout", "root"}
             \/ (c # << >> /\ Last(c).role \notin {"entry", "template", "layout"}),
           NEW given2, IsSeq(given2),
           Len(given2) = Len(given) + IF f.role = "call" THEN 1 ELSE 0,
           NEW stack2,
           IF f.role = "root"
           THEN f.save.base = Len(stack) /\ IsSeq(stack2) /\ Len(stack2) >= Len(stack)
           ELSE stack2 = stack,
           NEW now2 \in Positions, NEW lined2 \in Lineups,
           FollowAt(l, f, now, now2, lined, lined2)
    PROVE  /\ CallsInv(l, Append(c, f),
                       IF Opens(f) THEN Append(open, f.save.name) ELSE open,
                       given2, stack2, now2, lined2)
           /\ Above(c, Append(c, f)) /\ Last(Append(c, f)) = f /\ Append(c, f) # << >>
<1> DEFINE d == Append(c, f)
<1>1. /\ IsSeq(c) /\ StackOK(c) /\ NamesInv(c, open) /\ CallersInv(c, given)
      /\ ScopesInv(c, stack) /\ SupersInv(l, c, now, lined)
  BY DEF CallsInv, StackOK
<1>2. StackOK(d) /\ Above(c, d) /\ Last(d) = f /\ d # << >>
  BY <1>1, StackPush
<1> HIDE DEF d
<1>3. NamesInv(d, IF Opens(f) THEN Append(open, f.save.name) ELSE open)
  BY <1>1, <1>2, NamesPush
<1>4. CallersInv(d, given2)
  BY <1>1, <1>2, CallersPush
<1>5. ScopesInv(d, stack2)
  <2>1. CASE f.role = "root"
    BY <1>1, <1>2, <2>1, ScopesPushRoot
  <2>2. CASE f.role # "root"
    BY <1>1, <1>2, <2>2, ScopesPush
  <2> QED
    BY <2>1, <2>2
<1>6. SupersInv(l, d, now2, lined2)
  BY <1>1, <1>2, SupersPush
<1> QED
  BY <1>2, <1>3, <1>4, <1>5, <1>6 DEF CallsInv, d

(* A call that ends: what it opened, pushed or changed is as it was before *)
(* it.                                                                     *)
LEMMA CallsPop ==
    ASSUME NEW l, NEW d, d # << >>, NEW open, NEW given, NEW stack, NEW now, NEW lined,
           CallsInv(l, d, open, given, stack, now, lined),
           NEW stack2,
           IF Last(d).role = "root" THEN stack2 = SubSeq(stack, 1, Last(d).save.base)
           ELSE stack2 = stack \/ (IsSeq(stack2) /\ Len(stack2) >= Len(stack)
                                     /\ Roots(Front(d)) # {})
    PROVE  /\ CallsInv(l, Front(d),
                       IF Opens(Last(d)) THEN Front(open) ELSE open,
                       IF Last(d).role = "call" THEN Front(given) ELSE given,
                       stack2,
                       IF Overrides(Last(d)) THEN Last(d).save.prev ELSE now,
                       IF Last(d).role = "layout" THEN Last(d).save.prev ELSE lined)
           /\ Above(Front(d), d) /\ IsSeq(Front(d))
           /\ Front(d) = << >> <=> Len(d) = 1
<1> DEFINE c == Front(d)
<1>1. /\ IsSeq(d) /\ StackOK(d) /\ NamesInv(d, open) /\ CallersInv(d, given)
      /\ ScopesInv(d, stack) /\ SupersInv(l, d, now, lined)
  BY DEF CallsInv, StackOK
<1>2. StackOK(c) /\ Above(c, d) /\ (c = << >> <=> Len(d) = 1)
  BY <1>1, StackPop
<1>3. IsSeq(c)
  BY <1>2 DEF StackOK
<1>4. IF Last(d).role = "root" THEN stack2 = SubSeq(stack, 1, Last(d).save.base)
      ELSE stack2 = stack \/ (IsSeq(stack2) /\ Len(stack2) >= Len(stack) /\ Roots(c) # {})
  OBVIOUS
<1> HIDE DEF c
<1>5. NamesInv(c, IF Opens(Last(d)) THEN Front(open) ELSE open)
  BY <1>1, <1>2, <1>3, NamesPop
<1>6. CallersInv(c, IF Last(d).role = "call" THEN Front(given) ELSE given)
  BY <1>1, <1>2, <1>3, CallersPop
<1>7. ScopesInv(c, stack2)
  <2>1. CASE Last(d).role = "root"
    BY <1>1, <1>2, <1>3, <1>4, <2>1, ScopesPopRoot
  <2>2. CASE Last(d).role # "root"
    BY <1>1, <1>2, <1>3, <1>4, <2>2, ScopesPop
  <2> QED
    BY <2>1, <2>2
<1>8. SupersInv(l, c, IF Overrides(Last(d)) THEN Last(d).save.prev ELSE now,
                      IF Last(d).role = "layout" THEN Last(d).save.prev ELSE lined)
  BY <1>1, <1>2, <1>3, SupersPop
<1> QED
  BY <1>2, <1>3, <1>5, <1>6, <1>7, <1>8 DEF CallsInv, c

Turned(c, f) == [c EXCEPT ![Len(c)] = f]

(* A call that goes on to another node.                                    *)
LEMMA CallsTurn ==
    ASSUME NEW l, NEW c, c # << >>, NEW open, NEW given, NEW stack, NEW now, NEW lined,
           CallsInv(l, c, open, given, stack, now, lined),
           NEW f, IsFrame(f), Same(Last(c), f),
           NEW d, d = Turned(c, f)
    PROVE  /\ CallsInv(l, d, open, given, stack, now, lined)
           /\ Alike(c, d) /\ Last(d) = f /\ d # << >> /\ IsSeq(c)
<1>1. /\ IsSeq(c) /\ StackOK(c) /\ NamesInv(c, open) /\ CallersInv(c, given)
      /\ ScopesInv(c, stack) /\ SupersInv(l, c, now, lined)
  BY DEF CallsInv, StackOK
<1>2. StackOK(d) /\ Alike(c, d) /\ Last(d) = f /\ d # << >>
  BY <1>1, StackTurn DEF Turned
<1>3. CallsInv(l, d, open, given, stack, now, lined)
  BY <1>1, <1>2, NamesTurn, CallersTurn, ScopesTurn, SupersTurn DEF CallsInv
<1> QED
  BY <1>1, <1>2, <1>3

(* A call inside a template, that may give a caller or show a block.       *)
LEMMA InnerPush ==
    ASSUME NEW l, NEW c, NEW open, NEW given, NEW stack, NEW now, NEW lined,
           CallsInv(l, c, open, given, stack, now, lined),
           c # << >>, Last(c).role \notin {"entry", "template", "layout"},
           NEW f, IsFrame(f), f.role \in {"call", "macro", "block", "super"},
           NEW given2, IsSeq(given2),
           Len(given2) = Len(given) + IF f.role = "call" THEN 1 ELSE 0,
           NEW now2 \in Positions, FollowAt(l, f, now, now2, lined, lined)
    PROVE  /\ CallsInv(l, Append(c, f), open, given2, stack, now2, lined)
           /\ Above(c, Append(c, f)) /\ Last(Append(c, f)) = f /\ Append(c, f) # << >>
<1> DEFINE d == Append(c, f)
<1>1. /\ IsSeq(c) /\ StackOK(c) /\ NamesInv(c, open) /\ CallersInv(c, given)
      /\ ScopesInv(c, stack) /\ SupersInv(l, c, now, lined)
  BY DEF CallsInv, StackOK
<1>2. lined \in Lineups
  BY <1>1, SupersNow
<1>3. StackOK(d) /\ Above(c, d) /\ Last(d) = f /\ d # << >>
  BY <1>1, StackPush
<1>4. ~Opens(f) /\ f.role # "root"
  BY DEF Opens
<1> HIDE DEF d
<1>5. NamesInv(d, IF Opens(f) THEN Append(open, f.save.name) ELSE open)
  BY <1>1, <1>3, NamesPush
<1>6. CallersInv(d, given2)
  BY <1>1, <1>3, CallersPush
<1>7. ScopesInv(d, stack)
  BY <1>1, <1>3, <1>4, ScopesPush
<1>8. SupersInv(l, d, now2, lined)
  BY <1>1, <1>2, <1>3, SupersPush
<1> QED
  BY <1>3, <1>4, <1>5, <1>6, <1>7, <1>8 DEF CallsInv, d

(* A call that neither opens a template nor changes what is shared.        *)
Plain == {"nodes", "filter", "capture", "for", "ext", "caller", "macro"}

(* A call of one of the plain roles opens nothing and has nothing to       *)
(* restore.                                                                *)
LEMMA PlainFrame ==
    ASSUME NEW f, f.role \in Plain
    PROVE  /\ ~Opens(f) /\ ~Overrides(f) /\ f.role \in Roles
           /\ f.role \notin {"entry", "template", "layout", "module", "root", "call",
                             "block", "super"}
           /\ \A l, now, lined : FollowAt(l, f, now, now, lined, lined)
  BY DEF Plain, Opens, Overrides, FollowAt, Roles

(* A call of a plain role begins and changes nothing else.                 *)
LEMMA PlainPush ==
    ASSUME NEW l, NEW c, NEW open, NEW given, NEW stack, NEW now, NEW lined,
           CallsInv(l, c, open, given, stack, now, lined),
           c # << >>, Last(c).role \notin {"entry", "template", "layout"},
           NEW f, IsFrame(f), f.role \in Plain
    PROVE  /\ CallsInv(l, Append(c, f), open, given, stack, now, lined)
           /\ Above(c, Append(c, f)) /\ Last(Append(c, f)) = f /\ Append(c, f) # << >>
<1>1. /\ IsSeq(c) /\ IsSeq(given) /\ SupersInv(l, c, now, lined)
  BY DEF CallsInv, StackOK, CallersInv
<1>2. now \in Positions /\ lined \in Lineups
  BY <1>1, SupersNow
<1>3. Len(given) = Len(given) + 0
  BY <1>1, SeqLength
<1>4. FollowAt(l, f, now, now, lined, lined) /\ ~Opens(f) /\ f.role \notin {"call", "root"}
  BY PlainFrame
<1> QED
  BY <1>1, <1>2, <1>3, <1>4, CallsPush

(* A call of a plain role ends and changes nothing else.                   *)
LEMMA PlainPop ==
    ASSUME NEW l, NEW d, d # << >>, NEW open, NEW given, NEW stack, NEW now, NEW lined,
           CallsInv(l, d, open, given, stack, now, lined), Last(d).role \in Plain
    PROVE  /\ CallsInv(l, Front(d), open, given, stack, now, lined)
           /\ Above(Front(d), d) /\ IsSeq(Front(d))
           /\ Front(d) = << >> <=> Len(d) = 1
<1>1. ~Opens(Last(d)) /\ ~Overrides(Last(d)) /\ Last(d).role \notin {"call", "root", "layout"}
  BY PlainFrame
<1> QED
  BY <1>1, CallsPop

-----------------------------------------------------------------------------
(* ... and to the variables.                                               *)

(* The parts of DataInv, and the stack of variables that is used.          *)
LEMMA DataParts ==
    ASSUME NEW c, IsSeq(c), NEW xs, NEW e, NEW s, DataInv(c, xs, e, s)
    PROVE  /\ xs \in Seq(Context) /\ xs # << >> /\ s \in Nat
           /\ Last(xs) \in Context /\ Advances(Last(xs), Last(xs))
           /\ Len(Last(xs).frames) = DepthAt(c, Len(c)) /\ Len(Last(xs).frames) \in Nat \ {0}
           /\ xs = Append(Front(xs), Last(xs))
           /\ ContextsInv(c, xs) /\ IdsInv(xs, s) /\ EntryOK(e, xs, s) /\ SavesInv(c, xs, s)
<1>1. ContextsInv(c, xs) /\ IdsInv(xs, s) /\ EntryOK(e, xs, s) /\ SavesInv(c, xs, s)
  BY DEF DataInv
<1>2. /\ xs \in Seq(Context) /\ xs # << >> /\ s \in Nat /\ Last(xs) \in Context
      /\ Len(Last(xs).frames) = DepthAt(c, Len(c)) /\ xs = Append(Front(xs), Last(xs))
  BY <1>1, ContextsLast DEF ContextsInv, IdsInv
<1>3. Advances(Last(xs), Last(xs))
  BY <1>2, AdvancesSelf
<1>4. DepthAt(c, Len(c)) \in Nat \ {0}
  <2>1. Len(c) \in Nat /\ Len(c) \in 0 .. Len(c) /\ Alike(c, c)
    BY SeqLength, SameFrame DEF Alike
  <2> DEFINE d == Append(c, [role |-> "nodes"])
  <2>2. Len(c) \in Nat /\ Above(c, d)
    <3>1. Len(d) = Len(c) + 1 /\ \A i \in 1 .. Len(c) : d[i] = c[i]
      BY SeqAppend
    <3> HIDE DEF d
    <3> QED
      BY <2>1, <3>1, SameFrame DEF Above
  <2> HIDE DEF d
  <2> QED
    BY <2>1, <2>2, DepthAbove
<1> QED
  BY <1>1, <1>2, <1>3, <1>4

(* Another call with the same variables.                                   *)
LEMMA DataStay ==
    ASSUME NEW c, IsSeq(c), NEW d, Above(c, d), NEW xs, NEW e, NEW s, DataInv(c, xs, e, s),
           Last(d).role \notin Holders, ~Deepens(Last(d)),
           Last(d).role = "ext" => EntryOK(Last(d).save, xs, s),
           NEW e2, EntryOK(e2, xs, s), NEW t \in Nat, s <= t
    PROVE  DataInv(d, xs, e2, t)
<1>1. /\ xs \in Seq(Context) /\ Last(xs) \in Context /\ xs = Append(Front(xs), Last(xs))
      /\ Len(Last(xs).frames) \in Nat
      /\ ContextsInv(c, xs) /\ IdsInv(xs, s) /\ SavesInv(c, xs, s)
  BY DataParts
<1>2. Last(d).role \notin Bases
  BY DEF Bases, Holders
<1>3. Len(Last(xs).frames) = Len(Last(xs).frames) + 0
  BY <1>1
<1>4. ContextsInv(d, xs)
  <2> DEFINE x == Last(xs)
  <2>1. x \in Context /\ Len(x.frames) = IF Last(d).role \in Bases THEN 1
                        ELSE Len(Last(xs).frames) + IF Deepens(Last(d)) THEN 1 ELSE 0
    BY <1>1, <1>2, <1>3
  <2> HIDE DEF x
  <2>2. ContextsInv(d, Append(Front(xs), x))
    BY <1>1, <2>1, ContextsPush
  <2> QED
    BY <1>1, <2>2 DEF x
<1>5. Later(xs, s, xs, t) /\ IdsInv(xs, t)
  BY <1>1, LaterSame
<1>6. SavesInv(d, xs, s)
  BY <1>1, SavesPush
<1>7. SavesInv(d, xs, t) /\ EntryOK(e2, xs, t)
  BY <1>1, <1>5, <1>6, LaterSaves, LaterEntry
<1> QED
  BY <1>4, <1>5, <1>7 DEF DataInv

(* A call that adds to them.                                               *)
LEMMA DataDeepen ==
    ASSUME NEW c, IsSeq(c), NEW d, Above(c, d), NEW xs, NEW e, NEW s, DataInv(c, xs, e, s),
           Last(d).role \notin Holders, Last(d).role # "ext", Deepens(Last(d)),
           NEW x, Advances(Last(xs), x), Len(x.frames) = Len(Last(xs).frames) + 1,
           NEW t \in Nat, s <= t
    PROVE  DataInv(d, Append(Front(xs), x), e, t)
<1> DEFINE ys == Append(Front(xs), x)
<1>1. /\ xs \in Seq(Context) /\ xs # << >> /\ x \in Context
      /\ ContextsInv(c, xs) /\ IdsInv(xs, s) /\ EntryOK(e, xs, s) /\ SavesInv(c, xs, s)
  BY DataParts DEF Advances
<1>2. Last(d).role \notin Bases
  BY DEF Bases, Holders
<1>3. ContextsInv(d, ys)
  BY <1>1, <1>2, ContextsPush
<1>4. ys \in Seq(Context) /\ Later(xs, s, ys, s) /\ IdsInv(ys, s)
  BY <1>1, LaterLast
<1> HIDE DEF ys
<1>5. SavesInv(d, xs, s)
  BY <1>1, SavesPush
<1>6. SavesInv(d, ys, s) /\ EntryOK(e, ys, s)
  BY <1>1, <1>4, <1>5, LaterSaves, LaterEntry
<1>7. Later(ys, s, ys, t) /\ IdsInv(ys, t)
  BY <1>4, LaterSame
<1>8. SavesInv(d, ys, t) /\ EntryOK(e, ys, t)
  BY <1>4, <1>6, <1>7, LaterSaves, LaterEntry
<1>9. DataInv(d, ys, e, t)
  BY <1>3, <1>7, <1>8 DEF DataInv
<1> QED
  BY <1>9 DEF ys

(* A call with variables of its own.                                       *)
LEMMA DataHold ==
    ASSUME NEW c, IsSeq(c), NEW d, Above(c, d), NEW xs, NEW e, NEW s, DataInv(c, xs, e, s),
           Last(d).role \in Holders,
           NEW x \in Context, x.id = s + 1,
           Len(x.frames) = IF Last(d).role \in Bases THEN 1 ELSE Len(Last(xs).frames) + 1
    PROVE  DataInv(d, Append(xs, x), e, s + 1)
<1> DEFINE ys == Append(xs, x)
<1>1. /\ xs \in Seq(Context) /\ xs # << >>
      /\ ContextsInv(c, xs) /\ IdsInv(xs, s) /\ EntryOK(e, xs, s) /\ SavesInv(c, xs, s)
  BY DataParts
<1>2. Last(d).role \notin Bases => Deepens(Last(d))
  BY DEF Bases, Holders, Deepens
<1>3. ContextsInv(d, ys)
  BY <1>1, <1>2, ContextsPush
<1>4. ys \in Seq(Context) /\ Later(xs, s, ys, s + 1) /\ IdsInv(ys, s + 1)
  BY <1>1, LaterAppend
<1> HIDE DEF ys
<1>5. SavesInv(d, xs, s)
  BY <1>1, SavesPush DEF Holders
<1>6. SavesInv(d, ys, s + 1) /\ EntryOK(e, ys, s + 1)
  BY <1>1, <1>4, <1>5, LaterSaves, LaterEntry
<1>7. DataInv(d, ys, e, s + 1)
  BY <1>3, <1>4, <1>6 DEF DataInv
<1> QED
  BY <1>7 DEF ys

(* The end of each.                                                        *)
LEMMA DataLeave ==
    ASSUME NEW c, IsSeq(c), NEW d, IsSeq(d), Above(c, d), NEW xs, NEW e, NEW s,
           DataInv(d, xs, e, s), Last(d).role \notin Holders, ~Deepens(Last(d))
    PROVE  /\ Last(d).role # "ext" => DataInv(c, xs, e, s)
           /\ Last(d).role = "ext" => DataInv(c, xs, Last(d).save, s) /\ DataInv(c, xs, e, s)
<1>1. /\ xs \in Seq(Context) /\ Last(xs) \in Context /\ xs = Append(Front(xs), Last(xs))
      /\ Len(Last(xs).frames) \in Nat
      /\ ContextsInv(d, xs) /\ IdsInv(xs, s) /\ EntryOK(e, xs, s) /\ SavesInv(d, xs, s)
  BY DataParts
<1>2. Len(Last(xs).frames) = Len(Last(xs).frames) - 0
  BY <1>1
<1>3. ContextsInv(c, xs)
  BY <1>1, <1>2, ContextsPop
<1>4. SavesInv(c, xs, s) /\ (Last(d).role = "ext" => EntryOK(Last(d).save, xs, s))
  BY <1>1, SavesPop
<1> QED
  BY <1>1, <1>3, <1>4 DEF DataInv

(* A call that pushed a frame of variables ends and pops it.               *)
LEMMA DataShrink ==
    ASSUME NEW c, IsSeq(c), NEW d, IsSeq(d), Above(c, d), NEW xs, NEW e, NEW s,
           DataInv(d, xs, e, s), Last(d).role \notin Holders, Deepens(Last(d))
    PROVE  DataInv(c, Append(Front(xs), PopFrame(Last(xs))), e, s)
<1> DEFINE ys == Append(Front(xs), PopFrame(Last(xs)))
           x == PopFrame(Last(xs))
<1>1. /\ xs \in Seq(Context) /\ xs # << >> /\ Last(xs) \in Context
      /\ ContextsInv(d, xs) /\ IdsInv(xs, s) /\ EntryOK(e, xs, s) /\ SavesInv(d, xs, s)
  BY DataParts
<1>2. Len(Last(xs).frames) > 1
  BY <1>1, ContextsPop
<1>3. Advances(Last(xs), x) /\ Len(x.frames) = Len(Last(xs).frames) - 1 /\ x \in Context
  BY <1>1, <1>2, PopType DEF Advances
<1>4. ContextsInv(c, ys)
  BY <1>1, <1>3, ContextsPop
<1>5. ys \in Seq(Context) /\ Later(xs, s, ys, s) /\ IdsInv(ys, s)
  BY <1>1, <1>3, LaterLast
<1> HIDE DEF ys
<1>6. SavesInv(c, xs, s)
  BY <1>1, SavesPop
<1>7. SavesInv(c, ys, s) /\ EntryOK(e, ys, s)
  BY <1>1, <1>5, <1>6, LaterSaves, LaterEntry
<1>8. DataInv(c, ys, e, s)
  BY <1>4, <1>5, <1>7 DEF DataInv
<1> QED
  BY <1>8 DEF ys

(* A call that had a stack of variables of its own ends and drops it.      *)
LEMMA DataDrop ==
    ASSUME NEW c, IsSeq(c), NEW d, IsSeq(d), Above(c, d), NEW xs, NEW e, NEW s,
           DataInv(d, xs, e, s), Last(d).role \in Holders
    PROVE  DataInv(c, Front(xs), e, s)
<1> DEFINE ys == Front(xs)
<1>1. /\ xs \in Seq(Context) /\ xs # << >>
      /\ ContextsInv(d, xs) /\ IdsInv(xs, s) /\ EntryOK(e, xs, s) /\ SavesInv(d, xs, s)
  BY DataParts
<1>2. ContextsInv(c, ys)
  BY <1>1, ContextsPop
<1>3. ys \in Seq(Context) /\ Later(xs, s, ys, s) /\ IdsInv(ys, s)
  BY <1>1, LaterFront
<1> HIDE DEF ys
<1>4. SavesInv(c, xs, s)
  BY <1>1, SavesPop
<1>5. SavesInv(c, ys, s) /\ EntryOK(e, ys, s)
  BY <1>1, <1>3, <1>4, LaterSaves, LaterEntry
<1>6. DataInv(c, ys, e, s)
  BY <1>2, <1>3, <1>5 DEF DataInv
<1> QED
  BY <1>6 DEF ys

(* Other values of the variables, in the same calls.                       *)
LEMMA DataTurn ==
    ASSUME NEW c, IsSeq(c), NEW d, Alike(c, d), NEW xs, NEW e, NEW s, DataInv(c, xs, e, s),
           NEW x, Advances(Last(xs), x), Len(x.frames) = Len(Last(xs).frames)
    PROVE  DataInv(d, Append(Front(xs), x), e, s)
<1> DEFINE ys == Append(Front(xs), x)
<1>1. /\ xs \in Seq(Context) /\ xs # << >> /\ x \in Context
      /\ ContextsInv(c, xs) /\ IdsInv(xs, s) /\ EntryOK(e, xs, s) /\ SavesInv(c, xs, s)
  BY DataParts DEF Advances
<1>2. ContextsInv(d, ys)
  BY <1>1, ContextsTurn
<1>3. ys \in Seq(Context) /\ Later(xs, s, ys, s) /\ IdsInv(ys, s)
  BY <1>1, LaterLast
<1> HIDE DEF ys
<1>4. SavesInv(d, xs, s)
  BY <1>1, SavesTurn
<1>5. SavesInv(d, ys, s) /\ EntryOK(e, ys, s)
  BY <1>1, <1>3, <1>4, LaterSaves, LaterEntry
<1>6. DataInv(d, ys, e, s)
  BY <1>2, <1>3, <1>5 DEF DataInv
<1> QED
  BY <1>6 DEF ys

(* A call goes on, whether the merged variables are kept, or replaced by   *)
(* right ones.                                                             *)
LEMMA DataSame ==
    ASSUME NEW c, IsSeq(c), NEW d, Alike(c, d), NEW xs, NEW e, NEW s, DataInv(c, xs, e, s),
           NEW e2, EntryOK(e2, xs, s)
    PROVE  DataInv(d, xs, e2, s)
<1>1. Advances(Last(xs), Last(xs)) /\ xs = Append(Front(xs), Last(xs))
  BY DataParts
<1>2. DataInv(d, Append(Front(xs), Last(xs)), e, s)
  BY <1>1, DataTurn
<1>3. DataInv(d, xs, e, s)
  BY <1>1, <1>2
<1> QED
  BY <1>3 DEF DataInv

-----------------------------------------------------------------------------
(* The locals of the frames.                                               *)

(* The locals of a call keep their types when more copies have been made.  *)
LEMMA SaveLater ==
    ASSUME NEW f, NEW s \in Nat, NEW t \in Nat, s <= t, SaveTyped(f, s)
    PROVE  SaveTyped(f, t)
  BY DEF SaveTyped

(* The locals stay typed when a call with typed locals begins.             *)
LEMMA TypedPush ==
    ASSUME NEW c, IsSeq(c), NEW s \in Nat, NEW t \in Nat, s <= t, SavesTyped(c, s),
           NEW f, SaveTyped(f, t)
    PROVE  SavesTyped(Append(c, f), t)
<1> DEFINE d == Append(c, f)
<1>1. Len(c) \in Nat /\ Len(d) = Len(c) + 1 /\ d[Len(c) + 1] = f
      /\ \A i \in 1 .. Len(c) : d[i] = c[i]
  BY SeqLength, SeqAppend
<1> HIDE DEF d
<1>2. \A i \in 1 .. Len(c) : SaveTyped(c[i], t)
  BY SaveLater DEF SavesTyped
<1>3. SavesTyped(d, t)
  BY <1>1, <1>2 DEF SavesTyped
<1> QED
  BY <1>3 DEF d

(* The locals stay typed when a call ends.                                 *)
LEMMA TypedPop ==
    ASSUME NEW c, IsSeq(c), c # << >>, NEW s, SavesTyped(c, s)
    PROVE  SavesTyped(Front(c), s) /\ SaveTyped(Last(c), s)
<1>1. /\ Len(c) \in Nat \ {0} /\ Len(Front(c)) = Len(c) - 1
      /\ \A i \in 1 .. Len(c) - 1 : Front(c)[i] = c[i]
  BY SeqLength, SeqFront
<1> QED
  BY <1>1 DEF SavesTyped, Last

(* The locals stay typed when a call goes on with typed locals.            *)
LEMMA TypedTurn ==
    ASSUME NEW c, IsSeq(c), c # << >>, NEW s, SavesTyped(c, s), NEW f, SaveTyped(f, s)
    PROVE  SavesTyped(Turned(c, f), s)
<1> DEFINE d == Turned(c, f)
<1>1. /\ Len(c) \in Nat \ {0} /\ Len(d) = Len(c) /\ d[Len(c)] = f
      /\ \A i \in 1 .. Len(c) : i # Len(c) => d[i] = c[i]
  BY SeqLength, SeqExcept DEF Turned
<1> HIDE DEF d
<1>2. SavesTyped(d, s)
  BY <1>1 DEF SavesTyped
<1> QED
  BY <1>2 DEF d

(* The cached loop analyses keep their type when more copies have been     *)
(* made.                                                                   *)
LEMMA LoopsLater ==
    ASSUME NEW use, NEW s \in Nat, NEW t \in Nat, s <= t, LoopsTyped(use, s)
    PROVE  LoopsTyped(use, t)
  BY DEF LoopsTyped

-----------------------------------------------------------------------------
(* The node that is rendered next.                                         *)

(* Where a call may go on from: some node of the body it is rendering.     *)
LEMMA TopNow ==
    ASSUME RInv, status = "running"
    PROVE  /\ Sound /\ ctl # << >> /\ IsSeq(ctl) /\ Len(ctl) \in Nat \ {0}
           /\ Top = ctl[Len(ctl)] /\ IsFrame(Top) /\ SaveTyped(Top, serial) /\ serial \in Nat
<1>1. Sound /\ ctl # << >>
  BY DEF RInv
<1>2. StackOK(ctl) /\ IsSeq(ctl) /\ SavesTyped(ctl, serial) /\ serial \in Nat
  BY <1>1 DEF Sound, StateTyped, CallsInv, StackOK, DataInv, IdsInv
<1>3. Len(ctl) \in Nat \ {0}
  BY <1>1, <1>2, SeqLength
<1> QED
  BY <1>1, <1>2, <1>3 DEF Top, Last, StackOK, SavesTyped

(* While nodes are rendered, the top call is at one of its body.           *)
LEMMA NodeNow ==
    ASSUME RInv, Starting
    PROVE  /\ Top.body \in Bodies /\ Top.pos \in 1 .. Len(Code[Top.body])
           /\ Current \in Node
           /\ Top.role \notin {"entry", "template", "layout"}
           /\ Top.copy \in 0 .. serial
<1>1. status = "running" /\ ~(Top.pos > Len(NodesOf(Top.body)))
  BY DEF Starting, Finished
<1>2. IsFrame(Top) /\ SaveTyped(Top, serial)
  BY <1>1, TopNow
<1>3. Top.pos \in Nat \ {0} /\ Top.body \in Bodies \cup {None}
  BY <1>2 DEF IsFrame
<1>4. Top.body \in Bodies /\ NodesOf(Top.body) = Code[Top.body]
  <2>1. Top.body # None
    BY <1>1, <1>3 DEF NodesOf
  <2> QED
    BY <1>3, <2>1 DEF NodesOf
<1>5. Top.pos \in 1 .. Len(Code[Top.body]) /\ Code[Top.body][Top.pos] \in Node
  BY <1>1, <1>3, <1>4, CodeNodes
<1>6. Top.role \notin {"entry", "template", "layout"}
  BY <1>2, <1>4, TemplateConstants DEF IsFrame
<1> QED
  BY <1>2, <1>4, <1>5, <1>6 DEF Current, SaveTyped

(* The same call, one node further.                                        *)
LEMMA PastNow ==
    ASSUME RInv, Starting
    PROVE  /\ CallsInv(lib, Past, names, callers, scopes, super, chains)
           /\ DataInv(Past, ctxs, extCache, serial)
           /\ SavesTyped(Past, serial)
           /\ Alike(ctl, Past) /\ Past # << >> /\ IsSeq(Past) /\ IsSeq(ctl)
           /\ Last(Past).role = Top.role /\ Len(Past) = Len(ctl)
           /\ Last(Past).role \notin {"entry", "template", "layout"}
<1> DEFINE f == [role |-> Top.role, body |-> Top.body, copy |-> Top.copy, pos |-> Top.pos + 1,
                 save |-> Top.save]
<1>1. /\ Sound /\ ctl # << >> /\ IsSeq(ctl) /\ Len(ctl) \in Nat \ {0}
      /\ Top = Last(ctl) /\ Top = ctl[Len(ctl)] /\ IsFrame(Top) /\ SaveTyped(Top, serial)
  BY TopNow DEF Starting, Top
<1>2. Top.role \notin {"entry", "template", "layout"}
  BY NodeNow
<1>3. f = [Top EXCEPT !.pos = @ + 1]
  BY <1>1 DEF IsFrame
<1>4. Past = Turned(ctl, f)
  BY <1>1, <1>3 DEF Past, Turned
<1>5. IsFrame(f) /\ Same(Top, f) /\ SaveTyped(f, serial) /\ f.role = Top.role
  BY <1>1 DEF IsFrame, Same, SaveTyped
<1> HIDE DEF f
<1>6. /\ CallsInv(lib, Past, names, callers, scopes, super, chains)
      /\ Alike(ctl, Past) /\ Last(Past) = f /\ Past # << >>
  <2>1. /\ CallsInv(lib, ctl, names, callers, scopes, super, chains)
        /\ ctl # << >> /\ IsFrame(f) /\ Same(Last(ctl), f)
    BY <1>1, <1>5 DEF Sound
  <2> QED
    BY <1>4, <2>1, CallsTurn
<1>7. DataInv(Past, ctxs, extCache, serial)
  BY <1>1, <1>6, DataSame DEF Sound, DataInv
<1>8. SavesTyped(Past, serial)
  BY <1>1, <1>4, <1>5, TypedTurn DEF Sound, StateTyped
<1> QED
  BY <1>1, <1>2, <1>5, <1>6, <1>7, <1>8 DEF CallsInv, StackOK, Alike

-----------------------------------------------------------------------------
(* What a step has to show.                                                *)

(* A step that leaves a render that has not failed must leave each part of *)
(* it right.                                                               *)
LEMMA Keeps ==
    ASSUME RInv, lib' = lib, status' \in {"running", "done"},
           status' = "running" <=> ctl' # << >>,
           SavesTyped(ctl', serial'), names' \in Seq(Names), scopes' \in Seq(Scope),
           SpacesTyped(spaces'), CallersTyped(callers'), LoopsTyped(loopUse', serial'),
           CallsInv(lib, ctl', names', callers', scopes', super', chains'),
           DataInv(ctl', ctxs', extCache', serial')
    PROVE  RInv'
<1>1. StateTyped'
  BY DEF StateTyped
<1>2. CallsInv(lib, ctl, names, callers, scopes, super, chains)'
  OBVIOUS
<1>3. DataInv(ctl, ctxs, extCache, serial)'
  OBVIOUS
<1>4. Sound'
  BY <1>1, <1>2, <1>3 DEF Sound
<1> QED
  BY <1>4 DEF RInv

(* A render that fails.                                                    *)
LEMMA Fails ==
    ASSUME RInv, Fail PROVE RInv'
  BY DEF RInv, Fail, Dropped

(* The parts of the invariant in a render that goes on.                    *)
LEMMA TypesNow ==
    ASSUME RInv, status \in {"start", "running"}
    PROVE  /\ SavesTyped(ctl, serial) /\ names \in Seq(Names) /\ scopes \in Seq(Scope)
           /\ SpacesTyped(spaces) /\ CallersTyped(callers) /\ LoopsTyped(loopUse, serial)
           /\ serial \in Nat /\ lib \in Libraries
           /\ CallsInv(lib, ctl, names, callers, scopes, super, chains)
           /\ DataInv(ctl, ctxs, extCache, serial)
           /\ IsSeq(ctl)
  BY DEF RInv, Sound, StateTyped, DataInv, IdsInv, CallsInv, StackOK

(* The variables of the template that is being rendered.                   *)
LEMMA CtxNow ==
    ASSUME RInv, status \in {"start", "running"}
    PROVE  /\ ctxs \in Seq(Context) /\ ctxs # << >> /\ Ctx = Last(ctxs) /\ Ctx \in Context
           /\ Len(Ctx.frames) \in Nat \ {0}
           /\ EntryOK(extCache, ctxs, serial) /\ IdsInv(ctxs, serial)
           /\ Advances(Ctx, Ctx)
<1>1. IsSeq(ctl) /\ DataInv(ctl, ctxs, extCache, serial)
  BY TypesNow
<1> QED
  BY <1>1, DataParts DEF Ctx

(* The next node.                                                          *)
LEMMA ContinueNow ==
    ASSUME RInv, Starting, Continue
    PROVE  /\ CallsInv(lib, ctl', names, callers, scopes, super, chains)
           /\ DataInv(ctl', ctxs, extCache, serial)
           /\ SavesTyped(ctl', serial)
           /\ ctl' # << >> /\ IsSeq(ctl') /\ status' = "running"
<1>1. ctl' = Past /\ status' = "running"
  BY DEF Continue, Starting
<1> QED
  BY <1>1, PastNow

(* The nodes of a body inside the statement.                               *)
LEMMA NestNow ==
    ASSUME RInv, Starting, NEW role \in {"nodes", "filter", "capture", "ext"},
           NEW body \in Bodies, NEW save, Push(Nested(role, body, save)),
           role = "capture" => save.var \in Vars,
           role = "ext" => EntryOK(save, ctxs, serial),
           NEW e2, EntryOK(e2, ctxs, serial)
    PROVE  /\ CallsInv(lib, ctl', names, callers, scopes, super, chains)
           /\ DataInv(ctl', ctxs, e2, serial)
           /\ SavesTyped(ctl', serial)
           /\ ctl' # << >> /\ IsSeq(ctl') /\ status' = "running"
<1> DEFINE f == Nested(role, body, save)
<1>1. /\ CallsInv(lib, Past, names, callers, scopes, super, chains)
      /\ DataInv(Past, ctxs, extCache, serial) /\ SavesTyped(Past, serial)
      /\ Past # << >> /\ IsSeq(Past) /\ Last(Past).role \notin {"entry", "template", "layout"}
  BY PastNow
<1>2. ctl' = Append(Past, f) /\ status' = "running"
  BY DEF Push, Starting
<1>3. Top.copy \in 0 .. serial /\ serial \in Nat
  BY NodeNow, TypesNow DEF Starting
<1>4. IsFrame(f) /\ f.role = role /\ f.save = save /\ role \in Roles
  BY DEF IsFrame, Nested, Frame, Roles
<1>5. SaveTyped(f, serial)
  BY <1>3 DEF SaveTyped, Nested, Frame
<1> HIDE DEF f
<1>6. f.role \in Plain /\ f.role \notin Holders /\ ~Deepens(f)
  BY <1>4 DEF Plain, Holders, Deepens
<1>7. /\ CallsInv(lib, ctl', names, callers, scopes, super, chains)
      /\ Above(Past, ctl') /\ Last(ctl') = f /\ ctl' # << >>
  BY <1>1, <1>2, <1>4, <1>6, PlainPush
<1>8. DataInv(ctl', ctxs, e2, serial)
  BY <1>1, <1>3, <1>4, <1>6, <1>7, DataStay
<1>9. SavesTyped(ctl', serial)
  BY <1>1, <1>2, <1>3, <1>5, TypedPush
<1>10. IsSeq(ctl')
  BY <1>7 DEF CallsInv, StackOK
<1> QED
  BY <1>2, <1>7, <1>8, <1>9, <1>10

(* A body or nothing is rendered next.                                     *)
LEMMA MaybeNow ==
    ASSUME RInv, Starting, NEW body \in Bodies \cup {None}, MaybeNodes(body)
    PROVE  /\ CallsInv(lib, ctl', names, callers, scopes, super, chains)
           /\ DataInv(ctl', ctxs, extCache, serial)
           /\ SavesTyped(ctl', serial)
           /\ ctl' # << >> /\ IsSeq(ctl') /\ status' = "running"
<1>1. CASE body = None
  BY <1>1, ContinueNow DEF MaybeNodes
<1>2. CASE body # None
  <2>1. EntryOK(extCache, ctxs, serial)
    BY CtxNow DEF Starting
  <2> QED
    BY <1>2, <2>1, NestNow DEF MaybeNodes
<1> QED
  BY <1>1, <1>2

(* A step that changes nothing else.                                       *)
LEMMA Moves ==
    ASSUME RInv, Starting, status' = "running", ctl' # << >>,
           CallsInv(lib, ctl', names, callers, scopes, super, chains),
           DataInv(ctl', ctxs, extCache', serial), SavesTyped(ctl', serial),
           UNCHANGED <<lib, names, modules, chains, super, callers, ctxs, loopUse, serial>>
    PROVE  RInv'
<1>1. /\ names \in Seq(Names) /\ scopes \in Seq(Scope) /\ SpacesTyped(spaces)
      /\ CallersTyped(callers) /\ LoopsTyped(loopUse, serial)
  BY TypesNow DEF Starting
<1>2. /\ lib' = lib /\ names' = names /\ scopes' = scopes /\ spaces' = spaces
      /\ chains' = chains /\ super' = super /\ callers' = callers /\ ctxs' = ctxs
      /\ loopUse' = loopUse /\ serial' = serial
  BY DEF modules
<1> QED
  BY <1>1, <1>2, Keeps

-----------------------------------------------------------------------------
(* Assignments.                                                            *)

(* An exported variable stays in the locals of the module that is          *)
(* evaluated.                                                              *)
LEMMA ExportFrame ==
    ASSUME NEW g, IsFrame(g), g.role = "module", NEW s, SaveTyped(g, s), NEW v \in Vars
    PROVE  LET f == [g EXCEPT !.save.out[v] = Some]
           IN  IsFrame(f) /\ Same(g, f) /\ SaveTyped(f, s)
<1> DEFINE save == [name |-> g.save.name, node |-> g.save.node,
                    out |-> [g.save.out EXCEPT ![v] = Some]]
           f == [role |-> g.role, body |-> g.body, copy |-> g.copy, pos |-> g.pos, save |-> save]
<1>1. /\ g = [role |-> g.role, body |-> g.body, copy |-> g.copy, pos |-> g.pos, save |-> g.save]
      /\ g.save \in [name : Names, node : Imports, out : Bindings]
  BY DEF IsFrame
<1>2. g.save = [name |-> g.save.name, node |-> g.save.node, out |-> g.save.out]
  BY <1>1
<1>3. [g.save EXCEPT !.out[v] = Some] = save
  BY <1>2
<1>4. [g EXCEPT !.save.out[v] = Some] = f
  <2>1. [g EXCEPT !.save.out[v] = Some] = [g EXCEPT !.save = [g.save EXCEPT !.out[v] = Some]]
    BY <1>1
  <2> HIDE DEF save
  <2>2. [g EXCEPT !.save = save] = f
    BY <1>1
  <2> QED
    BY <1>3, <2>1, <2>2
<1>5. Some \in Values
  BY DEF Some, Values
<1>6. g.save.name \in Names /\ g.save.node \in Imports /\ g.save.out \in Bindings
  BY <1>1
<1>7. [g.save.out EXCEPT ![v] = Some] \in Bindings
  BY <1>5, <1>6 DEF Bindings
<1>8. save \in [name : Names, node : Imports, out : Bindings] /\ save.name = g.save.name
  BY <1>6, <1>7
<1> HIDE DEF save
<1>9. IsFrame(f) /\ Same(g, f) /\ SaveTyped(f, s)
  BY <1>8 DEF IsFrame, Same, SaveTyped
<1> HIDE DEF f
<1> QED
  BY <1>4, <1>9

(* A module's variable is exported and nothing else is changed.            *)
LEMMA ExportNow ==
    ASSUME NEW l, NEW c, c # << >>, NEW open, NEW given, NEW stack, NEW now, NEW lined,
           CallsInv(l, c, open, given, stack, now, lined),
           NEW s, SavesTyped(c, s), NEW v \in Vars
    PROVE  /\ CallsInv(l, Export(c, v), open, given, stack, now, lined)
           /\ SavesTyped(Export(c, v), s)
           /\ Alike(c, Export(c, v)) /\ Export(c, v) # << >> /\ IsSeq(c)
<1>1. IsSeq(c) /\ StackOK(c)
  BY DEF CallsInv, StackOK
<1>2. CASE Last(c).role # "module"
  <2>1. Alike(c, c)
    BY SameFrame DEF Alike
  <2>2. Export(c, v) = c
    BY <1>2 DEF Export
  <2> QED
    BY <1>1, <2>1, <2>2
<1>3. CASE Last(c).role = "module"
  <2> DEFINE g == Last(c)
             f == [g EXCEPT !.save.out[v] = Some]
  <2>1. Len(c) \in Nat \ {0} /\ g = c[Len(c)]
    BY <1>1, SeqLength DEF Last
  <2>2. IsFrame(g) /\ SaveTyped(g, s)
    BY <1>1, <2>1 DEF StackOK, SavesTyped
  <2>3. IsFrame(f) /\ Same(g, f) /\ SaveTyped(f, s)
    BY <1>3, <2>2, ExportFrame
  <2>4. Export(c, v) = Turned(c, f)
    BY <1>3, <2>1 DEF Export, Turned
  <2> HIDE DEF f
  <2>5. /\ CallsInv(l, Export(c, v), open, given, stack, now, lined)
        /\ Alike(c, Export(c, v)) /\ Export(c, v) # << >>
    BY <2>3, <2>4, CallsTurn
  <2>6. SavesTyped(Export(c, v), s)
    BY <1>1, <2>3, <2>4, TypedTurn
  <2> QED
    BY <1>1, <2>5, <2>6
<1> QED
  BY <1>2, <1>3

(* An assignment makes another revision of the stack that is used.         *)
LEMMA SetCtx ==
    ASSUME RInv, status \in {"start", "running"}, NEW v \in Vars
    PROVE  /\ Advances(Last(ctxs), SetVar(Ctx, v, Some))
           /\ Len(SetVar(Ctx, v, Some).frames) = Len(Last(ctxs).frames)
<1>1. Some \in Values
  BY DEF Some, Values
<1> QED
  BY <1>1, CtxNow, SetVarType

(* Set keeps the invariant.                                                *)
LEMMA SetKeeps ==
    ASSUME RInv, Set PROVE RInv'
<1>1. Starting /\ Current.kind = "set"
  BY DEF Set, At
<1>2. Current.var \in Vars
  BY <1>1, NodeNow, BranchFields
<1> DEFINE v == Current.var
           d == Export(Past, v)
           x == SetVar(Ctx, v, Some)
<1>3. /\ ctl' = d /\ ctxs' = Append(Front(ctxs), x) /\ status' = "running"
      /\ lib' = lib /\ names' = names /\ scopes' = scopes /\ spaces' = spaces
      /\ chains' = chains /\ super' = super /\ callers' = callers
      /\ loopUse' = loopUse /\ extCache' = extCache /\ serial' = serial
  BY <1>1 DEF Set, WithCtx, modules, caches, Starting
<1>4. /\ CallsInv(lib, Past, names, callers, scopes, super, chains)
      /\ DataInv(Past, ctxs, extCache, serial) /\ SavesTyped(Past, serial)
      /\ Past # << >> /\ IsSeq(Past)
  BY <1>1, PastNow
<1>5. Advances(Last(ctxs), x) /\ Len(x.frames) = Len(Last(ctxs).frames)
  BY <1>1, <1>2, SetCtx DEF Starting
<1>6. /\ CallsInv(lib, d, names, callers, scopes, super, chains)
      /\ SavesTyped(d, serial) /\ Alike(Past, d) /\ d # << >>
  BY <1>2, <1>4, ExportNow
<1> HIDE DEF v, d, x
<1>7. DataInv(d, Append(Front(ctxs), x), extCache, serial)
  BY <1>4, <1>5, <1>6, DataTurn
<1> QED
  BY <1>1, <1>3, <1>6, <1>7, TypesNow, Keeps DEF Starting

(* The variable is set when its text has been rendered.                    *)
LEMMA SetBlockKeeps ==
    ASSUME RInv, SetBlock PROVE RInv'
<1>1. Starting /\ Current.kind = "setblock"
  BY DEF SetBlock, At
<1>2. Current.var \in Vars /\ Current.body \in Bodies
  BY <1>1, NodeNow, BranchFields, BodyFields
<1>3. EntryOK(extCache, ctxs, serial)
  BY <1>1, CtxNow DEF Starting
<1>4. /\ Push(Nested("capture", Current.body, [var |-> Current.var]))
      /\ UNCHANGED <<lib, names, modules, chains, super, callers, ctxs, loopUse, serial>>
      /\ extCache' = extCache
  BY DEF SetBlock, caches
<1>5. /\ CallsInv(lib, ctl', names, callers, scopes, super, chains)
      /\ DataInv(ctl', ctxs, extCache, serial) /\ SavesTyped(ctl', serial)
      /\ ctl' # << >> /\ status' = "running"
  BY <1>1, <1>2, <1>3, <1>4, NestNow
<1> QED
  BY <1>1, <1>4, <1>5, Moves

-----------------------------------------------------------------------------
(* Nodes that need nothing but the next node, or one body.                 *)

(* A node that only lets the next one follow keeps the invariant.          *)
LEMMA StaysKeeps ==
    ASSUME RInv, Starting, Continue,
           UNCHANGED <<lib, names, modules, chains, super, callers, ctxs, caches, serial>>
    PROVE  RInv'
<1>1. extCache' = extCache
      /\ UNCHANGED <<lib, names, modules, chains, super, callers, ctxs, loopUse, serial>>
  BY DEF caches
<1> QED
  BY <1>1, ContinueNow, Moves

(* A node that renders a body or nothing keeps the invariant.              *)
LEMMA MaybeKeeps ==
    ASSUME RInv, Starting, NEW body \in Bodies \cup {None}, MaybeNodes(body),
           UNCHANGED <<lib, names, modules, chains, super, callers, ctxs, caches, serial>>
    PROVE  RInv'
<1>1. extCache' = extCache
      /\ UNCHANGED <<lib, names, modules, chains, super, callers, ctxs, loopUse, serial>>
  BY DEF caches
<1> QED
  BY <1>1, MaybeNow, Moves

(* A node that renders a body keeps the invariant.                         *)
LEMMA NestKeeps ==
    ASSUME RInv, Starting, NEW role \in {"nodes", "filter"}, NEW body \in Bodies,
           Push(Nested(role, body, None)),
           UNCHANGED <<lib, names, modules, chains, super, callers, ctxs, caches, serial>>
    PROVE  RInv'
<1>1. extCache' = extCache
      /\ UNCHANGED <<lib, names, modules, chains, super, callers, ctxs, loopUse, serial>>
  BY DEF caches
<1>2. EntryOK(extCache, ctxs, serial)
  BY CtxNow DEF Starting
<1>3. /\ CallsInv(lib, ctl', names, callers, scopes, super, chains)
      /\ DataInv(ctl', ctxs, extCache, serial) /\ SavesTyped(ctl', serial)
      /\ ctl' # << >> /\ status' = "running"
  BY <1>2, NestNow
<1> QED
  BY <1>1, <1>3, Moves

(* Skip keeps the invariant.                                               *)
LEMMA SkipKeeps ==
    ASSUME RInv, Skip PROVE RInv'
  BY StaysKeeps DEF Skip

(* The branches of if and ifAsync keep it.                                 *)
LEMMA IfKeeps ==
    ASSUME RInv, Starting, Current.kind \in {"if", "ifAsync"},
           \/ \E body \in Range(Current.branches) : Push(Nested("nodes", body, None))
           \/ ~Current.otherwise /\ Continue,
           UNCHANGED <<lib, names, modules, chains, super, callers, ctxs, caches, serial>>
    PROVE  RInv'
<1>1. CASE \E body \in Range(Current.branches) : Push(Nested("nodes", body, None))
  <2>1. PICK body \in Range(Current.branches) : Push(Nested("nodes", body, None))
    BY <1>1
  <2>2. Current.branches \in Seq(Bodies)
    BY NodeNow, BranchFields
  <2>3. body \in Bodies
    BY <2>1, <2>2 DEF Range
  <2> QED
    BY <2>1, <2>3, NestKeeps
<1>2. CASE Continue
  BY <1>2, StaysKeeps
<1> QED
  BY <1>1, <1>2

(* Switch keeps the invariant.                                             *)
LEMMA SwitchKeeps ==
    ASSUME RInv, Switch PROVE RInv'
<1>1. /\ Starting /\ Current.kind = "switch"
      /\ UNCHANGED <<lib, names, modules, chains, super, callers, ctxs, caches, serial>>
  BY DEF Switch, At
<1>2. Current.cases \in Seq(Bodies) /\ Current.default \in Bodies \cup {None}
  BY <1>1, NodeNow, BranchFields
<1> DEFINE Full(start) == {i \in start .. Len(Current.cases) : Code[Current.cases[i]] # << >>}
<1>3. PICK start \in 1 .. Len(Current.cases) + 1 :
         IF Full(start) = {} THEN MaybeNodes(Current.default)
         ELSE Push(Nested("nodes", Current.cases[Min(Full(start))], None))
  BY DEF Switch
<1>4. CASE Full(start) = {}
  BY <1>1, <1>2, <1>3, <1>4, MaybeKeeps
<1>5. CASE Full(start) # {}
  <2>1. Len(Current.cases) \in Nat /\ \A i \in Full(start) : i \in 1 .. Len(Current.cases)
    BY <1>2, <1>3
  <2> HIDE DEF Full
  <2>2. Min(Full(start)) \in 1 .. Len(Current.cases)
    BY <1>5, <2>1, MinMember
  <2>3. Current.cases[Min(Full(start))] \in Bodies
    BY <1>2, <2>2
  <2> QED
    BY <1>1, <1>3, <1>5, <2>3, NestKeeps
<1> QED
  BY <1>4, <1>5

(* FilterBlock keeps the invariant.                                        *)
LEMMA FilterKeeps ==
    ASSUME RInv, FilterBlock PROVE RInv'
<1>1. /\ Starting /\ Current.kind = "filter" /\ Push(Nested("filter", Current.body, None))
      /\ UNCHANGED <<lib, names, modules, chains, super, callers, ctxs, caches, serial>>
  BY DEF FilterBlock, At
<1>2. Current.body \in Bodies
  BY <1>1, NodeNow, BodyFields
<1> QED
  BY <1>1, <1>2, NestKeeps

(* The merged variables that a tag takes are those of now.                 *)
LEMMA ExtNow ==
    ASSUME RInv, status \in {"start", "running"}
    PROVE  EntryOK(ExtContext, ctxs, serial)
<1>1. /\ ctxs \in Seq(Context) /\ ctxs # << >> /\ Ctx = Last(ctxs) /\ Ctx \in Context
      /\ EntryOK(extCache, ctxs, serial) /\ IdsInv(ctxs, serial)
  BY CtxNow
<1> DEFINE hit == extCache # None /\ extCache.id = Ctx.id /\ extCache.rev = Ctx.rev
           e == ExtContext
<1>2. /\ e.id = Ctx.id /\ e.rev = Ctx.rev
      /\ e.vars = IF hit THEN extCache.vars ELSE Flatten(Ctx)
  BY DEF ExtContext
<1>3. hit => extCache.vars = Flatten(Ctx)
  <2>1. Len(ctxs) \in 1 .. Len(ctxs) /\ Last(ctxs) = ctxs[Len(ctxs)]
    BY <1>1 DEF Last
  <2> QED
    BY <1>1, <2>1 DEF EntryOK
<1> HIDE DEF e
<1>4. e.vars = Flatten(Ctx)
  BY <1>2, <1>3
<1>5. EntryOK(e, ctxs, serial)
  BY <1>1, <1>2, <1>4, EntryNow
<1> QED
  BY <1>5 DEF e

(* Where nothing is merged nothing is wrong.                               *)
LEMMA NoEntry == \A xs, s : EntryOK(None, xs, s)
  BY DEF EntryOK

(* ExtensionTag keeps the invariant: what is merged for the tag is what    *)
(* the stack has now.                                                      *)
LEMMA TagKeeps ==
    ASSUME RInv, ExtensionTag PROVE RInv'
<1>1. /\ Starting /\ Current.kind = "ext"
      /\ UNCHANGED <<lib, names, modules, chains, super, callers, ctxs, loopUse, serial>>
  BY DEF ExtensionTag, At
<1>2. EntryOK(ExtContext, ctxs, serial)
  BY <1>1, ExtNow DEF Starting
<1>3. CASE Current.body = None
  <2>1. Continue /\ extCache' = ExtContext
    BY <1>3 DEF ExtensionTag
  <2>2. /\ CallsInv(lib, ctl', names, callers, scopes, super, chains)
        /\ DataInv(ctl', ctxs, extCache, serial) /\ SavesTyped(ctl', serial)
        /\ ctl' # << >> /\ status' = "running"
    BY <1>1, <2>1, ContinueNow
  <2>3. DataInv(ctl', ctxs, extCache', serial)
    BY <1>2, <2>1, <2>2 DEF DataInv
  <2> QED
    BY <1>1, <2>2, <2>3, Moves
<1>4. CASE Current.body # None
  <2>1. Push(Nested("ext", Current.body, ExtContext)) /\ extCache' = None
    BY <1>4 DEF ExtensionTag
  <2>2. Current.body \in Bodies
    BY <1>1, <1>4, NodeNow, BranchFields
  <2>3. /\ CallsInv(lib, ctl', names, callers, scopes, super, chains)
        /\ DataInv(ctl', ctxs, None, serial) /\ SavesTyped(ctl', serial)
        /\ ctl' # << >> /\ status' = "running"
    BY <1>1, <1>2, <2>1, <2>2, NoEntry, NestNow
  <2> QED
    BY <1>1, <2>1, <2>3, Moves
<1> QED
  BY <1>3, <1>4

(* AsyncTag merges nothing, and keeps it.                                  *)
LEMMA AsyncTagKeeps ==
    ASSUME RInv, AsyncTag PROVE RInv'
<1>1. /\ Starting /\ Current.kind = "ext"
      /\ UNCHANGED <<lib, names, modules, chains, super, callers, ctxs, caches, serial>>
      /\ UNCHANGED <<lib, names, modules, chains, super, callers, ctxs, loopUse, serial>>
      /\ extCache' = extCache
  BY DEF AsyncTag, At, caches
<1>2. CASE Current.body = None
  BY <1>1, <1>2, StaysKeeps DEF AsyncTag
<1>3. CASE Current.body # None
  <2>1. Push(Nested("ext", Current.body, None))
    BY <1>3 DEF AsyncTag
  <2>2. Current.body \in Bodies /\ EntryOK(extCache, ctxs, serial)
    BY <1>1, <1>3, NodeNow, BranchFields, CtxNow DEF Starting
  <2>3. /\ CallsInv(lib, ctl', names, callers, scopes, super, chains)
        /\ DataInv(ctl', ctxs, extCache, serial) /\ SavesTyped(ctl', serial)
        /\ ctl' # << >> /\ status' = "running"
    BY <1>1, <2>1, <2>2, NoEntry, NestNow
  <2> QED
    BY <1>1, <2>3, Moves
<1> QED
  BY <1>2, <1>3

-----------------------------------------------------------------------------
(* Loops.                                                                  *)

(* The parts of a loop, and the analysis that is cached for it.            *)
LEMMA LoopNode ==
    ASSUME RInv, Starting, Current.kind \in {"for", "asyncFor"}
    PROVE  /\ Current.body \in Bodies /\ Current.otherwise \in Bodies \cup {None}
           /\ Current.vars \in Seq(Vars)
           /\ \A needs : LoopsTyped(Inserted(loopUse, <<Top.copy, Current.body>>, needs), serial)
<1>1. /\ Current.body \in Bodies /\ Current.otherwise \in Bodies \cup {None}
      /\ Current.vars \in Seq(Vars)
  BY NodeNow, BodyFields, BranchFields
<1>2. <<Top.copy, Current.body>> \in (0 .. serial) \X Bodies
  BY <1>1, NodeNow
<1>3. LoopsTyped(loopUse, serial)
  BY TypesNow DEF Starting
<1> DEFINE key == <<Top.copy, Current.body>>
<1> HIDE DEF key
<1>4. ASSUME NEW needs PROVE LoopsTyped(Inserted(loopUse, key, needs), serial)
  <2>1. DOMAIN Inserted(loopUse, key, needs) = {key} \cup DOMAIN loopUse
    BY DEF Inserted
  <2> QED
    BY <1>2, <1>3, <2>1 DEF LoopsTyped, key
<1> QED
  BY <1>1, <1>4 DEF key

(* The frame of a loop and its first iteration.                            *)
LEMMA FirstCtx ==
    ASSUME RInv, status \in {"start", "running"}, NEW needs, NEW n \in Nat,
           NEW targets \in Seq(Vars)
    PROVE  LET x == Iterate(PushFrame(Ctx), needs, 1, n, targets)
           IN  Advances(Last(ctxs), x) /\ Len(x.frames) = Len(Last(ctxs).frames) + 1
<1> DEFINE y == PushFrame(Ctx)
           x == Iterate(y, needs, 1, n, targets)
<1>1. Ctx = Last(ctxs) /\ Ctx \in Context /\ Len(Ctx.frames) \in Nat \ {0}
  BY CtxNow
<1>2. Advances(Ctx, y) /\ Len(y.frames) = Len(Ctx.frames) + 1
  BY <1>1, PushType, NoBindingsType DEF PushFrame
<1>3. y \in Context /\ Len(y.frames) # 0 /\ 1 \in Nat
  BY <1>1, <1>2 DEF Advances
<1> HIDE DEF y
<1>4. Advances(y, x) /\ Len(x.frames) = Len(y.frames)
  BY <1>3, IterateType
<1> HIDE DEF x
<1>5. Advances(Ctx, x)
  BY <1>2, <1>4, AdvancesOn
<1>6. Advances(Last(ctxs), x) /\ Len(x.frames) = Len(Last(ctxs).frames) + 1
  BY <1>1, <1>2, <1>4, <1>5
<1> QED
  BY <1>6 DEF x, y

(* A loop begins its first iteration.                                      *)
LEMMA LoopNow ==
    ASSUME RInv, Starting, Current.kind \in {"for", "asyncFor"},
           NEW n \in 1 .. MaxItems, NEW needs,
           Push(Nested("for", Current.body,
                       [vars |-> Current.vars, i |-> 1, n |-> n, needs |-> needs])),
           NEW x, x = Iterate(PushFrame(Ctx), needs, 1, n, Current.vars)
    PROVE  /\ CallsInv(lib, ctl', names, callers, scopes, super, chains)
           /\ DataInv(ctl', Append(Front(ctxs), x), extCache, serial)
           /\ SavesTyped(ctl', serial)
           /\ ctl' # << >> /\ status' = "running"
<1> DEFINE save == [vars |-> Current.vars, i |-> 1, n |-> n, needs |-> needs]
           f == Nested("for", Current.body, save)
<1>1. /\ CallsInv(lib, Past, names, callers, scopes, super, chains)
      /\ DataInv(Past, ctxs, extCache, serial) /\ SavesTyped(Past, serial)
      /\ Past # << >> /\ IsSeq(Past) /\ Last(Past).role \notin {"entry", "template", "layout"}
  BY PastNow
<1>2. ctl' = Append(Past, f) /\ status' = "running"
  BY DEF Push, Starting
<1>3. Top.copy \in 0 .. serial /\ serial \in Nat
  BY NodeNow, TypesNow DEF Starting
<1>4. Current.body \in Bodies /\ Current.vars \in Seq(Vars) /\ n \in Nat
  BY LoopNode, RendererConstants
<1>5. IsFrame(f) /\ f.role = "for"
  BY <1>4 DEF IsFrame, Nested, Frame, Roles
<1>6. SaveTyped(f, serial)
  BY <1>3, <1>4 DEF SaveTyped, Nested, Frame
<1> HIDE DEF f, save
<1>7. f.role \in Plain /\ f.role \notin Holders /\ f.role # "ext" /\ Deepens(f)
  BY <1>5 DEF Plain, Holders, Deepens
<1>8. /\ CallsInv(lib, ctl', names, callers, scopes, super, chains)
      /\ Above(Past, ctl') /\ Last(ctl') = f /\ ctl' # << >>
  BY <1>1, <1>2, <1>5, <1>7, PlainPush
<1>9. Advances(Last(ctxs), x) /\ Len(x.frames) = Len(Last(ctxs).frames) + 1
  BY <1>4, FirstCtx DEF Starting
<1>10. DataInv(ctl', Append(Front(ctxs), x), extCache, serial)
  BY <1>1, <1>3, <1>7, <1>8, <1>9, DataDeepen
<1>11. SavesTyped(ctl', serial)
  BY <1>1, <1>2, <1>3, <1>6, TypedPush
<1> QED
  BY <1>2, <1>8, <1>10, <1>11

(* A step that changes the variables too.                                  *)
LEMMA Binds ==
    ASSUME RInv, Starting, status' = "running", ctl' # << >>,
           CallsInv(lib, ctl', names, callers, scopes, super, chains),
           DataInv(ctl', ctxs', extCache, serial), SavesTyped(ctl', serial),
           LoopsTyped(loopUse', serial),
           UNCHANGED <<lib, names, modules, chains, super, callers, extCache, serial>>
    PROVE  RInv'
<1>1. /\ names \in Seq(Names) /\ scopes \in Seq(Scope) /\ SpacesTyped(spaces)
      /\ CallersTyped(callers)
  BY TypesNow DEF Starting
<1>2. /\ lib' = lib /\ names' = names /\ scopes' = scopes /\ spaces' = spaces
      /\ chains' = chains /\ super' = super /\ callers' = callers
      /\ extCache' = extCache /\ serial' = serial
  BY DEF modules
<1> QED
  BY <1>1, <1>2, Keeps

(* A loop over nothing keeps the invariant.                                *)
LEMMA ForEmptyKeeps ==
    ASSUME RInv, Starting, Current.kind \in {"for", "asyncFor"}, MaybeNodes(Current.otherwise),
           UNCHANGED <<lib, names, modules, chains, super, callers, ctxs, caches, serial>>
    PROVE  RInv'
  BY LoopNode, MaybeKeeps

(* For keeps the invariant.                                                *)
LEMMA ForKeeps ==
    ASSUME RInv, For PROVE RInv'
<1>1. /\ Starting /\ Current.kind = "for"
      /\ UNCHANGED <<lib, names, modules, chains, super, callers, extCache, serial>>
  BY DEF For, At
<1>2. PICK n \in 1 .. MaxItems, needs \in KnownUses(<<Top.copy, Current.body>>) :
         /\ Push(Nested("for", Current.body,
                        [vars |-> Current.vars, i |-> 1, n |-> n, needs |-> needs]))
         /\ WithCtx(Iterate(PushFrame(Ctx), needs, 1, n, Current.vars))
         /\ loopUse' = Inserted(loopUse, <<Top.copy, Current.body>>, needs)
  BY DEF For
<1> DEFINE x == Iterate(PushFrame(Ctx), needs, 1, n, Current.vars)
<1>3. ctxs' = Append(Front(ctxs), x)
  BY <1>2 DEF WithCtx
<1>4. /\ CallsInv(lib, ctl', names, callers, scopes, super, chains)
      /\ DataInv(ctl', Append(Front(ctxs), x), extCache, serial)
      /\ SavesTyped(ctl', serial) /\ ctl' # << >> /\ status' = "running"
  BY <1>1, <1>2, LoopNow
<1> HIDE DEF x
<1>5. LoopsTyped(loopUse', serial)
  BY <1>1, <1>2, LoopNode
<1> QED
  BY <1>1, <1>3, <1>4, <1>5, Binds

(* AsyncFor keeps the invariant.                                           *)
LEMMA AsyncForKeeps ==
    ASSUME RInv, AsyncFor PROVE RInv'
<1>1. /\ Starting /\ Current.kind \in {"for", "asyncFor"}
      /\ UNCHANGED <<lib, names, modules, chains, super, callers, extCache, serial>>
      /\ loopUse' = loopUse
  BY DEF AsyncFor, AtLoop, At, caches
<1>2. PICK n \in 1 .. MaxItems :
         /\ Push(Nested("for", Current.body,
                        [vars |-> Current.vars, i |-> 1, n |-> n, needs |-> TRUE]))
         /\ WithCtx(Iterate(PushFrame(Ctx), TRUE, 1, n, Current.vars))
  BY DEF AsyncFor
<1> DEFINE x == Iterate(PushFrame(Ctx), TRUE, 1, n, Current.vars)
<1>3. ctxs' = Append(Front(ctxs), x)
  BY <1>2 DEF WithCtx
<1>4. /\ CallsInv(lib, ctl', names, callers, scopes, super, chains)
      /\ DataInv(ctl', Append(Front(ctxs), x), extCache, serial)
      /\ SavesTyped(ctl', serial) /\ ctl' # << >> /\ status' = "running"
  BY <1>1, <1>2, LoopNow
<1> HIDE DEF x
<1>5. LoopsTyped(loopUse', serial)
  BY <1>1, TypesNow DEF Starting
<1> QED
  BY <1>1, <1>3, <1>4, <1>5, Binds

(* The frame of a loop that does not begin is gone again.                  *)
LEMMA MisfitKeeps ==
    ASSUME RInv, Starting, Current.kind \in {"for", "asyncFor"}, MaybeNodes(Current.otherwise),
           WithCtx(PopFrame(PushFrame(Ctx))), LoopsTyped(loopUse', serial),
           UNCHANGED <<lib, names, modules, chains, super, callers, extCache, serial>>
    PROVE  RInv'
<1> DEFINE y == PushFrame(Ctx)
           x == PopFrame(y)
<1>1. Ctx = Last(ctxs) /\ Ctx \in Context /\ Len(Ctx.frames) \in Nat \ {0}
  BY CtxNow DEF Starting
<1>2. Advances(Ctx, y) /\ Len(y.frames) = Len(Ctx.frames) + 1
  BY <1>1, PushType, NoBindingsType DEF PushFrame
<1>3. ctxs' = Append(Front(ctxs), x)
  BY DEF WithCtx
<1> HIDE DEF y
<1>4. Advances(y, x) /\ Len(x.frames) = Len(Ctx.frames)
  BY <1>1, <1>2, PopType DEF Advances
<1> HIDE DEF x
<1>5. Advances(Last(ctxs), x) /\ Len(x.frames) = Len(Last(ctxs).frames)
  BY <1>1, <1>2, <1>4, AdvancesOn
<1>6. /\ CallsInv(lib, ctl', names, callers, scopes, super, chains)
      /\ DataInv(ctl', ctxs, extCache, serial) /\ SavesTyped(ctl', serial)
      /\ ctl' # << >> /\ IsSeq(ctl') /\ status' = "running"
  BY LoopNode, MaybeNow
<1>7. Alike(ctl', ctl')
  BY SameFrame DEF Alike
<1>8. DataInv(ctl', Append(Front(ctxs), x), extCache, serial)
  BY <1>5, <1>6, <1>7, DataTurn
<1> QED
  BY <1>3, <1>6, <1>8, Binds

(* A loop over something else keeps it.                                    *)
LEMMA ForMisfitKeeps ==
    ASSUME RInv, ForMisfit PROVE RInv'
<1>1. /\ Starting /\ Current.kind = "for" /\ MaybeNodes(Current.otherwise)
      /\ WithCtx(PopFrame(PushFrame(Ctx)))
      /\ UNCHANGED <<lib, names, modules, chains, super, callers, extCache, serial>>
  BY DEF ForMisfit, At
<1>2. PICK needs \in KnownUses(<<Top.copy, Current.body>>) :
         loopUse' = Inserted(loopUse, <<Top.copy, Current.body>>, needs)
  BY DEF ForMisfit
<1>3. LoopsTyped(loopUse', serial)
  BY <1>1, <1>2, LoopNode
<1> QED
  BY <1>1, <1>3, MisfitKeeps

(* AsyncForMisfit pushes a frame and pops it, and keeps it.                *)
LEMMA AsyncMisfitKeeps ==
    ASSUME RInv, AsyncForMisfit PROVE RInv'
<1>1. /\ Starting /\ Current.kind \in {"for", "asyncFor"} /\ MaybeNodes(Current.otherwise)
      /\ WithCtx(PopFrame(PushFrame(Ctx)))
      /\ UNCHANGED <<lib, names, modules, chains, super, callers, extCache, serial>>
      /\ loopUse' = loopUse
  BY DEF AsyncForMisfit, AtLoop, At, caches
<1>2. LoopsTyped(loopUse', serial)
  BY <1>1, TypesNow DEF Starting
<1> QED
  BY <1>1, <1>2, MisfitKeeps

-----------------------------------------------------------------------------
(* Macros and call blocks.                                                 *)

(* A macro that is found has a body and gets bindings.                     *)
LEMMA MacroFound ==
    ASSUME RInv, Starting, Current.kind \in {"invoke", "call"}, FindMacro(Current) # None
    PROVE  /\ FindMacro(Current).body \in Bodies
           /\ Arguments(Current, FindMacro(Current)) \in Bindings
<1> DEFINE node == Current
           macro == FindMacro(Current)
           found == {i \in DOMAIN scopes : scopes[i][node.macro] # None}
<1>1. /\ node.macro \in MacroNames /\ scopes \in Seq(Scope) /\ SpacesTyped(spaces)
  BY NodeNow, NameFields, TypesNow DEF Starting
<1>2. node.ns # None => node.ns \in DOMAIN spaces /\ macro = spaces[node.ns].macros[node.macro]
  BY DEF FindMacro
<1>3. node.ns = None => found # {} /\ macro = scopes[Max(found)][node.macro]
  BY DEF FindMacro
<1>4. macro # None
  OBVIOUS
<1> HIDE DEF macro
<1>5. macro \in Macros
  <2>1. CASE node.ns # None
    <3>1. spaces[node.ns].macros \in Scope
      BY <1>1, <1>2, <2>1 DEF SpacesTyped
    <3> HIDE DEF node
    <3> QED
      BY <1>1, <1>2, <1>4, <2>1, <3>1 DEF Scope
  <2>2. CASE node.ns = None
    <3>1. Len(scopes) \in Nat /\ \A i \in found : i \in 0 .. Len(scopes) /\ i \in 1 .. Len(scopes)
      BY <1>1
    <3>2. Max(found) \in found
      <4> HIDE DEF found
      <4> QED
        BY <1>3, <2>2, <3>1, MaxMember
    <3>3. scopes[Max(found)] \in Scope
      BY <1>1, <3>1, <3>2
    <3> HIDE DEF found, node
    <3> QED
      BY <1>1, <1>3, <1>4, <2>2, <3>3 DEF Scope
  <2> QED
    BY <2>1, <2>2
<1>6. macro.body \in Bodies
  BY <1>5, BodyFields DEF Macros
<1>7. Some \in Values
  BY DEF Some, Values
<1>8. node.ns # None => spaces[node.ns].vals \in Bindings
  BY <1>1, <1>2 DEF SpacesTyped
<1> HIDE DEF node
<1>9. Arguments(node, macro) \in Bindings
  BY <1>7, <1>8 DEF Arguments, Bindings
<1> QED
  BY <1>6, <1>9 DEF macro, node

(* A macro's body begins, with a stack of variables of its own.            *)
LEMMA EnterNow ==
    ASSUME RInv, Starting, Current.kind \in {"invoke", "call"}, FindMacro(Current) # None,
           NEW role \in {"macro", "call"}, EnterMacro(role, FindMacro(Current)),
           NEW given2, IsSeq(given2),
           Len(given2) = Len(callers) + IF role = "call" THEN 1 ELSE 0
    PROVE  /\ CallsInv(lib, ctl', names, given2, scopes, super, chains)
           /\ DataInv(ctl', ctxs', extCache, serial')
           /\ SavesTyped(ctl', serial') /\ LoopsTyped(loopUse, serial')
           /\ ctl' # << >> /\ status' = "running"
<1> DEFINE macro == FindMacro(Current)
           f == Frame(role, macro.body, 0, None)
           x == ForkWith(Ctx, serial + 1, Arguments(Current, macro))
<1>1. /\ CallsInv(lib, Past, names, callers, scopes, super, chains)
      /\ DataInv(Past, ctxs, extCache, serial) /\ SavesTyped(Past, serial)
      /\ Past # << >> /\ IsSeq(Past) /\ Last(Past).role \notin {"entry", "template", "layout"}
  BY PastNow
<1>2. /\ ctl' = Append(Past, f) /\ status' = "running"
      /\ ctxs' = Append(ctxs, x) /\ serial' = serial + 1
  BY DEF EnterMacro, Push, Starting
<1>3. serial \in Nat /\ LoopsTyped(loopUse, serial)
  BY TypesNow DEF Starting
<1>4. macro.body \in Bodies /\ Arguments(Current, macro) \in Bindings
  BY MacroFound
<1>5. Ctx = Last(ctxs) /\ Ctx \in Context
  BY CtxNow DEF Starting
<1>6. /\ x \in Context /\ x.id = serial + 1 /\ Len(x.frames) = Len(Last(ctxs).frames) + 1
  <2> DEFINE vals == Arguments(Current, macro)
  <2>1. vals \in Bindings /\ serial + 1 \in Nat
    BY <1>3, <1>4
  <2> HIDE DEF vals
  <2>2. LET y == ForkWith(Ctx, serial + 1, vals)
        IN  y \in Context /\ y.id = serial + 1 /\ Len(y.frames) = Len(Ctx.frames) + 1
    BY <1>5, <2>1, ForkType
  <2> QED
    BY <1>5, <2>2 DEF vals
<1>7. IsFrame(f) /\ f.role = role
  BY <1>4 DEF IsFrame, Frame, Roles
<1>8. SaveTyped(f, serial + 1)
  BY <1>3 DEF SaveTyped, Frame
<1> HIDE DEF f, x, macro
<1>9. /\ f.role \notin {"root"} /\ ~Opens(f) /\ f.role \in Holders /\ f.role \notin Bases
      /\ \A l, now, lined : FollowAt(l, f, now, now, lined, lined)
  BY <1>7 DEF Opens, Holders, Bases, FollowAt, Overrides
<1>10. super \in Positions /\ chains \in Lineups
  BY <1>1, SupersNow DEF CallsInv
<1>11. /\ CallsInv(lib, ctl', names, given2, scopes, super, chains)
       /\ Above(Past, ctl') /\ Last(ctl') = f /\ ctl' # << >>
  <2>1. /\ CallsInv(lib, Past, names, callers, scopes, super, chains)
        /\ Past # << >> /\ Last(Past).role \notin {"entry", "template", "layout"}
    BY <1>1
  <2>2. /\ Len(given2) = Len(callers) + IF f.role = "call" THEN 1 ELSE 0
        /\ f.role \in {"call", "macro", "block", "super"}
        /\ FollowAt(lib, f, super, super, chains, chains)
    BY <1>7, <1>9
  <2>3. /\ CallsInv(lib, Append(Past, f), names, given2, scopes, super, chains)
        /\ Above(Past, Append(Past, f)) /\ Last(Append(Past, f)) = f
        /\ Append(Past, f) # << >>
    BY <1>7, <1>10, <2>1, <2>2, InnerPush
  <2> QED
    BY <1>2, <2>3
<1>12. DataInv(ctl', ctxs', extCache, serial')
  BY <1>1, <1>2, <1>6, <1>9, <1>11, DataHold
<1>13. SavesTyped(ctl', serial')
  BY <1>1, <1>2, <1>3, <1>8, TypedPush
<1>14. LoopsTyped(loopUse, serial')
  BY <1>2, <1>3, LoopsLater
<1> QED
  BY <1>2, <1>11, <1>12, <1>13, <1>14

(* Invoke keeps the invariant.                                             *)
LEMMA InvokeKeeps ==
    ASSUME RInv, Invoke PROVE RInv'
<1>1. CASE FindMacro(Current) = None
  BY <1>1, Fails DEF Invoke
<1>2. CASE FindMacro(Current) # None
  <2>1. /\ Starting /\ Current.kind = "invoke" /\ EnterMacro("macro", FindMacro(Current))
        /\ UNCHANGED <<lib, names, modules, chains, super, callers, caches>>
    BY <1>2 DEF Invoke, At
  <2>2. IsSeq(callers) /\ Len(callers) = Len(callers) + 0
    <3>1. IsSeq(callers)
      BY <2>1, TypesNow DEF Starting, CallsInv, CallersInv
    <3> QED
      BY <3>1, SeqLength
  <2>3. /\ CallsInv(lib, ctl', names, callers, scopes, super, chains)
        /\ DataInv(ctl', ctxs', extCache, serial')
        /\ SavesTyped(ctl', serial') /\ LoopsTyped(loopUse, serial')
        /\ ctl' # << >> /\ status' = "running"
    BY <1>2, <2>1, <2>2, EnterNow
  <2>4. /\ lib' = lib /\ names' = names /\ scopes' = scopes /\ spaces' = spaces
        /\ chains' = chains /\ super' = super /\ callers' = callers
        /\ extCache' = extCache /\ loopUse' = loopUse
    BY <2>1 DEF modules, caches
  <2>5. /\ names \in Seq(Names) /\ scopes \in Seq(Scope) /\ SpacesTyped(spaces)
        /\ CallersTyped(callers)
    BY <2>1, TypesNow DEF Starting
  <2> QED
    BY <2>3, <2>4, <2>5, Keeps
<1> QED
  BY <1>1, <1>2

(* CallBlock keeps the invariant: it pushes the caller its frame stands    *)
(* for.                                                                    *)
LEMMA CallBlockKeeps ==
    ASSUME RInv, CallBlock PROVE RInv'
<1>1. CASE FindMacro(Current) = None
  BY <1>1, Fails DEF CallBlock
<1>2. CASE FindMacro(Current) # None
  <2> DEFINE g == [body |-> Current.body, params |-> Current.params]
             given2 == Append(callers, g)
  <2>1. /\ Starting /\ Current.kind = "call" /\ EnterMacro("call", FindMacro(Current))
        /\ callers' = given2
        /\ UNCHANGED <<lib, names, modules, chains, super, caches>>
    BY <1>2 DEF CallBlock, At
  <2>2. IsSeq(callers) /\ CallersTyped(callers)
    BY <2>1, TypesNow DEF Starting, CallsInv, CallersInv
  <2>3. Current.body \in Bodies /\ Current.params \in Seq(Vars)
    BY <2>1, NodeNow, BodyFields, NameFields
  <2>4. g.body \in Bodies /\ g.params \in Seq(Vars)
    BY <2>3
  <2> HIDE DEF g
  <2>5. /\ IsSeq(given2) /\ Len(callers) \in Nat /\ Len(given2) = Len(callers) + 1
        /\ given2[Len(callers) + 1] = g
        /\ \A i \in 1 .. Len(callers) : given2[i] = callers[i]
    BY <2>2, SeqAppend, SeqLength
  <2> HIDE DEF given2
  <2>6. CallersTyped(given2)
    BY <2>2, <2>4, <2>5 DEF CallersTyped
  <2>7. /\ CallsInv(lib, ctl', names, given2, scopes, super, chains)
        /\ DataInv(ctl', ctxs', extCache, serial')
        /\ SavesTyped(ctl', serial') /\ LoopsTyped(loopUse, serial')
        /\ ctl' # << >> /\ status' = "running"
    BY <1>2, <2>1, <2>5, EnterNow
  <2>8. /\ lib' = lib /\ names' = names /\ scopes' = scopes /\ spaces' = spaces
        /\ chains' = chains /\ super' = super /\ callers' = given2
        /\ extCache' = extCache /\ loopUse' = loopUse
    BY <2>1 DEF modules, caches
  <2>9. names \in Seq(Names) /\ scopes \in Seq(Scope) /\ SpacesTyped(spaces)
    BY <2>1, TypesNow DEF Starting
  <2> QED
    BY <2>6, <2>7, <2>8, <2>9, Keeps
<1> QED
  BY <1>1, <1>2

(* Caller keeps the invariant.                                             *)
LEMMA CallerKeeps ==
    ASSUME RInv, Caller PROVE RInv'
<1>1. CASE callers = << >> \/ (Last(callers).params = << >> /\ Current.args)
  BY <1>1, Fails DEF Caller
<1>2. CASE ~(callers = << >> \/ (Last(callers).params = << >> /\ Current.args))
  <2> DEFINE g == Last(callers)
             bound == g.params # << >>
             f == Frame("caller", g.body, serial + 1, [bound |-> bound])
  <2>1. /\ Starting
        /\ PushClone("caller", g.body, [bound |-> bound])
        /\ IF bound THEN WithCtx(BindCaller(Ctx, g.params)) ELSE UNCHANGED ctxs
        /\ UNCHANGED <<lib, names, modules, chains, super, callers, caches>>
    BY <1>2 DEF Caller, At
  <2>2. ctl' = Append(Past, f) /\ status' = "running" /\ serial' = serial + 1
    BY <2>1 DEF PushClone, Push, Starting
  <2>3. /\ CallsInv(lib, Past, names, callers, scopes, super, chains)
        /\ DataInv(Past, ctxs, extCache, serial) /\ SavesTyped(Past, serial)
        /\ Past # << >> /\ IsSeq(Past) /\ Last(Past).role \notin {"entry", "template", "layout"}
    BY <2>1, PastNow
  <2>4. /\ names \in Seq(Names) /\ scopes \in Seq(Scope) /\ SpacesTyped(spaces)
        /\ CallersTyped(callers) /\ LoopsTyped(loopUse, serial) /\ serial \in Nat
    BY <2>1, TypesNow DEF Starting
  <2>5. g.body \in Bodies
    <3>1. IsSeq(callers) /\ callers # << >>
      BY <1>2, <2>1, TypesNow DEF Starting, CallsInv, CallersInv
    <3>2. Len(callers) \in 1 .. Len(callers)
      BY <3>1, SeqLength
    <3> QED
      BY <2>4, <3>2 DEF CallersTyped, Last
  <2>6. Ctx = Last(ctxs) /\ Ctx \in Context /\ EntryOK(extCache, ctxs, serial)
    BY <2>1, CtxNow DEF Starting
  <2> HIDE DEF bound, g
  <2>7. IsFrame(f) /\ f.role = "caller" /\ f.save.bound = bound
    BY <2>5 DEF IsFrame, Frame, Roles
  <2>8. SaveTyped(f, serial + 1)
    BY <2>4 DEF SaveTyped, Frame
  <2> HIDE DEF f
  <2>9. /\ f.role \in Plain /\ f.role \notin Holders /\ f.role # "ext" /\ (Deepens(f) <=> bound)
    BY <2>7 DEF Plain, Holders, Deepens
  <2>10. /\ CallsInv(lib, ctl', names, callers, scopes, super, chains)
         /\ Above(Past, ctl') /\ Last(ctl') = f /\ ctl' # << >>
    BY <2>2, <2>3, <2>7, <2>9, PlainPush
  <2>11. serial + 1 \in Nat /\ serial <= serial + 1
    BY <2>4
  <2>12. DataInv(ctl', ctxs', extCache, serial + 1)
    <3>1. CASE bound
      <4> DEFINE b == [vars |-> [v \in Vars |-> IF v \in Range(g.params) THEN Some ELSE None],
                       item |-> None]
                 x == BindCaller(Ctx, g.params)
      <4>1. Some \in Values
        BY DEF Some, Values
      <4>2. b \in Frames
        BY <4>1 DEF Frames, Bindings
      <4>3. x = Revised(Ctx, 1, Append(Ctx.frames, b))
        BY DEF BindCaller
      <4>4. ctxs' = Append(Front(ctxs), x)
        BY <2>1, <3>1 DEF WithCtx
      <4> HIDE DEF b, x
      <4>5. Advances(Last(ctxs), x) /\ Len(x.frames) = Len(Last(ctxs).frames) + 1
        BY <2>6, <4>2, <4>3, PushType
      <4> QED
        BY <2>3, <2>9, <2>10, <2>11, <3>1, <4>4, <4>5, DataDeepen
    <3>2. CASE ~bound
      <4>1. ctxs' = ctxs
        BY <2>1, <3>2
      <4> QED
        BY <2>3, <2>6, <2>9, <2>10, <2>11, <3>2, <4>1, DataStay
    <3> QED
      BY <3>1, <3>2
  <2>13. SavesTyped(ctl', serial + 1) /\ LoopsTyped(loopUse, serial + 1)
    BY <2>2, <2>3, <2>4, <2>8, <2>11, TypedPush, LoopsLater
  <2>14. /\ lib' = lib /\ names' = names /\ scopes' = scopes /\ spaces' = spaces
         /\ chains' = chains /\ super' = super /\ callers' = callers
         /\ extCache' = extCache /\ loopUse' = loopUse
    BY <2>1 DEF modules, caches
  <2> QED
    BY <2>2, <2>4, <2>10, <2>12, <2>13, <2>14, Keeps
<1> QED
  BY <1>1, <1>2

-----------------------------------------------------------------------------
(* Blocks.                                                                 *)

(* The chain of a block is a sequence of bodies.                           *)
LEMMA ChainType ==
    ASSUME RInv, status \in {"start", "running"}, NEW b \in BlockNames
    PROVE  Chain(b) \in Seq(Bodies) /\ Chain(b) = ChainIn(chains, b)
<1>1. IsSeq(ctl) /\ SupersInv(lib, ctl, super, chains)
  BY TypesNow DEF CallsInv
<1>2. chains \in Lineups
  BY <1>1, SupersNow
<1> QED
  BY <1>2 DEF Chain, ChainIn, Lineups

(* A block, or the layer that super() asks for, shows what its position    *)
(* says.                                                                   *)
LEMMA ShowKeeps ==
    ASSUME RInv, Starting, NEW role \in {"block", "super"}, NEW body \in Bodies,
           NEW at \in BlockNames \X Nat, Shows(body, at, chains),
           PushClone(role, body, [prev |-> super]), super' = at,
           UNCHANGED <<lib, names, modules, chains, callers, ctxs, caches>>
    PROVE  RInv'
<1> DEFINE f == Frame(role, body, serial + 1, [prev |-> super])
<1>1. ctl' = Append(Past, f) /\ status' = "running" /\ serial' = serial + 1
  BY DEF PushClone, Push, Starting
<1>2. /\ CallsInv(lib, Past, names, callers, scopes, super, chains)
      /\ DataInv(Past, ctxs, extCache, serial) /\ SavesTyped(Past, serial)
      /\ Past # << >> /\ IsSeq(Past) /\ Last(Past).role \notin {"entry", "template", "layout"}
  BY PastNow
<1>3. /\ names \in Seq(Names) /\ scopes \in Seq(Scope) /\ SpacesTyped(spaces)
      /\ CallersTyped(callers) /\ LoopsTyped(loopUse, serial) /\ serial \in Nat
  BY TypesNow DEF Starting
<1>4. EntryOK(extCache, ctxs, serial)
  BY CtxNow DEF Starting
<1>5. IsFrame(f) /\ f.role = role /\ f.body = body /\ f.save.prev = super
  BY DEF IsFrame, Frame, Roles
<1>6. SaveTyped(f, serial + 1)
  BY <1>3 DEF SaveTyped, Frame
<1> HIDE DEF f
<1>7. FollowAt(lib, f, super, at, chains, chains) /\ at \in Positions
  BY <1>5 DEF FollowAt, Overrides, Positions
<1>8. /\ f.role \notin Holders /\ ~Deepens(f) /\ f.role # "ext"
      /\ f.role \in {"call", "macro", "block", "super"}
  BY <1>5 DEF Holders, Deepens
<1>9. IsSeq(callers) /\ Len(callers) = Len(callers) + IF f.role = "call" THEN 1 ELSE 0
  <2>1. IsSeq(callers)
    BY <1>2 DEF CallsInv, CallersInv
  <2>2. Len(callers) \in Nat /\ f.role # "call"
    BY <1>5, <2>1, SeqLength
  <2> QED
    BY <2>1, <2>2
<1>10. /\ CallsInv(lib, ctl', names, callers, scopes, at, chains)
       /\ Above(Past, ctl') /\ Last(ctl') = f /\ ctl' # << >>
  <2>1. /\ CallsInv(lib, Past, names, callers, scopes, super, chains)
        /\ Past # << >> /\ Last(Past).role \notin {"entry", "template", "layout"}
    BY <1>2
  <2>2. /\ CallsInv(lib, Append(Past, f), names, callers, scopes, at, chains)
        /\ Above(Past, Append(Past, f)) /\ Last(Append(Past, f)) = f
        /\ Append(Past, f) # << >>
    BY <1>5, <1>7, <1>8, <1>9, <2>1, InnerPush
  <2> QED
    BY <1>1, <2>2
<1>11. serial + 1 \in Nat /\ serial <= serial + 1
  BY <1>3
<1>12. DataInv(ctl', ctxs, extCache, serial + 1)
  BY <1>2, <1>4, <1>8, <1>10, <1>11, DataStay
<1>13. SavesTyped(ctl', serial + 1) /\ LoopsTyped(loopUse, serial + 1)
  BY <1>1, <1>2, <1>3, <1>6, <1>11, TypedPush, LoopsLater
<1>14. /\ lib' = lib /\ names' = names /\ scopes' = scopes /\ spaces' = spaces
       /\ chains' = chains /\ callers' = callers /\ ctxs' = ctxs
       /\ extCache' = extCache /\ loopUse' = loopUse /\ super' = at
  BY DEF modules, caches
<1> QED
  BY <1>1, <1>3, <1>10, <1>12, <1>13, <1>14, Keeps

(* Block keeps the invariant: it shows the first layer of its chain, or    *)
(* its own body.                                                           *)
LEMMA BlockKeeps ==
    ASSUME RInv, Block PROVE RInv'
<1> DEFINE layers == Chain(Current.name)
           body == IF layers = << >> THEN Current.body ELSE layers[1]
           at == <<Current.name, 0>>
<1>1. /\ Starting /\ Current.kind = "block"
      /\ PushClone("block", body, [prev |-> super]) /\ super' = at
      /\ UNCHANGED <<lib, names, modules, chains, callers, ctxs, caches>>
  BY DEF Block, At
<1>2. Current.name \in BlockNames /\ Current.body \in Bodies
  BY <1>1, NodeNow, NameFields, BodyFields
<1>3. layers \in Seq(Bodies) /\ layers = ChainIn(chains, Current.name)
  BY <1>1, <1>2, ChainType DEF Starting
<1> HIDE DEF layers
<1>4. body \in Bodies
  BY <1>2, <1>3
<1>5. at \in BlockNames \X Nat /\ at[1] = Current.name /\ at[2] = 0
  BY <1>2
<1>6. Shows(body, at, chains)
  BY <1>3, <1>5 DEF Shows
<1> HIDE DEF body, at
<1> QED
  BY <1>1, <1>4, <1>5, <1>6, ShowKeeps

(* Super keeps the invariant: it shows the next layer.                     *)
LEMMA SuperKeeps ==
    ASSUME RInv, Super PROVE RInv'
<1>1. CASE ~(super # None /\ super[2] + 1 < Len(Chain(super[1])))
  BY <1>1, Fails DEF Super
<1>2. CASE super # None /\ super[2] + 1 < Len(Chain(super[1]))
  <2> DEFINE body == Chain(super[1])[super[2] + 2]
             at == <<super[1], super[2] + 1>>
  <2>1. /\ Starting
        /\ PushClone("super", body, [prev |-> super]) /\ super' = at
        /\ UNCHANGED <<lib, names, modules, chains, callers, ctxs, caches>>
    BY <1>2 DEF Super, At
  <2>2. super \in Positions
    <3>1. IsSeq(ctl) /\ SupersInv(lib, ctl, super, chains)
      BY <2>1, TypesNow DEF CallsInv, Starting
    <3> QED
      BY <3>1, SupersNow
  <2>3. super[1] \in BlockNames /\ super[2] \in Nat
    BY <1>2, <2>2 DEF Positions
  <2>4. Chain(super[1]) \in Seq(Bodies) /\ Chain(super[1]) = ChainIn(chains, super[1])
    BY <2>1, <2>3, ChainType DEF Starting
  <2>5. body \in Bodies
    BY <1>2, <2>3, <2>4
  <2>6. /\ at \in BlockNames \X Nat /\ at[1] = super[1] /\ at[2] = super[2] + 1
        /\ at[2] + 1 = super[2] + 2
    BY <2>3
  <2>7. ChainIn(chains, at[1]) # << >>
    BY <1>2, <2>3, <2>4, <2>6
  <2>8. Shows(body, at, chains)
    BY <2>4, <2>6, <2>7 DEF Shows
  <2> HIDE DEF body, at
  <2> QED
    BY <2>1, <2>5, <2>6, <2>8, ShowKeeps
<1> QED
  BY <1>1, <1>2

-----------------------------------------------------------------------------
(* The end of a call.                                                      *)

(* A call that ends leaves the others, and the last one ends the render.   *)
LEMMA EndNow ==
    ASSUME RInv, status = "running", Leave
    PROVE  /\ ctl' = Front(ctl) /\ status' \in {"running", "done"}
           /\ Len(ctl) = 1 <=> status' = "done"
           /\ SavesTyped(ctl', serial) /\ SaveTyped(Top, serial) /\ Top = Last(ctl)
           /\ ctl # << >> /\ IsSeq(ctl)
<1>1. ctl # << >> /\ IsSeq(ctl) /\ SaveTyped(Top, serial) /\ Top = Last(ctl)
  BY TopNow DEF Top
<1>2. ctl' = Front(ctl) /\ status' = IF Len(ctl) = 1 THEN "done" ELSE "running"
  BY DEF Leave
<1>3. SavesTyped(ctl, serial)
  BY TypesNow
<1> QED
  BY <1>1, <1>2, <1>3, TypedPop

(* One that changes nothing that others share.                             *)
LEMMA PlainEnd ==
    ASSUME RInv, status = "running", Leave, Top.role \in Plain
    PROVE  /\ CallsInv(lib, ctl', names, callers, scopes, super, chains)
           /\ Above(ctl', ctl) /\ IsSeq(ctl') /\ IsSeq(ctl) /\ Top = Last(ctl)
           /\ status' \in {"running", "done"} /\ (status' = "running" <=> ctl' # << >>)
           /\ SavesTyped(ctl', serial)
<1>1. /\ ctl' = Front(ctl) /\ status' \in {"running", "done"}
      /\ Len(ctl) = 1 <=> status' = "done"
      /\ SavesTyped(ctl', serial) /\ Top = Last(ctl) /\ ctl # << >> /\ IsSeq(ctl)
  BY EndNow
<1>2. CallsInv(lib, ctl, names, callers, scopes, super, chains)
  BY TypesNow
<1>3. /\ CallsInv(lib, Front(ctl), names, callers, scopes, super, chains)
      /\ Above(Front(ctl), ctl) /\ IsSeq(Front(ctl))
      /\ Front(ctl) = << >> <=> Len(ctl) = 1
  BY <1>1, <1>2, PlainPop
<1> QED
  BY <1>1, <1>3

(* A step that ends a call and may change the variables.                   *)
LEMMA BackKeeps ==
    ASSUME RInv, status = "running", status' \in {"running", "done"},
           status' = "running" <=> ctl' # << >>,
           CallsInv(lib, ctl', names, callers, scopes, super, chains),
           DataInv(ctl', ctxs', extCache', serial), SavesTyped(ctl', serial),
           UNCHANGED <<lib, names, modules, chains, super, callers, loopUse, serial>>
    PROVE  RInv'
<1>1. /\ names \in Seq(Names) /\ scopes \in Seq(Scope) /\ SpacesTyped(spaces)
      /\ CallersTyped(callers) /\ LoopsTyped(loopUse, serial)
  BY TypesNow
<1>2. /\ lib' = lib /\ names' = names /\ scopes' = scopes /\ spaces' = spaces
      /\ chains' = chains /\ super' = super /\ callers' = callers
      /\ loopUse' = loopUse /\ serial' = serial
  BY DEF modules
<1> QED
  BY <1>1, <1>2, Keeps

(* The end of a body, a filter or an extension tag keeps the invariant.    *)
LEMMA EndNodesKeeps ==
    ASSUME RInv, status = "running", Leave, Top.role \in {"nodes", "filter", "ext"},
           extCache' = extCache \/ (Top.role = "ext" /\ extCache' = Top.save),
           UNCHANGED <<lib, names, modules, chains, super, callers, ctxs, loopUse, serial>>
    PROVE  RInv'
<1>1. Top.role \in Plain /\ Top.role \notin Holders /\ ~Deepens(Top)
  BY DEF Plain, Holders, Deepens
<1>2. /\ CallsInv(lib, ctl', names, callers, scopes, super, chains)
      /\ Above(ctl', ctl) /\ IsSeq(ctl') /\ IsSeq(ctl) /\ Top = Last(ctl)
      /\ status' \in {"running", "done"} /\ (status' = "running" <=> ctl' # << >>)
      /\ SavesTyped(ctl', serial)
  BY <1>1, PlainEnd
<1>3. DataInv(ctl, ctxs, extCache, serial)
  BY TypesNow
<1>4. /\ Top.role # "ext" => DataInv(ctl', ctxs, extCache, serial)
      /\ Top.role = "ext" => /\ DataInv(ctl', ctxs, Top.save, serial)
                             /\ DataInv(ctl', ctxs, extCache, serial)
  BY <1>1, <1>2, <1>3, DataLeave
<1>5. DataInv(ctl', ctxs, extCache', serial) /\ ctxs' = ctxs
  BY <1>4
<1>6. UNCHANGED <<lib, names, modules, chains, super, callers, loopUse, serial>>
  OBVIOUS
<1> QED
  BY <1>2, <1>5, <1>6, BackKeeps

(* EndCapture keeps the invariant.                                         *)
LEMMA EndCaptureKeeps ==
    ASSUME RInv, EndCapture PROVE RInv'
<1> DEFINE v == Top.save.var
           c == Front(ctl)
           x == SetVar(Ctx, v, Some)
<1>1. /\ status = "running" /\ status' = status /\ Finished(Top) /\ Top.role = "capture"
      /\ ctl' = Export(c, v) /\ ctxs' = Append(Front(ctxs), x)
      /\ UNCHANGED <<lib, names, modules, chains, super, callers, loopUse, serial>>
      /\ extCache' = extCache
  BY DEF EndCapture, Ending, WithCtx, caches
<1>2. ctl # << >> /\ IsSeq(ctl) /\ SaveTyped(Top, serial) /\ Top = Last(ctl) /\ IsFrame(Top)
  BY <1>1, TopNow DEF Top
<1>3. /\ CallsInv(lib, ctl, names, callers, scopes, super, chains)
      /\ DataInv(ctl, ctxs, extCache, serial) /\ SavesTyped(ctl, serial)
  BY <1>1, TypesNow
<1>4. v \in Vars
  BY <1>1, <1>2 DEF SaveTyped
<1>5. Top.role \in Plain /\ Top.role \notin Holders /\ ~Deepens(Top) /\ Top.role # "ext"
  BY <1>1 DEF Plain, Holders, Deepens
<1>6. /\ CallsInv(lib, c, names, callers, scopes, super, chains)
      /\ Above(c, ctl) /\ IsSeq(c) /\ (c = << >> <=> Len(ctl) = 1)
  BY <1>2, <1>3, <1>5, PlainPop
<1>7. SavesTyped(c, serial)
  BY <1>2, <1>3, TypedPop
<1>8. c # << >>
  <2>1. StackOK(ctl) /\ Len(ctl) \in Nat \ {0} /\ Last(ctl) = ctl[Len(ctl)]
    BY <1>2, <1>3, SeqLength DEF CallsInv, Last
  <2>2. PICK j \in 1 .. Len(ctl) : ctl[j].role = "root"
    BY <1>1, <1>2, <2>1 DEF StackOK
  <2>3. Len(ctl) # 1
    BY <1>1, <1>2, <2>1, <2>2
  <2> QED
    BY <1>6, <2>3
<1>9. DataInv(c, ctxs, extCache, serial)
  BY <1>2, <1>3, <1>5, <1>6, DataLeave
<1>10. Advances(Last(ctxs), x) /\ Len(x.frames) = Len(Last(ctxs).frames)
  BY <1>1, <1>4, SetCtx
<1> HIDE DEF c, v, x
<1>11. /\ CallsInv(lib, ctl', names, callers, scopes, super, chains)
       /\ SavesTyped(ctl', serial) /\ Alike(c, ctl') /\ ctl' # << >>
  BY <1>1, <1>4, <1>6, <1>7, <1>8, ExportNow
<1>12. DataInv(ctl', ctxs', extCache', serial)
  BY <1>1, <1>6, <1>9, <1>10, <1>11, DataTurn
<1> QED
  BY <1>1, <1>11, <1>12, BackKeeps

(* The next iteration: the same call from its first node, with the loop    *)
(* variables of the next item.                                             *)
LEMMA NextItemKeeps ==
    ASSUME RInv, NextItem PROVE RInv'
<1> DEFINE save == [vars |-> Top.save.vars, i |-> Top.save.i + 1, n |-> Top.save.n,
                    needs |-> Top.save.needs]
           f == [role |-> Top.role, body |-> Top.body, copy |-> Top.copy, pos |-> 1,
                 save |-> save]
           x == Iterate(Ctx, Top.save.needs, Top.save.i + 1, Top.save.n, Top.save.vars)
<1>1. /\ status = "running" /\ status' = status /\ Top.role = "for"
      /\ ctl' = [ctl EXCEPT ![Len(ctl)].pos = 1, ![Len(ctl)].save.i = @ + 1]
      /\ ctxs' = Append(Front(ctxs), x)
      /\ UNCHANGED <<lib, names, modules, chains, super, callers, loopUse, serial>>
      /\ extCache' = extCache
  BY DEF NextItem, Ending, WithCtx, caches
<1>2. /\ Sound /\ ctl # << >> /\ IsSeq(ctl) /\ Len(ctl) \in Nat \ {0}
      /\ Top = Last(ctl) /\ Top = ctl[Len(ctl)] /\ IsFrame(Top) /\ SaveTyped(Top, serial)
  BY <1>1, TopNow DEF Top
<1>3. /\ CallsInv(lib, ctl, names, callers, scopes, super, chains)
      /\ DataInv(ctl, ctxs, extCache, serial) /\ SavesTyped(ctl, serial)
  BY <1>1, TypesNow
<1>4. /\ Top.save = [vars |-> Top.save.vars, i |-> Top.save.i, n |-> Top.save.n,
                     needs |-> Top.save.needs]
      /\ Top.save.vars \in Seq(Vars) /\ Top.save.i \in Nat /\ Top.save.n \in Nat
  BY <1>1, <1>2 DEF SaveTyped
<1>5. ctl' = Turned(ctl, f)
  <2>1. [Top.save EXCEPT !.i = @ + 1] = save
    BY <1>4
  <2>2. [Top EXCEPT !.pos = 1, !.save.i = @ + 1] = [Top EXCEPT !.pos = 1, !.save = save]
    BY <1>2, <2>1 DEF IsFrame
  <2>3. [Top EXCEPT !.pos = 1, !.save = save] = f
    <3>1. Top = [role |-> Top.role, body |-> Top.body, copy |-> Top.copy, pos |-> Top.pos,
                 save |-> Top.save]
      BY <1>2 DEF IsFrame
    <3> DEFINE g == [role |-> Top.role, body |-> Top.body, copy |-> Top.copy, pos |-> 1,
                     save |-> Top.save]
    <3>2. [Top EXCEPT !.pos = 1] = g
      BY <3>1
    <3>3. [g EXCEPT !.save = save] = f
      OBVIOUS
    <3>4. [Top EXCEPT !.pos = 1, !.save = save] = [[Top EXCEPT !.pos = 1] EXCEPT !.save = save]
      BY <3>1
    <3> QED
      BY <3>2, <3>3, <3>4
  <2> HIDE DEF f, save
  <2> QED
    BY <1>1, <1>2, <2>2, <2>3 DEF Turned
<1>6. IsFrame(f) /\ Same(Top, f)
  BY <1>1, <1>2 DEF IsFrame, Same
<1>7. SaveTyped(f, serial)
  BY <1>1, <1>2, <1>4 DEF SaveTyped
<1> HIDE DEF f, save
<1>8. /\ CallsInv(lib, ctl', names, callers, scopes, super, chains)
      /\ Alike(ctl, ctl') /\ ctl' # << >>
  <2>1. /\ CallsInv(lib, ctl, names, callers, scopes, super, chains)
        /\ ctl # << >> /\ IsFrame(f) /\ Same(Last(ctl), f)
    BY <1>2, <1>3, <1>6
  <2> QED
    BY <1>5, <2>1, CallsTurn
<1>9. SavesTyped(ctl', serial)
  BY <1>2, <1>3, <1>5, <1>7, TypedTurn
<1>10. Advances(Last(ctxs), x) /\ Len(x.frames) = Len(Last(ctxs).frames)
  <2>1. Ctx = Last(ctxs) /\ Ctx \in Context /\ Len(Ctx.frames) # 0
    BY <1>1, CtxNow
  <2>2. Top.save.i + 1 \in Nat
    BY <1>4
  <2> QED
    BY <1>4, <2>1, <2>2, IterateType
<1> HIDE DEF x
<1>11. DataInv(ctl', ctxs', extCache', serial)
  BY <1>1, <1>2, <1>3, <1>8, <1>10, DataTurn
<1> QED
  BY <1>1, <1>8, <1>9, <1>11, BackKeeps

(* EndFor keeps the invariant: the frame of the loop is popped.            *)
LEMMA EndForKeeps ==
    ASSUME RInv, EndFor PROVE RInv'
<1>1. /\ status = "running" /\ Leave /\ Top.role = "for"
      /\ ctxs' = Append(Front(ctxs), PopFrame(Ctx))
      /\ UNCHANGED <<lib, names, modules, chains, super, callers, loopUse, serial>>
      /\ extCache' = extCache
  BY DEF EndFor, Ending, WithCtx, caches
<1>2. Top.role \in Plain /\ Top.role \notin Holders /\ Deepens(Top)
  BY <1>1 DEF Plain, Holders, Deepens
<1>3. /\ CallsInv(lib, ctl', names, callers, scopes, super, chains)
      /\ Above(ctl', ctl) /\ IsSeq(ctl') /\ IsSeq(ctl) /\ Top = Last(ctl)
      /\ status' \in {"running", "done"} /\ (status' = "running" <=> ctl' # << >>)
      /\ SavesTyped(ctl', serial)
  BY <1>1, <1>2, PlainEnd
<1>4. DataInv(ctl, ctxs, extCache, serial)
  BY <1>1, TypesNow
<1>5. DataInv(ctl', ctxs', extCache', serial)
  BY <1>1, <1>2, <1>3, <1>4, DataShrink DEF Ctx
<1> QED
  BY <1>1, <1>3, <1>5, BackKeeps

(* EndMacro keeps the invariant: the stack of the macro is dropped.        *)
LEMMA EndMacroKeeps ==
    ASSUME RInv, EndMacro PROVE RInv'
<1>1. /\ status = "running" /\ Leave /\ Top.role = "macro" /\ ctxs' = Front(ctxs)
      /\ UNCHANGED <<lib, names, modules, chains, super, callers, loopUse, serial>>
      /\ extCache' = extCache
  BY DEF EndMacro, Ending, caches
<1>2. Top.role \in Plain /\ Top.role \in Holders
  BY <1>1 DEF Plain, Holders
<1>3. /\ CallsInv(lib, ctl', names, callers, scopes, super, chains)
      /\ Above(ctl', ctl) /\ IsSeq(ctl') /\ IsSeq(ctl) /\ Top = Last(ctl)
      /\ status' \in {"running", "done"} /\ (status' = "running" <=> ctl' # << >>)
      /\ SavesTyped(ctl', serial)
  BY <1>1, <1>2, PlainEnd
<1>4. DataInv(ctl, ctxs, extCache, serial)
  BY <1>1, TypesNow
<1>5. DataInv(ctl', ctxs', extCache', serial)
  BY <1>1, <1>2, <1>3, <1>4, DataDrop
<1> QED
  BY <1>1, <1>3, <1>5, BackKeeps

(* The parameters of a caller go with it, if it has any.                   *)
LEMMA EndCallerKeeps ==
    ASSUME RInv, EndCaller PROVE RInv'
<1>1. /\ status = "running" /\ Leave /\ Top.role = "caller"
      /\ IF Top.save.bound THEN ctxs' = Append(Front(ctxs), PopFrame(Ctx)) ELSE ctxs' = ctxs
      /\ UNCHANGED <<lib, names, modules, chains, super, callers, loopUse, serial>>
      /\ extCache' = extCache
  BY DEF EndCaller, Ending, WithCtx, caches
<1>2. /\ Top.role \in Plain /\ Top.role \notin Holders /\ Top.role # "ext"
      /\ Deepens(Top) <=> Top.save.bound
  BY <1>1 DEF Plain, Holders, Deepens
<1>3. /\ CallsInv(lib, ctl', names, callers, scopes, super, chains)
      /\ Above(ctl', ctl) /\ IsSeq(ctl') /\ IsSeq(ctl) /\ Top = Last(ctl)
      /\ status' \in {"running", "done"} /\ (status' = "running" <=> ctl' # << >>)
      /\ SavesTyped(ctl', serial)
  BY <1>1, <1>2, PlainEnd
<1>4. DataInv(ctl, ctxs, extCache, serial)
  BY <1>1, TypesNow
<1>5. DataInv(ctl', ctxs', extCache', serial)
  <2>1. CASE Top.save.bound
    BY <1>1, <1>2, <1>3, <1>4, <2>1, DataShrink DEF Ctx
  <2>2. CASE ~Top.save.bound
    <3>1. DataInv(ctl', ctxs, extCache, serial)
      BY <1>2, <1>3, <1>4, <2>2, DataLeave
    <3> QED
      BY <1>1, <2>2, <3>1
  <2> QED
    BY <2>1, <2>2
<1> QED
  BY <1>1, <1>3, <1>5, BackKeeps

(* One that others share something with: what they see again.              *)
LEMMA SharedEnd ==
    ASSUME RInv, status = "running", Leave, Top.role # "root",
           NEW stack2, stack2 = scopes \/ (IsSeq(stack2) /\ Len(stack2) >= Len(scopes)
                                             /\ Roots(Front(ctl)) # {})
    PROVE  /\ CallsInv(lib, ctl',
                       IF Opens(Top) THEN Front(names) ELSE names,
                       IF Top.role = "call" THEN Front(callers) ELSE callers,
                       stack2,
                       IF Overrides(Top) THEN Top.save.prev ELSE super,
                       IF Top.role = "layout" THEN Top.save.prev ELSE chains)
           /\ Above(ctl', ctl) /\ IsSeq(ctl') /\ IsSeq(ctl) /\ Top = Last(ctl)
           /\ status' \in {"running", "done"} /\ (status' = "running" <=> ctl' # << >>)
           /\ SavesTyped(ctl', serial) /\ SaveTyped(Top, serial) /\ IsFrame(Top)
           /\ DataInv(ctl, ctxs, extCache, serial)
<1>1. /\ ctl' = Front(ctl) /\ status' \in {"running", "done"}
      /\ Len(ctl) = 1 <=> status' = "done"
      /\ SavesTyped(ctl', serial) /\ Top = Last(ctl) /\ ctl # << >> /\ IsSeq(ctl)
      /\ SaveTyped(Top, serial)
  BY EndNow
<1>2. /\ CallsInv(lib, ctl, names, callers, scopes, super, chains)
      /\ DataInv(ctl, ctxs, extCache, serial)
  BY TypesNow
<1>3. IsFrame(Top)
  BY TopNow
<1>4. Last(ctl).role # "root"
  BY <1>1
<1>5. /\ CallsInv(lib, Front(ctl),
                  IF Opens(Last(ctl)) THEN Front(names) ELSE names,
                  IF Last(ctl).role = "call" THEN Front(callers) ELSE callers,
                  stack2,
                  IF Overrides(Last(ctl)) THEN Last(ctl).save.prev ELSE super,
                  IF Last(ctl).role = "layout" THEN Last(ctl).save.prev ELSE chains)
      /\ Above(Front(ctl), ctl) /\ IsSeq(Front(ctl))
      /\ Front(ctl) = << >> <=> Len(ctl) = 1
  BY <1>1, <1>2, <1>4, CallsPop
<1> QED
  BY <1>1, <1>2, <1>3, <1>5

(* A sequence over a set without its last element is one over it.          *)
LEMMA FrontType ==
    ASSUME NEW S, NEW s \in Seq(S)
    PROVE  Front(s) \in Seq(S)
  BY DEF Front

(* A step after which others see again what they shared with the call.     *)
LEMMA SharedKeeps ==
    ASSUME RInv, status = "running", status' \in {"running", "done"},
           status' = "running" <=> ctl' # << >>,
           CallsInv(lib, ctl', names', callers', scopes', super', chains'),
           DataInv(ctl', ctxs', extCache, serial), SavesTyped(ctl', serial),
           names' \in Seq(Names), scopes' \in Seq(Scope), SpacesTyped(spaces'),
           CallersTyped(callers'),
           UNCHANGED <<lib, caches, serial>>
    PROVE  RInv'
<1>1. LoopsTyped(loopUse, serial)
  BY TypesNow
<1>2. lib' = lib /\ loopUse' = loopUse /\ extCache' = extCache /\ serial' = serial
  BY DEF caches
<1> QED
  BY <1>1, <1>2, Keeps

(* EndCall keeps the invariant: the caller is popped.                      *)
LEMMA EndCallKeeps ==
    ASSUME RInv, EndCall PROVE RInv'
<1>1. /\ status = "running" /\ Leave /\ Top.role = "call" /\ ctxs' = Front(ctxs)
      /\ callers' = Front(callers)
      /\ UNCHANGED <<lib, names, modules, chains, super, caches, serial>>
  BY DEF EndCall, Ending
<1>2. /\ names' = names /\ scopes' = scopes /\ spaces' = spaces /\ chains' = chains
      /\ super' = super /\ UNCHANGED <<lib, caches, serial>>
  BY <1>1 DEF modules
<1>3. ~Opens(Top) /\ ~Overrides(Top) /\ Top.role \in Holders /\ Top.role \notin {"layout", "root"}
  BY <1>1 DEF Opens, Overrides, Holders
<1>4. /\ CallsInv(lib, ctl', IF Opens(Top) THEN Front(names) ELSE names,
                  IF Top.role = "call" THEN Front(callers) ELSE callers, scopes,
                  IF Overrides(Top) THEN Top.save.prev ELSE super,
                  IF Top.role = "layout" THEN Top.save.prev ELSE chains)
      /\ Above(ctl', ctl) /\ IsSeq(ctl') /\ IsSeq(ctl) /\ Top = Last(ctl)
      /\ status' \in {"running", "done"} /\ (status' = "running" <=> ctl' # << >>)
      /\ SavesTyped(ctl', serial) /\ DataInv(ctl, ctxs, extCache, serial)
  BY <1>1, <1>3, SharedEnd
<1>5. CallsInv(lib, ctl', names', callers', scopes', super', chains')
  BY <1>1, <1>2, <1>3, <1>4
<1>6. DataInv(ctl', ctxs', extCache, serial)
  BY <1>1, <1>3, <1>4, DataDrop
<1>7. /\ names \in Seq(Names) /\ scopes \in Seq(Scope) /\ SpacesTyped(spaces)
      /\ CallersTyped(callers) /\ IsSeq(callers)
  BY <1>1, TypesNow DEF CallsInv, CallersInv
<1>8. CallersTyped(Front(callers))
  <2>1. CASE callers = << >>
    BY <1>7, <2>1, SeqLength DEF CallersTyped, Front
  <2>2. CASE callers # << >>
    <3>1. /\ Len(callers) \in Nat /\ Len(Front(callers)) = Len(callers) - 1
          /\ \A i \in 1 .. Len(callers) - 1 : Front(callers)[i] = callers[i]
      BY <1>7, <2>2, SeqFront, SeqLength
    <3> QED
      BY <1>7, <3>1 DEF CallersTyped
  <2> QED
    BY <2>1, <2>2
<1> QED
  BY <1>1, <1>2, <1>4, <1>5, <1>6, <1>7, <1>8, SharedKeeps

(* Around the block super_context is what it was before.                   *)
LEMMA EndBlockKeeps ==
    ASSUME RInv, EndBlock PROVE RInv'
<1>1. /\ status = "running" /\ Leave /\ Top.role \in {"block", "super"}
      /\ super' = Top.save.prev
      /\ UNCHANGED <<lib, names, modules, chains, callers, ctxs, caches, serial>>
  BY DEF EndBlock, Ending
<1>2. /\ names' = names /\ scopes' = scopes /\ spaces' = spaces /\ chains' = chains
      /\ callers' = callers /\ ctxs' = ctxs /\ UNCHANGED <<lib, caches, serial>>
  BY <1>1 DEF modules
<1>3. /\ ~Opens(Top) /\ Overrides(Top) /\ Top.role \notin Holders /\ ~Deepens(Top)
      /\ Top.role \notin {"layout", "root", "call", "ext"}
  BY <1>1 DEF Opens, Overrides, Holders, Deepens
<1>4. /\ CallsInv(lib, ctl', IF Opens(Top) THEN Front(names) ELSE names,
                  IF Top.role = "call" THEN Front(callers) ELSE callers, scopes,
                  IF Overrides(Top) THEN Top.save.prev ELSE super,
                  IF Top.role = "layout" THEN Top.save.prev ELSE chains)
      /\ Above(ctl', ctl) /\ IsSeq(ctl') /\ IsSeq(ctl) /\ Top = Last(ctl)
      /\ status' \in {"running", "done"} /\ (status' = "running" <=> ctl' # << >>)
      /\ SavesTyped(ctl', serial) /\ DataInv(ctl, ctxs, extCache, serial)
  BY <1>1, <1>3, SharedEnd
<1>5. CallsInv(lib, ctl', names', callers', scopes', super', chains')
  BY <1>1, <1>2, <1>3, <1>4
<1>6. DataInv(ctl', ctxs', extCache, serial)
  BY <1>2, <1>3, <1>4, DataLeave
<1>7. /\ names \in Seq(Names) /\ scopes \in Seq(Scope) /\ SpacesTyped(spaces)
      /\ CallersTyped(callers)
  BY <1>1, TypesNow
<1> QED
  BY <1>1, <1>2, <1>4, <1>5, <1>6, <1>7, SharedKeeps

(* A root takes the scopes that were added since it began.                 *)
LEMMA EndRootKeeps ==
    ASSUME RInv, EndRoot PROVE RInv'
<1>1. /\ status = "running" /\ Leave /\ Top.role = "root"
      /\ scopes' = SubSeq(scopes, 1, Top.save.base)
      /\ UNCHANGED <<lib, names, spaces, chains, super, callers, ctxs, caches, serial>>
  BY DEF EndRoot, Ending
<1>2. /\ names' = names /\ spaces' = spaces /\ chains' = chains /\ super' = super
      /\ callers' = callers /\ ctxs' = ctxs /\ UNCHANGED <<lib, caches, serial>>
  BY <1>1
<1>3. /\ ~Opens(Top) /\ ~Overrides(Top) /\ Top.role \notin Holders /\ ~Deepens(Top)
      /\ Top.role \notin {"layout", "call", "ext"}
  BY <1>1 DEF Opens, Overrides, Holders, Deepens
<1>4. /\ ctl' = Front(ctl) /\ status' \in {"running", "done"}
      /\ Len(ctl) = 1 <=> status' = "done"
      /\ SavesTyped(ctl', serial) /\ Top = Last(ctl) /\ ctl # << >> /\ IsSeq(ctl)
  BY <1>1, EndNow
<1>5. /\ names \in Seq(Names) /\ scopes \in Seq(Scope) /\ SpacesTyped(spaces)
      /\ CallersTyped(callers)
      /\ CallsInv(lib, ctl, names, callers, scopes, super, chains)
      /\ DataInv(ctl, ctxs, extCache, serial)
  BY <1>1, TypesNow
<1>6. /\ CallsInv(lib, Front(ctl),
                  IF Opens(Last(ctl)) THEN Front(names) ELSE names,
                  IF Last(ctl).role = "call" THEN Front(callers) ELSE callers,
                  scopes',
                  IF Overrides(Last(ctl)) THEN Last(ctl).save.prev ELSE super,
                  IF Last(ctl).role = "layout" THEN Last(ctl).save.prev ELSE chains)
      /\ Above(Front(ctl), ctl) /\ IsSeq(Front(ctl))
      /\ Front(ctl) = << >> <=> Len(ctl) = 1
  <2> DEFINE stack2 == SubSeq(scopes, 1, Last(ctl).save.base)
  <2>1. Last(ctl).role = "root" /\ scopes' = stack2
    BY <1>1, <1>4
  <2>2. IF Last(ctl).role = "root" THEN stack2 = SubSeq(scopes, 1, Last(ctl).save.base)
        ELSE stack2 = scopes \/ (IsSeq(stack2) /\ Len(stack2) >= Len(scopes)
                                  /\ Roots(Front(ctl)) # {})
    BY <2>1
  <2> HIDE DEF stack2
  <2>3. /\ CallsInv(lib, Front(ctl),
                    IF Opens(Last(ctl)) THEN Front(names) ELSE names,
                    IF Last(ctl).role = "call" THEN Front(callers) ELSE callers,
                    stack2,
                    IF Overrides(Last(ctl)) THEN Last(ctl).save.prev ELSE super,
                    IF Last(ctl).role = "layout" THEN Last(ctl).save.prev ELSE chains)
        /\ Above(Front(ctl), ctl) /\ IsSeq(Front(ctl))
        /\ Front(ctl) = << >> <=> Len(ctl) = 1
    BY <1>4, <1>5, <2>2, CallsPop
  <2> QED
    BY <2>1, <2>3
<1>7. CallsInv(lib, ctl', names', callers', scopes', super', chains')
  BY <1>2, <1>3, <1>4, <1>6
<1>8. DataInv(ctl', ctxs', extCache, serial)
  BY <1>2, <1>3, <1>4, <1>5, <1>6, DataLeave
<1>9. scopes' \in Seq(Scope)
  <2>1. Top.save.base \in 0 .. Len(scopes)
    <3>1. Len(ctl) \in Nat \ {0} /\ Top = ctl[Len(ctl)] /\ ScopesInv(ctl, scopes)
      BY <1>4, <1>5, SeqLength DEF CallsInv, Last
    <3>2. Len(ctl) \in Roots(ctl)
      BY <1>1, <3>1 DEF Roots, RoleIn
    <3> QED
      BY <3>1, <3>2 DEF ScopesInv
  <2> QED
    BY <1>1, <1>5, <2>1
<1> QED
  BY <1>1, <1>2, <1>4, <1>5, <1>6, <1>7, <1>8, <1>9, SharedKeeps

(* What was opened is closed, and the chains are those of the template     *)
(* that the layout's child was rendered in.                                *)
LEMMA EndLayoutKeeps ==
    ASSUME RInv, EndLayout PROVE RInv'
<1>1. /\ status = "running" /\ Leave /\ Top.role = "layout"
      /\ names' = Front(names) /\ chains' = Top.save.prev
      /\ UNCHANGED <<lib, modules, super, callers, ctxs, caches, serial>>
  BY DEF EndLayout, Ending
<1>2. /\ scopes' = scopes /\ spaces' = spaces /\ super' = super /\ callers' = callers
      /\ ctxs' = ctxs /\ UNCHANGED <<lib, caches, serial>>
  BY <1>1 DEF modules
<1>3. /\ ~Overrides(Top) /\ Top.role \notin Holders /\ ~Deepens(Top)
      /\ Top.role \notin {"root", "call", "ext"}
  BY <1>1 DEF Overrides, Holders, Deepens
<1>4. /\ CallsInv(lib, ctl', IF Opens(Top) THEN Front(names) ELSE names,
                  IF Top.role = "call" THEN Front(callers) ELSE callers, scopes,
                  IF Overrides(Top) THEN Top.save.prev ELSE super,
                  IF Top.role = "layout" THEN Top.save.prev ELSE chains)
      /\ Above(ctl', ctl) /\ IsSeq(ctl') /\ IsSeq(ctl) /\ Top = Last(ctl)
      /\ status' \in {"running", "done"} /\ (status' = "running" <=> ctl' # << >>)
      /\ SavesTyped(ctl', serial) /\ SaveTyped(Top, serial)
      /\ DataInv(ctl, ctxs, extCache, serial)
  BY <1>1, <1>3, SharedEnd
<1>5. Opens(Top)
  <2>1. Top.save.name \in Names
    BY <1>1, <1>4 DEF SaveTyped
  <2> QED
    BY <1>1, <2>1, TemplateConstants DEF Opens
<1>6. CallsInv(lib, ctl', names', callers', scopes', super', chains')
  BY <1>1, <1>2, <1>3, <1>4, <1>5
<1>7. DataInv(ctl', ctxs', extCache, serial)
  BY <1>2, <1>3, <1>4, DataLeave
<1>8. /\ names \in Seq(Names) /\ scopes \in Seq(Scope) /\ SpacesTyped(spaces)
      /\ CallersTyped(callers)
  BY <1>1, TypesNow
<1>9. names' \in Seq(Names)
  BY <1>1, <1>8, FrontType
<1> QED
  BY <1>1, <1>2, <1>4, <1>6, <1>7, <1>8, <1>9, SharedKeeps

(* EndEntry keeps the invariant.                                           *)
LEMMA EndEntryKeeps ==
    ASSUME RInv, EndEntry PROVE RInv'
<1>1. /\ status = "running" /\ Leave /\ Top.role = "entry"
      /\ names' = IF Top.save.name = None THEN names ELSE Front(names)
      /\ UNCHANGED <<lib, modules, chains, super, callers, ctxs, caches, serial>>
  BY DEF EndEntry, Ending
<1>2. /\ scopes' = scopes /\ spaces' = spaces /\ super' = super /\ callers' = callers
      /\ chains' = chains /\ ctxs' = ctxs /\ UNCHANGED <<lib, caches, serial>>
  BY <1>1 DEF modules
<1>3. /\ ~Overrides(Top) /\ Top.role \notin Holders /\ ~Deepens(Top)
      /\ Top.role \notin {"root", "call", "ext", "layout"}
      /\ Opens(Top) <=> Top.save.name # None
  BY <1>1 DEF Overrides, Holders, Deepens, Opens
<1>4. /\ CallsInv(lib, ctl', IF Opens(Top) THEN Front(names) ELSE names,
                  IF Top.role = "call" THEN Front(callers) ELSE callers, scopes,
                  IF Overrides(Top) THEN Top.save.prev ELSE super,
                  IF Top.role = "layout" THEN Top.save.prev ELSE chains)
      /\ Above(ctl', ctl) /\ IsSeq(ctl') /\ IsSeq(ctl) /\ Top = Last(ctl)
      /\ status' \in {"running", "done"} /\ (status' = "running" <=> ctl' # << >>)
      /\ SavesTyped(ctl', serial) /\ DataInv(ctl, ctxs, extCache, serial)
  BY <1>1, <1>3, SharedEnd
<1>5. CallsInv(lib, ctl', names', callers', scopes', super', chains')
  BY <1>1, <1>2, <1>3, <1>4
<1>6. DataInv(ctl', ctxs', extCache, serial)
  BY <1>2, <1>3, <1>4, DataLeave
<1>7. /\ names \in Seq(Names) /\ scopes \in Seq(Scope) /\ SpacesTyped(spaces)
      /\ CallersTyped(callers)
  BY <1>1, TypesNow
<1>8. names' \in Seq(Names)
  BY <1>1, <1>7, FrontType
<1> QED
  BY <1>1, <1>2, <1>4, <1>5, <1>6, <1>7, <1>8, SharedKeeps

(* EndInclude keeps the invariant.                                         *)
LEMMA EndIncludeKeeps ==
    ASSUME RInv, EndInclude PROVE RInv'
<1>1. /\ status = "running" /\ Leave /\ Top.role = "template"
      /\ names' = Front(names) /\ ctxs' = Front(ctxs)
      /\ UNCHANGED <<lib, modules, chains, super, callers, caches, serial>>
  BY DEF EndInclude, Ending
<1>2. /\ scopes' = scopes /\ spaces' = spaces /\ super' = super /\ callers' = callers
      /\ chains' = chains /\ UNCHANGED <<lib, caches, serial>>
  BY <1>1 DEF modules
<1>3. /\ ~Overrides(Top) /\ Top.role \in Holders
      /\ Top.role \notin {"root", "call", "ext", "layout"}
  BY <1>1 DEF Overrides, Holders
<1>4. /\ CallsInv(lib, ctl', IF Opens(Top) THEN Front(names) ELSE names,
                  IF Top.role = "call" THEN Front(callers) ELSE callers, scopes,
                  IF Overrides(Top) THEN Top.save.prev ELSE super,
                  IF Top.role = "layout" THEN Top.save.prev ELSE chains)
      /\ Above(ctl', ctl) /\ IsSeq(ctl') /\ IsSeq(ctl) /\ Top = Last(ctl)
      /\ status' \in {"running", "done"} /\ (status' = "running" <=> ctl' # << >>)
      /\ SavesTyped(ctl', serial) /\ SaveTyped(Top, serial)
      /\ DataInv(ctl, ctxs, extCache, serial)
  BY <1>1, <1>3, SharedEnd
<1>5. Opens(Top)
  <2>1. Top.save.name \in Names
    BY <1>1, <1>4 DEF SaveTyped
  <2> QED
    BY <1>1, <2>1, TemplateConstants DEF Opens
<1>6. CallsInv(lib, ctl', names', callers', scopes', super', chains')
  BY <1>1, <1>2, <1>3, <1>4, <1>5
<1>7. DataInv(ctl', ctxs', extCache, serial)
  BY <1>1, <1>3, <1>4, DataDrop
<1>8. /\ names \in Seq(Names) /\ scopes \in Seq(Scope) /\ SpacesTyped(spaces)
      /\ CallersTyped(callers)
  BY <1>1, TypesNow
<1>9. names' \in Seq(Names)
  BY <1>1, <1>8, FrontType
<1> QED
  BY <1>1, <1>2, <1>4, <1>6, <1>7, <1>8, <1>9, SharedKeeps

-----------------------------------------------------------------------------
(* The end of an import or a from.                                         *)

(* What the template that has been evaluated gives the importer.           *)
LEMMA ModuleNow ==
    ASSUME RInv, status = "running", Leave, Top.role = "module"
    PROVE  /\ \A stack2 : stack2 = scopes \/ (IsSeq(stack2) /\ Len(stack2) >= Len(scopes)) =>
                 CallsInv(lib, ctl', Front(names), callers, stack2, super, chains)
           /\ DataInv(ctl', Front(ctxs), extCache, serial)
           /\ IsSeq(ctl') /\ status' \in {"running", "done"}
           /\ status' = "running" <=> ctl' # << >>
           /\ SavesTyped(ctl', serial)
           /\ Top.body \in Bodies /\ Top.save.node \in Imports /\ Top.save.out \in Bindings
           /\ Front(names) \in Seq(Names)
<1>1. ~Overrides(Top) /\ Top.role \in Holders /\ Top.role \notin {"root", "call", "layout"}
  BY DEF Overrides, Holders
<1>2. ctl # << >> /\ IsSeq(ctl) /\ Len(ctl) \in Nat \ {0} /\ Top = ctl[Len(ctl)] /\ IsFrame(Top)
  BY TopNow
<1>3. /\ Top.body \in Bodies
      /\ Top.save \in [name : Names, node : Imports, out : Bindings]
  BY <1>2 DEF IsFrame
<1>4. Top.save.name \in Names /\ Top.save.node \in Imports /\ Top.save.out \in Bindings
  BY <1>3
<1>5. Opens(Top)
  BY <1>4, TemplateConstants DEF Opens
<1>6. Roots(Front(ctl)) # {}
  <2>1. StackOK(ctl)
    BY TypesNow DEF CallsInv
  <2>2. PICK j \in 1 .. Len(ctl) : ctl[j].role = "root"
    BY <1>2, <2>1 DEF StackOK
  <2>3. j # Len(ctl)
    BY <1>2, <2>2
  <2>4. Len(Front(ctl)) = Len(ctl) - 1 /\ \A i \in 1 .. Len(ctl) - 1 : Front(ctl)[i] = ctl[i]
    BY <1>2, SeqFront
  <2>5. j \in 1 .. Len(Front(ctl)) /\ Front(ctl)[j].role = "root"
    BY <1>2, <2>2, <2>3, <2>4
  <2> QED
    BY <2>5 DEF Roots, RoleIn
<1>7. ASSUME NEW stack2, stack2 = scopes \/ (IsSeq(stack2) /\ Len(stack2) >= Len(scopes))
      PROVE  CallsInv(lib, ctl', Front(names), callers, stack2, super, chains)
  <2>1. stack2 = scopes \/ (IsSeq(stack2) /\ Len(stack2) >= Len(scopes)
                              /\ Roots(Front(ctl)) # {})
    BY <1>6, <1>7
  <2>2. CallsInv(lib, ctl', IF Opens(Top) THEN Front(names) ELSE names,
                 IF Top.role = "call" THEN Front(callers) ELSE callers, stack2,
                 IF Overrides(Top) THEN Top.save.prev ELSE super,
                 IF Top.role = "layout" THEN Top.save.prev ELSE chains)
    BY <1>1, <2>1, SharedEnd
  <2> QED
    BY <1>1, <1>5, <2>2
<1>8. /\ Above(ctl', ctl) /\ IsSeq(ctl') /\ Top = Last(ctl)
      /\ status' \in {"running", "done"} /\ (status' = "running" <=> ctl' # << >>)
      /\ SavesTyped(ctl', serial) /\ DataInv(ctl, ctxs, extCache, serial)
  <2>1. Top.role # "root" /\ scopes = scopes
    BY <1>1
  <2> QED
    BY <2>1, SharedEnd
<1>9. DataInv(ctl', Front(ctxs), extCache, serial)
  BY <1>1, <1>2, <1>8, DataDrop
<1>10. Front(names) \in Seq(Names)
  BY TypesNow, FrontType
<1> QED
  BY <1>3, <1>4, <1>7, <1>8, <1>9, <1>10

(* EndImport keeps the invariant.                                          *)
LEMMA EndImportKeeps ==
    ASSUME RInv, EndImport PROVE RInv'
<1> DEFINE space == [macros |-> MacrosOf[Top.body], vals |-> Top.save.out]
           alias == Top.save.node.alias
<1>1. /\ status = "running" /\ Leave /\ Top.role = "module"
      /\ names' = Front(names) /\ ctxs' = Front(ctxs)
      /\ spaces' = Inserted(spaces, alias, space)
      /\ UNCHANGED <<lib, scopes, chains, super, callers, caches, serial>>
  BY DEF EndImport, Ending
<1>2. /\ scopes' = scopes /\ super' = super /\ callers' = callers
      /\ chains' = chains /\ UNCHANGED <<lib, caches, serial>>
  BY <1>1
<1>3. /\ CallsInv(lib, ctl', Front(names), callers, scopes, super, chains)
      /\ DataInv(ctl', Front(ctxs), extCache, serial)
      /\ status' \in {"running", "done"} /\ (status' = "running" <=> ctl' # << >>)
      /\ SavesTyped(ctl', serial)
      /\ Top.body \in Bodies /\ Top.save.out \in Bindings /\ Front(names) \in Seq(Names)
  BY <1>1, ModuleNow
<1>4. space.macros \in Scope /\ space.vals \in Bindings
  BY <1>3, MacrosType DEF Scope
<1>5. /\ names \in Seq(Names) /\ scopes \in Seq(Scope) /\ SpacesTyped(spaces)
      /\ CallersTyped(callers)
  BY <1>1, TypesNow
<1> HIDE DEF space, alias
<1>6. SpacesTyped(spaces')
  <2>1. /\ DOMAIN spaces' = DOMAIN spaces \cup {alias}
        /\ \A ns \in DOMAIN spaces' : spaces'[ns] = IF ns = alias THEN space ELSE spaces[ns]
    BY <1>1 DEF Inserted
  <2> QED
    BY <1>4, <1>5, <2>1 DEF SpacesTyped
<1>7. CallsInv(lib, ctl', names', callers', scopes', super', chains')
  BY <1>1, <1>2, <1>3
<1>8. DataInv(ctl', ctxs', extCache, serial)
  BY <1>1, <1>3
<1> QED
  BY <1>1, <1>2, <1>3, <1>5, <1>6, <1>7, <1>8, SharedKeeps

(* What a from takes from the exports: macros into a scope of their own,   *)
(* and variables.                                                          *)
LEMMA ImportedNow ==
    ASSUME Top.body \in Bodies, Top.save.node \in Imports, Top.save.node.kind = "from",
           Top.save.out \in Bindings,
           \A x \in Range(Top.save.node.names) : ExportsMacro(x.export) \/ ExportsValue(x.export),
           NEW ctx \in Context
    PROVE  /\ ImportedScope \in Scope
           /\ Advances(ctx, ImportValues(ctx))
           /\ Len(ImportValues(ctx).frames) = Len(ctx.frames)
<1> DEFINE asked == Top.save.node.names
           plain == {i \in DOMAIN asked : ~ExportsMacro(asked[i].export)}
           vals == [v \in Vars |-> LET export == Imported(v, FALSE)
                                   IN  IF export = None THEN None ELSE Top.save.out[export]]
<1>1. ImportedScope \in Scope
  <2>1. \A export : Named(Top.body, "macro", export) \in Macros \cup {None}
    BY NamedType DEF Macros
  <2> QED
    BY <2>1 DEF ImportedScope, Scope
<1>2. Len(asked) \in Nat /\ DOMAIN asked = 1 .. Len(asked)
  BY NameFields DEF Imports
<1>3. \A i \in plain : i \in 1 .. Len(asked) /\ asked[i].export \in Vars
  BY <1>2 DEF ExportsValue, Range
<1> HIDE DEF asked
<1>4. ASSUME NEW v \in Vars, Imported(v, FALSE) # None
      PROVE  plain # {} /\ Imported(v, FALSE) \in Vars
  <2> DEFINE from == {i \in DOMAIN asked : /\ asked[i].local = v
                                           /\ (ExportsMacro(asked[i].export) <=> FALSE)}
  <2>1. from # {} /\ Imported(v, FALSE) = asked[Max(from)].export
    BY <1>4 DEF Imported, asked
  <2>2. \A i \in from : i \in 0 .. Len(asked) /\ i \in plain
    BY <1>2
  <2> HIDE DEF from
  <2>3. Max(from) \in from
    BY <1>2, <2>1, <2>2, MaxMember
  <2> QED
    BY <1>3, <2>1, <2>2, <2>3
<1> HIDE DEF plain
<1>5. vals \in Bindings
  <2>1. \A v \in Vars : Imported(v, FALSE) # None =>
            Top.save.out[Imported(v, FALSE)] \in Values \cup {None}
    BY <1>4 DEF Bindings
  <2> QED
    BY <2>1 DEF Bindings
<1>6. Cardinality(plain) \in Nat /\ (Cardinality(plain) = 0 => plain = {})
  <2>1. IsFiniteSet(plain)
    BY <1>2, <1>3, PositionsFinite
  <2> QED
    BY <2>1, FS_CardinalityType, FS_EmptySet
<1>7. Cardinality(plain) = 0 => \A v \in Vars : vals[v] = None
  BY <1>4, <1>6
<1>8. ImportValues(ctx) = SetVars(ctx, vals, Cardinality(plain))
  BY DEF ImportValues, plain, asked
<1> HIDE DEF vals
<1>9. /\ Advances(ctx, ImportValues(ctx))
      /\ Len(ImportValues(ctx).frames) = Len(ctx.frames)
  BY <1>5, <1>6, <1>7, <1>8, SetVarsType
<1> QED
  BY <1>1, <1>9

(* EndFrom keeps the invariant.                                            *)
LEMMA EndFromKeeps ==
    ASSUME RInv, EndFrom PROVE RInv'
<1> DEFINE found == \A x \in Range(Top.save.node.names) :
                        ExportsMacro(x.export) \/ ExportsValue(x.export)
<1>1. CASE ~found
  BY <1>1, Fails DEF EndFrom
<1>2. CASE found
  <2> DEFINE xs == Front(ctxs)
             x == ImportValues(Last(xs))
             scope == ImportedScope
  <2>1. /\ status = "running" /\ Leave /\ Top.role = "module" /\ Top.save.node.kind = "from"
        /\ names' = Front(names) /\ ctxs' = Append(Front(xs), x)
        /\ scopes' = Append(scopes, scope)
        /\ UNCHANGED <<lib, spaces, chains, super, callers, caches, serial>>
    BY <1>2 DEF EndFrom, Ending
  <2>2. /\ spaces' = spaces /\ super' = super /\ callers' = callers
        /\ chains' = chains /\ UNCHANGED <<lib, caches, serial>>
    BY <2>1
  <2>3. /\ \A stack2 : stack2 = scopes \/ (IsSeq(stack2) /\ Len(stack2) >= Len(scopes)) =>
              CallsInv(lib, ctl', Front(names), callers, stack2, super, chains)
        /\ DataInv(ctl', xs, extCache, serial) /\ IsSeq(ctl')
        /\ status' \in {"running", "done"} /\ (status' = "running" <=> ctl' # << >>)
        /\ SavesTyped(ctl', serial)
        /\ Top.body \in Bodies /\ Top.save.node \in Imports /\ Top.save.out \in Bindings
        /\ Front(names) \in Seq(Names)
    BY <2>1, ModuleNow
  <2>4. Last(xs) \in Context
    BY <2>3, DataParts
  <2>5. scope \in Scope /\ Advances(Last(xs), x) /\ Len(x.frames) = Len(Last(xs).frames)
    BY <1>2, <2>1, <2>3, <2>4, ImportedNow
  <2>6. /\ names \in Seq(Names) /\ scopes \in Seq(Scope) /\ SpacesTyped(spaces)
        /\ CallersTyped(callers)
    BY <2>1, TypesNow
  <2> HIDE DEF xs, x, scope, found
  <2>7. scopes' \in Seq(Scope) /\ IsSeq(scopes') /\ Len(scopes') >= Len(scopes)
    <3>1. scopes' \in Seq(Scope) /\ Len(scopes') >= Len(scopes)
      BY <2>1, <2>5, <2>6
    <3> QED
      BY <3>1, SeqAny
  <2>8. CallsInv(lib, ctl', names', callers', scopes', super', chains')
    BY <2>1, <2>2, <2>3, <2>7
  <2>9. DataInv(ctl', ctxs', extCache, serial)
    <3>1. Alike(ctl', ctl')
      BY SameFrame DEF Alike
    <3> QED
      BY <2>1, <2>3, <2>5, <3>1, DataTurn
  <2> QED
    BY <2>1, <2>2, <2>3, <2>6, <2>7, <2>8, <2>9, SharedKeeps
<1> QED
  BY <1>1, <1>2

-----------------------------------------------------------------------------
(* The beginning of a template.                                            *)

(* A child has a parent, and if it is rendered all its ancestors are there.*)
LEMMA ParentNow ==
    ASSUME lib \in Libraries, NEW open, NEW root \in Bodies, IsChild(root),
           ~LayoutBroken(open, root)
    PROVE  LET parent == ParentOf[root].name
           IN  /\ ParentOf[root] # None /\ parent \in Names /\ lib[parent] \in Bodies
               /\ ParentsOK(lib, parent)
               /\ ChainsOf(lib, parent, BlocksOf[root]) \in [BlockNames -> Seq(Bodies)]
<1> DEFINE parent == ParentOf[root].name
           found == Places(root, {"extends"})
<1>1. ParentOf[root] # None
  <2>1. found # {} /\ \A i \in found : i \in 1 .. Len(Code[root])
    BY CodeNodes DEF IsChild, Places
  <2>2. Len(Code[root]) \in Nat
    BY CodeNodes
  <2> HIDE DEF found
  <2>3. Min(found) \in 1 .. Len(Code[root])
    BY <2>1, <2>2, MinMember
  <2>4. Code[root][Min(found)] # None
    BY <2>3, CodeNodes, TemplateConstants
  <2>5. ParentOf[root] = IF found = {} THEN None ELSE Code[root][Min(found)]
    BY DEF ParentOf, found
  <2> QED
    BY <2>1, <2>4, <2>5
<1>2. parent \in Names
  BY <1>1, ParentType
<1>3. lib[parent] # None /\ ParentsOK(lib, parent)
  BY DEF LayoutBroken, MayOpen
<1>4. lib[parent] \in Bodies
  BY <1>2, <1>3 DEF Libraries
<1> HIDE DEF parent
<1>5. ChainsOf(lib, parent, BlocksOf[root]) \in [BlockNames -> Seq(Bodies)]
  <2> DEFINE line == Ancestry(lib, parent)
  <2>1. line \in Seq(Bodies) /\ Len(line) # 0
    BY <1>2, <1>3, AncestryType
  <2> HIDE DEF line
  <2>2. ASSUME NEW b \in BlockNames
        PROVE  LayersOf(line, BlocksOf[root][b], b)[1] \in Seq(Bodies)
    BY <2>1, ChainsListed DEF Lists
  <2> QED
    BY <2>2 DEF ChainsOf, line
<1> QED
  BY <1>1, <1>2, <1>3, <1>4, <1>5 DEF parent

(* The scopes of a template that has macros have its macros on top.        *)
LEMMA MacrosNow ==
    ASSUME scopes \in Seq(Scope), NEW root \in Bodies, PushMacros(root)
    PROVE  /\ scopes' \in Seq(Scope) /\ IsSeq(scopes') /\ Len(scopes) \in Nat
           /\ Len(scopes') >= Len(scopes)
<1>1. MacrosOf[root] \in Scope
  BY MacrosType DEF Scope
<1> HIDE DEF Scope
<1>2. scopes' = scopes \/ scopes' = Append(scopes, MacrosOf[root])
  BY DEF PushMacros
<1>3. /\ Append(scopes, MacrosOf[root]) \in Seq(Scope)
      /\ Len(Append(scopes, MacrosOf[root])) = Len(scopes) + 1
      /\ Len(scopes) \in Nat
  BY <1>1
<1>4. scopes' \in Seq(Scope) /\ Len(scopes') >= Len(scopes)
  BY <1>2, <1>3
<1> QED
  BY <1>3, <1>4, SeqAny

(* A call that shares nothing but the name that it opens, if it does.      *)
LEMMA OpenPush ==
    ASSUME NEW l, NEW c, NEW open, NEW given, NEW stack, NEW now, NEW lined,
           CallsInv(l, c, open, given, stack, now, lined),
           NEW f, IsFrame(f), f.role \in {"entry", "template", "module"},
           f.role = "module" => c # << >> /\ Last(c).role \notin {"entry", "template", "layout"}
    PROVE  /\ CallsInv(l, Append(c, f),
                       IF Opens(f) THEN Append(open, f.save.name) ELSE open,
                       given, stack, now, lined)
           /\ Above(c, Append(c, f)) /\ Last(Append(c, f)) = f /\ Append(c, f) # << >>
           /\ IsSeq(Append(c, f))
<1> DEFINE d == Append(c, f)
<1>1. /\ IsSeq(c) /\ StackOK(c) /\ NamesInv(c, open) /\ CallersInv(c, given)
      /\ ScopesInv(c, stack) /\ SupersInv(l, c, now, lined)
  BY DEF CallsInv, StackOK
<1>2. now \in Positions /\ lined \in Lineups
  BY <1>1, SupersNow
<1>3. /\ f.role \notin {"root", "call", "layout"} /\ ~Overrides(f)
      /\ f.role \in {"entry", "template", "layout", "root"}
           \/ (c # << >> /\ Last(c).role \notin {"entry", "template", "layout"})
  BY DEF Overrides
<1>4. FollowAt(l, f, now, now, lined, lined)
  BY <1>3 DEF FollowAt
<1>5. StackOK(d) /\ Above(c, d) /\ Last(d) = f /\ d # << >>
  BY <1>1, <1>3, StackPush
<1> HIDE DEF d
<1>6. NamesInv(d, IF Opens(f) THEN Append(open, f.save.name) ELSE open)
  BY <1>1, <1>5, NamesPush
<1>7. CallersInv(d, given)
  <2>1. IsSeq(given) /\ Len(given) = Len(given) + IF Last(d).role = "call" THEN 1 ELSE 0
    <3>1. IsSeq(given)
      BY <1>1 DEF CallersInv
    <3> QED
      BY <1>3, <1>5, <3>1, SeqLength
  <2> QED
    BY <1>1, <1>5, <2>1, CallersPush
<1>8. ScopesInv(d, stack)
  BY <1>1, <1>3, <1>5, ScopesPush
<1>9. SupersInv(l, d, now, lined)
  BY <1>1, <1>2, <1>4, <1>5, SupersPush
<1>10. IsSeq(d)
  BY <1>5 DEF StackOK
<1> QED
  BY <1>5, <1>6, <1>7, <1>8, <1>9, <1>10 DEF CallsInv, d

(* The layout of a child: the parent's name, and the child's chains.       *)
LEMMA LayoutPush ==
    ASSUME NEW l, NEW c, NEW open, NEW given, NEW stack, NEW now, NEW lined,
           CallsInv(l, c, open, given, stack, now, lined),
           NEW f, IsFrame(f), f.role = "layout", Opens(f), f.save.prev = lined,
           NEW lined2 \in Lineups, Lines(l, f, lined2)
    PROVE  /\ CallsInv(l, Append(c, f), Append(open, f.save.name), given, stack, now, lined2)
           /\ Above(c, Append(c, f)) /\ Last(Append(c, f)) = f /\ Append(c, f) # << >>
           /\ IsSeq(Append(c, f))
<1> DEFINE d == Append(c, f)
<1>1. /\ IsSeq(c) /\ StackOK(c) /\ NamesInv(c, open) /\ CallersInv(c, given)
      /\ ScopesInv(c, stack) /\ SupersInv(l, c, now, lined)
  BY DEF CallsInv, StackOK
<1>2. now \in Positions
  BY <1>1, SupersNow
<1>3. FollowAt(l, f, now, now, lined, lined2)
  BY DEF FollowAt, Overrides
<1>4. StackOK(d) /\ Above(c, d) /\ Last(d) = f /\ d # << >>
  BY <1>1, StackPush
<1> HIDE DEF d
<1>5. NamesInv(d, Append(open, f.save.name))
  BY <1>1, <1>4, NamesPush
<1>6. CallersInv(d, given)
  <2>1. IsSeq(given) /\ Len(given) = Len(given) + IF Last(d).role = "call" THEN 1 ELSE 0
    <3>1. IsSeq(given)
      BY <1>1 DEF CallersInv
    <3> QED
      BY <1>4, <3>1, SeqLength
  <2> QED
    BY <1>1, <1>4, <2>1, CallersPush
<1>7. ScopesInv(d, stack)
  BY <1>1, <1>4, ScopesPush
<1>8. SupersInv(l, d, now, lined2)
  BY <1>1, <1>2, <1>3, <1>4, SupersPush
<1>9. IsSeq(d)
  BY <1>4 DEF StackOK
<1> QED
  BY <1>4, <1>5, <1>6, <1>7, <1>8, <1>9 DEF CallsInv, d

(* A root, with the scopes that there are below it.                        *)
LEMMA RootPush ==
    ASSUME NEW l, NEW c, NEW open, NEW given, NEW stack, NEW now, NEW lined,
           CallsInv(l, c, open, given, stack, now, lined),
           NEW f, IsFrame(f), f.role = "root", f.save.base = Len(stack),
           NEW stack2, IsSeq(stack2), Len(stack2) >= Len(stack)
    PROVE  /\ CallsInv(l, Append(c, f), open, given, stack2, now, lined)
           /\ Above(c, Append(c, f)) /\ Last(Append(c, f)) = f /\ Append(c, f) # << >>
<1> DEFINE d == Append(c, f)
<1>1. /\ IsSeq(c) /\ StackOK(c) /\ NamesInv(c, open) /\ CallersInv(c, given)
      /\ ScopesInv(c, stack) /\ SupersInv(l, c, now, lined)
  BY DEF CallsInv, StackOK
<1>2. now \in Positions /\ lined \in Lineups
  BY <1>1, SupersNow
<1>3. FollowAt(l, f, now, now, lined, lined) /\ ~Opens(f)
  BY DEF FollowAt, Overrides, Opens
<1>4. StackOK(d) /\ Above(c, d) /\ Last(d) = f /\ d # << >>
  BY <1>1, StackPush
<1> HIDE DEF d
<1>5. NamesInv(d, open)
  <2>1. NamesInv(d, IF Opens(Last(d)) THEN Append(open, Last(d).save.name) ELSE open)
    BY <1>1, <1>4, NamesPush
  <2> QED
    BY <1>3, <1>4, <2>1
<1>6. CallersInv(d, given)
  <2>1. IsSeq(given) /\ Len(given) = Len(given) + IF Last(d).role = "call" THEN 1 ELSE 0
    <3>1. IsSeq(given)
      BY <1>1 DEF CallersInv
    <3> QED
      BY <1>4, <3>1, SeqLength
  <2> QED
    BY <1>1, <1>4, <2>1, CallersPush
<1>7. ScopesInv(d, stack2)
  BY <1>1, <1>4, ScopesPushRoot
<1>8. SupersInv(l, d, now, lined)
  BY <1>1, <1>2, <1>3, <1>4, SupersPush
<1> QED
  BY <1>4, <1>5, <1>6, <1>7, <1>8 DEF CallsInv, d

(* The root of a template on top of the frames below it.                   *)
LEMMA RootNow ==
    ASSUME RInv, scopes \in Seq(Scope), NEW c, NEW open, NEW lined, NEW xs, NEW s,
           CallsInv(lib, c, open, callers, scopes, super, lined),
           DataInv(c, xs, extCache, s), SavesTyped(c, s),
           NEW root \in Bodies, PushMacros(root)
    PROVE  /\ CallsInv(lib, Append(c, RootFrame(root)), open, callers, scopes', super, lined)
           /\ DataInv(Append(c, RootFrame(root)), xs, extCache, s)
           /\ SavesTyped(Append(c, RootFrame(root)), s)
           /\ Append(c, RootFrame(root)) # << >> /\ scopes' \in Seq(Scope)
<1> DEFINE f == RootFrame(root)
           d == Append(c, f)
<1>1. IsSeq(c) /\ IdsInv(xs, s) /\ s \in Nat /\ EntryOK(extCache, xs, s)
  BY DEF CallsInv, StackOK, DataInv, IdsInv
<1>2. scopes' \in Seq(Scope) /\ IsSeq(scopes') /\ Len(scopes') >= Len(scopes)
  BY MacrosNow
<1>3. IsFrame(f) /\ f.role = "root" /\ f.save.base = Len(scopes) /\ f.copy = 0
  BY DEF RootFrame, Frame, IsFrame, Roles
<1> HIDE DEF f
<1>4. CallsInv(lib, d, open, callers, scopes', super, lined) /\ Above(c, d) /\ Last(d) = f
      /\ d # << >>
  <2> DEFINE stack2 == scopes'
  <2>1. IsSeq(stack2) /\ Len(stack2) >= Len(scopes)
    BY <1>2
  <2> HIDE DEF stack2
  <2>2. /\ CallsInv(lib, Append(c, f), open, callers, stack2, super, lined)
        /\ Above(c, Append(c, f)) /\ Last(Append(c, f)) = f /\ Append(c, f) # << >>
    BY <1>3, <2>1, RootPush
  <2> QED
    BY <2>2 DEF stack2
<1>5. SaveTyped(f, s) /\ f.role \notin Holders /\ ~Deepens(f) /\ f.role # "ext"
  BY <1>1, <1>3 DEF SaveTyped, Holders, Deepens
<1>6. SavesTyped(d, s)
  BY <1>1, <1>5, TypedPush
<1> HIDE DEF d
<1>7. DataInv(d, xs, extCache, s)
  BY <1>1, <1>4, <1>5, DataStay
<1> QED
  BY <1>2, <1>4, <1>6, <1>7 DEF f, d

(* render_entry: the root of the template, or its layout and the root of   *)
(* its parent.                                                             *)
LEMMA EntryRendered ==
    ASSUME RInv, scopes \in Seq(Scope), NEW below, NEW open \in Seq(Names),
           NEW root \in Bodies, NEW xs, NEW s,
           CallsInv(lib, below, open, callers, scopes, super, chains),
           DataInv(below, xs, extCache, s), SavesTyped(below, s),
           RenderEntry(below, open, root)
    PROVE  /\ CallsInv(lib, ctl', names', callers, scopes', super, chains')
           /\ DataInv(ctl', xs, extCache, s) /\ SavesTyped(ctl', s)
           /\ ctl' # << >> /\ status' = "running"
           /\ names' \in Seq(Names) /\ scopes' \in Seq(Scope)
<1>1. CASE /\ ~IsChild(root) /\ ctl' = Append(below, RootFrame(root)) /\ names' = open
           /\ PushMacros(root) /\ status' = "running" /\ chains' = chains
  <2>1. /\ CallsInv(lib, Append(below, RootFrame(root)), open, callers, scopes', super, chains)
        /\ DataInv(Append(below, RootFrame(root)), xs, extCache, s)
        /\ SavesTyped(Append(below, RootFrame(root)), s)
        /\ Append(below, RootFrame(root)) # << >> /\ scopes' \in Seq(Scope)
    BY <1>1, RootNow
  <2> QED
    BY <1>1, <2>1
<1>2. CASE LET parent == ParentOf[root].name
           IN  /\ IsChild(root) /\ ~LayoutBroken(open, root)
               /\ ctl' = below \o <<Frame("layout", None, 0,
                                          [name |-> parent, child |-> root, prev |-> chains]),
                                    RootFrame(lib[parent])>>
               /\ names' = Append(open, parent)
               /\ chains' = ChainsOf(lib, parent, BlocksOf[root])
               /\ PushMacros(lib[parent])
               /\ status' = "running"
  <2> DEFINE parent == ParentOf[root].name
             f == Frame("layout", None, 0, [name |-> parent, child |-> root, prev |-> chains])
             base == lib[parent]
             lined2 == ChainsOf(lib, parent, BlocksOf[root])
             c == Append(below, f)
  <2>1. IsSeq(below) /\ s \in Nat /\ EntryOK(extCache, xs, s) /\ lib \in Libraries
    BY DEF CallsInv, StackOK, DataInv, IdsInv, RInv
  <2>2. /\ ParentOf[root] # None /\ parent \in Names /\ base \in Bodies
        /\ ParentsOK(lib, parent) /\ lined2 \in [BlockNames -> Seq(Bodies)]
    BY <1>2, <2>1, ParentNow
  <2>3. ctl' = Append(c, RootFrame(base))
    <3> DEFINE g == RootFrame(base)
    <3>1. ctl' = below \o <<f, g>>
      BY <1>2
    <3> HIDE DEF f, g
    <3>2. below \o <<f, g>> = Append(Append(below, f), g)
      BY <2>1 DEF IsSeq
    <3> QED
      BY <3>1, <3>2 DEF g
  <2>4. /\ f.role = "layout" /\ f.copy = 0 /\ f.save.name = parent /\ f.save.child = root
        /\ f.save.prev = chains /\ IsFrame(f)
    BY DEF Frame, IsFrame, Roles
  <2>5. lined2 \in Lineups /\ Lines(lib, f, lined2)
    BY <2>2, <2>4 DEF Lineups, Lines
  <2>6. names' = Append(open, parent) /\ chains' = lined2 /\ PushMacros(base)
        /\ status' = "running"
    BY <1>2
  <2>7. Opens(f)
    BY <2>2, <2>4, TemplateConstants DEF Opens
  <2>8. SaveTyped(f, s) /\ f.role \notin Holders /\ ~Deepens(f) /\ f.role # "ext"
    BY <2>1, <2>2, <2>4 DEF SaveTyped, Holders, Deepens
  <2> HIDE DEF f, base, lined2, parent
  <2>9. SavesTyped(c, s)
    BY <2>1, <2>8, TypedPush
  <2>10. /\ CallsInv(lib, c, Append(open, parent), callers, scopes, super, lined2)
         /\ Above(below, c) /\ Last(c) = f
    <3>1. /\ CallsInv(lib, Append(below, f), Append(open, f.save.name), callers, scopes, super,
                      lined2)
          /\ Above(below, Append(below, f)) /\ Last(Append(below, f)) = f
      BY <2>4, <2>5, <2>7, LayoutPush
    <3> QED
      BY <2>4, <3>1
  <2> HIDE DEF c
  <2>11. DataInv(c, xs, extCache, s)
    BY <2>1, <2>8, <2>10, DataStay
  <2>12. /\ CallsInv(lib, Append(c, RootFrame(base)), Append(open, parent), callers, scopes',
                     super, lined2)
         /\ DataInv(Append(c, RootFrame(base)), xs, extCache, s)
         /\ SavesTyped(Append(c, RootFrame(base)), s)
         /\ Append(c, RootFrame(base)) # << >> /\ scopes' \in Seq(Scope)
    BY <2>2, <2>6, <2>9, <2>10, <2>11, RootNow
  <2>13. Append(open, parent) \in Seq(Names)
    BY <2>2
  <2> QED
    BY <2>3, <2>6, <2>12, <2>13
<1> QED
  BY <1>1, <1>2 DEF RenderEntry

(* render_template or render_string.                                       *)
LEMMA BeginKeeps ==
    ASSUME RInv, Begin PROVE RInv'
<1>1. PICK named \in BOOLEAN :
         LET open == IF named THEN <<Main>> ELSE << >>
             name == IF named THEN Main ELSE None
         IN  \/ /\ RenderEntry(<<Frame("entry", None, 0, [name |-> name])>>, open, lib[Main])
                /\ UNCHANGED <<lib, spaces, super, callers, ctxs, caches, serial>>
             \/ Fail
  BY DEF Begin
<1> DEFINE open == IF named THEN <<Main>> ELSE << >>
           name == IF named THEN Main ELSE None
           f == Frame("entry", None, 0, [name |-> name])
<1>2. CASE Fail
  BY <1>2, Fails
<1>3. CASE /\ RenderEntry(<<f>>, open, lib[Main])
           /\ UNCHANGED <<lib, spaces, super, callers, ctxs, caches, serial>>
  <2>1. status = "start" /\ ctl = << >>
    BY DEF Begin, RInv
  <2>2. /\ names \in Seq(Names) /\ scopes \in Seq(Scope) /\ SpacesTyped(spaces)
        /\ CallersTyped(callers) /\ LoopsTyped(loopUse, serial) /\ serial \in Nat
        /\ CallsInv(lib, ctl, names, callers, scopes, super, chains)
        /\ DataInv(ctl, ctxs, extCache, serial) /\ SavesTyped(ctl, serial) /\ IsSeq(ctl)
        /\ EntryOK(extCache, ctxs, serial)
    BY <2>1, TypesNow, CtxNow
  <2>3. names = << >>
    <3>1. NamesInv(<< >>, names)
      BY <2>1, <2>2 DEF CallsInv
    <3>2. OpenIn(<< >>) = {} /\ Len(<< >>) = 0
      BY DEF OpenIn
    <3>3. Count({}, 0) = 0
      BY FS_EmptySet DEF Count
    <3> QED
      BY <3>1, <3>2, <3>3, SeqLength DEF NamesInv
  <2>4. Main \in Names /\ lib[Main] \in Bodies
    BY RendererConstants DEF RInv, Libraries
  <2>5. open \in Seq(Names)
    BY <2>4
  <2>6. IsFrame(f) /\ f.role = "entry" /\ f.save.name = name /\ f.copy = 0
    BY DEF Frame, IsFrame, Roles
  <2>7. (Opens(f) <=> named) /\ (named => f.save.name = Main)
    BY <2>4, <2>6, TemplateConstants DEF Opens
  <2>8. SaveTyped(f, serial) /\ f.role \notin Holders /\ ~Deepens(f) /\ f.role # "ext"
    BY <2>2, <2>6 DEF SaveTyped, Holders, Deepens
  <2> HIDE DEF f
  <2>9. <<f>> = Append(ctl, f)
    BY <2>1
  <2>10. open = IF Opens(f) THEN Append(names, f.save.name) ELSE names
    BY <2>3, <2>7
  <2> HIDE DEF open
  <2>11. /\ CallsInv(lib, <<f>>, open, callers, scopes, super, chains)
         /\ Above(ctl, <<f>>) /\ Last(<<f>>) = f /\ IsSeq(<<f>>)
    <3>1. f.role \in {"entry", "template", "module"} /\ f.role # "module"
      BY <2>6
    <3>2. /\ CallsInv(lib, Append(ctl, f),
                       IF Opens(f) THEN Append(names, f.save.name) ELSE names,
                       callers, scopes, super, chains)
          /\ Above(ctl, Append(ctl, f)) /\ Last(Append(ctl, f)) = f /\ IsSeq(Append(ctl, f))
      BY <2>2, <2>6, <3>1, OpenPush
    <3> QED
      BY <2>9, <2>10, <3>2
  <2>12. DataInv(<<f>>, ctxs, extCache, serial)
    BY <2>2, <2>8, <2>11, DataStay
  <2>13. SavesTyped(<<f>>, serial)
    <3>1. SavesTyped(Append(ctl, f), serial)
      <4>1. serial <= serial
        BY <2>2
      <4> QED
        BY <2>2, <2>8, <4>1, TypedPush
    <3> QED
      BY <2>9, <3>1
  <2>14. /\ CallsInv(lib, ctl', names', callers, scopes', super, chains')
         /\ DataInv(ctl', ctxs, extCache, serial) /\ SavesTyped(ctl', serial)
         /\ ctl' # << >> /\ status' = "running"
         /\ names' \in Seq(Names) /\ scopes' \in Seq(Scope)
    <3>1. RenderEntry(<<f>>, open, lib[Main])
      BY <1>3
    <3> QED
      BY <2>2, <2>4, <2>5, <2>11, <2>12, <2>13, <3>1, EntryRendered
  <2>15. /\ lib' = lib /\ spaces' = spaces /\ super' = super /\ callers' = callers
         /\ ctxs' = ctxs /\ loopUse' = loopUse /\ extCache' = extCache /\ serial' = serial
    BY <1>3 DEF caches
  <2> QED
    BY <2>2, <2>14, <2>15, Keeps
<1> QED
  BY <1>1, <1>2, <1>3

(* Another template, on variables of its own.                              *)
LEMMA OwnCtx ==
    ASSUME RInv, Starting, NEW shared
    PROVE  LET x == FromRoot(serial + 1, IF shared THEN Flattened(Ctx) ELSE EmptyFrame)
           IN  x \in Context /\ x.id = serial + 1 /\ Len(x.frames) = 1
<1>1. Ctx \in Context /\ serial \in Nat
  BY TypesNow, CtxNow DEF Starting
<1>2. Flattened(Ctx) \in Frames /\ EmptyFrame \in Frames /\ serial + 1 \in Nat
  BY <1>1, LookupType, NoBindingsType
<1> QED
  BY <1>2, FromRootType

(* Include keeps the invariant.                                            *)
LEMMA IncludeKeeps ==
    ASSUME RInv, Include PROVE RInv'
<1> DEFINE name == Current.name
           open == Append(names, name)
           f == Frame("template", None, 0, [name |-> name])
           x == FromRoot(serial + 1, IF Current.context THEN Flattened(Ctx) ELSE EmptyFrame)
           c == Append(Past, f)
<1>1. /\ Starting /\ Current.kind = "include"
      /\ \/ /\ Continue
            /\ UNCHANGED <<lib, names, modules, chains, super, callers, ctxs, caches, serial>>
         \/ /\ MayOpen(names, name)
            /\ RenderEntry(c, open, lib[name])
            /\ ctxs' = Append(ctxs, x)
            /\ serial' = serial + 1
            /\ UNCHANGED <<lib, spaces, super, callers, caches>>
         \/ Fail
  BY DEF Include, At
<1>2. CASE Fail
  BY <1>2, Fails
<1>3. CASE /\ Continue
           /\ UNCHANGED <<lib, names, modules, chains, super, callers, ctxs, caches, serial>>
  BY <1>1, <1>3, StaysKeeps
<1>4. CASE /\ MayOpen(names, name)
           /\ RenderEntry(c, open, lib[name])
           /\ ctxs' = Append(ctxs, x)
           /\ serial' = serial + 1
           /\ UNCHANGED <<lib, spaces, super, callers, caches>>
  <2>1. /\ CallsInv(lib, Past, names, callers, scopes, super, chains)
        /\ DataInv(Past, ctxs, extCache, serial) /\ SavesTyped(Past, serial) /\ IsSeq(Past)
    BY <1>1, PastNow
  <2>2. /\ names \in Seq(Names) /\ scopes \in Seq(Scope) /\ SpacesTyped(spaces)
        /\ CallersTyped(callers) /\ LoopsTyped(loopUse, serial) /\ serial \in Nat
        /\ lib \in Libraries
    BY <1>1, TypesNow DEF Starting
  <2>3. name \in Names
    BY <1>1, NodeNow, NameFields
  <2>4. lib[name] \in Bodies
    BY <1>4, <2>2, <2>3 DEF MayOpen, Libraries
  <2>5. IsFrame(f) /\ f.role = "template" /\ f.save.name = name /\ f.copy = 0
    BY DEF Frame, IsFrame, Roles
  <2>6. x \in Context /\ x.id = serial + 1 /\ Len(x.frames) = 1
    BY <1>1, OwnCtx
  <2>7. /\ lib' = lib /\ spaces' = spaces /\ super' = super /\ callers' = callers
        /\ ctxs' = Append(ctxs, x) /\ loopUse' = loopUse /\ extCache' = extCache
        /\ serial' = serial + 1
    BY <1>4 DEF caches
  <2>8. RenderEntry(c, open, lib[name])
    BY <1>4
  <2>9. open \in Seq(Names)
    BY <2>2, <2>3
  <2> HIDE DEF f, x, name
  <2>10. f.role \in Holders /\ f.role \in Bases /\ Opens(f) /\ SaveTyped(f, serial + 1)
    BY <2>2, <2>3, <2>5, TemplateConstants DEF Holders, Bases, Opens, SaveTyped
  <2>11. /\ CallsInv(lib, c, open, callers, scopes, super, chains)
         /\ Above(Past, c) /\ Last(c) = f
    <3>1. f.role \in {"entry", "template", "module"} /\ f.role # "module"
      BY <2>5
    <3>2. /\ CallsInv(lib, Append(Past, f),
                      IF Opens(f) THEN Append(names, f.save.name) ELSE names,
                      callers, scopes, super, chains)
          /\ Above(Past, Append(Past, f)) /\ Last(Append(Past, f)) = f
      BY <2>1, <2>5, <3>1, OpenPush
    <3> QED
      BY <2>5, <2>10, <3>2
  <2>12. SavesTyped(c, serial + 1)
    <3>1. serial + 1 \in Nat /\ serial <= serial + 1
      BY <2>2
    <3> QED
      BY <2>1, <2>2, <2>10, <3>1, TypedPush
  <2> HIDE DEF c, open
  <2>13. DataInv(c, ctxs', extCache, serial')
    BY <2>1, <2>6, <2>7, <2>10, <2>11, DataHold
  <2>14. /\ CallsInv(lib, ctl', names', callers, scopes', super, chains')
         /\ DataInv(ctl', ctxs', extCache, serial') /\ SavesTyped(ctl', serial')
         /\ ctl' # << >> /\ status' = "running"
         /\ names' \in Seq(Names) /\ scopes' \in Seq(Scope)
    <3> DEFINE xs == ctxs'
               s == serial'
    <3>1. DataInv(c, xs, extCache, s) /\ SavesTyped(c, s)
      BY <2>7, <2>12, <2>13
    <3> HIDE DEF xs, s
    <3>2. /\ CallsInv(lib, ctl', names', callers, scopes', super, chains')
          /\ DataInv(ctl', xs, extCache, s) /\ SavesTyped(ctl', s)
          /\ ctl' # << >> /\ status' = "running"
          /\ names' \in Seq(Names) /\ scopes' \in Seq(Scope)
      BY <2>2, <2>4, <2>8, <2>9, <2>11, <3>1, EntryRendered
    <3> QED
      BY <3>2 DEF xs, s
  <2>15. LoopsTyped(loopUse, serial')
    <3>1. serial + 1 \in Nat /\ serial <= serial + 1
      BY <2>2
    <3> QED
      BY <2>2, <2>7, <3>1, LoopsLater
  <2> QED
    BY <2>2, <2>7, <2>14, <2>15, Keeps
<1> QED
  BY <1>1, <1>2, <1>3, <1>4

(* Import keeps the invariant.                                             *)
LEMMA ImportKeeps ==
    ASSUME RInv, Import PROVE RInv'
<1> DEFINE name == Current.name
           open == Append(names, name)
           save == [name |-> name, node |-> Current, out |-> NoBindings]
           f == Frame("module", lib[name], serial + 1, save)
           x == FromRoot(serial + 1, IF Current.context THEN Flattened(Ctx) ELSE EmptyFrame)
<1>1. /\ Starting /\ Current.kind \in {"import", "from"}
      /\ \/ /\ MayOpen(names, name) /\ Push(f) /\ names' = open
            /\ ctxs' = Append(ctxs, x)
            /\ serial' = serial + 1
            /\ UNCHANGED <<lib, modules, chains, super, callers, caches>>
         \/ Fail
  BY DEF Import, At
<1>2. CASE Fail
  BY <1>2, Fails
<1>3. CASE /\ MayOpen(names, name) /\ Push(f) /\ names' = open
           /\ ctxs' = Append(ctxs, x)
           /\ serial' = serial + 1
           /\ UNCHANGED <<lib, modules, chains, super, callers, caches>>
  <2>1. /\ CallsInv(lib, Past, names, callers, scopes, super, chains)
        /\ DataInv(Past, ctxs, extCache, serial) /\ SavesTyped(Past, serial) /\ IsSeq(Past)
        /\ Past # << >> /\ Last(Past).role \notin {"entry", "template", "layout"}
    BY <1>1, PastNow
  <2>2. /\ names \in Seq(Names) /\ scopes \in Seq(Scope) /\ SpacesTyped(spaces)
        /\ CallersTyped(callers) /\ LoopsTyped(loopUse, serial) /\ serial \in Nat
        /\ lib \in Libraries
    BY <1>1, TypesNow DEF Starting
  <2>3. name \in Names /\ Current \in Imports
    BY <1>1, NodeNow, NameFields DEF Imports
  <2>4. lib[name] \in Bodies
    BY <1>3, <2>2, <2>3 DEF MayOpen, Libraries
  <2>5. save \in [name : Names, node : Imports, out : Bindings]
    BY <2>3, NoBindingsType
  <2>6. /\ IsFrame(f) /\ f.role = "module" /\ f.save.name = name /\ f.copy = serial + 1
    <3> HIDE DEF name
    <3>1. save.name = name
      OBVIOUS
    <3> HIDE DEF save
    <3> QED
      BY <2>4, <2>5, <3>1 DEF Frame, IsFrame, Roles
  <2>7. x \in Context /\ x.id = serial + 1 /\ Len(x.frames) = 1
    BY <1>1, OwnCtx
  <2>8. /\ lib' = lib /\ scopes' = scopes /\ spaces' = spaces /\ super' = super
        /\ callers' = callers /\ chains' = chains /\ names' = open
        /\ ctxs' = Append(ctxs, x) /\ loopUse' = loopUse /\ extCache' = extCache
        /\ serial' = serial + 1
    BY <1>3 DEF caches, modules
  <2>9. ctl' = Append(Past, f) /\ status' = "running"
    BY <1>1, <1>3 DEF Push, Starting
  <2>10. open \in Seq(Names)
    BY <2>2, <2>3
  <2> HIDE DEF f, x, name, save
  <2>11. f.role \in Holders /\ f.role \in Bases /\ Opens(f) /\ SaveTyped(f, serial + 1)
    BY <2>2, <2>3, <2>6, TemplateConstants DEF Holders, Bases, Opens, SaveTyped
  <2>12. /\ CallsInv(lib, ctl', open, callers, scopes, super, chains)
         /\ Above(Past, ctl') /\ Last(ctl') = f /\ ctl' # << >>
    <3>1. /\ f.role \in {"entry", "template", "module"}
          /\ f.role = "module" =>
                Past # << >> /\ Last(Past).role \notin {"entry", "template", "layout"}
      BY <2>1, <2>6
    <3>2. /\ CallsInv(lib, Append(Past, f),
                      IF Opens(f) THEN Append(names, f.save.name) ELSE names,
                      callers, scopes, super, chains)
          /\ Above(Past, Append(Past, f)) /\ Last(Append(Past, f)) = f
          /\ Append(Past, f) # << >>
      BY <2>1, <2>6, <3>1, OpenPush
    <3> QED
      BY <2>6, <2>9, <2>11, <3>2
  <2>13. serial + 1 \in Nat /\ serial <= serial + 1
    BY <2>2
  <2>14. SavesTyped(ctl', serial') /\ LoopsTyped(loopUse, serial')
    BY <2>1, <2>2, <2>8, <2>9, <2>11, <2>13, TypedPush, LoopsLater
  <2>15. DataInv(ctl', ctxs', extCache, serial')
    BY <2>1, <2>7, <2>8, <2>11, <2>12, DataHold
  <2> QED
    BY <2>2, <2>8, <2>9, <2>10, <2>12, <2>14, <2>15, Keeps
<1> QED
  BY <1>1, <1>2, <1>3

-----------------------------------------------------------------------------
(* The invariant.                                                          *)

(* The invariant holds of the beginning of a render.                       *)
LEMMA InitSound ==
    ASSUME AnyInit PROVE RInv
<1> DEFINE libs == IF async THEN AsyncLib ELSE Lib
           x == FromRoot(1, EmptyFrame)
<1>1. /\ lib \in libs /\ status = "start" /\ ctl = << >> /\ names = << >> /\ scopes = << >>
      /\ spaces = << >> /\ chains = None /\ super = None /\ callers = << >> /\ ctxs = <<x>>
      /\ loopUse = << >> /\ extCache = None /\ serial = 1
  BY DEF AnyInit, StartIn
<1>2. lib \in Libraries /\ lib[Main] # None
  BY <1>1, RendererConstants, AsyncConstants
<1>3. IsSeq(<< >>) /\ Len(<< >>) = 0 /\ 1 .. 0 = {} /\ DOMAIN << >> = {}
  BY DEF IsSeq
<1>4. x \in Context /\ x.id = 1 /\ Len(x.frames) = 1
  BY NoBindingsType, FromRootType
<1> HIDE DEF x, libs
<1>5. StateTyped
  BY <1>1, <1>3 DEF StateTyped, SavesTyped, SpacesTyped, CallersTyped, LoopsTyped
<1>6. CallsInv(lib, ctl, names, callers, scopes, super, chains)
  <2>1. \A roles : RoleIn(<< >>, roles) = {}
    BY <1>3 DEF RoleIn
  <2>2. OpenIn(<< >>) = {} /\ Count({}, 0) = 0
    BY <1>3, FS_EmptySet DEF OpenIn, Count
  <2>3. StackOK(<< >>)
    BY <1>3 DEF StackOK
  <2>4. NamesInv(<< >>, << >>) /\ CallersInv(<< >>, << >>)
    BY <1>3, <2>1, <2>2 DEF NamesInv, CallersInv
  <2>5. ScopesInv(<< >>, << >>)
    BY <1>3, <2>1 DEF ScopesInv, Roots
  <2> QED
    BY <1>1, <2>3, <2>4, <2>5, SupersNone DEF CallsInv
<1>7. DataInv(ctl, ctxs, extCache, serial)
  <2>1. ctxs \in Seq(Context) /\ Len(ctxs) = 1 /\ ctxs[1] = x
    BY <1>1, <1>4
  <2>2. ContextsInv(<< >>, ctxs)
    <3>1. RoleIn(<< >>, Holders) = {} /\ Deeper(<< >>, 0) = {}
      BY <1>3 DEF RoleIn, Deeper
    <3>2. Held(<< >>, 0) = 1 /\ DepthAt(<< >>, 0) = 1
      <4>1. Count({}, 0) = 0 /\ Cardinality({}) = 0
        BY FS_EmptySet DEF Count
      <4> QED
        BY <3>1, <4>1 DEF Held, DepthAt
    <3>3. 0 .. Len(<< >>) = {0}
      BY <1>3
    <3> QED
      BY <1>3, <1>4, <2>1, <3>2, <3>3 DEF ContextsInv
  <2>3. IdsInv(ctxs, 1) /\ EntryOK(None, ctxs, 1) /\ SavesInv(<< >>, ctxs, 1)
    BY <1>3, <1>4, <2>1 DEF IdsInv, EntryOK, SavesInv
  <2> QED
    BY <1>1, <2>2, <2>3 DEF DataInv
<1> QED
  BY <1>1, <1>2, <1>5, <1>6, <1>7 DEF RInv, Sound

(* What either renderer does leaves it true, action by action.             *)
LEMMA StepSound ==
    ASSUME RInv, AnyNext PROVE RInv'
<1>1. CASE Begin
  BY <1>1, BeginKeeps
<1>2. CASE Skip
  BY <1>2, SkipKeeps
<1>3. CASE If
  BY <1>3, IfKeeps DEF If, At
<1>4. CASE IfAsync
  BY <1>4, IfKeeps DEF IfAsync, At
<1>5. CASE Switch
  BY <1>5, SwitchKeeps
<1>6. CASE FilterBlock
  BY <1>6, FilterKeeps
<1>7. CASE Misplaced \/ AsyncOnly \/ Throw
  BY <1>7, Fails DEF Misplaced, AsyncOnly, Throw
<1>8. CASE Set
  BY <1>8, SetKeeps
<1>9. CASE SetBlock
  BY <1>9, SetBlockKeeps
<1>10. CASE ExtensionTag
  BY <1>10, TagKeeps
<1>11. CASE AsyncTag
  BY <1>11, AsyncTagKeeps
<1>12. CASE ForEmpty \/ AsyncForEmpty
  BY <1>12, ForEmptyKeeps DEF ForEmpty, AsyncForEmpty, AtLoop, At
<1>13. CASE For
  BY <1>13, ForKeeps
<1>14. CASE AsyncFor
  BY <1>14, AsyncForKeeps
<1>15. CASE ForMisfit
  BY <1>15, ForMisfitKeeps
<1>16. CASE AsyncForMisfit
  BY <1>16, AsyncMisfitKeeps
<1>17. CASE Include
  BY <1>17, IncludeKeeps
<1>18. CASE Import
  BY <1>18, ImportKeeps
<1>19. CASE Block
  BY <1>19, BlockKeeps
<1>20. CASE Super
  BY <1>20, SuperKeeps
<1>21. CASE Invoke
  BY <1>21, InvokeKeeps
<1>22. CASE CallBlock
  BY <1>22, CallBlockKeeps
<1>23. CASE Caller
  BY <1>23, CallerKeeps
<1>24. CASE EndRoot
  BY <1>24, EndRootKeeps
<1>25. CASE EndLayout
  BY <1>25, EndLayoutKeeps
<1>26. CASE EndEntry
  BY <1>26, EndEntryKeeps
<1>27. CASE EndNodes
  <2>1. /\ status = "running" /\ Leave /\ Top.role \in {"nodes", "filter", "ext"}
        /\ extCache' = extCache
        /\ UNCHANGED <<lib, names, modules, chains, super, callers, ctxs, loopUse, serial>>
    BY <1>27 DEF EndNodes, Ending, caches
  <2> QED
    BY <2>1, EndNodesKeeps
<1>28. CASE EndAsyncTag
  <2>1. /\ status = "running" /\ Leave /\ Top.role \in {"nodes", "filter", "ext"}
        /\ extCache' = extCache
        /\ UNCHANGED <<lib, names, modules, chains, super, callers, ctxs, loopUse, serial>>
    BY <1>28 DEF EndAsyncTag, Ending, caches
  <2> QED
    BY <2>1, EndNodesKeeps
<1>29. CASE EndExtensionTag
  <2>1. /\ status = "running" /\ Leave /\ Top.role = "ext" /\ extCache' = Top.save
        /\ UNCHANGED <<lib, names, modules, chains, super, callers, ctxs, loopUse, serial>>
    BY <1>29 DEF EndExtensionTag, Ending
  <2> QED
    BY <2>1, EndNodesKeeps
<1>30. CASE EndCapture
  BY <1>30, EndCaptureKeeps
<1>31. CASE NextItem
  BY <1>31, NextItemKeeps
<1>32. CASE EndFor
  BY <1>32, EndForKeeps
<1>33. CASE EndInclude
  BY <1>33, EndIncludeKeeps
<1>34. CASE EndImport
  BY <1>34, EndImportKeeps
<1>35. CASE EndFrom
  BY <1>35, EndFromKeeps
<1>36. CASE EndBlock
  BY <1>36, EndBlockKeeps
<1>37. CASE EndMacro
  BY <1>37, EndMacroKeeps
<1>38. CASE EndCall
  BY <1>38, EndCallKeeps
<1>39. CASE EndCaller
  BY <1>39, EndCallerKeeps
<1>40. Render =>
          \/ Begin \/ Skip \/ If \/ Switch \/ FilterBlock \/ Misplaced \/ AsyncOnly
          \/ Set \/ SetBlock \/ ExtensionTag \/ ForEmpty \/ For \/ ForMisfit
          \/ Include \/ Import \/ Block \/ Super \/ Invoke \/ CallBlock \/ Caller
          \/ EndRoot \/ EndLayout \/ EndEntry \/ EndNodes \/ EndCapture \/ EndExtensionTag
          \/ NextItem \/ EndFor \/ EndInclude \/ EndImport \/ EndFrom \/ EndBlock
          \/ EndMacro \/ EndCall \/ EndCaller
  BY DEF Render, StartNode, EndFrame
<1>41. AsyncRender =>
          \/ Begin \/ EndEntry \/ EndRoot \/ EndLayout
          \/ If \/ IfAsync \/ Misplaced \/ EndNodes \/ Switch
          \/ AsyncForEmpty \/ AsyncFor \/ AsyncForMisfit \/ NextItem \/ EndFor
          \/ Set \/ SetBlock \/ EndCapture \/ AsyncTag \/ EndAsyncTag
          \/ Include \/ EndInclude \/ Import \/ EndImport \/ EndFrom
          \/ Block \/ EndBlock \/ FilterBlock \/ CallBlock \/ EndCall
          \/ Skip \/ Invoke \/ Super \/ Caller \/ EndMacro \/ EndCaller
  BY DEF AsyncRender, AsyncEntries, AsyncLayouts, AsyncBranches, AsyncSwitches, AsyncLoops,
         AsyncSets, AsyncTags, AsyncModules, AsyncBlocks, AsyncCallBlocks, AsyncCalls,
         AsyncMacros
<1> QED
  BY <1>1, <1>2, <1>3, <1>4, <1>5, <1>6, <1>7, <1>8, <1>9, <1>10, <1>11, <1>12, <1>13, <1>14,
     <1>15, <1>16, <1>17, <1>18, <1>19, <1>20, <1>21, <1>22, <1>23, <1>24, <1>25, <1>26, <1>27,
     <1>28, <1>29, <1>30, <1>31, <1>32, <1>33, <1>34, <1>35, <1>36, <1>37, <1>38, <1>39, <1>40,
     <1>41 DEF AnyNext, AnyRender, AnyThrow

(* RInv is an invariant of both renderers: what the code keeps in its      *)
(* stacks follows from the calls that are active (renderer.rs,             *)
(* async_renderer/).                                                       *)
THEOREM RendersSound == AnySpec => []RInv
<1>1. AnyInit => RInv
  BY InitSound
<1>2. RInv /\ [AnyNext]_anyVars => RInv'
  <2>1. RInv /\ AnyNext => RInv'
    BY StepSound
  <2>2. RInv /\ UNCHANGED anyVars => RInv'
    BY DEF anyVars, vars, modules, caches, RInv, Sound, StateTyped, Dropped
  <2> QED
    BY <2>1, <2>2
<1> QED
  BY <1>1, <1>2, PTL DEF AnySpec

-----------------------------------------------------------------------------
(* What it says of a render.                                               *)

(* The part of it for a render that goes on or is over.                    *)
LEMMA SoundNow ==
    ASSUME RInv, status # "failed"
    PROVE  /\ SavesTyped(ctl, serial) /\ names \in Seq(Names) /\ scopes \in Seq(Scope)
           /\ CallersTyped(callers) /\ LoopsTyped(loopUse, serial)
           /\ StackOK(ctl) /\ NamesInv(ctl, names) /\ CallersInv(ctl, callers)
           /\ ScopesInv(ctl, scopes) /\ SupersInv(lib, ctl, super, chains)
           /\ ContextsInv(ctl, ctxs) /\ EntryOK(extCache, ctxs, serial)
           /\ IsSeq(ctl) /\ Len(ctl) \in Nat /\ DOMAIN ctl = 1 .. Len(ctl)
<1>1. /\ Sound
  BY DEF RInv
<1>2. CallsInv(lib, ctl, names, callers, scopes, super, chains)
      /\ DataInv(ctl, ctxs, extCache, serial)
  BY <1>1 DEF Sound
<1>3. IsSeq(ctl)
  BY <1>2 DEF CallsInv, StackOK
<1> QED
  BY <1>1, <1>2, <1>3, SeqLength DEF Sound, StateTyped, CallsInv, DataInv

(* The types.                                                              *)
LEMMA SoundTypes ==
    ASSUME RInv PROVE TypeOK
<1>1. CASE status = "failed"
  BY <1>1 DEF RInv, Dropped, TypeOK
<1>2. CASE status # "failed"
  <2>1. /\ SavesTyped(ctl, serial) /\ names \in Seq(Names) /\ CallersTyped(callers)
        /\ LoopsTyped(loopUse, serial) /\ StackOK(ctl) /\ CallersInv(ctl, callers)
        /\ ContextsInv(ctl, ctxs) /\ DOMAIN ctl = 1 .. Len(ctl) /\ IsSeq(ctl)
        /\ SupersInv(lib, ctl, super, chains)
    BY <1>2, SoundNow
  <2>2. ASSUME NEW i \in DOMAIN ctl
        PROVE  /\ ctl[i].role \in Roles /\ ctl[i].body \in Bodies \cup {None}
               /\ ctl[i].copy \in 0 .. serial /\ ctl[i].pos \in Nat \ {0}
    <3>1. IsFrame(ctl[i]) /\ SaveTyped(ctl[i], serial)
      BY <2>1 DEF StackOK, SavesTyped
    <3> QED
      BY <3>1 DEF IsFrame, SaveTyped
  <2>3. \A i \in DOMAIN callers : callers[i].body \in Bodies
    <3>1. DOMAIN callers = 1 .. Len(callers)
      BY <2>1, SeqLength DEF CallersInv
    <3> QED
      BY <2>1, <3>1 DEF CallersTyped
  <2>4. super \in Positions /\ chains \in Lineups
    BY <2>1, SupersNow
  <2>5. /\ super = None \/ super \in BlockNames \X Nat
        /\ chains = None \/ chains \in [BlockNames -> Seq(Bodies)]
    BY <2>4 DEF Positions, Lineups
  <2>6. ctxs \in Seq(Context) /\ DOMAIN loopUse \subseteq (0 .. serial) \X Bodies
    BY <2>1 DEF ContextsInv, LoopsTyped
  <2>7. lib \in Libraries /\ status \in {"start", "running", "done", "failed"}
    BY DEF RInv
  <2> QED
    BY <2>1, <2>2, <2>3, <2>5, <2>6, <2>7 DEF TypeOK
<1> QED
  BY <1>1, <1>2

(* The frames of some roles, as the properties name them and as RInv does. *)
LEMMA RolesNow ==
    ASSUME RInv, status # "failed", NEW roles
    PROVE  /\ FramesOf(roles) = RoleIn(ctl, roles)
           /\ Cardinality(RoleIn(ctl, roles)) = Count(RoleIn(ctl, roles), Len(ctl))
           /\ \A i \in FramesOf(roles) : i \in 0 .. Len(ctl)
<1>1. DOMAIN ctl = 1 .. Len(ctl) /\ Len(ctl) \in Nat
  BY SoundNow
<1>2. FramesOf(roles) = RoleIn(ctl, roles) /\ \A i \in RoleIn(ctl, roles) : i \in 1 .. Len(ctl)
  BY <1>1 DEF FramesOf, RoleIn
<1>3. Count(RoleIn(ctl, roles), Len(ctl)) = Cardinality(RoleIn(ctl, roles))
  BY <1>1, <1>2, CountGrows
<1> QED
  BY <1>1, <1>2, <1>3

(* The open templates are those of the calls that opened one.              *)
LEMMA NamesNow ==
    ASSUME RInv, status # "failed" PROVE NamesFollow
<1> DEFINE open == {i \in FramesOf({"entry", "template", "layout", "module"}) :
                       ctl[i].save.name # None}
<1>1. DOMAIN ctl = 1 .. Len(ctl) /\ Len(ctl) \in Nat /\ NamesInv(ctl, names)
  BY SoundNow
<1>2. open = OpenIn(ctl)
  BY <1>1 DEF FramesOf, OpenIn, Opens
<1>3. Count(OpenIn(ctl), Len(ctl)) = Cardinality(OpenIn(ctl))
  <2>1. \A i \in OpenIn(ctl) : i \in 1 .. Len(ctl)
    BY DEF OpenIn
  <2> QED
    BY <1>1, <2>1, CountGrows
<1>4. /\ Len(names) = Cardinality(open)
      /\ \A i \in open : names[Count(open, i)] = ctl[i].save.name
  BY <1>1, <1>2, <1>3 DEF NamesInv
<1> QED
  BY <1>4 DEF NamesFollow, Count

(* The stacks of variables are as many, and the last as deep, as the calls *)
(* need.                                                                   *)
LEMMA ContextsNow ==
    ASSUME RInv, status # "failed" PROVE ContextsFollow
<1> DEFINE n == Len(ctl)
<1>1. DOMAIN ctl = 1 .. n /\ n \in Nat /\ ContextsInv(ctl, ctxs) /\ IsSeq(ctl)
  BY SoundNow
<1>2. Len(ctxs) = 1 + Cardinality(FramesOf({"template", "module", "macro", "call"}))
  BY <1>1, RolesNow DEF ContextsInv, Held, Holders
<1>3. Len(Ctx.frames) = DepthAt(ctl, n)
  BY <1>1, ContextsLast DEF Ctx
<1>4. Deeper(ctl, n) = {i \in DOMAIN ctl :
                           /\ Deepens(ctl[i])
                           /\ \A began \in FramesOf({"template", "module"}) : began < i}
  <2>1. \A i \in 1 .. n : Deepens(ctl[i]) => ctl[i].role \notin Bases
    BY DEF Deepens, Bases
  <2>2. FramesOf({"template", "module"}) = {i \in 1 .. n : ctl[i].role \in Bases}
    BY <1>1 DEF FramesOf, Bases
  <2> HIDE DEF n
  <2>3. ASSUME NEW i \in 1 .. n, Deepens(ctl[i])
        PROVE  (\A b \in i + 1 .. n : ctl[b].role \notin Bases) <=>
               (\A began \in FramesOf({"template", "module"}) : began < i)
    <3>1. ASSUME \A b \in i + 1 .. n : ctl[b].role \notin Bases,
                 NEW began \in FramesOf({"template", "module"})
          PROVE  began < i
      <4>1. began \in 1 .. n /\ ctl[began].role \in Bases /\ began # i
        BY <2>1, <2>2, <2>3
      <4> QED
        BY <1>1, <3>1, <4>1
    <3>2. ASSUME \A began \in FramesOf({"template", "module"}) : began < i,
                 NEW b \in i + 1 .. n, ctl[b].role \in Bases
          PROVE  FALSE
      <4>1. b \in 1 .. n /\ b > i
        BY <1>1
      <4>2. b < i
        BY <2>2, <3>2, <4>1
      <4> QED
        BY <4>1, <4>2
    <3> QED
      BY <3>1, <3>2
  <2> QED
    BY <1>1, <2>3 DEF Deeper
<1> QED
  BY <1>2, <1>3, <1>4 DEF ContextsFollow, DepthAt

(* With the callers and the macro scopes, all four parts of                *)
(* StateFollowsCalls.                                                      *)
LEMMA SoundFollows ==
    ASSUME RInv PROVE StateFollowsCalls
<1> SUFFICES ASSUME status = "running"
             PROVE  NamesFollow /\ ContextsFollow /\ CallersFollow /\ ScopesFollow
  BY DEF StateFollowsCalls
<1>1. CallersInv(ctl, callers) /\ ScopesInv(ctl, scopes) /\ Len(ctl) \in Nat
  BY SoundNow
<1>2. CallersFollow
  BY <1>1, RolesNow DEF CallersInv, CallersFollow
<1>3. ScopesFollow
  <2>1. FramesOf({"root"}) = Roots(ctl) /\ Len(scopes) \in Nat
    BY <1>1, RolesNow, SeqLength DEF Roots, ScopesInv
  <2>2. \A i \in Roots(ctl) : ctl[i].save.base <= Len(scopes)
    BY <1>1, <2>1 DEF ScopesInv
  <2> QED
    BY <1>1, <2>1, <2>2 DEF ScopesInv, ScopesFollow
<1> QED
  BY <1>2, <1>3, NamesNow, ContextsNow

(* No call, so nothing is left of any.                                     *)
LEMMA SoundClean ==
    ASSUME RInv PROVE CleanWhenDone
<1> SUFFICES ASSUME status = "done"
             PROVE  /\ names = << >> /\ scopes = << >> /\ callers = << >>
                    /\ chains = None /\ super = None
                    /\ Len(ctxs) = 1 /\ Len(Ctx.frames) = 1
  BY DEF CleanWhenDone
<1>1. ctl = << >> /\ Len(ctl) = 0
  BY DEF RInv
<1>2. /\ NamesInv(ctl, names) /\ CallersInv(ctl, callers) /\ ScopesInv(ctl, scopes)
      /\ SupersInv(lib, ctl, super, chains) /\ ContextsInv(ctl, ctxs) /\ IsSeq(ctl)
  BY SoundNow
<1>3. /\ OpenIn(ctl) = {} /\ Deeper(ctl, 0) = {} /\ \A roles : RoleIn(ctl, roles) = {}
      /\ Count({}, 0) = 0 /\ Cardinality({}) = 0
  BY <1>1, FS_EmptySet DEF OpenIn, Deeper, RoleIn, Count
<1>4. names = << >> /\ callers = << >>
  BY <1>1, <1>2, <1>3, SeqLength DEF NamesInv, CallersInv
<1>5. scopes = << >>
  BY <1>2, <1>3 DEF ScopesInv, Roots
<1>6. chains = None /\ super = None
  <2>1. IsSeq(ctl) /\ SupersInv(lib, ctl, super, chains)
    BY <1>2
  <2>2. \A j \in 1 .. Len(ctl) : ~Inner(ctl[j])
    BY <1>1
  <2>3. \A j \in 1 .. Len(ctl) : ctl[j].role # "layout"
    BY <1>1
  <2>4. super = None
    BY <2>1, <2>2, NoSuper
  <2>5. chains = None
    BY <2>1, <2>3, NoChains
  <2> QED
    BY <2>4, <2>5
<1>7. Len(ctxs) = 1 /\ Len(Ctx.frames) = 1
  <2>1. Held(ctl, 0) = 1 /\ DepthAt(ctl, 0) = 1
    BY <1>3 DEF Held, DepthAt
  <2>2. Len(ctxs) = Held(ctl, Len(ctl))
    BY <1>2 DEF ContextsInv
  <2>3. Len(Last(ctxs).frames) = DepthAt(ctl, Len(ctl))
    BY <1>2, ContextsLast
  <2> QED
    BY <1>1, <2>1, <2>2, <2>3 DEF Ctx
<1> QED
  BY <1>4, <1>5, <1>6, <1>7

(* The innermost block or super() is at the position in super_context.     *)
LEMMA SoundSuper ==
    ASSUME RInv PROVE SuperIsRunning
<1> DEFINE inner == FramesOf({"block", "super", "layout"})
           block == ctl[Max(inner)]
<1> SUFFICES ASSUME status = "running"
             PROVE  IF inner = {} THEN super = None
                    ELSE block.role # "layout" =>
                            /\ super # None
                            /\ Chain(super[1]) # << >> =>
                                  block.body = Chain(super[1])[super[2] + 1]
                            /\ Chain(super[1]) = << >> => super[2] = 0
  BY DEF SuperIsRunning
<1>1. /\ DOMAIN ctl = 1 .. Len(ctl) /\ Len(ctl) \in Nat /\ IsSeq(ctl)
      /\ SupersInv(lib, ctl, super, chains)
  BY SoundNow
<1>2. \A i : i \in inner <=> i \in 1 .. Len(ctl) /\ Inner(ctl[i])
  BY <1>1 DEF FramesOf, Inner
<1>3. CASE inner = {}
  <2>1. \A j \in 1 .. Len(ctl) : ~Inner(ctl[j])
    BY <1>2, <1>3
  <2>2. super = None
    <3>1. IsSeq(ctl) /\ SupersInv(lib, ctl, super, chains)
      BY <1>1
    <3> QED
      BY <3>1, <2>1, NoSuper
  <2> QED
    BY <1>3, <2>2
<1>4. CASE inner # {} /\ block.role # "layout"
  <2> DEFINE m == Max(inner)
  <2> HIDE DEF inner
  <2>1. m \in inner /\ \A j \in inner : j <= m
    BY <1>1, <1>2, <1>4, MaxMember
  <2>2. m \in 1 .. Len(ctl) /\ Inner(ctl[m]) /\ Overrides(ctl[m])
    BY <1>2, <1>4, <2>1 DEF Inner, Overrides
  <2> HIDE DEF m
  <2>3. \A k \in m + 1 .. Len(ctl) : ~Inner(ctl[k])
    BY <1>1, <1>2, <2>1, <2>2
  <2>4. Shows(ctl[m].body, super, chains)
    BY <1>1, <2>2, <2>3, SupersNow
  <2>5. super \in BlockNames \X Nat /\ Chain(super[1]) = ChainIn(chains, super[1])
    BY <2>4 DEF Shows, Chain, ChainIn
  <2>6. super # None
    BY <2>5, RendererConstants
  <2> QED
    BY <1>4, <2>4, <2>5, <2>6 DEF Shows, m
<1> QED
  BY <1>3, <1>4

(* The merged variables are those of the stack with their identity, if it  *)
(* has their revision.                                                     *)
LEMMA SoundExtCache ==
    ASSUME RInv PROVE ExtCacheCurrent
<1>1. CASE status = "failed"
  BY <1>1 DEF RInv, Dropped, ExtCacheCurrent
<1>2. CASE status # "failed"
  <2>1. EntryOK(extCache, ctxs, serial) /\ DOMAIN ctxs = 1 .. Len(ctxs)
    <3>1. ContextsInv(ctl, ctxs) /\ EntryOK(extCache, ctxs, serial)
      BY <1>2, SoundNow
    <3> QED
      BY <3>1 DEF ContextsInv
  <2> QED
    BY <2>1 DEF EntryOK, ExtCacheCurrent
<1> QED
  BY <1>1, <1>2

(* The chains are those of the child of the innermost layout.              *)
LEMMA SoundChains ==
    ASSUME RInv PROVE ChainsAreLineage
<1> DEFINE layouts == FramesOf({"layout"})
           child == ctl[Max(layouts)].save.child
           parent == ParentOf[child].name
           above == Ancestry(lib, parent)
           line == Lineage(child)
           Definers(b) == {k \in DOMAIN line : BlocksOf[line[k]][b] # None}
<1> SUFFICES ASSUME status = "running"
             PROVE  IF layouts = {} THEN chains = None
                    ELSE \A b \in BlockNames :
                            /\ Len(chains[b]) = Cardinality(Definers(b))
                            /\ \A k \in Definers(b) :
                                  chains[b][Cardinality({j \in Definers(b) : j <= k})]
                                      = BlocksOf[line[k]][b]
  BY DEF ChainsAreLineage, DefinedAlong
<1>1. /\ DOMAIN ctl = 1 .. Len(ctl) /\ Len(ctl) \in Nat /\ IsSeq(ctl)
      /\ SupersInv(lib, ctl, super, chains) /\ lib \in Libraries
  BY SoundNow DEF RInv
<1>2. \A i : i \in layouts <=> i \in 1 .. Len(ctl) /\ ctl[i].role = "layout"
  BY <1>1 DEF FramesOf
<1>3. CASE layouts = {}
  <2>1. \A j \in 1 .. Len(ctl) : ctl[j].role # "layout"
    BY <1>2, <1>3
  <2>2. chains = None
    <3>1. IsSeq(ctl) /\ SupersInv(lib, ctl, super, chains)
      BY <1>1
    <3> QED
      BY <3>1, <2>1, NoChains
  <2> QED
    BY <1>3, <2>2
<1>4. CASE layouts # {}
  <2> DEFINE m == Max(layouts)
  <2> HIDE DEF layouts
  <2>1. m \in layouts /\ \A j \in layouts : j <= m
    BY <1>1, <1>2, <1>4, MaxMember
  <2>2. m \in 1 .. Len(ctl) /\ ctl[m].role = "layout"
        /\ \A k \in m + 1 .. Len(ctl) : ctl[k].role # "layout"
    BY <1>1, <1>2, <2>1
  <2>3. Lines(lib, ctl[m], chains)
    <3> HIDE DEF m
    <3> QED
      BY <1>1, <2>2, SupersNow
  <2>4. /\ child \in Bodies /\ ParentOf[child] # None /\ ParentsOK(lib, parent)
        /\ chains = ChainsOf(lib, parent, BlocksOf[child])
    BY <2>3 DEF Lines
  <2> HIDE DEF child
  <2>5. parent \in Names
    BY <2>4, ParentType
  <2> HIDE DEF parent
  <2>6. above \in Seq(Bodies) /\ Len(above) \in Nat \ {0}
    BY <1>1, <2>4, <2>5, AncestryType
  <2>7. line = <<child>> \o above
    BY DEF Lineage, parent
  <2>8. \A b \in BlockNames : chains[b] = LayersOf(above, BlocksOf[child][b], b)[1]
    BY <2>4 DEF ChainsOf
  <2> HIDE DEF above
  <2>9. line \in Seq(Bodies) /\ Len(line) \in Nat
    BY <2>4, <2>6, <2>7
  <2> HIDE DEF line
  <2>10. ASSUME NEW b \in BlockNames
         PROVE  /\ Len(chains[b]) = Cardinality(Definers(b))
                /\ \A k \in Definers(b) :
                      chains[b][Cardinality({j \in Definers(b) : j <= k})]
                          = BlocksOf[line[k]][b]
    <3> DEFINE B == [k \in 1 .. Len(line) |-> BlocksOf[line[k]][b]]
               D == {k \in 1 .. Len(line) : B[k] # None}
    <3>1. Lists(chains[b], B, D, Len(line), 1)
      BY <2>4, <2>6, <2>7, <2>8, ChainsListed
    <3>2. Definers(b) = D
      BY <2>9
    <3>3. \A k \in D : k \in 1 .. Len(line) /\ B[k] = BlocksOf[line[k]][b]
      OBVIOUS
    <3> HIDE DEF D, B
    <3>4. /\ Count(D, Len(line)) = Cardinality(D) /\ \A k \in 0 .. Len(line) : Count(D, k) \in Nat
          /\ Count(D, 0) = 0
      <4>1. /\ Count(D, Len(line)) = Cardinality(D)
            /\ \A k \in 0 .. Len(line) : Count(D, k) \in Nat
        BY <2>9, <3>3, CountGrows
      <4>2. {j \in D : j <= 0} = {}
        BY <2>9, <3>3
      <4> QED
        BY <4>1, <4>2, FS_EmptySet DEF Count
    <3>5. /\ Len(chains[b]) = Cardinality(D)
          /\ \A k \in D : chains[b][Count(D, k)] = B[k]
      <4>1. Len(chains[b]) = Count(D, Len(line)) - Count(D, 0)
            /\ \A k \in D : k >= 1 => chains[b][Count(D, k) - Count(D, 0)] = B[k]
        BY <3>1 DEF Lists
      <4>2. Cardinality(D) \in Nat /\ \A k \in D : k >= 1 /\ Count(D, k) \in Nat
        BY <2>9, <3>3, <3>4
      <4> QED
        BY <3>4, <4>1, <4>2
    <3> QED
      BY <3>2, <3>3, <3>5 DEF Count
  <2> QED
    BY <1>4, <2>10
<1> QED
  BY <1>3, <1>4

-----------------------------------------------------------------------------

(* TypeOK is an invariant of both renderers.                               *)
THEOREM RendererTypes == AnySpec => []TypeOK
  BY RendersSound, SoundTypes, PTL

(* In every state the open templates, the stacks of variables, the callers *)
(* and the macro scopes are those that the active calls have pushed,       *)
(* whatever path led there.                                                *)
THEOREM RendererFollowsCalls == AnySpec => []StateFollowsCalls
  BY RendersSound, SoundFollows, PTL

(* A render that is done has left every stack as it found it: whatever it  *)
(* pushed in a template, a macro, a call block or an import is popped.     *)
THEOREM RendererEndsClean == AnySpec => []CleanWhenDone
  BY RendersSound, SoundClean, PTL

(* super_context always names the block and the layer that is being        *)
(* rendered, so that a super() goes to the next layer.                     *)
THEOREM RendererKnowsItsBlock == AnySpec => []SuperIsRunning
  BY RendersSound, SoundSuper, PTL

(* The chains of a layout list, for every block, the bodies of the         *)
(* templates that define it, from the child to the oldest ancestor,        *)
(* however long the lineage is.                                            *)
THEOREM RendererKeepsLineage == AnySpec => []ChainsAreLineage
  BY RendersSound, SoundChains, PTL

(* The variables merged for extension tags are never those of an earlier   *)
(* revision under the revision's number.                                   *)
THEOREM RendererMergesAfresh == AnySpec => []ExtCacheCurrent
  BY RendersSound, SoundExtCache, PTL

-----------------------------------------------------------------------------
(* The loops that a call has among its variables.                          *)

LoopAt(f) == [item |-> f.item, loop |-> f.vars["loop"]]
LoopsIn(x) == [i \in 1 .. Len(x.frames) |-> LoopAt(x.frames[i])]

(* Those of the k-th call.                                                 *)
View(c, xs, k) == [i \in 1 .. DepthAt(c, k) |-> LoopAt(xs[Held(c, k)].frames[i])]

(* The variable loop is that of the innermost iteration, if there is one.  *)
Sees(v) ==
    \A i \in DOMAIN v :
        v[i].item # None /\ (\A j \in DOMAIN v : i < j => v[j].item = None) =>
            v[i].loop = v[i].item /\ \A j \in DOMAIN v : i < j => v[j].loop = None

(* No call from the k-th to the n-th holds variables of its own, if they   *)
(* use the same, and the later one is as deep.                             *)
LEMMA DepthGrows ==
    ASSUME NEW c, Len(c) \in Nat, NEW n \in 0 .. Len(c), NEW k \in 0 .. n,
           Held(c, k) = Held(c, n)
    PROVE  DepthAt(c, k) \in Nat /\ DepthAt(c, n) \in Nat /\ DepthAt(c, k) <= DepthAt(c, n)
<1> DEFINE S == RoleIn(c, Holders)
<1>1. \A j \in S : j \in 1 .. Len(c)
  BY DEF RoleIn
<1> HIDE DEF S
<1>2. /\ \A i \in 0 .. Len(c) : Count(S, i) \in Nat
      /\ \A i, j \in 0 .. Len(c) : i <= j => Count(S, i) <= Count(S, j)
      /\ \A i, j \in 0 .. Len(c) : i < j /\ j \in S => Count(S, i) < Count(S, j)
  BY <1>1, CountGrows
<1>3. Count(S, k) = Count(S, n)
  <2>1. Count(S, k) \in Nat /\ Count(S, n) \in Nat
    BY <1>2
  <2>2. 1 + Count(S, k) = 1 + Count(S, n)
    BY DEF Held, S
  <2> QED
    BY <2>1, <2>2
<1>4. \A b \in k + 1 .. n : c[b].role \notin Bases
  <2> TAKE b \in k + 1 .. n
  <2>1. b \in 0 .. Len(c) /\ k \in 0 .. Len(c) /\ n \in 0 .. Len(c) /\ k < b /\ b <= n
    OBVIOUS
  <2>2. b \notin S
    BY <1>2, <1>3, <2>1
  <2>3. b \in 1 .. Len(c)
    BY <2>1
  <2> QED
    BY <2>2, <2>3 DEF S, RoleIn, Holders, Bases
<1>5. Deeper(c, k) \subseteq Deeper(c, n)
  <2> SUFFICES ASSUME NEW j \in Deeper(c, k) PROVE j \in Deeper(c, n)
    OBVIOUS
  <2>1. j \in 1 .. k /\ Deepens(c[j]) /\ \A b \in j + 1 .. k : c[b].role \notin Bases
    BY DEF Deeper
  <2>2. \A b \in j + 1 .. n : b \in j + 1 .. k \/ b \in k + 1 .. n
    BY <2>1
  <2>3. j \in 1 .. n
    BY <2>1
  <2> QED
    BY <1>4, <2>1, <2>2, <2>3 DEF Deeper
<1>6. \A i \in 0 .. n : IsFiniteSet(Deeper(c, i)) /\ Cardinality(Deeper(c, i)) \in Nat
  <2> TAKE i \in 0 .. n
  <2>1. i \in Nat /\ \A j \in Deeper(c, i) : j \in 1 .. i
    BY DEF Deeper
  <2> QED
    BY <2>1, PositionsFinite, FS_CardinalityType
<1>7. Cardinality(Deeper(c, k)) <= Cardinality(Deeper(c, n))
  <2>1. n \in 0 .. n
    OBVIOUS
  <2> QED
    BY <1>5, <1>6, <2>1, FS_Subset
<1>8. k \in 0 .. n /\ n \in 0 .. n
  OBVIOUS
<1> QED
  BY <1>6, <1>7, <1>8 DEF DepthAt

(* A call sees what it saw if the stack it uses is as it was.              *)
LEMMA ViewSame ==
    ASSUME NEW c, NEW d, NEW xs, NEW ys, NEW k,
           DepthAt(d, k) = DepthAt(c, k), Held(d, k) = Held(c, k),
           ys[Held(c, k)] = xs[Held(c, k)]
    PROVE  View(d, ys, k) = View(c, xs, k)
  BY DEF View

(* The stacks in use are those there are.                                  *)
LEMMA HeldIn ==
    ASSUME NEW c, Len(c) \in Nat
    PROVE  \A n \in 0 .. Len(c) :
              \A k \in 0 .. n : Held(c, k) \in 1 .. Held(c, n) /\ Held(c, n) \in Nat
<1> DEFINE S == RoleIn(c, Holders)
<1>1. \A j \in S : j \in 1 .. Len(c)
  BY DEF RoleIn
<1> HIDE DEF S
<1>2. /\ \A i \in 0 .. Len(c) : Count(S, i) \in Nat
      /\ \A i, j \in 0 .. Len(c) : i <= j => Count(S, i) <= Count(S, j)
  BY <1>1, CountGrows
<1> TAKE n \in 0 .. Len(c)
<1> TAKE k \in 0 .. n
<1>3. k \in 0 .. Len(c) /\ k <= n
  OBVIOUS
<1>4. Count(S, k) \in Nat /\ Count(S, n) \in Nat /\ Count(S, k) <= Count(S, n)
  BY <1>2, <1>3
<1>5. Held(c, k) = 1 + Count(S, k) /\ Held(c, n) = 1 + Count(S, n)
  BY DEF Held, S
<1> QED
  BY <1>4, <1>5

(* The calls on a stack of variables see the loops they saw if it has them *)
(* as deep as they are.                                                    *)
LEMMA ViewLast ==
    ASSUME NEW c, Len(c) \in Nat, NEW n \in 0 .. Len(c),
           NEW xs, IsSeq(xs), xs # << >>, Len(xs) = Held(c, n), NEW x,
           \A i \in 1 .. DepthAt(c, n) : LoopAt(x.frames[i]) = LoopAt(Last(xs).frames[i])
    PROVE  \A k \in 0 .. n : View(c, Append(Front(xs), x), k) = View(c, xs, k)
<1> DEFINE m == Len(xs)
           ys == Append(Front(xs), x)
<1>1. m \in Nat /\ m >= 1 /\ Last(xs) = xs[m]
  BY SeqLength, SeqFront DEF Last
<1>2. ys[m] = x /\ \A i \in 1 .. m - 1 : ys[i] = xs[i]
  <2>1. IsSeq(Front(xs)) /\ Len(Front(xs)) = m - 1 /\ \A i \in 1 .. m - 1 : Front(xs)[i] = xs[i]
    BY SeqFront
  <2>2. /\ \A i \in 1 .. Len(Front(xs)) : ys[i] = Front(xs)[i]
        /\ ys[Len(Front(xs)) + 1] = x
    BY <2>1, SeqAppend
  <2>3. (m - 1) + 1 = m
    BY <1>1
  <2> QED
    BY <2>1, <2>2, <2>3
<1> HIDE DEF ys
<1> TAKE k \in 0 .. n
<1>3. Held(c, k) \in 1 .. m
  BY HeldIn
<1>4. CASE Held(c, k) = m
  <2>1. DepthAt(c, k) \in Nat /\ DepthAt(c, n) \in Nat /\ DepthAt(c, k) <= DepthAt(c, n)
    BY <1>4, DepthGrows
  <2>2. \A i \in 1 .. DepthAt(c, k) : LoopAt(x.frames[i]) = LoopAt(xs[m].frames[i])
    BY <1>1, <2>1
  <2> QED
    BY <1>2, <1>4, <2>2 DEF View, ys
<1>5. CASE Held(c, k) # m
  <2>1. Held(c, k) \in 1 .. m - 1
    BY <1>1, <1>3, <1>5
  <2>2. View(c, ys, k) = View(c, xs, k)
    BY <1>2, <2>1, ViewSame
  <2> QED
    BY <2>2 DEF ys
<1> QED
  BY <1>4, <1>5

(* Another stack of variables on top changes none of those below.          *)
LEMMA ViewAppend ==
    ASSUME NEW c, Len(c) \in Nat, NEW xs, IsSeq(xs), Len(xs) = Held(c, Len(c)), NEW x
    PROVE  \A k \in 0 .. Len(c) : View(c, Append(xs, x), k) = View(c, xs, k)
<1>1. \A i \in 1 .. Len(xs) : Append(xs, x)[i] = xs[i]
  BY SeqAppend
<1> TAKE k \in 0 .. Len(c)
<1>2. Held(c, k) \in 1 .. Len(xs)
  BY HeldIn
<1>3. Append(xs, x)[Held(c, k)] = xs[Held(c, k)]
  BY <1>1, <1>2
<1> QED
  BY <1>3 DEF View

(* What was below the last stack of variables stays when that is dropped.  *)
LEMMA ViewFront ==
    ASSUME NEW c, Len(c) \in Nat, NEW xs, IsSeq(xs), xs # << >>, Len(xs) = Held(c, Len(c)) + 1
    PROVE  \A k \in 0 .. Len(c) : View(c, Front(xs), k) = View(c, xs, k)
<1>1. \A i \in 1 .. Len(xs) - 1 : Front(xs)[i] = xs[i]
  BY SeqFront
<1> TAKE k \in 0 .. Len(c)
<1>2. Held(c, k) \in 1 .. Held(c, Len(c)) /\ Held(c, Len(c)) \in Nat
  BY HeldIn
<1>3. Held(c, k) \in 1 .. Len(xs) - 1
  BY <1>2
<1> QED
  BY <1>1, <1>3, ViewSame

(* The innermost call sees all of the innermost stack.                     *)
LEMMA ViewTop ==
    ASSUME NEW c, IsSeq(c), NEW xs, ContextsInv(c, xs)
    PROVE  View(c, xs, Len(c)) = LoopsIn(Last(xs))
<1>1. Last(xs) = xs[Len(xs)] /\ Len(Last(xs).frames) = DepthAt(c, Len(c))
  BY ContextsLast
<1>2. Len(xs) = Held(c, Len(c))
  BY DEF ContextsInv
<1> QED
  BY <1>1, <1>2 DEF View, LoopsIn

(* A call that goes on sees what it saw.                                   *)
LEMMA ViewAlike ==
    ASSUME NEW c, NEW d, Alike(c, d), NEW xs
    PROVE  \A k \in 0 .. Len(c) : View(d, xs, k) = View(c, xs, k)
  BY DepthAlike, ViewSame

(* So do the calls below another one.                                      *)
LEMMA ViewAbove ==
    ASSUME NEW c, NEW d, Len(c) \in Nat, Above(c, d), NEW xs
    PROVE  \A k \in 0 .. Len(c) : View(d, xs, k) = View(c, xs, k)
  BY DepthAbove, HeldAbove, ViewSame

-----------------------------------------------------------------------------
(* Which bodies a render is in, and what they read.                        *)

MacroNodes(R) == {node \in NodesAt(R) : node.kind = "macro"}

BlockBodies(R, b) ==
    BodiesOf({node \in NodesAt(R) : node.kind = "block" /\ node.name = b}, {"block"})

ScopesFit(R, stack) ==
    \A i \in 1 .. Len(stack), m \in MacroNames : stack[i][m] \in MacroNodes(R) \cup {None}

SpacesFit(R, sp) ==
    \A ns \in DOMAIN sp : /\ \A m \in MacroNames : sp[ns].macros[m] \in MacroNodes(R) \cup {None}
                          /\ sp[ns].vals["loop"] = None

CallersFit(R, given) ==
    \A i \in 1 .. Len(given) : /\ given[i].body \in BodiesOf(NodesAt(R), {"call"})
                               /\ "loop" \notin Range(given[i].params)

ChainsFit(R, lined) ==
    lined # None =>
        \A b \in BlockNames : \A i \in 1 .. Len(lined[b]) : lined[b][i] \in BlockBodies(R, b)

(* What a call may read of the loops around it, and what it keeps.         *)
FrameFits(R, Q, f) ==
    /\ f.body \in R \cup {None}
    /\ f.role = "for" => "loop" \notin Range(f.save.vars) /\ (f.save.needs \/ f.body \in Q)
    /\ f.role = "capture" => f.save.var # "loop"
    /\ f.role = "module" =>
          /\ f.save.out["loop"] = None
          /\ f.save.node.kind = "from" => \A x \in Range(f.save.node.names) : x.local # "loop"
    /\ f.role = "layout" => ChainsFit(R, f.save.prev)

FramesFit(R, Q, c) == \A k \in 1 .. Len(c) : FrameFits(R, Q, c[k])

Calm(Q, f) ==
    \/ f.body = None
    \/ IF f.role = "module" THEN CalmModule(Q, f.body) ELSE f.body \in Q

(* Every call sees the loop it is in, or reads none.                       *)
CallsSee(Q, c, xs) ==
    /\ Sees(View(c, xs, 0))
    /\ \A k \in 1 .. Len(c) : Sees(View(c, xs, k)) \/ Calm(Q, c[k])

UsesRight == async \/ \A key \in DOMAIN loopUse : loopUse[key] = UsesLoop[key[2]]

LoopsInv(R, Q) ==
    status # "failed" =>
        /\ FramesFit(R, Q, ctl)
        /\ CallsSee(Q, ctl, ctxs)
        /\ ScopesFit(R, scopes) /\ SpacesFit(R, spaces)
        /\ CallersFit(R, callers) /\ ChainsFit(R, chains)
        /\ UsesRight

(* A node that reads no loop and renders nothing that does.                *)
CalmNode(libs, R, Q, node) == ~ReadsLoop(node) /\ StaysCalm(libs, R, Q, node)

(* What a render may rely on.                                              *)
Grounds(R, Q) ==
    /\ Reaches({lib}, R) /\ OnlyLoopsBindLoop(R) /\ Q \subseteq R
    /\ \A node \in NodesAt(Q) : CalmNode({lib}, R, Q, node)
    /\ async \/ /\ ~Recycles
                /\ \A node \in NodesAt(R) :
                      node.kind = "for" /\ ~UsesLoop[node.body] => node.body \in Q

(* The calls that are as they were see what they saw.                      *)
LEMMA SeesOn ==
    ASSUME NEW Q, NEW c, NEW xs, CallsSee(Q, c, xs), Len(c) \in Nat, NEW n \in 0 .. Len(c),
           NEW d, \A i \in 1 .. n : Same(c[i], d[i]),
           NEW ys, \A k \in 0 .. n : View(d, ys, k) = View(c, xs, k),
           \A k \in 1 .. Len(d) : k \in 1 .. n \/ Sees(View(d, ys, k)) \/ Calm(Q, d[k])
    PROVE  CallsSee(Q, d, ys)
<1>1. Sees(View(d, ys, 0))
  <2>1. 0 \in 0 .. n /\ Sees(View(c, xs, 0))
    BY DEF CallsSee
  <2> QED
    BY <2>1
<1>2. ASSUME NEW k \in 1 .. n PROVE Sees(View(d, ys, k)) \/ Calm(Q, d[k])
  <2>1. k \in 1 .. Len(c) /\ k \in 0 .. n
    OBVIOUS
  <2>2. Sees(View(c, xs, k)) \/ Calm(Q, c[k])
    BY <2>1 DEF CallsSee
  <2>3. View(d, ys, k) = View(c, xs, k) /\ Same(c[k], d[k])
    BY <2>1
  <2>4. Calm(Q, c[k]) => Calm(Q, d[k])
    BY <2>3 DEF Same, Calm
  <2> QED
    BY <2>2, <2>3, <2>4
<1> QED
  BY <1>1, <1>2 DEF CallsSee

(* A call that begins sees its loop, or reads none.                        *)
LEMMA SeesPush ==
    ASSUME NEW Q, NEW c, NEW xs, CallsSee(Q, c, xs), Len(c) \in Nat,
           NEW d, Above(c, d),
           NEW ys, \A k \in 0 .. Len(c) : View(c, ys, k) = View(c, xs, k),
           Sees(View(d, ys, Len(d))) \/ Calm(Q, Last(d))
    PROVE  CallsSee(Q, d, ys)
<1>1. /\ Len(d) = Len(c) + 1 /\ Last(d) = d[Len(d)]
      /\ \A i \in 1 .. Len(c) : Same(c[i], d[i])
  BY DEF Above, Last
<1>2. \A k \in 0 .. Len(c) : View(d, ys, k) = View(c, xs, k)
  BY ViewAbove
<1>3. \A k \in 1 .. Len(d) : k \in 1 .. Len(c) \/ k = Len(d)
  BY <1>1
<1>4. Len(c) \in 0 .. Len(c)
  OBVIOUS
<1> QED
  BY <1>1, <1>2, <1>3, <1>4, SeesOn

(* The calls below one that ends see what they saw.                        *)
LEMMA SeesPop ==
    ASSUME NEW Q, NEW c, NEW d, Len(c) \in Nat, Above(c, d), NEW xs, CallsSee(Q, d, xs),
           NEW ys, \A k \in 0 .. Len(c) : View(c, ys, k) = View(c, xs, k)
    PROVE  CallsSee(Q, c, ys)
<1>1. /\ Len(d) = Len(c) + 1 /\ Len(d) \in Nat
      /\ \A i \in 1 .. Len(c) : Same(d[i], c[i])
  BY SameBack DEF Above
<1>2. \A k \in 0 .. Len(c) : View(c, ys, k) = View(d, xs, k)
  BY ViewAbove
<1>3. Len(c) \in 0 .. Len(d)
  BY <1>1
<1> QED
  BY <1>1, <1>2, <1>3, SeesOn

(* So do those that go on, if none of their loops is changed.              *)
LEMMA SeesTurn ==
    ASSUME NEW Q, NEW c, NEW d, Len(c) \in Nat, Alike(c, d), NEW xs, CallsSee(Q, c, xs),
           NEW ys, \A k \in 0 .. Len(c) : View(c, ys, k) = View(c, xs, k)
    PROVE  CallsSee(Q, d, ys)
<1>1. Len(d) = Len(c) /\ \A i \in 1 .. Len(c) : Same(c[i], d[i])
  BY DEF Alike
<1>2. \A k \in 0 .. Len(c) : View(d, ys, k) = View(c, xs, k)
  BY ViewAlike
<1>3. Len(c) \in 0 .. Len(c)
  OBVIOUS
<1> QED
  BY <1>1, <1>2, <1>3, SeesOn

(* A frame of variables without a loop hides none.                         *)
LEMMA SeesPlain ==
    ASSUME NEW n \in Nat, NEW v, DOMAIN v = 1 .. n, Sees(v),
           NEW w, DOMAIN w = 1 .. n + 1, \A i \in 1 .. n : w[i] = v[i],
           w[n + 1].item = None, w[n + 1].loop = None
    PROVE  Sees(w)
<1> SUFFICES ASSUME NEW i \in 1 .. n + 1, w[i].item # None,
                    \A j \in 1 .. n + 1 : i < j => w[j].item = None
             PROVE  w[i].loop = w[i].item /\ \A j \in 1 .. n + 1 : i < j => w[j].loop = None
  BY DEF Sees
<1>1. i \in 1 .. n
  OBVIOUS
<1>2. v[i].loop = v[i].item /\ \A j \in 1 .. n : i < j => v[j].loop = None
  <2>1. v[i].item # None /\ \A j \in 1 .. n : i < j => v[j].item = None
    BY <1>1
  <2> QED
    BY <1>1, <2>1 DEF Sees
<1> QED
  BY <1>1, <1>2

(* The frame of an iteration that binds loop shows it.                     *)
LEMMA SeesItem ==
    ASSUME NEW n \in Nat, NEW w, DOMAIN w = 1 .. n + 1,
           w[n + 1].item # None, w[n + 1].loop = w[n + 1].item
    PROVE  Sees(w)
<1> SUFFICES ASSUME NEW i \in 1 .. n + 1, w[i].item # None,
                    \A j \in 1 .. n + 1 : i < j => w[j].item = None
             PROVE  w[i].loop = w[i].item /\ \A j \in 1 .. n + 1 : i < j => w[j].loop = None
  BY DEF Sees
<1>1. i = n + 1
  OBVIOUS
<1> QED
  BY <1>1

-----------------------------------------------------------------------------
(* The calls of a render.                                                  *)

Ready(R, Q) == Grounds(R, Q) /\ RInv /\ LoopsInv(R, Q)

(* What each call keeps, when one begins, ends or goes on.                 *)
LEMMA FitPush ==
    ASSUME NEW R, NEW Q, NEW c, IsSeq(c), FramesFit(R, Q, c), NEW f, FrameFits(R, Q, f)
    PROVE  FramesFit(R, Q, Append(c, f))
<1> DEFINE d == Append(c, f)
<1>1. Len(c) \in Nat /\ Len(d) = Len(c) + 1 /\ d[Len(c) + 1] = f
      /\ \A i \in 1 .. Len(c) : d[i] = c[i]
  BY SeqLength, SeqAppend
<1> HIDE DEF d
<1>2. FramesFit(R, Q, d)
  BY <1>1 DEF FramesFit
<1> QED
  BY <1>2 DEF d

(* The call that ends fits, and so do those below it.                      *)
LEMMA FitPop ==
    ASSUME NEW R, NEW Q, NEW c, IsSeq(c), c # << >>, FramesFit(R, Q, c)
    PROVE  FramesFit(R, Q, Front(c)) /\ FrameFits(R, Q, Last(c))
<1>1. /\ Len(c) \in Nat \ {0} /\ Len(Front(c)) = Len(c) - 1
      /\ \A i \in 1 .. Len(c) - 1 : Front(c)[i] = c[i]
  BY SeqLength, SeqFront
<1> QED
  BY <1>1 DEF FramesFit, Last

(* The call that goes on may change what it keeps.                         *)
LEMMA FitTurn ==
    ASSUME NEW R, NEW Q, NEW c, IsSeq(c), c # << >>, FramesFit(R, Q, c),
           NEW f, FrameFits(R, Q, f)
    PROVE  FramesFit(R, Q, Turned(c, f))
<1> DEFINE d == Turned(c, f)
<1>1. /\ Len(c) \in Nat \ {0} /\ Len(d) = Len(c) /\ d[Len(c)] = f
      /\ \A i \in 1 .. Len(c) : i # Len(c) => d[i] = c[i]
  BY SeqLength, SeqExcept DEF Turned
<1> HIDE DEF d
<1>2. FramesFit(R, Q, d)
  BY <1>1 DEF FramesFit
<1> QED
  BY <1>2 DEF d

(* The parts of the invariant in a render that has not failed.             *)
LEMMA LoopsNow ==
    ASSUME NEW R, NEW Q, Ready(R, Q), status \in {"start", "running"}
    PROVE  /\ FramesFit(R, Q, ctl) /\ CallsSee(Q, ctl, ctxs)
           /\ ScopesFit(R, scopes) /\ SpacesFit(R, spaces)
           /\ CallersFit(R, callers) /\ ChainsFit(R, chains) /\ UsesRight
           /\ ContextsInv(ctl, ctxs) /\ IsSeq(ctl) /\ Len(ctl) \in Nat
           /\ IsSeq(ctxs) /\ ctxs # << >> /\ Ctx = Last(ctxs) /\ Ctx \in Context
<1>1. RInv /\ LoopsInv(R, Q)
  BY DEF Ready
<1>2. IsSeq(ctl) /\ DataInv(ctl, ctxs, extCache, serial)
  BY <1>1, TypesNow
<1>3. Len(ctl) \in Nat
  BY <1>2, SeqLength
<1>4. ContextsInv(ctl, ctxs) /\ ctxs # << >> /\ Last(ctxs) \in Context /\ IsSeq(ctxs)
  BY <1>2, ContextsLast DEF DataInv
<1> QED
  BY <1>1, <1>2, <1>3, <1>4 DEF LoopsInv, Ctx

(* The calls of the next state, and their variables.                       *)
LEMMA NextSound ==
    ASSUME RInv', status' # "failed"
    PROVE  IsSeq(ctl') /\ ContextsInv(ctl', ctxs') /\ IsSeq(ctxs') /\ ctxs' # << >>
           /\ Len(ctl') \in Nat
<1>1. CallsInv(lib, ctl, names, callers, scopes, super, chains)'
      /\ DataInv(ctl, ctxs, extCache, serial)'
  BY DEF RInv, Sound
<1>2. IsSeq(ctl') /\ ContextsInv(ctl', ctxs')
  BY <1>1 DEF CallsInv, StackOK, DataInv
<1> QED
  BY <1>2, ContextsLast, SeqLength

(* The same call, one node further.                                        *)
LEMMA PastSees ==
    ASSUME NEW R, NEW Q, Ready(R, Q), Starting
    PROVE  /\ FramesFit(R, Q, Past) /\ CallsSee(Q, Past, ctxs)
           /\ IsSeq(Past) /\ Len(Past) \in Nat /\ ContextsInv(Past, ctxs)
<1> DEFINE f == [role |-> Top.role, body |-> Top.body, copy |-> Top.copy, pos |-> Top.pos + 1,
                 save |-> Top.save]
<1>1. RInv /\ status = "running"
  BY DEF Ready, Starting
<1>2. /\ FramesFit(R, Q, ctl) /\ CallsSee(Q, ctl, ctxs) /\ IsSeq(ctl) /\ Len(ctl) \in Nat
  BY <1>1, LoopsNow
<1>3. /\ ctl # << >> /\ Top = Last(ctl) /\ Top = ctl[Len(ctl)] /\ IsFrame(Top)
      /\ Len(ctl) \in Nat \ {0}
  BY <1>1, TopNow DEF Top
<1>4. /\ Alike(ctl, Past) /\ IsSeq(Past) /\ DataInv(Past, ctxs, extCache, serial)
  BY <1>1, PastNow
<1>5. f = [Top EXCEPT !.pos = @ + 1]
  BY <1>3 DEF IsFrame
<1>6. Past = Turned(ctl, f)
  BY <1>3, <1>5 DEF Past, Turned
<1>7. FrameFits(R, Q, f)
  <2>1. FrameFits(R, Q, Top)
    BY <1>2, <1>3 DEF FramesFit
  <2> QED
    BY <2>1 DEF FrameFits
<1> HIDE DEF f
<1>8. FramesFit(R, Q, Past)
  BY <1>2, <1>3, <1>6, <1>7, FitTurn
<1>9. CallsSee(Q, Past, ctxs)
  <2>1. \A k \in 0 .. Len(ctl) : View(ctl, ctxs, k) = View(ctl, ctxs, k)
    OBVIOUS
  <2> QED
    BY <1>2, <1>4, <2>1, SeesTurn
<1> QED
  BY <1>4, <1>8, <1>9, SeqLength DEF DataInv

(* What stands to be rendered now sees the loop around it, or reads none.  *)
LEMMA HereNow ==
    ASSUME NEW R, NEW Q, Ready(R, Q), Starting, ~Skipped(Top, Current)
    PROVE  /\ Current \in NodesAt(R) /\ Current \in Node
           /\ Sees(LoopsIn(Ctx)) \/ CalmNode({lib}, R, Q, Current)
<1>1. RInv /\ status = "running" /\ Grounds(R, Q)
  BY DEF Ready, Starting
<1>2. /\ FramesFit(R, Q, ctl) /\ CallsSee(Q, ctl, ctxs) /\ IsSeq(ctl)
      /\ ContextsInv(ctl, ctxs) /\ Ctx = Last(ctxs)
  BY <1>1, LoopsNow
<1>3. Len(ctl) \in Nat \ {0} /\ Top = ctl[Len(ctl)]
  BY <1>1, TopNow
<1>4. /\ Top.body \in Bodies /\ Current \in Node /\ Current \in Range(Code[Top.body])
  <2>1. Top.body \in Bodies /\ Top.pos \in 1 .. Len(Code[Top.body]) /\ Current \in Node
    BY <1>1, NodeNow
  <2>2. DOMAIN Code[Top.body] = 1 .. Len(Code[Top.body])
    BY <2>1, CodeNodes
  <2> QED
    BY <2>1, <2>2 DEF Current, Range
<1>5. Top.body # None
  BY <1>4, TemplateConstants
<1>6. Top.body \in R
  BY <1>2, <1>3, <1>5 DEF FramesFit, FrameFits
<1>7. Current \in NodesAt(R)
  BY <1>4, <1>6 DEF NodesAt
<1>8. Sees(LoopsIn(Ctx)) \/ Calm(Q, Top)
  <2>1. View(ctl, ctxs, Len(ctl)) = LoopsIn(Ctx)
    BY <1>2, ViewTop
  <2>2. Len(ctl) \in 1 .. Len(ctl)
    BY <1>3
  <2> QED
    BY <1>2, <1>3, <2>1, <2>2 DEF CallsSee
<1>9. ASSUME Calm(Q, Top) PROVE CalmNode({lib}, R, Q, Current)
  <2>1. CASE Top.role = "module"
    <3>1. Current.kind \in {"set", "setblock"}
      BY <2>1 DEF Skipped
    <3>2. ~ReadsLoop(Current) /\ Inside(Current) \subseteq Q
      BY <1>4, <1>5, <1>9, <2>1, <3>1 DEF Calm, CalmModule
    <3>3. InPlace(Current) = Inside(Current) /\ ByName(R, Current) = {}
      BY <3>1 DEF InPlace, ByName
    <3> QED
      BY <3>1, <3>2, <3>3 DEF CalmNode, StaysCalm
  <2>2. CASE Top.role # "module"
    <3>1. Top.body \in Q
      BY <1>5, <1>9, <2>2 DEF Calm
    <3>2. Current \in NodesAt(Q)
      BY <1>4, <3>1 DEF NodesAt
    <3> QED
      BY <1>1, <3>2 DEF Grounds
  <2> QED
    BY <2>1, <2>2
<1> QED
  BY <1>4, <1>7, <1>8, <1>9

(* The calls with the last stack of variables changed.                     *)
LEMMA ViewsBelow ==
    ASSUME NEW c, IsSeq(c), NEW xs, ContextsInv(c, xs), NEW x,
           \A i \in 1 .. Len(Last(xs).frames) : LoopAt(x.frames[i]) = LoopAt(Last(xs).frames[i])
    PROVE  \A k \in 0 .. Len(c) : View(c, Append(Front(xs), x), k) = View(c, xs, k)
<1>1. IsSeq(xs) /\ xs # << >> /\ Len(Last(xs).frames) = DepthAt(c, Len(c))
  BY ContextsLast
<1>2. Len(xs) = Held(c, Len(c)) /\ Len(c) \in Nat
  BY SeqLength DEF ContextsInv
<1>3. Len(c) \in 0 .. Len(c)
  BY <1>2
<1>4. \A i \in 1 .. DepthAt(c, Len(c)) : LoopAt(x.frames[i]) = LoopAt(Last(xs).frames[i])
  BY <1>1
<1> QED
  BY <1>1, <1>2, <1>3, <1>4, ViewLast

(* A stack of variables with the same loops shows all calls the same.      *)
LEMMA ViewsLast ==
    ASSUME NEW c, IsSeq(c), NEW xs, IsSeq(xs), xs # << >>, NEW x,
           ContextsInv(c, Append(Front(xs), x)),
           \A i \in 1 .. Len(x.frames) : LoopAt(x.frames[i]) = LoopAt(Last(xs).frames[i])
    PROVE  \A k \in 0 .. Len(c) : View(c, Append(Front(xs), x), k) = View(c, xs, k)
<1> DEFINE ys == Append(Front(xs), x)
<1>1. /\ Len(xs) \in Nat \ {0} /\ Len(ys) = Len(xs) /\ ys[Len(ys)] = x
  <2>1. IsSeq(Front(xs)) /\ Len(Front(xs)) = Len(xs) - 1 /\ Len(xs) \in Nat \ {0}
    BY SeqFront, SeqLength
  <2>2. Len(ys) = Len(Front(xs)) + 1 /\ ys[Len(Front(xs)) + 1] = x
    BY <2>1, SeqAppend
  <2>3. Len(Front(xs)) + 1 = Len(xs)
    BY <2>1
  <2> QED
    BY <2>1, <2>2, <2>3
<1>2. /\ Last(ys) = ys[Len(ys)] /\ Len(Last(ys).frames) = DepthAt(c, Len(c))
  BY ContextsLast
<1>3. Len(xs) = Held(c, Len(c)) /\ Len(c) \in Nat
  BY <1>1, SeqLength DEF ContextsInv
<1>4. \A i \in 1 .. DepthAt(c, Len(c)) : LoopAt(x.frames[i]) = LoopAt(Last(xs).frames[i])
  BY <1>1, <1>2
<1>5. Len(c) \in 0 .. Len(c)
  BY <1>3
<1> QED
  BY <1>3, <1>4, <1>5, ViewLast

(* A call that begins.                                                     *)
LEMMA LoopsPush ==
    ASSUME NEW R, NEW Q, Ready(R, Q), async' = async, RInv', Starting, status' # "failed",
           NEW f, FrameFits(R, Q, f), ctl' = Append(Past, f),
           \A k \in 0 .. Len(Past) : View(Past, ctxs', k) = View(Past, ctxs, k),
           Sees(LoopsIn(Last(ctxs'))) \/ Calm(Q, f)
    PROVE  FramesFit(R, Q, ctl') /\ CallsSee(Q, ctl', ctxs')
<1>1. /\ FramesFit(R, Q, Past) /\ CallsSee(Q, Past, ctxs)
      /\ IsSeq(Past) /\ Len(Past) \in Nat
  BY PastSees
<1>2. IsSeq(ctl') /\ ContextsInv(ctl', ctxs')
  BY NextSound
<1>3. FramesFit(R, Q, ctl')
  BY <1>1, FitPush
<1>4. /\ Len(ctl') = Len(Past) + 1 /\ ctl'[Len(Past) + 1] = f
      /\ \A i \in 1 .. Len(Past) : ctl'[i] = Past[i]
  BY <1>1, SeqAppend
<1>5. Above(Past, ctl') /\ Last(ctl') = f
  BY <1>4, SameFrame DEF Above, Last
<1>6. View(ctl', ctxs', Len(ctl')) = LoopsIn(Last(ctxs'))
  BY <1>2, ViewTop
<1>7. Sees(View(ctl', ctxs', Len(ctl'))) \/ Calm(Q, Last(ctl'))
  BY <1>5, <1>6
<1>8. CallsSee(Q, ctl', ctxs')
  BY <1>1, <1>5, <1>7, SeesPush
<1> QED
  BY <1>3, <1>8

(* A call that ends.                                                       *)
LEMMA LoopsPop ==
    ASSUME NEW R, NEW Q, Ready(R, Q), status = "running", NEW c, c = Front(ctl),
           NEW ys, \A k \in 0 .. Len(c) : View(c, ys, k) = View(c, ctxs, k)
    PROVE  /\ FramesFit(R, Q, c) /\ CallsSee(Q, c, ys) /\ FrameFits(R, Q, Top)
           /\ Above(c, ctl) /\ IsSeq(c) /\ Len(c) \in Nat
<1>1. FramesFit(R, Q, ctl) /\ CallsSee(Q, ctl, ctxs) /\ IsSeq(ctl)
  BY LoopsNow
<1>2. RInv
  BY DEF Ready
<1>3. ctl # << >> /\ Top = Last(ctl) /\ StackOK(ctl)
  BY <1>2, TopNow, TypesNow DEF Top, CallsInv
<1>4. StackOK(c) /\ Above(c, ctl)
  BY <1>3, StackPop
<1>5. IsSeq(c) /\ Len(c) \in Nat
  BY <1>4, SeqLength DEF StackOK
<1>6. FramesFit(R, Q, c) /\ FrameFits(R, Q, Top)
  BY <1>1, <1>3, FitPop
<1>7. CallsSee(Q, c, ys)
  BY <1>1, <1>4, <1>5, SeesPop
<1> QED
  BY <1>4, <1>5, <1>6, <1>7

(* Calls that change nothing else.                                         *)
LEMMA LoopsStay ==
    ASSUME NEW R, NEW Q, Ready(R, Q), async' = async, status \in {"start", "running"},
           FramesFit(R, Q, ctl'), CallsSee(Q, ctl', ctxs'),
           UNCHANGED <<scopes, spaces, callers, chains, loopUse>>
    PROVE  LoopsInv(R, Q)'
<1>1. /\ ScopesFit(R, scopes) /\ SpacesFit(R, spaces)
      /\ CallersFit(R, callers) /\ ChainsFit(R, chains) /\ UsesRight
  BY LoopsNow
<1>2. /\ scopes' = scopes /\ spaces' = spaces /\ callers' = callers /\ chains' = chains
      /\ loopUse' = loopUse /\ async' = async
  BY DEF Ready
<1>3. UsesRight'
  BY <1>1, <1>2 DEF UsesRight
<1> QED
  BY <1>1, <1>2, <1>3 DEF LoopsInv

(* A render that fails.                                                    *)
LEMMA LoopsFail ==
    ASSUME NEW R, NEW Q, Fail PROVE LoopsInv(R, Q)'
  BY DEF Fail, LoopsInv

-----------------------------------------------------------------------------
(* Nodes that render a body in place, or nothing.                          *)

(* The bodies in a node that are rendered in place.                        *)
LEMMA PlaceFields ==
    \A node :
        /\ InPlace(node) \subseteq Inside(node)
        /\ node.kind \in {"if", "ifAsync"} => InPlace(node) = Range(node.branches)
        /\ node.kind = "switch" => InPlace(node) = Range(node.cases) \cup {node.default}
        /\ node.kind \in {"for", "asyncFor"} => InPlace(node) = {node.otherwise}
        /\ node.kind \in {"setblock", "filter", "ext"} => InPlace(node) = {node.body}
  BY DEF InPlace, Inside

BodyRoles == {"nodes", "filter", "capture", "ext"}

Renders(body) ==
    \E role \in BodyRoles : \E save :
        Push(Nested(role, body, save)) /\ (role = "capture" => save.var # "loop")

(* Such a step keeps the variables, or their loops.                        *)
LEMMA BodySees ==
    ASSUME NEW R, NEW Q, Ready(R, Q), async' = async, RInv', Starting,
           \/ Continue
           \/ ~Skipped(Top, Current) /\ \E body \in InPlace(Current) \ {None} : Renders(body),
           \A k \in 0 .. Len(Past) : View(Past, ctxs', k) = View(Past, ctxs, k),
           LoopsIn(Last(ctxs')) = LoopsIn(Ctx),
           UNCHANGED <<scopes, spaces, callers, chains>>, UsesRight'
    PROVE  LoopsInv(R, Q)'
<1>1. status = "running" /\ Grounds(R, Q)
  BY DEF Starting, Ready
<1>2. FramesFit(R, Q, ctl') /\ CallsSee(Q, ctl', ctxs')
  <2>1. CASE Continue
    <3>1. ctl' = Past
      BY <2>1 DEF Continue
    <3>2. FramesFit(R, Q, Past) /\ CallsSee(Q, Past, ctxs) /\ Len(Past) \in Nat
      BY PastSees
    <3>3. Alike(Past, Past)
      BY SameFrame DEF Alike
    <3>4. CallsSee(Q, Past, ctxs')
      BY <3>2, <3>3, SeesTurn
    <3> QED
      BY <3>1, <3>2, <3>4
  <2>2. CASE ~Skipped(Top, Current) /\ \E body \in InPlace(Current) \ {None} : Renders(body)
    <3>1. PICK body \in InPlace(Current) \ {None} : Renders(body)
      BY <2>2
    <3>2. PICK role \in BodyRoles : \E save :
             Push(Nested(role, body, save)) /\ (role = "capture" => save.var # "loop")
      BY <3>1 DEF Renders
    <3>3. PICK save : Push(Nested(role, body, save)) /\ (role = "capture" => save.var # "loop")
      BY <3>2
    <3> DEFINE f == Nested(role, body, save)
    <3>4. ctl' = Append(Past, f) /\ status' # "failed"
      BY <1>1, <3>3 DEF Push
    <3>5. /\ Current \in NodesAt(R)
          /\ Sees(LoopsIn(Ctx)) \/ CalmNode({lib}, R, Q, Current)
      BY <2>2, HereNow
    <3>6. body \in R
      BY <1>1, <3>1, <3>5, PlaceFields DEF Grounds, Reaches
    <3>7. CalmNode({lib}, R, Q, Current) => body \in Q
      BY <3>1 DEF CalmNode, StaysCalm
    <3>8. f.role = role /\ f.body = body /\ f.save = save
      BY DEF Nested, Frame
    <3> HIDE DEF f
    <3>9. FrameFits(R, Q, f)
      BY <3>2, <3>3, <3>6, <3>8 DEF FrameFits, BodyRoles
    <3>10. Sees(LoopsIn(Last(ctxs'))) \/ Calm(Q, f)
      BY <3>2, <3>5, <3>7, <3>8 DEF Calm, BodyRoles
    <3> QED
      BY <3>4, <3>9, <3>10, LoopsPush
  <2> QED
    BY <2>1, <2>2
<1>3. /\ ScopesFit(R, scopes) /\ SpacesFit(R, spaces)
      /\ CallersFit(R, callers) /\ ChainsFit(R, chains)
  BY <1>1, LoopsNow
<1>4. /\ scopes' = scopes /\ spaces' = spaces /\ callers' = callers /\ chains' = chains
  OBVIOUS
<1> QED
  BY <1>2, <1>3, <1>4 DEF LoopsInv

(* One that changes no variable.                                           *)
LEMMA PlaceSees ==
    ASSUME NEW R, NEW Q, Ready(R, Q), async' = async, RInv', Starting,
           \/ Continue
           \/ ~Skipped(Top, Current) /\ \E body \in InPlace(Current) \ {None} : Renders(body),
           UNCHANGED <<modules, callers, chains, ctxs, loopUse>>
    PROVE  LoopsInv(R, Q)'
<1>1. /\ scopes' = scopes /\ spaces' = spaces /\ callers' = callers /\ chains' = chains
      /\ ctxs' = ctxs /\ loopUse' = loopUse /\ async' = async
  BY DEF modules, Ready
<1>2. UsesRight
  BY LoopsNow DEF Starting
<1>3. UsesRight'
  BY <1>1, <1>2 DEF UsesRight
<1>4. LoopsIn(Last(ctxs')) = LoopsIn(Ctx)
  BY <1>1 DEF Ctx
<1>5. \A k \in 0 .. Len(Past) : View(Past, ctxs', k) = View(Past, ctxs, k)
  BY <1>1
<1>6. UNCHANGED <<scopes, spaces, callers, chains>>
  BY <1>1
<1> QED
  BY <1>3, <1>4, <1>5, <1>6, BodySees

(* A body or nothing.                                                      *)
LEMMA MaybeRenders ==
    ASSUME NEW body \in InPlace(Current), MaybeNodes(body)
    PROVE  Continue \/ \E inner \in InPlace(Current) \ {None} : Renders(inner)
<1>1. CASE body = None
  BY <1>1 DEF MaybeNodes
<1>2. CASE body # None
  <2>1. Push(Nested("nodes", body, None)) /\ "nodes" \in BodyRoles /\ "nodes" # "capture"
    BY <1>2 DEF MaybeNodes, BodyRoles
  <2>2. Renders(body)
    BY <2>1 DEF Renders
  <2> QED
    BY <1>2, <2>2
<1> QED
  BY <1>1, <1>2

(* Nodes that render nothing (render_single_node).                         *)
LEMMA SkipSees ==
    ASSUME NEW R, NEW Q, Ready(R, Q), async' = async, RInv', Skip PROVE LoopsInv(R, Q)'
<1>1. /\ Starting /\ Continue
      /\ UNCHANGED <<modules, callers, chains, ctxs, loopUse>>
  BY DEF Skip, caches
<1> QED
  BY <1>1, PlaceSees

(* One of the branches, or none (render_single_node, If).                  *)
LEMMA IfSees ==
    ASSUME NEW R, NEW Q, Ready(R, Q), async' = async, RInv', If \/ IfAsync PROVE LoopsInv(R, Q)'
<1>1. /\ Starting /\ Current.kind \in {"if", "ifAsync"} /\ ~Skipped(Top, Current)
      /\ UNCHANGED <<modules, callers, chains, ctxs, loopUse>>
      /\ \/ \E body \in Range(Current.branches) : Push(Nested("nodes", body, None))
         \/ Continue
  BY DEF If, IfAsync, At, caches
<1>2. Current \in Node /\ RInv
  BY <1>1, HereNow DEF Ready
<1>3. ASSUME NEW body \in Range(Current.branches), Push(Nested("nodes", body, None))
      PROVE  body \in InPlace(Current) \ {None} /\ Renders(body)
  <2>1. Current.branches \in Seq(Bodies)
    BY <1>1, <1>2, BranchFields
  <2>2. body \in Bodies
    BY <2>1 DEF Range
  <2>3. "nodes" \in BodyRoles /\ "nodes" # "capture"
    BY DEF BodyRoles
  <2>4. Renders(body)
    BY <1>3, <2>3 DEF Renders
  <2> QED
    BY <1>1, <2>2, <2>4, PlaceFields, TemplateConstants
<1> QED
  BY <1>1, <1>3, PlaceSees

(* The cases from the one that matches on (render_single_node, Switch).    *)
LEMMA SwitchSees ==
    ASSUME NEW R, NEW Q, Ready(R, Q), async' = async, RInv', Switch PROVE LoopsInv(R, Q)'
<1>1. /\ Starting /\ Current.kind = "switch" /\ ~Skipped(Top, Current)
      /\ UNCHANGED <<modules, callers, chains, ctxs, loopUse>>
  BY DEF Switch, At, caches
<1>2. Current \in Node /\ RInv
  BY <1>1, HereNow DEF Ready
<1>3. Current.cases \in Seq(Bodies) /\ Current.default \in Bodies \cup {None}
  BY <1>1, <1>2, BranchFields
<1> DEFINE Full(start) == {i \in start .. Len(Current.cases) : Code[Current.cases[i]] # << >>}
<1>4. PICK start \in 1 .. Len(Current.cases) + 1 :
         IF Full(start) = {} THEN MaybeNodes(Current.default)
         ELSE Push(Nested("nodes", Current.cases[Min(Full(start))], None))
  BY DEF Switch
<1>5. InPlace(Current) = Range(Current.cases) \cup {Current.default}
  BY <1>1, PlaceFields
<1>6. CASE Full(start) = {}
  <2>1. MaybeNodes(Current.default) /\ Current.default \in InPlace(Current)
    BY <1>4, <1>5, <1>6
  <2>2. Continue \/ \E inner \in InPlace(Current) \ {None} : Renders(inner)
    BY <2>1, MaybeRenders
  <2> QED
    BY <1>1, <2>2, PlaceSees
<1>7. CASE Full(start) # {}
  <2> DEFINE body == Current.cases[Min(Full(start))]
  <2>1. Len(Current.cases) \in Nat /\ \A i \in Full(start) : i \in 1 .. Len(Current.cases)
    BY <1>3, <1>4
  <2>2. Push(Nested("nodes", body, None))
    BY <1>4, <1>7
  <2> HIDE DEF Full
  <2>3. Min(Full(start)) \in 1 .. Len(Current.cases)
    BY <1>7, <2>1, MinMember
  <2>4. body \in Bodies /\ body \in Range(Current.cases)
    BY <1>3, <2>3 DEF Range
  <2>5. body \in InPlace(Current) \ {None}
    BY <1>5, <2>4, TemplateConstants
  <2> HIDE DEF body
  <2>6. Renders(body)
    <3>1. "nodes" \in BodyRoles /\ "nodes" # "capture"
      BY DEF BodyRoles
    <3> QED
      BY <2>2, <3>1 DEF Renders
  <2> QED
    BY <1>1, <2>5, <2>6, PlaceSees
<1> QED
  BY <1>6, <1>7

(* The body of a filter block (render_single_node, FilterBlock).           *)
LEMMA FilterSees ==
    ASSUME NEW R, NEW Q, Ready(R, Q), async' = async, RInv', FilterBlock PROVE LoopsInv(R, Q)'
<1>1. /\ Starting /\ Current.kind = "filter" /\ ~Skipped(Top, Current)
      /\ Push(Nested("filter", Current.body, None))
      /\ UNCHANGED <<modules, callers, chains, ctxs, loopUse>>
  BY DEF FilterBlock, At, caches
<1>2. Current \in Node /\ RInv
  BY <1>1, HereNow DEF Ready
<1>3. Current.body \in InPlace(Current) \ {None}
  BY <1>1, <1>2, PlaceFields, BodyFields, TemplateConstants
<1>4. "filter" \in BodyRoles /\ "filter" # "capture"
  BY DEF BodyRoles
<1>5. Renders(Current.body)
  BY <1>1, <1>4 DEF Renders
<1> QED
  BY <1>1, <1>3, <1>5, PlaceSees

(* The body that is captured (eval_set_node).                              *)
LEMMA SetBlockSees ==
    ASSUME NEW R, NEW Q, Ready(R, Q), async' = async, RInv', SetBlock PROVE LoopsInv(R, Q)'
<1> DEFINE save == [var |-> Current.var]
<1>1. /\ Starting /\ Current.kind = "setblock" /\ ~Skipped(Top, Current)
      /\ Push(Nested("capture", Current.body, save))
      /\ UNCHANGED <<modules, callers, chains, ctxs, loopUse>>
  BY DEF SetBlock, At, caches
<1>2. Current \in Node /\ RInv /\ Current \in NodesAt(R) /\ Grounds(R, Q)
  BY <1>1, HereNow DEF Ready
<1>3. Current.body \in InPlace(Current) \ {None}
  BY <1>1, <1>2, PlaceFields, BodyFields, TemplateConstants
<1>4. save.var # "loop"
  BY <1>1, <1>2 DEF Grounds, OnlyLoopsBindLoop
<1> HIDE DEF save
<1>5. "capture" \in BodyRoles
  BY DEF BodyRoles
<1>6. Renders(Current.body)
  BY <1>1, <1>4, <1>5 DEF Renders
<1> QED
  BY <1>1, <1>3, <1>6, PlaceSees

(* The body of an extension tag, if it has one.                            *)
LEMMA TagSees ==
    ASSUME NEW R, NEW Q, Ready(R, Q), async' = async, RInv', ExtensionTag \/ AsyncTag
    PROVE  LoopsInv(R, Q)'
<1>1. /\ Starting /\ Current.kind = "ext" /\ ~Skipped(Top, Current)
      /\ UNCHANGED <<modules, callers, chains, ctxs, loopUse>>
  BY DEF ExtensionTag, AsyncTag, At, caches
<1>2. CASE Current.body = None
  <2>1. Continue
    BY <1>2 DEF ExtensionTag, AsyncTag
  <2> QED
    BY <1>1, <2>1, PlaceSees
<1>3. CASE Current.body # None
  <2>1. \E save : Push(Nested("ext", Current.body, save))
    BY <1>3 DEF ExtensionTag, AsyncTag
  <2>2. "ext" \in BodyRoles /\ "ext" # "capture"
    BY DEF BodyRoles
  <2>3. Renders(Current.body)
    BY <2>1, <2>2 DEF Renders
  <2>4. Current.body \in InPlace(Current) \ {None}
    BY <1>1, <1>3, PlaceFields
  <2> QED
    BY <1>1, <2>3, <2>4, PlaceSees
<1> QED
  BY <1>2, <1>3

(* The else of a loop over nothing (eval_for_node).                        *)
LEMMA ForEmptySees ==
    ASSUME NEW R, NEW Q, Ready(R, Q), async' = async, RInv', ForEmpty \/ AsyncForEmpty
    PROVE  LoopsInv(R, Q)'
<1>1. /\ Starting /\ Current.kind \in {"for", "asyncFor"} /\ ~Skipped(Top, Current)
      /\ MaybeNodes(Current.otherwise)
      /\ UNCHANGED <<modules, callers, chains, ctxs, loopUse>>
  BY DEF ForEmpty, AsyncForEmpty, AtLoop, At, caches
<1>2. Current.otherwise \in InPlace(Current)
  BY <1>1, PlaceFields
<1>3. Continue \/ \E inner \in InPlace(Current) \ {None} : Renders(inner)
  BY <1>1, <1>2, MaybeRenders
<1> QED
  BY <1>1, <1>3, PlaceSees

-----------------------------------------------------------------------------
(* What the operations on variables do to the loops.                       *)

SameLoops(x, y) ==
    /\ Len(y.frames) = Len(x.frames)
    /\ \A i \in 1 .. Len(x.frames) : LoopAt(y.frames[i]) = LoopAt(x.frames[i])

(* A stack with the same loops has the same loops.                         *)
LEMMA SameIn ==
    ASSUME NEW x, NEW y, SameLoops(x, y)
    PROVE  LoopsIn(y) = LoopsIn(x)
  BY DEF SameLoops, LoopsIn

(* The frames of a stack.                                                  *)
LEMMA FramesNow ==
    ASSUME NEW x \in Context
    PROVE  /\ x.frames \in Seq(Frames)
           /\ Len(x.frames) \in Nat /\ DOMAIN x.frames = 1 .. Len(x.frames)
           /\ \A i \in 1 .. Len(x.frames) :
                 /\ x.frames[i] = [vars |-> x.frames[i].vars, item |-> x.frames[i].item]
                 /\ x.frames[i].vars \in Bindings /\ x.frames[i].item \in Values \cup {None}
<1>1. x.frames \in Seq(Frames)
  BY DEF Context
<1>2. Len(x.frames) \in Nat /\ DOMAIN x.frames = 1 .. Len(x.frames)
      /\ \A i \in 1 .. Len(x.frames) : x.frames[i] \in Frames
  BY <1>1
<1> QED
  BY <1>1, <1>2 DEF Frames

(* Any other variable may be set.                                          *)
LEMMA SetVarLoops ==
    ASSUME NEW x \in Context, NEW v \in Vars, v # "loop", NEW val
    PROVE  SameLoops(x, SetVar(x, v, val))
<1> DEFINE k == Binder(x, v)
           old == x.frames
           new == [old EXCEPT ![k].vars[v] = val]
<1>1. /\ Len(old) \in Nat /\ DOMAIN old = 1 .. Len(old)
      /\ \A i \in 1 .. Len(old) : /\ old[i] = [vars |-> old[i].vars, item |-> old[i].item]
                                  /\ old[i].vars \in Bindings
  BY FramesNow
<1>2. SetVar(x, v, val).frames = new
  BY DEF SetVar, Revised
<1> HIDE DEF k, old
<1>3. /\ DOMAIN new = 1 .. Len(old)
      /\ \A i \in 1 .. Len(old) : new[i] = IF i = k THEN [old[i] EXCEPT !.vars[v] = val] ELSE old[i]
  BY <1>1
<1>4. Len(new) = Len(old)
  BY <1>1, <1>3
<1>5. "loop" \in Vars
  BY TemplateConstants
<1> HIDE DEF new
<1>6. ASSUME NEW i \in 1 .. Len(old) PROVE LoopAt(new[i]) = LoopAt(old[i])
  <2> DEFINE g == [old[i] EXCEPT !.vars[v] = val]
  <2>1. g.item = old[i].item /\ g.vars = [old[i].vars EXCEPT ![v] = val]
    BY <1>1
  <2>2. old[i].vars \in Bindings
    BY <1>1
  <2>3. g.vars["loop"] = old[i].vars["loop"]
    BY <1>5, <2>1, <2>2 DEF Bindings
  <2> HIDE DEF g
  <2>4. LoopAt(g) = LoopAt(old[i])
    BY <2>1, <2>3 DEF LoopAt
  <2> QED
    BY <1>3, <2>4 DEF g
<1> QED
  BY <1>2, <1>4, <1>6 DEF SameLoops, old

(* So may several, without loop.                                           *)
LEMMA SetVarsLoops ==
    ASSUME NEW x \in Context, NEW vals, vals["loop"] = None, NEW n
    PROVE  SameLoops(x, SetVars(x, vals, n))
<1> DEFINE old == x.frames
           new == SetVars(x, vals, n).frames
<1>1. /\ Len(old) \in Nat /\ DOMAIN old = 1 .. Len(old)
      /\ \A i \in 1 .. Len(old) : /\ old[i] = [vars |-> old[i].vars, item |-> old[i].item]
                                  /\ old[i].vars \in Bindings
  BY FramesNow
<1>2. new = [i \in DOMAIN old |->
                [old[i] EXCEPT !.vars = [v \in Vars |->
                    IF vals[v] # None /\ Binder(x, v) = i THEN vals[v] ELSE @[v]]]]
  BY DEF SetVars, Revised
<1> HIDE DEF old, new
<1>3. DOMAIN new = 1 .. Len(old)
  BY <1>1, <1>2
<1>4. Len(new) = Len(old)
  BY <1>1, <1>3
<1>5. "loop" \in Vars
  BY TemplateConstants
<1>6. ASSUME NEW i \in 1 .. Len(old) PROVE LoopAt(new[i]) = LoopAt(old[i])
  <2> DEFINE w == [v \in Vars |-> IF vals[v] # None /\ Binder(x, v) = i THEN vals[v]
                                  ELSE old[i].vars[v]]
  <2>1. new[i] = [old[i] EXCEPT !.vars = w]
    BY <1>1, <1>2
  <2>2. w["loop"] = old[i].vars["loop"]
    BY <1>5
  <2> HIDE DEF w
  <2>3. new[i].item = old[i].item /\ new[i].vars = w
    BY <1>1, <2>1
  <2> QED
    BY <2>2, <2>3 DEF LoopAt
<1> QED
  BY <1>4, <1>6 DEF SameLoops, old, new

(* The frames that stay when one is popped are what they were.             *)
LEMMA PopLoops ==
    ASSUME NEW x \in Context
    PROVE  \A i \in 1 .. Len(PopFrame(x).frames) :
              LoopAt(PopFrame(x).frames[i]) = LoopAt(x.frames[i])
<1>1. x.frames \in Seq(Frames) /\ Len(x.frames) \in Nat
  BY FramesNow
<1>2. IsSeq(x.frames)
  BY <1>1, SeqAny
<1>3. CASE Len(x.frames) > 1
  <2>1. PopFrame(x).frames = Front(x.frames)
    BY <1>3 DEF PopFrame, Revised
  <2>2. x.frames # << >>
    BY <1>2, <1>3, SeqLength
  <2>3. /\ Len(Front(x.frames)) = Len(x.frames) - 1
        /\ \A i \in 1 .. Len(x.frames) - 1 : Front(x.frames)[i] = x.frames[i]
    BY <1>2, <2>2, SeqFront
  <2> QED
    BY <2>1, <2>3
<1>4. CASE ~(Len(x.frames) > 1)
  BY <1>4 DEF PopFrame
<1> QED
  BY <1>3, <1>4

(* Nothing is left of a frame that is pushed and popped.                   *)
LEMMA PushPopLoops ==
    ASSUME NEW x \in Context, Len(x.frames) # 0
    PROVE  SameLoops(x, PopFrame(PushFrame(x)))
<1> DEFINE y == PushFrame(x)
           z == PopFrame(y)
<1>1. x.frames \in Seq(Frames) /\ Len(x.frames) \in Nat
  BY FramesNow
<1>2. IsSeq(x.frames)
  BY <1>1, SeqAny
<1>3. y.frames = Append(x.frames, EmptyFrame) /\ Len(y.frames) = Len(x.frames) + 1
      /\ \A i \in 1 .. Len(x.frames) : y.frames[i] = x.frames[i]
  BY <1>2, SeqAppend DEF PushFrame, Revised
<1>4. Advances(x, y)
  BY PushType, NoBindingsType DEF PushFrame
<1> HIDE DEF y
<1>5. y \in Context
  BY <1>4 DEF Advances
<1>6. \A i \in 1 .. Len(z.frames) : LoopAt(z.frames[i]) = LoopAt(y.frames[i])
  BY <1>5, PopLoops
<1>7. Len(z.frames) = Len(x.frames)
  BY <1>1, <1>3, <1>5, PopType
<1> HIDE DEF z
<1> QED
  BY <1>3, <1>6, <1>7 DEF SameLoops, z, y

(* The frame of a loop, its variables and its iteration are the last.      *)
LEMMA BindLoops ==
    ASSUME NEW x \in Context, NEW n \in Nat, Len(x.frames) = n + 1,
           NEW targets, NEW val,
           NEW y, y = SetLocal(x, targets, val)
    PROVE  /\ Len(y.frames) = n + 1
           /\ \A i \in 1 .. n : y.frames[i] = x.frames[i]
           /\ y.frames[n + 1].vars["loop"] =
                 IF "loop" \in Range(targets) THEN val ELSE x.frames[n + 1].vars["loop"]
<1> DEFINE old == x.frames
           m == n + 1
           g == [old[m] EXCEPT !.vars = BindAll(@, targets, val)]
<1>1. /\ IsSeq(old) /\ m \in 1 .. Len(old)
      /\ old[m] = [vars |-> old[m].vars, item |-> old[m].item]
  BY FramesNow, SeqAny
<1>2. y.frames = [old EXCEPT ![m] = g]
  BY DEF SetLocal, Revised, BindInner
<1>3. g.vars = BindAll(old[m].vars, targets, val)
  BY <1>1
<1> HIDE DEF g, old, m
<1>4. /\ Len([old EXCEPT ![m] = g]) = Len(old)
      /\ \A i \in 1 .. Len(old) : i # m => [old EXCEPT ![m] = g][i] = old[i]
      /\ [old EXCEPT ![m] = g][m] = g
  BY <1>1, SeqExcept
<1>5. "loop" \in Vars
  BY TemplateConstants
<1>6. g.vars["loop"] = IF "loop" \in Range(targets) THEN val ELSE old[m].vars["loop"]
  BY <1>3, <1>5 DEF BindAll
<1>7. Len(y.frames) = n + 1 /\ y.frames[m] = g
  BY <1>2, <1>4 DEF old
<1>8. \A i \in 1 .. n : y.frames[i] = old[i]
  <2>1. \A i \in 1 .. n : i \in 1 .. Len(old) /\ i # m
    BY DEF old, m
  <2> QED
    BY <1>2, <1>4, <2>1
<1> QED
  BY <1>6, <1>7, <1>8 DEF old, m

(* The binding of the variable loop, if any, is in the last frame.         *)
LoopBound(ctx, i, of) == SetLocal(ctx, <<"loop">>, LoopObject(i, of))

(* It shows the loop, in the last frame and nowhere else.                  *)
LEMMA LoopBoundIs ==
    ASSUME NEW x \in Context, Len(x.frames) # 0, NEW i \in Nat, NEW of \in Nat
    PROVE  /\ LoopBound(x, i, of) \in Context
           /\ Len(LoopBound(x, i, of).frames) = Len(x.frames)
           /\ \A j \in 1 .. Len(x.frames) :
                 j # Len(x.frames) => LoopBound(x, i, of).frames[j] = x.frames[j]
           /\ Last(LoopBound(x, i, of).frames).vars["loop"] = LoopObject(i, of)
<1> DEFINE val == LoopObject(i, of)
           s == SetLocal(x, <<"loop">>, val)
           m == Len(x.frames)
           n == m - 1
<1>0. m \in Nat /\ n \in Nat /\ m = n + 1
  BY FramesNow
<1> HIDE DEF m, n
<1>1. val \in Values /\ <<"loop">> \in Seq(Vars) /\ "loop" \in Range(<<"loop">>)
  <2>1. val \in Values /\ <<"loop">> \in Seq(Vars)
    BY TemplateConstants DEF LoopObject, Values
  <2> DEFINE one == <<"loop">>
  <2>2. 1 \in DOMAIN one /\ one[1] = "loop"
    OBVIOUS
  <2>3. "loop" \in Range(one)
    BY <2>2 DEF Range
  <2> QED
    BY <2>1, <2>3
<1>2. Len(x.frames) = n + 1
  BY <1>0 DEF m
<1>3. s = SetLocal(x, <<"loop">>, val)
  OBVIOUS
<1>4. s \in Context
  <2>1. Advances(x, s)
    BY <1>1, SetLocalType
  <2> HIDE DEF s
  <2> QED
    BY <2>1 DEF Advances
<1>5. /\ Len(s.frames) = n + 1 /\ \A j \in 1 .. n : s.frames[j] = x.frames[j]
      /\ s.frames[n + 1].vars["loop"] =
            IF "loop" \in Range(<<"loop">>) THEN val ELSE x.frames[n + 1].vars["loop"]
  <2> DEFINE one == <<"loop">>
  <2>1. s = SetLocal(x, one, val)
    BY <1>3
  <2> HIDE DEF one, s, val
  <2>2. /\ Len(s.frames) = n + 1 /\ \A j \in 1 .. n : s.frames[j] = x.frames[j]
        /\ s.frames[n + 1].vars["loop"] =
              IF "loop" \in Range(one) THEN val ELSE x.frames[n + 1].vars["loop"]
    BY <1>0, <1>2, <2>1, BindLoops
  <2> QED
    BY <2>2 DEF one
<1>6. s = LoopBound(x, i, of)
  BY DEF LoopBound
<1> HIDE DEF s, val
<1>7. s.frames[n + 1].vars["loop"] = val
  BY <1>1, <1>5
<1>8. Last(s.frames) = s.frames[n + 1]
  BY <1>5 DEF Last
<1>9. \A j \in 1 .. m : j # m => s.frames[j] = x.frames[j]
  BY <1>0, <1>5
<1>10. Len(s.frames) = m
  BY <1>0, <1>5
<1> QED
  BY <1>4, <1>6, <1>7, <1>8, <1>9, <1>10 DEF m, val

(* An iteration changes the last frame only.                               *)
Marked(ctx, val) == Revised(ctx, 0, [ctx.frames EXCEPT ![Len(ctx.frames)].item = val])

(* The variables of an iteration leave the variable loop alone.            *)
LEMMA IterateBound ==
    ASSUME NEW x \in Context, Len(x.frames) # 0, NEW i \in Nat, NEW of \in Nat,
           NEW targets \in Seq(Vars), "loop" \notin Range(targets),
           NEW bound, bound = SetLocal(x, targets, Item(i)),
           NEW y,
           y = Marked(bound, LoopObject(i, of))
    PROVE  /\ Len(y.frames) = Len(x.frames)
           /\ \A j \in 1 .. Len(x.frames) : j # Len(x.frames) => y.frames[j] = x.frames[j]
           /\ Last(y.frames).item = LoopObject(i, of)
           /\ Last(y.frames).vars["loop"] = Last(x.frames).vars["loop"]
<1> DEFINE val == LoopObject(i, of)
           m == Len(x.frames)
           n == m - 1
<1>0. m \in Nat /\ n \in Nat /\ m = n + 1
  BY FramesNow
<1> HIDE DEF m, n
<1>1. Item(i) \in Values
  BY TemplateConstants DEF Item, Values
<1>2. Len(x.frames) = n + 1
  BY <1>0 DEF m
<1> DEFINE old == bound.frames
           g == [old[m] EXCEPT !.item = val]
<1>3. /\ Len(old) = m /\ \A j \in 1 .. n : old[j] = x.frames[j]
      /\ old[m].vars["loop"] = x.frames[m].vars["loop"]
  BY <1>0, <1>2, BindLoops
<1>4. bound \in Context
  <2>1. Advances(x, bound)
    BY <1>1, SetLocalType
  <2> QED
    BY <2>1 DEF Advances
<1>5. /\ IsSeq(old) /\ m \in 1 .. Len(old)
      /\ old[m] = [vars |-> old[m].vars, item |-> old[m].item]
  BY <1>0, <1>3, <1>4, FramesNow, SeqAny
<1>6. y.frames = [old EXCEPT ![m] = g] /\ g.item = val /\ g.vars = old[m].vars
  BY <1>3, <1>5 DEF Revised, Marked
<1> HIDE DEF g, old, val
<1>7. /\ Len(y.frames) = m /\ y.frames[m] = g
      /\ \A j \in 1 .. Len(old) : j # m => y.frames[j] = old[j]
  <2>1. /\ Len([old EXCEPT ![m] = g]) = Len(old) /\ [old EXCEPT ![m] = g][m] = g
        /\ \A j \in 1 .. Len(old) : j # m => [old EXCEPT ![m] = g][j] = old[j]
    BY <1>5, SeqExcept
  <2> QED
    BY <1>3, <1>6, <2>1
<1>8. \A j \in 1 .. m : j # m => y.frames[j] = x.frames[j]
  <2>1. \A j \in 1 .. m : j # m => j \in 1 .. n /\ j \in 1 .. Len(old)
    BY <1>0, <1>3
  <2> QED
    BY <1>3, <1>7, <2>1
<1>9. Last(y.frames) = g /\ Last(x.frames) = x.frames[m]
  BY <1>0, <1>7 DEF Last, m
<1> QED
  BY <1>3, <1>6, <1>7, <1>8, <1>9 DEF m, val

(* An iteration changes the last frame only.                               *)
LEMMA IterateLoops ==
    ASSUME NEW x \in Context, Len(x.frames) # 0, NEW needs,
           NEW i \in Nat, NEW of \in Nat, NEW targets \in Seq(Vars),
           "loop" \notin Range(targets),
           NEW y, y = Iterate(x, needs, i, of, targets)
    PROVE  /\ Len(y.frames) = Len(x.frames)
           /\ \A j \in 1 .. Len(x.frames) : j # Len(x.frames) => y.frames[j] = x.frames[j]
<1> DEFINE looped == IF needs THEN SetLocal(x, <<"loop">>, LoopObject(i, of)) ELSE x
           bound == SetLocal(looped, targets, Item(i))
<1>1. y = Marked(bound, LoopObject(i, of))
  BY DEF Iterate, Marked
<1>2. bound = SetLocal(looped, targets, Item(i))
  OBVIOUS
<1>3. /\ looped \in Context /\ Len(looped.frames) = Len(x.frames)
      /\ \A j \in 1 .. Len(x.frames) : j # Len(x.frames) => looped.frames[j] = x.frames[j]
  <2>1. looped = LoopBound(x, i, of) \/ looped = x
    BY DEF LoopBound
  <2> HIDE DEF looped
  <2> QED
    BY <2>1, LoopBoundIs
<1> HIDE DEF looped, bound
<1>4. looped \in Context /\ Len(looped.frames) # 0
  BY <1>3
<1>5. /\ Len(y.frames) = Len(looped.frames)
      /\ \A j \in 1 .. Len(looped.frames) :
            j # Len(looped.frames) => y.frames[j] = looped.frames[j]
  BY <1>1, <1>2, <1>4, IterateBound
<1> QED
  BY <1>3, <1>5

(* An iteration that has the variable loop.                                *)
Looped(ctx, i, n, targets) ==
    Marked(SetLocal(LoopBound(ctx, i, n), targets, Item(i)), LoopObject(i, n))

(* It sees it.                                                             *)
LEMMA IterateSees ==
    ASSUME NEW x \in Context, Len(x.frames) # 0,
           NEW i \in Nat, NEW of \in Nat, NEW targets \in Seq(Vars),
           "loop" \notin Range(targets),
           NEW y, y = Looped(x, i, of, targets)
    PROVE  Sees(LoopsIn(y))
<1> DEFINE looped == LoopBound(x, i, of)
           bound == SetLocal(looped, targets, Item(i))
           val == LoopObject(i, of)
<1>1. y = Marked(bound, LoopObject(i, of))
  BY DEF Looped
<1>2. bound = SetLocal(looped, targets, Item(i))
  OBVIOUS
<1>3. /\ looped \in Context /\ Len(looped.frames) = Len(x.frames)
      /\ Last(looped.frames).vars["loop"] = val
  BY LoopBoundIs
<1> HIDE DEF looped, bound
<1>4. /\ Len(y.frames) = Len(x.frames)
      /\ Last(y.frames).item = val /\ Last(y.frames).vars["loop"] = val
  <2>1. looped \in Context /\ Len(looped.frames) # 0
    BY <1>3
  <2>2. /\ Len(y.frames) = Len(looped.frames)
        /\ Last(y.frames).item = LoopObject(i, of)
        /\ Last(y.frames).vars["loop"] = Last(looped.frames).vars["loop"]
    <3> HIDE DEF val
    <3>1. y = Marked(bound, LoopObject(i, of)) /\ bound = SetLocal(looped, targets, Item(i))
      BY <1>1, <1>2
    <3>2. Len(y.frames) = Len(looped.frames)
      BY <2>1, <3>1, IterateBound
    <3>3. Last(y.frames).item = LoopObject(i, of)
      BY <2>1, <3>1, IterateBound
    <3>4. Last(y.frames).vars["loop"] = Last(looped.frames).vars["loop"]
      BY <2>1, <3>1, IterateBound
    <3> QED
      BY <3>2, <3>3, <3>4
  <2> QED
    BY <1>3, <2>2
<1>5. val # None
  <2>1. val \in Values
    BY TemplateConstants DEF LoopObject, Values
  <2> QED
    BY <2>1, RendererConstants
<1> DEFINE n == Len(x.frames) - 1
           w == LoopsIn(y)
<1>6. n \in Nat /\ Len(y.frames) = n + 1
  <2>1. Len(x.frames) \in Nat
    BY FramesNow
  <2> QED
    BY <1>4, <2>1
<1>7. DOMAIN w = 1 .. n + 1 /\ w[n + 1].item = val /\ w[n + 1].loop = val
  <2> HIDE DEF n, val
  <2>1. Last(y.frames) = y.frames[n + 1]
    BY <1>6 DEF Last
  <2>2. DOMAIN w = 1 .. n + 1 /\ w[n + 1] = LoopAt(y.frames[n + 1])
    BY <1>6 DEF LoopsIn
  <2> QED
    BY <1>4, <2>1, <2>2 DEF LoopAt
<1> HIDE DEF w, n, val
<1>8. Sees(w)
  BY <1>5, <1>6, <1>7, SeesItem
<1> QED
  BY <1>8 DEF w

(* A frame on top that has no loop hides none.                             *)
LEMMA AppendLoops ==
    ASSUME NEW x \in Context, NEW b, b.item = None, b.vars["loop"] = None,
           NEW y, y.frames = Append(x.frames, b)
    PROVE  /\ \A i \in 1 .. Len(x.frames) : LoopAt(y.frames[i]) = LoopAt(x.frames[i])
           /\ Sees(LoopsIn(x)) => Sees(LoopsIn(y))
<1> DEFINE n == Len(x.frames)
           v == LoopsIn(x)
           w == LoopsIn(y)
<1>1. IsSeq(x.frames) /\ n \in Nat
  BY FramesNow, SeqAny
<1>2. /\ Len(y.frames) = n + 1 /\ y.frames[n + 1] = b
      /\ \A i \in 1 .. n : y.frames[i] = x.frames[i]
  BY <1>1, SeqAppend
<1>3. /\ DOMAIN v = 1 .. n /\ DOMAIN w = 1 .. n + 1
      /\ \A i \in 1 .. n : w[i] = v[i]
      /\ w[n + 1] = LoopAt(b)
  BY <1>1, <1>2 DEF LoopsIn
<1>4. LoopAt(b).item = None /\ LoopAt(b).loop = None
  BY DEF LoopAt
<1> HIDE DEF n, v, w
<1>5. Sees(v) => Sees(w)
  BY <1>1, <1>3, <1>4, SeesPlain
<1> QED
  BY <1>2, <1>5 DEF n, v, w

(* Merged variables show the innermost iteration, as the stack did; and    *)
(* what reads loop there sees it.                                          *)
LEMMA FlattenSees ==
    ASSUME NEW x \in Context, Sees(LoopsIn(x))
    PROVE  /\ Iteration(x) # None => Lookup(x, "loop") = Iteration(x)
           /\ \A id : Sees(LoopsIn(FromRoot(id, Flattened(x))))
<1> DEFINE n == Len(x.frames)
           loops == {i \in DOMAIN x.frames : x.frames[i].item # None}
           B == Binders(x, "loop")
<1>1. n \in Nat /\ DOMAIN x.frames = 1 .. n
  BY FramesNow
<1>2. ASSUME Iteration(x) # None PROVE Lookup(x, "loop") = Iteration(x)
  <2>1. loops # {} /\ Iteration(x) = x.frames[Max(loops)].item
    BY <1>2 DEF Iteration
  <2>2. \A j \in loops : j \in 0 .. n /\ j \in 1 .. n
    BY <1>1
  <2> DEFINE k == Max(loops)
  <2>3. k \in loops /\ \A j \in loops : j <= k
    <3> HIDE DEF loops
    <3> QED
      BY <1>1, <2>1, <2>2, MaxMember
  <2> HIDE DEF k
  <2>4. k \in 1 .. n /\ x.frames[k].item # None
    BY <2>2, <2>3
  <2>5. \A j \in 1 .. n : k < j => x.frames[j].item = None
    <3> SUFFICES ASSUME NEW j \in 1 .. n, k < j, x.frames[j].item # None PROVE FALSE
      OBVIOUS
    <3>1. j \in loops
      BY <1>1
    <3> QED
      BY <2>3, <2>4, <3>1
  <2> DEFINE v == LoopsIn(x)
  <2>6. DOMAIN v = 1 .. n /\ \A j \in 1 .. n : v[j].item = x.frames[j].item
                                               /\ v[j].loop = x.frames[j].vars["loop"]
    BY DEF LoopsIn, LoopAt
  <2>7. v[k].loop = v[k].item /\ \A j \in 1 .. n : k < j => v[j].loop = None
    <3> HIDE DEF v, n
    <3> QED
      BY <2>4, <2>5, <2>6 DEF Sees, v
  <2> HIDE DEF v, loops, n
  <2>8. x.frames[k].vars["loop"] = x.frames[k].item
        /\ \A j \in 1 .. n : k < j => x.frames[j].vars["loop"] = None
    BY <2>4, <2>6, <2>7
  <2>9. k \in B /\ \A j \in B : j \in 1 .. n /\ j \in 0 .. n
    BY <1>1, <2>4, <2>8 DEF Binders
  <2>10. \A j \in B : x.frames[j].vars["loop"] # None
    BY DEF Binders
  <2> HIDE DEF B
  <2>11. Max(B) \in B /\ \A j \in B : j <= Max(B)
    <3>1. B # {}
      BY <2>9
    <3> QED
      BY <1>1, <2>9, <3>1, MaxMember
  <2>12. Max(B) = k
    <3>1. Max(B) \in 1 .. n /\ k <= Max(B)
      BY <2>9, <2>11
    <3>2. ~(k < Max(B))
      BY <2>8, <2>10, <2>11, <3>1
    <3> QED
      BY <2>4, <3>1, <3>2
  <2>13. Lookup(x, "loop") = x.frames[Max(B)].vars["loop"]
    BY <2>9 DEF Lookup, B
  <2> QED
    BY <2>1, <2>8, <2>12, <2>13 DEF k
<1>3. ASSUME NEW id PROVE Sees(LoopsIn(FromRoot(id, Flattened(x))))
  <2> DEFINE y == FromRoot(id, Flattened(x))
             w == LoopsIn(y)
  <2>1. y.frames = <<Flattened(x)>>
    BY DEF FromRoot
  <2>2. Flattened(x).item = Iteration(x) /\ Flattened(x).vars["loop"] = Lookup(x, "loop")
    BY TemplateConstants DEF Flattened, Flatten
  <2> HIDE DEF y
  <2>3. Len(y.frames) = 1 /\ y.frames[1] = Flattened(x)
    BY <2>1
  <2>4. DOMAIN w = 1 .. 1 /\ w[1].item = Iteration(x) /\ w[1].loop = Lookup(x, "loop")
    BY <2>2, <2>3 DEF LoopsIn, LoopAt
  <2> HIDE DEF w
  <2>5. Sees(w)
    BY <1>2, <2>4 DEF Sees
  <2> QED
    BY <2>5 DEF w, y
<1> QED
  BY <1>2, <1>3

(* Variables without a loop show none.                                     *)
LEMMA EmptySees == \A id : Sees(LoopsIn(FromRoot(id, EmptyFrame)))
<1> TAKE id
<1> DEFINE y == FromRoot(id, EmptyFrame)
           w == LoopsIn(y)
<1>1. y.frames = <<EmptyFrame>>
  BY DEF FromRoot
<1> HIDE DEF y
<1>2. Len(y.frames) = 1 /\ y.frames[1] = EmptyFrame
  BY <1>1
<1>3. DOMAIN w = 1 .. 1 /\ w[1].item = None
  BY <1>2 DEF LoopsIn, LoopAt, EmptyFrame
<1> HIDE DEF w
<1>4. Sees(w)
  BY <1>3 DEF Sees
<1> QED
  BY <1>4 DEF w, y

-----------------------------------------------------------------------------
(* Assignments, and the end of a call.                                     *)

(* A step after which each part is right.                                  *)
LEMMA LoopsDone ==
    ASSUME NEW R, NEW Q, FramesFit(R, Q, ctl'), CallsSee(Q, ctl', ctxs'),
           ScopesFit(R, scopes'), SpacesFit(R, spaces'), CallersFit(R, callers'),
           ChainsFit(R, chains'), UsesRight'
    PROVE  LoopsInv(R, Q)'
  BY DEF LoopsInv

(* The analyses that were right are right.                                 *)
LEMMA UsesKept ==
    ASSUME UsesRight, loopUse' = loopUse, async' = async PROVE UsesRight'
  BY DEF UsesRight

(* An import exports any other variable.                                   *)
LEMMA ExportFits ==
    ASSUME NEW R, NEW Q, NEW c, IsSeq(c), c # << >>, FramesFit(R, Q, c), IsFrame(Last(c)),
           NEW v \in Vars, v # "loop"
    PROVE  FramesFit(R, Q, Export(c, v))
<1>1. CASE Last(c).role # "module"
  BY <1>1 DEF Export
<1>2. CASE Last(c).role = "module"
  <2> DEFINE g == Last(c)
             save == [name |-> g.save.name, node |-> g.save.node,
                      out |-> [g.save.out EXCEPT ![v] = Some]]
             f == [role |-> g.role, body |-> g.body, copy |-> g.copy, pos |-> g.pos,
                   save |-> save]
  <2>1. /\ g = [role |-> g.role, body |-> g.body, copy |-> g.copy, pos |-> g.pos,
                save |-> g.save]
        /\ g.save \in [name : Names, node : Imports, out : Bindings]
    BY <1>2 DEF IsFrame
  <2>2. g.save = [name |-> g.save.name, node |-> g.save.node, out |-> g.save.out]
        /\ g.save.out \in Bindings
    BY <2>1
  <2>3. [g.save EXCEPT !.out[v] = Some] = save
    BY <2>2
  <2>4. [g EXCEPT !.save.out[v] = Some] = f
    <3>1. [g EXCEPT !.save.out[v] = Some] = [g EXCEPT !.save = [g.save EXCEPT !.out[v] = Some]]
      BY <2>1
    <3> HIDE DEF save
    <3>2. [g EXCEPT !.save = save] = f
      BY <2>1
    <3> QED
      BY <2>3, <3>1, <3>2
  <2>5. "loop" \in Vars
    BY TemplateConstants
  <2>6. save.out["loop"] = g.save.out["loop"] /\ save.node = g.save.node
    BY <2>2, <2>5 DEF Bindings
  <2>7. FrameFits(R, Q, g)
    BY FitPop
  <2> HIDE DEF save
  <2>8. f.role = "module" /\ f.body = g.body /\ f.save = save
    BY <1>2
  <2>9. Export(c, v) = Turned(c, [g EXCEPT !.save.out[v] = Some])
    <3>1. g = c[Len(c)] /\ Len(c) \in Nat \ {0}
      BY SeqLength DEF Last
    <3> QED
      BY <1>2, <3>1 DEF Export, Turned
  <2> HIDE DEF f, g
  <2>10. FrameFits(R, Q, f)
    BY <1>2, <2>6, <2>7, <2>8 DEF FrameFits, g
  <2>11. FramesFit(R, Q, Turned(c, f))
    BY <2>10, FitTurn
  <2> QED
    BY <2>4, <2>9, <2>11
<1> QED
  BY <1>1, <1>2

(* Setting a variable shows and hides no loop.                             *)
LEMMA SetSees ==
    ASSUME NEW R, NEW Q, Ready(R, Q), async' = async, RInv', Set PROVE LoopsInv(R, Q)'
<1>1. /\ Starting /\ Current.kind = "set" /\ ~Skipped(Top, Current) /\ status = "running"
      /\ ctl' = Export(Past, Current.var)
      /\ ctxs' = Append(Front(ctxs), SetVar(Ctx, Current.var, Some))
      /\ UNCHANGED <<scopes, spaces, callers, chains, loopUse>>
  BY DEF Set, At, Starting, WithCtx, modules, caches
<1>2. Current \in Node /\ RInv /\ Current \in NodesAt(R) /\ Grounds(R, Q)
  BY <1>1, HereNow DEF Ready
<1>3. Current.var \in Vars /\ Current.var # "loop"
  BY <1>1, <1>2, BranchFields DEF Grounds, OnlyLoopsBindLoop
<1> DEFINE v == Current.var
           x == SetVar(Ctx, v, Some)
<1>4. /\ FramesFit(R, Q, Past) /\ CallsSee(Q, Past, ctxs)
      /\ IsSeq(Past) /\ Len(Past) \in Nat /\ ContextsInv(Past, ctxs)
  BY <1>1, PastSees
<1>5. /\ CallsInv(lib, Past, names, callers, scopes, super, chains)
      /\ SavesTyped(Past, serial) /\ Past # << >>
  BY <1>1, <1>2, PastNow
<1>6. Alike(Past, Export(Past, v))
  BY <1>3, <1>5, ExportNow
<1>7. IsFrame(Last(Past))
  <2>1. StackOK(Past) /\ Len(Past) \in Nat \ {0} /\ Last(Past) = Past[Len(Past)]
    BY <1>4, <1>5, SeqLength DEF CallsInv, Last
  <2> QED
    BY <2>1 DEF StackOK
<1>8. Ctx \in Context /\ Ctx = Last(ctxs)
  BY <1>1, LoopsNow
<1>9. SameLoops(Ctx, x)
  BY <1>3, <1>8, SetVarLoops
<1> HIDE DEF x, v
<1>10. \A k \in 0 .. Len(Past) : View(Past, Append(Front(ctxs), x), k) = View(Past, ctxs, k)
  <2>1. \A i \in 1 .. Len(Last(ctxs).frames) : LoopAt(x.frames[i]) = LoopAt(Last(ctxs).frames[i])
    BY <1>8, <1>9 DEF SameLoops
  <2> QED
    BY <1>4, <2>1, ViewsBelow
<1>11. v \in Vars /\ v # "loop" /\ ctl' = Export(Past, v) /\ ctxs' = Append(Front(ctxs), x)
  BY <1>1, <1>3 DEF v, x
<1>12. FramesFit(R, Q, ctl')
  BY <1>4, <1>5, <1>7, <1>11, ExportFits
<1>13. CallsSee(Q, ctl', ctxs')
  BY <1>4, <1>6, <1>10, <1>11, SeesTurn
<1> QED
  BY <1>1, <1>12, <1>13, LoopsStay

(* The variable that takes what a block renders is not loop.               *)
LEMMA EndCaptureSees ==
    ASSUME NEW R, NEW Q, Ready(R, Q), async' = async, RInv', EndCapture PROVE LoopsInv(R, Q)'
<1> DEFINE v == Top.save.var
           c == Front(ctl)
           x == SetVar(Ctx, v, Some)
<1>1. /\ status = "running" /\ status' = status /\ Finished(Top) /\ Top.role = "capture"
      /\ ctl' = Export(c, v) /\ ctxs' = Append(Front(ctxs), x)
      /\ UNCHANGED <<scopes, spaces, callers, chains, loopUse>>
  BY DEF EndCapture, Ending, WithCtx, modules, caches
<1>2. /\ ctl # << >> /\ IsSeq(ctl) /\ SaveTyped(Top, serial) /\ Top = Last(ctl) /\ IsFrame(Top)
      /\ RInv
  BY <1>1, TopNow DEF Top, Ready
<1>3. /\ CallsInv(lib, ctl, names, callers, scopes, super, chains)
      /\ DataInv(ctl, ctxs, extCache, serial) /\ SavesTyped(ctl, serial)
  BY <1>1, <1>2, TypesNow
<1>4. v \in Vars
  BY <1>1, <1>2 DEF SaveTyped
<1>5. Top.role \in Plain /\ Top.role \notin Holders /\ ~Deepens(Top) /\ Top.role # "ext"
  BY <1>1 DEF Plain, Holders, Deepens
<1>6. /\ CallsInv(lib, c, names, callers, scopes, super, chains)
      /\ Above(c, ctl) /\ IsSeq(c) /\ (c = << >> <=> Len(ctl) = 1)
  BY <1>2, <1>3, <1>5, PlainPop
<1>7. SavesTyped(c, serial)
  BY <1>2, <1>3, TypedPop
<1>8. c # << >>
  <2>1. StackOK(ctl) /\ Len(ctl) \in Nat \ {0} /\ Last(ctl) = ctl[Len(ctl)]
    BY <1>2, <1>3, SeqLength DEF CallsInv, Last
  <2>2. PICK j \in 1 .. Len(ctl) : ctl[j].role = "root"
    BY <1>1, <1>2, <2>1 DEF StackOK
  <2>3. Len(ctl) # 1
    BY <1>1, <1>2, <2>1, <2>2
  <2> QED
    BY <1>6, <2>3
<1>9. ContextsInv(c, ctxs)
  BY <1>2, <1>3, <1>5, <1>6, DataLeave DEF DataInv
<1>10. Ctx \in Context /\ Ctx = Last(ctxs)
  BY <1>1, LoopsNow
<1>11. FrameFits(R, Q, Top)
  <2>1. \A k \in 0 .. Len(c) : View(c, ctxs, k) = View(c, ctxs, k)
    OBVIOUS
  <2> QED
    BY <1>1, <2>1, LoopsPop
<1>12. v # "loop"
  BY <1>1, <1>11 DEF FrameFits
<1>13. SameLoops(Ctx, x)
  BY <1>4, <1>10, <1>12, SetVarLoops
<1>14. Alike(c, Export(c, v))
  <2> HIDE DEF c, v
  <2> QED
    BY <1>4, <1>6, <1>7, <1>8, ExportNow
<1> HIDE DEF x, v
<1>15. \A k \in 0 .. Len(c) : View(c, Append(Front(ctxs), x), k) = View(c, ctxs, k)
  <2>1. \A i \in 1 .. Len(Last(ctxs).frames) : LoopAt(x.frames[i]) = LoopAt(Last(ctxs).frames[i])
    BY <1>10, <1>13 DEF SameLoops
  <2> QED
    BY <1>6, <1>9, <2>1, ViewsBelow
<1>16. /\ FramesFit(R, Q, c) /\ CallsSee(Q, c, ctxs') /\ IsSeq(c) /\ Len(c) \in Nat
  BY <1>1, <1>15, LoopsPop
<1>17. IsFrame(Last(c))
  <2>1. StackOK(c) /\ Len(c) \in Nat \ {0} /\ Last(c) = c[Len(c)]
    BY <1>6, <1>8, SeqLength DEF CallsInv, Last
  <2> QED
    BY <2>1 DEF StackOK
<1> HIDE DEF c
<1>18. FramesFit(R, Q, ctl')
  BY <1>1, <1>4, <1>8, <1>12, <1>16, <1>17, ExportFits
<1>19. CallsSee(Q, ctl', ctxs')
  <2>1. \A k \in 0 .. Len(c) : View(c, ctxs', k) = View(c, ctxs', k)
    OBVIOUS
  <2> QED
    BY <1>1, <1>14, <1>16, <2>1, SeesTurn
<1> QED
  BY <1>1, <1>18, <1>19, LoopsStay

(* The end of a call: the others see what they saw, if their loops are     *)
(* what they were.                                                         *)
LEMMA EndSees ==
    ASSUME NEW R, NEW Q, Ready(R, Q), async' = async, RInv', status = "running", Leave,
           \/ Top.role \notin Holders /\ ctxs' = ctxs
           \/ Top.role \in Holders /\ ctxs' = Front(ctxs)
           \/ Top.role \notin Holders /\ ctxs' = Append(Front(ctxs), PopFrame(Ctx))
    PROVE  /\ FramesFit(R, Q, ctl') /\ CallsSee(Q, ctl', ctxs')
           /\ FrameFits(R, Q, Top) /\ IsFrame(Top)
<1>1. ctl' = Front(ctl) /\ status' # "failed"
  BY DEF Leave
<1>2. IsSeq(ctl') /\ ContextsInv(ctl', ctxs') /\ Len(ctl') \in Nat
  BY <1>1, NextSound
<1>3. /\ IsSeq(ctl) /\ Len(ctl) \in Nat /\ ContextsInv(ctl, ctxs)
      /\ IsSeq(ctxs) /\ ctxs # << >> /\ Ctx = Last(ctxs) /\ Ctx \in Context
  BY LoopsNow
<1>4. Above(ctl', ctl) /\ Top = ctl[Len(ctl)] /\ IsFrame(Top)
  <2>1. \A k \in 0 .. Len(Front(ctl)) : View(Front(ctl), ctxs, k) = View(Front(ctl), ctxs, k)
    OBVIOUS
  <2>2. Above(Front(ctl), ctl)
    BY <2>1, LoopsPop
  <2> QED
    BY <1>1, <2>2, TopNow DEF Ready
<1>5. Len(ctl) = Len(ctl') + 1
  BY <1>4 DEF Above
<1>6. \A k \in 0 .. Len(ctl') : View(ctl', ctxs', k) = View(ctl', ctxs, k)
  <2>1. CASE ctxs' = ctxs
    BY <2>1
  <2>2. CASE Top.role \in Holders /\ ctxs' = Front(ctxs)
    <3>1. Len(ctxs) = Held(ctl, Len(ctl))
      BY <1>3 DEF ContextsInv
    <3>2. Held(ctl, Len(ctl') + 1) = Held(ctl', Len(ctl')) + 1
      <4>1. ctl[Len(ctl') + 1].role \in Holders
        BY <1>4, <1>5, <2>2
      <4> QED
        BY <1>2, <1>4, <4>1, HeldAbove
    <3>3. Len(ctxs) = Held(ctl', Len(ctl')) + 1
      BY <1>5, <3>1, <3>2
    <3> QED
      BY <1>2, <1>3, <2>2, <3>3, ViewFront
  <2>3. CASE ctxs' = Append(Front(ctxs), PopFrame(Ctx))
    <3> DEFINE x == PopFrame(Ctx)
    <3>1. \A i \in 1 .. Len(x.frames) : LoopAt(x.frames[i]) = LoopAt(Last(ctxs).frames[i])
      BY <1>3, PopLoops
    <3> HIDE DEF x
    <3> DEFINE c == ctl'
    <3>2. ContextsInv(c, Append(Front(ctxs), x)) /\ IsSeq(c)
      BY <1>2, <2>3 DEF x
    <3> HIDE DEF c
    <3>3. \A k \in 0 .. Len(c) : View(c, Append(Front(ctxs), x), k) = View(c, ctxs, k)
      BY <1>3, <3>1, <3>2, ViewsLast
    <3> QED
      BY <2>3, <3>3 DEF c, x
  <2> QED
    BY <2>1, <2>2, <2>3
<1> DEFINE ys == ctxs'
<1>7. \A k \in 0 .. Len(Front(ctl)) : View(Front(ctl), ys, k) = View(Front(ctl), ctxs, k)
  BY <1>1, <1>6
<1> HIDE DEF ys
<1>8. FramesFit(R, Q, Front(ctl)) /\ CallsSee(Q, Front(ctl), ys) /\ FrameFits(R, Q, Top)
  BY <1>7, LoopsPop
<1> QED
  BY <1>1, <1>4, <1>8 DEF ys

(* Ends that change nothing else.                                          *)
LEMMA PlainEndSees ==
    ASSUME NEW R, NEW Q, Ready(R, Q), async' = async, RInv',
           EndNodes \/ EndExtensionTag \/ EndAsyncTag \/ EndBlock \/ EndEntry \/ EndInclude
             \/ EndFor \/ EndMacro \/ EndCaller
    PROVE  LoopsInv(R, Q)'
<1>1. status = "running" /\ Leave
  BY DEF EndNodes, EndExtensionTag, EndAsyncTag, EndBlock, EndEntry, EndInclude, EndFor,
         EndMacro, EndCaller, Ending
<1>2. UNCHANGED <<scopes, spaces, callers, chains, loopUse>>
  BY DEF EndNodes, EndExtensionTag, EndAsyncTag, EndBlock, EndEntry, EndInclude, EndFor,
         EndMacro, EndCaller, modules, caches
<1>3. \/ Top.role \notin Holders /\ ctxs' = ctxs
      \/ Top.role \in Holders /\ ctxs' = Front(ctxs)
      \/ Top.role \notin Holders /\ ctxs' = Append(Front(ctxs), PopFrame(Ctx))
  BY DEF EndNodes, EndExtensionTag, EndAsyncTag, EndBlock, EndEntry, EndInclude, EndFor,
         EndMacro, EndCaller, Ending, Holders, WithCtx
<1>4. FramesFit(R, Q, ctl') /\ CallsSee(Q, ctl', ctxs')
  BY <1>1, <1>3, EndSees
<1> QED
  BY <1>1, <1>2, <1>4, LoopsStay

(* The caller of a call block goes with it.                                *)
LEMMA EndCallSees ==
    ASSUME NEW R, NEW Q, Ready(R, Q), async' = async, RInv', EndCall PROVE LoopsInv(R, Q)'
<1>1. /\ status = "running" /\ Leave /\ Top.role = "call" /\ Top.role \in Holders
      /\ ctxs' = Front(ctxs) /\ callers' = Front(callers)
      /\ scopes' = scopes /\ spaces' = spaces /\ chains' = chains /\ loopUse' = loopUse
      /\ async' = async
  BY DEF EndCall, Ending, Holders, modules, caches, Ready
<1>2. FramesFit(R, Q, ctl') /\ CallsSee(Q, ctl', ctxs')
  BY <1>1, EndSees
<1>3. /\ ScopesFit(R, scopes) /\ SpacesFit(R, spaces)
      /\ CallersFit(R, callers) /\ ChainsFit(R, chains) /\ UsesRight
  BY <1>1, LoopsNow
<1>4. CallersFit(R, callers')
  <2>1. /\ CallsInv(lib, ctl, names, callers, scopes, super, chains) /\ ctl # << >>
        /\ IsSeq(ctl) /\ Top = Last(ctl) /\ Len(ctl) \in Nat \ {0} /\ Top = ctl[Len(ctl)]
    BY <1>1, TypesNow, TopNow DEF Ready, Top
  <2>2. IsSeq(callers) /\ Len(callers) = Count(RoleIn(ctl, {"call"}), Len(ctl))
    BY <2>1 DEF CallsInv, CallersInv
  <2>3. callers # << >>
    <3> DEFINE S == RoleIn(ctl, {"call"})
    <3>1. (\A j \in S : j \in 1 .. Len(ctl)) /\ Len(ctl) \in S
      BY <1>1, <2>1 DEF RoleIn
    <3> HIDE DEF S
    <3>2. Count(S, Len(ctl)) \in 1 .. Count(S, Len(ctl))
      BY <2>1, <3>1, CountGrows
    <3>3. Count(S, Len(ctl)) # 0
      BY <3>2
    <3> QED
      BY <2>2, <3>3, SeqLength DEF S
  <2>4. /\ Len(callers) \in Nat /\ Len(Front(callers)) = Len(callers) - 1
        /\ \A i \in 1 .. Len(callers) - 1 : Front(callers)[i] = callers[i]
    BY <2>2, <2>3, SeqFront, SeqLength
  <2> QED
    BY <1>1, <1>3, <2>4 DEF CallersFit
<1>5. UsesRight'
  BY <1>1, <1>3, UsesKept
<1> QED
  BY <1>1, <1>2, <1>3, <1>4, <1>5, LoopsDone

(* A root takes its macros with it.                                        *)
LEMMA EndRootSees ==
    ASSUME NEW R, NEW Q, Ready(R, Q), async' = async, RInv', EndRoot PROVE LoopsInv(R, Q)'
<1>1. /\ status = "running" /\ Leave /\ Top.role = "root" /\ Top.role \notin Holders
      /\ ctxs' = ctxs /\ scopes' = SubSeq(scopes, 1, Top.save.base)
      /\ spaces' = spaces /\ chains' = chains /\ callers' = callers /\ loopUse' = loopUse
      /\ async' = async
  BY DEF EndRoot, Ending, Holders, caches, Ready
<1>2. FramesFit(R, Q, ctl') /\ CallsSee(Q, ctl', ctxs')
  BY <1>1, EndSees
<1>3. /\ ScopesFit(R, scopes) /\ SpacesFit(R, spaces)
      /\ CallersFit(R, callers) /\ ChainsFit(R, chains) /\ UsesRight
  BY <1>1, LoopsNow
<1>4. ScopesFit(R, scopes')
  <2>1. /\ CallsInv(lib, ctl, names, callers, scopes, super, chains)
        /\ Len(ctl) \in Nat \ {0} /\ Top = ctl[Len(ctl)] /\ scopes \in Seq(Scope)
    BY <1>1, TypesNow, TopNow DEF Ready
  <2>2. Len(ctl) \in Roots(ctl)
    BY <1>1, <2>1 DEF Roots, RoleIn
  <2>3. Top.save.base \in 0 .. Len(scopes)
    BY <2>1, <2>2 DEF CallsInv, ScopesInv
  <2>4. /\ Len(scopes') = Top.save.base
        /\ \A i \in 1 .. Top.save.base : scopes'[i] = scopes[i]
    BY <1>1, <2>1, <2>3, SeqPrefix, SeqAny
  <2>5. \A i \in 1 .. Len(scopes') : i \in 1 .. Len(scopes) /\ scopes'[i] = scopes[i]
    BY <2>3, <2>4
  <2> QED
    BY <1>3, <2>5 DEF ScopesFit
<1>5. UsesRight'
  BY <1>1, <1>3, UsesKept
<1> QED
  BY <1>1, <1>2, <1>3, <1>4, <1>5, LoopsDone

(* After a layout the chains are what they were before it.                 *)
LEMMA EndLayoutSees ==
    ASSUME NEW R, NEW Q, Ready(R, Q), async' = async, RInv', EndLayout PROVE LoopsInv(R, Q)'
<1>1. /\ status = "running" /\ Leave /\ Top.role = "layout" /\ Top.role \notin Holders
      /\ ctxs' = ctxs /\ scopes' = scopes /\ chains' = Top.save.prev
      /\ spaces' = spaces /\ callers' = callers /\ loopUse' = loopUse /\ async' = async
  BY DEF EndLayout, Ending, Holders, caches, modules, Ready
<1>2. FramesFit(R, Q, ctl') /\ CallsSee(Q, ctl', ctxs') /\ FrameFits(R, Q, Top)
  BY <1>1, EndSees
<1>3. /\ ScopesFit(R, scopes) /\ SpacesFit(R, spaces)
      /\ CallersFit(R, callers) /\ UsesRight
  BY <1>1, LoopsNow
<1>4. ChainsFit(R, chains')
  BY <1>1, <1>2 DEF FrameFits
<1>5. UsesRight'
  BY <1>1, <1>3, UsesKept
<1> QED
  BY <1>1, <1>2, <1>3, <1>4, <1>5, LoopsDone

-----------------------------------------------------------------------------
(* Loops.                                                                  *)

(* A loop begins: its body sees the first iteration, or reads no loop.     *)
LEMMA LoopBegins ==
    ASSUME NEW R, NEW Q, Ready(R, Q), async' = async, RInv', Starting, ~Skipped(Top, Current),
           Current.kind \in {"for", "asyncFor"}, NEW n \in 1 .. MaxItems, NEW needs,
           Push(Nested("for", Current.body,
                       [vars |-> Current.vars, i |-> 1, n |-> n, needs |-> needs])),
           WithCtx(Iterate(PushFrame(Ctx), needs, 1, n, Current.vars)),
           needs \/ Current.body \in Q
    PROVE  FramesFit(R, Q, ctl') /\ CallsSee(Q, ctl', ctxs')
<1> DEFINE save == [vars |-> Current.vars, i |-> 1, n |-> n, needs |-> needs]
           f == Nested("for", Current.body, save)
           p == PushFrame(Ctx)
           y == Iterate(p, needs, 1, n, Current.vars)
           m == Len(Ctx.frames)
<1>1. /\ status = "running" /\ status' # "failed" /\ ctl' = Append(Past, f)
      /\ ctxs' = Append(Front(ctxs), y) /\ Grounds(R, Q) /\ RInv
  BY DEF Push, WithCtx, Starting, Ready
<1>2. Current \in Node /\ Current \in NodesAt(R)
  BY HereNow
<1>3. Current.body \in Bodies /\ Current.vars \in Seq(Vars)
  BY <1>1, LoopNode
<1>4. Current.body \in R /\ "loop" \notin Range(Current.vars)
  <2>1. Current.body \in Inside(Current) /\ Current.body # None
    BY <1>3, TemplateConstants DEF Inside
  <2> QED
    BY <1>1, <1>2, <2>1 DEF Grounds, Reaches, OnlyLoopsBindLoop
<1>5. save.vars = Current.vars /\ save.needs = needs
  OBVIOUS
<1> HIDE DEF save
<1>6. f.role = "for" /\ f.body = Current.body /\ f.save = save
  BY DEF Nested, Frame
<1> HIDE DEF f
<1>7. FrameFits(R, Q, f)
  BY <1>4, <1>5, <1>6 DEF FrameFits
<1>8. Ctx \in Context /\ Ctx = Last(ctxs)
  BY <1>1, LoopsNow
<1>9. m \in Nat /\ IsSeq(Ctx.frames)
  BY <1>8, FramesNow, SeqAny
<1>10. p \in Context /\ Len(p.frames) = m + 1 /\ \A i \in 1 .. m : p.frames[i] = Ctx.frames[i]
  <2>1. p \in Context
    BY <1>8, PushType, NoBindingsType DEF PushFrame, Advances
  <2>2. p.frames = Append(Ctx.frames, EmptyFrame)
    BY DEF PushFrame, Revised
  <2> QED
    BY <1>9, <2>1, <2>2, SeqAppend
<1> HIDE DEF m, p
<1>11. /\ \A j \in 1 .. m : y.frames[j] = p.frames[j]
       /\ needs => Sees(LoopsIn(y))
  <2>1. 1 \in Nat /\ n \in Nat
    BY RendererConstants
  <2> DEFINE targets == Current.vars
             one == 1
  <2>2. y = Iterate(p, needs, one, n, targets) /\ one \in Nat
    OBVIOUS
  <2>3. targets \in Seq(Vars) /\ "loop" \notin Range(targets)
    BY <1>3, <1>4
  <2> HIDE DEF y, targets, one
  <2>0. Len(p.frames) # 0
    BY <1>9, <1>10
  <2>4. \A j \in 1 .. Len(p.frames) : j # Len(p.frames) => y.frames[j] = p.frames[j]
    BY <1>10, <2>0, <2>1, <2>2, <2>3, IterateLoops
  <2>5. ASSUME needs PROVE Sees(LoopsIn(y))
    <3>1. y = Looped(p, one, n, targets)
      BY <2>2, <2>5 DEF Iterate, Looped, LoopBound, Marked
    <3> QED
      BY <1>10, <2>0, <2>1, <2>2, <2>3, <3>1, IterateSees
  <2> QED
    BY <1>9, <1>10, <2>4, <2>5
<1> HIDE DEF y
<1>12. \A k \in 0 .. Len(Past) : View(Past, ctxs', k) = View(Past, ctxs, k)
  <2>1. \A i \in 1 .. Len(Last(ctxs).frames) : LoopAt(y.frames[i]) = LoopAt(Last(ctxs).frames[i])
    BY <1>8, <1>10, <1>11 DEF m
  <2>2. IsSeq(Past) /\ ContextsInv(Past, ctxs)
    BY PastSees
  <2>3. \A k \in 0 .. Len(Past) : View(Past, Append(Front(ctxs), y), k) = View(Past, ctxs, k)
    BY <2>1, <2>2, ViewsBelow
  <2> QED
    BY <1>1, <2>3
<1>13. Last(ctxs') = y
  <2>1. IsSeq(ctxs) /\ ctxs # << >>
    BY <1>1, LoopsNow
  <2>2. IsSeq(Front(ctxs))
    BY <2>1, SeqFront
  <2>3. Len(Front(ctxs)) \in Nat
    BY <2>2, SeqLength
  <2> QED
    BY <1>1, <2>2, <2>3, SeqAppend DEF Last
<1>14. Sees(LoopsIn(Last(ctxs'))) \/ Calm(Q, f)
  BY <1>6, <1>11, <1>13 DEF Calm
<1> QED
  BY <1>1, <1>7, <1>12, <1>14, LoopsPush

(* What the synchronous renderer keeps of its analyses is right.           *)
LEMMA UsesInserted ==
    ASSUME NEW R, NEW Q, Ready(R, Q), ~async, status = "running", NEW key,
           NEW needs \in KnownUses(key), loopUse' = Inserted(loopUse, key, needs)
    PROVE  UsesRight' /\ needs = UsesLoop[key[2]]
<1>1. UsesRight /\ ~Recycles
  BY LoopsNow DEF Ready, Grounds
<1>2. \A k \in DOMAIN loopUse : loopUse[k] = UsesLoop[k[2]]
  BY <1>1 DEF UsesRight
<1>3. needs = UsesLoop[key[2]]
  BY <1>1, <1>2 DEF KnownUses
<1>4. \A k \in DOMAIN loopUse' : loopUse'[k] = UsesLoop[k[2]]
  BY <1>2, <1>3 DEF Inserted
<1> QED
  BY <1>3, <1>4 DEF UsesRight

(* A for binds loop where the analysis says so.                            *)
LEMMA ForSees ==
    ASSUME NEW R, NEW Q, Ready(R, Q), async' = async, RInv', ~async, For PROVE LoopsInv(R, Q)'
<1> DEFINE key == <<Top.copy, Current.body>>
<1>1. /\ Starting /\ status = "running" /\ Current.kind = "for" /\ ~Skipped(Top, Current)
      /\ scopes' = scopes /\ spaces' = spaces /\ callers' = callers /\ chains' = chains
  BY DEF For, At, Starting, modules
<1>2. PICK n \in 1 .. MaxItems, needs \in KnownUses(key) :
         /\ Push(Nested("for", Current.body,
                        [vars |-> Current.vars, i |-> 1, n |-> n, needs |-> needs]))
         /\ WithCtx(Iterate(PushFrame(Ctx), needs, 1, n, Current.vars))
         /\ loopUse' = Inserted(loopUse, key, needs)
  BY DEF For
<1>3. key[2] = Current.body
  OBVIOUS
<1> HIDE DEF key
<1>4. UsesRight' /\ needs = UsesLoop[Current.body]
  BY <1>1, <1>2, <1>3, UsesInserted
<1>5. needs \/ Current.body \in Q
  <2>1. Current \in NodesAt(R) /\ Grounds(R, Q)
    BY <1>1, HereNow DEF Ready
  <2> QED
    BY <1>1, <1>4, <2>1 DEF Grounds
<1>6. FramesFit(R, Q, ctl') /\ CallsSee(Q, ctl', ctxs')
  <2>1. Current.kind \in {"for", "asyncFor"}
    BY <1>1
  <2> QED
    BY <1>1, <1>2, <1>5, <2>1, LoopBegins
<1>7. /\ ScopesFit(R, scopes) /\ SpacesFit(R, spaces)
      /\ CallersFit(R, callers) /\ ChainsFit(R, chains)
  BY <1>1, LoopsNow
<1> QED
  BY <1>1, <1>4, <1>6, <1>7, LoopsDone

(* The loops of the async renderer always do.                              *)
LEMMA AsyncForSees ==
    ASSUME NEW R, NEW Q, Ready(R, Q), async' = async, RInv', AsyncFor PROVE LoopsInv(R, Q)'
<1>1. /\ Starting /\ status = "running" /\ Current.kind \in {"for", "asyncFor"}
      /\ ~Skipped(Top, Current)
      /\ UNCHANGED <<scopes, spaces, callers, chains, loopUse>>
  BY DEF AsyncFor, AtLoop, At, Starting, modules, caches
<1>2. PICK n \in 1 .. MaxItems :
         /\ Push(Nested("for", Current.body,
                        [vars |-> Current.vars, i |-> 1, n |-> n, needs |-> TRUE]))
         /\ WithCtx(Iterate(PushFrame(Ctx), TRUE, 1, n, Current.vars))
  BY DEF AsyncFor
<1>3. FramesFit(R, Q, ctl') /\ CallsSee(Q, ctl', ctxs')
  BY <1>1, <1>2, LoopBegins
<1> QED
  BY <1>1, <1>3, LoopsStay

(* A frame that is pushed and popped again hides and shows nothing.        *)
LEMMA MisfitSees ==
    ASSUME NEW R, NEW Q, Ready(R, Q), async' = async, RInv', Starting, ~Skipped(Top, Current),
           Current.kind \in {"for", "asyncFor"}, MaybeNodes(Current.otherwise),
           WithCtx(PopFrame(PushFrame(Ctx))),
           UNCHANGED <<scopes, spaces, callers, chains>>, UsesRight'
    PROVE  LoopsInv(R, Q)'
<1> DEFINE y == PopFrame(PushFrame(Ctx))
<1>1. status = "running" /\ RInv /\ ctxs' = Append(Front(ctxs), y)
  BY DEF Starting, Ready, WithCtx
<1>2. Current.otherwise \in InPlace(Current)
  BY PlaceFields
<1>3. Continue \/ \E inner \in InPlace(Current) \ {None} : Renders(inner)
  BY <1>2, MaybeRenders
<1>4. Ctx \in Context /\ Ctx = Last(ctxs) /\ Len(Ctx.frames) # 0 /\ IsSeq(ctxs) /\ ctxs # << >>
  <2>1. Len(Ctx.frames) \in Nat \ {0}
    BY <1>1, CtxNow
  <2> QED
    BY <1>1, <2>1, LoopsNow
<1>5. SameLoops(Ctx, y)
  BY <1>4, PushPopLoops
<1> HIDE DEF y
<1>6. \A k \in 0 .. Len(Past) : View(Past, ctxs', k) = View(Past, ctxs, k)
  <2>1. \A i \in 1 .. Len(Last(ctxs).frames) : LoopAt(y.frames[i]) = LoopAt(Last(ctxs).frames[i])
    BY <1>4, <1>5 DEF SameLoops
  <2>2. IsSeq(Past) /\ ContextsInv(Past, ctxs)
    BY PastSees
  <2>3. \A k \in 0 .. Len(Past) : View(Past, Append(Front(ctxs), y), k) = View(Past, ctxs, k)
    BY <2>1, <2>2, ViewsBelow
  <2> QED
    BY <1>1, <2>3
<1>7. LoopsIn(Last(ctxs')) = LoopsIn(Ctx)
  <2>1. IsSeq(Front(ctxs))
    BY <1>4, SeqFront
  <2>2. Len(Front(ctxs)) \in Nat
    BY <2>1, SeqLength
  <2>3. Last(ctxs') = y
    BY <1>1, <2>1, <2>2, SeqAppend DEF Last
  <2> QED
    BY <1>5, <2>3, SameIn
<1> QED
  BY <1>3, <1>6, <1>7, BodySees

(* So does one over something that does not fit its variables.             *)
LEMMA ForMisfitSees ==
    ASSUME NEW R, NEW Q, Ready(R, Q), async' = async, RInv', ~async, ForMisfit PROVE LoopsInv(R, Q)'
<1> DEFINE key == <<Top.copy, Current.body>>
<1>1. /\ Starting /\ status = "running" /\ Current.kind \in {"for", "asyncFor"}
      /\ ~Skipped(Top, Current) /\ MaybeNodes(Current.otherwise)
      /\ WithCtx(PopFrame(PushFrame(Ctx)))
      /\ UNCHANGED <<scopes, spaces, callers, chains>>
  BY DEF ForMisfit, At, Starting, modules
<1>2. PICK needs \in KnownUses(key) : loopUse' = Inserted(loopUse, key, needs)
  BY DEF ForMisfit
<1> HIDE DEF key
<1>3. UsesRight'
  BY <1>1, <1>2, UsesInserted
<1> QED
  BY <1>1, <1>3, MisfitSees

(* The same in the async renderer.                                         *)
LEMMA AsyncMisfitSees ==
    ASSUME NEW R, NEW Q, Ready(R, Q), async' = async, RInv', AsyncForMisfit PROVE LoopsInv(R, Q)'
<1>1. /\ Starting /\ status = "running" /\ Current.kind \in {"for", "asyncFor"}
      /\ ~Skipped(Top, Current) /\ MaybeNodes(Current.otherwise)
      /\ WithCtx(PopFrame(PushFrame(Ctx)))
      /\ UNCHANGED <<scopes, spaces, callers, chains>>
      /\ loopUse' = loopUse /\ async' = async
  BY DEF AsyncForMisfit, AtLoop, At, Starting, modules, caches, Ready
<1>2. UsesRight
  BY <1>1, LoopsNow
<1>3. UsesRight'
  BY <1>1, <1>2, UsesKept
<1> QED
  BY <1>1, <1>3, MisfitSees

(* The next iteration takes the place of the one before it.                *)
LEMMA NextItemSees ==
    ASSUME NEW R, NEW Q, Ready(R, Q), async' = async, RInv', NextItem PROVE LoopsInv(R, Q)'
<1> DEFINE needs == Top.save.needs
           save == [vars |-> Top.save.vars, i |-> Top.save.i + 1, n |-> Top.save.n,
                    needs |-> needs]
           f == [role |-> Top.role, body |-> Top.body, copy |-> Top.copy, pos |-> 1,
                 save |-> save]
           y == Iterate(Ctx, needs, Top.save.i + 1, Top.save.n, Top.save.vars)
           c == Front(ctl)
<1>1. /\ status = "running" /\ status' = status /\ Top.role = "for"
      /\ ctl' = [ctl EXCEPT ![Len(ctl)].pos = 1, ![Len(ctl)].save.i = @ + 1]
      /\ ctxs' = Append(Front(ctxs), y)
      /\ UNCHANGED <<scopes, spaces, callers, chains, loopUse>>
  BY DEF NextItem, Ending, WithCtx, modules, caches
<1>2. /\ ctl # << >> /\ IsSeq(ctl) /\ Len(ctl) \in Nat \ {0}
      /\ Top = Last(ctl) /\ Top = ctl[Len(ctl)] /\ IsFrame(Top) /\ SaveTyped(Top, serial) /\ RInv
  BY <1>1, TopNow DEF Top, Ready
<1>3. /\ Top.save = [vars |-> Top.save.vars, i |-> Top.save.i, n |-> Top.save.n,
                     needs |-> Top.save.needs]
      /\ Top.save.vars \in Seq(Vars) /\ Top.save.i \in Nat /\ Top.save.n \in Nat
  BY <1>1, <1>2 DEF SaveTyped
<1>4. ctl' = Turned(ctl, f)
  <2>1. [Top.save EXCEPT !.i = @ + 1] = save
    BY <1>3
  <2>2. [Top EXCEPT !.pos = 1, !.save.i = @ + 1] = [Top EXCEPT !.pos = 1, !.save = save]
    BY <1>2, <2>1 DEF IsFrame
  <2>3. [Top EXCEPT !.pos = 1, !.save = save] = f
    <3>1. Top = [role |-> Top.role, body |-> Top.body, copy |-> Top.copy, pos |-> Top.pos,
                 save |-> Top.save]
      BY <1>2 DEF IsFrame
    <3> DEFINE g == [role |-> Top.role, body |-> Top.body, copy |-> Top.copy, pos |-> 1,
                     save |-> Top.save]
    <3>2. [Top EXCEPT !.pos = 1] = g
      BY <3>1
    <3>3. [g EXCEPT !.save = save] = f
      OBVIOUS
    <3>4. [Top EXCEPT !.pos = 1, !.save = save] = [[Top EXCEPT !.pos = 1] EXCEPT !.save = save]
      BY <3>1
    <3> QED
      BY <3>2, <3>3, <3>4
  <2> HIDE DEF f, save
  <2> QED
    BY <1>1, <1>2, <2>2, <2>3 DEF Turned
<1>5. save.vars = Top.save.vars /\ save.needs = needs
  OBVIOUS
<1>6. f.role = "for" /\ f.body = Top.body /\ f.save = save
  BY <1>1
<1> HIDE DEF save, f
<1>7. /\ FramesFit(R, Q, ctl) /\ CallsSee(Q, ctl, ctxs) /\ ContextsInv(ctl, ctxs)
      /\ IsSeq(ctxs) /\ ctxs # << >> /\ Ctx = Last(ctxs) /\ Ctx \in Context
  BY <1>1, LoopsNow
<1>8. /\ FrameFits(R, Q, Top) /\ FramesFit(R, Q, c) /\ CallsSee(Q, c, ctxs)
      /\ Above(c, ctl) /\ IsSeq(c) /\ Len(c) \in Nat
  <2>1. \A k \in 0 .. Len(c) : View(c, ctxs, k) = View(c, ctxs, k)
    OBVIOUS
  <2> QED
    BY <1>1, <2>1, LoopsPop
<1>9. Len(ctl) = Len(c) + 1 /\ \A i \in 1 .. Len(c) : Same(c[i], ctl[i])
  BY <1>8 DEF Above
<1>10. "loop" \notin Range(Top.save.vars) /\ (needs \/ Top.body \in Q)
  BY <1>1, <1>8 DEF FrameFits
<1>11. FrameFits(R, Q, f)
  BY <1>1, <1>5, <1>6, <1>8, <1>10 DEF FrameFits
<1>12. FramesFit(R, Q, ctl')
  BY <1>2, <1>4, <1>7, <1>11, FitTurn
<1> DEFINE m == DepthAt(c, Len(c))
<1>13. m \in Nat /\ Len(Ctx.frames) = m + 1 /\ Len(ctxs) = Held(c, Len(c))
  <2>1. ctl[Len(c) + 1].role = "for"
    BY <1>1, <1>2, <1>9
  <2>2. /\ ctl[Len(c) + 1].role \notin Bases /\ Deepens(ctl[Len(c) + 1])
        /\ ctl[Len(c) + 1].role \notin Holders
    BY <2>1 DEF Bases, Deepens, Holders
  <2>3. DepthAt(ctl, Len(ctl)) = m + 1 /\ m \in Nat
    <3>1. Len(c) \in 0 .. Len(c)
      BY <1>8
    <3>2. DepthAt(c, Len(c)) \in Nat \ {0}
      BY <1>8, <3>1, DepthAbove
    <3>3. DepthAt(ctl, Len(c) + 1) = DepthAt(c, Len(c)) + 1
      BY <1>8, <2>2, DepthAbove
    <3> QED
      BY <1>9, <3>2, <3>3
  <2>4. Held(ctl, Len(ctl)) = Held(c, Len(c))
    <3>1. Held(ctl, Len(c) + 1) = Held(c, Len(c)) + 0 /\ Held(c, Len(c)) \in Nat
      BY <1>8, <2>2, HeldAbove
    <3> QED
      BY <1>9, <3>1
  <2>5. Len(Last(ctxs).frames) = DepthAt(ctl, Len(ctl)) /\ Len(ctxs) = Held(ctl, Len(ctl))
    BY <1>2, <1>7, ContextsLast DEF ContextsInv
  <2> QED
    BY <1>7, <2>3, <2>4, <2>5
<1> HIDE DEF c
<1>14. (\A j \in 1 .. m : y.frames[j] = Ctx.frames[j]) /\ (needs => Sees(LoopsIn(y)))
  <2>1. Top.save.i + 1 \in Nat
    BY <1>3
  <2> DEFINE i == Top.save.i + 1
             n == Top.save.n
             targets == Top.save.vars
  <2>2. y = Iterate(Ctx, needs, i, n, targets) /\ i \in Nat /\ n \in Nat
    BY <1>3, <2>1
  <2>3. targets \in Seq(Vars) /\ "loop" \notin Range(targets)
    BY <1>3, <1>10
  <2> HIDE DEF m, y, i, n, targets, needs
  <2>0. Len(Ctx.frames) # 0
    BY <1>13
  <2>4. \A j \in 1 .. Len(Ctx.frames) : j # Len(Ctx.frames) => y.frames[j] = Ctx.frames[j]
    BY <1>7, <2>0, <2>2, <2>3, IterateLoops
  <2>5. ASSUME needs PROVE Sees(LoopsIn(y))
    <3>1. y = Looped(Ctx, i, n, targets)
      BY <2>2, <2>5 DEF Iterate, Looped, LoopBound, Marked
    <3> QED
      BY <1>7, <2>0, <2>2, <2>3, <3>1, IterateSees
  <2> QED
    BY <1>13, <2>4, <2>5
<1> HIDE DEF y
<1>15. \A k \in 0 .. Len(c) : View(c, ctxs', k) = View(c, ctxs, k)
  <2>1. \A i \in 1 .. DepthAt(c, Len(c)) : LoopAt(y.frames[i]) = LoopAt(Last(ctxs).frames[i])
    BY <1>7, <1>14
  <2>2. Len(c) \in 0 .. Len(c)
    BY <1>8
  <2>3. \A k \in 0 .. Len(c) : View(c, Append(Front(ctxs), y), k) = View(c, ctxs, k)
    BY <1>7, <1>8, <1>13, <2>1, <2>2, ViewLast
  <2> QED
    BY <1>1, <2>3
<1>16. Above(c, ctl') /\ Last(ctl') = f
  <2>1. /\ Len(ctl') = Len(ctl) /\ ctl'[Len(ctl)] = f
        /\ \A i \in 1 .. Len(ctl) : i # Len(ctl) => ctl'[i] = ctl[i]
    BY <1>2, <1>4, SeqExcept DEF Turned
  <2>2. \A i \in 1 .. Len(c) : i \in 1 .. Len(ctl) /\ i # Len(ctl)
    BY <1>8, <1>9
  <2> QED
    BY <1>9, <2>1, <2>2 DEF Above, Last
<1>17. Sees(View(ctl', ctxs', Len(ctl'))) \/ Calm(Q, Last(ctl'))
  <2>1. IsSeq(ctl') /\ ContextsInv(ctl', ctxs')
    BY <1>1, NextSound
  <2>2. View(ctl', ctxs', Len(ctl')) = LoopsIn(Last(ctxs'))
    BY <2>1, ViewTop
  <2>3. Last(ctxs') = y
    <3>1. IsSeq(Front(ctxs))
      BY <1>7, SeqFront
    <3>2. Len(Front(ctxs)) \in Nat
      BY <3>1, SeqLength
    <3> QED
      BY <1>1, <3>1, <3>2, SeqAppend DEF Last
  <2>4. Calm(Q, f) \/ needs
    BY <1>6, <1>10 DEF Calm
  <2> QED
    BY <1>14, <1>16, <2>2, <2>3, <2>4
<1>18. CallsSee(Q, ctl', ctxs')
  BY <1>8, <1>15, <1>16, <1>17, SeesPush
<1> QED
  BY <1>1, <1>12, <1>18, LoopsStay

-----------------------------------------------------------------------------
(* The beginning of a template.                                            *)

(* A definition that is found in a body is one of its nodes.               *)
LEMMA NamedAt ==
    ASSUME NEW body \in Bodies, NEW kind, NEW name, Named(body, kind, name) # None
    PROVE  /\ Named(body, kind, name) \in Range(Code[body])
           /\ Named(body, kind, name).kind = kind /\ Named(body, kind, name).name = name
<1> DEFINE defs == {i \in Places(body, {kind}) : Code[body][i].name = name}
<1>1. \A i \in defs : i \in 1 .. Len(Code[body]) /\ Code[body][i].kind = kind
                      /\ Code[body][i].name = name
  BY CodeNodes DEF Places
<1>2. Named(body, kind, name) = IF defs = {} THEN None ELSE Code[body][Max(defs)]
  BY DEF Named
<1> HIDE DEF defs
<1>3. Len(Code[body]) \in Nat /\ DOMAIN Code[body] = 1 .. Len(Code[body])
  BY CodeNodes
<1>4. defs # {}
  BY <1>2
<1>5. Max(defs) \in defs
  <2>1. \A i \in defs : i \in 0 .. Len(Code[body])
    BY <1>1, <1>3
  <2> QED
    BY <1>3, <1>4, <2>1, MaxMember
<1>6. Max(defs) \in DOMAIN Code[body]
  BY <1>1, <1>3, <1>5
<1> QED
  BY <1>1, <1>2, <1>4, <1>5, <1>6 DEF Range

(* The macros of a template are among those of the bodies reached.         *)
LEMMA MacrosFit ==
    ASSUME NEW R, NEW body \in Bodies, body \in R
    PROVE  \A m \in MacroNames : MacrosOf[body][m] \in MacroNodes(R) \cup {None}
<1> TAKE m \in MacroNames
<1>1. MacrosOf[body][m] = Named(body, "macro", m)
  BY DEF MacrosOf
<1>2. CASE Named(body, "macro", m) # None
  BY <1>1, <1>2, NamedAt DEF MacroNodes, NodesAt
<1> QED
  BY <1>1, <1>2

(* So are its blocks.                                                      *)
LEMMA BlocksFit ==
    ASSUME NEW R, NEW body \in Bodies, body \in R
    PROVE  \A b \in BlockNames : BlocksOf[body][b] \in BlockBodies(R, b) \cup {None}
<1> TAKE b \in BlockNames
<1> DEFINE def == Named(body, "block", b)
<1>1. BlocksOf[body][b] = IF def = None THEN None ELSE def.body
  BY DEF BlocksOf
<1>2. CASE def # None
  <2>1. def \in Range(Code[body]) /\ def.kind = "block" /\ def.name = b
    BY <1>2, NamedAt
  <2> HIDE DEF def
  <2>2. def \in {node \in NodesAt(R) : node.kind = "block" /\ node.name = b}
    BY <2>1 DEF NodesAt
  <2>3. def.body \in BlockBodies(R, b)
    BY <2>1, <2>2 DEF BlockBodies, BodiesOf
  <2> QED
    BY <1>1, <1>2, <2>3
<1>3. CASE def = None
  BY <1>1, <1>3
<1> QED
  BY <1>2, <1>3

(* A template and its ancestors only have blocks that are reached.         *)
LEMMA ChainsOfFit ==
    ASSUME NEW R, NEW Q, Grounds(R, Q), RInv, NEW open, NEW root \in Bodies, root \in R,
           IsChild(root), ~LayoutBroken(open, root)
    PROVE  ChainsFit(R, ChainsOf(lib, ParentOf[root].name, BlocksOf[root]))
<1> DEFINE parent == ParentOf[root].name
           line == Ancestry(lib, parent)
           n == Len(line)
<1>1. lib \in Libraries /\ Reaches({lib}, R)
  BY DEF RInv, Grounds
<1>2. parent \in Names /\ ParentsOK(lib, parent)
  BY <1>1, ParentNow
<1>3. line \in Seq(Bodies) /\ n \in Nat \ {0} /\ \A i \in 1 .. n : line[i] \in Bodies
  BY <1>1, <1>2, AncestryType
<1>4. \A i \in 1 .. n : line[i] \in R
  <2> TAKE i \in 1 .. n
  <2>1. PICK name \in Names : line[i] = lib[name]
    BY <1>1, <1>2, AncestryType
  <2>2. line[i] # None
    BY <1>3, TemplateConstants
  <2> QED
    BY <1>1, <2>1, <2>2 DEF Reaches
<1> HIDE DEF line, n
<1>5. ASSUME NEW b \in BlockNames
      PROVE  LayersOf(line, BlocksOf[root][b], b)[1] \in Seq(BlockBodies(R, b))
  <2> DEFINE S == BlockBodies(R, b)
             over == BlocksOf[root][b]
             layers == LayersOf(line, over, b)
             local(i) == BlocksOf[line[i]][b]
             Over(i) == IF i = 1 THEN over ELSE BlocksOf[line[i - 1]][b]
             Fine == {i \in 1 .. n : layers[i] \in Seq(S)}
  <2>1. over \in Bodies \cup {None} /\ over \in S \cup {None}
    BY BlocksType, BlocksFit
  <2>2. \A i \in 1 .. n :
           layers[i] = JoinChain(Over(i), IF i = n THEN << >> ELSE layers[i + 1], local(i))
    BY <1>3, <2>1, LayersSteps DEF n
  <2>3. \A i \in 1 .. n : local(i) \in S \cup {None}
    BY <1>3, <1>4, BlocksFit
  <2>4. \A i \in 1 .. n : Over(i) \in S \cup {None}
    <3> TAKE i \in 1 .. n
    <3>1. i # 1 => i - 1 \in 1 .. n
      BY <1>3
    <3> QED
      BY <1>3, <1>4, <2>1, <3>1, BlocksFit
  <2>5. \A x \in S \cup {None} : Layer(x) \in Seq(S)
    BY DEF Layer
  <2> HIDE DEF S, layers, local, Over
  <2>6. \A s, t \in Seq(S) : s \o t \in Seq(S)
    OBVIOUS
  <2>7. \A x, y \in S \cup {None}, s \in Seq(S) : JoinChain(x, s, y) \in Seq(S)
    BY <2>5, <2>6 DEF JoinChain
  <2>8. \A i \in 1 .. n : i = n \/ i + 1 \in Fine => i \in Fine
    <3> TAKE i \in 1 .. n
    <3> SUFFICES ASSUME i = n \/ i + 1 \in Fine PROVE layers[i] \in Seq(S)
      OBVIOUS
    <3>0. << >> \in Seq(S)
      OBVIOUS
    <3>1. (IF i = n THEN << >> ELSE layers[i + 1]) \in Seq(S)
      <4>1. CASE i = n
        BY <3>0, <4>1
      <4>2. CASE i # n
        <5>1. layers[i + 1] \in Seq(S)
          BY <4>2
        <5> QED
          BY <4>2, <5>1
      <4> QED
        BY <4>1, <4>2
    <3> DEFINE up == IF i = n THEN << >> ELSE layers[i + 1]
    <3>2. layers[i] = JoinChain(Over(i), up, local(i))
      BY <2>2
    <3>3. up \in Seq(S)
      BY <3>1
    <3>4. Over(i) \in S \cup {None} /\ local(i) \in S \cup {None}
      BY <2>3, <2>4
    <3> HIDE DEF up
    <3> QED
      BY <2>7, <3>2, <3>3, <3>4
  <2>9. Fine \in SUBSET Nat /\ \A i \in Fine : i \in 1 .. n
    OBVIOUS
  <2>10. n \in Fine
    BY <1>3, <2>8
  <2> HIDE DEF Fine
  <2>11. PICK k \in Fine : \A j \in Fine : k <= j
    BY <2>9, <2>10, LeastMember
  <2>12. k = 1
    <3> SUFFICES ASSUME k # 1 PROVE FALSE
      OBVIOUS
    <3>1. k \in 1 .. n
      BY <2>9
    <3>2. k - 1 \in 1 .. n /\ (k - 1) + 1 = k /\ k - 1 < k
      BY <1>3, <3>1
    <3>3. k - 1 \in Fine
      BY <2>8, <2>11, <3>2
    <3> QED
      BY <2>11, <3>1, <3>2, <3>3
  <2>13. layers[1] \in Seq(S)
    BY <2>11, <2>12 DEF Fine
  <2> QED
    BY <2>13 DEF S, layers
<1>6. \A b \in BlockNames :
         ChainsOf(lib, parent, BlocksOf[root])[b] = LayersOf(line, BlocksOf[root][b], b)[1]
  BY DEF ChainsOf, line
<1> DEFINE lined == ChainsOf(lib, parent, BlocksOf[root])
<1> HIDE DEF lined
<1>7. \A b \in BlockNames : lined[b] \in Seq(BlockBodies(R, b))
  BY <1>5, <1>6 DEF lined
<1>8. ChainsFit(R, lined)
  BY <1>7 DEF ChainsFit
<1> QED
  BY <1>8 DEF lined

(* The scopes with the macros of a root.                                   *)
LEMMA PushMacrosFit ==
    ASSUME NEW R, ScopesFit(R, scopes), IsSeq(scopes), NEW root \in Bodies, root \in R,
           PushMacros(root)
    PROVE  ScopesFit(R, scopes')
<1>1. \A m \in MacroNames : MacrosOf[root][m] \in MacroNodes(R) \cup {None}
  BY MacrosFit
<1>2. CASE scopes' = scopes
  BY <1>2
<1>3. CASE scopes' = Append(scopes, MacrosOf[root])
  <2> DEFINE top == MacrosOf[root]
  <2> HIDE DEF top
  <2>1. /\ Len(scopes) \in Nat /\ Len(scopes') = Len(scopes) + 1
        /\ scopes'[Len(scopes) + 1] = top
        /\ \A i \in 1 .. Len(scopes) : scopes'[i] = scopes[i]
    BY <1>3, SeqAppend, SeqLength DEF top
  <2> QED
    BY <1>1, <2>1 DEF ScopesFit, top
<1> QED
  BY <1>2, <1>3 DEF PushMacros

(* The frame of a root, on top of those that are right.                    *)
LEMMA RootSees ==
    ASSUME NEW R, NEW Q, RInv', status' # "failed", NEW c, IsSeq(c), FramesFit(R, Q, c),
           CallsSee(Q, c, ctxs'), Sees(LoopsIn(Last(ctxs'))),
           NEW root, root \in R, ctl' = Append(c, RootFrame(root))
    PROVE  FramesFit(R, Q, ctl') /\ CallsSee(Q, ctl', ctxs')
<1> DEFINE f == RootFrame(root)
           xs == ctxs'
           d == Append(c, f)
<1>1. f.role = "root" /\ f.body = root
  BY DEF RootFrame, Frame
<1>2. IsSeq(ctl') /\ ContextsInv(ctl', ctxs')
  BY NextSound
<1>3. ctl' = d /\ IsSeq(d) /\ ContextsInv(d, xs) /\ CallsSee(Q, c, xs) /\ Sees(LoopsIn(Last(xs)))
  BY <1>2
<1> HIDE DEF f, xs
<1>4. FrameFits(R, Q, f)
  BY <1>1 DEF FrameFits
<1>5. FramesFit(R, Q, d)
  BY <1>4, FitPush
<1>6. /\ Len(c) \in Nat /\ Len(d) = Len(c) + 1 /\ d[Len(c) + 1] = f
      /\ \A i \in 1 .. Len(c) : d[i] = c[i]
  BY SeqLength, SeqAppend
<1>7. Above(c, d)
  BY <1>6, SameFrame DEF Above
<1> HIDE DEF d
<1>8. Sees(View(d, xs, Len(d)))
  BY <1>3, ViewTop
<1>9. \A k \in 0 .. Len(c) : View(c, xs, k) = View(c, xs, k)
  OBVIOUS
<1>10. CallsSee(Q, d, xs)
  BY <1>3, <1>6, <1>7, <1>8, <1>9, SeesPush
<1> QED
  BY <1>3, <1>5, <1>10 DEF xs

(* A template begins, or the layout of a child does, with the blocks of    *)
(* those around it.                                                        *)
LEMMA EntrySees ==
    ASSUME NEW R, NEW Q, Ready(R, Q), async' = async, RInv', status \in {"start", "running"},
           NEW below, IsSeq(below), FramesFit(R, Q, below), CallsSee(Q, below, ctxs'),
           Sees(LoopsIn(Last(ctxs'))), NEW open, NEW root \in Bodies, root \in R,
           RenderEntry(below, open, root)
    PROVE  /\ FramesFit(R, Q, ctl') /\ CallsSee(Q, ctl', ctxs')
           /\ ScopesFit(R, scopes') /\ ChainsFit(R, chains')
<1>1. /\ RInv /\ Grounds(R, Q) /\ lib \in Libraries /\ Reaches({lib}, R)
      /\ ScopesFit(R, scopes) /\ ChainsFit(R, chains) /\ IsSeq(scopes)
  <2>1. RInv /\ Grounds(R, Q)
    BY DEF Ready
  <2>2. scopes \in Seq(Scope) /\ lib \in Libraries
    BY <2>1, TypesNow
  <2> QED
    BY <2>1, <2>2, LoopsNow, SeqAny DEF Grounds
<1>2. CASE /\ ~IsChild(root) /\ ctl' = Append(below, RootFrame(root)) /\ names' = open
           /\ PushMacros(root) /\ status' = "running" /\ chains' = chains
  <2>1. FramesFit(R, Q, ctl') /\ CallsSee(Q, ctl', ctxs')
    BY <1>2, RootSees
  <2>2. ScopesFit(R, scopes')
    BY <1>1, <1>2, PushMacrosFit
  <2> QED
    BY <1>1, <1>2, <2>1, <2>2
<1>3. CASE LET parent == ParentOf[root].name
           IN  /\ IsChild(root) /\ ~LayoutBroken(open, root)
               /\ ctl' = below \o <<Frame("layout", None, 0,
                                          [name |-> parent, child |-> root, prev |-> chains]),
                                    RootFrame(lib[parent])>>
               /\ names' = Append(open, parent)
               /\ chains' = ChainsOf(lib, parent, BlocksOf[root])
               /\ PushMacros(lib[parent])
               /\ status' = "running"
  <2> DEFINE parent == ParentOf[root].name
             f == Frame("layout", None, 0, [name |-> parent, child |-> root, prev |-> chains])
             base == lib[parent]
             c == Append(below, f)
             xs == ctxs'
  <2>1. ParentOf[root] # None /\ parent \in Names /\ base \in Bodies
    BY <1>1, <1>3, ParentNow
  <2>2. base \in R
    BY <1>1, <2>1, TemplateConstants DEF Reaches
  <2>3. ctl' = Append(c, RootFrame(base))
    <3> DEFINE g == RootFrame(base)
    <3>1. ctl' = below \o <<f, g>>
      BY <1>3
    <3> HIDE DEF f, g
    <3>2. below \o <<f, g>> = Append(Append(below, f), g)
      BY DEF IsSeq
    <3> QED
      BY <3>1, <3>2 DEF g
  <2>4. f.role = "layout" /\ f.body = None /\ f.save.prev = chains
    BY DEF Frame
  <2>5. PushMacros(base) /\ status' = "running"
    BY <1>3
  <2>6. ChainsFit(R, chains')
    BY <1>1, <1>3, ChainsOfFit
  <2>7. ScopesFit(R, scopes')
    BY <1>1, <2>1, <2>2, <2>5, PushMacrosFit
  <2> HIDE DEF f, base, parent
  <2>8. FrameFits(R, Q, f)
    BY <1>1, <2>4 DEF FrameFits
  <2>9. FramesFit(R, Q, c)
    BY <2>8, FitPush
  <2>10. /\ Len(below) \in Nat /\ Len(c) = Len(below) + 1 /\ c[Len(below) + 1] = f /\ IsSeq(c)
         /\ \A i \in 1 .. Len(below) : c[i] = below[i]
    BY SeqLength, SeqAppend
  <2>11. Above(below, c) /\ Last(c) = f
    BY <2>10, SameFrame DEF Above, Last
  <2> HIDE DEF c
  <2>12. CallsSee(Q, c, xs)
    <3>1. CallsSee(Q, below, xs)
      OBVIOUS
    <3> HIDE DEF xs
    <3>2. \A k \in 0 .. Len(below) : View(below, xs, k) = View(below, xs, k)
      OBVIOUS
    <3>3. Calm(Q, Last(c))
      BY <2>4, <2>11 DEF Calm
    <3> QED
      BY <2>10, <2>11, <3>1, <3>2, <3>3, SeesPush
  <2>13. FramesFit(R, Q, ctl') /\ CallsSee(Q, ctl', ctxs')
    BY <2>2, <2>3, <2>5, <2>9, <2>10, <2>12, RootSees
  <2> QED
    BY <2>6, <2>7, <2>13
<1> QED
  BY <1>2, <1>3 DEF RenderEntry

(* A render begins without a loop.                                         *)
LEMMA BeginSees ==
    ASSUME NEW R, NEW Q, Ready(R, Q), async' = async, RInv', Begin PROVE LoopsInv(R, Q)'
<1>1. PICK named \in BOOLEAN :
         LET open == IF named THEN <<Main>> ELSE << >>
             name == IF named THEN Main ELSE None
         IN  \/ /\ RenderEntry(<<Frame("entry", None, 0, [name |-> name])>>, open, lib[Main])
                /\ UNCHANGED <<lib, spaces, super, callers, ctxs, caches, serial>>
             \/ Fail
  BY DEF Begin
<1> DEFINE open == IF named THEN <<Main>> ELSE << >>
           name == IF named THEN Main ELSE None
           f == Frame("entry", None, 0, [name |-> name])
           c == <<f>>
           xs == ctxs
<1>2. CASE Fail
  BY <1>2, LoopsFail
<1>3. CASE /\ RenderEntry(<<f>>, open, lib[Main])
           /\ UNCHANGED <<lib, spaces, super, callers, ctxs, caches, serial>>
  <2>1. status = "start" /\ RInv /\ Grounds(R, Q)
    BY DEF Begin, Ready
  <2>2. ctl = << >>
    BY <2>1 DEF RInv
  <2>3. /\ FramesFit(R, Q, ctl) /\ CallsSee(Q, ctl, ctxs) /\ IsSeq(ctl) /\ Len(ctl) \in Nat
        /\ ContextsInv(ctl, ctxs) /\ SpacesFit(R, spaces) /\ CallersFit(R, callers) /\ UsesRight
    BY <2>1, LoopsNow
  <2>4. /\ spaces' = spaces /\ callers' = callers /\ ctxs' = ctxs /\ loopUse' = loopUse
        /\ async' = async
    BY <1>3 DEF caches, Ready
  <2>5. f.role = "entry" /\ f.body = None
    BY DEF Frame
  <2> HIDE DEF f
  <2>6. c = Append(ctl, f) /\ IsSeq(c)
    <3>1. <<f>> = Append(ctl, f)
      BY <2>2
    <3> QED
      BY <2>3, <3>1, SeqAppend
  <2>7. Sees(LoopsIn(Last(ctxs)))
    <3>1. Len(ctl) = 0
      BY <2>2
    <3>2. View(ctl, ctxs, 0) = LoopsIn(Last(ctxs))
      BY <2>3, <3>1, ViewTop
    <3> QED
      BY <2>3, <3>2 DEF CallsSee
  <2>8. FrameFits(R, Q, f) /\ Calm(Q, f)
    BY <2>5 DEF FrameFits, Calm
  <2> HIDE DEF c
  <2>9. FramesFit(R, Q, c)
    BY <2>3, <2>6, <2>8, FitPush
  <2>10. CallsSee(Q, c, ctxs)
    <3>1. /\ Len(c) = Len(ctl) + 1 /\ c[Len(ctl) + 1] = f
          /\ \A i \in 1 .. Len(ctl) : c[i] = ctl[i]
      BY <2>3, <2>6, SeqAppend
    <3>2. Above(ctl, c) /\ Last(c) = f
      BY <3>1, SameFrame DEF Above, Last
    <3>3. \A k \in 0 .. Len(ctl) : View(ctl, ctxs, k) = View(ctl, ctxs, k)
      OBVIOUS
    <3> QED
      BY <2>3, <2>8, <3>2, <3>3, SeesPush
  <2>11. lib[Main] \in Bodies /\ lib[Main] \in R
    BY <2>1, RendererConstants, TemplateConstants DEF RInv, Libraries, Grounds, Reaches
  <2>12. RenderEntry(c, open, lib[Main]) /\ CallsSee(Q, c, ctxs') /\ Sees(LoopsIn(Last(ctxs')))
    BY <1>3, <2>4, <2>7, <2>10 DEF c
  <2> HIDE DEF open
  <2>13. /\ FramesFit(R, Q, ctl') /\ CallsSee(Q, ctl', ctxs')
         /\ ScopesFit(R, scopes') /\ ChainsFit(R, chains')
    BY <2>1, <2>6, <2>9, <2>11, <2>12, EntrySees
  <2> QED
    BY <2>3, <2>4, <2>13, UsesKept, LoopsDone
<1> QED
  BY <1>1, <1>2, <1>3

(* What a template is given to see of the loops around it: all, or none.   *)
LEMMA GivenSees ==
    ASSUME NEW x \in Context, NEW shared, shared => Sees(LoopsIn(x)), NEW id
    PROVE  Sees(LoopsIn(FromRoot(id, IF shared THEN Flattened(x) ELSE EmptyFrame)))
<1>1. CASE shared
  BY <1>1, FlattenSees
<1>2. CASE ~shared
  BY <1>2, EmptySees
<1> QED
  BY <1>1, <1>2

(* A template that is included sees the loop around the include, or none.  *)
LEMMA IncludeSees ==
    ASSUME NEW R, NEW Q, Ready(R, Q), async' = async, RInv', Include PROVE LoopsInv(R, Q)'
<1> DEFINE name == Current.name
           open == Append(names, name)
           f == Frame("template", None, 0, [name |-> name])
           x == FromRoot(serial + 1, IF Current.context THEN Flattened(Ctx) ELSE EmptyFrame)
           c == Append(Past, f)
<1>1. /\ Starting /\ status = "running" /\ Current.kind = "include" /\ ~Skipped(Top, Current)
      /\ \/ /\ Continue
            /\ UNCHANGED <<lib, names, modules, chains, super, callers, ctxs, caches, serial>>
         \/ /\ MayOpen(names, name)
            /\ RenderEntry(c, open, lib[name])
            /\ ctxs' = Append(ctxs, x)
            /\ serial' = serial + 1
            /\ UNCHANGED <<lib, spaces, super, callers, caches>>
         \/ Fail
  BY DEF Include, At, Starting
<1>2. CASE Fail
  BY <1>2, LoopsFail
<1>3. CASE /\ Continue
           /\ UNCHANGED <<lib, names, modules, chains, super, callers, ctxs, caches, serial>>
  <2>1. UNCHANGED <<modules, callers, chains, ctxs, loopUse>>
    BY <1>3 DEF caches
  <2> QED
    BY <1>1, <1>3, <2>1, PlaceSees
<1>4. CASE /\ MayOpen(names, name)
           /\ RenderEntry(c, open, lib[name])
           /\ ctxs' = Append(ctxs, x)
           /\ serial' = serial + 1
           /\ UNCHANGED <<lib, spaces, super, callers, caches>>
  <2>1. RInv /\ Grounds(R, Q)
    BY DEF Ready
  <2>2. /\ SpacesFit(R, spaces) /\ CallersFit(R, callers) /\ UsesRight
        /\ Ctx \in Context /\ IsSeq(ctxs)
    BY <1>1, LoopsNow
  <2>3. /\ spaces' = spaces /\ callers' = callers /\ loopUse' = loopUse /\ async' = async
        /\ ctxs' = Append(ctxs, x)
    BY <1>4 DEF caches, Ready
  <2>4. /\ FramesFit(R, Q, Past) /\ CallsSee(Q, Past, ctxs)
        /\ IsSeq(Past) /\ Len(Past) \in Nat /\ ContextsInv(Past, ctxs)
    BY <1>1, PastSees
  <2>5. Current.context => Sees(LoopsIn(Ctx))
    <3>1. Sees(LoopsIn(Ctx)) \/ CalmNode({lib}, R, Q, Current)
      BY <1>1, HereNow
    <3> QED
      BY <1>1, <3>1 DEF CalmNode, ReadsLoop
  <2>6. Sees(LoopsIn(x))
    BY <2>2, <2>5, GivenSees
  <2> HIDE DEF x
  <2>7. Last(ctxs') = x
    BY <2>2, <2>3, SeqAppend, SeqLength DEF Last
  <2>8. f.role = "template" /\ f.body = None
    BY DEF Frame
  <2> HIDE DEF f
  <2>9. FrameFits(R, Q, f) /\ Calm(Q, f)
    BY <2>8 DEF FrameFits, Calm
  <2>10. FramesFit(R, Q, c)
    BY <2>4, <2>9, FitPush
  <2>11. /\ Len(c) = Len(Past) + 1 /\ c[Len(Past) + 1] = f /\ IsSeq(c)
         /\ \A i \in 1 .. Len(Past) : c[i] = Past[i]
    BY <2>4, SeqAppend
  <2>12. Above(Past, c) /\ Last(c) = f
    BY <2>11, SameFrame DEF Above, Last
  <2>13. RenderEntry(c, open, lib[name])
    BY <1>4
  <2>14. lib[name] \in Bodies /\ lib[name] \in R
    <3>1. name \in Names
      BY <1>1, <2>1, NodeNow, NameFields
    <3>2. lib \in Libraries /\ lib[name] # None
      BY <1>4, <2>1 DEF MayOpen, RInv
    <3> QED
      BY <2>1, <3>1, <3>2 DEF Libraries, Grounds, Reaches
  <2> HIDE DEF c, open, name
  <2>15. CallsSee(Q, c, ctxs')
    <3> DEFINE xs == ctxs'
    <3>1. Len(ctxs) = Held(Past, Len(Past)) /\ xs = Append(ctxs, x)
      BY <2>3, <2>4 DEF ContextsInv
    <3>2. \A k \in 0 .. Len(Past) : View(Past, xs, k) = View(Past, ctxs, k)
      BY <2>2, <2>4, <3>1, ViewAppend
    <3> HIDE DEF xs
    <3>3. CallsSee(Q, c, xs)
      BY <2>4, <2>9, <2>12, <3>2, SeesPush
    <3> QED
      BY <3>3 DEF xs
  <2>16. /\ FramesFit(R, Q, ctl') /\ CallsSee(Q, ctl', ctxs')
         /\ ScopesFit(R, scopes') /\ ChainsFit(R, chains')
    <3>1. Sees(LoopsIn(Last(ctxs')))
      BY <2>6, <2>7
    <3> QED
      BY <1>1, <2>10, <2>11, <2>13, <2>14, <2>15, <3>1, EntrySees
  <2> QED
    BY <2>2, <2>3, <2>16, UsesKept, LoopsDone
<1> QED
  BY <1>1, <1>2, <1>3, <1>4

-----------------------------------------------------------------------------
(* Imports.                                                                *)

(* What an import evaluates sees the loop around it, or reads none.        *)
LEMMA ImportSees ==
    ASSUME NEW R, NEW Q, Ready(R, Q), async' = async, RInv', Import PROVE LoopsInv(R, Q)'
<1> DEFINE name == Current.name
           save == [name |-> name, node |-> Current, out |-> NoBindings]
           f == Frame("module", lib[name], serial + 1, save)
           x == FromRoot(serial + 1, IF Current.context THEN Flattened(Ctx) ELSE EmptyFrame)
<1>1. /\ Starting /\ status = "running" /\ Current.kind \in {"import", "from"}
      /\ ~Skipped(Top, Current)
      /\ \/ /\ MayOpen(names, name) /\ Push(f)
            /\ ctxs' = Append(ctxs, x)
            /\ UNCHANGED <<lib, modules, chains, super, callers, caches>>
         \/ Fail
  BY DEF Import, At, Starting
<1>2. CASE Fail
  BY <1>2, LoopsFail
<1>3. CASE /\ MayOpen(names, name) /\ Push(f)
           /\ ctxs' = Append(ctxs, x)
           /\ UNCHANGED <<lib, modules, chains, super, callers, caches>>
  <2>1. RInv /\ Grounds(R, Q)
    BY DEF Ready
  <2>2. Ctx \in Context /\ IsSeq(ctxs)
    BY <1>1, LoopsNow
  <2>3. /\ UNCHANGED <<scopes, spaces, callers, chains, loopUse>>
        /\ ctxs' = Append(ctxs, x)
        /\ ctl' = Append(Past, f) /\ status' # "failed"
    BY <1>1, <1>3 DEF caches, modules, Push
  <2>4. /\ IsSeq(Past) /\ Len(Past) \in Nat /\ ContextsInv(Past, ctxs)
    BY <1>1, PastSees
  <2>5. /\ Current \in NodesAt(R) /\ Current \in Node
        /\ Sees(LoopsIn(Ctx)) \/ CalmNode({lib}, R, Q, Current)
    BY <1>1, HereNow
  <2>6. lib[name] \in Bodies /\ lib[name] \in R /\ lib[name] # None
    <3>1. name \in Names
      BY <1>1, <2>5, NameFields
    <3>2. lib \in Libraries /\ lib[name] # None
      BY <1>3, <2>1 DEF MayOpen, RInv
    <3> QED
      BY <2>1, <3>1, <3>2 DEF Libraries, Grounds, Reaches
  <2>7. /\ save.node = Current /\ save.out["loop"] = None
    BY TemplateConstants DEF NoBindings
  <2> HIDE DEF save
  <2>8. f.role = "module" /\ f.body = lib[name] /\ f.save = save
    BY DEF Frame
  <2> HIDE DEF f
  <2>9. FrameFits(R, Q, f)
    <3>1. Current.kind = "from" => \A y \in Range(Current.names) : y.local # "loop"
      BY <2>1, <2>5 DEF Grounds, OnlyLoopsBindLoop
    <3> QED
      BY <2>6, <2>7, <2>8, <3>1 DEF FrameFits
  <2>10. Sees(LoopsIn(x)) \/ Calm(Q, f)
    <3>1. CASE Current.context => Sees(LoopsIn(Ctx))
      <4>1. Sees(LoopsIn(x))
        BY <2>2, <3>1, GivenSees
      <4> QED
        BY <4>1
    <3>2. CASE Current.context /\ CalmNode({lib}, R, Q, Current)
      <4>1. CalmModule(Q, lib[name])
        BY <1>1, <2>6, <3>2 DEF CalmNode, StaysCalm
      <4> QED
        BY <2>8, <4>1 DEF Calm
    <3> QED
      BY <2>5, <3>1, <3>2
  <2> HIDE DEF x
  <2>11. Last(ctxs') = x
    BY <2>2, <2>3, SeqAppend, SeqLength DEF Last
  <2>12. \A k \in 0 .. Len(Past) : View(Past, ctxs', k) = View(Past, ctxs, k)
    <3>1. Len(ctxs) = Held(Past, Len(Past))
      BY <2>4 DEF ContextsInv
    <3> QED
      BY <2>2, <2>3, <2>4, <3>1, ViewAppend
  <2>13. FramesFit(R, Q, ctl') /\ CallsSee(Q, ctl', ctxs')
    BY <1>1, <2>3, <2>9, <2>10, <2>11, <2>12, LoopsPush
  <2> QED
    BY <1>1, <2>3, <2>13, LoopsStay
<1> QED
  BY <1>1, <1>2, <1>3

(* A namespace has macros that are reached, and no value loop.             *)
LEMMA EndImportSees ==
    ASSUME NEW R, NEW Q, Ready(R, Q), async' = async, RInv', EndImport PROVE LoopsInv(R, Q)'
<1> DEFINE space == [macros |-> MacrosOf[Top.body], vals |-> Top.save.out]
           alias == Top.save.node.alias
<1>1. /\ status = "running" /\ Leave /\ Top.role = "module" /\ Top.role \in Holders
      /\ ctxs' = Front(ctxs)
      /\ spaces' = Inserted(spaces, alias, space)
      /\ scopes' = scopes /\ chains' = chains /\ callers' = callers /\ loopUse' = loopUse
      /\ async' = async
  BY DEF EndImport, Ending, Holders, caches, Ready
<1>2. /\ FramesFit(R, Q, ctl') /\ CallsSee(Q, ctl', ctxs')
      /\ FrameFits(R, Q, Top) /\ IsFrame(Top)
  BY <1>1, EndSees
<1>3. /\ ScopesFit(R, scopes) /\ SpacesFit(R, spaces)
      /\ CallersFit(R, callers) /\ ChainsFit(R, chains) /\ UsesRight
  BY <1>1, LoopsNow
<1>4. Top.body \in Bodies /\ Top.body \in R
  BY <1>1, <1>2, TemplateConstants DEF IsFrame, FrameFits
<1>5. space.vals["loop"] = None
  BY <1>1, <1>2 DEF FrameFits
<1>6. \A m \in MacroNames : space.macros[m] \in MacroNodes(R) \cup {None}
  BY <1>4, MacrosFit
<1> HIDE DEF space, alias
<1>7. SpacesFit(R, spaces')
  <2>1. /\ DOMAIN spaces' = DOMAIN spaces \cup {alias}
        /\ \A ns \in DOMAIN spaces' : spaces'[ns] = IF ns = alias THEN space ELSE spaces[ns]
    BY <1>1 DEF Inserted
  <2>2. ASSUME NEW ns \in DOMAIN spaces'
        PROVE  /\ \A m \in MacroNames : spaces'[ns].macros[m] \in MacroNodes(R) \cup {None}
               /\ spaces'[ns].vals["loop"] = None
    <3>1. CASE ns = alias
      BY <1>5, <1>6, <2>1, <3>1
    <3>2. CASE ns # alias
      <4>1. ns \in DOMAIN spaces /\ spaces'[ns] = spaces[ns]
        BY <2>1, <3>2
      <4> QED
        BY <1>3, <4>1 DEF SpacesFit
    <3> QED
      BY <3>1, <3>2
  <2> QED
    BY <2>2 DEF SpacesFit
<1>8. UsesRight'
  BY <1>1, <1>3, UsesKept
<1> QED
  BY <1>1, <1>2, <1>3, <1>7, <1>8, LoopsDone

(* What a from imports: macros that are reached, and no value loop.        *)
LEMMA ImportedFits ==
    ASSUME NEW R, Top.body \in Bodies, Top.body \in R,
           \A x \in Range(Top.save.node.names) : x.local # "loop",
           Len(Top.save.node.names) \in Nat,
           DOMAIN Top.save.node.names = 1 .. Len(Top.save.node.names),
           NEW ctx \in Context
    PROVE  /\ \A m \in MacroNames : ImportedScope[m] \in MacroNodes(R) \cup {None}
           /\ SameLoops(ctx, ImportValues(ctx))
<1> DEFINE asked == Top.save.node.names
<1>1. \A m \in MacroNames : ImportedScope[m] \in MacroNodes(R) \cup {None}
  <2>1. \A export : Named(Top.body, "macro", export) \in MacroNodes(R) \cup {None}
    <3> TAKE export
    <3>1. CASE Named(Top.body, "macro", export) # None
      BY <3>1, NamedAt DEF MacroNodes, NodesAt
    <3> QED
      BY <3>1
  <2> QED
    BY <2>1 DEF ImportedScope
<1>2. Imported("loop", FALSE) = None
  <2> DEFINE from == {i \in DOMAIN asked : /\ asked[i].local = "loop"
                                           /\ (ExportsMacro(asked[i].export) <=> FALSE)}
  <2>1. from = {}
    BY DEF Range
  <2> QED
    BY <2>1 DEF Imported
<1> DEFINE vals == [v \in Vars |-> LET export == Imported(v, FALSE)
                                   IN  IF export = None THEN None ELSE Top.save.out[export]]
           n == Cardinality({i \in DOMAIN asked : ~ExportsMacro(asked[i].export)})
<1>3. vals["loop"] = None
  BY <1>2, TemplateConstants
<1>4. ImportValues(ctx) = SetVars(ctx, vals, n)
  BY DEF ImportValues
<1> HIDE DEF vals, n
<1> QED
  BY <1>1, <1>3, <1>4, SetVarsLoops

(* The end of a from: the names that it takes from the exports.            *)
LEMMA EndFromSees ==
    ASSUME NEW R, NEW Q, Ready(R, Q), async' = async, RInv', EndFrom PROVE LoopsInv(R, Q)'
<1> DEFINE xs == Front(ctxs)
           x == ImportValues(Last(xs))
           scope == ImportedScope
           c == Front(ctl)
<1>1. CASE Fail
  BY <1>1, LoopsFail
<1>2. CASE ~Fail
  <2>1. /\ status = "running" /\ Leave /\ Top.role = "module" /\ Top.save.node.kind = "from"
        /\ ctxs' = Append(Front(xs), x) /\ ctl' = c /\ status' # "failed"
        /\ scopes' = Append(scopes, scope)
        /\ spaces' = spaces /\ chains' = chains /\ callers' = callers /\ loopUse' = loopUse
        /\ async' = async
    BY <1>2 DEF EndFrom, Ending, Leave, caches, Ready
  <2>2. /\ IsSeq(c) /\ ContextsInv(c, Append(Front(xs), x))
    BY <2>1, NextSound
  <2>3. /\ IsSeq(ctl) /\ ContextsInv(ctl, ctxs) /\ IsSeq(ctxs) /\ ctxs # << >>
        /\ ScopesFit(R, scopes) /\ SpacesFit(R, spaces)
        /\ CallersFit(R, callers) /\ ChainsFit(R, chains) /\ UsesRight
    BY <2>1, LoopsNow
  <2>4. RInv
    BY DEF Ready
  <2>5. /\ DataInv(c, xs, extCache, serial) /\ Top.body \in Bodies /\ Top.save.node \in Imports
    BY <2>1, <2>4, ModuleNow
  <2>6. IsSeq(xs) /\ xs # << >> /\ Last(xs) \in Context /\ ContextsInv(c, xs)
    BY <2>2, <2>5, DataParts, ContextsLast
  <2>7. Above(c, ctl) /\ FrameFits(R, Q, Top) /\ Len(c) \in Nat
    <3>1. \A k \in 0 .. Len(c) : View(c, ctxs, k) = View(c, ctxs, k)
      OBVIOUS
    <3> HIDE DEF c
    <3>2. c = Front(ctl)
      BY DEF c
    <3> QED
      BY <2>1, <3>1, <3>2, LoopsPop
  <2>8. /\ \A m \in MacroNames : scope[m] \in MacroNodes(R) \cup {None}
        /\ SameLoops(Last(xs), x)
    <3>1. Top.body \in R /\ \A y \in Range(Top.save.node.names) : y.local # "loop"
      BY <2>1, <2>5, <2>7, TemplateConstants DEF FrameFits
    <3>2. /\ Len(Top.save.node.names) \in Nat
          /\ DOMAIN Top.save.node.names = 1 .. Len(Top.save.node.names)
      BY <2>1, <2>5, NameFields DEF Imports
    <3> HIDE DEF xs
    <3> QED
      BY <2>5, <2>6, <3>1, <3>2, ImportedFits
  <2> HIDE DEF scope, x
  <2>9. \A k \in 0 .. Len(c) : View(c, xs, k) = View(c, ctxs, k)
    <3>1. Len(xs) = Held(c, Len(c))
      BY <2>6 DEF ContextsInv
    <3>2. Len(xs) = Len(ctxs) - 1 /\ Len(ctxs) \in Nat
      BY <2>3, SeqFront, SeqLength
    <3>3. Len(ctxs) = Held(c, Len(c)) + 1
      BY <3>1, <3>2
    <3> HIDE DEF c
    <3> QED
      BY <2>3, <2>7, <3>3, ViewFront
  <2>10. \A k \in 0 .. Len(c) : View(c, Append(Front(xs), x), k) = View(c, xs, k)
    <3>1. \A i \in 1 .. Len(x.frames) : LoopAt(x.frames[i]) = LoopAt(Last(xs).frames[i])
      BY <2>8 DEF SameLoops
    <3> HIDE DEF xs, c
    <3> QED
      BY <2>2, <2>6, <3>1, ViewsLast
  <2>11. FramesFit(R, Q, c) /\ CallsSee(Q, c, Append(Front(xs), x))
    <3> DEFINE ys == Append(Front(xs), x)
    <3>1. \A k \in 0 .. Len(c) : View(c, ys, k) = View(c, ctxs, k)
      BY <2>9, <2>10
    <3>2. c = Front(ctl)
      OBVIOUS
    <3> HIDE DEF c, ys
    <3>3. FramesFit(R, Q, c) /\ CallsSee(Q, c, ys)
      BY <2>1, <3>1, <3>2, LoopsPop
    <3> QED
      BY <3>3 DEF ys
  <2>12. FramesFit(R, Q, ctl') /\ CallsSee(Q, ctl', ctxs')
    BY <2>1, <2>11
  <2>13. ScopesFit(R, scopes')
    <3>1. IsSeq(scopes)
      BY <2>1, <2>4, TypesNow, SeqAny
    <3>2. /\ Len(scopes) \in Nat /\ Len(scopes') = Len(scopes) + 1
          /\ scopes'[Len(scopes) + 1] = scope
          /\ \A i \in 1 .. Len(scopes) : scopes'[i] = scopes[i]
      BY <2>1, <3>1, SeqAppend, SeqLength
    <3> QED
      BY <2>3, <2>8, <3>2 DEF ScopesFit
  <2>14. UsesRight'
    BY <2>1, <2>3, UsesKept
  <2> QED
    BY <2>1, <2>3, <2>12, <2>13, <2>14, LoopsDone
<1> QED
  BY <1>1, <1>2

-----------------------------------------------------------------------------
(* What is rendered by a name.                                             *)

(* The bodies of what is reached are reached.                              *)
LEMMA BodiesReached ==
    ASSUME NEW R, NEW Q, Grounds(R, Q)
    PROVE  BodiesOf(NodesAt(R), {"block", "call", "macro"}) \subseteq R
<1> SUFFICES ASSUME NEW node \in NodesAt(R), node.kind \in {"block", "call", "macro"}
             PROVE  node.body \in R
  BY DEF BodiesOf
<1>1. Reaches({lib}, R)
  BY DEF Grounds
<1>2. node \in Node
  <2>1. PICK body \in R : node \in Range(Code[body])
    BY DEF NodesAt
  <2>2. body \in Bodies
    BY <1>1, <2>1 DEF Reaches
  <2> QED
    BY <2>1, <2>2, CodeNodes DEF Range
<1>3. CASE node.kind = "macro"
  BY <1>1, <1>3 DEF Reaches
<1>4. CASE node.kind \in {"block", "call"}
  <2>1. node.body \in Bodies /\ node.body # None
    BY <1>2, <1>4, BodyFields, TemplateConstants
  <2>2. node.body \in Inside(node)
    BY <1>4 DEF Inside
  <2> QED
    BY <1>1, <2>1, <2>2 DEF Reaches
<1> QED
  BY <1>3, <1>4

(* The definitions of a kind are among those of the kinds there are.       *)
LEMMA KindsReached ==
    ASSUME NEW R, NEW Q, Grounds(R, Q)
    PROVE  /\ BodiesOf(NodesAt(R), {"block"}) \subseteq R
           /\ BodiesOf(NodesAt(R), {"call"}) \subseteq R
           /\ \A macro \in MacroNodes(R) :
                 /\ macro.body \in R /\ macro.body \in BodiesOf(NodesAt(R), {"macro"})
                 /\ "loop" \notin Range(macro.params)
           /\ \A b : BlockBodies(R, b) \subseteq BodiesOf(NodesAt(R), {"block"})
<1>1. /\ BodiesOf(NodesAt(R), {"block"}) \subseteq BodiesOf(NodesAt(R), {"block", "call", "macro"})
      /\ BodiesOf(NodesAt(R), {"call"}) \subseteq BodiesOf(NodesAt(R), {"block", "call", "macro"})
      /\ BodiesOf(NodesAt(R), {"macro"}) \subseteq BodiesOf(NodesAt(R), {"block", "call", "macro"})
  BY DEF BodiesOf
<1>2. \A macro \in MacroNodes(R) :
         /\ macro.body \in BodiesOf(NodesAt(R), {"macro"})
         /\ "loop" \notin Range(macro.params)
  <2> TAKE macro \in MacroNodes(R)
  <2>1. macro \in NodesAt(R) /\ macro.kind = "macro"
    BY DEF MacroNodes
  <2>2. macro.body \in BodiesOf(NodesAt(R), {"macro"})
    BY <2>1 DEF BodiesOf
  <2> QED
    BY <2>1, <2>2 DEF Grounds, OnlyLoopsBindLoop
<1>3. \A b : BlockBodies(R, b) \subseteq BodiesOf(NodesAt(R), {"block"})
  BY DEF BlockBodies, BodiesOf
<1> QED
  BY <1>1, <1>2, <1>3, BodiesReached

(* A body that a node finds by a name sees the loop around it, or reads    *)
(* none.                                                                   *)
LEMMA NamedSees ==
    ASSUME NEW R, NEW Q, Ready(R, Q), async' = async, RInv', Starting, ~Skipped(Top, Current),
           NEW role \in {"block", "super", "caller", "macro", "call"},
           NEW body \in ByName(R, Current), body \in R, NEW copy, NEW save,
           Push(Frame(role, body, copy, save)),
           \A k \in 0 .. Len(Past) : View(Past, ctxs', k) = View(Past, ctxs, k),
           Sees(LoopsIn(Ctx)) => Sees(LoopsIn(Last(ctxs')))
    PROVE  FramesFit(R, Q, ctl') /\ CallsSee(Q, ctl', ctxs')
<1> DEFINE f == Frame(role, body, copy, save)
<1>1. ctl' = Append(Past, f) /\ status' # "failed"
  BY DEF Push, Starting
<1>2. f.role = role /\ f.body = body
  BY DEF Frame
<1> HIDE DEF f
<1>3. FrameFits(R, Q, f)
  BY <1>2 DEF FrameFits
<1>4. Sees(LoopsIn(Last(ctxs'))) \/ Calm(Q, f)
  <2>1. Sees(LoopsIn(Ctx)) \/ CalmNode({lib}, R, Q, Current)
    BY HereNow
  <2>2. CalmNode({lib}, R, Q, Current) => body \in Q
    BY DEF CalmNode, StaysCalm
  <2> QED
    BY <1>2, <2>1, <2>2 DEF Calm
<1> QED
  BY <1>1, <1>3, <1>4, LoopsPush

(* One that changes no variable.                                           *)
LEMMA ShowSees ==
    ASSUME NEW R, NEW Q, Ready(R, Q), async' = async, RInv', Starting, ~Skipped(Top, Current),
           NEW role \in {"block", "super", "caller"},
           NEW body \in ByName(R, Current), body \in R, NEW save,
           PushClone(role, body, save),
           UNCHANGED <<modules, callers, chains, ctxs, caches>>
    PROVE  LoopsInv(R, Q)'
<1>1. /\ Push(Frame(role, body, serial + 1, save)) /\ ctxs' = ctxs /\ status = "running"
      /\ UNCHANGED <<scopes, spaces, callers, chains, loopUse>>
  BY DEF PushClone, modules, caches, Starting
<1>2. Ctx = Last(ctxs)
  BY DEF Ctx
<1>3. FramesFit(R, Q, ctl') /\ CallsSee(Q, ctl', ctxs')
  <2>1. role \in {"block", "super", "caller", "macro", "call"}
    OBVIOUS
  <2>2. \A k \in 0 .. Len(Past) : View(Past, ctxs', k) = View(Past, ctxs, k)
    BY <1>1
  <2>3. Sees(LoopsIn(Ctx)) => Sees(LoopsIn(Last(ctxs')))
    BY <1>1, <1>2
  <2> QED
    BY <1>1, <2>1, <2>2, <2>3, NamedSees
<1> QED
  BY <1>1, <1>3, LoopsStay

(* The layers of a block are reached.                                      *)
LEMMA LayerReached ==
    ASSUME NEW R, NEW Q, Ready(R, Q), status = "running", NEW b \in BlockNames,
           NEW i \in 1 .. Len(Chain(b))
    PROVE  Chain(b)[i] \in BlockBodies(R, b)
<1>1. ChainsFit(R, chains)
  BY LoopsNow
<1>2. CASE chains = None
  BY <1>2 DEF Chain
<1>3. CASE chains # None
  BY <1>1, <1>3 DEF Chain, ChainsFit
<1> QED
  BY <1>2, <1>3

(* A block shows a body of its name.                                       *)
LEMMA BlockSees ==
    ASSUME NEW R, NEW Q, Ready(R, Q), async' = async, RInv', Block PROVE LoopsInv(R, Q)'
<1> DEFINE b == Current.name
           body == IF Chain(b) = << >> THEN Current.body ELSE Chain(b)[1]
<1>1. /\ Starting /\ status = "running" /\ Current.kind = "block" /\ ~Skipped(Top, Current)
      /\ PushClone("block", body, [prev |-> super])
      /\ UNCHANGED <<modules, callers, chains, ctxs, caches>>
  BY DEF Block, At, Starting
<1>2. RInv /\ Grounds(R, Q)
  BY DEF Ready
<1>3. Current \in NodesAt(R) /\ Current \in Node
  BY <1>1, HereNow
<1>4. b \in BlockNames
  BY <1>1, <1>3, NameFields
<1>5. body \in BlockBodies(R, b)
  <2>1. CASE Chain(b) = << >>
    <3>1. Current \in {node \in NodesAt(R) : node.kind = "block" /\ node.name = b}
      BY <1>1, <1>3
    <3> QED
      BY <1>1, <2>1, <3>1 DEF BlockBodies, BodiesOf
  <2>2. CASE Chain(b) # << >>
    <3>1. Chain(b) \in Seq(Bodies)
      BY <1>1, <1>2, <1>4, ChainType
    <3>2. 1 \in 1 .. Len(Chain(b))
      BY <2>2, <3>1, SeqAny, SeqLength
    <3> QED
      BY <1>1, <1>4, <2>2, <3>2, LayerReached
  <2> QED
    BY <2>1, <2>2
<1> HIDE DEF body
<1>6. body \in ByName(R, Current)
  BY <1>1, <1>5 DEF ByName, BlockBodies
<1>7. body \in R
  BY <1>2, <1>5, KindsReached
<1> QED
  BY <1>1, <1>6, <1>7, ShowSees

(* super() shows another body of that block.                               *)
LEMMA SuperSees ==
    ASSUME NEW R, NEW Q, Ready(R, Q), async' = async, RInv', Super PROVE LoopsInv(R, Q)'
<1>1. CASE ~(super # None /\ super[2] + 1 < Len(Chain(super[1])))
  BY <1>1, LoopsFail DEF Super
<1>2. CASE super # None /\ super[2] + 1 < Len(Chain(super[1]))
  <2> DEFINE body == Chain(super[1])[super[2] + 2]
  <2>1. /\ Starting /\ status = "running" /\ Current.kind = "super" /\ ~Skipped(Top, Current)
        /\ PushClone("super", body, [prev |-> super])
        /\ UNCHANGED <<modules, callers, chains, ctxs, caches>>
    BY <1>2 DEF Super, At, Starting
  <2>2. RInv /\ Grounds(R, Q)
    BY DEF Ready
  <2>3. super \in Positions
    <3>1. IsSeq(ctl) /\ SupersInv(lib, ctl, super, chains)
      BY <2>1, <2>2, TypesNow DEF CallsInv
    <3> QED
      BY <3>1, SupersNow
  <2>4. super[1] \in BlockNames /\ super[2] \in Nat
    BY <1>2, <2>3 DEF Positions
  <2>5. Chain(super[1]) \in Seq(Bodies)
    BY <2>1, <2>2, <2>4, ChainType
  <2>6. super[2] + 2 \in 1 .. Len(Chain(super[1]))
    <3>1. Len(Chain(super[1])) \in Nat
      BY <2>5
    <3> QED
      BY <1>2, <2>4, <3>1
  <2>7. body \in BlockBodies(R, super[1])
    BY <2>1, <2>4, <2>6, LayerReached
  <2> HIDE DEF body
  <2>8. body \in BodiesOf(NodesAt(R), {"block"}) /\ body \in R
    BY <2>2, <2>7, KindsReached
  <2>9. body \in ByName(R, Current)
    BY <2>1, <2>8 DEF ByName
  <2> QED
    BY <2>1, <2>8, <2>9, ShowSees
<1> QED
  BY <1>1, <1>2

-----------------------------------------------------------------------------
(* Macros and call blocks.                                                 *)

(* The macro that is found is reached, and gets no value loop.             *)
LEMMA MacroReached ==
    ASSUME NEW R, NEW Q, Ready(R, Q), Starting, ~Skipped(Top, Current),
           Current.kind \in {"invoke", "call"}, FindMacro(Current) # None
    PROVE  /\ FindMacro(Current).body \in R /\ FindMacro(Current).body \in ByName(R, Current)
           /\ Arguments(Current, FindMacro(Current))["loop"] = None
<1> DEFINE node == Current
           macro == FindMacro(Current)
           found == {i \in DOMAIN scopes : scopes[i][node.macro] # None}
<1>1. status = "running" /\ RInv /\ Grounds(R, Q)
  BY DEF Ready, Starting
<1>2. /\ ScopesFit(R, scopes) /\ SpacesFit(R, spaces) /\ scopes \in Seq(Scope)
  BY <1>1, LoopsNow, TypesNow
<1>3. node.macro \in MacroNames
  BY HereNow, NameFields
<1>4. node.ns # None => node.ns \in DOMAIN spaces /\ macro = spaces[node.ns].macros[node.macro]
  BY DEF FindMacro
<1>5. node.ns = None => found # {} /\ macro = scopes[Max(found)][node.macro]
  BY DEF FindMacro
<1>6. macro # None /\ (ByName(R, node) = BodiesOf(NodesAt(R), {"macro"}))
  BY DEF ByName
<1> HIDE DEF macro
<1>7. macro \in MacroNodes(R)
  <2>1. CASE node.ns # None
    <3> HIDE DEF node
    <3> QED
      BY <1>2, <1>3, <1>4, <1>6, <2>1 DEF SpacesFit
  <2>2. CASE node.ns = None
    <3>1. Len(scopes) \in Nat /\ \A i \in found : i \in 0 .. Len(scopes) /\ i \in 1 .. Len(scopes)
      BY <1>2
    <3>2. Max(found) \in found
      <4> HIDE DEF found
      <4> QED
        BY <1>5, <2>2, <3>1, MaxMember
    <3>3. Max(found) \in 1 .. Len(scopes)
      BY <3>1, <3>2
    <3> HIDE DEF found, node
    <3> QED
      BY <1>2, <1>3, <1>5, <1>6, <2>2, <3>3 DEF ScopesFit
  <2> QED
    BY <2>1, <2>2
<1>8. /\ macro.body \in R /\ macro.body \in BodiesOf(NodesAt(R), {"macro"})
      /\ "loop" \notin Range(macro.params)
  BY <1>1, <1>7, KindsReached
<1>9. node.ns # None => spaces[node.ns].vals["loop"] = None
  BY <1>2, <1>4 DEF SpacesFit
<1> HIDE DEF node
<1>10. Arguments(node, macro)["loop"] = None
  BY <1>8, <1>9, TemplateConstants DEF Arguments
<1> QED
  BY <1>6, <1>8, <1>10 DEF macro, node

(* A macro sees the loop around the call, or reads none.                   *)
LEMMA EnterSees ==
    ASSUME NEW R, NEW Q, Ready(R, Q), async' = async, RInv', Starting, ~Skipped(Top, Current),
           Current.kind \in {"invoke", "call"}, FindMacro(Current) # None,
           NEW role \in {"macro", "call"}, EnterMacro(role, FindMacro(Current))
    PROVE  FramesFit(R, Q, ctl') /\ CallsSee(Q, ctl', ctxs')
<1> DEFINE body == FindMacro(Current).body
           vals == Arguments(Current, FindMacro(Current))
           x == ForkWith(Ctx, serial + 1, vals)
<1>1. /\ Push(Frame(role, body, 0, None)) /\ ctxs' = Append(ctxs, x) /\ status = "running"
  BY DEF EnterMacro, Starting
<1>2. body \in R /\ body \in ByName(R, Current) /\ vals["loop"] = None
  BY MacroReached
<1>3. Ctx \in Context /\ IsSeq(ctxs)
  BY <1>1, LoopsNow
<1> DEFINE b == [vars |-> vals, item |-> None]
<1>4. x.frames = Append(Ctx.frames, b)
  BY DEF ForkWith
<1>5. b.item = None /\ b.vars["loop"] = None
  BY <1>2
<1> HIDE DEF b, x, vals, body
<1>6. Sees(LoopsIn(Ctx)) => Sees(LoopsIn(x))
  BY <1>3, <1>4, <1>5, AppendLoops
<1>7. Last(ctxs') = x
  BY <1>1, <1>3, SeqAppend, SeqLength DEF Last
<1>8. \A k \in 0 .. Len(Past) : View(Past, ctxs', k) = View(Past, ctxs, k)
  <2>1. /\ IsSeq(Past) /\ Len(Past) \in Nat /\ Len(ctxs) = Held(Past, Len(Past))
    BY PastSees DEF ContextsInv
  <2> QED
    BY <1>1, <1>3, <2>1, ViewAppend
<1>9. role \in {"block", "super", "caller", "macro", "call"}
  OBVIOUS
<1> DEFINE copy == 0
           save == None
<1>10. Push(Frame(role, body, copy, save))
  BY <1>1
<1>11. Sees(LoopsIn(Ctx)) => Sees(LoopsIn(Last(ctxs')))
  BY <1>6, <1>7
<1> HIDE DEF copy, save
<1> QED
  BY <1>2, <1>8, <1>9, <1>10, <1>11, NamedSees

(* A call of a macro, or of what is not one.                               *)
LEMMA InvokeSees ==
    ASSUME NEW R, NEW Q, Ready(R, Q), async' = async, RInv', Invoke PROVE LoopsInv(R, Q)'
<1>1. /\ Starting /\ status = "running" /\ Current.kind \in {"invoke", "call"}
      /\ ~Skipped(Top, Current)
  BY DEF Invoke, At, Starting
<1>2. CASE FindMacro(Current) = None
  BY <1>2, LoopsFail DEF Invoke
<1>3. CASE FindMacro(Current) # None
  <2>1. /\ EnterMacro("macro", FindMacro(Current)) /\ "macro" \in {"macro", "call"}
        /\ UNCHANGED <<scopes, spaces, callers, chains, loopUse>>
    BY <1>3 DEF Invoke, modules, caches
  <2> DEFINE role == "macro"
  <2>2. EnterMacro(role, FindMacro(Current)) /\ role \in {"macro", "call"}
    BY <2>1
  <2> HIDE DEF role
  <2>3. FramesFit(R, Q, ctl') /\ CallsSee(Q, ctl', ctxs')
    BY <1>1, <1>3, <2>2, EnterSees
  <2> QED
    BY <1>1, <2>1, <2>3, LoopsStay
<1> QED
  BY <1>2, <1>3

(* The body of a call block is reached, and takes no parameter loop.       *)
LEMMA CallBlockSees ==
    ASSUME NEW R, NEW Q, Ready(R, Q), async' = async, RInv', CallBlock PROVE LoopsInv(R, Q)'
<1>1. /\ Starting /\ status = "running" /\ Current.kind = "call"
      /\ ~Skipped(Top, Current) /\ Grounds(R, Q) /\ RInv
  BY DEF CallBlock, At, Starting, Ready
<1>2. CASE FindMacro(Current) = None
  BY <1>2, LoopsFail DEF CallBlock
<1>3. CASE FindMacro(Current) # None
  <2> DEFINE g == [body |-> Current.body, params |-> Current.params]
             role == "call"
  <2>1. /\ EnterMacro(role, FindMacro(Current)) /\ role \in {"macro", "call"}
        /\ callers' = Append(callers, g)
        /\ scopes' = scopes /\ spaces' = spaces /\ chains' = chains /\ loopUse' = loopUse
        /\ async' = async
    BY <1>3 DEF CallBlock, modules, caches, Ready
  <2> HIDE DEF role
  <2>2. FramesFit(R, Q, ctl') /\ CallsSee(Q, ctl', ctxs')
    <3>1. Current.kind \in {"invoke", "call"}
      BY <1>1
    <3> QED
      BY <1>1, <1>3, <2>1, <3>1, EnterSees
  <2>3. /\ ScopesFit(R, scopes) /\ SpacesFit(R, spaces)
        /\ CallersFit(R, callers) /\ ChainsFit(R, chains) /\ UsesRight
    BY <1>1, LoopsNow
  <2>4. Current \in NodesAt(R)
    BY <1>1, HereNow
  <2>5. /\ g.body \in BodiesOf(NodesAt(R), {"call"})
        /\ "loop" \notin Range(g.params)
    BY <1>1, <2>4 DEF BodiesOf, Grounds, OnlyLoopsBindLoop
  <2> HIDE DEF g
  <2>6. CallersFit(R, callers')
    <3>1. IsSeq(callers)
      BY <1>1, TypesNow DEF CallsInv, CallersInv
    <3>2. /\ Len(callers) \in Nat /\ Len(callers') = Len(callers) + 1
          /\ callers'[Len(callers) + 1] = g
          /\ \A i \in 1 .. Len(callers) : callers'[i] = callers[i]
      BY <2>1, <3>1, SeqAppend, SeqLength
    <3> QED
      BY <2>3, <2>5, <3>2 DEF CallersFit
  <2> QED
    BY <2>1, <2>2, <2>3, <2>6, UsesKept, LoopsDone
<1> QED
  BY <1>2, <1>3

(* caller() shows the body of a call block, with its parameters.           *)
LEMMA CallerSees ==
    ASSUME NEW R, NEW Q, Ready(R, Q), async' = async, RInv', Caller PROVE LoopsInv(R, Q)'
<1>1. CASE callers = << >> \/ (Last(callers).params = << >> /\ Current.args)
  BY <1>1, LoopsFail DEF Caller
<1>2. CASE ~(callers = << >> \/ (Last(callers).params = << >> /\ Current.args))
  <2> DEFINE g == Last(callers)
             body == g.body
             bound == g.params # << >>
             save == [bound |-> bound]
  <2>1. /\ Starting /\ status = "running" /\ Current.kind = "caller" /\ ~Skipped(Top, Current)
        /\ PushClone("caller", body, save)
        /\ IF bound THEN WithCtx(BindCaller(Ctx, g.params)) ELSE UNCHANGED ctxs
        /\ UNCHANGED <<lib, names, modules, chains, super, callers, caches>>
    BY <1>2 DEF Caller, At, Starting
  <2>2. RInv /\ Grounds(R, Q)
    BY DEF Ready
  <2>3. CallersFit(R, callers) /\ Ctx \in Context /\ Ctx = Last(ctxs) /\ IsSeq(ctxs) /\ ctxs # << >>
    BY <2>1, LoopsNow
  <2>4. g.body \in BodiesOf(NodesAt(R), {"call"}) /\ "loop" \notin Range(g.params)
    <3>1. IsSeq(callers) /\ callers # << >>
      BY <1>2, <2>1, <2>2, TypesNow DEF CallsInv, CallersInv
    <3>2. Len(callers) \in 1 .. Len(callers)
      BY <3>1, SeqLength
    <3> QED
      BY <2>3, <3>2 DEF CallersFit, Last
  <2>5. body \in R /\ body \in ByName(R, Current)
    BY <2>1, <2>2, <2>4, KindsReached DEF ByName
  <2>6. CASE ~bound
    <3> DEFINE role == "caller"
    <3>1. /\ PushClone(role, body, save) /\ role \in {"block", "super", "caller"}
          /\ UNCHANGED <<modules, callers, chains, ctxs, caches>>
      BY <2>1, <2>6
    <3> HIDE DEF role, save, body
    <3> QED
      BY <2>1, <2>5, <3>1, ShowSees
  <2>7. CASE bound
    <3> DEFINE b == [vars |-> [v \in Vars |-> IF v \in Range(g.params) THEN Some ELSE None],
                     item |-> None]
               x == BindCaller(Ctx, g.params)
               role == "caller"
               copy == serial + 1
    <3>1. b.item = None /\ b.vars["loop"] = None
      BY <2>4, TemplateConstants
    <3>2. x.frames = Append(Ctx.frames, b)
      BY DEF BindCaller, Revised
    <3>3. /\ ctxs' = Append(Front(ctxs), x) /\ Push(Frame(role, body, copy, save))
          /\ role \in {"block", "super", "caller", "macro", "call"}
          /\ UNCHANGED <<scopes, spaces, callers, chains, loopUse>>
      BY <2>1, <2>7 DEF WithCtx, PushClone, modules, caches
    <3> HIDE DEF b, x, role, copy, save, body
    <3>4. /\ \A i \in 1 .. Len(Ctx.frames) : LoopAt(x.frames[i]) = LoopAt(Ctx.frames[i])
          /\ Sees(LoopsIn(Ctx)) => Sees(LoopsIn(x))
      BY <2>3, <3>1, <3>2, AppendLoops
    <3>5. Last(ctxs') = x
      <4>1. IsSeq(Front(ctxs))
        BY <2>3, SeqFront
      <4>2. Len(Front(ctxs)) \in Nat
        BY <4>1, SeqLength
      <4> QED
        BY <3>3, <4>1, <4>2, SeqAppend DEF Last
    <3>6. \A k \in 0 .. Len(Past) : View(Past, ctxs', k) = View(Past, ctxs, k)
      <4>1. \A i \in 1 .. Len(Last(ctxs).frames) :
               LoopAt(x.frames[i]) = LoopAt(Last(ctxs).frames[i])
        BY <2>3, <3>4
      <4>2. IsSeq(Past) /\ ContextsInv(Past, ctxs)
        BY <2>1, PastSees
      <4>3. \A k \in 0 .. Len(Past) : View(Past, Append(Front(ctxs), x), k) = View(Past, ctxs, k)
        BY <4>1, <4>2, ViewsBelow
      <4> QED
        BY <3>3, <4>3
    <3>7. Sees(LoopsIn(Ctx)) => Sees(LoopsIn(Last(ctxs')))
      BY <3>4, <3>5
    <3>8. FramesFit(R, Q, ctl') /\ CallsSee(Q, ctl', ctxs')
      BY <2>1, <2>5, <3>3, <3>6, <3>7, NamedSees
    <3> QED
      BY <2>1, <3>3, <3>8, LoopsStay
  <2> QED
    BY <2>6, <2>7
<1> QED
  BY <1>1, <1>2

-----------------------------------------------------------------------------
(* nodes_use_variable_name looks at a body and at those inside.            *)

(* What is inside of a node are bodies.                                    *)
LEMMA InsideBodies == \A node \in Node : Inside(node) \subseteq Bodies \cup {None}
<1> SUFFICES ASSUME NEW node \in Node PROVE Inside(node) \subseteq Bodies \cup {None}
  OBVIOUS
<1>1. CASE node.kind \in {"if", "ifAsync"}
  <2>1. node.branches \in Seq(Bodies)
    BY <1>1, BranchFields
  <2> QED
    BY <1>1, <2>1 DEF Inside, Range
<1>2. CASE node.kind = "switch"
  <2>1. node.cases \in Seq(Bodies) /\ node.default \in Bodies \cup {None}
    BY <1>2, BranchFields
  <2> QED
    BY <1>2, <2>1 DEF Inside, Range
<1>3. CASE node.kind \in {"for", "asyncFor"}
  BY <1>3, BodyFields, BranchFields DEF Inside
<1>4. CASE node.kind \in {"setblock", "filter", "ext", "block", "call"}
  BY <1>4, BodyFields, BranchFields DEF Inside
<1>5. CASE node.kind \notin {"if", "ifAsync", "switch", "for", "asyncFor", "setblock", "filter",
                             "ext", "block", "call"}
  BY <1>5 DEF Inside
<1> QED
  BY <1>1, <1>2, <1>3, <1>4, <1>5

(* What it says of a body is what it says of the nodes there: the          *)
(* definition has a solution, the least one, whatever the bodies are.      *)
LEMMA UsesLoopIs ==
    \A body \in Bodies :
        UsesLoop[body] <=>
            \E i \in DOMAIN Code[body] :
                \/ ReadsLoop(Code[body][i])
                \/ \E inner \in Inside(Code[body][i]) \ {None} : UsesLoop[inner]
<1> DEFINE Uses(b, S) == \E i \in DOMAIN Code[b] :
                            \/ ReadsLoop(Code[b][i])
                            \/ \E inner \in Inside(Code[b][i]) \ {None} : inner \in S
           Closed(S) == \A b \in Bodies : Uses(b, S) => b \in S
           Def(f) == [body \in Bodies |->
                         \E i \in DOMAIN Code[body] :
                             \/ ReadsLoop(Code[body][i])
                             \/ \E inner \in Inside(Code[body][i]) \ {None} : f[inner]]
           Least == {b \in Bodies : \A S \in SUBSET Bodies : Closed(S) => b \in S}
           least == [b \in Bodies |-> b \in Least]
<1>1. \A S, T : \A b \in Bodies : S \subseteq T /\ Uses(b, S) => Uses(b, T)
  OBVIOUS
<1>2. \A b \in Bodies : \A i \in DOMAIN Code[b] : Inside(Code[b][i]) \ {None} \subseteq Bodies
  <2> TAKE b \in Bodies
  <2> TAKE i \in DOMAIN Code[b]
  <2>1. Code[b][i] \in Node
    BY CodeNodes
  <2> QED
    BY <2>1, InsideBodies
<1>3. \A b \in Bodies : Uses(b, Least) => b \in Least
  <2> SUFFICES ASSUME NEW b \in Bodies, Uses(b, Least), NEW S \in SUBSET Bodies, Closed(S)
               PROVE  b \in S
    OBVIOUS
  <2>1. Least \subseteq S
    OBVIOUS
  <2> HIDE DEF Least, Uses
  <2> QED
    BY <1>1, <2>1
<1>4. \A b \in Bodies : b \in Least => Uses(b, Least)
  <2> DEFINE T == {b \in Bodies : Uses(b, Least)}
  <2>1. T \subseteq Least
    BY <1>3
  <2> HIDE DEF Uses
  <2>2. Closed(T) /\ T \in SUBSET Bodies
    <3> HIDE DEF Least
    <3> QED
      BY <1>1, <2>1
  <2>3. \A b \in Least : b \in T
    BY <2>2
  <2> QED
    BY <2>3
<1>5. least = Def(least)
  <2>1. \A b \in Bodies : least[b] <=> Def(least)[b]
    <3> TAKE b \in Bodies
    <3>1. \A i \in DOMAIN Code[b] : \A inner \in Inside(Code[b][i]) \ {None} :
             least[inner] <=> inner \in Least
      BY <1>2
    <3> HIDE DEF Least
    <3>2. Def(least)[b] <=> Uses(b, Least)
      <4> HIDE DEF least
      <4> QED
        BY <3>1
    <3>3. least[b] <=> b \in Least
      OBVIOUS
    <3> QED
      BY <1>3, <1>4, <3>2, <3>3
  <2>2. \A b \in Bodies : least[b] = Def(least)[b]
    <3> TAKE b \in Bodies
    <3>1. least[b] \in BOOLEAN /\ Def(least)[b] \in BOOLEAN
      OBVIOUS
    <3> QED
      BY <2>1, <3>1
  <2> QED
    BY <2>2
<1> HIDE DEF least
<1>6. UsesLoop = Def(UsesLoop)
  BY <1>5 DEF UsesLoop
<1> DEFINE it == UsesLoop
<1>7. it = Def(it)
  BY <1>6
<1> HIDE DEF it
<1>8. \A body \in Bodies : it[body] <=> Def(it)[body]
  BY <1>7
<1> QED
  BY <1>8 DEF it

(* A render may rely on what is so of all libraries, in the renderer that  *)
(* looks at the bodies of its loops and in the one that does not.          *)
LEMMA GroundsOfOne ==
    ASSUME NEW libs, NEW R, NEW Q, lib \in libs, Reaches(libs, R), OnlyLoopsBindLoop(R),
           AnalysisHolds(libs, R, Q), ~Recycles
    PROVE  Grounds(R, Q)
<1>1. Reaches({lib}, R)
  BY DEF Reaches
<1>2. Q \subseteq R /\ R \subseteq Bodies
  BY DEF AnalysisHolds, Reaches
<1>3. \A node \in NodesAt(R) : node.kind = "for" /\ ~UsesLoop[node.body] => node.body \in Q
  BY DEF AnalysisHolds
<1>4. ASSUME NEW node \in NodesAt(Q) PROVE CalmNode({lib}, R, Q, node)
  <2>1. PICK body \in Q : node \in Range(Code[body])
    BY <1>4 DEF NodesAt
  <2>2. body \in Bodies
    BY <1>2, <2>1
  <2>3. PICK i \in DOMAIN Code[body] : node = Code[body][i]
    BY <2>1 DEF Range
  <2>4. (UsesLoop[body] => ~ReadsLoop(node)) /\ StaysCalm(libs, R, Q, node)
    BY <2>1 DEF AnalysisHolds
  <2>5. ~ReadsLoop(node)
    BY <2>2, <2>3, <2>4, UsesLoopIs
  <2>6. StaysCalm({lib}, R, Q, node)
    BY <2>4 DEF StaysCalm
  <2> QED
    BY <2>5, <2>6 DEF CalmNode
<1> QED
  BY <1>1, <1>2, <1>3, <1>4 DEF Grounds

(* A renderer that always gives the variable loop needs no analysis.       *)
LEMMA GroundsOfNone ==
    ASSUME NEW libs, NEW S, async, lib \in libs, Reaches(libs, S), OnlyLoopsBindLoop(S)
    PROVE  Grounds(S, {})
<1>1. Reaches({lib}, S)
  BY DEF Reaches
<1>2. NodesAt({}) = {}
  BY DEF NodesAt
<1> QED
  BY <1>1, <1>2 DEF Grounds

-----------------------------------------------------------------------------
(* Every step.                                                             *)

(* A render neither changes the templates nor the renderer.                *)
LEMMA LibraryStays ==
    ASSUME AnyNext PROVE lib' = lib /\ async' = async
<1>1. CASE Throw \/ Misplaced \/ AsyncOnly
  BY <1>1 DEF Throw, Misplaced, AsyncOnly, Fail, AnyNext, AnyRender, AnyThrow
<1>2. CASE Begin \/ Skip \/ If \/ IfAsync \/ Switch \/ FilterBlock \/ Set \/ SetBlock
  BY <1>2 DEF Begin, Skip, If, IfAsync, Switch, FilterBlock, Set, SetBlock, Fail, AnyNext,
              AnyRender, AnyThrow
<1>3. CASE ExtensionTag \/ AsyncTag \/ ForEmpty \/ AsyncForEmpty \/ For \/ AsyncFor \/ ForMisfit
             \/ AsyncForMisfit
  BY <1>3 DEF ExtensionTag, AsyncTag, ForEmpty, AsyncForEmpty, For, AsyncFor, ForMisfit,
              AsyncForMisfit, Fail, AnyNext, AnyRender, AnyThrow
<1>4. CASE Include \/ Import \/ Block \/ Super \/ Invoke \/ CallBlock \/ Caller
  BY <1>4 DEF Include, Import, Block, Super, Invoke, CallBlock, Caller, Fail, AnyNext, AnyRender,
              AnyThrow
<1>5. CASE EndRoot \/ EndLayout \/ EndEntry \/ EndNodes \/ EndAsyncTag \/ EndExtensionTag
             \/ EndCapture \/ NextItem \/ EndFor
  BY <1>5 DEF EndRoot, EndLayout, EndEntry, EndNodes, EndAsyncTag, EndExtensionTag, EndCapture,
              NextItem, EndFor, Fail, AnyNext, AnyRender, AnyThrow
<1>6. CASE EndInclude \/ EndImport \/ EndFrom \/ EndBlock \/ EndMacro \/ EndCall \/ EndCaller
  BY <1>6 DEF EndInclude, EndImport, EndFrom, EndBlock, EndMacro, EndCall, EndCaller, Fail, AnyNext,
              AnyRender, AnyThrow
<1> QED
  BY <1>1, <1>2, <1>3, <1>4, <1>5, <1>6
     DEF AnyNext, AnyRender, AnyThrow, Render, StartNode, EndFrame, AsyncRender, AsyncEntries,
         AsyncLayouts, AsyncBranches, AsyncSwitches, AsyncLoops, AsyncSets, AsyncTags, AsyncModules,
         AsyncBlocks, AsyncCallBlocks, AsyncCalls, AsyncMacros

(* In every step the calls see the loops that they are in.                 *)
LEMMA LoopsStep ==
    ASSUME NEW R, NEW Q, Ready(R, Q), AnyNext PROVE LoopsInv(R, Q)'
<1>0. RInv' /\ async' = async
  BY StepSound, LibraryStays DEF Ready
<1>1. CASE Begin
  BY <1>0, <1>1, BeginSees
<1>2. CASE Skip
  BY <1>0, <1>2, SkipSees
<1>3. CASE If \/ IfAsync
  BY <1>0, <1>3, IfSees
<1>4. CASE Switch
  BY <1>0, <1>4, SwitchSees
<1>5. CASE FilterBlock
  BY <1>0, <1>5, FilterSees
<1>6. CASE Misplaced \/ AsyncOnly \/ Throw
  BY <1>6, LoopsFail DEF Misplaced, AsyncOnly, Throw
<1>7. CASE Set
  BY <1>0, <1>7, SetSees
<1>8. CASE SetBlock
  BY <1>0, <1>8, SetBlockSees
<1>9. CASE ExtensionTag \/ AsyncTag
  BY <1>0, <1>9, TagSees
<1>10. CASE ForEmpty \/ AsyncForEmpty
  BY <1>0, <1>10, ForEmptySees
<1>11. CASE ~async /\ For
  BY <1>0, <1>11, ForSees
<1>12. CASE AsyncFor
  BY <1>0, <1>12, AsyncForSees
<1>13. CASE ~async /\ ForMisfit
  BY <1>0, <1>13, ForMisfitSees
<1>14. CASE AsyncForMisfit
  BY <1>0, <1>14, AsyncMisfitSees
<1>15. CASE Include
  BY <1>0, <1>15, IncludeSees
<1>16. CASE Import
  BY <1>0, <1>16, ImportSees
<1>17. CASE Block
  BY <1>0, <1>17, BlockSees
<1>18. CASE Super
  BY <1>0, <1>18, SuperSees
<1>19. CASE Invoke
  BY <1>0, <1>19, InvokeSees
<1>20. CASE CallBlock
  BY <1>0, <1>20, CallBlockSees
<1>21. CASE Caller
  BY <1>0, <1>21, CallerSees
<1>22. CASE EndRoot
  BY <1>0, <1>22, EndRootSees
<1>23. CASE EndLayout
  BY <1>0, <1>23, EndLayoutSees
<1>24. CASE EndNodes \/ EndExtensionTag \/ EndAsyncTag \/ EndBlock \/ EndEntry \/ EndInclude
              \/ EndFor \/ EndMacro \/ EndCaller
  BY <1>0, <1>24, PlainEndSees
<1>25. CASE EndCapture
  BY <1>0, <1>25, EndCaptureSees
<1>26. CASE NextItem
  BY <1>0, <1>26, NextItemSees
<1>27. CASE EndImport
  BY <1>0, <1>27, EndImportSees
<1>28. CASE EndFrom
  BY <1>0, <1>28, EndFromSees
<1>29. CASE EndCall
  BY <1>0, <1>29, EndCallSees
<1>30. CASE ~async /\ Render
  <2>1. \/ Begin \/ Skip \/ If \/ Switch \/ FilterBlock \/ Misplaced \/ AsyncOnly
        \/ Set \/ SetBlock \/ ExtensionTag \/ ForEmpty \/ For \/ ForMisfit
        \/ Include \/ Import \/ Block \/ Super \/ Invoke \/ CallBlock \/ Caller
        \/ EndRoot \/ EndLayout \/ EndEntry \/ EndNodes \/ EndCapture \/ EndExtensionTag
        \/ NextItem \/ EndFor \/ EndInclude \/ EndImport \/ EndFrom \/ EndBlock
        \/ EndMacro \/ EndCall \/ EndCaller
    BY <1>30 DEF Render, StartNode, EndFrame
  <2> QED
    BY <1>1, <1>2, <1>3, <1>4, <1>5, <1>6, <1>7, <1>8, <1>9, <1>10, <1>11, <1>13, <1>15, <1>16,
       <1>17, <1>18, <1>19, <1>20, <1>21, <1>22, <1>23, <1>24, <1>25, <1>26, <1>27, <1>28, <1>29,
       <1>30, <2>1
<1>31. CASE AsyncRender
  <2>1. \/ Begin \/ EndEntry \/ EndRoot \/ EndLayout
        \/ If \/ IfAsync \/ Misplaced \/ EndNodes \/ Switch
        \/ AsyncForEmpty \/ AsyncFor \/ AsyncForMisfit \/ NextItem \/ EndFor
        \/ Set \/ SetBlock \/ EndCapture \/ AsyncTag \/ EndAsyncTag
        \/ Include \/ EndInclude \/ Import \/ EndImport \/ EndFrom
        \/ Block \/ EndBlock \/ FilterBlock \/ CallBlock \/ EndCall
        \/ Skip \/ Invoke \/ Super \/ Caller \/ EndMacro \/ EndCaller
    BY <1>31 DEF AsyncRender, AsyncEntries, AsyncLayouts, AsyncBranches, AsyncSwitches,
                 AsyncLoops, AsyncSets, AsyncTags, AsyncModules, AsyncBlocks, AsyncCallBlocks,
                 AsyncCalls, AsyncMacros
  <2> QED
    BY <1>1, <1>2, <1>3, <1>4, <1>5, <1>6, <1>7, <1>8, <1>9, <1>10, <1>12, <1>14, <1>15, <1>16,
       <1>17, <1>18, <1>19, <1>20, <1>21, <1>22, <1>23, <1>24, <1>25, <1>26, <1>27, <1>28, <1>29,
       <2>1
<1> QED
  BY <1>6, <1>30, <1>31 DEF AnyNext, AnyRender, AnyThrow

(* When a render begins, there is no loop.                                 *)
LEMMA LoopsBegin ==
    ASSUME NEW R, NEW Q, AnyInit PROVE LoopsInv(R, Q)
<1> DEFINE x == FromRoot(1, EmptyFrame)
<1>1. /\ status = "start" /\ ctl = << >> /\ scopes = << >> /\ spaces = << >>
      /\ chains = None /\ callers = << >> /\ ctxs = <<x>> /\ loopUse = << >>
  BY DEF AnyInit, StartIn
<1>2. ContextsInv(ctl, ctxs) /\ IsSeq(ctl)
  BY <1>1, InitSound, SoundNow
<1>3. Len(ctl) = 0 /\ 1 .. 0 = {}
  BY <1>1
<1>4. Last(ctxs) = x
  BY <1>1 DEF Last
<1>5. Sees(LoopsIn(x))
  BY EmptySees
<1> HIDE DEF x
<1>6. CallsSee(Q, ctl, ctxs)
  <2>1. View(ctl, ctxs, Len(ctl)) = LoopsIn(x)
    BY <1>2, <1>4, ViewTop
  <2>2. Sees(View(ctl, ctxs, 0))
    BY <1>3, <1>5, <2>1
  <2> QED
    BY <1>3, <2>2 DEF CallsSee
<1>7. FramesFit(R, Q, ctl)
  BY <1>3 DEF FramesFit
<1>8. ScopesFit(R, scopes) /\ SpacesFit(R, spaces) /\ CallersFit(R, callers) /\ ChainsFit(R, chains)
  <2>1. Len(<< >>) = 0 /\ DOMAIN << >> = {}
    OBVIOUS
  <2> QED
    BY <1>1, <1>3, <2>1 DEF ScopesFit, SpacesFit, CallersFit, ChainsFit
<1>9. UsesRight
  <2>1. DOMAIN << >> = {}
    OBVIOUS
  <2> QED
    BY <1>1, <2>1 DEF UsesRight
<1> QED
  BY <1>6, <1>7, <1>8, <1>9 DEF LoopsInv

(* A node that reads the variable loop is not calm, so it sees the loop.   *)
LEMMA LoopsSeen ==
    ASSUME NEW R, NEW Q, Ready(R, Q) PROVE LoopSeen
<1> SUFFICES ASSUME Starting, ~Skipped(Top, Current), "loop" \in Current.reads,
                    Iteration(Ctx) # None
             PROVE  Lookup(Ctx, "loop") = Iteration(Ctx)
  BY DEF LoopSeen
<1>1. Sees(LoopsIn(Ctx))
  <2>1. Sees(LoopsIn(Ctx)) \/ CalmNode({lib}, R, Q, Current)
    BY HereNow
  <2> QED
    BY <2>1 DEF CalmNode, ReadsLoop
<1>2. Ctx \in Context
  <2>1. RInv /\ status = "running"
    BY DEF Ready, Starting
  <2> QED
    BY <2>1, LoopsNow
<1> DEFINE x == Ctx
<1>3. x \in Context /\ Sees(LoopsIn(x)) /\ Iteration(x) # None
  BY <1>1, <1>2
<1> HIDE DEF x
<1>4. Lookup(x, "loop") = Iteration(x)
  BY <1>3, FlattenSees
<1> QED
  BY <1>4 DEF x

(* Wherever a template reads loop, it sees the iteration of the innermost  *)
(* for loop around it, in both renderers, if the analysis of the bodies of *)
(* loops says what it should of all that is rendered in them               *)
(* (renderer.rs, nodes_use_variable_name), if no two bodies share an entry *)
(* of its cache, and if no template gives the name loop to something else. *)
(* R, or S for the async renderer, are the bodies that the libraries       *)
(* reach, and Q those rendered by loops that have no variable loop.        *)
THEOREM LoopsAreSeen ==
    ASSUME NEW R, NEW Q, NEW S, ~Recycles,
           Reaches(Lib, R), OnlyLoopsBindLoop(R), AnalysisHolds(Lib, R, Q),
           Reaches(AsyncLib, S), OnlyLoopsBindLoop(S)
    PROVE  AnySpec => []LoopSeen
<1> DEFINE Fits == \/ async /\ lib \in AsyncLib /\ LoopsInv(S, {})
                   \/ ~async /\ lib \in Lib /\ LoopsInv(R, Q)
           Inv == RInv /\ Fits
<1>1. Inv => \/ async /\ lib \in AsyncLib /\ Ready(S, {})
             \/ ~async /\ lib \in Lib /\ Ready(R, Q)
  BY GroundsOfOne, GroundsOfNone DEF Ready
<1>2. AnyInit => Inv
  <2> SUFFICES ASSUME AnyInit PROVE Inv
    OBVIOUS
  <2>1. async \in BOOLEAN /\ lib \in IF async THEN AsyncLib ELSE Lib
    BY DEF AnyInit, StartIn
  <2> QED
    BY <2>1, InitSound, LoopsBegin
<1>3. Inv /\ [AnyNext]_anyVars => Inv'
  <2>1. ASSUME Inv, AnyNext PROVE Inv'
    <3>1. RInv' /\ lib' = lib /\ async' = async
      BY <2>1, StepSound, LibraryStays
    <3>2. CASE async /\ lib \in AsyncLib /\ Ready(S, {})
      <4>1. LoopsInv(S, {})'
        BY <2>1, <3>2, LoopsStep
      <4> QED
        BY <3>1, <3>2, <4>1
    <3>3. CASE ~async /\ lib \in Lib /\ Ready(R, Q)
      <4>1. LoopsInv(R, Q)'
        BY <2>1, <3>3, LoopsStep
      <4> QED
        BY <3>1, <3>3, <4>1
    <3> QED
      BY <1>1, <2>1, <3>2, <3>3
  <2>2. ASSUME Inv, UNCHANGED anyVars PROVE Inv'
    <3>1. UNCHANGED <<lib, async, status, ctl, ctxs, scopes, spaces, callers, chains, loopUse>>
      BY <2>2 DEF anyVars, vars, modules, caches
    <3>2. RInv'
      BY <2>2 DEF anyVars, vars, modules, caches, RInv, Sound, StateTyped, Dropped
    <3>3. Fits'
      BY <2>2, <3>1 DEF LoopsInv, UsesRight
    <3> QED
      BY <3>2, <3>3
  <2> QED
    BY <2>1, <2>2
<1>4. Inv => LoopSeen
  BY <1>1, LoopsSeen
<1> QED
  BY <1>2, <1>3, <1>4, PTL DEF AnySpec
=============================================================================
