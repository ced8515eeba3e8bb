--------------------------- MODULE NapiHost_proofs ---------------------------
(***************************************************************************)
(* Proofs about NapiHost, for any number of threads and any programs: the  *)
(* mutexes agree with the frames, a render context ends with its render,   *)
(* functions stay on their threads, the default Environment never returns  *)
(* to an older one, and threads never wait in a circle.                    *)
(***************************************************************************)
EXTENDS NapiHost, TLAPS, WellFoundedInduction

-----------------------------------------------------------------------------
(* Stacks.                                                                 *)

(* What Append does to a stack.                                            *)
LEMMA AppendFrame ==
    ASSUME NEW s \in Seq(Frame), NEW f \in Frame
    PROVE  /\ Append(s, f) \in Seq(Frame)
           /\ Len(Append(s, f)) = Len(s) + 1
           /\ \A i \in 1 .. Len(s) : Append(s, f)[i] = s[i]
           /\ Append(s, f)[Len(s) + 1] = f
  OBVIOUS

(* What Front does to a stack that is not empty, and its last frame.       *)
LEMMA FrontFrames ==
    ASSUME NEW s \in Seq(Frame), s # << >>
    PROVE  /\ Front(s) \in Seq(Frame)
           /\ Len(Front(s)) = Len(s) - 1
           /\ \A i \in 1 .. Len(s) - 1 : Front(s)[i] = s[i]
           /\ Last(s) \in Frame
           /\ Len(s) \in Nat \ {0}
<1>1. Len(s) \in Nat \ {0} /\ s \in [1 .. Len(s) -> Frame]
  OBVIOUS
<1>2. Front(s) = [i \in 1 .. Len(s) - 1 |-> s[i]]
  BY <1>1 DEF Front
<1>3. Front(s) \in Seq(Frame) /\ Len(Front(s)) = Len(s) - 1
  BY <1>1, <1>2
<1> QED
  BY <1>1, <1>2, <1>3 DEF Last

(* How a call or its return changes the stacks.                            *)
Only(t) == \A u \in Threads \ {t} : stack'[u] = stack[u]

Pushed(t, frame) ==
    /\ Only(t)
    /\ Len(stack'[t]) = Len(stack[t]) + 1
    /\ \A i \in 1 .. Len(stack[t]) : stack'[t][i] = stack[t][i]
    /\ stack'[t][Len(stack[t]) + 1] = frame

Popped(t) ==
    /\ Only(t)
    /\ Len(stack'[t]) = Len(stack[t]) - 1
    /\ \A i \in 1 .. Len(stack[t]) - 1 : stack'[t][i] = stack[t][i]

Turned(t, frame) ==
    /\ Only(t)
    /\ Len(stack'[t]) = Len(stack[t])
    /\ \A i \in 1 .. Len(stack[t]) - 1 : stack'[t][i] = stack[t][i]
    /\ stack'[t][Len(stack[t])] = frame

StacksOK == stack \in [Threads -> Seq(Frame)]

(* A program does not change.                                              *)
LEMMA ProgramStays ==
    ASSUME UNCHANGED program
    PROVE  Envs' = Envs /\ Ops' = Ops /\ Frame' = Frame
BY DEF Envs, Ops, Frame, Renders, Updates

(* A push adds one frame to one stack.                                     *)
LEMMA PushShape ==
    ASSUME UNCHANGED program, StacksOK, NEW t \in Threads, NEW f \in Frame, Push(t, f)
    PROVE  StacksOK' /\ Pushed(t, f)
<1>1. stack[t] \in Seq(Frame)
  BY DEF StacksOK
<1>2. stack' = [stack EXCEPT ![t] = Append(stack[t], f)]
  BY DEF Push
<1>3. Append(stack[t], f) \in Seq(Frame)
  BY <1>1, AppendFrame
<1>4. StacksOK' /\ Only(t) /\ stack'[t] = Append(stack[t], f)
  BY ProgramStays, <1>2, <1>3 DEF StacksOK, Only
<1> QED
  BY <1>1, <1>4, AppendFrame DEF Pushed

(* A pop takes the last frame off one stack.                               *)
LEMMA PopShape ==
    ASSUME UNCHANGED program, StacksOK, NEW t \in Threads, stack[t] # << >>, Pop(t)
    PROVE  StacksOK' /\ Popped(t)
<1>1. stack[t] \in Seq(Frame)
  BY DEF StacksOK
<1>2. stack' = [stack EXCEPT ![t] = Front(stack[t])]
  BY DEF Pop
<1>3. Front(stack[t]) \in Seq(Frame)
  BY <1>1, FrontFrames
<1>4. StacksOK' /\ Only(t) /\ stack'[t] = Front(stack[t])
  BY ProgramStays, <1>2, <1>3 DEF StacksOK, Only
<1> QED
  BY <1>1, <1>4, FrontFrames DEF Popped

(* A frame that becomes another leaves those below it alone.               *)
LEMMA TurnShape ==
    ASSUME UNCHANGED program, StacksOK, NEW t \in Threads, stack[t] # << >>, NEW f \in Frame,
           stack' = [stack EXCEPT ![t] = Append(Front(@), f)]
    PROVE  StacksOK' /\ Turned(t, f)
<1>1. stack[t] \in Seq(Frame)
  BY DEF StacksOK
<1>2. Front(stack[t]) \in Seq(Frame) /\ Len(Front(stack[t])) = Len(stack[t]) - 1
  BY <1>1, FrontFrames
<1>3. Append(Front(stack[t]), f) \in Seq(Frame)
  BY <1>2, AppendFrame
<1>4. StacksOK' /\ Only(t) /\ stack'[t] = Append(Front(stack[t]), f)
  BY ProgramStays, <1>3 DEF StacksOK, Only
<1>5. Len(stack[t]) \in Nat \ {0}
  BY <1>1, FrontFrames
<1> QED
  BY <1>1, <1>2, <1>4, <1>5, FrontFrames, AppendFrame DEF Turned

-----------------------------------------------------------------------------
(* Type correctness.                                                       *)

(* What the assumptions on the constants say of the program that runs.     *)
LEMMA ConstantsType ==
    ASSUME TypeOK
    PROVE  /\ program \in Program /\ program.threads \subseteq Threads
           /\ program.maxEnvs \in Nat /\ created \in Nat
           /\ None \notin Threads /\ None \notin Nat /\ None \notin Envs
BY HostConstants DEF TypeOK, Program, Envs

(* The top of a stack that is not empty is a frame.                        *)
LEMMA TopIsFrame ==
    ASSUME TypeOK, NEW t \in Threads, stack[t] # << >>
    PROVE  /\ Top(t) = stack[t][Len(stack[t])] /\ Top(t) \in Frame
           /\ Len(stack[t]) \in Nat \ {0}
<1>1. stack[t] \in Seq(Frame)
  BY DEF TypeOK
<1> QED
  BY <1>1, FrontFrames DEF Top, Last

(* An Environment is made at the next number, by its maker.                *)
LEMMA MakeType ==
    ASSUME TypeOK, UNCHANGED program, NEW t \in Threads \cup {None}, Make(t)
    PROVE  /\ created' = created + 1 /\ created' \in 0 .. program.maxEnvs /\ created' \in Envs
           /\ maker' \in [Envs -> Threads \cup {None}]
           /\ \A e \in Envs : maker'[e] = IF e = created' THEN t ELSE maker[e]
BY ConstantsType DEF TypeOK, Make, Envs

(* After global_env there is a default Environment, the old one or a new   *)
(* one.                                                                    *)
LEMMA EnsureGlobalType ==
    ASSUME TypeOK, UNCHANGED program, EnsureGlobal
    PROVE  /\ created' \in 0 .. program.maxEnvs
           /\ maker' \in [Envs -> Threads \cup {None}]
           /\ global' \in Envs
           /\ \/ global # None /\ UNCHANGED <<made, global>>
              \/ global = None /\ Make(None) /\ global' = created'
<1>1. CASE global = None
  BY <1>1, MakeType DEF EnsureGlobal, Make
<1>2. CASE global # None
  BY <1>2 DEF EnsureGlobal, TypeOK, made
<1> QED
  BY <1>1, <1>2

(* Each kind of step, and what it does to the stacks.                      *)
LEMMA CallShape ==
    ASSUME TypeOK, UNCHANGED program, NEW t \in Threads,
           NEW e \in Envs, NEW op \in Ops, Call(t, e, op)
    PROVE  StacksOK' /\ Pushed(t, Waiting(op, e))
<1>1. Waiting(op, e) \in Frame
  BY DEF Waiting, Frame
<1> QED
  BY <1>1, PushShape DEF Call, TypeOK, StacksOK

(* The module's render waits for the default Environment.                  *)
LEMMA RenderDefaultShape ==
    ASSUME TypeOK, UNCHANGED program, NEW t \in Threads, RenderDefault(t)
    PROVE  StacksOK' /\ Pushed(t, Waiting("render", global'))
<1>1. global' \in Envs
  BY EnsureGlobalType DEF RenderDefault
<1>2. Waiting("render", global') \in Frame
  BY <1>1 DEF Waiting, Frame, Ops, Renders
<1> QED
  BY <1>2, PushShape DEF RenderDefault, TypeOK, StacksOK

(* The frame that waited for a mutex holds it.                             *)
LEMMA AcquireShape ==
    ASSUME TypeOK, UNCHANGED program, NEW t \in Threads, Acquire(t)
    PROVE  StacksOK' /\ Turned(t, [Top(t) EXCEPT !.at = "held"])
<1>1. stack[t] # << >> /\ Top(t) \in Frame
  BY TopIsFrame DEF Acquire, CanLock, At
<1>2. [Top(t) EXCEPT !.at = "held"] \in Frame
  BY <1>1 DEF Frame
<1> QED
  BY <1>1, <1>2, TurnShape DEF Acquire, TypeOK, StacksOK

(* Each way for a frame to end.                                            *)
LEMMA PopsShape ==
    ASSUME TypeOK, UNCHANGED program, NEW t \in Threads, Update(t) \/ Return(t) \/ Finish(t)
    PROVE  StacksOK' /\ Popped(t)
<1>1. stack[t] # << >> /\ Pop(t)
  BY DEF Update, Return, Finish, CanLock, At
<1> QED
  BY <1>1, PopShape DEF TypeOK, StacksOK

(* A call of a JavaScript function, from the frame that holds the mutex.   *)
LEMMA EnterShape ==
    ASSUME TypeOK, UNCHANGED program, NEW t \in Threads, stack[t] # << >>,
           NEW fn \in Threads \cup {None}, Enter(t, fn)
    PROVE  StacksOK' /\ Pushed(t, [Top(t) EXCEPT !.at = "js", !.fn = fn])
<1>1. Top(t) \in Frame
  BY TopIsFrame
<1>2. [Top(t) EXCEPT !.at = "js", !.fn = fn] \in Frame
  BY <1>1 DEF Frame
<1> QED
  BY <1>2, PushShape DEF Enter, TypeOK, StacksOK

(* A call back is an Enter with the function of the Environment.           *)
LEMMA CallsBack ==
    ASSUME TypeOK, UNCHANGED program, NEW t \in Threads, CallBack(t) \/ CallLoader(t)
    PROVE  /\ stack[t] # << >> /\ Top(t).at = "held" /\ Top(t).env \in Envs
           /\ \E fn \in Threads : 
                 /\ \/ CallBack(t) /\ fn = callback[Top(t).env] /\ active[t] = fn
                    \/ CallLoader(t) /\ fn = loaderFn[Top(t).env]
                 /\ Enter(t, fn)
                 /\ StacksOK' /\ Pushed(t, [Top(t) EXCEPT !.at = "js", !.fn = fn])
<1>1. stack[t] # << >> /\ Top(t).at = "held"
  BY DEF CallBack, CallLoader, At
<1>2. Top(t).env \in Envs
  BY <1>1, TopIsFrame DEF Frame
<1>3. CASE CallBack(t)
  <2>1. callback[Top(t).env] \in Threads /\ active[t] = callback[Top(t).env]
    BY <1>2, <1>3 DEF CallBack, MayCallBack, TypeOK
  <2> QED
    BY <1>1, <1>2, <1>3, <2>1, EnterShape DEF CallBack
<1>4. CASE CallLoader(t)
  <2>1. loaderFn[Top(t).env] \in Threads
    BY <1>2, <1>4 DEF CallLoader, TypeOK
  <2> QED
    BY <1>1, <1>2, <1>4, <2>1, EnterShape DEF CallLoader
<1> QED
  BY <1>3, <1>4

(* Every step preserves the types.                                         *)
LEMMA TypeStep == TypeOK /\ [Next]_vars => TypeOK'
<1> SUFFICES ASSUME TypeOK, [Next]_vars PROVE TypeOK'
  OBVIOUS
<1>1. CASE UNCHANGED vars
  BY <1>1, ProgramStays DEF TypeOK, vars, state
<1>2. CASE Next
  <2>1. PICK t \in program.threads : Script(t) \/ Native(t)
    BY <1>2 DEF Next
  <2>2. UNCHANGED program /\ t \in Threads
    BY <1>2, ConstantsType DEF Next
  <2>3. Envs' = Envs /\ Ops' = Ops /\ Frame' = Frame
    BY <2>2, ProgramStays
  <2> USE <2>2, <2>3
  <2>4. TypeOK' <=>
           /\ program \in Programs
           /\ created' \in 0 .. program.maxEnvs
           /\ maker' \in [Envs -> Threads \cup {None}]
           /\ global' \in Envs \cup {None}
           /\ owner' \in [Envs -> Threads \cup {None}]
           /\ callback' \in [Envs -> Threads \cup {None}]
           /\ loaderFn' \in [Envs -> Threads \cup {None}]
           /\ active' \in [Threads -> Threads \cup {None}]
           /\ StacksOK'
           /\ panicked' \in BOOLEAN
    BY DEF TypeOK, StacksOK
  <2>5. CASE NewEnvironment(t) \/ ConfigureDefault(t) \/ Reset(t) \/ Compile(t) \/ Panic(t)
    <3>1. /\ created' \in 0 .. program.maxEnvs
          /\ maker' \in [Envs -> Threads \cup {None}]
          /\ global' \in Envs \cup {None}
      BY <2>5, MakeType, EnsureGlobalType
      DEF NewEnvironment, ConfigureDefault, Reset, Compile, Panic, TypeOK, made
    <3> QED
      BY <2>4, <2>5, <3>1
      DEF NewEnvironment, ConfigureDefault, Reset, Compile, Panic, TypeOK, fns, StacksOK
  <2>6. ASSUME NEW e \in Envs, NEW op \in Ops, Call(t, e, op)
        PROVE  TypeOK'
    <3>1. StacksOK'
      BY <2>6, CallShape
    <3>2. /\ created' \in 0 .. program.maxEnvs
          /\ maker' \in [Envs -> Threads \cup {None}]
          /\ global' \in Envs \cup {None}
      BY <2>6, EnsureGlobalType DEF Call, TypeOK, made
    <3> QED
      BY <2>4, <2>6, <3>1, <3>2 DEF Call, TypeOK, fns
  <2>7. CASE RenderDefault(t)
    <3>1. StacksOK'
      BY <2>7, RenderDefaultShape
    <3>2. /\ created' \in 0 .. program.maxEnvs
          /\ maker' \in [Envs -> Threads \cup {None}]
          /\ global' \in Envs \cup {None}
      BY <2>7, EnsureGlobalType DEF RenderDefault
    <3> QED
      BY <2>4, <2>7, <3>1, <3>2 DEF RenderDefault, TypeOK, fns
  <2>8. CASE Acquire(t)
    BY <2>4, <2>8, AcquireShape DEF Acquire, TypeOK, made, fns
  <2>9. CASE Update(t)
    <3>1. StacksOK'
      BY <2>9, PopsShape
    <3>2. callback' \in [Envs -> Threads \cup {None}] /\ loaderFn' \in [Envs -> Threads \cup {None}]
      BY <2>9 DEF Update, TypeOK
    <3> QED
      BY <2>4, <2>9, <3>1, <3>2 DEF Update, TypeOK, made
  <2>10. CASE Return(t)
    BY <2>4, <2>10, PopsShape DEF Return, TypeOK, made, fns
  <2>11. CASE Finish(t)
    BY <2>4, <2>11, PopsShape DEF Finish, TypeOK, made, fns
  <2>12. CASE CallBack(t) \/ CallLoader(t)
    BY <2>4, <2>12, CallsBack DEF Enter, TypeOK, made, fns
  <2> QED
    BY <2>1, <2>5, <2>6, <2>7, <2>8, <2>9, <2>10, <2>11, <2>12 DEF Script, Native, Complete
<1> QED
  BY <1>1, <1>2

(* The initial states have the types.                                      *)
LEMMA TypeInit == Init => TypeOK
<1> SUFFICES ASSUME Init PROVE TypeOK
  OBVIOUS
<1>1. program \in Program /\ program.maxEnvs \in Nat
  BY HostConstants DEF Init, Program
<1>2. stack \in [Threads -> Seq(Frame)]
  BY DEF Init
<1>3. /\ maker \in [Envs -> Threads \cup {None}] /\ owner \in [Envs -> Threads \cup {None}]
      /\ callback \in [Envs -> Threads \cup {None}] /\ loaderFn \in [Envs -> Threads \cup {None}]
      /\ active \in [Threads -> Threads \cup {None}]
  BY DEF Init
<1>4. program \in Programs /\ created \in 0 .. program.maxEnvs /\ global = None /\ panicked = FALSE
  BY <1>1 DEF Init
<1> QED
  BY <1>2, <1>3, <1>4 DEF TypeOK

(* Every variable of the host keeps its type, in every program.            *)
THEOREM TypeCorrect == Spec => []TypeOK
BY TypeInit, TypeStep, PTL DEF Spec

-----------------------------------------------------------------------------
(* Mutexes.                                                                *)

(* The frame i of a thread holds the mutex of an Environment.              *)
Holds(u, e, i) ==
    i \in 1 .. Len(stack[u]) /\ stack[u][i].at = "held" /\ stack[u][i].env = e

HeldIn(u, e) == {i \in DOMAIN stack[u] : stack[u][i].at = "held" /\ stack[u][i].env = e}

(* LocksMatchFrames without the sets: an owner has one frame that holds    *)
(* the mutex, no one else has any.                                         *)
LEMMA LocksPointwise ==
    ASSUME StacksOK
    PROVE  LocksMatchFrames <=>
             \A u \in Threads, e \in Envs :
                 /\ owner[e] = u <=> \E i : Holds(u, e, i)
                 /\ \A i, j : Holds(u, e, i) /\ Holds(u, e, j) => i = j
<1>1. LocksMatchFrames <=>
        \A u \in Threads, e \in Envs :
            IF owner[e] = u THEN \E i \in HeldIn(u, e) : HeldIn(u, e) = {i}
                            ELSE HeldIn(u, e) = {}
  BY Zenon DEF LocksMatchFrames, HeldIn
<1>2. ASSUME NEW u \in Threads, NEW e \in Envs
      PROVE  (IF owner[e] = u THEN \E i \in HeldIn(u, e) : HeldIn(u, e) = {i}
                              ELSE HeldIn(u, e) = {})
               <=> /\ owner[e] = u <=> \E i : Holds(u, e, i)
                   /\ \A i, j : Holds(u, e, i) /\ Holds(u, e, j) => i = j
  <2>1. DOMAIN stack[u] = 1 .. Len(stack[u])
    BY DEF StacksOK
  <2>2. \A j : j \in HeldIn(u, e) <=> Holds(u, e, j)
    BY <2>1 DEF Holds, HeldIn
  <2> QED
    BY <2>2
<1> QED
  BY <1>1, <1>2, Zenon

(* Calls into JavaScript and out of it leave the mutexes to who has them.  *)
LEMMA HoldsStays ==
    ASSUME TypeOK, NEW t \in Threads, NEW f \in Frame,
           \/ Pushed(t, f) /\ f.at # "held"
           \/ Popped(t) /\ stack[t] # << >> /\ Top(t).at # "held"
           \/ UNCHANGED stack,
           NEW u \in Threads, NEW e, NEW i
    PROVE  Holds(u, e, i)' <=> Holds(u, e, i)
<1>1. Len(stack[t]) \in Nat
  BY DEF TypeOK
<1>2. CASE Pushed(t, f) /\ f.at # "held"
  BY <1>1, <1>2 DEF Pushed, Only, Holds
<1>3. CASE Popped(t) /\ stack[t] # << >> /\ Top(t).at # "held"
  BY <1>1, <1>3, TopIsFrame DEF Popped, Only, Holds
<1>4. CASE UNCHANGED stack
  BY <1>4 DEF Holds
<1> QED
  BY <1>2, <1>3, <1>4

(* Acquire adds one holding frame, of the Environment it waited for.       *)
LEMMA HoldsAcquired ==
    ASSUME TypeOK, NEW t \in Threads, stack[t] # << >>, Top(t).at = "wait",
           Turned(t, [Top(t) EXCEPT !.at = "held"]),
           NEW u \in Threads, NEW e, NEW i
    PROVE  Holds(u, e, i)' <=>
             Holds(u, e, i) \/ (u = t /\ e = Top(t).env /\ i = Len(stack[t]))
<1> DEFINE f == [Top(t) EXCEPT !.at = "held"]
<1>1. /\ Top(t) = stack[t][Len(stack[t])] /\ Top(t) \in Frame
      /\ Len(stack[t]) \in Nat \ {0}
  BY TopIsFrame
<1>2. f.at = "held" /\ f.env = Top(t).env
  BY <1>1 DEF Frame
<1> HIDE DEF f
<1>3. Turned(t, f)
  BY DEF f
<1> QED
  BY <1>1, <1>2, <1>3 DEF Turned, Only, Holds

(* Finish removes the holding frame of the Environment it releases.        *)
LEMMA HoldsReleased ==
    ASSUME TypeOK, NEW t \in Threads, stack[t] # << >>, Popped(t),
           NEW u \in Threads, NEW e, NEW i
    PROVE  Holds(u, e, i)' <=> Holds(u, e, i) /\ ~(u = t /\ i = Len(stack[t]))
<1>1. Len(stack[t]) \in Nat \ {0}
  BY TopIsFrame
<1> QED
  BY <1>1 DEF Popped, Only, Holds

(* Every step keeps mutexes and frames in agreement.                       *)
LEMMA LocksStep == TypeOK /\ LocksMatchFrames /\ [Next]_vars => LocksMatchFrames'
<1> SUFFICES ASSUME TypeOK, LocksMatchFrames, [Next]_vars PROVE LocksMatchFrames'
  OBVIOUS
<1> DEFINE Match(e, u) == /\ owner[e] = u <=> \E i : Holds(u, e, i)
                          /\ \A i, j : Holds(u, e, i) /\ Holds(u, e, j) => i = j
<1>1. UNCHANGED program /\ Envs' = Envs
  BY ProgramStays DEF Next, vars
<1>2. TypeOK' /\ StacksOK /\ StacksOK'
  BY TypeStep DEF TypeOK, StacksOK
<1>3. \A u \in Threads, e \in Envs : Match(e, u)
  BY <1>2, LocksPointwise
<1>4. SUFFICES \A u \in Threads, e \in Envs : Match(e, u)'
  <2>1. StacksOK' => (LocksMatchFrames <=> \A u \in Threads, e \in Envs : Match(e, u))'
    BY LocksPointwise, PTL
  <2> QED
    BY <1>1, <1>2, <1>4, <2>1
<1>5. ASSUME UNCHANGED owner,
             \A u \in Threads : \A e, i : Holds(u, e, i)' <=> Holds(u, e, i)
      PROVE  \A u \in Threads, e \in Envs : Match(e, u)'
  BY <1>3, <1>5
<1>6. CASE UNCHANGED vars
  BY <1>5, <1>6 DEF vars, state, Holds
<1>7. CASE Next
  <2>1. PICK t \in program.threads : Script(t) \/ Native(t)
    BY <1>7 DEF Next
  <2>2. t \in Threads
    BY ConstantsType
  <2>3. CASE NewEnvironment(t) \/ ConfigureDefault(t) \/ Reset(t) \/ Compile(t) \/ Panic(t)
    BY <1>5, <2>3 DEF NewEnvironment, ConfigureDefault, Reset, Compile, Panic, Holds
  <2>4. ASSUME NEW e \in Envs, NEW op \in Ops, Call(t, e, op)
        PROVE  \A u \in Threads, d \in Envs : Match(d, u)'
    <3>1. Pushed(t, Waiting(op, e)) /\ Waiting(op, e) \in Frame /\ Waiting(op, e).at # "held"
      BY <1>1, <2>2, <2>4, CallShape DEF Waiting, Frame
    <3> QED
      BY <1>5, <2>2, <2>4, <3>1, HoldsStays DEF Call
  <2>5. CASE RenderDefault(t)
    <3>1. global' \in Envs
      BY <1>1, <2>5, EnsureGlobalType DEF RenderDefault
    <3>2. /\ Pushed(t, Waiting("render", global'))
          /\ Waiting("render", global') \in Frame /\ Waiting("render", global').at # "held"
      BY <1>1, <2>2, <2>5, <3>1, RenderDefaultShape DEF Waiting, Frame, Ops, Renders
    <3> QED
      BY <1>5, <2>2, <2>5, <3>2, HoldsStays DEF RenderDefault
  <2>6. CASE Acquire(t)
    <3>1. /\ stack[t] # << >> /\ Top(t).at = "wait" /\ owner[Top(t).env] = None
          /\ owner' = [owner EXCEPT ![Top(t).env] = t]
      BY <2>6 DEF Acquire, CanLock, At
    <3>2. Turned(t, [Top(t) EXCEPT !.at = "held"])
      BY <1>1, <2>2, <2>6, AcquireShape
    <3>3. Top(t).env \in Envs
      BY <2>2, <3>1, TopIsFrame DEF Frame
    <3>4. \A u \in Threads : \A j : ~Holds(u, Top(t).env, j)
      BY <1>3, <3>1, <3>3, ConstantsType
    <3>5. \A u \in Threads : \A e, i : Holds(u, e, i)' <=>
             Holds(u, e, i) \/ (u = t /\ e = Top(t).env /\ i = Len(stack[t]))
      BY <2>2, <3>1, <3>2, HoldsAcquired
    <3>6. \A e \in Envs : owner'[e] = IF e = Top(t).env THEN t ELSE owner[e]
      BY <3>1, <3>3 DEF TypeOK
    <3>7. ASSUME NEW u \in Threads, NEW e \in Envs
          PROVE  Match(e, u)'
      <4>1. CASE e # Top(t).env
        <5>1. owner'[e] = owner[e] /\ \A j : Holds(u, e, j)' <=> Holds(u, e, j)
          BY <3>5, <3>6, <4>1
        <5> QED
          BY <1>3, <5>1
      <4>2. CASE e = Top(t).env /\ u = t
        <5>1. PICK last : last = Len(stack[t])
          OBVIOUS
        <5>2. /\ owner'[e] = u /\ Holds(u, e, last)'
              /\ \A j : Holds(u, e, j)' => j = last
          BY <3>4, <3>5, <3>6, <4>2, <5>1
        <5> QED
          BY <5>2
      <4>3. CASE e = Top(t).env /\ u # t
        <5>1. owner'[e] # u /\ \A j : ~Holds(u, e, j)'
          BY <3>4, <3>5, <3>6, <4>3
        <5> QED
          BY <5>1
      <4> QED
        BY <4>1, <4>2, <4>3
    <3> QED
      BY <3>7
  <2>7. CASE Update(t) \/ Return(t)
    <3>1. stack[t] # << >> /\ Top(t).at # "held"
      BY <2>7 DEF Update, Return, CanLock, At
    <3>2. Popped(t) /\ Top(t) \in Frame
      BY <1>1, <2>2, <2>7, <3>1, PopsShape, TopIsFrame
    <3> QED
      BY <1>5, <2>2, <2>7, <3>1, <3>2, HoldsStays DEF Update, Return
  <2>8. CASE Finish(t)
    <3>1. stack[t] # << >> /\ Top(t).at = "held" /\ owner' = [owner EXCEPT ![Top(t).env] = None]
      BY <2>8 DEF Finish, At
    <3>2. Popped(t)
      BY <1>1, <2>2, <2>8, PopsShape
    <3>3. Top(t).env \in Envs /\ Holds(t, Top(t).env, Len(stack[t]))
      BY <2>2, <3>1, TopIsFrame DEF Frame, Holds
    <3>4. owner[Top(t).env] = t
      BY <1>3, <2>2, <3>3
    <3>5. \A u \in Threads : \A e, i : Holds(u, e, i)' <=>
             Holds(u, e, i) /\ ~(u = t /\ i = Len(stack[t]))
      BY <2>2, <3>1, <3>2, HoldsReleased
    <3>6. \A e \in Envs : owner'[e] = IF e = Top(t).env THEN None ELSE owner[e]
      BY <3>1, <3>3 DEF TypeOK
    <3>7. \A e \in Envs : Holds(t, e, Len(stack[t])) <=> e = Top(t).env
      BY <2>2, <3>1, <3>3, TopIsFrame DEF Holds
    <3>8. ASSUME NEW u \in Threads, NEW e \in Envs
          PROVE  Match(e, u)'
      <4>1. CASE e # Top(t).env
        <5>1. owner'[e] = owner[e] /\ \A j : Holds(u, e, j)' <=> Holds(u, e, j)
          BY <3>5, <3>6, <3>7, <4>1
        <5> QED
          BY <1>3, <5>1
      <4>2. CASE e = Top(t).env
        <5>1. \A j : Holds(u, e, j) => u = t /\ j = Len(stack[t])
          BY <1>3, <2>2, <3>3, <3>4, <4>2
        <5>2. owner'[e] # u /\ \A j : ~Holds(u, e, j)'
          BY <3>5, <3>6, <4>2, <5>1, ConstantsType
        <5> QED
          BY <5>2
      <4> QED
        BY <4>1, <4>2
    <3> QED
      BY <3>8
  <2>9. CASE CallBack(t) \/ CallLoader(t)
    <3>1. PICK fn \in Threads : Enter(t, fn) /\ Pushed(t, [Top(t) EXCEPT !.at = "js", !.fn = fn])
      BY <1>1, <2>2, <2>9, CallsBack
    <3>2. Top(t) \in Frame
      BY <1>1, <2>2, <2>9, CallsBack, TopIsFrame
    <3>3. /\ [Top(t) EXCEPT !.at = "js", !.fn = fn] \in Frame
          /\ [Top(t) EXCEPT !.at = "js", !.fn = fn].at # "held"
      BY <3>2 DEF Frame
    <3> QED
      BY <1>5, <2>2, <3>1, <3>3, HoldsStays DEF Enter
  <2> QED
    BY <2>1, <2>3, <2>4, <2>5, <2>6, <2>7, <2>8, <2>9 DEF Script, Native, Complete
<1> QED
  BY <1>6, <1>7

(* Nothing is locked at first.                                             *)
LEMMA LocksInit == Init => LocksMatchFrames
<1> SUFFICES ASSUME Init, NEW t \in Threads, NEW e \in Envs
             PROVE  owner[e] # t /\ DOMAIN stack[t] = {}
  BY DEF LocksMatchFrames
<1> QED
  BY HostConstants DEF Init

(* The mutex of an Environment is held by one frame, for as long as that   *)
(* is on the stack of the thread that locked it, however calls, callbacks  *)
(* and the threads alternate.                                              *)
THEOREM LocksCorrect == Spec => []LocksMatchFrames
<1>1. Init => TypeOK /\ LocksMatchFrames
  BY TypeInit, LocksInit
<1>2. TypeOK /\ LocksMatchFrames /\ [Next]_vars => (TypeOK /\ LocksMatchFrames)'
  BY TypeStep, LocksStep
<1> QED
  BY <1>1, <1>2, PTL DEF Spec

-----------------------------------------------------------------------------
(* Render contexts.                                                        *)

RendersAt(u, i) ==
    i \in 1 .. Len(stack[u]) /\ stack[u][i].at = "held" /\ stack[u][i].op \in Renders

(* ContextEndsWithRender without the domains.                              *)
LEMMA ContextPointwise ==
    ASSUME StacksOK
    PROVE  ContextEndsWithRender <=>
             \A u \in Threads : active[u] # None => \E i : RendersAt(u, i)
<1>1. \A u \in Threads : DOMAIN stack[u] = 1 .. Len(stack[u])
  BY DEF StacksOK
<1> QED
  BY <1>1 DEF ContextEndsWithRender, RendersAt

(* A render stays on its stack until it is the top that ends.              *)
LEMMA RenderStays ==
    ASSUME TypeOK, UNCHANGED program, NEW t \in Threads, NEW f,
           \/ Pushed(t, f)
           \/ Popped(t) /\ stack[t] # << >> /\ ~(Top(t).at = "held" /\ Top(t).op \in Renders)
           \/ Turned(t, f) /\ stack[t] # << >> /\ Top(t).at # "held"
           \/ UNCHANGED stack,
           NEW u \in Threads, NEW i, RendersAt(u, i)
    PROVE  RendersAt(u, i)'
<1>1. Len(stack[t]) \in Nat /\ Renders' = Renders
  BY DEF TypeOK, Renders
<1>2. CASE Pushed(t, f)
  BY <1>1, <1>2 DEF Pushed, Only, RendersAt
<1>3. CASE Popped(t) /\ stack[t] # << >> /\ ~(Top(t).at = "held" /\ Top(t).op \in Renders)
  BY <1>1, <1>3, TopIsFrame DEF Popped, Only, RendersAt
<1>4. CASE Turned(t, f) /\ stack[t] # << >> /\ Top(t).at # "held"
  BY <1>1, <1>4, TopIsFrame DEF Turned, Only, RendersAt
<1>5. CASE UNCHANGED stack
  BY <1>1, <1>5 DEF RendersAt
<1> QED
  BY <1>2, <1>3, <1>4, <1>5

(* Every step keeps each render context within a render.                   *)
LEMMA ContextStep == TypeOK /\ ContextEndsWithRender /\ [Next]_vars => ContextEndsWithRender'
<1> SUFFICES ASSUME TypeOK, ContextEndsWithRender, [Next]_vars PROVE ContextEndsWithRender'
  OBVIOUS
<1> DEFINE Ends(u) == active[u] # None => \E i : RendersAt(u, i)
<1>1. UNCHANGED program /\ Envs' = Envs
  BY ProgramStays DEF Next, vars
<1>2. TypeOK' /\ StacksOK /\ StacksOK'
  BY TypeStep DEF TypeOK, StacksOK
<1>3. \A u \in Threads : Ends(u)
  BY <1>2, ContextPointwise
<1>4. SUFFICES \A u \in Threads : Ends(u)'
  <2>1. StacksOK' => (ContextEndsWithRender <=> \A u \in Threads : Ends(u))'
    BY ContextPointwise, PTL
  <2> QED
    BY <1>2, <1>4, <2>1
<1>5. ASSUME UNCHANGED active,
             \A u \in Threads : \A i : RendersAt(u, i) => RendersAt(u, i)'
      PROVE  \A u \in Threads : Ends(u)'
  BY <1>3, <1>5
<1>6. CASE UNCHANGED vars
  BY <1>5, <1>6 DEF vars, state, RendersAt, Renders
<1>7. CASE Next
  <2>1. PICK t \in program.threads : Script(t) \/ Native(t)
    BY <1>7 DEF Next
  <2>2. t \in Threads
    BY ConstantsType
  <2>3. CASE NewEnvironment(t) \/ ConfigureDefault(t) \/ Reset(t) \/ Compile(t) \/ Panic(t)
    <3>1. UNCHANGED <<stack, active>>
      BY <2>3 DEF NewEnvironment, ConfigureDefault, Reset, Compile, Panic
    <3> QED
      BY <1>1, <1>5, <2>2, <3>1, RenderStays
  <2>4. ASSUME NEW e \in Envs, NEW op \in Ops, Call(t, e, op)
        PROVE  \A u \in Threads : Ends(u)'
    BY <1>1, <1>5, <2>2, <2>4, CallShape, RenderStays DEF Call
  <2>5. CASE RenderDefault(t)
    <3>1. PICK f : Pushed(t, f)
      BY <1>1, <2>2, <2>5, RenderDefaultShape
    <3> QED
      BY <1>1, <1>5, <2>2, <2>5, <3>1, RenderStays DEF RenderDefault
  <2>6. CASE Acquire(t)
    <3>1. /\ stack[t] # << >> /\ Top(t).at = "wait"
          /\ active' = IF Top(t).op \in Renders THEN [active EXCEPT ![t] = t] ELSE active
      BY <2>6 DEF Acquire, CanLock, At
    <3>2. Turned(t, [Top(t) EXCEPT !.at = "held"])
      BY <1>1, <2>2, <2>6, AcquireShape
    <3>3. \A u \in Threads : \A i : RendersAt(u, i) => RendersAt(u, i)'
      BY <1>1, <2>2, <3>1, <3>2, RenderStays
    <3>4. CASE Top(t).op \notin Renders
      BY <1>5, <3>1, <3>3, <3>4
    <3>5. CASE Top(t).op \in Renders
      <4>1. PICK last : last = Len(stack[t])
        OBVIOUS
      <4>2. Top(t) \in Frame /\ last \in Nat \ {0}
        BY <2>2, <3>1, <4>1, TopIsFrame
      <4>3. RendersAt(t, last)'
        BY <1>1, <3>2, <3>5, <4>1, <4>2 DEF Turned, RendersAt, Frame, Renders
      <4>4. \A u \in Threads \ {t} : active'[u] = active[u]
        BY <3>1 DEF TypeOK
      <4> QED
        BY <1>3, <3>3, <4>3, <4>4
    <3> QED
      BY <3>4, <3>5
  <2>7. CASE Update(t) \/ Return(t)
    <3>1. stack[t] # << >> /\ Top(t).at # "held" /\ UNCHANGED active
      BY <2>7 DEF Update, Return, CanLock, At
    <3> QED
      BY <1>1, <1>5, <2>2, <2>7, <3>1, PopsShape, RenderStays
  <2>8. CASE Finish(t)
    <3>1. /\ stack[t] # << >>
          /\ active' = IF Top(t).op \in Renders THEN [active EXCEPT ![t] = None] ELSE active
      BY <2>8 DEF Finish, At
    <3>2. Popped(t)
      BY <1>1, <2>2, <2>8, PopsShape
    <3>3. CASE Top(t).op \notin Renders
      BY <1>1, <1>5, <2>2, <3>1, <3>2, <3>3, RenderStays
    <3>4. CASE Top(t).op \in Renders
      <4>1. active'[t] = None /\ \A u \in Threads \ {t} : active'[u] = active[u]
        BY <2>2, <3>1, <3>4 DEF TypeOK
      <4>2. \A u \in Threads \ {t} : \A i : RendersAt(u, i) => RendersAt(u, i)'
        BY <1>1, <3>2 DEF Popped, Only, RendersAt, Renders
      <4> QED
        BY <1>3, <4>1, <4>2
    <3> QED
      BY <3>3, <3>4
  <2>9. CASE CallBack(t) \/ CallLoader(t)
    <3>1. PICK fn \in Threads : Enter(t, fn) /\ Pushed(t, [Top(t) EXCEPT !.at = "js", !.fn = fn])
      BY <1>1, <2>2, <2>9, CallsBack
    <3> QED
      BY <1>1, <1>5, <2>2, <3>1, RenderStays DEF Enter
  <2> QED
    BY <2>1, <2>3, <2>4, <2>5, <2>6, <2>7, <2>8, <2>9 DEF Script, Native, Complete
<1> QED
  BY <1>6, <1>7

(* No render context outlives the renders of its thread, however they      *)
(* nest, fail, or alternate with callbacks.                                *)
THEOREM ContextCorrect == Spec => []ContextEndsWithRender
<1>1. Init => ContextEndsWithRender
  BY DEF Init, ContextEndsWithRender
<1>2. TypeOK /\ ContextEndsWithRender /\ [Next]_vars => ContextEndsWithRender'
  BY ContextStep
<1> QED
  BY <1>1, <1>2, TypeCorrect, PTL DEF Spec

-----------------------------------------------------------------------------
(* The threads of JavaScript functions.                                    *)

(* A program of more threads than one uses no JavaScript loader.           *)
LoadersStayHome ==
    \A p \in Programs : p.loaderCallbacks => \A t, u \in p.threads : t = u

ThreadInv ==
    /\ FunctionsOnOwnThread
    /\ \A t \in Threads : active[t] \in {t, None}
    /\ \A e \in Envs : loaderFn[e] # None =>
          program.loaderCallbacks /\ loaderFn[e] \in program.threads

(* The new top of a stack is the only frame that may be new.               *)
LEMMA FunctionsStay ==
    ASSUME TypeOK, TypeOK', FunctionsOnOwnThread, NEW t \in Threads, NEW f,
           \/ Pushed(t, f) /\ (f.at = "js" => f.fn = t)
           \/ Popped(t)
           \/ Turned(t, f) /\ f.at # "js"
           \/ UNCHANGED stack
    PROVE  FunctionsOnOwnThread'
<1>1. \A u \in Threads : /\ Len(stack[u]) \in Nat /\ DOMAIN stack[u] = 1 .. Len(stack[u])
                         /\ DOMAIN stack'[u] = 1 .. Len(stack'[u]) /\ Len(stack'[u]) \in Nat
  BY DEF TypeOK
<1>2. CASE Pushed(t, f) /\ (f.at = "js" => f.fn = t)
  BY <1>1, <1>2 DEF Pushed, Only, FunctionsOnOwnThread
<1>3. CASE Popped(t)
  BY <1>1, <1>3 DEF Popped, Only, FunctionsOnOwnThread
<1>4. CASE Turned(t, f) /\ f.at # "js"
  BY <1>1, <1>4 DEF Turned, Only, FunctionsOnOwnThread
<1>5. CASE UNCHANGED stack
  BY <1>1, <1>5 DEF FunctionsOnOwnThread
<1> QED
  BY <1>2, <1>3, <1>4, <1>5

(* Every step keeps functions, render contexts and loaders on their        *)
(* threads.                                                                *)
LEMMA ThreadStep ==
    ASSUME LoadersStayHome, TypeOK, ThreadInv, [Next]_vars
    PROVE  ThreadInv'
<1>1. UNCHANGED program /\ Envs' = Envs
  BY ProgramStays DEF Next, vars
<1>2. TypeOK'
  BY TypeStep
<1> DEFINE Rest == /\ \A t \in Threads : active[t] \in {t, None}
                   /\ \A e \in Envs : loaderFn[e] # None =>
                          program.loaderCallbacks /\ loaderFn[e] \in program.threads
<1>3. ASSUME UNCHANGED <<active, loaderFn>>
      PROVE  Rest'
  BY <1>1, <1>3 DEF ThreadInv
<1>4. CASE UNCHANGED vars
  BY <1>1, <1>4 DEF vars, state, ThreadInv, FunctionsOnOwnThread
<1>5. CASE Next
  <2>1. PICK t \in program.threads : Script(t) \/ Native(t)
    BY <1>5 DEF Next
  <2>2. t \in Threads
    BY ConstantsType
  <2> USE <1>1, <1>2, <2>2 DEF ThreadInv
  <2>3. CASE NewEnvironment(t) \/ ConfigureDefault(t) \/ Reset(t) \/ Compile(t) \/ Panic(t)
    <3>1. UNCHANGED <<stack, active, loaderFn>>
      BY <2>3 DEF NewEnvironment, ConfigureDefault, Reset, Compile, Panic, fns
    <3> QED
      BY <1>3, <3>1, FunctionsStay
  <2>4. ASSUME NEW e \in Envs, NEW op \in Ops, Call(t, e, op)
        PROVE  ThreadInv'
    <3>1. Waiting(op, e).at # "js"
      BY DEF Waiting
    <3> QED
      BY <1>3, <2>4, <3>1, CallShape, FunctionsStay DEF Call, fns
  <2>5. CASE RenderDefault(t)
    <3>1. Waiting("render", global').at # "js"
      BY DEF Waiting
    <3> QED
      BY <1>3, <2>5, <3>1, RenderDefaultShape, FunctionsStay DEF RenderDefault, fns
  <2>6. CASE Acquire(t)
    <3>1. [Top(t) EXCEPT !.at = "held"].at # "js"
      BY <2>6, TopIsFrame DEF Acquire, CanLock, At, Frame
    <3>2. FunctionsOnOwnThread'
      BY <2>6, <3>1, AcquireShape, FunctionsStay
    <3>3. Rest'
      BY <2>6 DEF Acquire, fns, TypeOK
    <3> QED
      BY <3>2, <3>3
  <2>7. CASE Update(t)
    <3>1. FunctionsOnOwnThread'
      BY <2>7, PopsShape, FunctionsStay
    <3>2. /\ stack[t] # << >> /\ Top(t).op \in Ops /\ Top(t).env \in Envs
          /\ UNCHANGED active
      BY <2>7, TopIsFrame DEF Update, CanLock, At, Frame
    <3>3. Top(t).op = "set_loader_callback" => program.loaderCallbacks
      BY <3>2 DEF Ops, Updates, Renders
    <3>4. \A e \in Envs : loaderFn'[e] # None =>
             program.loaderCallbacks /\ loaderFn'[e] \in program.threads
      BY <2>7, <3>2, <3>3 DEF Update, TypeOK
    <3> QED
      BY <3>1, <3>2, <3>4
  <2>8. CASE Return(t)
    BY <1>3, <2>8, PopsShape, FunctionsStay DEF Return, fns
  <2>9. CASE Finish(t)
    <3>1. FunctionsOnOwnThread'
      BY <2>9, PopsShape, FunctionsStay
    <3>2. Rest'
      BY <2>9 DEF Finish, fns, TypeOK
    <3> QED
      BY <3>1, <3>2
  <2>10. CASE CallBack(t) \/ CallLoader(t)
    <3>1. PICK fn \in Threads :
             /\ \/ CallBack(t) /\ fn = callback[Top(t).env] /\ active[t] = fn
                \/ CallLoader(t) /\ fn = loaderFn[Top(t).env]
             /\ Enter(t, fn) /\ Pushed(t, [Top(t) EXCEPT !.at = "js", !.fn = fn])
      BY <2>10, CallsBack
    <3>2. Top(t).env \in Envs /\ Top(t) \in Frame
      BY <2>10, CallsBack, TopIsFrame
    <3>3. fn = t
      <4>1. CASE active[t] = fn
        BY <4>1, ConstantsType
      <4>2. CASE fn = loaderFn[Top(t).env]
        <5>1. program.loaderCallbacks /\ fn \in program.threads
          BY <3>2, <4>2, ConstantsType
        <5> QED
          BY <5>1 DEF LoadersStayHome, TypeOK
      <4> QED
        BY <3>1, <4>1, <4>2
    <3>4. [Top(t) EXCEPT !.at = "js", !.fn = fn].fn = t
      BY <3>2, <3>3 DEF Frame
    <3> QED
      BY <1>3, <3>1, <3>4, FunctionsStay DEF Enter, fns
  <2> QED
    BY <2>1, <2>3, <2>4, <2>5, <2>6, <2>7, <2>8, <2>9, <2>10 DEF Script, Native, Complete
<1> QED
  BY <1>4, <1>5

(* A JavaScript function is only ever called on the thread that registered *)
(* it, if the loaders, which are not checked, have one thread to run on.   *)
THEOREM ThreadsCorrect ==
    ASSUME LoadersStayHome
    PROVE  Spec => []FunctionsOnOwnThread
<1>1. Init => ThreadInv
  BY HostConstants DEF Init, ThreadInv, FunctionsOnOwnThread
<1>2. TypeOK /\ ThreadInv /\ [Next]_vars => ThreadInv'
  BY ThreadStep
<1>3. ThreadInv => FunctionsOnOwnThread
  BY DEF ThreadInv
<1> QED
  BY <1>1, <1>2, <1>3, TypeCorrect, PTL DEF Spec

(* An Environment that is no longer the default never becomes it again.    *)
THEOREM DefaultCorrect == Spec => DefaultNeverReturns
<1>1. TypeOK /\ [Next]_vars => [global' # global /\ global' # None => global' > created]_vars
  <2> SUFFICES ASSUME TypeOK, Next, global' # global, global' # None
               PROVE  global' > created
    BY DEF vars
  <2>1. PICK t \in program.threads : Script(t) \/ Native(t)
    BY DEF Next
  <2>2. UNCHANGED program /\ t \in Threads /\ created \in Nat
    BY ConstantsType DEF Next
  <2>3. EnsureGlobal => global' > created
    BY <2>2, EnsureGlobalType, MakeType
  <2> QED
    BY <2>1, <2>2, <2>3
    DEF Script, Native, Complete, NewEnvironment, ConfigureDefault, Reset, Compile, Call,
        RenderDefault, Panic, Acquire, Update, Return, Finish, CallBack, CallLoader, Enter
<1> QED
  BY <1>1, TypeCorrect, PTL DEF Spec, DefaultNeverReturns

-----------------------------------------------------------------------------
(* Deadlock.                                                               *)

(* Only the Environments made so far are used.                             *)
UnmadeUnused ==
    /\ \A e \in Envs : e > created =>
          maker[e] = None /\ owner[e] = None /\ callback[e] = None /\ loaderFn[e] = None
    /\ global # None => global <= created
    /\ \A t \in Threads : \A i \in DOMAIN stack[t] : stack[t][i].env <= created

(* Only its maker calls methods of an Environment.                         *)
OwnMethods ==
    /\ \A e \in Envs : callback[e] \in {None, maker[e]} /\ loaderFn[e] \in {None, maker[e]}
    /\ \A t \in Threads : \A i \in DOMAIN stack[t] :
          /\ stack[t][i].at # "js" /\ stack[t][i].op # "render" => maker[stack[t][i].env] = t
          /\ stack[t][i].at = "js" => stack[t][i].fn = maker[stack[t][i].env]

(* Of the frames below the top none waits, JavaScript is in its own        *)
(* thread, and what holds a mutex has called a function.                   *)
StackShape ==
    \A t \in Threads : \A i \in 1 .. Len(stack[t]) - 1 :
        /\ stack[t][i].at # "wait"
        /\ stack[t][i].at = "js" => stack[t][i].fn = t
        /\ stack[t][i].at = "held" =>
              stack[t][i + 1].at = "js" /\ stack[t][i + 1].env = stack[t][i].env

Waits(t) == stack[t] # << >> /\ Top(t).at = "wait"

(* A thread that waits for an Environment it has no handle to: it has      *)
(* called the module's render.                                             *)
Foreign(t) == Waits(t) /\ maker[Top(t).env] # t

(* The Environments that were the default grow with time, and a thread     *)
(* that waits for one of them holds none that came later.                  *)
WaitOrder ==
    /\ \A t \in Threads : Waits(t) => owner[Top(t).env] # t
    /\ global # None => \A t \in Threads : Foreign(t) =>
          Top(t).env <= global /\ owner[global] # t
    /\ \A t, u \in Threads : Foreign(t) /\ Foreign(u) /\ owner[Top(u).env] = t =>
          Top(u).env < Top(t).env

DeadlockInv ==
    /\ TypeOK /\ LocksMatchFrames /\ UnmadeUnused /\ OwnMethods /\ StackShape
    /\ program.reentrant \/ WaitOrder

(* Each frame after a step was there before, or is the new top.            *)
LEMMA OldFrames ==
    ASSUME TypeOK, TypeOK', NEW t \in Threads, NEW f,
           Pushed(t, f) \/ Popped(t) \/ Turned(t, f) \/ UNCHANGED stack,
           NEW u \in Threads, NEW i \in DOMAIN stack'[u]
    PROVE  \/ i \in DOMAIN stack[u] /\ stack'[u][i] = stack[u][i]
           \/ u = t /\ stack'[u][i] = f /\ (Pushed(t, f) \/ Turned(t, f))
<1>1. /\ Len(stack[u]) \in Nat /\ DOMAIN stack[u] = 1 .. Len(stack[u])
      /\ Len(stack'[u]) \in Nat /\ DOMAIN stack'[u] = 1 .. Len(stack'[u])
  BY DEF TypeOK
<1> QED
  BY <1>1, SMTT(30) DEF Pushed, Popped, Turned, Only

(* What becomes of the Environments and of the default.                    *)
LEMMA MadeGrows ==
    ASSUME TypeOK, UnmadeUnused, UNCHANGED program, NEW t \in Threads, Script(t) \/ Native(t)
    PROVE  /\ created \in Nat /\ created' \in Nat /\ created <= created'
           /\ \A e \in Envs : e <= created => maker'[e] = maker[e]
           /\ \A e \in Envs : e > created' => maker'[e] = None
           /\ \/ UNCHANGED global
              \/ global' = None
              \/ global' = created' /\ created' = created + 1 /\ global' \in Envs
<1>1. /\ created \in Nat /\ Envs \subseteq Nat
      /\ \A e \in Envs : e > created => maker[e] = None
  BY ConstantsType DEF Envs, UnmadeUnused
<1> DEFINE Result ==
           /\ created' \in Nat /\ created <= created'
           /\ \A e \in Envs : e <= created => maker'[e] = maker[e]
           /\ \A e \in Envs : e > created' => maker'[e] = None
<1>2. ASSUME NEW m \in Threads \cup {None}, Make(m)
      PROVE  Result /\ created' = created + 1 /\ created' \in Envs
  BY <1>1, <1>2, MakeType
<1>3. UNCHANGED made => Result
  <2> SUFFICES ASSUME created' = created, maker' = maker PROVE Result
    BY DEF made
  <2> QED
    BY <1>1
<1> DEFINE Chosen ==
           \/ UNCHANGED global
           \/ global' = created' /\ created' = created + 1 /\ global' \in Envs
<1>4. EnsureGlobal => Result /\ Chosen
  <2>1. ASSUME EnsureGlobal, global # None PROVE Result /\ Chosen
    <3>1. UNCHANGED made /\ UNCHANGED global
      BY <2>1 DEF EnsureGlobal, made
    <3> QED
      BY <1>3, <3>1
  <2>2. ASSUME EnsureGlobal, global = None PROVE Result /\ Chosen
    <3>1. Make(None) /\ global' = created'
      BY <2>2, EnsureGlobalType
    <3> QED
      BY <1>2, <3>1
  <2> QED
    BY <2>1, <2>2
<1> QED
  BY <1>1, <1>2, <1>3, <1>4
  DEF Script, Native, Complete, NewEnvironment, ConfigureDefault, Reset, Compile, Call,
      RenderDefault, Panic, Acquire, Update, Return, Finish, CallBack, CallLoader, Enter

(* No step uses an Environment before it is made.                          *)
LEMMA UnmadeStep ==
    ASSUME TypeOK, UnmadeUnused, [Next]_vars
    PROVE  UnmadeUnused'
<1>1. UNCHANGED program /\ Envs' = Envs /\ TypeOK'
  BY ProgramStays, TypeStep DEF Next, vars
<1>2. CASE UNCHANGED vars
  BY <1>1, <1>2 DEF vars, state, UnmadeUnused
<1>3. CASE Next
  <2>1. PICK t \in program.threads : Script(t) \/ Native(t)
    BY <1>3 DEF Next
  <2>2. t \in Threads
    BY ConstantsType
  <2>3. /\ created \in Nat /\ created' \in Nat /\ created <= created'
        /\ \A e \in Envs : e > created' => maker'[e] = None
        /\ global' # None => global' <= created'
        /\ Envs \subseteq Nat
    BY <1>1, <2>1, <2>2, MadeGrows, ConstantsType DEF UnmadeUnused, TypeOK, Envs
  <2>16. created \in Nat /\ created' \in Nat /\ created <= created' /\ Envs \subseteq Nat
    BY <2>3
  <2>17. \A n \in Envs : n <= created => n <= created'
    BY <2>16
  <2>4. ASSUME NEW u \in Threads, NEW i \in DOMAIN stack[u]
        PROVE  stack[u][i].env <= created' /\ stack[u][i].env \in Envs
    <3>1. stack[u][i].env <= created
      BY DEF UnmadeUnused
    <3>2. stack[u] \in Seq(Frame)
      BY DEF TypeOK
    <3>3. stack[u][i] \in Frame
      BY <3>2
    <3>4. stack[u][i].env \in Envs
      BY <3>3 DEF Frame
    <3> QED
      BY <2>17, <3>1, <3>4
  <2>5. ASSUME NEW f, f.env \in Envs, f.env <= created',
               Pushed(t, f) \/ Popped(t) \/ Turned(t, f) \/ UNCHANGED stack
        PROVE  \A u \in Threads : \A i \in DOMAIN stack'[u] : stack'[u][i].env <= created'
    BY <1>1, <2>2, <2>4, <2>5, OldFrames
  <2>6. ASSUME stack[t] # << >>
        PROVE  /\ Top(t) \in Frame /\ Top(t).env \in Envs
               /\ Top(t).env <= created /\ Top(t).env <= created'
    <3>1. Top(t) = stack[t][Len(stack[t])] /\ Len(stack[t]) \in DOMAIN stack[t] /\ Top(t) \in Frame
      BY <2>2, <2>6, TopIsFrame DEF TypeOK
    <3>2. Top(t).env <= created
      BY <2>2, <3>1 DEF UnmadeUnused
    <3>3. Top(t).env \in Envs
      BY <3>1 DEF Frame
    <3> QED
      BY <2>17, <3>1, <3>2, <3>3
  <2>14. \A e \in Envs : e > created' => owner[e] = None /\ callback[e] = None /\ loaderFn[e] = None
    <3>1. \A e \in Envs : e > created' => e > created
      BY <2>3
    <3> QED
      BY <3>1 DEF UnmadeUnused
  <2>7. ASSUME UNCHANGED <<owner, fns>>
        PROVE  \A e \in Envs : e > created' =>
                  owner'[e] = None /\ callback'[e] = None /\ loaderFn'[e] = None
    BY <2>7, <2>14 DEF fns
  <2>8. CASE NewEnvironment(t) \/ ConfigureDefault(t) \/ Reset(t) \/ Compile(t) \/ Panic(t)
    <3>1. UNCHANGED <<owner, fns, stack>>
      BY <2>8 DEF NewEnvironment, ConfigureDefault, Reset, Compile, Panic
    <3>2. UNCHANGED stack
      BY <3>1
    <3>3. \A u \in Threads : \A i \in DOMAIN stack'[u] : stack'[u][i].env <= created'
      BY <2>4, <3>2
    <3> QED
      BY <1>1, <2>3, <2>7, <3>1, <3>3 DEF UnmadeUnused
  <2>9. ASSUME NEW e \in Envs, NEW op \in Ops, Call(t, e, op)
        PROVE  UnmadeUnused'
    <3>1. Waiting(op, e).env = e
      BY DEF Waiting
    <3>2. e <= created
      BY <2>2, <2>3, <2>9, ConstantsType DEF Call, UnmadeUnused
    <3>3. e <= created' /\ Pushed(t, Waiting(op, e))
      BY <1>1, <2>2, <2>3, <2>9, <3>2, CallShape
    <3> QED
      BY <1>1, <2>3, <2>5, <2>7, <2>9, <3>1, <3>3 DEF Call, UnmadeUnused
  <2>10. CASE RenderDefault(t)
    <3>1. Waiting("render", global').env = global' /\ global' \in Envs
      BY <1>1, <2>10, EnsureGlobalType DEF RenderDefault, Waiting
    <3>2. global' <= created' /\ Pushed(t, Waiting("render", global'))
      BY <1>1, <2>2, <2>3, <2>10, <3>1, ConstantsType, RenderDefaultShape
    <3> QED
      BY <1>1, <2>3, <2>5, <2>7, <2>10, <3>1, <3>2 DEF RenderDefault, UnmadeUnused
  <2>11. CASE Acquire(t)
    <3>1. stack[t] # << >> /\ owner' = [owner EXCEPT ![Top(t).env] = t] /\ UNCHANGED fns
      BY <2>11 DEF Acquire, CanLock, At
    <3>2. [Top(t) EXCEPT !.at = "held"].env = Top(t).env /\ Top(t).env <= created'
      BY <2>3, <2>6, <3>1 DEF Frame
    <3>3. \A e \in Envs : e > created' => owner'[e] = None
      BY <2>14, <3>1, <3>2, <2>6, <2>3 DEF TypeOK
    <3>4. \A e \in Envs : e > created' => callback'[e] = None /\ loaderFn'[e] = None
      BY <2>14, <3>1 DEF fns
    <3>5. Turned(t, [Top(t) EXCEPT !.at = "held"])
      BY <1>1, <2>2, <2>11, AcquireShape
    <3> QED
      BY <1>1, <2>3, <2>5, <2>6, <3>1, <3>2, <3>3, <3>4, <3>5 DEF UnmadeUnused
  <2>12. CASE Update(t)
    <3>1. stack[t] # << >> /\ UNCHANGED owner /\ Popped(t)
      BY <1>1, <2>2, <2>12, PopsShape DEF Update, CanLock, At
    <3>2. Top(t).env <= created' /\ Top(t).env \in Envs
      BY <2>3, <2>6, <3>1
    <3>3. \A e \in Envs : e > created' => callback'[e] = None /\ loaderFn'[e] = None
      BY <2>3, <2>12, <2>14, <3>2 DEF Update, TypeOK
    <3>4. \A e \in Envs : e > created' => owner'[e] = None
      BY <2>14, <3>1
    <3> QED
      BY <1>1, <2>3, <2>5, <3>1, <3>2, <3>3, <3>4 DEF UnmadeUnused
  <2>13. CASE Return(t) \/ Finish(t)
    <3>1. stack[t] # << >> /\ UNCHANGED fns /\ Popped(t)
      BY <1>1, <2>2, <2>13, PopsShape DEF Return, Finish, At
    <3>2. Top(t).env <= created' /\ Top(t).env \in Envs
      BY <2>3, <2>6, <3>1
    <3>3. \A e \in Envs : e > created' => owner'[e] = None
      BY <2>13, <2>14 DEF Return, Finish, TypeOK
    <3>4. \A e \in Envs : e > created' => callback'[e] = None /\ loaderFn'[e] = None
      BY <2>14, <3>1 DEF fns
    <3> QED
      BY <1>1, <2>3, <2>5, <3>1, <3>2, <3>3, <3>4 DEF UnmadeUnused
  <2>15. CASE CallBack(t) \/ CallLoader(t)
    <3>1. PICK fn \in Threads : Enter(t, fn) /\ Pushed(t, [Top(t) EXCEPT !.at = "js", !.fn = fn])
      BY <1>1, <2>2, <2>15, CallsBack
    <3>2. stack[t] # << >>
      BY <1>1, <2>2, <2>15, CallsBack
    <3>3. /\ [Top(t) EXCEPT !.at = "js", !.fn = fn].env = Top(t).env
          /\ Top(t).env <= created' /\ Top(t).env \in Envs
      BY <2>3, <2>6, <3>2 DEF Frame
    <3> QED
      BY <1>1, <2>3, <2>5, <2>7, <3>1, <3>3 DEF Enter, UnmadeUnused
  <2> QED
    BY <2>1, <2>8, <2>9, <2>10, <2>11, <2>12, <2>13, <2>15 DEF Script, Native, Complete
<1> QED
  BY <1>2, <1>3

(* OwnMethods of one frame, and of a maker given as an argument.           *)
Owned(made_by, u, f) ==
    /\ f.at # "js" /\ f.op # "render" => made_by[f.env] = u
    /\ f.at = "js" => f.fn = made_by[f.env]

(* No step gives a thread a method of an Environment it has not made.      *)
LEMMA OwnStep ==
    ASSUME TypeOK, UnmadeUnused, OwnMethods, [Next]_vars
    PROVE  OwnMethods'
<1>1. UNCHANGED program /\ Envs' = Envs /\ TypeOK'
  BY ProgramStays, TypeStep DEF Next, vars
<1>2. CASE UNCHANGED vars
  BY <1>1, <1>2 DEF vars, state, OwnMethods
<1>3. CASE Next
  <2>1. PICK t \in program.threads : Script(t) \/ Native(t)
    BY <1>3 DEF Next
  <2>2. t \in Threads
    BY ConstantsType
  <2>3. /\ created \in Nat /\ Envs \subseteq Nat
        /\ \A e \in Envs : e <= created => maker'[e] = maker[e]
    BY <1>1, <2>1, <2>2, MadeGrows, ConstantsType DEF Envs
  <2> DEFINE Fns(calls, loads) ==
                \A e \in Envs : calls[e] \in {None, maker'[e]} /\ loads[e] \in {None, maker'[e]}
  <2>4. Fns(callback, loaderFn)
    <3> SUFFICES ASSUME NEW e \in Envs
                 PROVE  callback[e] \in {None, maker'[e]} /\ loaderFn[e] \in {None, maker'[e]}
      OBVIOUS
    <3>1. CASE e <= created
      BY <2>3, <3>1 DEF OwnMethods
    <3>2. CASE e > created
      BY <3>2 DEF UnmadeUnused
    <3> QED
      BY <2>3, <3>1, <3>2
  <2>5. ASSUME NEW u \in Threads, NEW i \in DOMAIN stack[u]
        PROVE  Owned(maker', u, stack[u][i])
    <3>1. Owned(maker, u, stack[u][i])
      BY DEF OwnMethods, Owned
    <3>2. stack[u][i].env <= created
      BY DEF UnmadeUnused
    <3>3. stack[u] \in Seq(Frame)
      BY DEF TypeOK
    <3>4. stack[u][i] \in Frame
      BY <3>3
    <3>5. maker'[stack[u][i].env] = maker[stack[u][i].env]
      BY <2>3, <3>2, <3>4 DEF Frame
    <3> QED
      BY <3>1, <3>5 DEF Owned
  <2> DEFINE Frames == \A u \in Threads : \A i \in DOMAIN stack'[u] : Owned(maker', u, stack'[u][i])
  <2>6. OwnMethods' <=> Fns(callback', loaderFn') /\ Frames
    BY <1>1, Zenon DEF OwnMethods, Owned
  <2>7. ASSUME NEW f, \/ Pushed(t, f) /\ Owned(maker', t, f)
                      \/ Turned(t, f) /\ Owned(maker', t, f)
                      \/ Popped(t)
                      \/ UNCHANGED stack
        PROVE  Frames
    <3> SUFFICES ASSUME NEW u \in Threads, NEW i \in DOMAIN stack'[u]
                 PROVE  Owned(maker', u, stack'[u][i])
      OBVIOUS
    <3>1. \/ i \in DOMAIN stack[u] /\ stack'[u][i] = stack[u][i]
          \/ u = t /\ stack'[u][i] = f /\ (Pushed(t, f) \/ Turned(t, f))
      BY <1>1, <2>2, <2>7, OldFrames
    <3>2. CASE i \in DOMAIN stack[u] /\ stack'[u][i] = stack[u][i]
      BY <2>5, <3>2
    <3>3. CASE u = t /\ stack'[u][i] = f /\ Owned(maker', t, f)
      BY <3>3
    <3>4. Popped(t) => i \in DOMAIN stack[u] /\ stack'[u][i] = stack[u][i]
      <4>1. /\ Len(stack[u]) \in Nat /\ DOMAIN stack[u] = 1 .. Len(stack[u])
            /\ Len(stack'[u]) \in Nat /\ DOMAIN stack'[u] = 1 .. Len(stack'[u])
        BY <1>1 DEF TypeOK
      <4> QED
        BY <4>1 DEF Popped, Only
    <3> QED
      BY <2>7, <3>1, <3>2, <3>3, <3>4
  <2>8. ASSUME UNCHANGED fns
        PROVE  Fns(callback', loaderFn')
    BY <2>4, <2>8 DEF fns
  <2>9. CASE NewEnvironment(t) \/ ConfigureDefault(t) \/ Reset(t) \/ Compile(t) \/ Panic(t)
    <3>1. UNCHANGED <<fns, stack>>
      BY <2>9 DEF NewEnvironment, ConfigureDefault, Reset, Compile, Panic
    <3> QED
      BY <2>6, <2>7, <2>8, <3>1
  <2>10. ASSUME NEW e \in Envs, NEW op \in Ops, Call(t, e, op)
         PROVE  OwnMethods'
    <3>1. UNCHANGED fns /\ Pushed(t, Waiting(op, e)) /\ maker[e] = t
      BY <1>1, <2>2, <2>10, CallShape DEF Call
    <3>2. maker'[e] = maker[e]
      BY <2>2, <2>3, <3>1, ConstantsType DEF UnmadeUnused
    <3>3. Owned(maker', t, Waiting(op, e))
      BY <3>1, <3>2 DEF Owned, Waiting
    <3> QED
      BY <2>6, <2>7, <2>8, <3>1, <3>3
  <2>11. CASE RenderDefault(t)
    <3>1. UNCHANGED fns /\ Pushed(t, Waiting("render", global'))
      BY <1>1, <2>2, <2>11, RenderDefaultShape DEF RenderDefault
    <3>2. Owned(maker', t, Waiting("render", global'))
      BY DEF Owned, Waiting
    <3> QED
      BY <2>6, <2>7, <2>8, <3>1, <3>2
  <2>12. ASSUME stack[t] # << >>
         PROVE  Top(t) \in Frame /\ Top(t).env \in Envs /\ Owned(maker', t, Top(t))
    <3>1. Top(t) = stack[t][Len(stack[t])] /\ Len(stack[t]) \in DOMAIN stack[t] /\ Top(t) \in Frame
      BY <2>2, <2>12, TopIsFrame DEF TypeOK
    <3> QED
      BY <2>2, <2>5, <3>1 DEF Frame
  <2>13. CASE Acquire(t)
    <3>1. stack[t] # << >> /\ Top(t).at = "wait" /\ UNCHANGED fns
      BY <2>13 DEF Acquire, CanLock, At
    <3>2. Owned(maker', t, [Top(t) EXCEPT !.at = "held"])
      BY <2>12, <3>1 DEF Owned, Frame
    <3>3. Turned(t, [Top(t) EXCEPT !.at = "held"])
      BY <1>1, <2>2, <2>13, AcquireShape
    <3> QED
      BY <2>6, <2>7, <2>8, <3>1, <3>2, <3>3
  <2>14. CASE Update(t)
    <3>1. stack[t] # << >> /\ Top(t).at = "wait" /\ Popped(t) /\ maker' = maker
      BY <1>1, <2>2, <2>14, PopsShape DEF Update, CanLock, At, made
    <3>2. \/ UNCHANGED <<callback, loaderFn>>
          \/ /\ callback' = [callback EXCEPT ![Top(t).env] = None] /\ UNCHANGED loaderFn
          \/ /\ loaderFn' = [loaderFn EXCEPT ![Top(t).env] = None] /\ UNCHANGED callback
          \/ /\ callback' = [callback EXCEPT ![Top(t).env] = t] /\ UNCHANGED loaderFn
             /\ Top(t).op # "render"
          \/ /\ loaderFn' = [loaderFn EXCEPT ![Top(t).env] = t] /\ UNCHANGED callback
             /\ Top(t).op # "render"
      BY <2>14 DEF Update
    <3>3. Top(t).op # "render" => maker'[Top(t).env] = t
      BY <2>12, <3>1 DEF Owned
    <3>4. Fns(callback', loaderFn')
      BY <2>4, <2>12, <3>1, <3>2, <3>3 DEF TypeOK
    <3> QED
      BY <2>6, <2>7, <3>1, <3>4
  <2>15. CASE Return(t) \/ Finish(t)
    <3>1. Popped(t) /\ UNCHANGED fns
      BY <1>1, <2>2, <2>15, PopsShape DEF Return, Finish
    <3> QED
      BY <2>6, <2>7, <2>8, <3>1
  <2>16. CASE CallBack(t) \/ CallLoader(t)
    <3>1. PICK fn \in Threads :
             /\ fn = callback[Top(t).env] \/ fn = loaderFn[Top(t).env]
             /\ Enter(t, fn) /\ Pushed(t, [Top(t) EXCEPT !.at = "js", !.fn = fn])
      BY <1>1, <2>2, <2>16, CallsBack
    <3>2. stack[t] # << >> /\ Top(t).env \in Envs /\ Top(t) \in Frame
      BY <1>1, <2>2, <2>12, <2>16, CallsBack
    <3>3. fn = maker'[Top(t).env]
      BY <2>4, <3>1, <3>2, ConstantsType
    <3>4. Owned(maker', t, [Top(t) EXCEPT !.at = "js", !.fn = fn])
      BY <3>2, <3>3 DEF Owned, Frame
    <3>5. UNCHANGED fns
      BY <3>1 DEF Enter
    <3> QED
      BY <2>6, <2>7, <2>8, <3>1, <3>4, <3>5
  <2> QED
    BY <2>1, <2>9, <2>10, <2>11, <2>13, <2>14, <2>15, <2>16 DEF Script, Native, Complete
<1> QED
  BY <1>2, <1>3

(* StackShape of two neighbours.                                           *)
Above(u, g, f) ==
    /\ g.at # "wait"
    /\ g.at = "js" => g.fn = u
    /\ g.at = "held" => f.at = "js" /\ f.env = g.env

(* What has to be said of the frame below a new top, for the shape to      *)
(* stay.                                                                   *)
LEMMA ShapeStays ==
    ASSUME TypeOK, TypeOK', StackShape, NEW t \in Threads, NEW f,
           \/ Pushed(t, f) /\ (stack[t] # << >> => Above(t, Top(t), f))
           \/ Popped(t)
           \/ Turned(t, f) /\ stack[t] # << >> /\ Top(t).at = "wait"
           \/ UNCHANGED stack
    PROVE  StackShape'
<1> SUFFICES ASSUME NEW u \in Threads, NEW i \in 1 .. Len(stack'[u]) - 1
             PROVE  Above(u, stack'[u][i], stack'[u][i + 1])
  BY DEF StackShape, Above
<1>1. \A v \in Threads : Len(stack[v]) \in Nat /\ Len(stack'[v]) \in Nat
  BY DEF TypeOK
<1>2. i \in 1 .. Len(stack[u]) - 1 => Above(u, stack[u][i], stack[u][i + 1])
  BY DEF StackShape, Above
<1>3. CASE Pushed(t, f) /\ (stack[t] # << >> => Above(t, Top(t), f))
  <2>1. CASE u = t /\ i = Len(stack[t])
    <3>1. stack[t] # << >>
      BY <1>1, <2>1
    <3>2. Top(t) = stack[t][i]
      BY <2>1, <3>1, TopIsFrame
    <3>3. stack'[u][i] = Top(t) /\ stack'[u][i + 1] = f
      BY <1>1, <1>3, <2>1, <3>2 DEF Pushed
    <3> QED
      BY <1>3, <2>1, <3>1, <3>3
  <2>2. CASE u # t \/ i # Len(stack[t])
    <3>1. i \in 1 .. Len(stack[u]) - 1
      BY <1>1, <1>3, <2>2 DEF Pushed, Only
    <3>2. stack'[u][i] = stack[u][i] /\ stack'[u][i + 1] = stack[u][i + 1]
      BY <1>1, <1>3, <3>1 DEF Pushed, Only
    <3> QED
      BY <1>2, <3>1, <3>2
  <2> QED
    BY <2>1, <2>2
<1>4. CASE Popped(t)
  <2>1. i \in 1 .. Len(stack[u]) - 1
    BY <1>1, <1>4 DEF Popped, Only
  <2>2. stack'[u][i] = stack[u][i] /\ stack'[u][i + 1] = stack[u][i + 1]
    BY <1>1, <1>4, <2>1 DEF Popped, Only
  <2> QED
    BY <1>2, <2>1, <2>2
<1>5. CASE Turned(t, f) /\ stack[t] # << >> /\ Top(t).at = "wait"
  <2>1. i \in 1 .. Len(stack[u]) - 1 /\ stack'[u][i] = stack[u][i]
    BY <1>1, <1>5 DEF Turned, Only
  <2>2. CASE u = t /\ i + 1 = Len(stack[t])
    <3>1. Top(t) = stack[t][i + 1]
      BY <1>5, <2>2, TopIsFrame
    <3>2. stack[t][i].at # "held"
      BY <1>2, <1>5, <2>1, <2>2, <3>1 DEF Above
    <3> QED
      BY <1>2, <2>1, <2>2, <3>2 DEF Above
  <2>3. CASE u # t \/ i + 1 # Len(stack[t])
    <3>1. stack'[u][i + 1] = stack[u][i + 1]
      BY <1>1, <1>5, <2>1, <2>3 DEF Turned, Only
    <3> QED
      BY <1>2, <2>1, <3>1
  <2> QED
    BY <2>2, <2>3
<1>6. CASE UNCHANGED stack
  BY <1>2, <1>6
<1> QED
  BY <1>3, <1>4, <1>5, <1>6

(* Every step keeps the shape of the stacks.                               *)
LEMMA ShapeStep ==
    ASSUME TypeOK, StackShape, [Next]_vars
    PROVE  StackShape'
<1>1. UNCHANGED program /\ TypeOK'
  BY TypeStep DEF Next, vars
<1>2. CASE UNCHANGED vars
  BY <1>2 DEF vars, state, StackShape
<1>3. CASE Next
  <2>1. PICK t \in program.threads : Script(t) \/ Native(t)
    BY <1>3 DEF Next
  <2>2. t \in Threads
    BY ConstantsType
  <2>3. ASSUME RunsJs(t), NEW f
        PROVE  stack[t] # << >> => Above(t, Top(t), f)
    BY <2>3 DEF RunsJs, At, Above
  <2>4. CASE NewEnvironment(t) \/ ConfigureDefault(t) \/ Reset(t) \/ Compile(t) \/ Panic(t)
    <3>1. UNCHANGED stack
      BY <2>4 DEF NewEnvironment, ConfigureDefault, Reset, Compile, Panic
    <3> QED
      BY <1>1, <2>2, <3>1, ShapeStays
  <2>5. ASSUME NEW e \in Envs, NEW op \in Ops, Call(t, e, op)
        PROVE  StackShape'
    <3>1. RunsJs(t) /\ Pushed(t, Waiting(op, e))
      BY <1>1, <2>2, <2>5, CallShape DEF Call
    <3> QED
      BY <1>1, <2>2, <2>3, <3>1, ShapeStays
  <2>6. CASE RenderDefault(t)
    <3>1. RunsJs(t) /\ Pushed(t, Waiting("render", global'))
      BY <1>1, <2>2, <2>6, RenderDefaultShape DEF RenderDefault
    <3> QED
      BY <1>1, <2>2, <2>3, <3>1, ShapeStays
  <2>7. CASE Acquire(t)
    <3>1. stack[t] # << >> /\ Top(t).at = "wait"
      BY <2>7 DEF Acquire, CanLock, At
    <3>2. Turned(t, [Top(t) EXCEPT !.at = "held"])
      BY <1>1, <2>2, <2>7, AcquireShape
    <3> QED
      BY <1>1, <2>2, <3>1, <3>2, ShapeStays
  <2>8. CASE Update(t) \/ Return(t) \/ Finish(t)
    BY <1>1, <2>2, <2>8, PopsShape, ShapeStays
  <2>9. CASE CallBack(t) \/ CallLoader(t)
    <3>1. PICK fn \in Threads : Pushed(t, [Top(t) EXCEPT !.at = "js", !.fn = fn])
      BY <1>1, <2>2, <2>9, CallsBack
    <3>2. stack[t] # << >> /\ Top(t).at = "held" /\ Top(t) \in Frame
      BY <1>1, <2>2, <2>9, CallsBack, TopIsFrame
    <3>3. Above(t, Top(t), [Top(t) EXCEPT !.at = "js", !.fn = fn])
      BY <3>2 DEF Above, Frame
    <3> QED
      BY <1>1, <2>2, <3>1, <3>3, ShapeStays
  <2> QED
    BY <2>1, <2>4, <2>5, <2>6, <2>7, <2>8, <2>9 DEF Script, Native, Complete
<1> QED
  BY <1>2, <1>3

(* What was pushed is the top.                                             *)
LEMMA PushedTop ==
    ASSUME NEW t \in Threads, NEW f, Pushed(t, f)
    PROVE  Top(t)' = f
BY DEF Pushed, Top, Last

(* Every step keeps the order of those that wait for default Environments. *)
LEMMA WaitStep ==
    ASSUME TypeOK, UnmadeUnused, StackShape, WaitOrder, ~program.reentrant, [Next]_vars
    PROVE  WaitOrder'
<1>1. UNCHANGED program /\ Envs' = Envs /\ TypeOK'
  BY ProgramStays, TypeStep DEF Next, vars
<1>2. CASE UNCHANGED vars
  BY <1>1, <1>2 DEF vars, state, WaitOrder, Foreign, Waits, Top
<1>3. CASE Next
  <2>1. PICK t \in program.threads : Script(t) \/ Native(t)
    BY <1>3 DEF Next
  <2>2. t \in Threads
    BY ConstantsType
  <2>3. /\ created \in Nat /\ created' \in Nat /\ Envs \subseteq Nat
        /\ \A e \in Envs : e <= created => maker'[e] = maker[e]
        /\ \/ UNCHANGED global
           \/ global' = None
           \/ global' = created + 1 /\ global' \in Envs
    BY <1>1, <2>1, <2>2, MadeGrows, ConstantsType DEF Envs
  <2>4. ASSUME NEW u \in Threads, Waits(u)
        PROVE  Top(u).env \in Envs /\ Top(u).env <= created
    <3>1. /\ Top(u) = stack[u][Len(stack[u])] /\ Len(stack[u]) \in DOMAIN stack[u]
          /\ Top(u) \in Frame
      BY <2>4, TopIsFrame DEF Waits, TypeOK
    <3> QED
      BY <3>1 DEF Frame, UnmadeUnused
  (* The other threads are left as they are. *)
  <2>5. ASSUME Only(t), NEW u \in Threads \ {t}
        PROVE  /\ Waits(u)' <=> Waits(u)
               /\ Top(u)' = Top(u)
               /\ Foreign(u)' <=> Foreign(u)
    <3>1. stack'[u] = stack[u]
      BY <2>5 DEF Only
    <3>2. (Waits(u)' <=> Waits(u)) /\ Top(u)' = Top(u)
      BY <3>1 DEF Waits, Top
    <3>3. Waits(u) => maker'[Top(u).env] = maker[Top(u).env]
      BY <2>3, <2>4
    <3> QED
      BY <3>2, <3>3 DEF Foreign
  <2> DEFINE Quiet == \A e \in Envs : owner'[e] \in {owner[e], None, t}
  (* It is left to show that t does not wait for what it holds, and waits *)
  (* for an Environment it has no handle to only if that is the default.   *)
  <2>6. ASSUME Only(t), Quiet,
               Waits(t)' => owner'[Top(t)'.env] # t,
               Foreign(t)' => global' # None /\ Top(t)'.env = global'
        PROVE  WaitOrder'
    <3>1. ASSUME NEW u \in Threads, Waits(u)'
          PROVE  owner'[Top(u)'.env] # u
      <4>1. CASE u = t
        BY <2>6, <3>1, <4>1
      <4>2. CASE u # t
        <5>1. Waits(u) /\ Top(u)' = Top(u) /\ Top(u).env \in Envs
          BY <2>4, <2>5, <2>6, <3>1, <4>2
        <5>2. owner[Top(u).env] # u
          BY <5>1 DEF WaitOrder
        <5> QED
          BY <2>6, <4>2, <5>1, <5>2, ConstantsType
      <4> QED
        BY <4>1, <4>2
    <3>2. ASSUME NEW u \in Threads \ {t}, Foreign(u)'
          PROVE  /\ Foreign(u) /\ Top(u)' = Top(u)
                 /\ Top(u).env \in Envs /\ Top(u).env <= created
      <4>1. Foreign(u) /\ Top(u)' = Top(u)
        BY <2>5, <2>6, <3>2
      <4> QED
        BY <2>4, <4>1 DEF Foreign
    <3>3. ASSUME NEW u \in Threads, global' # None, Foreign(u)'
          PROVE  Top(u)'.env <= global' /\ owner'[global'] # u
      <4>1. CASE u = t
        <5>1. Waits(t)' /\ Top(t)'.env = global' /\ global' \in Nat
          BY <1>1, <2>3, <2>6, <3>3, <4>1 DEF Foreign, TypeOK
        <5> QED
          BY <2>6, <4>1, <5>1
      <4>2. CASE u # t /\ UNCHANGED global
        <5>1. Foreign(u) /\ Top(u)' = Top(u)
          BY <3>2, <3>3, <4>2
        <5>2. Top(u).env <= global /\ owner[global] # u
          BY <3>3, <4>2, <5>1 DEF WaitOrder
        <5>3. global \in Envs
          BY <3>3, <4>2 DEF TypeOK
        <5> QED
          BY <2>6, <3>3, <4>2, <5>1, <5>2, <5>3, ConstantsType
      <4>3. CASE u # t /\ global' = created + 1 /\ global' \in Envs
        <5>1. Top(u)' = Top(u) /\ Top(u).env \in Envs /\ Top(u).env <= created
          BY <3>2, <3>3, <4>3
        <5>2. owner[global'] = None
          BY <2>3, <4>3 DEF UnmadeUnused
        <5>3. owner'[global'] # u
          BY <2>6, <3>3, <4>3, <5>2, ConstantsType
        <5>4. PICK e \in Envs : e = Top(u).env
          BY <5>1
        <5>5. e <= created + 1
          BY <2>3, <5>1, <5>4
        <5> QED
          BY <4>3, <5>1, <5>3, <5>4, <5>5
      <4> QED
        BY <2>3, <3>3, <4>1, <4>2, <4>3
    <3>4. ASSUME NEW u \in Threads, NEW v \in Threads,
                 Foreign(u)', Foreign(v)', owner'[Top(v)'.env] = u
          PROVE  Top(v)'.env < Top(u)'.env
      <4>1. CASE v = t
        BY <2>6, <3>3, <3>4, <4>1
      <4>2. CASE v # t /\ u = t
        <5>1. global' # None /\ Top(t)'.env = global' /\ global' \in Nat
          BY <1>1, <2>3, <2>6, <3>4, <4>2 DEF TypeOK
        <5>2. Top(v)'.env <= global' /\ owner'[global'] # u
          BY <3>3, <3>4, <5>1
        <5>3. Top(v)'.env \in Nat /\ Top(v)'.env # global'
          BY <2>3, <3>2, <3>4, <4>2, <5>2
        <5> QED
          BY <4>2, <5>1, <5>2, <5>3
      <4>3. CASE v # t /\ u # t
        <5>1. /\ Foreign(u) /\ Top(u)' = Top(u) /\ Foreign(v) /\ Top(v)' = Top(v)
              /\ Top(v).env \in Envs
          BY <3>2, <3>4, <4>3
        <5>2. owner[Top(v).env] = u
          BY <2>6, <3>4, <4>3, <5>1, ConstantsType
        <5>3. Top(v).env < Top(u).env
          BY <5>1, <5>2 DEF WaitOrder
        <5> QED
          BY <5>1, <5>3
      <4> QED
        BY <4>1, <4>2, <4>3
    <3> QED
      BY <3>1, <3>3, <3>4 DEF WaitOrder
  <2>7. ASSUME UNCHANGED stack, UNCHANGED owner, ~Waits(t)
        PROVE  WaitOrder'
    <3>1. Only(t) /\ Quiet
      BY <2>7 DEF Only
    <3>2. ~Waits(t)'
      BY <2>7 DEF Waits, Top
    <3> QED
      BY <2>6, <3>1, <3>2 DEF Foreign
  <2>8. RunsJs(t) => ~Waits(t)
    BY DEF RunsJs, At, Waits
  <2>9. CASE NewEnvironment(t) \/ ConfigureDefault(t) \/ Reset(t) \/ Compile(t)
    <3>1. UNCHANGED stack /\ UNCHANGED owner /\ RunsJs(t)
      BY <2>9 DEF NewEnvironment, ConfigureDefault, Reset, Compile
    <3> QED
      BY <2>7, <2>8, <3>1
  <2>10. CASE Panic(t)
    <3>1. UNCHANGED <<made, global, owner, stack>>
      BY <2>10 DEF Panic
    <3> QED
      BY <1>1, <3>1 DEF made, WaitOrder, Foreign, Waits, Top
  <2>11. ASSUME NEW e \in Envs, NEW op \in Ops, Call(t, e, op)
         PROVE  WaitOrder'
    <3>1. Pushed(t, Waiting(op, e)) /\ maker[e] = t /\ owner[e] # t /\ UNCHANGED owner
      BY <1>1, <2>2, <2>11, CallShape DEF Call
    <3>2. e <= created
      BY <2>2, <2>3, <3>1, ConstantsType DEF UnmadeUnused
    <3>3. Top(t)' = Waiting(op, e)
      BY <2>2, <3>1, PushedTop
    <3>4. Top(t)'.env = e /\ maker'[e] = t
      BY <2>3, <3>1, <3>2, <3>3 DEF Waiting
    <3>5. Only(t) /\ Quiet
      BY <3>1 DEF Pushed
    <3> QED
      BY <2>6, <3>1, <3>4, <3>5 DEF Foreign
  <2>12. CASE Acquire(t)
    <3>1. /\ stack[t] # << >> /\ owner' = [owner EXCEPT ![Top(t).env] = t]
      BY <2>12 DEF Acquire, CanLock, At
    <3>2. Turned(t, [Top(t) EXCEPT !.at = "held"])
      BY <1>1, <2>2, <2>12, AcquireShape
    <3>3. Top(t) \in Frame /\ stack'[t][Len(stack'[t])] = [Top(t) EXCEPT !.at = "held"]
      BY <2>2, <3>1, <3>2, TopIsFrame DEF Turned
    <3>4. ~Waits(t)'
      BY <3>3 DEF Waits, Top, Last, Frame
    <3>5. Only(t) /\ Quiet
      BY <3>1, <3>2 DEF Turned, TypeOK
    <3> QED
      BY <2>6, <3>4, <3>5 DEF Foreign
  <2>13. CASE Update(t) \/ Return(t) \/ Finish(t)
    <3>1. stack[t] # << >> /\ Popped(t)
      BY <1>1, <2>2, <2>13, PopsShape DEF Update, Return, Finish, CanLock, At
    <3>2. ASSUME stack'[t] # << >>
          PROVE  stack'[t][Len(stack'[t])].at # "wait"
      <4>1. Len(stack[t]) \in Nat /\ Len(stack'[t]) \in Nat \ {0}
        <5>1. stack[t] \in Seq(Frame) /\ stack'[t] \in Seq(Frame')
          BY <1>1, <2>2 DEF TypeOK
        <5> QED
          BY <3>2, <5>1
      <4>2. Len(stack'[t]) = Len(stack[t]) - 1
        BY <3>1 DEF Popped
      <4>3. PICK n : n = Len(stack[t]) - 1
        OBVIOUS
      <4>4. n \in 1 .. Len(stack[t]) - 1
        <5>1. n \in Nat \ {0}
          BY <4>1, <4>2, <4>3
        <5>2. Len(stack[t]) - 1 = n
          BY <4>3
        <5> QED
          BY <5>1, <5>2
      <4>5. stack[t][n].at # "wait" /\ stack'[t][n] = stack[t][n]
        BY <2>2, <3>1, <4>4 DEF StackShape, Popped
      <4> QED
        BY <4>2, <4>3, <4>5
    <3>3. ~Waits(t)'
      BY <3>2 DEF Waits, Top, Last
    <3>4. Only(t) /\ Quiet
      BY <2>13, <3>1 DEF Popped, Update, Return, Finish, TypeOK
    <3> QED
      BY <2>6, <3>3, <3>4 DEF Foreign
  <2>14. CASE CallBack(t) \/ CallLoader(t)
    <3>1. PICK fn \in Threads : Enter(t, fn) /\ Pushed(t, [Top(t) EXCEPT !.at = "js", !.fn = fn])
      BY <1>1, <2>2, <2>14, CallsBack
    <3>2. Top(t) \in Frame
      BY <1>1, <2>2, <2>14, CallsBack, TopIsFrame
    <3>3. stack'[t][Len(stack'[t])].at = "js"
      <4>1. [Top(t) EXCEPT !.at = "js", !.fn = fn].at = "js"
        BY <3>2 DEF Frame
      <4> QED
        BY <3>1, <4>1 DEF Pushed
    <3>4. ~Waits(t)'
      BY <3>3 DEF Waits, Top, Last
    <3>5. Only(t) /\ Quiet
      BY <3>1 DEF Enter, Pushed
    <3> QED
      BY <2>6, <3>4, <3>5 DEF Foreign
  <2>15. CASE RenderDefault(t)
    <3>1. /\ Pushed(t, Waiting("render", global')) /\ owner[global'] # t /\ UNCHANGED owner
          /\ global' \in Envs
      BY <1>1, <2>2, <2>15, RenderDefaultShape, EnsureGlobalType DEF RenderDefault
    <3>2. Top(t)' = Waiting("render", global')
      BY <2>2, <3>1, PushedTop
    <3>3. Top(t)'.env = global'
      BY <3>2 DEF Waiting
    <3>4. Only(t) /\ Quiet
      BY <3>1 DEF Pushed
    <3> QED
      BY <2>6, <3>1, <3>3, <3>4, ConstantsType
  <2> QED
    BY <2>1, <2>9, <2>10, <2>11, <2>12, <2>13, <2>14, <2>15 DEF Script, Native, Complete
<1> QED
  BY <1>2, <1>3

(* The order excludes a circle: each member of a blocked group would wait  *)
(* for an Environment that another member holds, and which was made before *)
(* the one that member waits for.                                          *)
LEMMA NoCircle ==
    ASSUME DeadlockInv
    PROVE  NoDeadlock
<1> SUFFICES ASSUME ~program.reentrant,
                    NEW group \in SUBSET Threads, group # {},
                    \A t \in group : Blocked(t, group)
             PROVE  FALSE
  BY DEF NoDeadlock
<1> USE DEF DeadlockInv
(* What a member waits for is held by another, below a call back into it.  *)
<1>1. ASSUME NEW t \in group
      PROVE  /\ Waits(t) /\ Top(t).env \in Envs /\ owner[Top(t).env] \in group
             /\ maker[Top(t).env] = owner[Top(t).env]
  <2>1. Blocked(t, group) /\ t \in Threads
    OBVIOUS
  <2>2. Waits(t) /\ owner[Top(t).env] \in group
    BY <2>1 DEF Blocked, At, Waits
  <2>3. Top(t).env \in Envs
    BY <2>1, <2>2, TopIsFrame DEF Waits, Frame
  <2>4. PICK u \in group : u = owner[Top(t).env]
    BY <2>2
  <2>5. PICK i : Holds(u, Top(t).env, i)
    BY <2>3, <2>4, LocksPointwise DEF TypeOK, StacksOK
  <2>6. u \in Threads /\ Blocked(u, group)
    OBVIOUS
  <2>7. Len(stack[u]) \in Nat /\ stack[u][Len(stack[u])].at = "wait"
    BY <2>6, TopIsFrame DEF Blocked, At
  <2>8. i \in 1 .. Len(stack[u]) - 1
    BY <2>5, <2>7 DEF Holds
  <2>9. stack[u][i + 1].at = "js" /\ stack[u][i + 1].env = Top(t).env
    BY <2>5, <2>6, <2>8 DEF StackShape, Holds
  <2>10. i + 1 \in 1 .. Len(stack[u]) - 1
    BY <2>7, <2>8, <2>9
  <2>11. stack[u][i + 1].fn = u
    BY <2>6, <2>9, <2>10 DEF StackShape
  <2>12. i + 1 \in DOMAIN stack[u]
    <3>1. stack[u] \in Seq(Frame)
      BY <2>6 DEF TypeOK
    <3> QED
      BY <2>10, <3>1
  <2>13. stack[u][i + 1].fn = maker[Top(t).env]
    BY <2>6, <2>9, <2>12 DEF OwnMethods
  <2> QED
    BY <2>2, <2>3, <2>4, <2>11, <2>13
(* So every member waits for the default Environment of some time, and the *)
(* one that holds it waits for a later one.                                *)
<1>2. \A t \in group : Foreign(t)
  BY <1>1 DEF Foreign, WaitOrder
<1>3. \A t \in group : Top(t).env < Top(owner[Top(t).env]).env
  BY <1>1, <1>2 DEF WaitOrder
<1> DEFINE Left(t) == program.maxEnvs - Top(t).env
<1>4. \A t \in group : /\ Left(t) \in Nat /\ owner[Top(t).env] \in group
                        /\ Left(owner[Top(t).env]) < Left(t)
  <2>1. \A t \in group : /\ Top(t).env \in Nat /\ Top(t).env <= program.maxEnvs
                          /\ owner[Top(t).env] \in group
    BY <1>1, ConstantsType DEF Envs
  <2>2. program.maxEnvs \in Nat
    BY ConstantsType
  <2> QED
    BY <1>3, <2>1, <2>2
<1> DEFINE S == {n \in Nat : \E t \in group : n = Left(t)}
<1> HIDE DEF Left
<1>5. S \subseteq Nat /\ S # {}
  BY <1>4
<1>6. PICK n \in S : \A m \in S : ~(<<m, n>> \in OpToRel(<, Nat))
  BY <1>5, NatLessThanWellFounded, WFMin
<1>7. PICK t \in group : n = Left(t)
  BY <1>6
<1>8. PICK m : m = Left(owner[Top(t).env])
  OBVIOUS
<1>9. m \in S /\ m \in Nat /\ n \in Nat /\ m < n
  BY <1>4, <1>7, <1>8
<1>10. <<m, n>> \in OpToRel(<, Nat)
  BY <1>9 DEF OpToRel
<1> QED
  BY <1>6, <1>9, <1>10

(* No set of threads all wait for mutexes that they hold themselves, in a  *)
(* program whose callbacks leave locked Environments alone.                *)
THEOREM DeadlockFree == Spec => []NoDeadlock
<1>1. Init => DeadlockInv
  <2> SUFFICES ASSUME Init PROVE DeadlockInv
    OBVIOUS
  <2>1. TypeOK /\ LocksMatchFrames
    BY TypeInit, LocksInit
  <2>2. \A t \in Threads : stack[t] = << >> /\ Len(stack[t]) = 0 /\ DOMAIN stack[t] = {}
    BY DEF Init
  <2>3. UnmadeUnused /\ OwnMethods
    BY <2>2 DEF Init, UnmadeUnused, OwnMethods
  <2>4. StackShape
    BY <2>2 DEF StackShape
  <2>5. WaitOrder
    BY <2>2 DEF WaitOrder, Foreign, Waits
  <2> QED
    BY <2>1, <2>3, <2>4, <2>5 DEF DeadlockInv
<1>2. DeadlockInv /\ [Next]_vars => DeadlockInv'
  <2> SUFFICES ASSUME DeadlockInv, [Next]_vars PROVE DeadlockInv'
    OBVIOUS
  <2>1. UNCHANGED program
    BY DEF Next, vars
  <2>2. TypeOK' /\ LocksMatchFrames'
    BY TypeStep, LocksStep DEF DeadlockInv
  <2>3. UnmadeUnused' /\ OwnMethods' /\ StackShape'
    BY UnmadeStep, OwnStep, ShapeStep DEF DeadlockInv
  <2>4. ~program.reentrant => WaitOrder'
    BY WaitStep DEF DeadlockInv
  <2> QED
    BY <2>1, <2>2, <2>3, <2>4 DEF DeadlockInv
<1>3. DeadlockInv => NoDeadlock
  BY NoCircle
<1> QED
  BY <1>1, <1>2, <1>3, PTL DEF Spec
=============================================================================
