-------------------------- MODULE TemplateService --------------------------
(***************************************************************************)
(* What a render is promised when it asks its Environment for a template   *)
(* (the specification that ParseCache implements): the parse of the source *)
(* under the Environment's own configuration, as if there were no cache.   *)
(*                                                                         *)
(* view[e] is what parsing depends on in e's configuration.  files[e] maps *)
(* a name to what e's loader holds; it is frozen for a loader whose keys   *)
(* are stable, and otherwise the render gets the parse of what it read.    *)
(***************************************************************************)
CONSTANTS Envs, Procs, Sources, Names, Parse(_, _), Failed, None

VARIABLES view, stable, files, req

service == <<view, stable, files>>
vars == <<view, stable, files, req>>

Request(phase, e, how, n, s) ==
    [phase |-> phase, env |-> e, how |-> how, name |-> n, src |-> s, res |-> None]

NoRequest == Request("idle", None, None, None, None)

Init == req = [p \in Procs |-> NoRequest]

InUse(e) == \E p \in Procs : req[p].phase # "idle" /\ req[p].env = e

(* Anything may happen to an Environment that no render uses; under one in *)
(* use only the contents of an unstable loader change.                     *)
Reconfigure ==
    /\ \A e \in Envs : InUse(e) =>
          /\ view'[e] = view[e] /\ stable'[e] = stable[e]
          /\ stable[e] => files'[e] = files[e]
    /\ UNCHANGED req

Begin(p, e) ==
    /\ req[p].phase = "idle"
    /\ req' = [req EXCEPT ![p] = Request("ready", e, None, None, None)]
    /\ UNCHANGED service

Return(p) ==
    /\ req[p].phase = "ready"
    /\ req' = [req EXCEPT ![p] = NoRequest]
    /\ UNCHANGED service

AskInline(p, s) ==
    /\ req[p].phase = "ready"
    /\ req' = [req EXCEPT ![p] = Request("read", @.env, "inline", None, s)]
    /\ UNCHANGED service

AskNamed(p, n) ==
    /\ req[p].phase = "ready"
    /\ req' = [req EXCEPT ![p] = Request("asked", @.env, "named", n, None)]
    /\ UNCHANGED service

Held(p) == files[req[p].env][req[p].name]

Read(p) ==
    /\ req[p].phase = "asked"
    /\ \/ /\ Held(p) # None
          /\ req' = [req EXCEPT ![p].phase = "read", ![p].src = Held(p)]
       \/ /\ Held(p) = None
          /\ req' = [req EXCEPT ![p].phase = "ready", ![p].res = Failed]
    /\ UNCHANGED service

Answer(p) ==
    /\ req[p].phase = "read"
    /\ req' = [req EXCEPT ![p].phase = "ready",
                          ![p].res = Parse(req[p].src, view[req[p].env])]
    /\ UNCHANGED service

(* A stable loader need not be read again to be answered for.              *)
AnswerUnread(p) ==
    /\ req[p].phase = "asked"
    /\ stable[req[p].env]
    /\ Held(p) # None
    /\ req' = [req EXCEPT ![p].phase = "ready",
                          ![p].res = Parse(Held(p), view[req[p].env])]
    /\ UNCHANGED service

Next ==
    \/ Reconfigure
    \/ \E p \in Procs :
          \/ \E e \in Envs : Begin(p, e)
          \/ Return(p)
          \/ \E s \in Sources : AskInline(p, s)
          \/ \E n \in Names : AskNamed(p, n)
          \/ Read(p)
          \/ Answer(p)
          \/ AnswerUnread(p)

Spec == Init /\ [][Next]_vars
=============================================================================
