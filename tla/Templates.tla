----------------------------- MODULE Templates -----------------------------
(***************************************************************************)
(* What the renderer asks of an AST before it renders it (renderer.rs):    *)
(* its layout, its blocks, macros and exports, the block chains of an      *)
(* inheritance chain, cycles of literal references, and whether the body   *)
(* of a for loop reads the variable loop.                                  *)
(*                                                                         *)
(* A list of nodes lives at an address, its body: Code says what is there. *)
(* A template is the body of its root node, and a library says which       *)
(* template the loader has under each name.  The value of an expression is *)
(* left out, except for the variables it reads, the macros it calls and    *)
(* the template names it gives.                                            *)
(***************************************************************************)
EXTENDS Integers, SequencesExt

CONSTANTS
    Names,          \* template names
    Bodies,         \* addresses of node lists
    Code,           \* the nodes at each address
    Vars,           \* variables
    MacroNames,
    BlockNames,
    None

(* What is read by the expressions of a node is reads; ns is None or an    *)
(* import's alias; args tells whether a caller is given arguments, literal *)
(* a string literal from any other template expression.                    *)
Expressions ==
         [kind : {"text"}, blank : BOOLEAN, reads : {{}}]
    \cup [kind : {"out"}, reads : SUBSET Vars]
    \cup [kind : {"invoke"}, ns : STRING \cup {None}, macro : MacroNames,
          reads : SUBSET Vars]
    \cup [kind : {"super"}, reads : {{}}]
    \cup [kind : {"caller"}, args : BOOLEAN, reads : SUBSET Vars]

Statements ==
         [kind : {"if", "ifAsync"}, branches : Seq(Bodies), otherwise : BOOLEAN, reads : SUBSET Vars]
    \cup [kind : {"switch"}, cases : Seq(Bodies), default : Bodies \cup {None},
          reads : SUBSET Vars]
    \cup [kind : {"for", "asyncFor"}, vars : Seq(Vars), body : Bodies,
          otherwise : Bodies \cup {None}, reads : SUBSET Vars]
    \cup [kind : {"set"}, var : Vars, reads : SUBSET Vars]
    \cup [kind : {"setblock"}, var : Vars, body : Bodies, reads : {{}}]
    \cup [kind : {"filter"}, body : Bodies, reads : SUBSET Vars]
    \cup [kind : {"ext"}, body : Bodies \cup {None}, reads : {{}}]

Composition ==
         [kind : {"extends"}, name : Names, literal : BOOLEAN, reads : {{}}]
    \cup [kind : {"block"}, name : BlockNames, body : Bodies, reads : {{}}]
    \cup [kind : {"include"}, name : Names, missing : BOOLEAN, context : BOOLEAN,
          reads : SUBSET Vars]
    \cup [kind : {"import"}, name : Names, literal : BOOLEAN, alias : STRING,
          context : BOOLEAN, reads : SUBSET Vars]
    \cup [kind : {"from"}, name : Names, literal : BOOLEAN,
          names : Seq([export : MacroNames \cup Vars, local : MacroNames \cup Vars]),
          context : BOOLEAN, reads : SUBSET Vars]
    \cup [kind : {"macro"}, name : MacroNames, params : Seq(Vars), body : Bodies,
          reads : {{}}]
    \cup [kind : {"call"}, ns : STRING \cup {None}, macro : MacroNames,
          params : Seq(Vars), body : Bodies, reads : SUBSET Vars]

Node == Expressions \cup Statements \cup Composition

ASSUME TemplateConstants ==
    /\ Code \in [Bodies -> Seq(Node)]
    /\ None \notin Bodies \cup Names \cup Vars \cup STRING
    /\ None \notin Node
    /\ "loop" \in Vars
    /\ IsFiniteSet(Names)

Libraries == [Names -> Bodies \cup {None}]

-----------------------------------------------------------------------------
(* The top level of a template.                                            *)

Places(body, kinds) == {i \in DOMAIN Code[body] : Code[body][i].kind \in kinds}

Blank(node) == node.kind = "text" /\ node.blank

(* The last definition of a name wins, as in a map that is inserted into.  *)
Named(body, kind, name) ==
    LET defs == {i \in Places(body, {kind}) : Code[body][i].name = name}
    IN  IF defs = {} THEN None ELSE Code[body][Max(defs)]

(* collect_top_level_macros                                                *)
MacrosOf == [body \in Bodies |-> [m \in MacroNames |-> Named(body, "macro", m)]]

(* collect_blocks_in_root                                                  *)
BlocksOf ==
    [body \in Bodies |-> [b \in BlockNames |->
        LET def == Named(body, "block", b) IN IF def = None THEN None ELSE def.body]]

(* extends_parent_expr: the first extends node, wherever it is.            *)
ParentOf ==
    [body \in Bodies |->
        LET found == Places(body, {"extends"})
        IN  IF found = {} THEN None ELSE Code[body][Min(found)]]

(* extract_layout_if_any: a template that begins with extends is a child.  *)
IsChild(body) ==
    \E i \in Places(body, {"extends"}) : \A j \in 1 .. i - 1 : Blank(Code[body][j])

(* "invalid content in template with `extends` (only `block` allowed)"     *)
ValidChild(body) ==
    LET first == Min(Places(body, {"extends"}))
    IN  \A j \in first + 1 .. Len(Code[body]) :
            Code[body][j].kind \in {"block", "macro"} \/ Blank(Code[body][j])

-----------------------------------------------------------------------------
(* The scans and chains across templates, each with the names it has open. *)

(* scan_literal_extends_graph finds no cycle and no missing parent.        *)
LiteralExtendsOK(lib, opened, root) ==
    LET ok[open \in Seq(Names), body \in Bodies] ==
            LET parent == ParentOf[body]
            IN  parent # None /\ parent.literal =>
                    /\ parent.name \notin Range(open)
                    /\ lib[parent.name] # None
                    /\ ok[Append(open, parent.name), lib[parent.name]]
    IN  ok[opened, root]

(* scan_literal_import_graph                                               *)
LiteralImportsOK(lib, opened, root) ==
    LET ok[open \in Seq(Names), body \in Bodies] ==
            \A i \in Places(body, {"import", "from"}) :
                Code[body][i].literal =>
                    LET name == Code[body][i].name
                    IN  /\ name \notin Range(open)
                        /\ lib[name] # None
                        /\ ok[Append(open, name), lib[name]]
    IN  ok[opened, root]

(* The name k templates above a parent, None where the parents end.        *)
Ascent(lib, parentName) ==
    LET up[k \in 0 .. Cardinality(Names)] ==
            IF k = 0 THEN parentName
            ELSE IF up[k - 1] = None \/ lib[up[k - 1]] = None THEN None
            ELSE IF ParentOf[lib[up[k - 1]]] = None THEN None
            ELSE ParentOf[lib[up[k - 1]]].name
    IN  up

(* How far up it is to a template that is there and extends no other.      *)
Heights(lib, parentName) ==
    {k \in 0 .. Cardinality(Names) - 1 :
        \E name \in Names : /\ name = Ascent(lib, parentName)[k]
                            /\ lib[name] # None /\ ParentOf[lib[name]] = None}

(* The parents of a child are there, and do not go round in a circle.      *)
ParentsOK(lib, parentName) == Heights(lib, parentName) # {}

(* The templates from a parent upwards.                                    *)
Ancestry(lib, parentName) ==
    [k \in 1 .. Max(Heights(lib, parentName)) + 1 |-> lib[Ascent(lib, parentName)[k - 1]]]

Layer(body) == IF body = None THEN << >> ELSE <<body>>

(* Mutant of JoinChain: an override hides the blocks of the grandparents.  *)
JoinFirst(over, inherited, local) ==
    IF over # None THEN Layer(over) \o Layer(local)
    ELSE IF inherited # << >> THEN inherited ELSE Layer(local)

(* Mutant of JoinChain: a block that is not overridden gets a layer too.   *)
JoinAlways(over, inherited, local) ==
    <<over>> \o IF inherited # << >> THEN inherited ELSE Layer(local)

(* What inherits has the parent's own block in front already.              *)
JoinChain(over, inherited, local) ==
    Layer(over) \o IF inherited # << >> THEN inherited ELSE Layer(local)

(* The bodies of a block as each template of an ancestry leaves them, with *)
(* the override of the template below it.                                  *)
LayersOf(line, over, b) ==
    LET layers[i \in DOMAIN line] ==
            JoinChain(IF i = 1 THEN over ELSE BlocksOf[line[i - 1]][b],
                      IF i = Len(line) THEN << >> ELSE layers[i + 1],
                      BlocksOf[line[i]][b])
    IN  layers

(* build_block_chains: per block, its bodies from the child upwards.       *)
ChainsOf(lib, parentName, overrides) ==
    [b \in BlockNames |-> LayersOf(Ancestry(lib, parentName), overrides[b], b)[1]]

-----------------------------------------------------------------------------
(* nodes_use_variable_name(body, "loop").                                  *)

Inside(node) ==
    CASE node.kind \in {"if", "ifAsync"}             -> Range(node.branches)
      [] node.kind = "switch"                        -> Range(node.cases) \cup {node.default}
      [] node.kind \in {"for", "asyncFor"}           -> {node.body, node.otherwise}
      [] node.kind \in {"setblock", "filter", "ext", "block", "call"} ->
                                                   {node.body}
      [] OTHER                                    -> {}

ReadsLoop(node) ==
    \/ "loop" \in node.reads
    \/ node.kind = "include" /\ node.context

UsesLoop[body \in Bodies] ==
    \E i \in DOMAIN Code[body] :
        \/ ReadsLoop(Code[body][i])
        \/ \E inner \in Inside(Code[body][i]) \ {None} : UsesLoop[inner]

-----------------------------------------------------------------------------
(* When the analysis is right.  It looks at a body and what is inside, not *)
(* at what the nodes there render by name.                                 *)

NodesAt(bodies) == UNION {Range(Code[body]) : body \in bodies}

BodiesOf(nodes, kinds) == {node.body : node \in {other \in nodes : other.kind \in kinds}}

(* All that is rendered from some libraries is among the bodies reached.   *)
Reaches(libs, reached) ==
    /\ reached \subseteq Bodies
    /\ \A l \in libs, name \in Names : l[name] \in reached \cup {None}
    /\ \A node \in NodesAt(reached) :
          /\ Inside(node) \subseteq reached \cup {None}
          /\ node.kind = "macro" => node.body \in reached

(* No template gives the name loop to something else.                      *)
OnlyLoopsBindLoop(reached) ==
    \A node \in NodesAt(reached) :
        /\ node.kind \in {"set", "setblock"} => node.var # "loop"
        /\ node.kind \in {"for", "asyncFor"} => "loop" \notin Range(node.vars)
        /\ node.kind \in {"macro", "call"} => "loop" \notin Range(node.params)
        /\ node.kind = "from" => \A x \in Range(node.names) : x.local # "loop"

(* The bodies that a node may render with the variables it has itself, as  *)
(* they are or below those of a macro: what stands there, and what it      *)
(* finds by a name.                                                        *)
InPlace(node) ==
    CASE node.kind \in {"for", "asyncFor"} -> {node.otherwise}
      [] node.kind \in {"block", "call"}   -> {}
      [] OTHER                             -> Inside(node)

ByName(reached, node) ==
    CASE node.kind = "block" ->
            BodiesOf({other \in NodesAt(reached) : other.kind = "block" /\ other.name = node.name},
                     {"block"})
      [] node.kind = "super" -> BodiesOf(NodesAt(reached), {"block"})
      [] node.kind = "caller" -> BodiesOf(NodesAt(reached), {"call"})
      [] node.kind \in {"invoke", "call"} -> BodiesOf(NodesAt(reached), {"macro"})
      [] OTHER -> {}

(* What an import evaluates of a template reads no loop.                   *)
CalmModule(calm, body) ==
    \A node \in Range(Code[body]) :
        node.kind \in {"set", "setblock"} => ~ReadsLoop(node) /\ Inside(node) \subseteq calm

(* All that a node renders with these variables is among the calm bodies.  *)
StaysCalm(libs, reached, calm, node) ==
    /\ InPlace(node) \subseteq calm \cup {None}
    /\ ByName(reached, node) \subseteq calm
    /\ node.kind \in {"import", "from"} /\ node.context =>
          \A l \in libs : l[node.name] # None => CalmModule(calm, l[node.name])

(* Where the analysis says of the body of a loop that it reads none, what  *)
(* is rendered there by a name reads none either.                          *)
AnalysisHolds(libs, reached, calm) ==
    /\ calm \subseteq reached
    /\ \A node \in NodesAt(reached) :
          node.kind = "for" /\ ~UsesLoop[node.body] => node.body \in calm
    /\ \A body \in calm :
          \A node \in Range(Code[body]) :
              /\ UsesLoop[body] => ~ReadsLoop(node)
              /\ StaysCalm(libs, reached, calm, node)
=============================================================================
