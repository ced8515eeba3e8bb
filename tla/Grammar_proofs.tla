---------------------------- MODULE Grammar_proofs ----------------------------
(***************************************************************************)
(* Theorems about the parser of templates, for token sequences of any      *)
(* length: it accepts those of the grammar and no others, and the lists of *)
(* nodes it makes of them nest as the grammar says.                        *)
(***************************************************************************)
EXTENDS FrontEnd_proofs

-----------------------------------------------------------------------------
(* The grammar has the one solution of its equation that it is meant to    *)
(* have.                                                                   *)

Spans == Nat \X Nat

(* The right side of the equation, for any function in the place of Nodes. *)
Derives(f, s) ==
    \/ s[1] = s[2]
    \/ \E c \in s[1] + 1 .. s[2] : IsNode(f, s[1], c) /\ f[<<c, s[2]>>]

Solves(f) == f = [s \in Spans |-> Derives(f, s)]

Indicator(R) == [s \in Spans |-> s \in R]

(* More spans that are lists make no fewer nodes.                          *)
LEMMA NodeGrows ==
    ASSUME NEW R, NEW Q, R \subseteq Q, NEW a \in Nat, NEW b \in Nat,
           IsNode(Indicator(R), a, b)
    PROVE  IsNode(Indicator(Q), a, b)
<1>1. CASE b = a + 1 /\ IsLeaf(tokens[a]) /\ HeaderOK(tokens[a])
  BY <1>1 DEF IsNode
<1>2. CASE ~(b = a + 1 /\ IsLeaf(tokens[a]) /\ HeaderOK(tokens[a]))
  <2>1. /\ b > a + 1 /\ tokens[a].tok = "tag" /\ tokens[b - 1].tok = "tag"
    BY <1>2, Zenon DEF IsNode
  <2>2. PICK parts \in SUBSET {c \in a + 1 .. b - 2 : Word(c) \in Sections} :
             /\ IsBlock(a, parts, b - 1)
             /\ \A i, j \in parts \cup {a, b - 1} :
                   Adjacent(parts \cup {a, b - 1}, i, j) => Indicator(R)[<<i + 1, j>>]
    BY <1>2, Zenon DEF IsNode
  <2>3. ASSUME NEW i \in parts \cup {a, b - 1}, NEW j \in parts \cup {a, b - 1},
               Adjacent(parts \cup {a, b - 1}, i, j)
        PROVE  Indicator(Q)[<<i + 1, j>>]
    <3>1. i + 1 \in Nat /\ j \in Nat
      BY <2>1
    <3>2. <<i + 1, j>> \in Spans
      BY <3>1 DEF Spans
    <3>3. Indicator(R)[<<i + 1, j>>]
      BY <2>2, <2>3
    <3>4. <<i + 1, j>> \in R
      BY <3>2, <3>3 DEF Indicator
    <3> QED
      BY <3>2, <3>4 DEF Indicator
  <2> QED
    BY <2>1, <2>2, <2>3, Zenon DEF IsNode
<1> QED
  BY <1>1, <1>2

(* And no fewer lists.                                                     *)
LEMMA DerivesGrows ==
    ASSUME NEW R, NEW Q, R \subseteq Q, NEW s \in Spans, Derives(Indicator(R), s)
    PROVE  Derives(Indicator(Q), s)
<1>1. CASE s[1] = s[2]
  BY <1>1 DEF Derives
<1>2. CASE s[1] # s[2]
  <2>1. PICK c \in s[1] + 1 .. s[2] :
               IsNode(Indicator(R), s[1], c) /\ Indicator(R)[<<c, s[2]>>]
    BY <1>2 DEF Derives
  <2>2. s[1] \in Nat /\ s[2] \in Nat /\ c \in Nat
    BY DEF Spans
  <2>3. IsNode(Indicator(Q), s[1], c)
    BY <2>1, <2>2, NodeGrows
  <2>4. <<c, s[2]>> \in Spans
    BY <2>2 DEF Spans
  <2>5. Indicator(Q)[<<c, s[2]>>]
    BY <2>1, <2>4 DEF Indicator
  <2> QED
    BY <2>1, <2>3, <2>5 DEF Derives
<1> QED
  BY <1>1, <1>2

(* The smallest relation that the rules do not lead out of is a solution.  *)
LEMMA SolutionExists == \E f : Solves(f)
<1> DEFINE Closed(R) == \A s \in Spans : Derives(Indicator(R), s) => s \in R
           least == {s \in Spans : \A R \in SUBSET Spans : Closed(R) => s \in R}
           next == {s \in Spans : Derives(Indicator(least), s)}
<1>1. Closed(least)
  <2> SUFFICES ASSUME NEW s \in Spans, Derives(Indicator(least), s),
                      NEW R \in SUBSET Spans, Closed(R)
               PROVE  s \in R
    OBVIOUS
  <2>1. least \subseteq R
    OBVIOUS
  <2> HIDE DEF least
  <2>2. Derives(Indicator(R), s)
    BY <2>1, DerivesGrows
  <2> QED
    BY <2>2
<1>2. least \subseteq next
  <2>1. next \subseteq least
    BY <1>1
  <2>2. Closed(next)
    <3> SUFFICES ASSUME NEW s \in Spans, Derives(Indicator(next), s) PROVE s \in next
      OBVIOUS
    <3> HIDE DEF least, next
    <3>1. Derives(Indicator(least), s)
      BY <2>1, DerivesGrows
    <3> QED
      BY <3>1 DEF next
  <2>3. next \in SUBSET Spans
    OBVIOUS
  <2> HIDE DEF next
  <2> QED
    BY <2>2, <2>3
<1>3. \A s \in Spans : s \in least <=> Derives(Indicator(least), s)
  <2> HIDE DEF least
  <2> QED
    BY <1>1, <1>2
<1> HIDE DEF least
<1>4. Solves(Indicator(least))
  <2>1. ASSUME NEW s \in Spans PROVE (s \in least) = Derives(Indicator(least), s)
    <3>1. s \in least <=> Derives(Indicator(least), s)
      BY <1>3
    <3>2. CASE s \in least
      <4>1. (s \in least) = TRUE
        BY <3>2
      <4>2. Derives(Indicator(least), s) = TRUE
        BY <3>1, <3>2 DEF Derives
      <4> QED
        BY <4>1, <4>2, Zenon
    <3>3. CASE s \notin least
      <4>1. (s \in least) = FALSE
        BY <3>3
      <4>2. Derives(Indicator(least), s) = FALSE
        BY <3>1, <3>3 DEF Derives
      <4> QED
        BY <4>1, <4>2, Zenon
    <3> QED
      BY <3>2, <3>3, Zenon
  <2>2. [s \in Spans |-> s \in least] = [s \in Spans |-> Derives(Indicator(least), s)]
    BY <2>1, Zenon
  <2> QED
    BY <2>2 DEF Solves, Indicator
<1> QED
  BY <1>4

(* So the grammar is read from its equation.                               *)
LEMMA NodesSolve == Solves(Nodes)
<1>1. Nodes = CHOOSE f : Solves(f)
  BY Zenon DEF Nodes, Solves, Derives, Spans
<1> QED
  BY <1>1, SolutionExists

(* The equation that defines Nodes holds of it.                            *)
LEMMA NodesAre ==
    ASSUME NEW a \in Nat, NEW b \in Nat
    PROVE  Nodes[<<a, b>>] <=>
              a = b \/ \E c \in a + 1 .. b : IsNode(Nodes, a, c) /\ Nodes[<<c, b>>]
<1>1. <<a, b>> \in Spans
  BY DEF Spans
<1>2. Nodes[<<a, b>>] = Derives(Nodes, <<a, b>>)
  <2>1. Nodes = [s \in Spans |-> Derives(Nodes, s)]
    BY NodesSolve DEF Solves
  <2> QED
    BY <1>1, <2>1, Zenon
<1> QED
  BY <1>2 DEF Derives

(* Before the first node of a list is nothing.                             *)
LEMMA EmptyList == ASSUME NEW a \in Nat PROVE Nodes[<<a, a>>]
  BY NodesAre

(* A list of nodes does not end before it begins.                          *)
LEMMA ListForward ==
    ASSUME NEW a \in Nat, NEW b \in Nat, Nodes[<<a, b>>]
    PROVE  a <= b
<1>1. CASE a = b
  BY <1>1
<1>2. CASE a # b
  <2>1. \E c \in a + 1 .. b : TRUE
    BY <1>2, NodesAre
  <2> QED
    BY <2>1
<1> QED
  BY <1>1, <1>2

(* A node ends after it begins.                                            *)
LEMMA NodeForward ==
    ASSUME NEW a \in Nat, NEW b \in Nat, IsNode(Nodes, a, b)
    PROVE  a < b
<1>1. b = a + 1 \/ b > a + 1
  BY Zenon DEF IsNode
<1> QED
  BY <1>1

(* The rules put a node before a list; it may be put after one as well.    *)
LEMMA ListNext ==
    ASSUME NEW a \in Nat, NEW b \in Nat, NEW c \in Nat, Nodes[<<a, b>>], IsNode(Nodes, b, c)
    PROVE  Nodes[<<a, c>>]
<1> DEFINE wrong == {d \in Nat : \E x \in Nat :
                       x + d = b /\ Nodes[<<x, b>>] /\ ~Nodes[<<x, c>>]}
<1>1. b < c
  BY NodeForward
<1>2. wrong = {}
  <2> SUFFICES ASSUME wrong # {} PROVE FALSE
    OBVIOUS
  <2>1. wrong \in SUBSET Nat
    OBVIOUS
  <2>2. PICK d \in wrong : \A e \in wrong : d <= e
    <3> HIDE DEF wrong
    <3> QED
      BY <2>1, LeastOf
  <2>3. PICK x \in Nat : x + d = b /\ Nodes[<<x, b>>] /\ ~Nodes[<<x, c>>]
    BY <2>2
  <2>4. CASE x = b
    <3>1. b + 1 <= c /\ c \in x + 1 .. c /\ Nodes[<<c, c>>]
      BY <1>1, <2>4, EmptyList
    <3> QED
      BY <2>3, <2>4, <3>1, NodesAre
  <2>5. CASE x # b
    <3>1. PICK y \in x + 1 .. b : IsNode(Nodes, x, y) /\ Nodes[<<y, b>>]
      BY <2>3, <2>5, NodesAre
    <3>2. y \in Nat /\ b - y \in Nat /\ y + (b - y) = b /\ b - y < d
      BY <2>3, <3>1
    <3>3. b - y \notin wrong
      BY <2>2, <3>2
    <3>4. Nodes[<<y, c>>]
      BY <3>1, <3>2, <3>3
    <3>5. y \in x + 1 .. c
      BY <1>1, <3>1
    <3> QED
      BY <2>3, <3>1, <3>4, <3>5, NodesAre
  <2> QED
    BY <2>4, <2>5
<1>3. a <= b
  BY ListForward
<1>4. b - a \in Nat /\ a + (b - a) = b
  BY <1>3
<1>5. b - a \notin wrong
  BY <1>2, Zenon
<1> QED
  BY <1>4, <1>5

-----------------------------------------------------------------------------
(* The words of tags: those that begin a node, those between the parts of  *)
(* a block and those at its end are not the same.                          *)

Registered == registry \in Registry /\ RegistryOK(registry)

Openers == {"if", "ifAsync", "for", "asyncEach", "asyncAll", "switch", "set", "block",
            "filter", "call", "macro", "raw", "verbatim"}
Enders == {"endif", "endfor", "endeach", "endall", "endswitch", "endset", "endblock",
           "endfilter", "endcall", "endmacro", "endraw", "endverbatim"}

(* The words that open built-in blocks.                                    *)
LEMMA OpenersAre == DOMAIN BlockEnd = Openers
  BY DEF BlockEnd, Openers

(* The words that end them.                                                *)
LEMMA EndersAre ==
    /\ \A kw \in Openers : BlockEnd[kw] \in Enders
    /\ BlockEnd["if"] = "endif" /\ BlockEnd["ifAsync"] = "endif"
    /\ BlockEnd["for"] = "endfor" /\ BlockEnd["asyncEach"] = "endeach"
    /\ BlockEnd["asyncAll"] = "endall" /\ BlockEnd["switch"] = "endswitch"
    /\ BlockEnd["set"] = "endset" /\ BlockEnd["block"] = "endblock"
    /\ BlockEnd["filter"] = "endfilter" /\ BlockEnd["call"] = "endcall"
    /\ BlockEnd["macro"] = "endmacro" /\ BlockEnd["raw"] = "endraw"
    /\ BlockEnd["verbatim"] = "endverbatim"
  BY DEF BlockEnd, Openers, Enders

(* No word of the parser is of two kinds, and all are reserved.            *)
LEMMA WordsApart ==
    /\ Openers \cap Enders = {} /\ Openers \cap Sections = {} /\ Openers \cap Simple = {}
    /\ Enders \cap Sections = {} /\ Enders \cap Simple = {} /\ Sections \cap Simple = {}
    /\ Openers \cup Enders \cup Sections \cup Simple \subseteq Reserved
    /\ "none" \notin Openers \cup Enders \cup Sections \cup Simple
<1>1. Reserved = Openers \cup {BlockEnd[kw] : kw \in Openers} \cup Sections \cup Simple
  BY ReservedIsBuiltin, OpenersAre DEF Builtin
<1>2. Enders \subseteq {BlockEnd[kw] : kw \in Openers}
  BY EndersAre DEF Enders, Openers
<1> QED
  BY <1>1, <1>2 DEF Openers, Enders, Sections, Simple

(* The end tag of what is open.                                            *)
EndWords == Enders \cup registry.closing

(* An extension that opens a tag.                                          *)
LEMMA ExtensionIs ==
    ASSUME Registered, NEW kw, Extension(kw)
    PROVE  /\ kw \in Tags \ Reserved /\ kw \notin registry.closing
           /\ registry.tags[kw] # NoMeta
           /\ EndTag(kw) = registry.tags[kw].end
           /\ EndTag(kw) # NoTag => EndTag(kw) \in registry.closing
<1>1. kw \in Tags \ Reserved /\ kw \notin registry.closing /\ registry.tags[kw] # NoMeta
  BY DEF Extension, OpensExtension
<1>2. kw \notin DOMAIN BlockEnd
  BY <1>1, OpenersAre, WordsApart
<1>3. EndTag(kw) = registry.tags[kw].end
  BY <1>2 DEF EndTag
<1>4. registry.closing = ClosingTags(registry.tags)
  BY DEF Registered, RegistryOK
<1>5. kw \in OpeningTags(registry.tags)
  BY <1>1 DEF OpeningTags
<1>6. registry.tags[kw].end # NoTag => registry.tags[kw].end \in registry.closing
  BY <1>4, <1>5 DEF ClosingTags
<1> QED
  BY <1>1, <1>3, <1>6

(* The keyword of a tag that begins a node.                                *)
LEMMA StartIs ==
    ASSUME Registered, NEW t, t.tok = "tag", IsLeaf(t) \/ IsOpening(t)
    PROVE  /\ t.body.kw \notin Sections \cup EndWords
           /\ ~(IsLeaf(t) /\ IsOpening(t))
           /\ IsOpening(t) => EndTag(t.body.kw) \in EndWords
<1> DEFINE kw == t.body.kw
<1>1. registry.closing \cap Reserved = {}
  BY DEF Registered, RegistryOK
<1>2. IsLeaf(t) <=> \/ kw \in Simple
                    \/ kw = "set" /\ t.body.head # None
                    \/ Extension(kw) /\ EndTag(kw) = NoTag
  BY DEF IsLeaf
<1>3. IsOpening(t) <=> \/ kw \in Openers \ {"set"}
                       \/ kw = "set" /\ t.body.head = None
                       \/ Extension(kw) /\ EndTag(kw) # NoTag
  BY OpenersAre DEF IsOpening
<1>4. "set" \in Openers
  BY DEF Openers
<1> HIDE DEF kw
<1>5. Extension(kw) => kw \notin Reserved /\ kw \notin registry.closing
  BY ExtensionIs
<1>6. kw \notin Sections \cup EndWords
  BY <1>1, <1>2, <1>3, <1>4, <1>5, WordsApart DEF EndWords
<1>7. ~(IsLeaf(t) /\ IsOpening(t))
  BY <1>2, <1>3, <1>4, <1>5, WordsApart
<1>8. IsOpening(t) => EndTag(kw) \in EndWords
  <2>1. kw \in Openers => EndTag(kw) \in Enders
    BY OpenersAre, EndersAre DEF EndTag
  <2> QED
    BY <1>3, <1>4, <2>1, ExtensionIs DEF EndWords
<1> QED
  BY <1>6, <1>7, <1>8 DEF kw

(* An end tag needs nothing in it.                                         *)
LEMMA EndIsHeaded ==
    ASSUME Registered, NEW t, t.tok = "tag", t.body.kw \in EndWords
    PROVE  HeaderOK(t)
<1> DEFINE kw == t.body.kw
<1>1. kw \in Enders \/ kw \notin Reserved
  BY DEF EndWords, Registered, RegistryOK
<1>2. kw \notin Openers \cup Sections \cup Simple
  BY <1>1, WordsApart
<1> HIDE DEF kw
<1>3. /\ kw \notin {"block", "filter", "import", "macro"}
      /\ kw \notin Loops \cup {"from", "set"} /\ kw # "set"
      /\ kw \notin Conditions \cup Loops \cup Simple
                                \cup {"elif", "elseif", "case", "switch", "call"}
  BY <1>2 DEF Openers, Sections, Simple, Loops, Conditions
<1>4. NamesOK(t.body)
  BY <1>3 DEF NamesOK, kw
<1>5. ~NeedsExpression(t)
  BY <1>3 DEF NeedsExpression, kw
<1> QED
  BY <1>4, <1>5 DEF HeaderOK

-----------------------------------------------------------------------------
(* Blocks.                                                                 *)

(* What the grammar asks of the tags between the parts of a block.         *)
Parted(a, parts) ==
    /\ Word(a) \in Conditions =>
          /\ \A k \in parts : Word(k) \in {"elif", "elseif", "else"}
          /\ \A k \in parts : Word(k) = "else" => \A l \in parts : l <= k
    /\ Word(a) = "switch" =>
          /\ \A k \in parts : Word(k) \in {"case", "default"}
          /\ \A k \in parts : Word(k) = "default" => \A l \in parts : l <= k
          /\ parts # {} => a + 1 \in parts
    /\ Word(a) \in Loops =>
          /\ \A k \in parts : Word(k) = "else"
          /\ \A k, l \in parts : k = l
    /\ Word(a) \notin Conditions \cup Loops \cup {"switch"} => parts = {}

(* And of its end.                                                         *)
Ended(a, parts, b) ==
    /\ Word(b) = EndTag(Word(a))
    /\ Word(a) = "switch" => a + 1 \in parts \cup {b}
    /\ Word(b) = "endblock" => tokens[b].body.names \in {<< >>, tokens[a].body.names}

(* The word of a tag is its keyword.                                       *)
LEMMA TagWord == \A k : tokens[k].tok = "tag" => Word(k) = tokens[k].body.kw
  BY DEF Word

(* A block of the grammar, in the parser's words.                          *)
LEMMA BlockIs ==
    ASSUME Registered, NEW a \in Nat, NEW b \in Nat, NEW parts \in SUBSET (a + 1 .. b - 1),
           tokens[a].tok = "tag", tokens[b].tok = "tag", IsBlock(a, parts, b)
    PROVE  /\ IsOpening(tokens[a]) /\ HeaderOK(tokens[a]) /\ HeaderOK(tokens[b])
           /\ \A k \in parts : HeaderOK(tokens[k])
           /\ Parted(a, parts) /\ Ended(a, parts, b)
<1> DEFINE wa == Word(a)
           wb == Word(b)
<1>1. wa = tokens[a].body.kw
  BY TagWord
<1>2. HeaderOK(tokens[a]) /\ HeaderOK(tokens[b]) /\ \A k \in parts : HeaderOK(tokens[k])
  BY Zenon DEF IsBlock
<1>3. /\ wa \in Openers => EndTag(wa) = BlockEnd[wa]
      /\ IsOpening(tokens[a]) <=> \/ wa \in Openers \ {"set"}
                                  \/ wa = "set" /\ tokens[a].body.head = None
                                  \/ Extension(wa) /\ EndTag(wa) # NoTag
  BY <1>1, OpenersAre DEF EndTag, IsOpening
<1>4. CASE wa \in {"if", "ifAsync"}
  <2>1. /\ wb = "endif"
        /\ \A k \in parts : Word(k) \in {"elif", "elseif", "else"}
        /\ \A k \in parts : Word(k) = "else" => \A l \in parts : l <= k
    BY <1>4 DEF IsBlock
  <2>2. wa \in Openers \ {"set"} /\ BlockEnd[wa] = "endif" /\ wa \in Conditions
        /\ wa \notin Loops /\ wa # "switch"
    BY <1>4, EndersAre DEF Openers, Conditions, Loops
  <2> QED
    BY <1>2, <1>3, <2>1, <2>2 DEF Parted, Ended
<1>5. CASE wa = "switch"
  <2>1. /\ wb = "endswitch" /\ a + 1 \in parts \cup {b}
        /\ \A k \in parts : Word(k) \in {"case", "default"}
        /\ \A k \in parts : Word(k) = "default" => \A l \in parts : l <= k
    BY <1>5 DEF IsBlock
  <2>2. parts # {} => a + 1 # b
    OBVIOUS
  <2>3. wa \in Openers \ {"set"} /\ BlockEnd[wa] = "endswitch" /\ wa \notin Conditions
        /\ wa \notin Loops
    BY <1>5, EndersAre DEF Openers, Conditions, Loops
  <2> QED
    BY <1>2, <1>3, <1>5, <2>1, <2>2, <2>3 DEF Parted, Ended
<1>6. CASE wa \in {"for", "asyncEach", "asyncAll"}
  <2>1. /\ <<wa, wb>> \in {<<"for", "endfor">>, <<"asyncEach", "endeach">>,
                           <<"asyncAll", "endall">>}
        /\ \A k \in parts : Word(k) = "else"
        /\ \A k, l \in parts : k = l
    BY <1>6 DEF IsBlock
  <2>2. wa \in Openers \ {"set"} /\ BlockEnd[wa] = wb /\ wb # "endblock" /\ wa \notin Conditions
        /\ wa \in Loops /\ wa # "switch"
    BY <1>6, <2>1, EndersAre DEF Openers, Conditions, Loops
  <2> QED
    BY <1>2, <1>3, <2>1, <2>2 DEF Parted, Ended
<1>7. CASE wa = "block"
  <2>1. /\ parts = {} /\ wb = "endblock"
        /\ tokens[b].body.names \in {<< >>, tokens[a].body.names}
    BY <1>7 DEF IsBlock
  <2>2. wa \in Openers \ {"set"} /\ BlockEnd[wa] = "endblock" /\ wa \notin Conditions
        /\ wa \notin Loops /\ wa # "switch"
    BY <1>7, EndersAre DEF Openers, Conditions, Loops
  <2> QED
    BY <1>2, <1>3, <2>1, <2>2 DEF Parted, Ended
<1>8. CASE wa \in {"set", "filter", "call", "macro", "raw", "verbatim"}
  <2>1. /\ parts = {}
        /\ <<wa, wb>> \in {<<"set", "endset">>, <<"filter", "endfilter">>,
                           <<"call", "endcall">>, <<"macro", "endmacro">>,
                           <<"raw", "endraw">>, <<"verbatim", "endverbatim">>}
        /\ wa = "set" => tokens[a].body.head = None
    BY <1>8 DEF IsBlock
  <2>2. wa \in Openers /\ BlockEnd[wa] = wb /\ wb # "endblock" /\ wa \notin Conditions
        /\ wa \notin Loops /\ wa # "switch"
    BY <1>8, <2>1, EndersAre DEF Openers, Conditions, Loops
  <2> QED
    BY <1>2, <1>3, <2>1, <2>2 DEF Parted, Ended
<1>9. CASE wa \notin Openers
  <2>1. /\ parts = {} /\ wa \in Tags \ registry.closing
        /\ registry.tags[wa] # NoMeta
        /\ registry.tags[wa].end \in {wb} \ {NoTag}
    BY <1>9 DEF IsBlock, Openers
  <2>2. wa \in OpeningTags(registry.tags)
    BY <2>1 DEF OpeningTags
  <2>3. wa \notin Reserved
    BY <2>2 DEF Registered, RegistryOK
  <2>4. Extension(wa)
    BY <2>1, <2>3 DEF Extension, OpensExtension
  <2>5. EndTag(wa) = wb /\ wb # NoTag /\ wb \in registry.closing
    BY <2>1, <2>4, ExtensionIs
  <2>6. wb # "endblock"
    BY <2>5, WordsApart DEF Registered, RegistryOK, Enders
  <2>7. wa \notin Conditions \cup Loops \cup {"switch"}
    BY <1>9 DEF Openers, Conditions, Loops
  <2> QED
    BY <1>2, <1>3, <2>1, <2>4, <2>5, <2>6, <2>7 DEF Parted, Ended
<1> QED
  BY <1>4, <1>5, <1>6, <1>7, <1>8, <1>9 DEF Openers

(* And the other way round.                                                *)
LEMMA BlockMade ==
    ASSUME Registered, NEW a, NEW parts, NEW b,
           tokens[a].tok = "tag", tokens[b].tok = "tag",
           IsOpening(tokens[a]), HeaderOK(tokens[a]), \A k \in parts : HeaderOK(tokens[k]),
           Parted(a, parts), Ended(a, parts, b)
    PROVE  IsBlock(a, parts, b)
<1> DEFINE wa == Word(a)
           wb == Word(b)
<1>1. wa = tokens[a].body.kw /\ wb = tokens[b].body.kw
  BY TagWord
<1>2. /\ wa \in Openers => wb = BlockEnd[wa]
      /\ \/ wa \in Openers \ {"set"}
         \/ wa = "set" /\ tokens[a].body.head = None
         \/ Extension(wa) /\ EndTag(wa) # NoTag
  BY <1>1, OpenersAre DEF EndTag, IsOpening, Ended
<1>3. HeaderOK(tokens[b])
  <2>1. wb \in EndWords
    BY <1>1, StartIs DEF Ended
  <2> QED
    BY <1>1, <2>1, EndIsHeaded
<1>4. \A k \in parts \cup {a, b} : HeaderOK(tokens[k])
  BY <1>3
<1>5. CASE wa \in {"if", "ifAsync"}
  <2>1. /\ wb = "endif"
        /\ \A k \in parts : Word(k) \in {"elif", "elseif", "else"}
        /\ \A k \in parts : Word(k) = "else" => \A l \in parts : l <= k
    BY <1>2, <1>5, EndersAre DEF Parted, Conditions, Openers
  <2> QED
    BY <1>4, <1>5, <2>1 DEF IsBlock
<1>6. CASE wa = "switch"
  <2>1. /\ wb = "endswitch" /\ a + 1 \in parts \cup {b}
        /\ \A k \in parts : Word(k) \in {"case", "default"}
        /\ \A k \in parts : Word(k) = "default" => \A l \in parts : l <= k
    BY <1>2, <1>6, EndersAre DEF Parted, Ended, Openers
  <2> QED
    BY <1>4, <1>6, <2>1 DEF IsBlock
<1>7. CASE wa \in {"for", "asyncEach", "asyncAll"}
  <2>1. /\ <<wa, wb>> \in {<<"for", "endfor">>, <<"asyncEach", "endeach">>,
                           <<"asyncAll", "endall">>}
        /\ \A k \in parts : Word(k) = "else"
        /\ \A k, l \in parts : k = l
    BY <1>2, <1>7, EndersAre DEF Parted, Loops, Openers
  <2> QED
    BY <1>4, <1>7, <2>1 DEF IsBlock
<1>8. CASE wa = "block"
  <2>1. /\ parts = {} /\ wb = "endblock"
        /\ tokens[b].body.names \in {<< >>, tokens[a].body.names}
    BY <1>2, <1>8, EndersAre DEF Parted, Ended, Openers, Conditions, Loops
  <2> QED
    BY <1>4, <1>8, <2>1 DEF IsBlock
<1>9. CASE wa \in {"set", "filter", "call", "macro", "raw", "verbatim"}
  <2>1. /\ parts = {}
        /\ <<wa, wb>> \in {<<"set", "endset">>, <<"filter", "endfilter">>,
                           <<"call", "endcall">>, <<"macro", "endmacro">>,
                           <<"raw", "endraw">>, <<"verbatim", "endverbatim">>}
    BY <1>2, <1>9, EndersAre DEF Parted, Openers, Conditions, Loops
  <2>2. wa = "set" => tokens[a].body.head = None
    BY <1>2, ExtensionIs, WordsApart DEF Openers
  <2> QED
    BY <1>4, <1>9, <2>1, <2>2 DEF IsBlock
<1>10. CASE wa \notin Openers
  <2>1. Extension(wa) /\ EndTag(wa) # NoTag /\ wb = EndTag(wa)
    BY <1>2, <1>10 DEF Openers, Ended
  <2>2. /\ wa \in Tags \ registry.closing /\ registry.tags[wa] # NoMeta
        /\ registry.tags[wa].end \in {wb} \ {NoTag}
    BY <2>1, ExtensionIs
  <2>3. parts = {}
    BY <1>10 DEF Parted, Openers, Conditions, Loops
  <2> QED
    BY <1>4, <1>10, <2>2, <2>3 DEF IsBlock, Openers
<1> QED
  BY <1>5, <1>6, <1>7, <1>8, <1>9, <1>10 DEF Openers

(* The tags between the parts of a block, in the parser's words.           *)
LEMMA FollowIs ==
    ASSUME NEW block
    PROVE  /\ block.kw \in Conditions =>
                 MayFollow(block) = IF tokens[block.section].body.kw # "else"
                                    THEN {"elif", "elseif", "else"} ELSE {}
           /\ block.kw \in Loops =>
                 MayFollow(block) = IF tokens[block.section].body.kw # "else"
                                    THEN {"else"} ELSE {}
           /\ block.kw = "switch" =>
                 MayFollow(block) = IF tokens[block.section].body.kw # "default"
                                    THEN {"case", "default"} ELSE {}
           /\ block.kw \notin Conditions \cup Loops \cup {"switch"} => MayFollow(block) = {}
<1> DEFINE now == tokens[block.section].body.kw
<1>1. CASE block.kw \in Conditions
  <2>1. block.kw \notin Loops /\ block.kw # "switch"
    BY <1>1 DEF Conditions, Loops
  <2>2. MayFollow(block) = IF now # "else" THEN {"elif", "elseif", "else"} ELSE {}
    BY <1>1, <2>1 DEF MayFollow
  <2> QED
    BY <1>1, <2>1, <2>2
<1>2. CASE block.kw \in Loops
  <2>1. block.kw \notin Conditions /\ block.kw # "switch"
    BY <1>2 DEF Conditions, Loops
  <2>2. MayFollow(block) = IF now # "else" THEN {"else"} ELSE {}
    BY <1>2, <2>1 DEF MayFollow
  <2> QED
    BY <1>2, <2>1, <2>2
<1>3. CASE block.kw = "switch"
  <2>1. block.kw \notin Conditions /\ block.kw \notin Loops
    BY <1>3 DEF Conditions, Loops
  <2>2. MayFollow(block) = IF now # "default" THEN {"case", "default"} ELSE {}
    BY <1>3, <2>1 DEF MayFollow
  <2> QED
    BY <1>3, <2>1, <2>2
<1>4. CASE block.kw \notin Conditions \cup Loops \cup {"switch"}
  <2>1. block.kw \notin Conditions /\ block.kw \notin Loops /\ block.kw # "switch"
    BY <1>4
  <2>2. MayFollow(block) = {}
    BY <2>1, Zenon DEF MayFollow
  <2> QED
    BY <2>1, <2>2
<1> QED
  BY <1>1, <1>2, <1>3, <1>4

(* Whatever may follow in a block is the beginning of a section.           *)
LEMMA FollowsIsSection ==
    ASSUME NEW block
    PROVE  MayFollow(block) \subseteq Sections
<1>1. {"elif", "elseif", "else", "case", "default"} \subseteq Sections
  BY DEF Sections
<1>2. CASE block.kw \in Conditions
  BY <1>1, <1>2, FollowIs
<1>3. CASE block.kw \in Loops
  BY <1>1, <1>3, FollowIs
<1>4. CASE block.kw = "switch"
  BY <1>1, <1>4, FollowIs
<1>5. CASE block.kw \notin Conditions \cup Loops \cup {"switch"}
  BY <1>5, FollowIs
<1> QED
  BY <1>2, <1>3, <1>4, <1>5

(* The tag where the last part read so far begins.                         *)
LEMMA PartWord ==
    ASSUME NEW k, Word(k) \in Sections \/ tokens[k].tok = "tag"
    PROVE  Word(k) = tokens[k].body.kw
  BY WordsApart DEF Word

(* What the grammar has next the parser takes,                             *)
LEMMA PartFollows ==
    ASSUME NEW block, block.open \in Nat, block.kw = Word(block.open),
           tokens[block.open].tok = "tag",
           NEW parts \in SUBSET Nat, Parted(block.open, parts),
           block.section \in parts \cup {block.open},
           NEW c \in parts, block.section < c
    PROVE  Word(c) \in MayFollow(block)
<1> DEFINE a == block.open
           s == block.section
           now == tokens[s].body.kw
<1>1. s = a => now = block.kw
  BY TagWord
<1>2. parts # {} /\ s \in Nat /\ c \in Nat
  OBVIOUS
<1>3. block.kw \in Conditions \cup Loops \cup {"switch"}
  BY <1>2 DEF Parted
<1>4. CASE block.kw \in Conditions
  <2>1. /\ \A k \in parts : Word(k) \in {"elif", "elseif", "else"}
        /\ \A k \in parts : Word(k) = "else" => \A l \in parts : l <= k
    BY <1>4 DEF Parted
  <2>2. s \in parts => now = Word(s) /\ Word(s) # "else"
    <3> SUFFICES ASSUME s \in parts PROVE now = Word(s) /\ Word(s) # "else"
      OBVIOUS
    <3>1. Word(s) \in Sections
      BY <2>1 DEF Sections
    <3>2. ~(c <= s)
      BY <1>2
    <3> QED
      BY <2>1, <3>1, <3>2, PartWord
  <2>3. now # "else"
    BY <1>1, <1>4, <2>2 DEF Conditions
  <2> QED
    BY <1>4, <2>1, <2>3, FollowIs
<1>5. CASE block.kw \in Loops
  <2>1. /\ \A k \in parts : Word(k) = "else"
        /\ \A k, l \in parts : k = l
    BY <1>5 DEF Parted
  <2>2. s \notin parts
    BY <1>2, <2>1
  <2>3. now # "else"
    BY <1>1, <1>5, <2>2 DEF Loops
  <2> QED
    BY <1>5, <2>1, <2>3, FollowIs
<1>6. CASE block.kw = "switch"
  <2>1. /\ \A k \in parts : Word(k) \in {"case", "default"}
        /\ \A k \in parts : Word(k) = "default" => \A l \in parts : l <= k
    BY <1>6 DEF Parted
  <2>2. s \in parts => now = Word(s) /\ Word(s) # "default"
    <3> SUFFICES ASSUME s \in parts PROVE now = Word(s) /\ Word(s) # "default"
      OBVIOUS
    <3>1. Word(s) \in Sections
      BY <2>1 DEF Sections
    <3>2. ~(c <= s)
      BY <1>2
    <3> QED
      BY <2>1, <3>1, <3>2, PartWord
  <2>3. now # "default"
    BY <1>1, <1>6, <2>2
  <2> QED
    BY <1>6, <2>1, <2>3, FollowIs
<1> QED
  BY <1>3, <1>4, <1>5, <1>6

(* and what the parser takes the grammar allows.                           *)
LEMMA PartsGrow ==
    ASSUME NEW block, block.open \in Nat, block.kw = Word(block.open),
           block.section \in Nat, tokens[block.open].tok = "tag",
           NEW parts \in SUBSET (block.open + 1 .. block.section), Parted(block.open, parts),
           block.section \in parts \cup {block.open},
           NEW c \in Nat, block.section < c, Word(c) \in MayFollow(block),
           block.kw = "switch" /\ block.section = block.open => c = block.open + 1
    PROVE  Parted(block.open, parts \cup {c})
<1> DEFINE a == block.open
           s == block.section
           now == tokens[s].body.kw
           more == parts \cup {c}
<1>1. \A k \in parts : k \in Nat /\ k <= s /\ k < c
  OBVIOUS
<1>2. s \in parts /\ Word(s) \in Sections => now = Word(s)
  BY PartWord
<1>3. block.kw \in Conditions \cup Loops \cup {"switch"}
  BY FollowIs
<1>4. s \notin parts => parts = {}
  BY <1>1
<1>5. CASE block.kw \in Conditions
  <2>1. /\ \A k \in parts : Word(k) \in {"elif", "elseif", "else"}
        /\ \A k \in parts : Word(k) = "else" => \A l \in parts : l <= k
    BY <1>5 DEF Parted
  <2>2. now # "else" /\ Word(c) \in {"elif", "elseif", "else"}
    BY <1>5, FollowIs
  <2>3. \A k \in parts : Word(k) # "else"
    <3> SUFFICES ASSUME NEW k \in parts, Word(k) = "else" PROVE FALSE
      OBVIOUS
    <3>1. s <= k /\ k <= s
      BY <1>1, <1>4, <2>1
    <3>2. Word(s) = "else" /\ s \in parts
      BY <1>1, <3>1
    <3> QED
      BY <1>2, <2>2, <3>2 DEF Sections
  <2>4. \A k \in more : Word(k) \in {"elif", "elseif", "else"}
    BY <2>1, <2>2
  <2>5. \A k \in more : Word(k) = "else" => \A l \in more : l <= k
    BY <1>1, <2>3
  <2>6. block.kw \notin Loops /\ block.kw # "switch"
    BY <1>5 DEF Conditions, Loops
  <2> QED
    BY <1>5, <2>4, <2>5, <2>6 DEF Parted
<1>6. CASE block.kw \in Loops
  <2>1. \A k \in parts : Word(k) = "else"
    BY <1>6 DEF Parted
  <2>2. now # "else" /\ Word(c) = "else"
    BY <1>6, FollowIs
  <2>3. parts = {}
    BY <1>2, <1>4, <2>1, <2>2 DEF Sections
  <2>4. block.kw \notin Conditions /\ block.kw # "switch"
    BY <1>6 DEF Conditions, Loops
  <2> QED
    BY <1>6, <2>2, <2>3, <2>4 DEF Parted
<1>7. CASE block.kw = "switch"
  <2>1. /\ \A k \in parts : Word(k) \in {"case", "default"}
        /\ \A k \in parts : Word(k) = "default" => \A l \in parts : l <= k
        /\ parts # {} => a + 1 \in parts
    BY <1>7 DEF Parted
  <2>2. now # "default" /\ Word(c) \in {"case", "default"}
    BY <1>7, FollowIs
  <2>3. \A k \in parts : Word(k) # "default"
    <3> SUFFICES ASSUME NEW k \in parts, Word(k) = "default" PROVE FALSE
      OBVIOUS
    <3>1. s <= k /\ k <= s
      BY <1>1, <1>4, <2>1
    <3>2. Word(s) = "default" /\ s \in parts
      BY <1>1, <3>1
    <3> QED
      BY <1>2, <2>2, <3>2 DEF Sections
  <2>4. \A k \in more : Word(k) \in {"case", "default"}
    BY <2>1, <2>2
  <2>5. \A k \in more : Word(k) = "default" => \A l \in more : l <= k
    BY <1>1, <2>3
  <2>6. a + 1 \in more
    BY <1>4, <1>7, <2>1
  <2>7. block.kw \notin Conditions /\ block.kw \notin Loops
    BY <1>7 DEF Conditions, Loops
  <2> QED
    BY <1>7, <2>4, <2>5, <2>6, <2>7 DEF Parted
<1> QED
  BY <1>3, <1>5, <1>6, <1>7
-----------------------------------------------------------------------------
(* The grammar says the same before and after a step that leaves the       *)
(* tokens and the registry as they are.                                    *)

(* Whether tokens are a node depends on shorter lists only.                *)
LEMMA NodeBelow ==
    ASSUME NEW f, NEW g, NEW a \in Nat, NEW b \in Nat,
           \A x, y \in Nat : y - x < b - a => (f[<<x, y>>] => g[<<x, y>>]),
           IsNode(f, a, b)
    PROVE  IsNode(g, a, b)
<1>1. CASE b = a + 1 /\ IsLeaf(tokens[a]) /\ HeaderOK(tokens[a])
  BY <1>1 DEF IsNode
<1>2. CASE ~(b = a + 1 /\ IsLeaf(tokens[a]) /\ HeaderOK(tokens[a]))
  <2>1. /\ b > a + 1 /\ tokens[a].tok = "tag" /\ tokens[b - 1].tok = "tag"
    BY <1>2, Zenon DEF IsNode
  <2>2. PICK parts \in SUBSET {c \in a + 1 .. b - 2 : Word(c) \in Sections} :
             /\ IsBlock(a, parts, b - 1)
             /\ \A i, j \in parts \cup {a, b - 1} :
                   Adjacent(parts \cup {a, b - 1}, i, j) => f[<<i + 1, j>>]
    BY <1>2, Zenon DEF IsNode
  <2>3. ASSUME NEW i \in parts \cup {a, b - 1}, NEW j \in parts \cup {a, b - 1},
               Adjacent(parts \cup {a, b - 1}, i, j)
        PROVE  g[<<i + 1, j>>]
    <3>1. i + 1 \in Nat /\ j \in Nat /\ j - (i + 1) < b - a
      BY <2>1
    <3> QED
      BY <2>2, <2>3, <3>1
  <2> QED
    BY <2>1, <2>2, <2>3, Zenon DEF IsNode
<1> QED
  BY <1>1, <1>2

(* The equation has one solution.                                          *)
LEMMA SolvedAs ==
    ASSUME NEW f, Solves(f), NEW a \in Nat, NEW b \in Nat
    PROVE  f[<<a, b>>] <=>
              a = b \/ \E c \in a + 1 .. b : IsNode(f, a, c) /\ f[<<c, b>>]
<1>1. <<a, b>> \in Spans
  BY DEF Spans
<1>2. f[<<a, b>>] = Derives(f, <<a, b>>)
  <2>1. f = [s \in Spans |-> Derives(f, s)]
    BY DEF Solves
  <2> QED
    BY <1>1, <2>1, Zenon
<1> QED
  BY <1>2 DEF Derives

(* The equation of the grammar has one solution: two of them would differ  *)
(* first on some shortest span, and the parts of that are shorter.         *)
LEMMA SolutionIsOne ==
    ASSUME NEW f, NEW g, Solves(f), Solves(g)
    PROVE  \A a, b \in Nat : f[<<a, b>>] <=> g[<<a, b>>]
<1> DEFINE differ == {d \in Nat : \E a, b \in Nat :
                        b - a = d /\ ~(f[<<a, b>>] <=> g[<<a, b>>])}
<1>1. ASSUME NEW a \in Nat, NEW b \in Nat, a > b
      PROVE  f[<<a, b>>] <=> g[<<a, b>>]
  BY <1>1, SolvedAs
<1>2. differ = {}
  <2> SUFFICES ASSUME differ # {} PROVE FALSE
    OBVIOUS
  <2>1. differ \in SUBSET Nat
    OBVIOUS
  <2>2. PICK d \in differ : \A e \in differ : d <= e
    <3> HIDE DEF differ
    <3> QED
      BY <2>1, LeastOf
  <2>3. PICK a \in Nat, b \in Nat : b - a = d /\ ~(f[<<a, b>>] <=> g[<<a, b>>])
    BY <2>2
  <2>4. ASSUME NEW x \in Nat, NEW y \in Nat, y - x < b - a
        PROVE  f[<<x, y>>] <=> g[<<x, y>>]
    <3>1. CASE x > y
      BY <1>1, <3>1
    <3>2. CASE x <= y
      <4>1. y - x \in Nat /\ ~(d <= y - x)
        BY <2>3, <2>4, <3>2
      <4>2. y - x \notin differ
        <5> HIDE DEF differ
        <5> QED
          BY <2>2, <4>1
      <4> QED
        BY <4>1, <4>2
    <3> QED
      BY <3>1, <3>2
  <2>5. ASSUME NEW c \in a + 1 .. b PROVE IsNode(f, a, c) <=> IsNode(g, a, c)
    <3>1. \A x, y \in Nat : y - x < c - a => y - x < b - a
      OBVIOUS
    <3>2. c \in Nat
      OBVIOUS
    <3> QED
      BY <2>4, <3>1, <3>2, NodeBelow
  <2>6. ASSUME NEW c \in a + 1 .. b PROVE f[<<c, b>>] <=> g[<<c, b>>]
    <3>1. c \in Nat /\ b - c < b - a
      OBVIOUS
    <3> QED
      BY <2>4, <3>1
  <2> QED
    BY <2>3, <2>5, <2>6, SolvedAs
<1>3. ASSUME NEW a \in Nat, NEW b \in Nat, a <= b
      PROVE  f[<<a, b>>] <=> g[<<a, b>>]
  <2>1. b - a \in Nat
    BY <1>3
  <2>2. b - a \notin differ
    BY <1>2, Zenon
  <2> QED
    BY <2>1, <2>2
<1>4. \A a, b \in Nat : a > b \/ a <= b
  OBVIOUS
<1> QED
  BY <1>1, <1>3, <1>4

(* Words, leaves and blocks depend on the tokens and the registry only.    *)
LEMMA WordsStay ==
    ASSUME tokens' = tokens, registry' = registry
    PROVE  /\ \A k : Word(k)' = Word(k)
           /\ \A t : IsLeaf(t)' <=> IsLeaf(t)
           /\ \A t : IsOpening(t)' <=> IsOpening(t)
           /\ \A a, p : Parted(a, p)' <=> Parted(a, p)
           /\ \A a, p, b : IsBlock(a, p, b)' <=> IsBlock(a, p, b)
<1>1. \A k : Word(k)' = Word(k)
  BY DEF Word
<1>2. \A t : (IsLeaf(t)' <=> IsLeaf(t)) /\ (IsOpening(t)' <=> IsOpening(t))
  BY DEF IsLeaf, IsOpening, Extension, EndTag
<1>3. \A a, p, b : IsBlock(a, p, b)' <=> IsBlock(a, p, b)
  BY <1>1 DEF IsBlock
<1>4. \A a, p : Parted(a, p)' <=> Parted(a, p)
  BY <1>1 DEF Parted
<1> QED
  BY <1>1, <1>2, <1>3, <1>4

(* So do the lists of nodes: both are the one solution.                    *)
LEMMA NodesStay ==
    ASSUME tokens' = tokens, registry' = registry
    PROVE  \A a, b \in Nat : Nodes'[<<a, b>>] <=> Nodes[<<a, b>>]
<1>1. ASSUME NEW f, NEW a, NEW b
      PROVE  IsNode(f, a, b)' <=> IsNode(f, a, b)
  <2>1. \A k : Word(k)' = Word(k)
    BY WordsStay
  <2>2. {c \in a + 1 .. b - 2 : Word(c)' \in Sections}
          = {c \in a + 1 .. b - 2 : Word(c) \in Sections}
    BY <2>1
  <2>3. \A p : IsBlock(a, p, b - 1)' <=> IsBlock(a, p, b - 1)
    BY WordsStay
  <2>4. IsLeaf(tokens[a])' <=> IsLeaf(tokens[a])
    BY WordsStay
  <2> QED
    BY <2>2, <2>3, <2>4 DEF IsNode
<1>2. \A f : Solves(f)' <=> Solves(f)
  BY <1>1 DEF Solves, Derives
<1>3. Solves(Nodes)'
  BY NodesSolve, PTL
<1>4. Solves(Nodes')
  BY <1>2, <1>3
<1>5. ASSUME NEW f, Solves(f) PROVE \A a, b \in Nat : f[<<a, b>>] <=> Nodes[<<a, b>>]
  BY <1>5, NodesSolve, SolutionIsOne
<1>6. \A a, b \in Nat : Nodes'[<<a, b>>] <=> Nodes[<<a, b>>]
  BY <1>4, <1>5
<1> QED
  BY <1>6
-----------------------------------------------------------------------------
(* What the parser has read is nodes, as far as it got.                    *)

(* Where the list of nodes begins that block k is in, the root's for 0.    *)
ListBegins(st, k) == IF k = 0 THEN 1 ELSE st[k].section + 1

(* The tags of a block but its end, and the lists between them.            *)
PartsRead(block, parts) ==
    /\ block.section \in parts \cup {block.open}
    /\ Parted(block.open, parts)
    /\ \A k \in parts : HeaderOK(tokens[k])
    /\ \A i, j \in parts \cup {block.open} :
          Adjacent(parts \cup {block.open}, i, j) => Nodes[<<i + 1, j>>]

HasRead(block) ==
    /\ block \in Block /\ block.open <= block.section
    /\ tokens[block.open].tok = "tag" /\ block.kw = Word(block.open)
    /\ IsOpening(tokens[block.open]) /\ HeaderOK(tokens[block.open])
    /\ \E parts \in SUBSET (block.open + 1 .. block.section) : PartsRead(block, parts)

(* A switch before its first case.                                         *)
Fresh(block) == block.kw = "switch" /\ block.section = block.open

Nesting(st, c) ==
    /\ st \in Seq(Block)
    /\ \A k \in DOMAIN st : /\ HasRead(st[k])
                            /\ Nodes[<<ListBegins(st, k - 1), st[k].open>>]
                            /\ Fresh(st[k]) => k = Len(st) /\ c = st[k].open + 1
    /\ Nodes[<<ListBegins(st, Len(st)), c>>]

(* Neighbours in a set with one more place at its end.                     *)
LEMMA AdjacentNext ==
    ASSUME NEW S \in SUBSET Nat, NEW s \in S, \A k \in S : k <= s,
           NEW c \in Nat, s < c, NEW i \in S \cup {c}, NEW j \in S \cup {c},
           Adjacent(S \cup {c}, i, j)
    PROVE  (i = s /\ j = c) \/ (i \in S /\ j \in S /\ Adjacent(S, i, j))
<1>1. i \in Nat /\ j \in Nat /\ i < j /\ (S \cup {c}) \cap i + 1 .. j - 1 = {}
  BY DEF Adjacent
<1>2. CASE j = c
  <2>1. i \in S /\ i <= s
    BY <1>1, <1>2
  <2>2. i # s => s \in i + 1 .. j - 1
    BY <1>1, <1>2, <2>1
  <2> QED
    BY <1>1, <1>2, <2>2
<1>3. CASE j # c
  <2>1. j \in S /\ i \in S
    BY <1>1, <1>3
  <2> QED
    BY <1>1, <2>1 DEF Adjacent
<1> QED
  BY <1>2, <1>3

(* A list of nodes begins somewhere.                                       *)
LEMMA BeginsIs ==
    ASSUME NEW st \in Seq(Block), NEW k \in 0 .. Len(st)
    PROVE  ListBegins(st, k) \in Nat
<1>1. k # 0 => st[k] \in Block
  OBVIOUS
<1> QED
  BY <1>1 DEF ListBegins, Block

(* A node more in the innermost block.                                     *)
LEMMA NestNode ==
    ASSUME NEW st, NEW c \in Nat, NEW d \in Nat, Nesting(st, c), IsNode(Nodes, c, d),
           \A k \in DOMAIN st : ~Fresh(st[k])
    PROVE  Nesting(st, d)
<1>1. st \in Seq(Block) /\ Nodes[<<ListBegins(st, Len(st)), c>>]
  BY DEF Nesting
<1>2. ListBegins(st, Len(st)) \in Nat
  <2>1. Len(st) \in 0 .. Len(st)
    BY <1>1
  <2> QED
    BY <1>1, <2>1, BeginsIs
<1>3. Nodes[<<ListBegins(st, Len(st)), d>>]
  BY <1>1, <1>2, ListNext
<1> QED
  BY <1>1, <1>3 DEF Nesting

(* Another block on the stack, of which the parser is where its part       *)
(* begins.                                                                 *)
LEMMA NestOn ==
    ASSUME NEW st, NEW c \in Nat, st \in Seq(Block),
           \A k \in DOMAIN st : /\ HasRead(st[k]) /\ ~Fresh(st[k])
                                /\ Nodes[<<ListBegins(st, k - 1), st[k].open>>],
           NEW b, HasRead(b), b.section = c, Nodes[<<ListBegins(st, Len(st)), b.open>>]
    PROVE  Nesting(Append(st, b), c + 1)
<1> DEFINE us == Append(st, b)
<1>1. b \in Block
  BY DEF HasRead
<1>2. /\ us \in Seq(Block) /\ Len(us) = Len(st) + 1 /\ Len(st) \in Nat
      /\ DOMAIN us = 1 .. Len(st) + 1 /\ DOMAIN st = 1 .. Len(st)
      /\ \A k \in 1 .. Len(st) : us[k] = st[k]
      /\ us[Len(st) + 1] = b
  BY <1>1
<1> HIDE DEF us
<1>3. \A k \in 0 .. Len(st) : ListBegins(us, k) = ListBegins(st, k)
  BY <1>2 DEF ListBegins
<1>4. ListBegins(us, Len(us)) = c + 1
  <2>1. Len(us) # 0
    BY <1>2
  <2> QED
    BY <1>2, <2>1 DEF ListBegins
<1>5. ASSUME NEW k \in DOMAIN us
      PROVE  /\ HasRead(us[k])
             /\ Nodes[<<ListBegins(us, k - 1), us[k].open>>]
             /\ Fresh(us[k]) => k = Len(us) /\ c + 1 = us[k].open + 1
  <2>1. CASE k = Len(st) + 1
    <3>1. k - 1 = Len(st) /\ us[k] = b /\ k = Len(us)
      BY <1>2, <2>1
    <3>2. ListBegins(us, k - 1) = ListBegins(st, Len(st))
      BY <1>2, <1>3, <3>1
    <3>3. Fresh(b) => c = b.open
      BY DEF Fresh
    <3> QED
      BY <3>1, <3>2, <3>3
  <2>2. CASE k # Len(st) + 1
    <3>1. k \in DOMAIN st /\ us[k] = st[k] /\ k - 1 \in 0 .. Len(st)
      BY <1>2, <2>2
    <3> QED
      BY <1>3, <3>1
  <2> QED
    BY <2>1, <2>2
<1>6. Nodes[<<ListBegins(us, Len(us)), c + 1>>]
  BY <1>4, EmptyList
<1>7. Nesting(us, c + 1)
  BY <1>2, <1>5, <1>6 DEF Nesting
<1> QED
  BY <1>7 DEF us

(* A block begins.                                                         *)
LEMMA NestOpen ==
    ASSUME NEW st, NEW c \in Nat, Nesting(st, c),
           \A k \in DOMAIN st : ~Fresh(st[k]),
           tokens[c].tok = "tag", IsOpening(tokens[c]), HeaderOK(tokens[c]),
           NEW b \in Block, b.kw = Word(c), b.open = c, b.section = c
    PROVE  Nesting(Append(st, b), c + 1)
<1>1. PartsRead(b, {})
  <2>1. Parted(c, {})
    BY DEF Parted
  <2>2. ASSUME NEW i \in {c}, NEW j \in {c} PROVE ~Adjacent({c}, i, j)
    BY DEF Adjacent
  <2>3. {} \cup {b.open} = {c}
    OBVIOUS
  <2> QED
    BY <2>1, <2>2, <2>3 DEF PartsRead
<1>2. HasRead(b)
  <2>1. {} \in SUBSET (b.open + 1 .. b.section) /\ b.open <= b.section
    OBVIOUS
  <2> QED
    BY <1>1, <2>1 DEF HasRead
<1> QED
  BY <1>2, NestOn DEF Nesting

(* The stack without its innermost block.                                  *)
LEMMA NestFront ==
    ASSUME NEW st, NEW c, Nesting(st, c), st # << >>
    PROVE  /\ Front(st) \in Seq(Block) /\ Last(st) \in Block /\ HasRead(Last(st))
           /\ Nodes[<<ListBegins(Front(st), Len(Front(st))), Last(st).open>>]
           /\ Nodes[<<Last(st).section + 1, c>>]
           /\ Fresh(Last(st)) => c = Last(st).open + 1
           /\ \A k \in DOMAIN Front(st) :
                 /\ HasRead(Front(st)[k]) /\ ~Fresh(Front(st)[k])
                 /\ Nodes[<<ListBegins(Front(st), k - 1), Front(st)[k].open>>]
<1> DEFINE us == Front(st)
           n == Len(st)
<1>1. /\ st \in Seq(Block) /\ n \in Nat \ {0} /\ DOMAIN st = 1 .. n
      /\ us \in Seq(Block) /\ Len(us) = n - 1 /\ DOMAIN us = 1 .. n - 1
      /\ \A k \in 1 .. n - 1 : us[k] = st[k]
      /\ Last(st) = st[n]
  <2>1. st \in Seq(Block)
    BY DEF Nesting
  <2>2. n \in Nat \ {0} /\ DOMAIN st = 1 .. n /\ Last(st) = st[n]
    BY <2>1 DEF Last
  <2>3. /\ us \in Seq(Block) /\ Len(us) = n - 1 /\ DOMAIN us = 1 .. n - 1
        /\ \A k \in 1 .. n - 1 : us[k] = st[k]
    BY <2>1, <2>2 DEF Front
  <2> QED
    BY <2>1, <2>2, <2>3
<1> HIDE DEF us
<1>2. \A k \in 0 .. n - 1 : ListBegins(us, k) = ListBegins(st, k)
  BY <1>1 DEF ListBegins
<1>3. \A k \in 1 .. n : /\ HasRead(st[k])
                        /\ Nodes[<<ListBegins(st, k - 1), st[k].open>>]
                        /\ Fresh(st[k]) => k = n /\ c = st[k].open + 1
  BY <1>1 DEF Nesting
<1>4. ListBegins(st, n) = st[n].section + 1 /\ Nodes[<<ListBegins(st, n), c>>]
  BY <1>1 DEF ListBegins, Nesting
<1>5. n \in 1 .. n /\ n - 1 \in 0 .. n - 1 /\ st[n] \in Block
  BY <1>1
<1>6. Nodes[<<ListBegins(us, Len(us)), st[n].open>>]
  BY <1>1, <1>2, <1>3, <1>5
<1>7. ASSUME NEW k \in DOMAIN us
      PROVE  /\ HasRead(us[k]) /\ ~Fresh(us[k])
             /\ Nodes[<<ListBegins(us, k - 1), us[k].open>>]
  <2>1. k \in 1 .. n /\ k # n /\ us[k] = st[k] /\ k - 1 \in 0 .. n - 1
    BY <1>1
  <2> QED
    BY <1>2, <1>3, <2>1
<1> QED
  BY <1>1, <1>3, <1>4, <1>5, <1>6, <1>7 DEF us

(* The next part of the innermost block begins.                            *)
LEMMA NestSection ==
    ASSUME NEW st, NEW c \in Nat, Nesting(st, c), st # << >>, Last(st).section < c,
           Word(c) \in MayFollow(Last(st)), HeaderOK(tokens[c]),
           NEW b \in Block, b.kw = Last(st).kw, b.open = Last(st).open, b.section = c
    PROVE  Nesting(Append(Front(st), b), c + 1)
<1> DEFINE top == Last(st)
<1>1. /\ top \in Block /\ HasRead(top) /\ Nodes[<<top.section + 1, c>>]
      /\ Fresh(top) => c = top.open + 1
  BY NestFront
<1> HIDE DEF top
<1>2. /\ b.kw = top.kw /\ b.open = top.open /\ top.section < c
      /\ Word(c) \in MayFollow(top)
  BY DEF top
<1>3. top.open \in Nat /\ top.section \in Nat
  BY <1>1 DEF Block
<1>4. /\ top.open <= top.section
      /\ tokens[top.open].tok = "tag" /\ top.kw = Word(top.open)
      /\ IsOpening(tokens[top.open]) /\ HeaderOK(tokens[top.open])
  BY <1>1 DEF HasRead
<1>5. PICK parts \in SUBSET (top.open + 1 .. top.section) : PartsRead(top, parts)
  BY <1>1 DEF HasRead
<1>6. /\ top.section \in parts \cup {top.open} /\ Parted(top.open, parts)
      /\ \A k \in parts : HeaderOK(tokens[k])
      /\ \A i, j \in parts \cup {top.open} :
            Adjacent(parts \cup {top.open}, i, j) => Nodes[<<i + 1, j>>]
  BY <1>5 DEF PartsRead
<1> DEFINE more == parts \cup {c}
<1>7. Parted(top.open, more)
  <2>1. top.kw = "switch" /\ top.section = top.open => c = top.open + 1
    BY <1>1 DEF Fresh
  <2> QED
    BY <1>2, <1>3, <1>4, <1>6, <2>1, PartsGrow
<1>8. ASSUME NEW i \in more \cup {top.open}, NEW j \in more \cup {top.open},
             Adjacent(more \cup {top.open}, i, j)
      PROVE  Nodes[<<i + 1, j>>]
  <2> DEFINE S == parts \cup {top.open}
  <2>1. S \in SUBSET Nat /\ \A k \in S : k <= top.section
    BY <1>3, <1>4
  <2>2. more \cup {top.open} = S \cup {c}
    OBVIOUS
  <2>3. top.section \in S
    BY <1>6
  <2> HIDE DEF S, more
  <2>4. i \in S \cup {c} /\ j \in S \cup {c} /\ Adjacent(S \cup {c}, i, j) /\ top.section < c
    BY <1>2, <1>8, <2>2
  <2>5. (i = top.section /\ j = c) \/ (i \in S /\ j \in S /\ Adjacent(S, i, j))
    BY <2>1, <2>3, <2>4, AdjacentNext
  <2> QED
    BY <1>1, <1>6, <2>5 DEF S
<1>9. more \in SUBSET (b.open + 1 .. b.section) /\ b.open <= b.section
  <2>1. top.open + 1 <= c /\ \A k \in parts : k \in top.open + 1 .. c
    BY <1>2, <1>3, <1>4
  <2>2. \A k \in more : k \in top.open + 1 .. c
    BY <2>1
  <2> HIDE DEF more
  <2> QED
    BY <1>2, <1>3, <2>1, <2>2
<1>10. PartsRead(b, more)
  <2>1. b.section \in more \cup {b.open} /\ \A k \in more : HeaderOK(tokens[k])
    BY <1>6
  <2> HIDE DEF more
  <2> QED
    BY <1>2, <1>7, <1>8, <2>1 DEF PartsRead
<1>11. HasRead(b)
  <2> HIDE DEF more
  <2> QED
    BY <1>2, <1>4, <1>9, <1>10 DEF HasRead
<1> QED
  BY <1>11, NestFront, NestOn

(* A block with its end is a node.                                         *)
LEMMA BlockIsNode ==
    ASSUME Registered, NEW b, HasRead(b), NEW c \in Nat, b.section < c,
           Nodes[<<b.section + 1, c>>], Fresh(b) => c = b.open + 1,
           tokens[c].tok = "tag", Word(c) = EndTag(b.kw),
           Word(c) = "endblock" => tokens[c].body.names \in {<< >>, tokens[b.open].body.names}
    PROVE  IsNode(Nodes, b.open, c + 1)
<1>1. /\ b \in Block /\ b.open <= b.section
      /\ tokens[b.open].tok = "tag" /\ b.kw = Word(b.open)
      /\ IsOpening(tokens[b.open]) /\ HeaderOK(tokens[b.open])
  BY DEF HasRead
<1>2. b.open \in Nat /\ b.section \in Nat
  BY <1>1 DEF Block
<1>3. PICK parts \in SUBSET (b.open + 1 .. b.section) : PartsRead(b, parts)
  BY DEF HasRead
<1>4. /\ b.section \in parts \cup {b.open} /\ Parted(b.open, parts)
      /\ \A k \in parts : HeaderOK(tokens[k])
      /\ \A i, j \in parts \cup {b.open} :
            Adjacent(parts \cup {b.open}, i, j) => Nodes[<<i + 1, j>>]
  BY <1>3 DEF PartsRead
<1>5. Ended(b.open, parts, c)
  <2>1. ASSUME b.kw = "switch" PROVE b.open + 1 \in parts \cup {c}
    <3>1. parts # {} => b.open + 1 \in parts
      BY <1>1, <1>4, <2>1 DEF Parted
    <3>2. parts = {} => Fresh(b)
      BY <1>4, <2>1 DEF Fresh
    <3> QED
      BY <3>1, <3>2
  <2> QED
    BY <1>1, <2>1 DEF Ended
<1>6. IsBlock(b.open, parts, c)
  BY <1>1, <1>4, <1>5, BlockMade
<1>7. ASSUME NEW i \in parts \cup {b.open, c}, NEW j \in parts \cup {b.open, c},
             Adjacent(parts \cup {b.open, c}, i, j)
      PROVE  Nodes[<<i + 1, j>>]
  <2> DEFINE S == parts \cup {b.open}
  <2>1. S \in SUBSET Nat /\ \A k \in S : k <= b.section
    BY <1>1, <1>2
  <2>2. parts \cup {b.open, c} = S \cup {c}
    OBVIOUS
  <2>3. b.section \in S
    BY <1>4
  <2> HIDE DEF S
  <2>4. i \in S \cup {c} /\ j \in S \cup {c} /\ Adjacent(S \cup {c}, i, j)
    BY <1>7, <2>2
  <2>5. (i = b.section /\ j = c) \/ (i \in S /\ j \in S /\ Adjacent(S, i, j))
    BY <2>1, <2>3, <2>4, AdjacentNext
  <2> QED
    BY <1>4, <2>5 DEF S
<1>8. \A k \in parts : Word(k) \in Sections
  <2>1. {"elif", "elseif", "else", "case", "default"} \subseteq Sections
    BY DEF Sections
  <2> QED
    BY <1>4, <2>1 DEF Parted
<1>9. parts \in SUBSET {k \in b.open + 1 .. (c + 1) - 2 : Word(k) \in Sections}
  BY <1>2, <1>8
<1>10. (c + 1) - 1 = c /\ c + 1 > b.open + 1
  BY <1>1, <1>2
<1> HIDE DEF PartsRead
<1> QED
  BY <1>1, <1>6, <1>7, <1>9, <1>10, Zenon DEF IsNode

(* The innermost block ends.                                               *)
LEMMA NestClose ==
    ASSUME Registered, NEW st, NEW c \in Nat, Nesting(st, c), st # << >>,
           Last(st).section < c, tokens[c].tok = "tag", Word(c) = EndTag(Last(st).kw),
           Word(c) = "endblock" =>
              tokens[c].body.names \in {<< >>, tokens[Last(st).open].body.names}
    PROVE  Nesting(Front(st), c + 1)
<1> DEFINE us == Front(st)
           top == Last(st)
<1>1. /\ us \in Seq(Block) /\ top \in Block /\ HasRead(top)
      /\ Nodes[<<ListBegins(us, Len(us)), top.open>>]
      /\ Nodes[<<top.section + 1, c>>]
      /\ Fresh(top) => c = top.open + 1
      /\ \A k \in DOMAIN us :
            /\ HasRead(us[k]) /\ ~Fresh(us[k])
            /\ Nodes[<<ListBegins(us, k - 1), us[k].open>>]
  BY NestFront
<1>2. IsNode(Nodes, top.open, c + 1)
  BY <1>1, BlockIsNode
<1> HIDE DEF us, top
<1>3. Nesting(us, top.open)
  BY <1>1 DEF Nesting
<1>4. top.open \in Nat /\ c + 1 \in Nat
  BY <1>1 DEF Block
<1>5. Nesting(us, c + 1)
  BY <1>1, <1>2, <1>3, <1>4, NestNode
<1> QED
  BY <1>5 DEF us
-----------------------------------------------------------------------------
(* The invariant of what was read.                                         *)
GrammarInv ==
    /\ Registered
    /\ Nesting(stack, cursor)
    /\ outcome = "ok" => stack = << >> /\ cursor = Len(tokens) + 1
    /\ \A j \in DOMAIN ast : /\ ast[j].in \in Nat /\ ast[j].in < j
                             /\ Nodes[<<ast[j].in + 1, j>>]

(* What the parser has nested stays so while tokens and registry do.       *)
LEMMA NestingStays ==
    ASSUME tokens' = tokens, registry' = registry, NEW st, NEW c \in Nat, Nesting(st, c)
    PROVE  Nesting(st, c)'
<1>1. \A x, y \in Nat : Nodes'[<<x, y>>] <=> Nodes[<<x, y>>]
  BY NodesStay
<1>2. ASSUME NEW block, HasRead(block) PROVE HasRead(block)'
  <2>1. block \in Block /\ block.open <= block.section
        /\ tokens[block.open].tok = "tag" /\ block.kw = Word(block.open)
        /\ IsOpening(tokens[block.open]) /\ HeaderOK(tokens[block.open])
    BY <1>2 DEF HasRead
  <2>2. block.open \in Nat /\ block.section \in Nat
    BY <2>1 DEF Block
  <2>3. PICK parts \in SUBSET (block.open + 1 .. block.section) : PartsRead(block, parts)
    BY <1>2 DEF HasRead
  <2>4. PartsRead(block, parts)'
    <3>1. /\ block.section \in parts \cup {block.open} /\ Parted(block.open, parts)
          /\ \A k \in parts : HeaderOK(tokens[k])
          /\ \A i, j \in parts \cup {block.open} :
                Adjacent(parts \cup {block.open}, i, j) => Nodes[<<i + 1, j>>]
      BY <2>3 DEF PartsRead
    <3>2. \A i, j \in parts \cup {block.open} : i + 1 \in Nat /\ j \in Nat
      BY <2>2
    <3>3. \A i, j \in parts \cup {block.open} :
                Adjacent(parts \cup {block.open}, i, j) => Nodes'[<<i + 1, j>>]
      BY <1>1, <3>1, <3>2
    <3>4. Parted(block.open, parts)'
      BY <3>1, WordsStay
    <3>5. \A k \in parts : HeaderOK(tokens[k])'
      BY <3>1
    <3> QED
      BY <3>1, <3>3, <3>4, <3>5 DEF PartsRead
  <2>5. Word(block.open)' = Word(block.open) /\ IsOpening(tokens[block.open])'
        /\ HeaderOK(tokens[block.open])'
    BY <2>1, WordsStay
  <2> QED
    BY <2>1, <2>3, <2>4, <2>5 DEF HasRead
<1>3. /\ st \in Seq(Block)
      /\ \A k \in DOMAIN st : /\ HasRead(st[k])
                              /\ Nodes[<<ListBegins(st, k - 1), st[k].open>>]
                              /\ Fresh(st[k]) => k = Len(st) /\ c = st[k].open + 1
      /\ Nodes[<<ListBegins(st, Len(st)), c>>]
  BY DEF Nesting
<1>4. \A k \in 0 .. Len(st) : ListBegins(st, k) \in Nat
  BY <1>3, BeginsIs
<1>5. ASSUME NEW k \in DOMAIN st PROVE Nodes'[<<ListBegins(st, k - 1), st[k].open>>]
  <2>1. st[k] \in Block /\ k - 1 \in 0 .. Len(st)
    BY <1>3
  <2>2. st[k].open \in Nat
    BY <2>1 DEF Block
  <2> QED
    BY <1>1, <1>3, <1>4, <2>1, <2>2
<1>6. Len(st) \in 0 .. Len(st)
  BY <1>3
<1>7. Nodes'[<<ListBegins(st, Len(st)), c>>]
  BY <1>1, <1>3, <1>4, <1>6
<1>8. \A k \in DOMAIN st : HasRead(st[k])'
  BY <1>2, <1>3
<1> QED
  BY <1>3, <1>5, <1>7, <1>8 DEF Nesting

(* Section is where the innermost list begins.                             *)
LEMMA SectionIs == Section + 1 = ListBegins(stack, Len(stack)) \/ stack \notin Seq(Block)
<1> SUFFICES ASSUME stack \in Seq(Block) PROVE Section + 1 = ListBegins(stack, Len(stack))
  OBVIOUS
<1>1. stack = << >> <=> Len(stack) = 0
  OBVIOUS
<1> QED
  BY <1>1 DEF Section, ListBegins, Top, Last

(* What a step that takes a token leaves.                                  *)
LEMMA TakenNests ==
    ASSUME IInv, GrammarInv, More, Taken, Nesting(stack', cursor + 1)
    PROVE  GrammarInv'
<1>1. Parsing /\ tokens' = tokens /\ registry' = registry /\ cursor' = cursor + 1
      /\ outcome' = outcome
      /\ ast' = Append(ast, [in |-> Section, value |-> Expression(Token).value])
  BY DEF Taken, More, lexer
<1>2. cursor \in Nat \ {0} /\ outcome = "on" /\ Stacked(stack, cursor, tokens)
  BY <1>1, ParsingNow
<1>3. PICK S : ast \in Seq(S)
  BY DEF IInv, ParseInv
<1>4. Len(ast) = cursor - 1
  BY DEF IInv, ParseInv
<1>5. \A x, y \in Nat : Nodes'[<<x, y>>] <=> Nodes[<<x, y>>]
  BY <1>1, NodesStay
<1>6. Section \in Nat /\ Section < cursor /\ Nodes[<<Section + 1, cursor>>]
  <2>1. stack \in Seq(Block)
    BY <1>2 DEF Stacked
  <2>2. Nodes[<<Section + 1, cursor>>]
    BY <2>1, SectionIs DEF GrammarInv, Nesting
  <2>3. CASE stack = << >>
    BY <1>2, <2>2, <2>3 DEF Section
  <2>4. CASE stack # << >>
    <3>1. Len(stack) \in DOMAIN stack /\ Section = stack[Len(stack)].section
      BY <2>1, <2>4 DEF Section, Top, Last
    <3>2. stack[Len(stack)].section < cursor
      BY <1>2, <3>1 DEF Stacked
    <3>3. stack[Len(stack)] \in Block
      BY <2>1, <3>1
    <3> QED
      BY <2>2, <3>1, <3>2, <3>3 DEF Block
  <2> QED
    BY <2>3, <2>4
<1>7. ASSUME NEW j \in DOMAIN ast'
      PROVE  /\ ast'[j].in \in Nat /\ ast'[j].in < j
             /\ Nodes'[<<ast'[j].in + 1, j>>]
  <2> DEFINE v == [in |-> Section, value |-> Expression(Token).value]
  <2>1. v.in = Section
    OBVIOUS
  <2> HIDE DEF v
  <2>2. /\ DOMAIN ast' = 1 .. cursor /\ ast'[cursor] = v
        /\ \A k \in 1 .. cursor - 1 : ast'[k] = ast[k] /\ k \in DOMAIN ast
    <3>1. ast' = Append(ast, v)
      BY <1>1 DEF v
    <3>2. DOMAIN ast = 1 .. cursor - 1 /\ ast \in Seq(S \cup {v})
      BY <1>3, <1>4
    <3> QED
      BY <1>2, <1>4, <3>1, <3>2
  <2>3. CASE j = cursor
    BY <1>2, <1>5, <1>6, <2>1, <2>2, <2>3
  <2>4. CASE j # cursor
    <3>1. j \in 1 .. cursor - 1
      BY <1>2, <2>2, <2>4
    <3>2. /\ ast[j].in \in Nat /\ ast[j].in < j /\ Nodes[<<ast[j].in + 1, j>>]
          /\ ast'[j] = ast[j]
      BY <2>2, <3>1 DEF GrammarInv
    <3>3. j \in Nat /\ ast[j].in + 1 \in Nat
      BY <3>1, <3>2
    <3> QED
      BY <1>5, <3>2, <3>3
  <2> QED
    BY <2>3, <2>4
<1>8. Nesting(stack, cursor)'
  <2>1. Nesting(stack', cursor') /\ cursor' \in Nat
    BY <1>1, <1>2
  <2>2. ASSUME NEW st, NEW c \in Nat, Nesting(st, c) PROVE Nesting(st, c)'
    BY <1>1, <2>2, NestingStays
  <2> QED
    BY <2>1, <2>2
<1>9. Registered'
  BY <1>1 DEF GrammarInv, Registered
<1> QED
  BY <1>1, <1>2, <1>7, <1>8, <1>9 DEF GrammarInv

(* The keyword at the cursor is the word of its token.                     *)
LEMMA KeywordIs == Keyword = Word(cursor)
  BY DEF Keyword, Token, Word

(* Outside the head of a switch no block waits for its first section.      *)
LEMMA NoneFresh ==
    ASSUME Nesting(stack, cursor), In({"switch"}) => Top.section # Top.open
    PROVE  \A k \in DOMAIN stack : ~Fresh(stack[k])
<1> SUFFICES ASSUME NEW k \in DOMAIN stack, Fresh(stack[k]) PROVE FALSE
  OBVIOUS
<1>1. stack \in Seq(Block) /\ k = Len(stack)
  BY DEF Nesting
<1>2. stack # << >> /\ Top = stack[k]
  BY <1>1 DEF Top, Last
<1> QED
  BY <1>2 DEF Fresh, In

(* The innermost block.                                                    *)
LEMMA TopIs ==
    ASSUME IInv, Parsing, stack # << >>
    PROVE  Top \in Block /\ Top.section < cursor
<1>1. Stacked(stack, cursor, tokens)
  BY ParsingNow
<1>2. stack \in Seq(Block)
  BY <1>1 DEF Stacked
<1>3. Len(stack) \in DOMAIN stack /\ Top = stack[Len(stack)]
  BY <1>2 DEF Top, Last
<1> QED
  BY <1>1, <1>2, <1>3 DEF Stacked

(* ParseLeaf.                                                              *)
LEMMA LeafNests == IInv /\ GrammarInv /\ ParseLeaf => GrammarInv'
<1> SUFFICES ASSUME IInv, GrammarInv, ParseLeaf PROVE GrammarInv'
  OBVIOUS
<1>1. /\ More /\ Parsing /\ Taken /\ stack' = stack
      /\ (AtNode /\ IsLeaf(Token) /\ HeaderOK(Token)) \/ AtRawText
  BY DEF ParseLeaf, More
<1>2. cursor \in Nat
  BY <1>1, ParsingNow
<1>3. IsLeaf(tokens[cursor]) /\ HeaderOK(tokens[cursor])
  <2>1. CASE AtRawText
    <3>1. tokens[cursor].tok = "text"
      BY <2>1 DEF AtRawText, Token
    <3> QED
      BY <3>1 DEF IsLeaf, HeaderOK, NeedsExpression
  <2> QED
    BY <1>1, <2>1 DEF Token
<1>4. In({"switch"}) => Top.section # Top.open
  BY <1>1 DEF AtNode, AtRawText, In
<1>5. IsNode(Nodes, cursor, cursor + 1)
  BY <1>3 DEF IsNode
<1>6. Nesting(stack, cursor + 1)
  BY <1>2, <1>4, <1>5, NoneFresh, NestNode DEF GrammarInv
<1> QED
  BY <1>1, <1>6, TakenNests

(* OpenBlock.                                                              *)
LEMMA OpenNests == IInv /\ GrammarInv /\ OpenBlock => GrammarInv'
<1> SUFFICES ASSUME IInv, GrammarInv, OpenBlock PROVE GrammarInv'
  OBVIOUS
<1> DEFINE b == [kw |-> Keyword, open |-> cursor, section |-> cursor]
<1>1. /\ More /\ Parsing /\ Taken /\ stack' = Append(stack, b)
      /\ AtNode /\ IsOpening(tokens[cursor]) /\ HeaderOK(tokens[cursor])
      /\ cursor <= Len(tokens)
  BY DEF OpenBlock, More, Token
<1>2. cursor \in Nat \ {0} /\ tokens \in Seq(AnyToken)
  BY <1>1, ParsingNow
<1>3. tokens[cursor].tok = "tag"
  BY <1>1 DEF IsOpening
<1>4. b \in Block
  <2>1. tokens[cursor] \in AnyToken
    BY <1>1, <1>2
  <2>2. tokens[cursor].body \in Body
    BY <1>3, <2>1, TokenIs
  <2>3. Keyword \in STRING
    BY <1>3, <2>2 DEF Keyword, Token, Body
  <2> QED
    BY <1>2, <2>3 DEF Block
<1>5. b.kw = Word(cursor) /\ b.open = cursor /\ b.section = cursor
  BY KeywordIs
<1> HIDE DEF b
<1>6. \A k \in DOMAIN stack : ~Fresh(stack[k])
  BY <1>1, NoneFresh DEF GrammarInv, AtNode
<1>7. Nesting(stack', cursor + 1)
  BY <1>1, <1>2, <1>3, <1>4, <1>5, <1>6, NestOpen DEF GrammarInv
<1> QED
  BY <1>1, <1>7, TakenNests

(* NextSection.                                                            *)
LEMMA SectionNests == IInv /\ GrammarInv /\ NextSection => GrammarInv'
<1> SUFFICES ASSUME IInv, GrammarInv, NextSection PROVE GrammarInv'
  OBVIOUS
<1> DEFINE b == [Top EXCEPT !.section = cursor]
<1>1. /\ More /\ Parsing /\ Taken /\ stack' = Append(Front(stack), b)
      /\ stack # << >> /\ Word(cursor) \in MayFollow(Top)
      /\ HeaderOK(tokens[cursor])
  BY KeywordIs DEF NextSection, More, AtSection, Token
<1>2. cursor \in Nat \ {0}
  BY <1>1, ParsingNow
<1>3. Top \in Block /\ Top.section < cursor
  BY <1>1, TopIs
<1>4. b \in Block /\ b.kw = Top.kw /\ b.open = Top.open /\ b.section = cursor
  BY <1>2, <1>3 DEF Block
<1> HIDE DEF b
<1>5. Nesting(stack', cursor + 1)
  BY <1>1, <1>2, <1>3, <1>4, NestSection DEF GrammarInv, Top
<1> QED
  BY <1>1, <1>5, TakenNests

(* CloseBlock.                                                             *)
LEMMA CloseNests == IInv /\ GrammarInv /\ CloseBlock => GrammarInv'
<1> SUFFICES ASSUME IInv, GrammarInv, CloseBlock PROVE GrammarInv'
  OBVIOUS
<1>1. /\ More /\ Parsing /\ Taken /\ stack' = Front(stack)
      /\ stack # << >> /\ tokens[cursor].tok = "tag" /\ Word(cursor) = EndTag(Top.kw)
      /\ NameRepeated
  BY KeywordIs DEF CloseBlock, More, AtEnd, Token
<1>2. cursor \in Nat
  BY <1>1, ParsingNow
<1>3. Top.section < cursor
  BY <1>1, TopIs
<1>4. Word(cursor) = "endblock" =>
         tokens[cursor].body.names \in {<< >>, tokens[Top.open].body.names}
  BY <1>1, KeywordIs DEF NameRepeated, Token
<1>5. Nesting(stack', cursor + 1)
  BY <1>1, <1>2, <1>3, <1>4, NestClose DEF GrammarInv, Top
<1> QED
  BY <1>1, <1>5, TakenNests

(* The other steps leave the parser where it is.                           *)
LEMMA StayNests ==
    ASSUME GrammarInv, UNCHANGED <<tokens, registry, cursor, stack, ast>>, cursor \in Nat,
           outcome' = "ok" => stack = << >> /\ cursor = Len(tokens) + 1,
           \E S : ast \in Seq(S)
    PROVE  GrammarInv'
<1>1. tokens' = tokens /\ registry' = registry /\ cursor' = cursor /\ stack' = stack /\ ast' = ast
  OBVIOUS
<1>2. Nesting(stack, cursor)'
  <2>1. Nesting(stack', cursor') /\ cursor' \in Nat
    BY <1>1 DEF GrammarInv
  <2>2. ASSUME NEW st, NEW c \in Nat, Nesting(st, c) PROVE Nesting(st, c)'
    BY <1>1, <2>2, NestingStays
  <2> QED
    BY <2>1, <2>2
<1>3. \A j \in DOMAIN ast : /\ ast[j].in \in Nat /\ ast[j].in < j
                            /\ Nodes'[<<ast[j].in + 1, j>>]
  <2>1. \A x, y \in Nat : Nodes'[<<x, y>>] <=> Nodes[<<x, y>>]
    BY <1>1, NodesStay
  <2>2. \A j \in DOMAIN ast : j \in Nat
    OBVIOUS
  <2>3. \A j \in DOMAIN ast : ast[j].in + 1 \in Nat /\ Nodes[<<ast[j].in + 1, j>>]
                              /\ ast[j].in \in Nat /\ ast[j].in < j
    BY DEF GrammarInv
  <2> QED
    BY <2>1, <2>2, <2>3
<1>4. Registered'
  BY <1>1 DEF GrammarInv, Registered
<1> QED
  BY <1>1, <1>2, <1>3, <1>4 DEF GrammarInv

(* An error leaves everything but the outcome.                             *)
LEMMA RejectNests == IInv /\ GrammarInv /\ Reject => GrammarInv'
<1> SUFFICES ASSUME IInv, GrammarInv, Reject PROVE GrammarInv'
  OBVIOUS
<1>1. /\ UNCHANGED <<tokens, registry, cursor, stack, ast>> /\ outcome' = "error" /\ Parsing
  BY DEF Reject, lexer, More
<1>2. cursor \in Nat /\ \E S : ast \in Seq(S)
  BY <1>1, ParsingNow DEF IInv, ParseInv
<1> QED
  BY <1>1, <1>2, StayNests

(* At the end of the tokens, nothing open is a list of nodes read.         *)
LEMMA FinishNests == IInv /\ GrammarInv /\ Finish => GrammarInv'
<1> SUFFICES ASSUME IInv, GrammarInv, Finish PROVE GrammarInv'
  OBVIOUS
<1>1. /\ UNCHANGED <<tokens, registry, cursor, stack, ast>> /\ Parsing /\ cursor > Len(tokens)
  BY DEF Finish, lexer
<1>2. cursor \in Nat /\ \E S : ast \in Seq(S)
  BY <1>1, ParsingNow DEF IInv, ParseInv
<1>3. cursor = Len(tokens) + 1
  BY <1>1, ParsingNow
<1>4. outcome' = "ok" => stack = << >>
  <2>1. outcome' = CASE stack = << >>    -> "ok"
                     [] In({"block"})    -> "panic"
                     [] OTHER            -> "error"
    BY DEF Finish
  <2> QED
    BY <2>1 DEF In
<1> QED
  BY <1>1, <1>2, <1>3, <1>4, StayNests

(* A stutter changes nothing.                                              *)
LEMMA StutterNests == IInv /\ GrammarInv /\ UNCHANGED vars => GrammarInv'
<1> SUFFICES ASSUME IInv, GrammarInv, UNCHANGED vars PROVE GrammarInv'
  OBVIOUS
<1>1. /\ UNCHANGED <<tokens, registry, cursor, stack, ast>> /\ outcome' = outcome
  BY DEF vars, lexer, parser
<1>2. cursor \in 1 .. Len(tokens) + 1 /\ \E S : ast \in Seq(S)
  BY DEF IInv, ParseInv
<1>3. outcome' = "ok" => stack = << >> /\ cursor = Len(tokens) + 1
  BY <1>1 DEF GrammarInv
<1> QED
  BY <1>1, <1>2, <1>3, StayNests

(* A parser that has not begun.                                            *)
LEMMA BeginNests ==
    ASSUME Registered, cursor = 1, stack = << >>, DOMAIN ast = {}, outcome = "on"
    PROVE  GrammarInv
<1>1. ListBegins(<< >>, Len(<< >>)) = 1 /\ DOMAIN << >> = {} /\ << >> \in Seq(Block)
  BY DEF ListBegins
<1>2. Nodes[<<1, 1>>]
  BY EmptyList
<1>3. Nesting(<< >>, 1)
  BY <1>1, <1>2 DEF Nesting
<1> QED
  BY <1>3 DEF GrammarInv

(* While the lexer runs, the parser has read nothing.                      *)
LEMMA LexingNests == IInv /\ GrammarInv /\ Lexing => GrammarInv'
<1> SUFFICES ASSUME IInv, GrammarInv, Lexing PROVE GrammarInv'
  OBVIOUS
<1>1. LexNext /\ cursor' = cursor /\ stack' = stack /\ ast' = ast /\ outcome' = outcome
      /\ registry' = registry
  BY DEF Lexing, parser
<1>2. lexing # "done"
  BY <1>1 DEF LexNext, RestIsText, SkipComment, TakeTag, TakeVariable, TextBefore, TakeRaw,
              TakePending, Unclosed, EndOfInput, At, Normal, Reading
<1>3. /\ cursor = 1 /\ stack = << >> /\ outcome = "on" /\ Len(ast) = cursor - 1
      /\ \E S : ast \in Seq(S)
  BY <1>2 DEF IInv, ParseInv
<1>4. DOMAIN ast = {}
  BY <1>3
<1>5. Registered' /\ cursor' = 1 /\ stack' = << >> /\ DOMAIN ast' = {} /\ outcome' = "on"
  BY <1>1, <1>3, <1>4 DEF GrammarInv, Registered
<1>6. (Registered /\ cursor = 1 /\ stack = << >> /\ DOMAIN ast = {} /\ outcome = "on"
         => GrammarInv)'
  BY BeginNests, PTL
<1> QED
  BY <1>5, <1>6

(* Before the first token, nothing is to be said.                          *)
LEMMA InitNests == Init => GrammarInv
<1> SUFFICES ASSUME Init PROVE GrammarInv
  OBVIOUS
<1>1. cursor = 1 /\ stack = << >> /\ ast = << >> /\ outcome = "on"
  BY DEF Init, ParseInit
<1>2. Registered
  BY InputsAreSources DEF Init, ParseInit, Registered
<1> QED
  BY <1>1, <1>2, BeginNests

(* Every step keeps what the parser has read a part of the grammar.        *)
LEMMA GrammarStep == IInv /\ GrammarInv /\ [Next]_vars => GrammarInv'
  BY LeafNests, OpenNests, SectionNests, CloseNests, RejectNests, FinishNests, LexingNests,
     StutterNests DEF Next, ParseNext

(* What the parser has read is always a part of the grammar.               *)
LEMMA GrammarAlways == Spec => []GrammarInv
  BY InitNests, GrammarStep, Inductive, PTL DEF Spec

(* Every token of a tree is in the list of nodes that it belongs to, even  *)
(* of a tree that was given up: between the tag that begins the list and   *)
(* the token there are complete nodes only.                                *)
THEOREM TreesNest == Spec => []TreeNests
<1>1. GrammarInv => TreeNests
  BY DEF GrammarInv, TreeNests
<1> QED
  BY <1>1, GrammarAlways, PTL
-----------------------------------------------------------------------------
(* What is still to be read of a template of the grammar.                  *)

(* A block that ends at e and whose tags are at parts, when what was read  *)
(* of its innermost list, that after section, ends before r.               *)
UnreadIn(block, r, e, parts) ==
    /\ e \in DOMAIN tokens /\ block.section < e
    /\ tokens[e].tok = "tag"
    /\ IsBlock(block.open, parts, e)
    /\ block.section \in parts \cup {block.open}
    /\ \A i, j \in parts \cup {block.open, e} :
          Adjacent(parts \cup {block.open, e}, i, j) /\ block.section <= i =>
             Nodes[<<IF i = block.section THEN r ELSE i + 1, j>>]

Unread(block, r, e) == \E parts \in SUBSET (block.open + 1 .. e - 1) : UnreadIn(block, r, e, parts)

(* Where the rest of a list begins when the blocks end at ends.            *)
Resumes(ends, c, k) == IF k = Len(ends) THEN c ELSE ends[k + 1] + 1

AheadTo(ends, st, c) ==
    /\ Len(ends) = Len(st)
    /\ Nodes[<<Resumes(ends, c, 0), Len(tokens) + 1>>]
    /\ \A k \in DOMAIN st : Unread(st[k], Resumes(ends, c, k), ends[k])

(* The blocks that are open and the tokens from c on are the rest of a     *)
(* template.                                                               *)
Ahead(st, c) == \E ends \in Seq(Nat) : AheadTo(ends, st, c)

(* With nothing open, the rest is to be a list of nodes.                   *)
LEMMA AheadRoot == \A c : Ahead(<< >>, c) <=> Nodes[<<c, Len(tokens) + 1>>]
<1> TAKE c
<1>1. << >> \in Seq(Nat) /\ Len(<< >>) = 0 /\ DOMAIN << >> = {}
  OBVIOUS
<1>2. ASSUME NEW ends \in Seq(Nat), Len(ends) = 0
      PROVE  AheadTo(ends, << >>, c) <=> Nodes[<<c, Len(tokens) + 1>>]
  BY <1>1, <1>2 DEF AheadTo, Resumes
<1>3. Nodes[<<c, Len(tokens) + 1>>] => Ahead(<< >>, c)
  BY <1>1, <1>2 DEF Ahead
<1>4. Ahead(<< >>, c) => Nodes[<<c, Len(tokens) + 1>>]
  <2> SUFFICES ASSUME NEW ends \in Seq(Nat), AheadTo(ends, << >>, c)
               PROVE  Nodes[<<c, Len(tokens) + 1>>]
    BY DEF Ahead
  <2>1. Len(ends) = 0
    BY <1>1 DEF AheadTo
  <2> QED
    BY <1>2, <2>1
<1> QED
  BY <1>3, <1>4

(* Without the innermost block, the rest begins after its end.             *)
LEMMA AheadFront ==
    ASSUME NEW st \in Seq(Block), NEW c, st # << >>, Ahead(st, c)
    PROVE  \E e \in Nat : Ahead(Front(st), e + 1) /\ Unread(Last(st), c, e)
<1>1. PICK ends \in Seq(Nat) : AheadTo(ends, st, c)
  BY DEF Ahead
<1> DEFINE n == Len(st)
           us == Front(st)
           fs == Front(ends)
           e == ends[n]
<1>2. /\ n \in Nat \ {0} /\ DOMAIN st = 1 .. n /\ Last(st) = st[n]
      /\ Len(ends) = n /\ DOMAIN ends = 1 .. n
      /\ Nodes[<<Resumes(ends, c, 0), Len(tokens) + 1>>]
      /\ \A k \in 1 .. n : Unread(st[k], Resumes(ends, c, k), ends[k])
  BY <1>1 DEF AheadTo, Last
<1>3. e \in Nat
  BY <1>2
<1>4. /\ us \in Seq(Block) /\ Len(us) = n - 1 /\ DOMAIN us = 1 .. n - 1
      /\ \A k \in 1 .. n - 1 : us[k] = st[k]
  BY <1>2 DEF Front
<1>5. /\ fs \in Seq(Nat) /\ Len(fs) = n - 1
      /\ \A k \in 1 .. n - 1 : fs[k] = ends[k]
  BY <1>2 DEF Front
<1> HIDE DEF us, fs, e, n
<1>6. ASSUME NEW k \in 0 .. n - 1
      PROVE  Resumes(fs, e + 1, k) = Resumes(ends, c, k)
  <2>1. CASE k = n - 1
    <3>1. k + 1 = n /\ k # Len(ends) /\ k = Len(fs)
      BY <1>2, <1>5, <2>1
    <3> QED
      BY <3>1 DEF Resumes, e
  <2>2. CASE k # n - 1
    <3>1. k + 1 \in 1 .. n - 1 /\ k # Len(ends) /\ k # Len(fs)
      BY <1>2, <1>5, <2>2
    <3> QED
      BY <1>5, <3>1 DEF Resumes
  <2> QED
    BY <2>1, <2>2
<1>7. 0 \in 0 .. n - 1 /\ n \in 1 .. n /\ \A k \in 1 .. n - 1 : k \in 0 .. n - 1 /\ k \in 1 .. n
  BY <1>2
<1>8. \A k \in 1 .. n - 1 : Unread(us[k], Resumes(fs, e + 1, k), fs[k])
  BY <1>2, <1>4, <1>5, <1>6, <1>7
<1>9. AheadTo(fs, us, e + 1)
  BY <1>2, <1>4, <1>5, <1>6, <1>7, <1>8 DEF AheadTo
<1>10. Unread(Last(st), c, e)
  <2>1. Resumes(ends, c, n) = c
    BY <1>2 DEF Resumes
  <2> QED
    BY <1>2, <1>7, <2>1 DEF e
<1>11. Ahead(us, e + 1)
  BY <1>5, <1>9 DEF Ahead
<1> QED
  BY <1>3, <1>10, <1>11 DEF us

(* And the other way round.                                                *)
LEMMA AheadAppend ==
    ASSUME NEW st \in Seq(Block), NEW c, NEW e \in Nat, Ahead(st, e + 1),
           NEW b \in Block, Unread(b, c, e)
    PROVE  Ahead(Append(st, b), c)
<1>1. PICK ends \in Seq(Nat) : AheadTo(ends, st, e + 1)
  BY DEF Ahead
<1> DEFINE n == Len(st)
           us == Append(st, b)
           fs == Append(ends, e)
<1>2. /\ n \in Nat /\ DOMAIN st = 1 .. n /\ Len(ends) = n
      /\ Nodes[<<Resumes(ends, e + 1, 0), Len(tokens) + 1>>]
      /\ \A k \in 1 .. n : Unread(st[k], Resumes(ends, e + 1, k), ends[k])
  BY <1>1 DEF AheadTo
<1>3. /\ Len(us) = n + 1 /\ DOMAIN us = 1 .. n + 1 /\ us[n + 1] = b
      /\ \A k \in 1 .. n : us[k] = st[k]
  OBVIOUS
<1>4. /\ fs \in Seq(Nat) /\ Len(fs) = n + 1 /\ fs[n + 1] = e
      /\ \A k \in 1 .. n : fs[k] = ends[k]
  BY <1>2
<1> HIDE DEF us, fs, n
<1>5. ASSUME NEW k \in 0 .. n
      PROVE  Resumes(fs, c, k) = Resumes(ends, e + 1, k)
  <2>1. CASE k = n
    <3>1. k = Len(ends) /\ k # Len(fs) /\ k + 1 = n + 1
      BY <1>2, <1>4, <2>1
    <3> QED
      BY <1>4, <3>1 DEF Resumes
  <2>2. CASE k # n
    <3>1. k + 1 \in 1 .. n /\ k # Len(ends) /\ k # Len(fs)
      BY <1>2, <1>4, <2>2
    <3> QED
      BY <1>4, <3>1 DEF Resumes
  <2> QED
    BY <2>1, <2>2
<1>6. ASSUME NEW k \in 1 .. n + 1 PROVE Unread(us[k], Resumes(fs, c, k), fs[k])
  <2>1. CASE k = n + 1
    <3>1. Resumes(fs, c, k) = c
      BY <1>4, <2>1 DEF Resumes
    <3> QED
      BY <1>3, <1>4, <2>1, <3>1
  <2>2. CASE k # n + 1
    <3>1. k \in 1 .. n /\ k \in 0 .. n
      BY <1>2, <2>2
    <3> QED
      BY <1>2, <1>3, <1>4, <1>5, <3>1
  <2> QED
    BY <2>1, <2>2
<1>7. 0 \in 0 .. n
  BY <1>2
<1>8. AheadTo(fs, us, c)
  BY <1>2, <1>3, <1>4, <1>5, <1>6, <1>7 DEF AheadTo
<1> QED
  BY <1>4, <1>8 DEF Ahead, us

(* A place that is not the last of a set has a neighbour after it.         *)
LEMMA AdjacentIs ==
    ASSUME NEW S \in SUBSET Nat, NEW s \in S, NEW e \in S, s < e
    PROVE  \E j \in S : Adjacent(S, s, j)
<1> DEFINE later == {x \in S : s < x}
<1>1. later \in SUBSET Nat /\ later # {}
  OBVIOUS
<1>2. PICK j \in later : \A x \in later : j <= x
  <2> HIDE DEF later
  <2> QED
    BY <1>1, LeastOf
<1>3. j \in S /\ s < j /\ j \in Nat
  OBVIOUS
<1>4. ASSUME NEW x \in S \cap s + 1 .. j - 1 PROVE FALSE
  <2>1. x \in later /\ ~(j <= x)
    BY <1>3
  <2> QED
    BY <1>2, <2>1
<1> QED
  BY <1>3, <1>4 DEF Adjacent

(* And one only.                                                           *)
LEMMA AdjacentOnce ==
    ASSUME NEW S \in SUBSET Nat, NEW i, NEW j, NEW k, Adjacent(S, i, j), Adjacent(S, i, k)
    PROVE  j = k
<1>1. /\ i \in Nat /\ j \in Nat /\ k \in Nat /\ i < j /\ i < k /\ j \in S /\ k \in S
      /\ S \cap i + 1 .. j - 1 = {} /\ S \cap i + 1 .. k - 1 = {}
  BY DEF Adjacent
<1>2. ~(j < k) /\ ~(k < j)
  BY <1>1
<1> QED
  BY <1>1, <1>2

(* A stack is its front and its top.                                       *)
LEMMA FrontLast ==
    ASSUME NEW st \in Seq(Block), st # << >>
    PROVE  /\ Front(st) \in Seq(Block) /\ Last(st) \in Block
           /\ Append(Front(st), Last(st)) = st
<1> DEFINE n == Len(st)
<1>0. n \in Nat \ {0} /\ DOMAIN st = 1 .. n
  OBVIOUS
<1>1. Last(st) = st[n] /\ Last(st) \in Block
  BY <1>0 DEF Last
<1>2. /\ Front(st) \in Seq(Block) /\ Len(Front(st)) = n - 1
      /\ \A k \in 1 .. n - 1 : Front(st)[k] = st[k]
  BY <1>0 DEF Front
<1> DEFINE us == Append(Front(st), Last(st))
<1>3. us \in Seq(Block) /\ Len(us) = n
  <2>1. us \in Seq(Block)
    BY <1>1, <1>2
  <2>2. Len(us) = Len(Front(st)) + 1
    BY <1>2
  <2> QED
    BY <1>0, <1>2, <2>1, <2>2
<1>4. \A k \in 1 .. n : us[k] = st[k]
  BY <1>0, <1>1, <1>2
<1>5. us = st
  <2> HIDE DEF us
  <2> QED
    BY <1>3, <1>4
<1> QED
  BY <1>1, <1>2, <1>5

(* Of a template, what is next is a node, or the end of the list.          *)
LEMMA AheadIs ==
    ASSUME Registered, NEW st \in Seq(Block), NEW c \in Nat, Ahead(st, c),
           tokens \in Seq(AnyToken),
           st # << >> => HasRead(Last(st)) /\ Last(st).section < c
    PROVE  \/ /\ \E d \in Nat : IsNode(Nodes, c, d) /\ d <= Len(tokens) + 1 /\ Ahead(st, d)
              /\ st # << >> => ~Fresh(Last(st))
           \/ st = << >> /\ c = Len(tokens) + 1
           \/ /\ st # << >>
              /\ \E e \in Nat : \E parts \in SUBSET (Last(st).open + 1 .. e - 1) :
                    /\ Ahead(Front(st), e + 1)
                    /\ UnreadIn(Last(st), c, e, parts)
                    /\ c \in parts \cup {e}
<1>1. CASE st = << >>
  <2>1. Nodes[<<c, Len(tokens) + 1>>]
    BY <1>1, AheadRoot
  <2>2. CASE c = Len(tokens) + 1
    BY <1>1, <2>2
  <2>3. CASE c # Len(tokens) + 1
    <3>0. Len(tokens) + 1 \in Nat
      OBVIOUS
    <3>1. PICK d \in c + 1 .. Len(tokens) + 1 :
                   IsNode(Nodes, c, d) /\ Nodes[<<d, Len(tokens) + 1>>]
      BY <2>1, <2>3, <3>0, NodesAre
    <3>2. d \in Nat /\ d <= Len(tokens) + 1 /\ Ahead(st, d)
      BY <1>1, <3>0, <3>1, AheadRoot
    <3> QED
      BY <1>1, <3>1, <3>2
  <2> QED
    BY <2>2, <2>3
<1>2. CASE st # << >>
  <2> DEFINE b == Last(st)
             a == b.open
             s == b.section
  <2>1. PICK e \in Nat : Ahead(Front(st), e + 1) /\ Unread(b, c, e)
    BY <1>2, AheadFront
  <2>2. PICK parts \in SUBSET (a + 1 .. e - 1) : UnreadIn(b, c, e, parts)
    BY <2>1 DEF Unread
  <2> DEFINE Q == parts \cup {a, e}
  <2>3. /\ s < e /\ tokens[e].tok = "tag" /\ IsBlock(a, parts, e)
        /\ s \in parts \cup {a}
        /\ \A i, j \in Q : Adjacent(Q, i, j) /\ s <= i =>
              Nodes[<<IF i = s THEN c ELSE i + 1, j>>]
    BY <2>2 DEF UnreadIn
  <2>4. b \in Block /\ a <= s /\ s < c /\ tokens[a].tok = "tag" /\ b.kw = Word(a)
    BY <1>2 DEF HasRead
  <2>5. a \in Nat /\ s \in Nat
    BY <2>4 DEF Block
  <2>6. Q \in SUBSET Nat /\ s \in Q /\ e \in Q /\ a + 1 \in Nat
    <3>1. \A x \in parts : x \in Nat
      BY <2>5
    <3>2. \A x \in Q : x \in Nat
      BY <2>5, <3>1
    <3>3. s \in Q /\ e \in Q
      BY <2>3
    <3> HIDE DEF Q
    <3> QED
      BY <2>5, <3>2, <3>3
  <2>7. PICK j \in Q : Adjacent(Q, s, j)
    <3> HIDE DEF Q
    <3> QED
      BY <2>3, <2>6, AdjacentIs
  <2>8. Nodes[<<c, j>>] /\ j \in Nat /\ s < j
    <3>1. s <= s /\ j \in Nat /\ s < j
      BY <2>5, <2>6, <2>7 DEF Adjacent
    <3> QED
      BY <2>3, <2>6, <2>7, <3>1
  <2>9. j \in parts \cup {e}
    BY <2>4, <2>5, <2>8
  <2>10. CASE c = j
    BY <1>2, <2>1, <2>2, <2>9, <2>10
  <2>11. CASE c # j
    <3>1. PICK d \in c + 1 .. j : IsNode(Nodes, c, d) /\ Nodes[<<d, j>>]
      BY <2>8, <2>11, NodesAre
    <3>2. d \in Nat /\ c < j /\ d <= Len(tokens) + 1
      <4>1. e <= Len(tokens) /\ j <= e /\ Len(tokens) \in Nat
        BY <2>2, <2>9 DEF UnreadIn
      <4> HIDE DEF Q
      <4> QED
        BY <2>8, <3>1, <4>1
    <3>3. ASSUME NEW i \in Q, NEW k \in Q, Adjacent(Q, i, k), s <= i
          PROVE  Nodes[<<IF i = s THEN d ELSE i + 1, k>>]
      <4>1. CASE i = s
        <5>1. k = j
          <6> HIDE DEF Q
          <6> QED
            BY <2>6, <2>7, <3>3, <4>1, AdjacentOnce
        <5> QED
          BY <3>1, <4>1, <5>1
      <4>2. CASE i # s
        <5>1. Nodes[<<i + 1, k>>]
          BY <2>3, <3>3, <4>2
        <5> QED
          BY <4>2, <5>1
      <4> QED
        BY <4>1, <4>2
    <3>4. UnreadIn(b, d, e, parts)
      BY <2>2, <3>3 DEF UnreadIn
    <3>5. Unread(b, d, e)
      BY <3>4 DEF Unread
    <3>6. Ahead(st, d)
      BY <1>2, <2>1, <3>2, <3>5, FrontLast, AheadAppend
    <3>7. ~Fresh(b)
      <4> SUFFICES ASSUME Fresh(b) PROVE FALSE
        OBVIOUS
      <4>1. Word(a) = "switch" /\ s = a
        BY <2>4 DEF Fresh
      <4>2. Ended(a, parts, e)
        BY <2>2, <2>3, <2>4, <2>5, BlockIs
      <4>3. a + 1 \in Q
        BY <4>1, <4>2 DEF Ended
      <4>4. Q \cap s + 1 .. j - 1 = {}
        BY <2>7 DEF Adjacent
      <4>5. a + 1 \in s + 1 .. j - 1
        BY <2>4, <2>5, <3>2, <4>1
      <4> QED
        BY <4>3, <4>4, <4>5
    <3> QED
      BY <3>1, <3>2, <3>6, <3>7
  <2> QED
    BY <2>10, <2>11
<1> QED
  BY <1>1, <1>2
(* A node begins with a leaf or with the tag of a block.                   *)
LEMMA NodeBegins ==
    ASSUME Registered, tokens \in Seq(AnyToken),
           NEW c \in Nat \ {0}, NEW d \in Nat, IsNode(Nodes, c, d), d <= Len(tokens) + 1
    PROVE  /\ HeaderOK(tokens[c])
           /\ \/ d = c + 1 /\ IsLeaf(tokens[c])
              \/ /\ IsOpening(tokens[c]) /\ d - 1 \in Nat
                 /\ \A b \in Block : b.open = c /\ b.section = c => Unread(b, c + 1, d - 1)
<1>1. CASE d = c + 1 /\ IsLeaf(tokens[c]) /\ HeaderOK(tokens[c])
  BY <1>1
<1>2. CASE ~(d = c + 1 /\ IsLeaf(tokens[c]) /\ HeaderOK(tokens[c]))
  <2> DEFINE e == d - 1
  <2>1. d > c + 1 /\ tokens[c].tok = "tag" /\ tokens[e].tok = "tag"
    BY <1>2, Zenon DEF IsNode
  <2>2. PICK parts \in SUBSET {k \in c + 1 .. d - 2 : Word(k) \in Sections} :
             /\ IsBlock(c, parts, e)
             /\ \A i, j \in parts \cup {c, e} :
                   Adjacent(parts \cup {c, e}, i, j) => Nodes[<<i + 1, j>>]
    BY <1>2, Zenon DEF IsNode
  <2>3. e \in Nat /\ c < e /\ e \in DOMAIN tokens
    BY <2>1
  <2>4. parts \in SUBSET (c + 1 .. e - 1)
    <3>1. d - 2 = e - 1
      OBVIOUS
    <3> QED
      BY <3>1
  <2>5. IsOpening(tokens[c]) /\ HeaderOK(tokens[c])
    <3> HIDE DEF e
    <3> QED
      BY <2>1, <2>2, <2>3, <2>4, BlockIs
  <2>6. ASSUME NEW b \in Block, b.open = c, b.section = c
        PROVE  Unread(b, c + 1, e)
    <3> HIDE DEF e
    <3>1. \A i, j \in parts \cup {c, e} :
             Adjacent(parts \cup {c, e}, i, j) => Nodes[<<IF i = c THEN c + 1 ELSE i + 1, j>>]
      BY <2>2
    <3>2. UnreadIn(b, c + 1, e, parts)
      BY <2>1, <2>2, <2>3, <2>6, <3>1 DEF UnreadIn
    <3> QED
      BY <2>4, <2>6, <3>2 DEF Unread
  <2> QED
    BY <2>3, <2>5, <2>6
<1> QED
  BY <1>1, <1>2

(* No section begins with a word that ends a block, of extensions either.  *)
LEMMA SectionsApart == Registered => Sections \cap EndWords = {}
  BY WordsApart DEF Registered, RegistryOK, EndWords

(* The tag of the innermost block.                                         *)
LEMMA TopOpens ==
    ASSUME GrammarInv, stack # << >>
    PROVE  /\ stack \in Seq(Block) /\ Top = Last(stack) /\ Top \in Block /\ HasRead(Top)
           /\ EndTag(Top.kw) \in EndWords
<1>1. stack \in Seq(Block) /\ Top = Last(stack) /\ Top \in Block /\ HasRead(Top)
  BY NestFront DEF GrammarInv, Nesting, Top
<1>2. /\ tokens[Top.open].tok = "tag" /\ Top.kw = tokens[Top.open].body.kw
      /\ IsOpening(tokens[Top.open])
  BY <1>1, TagWord DEF HasRead
<1>3. EndTag(Top.kw) \in EndWords
  BY <1>2, StartIs DEF GrammarInv
<1> QED
  BY <1>1, <1>3

(* A node is next: the parser takes it for one.                            *)
LEMMA NodeAhead ==
    ASSUME IInv, GrammarInv, More, NEW d \in Nat, IsNode(Nodes, cursor, d),
           d <= Len(tokens) + 1, Ahead(stack, d), stack # << >> => ~Fresh(Top)
    PROVE  /\ ~Reject /\ ~NextSection /\ ~CloseBlock
           /\ ParseLeaf \/ OpenBlock => Ahead(stack', cursor + 1)
<1>1. Parsing /\ cursor <= Len(tokens)
  BY DEF More
<1>2. cursor \in Nat \ {0} /\ tokens \in Seq(AnyToken) /\ Registered
      /\ stack \in Seq(Block)
  BY <1>1, ParsingNow DEF GrammarInv, Nesting
<1>3. /\ HeaderOK(Token)
      /\ \/ d = cursor + 1 /\ IsLeaf(Token)
         \/ /\ IsOpening(Token) /\ d - 1 \in Nat
            /\ \A b \in Block : b.open = cursor /\ b.section = cursor =>
                  Unread(b, cursor + 1, d - 1)
  BY <1>2, NodeBegins DEF Token
<1>4. Keyword \notin Sections /\ (Token.tok = "tag" => Keyword \notin EndWords)
  <2>1. CASE Token.tok = "tag"
    BY <1>2, <1>3, <2>1, StartIs DEF Keyword
  <2>2. CASE Token.tok # "tag"
    BY <2>2, WordsApart DEF Keyword
  <2> QED
    BY <2>1, <2>2
<1>5. ~AtSection
  BY <1>4, FollowsIsSection DEF AtSection
<1>6. ~AtEnd
  BY <1>4, TopOpens DEF AtEnd
<1>7. AtNode \/ AtRawText
  <2>1. CASE In(RawTags)
    <3>1. /\ Top.kw \in RawTags
          /\ \/ TagAt(tokens, cursor, RawEnd(Top.kw))
             \/ cursor = Top.open + 1 /\ tokens[cursor].tok = "text"
      BY <1>1, <2>1, RawNow
    <3>2. EndTag(Top.kw) = RawEnd(Top.kw) /\ stack # << >>
      BY <2>1, <3>1, RawEndTag DEF In
    <3>3. ~TagAt(tokens, cursor, RawEnd(Top.kw))
      BY <1>6, <3>2 DEF AtEnd, Keyword, Token, TagAt
    <3> QED
      BY <2>1, <3>1, <3>3 DEF AtRawText, Token, RawTags
  <2>2. CASE ~In(RawTags)
    <3>1. In({"switch"}) => Top.section # Top.open
      BY DEF In, Fresh
    <3> QED
      BY <1>5, <1>6, <2>2, <3>1 DEF AtNode, RawTags
  <2> QED
    BY <2>1, <2>2
<1>8. IsLeaf(Token) <=> ~IsOpening(Token)
  <2>1. CASE Token.tok = "tag"
    BY <1>2, <1>3, <2>1, StartIs
  <2>2. CASE Token.tok # "tag"
    BY <2>2 DEF IsLeaf, IsOpening
  <2> QED
    BY <2>1, <2>2
<1>9. ~Reject
  BY <1>3, <1>5, <1>6, <1>7, <1>8 DEF Reject
<1>10. ASSUME ParseLeaf PROVE Ahead(stack', cursor + 1)
  <2>1. stack' = stack /\ (IsLeaf(Token) \/ AtRawText)
    BY <1>10 DEF ParseLeaf
  <2>2. AtRawText => IsLeaf(Token)
    BY DEF AtRawText, IsLeaf
  <2> QED
    BY <1>3, <1>8, <2>1, <2>2
<1>11. ASSUME OpenBlock PROVE Ahead(stack', cursor + 1)
  <2> DEFINE b == [kw |-> Keyword, open |-> cursor, section |-> cursor]
  <2>1. stack' = Append(stack, b) /\ IsOpening(Token)
    BY <1>11 DEF OpenBlock
  <2>2. b \in Block
    <3>1. tokens[cursor] \in AnyToken /\ tokens[cursor].tok = "tag"
      BY <1>1, <1>2, <2>1 DEF IsOpening, Token
    <3>2. tokens[cursor].body \in Body
      BY <3>1, TokenIs
    <3>3. Keyword \in STRING
      BY <3>1, <3>2 DEF Keyword, Token, Body
    <3> QED
      BY <1>2, <3>3 DEF Block
  <2>3. b.open = cursor /\ b.section = cursor
    OBVIOUS
  <2> HIDE DEF b
  <2>4. Unread(b, cursor + 1, d - 1) /\ d - 1 \in Nat /\ (d - 1) + 1 = d
    BY <1>3, <1>8, <2>1, <2>2, <2>3
  <2>5. Ahead(stack, (d - 1) + 1)
    BY <2>4
  <2> QED
    BY <1>2, <2>1, <2>2, <2>4, <2>5, AheadAppend
<1> QED
  BY <1>5, <1>6, <1>9, <1>10, <1>11 DEF NextSection, CloseBlock

(* The rest of the innermost block.                                        *)
LEMMA PartAhead ==
    ASSUME IInv, GrammarInv, More, stack # << >>, NEW e \in Nat,
           NEW parts \in SUBSET (Top.open + 1 .. e - 1),
           Ahead(Front(stack), e + 1), UnreadIn(Top, cursor, e, parts), cursor \in parts
    PROVE  /\ ~Reject /\ ~ParseLeaf /\ ~OpenBlock /\ ~CloseBlock
           /\ NextSection => Ahead(stack', cursor + 1)
<1>1. Parsing /\ cursor <= Len(tokens)
  BY DEF More
<1>2. cursor \in Nat \ {0} /\ Registered
  BY <1>1, ParsingNow DEF GrammarInv
<1>3. /\ stack \in Seq(Block) /\ Top \in Block /\ HasRead(Top) /\ Top.section < cursor
      /\ EndTag(Top.kw) \in EndWords
  BY <1>1, TopOpens, TopIs
<1>4. /\ Top.open \in Nat /\ Top.section \in Nat /\ tokens[Top.open].tok = "tag"
      /\ Top.kw = Word(Top.open)
  BY <1>3 DEF HasRead, Block
<1>5. /\ e \in DOMAIN tokens /\ tokens[e].tok = "tag" /\ IsBlock(Top.open, parts, e)
      /\ Top.section \in parts \cup {Top.open}
      /\ \A i, j \in parts \cup {Top.open, e} :
            Adjacent(parts \cup {Top.open, e}, i, j) /\ Top.section <= i =>
               Nodes[<<IF i = Top.section THEN cursor ELSE i + 1, j>>]
  BY DEF UnreadIn
<1>6. Parted(Top.open, parts) /\ HeaderOK(tokens[cursor])
  BY <1>2, <1>4, <1>5, BlockIs
<1>7. parts \in SUBSET Nat
  BY <1>4
<1>8. Word(cursor) \in MayFollow(Top)
  BY <1>3, <1>4, <1>5, <1>6, <1>7, PartFollows
<1>9. AtSection /\ Keyword \in Sections
  BY <1>8, KeywordIs, FollowsIsSection DEF AtSection
<1>10. ~AtEnd
  BY <1>2, <1>3, <1>9, SectionsApart DEF AtEnd
<1>11. ~AtNode /\ ~AtRawText
  BY <1>8, <1>9, RawHasNoParts DEF AtNode, AtRawText, In, RawTags
<1>12. ASSUME NextSection PROVE Ahead(stack', cursor + 1)
  <2> DEFINE b == [Top EXCEPT !.section = cursor]
  <2>1. stack' = Append(Front(stack), b)
    BY <1>12 DEF NextSection
  <2>2. b \in Block /\ b.open = Top.open /\ b.section = cursor
    BY <1>2, <1>3 DEF Block
  <2> HIDE DEF b
  <2>3. cursor < e
    BY <1>4
  <2>4. ASSUME NEW i \in parts \cup {b.open, e}, NEW j \in parts \cup {b.open, e},
               Adjacent(parts \cup {b.open, e}, i, j), b.section <= i
        PROVE  Nodes[<<IF i = b.section THEN cursor + 1 ELSE i + 1, j>>]
    <3>1. i \in Nat /\ Top.section <= i /\ i # Top.section
      BY <1>2, <1>3, <1>4, <1>7, <2>2, <2>4
    <3>2. Nodes[<<i + 1, j>>]
      BY <1>5, <2>2, <2>4, <3>1
    <3> QED
      BY <2>2, <3>2
  <2>5. UnreadIn(b, cursor + 1, e, parts)
    <3>1. b.section < e /\ IsBlock(b.open, parts, e) /\ b.section \in parts \cup {b.open}
      BY <1>5, <2>2, <2>3
    <3> QED
      BY <1>5, <2>4, <3>1 DEF UnreadIn
  <2>6. Unread(b, cursor + 1, e)
    BY <2>2, <2>5 DEF Unread
  <2>7. Front(stack) \in Seq(Block)
    BY <1>3, FrontLast
  <2> QED
    BY <2>1, <2>2, <2>6, <2>7, AheadAppend
<1> QED
  BY <1>6, <1>9, <1>10, <1>11, <1>12 DEF Reject, ParseLeaf, OpenBlock, CloseBlock, Token

(* The end of the innermost block.                                         *)
LEMMA EndAhead ==
    ASSUME IInv, GrammarInv, More, stack # << >>,
           NEW parts \in SUBSET (Top.open + 1 .. cursor - 1),
           Ahead(Front(stack), cursor + 1), UnreadIn(Top, cursor, cursor, parts)
    PROVE  /\ ~Reject /\ ~ParseLeaf /\ ~OpenBlock /\ ~NextSection
           /\ CloseBlock => Ahead(stack', cursor + 1)
<1>1. Parsing /\ cursor <= Len(tokens)
  BY DEF More
<1>2. cursor \in Nat \ {0} /\ Registered
  BY <1>1, ParsingNow DEF GrammarInv
<1>3. HasRead(Top) /\ Top \in Block /\ EndTag(Top.kw) \in EndWords
  BY TopOpens
<1>4. Top.open \in Nat /\ tokens[Top.open].tok = "tag" /\ Top.kw = Word(Top.open)
  BY <1>3 DEF HasRead, Block
<1>5. tokens[cursor].tok = "tag" /\ IsBlock(Top.open, parts, cursor)
  BY DEF UnreadIn
<1>6. Ended(Top.open, parts, cursor)
  BY <1>2, <1>4, <1>5, BlockIs
<1>7. AtEnd /\ Keyword \in EndWords
  BY <1>3, <1>4, <1>5, <1>6, KeywordIs DEF Ended, AtEnd, Token
<1>8. NameRepeated
  BY <1>6, KeywordIs DEF NameRepeated, Ended, Token
<1>9. ~AtSection
  BY <1>2, <1>7, FollowsIsSection, SectionsApart DEF AtSection
<1>10. ~AtNode /\ ~AtRawText
  BY <1>5, <1>7 DEF AtNode, AtRawText, Token
<1> QED
  BY <1>7, <1>8, <1>9, <1>10 DEF Reject, ParseLeaf, OpenBlock, NextSection, CloseBlock
(* A template of the grammar is never given up.                            *)
CompleteInv ==
    lexing = "done" /\ Nodes[<<1, Len(tokens) + 1>>] =>
        outcome \in {"on", "ok"} /\ (outcome = "on" => Ahead(stack, cursor))

(* What is ahead stays ahead while tokens and registry do.                 *)
LEMMA AheadStays ==
    ASSUME tokens' = tokens, registry' = registry, Len(tokens) \in Nat,
           NEW st \in Seq(Block), NEW c \in Nat, Ahead(st, c)
    PROVE  Ahead(st, c)'
<1>1. \A x, y \in Nat : Nodes'[<<x, y>>] <=> Nodes[<<x, y>>]
  BY NodesStay
<1>2. ASSUME NEW b \in Block, NEW r \in Nat, NEW e \in Nat, Unread(b, r, e)
      PROVE  Unread(b, r, e)'
  <2>1. PICK parts \in SUBSET (b.open + 1 .. e - 1) : UnreadIn(b, r, e, parts)
    BY <1>2 DEF Unread
  <2>2. b.open \in Nat /\ b.section \in Nat
    BY DEF Block
  <2>3. /\ e \in DOMAIN tokens /\ b.section < e /\ tokens[e].tok = "tag"
        /\ IsBlock(b.open, parts, e) /\ b.section \in parts \cup {b.open}
        /\ \A i, j \in parts \cup {b.open, e} :
              Adjacent(parts \cup {b.open, e}, i, j) /\ b.section <= i =>
                 Nodes[<<IF i = b.section THEN r ELSE i + 1, j>>]
    BY <2>1 DEF UnreadIn
  <2>4. \A i \in parts \cup {b.open, e} : i \in Nat /\ (IF i = b.section THEN r ELSE i + 1) \in Nat
    BY <2>2
  <2>5. \A i, j \in parts \cup {b.open, e} :
              Adjacent(parts \cup {b.open, e}, i, j) /\ b.section <= i =>
                 Nodes'[<<IF i = b.section THEN r ELSE i + 1, j>>]
    BY <1>1, <2>3, <2>4
  <2>6. IsBlock(b.open, parts, e)'
    BY <2>3, WordsStay
  <2>7. UnreadIn(b, r, e, parts)'
    BY <2>3, <2>5, <2>6 DEF UnreadIn
  <2> QED
    BY <2>7 DEF Unread
<1>3. PICK ends \in Seq(Nat) : AheadTo(ends, st, c)
  BY DEF Ahead
<1>4. /\ Len(ends) = Len(st)
      /\ Nodes[<<Resumes(ends, c, 0), Len(tokens) + 1>>]
      /\ \A k \in DOMAIN st : Unread(st[k], Resumes(ends, c, k), ends[k])
  BY <1>3 DEF AheadTo
<1>5. \A k \in 0 .. Len(st) : Resumes(ends, c, k) \in Nat
  <2> SUFFICES ASSUME NEW k \in 0 .. Len(st) PROVE Resumes(ends, c, k) \in Nat
    OBVIOUS
  <2>1. k # Len(ends) => ends[k + 1] \in Nat
    BY <1>4
  <2> QED
    BY <2>1 DEF Resumes
<1>6. Nodes'[<<Resumes(ends, c, 0), Len(tokens) + 1>>]
  <2>1. 0 \in 0 .. Len(st) /\ Len(tokens) + 1 \in Nat
    OBVIOUS
  <2> QED
    BY <1>1, <1>4, <1>5, <2>1
<1>7. ASSUME NEW k \in DOMAIN st PROVE Unread(st[k], Resumes(ends, c, k), ends[k])'
  <2>1. k \in 0 .. Len(st) /\ st[k] \in Block /\ ends[k] \in Nat
    BY <1>4
  <2> QED
    BY <1>2, <1>4, <1>5, <2>1
<1>8. AheadTo(ends, st, c)'
  BY <1>4, <1>6, <1>7 DEF AheadTo
<1> QED
  BY <1>8 DEF Ahead

(* What is ahead of the parser.                                            *)
LEMMA AheadNow ==
    ASSUME IInv, GrammarInv, Parsing, Ahead(stack, cursor)
    PROVE  \/ /\ \E d \in Nat : /\ IsNode(Nodes, cursor, d) /\ d <= Len(tokens) + 1
                                /\ Ahead(stack, d)
              /\ stack # << >> => ~Fresh(Top)
           \/ stack = << >> /\ cursor = Len(tokens) + 1
           \/ /\ stack # << >>
              /\ \E e \in Nat : \E parts \in SUBSET (Top.open + 1 .. e - 1) :
                    /\ Ahead(Front(stack), e + 1)
                    /\ UnreadIn(Top, cursor, e, parts)
                    /\ cursor \in parts \cup {e}
<1>1. /\ cursor \in Nat /\ tokens \in Seq(AnyToken) /\ Registered /\ stack \in Seq(Block)
  BY ParsingNow DEF GrammarInv, Nesting
<1>2. stack # << >> => HasRead(Top) /\ Top.section < cursor
  BY TopOpens, TopIs
<1> QED
  BY <1>1, <1>2, AheadIs DEF Top

(* While the rest can complete a template, the parser does not reject the  *)
(* next token, and the rest after it still can.                            *)
LEMMA MoreComplete ==
    ASSUME IInv, GrammarInv, More, Ahead(stack, cursor)
    PROVE  /\ ~Reject
           /\ ParseLeaf \/ OpenBlock \/ NextSection \/ CloseBlock => Ahead(stack', cursor + 1)
<1>1. Parsing /\ cursor <= Len(tokens) /\ cursor # Len(tokens) + 1
  BY ParsingNow DEF More
<1>2. CASE /\ \E d \in Nat : /\ IsNode(Nodes, cursor, d) /\ d <= Len(tokens) + 1
                             /\ Ahead(stack, d)
           /\ stack # << >> => ~Fresh(Top)
  BY <1>2, NodeAhead
<1>3. CASE /\ stack # << >>
           /\ \E e \in Nat : \E parts \in SUBSET (Top.open + 1 .. e - 1) :
                 /\ Ahead(Front(stack), e + 1)
                 /\ UnreadIn(Top, cursor, e, parts)
                 /\ cursor \in parts \cup {e}
  <2>1. PICK e \in Nat : \E parts \in SUBSET (Top.open + 1 .. e - 1) :
                 /\ Ahead(Front(stack), e + 1)
                 /\ UnreadIn(Top, cursor, e, parts)
                 /\ cursor \in parts \cup {e}
    BY <1>3
  <2>2. PICK parts \in SUBSET (Top.open + 1 .. e - 1) :
                 /\ Ahead(Front(stack), e + 1)
                 /\ UnreadIn(Top, cursor, e, parts)
                 /\ cursor \in parts \cup {e}
    BY <2>1
  <2>3. CASE cursor \in parts
    BY <1>3, <2>2, <2>3, PartAhead
  <2>4. CASE cursor = e
    BY <1>3, <2>2, <2>4, EndAhead
  <2> QED
    BY <2>2, <2>3, <2>4
<1> QED
  BY <1>1, <1>2, <1>3, AheadNow

(* If nothing is left to complete the template, none is needed.            *)
LEMMA FinishComplete ==
    ASSUME IInv, GrammarInv, Finish, Ahead(stack, cursor)
    PROVE  outcome' = "ok"
<1>1. Parsing /\ cursor > Len(tokens)
  BY DEF Finish
<1>2. cursor \in Nat \ {0} /\ Len(tokens) \in Nat /\ DOMAIN tokens = 1 .. Len(tokens)
      /\ cursor = Len(tokens) + 1
  BY <1>1, ParsingNow
<1>3. ASSUME NEW d \in Nat, IsNode(Nodes, cursor, d), d <= Len(tokens) + 1 PROVE FALSE
  BY <1>2, <1>3, NodeForward
<1>4. ASSUME NEW e \in Nat, NEW parts \in SUBSET (Top.open + 1 .. e - 1), stack # << >>,
             UnreadIn(Top, cursor, e, parts), cursor \in parts \cup {e}
      PROVE  FALSE
  <2>1. Top \in Block
    BY <1>1, <1>4, TopIs
  <2>2. Top.open \in Nat
    BY <2>1 DEF Block
  <2>3. e \in DOMAIN tokens /\ cursor <= e
    BY <1>2, <1>4, <2>2 DEF UnreadIn
  <2> QED
    BY <1>2, <2>3
<1>5. stack = << >>
  BY <1>1, <1>3, <1>4, AheadNow
<1>6. outcome' = CASE stack = << >>    -> "ok"
                   [] In({"block"})    -> "panic"
                   [] OTHER            -> "error"
  BY DEF Finish
<1>7. ~In({"block"})
  BY <1>5 DEF In
<1> QED
  BY <1>5, <1>6, <1>7

(* Every step keeps the rest of a template able to complete it.            *)
LEMMA CompleteStep == IInv /\ GrammarInv /\ CompleteInv /\ [Next]_vars => CompleteInv'
<1> SUFFICES ASSUME IInv, GrammarInv, CompleteInv, [Next]_vars,
                    (lexing = "done" /\ Nodes[<<1, Len(tokens) + 1>>])'
             PROVE  outcome' \in {"on", "ok"} /\ (outcome' = "on" => Ahead(stack, cursor)')
  BY DEF CompleteInv
<1>1. CASE Lexing
  <2>1. LexNext /\ cursor' = cursor /\ stack' = stack /\ outcome' = outcome
    BY <1>1 DEF Lexing, parser
  <2>2. lexing # "done"
    BY <2>1 DEF LexNext, RestIsText, SkipComment, TakeTag, TakeVariable, TextBefore, TakeRaw,
                TakePending, Unclosed, EndOfInput, At, Normal, Reading
  <2>3. cursor' = 1 /\ stack' = << >> /\ outcome' = "on"
    BY <2>1, <2>2 DEF IInv, ParseInv
  <2>4. (\A c : Ahead(<< >>, c) <=> Nodes[<<c, Len(tokens) + 1>>])'
    BY AheadRoot, PTL
  <2> QED
    BY <2>3, <2>4
<1>2. CASE ParseNext \/ UNCHANGED vars
  <2>1. tokens' = tokens /\ registry' = registry /\ lexing' = lexing
    BY <1>2 DEF ParseNext, ParseLeaf, OpenBlock, NextSection, CloseBlock, Reject, Finish, Taken,
                vars, lexer
  <2>2. tokens \in Seq(AnyToken) /\ Len(tokens) \in Nat /\ cursor \in Nat
    <3>1. All(tokens, pending) = tokens
      BY <2>1 DEF IInv, LexInv, Lexed, All
    <3>2. tokens \in Seq(AnyToken)
      BY DEF IInv, LexInv, Lexed
    <3> QED
      BY <3>2 DEF IInv, ParseInv
  <2>3. Nodes[<<1, Len(tokens) + 1>>]
    <3>1. 1 \in Nat /\ Len(tokens) + 1 \in Nat
      BY <2>2
    <3> QED
      BY <2>1, <3>1, NodesStay
  <2>4. outcome \in {"on", "ok"} /\ (outcome = "on" => Ahead(stack, cursor))
    BY <2>1, <2>3 DEF CompleteInv
  <2>5. ASSUME NEW st \in Seq(Block), NEW c \in Nat, Ahead(st, c) PROVE Ahead(st, c)'
    BY <2>1, <2>2, <2>5, AheadStays
  <2>6. CASE UNCHANGED vars
    <3>1. stack' = stack /\ cursor' = cursor /\ outcome' = outcome /\ stack \in Seq(Block)
      BY <2>6 DEF vars, parser, GrammarInv, Nesting
    <3> QED
      BY <2>2, <2>4, <2>5, <3>1
  <2>7. CASE Finish
    <3>1. outcome = "on"
      BY <2>7 DEF Finish, Parsing
    <3> QED
      BY <2>4, <2>7, <3>1, FinishComplete
  <2>8. CASE ParseLeaf \/ OpenBlock \/ NextSection \/ CloseBlock \/ Reject
    <3>1. More /\ outcome = "on"
      BY <2>8 DEF ParseLeaf, OpenBlock, NextSection, CloseBlock, Reject, More, Parsing
    <3>2. Ahead(stack, cursor)
      BY <2>4, <3>1
    <3>3. ~Reject
      BY <3>1, <3>2, MoreComplete
    <3>4. Ahead(stack', cursor + 1)
      BY <2>8, <3>1, <3>2, <3>3, MoreComplete
    <3>5. cursor' = cursor + 1 /\ outcome' = outcome
      BY <2>8, <3>3 DEF ParseLeaf, OpenBlock, NextSection, CloseBlock, Taken
    <3>6. stack' \in Seq(Block)
      BY <1>2, GrammarStep DEF GrammarInv, Nesting
    <3>7. Ahead(stack', cursor') /\ cursor' \in Nat
      BY <2>2, <3>4, <3>5
    <3> QED
      BY <2>5, <3>1, <3>5, <3>6, <3>7
  <2> QED
    BY <1>2, <2>6, <2>7, <2>8 DEF ParseNext
<1> QED
  BY <1>1, <1>2 DEF Next

(* Before the lexer is done, nothing is to be said.                        *)
LEMMA InitComplete == Init => CompleteInv
  BY DEF Init, LexInit, CompleteInv

(* The parser accepts the templates of the grammar and no others, however  *)
(* tags of all kinds are nested, misplaced or left out, and whatever words *)
(* the registry adds.                                                      *)
THEOREM AcceptedIsGrammar == Spec => []AcceptsGrammar
<1>1. IInv /\ GrammarInv /\ CompleteInv => AcceptsGrammar
  <2> SUFFICES ASSUME IInv, GrammarInv, CompleteInv, outcome # "on"
               PROVE  outcome = "ok" <=> Nodes[<<1, Len(tokens) + 1>>]
    BY DEF AcceptsGrammar
  <2>1. lexing = "done"
    BY DEF IInv, ParseInv
  <2>2. ASSUME outcome = "ok" PROVE Nodes[<<1, Len(tokens) + 1>>]
    <3>1. /\ stack = << >> /\ cursor = Len(tokens) + 1
          /\ Nodes[<<ListBegins(stack, Len(stack)), cursor>>]
      BY <2>2 DEF GrammarInv, Nesting
    <3>2. ListBegins(<< >>, Len(<< >>)) = 1
      BY DEF ListBegins
    <3> QED
      BY <3>1, <3>2
  <2> QED
    BY <2>1, <2>2 DEF CompleteInv
<1>2. Init /\ [][Next]_vars => []CompleteInv
  <2>1. Spec => [](IInv /\ GrammarInv)
    BY Inductive, GrammarAlways, PTL
  <2> QED
    BY <2>1, InitComplete, CompleteStep, PTL DEF Spec
<1> QED
  BY <1>1, <1>2, Inductive, GrammarAlways, PTL DEF Spec
===============================================================================
