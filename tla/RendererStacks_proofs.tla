----------------------- MODULE RendererStacks_proofs ------------------------
(***************************************************************************)
(* Lemmas about the stacks of a render: the call stack, and what has to    *)
(* follow it.  For each part of a renderer's state (open templates,        *)
(* callers, macro scopes, super_context and the chains, stacks of          *)
(* variables, merged variables) there is a predicate that says what it is  *)
(* for a given call stack, and lemmas that say how it changes when a call  *)
(* begins (Push), ends (Pop) or goes on (Turn).                            *)
(***************************************************************************)
EXTENDS AsyncRenderer, FiniteSetTheorems, SequenceTheorems, TLAPS

(* How many members of a set of positions lie up to one of them.           *)
Count(S, i) == Cardinality({j \in S : j <= i})

(* Positions up to some n are finitely many.                               *)
LEMMA PositionsFinite ==
    ASSUME NEW n \in Nat, NEW S, \A j \in S : j \in 1 .. n
    PROVE  IsFiniteSet(S)
<1>1. IsFiniteSet(1 .. n)
  BY FS_Interval
<1>2. S \in SUBSET (1 .. n)
  OBVIOUS
<1> QED
  BY <1>1, <1>2, FS_Subset

(* A new last position counts for itself and changes no count before it.   *)
LEMMA CountStep ==
    ASSUME NEW n \in Nat, NEW S, \A j \in S : j \in 1 .. n, NEW T, T = S \/ T = S \cup {n + 1}
    PROVE  /\ \A i \in 0 .. n : Count(T, i) = Count(S, i)
           /\ Count(T, n + 1) = Count(S, n) + IF n + 1 \in T THEN 1 ELSE 0
<1>1. \A i \in 0 .. n : {j \in T : j <= i} = {j \in S : j <= i}
  OBVIOUS
<1>2. {j \in S : j <= n} = S /\ {j \in T : j <= n + 1} = T
  OBVIOUS
<1>3. IsFiniteSet(S) /\ Cardinality(S) \in Nat /\ n + 1 \notin S
  BY PositionsFinite, FS_CardinalityType
<1>4. Cardinality(S \cup {n + 1}) = Cardinality(S) + 1
  BY <1>3, FS_AddElement
<1>5. Count(S, n) = Cardinality(S) /\ Count(T, n + 1) = Cardinality(T)
  BY <1>2 DEF Count
<1>6. Cardinality(T) = Cardinality(S) + IF n + 1 \in T THEN 1 ELSE 0
  <2>1. CASE T = S
    BY <1>3, <2>1
  <2>2. CASE T = S \cup {n + 1}
    BY <1>3, <1>4, <2>2
  <2> QED
    BY <2>1, <2>2
<1> QED
  BY <1>1, <1>5, <1>6 DEF Count

(* Counts are natural numbers and grow at every member.                    *)
LEMMA CountGrows ==
    ASSUME NEW n \in Nat, NEW S, \A j \in S : j \in 1 .. n
    PROVE  /\ Count(S, n) = Cardinality(S)
           /\ \A i \in 0 .. n : Count(S, i) \in Nat
           /\ \A i, j \in 0 .. n : i <= j => Count(S, i) <= Count(S, j)
           /\ \A i, j \in 0 .. n : i < j /\ j \in S => Count(S, i) < Count(S, j)
           /\ \A i \in S : Count(S, i) \in 1 .. Count(S, n)
<1>1. {j \in S : j <= n} = S
  OBVIOUS
<1>2. \A i \in 0 .. n : IsFiniteSet({j \in S : j <= i})
  BY PositionsFinite
<1>3. \A i \in 0 .. n : Count(S, i) \in Nat
  BY <1>2, FS_CardinalityType DEF Count
<1>4. ASSUME NEW i \in 0 .. n, NEW j \in 0 .. n, i < j
      PROVE  /\ Count(S, i) <= Count(S, j)
             /\ j \in S => Count(S, i) < Count(S, j)
  <2>1. {k \in S : k <= i} \subseteq {k \in S : k <= j}
    <3> SUFFICES ASSUME NEW k \in S, k <= i PROVE k <= j
      OBVIOUS
    <3> QED
      BY <1>4
  <2>2. /\ Count(S, i) <= Count(S, j)
        /\ Count(S, i) = Count(S, j) => {k \in S : k <= i} = {k \in S : k <= j}
    <3> DEFINE low == {k \in S : k <= i}
               high == {k \in S : k <= j}
    <3>1. IsFiniteSet(high) /\ low \in SUBSET high
      BY <1>2, <2>1
    <3> HIDE DEF low, high
    <3>2. /\ Cardinality(low) <= Cardinality(high)
          /\ Cardinality(high) = Cardinality(low) => high = low
      BY <3>1, FS_Subset
    <3> QED
      BY <3>2 DEF Count, low, high
  <2>3. j \in S => {k \in S : k <= i} # {k \in S : k <= j}
    BY <1>4
  <2>4. j \in S => Count(S, i) < Count(S, j)
    BY <1>3, <2>2, <2>3
  <2> QED
    BY <2>2, <2>4
<1>5. \A i, j \in 0 .. n : i <= j => Count(S, i) <= Count(S, j)
  <2> TAKE i, j \in 0 .. n
  <2>1. CASE i < j
    BY <1>4, <2>1
  <2>2. CASE i = j
    BY <1>3, <2>2
  <2> QED
    BY <2>1, <2>2
<1>6. \A i \in S : Count(S, i) \in 1 .. Count(S, n)
  <2> TAKE i \in S
  <2>1. 0 \in 0 .. n /\ i \in 0 .. n /\ n \in 0 .. n /\ 0 < i /\ i <= n
    OBVIOUS
  <2>2. Count(S, 0) < Count(S, i)
    BY <1>4, <2>1
  <2>3. Count(S, i) <= Count(S, n)
    BY <1>5, <2>1
  <2> QED
    BY <1>3, <2>1, <2>2, <2>3
<1>7. Count(S, n) = Cardinality(S)
  BY <1>1 DEF Count
<1> QED
  BY <1>3, <1>4, <1>5, <1>6, <1>7

-----------------------------------------------------------------------------
(* A sequence of whatever it holds.                                        *)
IsSeq(s) == s \in Seq(Range(s))

(* A sequence over some set is one of what it holds.                       *)
LEMMA SeqAny ==
    ASSUME NEW S, NEW s \in Seq(S)
    PROVE  IsSeq(s)
<1>1. Len(s) \in Nat /\ s \in [1 .. Len(s) -> Range(s)]
  BY LenProperties DEF Range
<1> QED
  BY <1>1, SeqDef DEF IsSeq

(* The length and the domain of a sequence; only the empty one has no      *)
(* element.                                                                *)
LEMMA SeqLength ==
    ASSUME NEW s, IsSeq(s)
    PROVE  /\ Len(s) \in Nat /\ DOMAIN s = 1 .. Len(s)
           /\ s = << >> <=> Len(s) = 0
  BY DEF IsSeq

(* A sequence with an element more.                                        *)
LEMMA SeqAppend ==
    ASSUME NEW s, IsSeq(s), NEW x
    PROVE  /\ IsSeq(Append(s, x))
           /\ Len(Append(s, x)) = Len(s) + 1
           /\ \A i \in 1 .. Len(s) : Append(s, x)[i] = s[i]
           /\ Append(s, x)[Len(s) + 1] = x
  BY DEF IsSeq, Range

(* What a sequence begins with.                                            *)
LEMMA SeqPrefix ==
    ASSUME NEW s, IsSeq(s), NEW n \in 0 .. Len(s)
    PROVE  /\ IsSeq(SubSeq(s, 1, n))
           /\ Len(SubSeq(s, 1, n)) = n
           /\ \A i \in 1 .. n : SubSeq(s, 1, n)[i] = s[i]
<1>1. Len(s) \in Nat /\ DOMAIN s = 1 .. Len(s)
  BY SeqLength
<1>2. \A i \in 1 .. n : s[i] \in Range(s)
  BY <1>1 DEF Range
<1>3. /\ SubSeq(s, 1, n) \in Seq(Range(s))
      /\ Len(SubSeq(s, 1, n)) = n
      /\ \A i \in 1 .. n : SubSeq(s, 1, n)[i] = s[i]
  BY <1>1, <1>2, SubSeqProperties
<1> QED
  BY <1>3, SeqAny

(* A sequence without its last element.                                    *)
LEMMA SeqFront ==
    ASSUME NEW s, IsSeq(s), s # << >>
    PROVE  /\ IsSeq(Front(s))
           /\ Len(s) >= 1
           /\ Len(Front(s)) = Len(s) - 1
           /\ \A i \in 1 .. Len(s) - 1 : Front(s)[i] = s[i]
<1>1. Len(s) \in Nat /\ Len(s) >= 1
  BY SeqLength
<1>2. Len(s) - 1 \in 0 .. Len(s)
  BY <1>1
<1> QED
  BY <1>1, <1>2, SeqPrefix DEF Front

(* A sequence with the value of one place changed.                         *)
LEMMA SeqExcept ==
    ASSUME NEW s, IsSeq(s), NEW k \in 1 .. Len(s), NEW x
    PROVE  /\ IsSeq([s EXCEPT ![k] = x])
           /\ Len([s EXCEPT ![k] = x]) = Len(s)
           /\ \A i \in 1 .. Len(s) : i # k => [s EXCEPT ![k] = x][i] = s[i]
           /\ [s EXCEPT ![k] = x][k] = x
<1> DEFINE S == Range(s) \cup {x}
<1>1. s \in Seq(S)
  BY SeqMonotonic DEF IsSeq
<1>2. x \in S
  OBVIOUS
<1> HIDE DEF S
<1>3. /\ [s EXCEPT ![k] = x] \in Seq(S)
      /\ Len([s EXCEPT ![k] = x]) = Len(s)
      /\ \A i \in 1 .. Len(s) : [s EXCEPT ![k] = x][i] = IF i = k THEN x ELSE s[i]
  BY <1>1, <1>2, ExceptSeq
<1> QED
  BY <1>3, SeqAny

-----------------------------------------------------------------------------
(* A set of natural numbers that is not empty has a least member.          *)
LEMMA LeastMember ==
    ASSUME NEW S \in SUBSET Nat, S # {}
    PROVE  \E n \in S : \A m \in S : n <= m
<1>1. PICK n \in S : \A m \in S : ~(<<m, n>> \in OpToRel(<, Nat))
  BY NatLessThanWellFounded, WFMin
<1>2. \A m \in S : ~(m < n)
  BY <1>1 DEF OpToRel
<1> QED
  BY <1>2

(* The last of some positions.                                             *)
LEMMA MaxMember ==
    ASSUME NEW n \in Nat, NEW S, \A j \in S : j \in 0 .. n, S # {}
    PROVE  Max(S) \in S /\ \A j \in S : j <= Max(S)
<1> DEFINE U == {k \in Nat : \A j \in S : j <= k}
<1>1. n \in U
  OBVIOUS
<1>2. PICK k \in U : \A m \in U : k <= m
  <2>1. U \in SUBSET Nat /\ U # {}
    BY <1>1
  <2> HIDE DEF U
  <2> QED
    BY <2>1, LeastMember
<1>3. k \in S
  <2> SUFFICES ASSUME k \notin S PROVE FALSE
    OBVIOUS
  <2>1. \A j \in S : j <= k - 1
    BY <1>2
  <2>2. k - 1 \in Nat
    BY <2>1
  <2>3. k - 1 \in U
    BY <2>1, <2>2
  <2> QED
    BY <1>2, <2>3
<1>4. \A j \in S : k >= j
  BY <1>2
<1>5. Max(S) \in S /\ \A j \in S : Max(S) >= j
  BY <1>3, <1>4 DEF Max
<1> QED
  BY <1>5

(* A function that is defined step by step, up to a bound, exists.         *)
Steps(f, n, S, a, F) ==
    f \in [0 .. n -> S] /\ f[0] = a /\ \A k \in 1 .. n : f[k] = F[k][f[k - 1]]

(* Whatever each step makes of the value before it, the values it makes    *)
(* exist up to every n.                                                    *)
LEMMA StepByStep ==
    ASSUME NEW n \in Nat, NEW S, NEW a \in S, NEW F \in [Nat -> [S -> S]]
    PROVE  \E f : Steps(f, n, S, a, F)
<1> DEFINE Upto(m) == {f \in [0 .. m -> S] : f[0] = a /\ \A k \in 1 .. m : f[k] = F[k][f[k - 1]]}
           Bad == {m \in Nat : Upto(m) = {}}
<1>1. [k \in 0 .. 0 |-> a] \in Upto(0)
  OBVIOUS
<1>2. ASSUME NEW m \in Nat, Upto(m) # {} PROVE Upto(m + 1) # {}
  <2>1. PICK f \in [0 .. m -> S] : f[0] = a /\ \A k \in 1 .. m : f[k] = F[k][f[k - 1]]
    BY <1>2
  <2> DEFINE g == [k \in 0 .. m + 1 |-> IF k = m + 1 THEN F[m + 1][f[m]] ELSE f[k]]
  <2>2. F[m + 1][f[m]] \in S
    BY <2>1
  <2>3. /\ g \in [0 .. m + 1 -> S] /\ g[m + 1] = F[m + 1][f[m]]
        /\ \A k \in 0 .. m : g[k] = f[k]
    BY <2>1, <2>2
  <2> HIDE DEF g
  <2>4. \A k \in 1 .. m + 1 : g[k] = F[k][g[k - 1]]
    <3> TAKE k \in 1 .. m + 1
    <3>1. CASE k = m + 1
      <4>1. k - 1 = m /\ g[m] = f[m]
        BY <2>3, <3>1
      <4> QED
        BY <2>3, <3>1, <4>1
    <3>2. CASE k \in 1 .. m
      BY <2>1, <2>3, <3>2
    <3> QED
      BY <3>1, <3>2
  <2> QED
    BY <2>1, <2>3, <2>4
<1> HIDE DEF Upto
<1>3. Bad = {}
  <2> SUFFICES ASSUME Bad # {} PROVE FALSE
    OBVIOUS
  <2>1. PICK m \in Bad : \A k \in Bad : m <= k
    <3>1. Bad \in SUBSET Nat
      OBVIOUS
    <3> HIDE DEF Bad
    <3> QED
      BY <3>1, LeastMember
  <2>2. m # 0 /\ m - 1 \in Nat /\ m - 1 \notin Bad
    BY <1>1, <2>1
  <2>3. Upto(m - 1) # {} /\ (m - 1) + 1 = m
    BY <2>1, <2>2
  <2> QED
    BY <1>2, <2>1, <2>2, <2>3
<1>4. Upto(n) # {}
  BY <1>3
<1> QED
  BY <1>4 DEF Upto, Steps

-----------------------------------------------------------------------------
(* The call stack.                                                         *)

Imports == {node \in Node : node.kind \in {"import", "from"}}

IsFrame(f) ==
    /\ f = [role |-> f.role, body |-> f.body, copy |-> f.copy, pos |-> f.pos, save |-> f.save]
    /\ f.role \in Roles
    /\ f.body \in Bodies \cup {None}
    /\ f.pos \in Nat \ {0}
    /\ f.role \in {"entry", "template", "layout"} => f.body = None
    /\ f.role = "module" =>
          f.body \in Bodies /\ f.save \in [name : Names, node : Imports, out : Bindings]

(* Nodes are only rendered under some root.                                *)
StackOK(c) ==
    /\ IsSeq(c)
    /\ \A i \in 1 .. Len(c) :
          /\ IsFrame(c[i])
          /\ c[i].role \in {"entry", "template", "layout"} \/
                \E j \in 1 .. i : c[j].role = "root"

(* The same call, apart from the node it is at and what it counts.         *)
Same(f, g) ==
    /\ f.role = g.role /\ f.body = g.body /\ f.copy = g.copy
    /\ f.role \notin {"for", "module"} => f.save = g.save
    /\ f.role = "module" => f.save.name = g.save.name

Alike(c, d) ==
    /\ Len(d) = Len(c)
    /\ \A i \in 1 .. Len(c) : Same(c[i], d[i])

(* d has one frame more than c.                                            *)
Above(c, d) ==
    /\ Len(d) = Len(c) + 1
    /\ \A i \in 1 .. Len(c) : Same(c[i], d[i])

(* A call is the same as itself.                                           *)
LEMMA SameFrame == \A f : Same(f, f)
  BY DEF Same

(* If a call is the same as another, so is the other.                      *)
LEMMA SameBack == \A f, g : Same(f, g) => Same(g, f)
  BY DEF Same

(* A frame on top.                                                         *)
LEMMA StackPush ==
    ASSUME NEW c, StackOK(c), NEW f, IsFrame(f),
           f.role \in {"entry", "template", "layout", "root"}
             \/ (c # << >> /\ Last(c).role \notin {"entry", "template", "layout"})
    PROVE  /\ StackOK(Append(c, f))
           /\ Above(c, Append(c, f))
           /\ Last(Append(c, f)) = f
           /\ Append(c, f) # << >>
<1> DEFINE d == Append(c, f)
<1>1. IsSeq(c) /\ Len(c) \in Nat /\ (c # << >> => Len(c) \in 1 .. Len(c))
  BY SeqLength DEF StackOK
<1>2. /\ IsSeq(d) /\ Len(d) = Len(c) + 1 /\ d[Len(c) + 1] = f
      /\ \A i \in 1 .. Len(c) : d[i] = c[i]
  BY <1>1, SeqAppend
<1>3. d # << >> /\ Last(d) = f
  BY <1>1, <1>2, SeqLength DEF Last
<1> HIDE DEF d
<1>4. Above(c, d)
  BY <1>1, <1>2, SameFrame DEF Above
<1>5. StackOK(d)
  <2> SUFFICES ASSUME NEW i \in 1 .. Len(d)
               PROVE  /\ IsFrame(d[i])
                      /\ d[i].role \in {"entry", "template", "layout"} \/
                            \E j \in 1 .. i : d[j].role = "root"
    BY <1>2 DEF StackOK
  <2>1. CASE i \in 1 .. Len(c)
    <3>1. \A j \in 1 .. i : d[j] = c[j]
      BY <1>1, <1>2, <2>1
    <3> QED
      BY <2>1, <3>1 DEF StackOK
  <2>2. CASE i = Len(c) + 1
    <3>1. d[i] = f
      BY <1>2, <2>2
    <3>2. CASE f.role \in {"entry", "template", "layout"}
      BY <3>1, <3>2
    <3>3. CASE f.role = "root"
      BY <3>1, <3>3, <1>1, <2>2
    <3>4. CASE c # << >> /\ Last(c).role \notin {"entry", "template", "layout"}
      <4>1. PICK j \in 1 .. Len(c) : c[j].role = "root"
        BY <1>1, <3>4 DEF StackOK, Last
      <4>2. j \in 1 .. i /\ d[j].role = "root"
        BY <1>1, <1>2, <2>2, <4>1
      <4> QED
        BY <3>1, <4>2
    <3> QED
      BY <3>2, <3>3, <3>4
  <2> QED
    BY <1>1, <1>2, <2>1, <2>2
<1> QED
  BY <1>3, <1>4, <1>5 DEF d

(* The top frame gone.                                                     *)
LEMMA StackPop ==
    ASSUME NEW c, StackOK(c), c # << >>
    PROVE  /\ StackOK(Front(c))
           /\ Above(Front(c), c)
           /\ Front(c) = << >> <=> Len(c) = 1
<1>1. IsSeq(c) /\ Len(c) \in Nat /\ Len(c) >= 1
  BY SeqFront, SeqLength DEF StackOK
<1>2. /\ IsSeq(Front(c)) /\ Len(Front(c)) = Len(c) - 1
      /\ \A i \in 1 .. Len(c) - 1 : Front(c)[i] = c[i]
  BY <1>1, SeqFront
<1>3. Above(Front(c), c)
  BY <1>1, <1>2, SameFrame DEF Above
<1>4. StackOK(Front(c))
  <2> SUFFICES ASSUME NEW i \in 1 .. Len(Front(c))
               PROVE  /\ IsFrame(Front(c)[i])
                      /\ Front(c)[i].role \in {"entry", "template", "layout"} \/
                            \E j \in 1 .. i : Front(c)[j].role = "root"
    BY <1>2 DEF StackOK
  <2>1. i \in 1 .. Len(c) /\ \A j \in 1 .. i : Front(c)[j] = c[j]
    BY <1>1, <1>2
  <2> QED
    BY <2>1 DEF StackOK
<1>5. Front(c) = << >> <=> Len(c) = 1
  BY <1>1, <1>2, SeqLength
<1> QED
  BY <1>3, <1>4, <1>5

(* The top frame replaced by one of the same call.                         *)
LEMMA StackTurn ==
    ASSUME NEW c, StackOK(c), c # << >>, NEW f, IsFrame(f), Same(Last(c), f)
    PROVE  LET d == [c EXCEPT ![Len(c)] = f]
           IN  StackOK(d) /\ Alike(c, d) /\ d # << >> /\ Last(d) = f
<1> DEFINE d == [c EXCEPT ![Len(c)] = f]
<1>1. IsSeq(c) /\ Len(c) \in Nat /\ Len(c) \in 1 .. Len(c)
  BY SeqLength DEF StackOK
<1>2. /\ IsSeq(d) /\ Len(d) = Len(c) /\ d[Len(c)] = f
      /\ \A i \in 1 .. Len(c) : i # Len(c) => d[i] = c[i]
  BY <1>1, SeqExcept
<1> HIDE DEF d
<1>3. \A i \in 1 .. Len(c) : Same(c[i], d[i]) /\ IsFrame(d[i])
  <2> TAKE i \in 1 .. Len(c)
  <2>1. CASE i = Len(c)
    BY <1>2, <2>1 DEF Last
  <2>2. CASE i # Len(c)
    BY <1>2, <2>2, SameFrame DEF StackOK
  <2> QED
    BY <2>1, <2>2
<1>4. StackOK(d)
  BY <1>1, <1>2, <1>3 DEF StackOK, Same
<1>5. d # << >> /\ Last(d) = f
  BY <1>1, <1>2, SeqLength DEF Last
<1> QED
  BY <1>2, <1>3, <1>4, <1>5 DEF Alike, d

-----------------------------------------------------------------------------
(* The stack of open templates.                                            *)

Opens(f) == f.role \in {"entry", "template", "layout", "module"} /\ f.save.name # None
OpenIn(c) == {i \in 1 .. Len(c) : Opens(c[i])}

NamesInv(c, open) ==
    /\ IsSeq(open)
    /\ Len(open) = Count(OpenIn(c), Len(c))
    /\ \A i \in OpenIn(c) : open[Count(OpenIn(c), i)] = c[i].save.name

(* The same call opens a template, or does not, and the same one.          *)
LEMMA SameOpens ==
    ASSUME NEW f, NEW g, Same(f, g)
    PROVE  /\ Opens(f) <=> Opens(g)
           /\ Opens(f) => f.save.name = g.save.name
  BY DEF Same, Opens

(* A frame on top opens a template or does not; the others open what they  *)
(* did.                                                                    *)
LEMMA OpenAbove ==
    ASSUME NEW c, NEW d, Len(c) \in Nat, Above(c, d)
    PROVE  LET n == Len(c)
           IN  /\ OpenIn(d) = OpenIn(c) \cup (IF Opens(d[n + 1]) THEN {n + 1} ELSE {})
               /\ \A i \in OpenIn(c) : i \in 1 .. n
               /\ \A i \in OpenIn(d) : i \in 1 .. n + 1
               /\ \A i \in OpenIn(c) : d[i].save.name = c[i].save.name
               /\ \A i \in 0 .. n : Count(OpenIn(d), i) = Count(OpenIn(c), i)
               /\ Count(OpenIn(d), n + 1)
                     = Count(OpenIn(c), n) + IF Opens(d[n + 1]) THEN 1 ELSE 0
<1> DEFINE n == Len(c)
<1>1. Len(d) = n + 1 /\ \A i \in 1 .. n : Same(c[i], d[i])
  BY DEF Above
<1>2. \A i \in 1 .. n : Opens(c[i]) <=> Opens(d[i])
  BY <1>1, SameOpens
<1>3. \A i \in OpenIn(c) : i \in 1 .. n /\ d[i].save.name = c[i].save.name
  BY <1>1, SameOpens DEF OpenIn
<1>4. \A i : i \in OpenIn(d) <=> i \in OpenIn(c) \/ (i = n + 1 /\ Opens(d[n + 1]))
  BY <1>1, <1>2 DEF OpenIn
<1>5. OpenIn(d) = OpenIn(c) \cup (IF Opens(d[n + 1]) THEN {n + 1} ELSE {})
  BY <1>4
<1>6. n + 1 \in OpenIn(d) <=> Opens(d[n + 1])
  BY <1>3, <1>4
<1>7. /\ \A i \in 0 .. n : Count(OpenIn(d), i) = Count(OpenIn(c), i)
      /\ Count(OpenIn(d), n + 1)
            = Count(OpenIn(c), n) + IF n + 1 \in OpenIn(d) THEN 1 ELSE 0
  <2>1. OpenIn(d) = OpenIn(c) \/ OpenIn(d) = OpenIn(c) \cup {n + 1}
    BY <1>5
  <2> QED
    BY <1>3, <2>1, CountStep
<1> QED
  BY <1>1, <1>3, <1>5, <1>6, <1>7 DEF OpenIn

(* A frame that opens a template comes with its name on top.               *)
LEMMA NamesPush ==
    ASSUME NEW c, NEW d, IsSeq(c), Above(c, d), NEW open, NamesInv(c, open)
    PROVE  NamesInv(d, IF Opens(Last(d)) THEN Append(open, Last(d).save.name) ELSE open)
<1> DEFINE n == Len(c)
<1> DEFINE m == Len(open)
<1>1. n \in Nat /\ Len(d) = n + 1 /\ Last(d) = d[n + 1]
  BY SeqLength DEF Above, Last
<1>2. m \in Nat /\ IsSeq(open) /\ m = Count(OpenIn(c), n)
  BY SeqLength DEF NamesInv
<1>3. \A i \in OpenIn(c) : i \in 1 .. n /\ Count(OpenIn(c), i) \in 1 .. m
  <2>1. \A i \in OpenIn(c) : i \in 1 .. n
    BY DEF OpenIn
  <2>2. \A i \in OpenIn(c) : Count(OpenIn(c), i) \in 1 .. Count(OpenIn(c), n)
    BY <1>1, <2>1, CountGrows
  <2> QED
    BY <1>2, <2>1, <2>2
<1>4. CASE Opens(d[n + 1])
  <2> DEFINE e == Append(open, d[n + 1].save.name)
  <2>1. /\ IsSeq(e) /\ Len(e) = m + 1
        /\ \A k \in 1 .. m : e[k] = open[k]
        /\ e[m + 1] = d[n + 1].save.name
    BY <1>2, SeqAppend
  <2> HIDE DEF e
  <2>2. Len(e) = Count(OpenIn(d), Len(d))
    BY <1>1, <1>2, <1>4, <2>1, OpenAbove
  <2>3. \A i \in OpenIn(d) : e[Count(OpenIn(d), i)] = d[i].save.name
    <3> TAKE i \in OpenIn(d)
    <3>1. CASE i \in OpenIn(c)
      <4>1. i \in 0 .. n /\ Count(OpenIn(d), i) = Count(OpenIn(c), i)
        BY <1>1, <1>3, <3>1, OpenAbove
      <4>2. Count(OpenIn(c), i) \in 1 .. m
        BY <1>3, <3>1
      <4>3. open[Count(OpenIn(c), i)] = d[i].save.name
        BY <1>1, <3>1, OpenAbove DEF NamesInv
      <4> QED
        BY <2>1, <4>1, <4>2, <4>3
    <3>2. CASE i = n + 1
      BY <1>1, <1>2, <1>4, <2>1, <3>2, OpenAbove
    <3> QED
      BY <1>1, <3>1, <3>2, OpenAbove
  <2>4. NamesInv(d, e)
    BY <2>1, <2>2, <2>3 DEF NamesInv
  <2> QED
    BY <1>1, <1>4, <2>4 DEF e
<1>5. CASE ~Opens(d[n + 1])
  <2>1. OpenIn(d) = OpenIn(c)
    BY <1>1, <1>5, OpenAbove
  <2>2. Count(OpenIn(d), n + 1) = m
    BY <1>1, <1>2, <1>5, OpenAbove
  <2>3. \A i \in OpenIn(d) : open[Count(OpenIn(d), i)] = d[i].save.name
    BY <1>1, <2>1, OpenAbove DEF NamesInv
  <2>4. NamesInv(d, open)
    BY <1>1, <1>2, <2>3, <2>2 DEF NamesInv
  <2> QED
    BY <1>1, <1>5, <2>4
<1> QED
  BY <1>4, <1>5

(* It takes its name with it.                                              *)
LEMMA NamesPop ==
    ASSUME NEW c, NEW d, IsSeq(c), Above(c, d), NEW open, NamesInv(d, open)
    PROVE  /\ NamesInv(c, IF Opens(Last(d)) THEN Front(open) ELSE open)
           /\ Opens(Last(d)) => open # << >> /\ Last(open) = Last(d).save.name
<1> DEFINE n == Len(c)
<1> DEFINE m == Len(open)
<1>1. n \in Nat /\ Len(d) = n + 1 /\ Last(d) = d[n + 1]
  BY SeqLength DEF Above, Last
<1>2. m \in Nat /\ IsSeq(open) /\ m = Count(OpenIn(d), n + 1)
  BY <1>1, SeqLength DEF NamesInv
<1>3. /\ \A i \in OpenIn(c) : i \in 1 .. n /\ i \in OpenIn(d)
      /\ \A i \in OpenIn(c) : open[Count(OpenIn(c), i)] = c[i].save.name
      /\ n \in 0 .. n /\ Count(OpenIn(c), n) \in Nat
  <2>1. \A i \in OpenIn(c) : i \in 1 .. n /\ i \in OpenIn(d)
    BY <1>1, OpenAbove
  <2>2. \A i \in OpenIn(c) : open[Count(OpenIn(d), i)] = c[i].save.name
    BY <1>1, <2>1, OpenAbove DEF NamesInv
  <2>3. n \in 0 .. n /\ Count(OpenIn(c), n) \in Nat
    BY <1>1, <2>1, CountGrows
  <2>4. \A i \in OpenIn(c) : Count(OpenIn(d), i) = Count(OpenIn(c), i)
    BY <1>1, <2>1, OpenAbove
  <2> QED
    BY <2>1, <2>2, <2>3, <2>4
<1>4. CASE Opens(d[n + 1])
  <2>1. m = Count(OpenIn(c), n) + 1
    BY <1>1, <1>2, <1>4, OpenAbove
  <2>2. open # << >> /\ m >= 1
    BY <1>2, <1>3, <2>1, SeqLength
  <2>3. n + 1 \in OpenIn(d)
    BY <1>1, <1>4, OpenAbove
  <2>4. Last(open) = Last(d).save.name
    BY <1>1, <1>2, <2>3 DEF NamesInv, Last
  <2>5. /\ IsSeq(Front(open)) /\ Len(Front(open)) = m - 1
        /\ \A i \in 1 .. m - 1 : Front(open)[i] = open[i]
    BY <1>2, <2>2, SeqFront
  <2>6. \A i \in OpenIn(c) : Count(OpenIn(c), i) \in 1 .. m - 1
    <3>1. \A i \in OpenIn(c) : Count(OpenIn(c), i) \in 1 .. Count(OpenIn(c), n)
      BY <1>1, <1>3, CountGrows
    <3> QED
      BY <1>3, <2>1, <3>1
  <2>7. NamesInv(c, Front(open))
    BY <1>3, <2>1, <2>5, <2>6 DEF NamesInv
  <2> QED
    BY <1>1, <1>4, <2>2, <2>4, <2>7
<1>5. CASE ~Opens(d[n + 1])
  <2>1. m = Count(OpenIn(c), n)
    BY <1>1, <1>2, <1>3, <1>5, OpenAbove
  <2>2. NamesInv(c, open)
    BY <1>2, <1>3, <2>1 DEF NamesInv
  <2> QED
    BY <1>1, <1>5, <2>2
<1> QED
  BY <1>4, <1>5

(* A call that goes on opens and closes no template.                       *)
LEMMA NamesTurn ==
    ASSUME NEW c, NEW d, Alike(c, d), NEW open, NamesInv(c, open)
    PROVE  NamesInv(d, open)
<1>1. Len(d) = Len(c) /\ OpenIn(d) = OpenIn(c)
  BY SameOpens DEF Alike, OpenIn
<1>2. \A i \in OpenIn(c) : d[i].save.name = c[i].save.name
  BY SameOpens DEF Alike, OpenIn
<1> QED
  BY <1>1, <1>2 DEF NamesInv

-----------------------------------------------------------------------------
(* The frames of some roles.                                               *)

RoleIn(c, roles) == {i \in 1 .. Len(c) : c[i].role \in roles}

(* A frame on top has one of the roles or not; the others have those they  *)
(* had.                                                                    *)
LEMMA RoleAbove ==
    ASSUME NEW c, NEW d, Len(c) \in Nat, Above(c, d), NEW roles
    PROVE  LET n == Len(c)
               S == RoleIn(c, roles)
               T == RoleIn(d, roles)
           IN  /\ \A i : i \in T <=> i \in S \/ (i = n + 1 /\ d[n + 1].role \in roles)
               /\ \A i \in S : i \in 1 .. n
               /\ \A i \in 0 .. n : Count(T, i) = Count(S, i) /\ Count(S, i) \in Nat
               /\ Count(T, n + 1) = Count(S, n) + IF d[n + 1].role \in roles THEN 1 ELSE 0
<1> DEFINE n == Len(c)
           S == RoleIn(c, roles)
           T == RoleIn(d, roles)
<1>1. Len(d) = n + 1 /\ \A i \in 1 .. n : c[i].role = d[i].role
  BY DEF Above, Same
<1>2. \A i : i \in T <=> i \in S \/ (i = n + 1 /\ d[n + 1].role \in roles)
  BY <1>1 DEF RoleIn
<1>3. \A i \in S : i \in 1 .. n
  BY DEF RoleIn
<1>4. T = S \/ T = S \cup {n + 1}
  BY <1>2
<1>5. n + 1 \in T <=> d[n + 1].role \in roles
  BY <1>2, <1>3
<1> HIDE DEF S, T
<1>6. /\ \A i \in 0 .. n : Count(T, i) = Count(S, i) /\ Count(S, i) \in Nat
      /\ Count(T, n + 1) = Count(S, n) + IF n + 1 \in T THEN 1 ELSE 0
  BY <1>3, <1>4, CountStep, CountGrows
<1> QED
  BY <1>2, <1>3, <1>5, <1>6 DEF S, T

(* A call that goes on keeps its role.                                     *)
LEMMA RoleAlike ==
    ASSUME NEW c, NEW d, Alike(c, d), NEW roles
    PROVE  RoleIn(c, roles) = RoleIn(d, roles) /\ Len(c) = Len(d)
  BY DEF Alike, Same, RoleIn

-----------------------------------------------------------------------------
(* The stack of callers.                                                   *)

CallersInv(c, given) ==
    IsSeq(given) /\ Len(given) = Count(RoleIn(c, {"call"}), Len(c))

(* A call block that begins pushes one caller, any other call none.        *)
LEMMA CallersPush ==
    ASSUME NEW c, NEW d, IsSeq(c), Above(c, d), NEW given, CallersInv(c, given),
           NEW next, IsSeq(next),
           Len(next) = Len(given) + IF Last(d).role = "call" THEN 1 ELSE 0
    PROVE  CallersInv(d, next)
<1>1. Len(c) \in Nat /\ Len(d) = Len(c) + 1 /\ Last(d) = d[Len(c) + 1]
  BY SeqLength DEF Above, Last
<1>2. Len(given) = Count(RoleIn(c, {"call"}), Len(c))
  BY DEF CallersInv
<1> QED
  BY <1>1, <1>2, RoleAbove DEF CallersInv

(* A call block that ends pops one caller, any other call none.            *)
LEMMA CallersPop ==
    ASSUME NEW c, NEW d, IsSeq(c), Above(c, d), NEW given, CallersInv(d, given)
    PROVE  CallersInv(c, IF Last(d).role = "call" THEN Front(given) ELSE given)
<1>1. Len(c) \in Nat /\ Len(d) = Len(c) + 1 /\ Last(d) = d[Len(c) + 1]
  BY SeqLength DEF Above, Last
<1>2. Len(given) = Count(RoleIn(d, {"call"}), Len(c) + 1) /\ IsSeq(given)
  BY <1>1 DEF CallersInv
<1>3. /\ Count(RoleIn(c, {"call"}), Len(c)) \in Nat
      /\ Len(given) = Count(RoleIn(c, {"call"}), Len(c))
                        + IF Last(d).role = "call" THEN 1 ELSE 0
  BY <1>1, <1>2, RoleAbove
<1>4. CASE Last(d).role = "call"
  <2>1. given # << >>
    BY <1>2, <1>3, <1>4, SeqLength
  <2> QED
    BY <1>2, <1>3, <1>4, <2>1, SeqFront DEF CallersInv
<1>5. CASE Last(d).role # "call"
  BY <1>2, <1>3, <1>5 DEF CallersInv
<1> QED
  BY <1>4, <1>5

(* A call that goes on keeps the callers.                                  *)
LEMMA CallersTurn ==
    ASSUME NEW c, NEW d, Alike(c, d), NEW given, CallersInv(c, given)
    PROVE  CallersInv(d, given)
  BY RoleAlike DEF CallersInv

-----------------------------------------------------------------------------
(* Macro scopes.                                                           *)

Roots(c) == RoleIn(c, {"root"})

ScopesInv(c, stack) ==
    /\ IsSeq(stack)
    /\ \A i \in Roots(c) : c[i].save.base \in 0 .. Len(stack)
    /\ \A i, j \in Roots(c) : i < j => c[i].save.base <= c[j].save.base
    /\ \A i \in Roots(c) : (\A j \in Roots(c) : i <= j) => c[i].save.base = 0
    /\ Roots(c) = {} => stack = << >>

(* A frame on top is a root or not; the others are what they were.         *)
LEMMA RootsAbove ==
    ASSUME NEW c, NEW d, IsSeq(c), Above(c, d)
    PROVE  LET n == Len(c)
           IN  /\ n \in Nat /\ Len(d) = n + 1 /\ Last(d) = d[n + 1]
               /\ \A i : i \in Roots(d) <=> i \in Roots(c) \/ (i = n + 1 /\ Last(d).role = "root")
               /\ \A i \in Roots(c) : i \in 1 .. n /\ d[i].save.base = c[i].save.base
<1>1. Len(c) \in Nat /\ Len(d) = Len(c) + 1 /\ Last(d) = d[Len(c) + 1]
  BY SeqLength DEF Above, Last
<1>2. \A i \in 1 .. Len(c) : c[i].role = "root" => d[i].save = c[i].save
  BY DEF Above, Same
<1>3. \A i \in Roots(c) : i \in 1 .. Len(c) /\ c[i].role = "root"
  BY DEF Roots, RoleIn
<1>4. \A i : i \in Roots(d) <=> i \in Roots(c) \/ (i = Len(c) + 1 /\ Last(d).role = "root")
  BY <1>1, RoleAbove DEF Roots
<1> QED
  BY <1>1, <1>2, <1>3, <1>4

(* A root remembers how many scopes there were, and may add its own.       *)
LEMMA ScopesPushRoot ==
    ASSUME NEW c, NEW d, IsSeq(c), Above(c, d), NEW stack, ScopesInv(c, stack),
           Last(d).role = "root", Last(d).save.base = Len(stack),
           NEW next, IsSeq(next), Len(next) >= Len(stack)
    PROVE  ScopesInv(d, next)
<1> DEFINE n == Len(c)
<1>1. /\ n \in Nat /\ Len(d) = n + 1 /\ d[n + 1].save.base = Len(stack)
      /\ \A i : i \in Roots(d) <=> i \in Roots(c) \/ i = n + 1
      /\ \A i \in Roots(c) : i \in 1 .. n /\ d[i].save.base = c[i].save.base
  BY RootsAbove
<1>2. Len(stack) \in Nat /\ Len(next) \in Nat /\ (stack = << >> => Len(stack) = 0)
  BY SeqLength DEF ScopesInv
<1>3. \A i \in Roots(d) : d[i].save.base \in 0 .. Len(stack)
  BY <1>1, <1>2 DEF ScopesInv
<1>4. \A i, j \in Roots(d) : i < j => d[i].save.base <= d[j].save.base
  BY <1>1, <1>2 DEF ScopesInv
<1>5. ASSUME NEW i \in Roots(d), \A j \in Roots(d) : i <= j
      PROVE  d[i].save.base = 0
  <2>1. CASE i \in Roots(c)
    BY <1>1, <1>5, <2>1 DEF ScopesInv
  <2>2. CASE i = n + 1
    <3>1. ASSUME NEW j \in Roots(c) PROVE FALSE
      <4>1. n + 1 <= j /\ j \in 1 .. n
        BY <1>1, <1>5, <2>2
      <4> QED
        BY <1>1, <4>1
    <3> QED
      BY <1>1, <1>2, <2>2, <3>1 DEF ScopesInv
  <2> QED
    BY <1>1, <2>1, <2>2
<1>6. Roots(d) # {}
  BY <1>1
<1> QED
  BY <1>2, <1>3, <1>4, <1>5, <1>6 DEF ScopesInv

(* A call that is no root keeps the macro scopes.                          *)
LEMMA ScopesPush ==
    ASSUME NEW c, NEW d, IsSeq(c), Above(c, d), NEW stack, ScopesInv(c, stack),
           Last(d).role # "root"
    PROVE  ScopesInv(d, stack)
<1>1. Roots(d) = Roots(c) /\ \A i \in Roots(c) : d[i].save.base = c[i].save.base
  BY RootsAbove
<1> QED
  BY <1>1 DEF ScopesInv

(* It leaves what was there before it, whatever has been added since.      *)
LEMMA ScopesPopRoot ==
    ASSUME NEW c, NEW d, IsSeq(c), Above(c, d), NEW stack, ScopesInv(d, stack),
           Last(d).role = "root"
    PROVE  ScopesInv(c, SubSeq(stack, 1, Last(d).save.base))
<1> DEFINE n == Len(c)
           b == Last(d).save.base
           next == SubSeq(stack, 1, b)
<1>1. /\ n \in Nat /\ Len(d) = n + 1 /\ d[n + 1].save.base = b
      /\ \A i : i \in Roots(d) <=> i \in Roots(c) \/ i = n + 1
      /\ \A i \in Roots(c) : i \in 1 .. n /\ d[i].save.base = c[i].save.base
  BY RootsAbove
<1>2. b \in 0 .. Len(stack) /\ IsSeq(stack)
  BY <1>1 DEF ScopesInv
<1>3. IsSeq(next) /\ Len(next) = b
  BY <1>2, SeqPrefix
<1> HIDE DEF next, b
<1>4. \A i \in Roots(c) : c[i].save.base \in 0 .. b
  <2> TAKE i \in Roots(c)
  <2>1. c[i].save.base \in 0 .. Len(stack) /\ Len(stack) \in Nat
    BY <1>1, SeqLength DEF ScopesInv
  <2>2. d[i].save.base <= d[n + 1].save.base
    BY <1>1 DEF ScopesInv
  <2> QED
    BY <1>1, <1>2, <2>1, <2>2
<1>5. \A i, j \in Roots(c) : i < j => c[i].save.base <= c[j].save.base
  BY <1>1 DEF ScopesInv
<1>6. ASSUME NEW i \in Roots(c), \A j \in Roots(c) : i <= j
      PROVE  c[i].save.base = 0
  <2>1. \A j \in Roots(d) : i <= j
    BY <1>1, <1>6
  <2> QED
    BY <1>1, <2>1 DEF ScopesInv
<1>7. Roots(c) = {} => next = << >>
  <2> SUFFICES ASSUME Roots(c) = {} PROVE next = << >>
    OBVIOUS
  <2>1. \A j \in Roots(d) : n + 1 <= j
    BY <1>1
  <2>2. b = 0
    BY <1>1, <2>1 DEF ScopesInv
  <2> QED
    BY <1>3, <2>2, SeqLength
<1>8. ScopesInv(c, next)
  BY <1>3, <1>4, <1>5, <1>6, <1>7 DEF ScopesInv
<1> QED
  BY <1>8 DEF next, b

(* Anything else that ends may have added scopes for the root it is in.    *)
LEMMA ScopesPop ==
    ASSUME NEW c, NEW d, IsSeq(c), Above(c, d), NEW stack, ScopesInv(d, stack),
           Last(d).role # "root",
           NEW next, next = stack \/ (IsSeq(next) /\ Len(next) >= Len(stack) /\ Roots(c) # {})
    PROVE  ScopesInv(c, next)
<1>1. Roots(d) = Roots(c) /\ \A i \in Roots(c) : d[i].save.base = c[i].save.base
  BY RootsAbove
<1>2. ScopesInv(c, stack)
  BY <1>1 DEF ScopesInv
<1>3. CASE IsSeq(next) /\ Len(next) >= Len(stack) /\ Roots(c) # {}
  <2>1. Len(stack) \in Nat /\ Len(next) \in Nat
    BY <1>2, <1>3, SeqLength DEF ScopesInv
  <2>2. \A i \in Roots(c) : c[i].save.base \in 0 .. Len(next)
    BY <1>2, <1>3, <2>1 DEF ScopesInv
  <2> QED
    BY <1>2, <1>3, <2>2 DEF ScopesInv
<1> QED
  BY <1>2, <1>3

(* A call that goes on keeps the macro scopes under it.                    *)
LEMMA ScopesTurn ==
    ASSUME NEW c, NEW d, Alike(c, d), NEW stack, ScopesInv(c, stack)
    PROVE  ScopesInv(d, stack)
<1>1. Roots(c) = Roots(d)
  BY RoleAlike DEF Roots
<1>2. \A i \in Roots(c) : c[i].save.base = d[i].save.base
  BY DEF Alike, Same, Roots, RoleIn
<1> QED
  BY <1>1, <1>2 DEF ScopesInv

-----------------------------------------------------------------------------
(* super_context and the block chains.                                     *)

Positions == (BlockNames \X Nat) \cup {None}
Lineups == [BlockNames -> Seq(Bodies)] \cup {None}

ChainIn(lineup, b) == IF lineup = None THEN << >> ELSE lineup[b]

(* What a block's body is, when super_context is at.                       *)
Shows(body, at, lineup) ==
    /\ at \in BlockNames \X Nat
    /\ ChainIn(lineup, at[1]) # << >> => body = ChainIn(lineup, at[1])[at[2] + 1]
    /\ ChainIn(lineup, at[1]) = << >> => at[2] = 0

(* The chains that a child's layout is rendered with.                      *)
Lines(l, f, lineup) ==
    /\ f.save.child \in Bodies
    /\ ParentOf[f.save.child] # None
    /\ ParentsOK(l, ParentOf[f.save.child].name)
    /\ lineup = ChainsOf(l, ParentOf[f.save.child].name, BlocksOf[f.save.child])

Overrides(f) == f.role \in {"block", "super"}
Inner(f) == f.role \in {"block", "super", "layout"}

(* at[i] and lineup[i] are what super_context and block_chains are while   *)
(* frame i is on top.  at follows the blocks, lineup the layouts, and      *)
(* between two of them neither changes.                                    *)
FollowTypes(c, at, lineup) ==
    /\ at \in [0 .. Len(c) -> Positions]
    /\ lineup \in [0 .. Len(c) -> Lineups]
    /\ at[0] = None /\ lineup[0] = None

FollowAt(l, f, at0, at1, lineup0, lineup1) ==
    /\ IF Overrides(f) THEN f.save.prev = at0 /\ Shows(f.body, at1, lineup1) ELSE at1 = at0
    /\ IF f.role = "layout" THEN f.save.prev = lineup0 /\ Lines(l, f, lineup1)
                            ELSE lineup1 = lineup0

FollowSteps(l, c, at, lineup) ==
    \A i \in 1 .. Len(c) : FollowAt(l, c[i], at[i - 1], at[i], lineup[i - 1], lineup[i])

FollowNone(c, at, lineup) ==
    \A i \in 0 .. Len(c) :
        /\ (\A j \in 1 .. i : ~Inner(c[j])) => at[i] = None
        /\ (\A j \in 1 .. i : c[j].role # "layout") => lineup[i] = None

FollowSince(c, at, lineup) ==
    \A i \in 0 .. Len(c) : \A j \in 1 .. i :
        /\ Inner(c[j]) /\ (\A k \in j + 1 .. i : ~Inner(c[k])) =>
              at[i] = at[j] /\ lineup[i] = lineup[j]
        /\ c[j].role = "layout" /\ (\A k \in j + 1 .. i : c[k].role # "layout") =>
              lineup[i] = lineup[j]

Follow(l, c, at, lineup) ==
    /\ FollowTypes(c, at, lineup) /\ FollowSteps(l, c, at, lineup)
    /\ FollowNone(c, at, lineup) /\ FollowSince(c, at, lineup)

SupersInv(l, c, now, lined) ==
    \E at, lineup :
        Follow(l, c, at, lineup) /\ at[Len(c)] = now /\ lineup[Len(c)] = lined

(* The same call is a block, a super() or a layout, or none of them, and   *)
(* what it follows is the same.                                            *)
LEMMA SameInner ==
    ASSUME NEW f, NEW g, Same(f, g)
    PROVE  /\ Overrides(f) <=> Overrides(g)
           /\ Inner(f) <=> Inner(g)
           /\ f.role = g.role
           /\ f.body = g.body
           /\ Inner(f) => f.save = g.save
           /\ \A l, at0, at1, lineup0, lineup1 :
                 FollowAt(l, f, at0, at1, lineup0, lineup1)
                    => FollowAt(l, g, at0, at1, lineup0, lineup1)
  BY DEF Same, Overrides, Inner, Lines, FollowAt

(* Where nothing runs there is no block and no chain.                      *)
LEMMA SupersNone ==
    ASSUME NEW l PROVE SupersInv(l, << >>, None, None)
<1> DEFINE at == [i \in 0 .. 0 |-> None]
<1>1. at \in [0 .. 0 -> Positions] /\ at \in [0 .. 0 -> Lineups] /\ at[0] = None
  BY DEF Positions, Lineups
<1>2. Len(<< >>) = 0 /\ 0 .. 0 = {0} /\ 1 .. 0 = {}
  OBVIOUS
<1> HIDE DEF at
<1>3. FollowTypes(<< >>, at, at) /\ FollowSteps(l, << >>, at, at)
  BY <1>1, <1>2 DEF FollowTypes, FollowSteps
<1>4. FollowNone(<< >>, at, at) /\ FollowSince(<< >>, at, at)
  BY <1>1, <1>2 DEF FollowNone, FollowSince
<1> QED
  BY <1>1, <1>2, <1>3, <1>4 DEF Follow, SupersInv

(* What super_context and the chains are, is determined by the calls.      *)
LEMMA SupersNow ==
    ASSUME NEW l, NEW c, IsSeq(c), NEW now, NEW lined, SupersInv(l, c, now, lined)
    PROVE  /\ now \in Positions /\ lined \in Lineups
           /\ (\A j \in 1 .. Len(c) : ~Inner(c[j])) => now = None
           /\ (\A j \in 1 .. Len(c) : c[j].role # "layout") => lined = None
           /\ \A j \in 1 .. Len(c) :
                 Overrides(c[j]) /\ (\A k \in j + 1 .. Len(c) : ~Inner(c[k])) =>
                    Shows(c[j].body, now, lined)
           /\ \A j \in 1 .. Len(c) :
                 c[j].role = "layout" /\ (\A k \in j + 1 .. Len(c) : c[k].role # "layout") =>
                    Lines(l, c[j], lined)
<1> DEFINE n == Len(c)
<1>1. n \in Nat /\ n \in 0 .. Len(c)
  BY SeqLength
<1>2. PICK at, lineup : Follow(l, c, at, lineup) /\ at[n] = now /\ lineup[n] = lined
  BY DEF SupersInv
<1>3. now \in Positions /\ lined \in Lineups
  BY <1>1, <1>2 DEF Follow, FollowTypes
<1>4. /\ (\A j \in 1 .. n : ~Inner(c[j])) => now = None
      /\ (\A j \in 1 .. n : c[j].role # "layout") => lined = None
  BY <1>1, <1>2 DEF Follow, FollowNone
<1>5. ASSUME NEW j \in 1 .. n
      PROVE  /\ Inner(c[j]) /\ (\A k \in j + 1 .. n : ~Inner(c[k])) =>
                    now = at[j] /\ lined = lineup[j]
             /\ c[j].role = "layout" /\ (\A k \in j + 1 .. n : c[k].role # "layout") =>
                    lined = lineup[j]
  BY <1>1, <1>2 DEF Follow, FollowSince
<1>6. ASSUME NEW j \in 1 .. n
      PROVE  /\ Overrides(c[j]) => Inner(c[j]) /\ Shows(c[j].body, at[j], lineup[j])
             /\ c[j].role = "layout" => Lines(l, c[j], lineup[j])
  BY <1>2 DEF Follow, FollowSteps, FollowAt, Overrides, Inner
<1> QED
  BY <1>3, <1>4, <1>5, <1>6

(* Outside every block and layout there is no position.                    *)
LEMMA NoSuper ==
    ASSUME NEW l, NEW c, IsSeq(c), NEW now, NEW lined, SupersInv(l, c, now, lined),
           \A j \in 1 .. Len(c) : ~Inner(c[j])
    PROVE  now = None
<1>1. Len(c) \in Nat /\ Len(c) \in 0 .. Len(c)
  BY SeqLength
<1>2. PICK at, lineup : Follow(l, c, at, lineup) /\ at[Len(c)] = now /\ lineup[Len(c)] = lined
  BY DEF SupersInv
<1> QED
  BY <1>1, <1>2 DEF Follow, FollowNone

(* Outside every layout there are no chains.                               *)
LEMMA NoChains ==
    ASSUME NEW l, NEW c, IsSeq(c), NEW now, NEW lined, SupersInv(l, c, now, lined),
           \A j \in 1 .. Len(c) : c[j].role # "layout"
    PROVE  lined = None
<1>1. Len(c) \in Nat /\ Len(c) \in 0 .. Len(c)
  BY SeqLength
<1>2. PICK at, lineup : Follow(l, c, at, lineup) /\ at[Len(c)] = now /\ lineup[Len(c)] = lined
  BY DEF SupersInv
<1> QED
  BY <1>1, <1>2 DEF Follow, FollowNone

(* A frame on top: a block and its position, a layout and its chains, or   *)
(* another with which they stay.                                           *)
LEMMA SupersPush ==
    ASSUME NEW l, NEW c, NEW d, IsSeq(c), Above(c, d),
           NEW now, NEW lined, SupersInv(l, c, now, lined),
           NEW next \in Positions, NEW nextLined \in Lineups,
           FollowAt(l, Last(d), now, next, lined, nextLined)
    PROVE  SupersInv(l, d, next, nextLined)
<1> DEFINE n == Len(c)
<1>1. /\ n \in Nat /\ Len(d) = n + 1 /\ Last(d) = d[n + 1]
      /\ \A i \in 1 .. n : Same(c[i], d[i])
  BY SeqLength DEF Above, Last
<1>2. PICK at, lineup : Follow(l, c, at, lineup) /\ at[n] = now /\ lineup[n] = lined
  BY DEF SupersInv
<1> DEFINE at2 == [i \in 0 .. n + 1 |-> IF i = n + 1 THEN next ELSE at[i]]
           lineup2 == [i \in 0 .. n + 1 |-> IF i = n + 1 THEN nextLined ELSE lineup[i]]
<1>3. /\ at2 \in [0 .. n + 1 -> Positions] /\ lineup2 \in [0 .. n + 1 -> Lineups]
      /\ at2[n + 1] = next /\ lineup2[n + 1] = nextLined
      /\ \A i \in 0 .. n : at2[i] = at[i] /\ lineup2[i] = lineup[i]
  BY <1>1, <1>2 DEF Follow, FollowTypes
<1> HIDE DEF at2, lineup2
<1>4. \A i \in 1 .. n :
          /\ Inner(d[i]) <=> Inner(c[i])
          /\ d[i].role = c[i].role
          /\ \A at0, at1, lineup0, lineup1 :
                FollowAt(l, c[i], at0, at1, lineup0, lineup1)
                   => FollowAt(l, d[i], at0, at1, lineup0, lineup1)
  BY <1>1, SameInner
<1>5. FollowTypes(d, at2, lineup2)
  BY <1>1, <1>2, <1>3 DEF Follow, FollowTypes
<1>6. FollowSteps(l, d, at2, lineup2)
  <2> SUFFICES ASSUME NEW i \in 1 .. n + 1
               PROVE  FollowAt(l, d[i], at2[i - 1], at2[i], lineup2[i - 1], lineup2[i])
    BY <1>1 DEF FollowSteps
  <2>1. CASE i = n + 1
    <3>1. i - 1 = n /\ at2[n] = now /\ lineup2[n] = lined /\ d[i] = Last(d)
      BY <1>1, <1>2, <1>3, <2>1
    <3> QED
      BY <1>3, <2>1, <3>1
  <2>2. CASE i \in 1 .. n
    <3>1. i - 1 \in 0 .. n /\ i \in 0 .. n
      BY <1>1, <2>2
    <3>2. FollowAt(l, c[i], at[i - 1], at[i], lineup[i - 1], lineup[i])
      BY <1>2, <2>2 DEF Follow, FollowSteps
    <3> QED
      BY <1>3, <1>4, <2>2, <3>1, <3>2
  <2> QED
    BY <1>1, <2>1, <2>2
<1>7. FollowNone(d, at2, lineup2)
  <2> SUFFICES ASSUME NEW i \in 0 .. n + 1
               PROVE  /\ (\A j \in 1 .. i : ~Inner(d[j])) => at2[i] = None
                      /\ (\A j \in 1 .. i : d[j].role # "layout") => lineup2[i] = None
    BY <1>1 DEF FollowNone
  <2>1. CASE i \in 0 .. n
    <3>1. /\ (\A j \in 1 .. i : ~Inner(c[j])) => at[i] = None
          /\ (\A j \in 1 .. i : c[j].role # "layout") => lineup[i] = None
      BY <1>2, <2>1 DEF Follow, FollowNone
    <3>2. \A j \in 1 .. i : (Inner(d[j]) <=> Inner(c[j])) /\ d[j].role = c[j].role
      BY <1>1, <1>4, <2>1
    <3> QED
      BY <1>3, <2>1, <3>1, <3>2
  <2>2. CASE i = n + 1
    <3>1. /\ (\A j \in 1 .. n : ~Inner(c[j])) => at[n] = None
          /\ (\A j \in 1 .. n : c[j].role # "layout") => lineup[n] = None
      BY <1>1, <1>2 DEF Follow, FollowNone
    <3>2. \A j \in 1 .. n : j \in 1 .. i /\ (Inner(d[j]) <=> Inner(c[j])) /\ d[j].role = c[j].role
      BY <1>1, <1>4, <2>2
    <3>3. i \in 1 .. i /\ (Overrides(d[i]) => Inner(d[i]))
      BY <1>1, <2>2 DEF Overrides, Inner
    <3> QED
      BY <1>1, <1>2, <1>3, <2>2, <3>1, <3>2, <3>3 DEF FollowAt
  <2> QED
    BY <1>1, <2>1, <2>2
<1>8. FollowSince(d, at2, lineup2)
  <2> SUFFICES ASSUME NEW i \in 0 .. n + 1, NEW j \in 1 .. i
               PROVE  /\ Inner(d[j]) /\ (\A k \in j + 1 .. i : ~Inner(d[k])) =>
                             at2[i] = at2[j] /\ lineup2[i] = lineup2[j]
                      /\ d[j].role = "layout" /\ (\A k \in j + 1 .. i : d[k].role # "layout") =>
                             lineup2[i] = lineup2[j]
    BY <1>1 DEF FollowSince
  <2>1. CASE i \in 0 .. n
    <3>1. /\ Inner(c[j]) /\ (\A k \in j + 1 .. i : ~Inner(c[k])) =>
                at[i] = at[j] /\ lineup[i] = lineup[j]
          /\ c[j].role = "layout" /\ (\A k \in j + 1 .. i : c[k].role # "layout") =>
                lineup[i] = lineup[j]
      BY <1>2, <2>1 DEF Follow, FollowSince
    <3>2. /\ j \in 1 .. n /\ j \in 0 .. n
          /\ \A k \in j + 1 .. i : k \in 1 .. n
      BY <1>1, <2>1
    <3> QED
      BY <1>3, <1>4, <2>1, <3>1, <3>2
  <2>2. CASE i = n + 1 /\ j = n + 1
    BY <2>2
  <2>3. CASE i = n + 1 /\ j \in 1 .. n
    <3>1. n \in 0 .. Len(c)
      BY <1>1
    <3>2. /\ Inner(c[j]) /\ (\A k \in j + 1 .. n : ~Inner(c[k])) =>
                at[n] = at[j] /\ lineup[n] = lineup[j]
          /\ c[j].role = "layout" /\ (\A k \in j + 1 .. n : c[k].role # "layout") =>
                lineup[n] = lineup[j]
      BY <1>2, <2>3, <3>1 DEF Follow, FollowSince
    <3>3. /\ j \in 0 .. n /\ i \in j + 1 .. i
          /\ \A k \in j + 1 .. n : k \in 1 .. n /\ k \in j + 1 .. i
      BY <1>1, <2>3
    <3>4. Overrides(d[i]) \/ d[i].role = "layout" => Inner(d[i])
      BY DEF Overrides, Inner
    <3> QED
      BY <1>1, <1>2, <1>3, <1>4, <2>3, <3>2, <3>3, <3>4 DEF FollowAt
  <2> QED
    BY <1>1, <2>1, <2>2, <2>3
<1>9. Follow(l, d, at2, lineup2)
  BY <1>5, <1>6, <1>7, <1>8 DEF Follow
<1> QED
  BY <1>1, <1>3, <1>9 DEF SupersInv

(* It leaves what it found.                                                *)
LEMMA SupersPop ==
    ASSUME NEW l, NEW c, NEW d, IsSeq(c), Above(c, d),
           NEW now, NEW lined, SupersInv(l, d, now, lined)
    PROVE  /\ SupersInv(l, c, IF Overrides(Last(d)) THEN Last(d).save.prev ELSE now,
                           IF Last(d).role = "layout" THEN Last(d).save.prev ELSE lined)
           /\ now \in Positions /\ lined \in Lineups
           /\ Overrides(Last(d)) => Last(d).save.prev \in Positions
           /\ Last(d).role = "layout" => Last(d).save.prev \in Lineups
<1> DEFINE n == Len(c)
<1>1. /\ n \in Nat /\ Len(d) = n + 1 /\ Last(d) = d[n + 1]
      /\ \A i \in 1 .. n : Same(c[i], d[i])
  BY SeqLength DEF Above, Last
<1>2. PICK at, lineup : Follow(l, d, at, lineup) /\ at[n + 1] = now /\ lineup[n + 1] = lined
  BY <1>1 DEF SupersInv
<1> DEFINE at2 == [i \in 0 .. n |-> at[i]]
           lineup2 == [i \in 0 .. n |-> lineup[i]]
<1>3. /\ at2 \in [0 .. n -> Positions] /\ lineup2 \in [0 .. n -> Lineups]
      /\ \A i \in 0 .. n : at2[i] = at[i] /\ lineup2[i] = lineup[i]
      /\ now \in Positions /\ lined \in Lineups
  BY <1>1, <1>2 DEF Follow, FollowTypes
<1> HIDE DEF at2, lineup2
<1>4. \A i \in 1 .. n :
          /\ Inner(d[i]) <=> Inner(c[i])
          /\ d[i].role = c[i].role
          /\ \A at0, at1, lineup0, lineup1 :
                FollowAt(l, d[i], at0, at1, lineup0, lineup1)
                   => FollowAt(l, c[i], at0, at1, lineup0, lineup1)
  BY <1>1, SameInner, SameBack
<1>5. FollowTypes(c, at2, lineup2)
  BY <1>1, <1>2, <1>3 DEF Follow, FollowTypes
<1>6. FollowSteps(l, c, at2, lineup2)
  <2> SUFFICES ASSUME NEW i \in 1 .. n
               PROVE  FollowAt(l, c[i], at2[i - 1], at2[i], lineup2[i - 1], lineup2[i])
    BY <1>1 DEF FollowSteps
  <2>1. i - 1 \in 0 .. n /\ i \in 0 .. n /\ i \in 1 .. Len(d)
    BY <1>1
  <2>2. FollowAt(l, d[i], at[i - 1], at[i], lineup[i - 1], lineup[i])
    BY <1>2, <2>1 DEF Follow, FollowSteps
  <2> QED
    BY <1>3, <1>4, <2>1, <2>2
<1>7. FollowNone(c, at2, lineup2)
  <2> SUFFICES ASSUME NEW i \in 0 .. n
               PROVE  /\ (\A j \in 1 .. i : ~Inner(c[j])) => at2[i] = None
                      /\ (\A j \in 1 .. i : c[j].role # "layout") => lineup2[i] = None
    BY <1>1 DEF FollowNone
  <2>1. i \in 0 .. Len(d)
    BY <1>1
  <2>2. /\ (\A j \in 1 .. i : ~Inner(d[j])) => at[i] = None
        /\ (\A j \in 1 .. i : d[j].role # "layout") => lineup[i] = None
    BY <1>2, <2>1 DEF Follow, FollowNone
  <2>3. \A j \in 1 .. i : (Inner(d[j]) <=> Inner(c[j])) /\ d[j].role = c[j].role
    BY <1>1, <1>4
  <2> QED
    BY <1>3, <2>2, <2>3
<1>8. FollowSince(c, at2, lineup2)
  <2> SUFFICES ASSUME NEW i \in 0 .. n, NEW j \in 1 .. i
               PROVE  /\ Inner(c[j]) /\ (\A k \in j + 1 .. i : ~Inner(c[k])) =>
                             at2[i] = at2[j] /\ lineup2[i] = lineup2[j]
                      /\ c[j].role = "layout" /\ (\A k \in j + 1 .. i : c[k].role # "layout") =>
                             lineup2[i] = lineup2[j]
    BY <1>1 DEF FollowSince
  <2>1. i \in 0 .. Len(d)
    BY <1>1
  <2>2. /\ Inner(d[j]) /\ (\A k \in j + 1 .. i : ~Inner(d[k])) =>
              at[i] = at[j] /\ lineup[i] = lineup[j]
        /\ d[j].role = "layout" /\ (\A k \in j + 1 .. i : d[k].role # "layout") =>
              lineup[i] = lineup[j]
    BY <1>2, <2>1 DEF Follow, FollowSince
  <2>3. /\ j \in 1 .. n /\ j \in 0 .. n
        /\ \A k \in j + 1 .. i : k \in 1 .. n
    BY <1>1
  <2> QED
    BY <1>3, <1>4, <2>2, <2>3
<1>9. Follow(l, c, at2, lineup2)
  BY <1>5, <1>6, <1>7, <1>8 DEF Follow
<1>10. FollowAt(l, d[n + 1], at[n], at[n + 1], lineup[n], lineup[n + 1])
  <2>1. n + 1 \in 1 .. Len(d) /\ n + 1 - 1 = n
    BY <1>1
  <2> QED
    BY <1>2, <2>1 DEF Follow, FollowSteps
<1>11. at[n] \in Positions /\ lineup[n] \in Lineups
  BY <1>1, <1>3
<1>12. /\ at2[n] = IF Overrides(Last(d)) THEN Last(d).save.prev ELSE now
       /\ lineup2[n] = IF Last(d).role = "layout" THEN Last(d).save.prev ELSE lined
  BY <1>1, <1>2, <1>3, <1>10 DEF FollowAt
<1>13. SupersInv(l, c, IF Overrides(Last(d)) THEN Last(d).save.prev ELSE now,
                    IF Last(d).role = "layout" THEN Last(d).save.prev ELSE lined)
  BY <1>9, <1>12 DEF SupersInv
<1> QED
  BY <1>1, <1>3, <1>10, <1>11, <1>13 DEF FollowAt

(* A call that goes on keeps the block that is rendered and the chains.    *)
LEMMA SupersTurn ==
    ASSUME NEW l, NEW c, NEW d, IsSeq(c), Alike(c, d),
           NEW now, NEW lined, SupersInv(l, c, now, lined)
    PROVE  SupersInv(l, d, now, lined)
<1>1. Len(c) \in Nat /\ Len(d) = Len(c) /\ \A i \in 1 .. Len(c) : Same(c[i], d[i])
  BY SeqLength DEF Alike
<1>2. PICK at, lineup : Follow(l, c, at, lineup) /\ at[Len(c)] = now /\ lineup[Len(c)] = lined
  BY DEF SupersInv
<1>3. \A i \in 1 .. Len(c) :
          /\ Inner(d[i]) <=> Inner(c[i])
          /\ d[i].role = c[i].role
          /\ \A at0, at1, lineup0, lineup1 :
                FollowAt(l, c[i], at0, at1, lineup0, lineup1)
                   => FollowAt(l, d[i], at0, at1, lineup0, lineup1)
  BY <1>1, SameInner
<1>4. FollowTypes(d, at, lineup)
  BY <1>1, <1>2 DEF Follow, FollowTypes
<1>5. FollowSteps(l, d, at, lineup)
  BY <1>1, <1>2, <1>3 DEF Follow, FollowSteps
<1>6. FollowNone(d, at, lineup)
  BY <1>1, <1>2, <1>3 DEF Follow, FollowNone
<1>7. FollowSince(d, at, lineup)
  <2> SUFFICES ASSUME NEW i \in 0 .. Len(c), NEW j \in 1 .. i
               PROVE  /\ Inner(d[j]) /\ (\A k \in j + 1 .. i : ~Inner(d[k])) =>
                             at[i] = at[j] /\ lineup[i] = lineup[j]
                      /\ d[j].role = "layout" /\ (\A k \in j + 1 .. i : d[k].role # "layout") =>
                             lineup[i] = lineup[j]
    BY <1>1 DEF FollowSince
  <2>1. /\ Inner(c[j]) /\ (\A k \in j + 1 .. i : ~Inner(c[k])) =>
              at[i] = at[j] /\ lineup[i] = lineup[j]
        /\ c[j].role = "layout" /\ (\A k \in j + 1 .. i : c[k].role # "layout") =>
              lineup[i] = lineup[j]
    BY <1>2 DEF Follow, FollowSince
  <2>2. j \in 1 .. Len(c) /\ \A k \in j + 1 .. i : k \in 1 .. Len(c)
    BY <1>1
  <2> QED
    BY <1>3, <2>1, <2>2
<1> QED
  BY <1>1, <1>2, <1>4, <1>5, <1>6, <1>7 DEF Follow, SupersInv

-----------------------------------------------------------------------------
(* Variables.                                                              *)

(* The same stack later on: another revision, or the same variables.       *)
Advances(x, y) ==
    /\ x \in Context /\ y \in Context
    /\ y.id = x.id
    /\ x.rev <= y.rev
    /\ x.rev = y.rev => Flatten(y) = Flatten(x)

(* A stack is as far as itself.                                            *)
LEMMA AdvancesSelf ==
    ASSUME NEW x \in Context PROVE Advances(x, x)
  BY DEF Advances, Context

(* A stack that went on from one that went on, went on from the first.     *)
LEMMA AdvancesOn ==
    ASSUME NEW x, NEW y, NEW z, Advances(x, y), Advances(y, z) PROVE Advances(x, z)
  BY DEF Advances, Context

(* Frames with the same variables flatten to the same.                     *)
LEMMA FlattenSame ==
    ASSUME NEW x \in Context, NEW y \in Context, Len(y.frames) = Len(x.frames),
           \A i \in 1 .. Len(x.frames) : y.frames[i].vars = x.frames[i].vars
    PROVE  Flatten(y) = Flatten(x)
<1>1. DOMAIN x.frames = 1 .. Len(x.frames) /\ DOMAIN y.frames = 1 .. Len(x.frames)
  BY DEF Context
<1>2. \A v : Binders(x, v) = Binders(y, v)
  BY <1>1 DEF Binders
<1>3. ASSUME NEW v \in Vars PROVE Lookup(x, v) = Lookup(y, v)
  <2>1. CASE Binders(x, v) = {}
    BY <1>2, <2>1 DEF Lookup
  <2>2. CASE Binders(x, v) # {}
    <3>1. Max(Binders(x, v)) \in 1 .. Len(x.frames)
      <4>1. \A j \in Binders(x, v) : j \in 1 .. Len(x.frames)
        BY <1>1 DEF Binders
      <4>2. Len(x.frames) \in Nat
        BY DEF Context
      <4> QED
        BY <2>2, <4>1, <4>2, MaxMember
    <3> QED
      BY <1>2, <2>2, <3>1 DEF Lookup
  <2> QED
    BY <2>1, <2>2
<1> QED
  BY <1>3 DEF Flatten

(* What is looked up in a stack of variables, one by one or all at once.   *)
LEMMA LookupType ==
    ASSUME NEW x \in Context
    PROVE  /\ \A v \in Vars : Lookup(x, v) \in Values \cup {None}
           /\ Flatten(x) \in Bindings
           /\ Iteration(x) \in Values \cup {None}
           /\ Flattened(x) \in Frames
<1>1. /\ Len(x.frames) \in Nat /\ DOMAIN x.frames = 1 .. Len(x.frames)
      /\ \A i \in 1 .. Len(x.frames) : x.frames[i] \in Frames
  BY DEF Context
<1>2. \A v \in Vars : Lookup(x, v) \in Values \cup {None}
  <2> TAKE v \in Vars
  <2>1. CASE Binders(x, v) = {}
    BY <2>1 DEF Lookup
  <2>2. CASE Binders(x, v) # {}
    <3>1. \A j \in Binders(x, v) : j \in 1 .. Len(x.frames)
      BY <1>1 DEF Binders
    <3>2. Max(Binders(x, v)) \in 1 .. Len(x.frames)
      BY <1>1, <2>2, <3>1, MaxMember
    <3> QED
      BY <1>1, <2>2, <3>2 DEF Lookup, Frames, Bindings
  <2> QED
    BY <2>1, <2>2
<1>3. Flatten(x) \in Bindings
  BY <1>2 DEF Flatten, Bindings
<1>4. Iteration(x) \in Values \cup {None}
  <2> DEFINE loops == {i \in DOMAIN x.frames : x.frames[i].item # None}
  <2>1. \A j \in loops : j \in 1 .. Len(x.frames)
    BY <1>1
  <2> HIDE DEF loops
  <2>2. loops # {} => Max(loops) \in 1 .. Len(x.frames)
    BY <1>1, <2>1, MaxMember
  <2>3. loops # {} => x.frames[Max(loops)].item \in Values \cup {None}
    BY <1>1, <2>2 DEF Frames
  <2> QED
    BY <2>3 DEF Iteration, loops
<1> QED
  BY <1>2, <1>3, <1>4 DEF Flattened, Frames

(* An empty frame is a frame.                                              *)
LEMMA NoBindingsType == NoBindings \in Bindings /\ EmptyFrame \in Frames
  BY DEF NoBindings, Bindings, EmptyFrame, Frames

(* What each operation makes of a stack.                                   *)
LEMMA FromRootType ==
    ASSUME NEW id \in Nat, NEW frame \in Frames
    PROVE  FromRoot(id, frame) \in Context /\ FromRoot(id, frame).id = id
           /\ Len(FromRoot(id, frame).frames) = 1
  BY DEF FromRoot, Context

(* A stack forked for a macro or an include is a new one, a frame deeper.  *)
LEMMA ForkType ==
    ASSUME NEW x \in Context, NEW id \in Nat, NEW vals \in Bindings
    PROVE  /\ ForkWith(x, id, vals) \in Context
           /\ ForkWith(x, id, vals).id = id
           /\ Len(ForkWith(x, id, vals).frames) = Len(x.frames) + 1
<1>1. [vars |-> vals, item |-> None] \in Frames
  BY DEF Frames
<1> QED
  BY <1>1 DEF ForkWith, Context

(* Another revision of a stack is the same stack, later.                   *)
LEMMA RevisedType ==
    ASSUME NEW x \in Context, NEW n \in Nat, NEW frames \in Seq(Frames)
    PROVE  /\ Revised(x, n, frames) \in Context
           /\ Revised(x, n, frames).id = x.id
           /\ Revised(x, n, frames).rev = x.rev + n
           /\ Revised(x, n, frames).frames = frames
           /\ n # 0 => Advances(x, Revised(x, n, frames))
<1>1. x.id \in Nat /\ x.rev \in Nat
  BY DEF Context
<1>2. /\ Revised(x, n, frames) \in Context
      /\ Revised(x, n, frames).id = x.id
      /\ Revised(x, n, frames).rev = x.rev + n
      /\ Revised(x, n, frames).frames = frames
  BY <1>1 DEF Revised, Context
<1> QED
  BY <1>1, <1>2 DEF Advances

(* The frames with one of them changed.                                    *)
LEMMA FrameChange ==
    ASSUME NEW frames \in Seq(Frames), NEW k, NEW g \in Frames
    PROVE  /\ [frames EXCEPT ![k] = g] \in Seq(Frames)
           /\ Len([frames EXCEPT ![k] = g]) = Len(frames)
           /\ \A i \in 1 .. Len(frames) :
                 [frames EXCEPT ![k] = g][i] = IF i = k THEN g ELSE frames[i]
<1>1. CASE k \in 1 .. Len(frames)
  BY <1>1, ExceptSeq
<1>2. CASE k \notin 1 .. Len(frames)
  <2>1. /\ DOMAIN frames = 1 .. Len(frames) /\ Len(frames) \in Nat
        /\ frames = [i \in 1 .. Len(frames) |-> frames[i]]
    OBVIOUS
  <2>2. [frames EXCEPT ![k] = g] = frames
    BY <1>2, <2>1
  <2> QED
    BY <1>2, <2>2
<1> QED
  BY <1>1, <1>2

(* A frame pushed makes another revision, a frame deeper.                  *)
LEMMA PushType ==
    ASSUME NEW x \in Context, NEW f \in Frames
    PROVE  LET y == Revised(x, 1, Append(x.frames, f))
           IN  Advances(x, y) /\ Len(y.frames) = Len(x.frames) + 1
<1> DEFINE frames == Append(x.frames, f)
<1>1. frames \in Seq(Frames) /\ Len(frames) = Len(x.frames) + 1
  BY DEF Context
<1> HIDE DEF frames
<1>2. Advances(x, Revised(x, 1, frames)) /\ Revised(x, 1, frames).frames = frames
  BY <1>1, RevisedType
<1> QED
  BY <1>1, <1>2 DEF frames

(* A frame popped makes another revision, a frame less deep, but never     *)
(* without a frame.                                                        *)
LEMMA PopType ==
    ASSUME NEW x \in Context
    PROVE  /\ Advances(x, PopFrame(x))
           /\ Len(PopFrame(x).frames) = IF Len(x.frames) > 1 THEN Len(x.frames) - 1
                                                             ELSE Len(x.frames)
<1>1. CASE Len(x.frames) > 1
  <2>1. x.frames \in Seq(Frames)
    BY DEF Context
  <2>2. Front(x.frames) \in Seq(Frames) /\ Len(Front(x.frames)) = Len(x.frames) - 1
    BY <1>1, <2>1 DEF Front
  <2> QED
    BY <1>1, <2>2, RevisedType DEF PopFrame
<1>2. CASE ~(Len(x.frames) > 1)
  BY <1>2, AdvancesSelf DEF PopFrame
<1> QED
  BY <1>1, <1>2

(* A variable is set where it is bound, or in the innermost frame.         *)
LEMMA SetVarType ==
    ASSUME NEW x \in Context, NEW v \in Vars, NEW val \in Values
    PROVE  /\ Advances(x, SetVar(x, v, val))
           /\ Len(SetVar(x, v, val).frames) = Len(x.frames)
<1> DEFINE k == Binder(x, v)
           g == [x.frames[k] EXCEPT !.vars[v] = val]
           frames == [x.frames EXCEPT ![k].vars[v] = val]
<1>1. x.frames \in Seq(Frames) /\ DOMAIN x.frames = 1 .. Len(x.frames) /\ Len(x.frames) \in Nat
  BY DEF Context
<1> HIDE DEF k
<1>2. frames \in Seq(Frames) /\ Len(frames) = Len(x.frames)
  <2>1. frames = [x.frames EXCEPT ![k] = g]
    OBVIOUS
  <2>2. CASE k \in 1 .. Len(x.frames)
    <3>1. x.frames[k] \in Frames
      BY <1>1, <2>2
    <3>2. g \in Frames
      BY <3>1 DEF Frames, Bindings
    <3> HIDE DEF g, frames
    <3> QED
      BY <1>1, <2>1, <3>2, FrameChange
  <2>3. CASE k \notin 1 .. Len(x.frames)
    <3>1. /\ x.frames = [i \in 1 .. Len(x.frames) |-> x.frames[i]]
      BY <1>1
    <3>2. [x.frames EXCEPT ![k] = g] = x.frames
      BY <1>1, <2>3, <3>1
    <3> QED
      BY <1>1, <2>1, <3>2
  <2> QED
    BY <2>2, <2>3
<1>3. SetVar(x, v, val) = Revised(x, 1, frames)
  BY DEF SetVar, k
<1> HIDE DEF frames
<1> QED
  BY <1>2, <1>3, RevisedType

(* A loop binds its targets in the innermost frame.                        *)
LEMMA SetLocalType ==
    ASSUME NEW x \in Context, NEW targets \in Seq(Vars), NEW val \in Values,
           Len(x.frames) # 0
    PROVE  /\ Advances(x, SetLocal(x, targets, val))
           /\ Len(SetLocal(x, targets, val).frames) = Len(x.frames)
<1> DEFINE n == Len(x.frames)
           m == Len(targets)
           g == [x.frames[n] EXCEPT !.vars = BindAll(@, targets, val)]
           frames == BindInner(x.frames, targets, val)
           y == SetLocal(x, targets, val)
<1>1. /\ x.frames \in Seq(Frames) /\ n \in 1 .. n /\ x.frames[n] \in Frames
      /\ m \in Nat /\ DOMAIN targets = 1 .. m /\ x.rev \in Nat
  BY DEF Context
<1>2. g \in Frames /\ g.vars = BindAll(x.frames[n].vars, targets, val)
  BY <1>1 DEF Frames, Bindings, BindAll
<1>3. frames = [x.frames EXCEPT ![n] = g]
  BY DEF BindInner
<1> HIDE DEF g, frames, n
<1>4. /\ frames \in Seq(Frames) /\ Len(frames) = Len(x.frames)
      /\ \A i \in 1 .. Len(x.frames) : frames[i] = IF i = n THEN g ELSE x.frames[i]
  BY <1>1, <1>2, <1>3, FrameChange
<1>5. y = Revised(x, m, frames)
  BY DEF SetLocal, frames
<1> HIDE DEF m, y
<1>6. y \in Context /\ y.id = x.id /\ y.rev = x.rev + m /\ y.frames = frames
  BY <1>1, <1>4, <1>5, RevisedType
<1>7. m = 0 => Flatten(y) = Flatten(x)
  <2> SUFFICES ASSUME m = 0 PROVE Flatten(y) = Flatten(x)
    OBVIOUS
  <2>1. Range(targets) = {}
    BY <1>1 DEF Range
  <2>2. g.vars = x.frames[n].vars
    BY <1>1, <1>2, <2>1 DEF BindAll, Frames, Bindings
  <2>3. \A i \in 1 .. Len(x.frames) : frames[i].vars = x.frames[i].vars
    BY <1>4, <2>2
  <2> QED
    BY <1>4, <1>6, <2>3, FlattenSame
<1>8. Advances(x, y) /\ Len(y.frames) = Len(x.frames)
  BY <1>1, <1>4, <1>6, <1>7 DEF Advances
<1> QED
  BY <1>8 DEF y

(* Every iteration sets its variables in the frames that are there.        *)
LEMMA IterateType ==
    ASSUME NEW x \in Context, NEW needs, NEW i \in Nat, NEW n \in Nat, NEW targets \in Seq(Vars),
           Len(x.frames) # 0
    PROVE  /\ Advances(x, Iterate(x, needs, i, n, targets))
           /\ Len(Iterate(x, needs, i, n, targets).frames) = Len(x.frames)
<1> DEFINE looped == IF needs THEN SetLocal(x, <<"loop">>, LoopObject(i, n)) ELSE x
           bound == SetLocal(looped, targets, Item(i))
           m == Len(x.frames)
           g == [bound.frames[m] EXCEPT !.item = LoopObject(i, n)]
           frames == [bound.frames EXCEPT ![Len(bound.frames)].item = LoopObject(i, n)]
           y == Iterate(x, needs, i, n, targets)
<1>1. LoopObject(i, n) \in Values /\ Item(i) \in Values /\ <<"loop">> \in Seq(Vars)
  BY TemplateConstants DEF LoopObject, Item, Values
<1>2. Advances(x, looped) /\ Len(looped.frames) = m
  <2>1. Advances(x, x)
    BY AdvancesSelf
  <2>2. /\ Advances(x, SetLocal(x, <<"loop">>, LoopObject(i, n)))
        /\ Len(SetLocal(x, <<"loop">>, LoopObject(i, n)).frames) = m
    BY <1>1, SetLocalType
  <2> QED
    BY <2>1, <2>2
<1> HIDE DEF looped
<1>3. Advances(looped, bound) /\ Len(bound.frames) = m
  BY <1>1, <1>2, SetLocalType DEF Advances
<1>4. y = Revised(bound, 0, frames)
  BY DEF Iterate, looped
<1> HIDE DEF bound, y
<1>5. /\ bound \in Context /\ bound.frames \in Seq(Frames) /\ bound.rev \in Nat
      /\ m \in 1 .. m /\ bound.frames[m] \in Frames
  BY <1>3 DEF Advances, Context
<1>6. g \in Frames /\ g.vars = bound.frames[m].vars
  BY <1>1, <1>5 DEF Frames
<1>7. frames = [bound.frames EXCEPT ![m] = g]
  BY <1>3
<1> DEFINE old == bound.frames
<1> HIDE DEF g, frames
<1>8. /\ frames \in Seq(Frames) /\ Len(frames) = m
      /\ \A k \in 1 .. m : frames[k].vars = bound.frames[k].vars
  <2>1. old \in Seq(Frames) /\ frames = [old EXCEPT ![m] = g] /\ Len(old) = m
    BY <1>3, <1>5, <1>7
  <2> HIDE DEF old, m
  <2>2. /\ frames \in Seq(Frames) /\ Len(frames) = Len(old)
        /\ \A k \in 1 .. Len(old) : frames[k] = IF k = m THEN g ELSE old[k]
    BY <1>6, <2>1, FrameChange
  <2> QED
    BY <1>6, <2>1, <2>2 DEF old
<1>9. y \in Context /\ y.id = bound.id /\ y.rev = bound.rev /\ y.frames = frames
  <2>1. 0 \in Nat /\ bound.rev + 0 = bound.rev
    BY <1>5
  <2> QED
    BY <1>4, <1>5, <1>8, <2>1, RevisedType
<1>10. Flatten(y) = Flatten(bound)
  BY <1>3, <1>5, <1>8, <1>9, FlattenSame
<1>11. Advances(bound, y)
  BY <1>5, <1>9, <1>10 DEF Advances
<1>12. Advances(x, y) /\ Len(y.frames) = Len(x.frames)
  BY <1>2, <1>3, <1>8, <1>9, <1>11, AdvancesOn
<1> QED
  BY <1>12 DEF y

(* The values of a from: where there is none, nothing changes.             *)
LEMMA SetVarsType ==
    ASSUME NEW x \in Context, NEW vals \in Bindings, NEW n \in Nat,
           n = 0 => \A v \in Vars : vals[v] = None
    PROVE  /\ Advances(x, SetVars(x, vals, n))
           /\ Len(SetVars(x, vals, n).frames) = Len(x.frames)
<1> DEFINE F(i) == [v \in Vars |-> IF vals[v] # None /\ Binder(x, v) = i
                                   THEN vals[v] ELSE x.frames[i].vars[v]]
           frames == [i \in DOMAIN x.frames |-> [x.frames[i] EXCEPT !.vars = F(i)]]
           m == Len(x.frames)
           y == SetVars(x, vals, n)
<1>1. /\ x.frames \in Seq(Frames) /\ m \in Nat /\ DOMAIN x.frames = 1 .. m
      /\ \A i \in 1 .. m : x.frames[i] \in Frames /\ x.frames[i].vars \in Bindings
      /\ x.rev \in Nat
  <2>1. x.frames \in Seq(Frames) /\ x.rev \in Nat
    BY DEF Context
  <2>2. m \in Nat /\ DOMAIN x.frames = 1 .. m /\ \A i \in 1 .. m : x.frames[i] \in Frames
    BY <2>1
  <2>3. \A g \in Frames : g.vars \in Bindings
    BY DEF Frames
  <2> QED
    BY <2>1, <2>2, <2>3
<1>2. \A i \in 1 .. m : F(i) \in Bindings
  BY <1>1 DEF Bindings
<1>3. n = 0 => \A i \in 1 .. m : F(i) = x.frames[i].vars
  BY <1>1 DEF Bindings
<1>4. y = Revised(x, n, frames)
  BY DEF SetVars
<1> HIDE DEF F
<1>5. \A i \in 1 .. m : /\ [x.frames[i] EXCEPT !.vars = F(i)] \in Frames
                        /\ [x.frames[i] EXCEPT !.vars = F(i)].vars = F(i)
  BY <1>1, <1>2 DEF Frames
<1>6. /\ frames \in Seq(Frames) /\ Len(frames) = m
      /\ \A i \in 1 .. m : frames[i].vars = F(i)
  <2>1. frames \in [1 .. m -> Frames]
    BY <1>1, <1>5
  <2>2. \A i \in 1 .. m : frames[i] = [x.frames[i] EXCEPT !.vars = F(i)]
    BY <1>1
  <2> HIDE DEF frames
  <2>3. frames \in Seq(Frames) /\ Len(frames) = m
    BY <1>1, <2>1, IsASeq
  <2> QED
    BY <1>5, <2>2, <2>3
<1> HIDE DEF frames, y
<1>7. y \in Context /\ y.id = x.id /\ y.rev = x.rev + n /\ y.frames = frames
  BY <1>4, <1>6, RevisedType
<1>8. n = 0 => Flatten(y) = Flatten(x)
  BY <1>3, <1>6, <1>7, FlattenSame
<1>9. Advances(x, y) /\ Len(y.frames) = Len(x.frames)
  BY <1>1, <1>6, <1>7, <1>8 DEF Advances
<1> QED
  BY <1>9 DEF y

-----------------------------------------------------------------------------
(* The stacks of variables.                                                *)

Bases == {"template", "module"}
Holders == {"template", "module", "macro", "call"}

(* How many frames the calls up to the i-th have given their variables,    *)
(* and how many stacks there are.                                          *)
Deeper(c, i) == {j \in 1 .. i : Deepens(c[j]) /\ \A b \in j + 1 .. i : c[b].role \notin Bases}
DepthAt(c, i) == 1 + Cardinality(Deeper(c, i))
Held(c, i) == 1 + Count(RoleIn(c, Holders), i)

ContextsInv(c, xs) ==
    /\ xs \in Seq(Context)
    /\ Len(xs) = Held(c, Len(c))
    /\ \A i \in 0 .. Len(c) :
          i = Len(c) \/ c[i + 1].role \in Holders =>
             Len(xs[Held(c, i)].frames) = DepthAt(c, i)

(* A frame on top starts a stack of variables anew, deepens it or leaves   *)
(* it; the depth below it is as it was.                                    *)
LEMMA DepthAbove ==
    ASSUME NEW c, NEW d, Len(c) \in Nat, Above(c, d)
    PROVE  LET n == Len(c)
           IN  /\ \A i \in 0 .. n : DepthAt(d, i) = DepthAt(c, i) /\ DepthAt(c, i) \in Nat \ {0}
               /\ DepthAt(d, n + 1) = IF d[n + 1].role \in Bases THEN 1
                                      ELSE DepthAt(c, n) + IF Deepens(d[n + 1]) THEN 1 ELSE 0
<1> DEFINE n == Len(c)
<1>1. /\ Len(d) = n + 1
      /\ \A i \in 1 .. n : c[i].role = d[i].role /\ (Deepens(c[i]) <=> Deepens(d[i]))
  BY DEF Above, Same, Deepens
<1>2. \A i \in 0 .. n : Deeper(d, i) = Deeper(c, i)
  BY <1>1 DEF Deeper
<1>3. \A i \in 0 .. n : IsFiniteSet(Deeper(c, i)) /\ Cardinality(Deeper(c, i)) \in Nat
  <2> TAKE i \in 0 .. n
  <2>1. i \in Nat /\ \A j \in Deeper(c, i) : j \in 1 .. i
    BY DEF Deeper
  <2> QED
    BY <2>1, PositionsFinite, FS_CardinalityType
<1>4. \A i \in 0 .. n : DepthAt(d, i) = DepthAt(c, i) /\ DepthAt(c, i) \in Nat \ {0}
  BY <1>2, <1>3 DEF DepthAt
<1>5. \A f : f.role \in Bases => ~Deepens(f)
  BY DEF Bases, Deepens
<1>6. CASE d[n + 1].role \in Bases
  <2>1. ASSUME NEW j \in Deeper(d, n + 1) PROVE FALSE
    <3>1. /\ j \in 1 .. n + 1 /\ Deepens(d[j])
          /\ \A b \in j + 1 .. n + 1 : d[b].role \notin Bases
      BY DEF Deeper
    <3>2. j # n + 1
      BY <1>5, <1>6, <3>1
    <3>3. n + 1 \in j + 1 .. n + 1
      BY <3>1, <3>2
    <3> QED
      BY <1>6, <3>1, <3>3
  <2>2. Deeper(d, n + 1) = {}
    BY <2>1
  <2> QED
    <3>1. DepthAt(d, n + 1) = 1
      BY <2>2, FS_EmptySet DEF DepthAt
    <3> HIDE DEF n
    <3> QED
      BY <1>6, <1>4, <3>1 DEF n
<1>7. CASE d[n + 1].role \notin Bases
  <2>1. \A j : j \in Deeper(d, n + 1) <=> j \in Deeper(c, n) \/ (j = n + 1 /\ Deepens(d[n + 1]))
    <3> TAKE j
    <3>1. CASE j \in 1 .. n
      <4>1. \A b : b \in j + 1 .. n + 1 <=> b \in j + 1 .. n \/ b = n + 1
        BY <3>1
      <4> QED
        BY <1>1, <1>7, <3>1, <4>1 DEF Deeper
    <3>2. CASE j = n + 1
      BY <3>2 DEF Deeper
    <3> QED
      BY <3>1, <3>2 DEF Deeper
  <2>2. n + 1 \notin Deeper(c, n)
    BY DEF Deeper
  <2>3. CASE Deepens(d[n + 1])
    <3>1. Deeper(d, n + 1) = Deeper(c, n) \cup {n + 1}
      BY <2>1, <2>3
    <3>2. n \in 0 .. n /\ Cardinality(Deeper(d, n + 1)) = Cardinality(Deeper(c, n)) + 1
      BY <1>3, <2>2, <3>1, FS_AddElement
    <3> QED
      BY <1>3, <1>7, <1>4, <2>3, <3>2 DEF DepthAt
  <2>4. CASE ~Deepens(d[n + 1])
    <3>1. Deeper(d, n + 1) = Deeper(c, n)
      BY <2>1, <2>4
    <3> QED
      BY <1>3, <1>7, <1>4, <2>4, <3>1 DEF DepthAt
  <2> QED
    BY <2>3, <2>4
<1> QED
  BY <1>6, <1>7

(* A call that goes on needs as many frames of variables, and as many      *)
(* stacks.                                                                 *)
LEMMA DepthAlike ==
    ASSUME NEW c, NEW d, Alike(c, d)
    PROVE  /\ \A i \in 0 .. Len(c) : DepthAt(d, i) = DepthAt(c, i) /\ Held(d, i) = Held(c, i)
           /\ \A i \in 1 .. Len(c) : d[i].role = c[i].role
<1>1. /\ Len(d) = Len(c)
      /\ \A i \in 1 .. Len(c) : c[i].role = d[i].role /\ (Deepens(c[i]) <=> Deepens(d[i]))
  BY DEF Alike, Same, Deepens
<1>2. \A i \in 0 .. Len(c) : Deeper(d, i) = Deeper(c, i)
  <2> TAKE i \in 0 .. Len(c)
  <2>1. \A j \in 1 .. i : j \in 1 .. Len(c) /\ \A b \in j + 1 .. i : b \in 1 .. Len(c)
    OBVIOUS
  <2> QED
    BY <1>1, <2>1 DEF Deeper
<1> QED
  BY <1>1, <1>2, RoleAlike DEF DepthAt, Held

(* A frame on top holds a stack of variables of its own or none; the       *)
(* others hold what they held.                                             *)
LEMMA HeldAbove ==
    ASSUME NEW c, NEW d, Len(c) \in Nat, Above(c, d)
    PROVE  /\ \A i \in 0 .. Len(c) : /\ Held(d, i) = Held(c, i)
                                     /\ Held(c, i) \in 1 .. Held(c, Len(c))
                                     /\ c[i + 1].role \in Holders /\ i < Len(c) =>
                                           Held(c, i) < Held(c, Len(c))
           /\ Held(c, Len(c)) \in Nat \ {0}
           /\ Held(d, Len(c) + 1) = Held(c, Len(c))
                                      + IF d[Len(c) + 1].role \in Holders THEN 1 ELSE 0
<1> DEFINE n == Len(c)
           S == RoleIn(c, Holders)
<1>1. /\ \A i \in 0 .. n : Count(RoleIn(d, Holders), i) = Count(S, i) /\ Count(S, i) \in Nat
      /\ Count(RoleIn(d, Holders), n + 1)
            = Count(S, n) + IF d[n + 1].role \in Holders THEN 1 ELSE 0
      /\ \A i \in S : i \in 1 .. n
  BY RoleAbove
<1>2. /\ \A i, j \in 0 .. n : i <= j => Count(S, i) <= Count(S, j)
      /\ \A i, j \in 0 .. n : i < j /\ j \in S => Count(S, i) < Count(S, j)
  BY <1>1, CountGrows
<1>3. \A i \in 0 .. n : c[i + 1].role \in Holders /\ i < n => i + 1 \in S /\ i + 1 \in 0 .. n
  BY DEF RoleIn
<1> HIDE DEF S
<1>4. ASSUME NEW i \in 0 .. n
      PROVE  /\ Count(S, i) <= Count(S, n)
             /\ c[i + 1].role \in Holders /\ i < n => Count(S, i) < Count(S, n)
  <2>1. n \in 0 .. n
    OBVIOUS
  <2>2. c[i + 1].role \in Holders /\ i < n =>
           Count(S, i) < Count(S, i + 1) /\ Count(S, i + 1) <= Count(S, n)
    BY <1>2, <1>3, <2>1
  <2>3. c[i + 1].role \in Holders /\ i < n => Count(S, i + 1) \in Nat
    BY <1>1, <1>3
  <2> QED
    BY <1>1, <1>2, <2>1, <2>2, <2>3
<1> QED
  BY <1>1, <1>4 DEF Held, S

(* The innermost stack has the frames of the innermost calls.              *)
LEMMA ContextsLast ==
    ASSUME NEW c, IsSeq(c), NEW xs, ContextsInv(c, xs)
    PROVE  /\ IsSeq(xs) /\ xs # << >> /\ Len(xs) \in Nat /\ Last(xs) = xs[Len(xs)]
           /\ Last(xs) \in Context
           /\ Len(Last(xs).frames) = DepthAt(c, Len(c))
           /\ xs = Append(Front(xs), Last(xs))
<1> DEFINE d == Append(c, [role |-> "nodes"])
<1>1. Len(c) \in Nat /\ Len(c) \in 0 .. Len(c)
  BY SeqLength
<1>2. Held(c, Len(c)) \in Nat \ {0}
  <2>1. \A j \in RoleIn(c, Holders) : j \in 1 .. Len(c)
    BY DEF RoleIn
  <2> QED
    BY <1>1, <2>1, CountGrows DEF Held
<1>3. xs \in Seq(Context) /\ Len(xs) # 0 /\ Len(Last(xs).frames) = DepthAt(c, Len(c))
  BY <1>1, <1>2 DEF ContextsInv, Last
<1>4. xs # << >> /\ Len(xs) \in Nat /\ Last(xs) = xs[Len(xs)] /\ Last(xs) \in Context
  BY <1>3 DEF Last
<1>5. xs = Append(Front(xs), Last(xs))
  BY <1>3, <1>4 DEF Front, Last
<1> QED
  BY <1>3, <1>4, <1>5, SeqAny

(* The stacks with another one in the last place.                          *)
LEMMA LastChanged ==
    ASSUME NEW xs \in Seq(Context), xs # << >>, NEW x \in Context
    PROVE  /\ Append(Front(xs), x) \in Seq(Context)
           /\ Len(Append(Front(xs), x)) = Len(xs)
           /\ \A i \in 1 .. Len(xs) :
                 Append(Front(xs), x)[i] = IF i = Len(xs) THEN x ELSE xs[i]
<1>1. Front(xs) \in Seq(Context) /\ Len(xs) \in Nat
  BY DEF Front
<1>2. /\ Len(Front(xs)) = Len(xs) - 1
      /\ \A i \in 1 .. Len(xs) - 1 : Front(xs)[i] = xs[i]
  BY SeqAny, SeqFront
<1> QED
  BY <1>1, <1>2

(* A call that holds its own stack, or that deepens the one it is in.      *)
LEMMA ContextsPush ==
    ASSUME NEW c, NEW d, IsSeq(c), Above(c, d), NEW xs, ContextsInv(c, xs),
           NEW x \in Context,
           Len(x.frames) = IF Last(d).role \in Bases THEN 1
                           ELSE Len(Last(xs).frames) + IF Deepens(Last(d)) THEN 1 ELSE 0
    PROVE  ContextsInv(d, Append(IF Last(d).role \in Holders THEN xs ELSE Front(xs), x))
<1> DEFINE n == Len(c)
           m == Len(xs)
<1>1. n \in Nat /\ Len(d) = n + 1 /\ Last(d) = d[n + 1] /\ \A i \in 1 .. n : c[i].role = d[i].role
  BY SeqLength DEF Above, Last, Same
<1>2. /\ IsSeq(xs) /\ xs # << >> /\ m \in Nat /\ xs \in Seq(Context)
      /\ Len(Last(xs).frames) = DepthAt(c, n) /\ m = Held(c, n)
  BY ContextsLast DEF ContextsInv
<1>3. Len(x.frames) = DepthAt(d, n + 1)
  BY <1>1, <1>2, DepthAbove
<1>4. /\ \A i \in 0 .. n : DepthAt(d, i) = DepthAt(c, i) /\ Held(d, i) = Held(c, i)
                           /\ Held(c, i) \in 1 .. m
      /\ Held(d, n + 1) = m + IF d[n + 1].role \in Holders THEN 1 ELSE 0
      /\ \A i \in 0 .. n : c[i + 1].role \in Holders /\ i < n => Held(c, i) < m
  BY <1>1, <1>2, HeldAbove, DepthAbove
<1>5. \A i \in 0 .. n : i = n \/ c[i + 1].role \in Holders =>
         Len(xs[Held(c, i)].frames) = DepthAt(c, i)
  BY DEF ContextsInv
<1>6. CASE Last(d).role \in Holders
  <2> DEFINE ys == Append(xs, x)
  <2>1. /\ ys \in Seq(Context) /\ Len(ys) = m + 1 /\ ys[m + 1] = x
        /\ \A k \in 1 .. m : ys[k] = xs[k]
    BY <1>2
  <2> HIDE DEF ys
  <2>2. \A i \in 0 .. n + 1 : i = n + 1 \/ d[i + 1].role \in Holders =>
           Len(ys[Held(d, i)].frames) = DepthAt(d, i)
    <3> TAKE i \in 0 .. n + 1
    <3>1. CASE i = n + 1
      BY <1>1, <1>3, <1>4, <1>6, <2>1, <3>1
    <3>2. CASE i \in 0 .. n /\ d[i + 1].role \in Holders
      <4>1. i = n \/ c[i + 1].role \in Holders
        <5>1. i # n => i + 1 \in 1 .. n
          BY <1>1, <3>2
        <5> QED
          BY <1>1, <3>2, <5>1
      <4> QED
        BY <1>4, <1>5, <2>1, <3>2, <4>1
    <3> QED
      BY <1>1, <3>1, <3>2
  <2>3. ContextsInv(d, ys)
    BY <1>1, <1>4, <1>6, <2>1, <2>2 DEF ContextsInv
  <2> QED
    BY <1>6, <2>3 DEF ys
<1>7. CASE Last(d).role \notin Holders
  <2> DEFINE ys == Append(Front(xs), x)
  <2>1. /\ ys \in Seq(Context) /\ Len(ys) = m /\ ys[m] = x
        /\ \A k \in 1 .. m : k # m => ys[k] = xs[k]
    BY <1>2, <1>4, LastChanged
  <2> HIDE DEF ys
  <2>2. \A i \in 0 .. n + 1 : i = n + 1 \/ d[i + 1].role \in Holders =>
           Len(ys[Held(d, i)].frames) = DepthAt(d, i)
    <3> TAKE i \in 0 .. n + 1
    <3>1. CASE i = n + 1
      BY <1>1, <1>3, <1>4, <1>7, <2>1, <3>1
    <3>2. CASE i \in 0 .. n /\ d[i + 1].role \in Holders
      <4>1. i # n
        BY <1>1, <1>7, <3>2
      <4>2. c[i + 1].role \in Holders /\ i < n
        BY <1>1, <3>2, <4>1
      <4>3. Held(c, i) \in 1 .. m /\ Held(c, i) # m
        BY <1>2, <1>4, <3>2, <4>2
      <4> QED
        BY <1>4, <1>5, <2>1, <3>2, <4>2, <4>3
    <3> QED
      BY <1>1, <3>1, <3>2
  <2>3. ContextsInv(d, ys)
    BY <1>1, <1>4, <1>7, <2>1, <2>2 DEF ContextsInv
  <2> QED
    BY <1>7, <2>3 DEF ys
<1> QED
  BY <1>6, <1>7

(* What it had before.                                                     *)
LEMMA ContextsPop ==
    ASSUME NEW c, NEW d, IsSeq(c), Above(c, d), NEW xs, ContextsInv(d, xs)
    PROVE  /\ Last(d).role \in Holders => ContextsInv(c, Front(xs))
           /\ Last(d).role \notin Holders =>
                 \A x \in Context :
                    Len(x.frames) = Len(Last(xs).frames) - (IF Deepens(Last(d)) THEN 1 ELSE 0)
                       => ContextsInv(c, Append(Front(xs), x))
           /\ Deepens(Last(d)) => Len(Last(xs).frames) > 1
<1> DEFINE n == Len(c)
           m == Len(xs)
<1>1. n \in Nat /\ Len(d) = n + 1 /\ Last(d) = d[n + 1] /\ \A i \in 1 .. n : c[i].role = d[i].role
  BY SeqLength DEF Above, Last, Same
<1>2. \A i \in 0 .. n : /\ DepthAt(d, i) = DepthAt(c, i) /\ DepthAt(c, i) \in Nat \ {0}
                        /\ Held(d, i) = Held(c, i) /\ Held(c, i) \in 1 .. Held(c, n)
  BY <1>1, HeldAbove, DepthAbove
<1>3. /\ Held(c, n) \in Nat \ {0}
      /\ Held(d, n + 1) = Held(c, n) + IF d[n + 1].role \in Holders THEN 1 ELSE 0
      /\ DepthAt(d, n + 1) = IF d[n + 1].role \in Bases THEN 1
                             ELSE DepthAt(c, n) + IF Deepens(d[n + 1]) THEN 1 ELSE 0
      /\ \A i \in 0 .. n : c[i + 1].role \in Holders /\ i < n => Held(c, i) < Held(c, n)
  BY <1>1, HeldAbove, DepthAbove
<1>4. \A i \in 0 .. n + 1 : i = n + 1 \/ d[i + 1].role \in Holders =>
         Len(xs[Held(d, i)].frames) = DepthAt(d, i)
  BY <1>1 DEF ContextsInv
<1>5. /\ xs \in Seq(Context) /\ m = Held(d, n + 1) /\ m \in Nat \ {0} /\ xs # << >>
      /\ Last(xs) = xs[m] /\ Len(Last(xs).frames) = DepthAt(d, n + 1)
  BY <1>1, <1>3, <1>4 DEF ContextsInv, Last
<1>6. \A i \in 0 .. n : i = n \/ c[i + 1].role \in Holders =>
         (d[i + 1].role \in Holders => Len(xs[Held(c, i)].frames) = DepthAt(c, i))
  BY <1>2, <1>4
<1>7. \A i \in 0 .. n : i # n /\ c[i + 1].role \in Holders => d[i + 1].role \in Holders
  BY <1>1
<1>8. ASSUME Last(d).role \in Holders PROVE ContextsInv(c, Front(xs))
  <2> DEFINE ys == Front(xs)
  <2>1. ys \in Seq(Context) /\ Len(ys) = m - 1 /\ \A k \in 1 .. m - 1 : ys[k] = xs[k]
    <3>1. ys \in Seq(Context)
      BY <1>5 DEF Front
    <3> QED
      BY <1>5, <3>1, SeqAny, SeqFront
  <2> HIDE DEF ys
  <2>2. m - 1 = Held(c, n)
    BY <1>1, <1>3, <1>5, <1>8
  <2>3. \A i \in 0 .. n : i = n \/ c[i + 1].role \in Holders =>
           Len(ys[Held(c, i)].frames) = DepthAt(c, i)
    BY <1>1, <1>2, <1>6, <1>7, <1>8, <2>1, <2>2
  <2>4. ContextsInv(c, ys)
    BY <2>1, <2>2, <2>3 DEF ContextsInv
  <2> QED
    BY <2>4 DEF ys
<1>9. ASSUME Last(d).role \notin Holders, NEW x \in Context,
             Len(x.frames) = Len(Last(xs).frames) - (IF Deepens(Last(d)) THEN 1 ELSE 0)
      PROVE  ContextsInv(c, Append(Front(xs), x))
  <2> DEFINE ys == Append(Front(xs), x)
  <2>1. /\ ys \in Seq(Context) /\ Len(ys) = m /\ ys[m] = x
        /\ \A k \in 1 .. m : k # m => ys[k] = xs[k]
    BY <1>5, LastChanged
  <2> HIDE DEF ys
  <2>2. m = Held(c, n) /\ n \in 0 .. n
    BY <1>1, <1>3, <1>5, <1>9
  <2>3. Len(x.frames) = DepthAt(c, n)
    BY <1>1, <1>2, <1>3, <1>5, <1>9, <2>2 DEF Bases, Holders
  <2>4. ASSUME NEW i \in 0 .. n, i = n \/ c[i + 1].role \in Holders
        PROVE  Len(ys[Held(c, i)].frames) = DepthAt(c, i)
    <3>1. CASE i = n
      BY <2>1, <2>2, <2>3, <3>1
    <3>2. CASE i # n
      <4>1. Held(c, i) \in 1 .. m /\ Held(c, i) # m
        BY <1>1, <1>2, <1>3, <2>2, <2>4, <3>2
      <4>2. Len(xs[Held(c, i)].frames) = DepthAt(c, i)
        BY <1>6, <1>7, <2>4, <3>2
      <4> QED
        BY <2>1, <4>1, <4>2
    <3> QED
      BY <3>1, <3>2
  <2>5. ContextsInv(c, ys)
    BY <2>1, <2>2, <2>4 DEF ContextsInv
  <2> QED
    BY <2>5 DEF ys
<1>10. ASSUME Deepens(Last(d)) PROVE Len(Last(xs).frames) > 1
  <2>1. Last(d).role \notin Bases
    BY <1>10 DEF Bases, Deepens
  <2>2. n \in 0 .. n
    BY <1>1
  <2> QED
    BY <1>1, <1>2, <1>3, <1>5, <1>10, <2>1, <2>2
<1> QED
  BY <1>8, <1>9, <1>10

(* The same calls, and other variables in the innermost frames.            *)
LEMMA ContextsTurn ==
    ASSUME NEW c, NEW d, IsSeq(c), Alike(c, d), NEW xs, ContextsInv(c, xs),
           NEW x \in Context, Len(x.frames) = Len(Last(xs).frames)
    PROVE  ContextsInv(d, Append(Front(xs), x))
<1> DEFINE m == Len(xs)
           ys == Append(Front(xs), x)
<1>1. /\ xs \in Seq(Context) /\ m \in Nat /\ xs # << >> /\ Last(xs) = xs[m]
      /\ m = Held(c, Len(c))
  BY ContextsLast DEF ContextsInv
<1>2. /\ ys \in Seq(Context) /\ Len(ys) = m
      /\ \A k \in 1 .. m : ys[k] = IF k = m THEN x ELSE xs[k]
  BY <1>1, LastChanged
<1> HIDE DEF ys
<1>3. \A i \in 0 .. Len(c) : Held(c, i) \in 1 .. m
  <2>1. Above(c, Append(c, [role |-> "nodes"])) /\ Len(c) \in Nat
    BY SeqAppend, SeqLength, SameFrame DEF Above
  <2> QED
    BY <1>1, <2>1, HeldAbove
<1>4. Len(d) = Len(c) /\ Len(c) \in Nat
  BY SeqLength DEF Alike
<1>5. /\ \A i \in 0 .. Len(c) : DepthAt(d, i) = DepthAt(c, i) /\ Held(d, i) = Held(c, i)
      /\ \A i \in 1 .. Len(c) : d[i].role = c[i].role
  BY DepthAlike
<1>6. ASSUME NEW i \in 0 .. Len(c), i = Len(c) \/ d[i + 1].role \in Holders
      PROVE  Len(ys[Held(d, i)].frames) = DepthAt(d, i)
  <2>1. i = Len(c) \/ c[i + 1].role \in Holders
    BY <1>4, <1>5, <1>6
  <2>2. Len(xs[Held(c, i)].frames) = DepthAt(c, i)
    BY <2>1 DEF ContextsInv
  <2>3. Held(c, i) \in 1 .. m /\ Held(d, i) = Held(c, i) /\ DepthAt(d, i) = DepthAt(c, i)
    BY <1>3, <1>5
  <2> QED
    BY <1>1, <1>2, <2>2, <2>3
<1>7. ContextsInv(d, ys)
  BY <1>1, <1>2, <1>4, <1>5, <1>6 DEF ContextsInv
<1> QED
  BY <1>7 DEF ys

-----------------------------------------------------------------------------
(* The merged variables kept for extension tags.                           *)

(* Stacks have identities of their own, the younger the greater.           *)
IdsInv(xs, s) ==
    /\ s \in Nat
    /\ \A j \in 1 .. Len(xs) : xs[j].id <= s
    /\ \A j, k \in 1 .. Len(xs) : j < k => xs[j].id < xs[k].id

(* What was merged of a stack is older than the stack, or current.         *)
EntryOK(e, xs, s) ==
    e # None =>
        /\ e.id \in Nat /\ e.rev \in Nat /\ e.id <= s
        /\ \A j \in 1 .. Len(xs) :
              e.id = xs[j].id => /\ e.rev <= xs[j].rev
                                 /\ e.rev = xs[j].rev => e.vars = Flatten(xs[j])

(* An extension tag has its own merged variables while its body renders.   *)
SavesInv(c, xs, s) == \A i \in 1 .. Len(c) : c[i].role = "ext" => EntryOK(c[i].save, xs, s)

(* Stacks go on, or are new.                                               *)
Later(xs, s, ys, t) ==
    /\ s \in Nat /\ t \in Nat /\ s <= t
    /\ \A k \in 1 .. Len(ys) : \/ ys[k].id > s
                               \/ \E j \in 1 .. Len(xs) : Advances(xs[j], ys[k])

(* Merged variables that were right stay right while the stacks go on.     *)
LEMMA LaterEntry ==
    ASSUME NEW xs, NEW s, NEW ys \in Seq(Context), NEW t, Later(xs, s, ys, t),
           NEW e, EntryOK(e, xs, s)
    PROVE  EntryOK(e, ys, t)
<1> SUFFICES ASSUME e # None PROVE EntryOK(e, ys, t)
  BY DEF EntryOK
<1>1. e.id \in Nat /\ e.rev \in Nat /\ e.id <= s /\ s \in Nat /\ t \in Nat /\ s <= t
  BY DEF EntryOK, Later
<1>2. ASSUME NEW k \in 1 .. Len(ys), e.id = ys[k].id
      PROVE  e.rev <= ys[k].rev /\ (e.rev = ys[k].rev => e.vars = Flatten(ys[k]))
  <2>1. PICK j \in 1 .. Len(xs) : Advances(xs[j], ys[k])
    BY <1>1, <1>2 DEF Later
  <2>2. /\ xs[j].id = ys[k].id /\ xs[j].rev <= ys[k].rev
        /\ xs[j].rev = ys[k].rev => Flatten(ys[k]) = Flatten(xs[j])
        /\ xs[j].rev \in Nat /\ ys[k].rev \in Nat
    BY <2>1 DEF Advances, Context
  <2>3. e.rev <= xs[j].rev /\ (e.rev = xs[j].rev => e.vars = Flatten(xs[j]))
    BY <1>2, <2>2 DEF EntryOK
  <2>4. e.rev <= ys[k].rev
    BY <1>1, <2>2, <2>3
  <2>5. e.rev = ys[k].rev => e.rev = xs[j].rev /\ xs[j].rev = ys[k].rev
    BY <1>1, <2>2, <2>3
  <2> QED
    BY <2>2, <2>3, <2>4, <2>5
<1>3. e.id <= t
  BY <1>1
<1> QED
  BY <1>1, <1>2, <1>3 DEF EntryOK

(* Merged variables that extension tags keep stay right while the stacks   *)
(* go on.                                                                  *)
LEMMA LaterSaves ==
    ASSUME NEW xs, NEW s, NEW ys \in Seq(Context), NEW t, Later(xs, s, ys, t),
           NEW c, SavesInv(c, xs, s)
    PROVE  SavesInv(c, ys, t)
  BY LaterEntry DEF SavesInv

(* Stacks that stay, stay right when more identities have been given away. *)
LEMMA LaterSame ==
    ASSUME NEW xs \in Seq(Context), NEW s, IdsInv(xs, s), NEW t \in Nat, s <= t
    PROVE  Later(xs, s, xs, t) /\ IdsInv(xs, t)
<1>1. \A j \in 1 .. Len(xs) : xs[j] \in Context /\ Advances(xs[j], xs[j])
  BY AdvancesSelf
<1>2. Later(xs, s, xs, t)
  BY <1>1 DEF Later, IdsInv
<1>3. \A j \in 1 .. Len(xs) : xs[j].id \in Nat
  BY <1>1 DEF Context
<1> QED
  BY <1>2, <1>3 DEF IdsInv

(* A stack that is dropped leaves the others right.                        *)
LEMMA LaterFront ==
    ASSUME NEW xs \in Seq(Context), xs # << >>, NEW s, IdsInv(xs, s)
    PROVE  /\ Front(xs) \in Seq(Context)
           /\ Later(xs, s, Front(xs), s) /\ IdsInv(Front(xs), s)
<1>1. /\ Len(Front(xs)) = Len(xs) - 1 /\ Len(xs) \in Nat
      /\ \A j \in 1 .. Len(xs) - 1 : Front(xs)[j] = xs[j]
  BY SeqAny, SeqFront
<1>2. \A j \in 1 .. Len(xs) : xs[j] \in Context /\ Advances(xs[j], xs[j])
  BY AdvancesSelf
<1>3. Front(xs) \in Seq(Context)
  BY DEF Front
<1> HIDE DEF Front
<1>4. \A j \in 1 .. Len(Front(xs)) : j \in 1 .. Len(xs) /\ Front(xs)[j] = xs[j]
  BY <1>1
<1>5. s \in Nat /\ s <= s
  BY DEF IdsInv
<1> QED
  BY <1>2, <1>3, <1>4, <1>5 DEF Later, IdsInv

(* A stack that goes on in its place leaves the others right.              *)
LEMMA LaterLast ==
    ASSUME NEW xs \in Seq(Context), xs # << >>, NEW s, IdsInv(xs, s),
           NEW x, Advances(Last(xs), x)
    PROVE  /\ Append(Front(xs), x) \in Seq(Context)
           /\ Later(xs, s, Append(Front(xs), x), s) /\ IdsInv(Append(Front(xs), x), s)
<1> DEFINE ys == Append(Front(xs), x)
           m == Len(xs)
<1>1. x \in Context /\ m \in Nat /\ m \in 1 .. m /\ Last(xs) = xs[m]
  BY DEF Advances, Last
<1>2. ys \in Seq(Context) /\ Len(ys) = m /\ \A i \in 1 .. m : ys[i] = IF i = m THEN x ELSE xs[i]
  BY <1>1, LastChanged
<1> HIDE DEF ys
<1>3. \A i \in 1 .. m : Advances(xs[i], ys[i])
  <2>1. \A i \in 1 .. m : xs[i] \in Context
    OBVIOUS
  <2> QED
    BY <1>1, <1>2, <2>1, AdvancesSelf
<1>4. \A i \in 1 .. m : ys[i].id = xs[i].id
  BY <1>3 DEF Advances
<1>5. s \in Nat /\ s <= s
  BY DEF IdsInv
<1>6. Later(xs, s, ys, s)
  BY <1>2, <1>3, <1>5 DEF Later
<1>7. IdsInv(ys, s)
  BY <1>2, <1>4 DEF IdsInv
<1> QED
  BY <1>2, <1>6, <1>7 DEF ys

(* A stack with the next identity is a new one, and leaves the others      *)
(* right.                                                                  *)
LEMMA LaterAppend ==
    ASSUME NEW xs \in Seq(Context), NEW s, IdsInv(xs, s), NEW x \in Context, x.id = s + 1
    PROVE  /\ Append(xs, x) \in Seq(Context)
           /\ Later(xs, s, Append(xs, x), s + 1) /\ IdsInv(Append(xs, x), s + 1)
<1> DEFINE ys == Append(xs, x)
           m == Len(xs)
<1>1. /\ ys \in Seq(Context) /\ Len(ys) = m + 1 /\ m \in Nat /\ ys[m + 1] = x
      /\ \A i \in 1 .. m : ys[i] = xs[i] /\ xs[i] \in Context
  OBVIOUS
<1> HIDE DEF ys
<1>2. s \in Nat /\ s + 1 \in Nat /\ s <= s + 1
  BY DEF IdsInv
<1>3. \A i \in 1 .. m : Advances(xs[i], ys[i])
  BY <1>1, AdvancesSelf
<1>4. Later(xs, s, ys, s + 1)
  <2> SUFFICES ASSUME NEW k \in 1 .. m + 1
               PROVE  ys[k].id > s \/ \E j \in 1 .. m : Advances(xs[j], ys[k])
    BY <1>1, <1>2 DEF Later
  <2> QED
    BY <1>1, <1>2, <1>3
<1>5. \A j \in 1 .. m : xs[j].id \in Nat /\ xs[j].id <= s
  BY <1>1 DEF Context, IdsInv
<1>6. \A j \in 1 .. m + 1 : ys[j].id <= s + 1
  BY <1>1, <1>2, <1>5
<1>7. \A j, k \in 1 .. m + 1 : j < k => ys[j].id < ys[k].id
  <2> TAKE j, k \in 1 .. m + 1
  <2>1. CASE k \in 1 .. m
    BY <1>1, <2>1 DEF IdsInv
  <2>2. CASE k = m + 1
    BY <1>1, <1>2, <1>5, <2>2
  <2> QED
    BY <1>1, <2>1, <2>2
<1>8. IdsInv(ys, s + 1)
  BY <1>1, <1>2, <1>6, <1>7 DEF IdsInv
<1> QED
  BY <1>1, <1>4, <1>8 DEF ys

(* A call that begins keeps the variables merged before, with those that   *)
(* are right.                                                              *)
LEMMA SavesPush ==
    ASSUME NEW c, NEW d, IsSeq(c), Above(c, d), NEW xs, NEW s, SavesInv(c, xs, s),
           Last(d).role = "ext" => EntryOK(Last(d).save, xs, s)
    PROVE  SavesInv(d, xs, s)
<1>1. Len(c) \in Nat /\ Len(d) = Len(c) + 1 /\ Last(d) = d[Len(c) + 1]
  BY SeqLength DEF Above, Last
<1>2. \A i \in 1 .. Len(c) : d[i].role = c[i].role /\ (c[i].role = "ext" => d[i].save = c[i].save)
  BY DEF Above, Same
<1> QED
  BY <1>1, <1>2 DEF SavesInv

(* An extension tag that ends gives back variables that are right.         *)
LEMMA SavesPop ==
    ASSUME NEW c, NEW d, IsSeq(c), Above(c, d), NEW xs, NEW s, SavesInv(d, xs, s)
    PROVE  SavesInv(c, xs, s) /\ (Last(d).role = "ext" => EntryOK(Last(d).save, xs, s))
<1>1. Len(c) \in Nat /\ Len(d) = Len(c) + 1 /\ Last(d) = d[Len(c) + 1]
  BY SeqLength DEF Above, Last
<1>2. \A i \in 1 .. Len(c) : d[i].role = c[i].role /\ (c[i].role = "ext" => d[i].save = c[i].save)
  BY DEF Above, Same
<1> QED
  BY <1>1, <1>2 DEF SavesInv

(* A call that goes on keeps what is kept.                                 *)
LEMMA SavesTurn ==
    ASSUME NEW c, NEW d, Alike(c, d), NEW xs, NEW s, SavesInv(c, xs, s)
    PROVE  SavesInv(d, xs, s)
  BY DEF SavesInv, Alike, Same

(* The variables merged of the innermost stack now.                        *)
LEMMA EntryNow ==
    ASSUME NEW xs \in Seq(Context), xs # << >>, NEW s, IdsInv(xs, s),
           NEW e, e.id = Last(xs).id, e.rev = Last(xs).rev, e.vars = Flatten(Last(xs))
    PROVE  EntryOK(e, xs, s)
<1> DEFINE m == Len(xs)
<1>1. m \in Nat /\ m \in 1 .. m /\ Last(xs) = xs[m] /\ \A j \in 1 .. m : xs[j] \in Context
  BY DEF Last
<1>2. \A j \in 1 .. m : xs[j].id \in Nat /\ xs[j].rev \in Nat
  BY <1>1 DEF Context
<1>3. \A j \in 1 .. m : xs[j].id = xs[m].id => j = m
  BY <1>1, <1>2 DEF IdsInv
<1> QED
  BY <1>1, <1>2, <1>3 DEF EntryOK, IdsInv

-----------------------------------------------------------------------------
(* What the nodes of a template are.                                       *)

(* The least of some positions is one of them.                             *)
LEMMA MinMember ==
    ASSUME NEW n \in Nat, NEW S, \A j \in S : j \in 1 .. n, S # {}
    PROVE  Min(S) \in S
<1>1. \E k \in S : \A j \in S : k <= j
  <2>1. S \in SUBSET Nat
    OBVIOUS
  <2> QED
    BY <2>1, LeastMember
<1> QED
  BY <1>1 DEF Min

Macros == {node \in Node : node.kind = "macro"}
Extenders == {node \in Node : node.kind = "extends"}

(* The nodes of a body.                                                    *)
LEMMA CodeNodes ==
    ASSUME NEW body \in Bodies
    PROVE  /\ Len(Code[body]) \in Nat /\ DOMAIN Code[body] = 1 .. Len(Code[body])
           /\ \A i \in 1 .. Len(Code[body]) : Code[body][i] \in Node
<1>1. Code[body] \in Seq(Node)
  BY TemplateConstants
<1> QED
  BY <1>1

(* The body of a node is one of the bodies.                                *)
LEMMA BodyFields ==
    \A node \in Node :
        node.kind \in {"for", "asyncFor", "setblock", "filter", "block", "macro", "call"} =>
            node.body \in Bodies
<1>1. ASSUME NEW node \in Expressions
      PROVE  node.kind \in {"text", "out", "invoke", "super", "caller"}
  BY <1>1 DEF Expressions
<1>2. ASSUME NEW node \in Statements,
             node.kind \in {"for", "asyncFor", "setblock", "filter", "block", "macro", "call"}
      PROVE  node.body \in Bodies
  BY <1>2 DEF Statements
<1>3. ASSUME NEW node \in Composition,
             node.kind \in {"for", "asyncFor", "setblock", "filter", "block", "macro", "call"}
      PROVE  node.body \in Bodies
  BY <1>3 DEF Composition
<1> QED
  BY <1>1, <1>2, <1>3 DEF Node

(* The branches of a node are bodies, its variables are variables.         *)
LEMMA BranchFields ==
    \A node \in Node :
        /\ node.kind \in {"if", "ifAsync"} => node.branches \in Seq(Bodies)
        /\ node.kind = "switch" => node.cases \in Seq(Bodies) /\ node.default \in Bodies \cup {None}
        /\ node.kind = "ext" => node.body \in Bodies \cup {None}
        /\ node.kind \in {"for", "asyncFor"} =>
              node.vars \in Seq(Vars) /\ node.otherwise \in Bodies \cup {None}
        /\ node.kind \in {"set", "setblock"} => node.var \in Vars
<1>1. ASSUME NEW node \in Expressions
      PROVE  node.kind \in {"text", "out", "invoke", "super", "caller"}
  BY <1>1 DEF Expressions
<1>2. ASSUME NEW node \in Composition
      PROVE  node.kind \in {"extends", "block", "include", "import", "from", "macro", "call"}
  BY <1>2 DEF Composition
<1>3. ASSUME NEW node \in Statements
      PROVE
        /\ node.kind \in {"if", "ifAsync"} => node.branches \in Seq(Bodies)
        /\ node.kind = "switch" => node.cases \in Seq(Bodies) /\ node.default \in Bodies \cup {None}
        /\ node.kind = "ext" => node.body \in Bodies \cup {None}
        /\ node.kind \in {"for", "asyncFor"} =>
              node.vars \in Seq(Vars) /\ node.otherwise \in Bodies \cup {None}
        /\ node.kind \in {"set", "setblock"} => node.var \in Vars
  BY <1>3 DEF Statements
<1> QED
  BY <1>1, <1>2, <1>3 DEF Node

(* The names and the parameters of a node.                                 *)
LEMMA NameFields ==
    \A node \in Node :
        /\ node.kind \in {"extends", "include", "import", "from"} => node.name \in Names
        /\ node.kind = "block" => node.name \in BlockNames
        /\ node.kind = "from" =>
              node.names \in Seq([export : MacroNames \cup Vars, local : MacroNames \cup Vars])
        /\ node.kind \in {"macro", "call"} => node.params \in Seq(Vars)
        /\ node.kind \in {"invoke", "call"} => node.macro \in MacroNames
<1>1. ASSUME NEW node \in Statements
      PROVE  node.kind \in {"if", "ifAsync", "switch", "for", "asyncFor", "set", "setblock",
                            "filter", "ext"}
  BY <1>1 DEF Statements
<1>2. ASSUME NEW node \in Expressions
      PROVE  /\ node.kind \in {"text", "out", "invoke", "super", "caller"}
             /\ node.kind = "invoke" => node.macro \in MacroNames
  BY <1>2 DEF Expressions
<1>3. ASSUME NEW node \in Composition
      PROVE
        /\ node.kind \in {"extends", "include", "import", "from"} => node.name \in Names
        /\ node.kind = "block" => node.name \in BlockNames
        /\ node.kind = "from" =>
              node.names \in Seq([export : MacroNames \cup Vars, local : MacroNames \cup Vars])
        /\ node.kind \in {"macro", "call"} => node.params \in Seq(Vars)
        /\ node.kind \in {"invoke", "call"} => node.macro \in MacroNames
  BY <1>3 DEF Composition
<1> QED
  BY <1>1, <1>2, <1>3 DEF Node

(* A definition that is found in a body has the kind asked for.            *)
LEMMA NamedType ==
    ASSUME NEW body \in Bodies, NEW kind, NEW name, Named(body, kind, name) # None
    PROVE  Named(body, kind, name) \in {node \in Node : node.kind = kind}
<1> DEFINE defs == {i \in Places(body, {kind}) : Code[body][i].name = name}
<1>1. \A i \in defs : i \in 1 .. Len(Code[body]) /\ Code[body][i].kind = kind
  BY CodeNodes DEF Places
<1> HIDE DEF defs
<1>2. defs # {} => Max(defs) \in defs
  BY <1>1, CodeNodes, MaxMember
<1> QED
  BY <1>1, <1>2, CodeNodes DEF Named, defs

(* The macros of a body are macro nodes.                                   *)
LEMMA MacrosType == MacrosOf \in [Bodies -> [MacroNames -> Macros \cup {None}]]
<1>1. \A body \in Bodies, m \in MacroNames : Named(body, "macro", m) \in Macros \cup {None}
  BY NamedType DEF Macros
<1> QED
  BY <1>1 DEF MacrosOf

(* The blocks of a body are bodies.                                        *)
LEMMA BlocksType == BlocksOf \in [Bodies -> [BlockNames -> Bodies \cup {None}]]
<1>1. ASSUME NEW body \in Bodies, NEW b \in BlockNames, Named(body, "block", b) # None
      PROVE  Named(body, "block", b).body \in Bodies
  BY <1>1, NamedType, BodyFields
<1> QED
  BY <1>1 DEF BlocksOf

(* The parent of a body is named by its extends node.                      *)
LEMMA ParentType ==
    /\ ParentOf \in [Bodies -> Extenders \cup {None}]
    /\ \A body \in Bodies : ParentOf[body] # None => ParentOf[body].name \in Names
<1>1. ASSUME NEW body \in Bodies, Places(body, {"extends"}) # {}
      PROVE  Code[body][Min(Places(body, {"extends"}))] \in Extenders
  <2>1. \A i \in Places(body, {"extends"}) :
           i \in 1 .. Len(Code[body]) /\ Code[body][i].kind = "extends"
    BY CodeNodes DEF Places
  <2>2. Min(Places(body, {"extends"})) \in Places(body, {"extends"})
    BY <1>1, <2>1, CodeNodes, MinMember
  <2> QED
    BY <2>1, <2>2, CodeNodes DEF Extenders
<1>2. ParentOf \in [Bodies -> Extenders \cup {None}]
  BY <1>1 DEF ParentOf
<1>3. \A node \in Extenders : node.name \in Names
  BY NameFields DEF Extenders
<1> QED
  BY <1>2, <1>3

-----------------------------------------------------------------------------
(* The ancestors of a template.                                            *)

NextUp(l, x) ==
    IF x = None \/ l[x] = None THEN None
    ELSE IF ParentOf[l[x]] = None THEN None
    ELSE ParentOf[l[x]].name

(* Ascent is what its recursive definition says.                           *)
LEMMA AscentSteps ==
    ASSUME NEW l \in Libraries, NEW p \in Names
    PROVE  LET up == Ascent(l, p)
           IN  /\ up \in [0 .. Cardinality(Names) -> Names \cup {None}]
               /\ up[0] = p
               /\ \A k \in 1 .. Cardinality(Names) : up[k] = NextUp(l, up[k - 1])
<1> DEFINE n == Cardinality(Names)
           S == Names \cup {None}
           F == [k \in Nat |-> [x \in S |-> NextUp(l, x)]]
           Def(f) == [k \in 0 .. n |->
                          IF k = 0 THEN p
                          ELSE IF f[k - 1] = None \/ l[f[k - 1]] = None THEN None
                          ELSE IF ParentOf[l[f[k - 1]]] = None THEN None
                          ELSE ParentOf[l[f[k - 1]]].name]
<1>1. n \in Nat
  BY TemplateConstants, FS_CardinalityType
<1>2. \A x \in S : NextUp(l, x) \in S
  BY ParentType DEF NextUp, Libraries
<1>3. F \in [Nat -> [S -> S]]
  BY <1>2
<1>4. PICK f \in [0 .. n -> S] : f[0] = p /\ \A k \in 1 .. n : f[k] = F[k][f[k - 1]]
  <2>1. p \in S
    OBVIOUS
  <2> HIDE DEF n, S, F
  <2>2. PICK f : Steps(f, n, S, p, F)
    BY <1>1, <1>3, <2>1, StepByStep
  <2> QED
    BY <2>2 DEF Steps
<1>5. \A k \in 1 .. n : f[k] = NextUp(l, f[k - 1])
  <2> TAKE k \in 1 .. n
  <2>1. k \in Nat /\ f[k - 1] \in S
    BY <1>1, <1>4
  <2> QED
    BY <1>4, <2>1
<1>6. f = Def(f)
  <2>1. \A k \in 0 .. n : f[k] = Def(f)[k]
    BY <1>1, <1>4, <1>5 DEF NextUp
  <2> QED
    BY <1>4, <2>1
<1>7. Ascent(l, p) = Def(Ascent(l, p))
  BY <1>6 DEF Ascent
<1> DEFINE up == Ascent(l, p)
<1> HIDE DEF up
<1>8. \A k \in 0 .. n : up[k] = Def(up)[k]
  BY <1>7 DEF up
<1>9. up[0] = p /\ \A k \in 1 .. n : up[k] = NextUp(l, up[k - 1])
  BY <1>1, <1>8 DEF NextUp
<1>10. DOMAIN up = 0 .. n
  BY <1>7 DEF up
<1>11. \A k \in 0 .. n : up[k] \in S
  <2> DEFINE Bad == {k \in 0 .. n : up[k] \notin S}
  <2> SUFFICES ASSUME Bad # {} PROVE FALSE
    OBVIOUS
  <2>1. PICK k \in Bad : \A j \in Bad : k <= j
    <3>1. Bad \in SUBSET Nat
      BY <1>1
    <3> HIDE DEF Bad
    <3> QED
      BY <3>1, LeastMember
  <2>2. k \in 1 .. n /\ k - 1 \in 0 .. n /\ k - 1 \notin Bad
    BY <1>1, <1>9, <2>1
  <2>3. up[k - 1] \in S
    BY <2>2
  <2>4. up[k] \in S
    BY <1>2, <1>9, <2>2, <2>3
  <2> QED
    BY <2>1, <2>4
<1>12. \A k \in 0 .. n : up[k] = Def(up)[k] /\ Def(up)[k] \in S
  BY <1>8, <1>11
<1>13. up = Def(up)
  BY <1>7 DEF up
<1>14. up \in [0 .. n -> S]
  <2>1. Def(up) \in [0 .. n -> S]
    BY <1>12
  <2> HIDE DEF Def
  <2> QED
    BY <1>13, <2>1
<1> HIDE DEF Def, F, n, S
<1>15. up \in [0 .. n -> S] /\ up[0] = p /\ \A k \in 1 .. n : up[k] = NextUp(l, up[k - 1])
  BY <1>9, <1>14
<1> QED
  BY <1>15, Zenon DEF up, n, S

(* The parents that a child is rendered with are there.                    *)
LEMMA AncestryType ==
    ASSUME NEW l \in Libraries, NEW p \in Names, ParentsOK(l, p)
    PROVE  /\ Ancestry(l, p) \in Seq(Bodies) /\ Len(Ancestry(l, p)) \in Nat \ {0}
           /\ \A k \in 1 .. Len(Ancestry(l, p)) : \E name \in Names : Ancestry(l, p)[k] = l[name]
<1> DEFINE n == Cardinality(Names)
           up == Ascent(l, p)
           ok(k) == up[k] # None /\ l[up[k]] # None
           m == Max(Heights(l, p))
           Good == {k \in 0 .. m : ok(k)}
<1>1. /\ n \in Nat
      /\ up \in [0 .. n -> Names \cup {None}]
      /\ \A k \in 1 .. n : up[k] = NextUp(l, up[k - 1])
  BY TemplateConstants, FS_CardinalityType, AscentSteps
<1>2. m \in 0 .. n - 1 /\ ok(m)
  <2>1. \A k \in Heights(l, p) : k \in 0 .. n
    BY <1>1 DEF Heights
  <2>2. m \in Heights(l, p)
    BY <1>1, <2>1, MaxMember DEF ParentsOK
  <2>3. PICK name \in Names : name = up[m] /\ l[name] # None
    BY <2>2 DEF Heights
  <2>4. up[m] # None /\ l[up[m]] # None
    BY <2>3, TemplateConstants
  <2>5. m \in 0 .. n - 1
    BY <2>2 DEF Heights
  <2> QED
    BY <2>4, <2>5
<1> HIDE DEF up, m, n
<1>3. \A k \in 1 .. n : up[k] # None => ok(k - 1)
  BY <1>1 DEF NextUp
<1>4. \A k \in 0 .. m : \A j \in k .. m : ok(j)
  <2> DEFINE Fine == {k \in 0 .. m : \A j \in k .. m : ok(j)}
  <2>1. m \in Fine /\ Fine \in SUBSET Nat
    BY <1>1, <1>2
  <2> HIDE DEF Fine
  <2>2. PICK k \in Fine : \A j \in Fine : k <= j
    BY <2>1, LeastMember
  <2>3. k \in 0 .. m /\ \A j \in k .. m : ok(j)
    BY <2>2 DEF Fine
  <2>4. CASE k = 0
    BY <2>3, <2>4
  <2>5. CASE k # 0
    <3>1. k \in 1 .. n /\ up[k] # None
      BY <1>1, <1>2, <2>3, <2>5
    <3>2. ok(k - 1)
      BY <1>3, <3>1
    <3>3. \A j \in k - 1 .. m : j = k - 1 \/ j \in k .. m
      BY <1>2, <2>3
    <3>4. \A j \in k - 1 .. m : ok(j)
      BY <2>3, <3>2, <3>3
    <3>5. k - 1 \in 0 .. m
      BY <1>1, <1>2, <2>3, <2>5
    <3>6. k - 1 \in Fine
      BY <3>4, <3>5 DEF Fine
    <3> QED
      BY <1>1, <1>2, <2>2, <2>3, <3>6
  <2> QED
    BY <2>4, <2>5
<1>5. \A k \in 1 .. m + 1 : up[k - 1] \in Names /\ l[up[k - 1]] \in Bodies
  <2> TAKE k \in 1 .. m + 1
  <2>1. k - 1 \in 0 .. m /\ k - 1 \in 0 .. n /\ k - 1 \in k - 1 .. m
    BY <1>1, <1>2
  <2>2. ok(k - 1)
    BY <1>4, <2>1
  <2>3. up[k - 1] \in Names
    BY <1>1, <2>1, <2>2
  <2> QED
    BY <2>2, <2>3 DEF Libraries
<1>6. Ancestry(l, p) = [k \in 1 .. m + 1 |-> l[up[k - 1]]]
  BY DEF Ancestry, m, up
<1> DEFINE line == Ancestry(l, p)
<1>7. /\ m + 1 \in Nat \ {0} /\ line \in [1 .. m + 1 -> Bodies]
      /\ \A k \in 1 .. m + 1 : \E name \in Names : line[k] = l[name]
  BY <1>1, <1>2, <1>5, <1>6
<1> HIDE DEF line
<1>8. line \in Seq(Bodies) /\ Len(line) = m + 1
  BY <1>7, IsASeq
<1> QED
  BY <1>7, <1>8 DEF line

-----------------------------------------------------------------------------
(* The chains of blocks.                                                   *)

(* A chain with a layer joined is a sequence of bodies.                    *)
LEMMA JoinType ==
    ASSUME NEW over \in Bodies \cup {None}, NEW inherited \in Seq(Bodies),
           NEW local \in Bodies \cup {None}
    PROVE  JoinChain(over, inherited, local) \in Seq(Bodies)
<1>1. \A x \in Bodies \cup {None} : Layer(x) \in Seq(Bodies)
  BY DEF Layer
<1>2. \A s, t \in Seq(Bodies) : s \o t \in Seq(Bodies)
  OBVIOUS
<1> QED
  BY <1>1, <1>2 DEF JoinChain

(* LayersOf is what its recursive definition says.                         *)
LEMMA LayersSteps ==
    ASSUME NEW line \in Seq(Bodies), NEW over \in Bodies \cup {None}, NEW b \in BlockNames
    PROVE  LET layers == LayersOf(line, over, b)
               Over(i) == IF i = 1 THEN over ELSE BlocksOf[line[i - 1]][b]
           IN  \A i \in 1 .. Len(line) :
                  layers[i] = JoinChain(Over(i), IF i = Len(line) THEN << >> ELSE layers[i + 1],
                                        BlocksOf[line[i]][b])
<1> DEFINE n == Len(line)
           S == Seq(Bodies)
           Over(i) == IF i = 1 THEN over ELSE BlocksOf[line[i - 1]][b]
           Join(i, s) == IF i \in 1 .. n THEN JoinChain(Over(i), s, BlocksOf[line[i]][b]) ELSE s
           F == [k \in Nat |-> [s \in S |-> Join(n + 1 - k, s)]]
           Def(g) == [i \in DOMAIN line |->
                         JoinChain(IF i = 1 THEN over ELSE BlocksOf[line[i - 1]][b],
                                   IF i = Len(line) THEN << >> ELSE g[i + 1],
                                   BlocksOf[line[i]][b])]
<1>1. n \in Nat /\ DOMAIN line = 1 .. n /\ \A i \in 1 .. n : line[i] \in Bodies
  OBVIOUS
<1>2. \A i \in 1 .. n : /\ Over(i) \in Bodies \cup {None}
                         /\ BlocksOf[line[i]][b] \in Bodies \cup {None}
  <2> TAKE i \in 1 .. n
  <2>1. BlocksOf[line[i]][b] \in Bodies \cup {None}
    BY <1>1, BlocksType
  <2>2. i # 1 => i - 1 \in 1 .. n
    BY <1>1
  <2>3. i # 1 => BlocksOf[line[i - 1]][b] \in Bodies \cup {None}
    BY <1>1, <2>2, BlocksType
  <2> QED
    BY <2>1, <2>3
<1> HIDE DEF Over
<1>3. F \in [Nat -> [S -> S]]
  <2>1. \A i \in 1 .. n, s \in S : JoinChain(Over(i), s, BlocksOf[line[i]][b]) \in S
    BY <1>2, JoinType
  <2>2. \A k \in Nat, s \in S : Join(n + 1 - k, s) \in S
    BY <2>1
  <2> HIDE DEF Join, S
  <2> QED
    BY <2>2
<1>4. << >> \in S
  OBVIOUS
<1>5. PICK f : Steps(f, n, S, << >>, F)
  <2> HIDE DEF n, S, F
  <2> QED
    BY <1>1, <1>3, <1>4, StepByStep
<1>6. /\ f \in [0 .. n -> S] /\ f[0] = << >>
      /\ \A k \in 1 .. n : f[k] = Join(n + 1 - k, f[k - 1])
  <2>1. /\ f \in [0 .. n -> S] /\ f[0] = << >>
        /\ \A k \in 1 .. n : f[k] = F[k][f[k - 1]]
    BY <1>5 DEF Steps
  <2>2. \A k \in 1 .. n : k \in Nat /\ f[k - 1] \in S
    BY <1>1, <2>1
  <2> HIDE DEF Join, S
  <2> QED
    BY <2>1, <2>2
<1> DEFINE g == [i \in 1 .. n |-> f[n + 1 - i]]
<1>7. \A i \in 1 .. n : g[i] = Join(i, IF i = n THEN << >> ELSE g[i + 1])
  <2> TAKE i \in 1 .. n
  <2>1. n + 1 - i \in 1 .. n /\ n + 1 - (n + 1 - i) = i /\ (n + 1 - i) - 1 = n - i
    BY <1>1
  <2>2. f[n + 1 - i] = Join(i, f[n - i])
    BY <1>6, <2>1
  <2>3. g[i] = f[n + 1 - i]
    OBVIOUS
  <2>4. CASE i = n
    BY <1>6, <2>2, <2>3, <2>4
  <2>5. CASE i # n
    <3>1. i + 1 \in 1 .. n /\ n + 1 - (i + 1) = n - i
      <4> HIDE DEF n
      <4> QED
        BY <1>1, <2>5
    <3>2. g[i + 1] = f[n - i]
      BY <3>1
    <3> QED
      BY <2>2, <2>3, <2>5, <3>2
  <2> QED
    BY <2>4, <2>5
<1>8. g = Def(g)
  <2>1. \A i \in 1 .. n : g[i] = Def(g)[i]
    BY <1>1, <1>7 DEF Over
  <2> HIDE DEF Def
  <2>2. DOMAIN Def(g) = 1 .. n /\ Def(g) = [i \in 1 .. n |-> Def(g)[i]]
    BY <1>1 DEF Def
  <2> QED
    BY <2>1, <2>2
<1>9. LayersOf(line, over, b) = Def(LayersOf(line, over, b))
  BY <1>8 DEF LayersOf
<1> DEFINE layers == LayersOf(line, over, b)
<1>10. \A i \in 1 .. n : layers[i] = Def(layers)[i]
  BY <1>9
<1> HIDE DEF layers
<1>11. \A i \in 1 .. n :
          layers[i] = JoinChain(Over(i), IF i = n THEN << >> ELSE layers[i + 1],
                                BlocksOf[line[i]][b])
  BY <1>1, <1>10 DEF Over
<1> QED
  BY <1>11 DEF layers, Over

(* What putting one element in front of a sequence gives.                  *)
LEMMA Prepended ==
    ASSUME NEW S, NEW x \in S, NEW s \in Seq(S)
    PROVE  /\ <<x>> \o s \in Seq(S)
           /\ Len(<<x>> \o s) = Len(s) + 1
           /\ (<<x>> \o s)[1] = x
           /\ \A j \in 1 .. Len(s) : (<<x>> \o s)[j + 1] = s[j]
<1>1. <<x>> \in Seq(S) /\ Len(<<x>>) = 1 /\ <<x>>[1] = x /\ Len(s) \in Nat
  OBVIOUS
<1> DEFINE y == <<x>>
<1> HIDE DEF y
<1>2. y \in Seq(S) /\ Len(y) = 1 /\ y[1] = x
  BY <1>1 DEF y
<1>3. \A j \in 1 .. Len(s) : j + 1 > Len(y) /\ (j + 1) - Len(y) = j
  BY <1>1, <1>2
<1>4. /\ y \o s \in Seq(S) /\ Len(y \o s) = Len(s) + 1
      /\ \A k \in 1 .. Len(s) + 1 : (y \o s)[k] = IF k <= Len(y) THEN y[k] ELSE s[k - Len(y)]
  <2>1. y \in Seq(S) /\ s \in Seq(S)
    BY <1>2
  <2>2. /\ y \o s \in Seq(S) /\ Len(y \o s) = Len(y) + Len(s)
        /\ \A k \in 1 .. Len(y) + Len(s) :
              (y \o s)[k] = IF k <= Len(y) THEN y[k] ELSE s[k - Len(y)]
    BY <2>1, ConcatProperties
  <2>3. Len(y) + Len(s) = Len(s) + 1
    BY <1>1, <1>2
  <2> QED
    BY <2>2, <2>3
<1>5. \A j \in 1 .. Len(s) : j + 1 \in 1 .. Len(s) + 1 /\ ~(j + 1 <= Len(y))
  BY <1>1, <1>3
<1>6. 1 \in 1 .. Len(s) + 1 /\ 1 <= Len(y)
  BY <1>1, <1>2
<1>7. (y \o s)[1] = y[1] /\ \A j \in 1 .. Len(s) : (y \o s)[j + 1] = s[j]
  BY <1>3, <1>4, <1>5, <1>6
<1> QED
  BY <1>2, <1>4, <1>7 DEF y

(* s lists, from the i-th template on, the bodies of those that have one.  *)
Lists(s, B, D, N, i) ==
    /\ s \in Seq(Bodies)
    /\ Len(s) = Count(D, N) - Count(D, i - 1)
    /\ \A k \in D : k >= i => s[Count(D, k) - Count(D, i - 1)] = B[k]

(* One ancestor more: its layer, if it has the block, before those of its  *)
(* ancestors.                                                              *)
LEMMA ListsStep ==
    ASSUME NEW N \in Nat, NEW B \in [1 .. N -> Bodies \cup {None}], NEW i \in 1 .. N,
           NEW D, D = {k \in 1 .. N : B[k] # None}, NEW s, Lists(s, B, D, N, i + 1)
    PROVE  Lists(Layer(B[i]) \o s, B, D, N, i)
<1>1. \A k \in D : k \in 1 .. N /\ B[k] \in Bodies
  OBVIOUS
<1> DEFINE a == Count(D, i - 1)
           e == Count(D, N)
<1>2. /\ i - 1 \in 0 .. N /\ i \in 0 .. N /\ N \in 0 .. N
      /\ a \in Nat /\ e \in Nat /\ a <= e
      /\ \A k \in D : k \in 0 .. N /\ Count(D, k) \in 1 .. e
      /\ \A k \in D : k >= i + 1 => Count(D, k) > Count(D, i)
      /\ Count(D, i) \in Nat /\ Count(D, i) <= e
  <2>1. i - 1 \in 0 .. N /\ i \in 0 .. N /\ N \in 0 .. N /\ i - 1 <= N /\ i <= N
    OBVIOUS
  <2>2. \A k \in D : k \in 0 .. N
    BY <1>1
  <2>3. /\ \A k \in 0 .. N : Count(D, k) \in Nat
        /\ \A j, k \in 0 .. N : j <= k => Count(D, j) <= Count(D, k)
        /\ \A j, k \in 0 .. N : j < k /\ k \in D => Count(D, j) < Count(D, k)
        /\ \A k \in D : Count(D, k) \in 1 .. Count(D, N)
    BY <1>1, CountGrows
  <2>4. \A k \in D : k >= i + 1 => i < k
    BY <2>2
  <2> QED
    BY <2>1, <2>2, <2>3, <2>4
<1>3. Count(D, i) = a + IF i \in D THEN 1 ELSE 0
  <2> DEFINE S == {k \in D : k <= i - 1}
             T == {k \in D : k <= i}
  <2>1. i - 1 \in Nat /\ (\A k \in S : k \in 1 .. i - 1) /\ i - 1 + 1 = i
    BY <1>1
  <2>2. T = S \/ T = S \cup {i - 1 + 1}
    BY <1>1, <2>1
  <2>3. i \in T <=> i \in D
    OBVIOUS
  <2>4. {k \in T : k <= i} = T /\ {k \in S : k <= i - 1} = S
    OBVIOUS
  <2> HIDE DEF S, T
  <2>5. Count(T, i - 1 + 1) = Count(S, i - 1) + IF i - 1 + 1 \in T THEN 1 ELSE 0
    BY <2>1, <2>2, CountStep
  <2>6. Count(T, i) = Cardinality(T) /\ Count(S, i - 1) = Cardinality(S)
    BY <2>4 DEF Count
  <2>7. Count(D, i) = Cardinality(T) /\ Count(D, i - 1) = Cardinality(S)
    BY DEF Count, S, T
  <2> QED
    BY <2>1, <2>3, <2>5, <2>6, <2>7
<1>4. /\ s \in Seq(Bodies) /\ Len(s) = e - Count(D, i)
      /\ \A k \in D : k >= i + 1 => s[Count(D, k) - Count(D, i)] = B[k]
  <2>1. i + 1 - 1 = i
    OBVIOUS
  <2> QED
    BY <2>1 DEF Lists
<1> HIDE DEF a, e
<1>5. CASE i \in D
  <2> DEFINE t == <<B[i]>> \o s
  <2>1. /\ t \in Seq(Bodies) /\ Len(t) = Len(s) + 1 /\ t[1] = B[i]
        /\ \A j \in 1 .. Len(s) : t[j + 1] = s[j]
    <3>1. B[i] \in Bodies /\ s \in Seq(Bodies)
      BY <1>1, <1>4, <1>5
    <3> QED
      BY <3>1, Prepended
  <2>2. Layer(B[i]) \o s = t
    BY <1>5 DEF Layer
  <2> HIDE DEF t
  <2>3. Len(t) = e - a
    BY <1>2, <1>3, <1>4, <1>5, <2>1
  <2>4. ASSUME NEW k \in D, k >= i PROVE t[Count(D, k) - a] = B[k]
    <3>1. CASE k = i
      <4>1. Count(D, k) - a = 1
        BY <1>2, <1>3, <1>5, <3>1
      <4> QED
        BY <2>1, <3>1, <4>1
    <3>2. CASE k # i
      <4>1. k >= i + 1
        BY <1>2, <2>4, <3>2
      <4>2. Count(D, k) \in 1 .. e /\ Count(D, k) > Count(D, i)
        BY <1>2, <4>1
      <4>3. Count(D, i) \in Nat /\ e \in Nat /\ a \in Nat
        BY <1>2
      <4>4. Count(D, i) = a + 1
        BY <1>3, <1>5
      <4>5. Len(s) = e - Count(D, i)
        BY <1>4
      <4>6. Count(D, k) - Count(D, i) \in 1 .. Len(s)
        BY <4>2, <4>3, <4>5
      <4>7. Count(D, k) - a = (Count(D, k) - Count(D, i)) + 1
        BY <4>2, <4>3, <4>4
      <4> QED
        BY <1>4, <2>1, <4>1, <4>6, <4>7
    <3> QED
      BY <3>1, <3>2
  <2> QED
    BY <2>1, <2>2, <2>3, <2>4 DEF Lists, a, e
<1>6. CASE i \notin D
  <2>1. Layer(B[i]) = << >>
    BY <1>6 DEF Layer
  <2>2. Layer(B[i]) \o s = s
    BY <1>4, <2>1
  <2>3. \A k \in D : k >= i => k >= i + 1
    BY <1>1, <1>6
  <2>4. Count(D, i) = a /\ s \in Seq(Bodies) /\ Len(s) = e - a
    BY <1>2, <1>3, <1>4, <1>6
  <2>5. \A k \in D : k >= i => s[Count(D, k) - a] = B[k]
    BY <1>4, <2>3, <2>4
  <2>6. Lists(s, B, D, N, i)
    BY <2>4, <2>5 DEF Lists, a, e
  <2> QED
    BY <2>2, <2>6
<1> QED
  BY <1>5, <1>6

(* Each block's chain is the bodies that the child and its ancestors have  *)
(* for it, from the child upwards.                                         *)
LEMMA ChainsListed ==
    ASSUME NEW line \in Seq(Bodies), Len(line) # 0, NEW child \in Bodies, NEW b \in BlockNames
    PROVE  LET full == <<child>> \o line
               B == [k \in 1 .. Len(full) |-> BlocksOf[full[k]][b]]
               D == {k \in 1 .. Len(full) : B[k] # None}
           IN  Lists(LayersOf(line, BlocksOf[child][b], b)[1], B, D, Len(full), 1)
<1> DEFINE n == Len(line)
           full == <<child>> \o line
           B == [k \in 1 .. Len(full) |-> BlocksOf[full[k]][b]]
           D == {k \in 1 .. Len(full) : B[k] # None}
           layers == LayersOf(line, BlocksOf[child][b], b)
<1>1. /\ n \in Nat /\ n >= 1 /\ Len(full) = n + 1 /\ full[1] = child
      /\ \A k \in 1 .. n : full[k + 1] = line[k] /\ line[k] \in Bodies
  OBVIOUS
<1>2. \A k \in 1 .. n + 1 : full[k] \in Bodies
  <2> TAKE k \in 1 .. n + 1
  <2>1. k # 1 => k - 1 \in 1 .. n /\ (k - 1) + 1 = k
    BY <1>1
  <2> QED
    BY <1>1, <2>1
<1> HIDE DEF full, n
<1>3. B \in [1 .. n + 1 -> Bodies \cup {None}] /\ \A k \in 1 .. n + 1 : B[k] = BlocksOf[full[k]][b]
  BY <1>1, <1>2, BlocksType
<1>4. D = {k \in 1 .. n + 1 : B[k] # None}
  BY <1>1
<1> HIDE DEF B, D
<1> DEFINE ext(i) == IF i = n + 1 THEN Layer(B[i]) ELSE layers[i]
<1>5. \A i \in 1 .. n :
         layers[i] = JoinChain(B[i], IF i = n THEN << >> ELSE layers[i + 1], B[i + 1])
  <2> TAKE i \in 1 .. n
  <2>1. BlocksOf[child][b] \in Bodies \cup {None}
    BY BlocksType
  <2>2. layers[i] = JoinChain(IF i = 1 THEN BlocksOf[child][b] ELSE BlocksOf[line[i - 1]][b],
                              IF i = n THEN << >> ELSE layers[i + 1],
                              BlocksOf[line[i]][b])
    BY <2>1, LayersSteps DEF n
  <2>3. i + 1 \in 1 .. n + 1 /\ i \in 1 .. n + 1 /\ (i # 1 => i - 1 \in 1 .. n)
    BY <1>1
  <2>4. B[i + 1] = BlocksOf[line[i]][b]
    BY <1>1, <1>3, <2>3
  <2>5. B[i] = IF i = 1 THEN BlocksOf[child][b] ELSE BlocksOf[line[i - 1]][b]
    <3>1. i # 1 => full[i] = line[i - 1]
      <4>1. i # 1 => i - 1 \in 1 .. n /\ (i - 1) + 1 = i
        BY <2>3
      <4> QED
        BY <1>1, <4>1
    <3> QED
      BY <1>1, <1>3, <2>3, <3>1
  <2> QED
    BY <2>2, <2>4, <2>5
<1> HIDE DEF layers
<1>6. Lists(ext(n + 1), B, D, n + 1, n + 1)
  <2>1. \A k \in D : k \in 1 .. n + 1
    BY <1>4
  <2>2. n + 1 \in Nat /\ n + 1 \in 0 .. n + 1 /\ Count(D, n + 1) \in Nat
    BY <1>1, <2>1, CountGrows
  <2>3. Lists(<< >>, B, D, n + 1, n + 1 + 1)
    <3>1. n + 1 + 1 - 1 = n + 1 /\ \A k \in D : ~(k >= n + 1 + 1)
      BY <1>1, <2>1
    <3>2. Count(D, n + 1) - Count(D, n + 1) = 0 /\ Len(<< >>) = 0 /\ << >> \in Seq(Bodies)
      BY <2>2
    <3>3. n + 1 + 1 - 1 = n + 1
      BY <1>1
    <3> DEFINE none == << >>
    <3> DEFINE m == n + 1 + 1
    <3>4. m - 1 = n + 1
      BY <1>1
    <3> HIDE DEF m, none
    <3>5. \A k \in D : ~(k >= m)
      BY <3>1 DEF m
    <3>6. Len(none) = Count(D, n + 1) - Count(D, m - 1) /\ none \in Seq(Bodies)
      BY <3>2, <3>4 DEF none
    <3>7. Lists(none, B, D, n + 1, m)
      BY <3>5, <3>6 DEF Lists
    <3> QED
      BY <3>7 DEF none, m
  <2>4. n + 1 \in 1 .. n + 1
    BY <1>1
  <2>5. Lists(Layer(B[n + 1]) \o << >>, B, D, n + 1, n + 1)
    BY <1>3, <1>4, <2>2, <2>3, <2>4, ListsStep
  <2>6. Layer(B[n + 1]) \in Seq(Bodies) /\ Layer(B[n + 1]) \o << >> = Layer(B[n + 1])
    <3>1. Layer(B[n + 1]) \in Seq(Bodies)
      BY <1>3, <2>4 DEF Layer
    <3> QED
      BY <3>1
  <2> QED
    BY <2>5, <2>6
<1>7. ASSUME NEW i \in 1 .. n, Lists(ext(i + 1), B, D, n + 1, i + 1)
      PROVE  Lists(ext(i), B, D, n + 1, i)
  <2>1. i \in 1 .. n + 1 /\ i # n + 1 /\ i + 1 \in 1 .. n + 1 /\ n + 1 \in Nat
    BY <1>1
  <2>2. layers[i] = Layer(B[i]) \o ext(i + 1)
    <3>1. CASE i = n
      BY <1>5, <2>1, <3>1 DEF JoinChain
    <3>2. CASE i # n
      <4>1. ext(i + 1) = layers[i + 1] /\ i + 1 # n + 1
        BY <1>1, <3>2
      <4>2. layers[i] = Layer(B[i]) \o IF layers[i + 1] # << >> THEN layers[i + 1]
                                       ELSE Layer(B[i + 1])
        BY <1>5, <3>2 DEF JoinChain
      <4>3. layers[i + 1] = << >> => Layer(B[i + 1]) = << >>
        <5> SUFFICES ASSUME layers[i + 1] = << >> PROVE B[i + 1] = None
          BY DEF Layer
        <5> SUFFICES ASSUME i + 1 \in D PROVE FALSE
          BY <1>4, <2>1
        <5>1. \A k \in D : k \in 1 .. n + 1
          BY <1>4
        <5>2. i \in 0 .. n + 1 /\ i + 1 \in 0 .. n + 1 /\ n + 1 \in 0 .. n + 1 /\ i + 1 - 1 = i
              /\ i < i + 1 /\ i + 1 <= n + 1
          BY <2>1
        <5>3. /\ Count(D, i) < Count(D, i + 1) /\ Count(D, i + 1) <= Count(D, n + 1)
              /\ Count(D, i) \in Nat /\ Count(D, i + 1) \in Nat /\ Count(D, n + 1) \in Nat
          BY <2>1, <5>1, <5>2, CountGrows
        <5>4. Len(ext(i + 1)) = Count(D, n + 1) - Count(D, i)
          BY <1>7, <5>2 DEF Lists
        <5>5. Len(ext(i + 1)) = 0
          BY <4>1
        <5> QED
          BY <5>3, <5>4, <5>5
      <4> QED
        BY <4>1, <4>2, <4>3
    <3> QED
      BY <3>1, <3>2
  <2>3. Lists(Layer(B[i]) \o ext(i + 1), B, D, n + 1, i)
    BY <1>3, <1>4, <1>7, <2>1, ListsStep
  <2> QED
    BY <2>1, <2>2, <2>3
<1> HIDE DEF ext
<1>8. Lists(ext(1), B, D, n + 1, 1)
  <2> DEFINE Fine == {i \in 1 .. n + 1 : Lists(ext(i), B, D, n + 1, i)}
  <2>1. n + 1 \in Fine /\ Fine \in SUBSET Nat
    BY <1>1, <1>6
  <2>2. \A i \in 1 .. n : i + 1 \in Fine => i \in Fine
    BY <1>1, <1>7
  <2>3. \A i \in Fine : i \in 1 .. n + 1 /\ Lists(ext(i), B, D, n + 1, i)
    OBVIOUS
  <2> HIDE DEF Fine
  <2>4. PICK i \in Fine : \A j \in Fine : i <= j
    BY <2>1, LeastMember
  <2>5. i = 1
    <3> SUFFICES ASSUME i # 1 PROVE FALSE
      OBVIOUS
    <3>1. i - 1 \in 1 .. n /\ (i - 1) + 1 = i /\ ~(i <= i - 1)
      BY <1>1, <2>3, <2>4
    <3> QED
      BY <2>2, <2>4, <3>1
  <2> QED
    BY <2>3, <2>4, <2>5
<1>9. ext(1) = layers[1]
  BY <1>1 DEF ext
<1> QED
  BY <1>1, <1>8, <1>9 DEF layers, B, D, full
=============================================================================
