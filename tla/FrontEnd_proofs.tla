--------------------------- MODULE FrontEnd_proofs ---------------------------
(***************************************************************************)
(* Theorems about the front end, for sources of any length: the lexer      *)
(* delivers each piece once and in order, what it takes for a raw block    *)
(* the parser takes for one, and whitespace is dropped where it is asked.  *)
(***************************************************************************)
EXTENDS FrontEnd, TLAPS, WellFoundedInduction, FiniteSetTheorems, SequenceTheorems

(* Some numbers have a least one.                                          *)
LEMMA LeastOf ==
    ASSUME NEW S \in SUBSET Nat, S # {}
    PROVE  \E n \in S : \A m \in S : n <= m
<1>1. PICK n \in S : \A m \in S : ~(<<m, n>> \in OpToRel(<, Nat))
  BY NatLessThanWellFounded, WFMin
<1>2. \A m \in S : ~(m < n)
  BY <1>1 DEF OpToRel
<1> QED
  BY <1>2

(* The first of some positions.                                            *)
LEMMA FirstMember ==
    ASSUME NEW S \in SUBSET (Nat \ {0})
    PROVE  /\ S = {} => First(S) = 0
           /\ S # {} => First(S) \in S /\ \A m \in S : First(S) <= m
           /\ First(S) # 0 => S # {}
<1>1. CASE S = {}
  BY <1>1 DEF First
<1>2. CASE S # {}
  <2>1. \E n \in S : \A m \in S : n <= m
    BY <1>2, LeastOf
  <2>2. Min(S) \in S /\ \A m \in S : Min(S) <= m
    BY <2>1 DEF Min
  <2> QED
    BY <1>2, <2>2 DEF First
<1> QED
  BY <1>1, <1>2

(* The last of some positions.                                             *)
LEMMA LatestMember ==
    ASSUME NEW n \in Nat, NEW S \in SUBSET (1 .. n)
    PROVE  /\ Latest(S) \in 0 .. n
           /\ S = {} => Latest(S) = 0
           /\ S # {} => Latest(S) \in S
           /\ \A j \in S : j <= Latest(S)
<1>1. CASE S = {}
  BY <1>1 DEF Latest
<1>2. CASE S # {}
  <2> DEFINE U == {k \in Nat : \A j \in S : j <= k}
  <2>1. U \in SUBSET Nat /\ n \in U
    OBVIOUS
  <2>2. PICK k \in U : \A m \in U : k <= m
    <3> HIDE DEF U
    <3> QED
      BY <2>1, LeastOf
  <2>3. k \in S
    <3> SUFFICES ASSUME k \notin S PROVE FALSE
      OBVIOUS
    <3>1. \A j \in S : j <= k - 1
      BY <2>2
    <3>2. k - 1 \in Nat
      <4>1. PICK j \in S : TRUE
        BY <1>2
      <4>2. j \in 1 .. n /\ j <= k - 1 /\ k \in Nat
        BY <3>1, <4>1
      <4> QED
        BY <4>2
    <3>3. k - 1 \in U
      BY <3>1, <3>2
    <3> QED
      BY <2>2, <3>3
  <2>4. Max(S) \in S /\ \A j \in S : Max(S) >= j
    BY <2>2, <2>3 DEF Max
  <2> HIDE DEF U
  <2>5. Latest(S) = Max(S)
    BY <1>2 DEF Latest
  <2>6. Max(S) \in 1 .. n /\ \A j \in S : j \in 1 .. n /\ Max(S) >= j
    BY <2>4
  <2>7. Latest(S) \in 1 .. n /\ \A j \in S : j <= Latest(S)
    BY <2>5, <2>6
  <2> QED
    BY <1>2, <2>4, <2>5, <2>7
<1> QED
  BY <1>1, <1>2

-----------------------------------------------------------------------------
(* Spans: what trimming leaves of a text are the positions between two     *)
(* others.                                                                 *)

(* A span, as a sequence.                                                  *)
LEMMA SpanIs ==
    ASSUME NEW a \in Nat, NEW b \in Nat, a <= b
    PROVE  /\ Span(a, b) \in Seq(a .. b - 1)
           /\ Len(Span(a, b)) = b - a
           /\ DOMAIN Span(a, b) = 1 .. b - a
           /\ \A k \in 1 .. b - a : Span(a, b)[k] = a + k - 1
  BY DEF Span

(* The parts of a span are spans.                                          *)
LEMMA SpanPart ==
    ASSUME NEW a \in Nat, NEW b \in Nat, a <= b,
           NEW m \in 1 .. b - a + 1, NEW n \in m - 1 .. b - a
    PROVE  SubSeq(Span(a, b), m, n) = Span(a + m - 1, a + n)
<1>1. \A i \in 1 .. n - m + 1 : Span(a, b)[m + i - 1] = a + m + i - 2
  BY SpanIs
<1>2. SubSeq(Span(a, b), m, n) = [i \in 1 .. n - m + 1 |-> Span(a, b)[m + i - 1]]
  BY SpanIs
<1>3. Span(a + m - 1, a + n) = [i \in 1 .. n - m + 1 |-> a + m + i - 2]
  <2>1. a + n - (a + m - 1) = n - m + 1
    OBVIOUS
  <2>2. \A i \in 1 .. n - m + 1 : a + m - 1 + i - 1 = a + m + i - 2
    OBVIOUS
  <2> QED
    BY <2>1, <2>2 DEF Span
<1> QED
  BY <1>1, <1>2, <1>3

(* A text is what lies between c and d; between a and b there is nothing   *)
(* else but whitespace.                                                    *)
Between(text, a, c, d, b) ==
    /\ a <= c /\ c <= d /\ d <= b
    /\ text = Span(c, d)
    /\ \A i \in a .. b - 1 : i \in c .. d - 1 \/ White(i)

Kept(text, a, b) == \E c, d \in Nat : Between(text, a, c, d, b)

(* A text that is left, as a sequence of positions.                        *)
LEMMA BetweenIs ==
    ASSUME NEW a \in Nat, NEW b \in Nat, NEW c \in Nat, NEW d \in Nat,
           NEW text, Between(text, a, c, d, b)
    PROVE  /\ a <= c /\ c <= d /\ d <= b /\ d - c \in Nat
           /\ text = Span(c, d)
           /\ text \in Seq(c .. d - 1)
           /\ Len(text) = d - c
           /\ DOMAIN text = 1 .. d - c
           /\ \A k \in 1 .. d - c : text[k] = c + k - 1
<1>1. a <= c /\ c <= d /\ d <= b /\ text = Span(c, d)
  BY DEF Between
<1>2. d - c \in Nat
  BY <1>1
<1>3. /\ Span(c, d) \in Seq(c .. d - 1)
      /\ Len(Span(c, d)) = d - c
      /\ DOMAIN Span(c, d) = 1 .. d - c
      /\ \A k \in 1 .. d - c : Span(c, d)[k] = c + k - 1
  BY <1>1, SpanIs
<1> QED
  BY <1>1, <1>2, <1>3

(* A position of the text that is left out is one before or after it.      *)
LEMMA Shorter ==
    ASSUME NEW a \in Nat, NEW b \in Nat, NEW c \in Nat, NEW d \in Nat,
           NEW text, Between(text, a, c, d, b),
           NEW e \in Nat, NEW f \in Nat, c <= e, e <= f, f <= d,
           \A k \in 1 .. d - c : c + k - 1 \in e .. f - 1 \/ White(text[k])
    PROVE  Kept(Span(e, f), a, b)
<1>1. /\ a <= c /\ d <= b /\ \A k \in 1 .. d - c : text[k] = c + k - 1
  BY BetweenIs
<1>2. \A i \in a .. b - 1 : i \in c .. d - 1 \/ White(i)
  BY DEF Between
<1>3. \A i \in a .. b - 1 : i \in e .. f - 1 \/ White(i)
  <2> SUFFICES ASSUME NEW i \in a .. b - 1, i \in c .. d - 1 PROVE i \in e .. f - 1 \/ White(i)
    BY <1>2
  <2>1. i - c + 1 \in 1 .. d - c /\ c + (i - c + 1) - 1 = i
    OBVIOUS
  <2> QED
    BY <1>1, <2>1
<1>4. a <= e /\ f <= b
  BY <1>1
<1> QED
  BY <1>3, <1>4 DEF Kept, Between

(* A text that nothing is left out of.                                     *)
LEMMA SpanKept ==
    ASSUME NEW a \in Nat, NEW b \in Nat, a <= b
    PROVE  Kept(Span(a, b), a, b)
  BY DEF Kept, Between

(* trim_start.                                                             *)
LEMMA TrimStartKept ==
    ASSUME NEW a \in Nat, NEW b \in Nat, NEW text, Kept(text, a, b)
    PROVE  Kept(TrimStart(text), a, b)
<1>1. PICK c \in Nat, d \in Nat : Between(text, a, c, d, b)
  BY DEF Kept
<1>2. /\ c <= d /\ d - c \in Nat /\ text = Span(c, d)
      /\ DOMAIN text = 1 .. d - c /\ Len(text) = d - c
  BY <1>1, BetweenIs
<1> DEFINE S == {k \in 1 .. d - c : ~White(text[k])}
<1>3. S \in SUBSET (Nat \ {0}) /\ S \in SUBSET (1 .. d - c)
  OBVIOUS
<1>4. TrimStart(text) = IF First(S) = 0 THEN << >> ELSE SubSeq(text, First(S), d - c)
  BY <1>2 DEF TrimStart
<1>5. \A k \in 1 .. d - c : k \in S \/ White(text[k])
  OBVIOUS
<1> HIDE DEF S
<1>6. CASE S = {}
  <2>1. TrimStart(text) = Span(c, c)
    <3>1. First(S) = 0
      BY <1>6, <1>3, FirstMember
    <3>2. Span(c, c) = << >>
      BY DEF Span
    <3> QED
      BY <1>4, <3>1, <3>2
  <2>2. \A k \in 1 .. d - c : White(text[k])
    BY <1>5, <1>6
  <2>3. Kept(Span(c, c), a, b)
    BY <1>1, <1>2, <2>2, Shorter
  <2> QED
    BY <2>1, <2>3
<1>7. CASE S # {}
  <2>1. First(S) \in S /\ \A m \in S : First(S) <= m
    BY <1>3, <1>7, FirstMember
  <2>2. First(S) \in 1 .. d - c
    BY <1>3, <2>1
  <2> DEFINE f == First(S)
  <2> HIDE DEF f
  <2>3. TrimStart(text) = Span(c + f - 1, d)
    <3>1. TrimStart(text) = SubSeq(text, f, d - c)
      BY <1>4, <2>2 DEF f
    <3>2. f \in 1 .. d - c + 1 /\ d - c \in f - 1 .. d - c
      BY <2>2 DEF f
    <3>3. SubSeq(Span(c, d), f, d - c) = Span(c + f - 1, c + (d - c))
      BY <1>2, <3>2, SpanPart
    <3>4. c + (d - c) = d
      OBVIOUS
    <3> QED
      BY <1>2, <3>1, <3>3, <3>4
  <2>4. c + f - 1 \in Nat /\ c <= c + f - 1 /\ c + f - 1 <= d
    BY <1>2, <2>2 DEF f
  <2>5. \A k \in 1 .. d - c : c + k - 1 \in c + f - 1 .. d - 1 \/ White(text[k])
    <3> SUFFICES ASSUME NEW k \in 1 .. d - c, ~White(text[k])
                 PROVE  c + k - 1 \in c + f - 1 .. d - 1
      OBVIOUS
    <3>1. f <= k
      BY <1>5, <2>1 DEF f
    <3> QED
      BY <2>2, <3>1 DEF f
  <2>6. Kept(Span(c + f - 1, d), a, b)
    BY <1>1, <2>4, <2>5, Shorter
  <2> QED
    BY <2>3, <2>6
<1> QED
  BY <1>6, <1>7

(* TrimEnd and LstripTrailing keep a text up to the last position that is  *)
(* not of a kind of whitespace.                                            *)
LEMMA HeadKept ==
    ASSUME NEW a \in Nat, NEW b \in Nat, NEW text, Kept(text, a, b),
           NEW S \in SUBSET DOMAIN text, \A k \in DOMAIN text : k \in S \/ White(text[k])
    PROVE  Kept(SubSeq(text, 1, Latest(S)), a, b)
<1>1. PICK c \in Nat, d \in Nat : Between(text, a, c, d, b)
  BY DEF Kept
<1>2. c <= d /\ d - c \in Nat /\ text = Span(c, d) /\ DOMAIN text = 1 .. d - c
  BY <1>1, BetweenIs
<1> DEFINE l == Latest(S)
<1>3. l \in 0 .. d - c /\ \A j \in S : j <= l
  BY <1>2, LatestMember
<1> HIDE DEF l
<1>4. SubSeq(text, 1, l) = Span(c, c + l)
  <2>1. 1 \in 1 .. d - c + 1 /\ l \in 1 - 1 .. d - c
    BY <1>2, <1>3
  <2>2. SubSeq(Span(c, d), 1, l) = Span(c + 1 - 1, c + l)
    BY <1>2, <2>1, SpanPart
  <2> QED
    BY <1>2, <2>2
<1>5. \A k \in 1 .. d - c : c + k - 1 \in c .. c + l - 1 \/ White(text[k])
  <2> SUFFICES ASSUME NEW k \in 1 .. d - c, ~White(text[k]) PROVE c + k - 1 \in c .. c + l - 1
    OBVIOUS
  <2>1. k <= l
    BY <1>2, <1>3
  <2> QED
    BY <1>3, <2>1
<1>6. c + l \in Nat /\ c <= c /\ c <= c + l /\ c + l <= d
  BY <1>2, <1>3
<1>7. Kept(Span(c, c + l), a, b)
  <2>1. PICK e \in Nat, f \in Nat : e = c /\ f = c + l
    BY <1>6
  <2>2. c <= e /\ e <= f /\ f <= d
    BY <1>6, <2>1
  <2>3. \A k \in 1 .. d - c : c + k - 1 \in e .. f - 1 \/ White(text[k])
    BY <1>3, <1>5, <2>1
  <2>4. Kept(Span(e, f), a, b)
    BY <1>1, <2>2, <2>3, Shorter
  <2> QED
    BY <2>1, <2>4
<1> QED
  BY <1>4, <1>7 DEF l

(* trim_end.                                                               *)
LEMMA TrimEndKept ==
    ASSUME NEW a \in Nat, NEW b \in Nat, NEW text, Kept(text, a, b)
    PROVE  Kept(TrimEnd(text), a, b)
<1> DEFINE S == {k \in DOMAIN text : ~White(text[k])}
<1>1. S \in SUBSET DOMAIN text /\ \A k \in DOMAIN text : k \in S \/ White(text[k])
  OBVIOUS
<1>2. TrimEnd(text) = SubSeq(text, 1, Latest(S))
  BY DEF TrimEnd
<1> HIDE DEF S
<1>3. Kept(SubSeq(text, 1, Latest(S)), a, b)
  BY <1>1, HeadKept
<1> QED
  BY <1>2, <1>3

(* lstrip_blocks.                                                          *)
LEMMA LstripKept ==
    ASSUME NEW a \in Nat, NEW b \in Nat, NEW text, Kept(text, a, b), NEW opener
    PROVE  Kept(LstripTrailing(text, opener), a, b)
<1> DEFINE S == {k \in DOMAIN text : ~Blank(text[k])}
<1>1. S \in SUBSET DOMAIN text /\ \A k \in DOMAIN text : k \in S \/ White(text[k])
  BY DEF White
<1>2. LstripTrailing(text, opener) \in {text, SubSeq(text, 1, Latest(S))}
  BY DEF LstripTrailing
<1> HIDE DEF S
<1>3. Kept(SubSeq(text, 1, Latest(S)), a, b)
  BY <1>1, HeadKept
<1> QED
  BY <1>2, <1>3

(* What the flags ask for.                                                 *)
LEMMA LeadKept ==
    ASSUME NEW a \in Nat, NEW b \in Nat, NEW text, Kept(text, a, b)
    PROVE  Kept(LeadingStrip(text), a, b)
<1>1. CASE strip
  BY <1>1, TrimStartKept DEF LeadingStrip
<1>2. CASE ~strip /\ trimNewline /\ text # << >> /\ Newline(Head(text))
  <2>1. PICK c \in Nat, d \in Nat : Between(text, a, c, d, b)
    BY DEF Kept
  <2>2. /\ c <= d /\ d - c \in Nat /\ text = Span(c, d)
        /\ text \in Seq(c .. d - 1) /\ Len(text) = d - c
        /\ \A k \in 1 .. d - c : text[k] = c + k - 1
    BY <2>1, BetweenIs
  <2>3. d - c # 0
    BY <1>2, <2>2
  <2>4. White(text[1])
    BY <1>2, <2>2 DEF White
  <2>5. LeadingStrip(text) = Span(c + 1, d)
    <3>1. LeadingStrip(text) = Tail(text)
      BY <1>2 DEF LeadingStrip
    <3>2. Tail(text) = SubSeq(text, 2, d - c)
      BY <1>2, <2>2, TailIsSubSeq
    <3>3. 2 \in 1 .. d - c + 1 /\ d - c \in 2 - 1 .. d - c
      BY <2>2, <2>3
    <3>4. SubSeq(Span(c, d), 2, d - c) = Span(c + 2 - 1, c + (d - c))
      BY <2>2, <3>3, SpanPart
    <3>5. c + 2 - 1 = c + 1 /\ c + (d - c) = d
      OBVIOUS
    <3> QED
      BY <2>2, <3>1, <3>2, <3>4, <3>5
  <2>6. \A k \in 1 .. d - c : c + k - 1 \in c + 1 .. d - 1 \/ White(text[k])
    BY <2>4
  <2>7. c + 1 \in Nat /\ c <= c + 1 /\ c + 1 <= d
    BY <2>2, <2>3
  <2>8. Kept(Span(c + 1, d), a, b)
    BY <2>1, <2>6, <2>7, Shorter
  <2> QED
    BY <2>5, <2>8
<1>3. CASE ~strip /\ ~(trimNewline /\ text # << >> /\ Newline(Head(text)))
  BY <1>3 DEF LeadingStrip
<1> QED
  BY <1>1, <1>2, <1>3

(* All that the lexer does to the text before a region, or at the end.     *)
LEMMA TextKept ==
    ASSUME NEW a \in Nat, NEW b \in Nat, a <= b
    PROVE  /\ Kept(LeadingStrip(Span(a, b)), a, b)
           /\ position = a => Kept(TextUpTo(b), a, b)
<1>1. Kept(LeadingStrip(Span(a, b)), a, b)
  BY SpanKept, LeadKept
<1>2. ASSUME position = a PROVE Kept(TextUpTo(b), a, b)
  <2> DEFINE led == LeadingStrip(Span(a, b))
             cut == IF source[b].kind # "comment" /\ source[b].trimOpen
                    THEN TrimEnd(led) ELSE led
  <2>1. Kept(led, a, b)
    BY <1>1
  <2>2. Kept(cut, a, b)
    <3> HIDE DEF led
    <3>1. Kept(TrimEnd(led), a, b)
      BY <2>1, TrimEndKept
    <3> QED
      BY <2>1, <3>1
  <2>3. TextUpTo(b) = LstripTrailing(cut, b)
    BY <1>2 DEF TextUpTo
  <2> HIDE DEF cut
  <2> QED
    BY <2>2, <2>3, LstripKept
<1> QED
  BY <1>1, <1>2

-----------------------------------------------------------------------------
(* Pieces and tokens.                                                      *)

TextTokens == [tok : {"text"}, at : Seq(Nat)]
VarTokens == [tok : {"expr"}, at : Seq(Nat), head : Seq(STRING)]
TagTokens == [tok : {"tag"}, at : Seq(Nat), body : Body]
AnyToken == TextTokens \cup VarTokens \cup TagTokens

(* What the pieces of each kind have.                                      *)
LEMMA PieceIs ==
    ASSUME NEW p \in Piece
    PROVE  /\ p.kind \in {"char", "comment", "var", "tag"}
           /\ p.kind = "var" => p.head \in Seq(STRING) /\ p.trimClose \in BOOLEAN
           /\ p.kind = "tag" => p.body \in Body /\ p.trimClose \in BOOLEAN
  BY DEF Piece

(* What the pieces of a source have.                                       *)
LEMMA SourceIs ==
    ASSUME source \in Seq(Piece)
    PROVE  /\ Len(source) \in Nat /\ DOMAIN source = 1 .. Len(source)
           /\ \A i \in 1 .. Len(source) :
                 /\ source[i].kind \in {"char", "comment", "var", "tag"}
                 /\ source[i].kind = "var" =>
                       source[i].head \in Seq(STRING) /\ source[i].trimClose \in BOOLEAN
                 /\ source[i].kind = "tag" =>
                       source[i].body \in Body /\ source[i].trimClose \in BOOLEAN
<1>1. \A i \in 1 .. Len(source) : source[i] \in Piece
  OBVIOUS
<1> QED
  BY <1>1, PieceIs

(* What the tokens of each kind have.                                      *)
LEMMA TokenIs ==
    ASSUME NEW t \in AnyToken
    PROVE  /\ t.tok \in {"text", "expr", "tag"} /\ t.at \in Seq(Nat)
           /\ t.tok = "tag" => t.body \in Body
  BY DEF AnyToken, TextTokens, VarTokens, TagTokens

(* next_opener.                                                            *)
LEMMA OpenerIs ==
    ASSUME source \in Seq(Piece), position \in Nat \ {0}, NextOpener # 0
    PROVE  /\ NextOpener \in position .. Len(source)
           /\ source[NextOpener].kind # "char"
<1> DEFINE S == {i \in position .. Len(source) : source[i].kind # "char"}
<1>1. S \in SUBSET (Nat \ {0}) /\ NextOpener = First(S)
  BY SourceIs DEF NextOpener
<1> HIDE DEF S
<1>2. NextOpener \in S
  BY <1>1, FirstMember
<1> QED
  BY <1>2 DEF S

(* find_tag_close, skip_comment and find_var_close.                        *)
LEMMA EndIs ==
    ASSUME source \in Seq(Piece), NEW i \in 1 .. Len(source),
           source[i].kind \in {"comment", "tag", "var"}, EndOf(i) # 0
    PROVE  /\ EndOf(i) \in i .. Len(source)
           /\ source[EndOf(i)].kind = source[i].kind
           /\ source[i].kind = "var" => EndOf(i) = i
           /\ \A k \in i + 1 .. EndOf(i) : Swallowed(k)
<1>1. CASE source[i].closed
  <2>1. EndOf(i) = i
    BY <1>1 DEF EndOf
  <2> QED
    BY <2>1, SourceIs
<1>2. CASE ~source[i].closed
  <2> DEFINE S == {j \in i + 1 .. Len(source) :
                      source[j].kind = source[i].kind /\ source[j].closed}
  <2>1. source[i].kind \in {"comment", "tag"} /\ EndOf(i) = First(S)
    BY <1>2 DEF EndOf
  <2>2. S \in SUBSET (Nat \ {0})
    BY SourceIs
  <2>3. EndOf(i) \in S
    <3> HIDE DEF S
    <3> QED
      BY <2>1, <2>2, FirstMember
  <2>4. EndOf(i) \in i + 1 .. Len(source) /\ source[EndOf(i)].kind = source[i].kind
    BY <2>3
  <2>5. ASSUME NEW k \in i + 1 .. EndOf(i) PROVE Swallowed(k)
    <3>1. i \in 1 .. k - 1 /\ k <= EndOf(i)
      BY <2>4
    <3> QED
      BY <1>2, <2>1, <3>1 DEF Swallowed
  <2> QED
    BY <2>1, <2>4, <2>5, SourceIs
<1> QED
  BY <1>1, <1>2

-----------------------------------------------------------------------------
(* The end of a raw block: where it is, there is its closing tag, since    *)
(* the balance of tags grows only there.                                   *)

Seen(from, kw, i) == Cardinality({j \in from .. i : IsTag(j, kw)})

(* Counting one position more.                                             *)
LEMMA SeenNext ==
    ASSUME NEW from \in Nat, NEW kw, NEW i \in Nat, from <= i + 1
    PROVE  /\ Seen(from, kw, i) \in Nat
           /\ Seen(from, kw, i + 1) \in Nat
           /\ IsTag(i + 1, kw) => Seen(from, kw, i + 1) = Seen(from, kw, i) + 1
           /\ ~IsTag(i + 1, kw) => Seen(from, kw, i + 1) = Seen(from, kw, i)
<1> DEFINE S == {j \in from .. i : IsTag(j, kw)}
           T == {j \in from .. i + 1 : IsTag(j, kw)}
<1>1. IsFiniteSet(S)
  <2>1. S \in SUBSET (from .. i) /\ IsFiniteSet(from .. i)
    BY FS_Interval
  <2> HIDE DEF S
  <2> QED
    BY <2>1, FS_Subset
<1>2. Cardinality(S) \in Nat
  BY <1>1, FS_CardinalityType
<1>3. i + 1 \notin S
  OBVIOUS
<1>4. CASE IsTag(i + 1, kw)
  <2>1. T = S \cup {i + 1}
    BY <1>4
  <2> HIDE DEF S, T
  <2>2. Cardinality(T) = Cardinality(S) + 1
    BY <1>1, <1>3, <2>1, FS_AddElement
  <2> QED
    BY <1>2, <1>4, <2>2 DEF Seen, S, T
<1>5. CASE ~IsTag(i + 1, kw)
  <2>1. T = S
    BY <1>5
  <2> QED
    BY <1>2, <1>5, <2>1 DEF Seen
<1> QED
  BY <1>4, <1>5

(* Nothing is counted before the first position.                           *)
LEMMA SeenNone ==
    ASSUME NEW from \in Nat \ {0}, NEW kw
    PROVE  Seen(from, kw, from - 1) = 0
<1>1. {j \in from .. from - 1 : IsTag(j, kw)} = {}
  OBVIOUS
<1> QED
  BY <1>1, FS_EmptySet DEF Seen

(* find_matching_block_close.                                              *)
LEMMA CloseIs ==
    ASSUME source \in Seq(Piece), NEW from \in Nat \ {0}, NEW name,
           MatchingClose(from, name) # 0
    PROVE  /\ MatchingClose(from, name) \in from .. Len(source)
           /\ IsTag(MatchingClose(from, name), RawEnd(name))
<1> DEFINE end == RawEnd(name)
           S == {i \in from .. Len(source) : Seen(from, end, i) = Seen(from, name, i) + 1}
           U == {i \in from .. Len(source) : Seen(from, end, i) > Seen(from, name, i)}
           c == MatchingClose(from, name)
<1>1. Len(source) \in Nat
  BY SourceIs
<1>2. S \in SUBSET (Nat \ {0}) /\ c = First(S)
  BY <1>1 DEF MatchingClose, Seen
<1>3. c \in S /\ \A m \in S : c <= m
  <2> HIDE DEF S
  <2> QED
    BY <1>2, FirstMember
<1> HIDE DEF c
<1>4. c \in from .. Len(source) /\ c - 1 \in Nat /\ from <= c /\ from <= (c - 1) + 1
  BY <1>1, <1>3
<1>5. \A i \in Nat : from <= i + 1 =>
          /\ Seen(from, end, i) \in Nat /\ Seen(from, name, i) \in Nat
          /\ Seen(from, end, i + 1) \in Nat /\ Seen(from, name, i + 1) \in Nat
          /\ Seen(from, end, i + 1) <= Seen(from, end, i) + 1
          /\ Seen(from, name, i + 1) >= Seen(from, name, i)
          /\ ~IsTag(i + 1, end) => Seen(from, end, i + 1) = Seen(from, end, i)
  <2> TAKE i \in Nat
  <2> HAVE from <= i + 1
  <2> HIDE DEF end
  <2>1. /\ Seen(from, end, i) \in Nat /\ Seen(from, end, i + 1) \in Nat
        /\ IsTag(i + 1, end) => Seen(from, end, i + 1) = Seen(from, end, i) + 1
        /\ ~IsTag(i + 1, end) => Seen(from, end, i + 1) = Seen(from, end, i)
    BY SeenNext
  <2>2. /\ Seen(from, name, i) \in Nat /\ Seen(from, name, i + 1) \in Nat
        /\ IsTag(i + 1, name) => Seen(from, name, i + 1) = Seen(from, name, i) + 1
        /\ ~IsTag(i + 1, name) => Seen(from, name, i + 1) = Seen(from, name, i)
    BY SeenNext
  <2> QED
    BY <2>1, <2>2
<1>6. c \in U
  <2>1. Seen(from, name, (c - 1) + 1) \in Nat /\ (c - 1) + 1 = c
    BY <1>4, <1>5
  <2> QED
    BY <1>3, <2>1
<1>7. PICK u \in U : \A m \in U : u <= m
  <2>1. U \in SUBSET Nat
    BY <1>1
  <2> HIDE DEF U
  <2> QED
    BY <1>6, <2>1, LeastOf
<1>8. u \in from .. Len(source) /\ u - 1 \in Nat /\ from <= (u - 1) + 1 /\ (u - 1) + 1 = u
  BY <1>1, <1>7
<1>9. /\ Seen(from, end, u - 1) \in Nat /\ Seen(from, name, u - 1) \in Nat
      /\ Seen(from, end, u) \in Nat /\ Seen(from, name, u) \in Nat
      /\ Seen(from, end, u) <= Seen(from, end, u - 1) + 1
      /\ Seen(from, name, u) >= Seen(from, name, u - 1)
      /\ ~IsTag(u, end) => Seen(from, end, u) = Seen(from, end, u - 1)
  BY <1>5, <1>8
<1>10. Seen(from, end, u - 1) <= Seen(from, name, u - 1)
  <2>1. CASE u = from
    <3>1. Seen(from, end, from - 1) = 0 /\ Seen(from, name, from - 1) = 0
      <4> HIDE DEF end
      <4> QED
        BY SeenNone
    <3> QED
      BY <2>1, <3>1
  <2>2. CASE u # from
    <3>1. u - 1 \in from .. Len(source) /\ ~(u <= u - 1)
      BY <1>1, <1>8, <2>2
    <3>2. u - 1 \notin U
      BY <1>7, <3>1
    <3>3. ~(Seen(from, end, u - 1) > Seen(from, name, u - 1))
      BY <3>1, <3>2
    <3> QED
      BY <1>9, <3>3
  <2> QED
    BY <2>1, <2>2
<1>11. /\ Seen(from, end, u) = Seen(from, name, u) + 1
       /\ IsTag(u, end)
  <2>1. Seen(from, end, u) > Seen(from, name, u)
    BY <1>7
  <2> QED
    BY <1>9, <1>10, <2>1
<1>12. u = c
  <2>1. u \in S
    BY <1>8, <1>11
  <2>2. c <= u /\ u <= c
    BY <1>3, <1>6, <1>7, <2>1
  <2> QED
    BY <1>4, <1>8, <2>2
<1> QED
  BY <1>4, <1>11, <1>12 DEF c

-----------------------------------------------------------------------------
(* What the lexer delivers.                                                *)

Increasing(at) == \A x, y \in DOMAIN at : x < y => at[x] < at[y]

(* Tokens that tell all of a source before p, once and in order, except    *)
(* for the positions of E.                                                 *)
Told(ts, p, E) ==
    /\ ts \in Seq(AnyToken)
    /\ \A k \in DOMAIN ts :
          /\ Range(ts[k].at) \subseteq 1 .. p - 1
          /\ Increasing(ts[k].at)
          /\ \A l \in DOMAIN ts : k < l =>
                \A i \in Range(ts[k].at), j \in Range(ts[l].at) : i < j
    /\ \A i \in 1 .. p - 1 : i \in E \/ \E k \in DOMAIN ts : i \in Range(ts[k].at)

(* Positions that may be left out.                                         *)
LEMMA ToldPast ==
    ASSUME NEW ts, NEW p \in Nat \ {0}, NEW E, Told(ts, p, E),
           NEW q \in Nat, p <= q, p .. q - 1 \subseteq E
    PROVE  Told(ts, q, E)
<1>1. \A i \in 1 .. p - 1 : i \in 1 .. q - 1
  OBVIOUS
<1>2. \A i \in 1 .. q - 1 : i \in 1 .. p - 1 \/ i \in E
  OBVIOUS
<1> QED
  BY <1>1, <1>2 DEF Told

(* One token more.                                                         *)
LEMMA ToldNext ==
    ASSUME NEW ts, NEW p \in Nat \ {0}, NEW E, Told(ts, p, E),
           NEW q \in Nat, p <= q, NEW t \in AnyToken,
           Increasing(t.at), Range(t.at) \subseteq p .. q - 1,
           \A i \in p .. q - 1 : i \in Range(t.at) \/ i \in E
    PROVE  Told(Append(ts, t), q, E)
<1> DEFINE us == Append(ts, t)
<1>1. ts \in Seq(AnyToken)
  BY DEF Told
<1>2. /\ us \in Seq(AnyToken)
      /\ DOMAIN us = 1 .. Len(ts) + 1 /\ DOMAIN ts = 1 .. Len(ts) /\ Len(ts) \in Nat
      /\ \A k \in 1 .. Len(ts) : us[k] = ts[k]
      /\ us[Len(ts) + 1] = t
  BY <1>1
<1> HIDE DEF us
<1>3. \A k \in DOMAIN ts : Range(ts[k].at) \subseteq 1 .. p - 1 /\ Increasing(ts[k].at)
  BY DEF Told
<1>4. ASSUME NEW k \in DOMAIN us
      PROVE  /\ Range(us[k].at) \subseteq 1 .. q - 1
             /\ Increasing(us[k].at)
             /\ \A l \in DOMAIN us : k < l =>
                   \A i \in Range(us[k].at), j \in Range(us[l].at) : i < j
  <2>1. CASE k = Len(ts) + 1
    <3>1. us[k] = t /\ \A l \in DOMAIN us : ~(k < l)
      BY <1>2, <2>1
    <3>2. \A i \in p .. q - 1 : i \in 1 .. q - 1
      OBVIOUS
    <3> QED
      BY <3>1, <3>2
  <2>2. CASE k # Len(ts) + 1
    <3>1. k \in DOMAIN ts /\ us[k] = ts[k]
      BY <1>2, <2>2
    <3>2. Range(us[k].at) \subseteq 1 .. p - 1 /\ Increasing(us[k].at)
      BY <1>3, <3>1
    <3>3. \A i \in 1 .. p - 1 : i \in 1 .. q - 1
      OBVIOUS
    <3>4. ASSUME NEW l \in DOMAIN us, k < l, NEW i \in Range(us[k].at), NEW j \in Range(us[l].at)
          PROVE  i < j
      <4>1. CASE l = Len(ts) + 1
        <5>1. i \in 1 .. p - 1 /\ j \in p .. q - 1
          BY <1>2, <3>2, <3>4, <4>1
        <5> QED
          BY <5>1
      <4>2. CASE l # Len(ts) + 1
        <5>1. l \in DOMAIN ts /\ us[l] = ts[l]
          BY <1>2, <4>2
        <5> QED
          BY <3>1, <3>4, <5>1 DEF Told
      <4> QED
        BY <4>1, <4>2
    <3> QED
      BY <3>2, <3>3, <3>4
  <2> QED
    BY <2>1, <2>2
<1>5. ASSUME NEW i \in 1 .. q - 1
      PROVE  i \in E \/ \E k \in DOMAIN us : i \in Range(us[k].at)
  <2>1. CASE i < p
    <3>1. i \in 1 .. p - 1
      BY <2>1
    <3>2. i \in E \/ \E k \in DOMAIN ts : i \in Range(ts[k].at)
      BY <3>1 DEF Told
    <3>3. \A k \in DOMAIN ts : k \in DOMAIN us /\ us[k] = ts[k]
      BY <1>2
    <3> QED
      BY <3>2, <3>3
  <2>2. CASE ~(i < p)
    <3>1. i \in p .. q - 1
      BY <2>2
    <3>2. Len(ts) + 1 \in DOMAIN us
      BY <1>2
    <3> QED
      BY <1>2, <3>1, <3>2
  <2> QED
    BY <2>1, <2>2
<1>6. Told(us, q, E)
  BY <1>2, <1>4, <1>5 DEF Told
<1> QED
  BY <1>6 DEF us

(* The positions of a text.                                                *)
LEMMA KeptPositions ==
    ASSUME NEW a \in Nat, NEW b \in Nat, NEW text, Kept(text, a, b)
    PROVE  /\ text \in Seq(Nat) /\ Increasing(text) /\ Range(text) \subseteq a .. b - 1
           /\ \A i \in a .. b - 1 : i \in Range(text) \/ White(i)
<1>1. PICK c \in Nat, d \in Nat : Between(text, a, c, d, b)
  BY DEF Kept
<1>2. /\ a <= c /\ c <= d /\ d <= b /\ d - c \in Nat
      /\ text \in Seq(c .. d - 1) /\ DOMAIN text = 1 .. d - c
      /\ \A k \in 1 .. d - c : text[k] = c + k - 1
  BY <1>1, BetweenIs
<1>3. text \in Seq(Nat)
  BY <1>2
<1>4. Increasing(text)
  BY <1>2 DEF Increasing
<1>5. Range(text) \subseteq a .. b - 1
  BY <1>2 DEF Range
<1>6. ASSUME NEW i \in a .. b - 1, ~White(i) PROVE i \in Range(text)
  <2>1. i \in c .. d - 1
    BY <1>1, <1>6 DEF Between
  <2>2. i - c + 1 \in 1 .. d - c /\ c + (i - c + 1) - 1 = i
    BY <2>1
  <2> QED
    BY <1>2, <2>2 DEF Range
<1> QED
  BY <1>3, <1>4, <1>5, <1>6

(* What may be left out of the tokens of a source.                         *)
Excused(i) == White(i) \/ source[i].kind = "comment" \/ Swallowed(i)

Excusable == {i \in DOMAIN source : Excused(i)}

(* A text, or nothing if it is empty.                                      *)
LEMMA TextTold ==
    ASSUME source \in Seq(Piece),
           NEW ts, NEW a \in Nat \ {0}, Told(ts, a, Excusable),
           NEW b \in Nat, b <= Len(source) + 1, NEW text, Kept(text, a, b)
    PROVE  /\ Told(Append(ts, TextToken(text)), b, Excusable)
           /\ text = << >> => Told(ts, b, Excusable)
           /\ TextToken(text) \in AnyToken
<1>1. /\ text \in Seq(Nat) /\ Increasing(text) /\ Range(text) \subseteq a .. b - 1
      /\ \A i \in a .. b - 1 : i \in Range(text) \/ White(i)
  BY KeptPositions
<1>2. a <= b
  BY DEF Kept, Between
<1>3. \A i \in a .. b - 1 : i \in DOMAIN source
  BY <1>2, SourceIs
<1>4. \A i \in a .. b - 1 : i \in Range(text) \/ i \in Excusable
  BY <1>1, <1>3 DEF Excusable, Excused
<1>5. TextToken(text) \in AnyToken /\ TextToken(text).at = text
  BY <1>1 DEF TextToken, AnyToken, TextTokens
<1>6. Told(Append(ts, TextToken(text)), b, Excusable)
  <2> DEFINE t == TextToken(text)
  <2>1. t \in AnyToken /\ Increasing(t.at) /\ Range(t.at) \subseteq a .. b - 1
    BY <1>1, <1>5
  <2>2. \A i \in a .. b - 1 : i \in Range(t.at) \/ i \in Excusable
    BY <1>4, <1>5
  <2> HIDE DEF t
  <2>3. Told(Append(ts, t), b, Excusable)
    BY <1>2, <2>1, <2>2, ToldNext
  <2> QED
    BY <2>3 DEF t
<1>7. ASSUME text = << >> PROVE Told(ts, b, Excusable)
  <2>1. Range(text) = {}
    BY <1>7 DEF Range
  <2>2. a .. b - 1 \subseteq Excusable
    BY <1>4, <2>1
  <2> QED
    BY <1>2, <2>2, ToldPast
<1> QED
  BY <1>5, <1>6, <1>7

(* A region, and what is swallowed because it is not closed.               *)
LEMMA RegionTold ==
    ASSUME source \in Seq(Piece),
           NEW ts, NEW i \in 1 .. Len(source), Told(ts, i, Excusable),
           NEW e \in i .. Len(source), \A k \in i + 1 .. e : Swallowed(k),
           NEW t \in AnyToken, t.at = <<i>>
    PROVE  Told(Append(ts, t), e + 1, Excusable)
<1>1. Range(t.at) = {i} /\ Increasing(t.at)
  BY DEF Range, Increasing
<1>2. \A k \in i .. (e + 1) - 1 : k \in {i} \/ k \in i + 1 .. e
  OBVIOUS
<1>3. \A k \in i + 1 .. e : k \in DOMAIN source
  BY SourceIs
<1>4. \A k \in i + 1 .. e : k \in Excusable
  BY <1>3 DEF Excusable, Excused
<1>5. \A k \in i .. (e + 1) - 1 : k \in Range(t.at) \/ k \in Excusable
  BY <1>1, <1>2, <1>4
<1>6. i \in Nat \ {0} /\ e + 1 \in Nat /\ i <= e + 1 /\ i \in i .. (e + 1) - 1
  BY SourceIs
<1>7. Range(t.at) \subseteq i .. (e + 1) - 1
  BY <1>1, <1>6
<1> QED
  BY <1>1, <1>5, <1>6, <1>7, ToldNext

-----------------------------------------------------------------------------
(* Raw blocks in the tokens.                                               *)

TagAt(ts, j, kw) == j \in DOMAIN ts /\ ts[j].tok = "tag" /\ ts[j].body.kw = kw

(* After the tag of a raw block is its end, with or without a text between *)
(* them, or nothing yet: then the lexer is in the block.                   *)
RawsPaired(ts, m) ==
    /\ m \in RawTags => TagAt(ts, Len(ts), m)
    /\ \A j \in DOMAIN ts : \A name \in RawTags : TagAt(ts, j, name) =>
          \/ j = Len(ts) /\ m = name
          \/ TagAt(ts, j + 1, RawEnd(name))
          \/ /\ j + 1 \in DOMAIN ts /\ ts[j + 1].tok = "text"
             /\ TagAt(ts, j + 2, RawEnd(name))

(* A token outside raw blocks, perhaps one that opens a raw block.         *)
LEMMA PairedNext ==
    ASSUME NEW ts \in Seq(AnyToken), RawsPaired(ts, "normal"), NEW t \in AnyToken,
           NEW m, m \in RawTags => t.tok = "tag" /\ t.body.kw = m,
           \A name \in RawTags : t.tok = "tag" /\ t.body.kw = name => m = name
    PROVE  RawsPaired(Append(ts, t), m)
<1> DEFINE us == Append(ts, t)
<1>1. /\ DOMAIN us = 1 .. Len(ts) + 1 /\ Len(us) = Len(ts) + 1
      /\ DOMAIN ts = 1 .. Len(ts) /\ Len(ts) \in Nat
      /\ \A k \in 1 .. Len(ts) : us[k] = ts[k]
      /\ us[Len(ts) + 1] = t
  OBVIOUS
<1> HIDE DEF us
<1>2. m \in RawTags => TagAt(us, Len(us), m)
  BY <1>1 DEF TagAt
<1>3. ASSUME NEW j \in DOMAIN us, NEW name \in RawTags, TagAt(us, j, name)
      PROVE  \/ j = Len(us) /\ m = name
             \/ TagAt(us, j + 1, RawEnd(name))
             \/ /\ j + 1 \in DOMAIN us /\ us[j + 1].tok = "text"
                /\ TagAt(us, j + 2, RawEnd(name))
  <2>1. CASE j = Len(ts) + 1
    BY <1>1, <1>3, <2>1 DEF TagAt
  <2>2. CASE j # Len(ts) + 1
    <3>1. j \in DOMAIN ts /\ TagAt(ts, j, name) /\ "normal" # name
      BY <1>1, <1>3, <2>2 DEF TagAt, RawTags
    <3>2. \/ TagAt(ts, j + 1, RawEnd(name))
          \/ /\ j + 1 \in DOMAIN ts /\ ts[j + 1].tok = "text"
             /\ TagAt(ts, j + 2, RawEnd(name))
      BY <3>1 DEF RawsPaired
    <3> QED
      BY <1>1, <3>2 DEF TagAt
  <2> QED
    BY <2>1, <2>2
<1>4. RawsPaired(us, m)
  BY <1>2, <1>3 DEF RawsPaired
<1> QED
  BY <1>4 DEF us

(* The end of a raw block.                                                 *)
LEMMA PairedClose ==
    ASSUME NEW ts \in Seq(AnyToken), NEW m \in RawTags, RawsPaired(ts, m),
           NEW x \in AnyToken, x.tok = "text",
           NEW t \in AnyToken, t.tok = "tag", t.body.kw = RawEnd(m)
    PROVE  /\ RawsPaired(Append(ts, t), "normal")
           /\ RawsPaired(Append(Append(ts, x), t), "normal")
<1> DEFINE l == Len(ts)
<1>1. l \in Nat /\ DOMAIN ts = 1 .. l
  OBVIOUS
<1> HIDE DEF l
<1>2. ASSUME NEW n \in {l + 1, l + 2}, NEW us, DOMAIN us = 1 .. n,
             us[n] = t, n = l + 2 => us[l + 1] = x,
             \A k \in 1 .. l : us[k] = ts[k]
      PROVE  RawsPaired(us, "normal")
  <2>1. "normal" \notin RawTags /\ t.body.kw \notin RawTags
    BY DEF RawTags, RawEnd
  <2>2. ASSUME NEW j \in DOMAIN us, NEW name \in RawTags, TagAt(us, j, name)
        PROVE  \/ TagAt(us, j + 1, RawEnd(name))
               \/ /\ j + 1 \in DOMAIN us /\ us[j + 1].tok = "text"
                  /\ TagAt(us, j + 2, RawEnd(name))
    <3>1. j # n /\ us[j].tok = "tag"
      BY <1>2, <2>1, <2>2 DEF TagAt
    <3>2. n = l + 2 => j # l + 1
      BY <1>2, <3>1
    <3>3. j \in 1 .. l
      BY <1>1, <1>2, <3>1, <3>2
    <3>4. TagAt(ts, j, name)
      BY <1>1, <1>2, <2>2, <3>3 DEF TagAt
    <3>5. CASE j = l
      <4>1. name = m
        BY <3>4, <3>5 DEF RawsPaired, TagAt, l
      <4>2. CASE n = l + 1
        BY <1>1, <1>2, <3>5, <4>1, <4>2 DEF TagAt
      <4>3. CASE n = l + 2
        BY <1>1, <1>2, <3>5, <4>1, <4>3 DEF TagAt
      <4> QED
        BY <4>2, <4>3
    <3>6. CASE j # l
      <4>1. \/ TagAt(ts, j + 1, RawEnd(name))
            \/ /\ j + 1 \in DOMAIN ts /\ ts[j + 1].tok = "text"
               /\ TagAt(ts, j + 2, RawEnd(name))
        BY <1>1, <3>3, <3>4, <3>6 DEF RawsPaired, l
      <4>2. \A k \in DOMAIN ts : k \in DOMAIN us /\ us[k] = ts[k]
        BY <1>1, <1>2
      <4>3. \A k : TagAt(ts, k, RawEnd(name)) => TagAt(us, k, RawEnd(name))
        BY <4>2 DEF TagAt
      <4> QED
        BY <4>1, <4>2, <4>3
    <3> QED
      BY <3>5, <3>6
  <2> QED
    BY <2>1, <2>2 DEF RawsPaired
<1>3. RawsPaired(Append(ts, t), "normal")
  <2> DEFINE us == Append(ts, t)
  <2>1. /\ DOMAIN us = 1 .. l + 1 /\ us[l + 1] = t /\ \A k \in 1 .. l : us[k] = ts[k]
    BY DEF l
  <2> HIDE DEF us
  <2>2. l + 1 # l + 2
    BY <1>1
  <2>3. RawsPaired(us, "normal")
    BY <1>2, <2>1, <2>2
  <2> QED
    BY <2>3 DEF us
<1>4. RawsPaired(Append(Append(ts, x), t), "normal")
  <2> DEFINE us == Append(Append(ts, x), t)
  <2>1. /\ DOMAIN us = 1 .. l + 2 /\ us[l + 2] = t /\ us[l + 1] = x
        /\ \A k \in 1 .. l : us[k] = ts[k]
    BY DEF l
  <2> HIDE DEF us
  <2>2. RawsPaired(us, "normal")
    BY <1>2, <2>1
  <2> QED
    BY <2>2 DEF us
<1> QED
  BY <1>3, <1>4

-----------------------------------------------------------------------------
(* The lexer.                                                              *)

(* The tokens there are and the one that is kept pending.                  *)
All(ts, pend) == IF pend = None THEN ts ELSE Append(ts, pend)

(* The invariant of the lexer, in a source of n pieces.                    *)
Lexed(n, p, m, pend, ts, lx, E) ==
    /\ p \in 1 .. n + 1
    /\ m \in {"normal"} \cup RawTags
    /\ pend \in TagTokens \cup {None}
    /\ ts \in Seq(AnyToken)
    /\ lx \in {"on", "done", "failed"}
    /\ Told(All(ts, pend), p, E)
    /\ RawsPaired(All(ts, pend), m)
    /\ m \in RawTags => pend = None
    /\ lx = "done" => pend = None /\ m = "normal" /\ p = n + 1

LexInv ==
    /\ source \in Seq(Piece) /\ opts \in Options
    /\ strip \in BOOLEAN /\ trimNewline \in BOOLEAN
    /\ Lexed(Len(source), position, mode, pending, tokens, lexing, Excusable)

(* What a step of the lexer leaves.                                        *)
LexNow ==
    /\ strip' \in BOOLEAN /\ trimNewline' \in BOOLEAN
    /\ Lexed(Len(source), position', mode', pending', tokens', lexing', Excusable)

(* With no token pending.                                                  *)
LEMMA LexedPlain ==
    ASSUME NEW n \in Nat, NEW p \in 1 .. n + 1, NEW m \in {"normal"} \cup RawTags,
           NEW E, NEW ts, Told(ts, p, E), RawsPaired(ts, m),
           NEW lx \in {"on", "done", "failed"}, lx = "done" => m = "normal" /\ p = n + 1
    PROVE  Lexed(n, p, m, None, ts, lx, E)
<1>1. All(ts, None) = ts /\ ts \in Seq(AnyToken)
  BY DEF All, Told
<1> QED
  BY <1>1 DEF Lexed

(* Where the lexer is when it reads on.                                    *)
LEMMA ReadingNow ==
    ASSUME LexInv, Reading
    PROVE  /\ Len(source) \in Nat /\ position \in 1 .. Len(source) + 1
           /\ position \in Nat \ {0}
           /\ mode \in {"normal"} \cup RawTags
           /\ Told(tokens, position, Excusable) /\ tokens \in Seq(AnyToken)
           /\ RawsPaired(tokens, mode)
           /\ lexing = "on" /\ pending = None
           /\ source \in Seq(Piece)
<1>1. All(tokens, pending) = tokens
  BY DEF Reading, All
<1>2. Lexed(Len(source), position, mode, pending, tokens, lexing, Excusable)
  BY DEF LexInv
<1>3. source \in Seq(Piece) /\ Len(source) \in Nat
  BY SourceIs DEF LexInv
<1> QED
  BY <1>1, <1>2, <1>3 DEF Lexed, Reading

(* RestIsText.                                                             *)
LEMMA RestSound == LexInv /\ RestIsText => LexNow
<1> SUFFICES ASSUME LexInv, RestIsText PROVE LexNow
  OBVIOUS
<1> DEFINE n == Len(source)
           text == LeadingStrip(Span(position, n + 1))
<1>1. /\ mode = "normal" /\ position <= n
      /\ tokens' = Append(tokens, TextToken(text)) /\ position' = n + 1
      /\ mode' = mode /\ pending' = pending /\ lexing' = lexing
      /\ strip' = FALSE /\ trimNewline' = FALSE
  BY DEF RestIsText, Normal, FlagsUsed
<1>2. /\ n \in Nat /\ position \in Nat \ {0} /\ pending = None /\ lexing = "on"
      /\ Told(tokens, position, Excusable) /\ tokens \in Seq(AnyToken)
      /\ RawsPaired(tokens, mode) /\ source \in Seq(Piece)
  BY ReadingNow DEF RestIsText, Normal
<1> HIDE DEF n, text
<1>3. Kept(text, position, n + 1)
  <2>1. position <= n + 1 /\ n + 1 \in Nat
    BY <1>1, <1>2
  <2> QED
    BY <1>2, <2>1, TextKept DEF text
<1>4. Told(tokens', n + 1, Excusable) /\ TextToken(text) \in AnyToken
  <2>1. n + 1 <= Len(source) + 1 /\ n + 1 \in Nat
    BY <1>2 DEF n
  <2> QED
    BY <1>1, <1>2, <1>3, <2>1, TextTold
<1>5. RawsPaired(tokens', "normal")
  <2>1. TextToken(text).tok # "tag" /\ "normal" \notin RawTags
    BY DEF TextToken, RawTags
  <2> QED
    BY <1>1, <1>2, <1>4, <2>1, PairedNext
<1>6. Lexed(n, n + 1, "normal", None, tokens', "on", Excusable)
  <2>1. n + 1 \in 1 .. n + 1
    BY <1>2
  <2> QED
    BY <1>2, <1>4, <1>5, <2>1, LexedPlain
<1> QED
  BY <1>1, <1>2, <1>6 DEF LexNow, n

(* A region where the lexer is.                                            *)
LEMMA RegionNow ==
    ASSUME LexInv, NEW kind \in {"comment", "tag", "var"}, At(kind), EndOf(position) # 0
    PROVE  /\ position \in 1 .. Len(source) /\ EndOf(position) \in position .. Len(source)
           /\ EndOf(position) + 1 \in 1 .. Len(source) + 1
           /\ source[position].kind = kind /\ source[EndOf(position)].kind = kind
           /\ kind = "var" => EndOf(position) = position
           /\ \A k \in position + 1 .. EndOf(position) : Swallowed(k)
           /\ mode = "normal"
<1>1. Len(source) \in Nat /\ position \in Nat \ {0} /\ source \in Seq(Piece)
  BY ReadingNow DEF At, Normal
<1>2. position \in 1 .. Len(source) /\ source[position].kind = kind /\ mode = "normal"
  BY <1>1 DEF At, Normal
<1>3. /\ EndOf(position) \in position .. Len(source)
      /\ source[EndOf(position)].kind = source[position].kind
      /\ source[position].kind = "var" => EndOf(position) = position
      /\ \A k \in position + 1 .. EndOf(position) : Swallowed(k)
  BY <1>1, <1>2, EndIs
<1>4. EndOf(position) + 1 \in 1 .. Len(source) + 1
  BY <1>1, <1>3
<1> QED
  BY <1>2, <1>3, <1>4

(* SkipComment.                                                            *)
LEMMA CommentSound == LexInv /\ SkipComment => LexNow
<1> SUFFICES ASSUME LexInv, SkipComment PROVE LexNow
  OBVIOUS
<1> DEFINE e == EndOf(position)
<1>1. /\ At("comment") /\ e # 0 /\ position' = e + 1
      /\ tokens' = tokens /\ mode' = mode /\ pending' = pending /\ lexing' = lexing
      /\ strip' = strip /\ trimNewline' = trimNewline
  BY DEF SkipComment, flags
<1>2. /\ Len(source) \in Nat /\ position \in Nat \ {0} /\ pending = None /\ lexing = "on"
      /\ Told(tokens, position, Excusable) /\ RawsPaired(tokens, mode)
      /\ source \in Seq(Piece)
  BY <1>1, ReadingNow DEF At, Normal
<1>3. /\ position \in 1 .. Len(source) /\ e \in position .. Len(source)
      /\ e + 1 \in 1 .. Len(source) + 1
      /\ source[position].kind = "comment"
      /\ \A k \in position + 1 .. e : Swallowed(k)
      /\ mode = "normal"
  BY <1>1, RegionNow
<1> HIDE DEF e
<1>4. position .. (e + 1) - 1 \subseteq Excusable
  <2>1. DOMAIN source = 1 .. Len(source)
    BY <1>2, SourceIs
  <2> SUFFICES ASSUME NEW k \in position .. (e + 1) - 1 PROVE k \in Excusable
    OBVIOUS
  <2>2. k \in DOMAIN source /\ (k = position \/ k \in position + 1 .. e)
    BY <1>2, <1>3, <2>1
  <2> QED
    BY <1>3, <2>2 DEF Excusable, Excused
<1>5. Told(tokens, e + 1, Excusable)
  <2>1. e + 1 \in Nat /\ position <= e + 1
    BY <1>2, <1>3
  <2> QED
    BY <1>2, <1>4, <2>1, ToldPast
<1>6. Lexed(Len(source), e + 1, "normal", None, tokens, "on", Excusable)
  BY <1>2, <1>3, <1>5, LexedPlain
<1> QED
  BY <1>1, <1>2, <1>3, <1>6 DEF LexNow, LexInv

(* TakeTag.                                                                *)
LEMMA TagSound == LexInv /\ TakeTag => LexNow
<1> SUFFICES ASSUME LexInv, TakeTag PROVE LexNow
  OBVIOUS
<1> DEFINE e == EndOf(position)
           t == TagToken(position)
           m == IF source[position].body.kw \in RawTags THEN source[position].body.kw ELSE mode
<1>1. /\ At("tag") /\ e # 0 /\ position' = e + 1
      /\ tokens' = Append(tokens, t) /\ mode' = m /\ pending' = pending /\ lexing' = lexing
      /\ strip' \in BOOLEAN /\ trimNewline' \in BOOLEAN
  BY DEF TakeTag
<1>2. /\ Len(source) \in Nat /\ pending = None /\ lexing = "on"
      /\ Told(tokens, position, Excusable) /\ tokens \in Seq(AnyToken)
      /\ RawsPaired(tokens, mode) /\ source \in Seq(Piece)
  BY <1>1, ReadingNow DEF At, Normal
<1>3. /\ position \in 1 .. Len(source) /\ e \in position .. Len(source)
      /\ e + 1 \in 1 .. Len(source) + 1
      /\ source[position].kind = "tag"
      /\ \A k \in position + 1 .. e : Swallowed(k)
      /\ mode = "normal"
  BY <1>1, RegionNow
<1>4. /\ t \in AnyToken /\ t.at = <<position>>
      /\ t.tok = "tag" /\ t.body.kw = source[position].body.kw
  <2>1. source[position].body \in Body
    BY <1>2, <1>3, SourceIs
  <2>2. t \in TagTokens
    BY <1>2, <1>3, <2>1 DEF TagToken, TagTokens
  <2> QED
    BY <2>2 DEF AnyToken, TagToken
<1>5. /\ m \in {"normal"} \cup RawTags
      /\ m \in RawTags => t.tok = "tag" /\ t.body.kw = m
      /\ \A name \in RawTags : t.tok = "tag" /\ t.body.kw = name => m = name
  BY <1>3, <1>4 DEF RawTags
<1> HIDE DEF e, t, m
<1>6. Told(Append(tokens, t), e + 1, Excusable)
  BY <1>2, <1>3, <1>4, RegionTold
<1>7. RawsPaired(Append(tokens, t), m)
  BY <1>2, <1>3, <1>4, <1>5, PairedNext
<1>8. Lexed(Len(source), e + 1, m, None, Append(tokens, t), "on", Excusable)
  BY <1>2, <1>3, <1>5, <1>6, <1>7, LexedPlain
<1> QED
  BY <1>1, <1>2, <1>8 DEF LexNow

(* TakeVariable.                                                           *)
LEMMA VariableSound == LexInv /\ TakeVariable => LexNow
<1> SUFFICES ASSUME LexInv, TakeVariable PROVE LexNow
  OBVIOUS
<1> DEFINE t == ExprToken(position)
<1>1. /\ At("var") /\ EndOf(position) # 0 /\ position' = position + 1
      /\ tokens' = Append(tokens, t) /\ mode' = mode /\ pending' = pending /\ lexing' = lexing
      /\ strip' \in BOOLEAN /\ trimNewline' = trimNewline
  BY DEF TakeVariable
<1>2. /\ Len(source) \in Nat /\ pending = None /\ lexing = "on"
      /\ Told(tokens, position, Excusable) /\ tokens \in Seq(AnyToken)
      /\ RawsPaired(tokens, mode) /\ source \in Seq(Piece)
  BY <1>1, ReadingNow DEF At, Normal
<1>3. /\ position \in 1 .. Len(source) /\ position \in position .. Len(source)
      /\ position + 1 \in 1 .. Len(source) + 1
      /\ source[position].kind = "var"
      /\ \A k \in position + 1 .. position : Swallowed(k)
      /\ mode = "normal"
  BY <1>1, RegionNow
<1>4. t \in AnyToken /\ t.at = <<position>> /\ t.tok # "tag"
  <2>1. source[position].head \in Seq(STRING)
    BY <1>2, <1>3, SourceIs
  <2>2. t \in VarTokens
    BY <1>2, <1>3, <2>1 DEF ExprToken, VarTokens
  <2> QED
    BY <2>2 DEF AnyToken, ExprToken
<1> HIDE DEF t
<1>5. Told(Append(tokens, t), position + 1, Excusable)
  BY <1>2, <1>3, <1>4, RegionTold
<1>6. RawsPaired(Append(tokens, t), "normal")
  <2>1. "normal" \notin RawTags
    BY DEF RawTags
  <2> QED
    BY <1>2, <1>3, <1>4, <2>1, PairedNext
<1>7. Lexed(Len(source), position + 1, "normal", None, Append(tokens, t), "on", Excusable)
  BY <1>2, <1>3, <1>5, <1>6, LexedPlain
<1> QED
  BY <1>1, <1>2, <1>3, <1>7 DEF LexNow, LexInv

(* TextBefore.                                                             *)
LEMMA BeforeSound == LexInv /\ TextBefore => LexNow
<1> SUFFICES ASSUME LexInv, TextBefore PROVE LexNow
  OBVIOUS
<1> DEFINE b == NextOpener
           text == TextUpTo(b)
<1>1. /\ mode = "normal" /\ b > position /\ position' = b
      /\ tokens' = IF text = << >> THEN tokens ELSE Append(tokens, TextToken(text))
      /\ mode' = mode /\ pending' = pending /\ lexing' = lexing
      /\ strip' = FALSE /\ trimNewline' = FALSE
  BY DEF TextBefore, Normal, FlagsUsed
<1>2. /\ Len(source) \in Nat /\ position \in Nat \ {0} /\ pending = None /\ lexing = "on"
      /\ position \in 1 .. Len(source) + 1
      /\ Told(tokens, position, Excusable) /\ tokens \in Seq(AnyToken)
      /\ RawsPaired(tokens, mode) /\ source \in Seq(Piece)
  BY ReadingNow DEF TextBefore, Normal
<1>3. b # 0
  BY <1>1, <1>2
<1>4. b \in position .. Len(source)
  BY <1>2, <1>3, OpenerIs
<1> HIDE DEF b, text
<1>5. b \in Nat /\ b \in 1 .. Len(source) + 1 /\ position <= b /\ b <= Len(source) + 1
  BY <1>2, <1>4
<1>6. Kept(text, position, b)
  BY <1>2, <1>5, TextKept DEF text
<1>7. /\ Told(Append(tokens, TextToken(text)), b, Excusable)
      /\ text = << >> => Told(tokens, b, Excusable)
      /\ TextToken(text) \in AnyToken
  BY <1>2, <1>5, <1>6, TextTold
<1>8. RawsPaired(Append(tokens, TextToken(text)), "normal")
  <2>1. TextToken(text).tok # "tag" /\ "normal" \notin RawTags
    BY DEF TextToken, RawTags
  <2> QED
    BY <1>1, <1>2, <1>7, <2>1, PairedNext
<1>9. Told(tokens', b, Excusable) /\ RawsPaired(tokens', "normal")
  BY <1>1, <1>2, <1>7, <1>8
<1>10. Lexed(Len(source), b, "normal", None, tokens', "on", Excusable)
  BY <1>2, <1>5, <1>9, LexedPlain
<1> QED
  BY <1>1, <1>2, <1>10 DEF LexNow

(* TakeRaw.                                                                *)
LEMMA RawSound == LexInv /\ TakeRaw => LexNow
<1> SUFFICES ASSUME LexInv, TakeRaw PROVE LexNow
  OBVIOUS
<1> DEFINE n == Len(source)
           c == RawCloses
           literal == LeadingStrip(Span(position, c))
           x == TextToken(literal)
           t == TagToken(c)
<1>1. /\ mode \in RawTags /\ c # 0 /\ position' = c + 1
      /\ tokens' = Append(tokens, IF literal = << >> THEN t ELSE x)
      /\ pending' = (IF literal = << >> THEN None ELSE t)
      /\ mode' = "normal" /\ lexing' = lexing
      /\ strip' = source[c].trimClose /\ trimNewline' = FALSE
  BY DEF TakeRaw
<1>2. /\ n \in Nat /\ position \in Nat \ {0} /\ pending = None /\ lexing = "on"
      /\ Told(tokens, position, Excusable) /\ tokens \in Seq(AnyToken)
      /\ RawsPaired(tokens, mode) /\ source \in Seq(Piece)
  BY ReadingNow DEF TakeRaw
<1>3. c \in position .. n /\ IsTag(c, RawEnd(mode))
  BY <1>1, <1>2, CloseIs DEF RawCloses
<1> HIDE DEF c, literal, n
<1>4. /\ c \in Nat /\ c \in 1 .. Len(source) /\ c + 1 \in 1 .. n + 1
      /\ position <= c /\ c <= Len(source) + 1
  BY <1>2, <1>3 DEF n
<1>5. source[c].kind = "tag" /\ source[c].body.kw = RawEnd(mode)
  BY <1>3 DEF IsTag
<1>6. /\ t \in TagTokens /\ t \in AnyToken /\ t.at = <<c>>
      /\ t.tok = "tag" /\ t.body.kw = RawEnd(mode)
      /\ source[c].trimClose \in BOOLEAN
  <2>1. source[c].body \in Body /\ source[c].trimClose \in BOOLEAN
    BY <1>2, <1>4, <1>5, SourceIs
  <2>2. t \in TagTokens
    BY <1>4, <2>1 DEF TagToken, TagTokens
  <2> QED
    BY <1>5, <2>1, <2>2 DEF AnyToken, TagToken
<1>7. Kept(literal, position, c)
  BY <1>2, <1>4, TextKept DEF literal
<1>8. /\ Told(Append(tokens, x), c, Excusable)
      /\ literal = << >> => Told(tokens, c, Excusable)
      /\ x \in AnyToken
  BY <1>2, <1>4, <1>7, TextTold
<1>9. x.tok = "text"
  BY DEF TextToken
<1> HIDE DEF x, t
<1>10. c \in c .. Len(source) /\ \A k \in c + 1 .. c : Swallowed(k)
  BY <1>4
<1>11. CASE literal = << >>
  <2>1. Told(Append(tokens, t), c + 1, Excusable)
    BY <1>2, <1>4, <1>6, <1>8, <1>10, <1>11, RegionTold
  <2>2. RawsPaired(Append(tokens, t), "normal")
    BY <1>1, <1>2, <1>6, <1>8, <1>9, PairedClose
  <2>3. Lexed(n, c + 1, "normal", None, Append(tokens, t), "on", Excusable)
    BY <1>2, <1>4, <2>1, <2>2, LexedPlain
  <2> QED
    BY <1>1, <1>2, <1>6, <1>11, <2>3 DEF LexNow, n
<1>12. CASE literal # << >>
  <2> DEFINE ts == Append(tokens, x)
  <2>1. ts \in Seq(AnyToken)
    BY <1>2, <1>8
  <2>2. RawsPaired(Append(ts, t), "normal")
    BY <1>1, <1>2, <1>6, <1>8, <1>9, PairedClose
  <2>3. Told(ts, c, Excusable)
    BY <1>8
  <2> HIDE DEF ts
  <2>4. Told(Append(ts, t), c + 1, Excusable)
    BY <1>2, <1>4, <1>6, <1>10, <2>3, RegionTold
  <2>5. t # None
    BY <1>6, NoneIsNoToken DEF TagTokens
  <2>6. All(ts, t) = Append(ts, t)
    BY <2>5 DEF All
  <2>7. Lexed(n, c + 1, "normal", t, ts, "on", Excusable)
    BY <1>4, <1>6, <2>1, <2>2, <2>4, <2>6 DEF Lexed, RawTags
  <2> QED
    BY <1>1, <1>2, <1>6, <1>12, <2>7 DEF LexNow, n, ts
<1> QED
  BY <1>11, <1>12

(* TakePending.                                                            *)
LEMMA PendingSound == LexInv /\ TakePending => LexNow
<1> SUFFICES ASSUME LexInv, TakePending PROVE LexNow
  OBVIOUS
<1>1. /\ pending # None /\ tokens' = Append(tokens, pending) /\ pending' = None
      /\ position' = position /\ mode' = mode /\ lexing' = lexing /\ lexing = "on"
      /\ strip' = strip /\ trimNewline' = trimNewline
  BY DEF TakePending, flags
<1>2. Lexed(Len(source), position, mode, pending, tokens, lexing, Excusable)
  BY DEF LexInv
<1>3. pending \in AnyToken /\ tokens \in Seq(AnyToken)
  BY <1>1, <1>2 DEF Lexed, AnyToken
<1>4. All(tokens', pending') = All(tokens, pending) /\ tokens' \in Seq(AnyToken)
  BY <1>1, <1>3 DEF All
<1>5. Lexed(Len(source), position', mode', pending', tokens', lexing', Excusable)
  BY <1>1, <1>2, <1>4 DEF Lexed
<1> QED
  BY <1>1, <1>5 DEF LexNow, LexInv

(* Unclosed.                                                               *)
LEMMA UnclosedSound == LexInv /\ Unclosed => LexNow
<1> SUFFICES ASSUME LexInv, Unclosed PROVE LexNow
  OBVIOUS
<1>1. /\ tokens' = tokens /\ pending' = pending /\ position' = position /\ mode' = mode
      /\ lexing' = "failed" /\ strip' = strip /\ trimNewline' = trimNewline
  BY DEF Unclosed, flags
<1>2. Lexed(Len(source), position, mode, pending, tokens, "failed", Excusable)
  BY DEF LexInv, Lexed
<1> QED
  BY <1>1, <1>2 DEF LexNow, LexInv

(* EndOfInput.                                                             *)
LEMMA EndSound == LexInv /\ EndOfInput => LexNow
<1> SUFFICES ASSUME LexInv, EndOfInput PROVE LexNow
  OBVIOUS
<1> DEFINE n == Len(source)
<1>1. /\ mode = "normal" /\ position > n
      /\ tokens' = IF source = << >> THEN <<TextToken(<< >>)>> ELSE tokens
      /\ lexing' = "done" /\ position' = position /\ mode' = mode /\ pending' = pending
      /\ strip' = strip /\ trimNewline' = trimNewline
  BY DEF EndOfInput, flags
<1>2. /\ n \in Nat /\ position \in 1 .. n + 1 /\ pending = None
      /\ Told(tokens, position, Excusable) /\ tokens \in Seq(AnyToken)
      /\ RawsPaired(tokens, mode) /\ source \in Seq(Piece)
  BY ReadingNow DEF EndOfInput
<1>3. position = n + 1
  BY <1>1, <1>2
<1>4. CASE source # << >>
  <2>1. Lexed(n, n + 1, "normal", None, tokens, "done", Excusable)
    BY <1>1, <1>2, <1>3, LexedPlain
  <2> QED
    BY <1>1, <1>2, <1>3, <1>4, <2>1 DEF LexNow, LexInv
<1>5. CASE source = << >>
  <2> DEFINE t == TextToken(<< >>)
  <2>1. n = 0
    BY <1>5
  <2>2. t \in AnyToken /\ t.tok = "text" /\ t.at = << >>
    BY DEF TextToken, AnyToken, TextTokens
  <2> HIDE DEF t
  <2>3. Range(t.at) = {} /\ Increasing(t.at)
    BY <2>2 DEF Range, Increasing
  <2>4. /\ <<t>> \in Seq(AnyToken) /\ DOMAIN <<t>> = {1} /\ <<t>>[1] = t
    BY <2>2
  <2>5. Told(<<t>>, 1, Excusable)
    BY <2>3, <2>4 DEF Told
  <2>6. RawsPaired(<<t>>, "normal")
    BY <2>2, <2>4 DEF RawsPaired, TagAt, RawTags
  <2>7. Lexed(n, n + 1, "normal", None, <<t>>, "done", Excusable)
    BY <1>2, <2>1, <2>5, <2>6, LexedPlain
  <2> QED
    BY <1>1, <1>2, <1>3, <1>5, <2>7 DEF LexNow, LexInv, t
<1> QED
  BY <1>4, <1>5

(* The source stays, and with it what may be left out.                     *)
LEMMA ExcusableStays == source' = source => Excusable' = Excusable
  BY DEF Excusable, Excused, White, Blank, Newline, Swallowed, EndOf, First

(* Every step of the lexer.                                                *)
LEMMA LexStep == LexInv /\ LexNext => LexInv'
<1> SUFFICES ASSUME LexInv, LexNext PROVE LexInv'
  OBVIOUS
<1>1. LexNow
  BY RestSound, CommentSound, TagSound, VariableSound, BeforeSound, RawSound, PendingSound,
     UnclosedSound, EndSound DEF LexNext
<1>2. source' = source /\ opts' = opts
  BY DEF LexNext, RestIsText, SkipComment, TakeTag, TakeVariable, TextBefore, TakeRaw,
         TakePending, Unclosed, EndOfInput, input
<1>3. Excusable' = Excusable
  BY <1>2, ExcusableStays
<1> QED
  BY <1>1, <1>2, <1>3 DEF LexInv, LexNow

(* Nothing is read at first.                                               *)
LEMMA LexStart ==
    ASSUME NEW given \in Seq(Piece), NEW options \in Options, LexInit(given, options)
    PROVE  LexInv
<1>1. /\ source \in Seq(Piece) /\ opts \in Options /\ position = 1 /\ mode = "normal"
      /\ pending = None /\ strip = FALSE /\ trimNewline = FALSE /\ tokens = << >>
      /\ lexing = "on"
  BY DEF LexInit
<1>2. Told(<< >>, 1, Excusable)
  BY DEF Told
<1>3. RawsPaired(<< >>, "normal")
  BY DEF RawsPaired, RawTags
<1>4. Len(source) \in Nat /\ 1 \in 1 .. Len(source) + 1
  BY <1>1
<1>5. Lexed(Len(source), 1, "normal", None, << >>, "on", Excusable)
  BY <1>2, <1>3, <1>4, LexedPlain
<1> QED
  BY <1>1, <1>5 DEF LexInv

(* The tokens of a source that is read are the source's, each piece once.  *)
LEMMA LexedDelivers == LexInv => NothingLost
<1> SUFFICES ASSUME LexInv, lexing = "done"
             PROVE  /\ \A k \in DOMAIN tokens :
                          /\ Increasing(tokens[k].at)
                          /\ \A l \in DOMAIN tokens : k < l =>
                                \A i \in Range(tokens[k].at), j \in Range(tokens[l].at) : i < j
                    /\ \A i \in DOMAIN source :
                          \/ i \in Delivered \/ White(i)
                          \/ source[i].kind = "comment" \/ Swallowed(i)
  BY DEF NothingLost, Increasing
<1>1. All(tokens, pending) = tokens /\ position = Len(source) + 1
  BY DEF LexInv, Lexed, All
<1>2. Told(tokens, Len(source) + 1, Excusable)
  BY <1>1 DEF LexInv, Lexed
<1>3. DOMAIN source = 1 .. Len(source) /\ Len(source) \in Nat
  BY SourceIs DEF LexInv
<1>4. ASSUME NEW i \in DOMAIN source
      PROVE  i \in Delivered \/ White(i) \/ source[i].kind = "comment" \/ Swallowed(i)
  <2>1. i \in 1 .. (Len(source) + 1) - 1
    BY <1>3
  <2>2. i \in Excusable \/ \E k \in DOMAIN tokens : i \in Range(tokens[k].at)
    BY <1>2, <2>1 DEF Told
  <2> QED
    BY <2>2 DEF Excusable, Excused, Delivered
<1> QED
  BY <1>2, <1>4 DEF Told

(* The types of what the lexer has.                                        *)
LEMMA LexTypes == LexInv => LexTypeOK
<1> SUFFICES ASSUME LexInv PROVE LexTypeOK
  OBVIOUS
<1> DEFINE ts == All(tokens, pending)
           n == Len(source)
<1>1. /\ DOMAIN source = 1 .. n /\ n \in Nat /\ position \in 1 .. n + 1
      /\ Told(ts, position, Excusable) /\ tokens \in Seq(AnyToken)
      /\ pending \in TagTokens \cup {None}
  BY SourceIs DEF LexInv, Lexed
<1> HIDE DEF n
<1>2. \A k \in DOMAIN ts : ts[k] \in AnyToken /\ Range(ts[k].at) \subseteq 1 .. position - 1
  <2> HIDE DEF ts
  <2> QED
    BY <1>1 DEF Told
<1>3. ASSUME NEW t \in Range(tokens) \cup ({pending} \ {None})
      PROVE  t.tok \in {"text", "expr", "tag"} /\ Range(t.at) \subseteq DOMAIN source
  <2>1. \E k \in DOMAIN ts : ts[k] = t
    <3>1. CASE pending = None
      <4>1. ts = tokens
        BY <3>1 DEF All
      <4> QED
        BY <1>3, <3>1, <4>1 DEF Range
    <3>2. CASE pending # None
      <4>1. ts = Append(tokens, pending)
        BY <3>2 DEF All
      <4>2. /\ DOMAIN ts = 1 .. Len(tokens) + 1 /\ Len(tokens) \in Nat
            /\ DOMAIN tokens = 1 .. Len(tokens)
            /\ \A k \in 1 .. Len(tokens) : ts[k] = tokens[k]
            /\ ts[Len(tokens) + 1] = pending
        BY <1>1, <4>1
      <4> HIDE DEF ts
      <4>3. CASE t = pending
        <5>1. Len(tokens) + 1 \in DOMAIN ts
          BY <4>2
        <5> QED
          BY <4>2, <4>3, <5>1
      <4>4. CASE t \in Range(tokens)
        <5>1. PICK k \in DOMAIN tokens : t = tokens[k]
          BY <4>4 DEF Range
        <5>2. k \in DOMAIN ts /\ ts[k] = t
          BY <4>2, <5>1
        <5> QED
          BY <5>2
      <4> QED
        BY <1>3, <4>3, <4>4
    <3> QED
      BY <3>1, <3>2
  <2> HIDE DEF ts
  <2>2. t \in AnyToken /\ Range(t.at) \subseteq 1 .. position - 1
    BY <1>2, <2>1
  <2>3. 1 .. position - 1 \subseteq DOMAIN source
    BY <1>1
  <2> QED
    BY <2>2, <2>3, TokenIs
<1>4. position \in 1 .. Len(source) + 1
  BY <1>1 DEF n
<1> QED
  BY <1>3, <1>4 DEF LexTypeOK, LexInv, Lexed

-----------------------------------------------------------------------------
(* The blocks that are open.                                               *)

Block == [kw : STRING, open : Nat, section : Nat]

(* Only the innermost block may be a raw one, and then the parser is right *)
(* after its tag, or after a text that follows it.                         *)
Stacked(st, c, ts) ==
    /\ st \in Seq(Block)
    /\ \A k \in DOMAIN st :
          /\ 1 <= st[k].open /\ st[k].open <= st[k].section /\ st[k].section < c
          /\ st[k].kw \in RawTags =>
                /\ k = Len(st)
                /\ TagAt(ts, st[k].open, st[k].kw)
                /\ \/ c = st[k].open + 1
                   \/ c = st[k].open + 2 /\ ts[st[k].open + 1].tok = "text"

(* One token more in the innermost block: in a raw one, its text.          *)
LEMMA StackStays ==
    ASSUME NEW st, NEW c \in Nat, NEW ts, Stacked(st, c, ts),
           \A k \in DOMAIN st : st[k].kw \in RawTags => c = st[k].open + 1 /\ ts[c].tok = "text"
    PROVE  Stacked(st, c + 1, ts)
<1>1. \A k \in DOMAIN st : st[k] \in Block
  BY DEF Stacked
<1>2. \A k \in DOMAIN st : st[k].open \in Nat /\ st[k].section \in Nat
  BY <1>1 DEF Block
<1> QED
  BY <1>2 DEF Stacked

(* A block more, around which none is raw.                                 *)
LEMMA StackGrows ==
    ASSUME NEW st, NEW c \in Nat, NEW ts, Stacked(st, c, ts),
           \A k \in DOMAIN st : st[k].kw \notin RawTags,
           NEW b \in Block, 1 <= b.open, b.open <= b.section, b.section = c,
           b.kw \in RawTags => b.open = c /\ TagAt(ts, c, b.kw)
    PROVE  Stacked(Append(st, b), c + 1, ts)
<1> DEFINE us == Append(st, b)
<1>1. st \in Seq(Block)
  BY DEF Stacked
<1>2. /\ us \in Seq(Block) /\ Len(us) = Len(st) + 1 /\ Len(st) \in Nat
      /\ DOMAIN us = 1 .. Len(st) + 1 /\ DOMAIN st = 1 .. Len(st)
      /\ \A k \in 1 .. Len(st) : us[k] = st[k]
      /\ us[Len(st) + 1] = b
  BY <1>1
<1> HIDE DEF us
<1>3. ASSUME NEW k \in DOMAIN us
      PROVE  /\ 1 <= us[k].open /\ us[k].open <= us[k].section /\ us[k].section < c + 1
             /\ us[k].kw \in RawTags =>
                   k = Len(us) /\ TagAt(ts, us[k].open, us[k].kw) /\ c + 1 = us[k].open + 1
  <2>1. CASE k = Len(st) + 1
    BY <1>2, <2>1 DEF Block
  <2>2. CASE k # Len(st) + 1
    <3>1. k \in DOMAIN st /\ us[k] = st[k] /\ st[k] \in Block
      BY <1>1, <1>2, <2>2
    <3>2. /\ 1 <= st[k].open /\ st[k].open <= st[k].section /\ st[k].section < c
          /\ st[k].section \in Nat /\ st[k].kw \notin RawTags
      BY <3>1 DEF Stacked, Block
    <3> QED
      BY <3>1, <3>2
  <2> QED
    BY <2>1, <2>2
<1>4. Stacked(us, c + 1, ts)
  BY <1>2, <1>3 DEF Stacked
<1> QED
  BY <1>4 DEF us

(* A block less.                                                           *)
LEMMA StackShrinks ==
    ASSUME NEW st, NEW c \in Nat, NEW ts, Stacked(st, c, ts), st # << >>
    PROVE  /\ Front(st) \in Seq(Block)
           /\ \A k \in DOMAIN Front(st) :
                 k \in DOMAIN st /\ Front(st)[k] = st[k] /\ st[k].kw \notin RawTags
           /\ Stacked(Front(st), c, ts) /\ Stacked(Front(st), c + 1, ts)
<1>1. st \in Seq(Block)
  BY DEF Stacked
<1>2. /\ Front(st) \in Seq(Block) /\ DOMAIN Front(st) = 1 .. Len(st) - 1
      /\ \A k \in 1 .. Len(st) - 1 : Front(st)[k] = st[k]
      /\ DOMAIN st = 1 .. Len(st) /\ Len(st) \in Nat
  BY <1>1 DEF Front
<1>3. ASSUME NEW k \in DOMAIN Front(st)
      PROVE  /\ k \in DOMAIN st /\ Front(st)[k] = st[k] /\ k # Len(st)
             /\ st[k].kw \notin RawTags
  <2>1. k \in DOMAIN st /\ Front(st)[k] = st[k] /\ k # Len(st)
    BY <1>2
  <2> QED
    BY <2>1 DEF Stacked
<1>4. Stacked(Front(st), c, ts)
  BY <1>2, <1>3 DEF Stacked
<1>5. Stacked(Front(st), c + 1, ts)
  BY <1>3, <1>4, StackStays
<1> QED
  BY <1>2, <1>3, <1>4, <1>5

(* A raw block ends with the tag the lexer looked for.                     *)
LEMMA RawEndTag ==
    ASSUME NEW kw \in RawTags
    PROVE  EndTag(kw) = RawEnd(kw) /\ EndTag(kw) # "endblock"
<1>1. "raw" \in DOMAIN BlockEnd /\ BlockEnd["raw"] = "endraw"
  BY DEF BlockEnd
<1>2. "verbatim" \in DOMAIN BlockEnd /\ BlockEnd["verbatim"] = "endverbatim"
  BY DEF BlockEnd
<1> QED
  BY <1>1, <1>2 DEF EndTag, RawEnd, RawTags

(* No tag begins a part of a raw block.                                    *)
LEMMA RawHasNoParts ==
    ASSUME NEW block, block.kw \in RawTags
    PROVE  MayFollow(block) = {}
<1>1. block.kw \notin Conditions /\ block.kw \notin Loops /\ block.kw # "switch"
  BY DEF RawTags, Conditions, Loops
<1> QED
  BY <1>1, Zenon DEF MayFollow

-----------------------------------------------------------------------------
(* The parser.                                                             *)

(* The invariant of the parser: it waits for the lexer to be done.         *)
ParseInv ==
    /\ cursor \in 1 .. Len(tokens) + 1
    /\ Stacked(stack, cursor, tokens)
    /\ \E S : ast \in Seq(S)
    /\ Len(ast) = cursor - 1
    /\ outcome \in {"on", "ok", "error", "panic"}
    /\ lexing # "done" => cursor = 1 /\ stack = << >> /\ outcome = "on"
    /\ outcome # "on" => ~In(RawTags)

IInv == LexInv /\ ParseInv

(* What a turn of the parser's loop finds.                                 *)
LEMMA ParsingNow ==
    ASSUME IInv, Parsing
    PROVE  /\ tokens \in Seq(AnyToken) /\ Len(tokens) \in Nat
           /\ cursor \in 1 .. Len(tokens) + 1 /\ cursor \in Nat \ {0}
           /\ RawsPaired(tokens, "normal")
           /\ Stacked(stack, cursor, tokens)
           /\ lexing = "done" /\ outcome = "on"
<1>1. All(tokens, pending) = tokens
  BY DEF IInv, LexInv, Lexed, Parsing, All
<1>2. tokens \in Seq(AnyToken) /\ RawsPaired(tokens, "normal")
  BY <1>1 DEF IInv, LexInv, Lexed, Parsing
<1>3. cursor \in 1 .. Len(tokens) + 1 /\ Stacked(stack, cursor, tokens)
  BY DEF IInv, ParseInv
<1>4. Len(tokens) \in Nat /\ cursor \in Nat \ {0}
  BY <1>2, <1>3
<1> QED
  BY <1>2, <1>3, <1>4 DEF Parsing

(* In a raw block: its tag, its end and where the parser is.               *)
LEMMA RawNow ==
    ASSUME IInv, Parsing, In(RawTags)
    PROVE  /\ Top \in Block /\ Top.kw \in RawTags
           /\ \/ cursor = Top.open + 1 /\ TagAt(tokens, cursor, RawEnd(Top.kw))
              \/ /\ cursor = Top.open + 1
                 /\ cursor \in DOMAIN tokens /\ tokens[cursor].tok = "text"
              \/ cursor = Top.open + 2 /\ TagAt(tokens, cursor, RawEnd(Top.kw))
<1>1. /\ RawsPaired(tokens, "normal") /\ Stacked(stack, cursor, tokens)
  BY ParsingNow
<1>2. Len(stack) \in DOMAIN stack /\ stack[Len(stack)] = Top /\ Top \in Block
  <2>1. stack \in Seq(Block) /\ stack # << >>
    BY <1>1 DEF Stacked, In
  <2>2. Len(stack) \in DOMAIN stack
    BY <2>1
  <2> QED
    BY <2>1, <2>2 DEF Top, Last
<1>3. Top.kw \in RawTags /\ Top.open \in Nat
  BY <1>2 DEF In, Block
<1>4. /\ TagAt(tokens, Top.open, Top.kw)
      /\ \/ cursor = Top.open + 1
         \/ cursor = Top.open + 2 /\ tokens[Top.open + 1].tok = "text"
  BY <1>1, <1>2, <1>3 DEF Stacked
<1>5. "normal" # Top.kw
  BY <1>3 DEF RawTags
<1>6. \/ TagAt(tokens, Top.open + 1, RawEnd(Top.kw))
      \/ /\ Top.open + 1 \in DOMAIN tokens /\ tokens[Top.open + 1].tok = "text"
         /\ TagAt(tokens, Top.open + 2, RawEnd(Top.kw))
  BY <1>1, <1>3, <1>4, <1>5 DEF RawsPaired, TagAt
<1>7. ASSUME tokens[Top.open + 1].tok = "text" PROVE ~TagAt(tokens, Top.open + 1, RawEnd(Top.kw))
  BY <1>7 DEF TagAt
<1> QED
  BY <1>2, <1>3, <1>4, <1>6, <1>7

(* Elsewhere no open block is raw.                                         *)
LEMMA OutsideRaw ==
    ASSUME Stacked(stack, cursor, tokens), ~In(RawTags)
    PROVE  \A k \in DOMAIN stack : stack[k].kw \notin RawTags
<1>1. stack # << >> => Top.kw \notin RawTags
  BY DEF In
<1>2. \A k \in DOMAIN stack : k = Len(stack) => stack # << >> /\ stack[k] = Top
  BY DEF Stacked, Top, Last
<1> QED
  BY <1>1, <1>2 DEF Stacked

(* What a step that takes a token leaves.                                  *)
LEMMA TakenSound ==
    ASSUME IInv, More, Taken, Stacked(stack', cursor + 1, tokens)
    PROVE  IInv'
<1>1. Parsing /\ cursor <= Len(tokens)
  BY DEF More
<1>2. /\ Len(tokens) \in Nat /\ cursor \in Nat \ {0} /\ lexing = "done" /\ outcome = "on"
  BY <1>1, ParsingNow
<1>3. /\ cursor' = cursor + 1 /\ outcome' = outcome
      /\ source' = source /\ opts' = opts /\ position' = position /\ mode' = mode
      /\ pending' = pending /\ strip' = strip /\ trimNewline' = trimNewline
      /\ tokens' = tokens /\ lexing' = lexing
      /\ \E v : ast' = Append(ast, v)
  BY DEF Taken, input, lexer, flags
<1>4. PICK v : ast' = Append(ast, v)
  BY <1>3
<1>5. PICK S : ast \in Seq(S)
  BY DEF IInv, ParseInv
<1>6. Len(ast) = cursor - 1
  BY DEF IInv, ParseInv
<1>7. ast' \in Seq(S \cup {v}) /\ Len(ast') = Len(ast) + 1
  <2>1. ast \in Seq(S \cup {v})
    BY <1>5
  <2> QED
    BY <1>4, <2>1
<1>8. Len(ast') = cursor' - 1
  BY <1>2, <1>3, <1>6, <1>7
<1>9. cursor' \in 1 .. Len(tokens) + 1
  BY <1>1, <1>2, <1>3
<1>10. ParseInv'
  BY <1>2, <1>3, <1>7, <1>8, <1>9 DEF ParseInv
<1>11. LexInv'
  <2>1. Excusable' = Excusable
    BY <1>3, ExcusableStays
  <2> QED
    BY <1>3, <2>1 DEF IInv, LexInv
<1> QED
  BY <1>10, <1>11 DEF IInv

(* What a step that ends the parse leaves.                                 *)
LEMMA EndedSound ==
    ASSUME IInv, Parsing, ~In(RawTags),
           outcome' \in {"ok", "error", "panic"},
           UNCHANGED <<cursor, stack, ast, input, lexer>>
    PROVE  IInv'
<1>1. /\ cursor' = cursor /\ stack' = stack /\ ast' = ast
      /\ source' = source /\ opts' = opts /\ position' = position /\ mode' = mode
      /\ pending' = pending /\ strip' = strip /\ trimNewline' = trimNewline
      /\ tokens' = tokens /\ lexing' = lexing /\ lexing = "done"
  BY DEF input, lexer, flags, Parsing
<1>2. Excusable' = Excusable
  BY <1>1, ExcusableStays
<1>3. LexInv'
  BY <1>1, <1>2 DEF IInv, LexInv
<1>4. ~In(RawTags)'
  BY <1>1 DEF In, Top
<1>5. ParseInv'
  BY <1>1, <1>4 DEF IInv, ParseInv
<1> QED
  BY <1>3, <1>5 DEF IInv

(* ParseLeaf.                                                              *)
LEMMA LeafSound == IInv /\ ParseLeaf => IInv'
<1> SUFFICES ASSUME IInv, ParseLeaf PROVE IInv'
  OBVIOUS
<1>1. /\ More /\ Parsing /\ Taken /\ stack' = stack
      /\ AtNode \/ AtRawText
  BY DEF ParseLeaf, More
<1>2. cursor \in Nat /\ Stacked(stack, cursor, tokens)
  BY <1>1, ParsingNow
<1>3. \A k \in DOMAIN stack :
         stack[k].kw \in RawTags => cursor = stack[k].open + 1 /\ tokens[cursor].tok = "text"
  <2>1. CASE ~In(RawTags)
    BY <1>2, <2>1, OutsideRaw
  <2>2. CASE In(RawTags)
    <3>1. cursor = Top.open + 1 /\ tokens[cursor].tok = "text"
      BY <1>1, <2>2 DEF AtNode, AtRawText, Token, RawTags
    <3>2. \A k \in DOMAIN stack : stack[k].kw \in RawTags => stack[k] = Top
      BY <1>2 DEF Stacked, Top, Last
    <3> QED
      BY <3>1, <3>2
  <2> QED
    BY <2>1, <2>2
<1>4. Stacked(stack', cursor + 1, tokens)
  BY <1>1, <1>2, <1>3, StackStays
<1> QED
  BY <1>1, <1>4, TakenSound

(* OpenBlock.                                                              *)
LEMMA OpenSound == IInv /\ OpenBlock => IInv'
<1> SUFFICES ASSUME IInv, OpenBlock PROVE IInv'
  OBVIOUS
<1> DEFINE b == [kw |-> Keyword, open |-> cursor, section |-> cursor]
<1>1. /\ More /\ Parsing /\ Taken /\ stack' = Append(stack, b)
      /\ ~In(RawTags) /\ Token.tok = "tag" /\ cursor <= Len(tokens)
  BY DEF OpenBlock, More, AtNode, RawTags, IsOpening
<1>2. /\ cursor \in Nat \ {0} /\ Stacked(stack, cursor, tokens)
      /\ tokens \in Seq(AnyToken) /\ Len(tokens) \in Nat
  BY <1>1, ParsingNow
<1>3. \A k \in DOMAIN stack : stack[k].kw \notin RawTags
  BY <1>1, <1>2, OutsideRaw
<1>4. cursor \in DOMAIN tokens /\ tokens[cursor] \in AnyToken
  BY <1>1, <1>2
<1>5. Keyword = tokens[cursor].body.kw /\ Keyword \in STRING /\ TagAt(tokens, cursor, Keyword)
  <2>1. tokens[cursor].tok = "tag" /\ tokens[cursor].body \in Body
    BY <1>1, <1>4, TokenIs DEF Token
  <2> QED
    BY <1>4, <2>1 DEF Keyword, Token, TagAt, Body
<1>6. /\ b \in Block /\ 1 <= b.open /\ b.open <= b.section /\ b.section = cursor
      /\ b.open = cursor /\ b.kw = Keyword
  BY <1>2, <1>5 DEF Block
<1> HIDE DEF b
<1>7. b.kw \in RawTags => b.open = cursor /\ TagAt(tokens, cursor, b.kw)
  BY <1>5, <1>6
<1>8. Stacked(Append(stack, b), cursor + 1, tokens)
  BY <1>2, <1>3, <1>6, <1>7, StackGrows
<1> QED
  BY <1>1, <1>8, TakenSound

(* NextSection.                                                            *)
LEMMA SectionSound == IInv /\ NextSection => IInv'
<1> SUFFICES ASSUME IInv, NextSection PROVE IInv'
  OBVIOUS
<1> DEFINE b == [Top EXCEPT !.section = cursor]
<1>1. /\ More /\ Parsing /\ Taken /\ stack' = Append(Front(stack), b)
      /\ stack # << >> /\ Keyword \in MayFollow(Top)
  BY DEF NextSection, More, AtSection
<1>2. cursor \in Nat \ {0} /\ Stacked(stack, cursor, tokens)
  BY <1>1, ParsingNow
<1>3. Top.kw \notin RawTags
  BY <1>1, RawHasNoParts
<1>4. Top \in Block /\ 1 <= Top.open /\ Top.open <= Top.section /\ Top.section < cursor
  <2>1. stack \in Seq(Block)
    BY <1>2 DEF Stacked
  <2>2. Len(stack) \in DOMAIN stack
    BY <1>1, <2>1
  <2> QED
    BY <1>2, <2>1, <2>2 DEF Top, Last, Stacked
<1>5. /\ b \in Block /\ b.kw = Top.kw /\ b.open = Top.open /\ b.section = cursor
      /\ b.open \in Nat
  BY <1>2, <1>4 DEF Block
<1> HIDE DEF b
<1>6. 1 <= b.open /\ b.open <= b.section
  <2>1. Top.open \in Nat /\ Top.section \in Nat
    BY <1>4 DEF Block
  <2> QED
    BY <1>2, <1>4, <1>5, <2>1
<1>7. /\ Stacked(Front(stack), cursor, tokens)
      /\ \A k \in DOMAIN Front(stack) : Front(stack)[k].kw \notin RawTags
  BY <1>1, <1>2, StackShrinks
<1>8. Stacked(Append(Front(stack), b), cursor + 1, tokens)
  BY <1>2, <1>3, <1>5, <1>6, <1>7, StackGrows
<1> QED
  BY <1>1, <1>8, TakenSound

(* CloseBlock.                                                             *)
LEMMA CloseSound == IInv /\ CloseBlock => IInv'
<1> SUFFICES ASSUME IInv, CloseBlock PROVE IInv'
  OBVIOUS
<1>1. More /\ Parsing /\ Taken /\ stack' = Front(stack) /\ stack # << >>
  BY DEF CloseBlock, More, AtEnd
<1>2. cursor \in Nat /\ Stacked(stack, cursor, tokens)
  BY <1>1, ParsingNow
<1>3. Stacked(stack', cursor + 1, tokens)
  BY <1>1, <1>2, StackShrinks
<1> QED
  BY <1>1, <1>3, TakenSound

(* Reject: not in a raw block.                                             *)
LEMMA RejectSound == IInv /\ Reject => IInv'
<1> SUFFICES ASSUME IInv, Reject PROVE IInv'
  OBVIOUS
<1>1. /\ More /\ Parsing /\ outcome' = "error"
      /\ UNCHANGED <<cursor, stack, ast, input, lexer>>
  BY DEF Reject, More
<1>2. ASSUME In(RawTags) PROVE FALSE
  <2>1. ~AtNode
    BY <1>2 DEF AtNode, RawTags
  <2>2. /\ Top.kw \in RawTags
        /\ \/ TagAt(tokens, cursor, RawEnd(Top.kw))
           \/ cursor = Top.open + 1 /\ tokens[cursor].tok = "text"
    BY <1>1, <1>2, RawNow
  <2>3. ~AtSection
    BY <2>2, RawHasNoParts DEF AtSection
  <2>4. (AtEnd /\ ~NameRepeated) \/ (~AtEnd /\ ~AtRawText)
    BY <2>1, <2>3 DEF Reject
  <2>5. stack # << >> /\ EndTag(Top.kw) = RawEnd(Top.kw) /\ EndTag(Top.kw) # "endblock"
    BY <1>2, <2>2, RawEndTag DEF In
  <2>6. AtEnd => NameRepeated
    BY <2>5 DEF AtEnd, NameRepeated
  <2>7. TagAt(tokens, cursor, RawEnd(Top.kw)) => AtEnd
    BY <2>5 DEF AtEnd, Keyword, Token, TagAt
  <2>8. cursor = Top.open + 1 /\ tokens[cursor].tok = "text" => AtRawText
    BY <1>2 DEF AtRawText, Token, RawTags
  <2> QED
    BY <2>2, <2>4, <2>6, <2>7, <2>8
<1> QED
  BY <1>1, <1>2, EndedSound

(* Finish: not in a raw block, whose end is a token.                       *)
LEMMA FinishSound == IInv /\ Finish => IInv'
<1> SUFFICES ASSUME IInv, Finish PROVE IInv'
  OBVIOUS
<1>1. /\ Parsing /\ cursor > Len(tokens)
      /\ UNCHANGED <<cursor, stack, ast, input, lexer>>
  BY DEF Finish
<1>2. outcome' \in {"ok", "error", "panic"}
  <2>1. outcome' = CASE stack = << >>    -> "ok"
                     [] In({"block"})    -> "panic"
                     [] OTHER            -> "error"
    BY DEF Finish
  <2> QED
    BY <2>1, Zenon
<1>3. ~In(RawTags)
  <2>1. In(RawTags) => cursor \in DOMAIN tokens
    BY <1>1, RawNow DEF TagAt
  <2>2. cursor \notin DOMAIN tokens
    BY <1>1, ParsingNow
  <2> QED
    BY <2>1, <2>2
<1> QED
  BY <1>1, <1>2, <1>3, EndedSound

(* Before the lexer is done the parser does nothing.                       *)
LEMMA LexingSound == IInv /\ Lexing => IInv'
<1> SUFFICES ASSUME IInv, Lexing PROVE IInv'
  OBVIOUS
<1>1. LexNext /\ cursor' = cursor /\ stack' = stack /\ ast' = ast /\ outcome' = outcome
  BY DEF Lexing, parser
<1>2. LexInv'
  BY <1>1, LexStep DEF IInv
<1>3. lexing # "done"
  BY <1>1 DEF LexNext, RestIsText, SkipComment, TakeTag, TakeVariable, TextBefore, TakeRaw,
              TakePending, Unclosed, EndOfInput, At, Normal, Reading
<1>4. /\ cursor = 1 /\ stack = << >> /\ outcome = "on" /\ Len(ast) = cursor - 1
      /\ \E S : ast \in Seq(S)
  BY <1>3 DEF IInv, ParseInv
<1>5. tokens' \in Seq(AnyToken)
  BY <1>2 DEF LexInv, Lexed
<1>6. cursor' \in 1 .. Len(tokens') + 1
  BY <1>1, <1>4, <1>5
<1>7. Stacked(stack', cursor', tokens')
  BY <1>1, <1>4 DEF Stacked
<1>8. ParseInv'
  BY <1>1, <1>4, <1>6, <1>7 DEF ParseInv
<1> QED
  BY <1>2, <1>8 DEF IInv

(* A step that changes nothing.                                            *)
LEMMA StutterSound == IInv /\ UNCHANGED vars => IInv'
<1> SUFFICES ASSUME IInv, UNCHANGED vars PROVE IInv'
  OBVIOUS
<1>1. /\ cursor' = cursor /\ stack' = stack /\ ast' = ast /\ outcome' = outcome
      /\ source' = source /\ opts' = opts /\ position' = position /\ mode' = mode
      /\ pending' = pending /\ strip' = strip /\ trimNewline' = trimNewline
      /\ tokens' = tokens /\ lexing' = lexing
  BY DEF vars, input, lexer, flags, parser
<1>2. Excusable' = Excusable
  BY <1>1, ExcusableStays
<1>3. LexInv'
  BY <1>1, <1>2 DEF IInv, LexInv
<1>4. In(RawTags)' <=> In(RawTags)
  BY <1>1 DEF In, Top
<1>5. ParseInv'
  BY <1>1, <1>4 DEF IInv, ParseInv
<1> QED
  BY <1>3, <1>5 DEF IInv

(* The invariant at first.                                                 *)
LEMMA InitSound == Init => IInv
<1> SUFFICES ASSUME Init PROVE IInv
  OBVIOUS
<1>1. PICK given \in Inputs : LexInit(given.source, given.opts) /\ ParseInit(given.registry)
  BY DEF Init
<1>2. given.source \in Seq(Piece) /\ given.opts \in Options
  BY InputsAreSources
<1>3. LexInv
  BY <1>1, <1>2, LexStart
<1>4. cursor = 1 /\ stack = << >> /\ ast = << >> /\ outcome = "on" /\ tokens = << >>
  BY <1>1 DEF ParseInit, LexInit
<1>5. Stacked(<< >>, 1, tokens)
  BY DEF Stacked
<1>6. ast \in Seq({}) /\ Len(ast) = 0
  BY <1>4
<1>7. ParseInv
  BY <1>4, <1>5, <1>6 DEF ParseInv
<1> QED
  BY <1>3, <1>7 DEF IInv

(* The invariant of the front end.                                         *)
THEOREM Inductive == Spec => []IInv
<1>1. Init => IInv
  BY InitSound
<1>2. IInv /\ [Next]_vars => IInv'
  BY LexingSound, LeafSound, OpenSound, SectionSound, CloseSound, RejectSound, FinishSound,
     StutterSound DEF Next, ParseNext
<1> QED
  BY <1>1, <1>2, PTL DEF Spec

-----------------------------------------------------------------------------
(* For every source, options and registry: positions, tokens and open      *)
(* blocks are what they should be.                                         *)
THEOREM TypeCorrect == Spec => []TypeOK
<1>1. IInv => TypeOK
  <2> SUFFICES ASSUME IInv PROVE TypeOK
    OBVIOUS
  <2>1. LexTypeOK
    BY LexTypes DEF IInv
  <2>2. \A block \in {stack[k] : k \in DOMAIN stack} :
            1 <= block.open /\ block.open <= block.section /\ block.section < cursor
    BY DEF IInv, ParseInv, Stacked
  <2> QED
    BY <2>1, <2>2 DEF TypeOK, IInv, ParseInv
<1> QED
  BY <1>1, Inductive, PTL

(* For every source, whatever the options: each piece is delivered once    *)
(* and in order, or is whitespace, a comment or inside an unclosed region. *)
THEOREM DeliveredOnce == Spec => []NothingLost
<1>1. IInv => NothingLost
  BY LexedDelivers DEF IInv
<1> QED
  BY <1>1, Inductive, PTL

(* For every source and registry: what the lexer takes for the text of a   *)
(* raw block the parser takes for it too, and finds its end.               *)
THEOREM RawsAgree == Spec => []RawNeverFails
<1>1. IInv => RawNeverFails
  BY DEF IInv, ParseInv, RawNeverFails, RawTags
<1> QED
  BY <1>1, Inductive, PTL

-----------------------------------------------------------------------------
(* Extension tags: what the parser makes of the templates that the parse   *)
(* caches know by their shape.                                             *)

Others == Tags \ Reserved

(* A tag no built-in statement claims.                                     *)
OtherTag(ts, j) == j \in DOMAIN ts /\ ts[j].tok = "tag" /\ ts[j].body.kw \in Others

(* A tag alone, or a tag, a text and a tag.                                *)
Shaped(ts) ==
    /\ ts \in Seq(AnyToken)
    /\ Len(ts) \in {1, 3}
    /\ OtherTag(ts, 1)
    /\ Len(ts) = 3 => ts[2].tok = "text" /\ OtherTag(ts, 3)

(* What the parser makes of such a tag.                                    *)
LEMMA OtherIs ==
    ASSUME NEW t, t.tok = "tag", t.body.kw \in Others
    PROVE  /\ HeaderOK(t)
           /\ EndTag(t.body.kw) = registry.tags[t.body.kw].end
           /\ Extension(t.body.kw) <=> OpensExtension(registry, t.body.kw)
           /\ IsLeaf(t) <=> Extension(t.body.kw) /\ EndTag(t.body.kw) = NoTag
           /\ IsOpening(t) <=> Extension(t.body.kw) /\ EndTag(t.body.kw) # NoTag
<1> DEFINE kw == t.body.kw
<1>1. kw \notin Builtin
  BY ReservedIsBuiltin DEF Others
<1>2. kw \notin DOMAIN BlockEnd /\ kw \notin Sections /\ kw \notin Simple
  BY <1>1 DEF Builtin
<1>3. /\ kw \notin Conditions /\ kw \notin Loops
      /\ kw \notin {"block", "filter", "macro", "set", "call", "switch"}
  BY <1>2 DEF BlockEnd, Conditions, Loops
<1>4. kw \notin {"import", "from", "elif", "elseif", "case"}
  BY <1>2 DEF Simple, Sections
<1>5. HeaderOK(t)
  <2>1. NamesOK(t.body)
    BY <1>3, <1>4 DEF NamesOK
  <2>2. ~NeedsExpression(t)
    BY <1>2, <1>3, <1>4 DEF NeedsExpression
  <2> QED
    BY <2>1, <2>2 DEF HeaderOK
<1>6. EndTag(kw) = registry.tags[kw].end
  BY <1>2 DEF EndTag
<1>7. Extension(kw) <=> OpensExtension(registry, kw)
  BY DEF Extension, Others
<1>8. IsLeaf(t) <=> Extension(kw) /\ EndTag(kw) = NoTag
  BY <1>2, <1>3 DEF IsLeaf
<1>9. IsOpening(t) <=> Extension(kw) /\ EndTag(kw) # NoTag
  BY <1>2, <1>3 DEF IsOpening
<1> QED
  BY <1>5, <1>6, <1>7, <1>8, <1>9

(* Such a block has one part, and anything may be in it.                   *)
LEMMA OtherBlock ==
    ASSUME NEW block, block.kw \in Others
    PROVE  /\ MayFollow(block) = {}
           /\ block.kw \notin {"raw", "verbatim"} /\ block.kw \notin {"switch"}
<1>1. block.kw \notin Builtin
  BY ReservedIsBuiltin DEF Others
<1>2. block.kw \notin DOMAIN BlockEnd
  BY <1>1 DEF Builtin
<1>3. /\ block.kw \notin Conditions /\ block.kw \notin Loops /\ block.kw # "switch"
      /\ block.kw \notin {"raw", "verbatim"}
  BY <1>2 DEF BlockEnd, Conditions, Loops
<1>4. MayFollow(block) = {}
  BY <1>3, Zenon DEF MayFollow
<1> QED
  BY <1>3, <1>4

(* The first tag, its block, and which of these templates the parse caches *)
(* take to be accepted.                                                    *)
Opens == tokens[1].body.kw

OtherTop == [kw |-> Opens, open |-> 1, section |-> 1]

Inside == IF EndTag(Opens) = NoTag THEN << >> ELSE <<OtherTop>>

Accepted ==
    /\ Extension(Opens)
    /\ IF Len(tokens) = 1 THEN EndTag(Opens) = NoTag
       ELSE LET closes == tokens[3].body.kw
            IN  \/ closes = EndTag(Opens)
                \/ EndTag(Opens) = NoTag /\ Extension(closes) /\ EndTag(closes) = NoTag

(* The parse caches take these to be accepted.                             *)
LEMMA AcceptedIsParses ==
    ASSUME Shaped(tokens)
    PROVE  Accepted <=> Parses(registry, ShapeOfTokens)
<1>1. /\ Len(tokens) \in {1, 3} /\ tokens[1].tok = "tag" /\ Opens \in Others
      /\ Len(tokens) = 3 =>
            tokens[2].tok = "text" /\ tokens[3].tok = "tag" /\ tokens[3].body.kw \in Others
  BY DEF Shaped, OtherTag, Opens
<1>2. Opens # NoTag /\ (Extension(Opens) <=> OpensExtension(registry, Opens))
  BY <1>1, TagConstants, OtherIs DEF Others, Opens
<1>3. EndTag(Opens) = registry.tags[Opens].end
  BY <1>1, OtherIs DEF Opens
<1>4. CASE Len(tokens) = 1
  <2>1. Len(tokens) # 3
    BY <1>4
  <2>2. ShapeOfTokens = [open |-> Opens, close |-> NoTag]
    BY <1>1, <1>4, <2>1, Zenon DEF ShapeOfTokens, Opens
  <2>3. ShapeOfTokens.open = Opens /\ ShapeOfTokens.close = NoTag
    BY <2>2
  <2> QED
    BY <1>2, <1>3, <1>4, <2>3 DEF Accepted, Parses
<1>5. CASE Len(tokens) = 3
  <2> DEFINE closes == tokens[3].body.kw
  <2>1. Len(tokens) # 1
    BY <1>5
  <2>2. ShapeOfTokens = [open |-> Opens, close |-> closes]
    BY <1>1, <1>5, <2>1, Zenon DEF ShapeOfTokens, Opens
  <2>3. ShapeOfTokens.open = Opens /\ ShapeOfTokens.close = closes
    BY <2>2
  <2>4. /\ EndTag(closes) = registry.tags[closes].end
        /\ Extension(closes) <=> OpensExtension(registry, closes)
    BY <1>1, <1>5, OtherIs
  <2> QED
    BY <1>2, <1>3, <2>1, <2>3, <2>4 DEF Accepted, Parses
<1> QED
  BY <1>1, <1>4, <1>5

(* Where the parser is in such a template, and how it ends.                *)
ShapeOK(c, st, out) ==
    /\ out = "on" =>
          /\ c = 1 => st = << >>
          /\ c # 1 => Extension(Opens)
          /\ c \in {2, 3} => st = Inside
          /\ c = 4 => (st = << >> <=> Accepted)
    /\ out # "on" => (out = "ok" <=> Accepted)

ShapeInv == lexing = "done" /\ Shaped(tokens) => ShapeOK(cursor, stack, outcome)

(* Outside blocks, or in one of an extension that does not end here, any   *)
(* token is a node.                                                        *)
LEMMA AnyNode ==
    ASSUME stack = << >> \/ stack = <<OtherTop>>, Opens \in Others, ~AtEnd
    PROVE  AtNode /\ ~AtSection /\ ~AtRawText
<1>1. CASE stack = << >>
  BY <1>1 DEF AtNode, AtSection, AtRawText, In
<1>2. CASE stack = <<OtherTop>>
  <2>1. Top = OtherTop
    BY <1>2 DEF Top, Last
  <2>2. Top.kw \in Others
    BY <2>1 DEF OtherTop
  <2>3. /\ MayFollow(Top) = {}
        /\ Top.kw \notin {"raw", "verbatim"} /\ Top.kw \notin {"switch"}
    BY <2>2, OtherBlock
  <2> QED
    BY <2>3 DEF AtNode, AtSection, AtRawText, In
<1> QED
  BY <1>1, <1>2

(* What may be done with a node.                                           *)
LEMMA NodeSteps ==
    ASSUME ParseNext, ~Finish, AtNode, ~AtSection, ~AtEnd, ~AtRawText, HeaderOK(Token)
    PROVE  \/ /\ IsLeaf(Token)
              /\ cursor' = cursor + 1 /\ stack' = stack /\ outcome' = outcome
           \/ /\ IsOpening(Token)
              /\ cursor' = cursor + 1 /\ outcome' = outcome
              /\ stack' = Append(stack, [kw |-> Keyword, open |-> cursor, section |-> cursor])
           \/ /\ ~IsLeaf(Token) /\ ~IsOpening(Token)
              /\ outcome' = "error"
<1>1. ~NextSection /\ ~CloseBlock
  BY DEF NextSection, CloseBlock
<1>2. CASE ParseLeaf
  BY <1>2 DEF ParseLeaf, Taken
<1>3. CASE OpenBlock
  BY <1>3 DEF OpenBlock, Taken
<1>4. CASE Reject
  BY <1>4 DEF Reject
<1> QED
  BY <1>1, <1>2, <1>3, <1>4 DEF ParseNext

(* The tags of the template have no header to get wrong.                   *)
LEMMA ShapedTokens ==
    ASSUME Shaped(tokens)
    PROVE  /\ Len(tokens) \in {1, 3} /\ Opens \in Others
           /\ tokens[1].tok = "tag" /\ HeaderOK(tokens[1])
           /\ Len(tokens) = 3 =>
                 /\ tokens[2].tok = "text" /\ HeaderOK(tokens[2]) /\ IsLeaf(tokens[2])
                 /\ tokens[3].tok = "tag" /\ HeaderOK(tokens[3])
                 /\ tokens[3].body.kw \in Others
<1>1. /\ Len(tokens) \in {1, 3} /\ tokens[1].tok = "tag" /\ Opens \in Others
      /\ Len(tokens) = 3 =>
            tokens[2].tok = "text" /\ tokens[3].tok = "tag" /\ tokens[3].body.kw \in Others
  BY DEF Shaped, OtherTag, Opens
<1>2. HeaderOK(tokens[1])
  BY <1>1, OtherIs DEF Opens
<1>3. ASSUME Len(tokens) = 3
      PROVE  HeaderOK(tokens[2]) /\ IsLeaf(tokens[2]) /\ HeaderOK(tokens[3])
  <2>1. HeaderOK(tokens[3])
    BY <1>1, <1>3, OtherIs
  <2>2. HeaderOK(tokens[2]) /\ IsLeaf(tokens[2])
    BY <1>1, <1>3 DEF HeaderOK, NeedsExpression, IsLeaf
  <2> QED
    BY <2>1, <2>2
<1> QED
  BY <1>1, <1>2, <1>3

(* The first tag.                                                          *)
LEMMA FirstStep ==
    ASSUME Shaped(tokens), ShapeOK(cursor, stack, outcome), outcome = "on",
           ParseNext, ~Finish, cursor = 1
    PROVE  ShapeOK(cursor', stack', outcome')
<1>1. /\ Opens \in Others /\ Token = tokens[1] /\ Token.tok = "tag" /\ HeaderOK(Token)
      /\ Keyword = Opens
  BY ShapedTokens DEF Token, Keyword, Opens
<1>2. stack = << >>
  BY DEF ShapeOK
<1>3. ~AtEnd
  BY <1>2 DEF AtEnd
<1>4. AtNode /\ ~AtSection /\ ~AtRawText
  BY <1>1, <1>2, <1>3, AnyNode
<1>5. \/ /\ IsLeaf(Token)
         /\ cursor' = cursor + 1 /\ stack' = stack /\ outcome' = outcome
      \/ /\ IsOpening(Token)
         /\ cursor' = cursor + 1 /\ outcome' = outcome
         /\ stack' = Append(stack, [kw |-> Keyword, open |-> cursor, section |-> cursor])
      \/ /\ ~IsLeaf(Token) /\ ~IsOpening(Token)
         /\ outcome' = "error"
  BY <1>1, <1>3, <1>4, NodeSteps
<1>6. /\ IsLeaf(Token) <=> Extension(Opens) /\ EndTag(Opens) = NoTag
      /\ IsOpening(Token) <=> Extension(Opens) /\ EndTag(Opens) # NoTag
  BY <1>1, OtherIs DEF Keyword, Opens
<1>7. CASE IsLeaf(Token) /\ cursor' = cursor + 1 /\ stack' = stack /\ outcome' = outcome
  BY <1>2, <1>6, <1>7 DEF ShapeOK, Inside
<1>8. CASE /\ IsOpening(Token)
           /\ cursor' = cursor + 1 /\ outcome' = outcome
           /\ stack' = Append(stack, [kw |-> Keyword, open |-> cursor, section |-> cursor])
  <2>1. stack' = <<OtherTop>>
    BY <1>1, <1>2, <1>8 DEF OtherTop
  <2> QED
    BY <1>6, <1>8, <2>1 DEF ShapeOK, Inside
<1>9. CASE ~IsLeaf(Token) /\ ~IsOpening(Token) /\ outcome' = "error"
  <2>1. ~Extension(Opens)
    BY <1>6, <1>9
  <2> QED
    BY <1>9, <2>1 DEF ShapeOK, Accepted
<1> QED
  BY <1>5, <1>7, <1>8, <1>9

(* The text.                                                               *)
LEMMA TextStep ==
    ASSUME Shaped(tokens), ShapeOK(cursor, stack, outcome), outcome = "on",
           ParseNext, ~Finish, cursor = 2, Len(tokens) = 3
    PROVE  ShapeOK(cursor', stack', outcome')
<1>1. /\ Opens \in Others /\ Token = tokens[2] /\ Token.tok = "text"
      /\ HeaderOK(Token) /\ IsLeaf(Token)
  BY ShapedTokens DEF Token
<1>2. stack = Inside /\ Extension(Opens)
  BY DEF ShapeOK
<1>3. stack = << >> \/ stack = <<OtherTop>>
  BY <1>2 DEF Inside
<1>4. ~AtEnd
  BY <1>1 DEF AtEnd
<1>5. AtNode /\ ~AtSection /\ ~AtRawText
  BY <1>1, <1>3, <1>4, AnyNode
<1>6. ~IsOpening(Token)
  BY <1>1 DEF IsOpening
<1>7. cursor' = cursor + 1 /\ stack' = stack /\ outcome' = outcome
  BY <1>1, <1>4, <1>5, <1>6, NodeSteps
<1> QED
  BY <1>2, <1>7 DEF ShapeOK

(* The second tag.                                                         *)
LEMMA SecondStep ==
    ASSUME Shaped(tokens), ShapeOK(cursor, stack, outcome), outcome = "on",
           ParseNext, ~Finish, cursor = 3, Len(tokens) = 3
    PROVE  ShapeOK(cursor', stack', outcome')
<1> DEFINE closes == tokens[3].body.kw
<1>1. /\ Opens \in Others /\ Token = tokens[3] /\ Token.tok = "tag" /\ HeaderOK(Token)
      /\ closes \in Others /\ Keyword = closes
  BY ShapedTokens DEF Token, Keyword
<1>2. stack = Inside /\ Extension(Opens)
  BY DEF ShapeOK
<1>3. /\ IsLeaf(Token) <=> Extension(closes) /\ EndTag(closes) = NoTag
      /\ IsOpening(Token) <=> Extension(closes) /\ EndTag(closes) # NoTag
  BY <1>1, OtherIs
<1>4. closes # NoTag
  BY <1>1, TagConstants DEF Others
<1>5. Accepted <=> \/ closes = EndTag(Opens)
                   \/ EndTag(Opens) = NoTag /\ Extension(closes) /\ EndTag(closes) = NoTag
  BY <1>2 DEF Accepted
<1>6. stack = << >> \/ stack = <<OtherTop>>
  BY <1>2 DEF Inside
<1>7. ASSUME stack = <<OtherTop>> PROVE Top.kw = Opens /\ Front(stack) = << >>
  BY <1>7 DEF Top, Last, Front, OtherTop
<1> HIDE DEF closes
<1>8. CASE AtEnd
  <2>1. stack = <<OtherTop>> /\ closes = EndTag(Opens)
    BY <1>1, <1>6, <1>7, <1>8 DEF AtEnd
  <2>2. ~AtNode /\ ~AtRawText
    BY <1>1, <1>8 DEF AtNode, AtRawText
  <2>3. ~AtSection
    <3>1. MayFollow(Top) = {}
      BY <1>1, <1>7, <2>1, OtherBlock
    <3> QED
      BY <3>1 DEF AtSection
  <2>4. NameRepeated
    <3>1. closes # "endblock"
      <4>1. "endblock" \in Builtin
        <5>1. "block" \in DOMAIN BlockEnd /\ BlockEnd["block"] = "endblock"
          BY DEF BlockEnd
        <5> QED
          BY <5>1 DEF Builtin
      <4> QED
        BY <1>1, <4>1, ReservedIsBuiltin DEF Others
    <3> QED
      BY <1>1, <3>1 DEF NameRepeated
  <2>5. CloseBlock
    BY <1>8, <2>2, <2>3, <2>4 DEF ParseNext, ParseLeaf, OpenBlock, NextSection, Reject
  <2>6. cursor' = cursor + 1 /\ stack' = << >> /\ outcome' = outcome
    BY <1>7, <2>1, <2>5 DEF CloseBlock, Taken
  <2> QED
    BY <1>2, <1>5, <2>1, <2>6 DEF ShapeOK
<1>9. CASE ~AtEnd
  <2>1. AtNode /\ ~AtSection /\ ~AtRawText
    BY <1>1, <1>6, <1>9, AnyNode
  <2>2. \/ /\ IsLeaf(Token)
           /\ cursor' = cursor + 1 /\ stack' = stack /\ outcome' = outcome
        \/ /\ IsOpening(Token)
           /\ cursor' = cursor + 1 /\ outcome' = outcome
           /\ stack' = Append(stack, [kw |-> Keyword, open |-> cursor, section |-> cursor])
        \/ /\ ~IsLeaf(Token) /\ ~IsOpening(Token)
           /\ outcome' = "error"
    BY <1>1, <1>9, <2>1, NodeSteps
  <2>3. EndTag(Opens) = NoTag \/ closes # EndTag(Opens)
    BY <1>1, <1>2, <1>7, <1>9 DEF AtEnd, Inside
  <2>4. Accepted <=> EndTag(Opens) = NoTag /\ IsLeaf(Token)
    BY <1>3, <1>4, <1>5, <2>3
  <2>5. stack = << >> <=> EndTag(Opens) = NoTag
    BY <1>2 DEF Inside
  <2>6. CASE IsLeaf(Token) /\ cursor' = cursor + 1 /\ stack' = stack /\ outcome' = outcome
    BY <1>2, <2>4, <2>5, <2>6 DEF ShapeOK
  <2>7. CASE /\ IsOpening(Token)
             /\ cursor' = cursor + 1 /\ outcome' = outcome
             /\ stack' = Append(stack, [kw |-> Keyword, open |-> cursor, section |-> cursor])
    <3>1. ~IsLeaf(Token)
      BY <1>3, <2>7
    <3>2. stack' # << >>
      BY <1>6, <2>7
    <3> QED
      BY <1>2, <2>4, <2>7, <3>1, <3>2 DEF ShapeOK
  <2>8. CASE ~IsLeaf(Token) /\ ~IsOpening(Token) /\ outcome' = "error"
    BY <2>4, <2>8 DEF ShapeOK
  <2> QED
    BY <2>2, <2>6, <2>7, <2>8
<1> QED
  BY <1>8, <1>9

(* The end of the tokens.                                                  *)
LEMMA LastStep ==
    ASSUME Shaped(tokens), ShapeOK(cursor, stack, outcome), outcome = "on",
           Finish, cursor = Len(tokens) + 1
    PROVE  ShapeOK(cursor', stack', outcome')
<1>1. outcome' = CASE stack = << >>    -> "ok"
                   [] In({"block"})    -> "panic"
                   [] OTHER            -> "error"
  BY DEF Finish
<1>2. stack = << >> => ~In({"block"})
  BY DEF In
<1>3. outcome' \in {"ok", "error", "panic"} /\ (outcome' = "ok" <=> stack = << >>)
  BY <1>1, <1>2, Zenon
<1>4. Len(tokens) \in {1, 3}
  BY ShapedTokens
<1>5. stack = << >> <=> Accepted
  <2>1. CASE Len(tokens) = 1
    <3>1. cursor = 2
      BY <2>1
    <3>2. stack = Inside /\ Extension(Opens)
      BY <3>1 DEF ShapeOK
    <3> QED
      BY <2>1, <3>2 DEF Inside, Accepted
  <2>2. CASE Len(tokens) = 3
    BY <2>2 DEF ShapeOK
  <2> QED
    BY <1>4, <2>1, <2>2
<1> QED
  BY <1>3, <1>5 DEF ShapeOK

(* Every step of the parser.                                               *)
LEMMA ShapeStep ==
    ASSUME IInv, ShapeInv, Shaped(tokens), ParseNext
    PROVE  ShapeOK(cursor', stack', outcome')
<1>1. Parsing /\ lexing = "done" /\ outcome = "on"
  BY DEF ParseNext, ParseLeaf, OpenBlock, NextSection, CloseBlock, Reject, Finish, More, Parsing
<1>2. ShapeOK(cursor, stack, outcome)
  BY <1>1 DEF ShapeInv
<1>3. cursor \in 1 .. Len(tokens) + 1 /\ Len(tokens) \in {1, 3}
  BY <1>1, ParsingNow, ShapedTokens
<1>4. CASE Finish
  <2>1. cursor = Len(tokens) + 1
    BY <1>3, <1>4 DEF Finish
  <2> QED
    BY <1>1, <1>2, <1>4, <2>1, LastStep
<1>5. CASE ~Finish
  <2>1. cursor <= Len(tokens)
    BY <1>5 DEF ParseNext, ParseLeaf, OpenBlock, NextSection, CloseBlock, Reject, More
  <2>2. cursor = 1 \/ (cursor = 2 /\ Len(tokens) = 3) \/ (cursor = 3 /\ Len(tokens) = 3)
    <3>1. CASE Len(tokens) = 1
      <4>1. cursor \in 1 .. 2 /\ cursor <= 1
        BY <1>3, <2>1, <3>1
      <4> QED
        BY <4>1
    <3>2. CASE Len(tokens) = 3
      <4>1. cursor \in 1 .. 4 /\ cursor <= 3
        BY <1>3, <2>1, <3>2
      <4> QED
        BY <3>2, <4>1
    <3> QED
      BY <1>3, <3>1, <3>2
  <2> QED
    BY <1>1, <1>2, <1>5, <2>2, FirstStep, TextStep, SecondStep
<1> QED
  BY <1>4, <1>5

(* The registry stays as it is, and the tokens once they are there.        *)
LEMMA ShapeStays ==
    ASSUME registry' = registry, tokens' = tokens, NEW c, NEW st, NEW out, ShapeOK(c, st, out),
           cursor' = c, stack' = st, outcome' = out
    PROVE  ShapeOK(cursor, stack, outcome)'
<1>1. EndTag(Opens)' = EndTag(Opens) /\ (Extension(Opens)' <=> Extension(Opens))
  BY DEF EndTag, Extension, Opens
<1>2. Inside' = Inside
  BY <1>1 DEF Inside, OtherTop, Opens
<1>3. Accepted' <=> Accepted
  BY DEF Accepted, EndTag, Extension, Opens
<1> QED
  BY <1>1, <1>2, <1>3 DEF ShapeOK

(* For every registry: the parser makes of extension tags what the parse   *)
(* caches take it to make of them.                                         *)
THEOREM ShapesAgree == Spec => []AgreesWithShapes
<1>1. Init => ShapeInv
  BY DEF Init, LexInit, ShapeInv
<1>2. ASSUME IInv, ShapeInv, [Next]_vars
      PROVE  ShapeInv'
  <2> SUFFICES ASSUME lexing' = "done", Shaped(tokens)'
               PROVE  ShapeOK(cursor, stack, outcome)'
    BY DEF ShapeInv
  <2>1. registry' = registry
    BY <1>2 DEF Next, Lexing, ParseNext, ParseLeaf, OpenBlock, NextSection, CloseBlock, Reject,
                Finish, Taken, vars
  <2>2. CASE Lexing
    <3>1. lexing # "done"
      BY <2>2 DEF Lexing, LexNext, RestIsText, SkipComment, TakeTag, TakeVariable, TextBefore,
                  TakeRaw, TakePending, Unclosed, EndOfInput, At, Normal, Reading
    <3>2. cursor' = 1 /\ stack' = << >> /\ outcome' = "on"
      BY <1>2, <2>2, <3>1 DEF IInv, ParseInv, Lexing, parser
    <3> QED
      BY <3>2 DEF ShapeOK
  <2>3. CASE ParseNext
    <3>1. tokens' = tokens
      BY <2>3 DEF ParseNext, ParseLeaf, OpenBlock, NextSection, CloseBlock, Reject, Finish,
                  Taken, lexer
    <3>2. Shaped(tokens)
      BY <3>1
    <3>3. ShapeOK(cursor', stack', outcome')
      BY <1>2, <2>3, <3>2, ShapeStep
    <3> QED
      BY <2>1, <3>1, <3>3, ShapeStays
  <2>4. CASE UNCHANGED vars
    <3>1. /\ tokens' = tokens /\ lexing' = lexing /\ cursor' = cursor /\ stack' = stack
          /\ outcome' = outcome
      BY <2>4 DEF vars, lexer, parser
    <3>2. ShapeOK(cursor, stack, outcome)
      BY <1>2, <3>1 DEF ShapeInv
    <3> QED
      BY <2>1, <3>1, <3>2, ShapeStays
  <2> QED
    BY <1>2, <2>2, <2>3, <2>4 DEF Next
<1>3. IInv /\ ShapeInv => AgreesWithShapes
  <2> SUFFICES ASSUME IInv, ShapeInv, outcome # "on", ShapeOfTokens.open \in Others,
                      ShapeOfTokens.close \in IF Len(tokens) = 1 THEN {NoTag} ELSE Others
               PROVE  outcome = "ok" <=> Parses(registry, ShapeOfTokens)
    BY Zenon DEF AgreesWithShapes, Others
  <2>1. lexing = "done" /\ tokens \in Seq(AnyToken) /\ Len(tokens) \in Nat
    <3>1. lexing = "done"
      BY DEF IInv, ParseInv
    <3> QED
      BY <3>1 DEF IInv, LexInv, Lexed
  <2>2. Shaped(tokens)
    <3> DEFINE alone == Len(tokens) = 1 /\ tokens[1].tok = "tag"
               around == /\ Len(tokens) = 3
                         /\ tokens[1].tok = "tag" /\ tokens[2].tok = "text" /\ tokens[3].tok = "tag"
    <3>1. NoTag \notin Others
      BY TagConstants DEF Others
    <3>2. alone => ~around
      BY <2>1
    <3>3. CASE alone
      <4>1. ShapeOfTokens = [open |-> tokens[1].body.kw, close |-> NoTag]
        BY <3>2, <3>3, Zenon DEF ShapeOfTokens
      <4>2. tokens[1].body.kw \in Others /\ 1 \in DOMAIN tokens
        BY <2>1, <3>3, <4>1
      <4> QED
        BY <2>1, <3>3, <4>2 DEF Shaped, OtherTag
    <3>4. CASE around
      <4>1. ShapeOfTokens = [open |-> tokens[1].body.kw, close |-> tokens[3].body.kw]
        BY <3>2, <3>4, Zenon DEF ShapeOfTokens
      <4>2. Len(tokens) # 1 /\ 1 \in DOMAIN tokens /\ 3 \in DOMAIN tokens
        BY <2>1, <3>4
      <4>3. tokens[1].body.kw \in Others /\ tokens[3].body.kw \in Others
        BY <4>1, <4>2
      <4> QED
        BY <2>1, <3>4, <4>2, <4>3 DEF Shaped, OtherTag
    <3>5. CASE ~alone /\ ~around
      <4>1. ShapeOfTokens = [open |-> NoTag, close |-> NoTag]
        BY <3>5, Zenon DEF ShapeOfTokens
      <4> QED
        BY <3>1, <4>1
    <3> QED
      BY <3>3, <3>4, <3>5
  <2>3. ShapeOK(cursor, stack, outcome)
    BY <2>1, <2>2 DEF ShapeInv
  <2> QED
    BY <2>2, <2>3, AcceptedIsParses DEF ShapeOK
<1> QED
  BY <1>1, <1>2, <1>3, Inductive, PTL DEF Spec

-----------------------------------------------------------------------------
(* Whitespace, TrimmedWhereAsked.  What is asked is said of the borders of *)
(* a whole source; the invariant says it of the borders met so far.        *)

(* The sources TrimmedWhereAsked speaks of: their regions are closed.      *)
AllClosed == \A i \in DOMAIN source : source[i].kind = "char" \/ source[i].closed

(* The positions in text tokens, and the borders before a position p.      *)
InTexts(ts) == UNION {Range(ts[k].at) : k \in {l \in DOMAIN ts : ts[l].tok = "text"}}
Bordering(T, p) == {i \in 1 .. p - 1 : source[i].kind # "char"} \ T
Apart(K, x, y) == K \cap x + 1 .. y - 1 = {}

(* A raw block opens at x; ends at y; ends at j, of the borders K.         *)
OpensRaw(x) == \E name \in RawTags : IsTag(x, name)
RawPair(x, y) == x # 0 /\ \E name \in RawTags : IsTag(x, name) /\ IsTag(y, RawEnd(name))
ClosesRaw(K, j) == \E x \in K : x < j /\ Apart(K, x, j) /\ RawPair(x, j)

(* The regions that lead to a text after the border b, and what they set:  *)
(* the flags strip_leading_next_text and trim_block_newline.               *)
Leading(K, b) ==
    {j \in 1 .. b : /\ j .. b \subseteq K
                    /\ source[j].kind # "comment"
                    /\ \A k \in j + 1 .. b : ~RawPair(k - 1, k)}
DashLeads(K, b) == \E j \in Leading(K, b) : source[j].trimClose
NewlineLeads(K, b) ==
    /\ opts.trim
    /\ \E j \in Leading(K, b) :
          source[j].kind = "tag" /\ ~ClosesRaw(K, j) /\ ~source[j].trimClose

(* Of the text from a, the piece i is dropped by the flags; of the text    *)
(* before the region b, by its marker; by lstrip_blocks.                   *)
Led(dash, newline, a, i) ==
    \/ dash /\ \A k \in a .. i : White(k)
    \/ newline /\ i = a /\ Newline(i)
Cut(b, i) ==
    /\ source[b].kind # "comment" /\ source[b].trimOpen
    /\ \A k \in i .. b - 1 : White(k)
Stripped(a, b, i) ==
    /\ opts.lstrip /\ source[b].kind # "var"
    /\ \E x \in a .. i : /\ \A k \in x .. b - 1 : Blank(k)
                         /\ x = a \/ Newline(x - 1)

(* Between the borders x and y, what is not in T is what is asked for.     *)
Settled(K, T, x, y) ==
    \A i \in x + 1 .. y - 1 : source[i].kind = "char" =>
        (i \notin T <=>
            \/ Led(DashLeads(K, x), NewlineLeads(K, x), x + 1, i)
            \/ /\ y <= Len(source) /\ ~RawPair(x, y)
               /\ Cut(y, i) \/ Stripped(x + 1, y, i))

(* Before p: all text is settled, the flags are those of the regions right *)
(* before p, and in a raw mode its tag is right before p.                  *)
Trims(p, m, T, dash, newline) ==
    LET K == Bordering(T, p)
    IN  /\ T \subseteq 1 .. p - 1
        /\ p = Len(source) + 1 \/ p - 1 \in K \cup {0} \/ source[p].kind # "char"
        /\ \A x \in K \cup {0}, y \in K \cup {p} :
              x < y /\ Apart(K, x, y) => Settled(K, T, x, y)
        /\ dash <=> DashLeads(K, p - 1)
        /\ newline <=> NewlineLeads(K, p - 1)
        /\ m = "normal" => \A x \in K : Apart(K, x, p) => ~OpensRaw(x)
        /\ m \in RawTags => p - 1 \in K /\ IsTag(p - 1, m)

(* Expression and tag tokens hold no character.                            *)
RegionsOnly(ts) ==
    \A k \in DOMAIN ts : ts[k].tok # "text" =>
        \A i \in Range(ts[k].at) : source[i].kind # "char"

(* The inductive invariant of TrimmedWhereAsked.                           *)
TrimInv ==
    AllClosed => /\ Trims(position, mode, InTexts(tokens), strip, trimNewline)
                 /\ RegionsOnly(All(tokens, pending))

(* The positions of a span.                                                *)
LEMMA SpanRange ==
    ASSUME NEW a \in Nat, NEW b \in Nat, a <= b
    PROVE  Range(Span(a, b)) = a .. b - 1
<1>1. DOMAIN Span(a, b) = 1 .. b - a /\ \A k \in 1 .. b - a : Span(a, b)[k] = a + k - 1
  BY SpanIs
<1>2. ASSUME NEW i \in a .. b - 1 PROVE i \in Range(Span(a, b))
  <2>1. i - a + 1 \in 1 .. b - a /\ a + (i - a + 1) - 1 = i
    OBVIOUS
  <2> QED
    BY <1>1, <2>1 DEF Range
<1>3. ASSUME NEW i \in Range(Span(a, b)) PROVE i \in a .. b - 1
  <2>1. PICK k \in 1 .. b - a : i = a + k - 1
    BY <1>1 DEF Range
  <2> QED
    BY <2>1
<1> QED
  BY <1>2, <1>3

(* trim_start drops the whitespace a text begins with.                     *)
LEMMA TrimStartIs ==
    ASSUME NEW a \in Nat, NEW b \in Nat, a <= b
    PROVE  \E c \in a .. b : /\ TrimStart(Span(a, b)) = Span(c, b)
                             /\ \A k \in a .. c - 1 : White(k)
                             /\ c < b => ~White(c)
<1> DEFINE text == Span(a, b)
           S == {k \in 1 .. b - a : ~White(text[k])}
<1>1. /\ b - a \in Nat /\ DOMAIN text = 1 .. b - a /\ Len(text) = b - a
      /\ \A k \in 1 .. b - a : text[k] = a + k - 1
  BY SpanIs
<1>2. S \in SUBSET (Nat \ {0})
  OBVIOUS
<1>3. TrimStart(text) = IF First(S) = 0 THEN << >> ELSE SubSeq(text, First(S), b - a)
  BY <1>1 DEF TrimStart
<1>4. \A k \in 1 .. b - a : k \notin S => White(text[k])
  OBVIOUS
<1>5. \A k \in S : k \in 1 .. b - a /\ ~White(text[k])
  OBVIOUS
<1> HIDE DEF S, text
<1>6. CASE S = {}
  <2>1. TrimStart(text) = Span(b, b)
    <3>1. First(S) = 0
      BY <1>6, <1>2, FirstMember
    <3>2. Span(b, b) = << >>
      BY DEF Span
    <3> QED
      BY <1>3, <3>1, <3>2
  <2>2. ASSUME NEW k \in a .. b - 1 PROVE White(k)
    <3>1. k - a + 1 \in 1 .. b - a /\ a + (k - a + 1) - 1 = k
      OBVIOUS
    <3> QED
      BY <1>1, <1>4, <1>6, <3>1
  <2> QED
    BY <2>1, <2>2 DEF text
<1>7. CASE S # {}
  <2> DEFINE f == First(S)
  <2>1. f \in S /\ \A m \in S : f <= m
    BY <1>2, <1>7, FirstMember
  <2> HIDE DEF f
  <2>2. f \in 1 .. b - a /\ ~White(text[f])
    BY <1>5, <2>1
  <2>3. TrimStart(text) = Span(a + f - 1, b)
    <3>1. TrimStart(text) = SubSeq(text, f, b - a)
      BY <1>3, <2>2 DEF f
    <3>2. f \in 1 .. b - a + 1 /\ b - a \in f - 1 .. b - a
      BY <2>2
    <3>3. SubSeq(Span(a, b), f, b - a) = Span(a + f - 1, a + (b - a))
      BY <3>2, SpanPart
    <3>4. a + (b - a) = b
      OBVIOUS
    <3> QED
      BY <3>1, <3>3, <3>4 DEF text
  <2>4. a + f - 1 \in a .. b
    BY <2>2
  <2>5. ASSUME NEW k \in a .. (a + f - 1) - 1 PROVE White(k)
    <3>1. k - a + 1 \in 1 .. b - a /\ a + (k - a + 1) - 1 = k /\ ~(f <= k - a + 1)
      BY <2>2
    <3> QED
      BY <1>1, <1>4, <2>1, <3>1
  <2>6. ~White(a + f - 1)
    BY <1>1, <2>2
  <2> QED
    BY <2>3, <2>4, <2>5, <2>6 DEF text
<1> QED
  BY <1>6, <1>7

(* What is left of a text when it is cut after the last of some positions. *)
LEMMA CutAfter ==
    ASSUME NEW a \in Nat, NEW b \in Nat, a <= b, NEW S \in SUBSET (1 .. b - a)
    PROVE  LET d == a + Latest(S)
           IN  /\ d \in a .. b
               /\ SubSeq(Span(a, b), 1, Latest(S)) = Span(a, d)
               /\ \A k \in d .. b - 1 : k - a + 1 \notin S
               /\ a < d => d - a \in S
               /\ d = a <=> Latest(S) = 0
<1> DEFINE l == Latest(S)
<1>1. b - a \in Nat
  OBVIOUS
<1>2. l \in 0 .. b - a /\ (S = {} => l = 0) /\ (S # {} => l \in S) /\ \A j \in S : j <= l
  BY <1>1, LatestMember
<1> HIDE DEF l
<1>3. SubSeq(Span(a, b), 1, l) = Span(a, a + l)
  <2>1. 1 \in 1 .. b - a + 1 /\ l \in 1 - 1 .. b - a
    BY <1>2
  <2>2. SubSeq(Span(a, b), 1, l) = Span(a + 1 - 1, a + l)
    BY <2>1, SpanPart
  <2> QED
    BY <2>2
<1>4. a + l \in a .. b /\ (a + l = a <=> l = 0) /\ (a + l) - a = l
  BY <1>2
<1>5. \A k \in a + l .. b - 1 : k - a + 1 \notin S
  BY <1>2
<1>6. a < a + l => l \in S
  BY <1>2
<1> QED
  BY <1>3, <1>4, <1>5, <1>6 DEF l

(* trim_end drops the whitespace a text ends with.                         *)
LEMMA TrimEndIs ==
    ASSUME NEW a \in Nat, NEW b \in Nat, a <= b
    PROVE  \E d \in a .. b : /\ TrimEnd(Span(a, b)) = Span(a, d)
                             /\ \A k \in d .. b - 1 : White(k)
                             /\ a < d => ~White(d - 1)
<1> DEFINE text == Span(a, b)
           S == {k \in 1 .. b - a : ~White(text[k])}
           d == a + Latest(S)
<1>1. /\ DOMAIN text = 1 .. b - a /\ \A k \in 1 .. b - a : text[k] = a + k - 1
  BY SpanIs
<1>2. TrimEnd(text) = SubSeq(text, 1, Latest(S))
  BY <1>1 DEF TrimEnd
<1>3. S \in SUBSET (1 .. b - a)
  OBVIOUS
<1>4. \A k \in 1 .. b - a : k \in S <=> ~White(text[k])
  OBVIOUS
<1> HIDE DEF S
<1>5. /\ d \in a .. b
      /\ SubSeq(Span(a, b), 1, Latest(S)) = Span(a, d)
      /\ \A k \in d .. b - 1 : k - a + 1 \notin S
      /\ a < d => d - a \in S
  BY <1>3, CutAfter
<1> HIDE DEF d
<1>6. ASSUME NEW k \in d .. b - 1 PROVE White(k)
  <2>1. k - a + 1 \in 1 .. b - a /\ a + (k - a + 1) - 1 = k
    BY <1>5
  <2> QED
    BY <1>1, <1>4, <1>5, <2>1
<1>7. ASSUME a < d PROVE ~White(d - 1)
  <2>1. d - a \in 1 .. b - a /\ a + (d - a) - 1 = d - 1
    BY <1>5, <1>7
  <2> QED
    BY <1>1, <1>4, <1>5, <1>7, <2>1
<1> QED
  BY <1>2, <1>5, <1>6, <1>7

(* lstrip_blocks drops the blanks a text ends with, at a line's beginning. *)
LEMMA LstripIs ==
    ASSUME NEW a \in Nat, NEW b \in Nat, a <= b, NEW opener
    PROVE  \E e \in a .. b :
              /\ \A k \in e .. b - 1 : Blank(k)
              /\ a < e => ~Blank(e - 1)
              /\ LstripTrailing(Span(a, b), opener) =
                    IF /\ opts.lstrip /\ source[opener].kind # "var"
                       /\ e = a \/ Newline(e - 1)
                    THEN Span(a, e)
                    ELSE Span(a, b)
<1> DEFINE text == Span(a, b)
           S == {k \in 1 .. b - a : ~Blank(text[k])}
           e == a + Latest(S)
<1>1. /\ DOMAIN text = 1 .. b - a /\ \A k \in 1 .. b - a : text[k] = a + k - 1
  BY SpanIs
<1>2. LstripTrailing(text, opener) =
         IF \/ ~opts.lstrip
            \/ source[opener].kind = "var"
            \/ Latest(S) > 0 /\ ~Newline(text[Latest(S)])
         THEN text
         ELSE SubSeq(text, 1, Latest(S))
  BY <1>1 DEF LstripTrailing
<1>3. S \in SUBSET (1 .. b - a)
  OBVIOUS
<1>4. \A k \in 1 .. b - a : k \in S <=> ~Blank(text[k])
  OBVIOUS
<1> HIDE DEF S
<1>5. /\ e \in a .. b
      /\ SubSeq(Span(a, b), 1, Latest(S)) = Span(a, e)
      /\ \A k \in e .. b - 1 : k - a + 1 \notin S
      /\ a < e => e - a \in S
      /\ e = a <=> Latest(S) = 0
  BY <1>3, CutAfter
<1>6. Latest(S) = e - a
  <2>1. Latest(S) \in 0 .. b - a
    BY <1>3, LatestMember
  <2> QED
    BY <2>1
<1> HIDE DEF e
<1>7. ASSUME NEW k \in e .. b - 1 PROVE Blank(k)
  <2>1. k - a + 1 \in 1 .. b - a /\ a + (k - a + 1) - 1 = k
    BY <1>5
  <2> QED
    BY <1>1, <1>4, <1>5, <2>1
<1>8. ASSUME a < e PROVE ~Blank(e - 1) /\ text[Latest(S)] = e - 1
  <2>1. e - a \in 1 .. b - a /\ a + (e - a) - 1 = e - 1
    BY <1>5, <1>8
  <2> QED
    BY <1>1, <1>4, <1>5, <1>6, <1>8, <2>1
<1>9. Latest(S) > 0 /\ ~Newline(text[Latest(S)]) <=> ~(e = a \/ Newline(e - 1))
  <2>1. CASE e = a
    BY <1>5, <2>1
  <2>2. CASE e # a
    <3>1. a < e /\ Latest(S) > 0
      BY <1>5, <1>6, <2>2
    <3> QED
      BY <1>8, <2>2, <3>1
  <2> QED
    BY <2>1, <2>2
<1>10. LstripTrailing(text, opener) =
          IF /\ opts.lstrip /\ source[opener].kind # "var"
             /\ e = a \/ Newline(e - 1)
          THEN Span(a, e)
          ELSE Span(a, b)
  <2> HIDE DEF text
  <2>1. CASE \/ ~opts.lstrip
             \/ source[opener].kind = "var"
             \/ Latest(S) > 0 /\ ~Newline(text[Latest(S)])
    BY <1>2, <1>9, <2>1 DEF text
  <2>2. CASE ~(\/ ~opts.lstrip
               \/ source[opener].kind = "var"
               \/ Latest(S) > 0 /\ ~Newline(text[Latest(S)]))
    BY <1>2, <1>5, <1>9, <2>2 DEF text
  <2> QED
    BY <2>1, <2>2
<1> QED
  BY <1>5, <1>7, <1>8, <1>10

(* What the flags drop of a text, exactly.                                 *)
LEMMA LeadIs ==
    ASSUME NEW a \in Nat, NEW b \in Nat, a <= b
    PROVE  \E c \in a .. b :
              /\ LeadingStrip(Span(a, b)) = Span(c, b)
              /\ \A i \in a .. b - 1 : i < c <=> Led(strip, trimNewline, a, i)
              /\ c = a \/ c = b \/ ~White(c) \/ Newline(c - 1)
<1>1. CASE strip
  <2>1. PICK c \in a .. b : /\ TrimStart(Span(a, b)) = Span(c, b)
                            /\ \A k \in a .. c - 1 : White(k)
                            /\ c < b => ~White(c)
    BY TrimStartIs
  <2>2. LeadingStrip(Span(a, b)) = Span(c, b)
    BY <1>1, <2>1 DEF LeadingStrip
  <2>3. ASSUME NEW i \in a .. b - 1 PROVE i < c <=> Led(strip, trimNewline, a, i)
    <3>1. CASE i < c
      <4>1. \A k \in a .. i : k \in a .. c - 1
        BY <3>1
      <4> QED
        BY <1>1, <2>1, <3>1, <4>1 DEF Led
    <3>2. CASE ~(i < c)
      <4>1. c < b /\ ~White(c) /\ c \in a .. i
        BY <2>1, <3>2
      <4>2. ~(\A k \in a .. i : White(k))
        BY <4>1
      <4>3. ~(i = a /\ Newline(i))
        BY <4>1 DEF White
      <4> QED
        BY <3>2, <4>2, <4>3 DEF Led
    <3> QED
      BY <3>1, <3>2
  <2>4. c = b \/ ~White(c)
    BY <2>1
  <2> QED
    BY <2>2, <2>3, <2>4
<1>2. CASE ~strip /\ trimNewline /\ a < b /\ Newline(a)
  <2> DEFINE text == Span(a, b)
  <2>1. text \in Seq(a .. b - 1) /\ Len(text) = b - a /\ text[1] = a /\ b - a \in Nat \ {0}
    <3>1. b - a \in Nat \ {0} /\ 1 \in 1 .. b - a /\ a + 1 - 1 = a
      BY <1>2
    <3>2. /\ text \in Seq(a .. b - 1) /\ Len(text) = b - a
          /\ \A k \in 1 .. b - a : text[k] = a + k - 1
      BY SpanIs
    <3> HIDE DEF text
    <3> QED
      BY <3>1, <3>2
  <2>2. LeadingStrip(text) = Span(a + 1, b)
    <3>1. LeadingStrip(text) = Tail(text)
      BY <1>2, <2>1 DEF LeadingStrip
    <3>2. Tail(text) = SubSeq(text, 2, b - a)
      <4> HIDE DEF text
      <4> QED
        BY <2>1, TailIsSubSeq
    <3>3. 2 \in 1 .. b - a + 1 /\ b - a \in 2 - 1 .. b - a
      BY <2>1
    <3>4. SubSeq(Span(a, b), 2, b - a) = Span(a + 2 - 1, a + (b - a))
      BY <3>3, SpanPart
    <3>5. a + 2 - 1 = a + 1 /\ a + (b - a) = b
      OBVIOUS
    <3> QED
      BY <3>1, <3>2, <3>4, <3>5
  <2>3. a + 1 \in a .. b /\ (a + 1) - 1 = a
    BY <1>2
  <2>4. \A i \in a .. b - 1 : i < a + 1 <=> Led(strip, trimNewline, a, i)
    BY <1>2 DEF Led
  <2> QED
    BY <1>2, <2>2, <2>3, <2>4
<1>3. CASE ~strip /\ ~(trimNewline /\ a < b /\ Newline(a))
  <2>1. LeadingStrip(Span(a, b)) = Span(a, b)
    <3>1. ASSUME a < b PROVE Head(Span(a, b)) = a
      <4>1. 1 \in 1 .. b - a /\ a + 1 - 1 = a
        BY <3>1
      <4>2. Span(a, b)[1] = a
        BY <4>1, SpanIs
      <4> QED
        BY <4>2
    <3>2. a = b => Span(a, b) = << >>
      BY DEF Span
    <3> QED
      BY <1>3, <3>1, <3>2 DEF LeadingStrip
  <2>2. \A i \in a .. b - 1 : i < a <=> Led(strip, trimNewline, a, i)
    BY <1>3 DEF Led
  <2>3. a \in a .. b
    OBVIOUS
  <2> QED
    BY <2>1, <2>2, <2>3
<1> QED
  BY <1>1, <1>2, <1>3

(* What the lexer drops of a text before a region, exactly.                *)
LEMMA TextIs ==
    ASSUME NEW a \in Nat, position = a, NEW b \in Nat, a <= b
    PROVE  \A i \in a .. b - 1 :
              i \notin Range(TextUpTo(b)) <=>
                  Led(strip, trimNewline, a, i) \/ Cut(b, i) \/ Stripped(a, b, i)
<1> DEFINE cuts == source[b].kind # "comment" /\ source[b].trimOpen
           strips == opts.lstrip /\ source[b].kind # "var"
<1>1. PICK c \in a .. b :
              /\ LeadingStrip(Span(a, b)) = Span(c, b)
              /\ \A i \in a .. b - 1 : i < c <=> Led(strip, trimNewline, a, i)
              /\ c = a \/ c = b \/ ~White(c) \/ Newline(c - 1)
  BY LeadIs
<1>2. PICK d \in c .. b :
              /\ (IF cuts THEN TrimEnd(Span(c, b)) ELSE Span(c, b)) = Span(c, d)
              /\ \A k \in d .. b - 1 : White(k)
              /\ ~cuts => d = b
              /\ cuts /\ c < d => ~White(d - 1)
  <2>1. CASE cuts
    <3>0. c \in Nat /\ c <= b
      OBVIOUS
    <3>1. PICK d \in c .. b : /\ TrimEnd(Span(c, b)) = Span(c, d)
                              /\ \A k \in d .. b - 1 : White(k)
                              /\ c < d => ~White(d - 1)
      BY <3>0, TrimEndIs
    <3> QED
      BY <2>1, <3>1
  <2>2. CASE ~cuts
    <3>1. b \in c .. b /\ \A k \in b .. b - 1 : White(k)
      OBVIOUS
    <3> QED
      BY <2>2, <3>1
  <2> QED
    BY <2>1, <2>2
<1>3. PICK e \in c .. d :
              /\ \A k \in e .. d - 1 : Blank(k)
              /\ c < e => ~Blank(e - 1)
              /\ LstripTrailing(Span(c, d), b) =
                    IF strips /\ (e = c \/ Newline(e - 1)) THEN Span(c, e) ELSE Span(c, d)
  <2>1. c \in Nat /\ d \in Nat /\ c <= d
    OBVIOUS
  <2> QED
    BY <2>1, LstripIs
<1>4. TextUpTo(b) = LstripTrailing(Span(c, d), b)
  BY <1>1, <1>2 DEF TextUpTo
<1> DEFINE lines == strips /\ (e = c \/ Newline(e - 1))
<1>5. Range(TextUpTo(b)) = IF lines THEN c .. e - 1 ELSE c .. d - 1
  <2>1. Range(Span(c, e)) = c .. e - 1 /\ Range(Span(c, d)) = c .. d - 1
    BY SpanRange
  <2> QED
    BY <1>3, <1>4, <2>1
<1>6. \A k : ~(Blank(k) /\ Newline(k)) /\ (Blank(k) => White(k))
  BY DEF Blank, Newline, White
<1>7. ASSUME NEW i \in a .. b - 1
      PROVE  i \notin Range(TextUpTo(b)) <=> i < c \/ i >= d \/ (lines /\ i >= e)
  <2> HIDE DEF lines
  <2> QED
    BY <1>5
<1>8. ASSUME NEW i \in a .. b - 1, i >= d
      PROVE  Cut(b, i)
  <2>1. cuts
    BY <1>2, <1>8
  <2>2. \A k \in i .. b - 1 : White(k)
    BY <1>2, <1>8
  <2> QED
    BY <2>1, <2>2 DEF Cut
<1>9. ASSUME NEW i \in a .. b - 1, Cut(b, i), i >= c PROVE i >= d
  <2>1. cuts /\ \A k \in i .. b - 1 : White(k)
    BY <1>9 DEF Cut
  <2>2. SUFFICES ASSUME i < d PROVE FALSE
    OBVIOUS
  <2>3. c < d /\ ~White(d - 1) /\ d - 1 \in i .. b - 1
    BY <1>2, <1>9, <2>1, <2>2
  <2> QED
    BY <2>1, <2>3
<1>10. ASSUME NEW i \in a .. b - 1, lines, i >= e, i < d
       PROVE  Stripped(a, b, i)
  <2>1. d = b
    <3> SUFFICES ASSUME cuts PROVE FALSE
      BY <1>2
    <3>1. d - 1 \in e .. d - 1 /\ c < d
      BY <1>10
    <3>2. ~White(d - 1) /\ Blank(d - 1)
      BY <1>2, <1>3, <3>1
    <3> QED
      BY <1>6, <3>2
  <2>2. e = a \/ Newline(e - 1)
    <3> SUFFICES ASSUME e = c, e # a PROVE Newline(e - 1)
      BY <1>10
    <3>1. c # b /\ c \in e .. d - 1
      BY <1>10, <2>1
    <3>2. White(c)
      BY <1>3, <1>6, <3>1
    <3> QED
      BY <1>1, <3>1, <3>2
  <2>3. e \in a .. i /\ \A k \in e .. b - 1 : Blank(k)
    BY <1>3, <1>10, <2>1
  <2>4. opts.lstrip /\ source[b].kind # "var"
    BY <1>10
  <2> QED
    BY <2>2, <2>3, <2>4 DEF Stripped
<1>11. ASSUME NEW i \in a .. b - 1, Stripped(a, b, i), i >= c, i < d
       PROVE  lines /\ i >= e
  <2>1. PICK x \in a .. i : /\ \A k \in x .. b - 1 : Blank(k)
                            /\ x = a \/ Newline(x - 1)
    BY <1>11 DEF Stripped
  <2>2. strips
    BY <1>11 DEF Stripped
  <2>3. e = c \/ e <= x
    <3> SUFFICES ASSUME e # c, x <= e - 1 PROVE FALSE
      OBVIOUS
    <3>1. c < e /\ e - 1 \in x .. b - 1
      OBVIOUS
    <3> QED
      BY <1>3, <2>1, <3>1
  <2>4. CASE e = c
    BY <1>11, <2>2, <2>4
  <2>5. CASE e # c
    <3>1. c < e /\ e <= x /\ x # a
      BY <2>3, <2>5
    <3>2. Newline(x - 1)
      BY <2>1, <3>1
    <3>3. e = x
      <4> SUFFICES ASSUME e < x PROVE FALSE
        BY <3>1
      <4>1. x - 1 \in e .. d - 1
        BY <1>11
      <4> QED
        BY <1>3, <1>6, <3>2, <4>1
    <3> QED
      BY <1>11, <2>2, <3>2, <3>3
  <2> QED
    BY <2>4, <2>5
<1> HIDE DEF lines
<1>12. ASSUME NEW i \in a .. b - 1
       PROVE  i \notin Range(TextUpTo(b)) <=>
                  Led(strip, trimNewline, a, i) \/ Cut(b, i) \/ Stripped(a, b, i)
  <2>1. i < c <=> Led(strip, trimNewline, a, i)
    BY <1>1
  <2>2. i >= c <=> ~(i < c)
    OBVIOUS
  <2>3. i < d <=> ~(i >= d)
    OBVIOUS
  <2> QED
    BY <1>7, <1>8, <1>9, <1>10, <1>11, <2>1, <2>2, <2>3
<1> QED
  BY <1>12

(* What the flags drop of the text of a raw block, exactly.                *)
LEMMA LiteralIs ==
    ASSUME NEW a \in Nat, NEW b \in Nat, a <= b
    PROVE  \A i \in a .. b - 1 :
              i \notin Range(LeadingStrip(Span(a, b))) <=> Led(strip, trimNewline, a, i)
<1>1. PICK c \in a .. b :
              /\ LeadingStrip(Span(a, b)) = Span(c, b)
              /\ \A i \in a .. b - 1 : i < c <=> Led(strip, trimNewline, a, i)
  BY LeadIs
<1>2. Range(Span(c, b)) = c .. b - 1
  BY SpanRange
<1>3. \A i \in a .. b - 1 : i \notin c .. b - 1 <=> i < c
  OBVIOUS
<1> QED
  BY <1>1, <1>2, <1>3

(* What leads to a text depends on the borders before it only.             *)
LEMMA SameLeads ==
    ASSUME NEW K \in SUBSET (Nat \ {0}), NEW L \in SUBSET (Nat \ {0}), NEW b \in Nat,
           \A j \in 1 .. b : j \in K <=> j \in L
    PROVE  /\ Leading(K, b) = Leading(L, b)
           /\ \A j \in 1 .. b : ClosesRaw(K, j) <=> ClosesRaw(L, j)
           /\ DashLeads(K, b) <=> DashLeads(L, b)
           /\ NewlineLeads(K, b) <=> NewlineLeads(L, b)
<1>1. \A j \in 1 .. b : j .. b \subseteq K <=> j .. b \subseteq L
  OBVIOUS
<1>2. Leading(K, b) = Leading(L, b) /\ Leading(L, b) \subseteq 1 .. b
  BY <1>1 DEF Leading
<1>3. \A x, j \in 0 .. b : Apart(K, x, j) <=> Apart(L, x, j)
  BY DEF Apart
<1>4. ASSUME NEW j \in 1 .. b
      PROVE  ClosesRaw(K, j) <=> ClosesRaw(L, j)
  <2>1. \A x \in K \cup L : x < j => x \in 1 .. b /\ (x \in K <=> x \in L)
    OBVIOUS
  <2>2. j \in 0 .. b /\ 1 .. b \subseteq 0 .. b
    OBVIOUS
  <2> QED
    BY <1>3, <2>1, <2>2 DEF ClosesRaw
<1>5. DashLeads(K, b) <=> DashLeads(L, b)
  BY <1>2 DEF DashLeads
<1>6. NewlineLeads(K, b) <=> NewlineLeads(L, b)
  BY <1>2, <1>4 DEF NewlineLeads
<1> QED
  BY <1>2, <1>4, <1>5, <1>6

(* What was settled of the text between two borders stays so.              *)
LEMMA SettledStays ==
    ASSUME NEW K \in SUBSET (Nat \ {0}), NEW L \in SUBSET (Nat \ {0}), NEW x \in Nat, NEW y \in Nat,
           \A j \in 1 .. x : j \in K <=> j \in L,
           NEW T, NEW U, \A i \in x + 1 .. y - 1 : i \in T <=> i \in U,
           Settled(K, T, x, y)
    PROVE  Settled(L, U, x, y)
<1>1. /\ DashLeads(K, x) <=> DashLeads(L, x)
      /\ NewlineLeads(K, x) <=> NewlineLeads(L, x)
  BY SameLeads
<1>2. \A i \in x + 1 .. y - 1 :
          Led(DashLeads(K, x), NewlineLeads(K, x), x + 1, i)
            <=> Led(DashLeads(L, x), NewlineLeads(L, x), x + 1, i)
  BY <1>1 DEF Led
<1> QED
  BY <1>2 DEF Settled

(* The borders among some positions.                                       *)
LEMMA BorderingIs ==
    ASSUME NEW T, NEW p \in Nat
    PROVE  /\ Bordering(T, p) \in SUBSET (Nat \ {0})
           /\ \A i : i \in Bordering(T, p) <=>
                 i \in 1 .. p - 1 /\ source[i].kind # "char" /\ i \notin T
  BY DEF Bordering

(* A region that is not text: a border more, which leads to what follows.  *)
LEMMA RegionTrims ==
    ASSUME source \in Seq(Piece), position \in 1 .. Len(source), position' = position + 1,
           source[position].kind # "char",
           Trims(position, "normal", InTexts(tokens), strip, trimNewline),
           strip' <=> strip \/ (source[position].kind # "comment" /\ source[position].trimClose),
           trimNewline' <=> \/ trimNewline
                            \/ /\ source[position].kind = "tag"
                               /\ ~source[position].trimClose /\ opts.trim,
           NEW m, m = "normal" => ~OpensRaw(position), m \in RawTags => IsTag(position, m)
    PROVE  Trims(position', m, InTexts(tokens), strip', trimNewline')
<1> DEFINE T == InTexts(tokens)
           K == Bordering(T, position)
           L == Bordering(T, position + 1)
<1>1. Len(source) \in Nat /\ position \in Nat \ {0} /\ (position + 1) - 1 = position
  BY SourceIs
<1>2. /\ K \in SUBSET (Nat \ {0}) /\ L \in SUBSET (Nat \ {0})
      /\ \A i : i \in K <=> i \in 1 .. position - 1 /\ source[i].kind # "char" /\ i \notin T
      /\ \A i : i \in L <=> i \in 1 .. (position + 1) - 1 /\ source[i].kind # "char" /\ i \notin T
  BY <1>1, BorderingIs
<1>0. Trims(position, "normal", T, strip, trimNewline)
  OBVIOUS
<1> HIDE DEF K, L, T
<1>3. /\ T \subseteq 1 .. position - 1
      /\ \A x \in K \cup {0}, y \in K \cup {position} : x < y /\ Apart(K, x, y) => Settled(K, T, x, y)
      /\ strip <=> DashLeads(K, position - 1)
      /\ trimNewline <=> NewlineLeads(K, position - 1)
      /\ \A x \in K : Apart(K, x, position) => ~OpensRaw(x)
  BY <1>0 DEF Trims, K
<1>4. L = K \cup {position} /\ position \notin K /\ \A x \in K : x \in Nat \ {0} /\ x < position
  BY <1>1, <1>2, <1>3
<1>5. \A j \in 1 .. position - 1 : j \in K <=> j \in L
  BY <1>4
<1>6. position - 1 \in Nat /\ 0 .. position - 1 \subseteq Nat
  BY <1>1
<1>7. ASSUME NEW x \in L \cup {0}, NEW y \in L \cup {position + 1}, x < y, Apart(L, x, y)
      PROVE  Settled(L, T, x, y)
  <2>1. CASE y = position + 1
    <3>1. x = position
      <4> SUFFICES ASSUME x # position PROVE FALSE
        OBVIOUS
      <4>1. x \in Nat /\ x < position
        BY <1>1, <1>4
      <4>2. position \in x + 1 .. y - 1
        BY <1>1, <2>1, <4>1
      <4> QED
        BY <1>4, <1>7, <4>2 DEF Apart
    <3>2. x + 1 .. y - 1 = {}
      BY <1>1, <2>1, <3>1
    <3> QED
      BY <3>2 DEF Settled
  <2>2. CASE y # position + 1
    <3>1. y \in K \cup {position} /\ y <= position
      BY <1>1, <1>4, <2>2
    <3>2. x \in K \cup {0} /\ x \in 0 .. position - 1 /\ x \in Nat /\ y \in Nat
      BY <1>1, <1>4, <1>7, <3>1
    <3>3. Apart(K, x, y)
      BY <1>4, <1>7 DEF Apart
    <3>4. Settled(K, T, x, y)
      BY <1>3, <1>7, <3>1, <3>2, <3>3
    <3>5. \A j \in 1 .. x : j \in K <=> j \in L
      BY <1>5, <3>2
    <3> QED
      BY <1>2, <3>2, <3>4, <3>5, SettledStays
  <2> QED
    BY <2>1, <2>2
<1>8. ASSUME NEW x \in K, Apart(K, x, position), NEW y PROVE ~RawPair(x, y)
  BY <1>3, <1>8 DEF RawPair, OpensRaw
<1>9. \A j \in 1 .. position : j \in Leading(L, position) <=>
         \/ j = position /\ source[position].kind # "comment"
         \/ j \in Leading(K, position - 1)
  <2> SUFFICES ASSUME NEW j \in 1 .. position
               PROVE  j \in Leading(L, position) <=> \/ j = position /\ source[position].kind # "comment"
                                              \/ j \in Leading(K, position - 1)
    OBVIOUS
  <2>1. CASE j = position
    <3>1. j .. position = {position} /\ j + 1 .. position = {} /\ j \notin 1 .. position - 1
      BY <1>1, <2>1
    <3> QED
      BY <1>4, <2>1, <3>1 DEF Leading
  <2>2. CASE j # position
    <3>1. /\ j \in 1 .. position - 1 /\ position - 1 \in j .. position
          /\ j .. position = (j .. position - 1) \cup {position}
          /\ j + 1 .. position = (j + 1 .. position - 1) \cup {position}
      <4>1. j \in 1 .. position - 1 /\ position - 1 \in j .. position
        BY <1>1, <2>2
      <4>2. j .. position = (j .. position - 1) \cup {position}
        BY <1>1, <4>1
      <4>3. j + 1 .. position = (j + 1 .. position - 1) \cup {position}
        BY <1>1, <4>1
      <4> QED
        BY <4>1, <4>2, <4>3
    <3>2. j .. position \subseteq L <=> j .. position - 1 \subseteq K
      BY <1>1, <1>4, <3>1
    <3>3. j .. position - 1 \subseteq K => ~RawPair(position - 1, position)
      <4>1. position - 1 \in j .. position - 1 /\ Apart(K, position - 1, position)
        BY <1>1, <3>1 DEF Apart
      <4> QED
        BY <1>8, <4>1
    <3>4. j \in 1 .. position /\ (j \in Leading(L, position) <=>
                /\ j .. position \subseteq L /\ source[j].kind # "comment"
                /\ \A k \in j + 1 .. position : ~RawPair(k - 1, k))
      BY DEF Leading
    <3>5. j \in Leading(K, position - 1) <=>
                /\ j .. position - 1 \subseteq K /\ source[j].kind # "comment"
                /\ \A k \in j + 1 .. position - 1 : ~RawPair(k - 1, k)
      BY <3>1 DEF Leading
    <3> QED
      BY <2>2, <3>1, <3>2, <3>3, <3>4, <3>5
  <2> QED
    BY <2>1, <2>2
<1>10. Leading(L, position) \subseteq 1 .. position /\ Leading(K, position - 1) \subseteq 1 .. position - 1
       /\ 1 .. position - 1 \subseteq 1 .. position /\ position \in 1 .. position
  BY <1>1 DEF Leading
<1>11. strip' <=> DashLeads(L, position)
  BY <1>3, <1>9, <1>10 DEF DashLeads
<1>12. ~ClosesRaw(L, position)
  <2> SUFFICES ASSUME NEW x \in L, x < position, Apart(L, x, position), RawPair(x, position) PROVE FALSE
    BY DEF ClosesRaw
  <2>1. x \in K /\ Apart(K, x, position)
    BY <1>1, <1>4 DEF Apart
  <2> QED
    BY <1>8, <2>1
<1>13. \A j \in 1 .. position - 1 : ClosesRaw(K, j) <=> ClosesRaw(L, j)
  BY <1>2, <1>5, <1>6, SameLeads
<1>14. trimNewline' <=> NewlineLeads(L, position)
  <2>1. NewlineLeads(L, position) <=> opts.trim /\ \E j \in Leading(L, position) :
            source[j].kind = "tag" /\ ~ClosesRaw(L, j) /\ ~source[j].trimClose
    BY DEF NewlineLeads
  <2>2. trimNewline <=> opts.trim /\ \E j \in Leading(K, position - 1) :
            source[j].kind = "tag" /\ ~ClosesRaw(L, j) /\ ~source[j].trimClose
    BY <1>3, <1>10, <1>13 DEF NewlineLeads
  <2>3. source[position].kind = "tag" => source[position].kind # "comment"
    OBVIOUS
  <2> QED
    BY <1>9, <1>10, <1>12, <2>1, <2>2, <2>3
<1>15. ASSUME m = "normal", NEW x \in L, Apart(L, x, position + 1) PROVE ~OpensRaw(x)
  <2>1. x = position
    <3> SUFFICES ASSUME x # position PROVE FALSE
      OBVIOUS
    <3>1. position \in x + 1 .. (position + 1) - 1
      BY <1>1, <1>4
    <3> QED
      BY <1>4, <1>15, <3>1 DEF Apart
  <2> QED
    BY <1>15, <2>1
<1>16. T \subseteq 1 .. (position + 1) - 1
  BY <1>1, <1>3
<1>17. (position + 1) - 1 \in L
  BY <1>1, <1>4
<1>18. Trims(position + 1, m, T, strip', trimNewline')
  BY <1>1, <1>7, <1>11, <1>14, <1>15, <1>16, <1>17 DEF Trims, L
<1> QED
  BY <1>18 DEF T

(* A text up to the next region or the end, of which R is delivered: what  *)
(* is dropped is settled, and nothing leads to what follows.               *)
LEMMA TextTrims ==
    ASSUME source \in Seq(Piece), NEW p \in 1 .. Len(source), source[p].kind = "char",
           NEW T, NEW s, NEW nl, Trims(p, "normal", T, s, nl),
           NEW b \in p + 1 .. Len(source) + 1,
           b = Len(source) + 1 \/ source[b].kind # "char",
           \A i \in p .. b - 1 : source[i].kind = "char",
           NEW R \in SUBSET (p .. b - 1),
           \A i \in p .. b - 1 : i \notin R <=>
              Led(s, nl, p, i) \/ (b <= Len(source) /\ (Cut(b, i) \/ Stripped(p, b, i)))
    PROVE  Trims(b, "normal", T \cup R, FALSE, FALSE)
<1> DEFINE K == Bordering(T, p)
           U == T \cup R
           L == Bordering(U, b)
<1>1. Len(source) \in Nat /\ p \in Nat \ {0} /\ (p - 1) + 1 = p /\ b \in Nat \ {0} /\ p - 1 \in Nat
  BY SourceIs
<1>2. /\ K \in SUBSET (Nat \ {0}) /\ L \in SUBSET (Nat \ {0})
      /\ \A i : i \in K <=> i \in 1 .. p - 1 /\ source[i].kind # "char" /\ i \notin T
      /\ \A i : i \in L <=> i \in 1 .. b - 1 /\ source[i].kind # "char" /\ i \notin U
  BY <1>1, BorderingIs
<1> HIDE DEF K, L
<1>3. /\ T \subseteq 1 .. p - 1
      /\ p = Len(source) + 1 \/ p - 1 \in K \cup {0} \/ source[p].kind # "char"
      /\ \A x \in K \cup {0}, y \in K \cup {p} : x < y /\ Apart(K, x, y) => Settled(K, T, x, y)
      /\ s <=> DashLeads(K, p - 1)
      /\ nl <=> NewlineLeads(K, p - 1)
      /\ \A x \in K : Apart(K, x, p) => ~OpensRaw(x)
  BY DEF Trims, K
<1>4. p - 1 \in K \cup {0}
  BY <1>1, <1>3
<1>5. L = K
  <2>1. \A i \in 1 .. b - 1 : source[i].kind # "char" => i \in 1 .. p - 1
    BY <1>1
  <2>2. \A i \in 1 .. p - 1 : i \in 1 .. b - 1 /\ i \notin R
    BY <1>1
  <2> QED
    BY <1>2, <2>1, <2>2
<1>6. \A x \in K : x \in Nat \ {0} /\ x <= p - 1
  BY <1>1, <1>2
<1>7. ASSUME NEW x \in K \cup {0}, NEW y \in K \cup {b}, x < y, Apart(K, x, y)
      PROVE  Settled(K, U, x, y)
  <2>1. CASE y = b
    <3>1. x = p - 1
      <4> SUFFICES ASSUME x # p - 1 PROVE FALSE
        OBVIOUS
      <4>1. x \in Nat /\ x < p - 1
        BY <1>1, <1>6
      <4>2. p - 1 \in K /\ p - 1 \in x + 1 .. y - 1
        BY <1>1, <1>4, <2>1, <4>1
      <4> QED
        BY <1>7, <4>2 DEF Apart
    <3>2. ~RawPair(p - 1, b)
      <4>1. CASE p - 1 = 0
        BY <4>1 DEF RawPair
      <4>2. CASE p - 1 # 0
        <5>1. p - 1 \in K /\ Apart(K, p - 1, p)
          BY <1>1, <1>4, <4>2 DEF Apart
        <5> QED
          BY <1>3, <5>1 DEF RawPair, OpensRaw
      <4> QED
        BY <4>1, <4>2
    <3>3. \A i \in p .. b - 1 : i \notin U <=> i \notin R
      BY <1>1, <1>3
    <3>4. \A i \in p .. b - 1 :
             Led(s, nl, p, i) <=> Led(DashLeads(K, p - 1), NewlineLeads(K, p - 1), p, i)
      BY <1>3 DEF Led
    <3>5. \A i \in p .. b - 1 : i \notin U <=>
             \/ Led(DashLeads(K, p - 1), NewlineLeads(K, p - 1), p, i)
             \/ b <= Len(source) /\ (Cut(b, i) \/ Stripped(p, b, i))
      BY <3>3, <3>4
    <3> QED
      BY <1>1, <2>1, <3>1, <3>2, <3>5 DEF Settled
  <2>2. CASE y # b
    <3>1. y \in K /\ y \in Nat /\ y <= p - 1 /\ x \in Nat
      BY <1>6, <2>2
    <3>2. Settled(K, T, x, y)
      BY <1>3, <1>7, <3>1
    <3>3. \A i \in x + 1 .. y - 1 : i \in T <=> i \in U
      BY <1>1, <3>1
    <3> QED
      BY <1>2, <3>1, <3>2, <3>3, SettledStays
  <2> QED
    BY <2>1, <2>2
<1>8. b - 1 \notin K
  BY <1>1, <1>6
<1>9. Leading(K, b - 1) = {}
  <2> SUFFICES ASSUME NEW j \in Leading(K, b - 1) PROVE FALSE
    OBVIOUS
  <2>1. j \in 1 .. b - 1 /\ j .. b - 1 \subseteq K
    BY DEF Leading
  <2>2. b - 1 \in j .. b - 1
    BY <1>1, <2>1
  <2> QED
    BY <1>8, <2>1, <2>2
<1>10. ~DashLeads(K, b - 1) /\ ~NewlineLeads(K, b - 1)
  BY <1>9 DEF DashLeads, NewlineLeads
<1>11. ASSUME NEW x \in K, Apart(K, x, b) PROVE ~OpensRaw(x)
  <2>1. Apart(K, x, p)
    <3>1. x + 1 .. p - 1 \subseteq x + 1 .. b - 1
      BY <1>1, <1>6
    <3> QED
      BY <1>11, <3>1 DEF Apart
  <2> QED
    BY <1>3, <2>1
<1>12. U \subseteq 1 .. b - 1
  BY <1>1, <1>3
<1>13. "normal" \notin RawTags
  BY DEF RawTags
<1>14. Trims(b, "normal", U, FALSE, FALSE)
  BY <1>5, <1>7, <1>10, <1>11, <1>12, <1>13 DEF Trims, L
<1> QED
  BY <1>14

(* The text of a raw block and its end, of which R is delivered.           *)
LEMMA RawTrims ==
    ASSUME source \in Seq(Piece), NEW p \in Nat \ {0}, NEW m \in RawTags,
           NEW T, NEW s, NEW nl, Trims(p, m, T, s, nl),
           NEW c \in p .. Len(source), IsTag(c, RawEnd(m)),
           NEW R \in SUBSET (p .. c - 1),
           \A i \in p .. c - 1 : i \notin R <=> Led(s, nl, p, i),
           NEW t, t <=> source[c].trimClose
    PROVE  Trims(c + 1, "normal", T \cup R, t, FALSE)
<1> DEFINE K == Bordering(T, p)
           U == T \cup R
           L == Bordering(U, c + 1)
<1>1. /\ Len(source) \in Nat /\ p \in Nat \ {0} /\ (p - 1) + 1 = p /\ c \in Nat \ {0}
      /\ p - 1 \in Nat /\ (c + 1) - 1 = c
  BY SourceIs
<1>2. /\ K \in SUBSET (Nat \ {0}) /\ L \in SUBSET (Nat \ {0})
      /\ \A i : i \in K <=> i \in 1 .. p - 1 /\ source[i].kind # "char" /\ i \notin T
      /\ \A i : i \in L <=> i \in 1 .. (c + 1) - 1 /\ source[i].kind # "char" /\ i \notin U
  BY <1>1, BorderingIs
<1> HIDE DEF K, L
<1>3. /\ T \subseteq 1 .. p - 1
      /\ \A x \in K \cup {0}, y \in K \cup {p} : x < y /\ Apart(K, x, y) => Settled(K, T, x, y)
      /\ s <=> DashLeads(K, p - 1)
      /\ nl <=> NewlineLeads(K, p - 1)
      /\ p - 1 \in K /\ IsTag(p - 1, m)
  BY DEF Trims, K
<1>4. source[c].kind = "tag" /\ ~OpensRaw(c)
  BY DEF IsTag, OpensRaw, RawTags, RawEnd
<1>5. \A x \in K : x \in Nat \ {0} /\ x <= p - 1
  BY <1>1, <1>2
<1>6. L = K \cup {c} /\ c \notin K
  <2>1. \A i \in p .. c - 1 : source[i].kind # "char" => i \in R
    BY DEF Led, White, Blank, Newline
  <2>2. \A i \in 1 .. p - 1 : i \in 1 .. c /\ i \notin R
    BY <1>1
  <2>3. c \notin U /\ c \in 1 .. c /\ source[c].kind # "char"
    BY <1>1, <1>3, <1>4
  <2>4. \A i \in 1 .. c : i \in 1 .. p - 1 \/ i \in p .. c - 1 \/ i = c
    BY <1>1
  <2>5. c \notin K
    BY <1>1, <1>5
  <2> QED
    BY <1>1, <1>2, <2>1, <2>2, <2>3, <2>4, <2>5
<1>7. \A j \in 1 .. p - 1 : j \in K <=> j \in L
  BY <1>1, <1>6
<1>8. RawPair(p - 1, c) /\ p - 1 # 0
  BY <1>3, <1>5 DEF RawPair
<1>9. ASSUME NEW x \in L \cup {0}, NEW y \in L \cup {c + 1}, x < y, Apart(L, x, y)
      PROVE  Settled(L, U, x, y)
  <2>1. CASE y = c + 1
    <3>1. x = c
      <4> SUFFICES ASSUME x # c PROVE FALSE
        OBVIOUS
      <4>1. x \in Nat /\ x < c
        BY <1>1, <1>5, <1>6
      <4>2. c \in x + 1 .. y - 1
        BY <1>1, <2>1, <4>1
      <4> QED
        BY <1>6, <1>9, <4>2 DEF Apart
    <3>2. x + 1 .. y - 1 = {}
      BY <1>1, <2>1, <3>1
    <3> QED
      BY <3>2 DEF Settled
  <2>2. CASE y = c
    <3>1. x \in K \cup {0} /\ x \in Nat /\ x <= p - 1
      BY <1>1, <1>5, <1>6, <1>9, <2>2
    <3>2. x = p - 1
      <4> SUFFICES ASSUME x # p - 1 PROVE FALSE
        OBVIOUS
      <4>1. p - 1 \in L /\ p - 1 \in x + 1 .. y - 1
        BY <1>1, <1>3, <1>6, <2>2, <3>1
      <4> QED
        BY <1>9, <4>1 DEF Apart
    <3>3. /\ DashLeads(K, p - 1) <=> DashLeads(L, p - 1)
          /\ NewlineLeads(K, p - 1) <=> NewlineLeads(L, p - 1)
      BY <1>1, <1>2, <1>7, SameLeads
    <3>4. \A i \in p .. c - 1 : i \notin U <=> i \notin R
      BY <1>1, <1>3
    <3>5. \A i \in p .. c - 1 :
             Led(s, nl, p, i) <=> Led(DashLeads(L, p - 1), NewlineLeads(L, p - 1), p, i)
      BY <1>3, <3>3 DEF Led
    <3>6. \A i \in p .. c - 1 : i \notin U <=>
             Led(DashLeads(L, p - 1), NewlineLeads(L, p - 1), p, i)
      BY <3>4, <3>5
    <3> QED
      BY <1>1, <1>8, <2>2, <3>2, <3>6 DEF Settled
  <2>3. CASE y # c /\ y # c + 1
    <3>1. y \in K /\ y \in Nat /\ y <= p - 1
      BY <1>5, <1>6, <2>3
    <3>2. x \in K \cup {0} /\ x \in Nat /\ x <= p - 1
      BY <1>1, <1>5, <1>6, <1>9, <3>1
    <3>3. Apart(K, x, y)
      BY <1>6, <1>9 DEF Apart
    <3>4. Settled(K, T, x, y)
      BY <1>3, <1>9, <3>1, <3>2, <3>3
    <3>5. \A i \in x + 1 .. y - 1 : i \in T <=> i \in U
      BY <1>1, <3>1, <3>2
    <3>6. \A j \in 1 .. x : j \in K <=> j \in L
      BY <1>1, <1>7, <3>2
    <3> QED
      BY <1>2, <3>1, <3>2, <3>4, <3>5, <3>6, SettledStays
  <2> QED
    BY <2>1, <2>2, <2>3
<1>10. Leading(L, c) = {c}
  <2>1. c \in Leading(L, c)
    <3>1. c .. c = {c} /\ c + 1 .. c = {} /\ c \in 1 .. c
      BY <1>1
    <3> QED
      BY <1>4, <1>6, <3>1 DEF Leading
  <2>2. ASSUME NEW j \in Leading(L, c), j # c PROVE FALSE
    <3>1. j \in 1 .. c /\ j .. c \subseteq L /\ \A k \in j + 1 .. c : ~RawPair(k - 1, k)
      BY DEF Leading
    <3>2. c - 1 \in j .. c /\ c \in j + 1 .. c
      BY <1>1, <2>2, <3>1
    <3>3. c - 1 \in K
      BY <1>1, <1>6, <3>1, <3>2
    <3>4. c = p
      BY <1>1, <1>5, <3>3
    <3> QED
      BY <1>8, <3>1, <3>2, <3>4
  <2> QED
    BY <2>1, <2>2
<1>11. t <=> DashLeads(L, c)
  BY <1>10 DEF DashLeads
<1>12. ClosesRaw(L, c)
  <2>1. p - 1 \in L /\ p - 1 < c
    BY <1>1, <1>3, <1>6
  <2>2. Apart(L, p - 1, c)
    <3> SUFFICES ASSUME NEW z \in L, z \in (p - 1) + 1 .. c - 1 PROVE FALSE
      BY DEF Apart
    <3> QED
      BY <1>1, <1>5, <1>6
  <2> QED
    BY <1>8, <2>1, <2>2 DEF ClosesRaw
<1>13. ~NewlineLeads(L, c)
  BY <1>10, <1>12 DEF NewlineLeads
<1>14. ASSUME NEW x \in L, Apart(L, x, c + 1) PROVE ~OpensRaw(x)
  <2>1. x = c
    <3> SUFFICES ASSUME x # c PROVE FALSE
      OBVIOUS
    <3>1. x \in Nat /\ x < c
      BY <1>1, <1>5, <1>6
    <3>2. c \in x + 1 .. (c + 1) - 1
      BY <1>1, <3>1
    <3> QED
      BY <1>6, <1>14, <3>2 DEF Apart
  <2> QED
    BY <1>4, <2>1
<1>15. U \subseteq 1 .. (c + 1) - 1
  BY <1>1, <1>3
<1>16. "normal" \notin RawTags
  BY DEF RawTags
<1>17. Trims(c + 1, "normal", U, t, FALSE)
  BY <1>1, <1>6, <1>9, <1>11, <1>13, <1>14, <1>15, <1>16 DEF Trims, L
<1> QED
  BY <1>17

(* The texts of one token more.                                            *)
LEMMA InTextsNext ==
    ASSUME NEW ts \in Seq(AnyToken), NEW t \in AnyToken
    PROVE  /\ t.tok = "text" => InTexts(Append(ts, t)) = InTexts(ts) \cup Range(t.at)
           /\ t.tok # "text" => InTexts(Append(ts, t)) = InTexts(ts)
<1> DEFINE us == Append(ts, t)
<1>1. /\ DOMAIN us = 1 .. Len(ts) + 1 /\ DOMAIN ts = 1 .. Len(ts) /\ Len(ts) \in Nat
      /\ \A k \in 1 .. Len(ts) : us[k] = ts[k]
      /\ us[Len(ts) + 1] = t
  OBVIOUS
<1> HIDE DEF us
<1>2. \A i : i \in InTexts(us) <=>
         \E k \in DOMAIN us : us[k].tok = "text" /\ i \in Range(us[k].at)
  BY DEF InTexts
<1>3. \A i : i \in InTexts(ts) <=>
         \E k \in DOMAIN ts : ts[k].tok = "text" /\ i \in Range(ts[k].at)
  BY DEF InTexts
<1>4. DOMAIN us = DOMAIN ts \cup {Len(ts) + 1} /\ \A k \in DOMAIN ts : us[k] = ts[k]
  BY <1>1
<1>5. \A i : i \in InTexts(us) <=> i \in InTexts(ts) \/ (t.tok = "text" /\ i \in Range(t.at))
  BY <1>1, <1>2, <1>3, <1>4
<1>6. t.tok = "text" => InTexts(us) = InTexts(ts) \cup Range(t.at)
  BY <1>5
<1>7. t.tok # "text" => InTexts(us) = InTexts(ts)
  BY <1>5
<1> QED
  BY <1>6, <1>7 DEF us

(* What is not text is no character.                                       *)
LEMMA RegionsNext ==
    ASSUME NEW ts \in Seq(AnyToken), RegionsOnly(ts), NEW t \in AnyToken,
           t.tok = "text" \/ \A i \in Range(t.at) : source[i].kind # "char"
    PROVE  RegionsOnly(Append(ts, t))
<1> DEFINE us == Append(ts, t)
<1>1. /\ DOMAIN us = 1 .. Len(ts) + 1 /\ DOMAIN ts = 1 .. Len(ts) /\ Len(ts) \in Nat
      /\ \A k \in 1 .. Len(ts) : us[k] = ts[k]
      /\ us[Len(ts) + 1] = t
  OBVIOUS
<1> HIDE DEF us
<1>2. \A k \in DOMAIN us : k = Len(ts) + 1 \/ (k \in DOMAIN ts /\ us[k] = ts[k])
  BY <1>1
<1>3. RegionsOnly(us)
  BY <1>1, <1>2 DEF RegionsOnly
<1> QED
  BY <1>3 DEF us

(* What a step of the lexer leaves.                                        *)
TrimNow ==
    /\ Trims(position', mode', InTexts(tokens'), strip', trimNewline')
    /\ RegionsOnly(All(tokens', pending'))

(* RestIsText: the flags drop what they ask for, and are used.             *)
LEMMA RestTrims == LexInv /\ TrimInv /\ AllClosed /\ RestIsText => TrimNow
<1> SUFFICES ASSUME LexInv, TrimInv, AllClosed, RestIsText PROVE TrimNow
  OBVIOUS
<1> DEFINE n == Len(source)
           text == LeadingStrip(Span(position, n + 1))
<1>1. /\ mode = "normal" /\ position <= n /\ NextOpener = 0
      /\ tokens' = Append(tokens, TextToken(text)) /\ position' = n + 1
      /\ mode' = mode /\ pending' = pending
      /\ strip' = FALSE /\ trimNewline' = FALSE
  BY DEF RestIsText, Normal, FlagsUsed
<1>2. /\ n \in Nat /\ position \in Nat \ {0} /\ pending = None
      /\ tokens \in Seq(AnyToken) /\ source \in Seq(Piece)
  BY ReadingNow DEF RestIsText, Normal
<1>3. /\ Trims(position, "normal", InTexts(tokens), strip, trimNewline)
      /\ RegionsOnly(tokens)
  BY <1>1, <1>2 DEF TrimInv, All
<1>4. \A i \in position .. n : source[i].kind = "char"
  <2> DEFINE S == {i \in position .. n : source[i].kind # "char"}
  <2>1. S \in SUBSET (Nat \ {0}) /\ NextOpener = First(S)
    BY <1>2 DEF NextOpener
  <2> HIDE DEF S
  <2>2. S = {}
    BY <1>1, <2>1, FirstMember
  <2> QED
    BY <2>2 DEF S
<1>5. position <= n + 1 /\ n + 1 \in Nat /\ n + 1 \in position + 1 .. n + 1
      /\ position \in 1 .. n /\ (n + 1) - 1 = n /\ ~(n + 1 <= n) /\ position \in position .. n
  BY <1>1, <1>2
<1>6. \A i \in position .. (n + 1) - 1 :
         i \notin Range(text) <=> Led(strip, trimNewline, position, i)
  BY <1>2, <1>5, LiteralIs
<1>7. text \in Seq(Nat) /\ Range(text) \in SUBSET (position .. (n + 1) - 1)
  BY <1>2, <1>5, TextKept, KeptPositions
<1>8. TextToken(text) \in AnyToken /\ TextToken(text).tok = "text" /\ TextToken(text).at = text
  BY <1>7 DEF TextToken, AnyToken, TextTokens
<1> HIDE DEF n, text
<1>9. Trims(n + 1, "normal", InTexts(tokens) \cup Range(text), FALSE, FALSE)
  BY <1>2, <1>3, <1>4, <1>5, <1>6, <1>7, TextTrims DEF n
<1>10. InTexts(tokens') = InTexts(tokens) \cup Range(text)
  BY <1>1, <1>2, <1>8, InTextsNext
<1>11. RegionsOnly(tokens')
  BY <1>1, <1>2, <1>3, <1>8, RegionsNext
<1> QED
  BY <1>1, <1>2, <1>9, <1>10, <1>11 DEF TrimNow, All

(* TextBefore: the next region drops what it asks for as well.             *)
LEMMA BeforeTrims == LexInv /\ TrimInv /\ AllClosed /\ TextBefore => TrimNow
<1> SUFFICES ASSUME LexInv, TrimInv, AllClosed, TextBefore PROVE TrimNow
  OBVIOUS
<1> DEFINE n == Len(source)
           b == NextOpener
           text == TextUpTo(b)
<1>1. /\ mode = "normal" /\ b > position /\ position' = b
      /\ tokens' = IF text = << >> THEN tokens ELSE Append(tokens, TextToken(text))
      /\ mode' = mode /\ pending' = pending
      /\ strip' = FALSE /\ trimNewline' = FALSE
  BY DEF TextBefore, Normal, FlagsUsed
<1>2. /\ n \in Nat /\ position \in Nat \ {0} /\ pending = None
      /\ tokens \in Seq(AnyToken) /\ source \in Seq(Piece)
  BY ReadingNow DEF TextBefore, Normal
<1>3. /\ Trims(position, "normal", InTexts(tokens), strip, trimNewline)
      /\ RegionsOnly(tokens)
  BY <1>1, <1>2 DEF TrimInv, All
<1>4. b \in position .. n /\ source[b].kind # "char"
  BY <1>1, <1>2, OpenerIs
<1>5. \A i \in position .. b - 1 : source[i].kind = "char"
  <2> DEFINE S == {i \in position .. n : source[i].kind # "char"}
  <2>1. S \in SUBSET (Nat \ {0}) /\ b = First(S)
    BY <1>2 DEF NextOpener
  <2>2. \A m \in S : b <= m
    <3> HIDE DEF S, b
    <3> QED
      BY <2>1, FirstMember
  <2> HIDE DEF b
  <2> SUFFICES ASSUME NEW i \in position .. b - 1, source[i].kind # "char" PROVE FALSE
    OBVIOUS
  <2>3. i \in S
    BY <1>2, <1>4
  <2>4. b <= i
    BY <2>2, <2>3
  <2> QED
    BY <1>2, <1>4, <2>4
<1> HIDE DEF b
<1>6. /\ position <= b /\ b \in Nat /\ b \in position + 1 .. n + 1 /\ b <= n
      /\ position \in 1 .. n /\ position \in position .. b - 1
  BY <1>1, <1>2, <1>4
<1>7. \A i \in position .. b - 1 :
         i \notin Range(text) <=>
            Led(strip, trimNewline, position, i) \/ (Cut(b, i) \/ Stripped(position, b, i))
  BY <1>2, <1>6, TextIs
<1>8. text \in Seq(Nat) /\ Range(text) \in SUBSET (position .. b - 1)
  BY <1>2, <1>6, TextKept, KeptPositions
<1>9. TextToken(text) \in AnyToken /\ TextToken(text).tok = "text" /\ TextToken(text).at = text
  BY <1>8 DEF TextToken, AnyToken, TextTokens
<1> HIDE DEF n, text
<1>10. Trims(b, "normal", InTexts(tokens) \cup Range(text), FALSE, FALSE)
  <2>1. source[position].kind = "char"
    BY <1>5, <1>6
  <2>2. \A i \in position .. b - 1 : i \notin Range(text) <=>
           Led(strip, trimNewline, position, i)
              \/ (b <= Len(source) /\ (Cut(b, i) \/ Stripped(position, b, i)))
    BY <1>6, <1>7 DEF n
  <2> QED
    BY <1>2, <1>3, <1>4, <1>5, <1>6, <1>8, <2>1, <2>2, TextTrims DEF n
<1>11. InTexts(tokens') = InTexts(tokens) \cup Range(text)
  <2>1. CASE text = << >>
    <3>1. Range(text) = {}
      BY <2>1 DEF Range
    <3> QED
      BY <1>1, <2>1, <3>1
  <2>2. CASE text # << >>
    BY <1>1, <1>2, <1>9, <2>2, InTextsNext
  <2> QED
    BY <2>1, <2>2
<1>12. RegionsOnly(tokens')
  BY <1>1, <1>2, <1>3, <1>9, RegionsNext
<1> QED
  BY <1>1, <1>2, <1>10, <1>11, <1>12 DEF TrimNow, All

(* A region that is closed is one piece.                                   *)
LEMMA ClosedEnd ==
    ASSUME LexInv, AllClosed, NEW kind \in {"comment", "tag", "var"}, At(kind)
    PROVE  /\ position \in 1 .. Len(source) /\ source[position].kind = kind
           /\ EndOf(position) = position /\ mode = "normal" /\ pending = None
           /\ source \in Seq(Piece) /\ tokens \in Seq(AnyToken)
           /\ source[position].closed
<1>1. /\ Len(source) \in Nat /\ position \in Nat \ {0} /\ source \in Seq(Piece)
      /\ tokens \in Seq(AnyToken) /\ pending = None
  BY ReadingNow DEF At, Normal
<1>2. /\ position \in 1 .. Len(source) /\ source[position].kind = kind /\ mode = "normal"
  BY <1>1 DEF At, Normal
<1>3. source[position].closed
  BY <1>1, <1>2, SourceIs DEF AllClosed
<1> QED
  BY <1>1, <1>2, <1>3 DEF EndOf

(* SkipComment: a comment leads to nothing, and hides no lead.             *)
LEMMA CommentTrims == LexInv /\ TrimInv /\ AllClosed /\ SkipComment => TrimNow
<1> SUFFICES ASSUME LexInv, TrimInv, AllClosed, SkipComment PROVE TrimNow
  OBVIOUS
<1>1. /\ At("comment") /\ position' = EndOf(position) + 1
      /\ tokens' = tokens /\ mode' = mode /\ pending' = pending
      /\ strip' = strip /\ trimNewline' = trimNewline
  BY DEF SkipComment, flags
<1>2. /\ position \in 1 .. Len(source) /\ source[position].kind = "comment"
      /\ EndOf(position) = position /\ mode = "normal" /\ pending = None
      /\ source \in Seq(Piece)
  BY <1>1, ClosedEnd
<1>3. /\ Trims(position, "normal", InTexts(tokens), strip, trimNewline)
      /\ RegionsOnly(tokens)
  BY <1>1, <1>2 DEF TrimInv, All
<1> DEFINE m == "normal"
<1>4. /\ m = "normal" => ~OpensRaw(position)
      /\ m \in RawTags => IsTag(position, m)
  BY <1>2 DEF OpensRaw, IsTag, RawTags
<1>5. Trims(position', m, InTexts(tokens), strip', trimNewline')
  <2>1. strip' <=> strip \/ (source[position].kind # "comment" /\ source[position].trimClose)
    BY <1>1, <1>2
  <2>2. trimNewline' <=> \/ trimNewline
                         \/ /\ source[position].kind = "tag"
                            /\ ~source[position].trimClose /\ opts.trim
    BY <1>1, <1>2
  <2>3. /\ source \in Seq(Piece) /\ position \in 1 .. Len(source)
        /\ source[position].kind # "char" /\ position' = position + 1
    BY <1>1, <1>2
  <2> HIDE DEF m
  <2> QED
    BY <1>3, <1>4, <2>1, <2>2, <2>3, RegionTrims
<1> QED
  BY <1>1, <1>2, <1>3, <1>5 DEF TrimNow, All

(* TakeVariable: its closing marker leads to what follows.                 *)
LEMMA VariableTrims == LexInv /\ TrimInv /\ AllClosed /\ TakeVariable => TrimNow
<1> SUFFICES ASSUME LexInv, TrimInv, AllClosed, TakeVariable PROVE TrimNow
  OBVIOUS
<1> DEFINE t == ExprToken(position)
<1>1. /\ At("var") /\ position' = position + 1
      /\ tokens' = Append(tokens, t) /\ mode' = mode /\ pending' = pending
      /\ strip' = (strip \/ source[position].trimClose) /\ trimNewline' = trimNewline
  BY DEF TakeVariable
<1>2. /\ position \in 1 .. Len(source) /\ source[position].kind = "var"
      /\ mode = "normal" /\ pending = None
      /\ source \in Seq(Piece) /\ tokens \in Seq(AnyToken)
  BY <1>1, ClosedEnd
<1>3. /\ Trims(position, "normal", InTexts(tokens), strip, trimNewline)
      /\ RegionsOnly(tokens)
  BY <1>1, <1>2 DEF TrimInv, All
<1> DEFINE m == "normal"
<1>4. /\ m = "normal" => ~OpensRaw(position)
      /\ m \in RawTags => IsTag(position, m)
  BY <1>2 DEF OpensRaw, IsTag, RawTags
<1>5. Trims(position', m, InTexts(tokens), strip', trimNewline')
  <2>1. strip' <=> strip \/ (source[position].kind # "comment" /\ source[position].trimClose)
    BY <1>1, <1>2
  <2>2. trimNewline' <=> \/ trimNewline
                         \/ /\ source[position].kind = "tag"
                            /\ ~source[position].trimClose /\ opts.trim
    BY <1>1, <1>2
  <2>3. /\ source \in Seq(Piece) /\ position \in 1 .. Len(source)
        /\ source[position].kind # "char" /\ position' = position + 1
    BY <1>1, <1>2
  <2> HIDE DEF m
  <2> QED
    BY <1>3, <1>4, <2>1, <2>2, <2>3, RegionTrims
<1>6. t \in AnyToken /\ t.tok = "expr" /\ Range(t.at) = {position}
  <2>1. source[position].head \in Seq(STRING) /\ position \in Nat
    BY <1>2, SourceIs
  <2>2. t \in VarTokens
    BY <1>2, <2>1 DEF ExprToken, VarTokens
  <2> QED
    BY <2>2 DEF AnyToken, ExprToken, Range
<1> HIDE DEF t
<1>7. InTexts(tokens') = InTexts(tokens)
  BY <1>1, <1>2, <1>6, InTextsNext
<1>8. RegionsOnly(tokens')
  BY <1>1, <1>2, <1>3, <1>6, RegionsNext
<1> QED
  BY <1>1, <1>2, <1>5, <1>7, <1>8 DEF TrimNow, All

(* TakeTag: so does its, and trim_blocks where there is none.              *)
LEMMA TagTrims == LexInv /\ TrimInv /\ AllClosed /\ TakeTag => TrimNow
<1> SUFFICES ASSUME LexInv, TrimInv, AllClosed, TakeTag PROVE TrimNow
  OBVIOUS
<1> DEFINE t == TagToken(position)
           kw == source[position].body.kw
           m == IF kw \in RawTags THEN kw ELSE mode
<1>1. /\ At("tag") /\ position' = EndOf(position) + 1
      /\ tokens' = Append(tokens, t) /\ mode' = m /\ pending' = pending
      /\ strip' = (strip \/ source[EndOf(position)].trimClose)
      /\ trimNewline' = (trimNewline \/ (~source[EndOf(position)].trimClose /\ opts.trim))
  BY DEF TakeTag
<1>2. /\ position \in 1 .. Len(source) /\ source[position].kind = "tag"
      /\ EndOf(position) = position /\ mode = "normal" /\ pending = None
      /\ source \in Seq(Piece) /\ tokens \in Seq(AnyToken)
      /\ source[position].closed
  BY <1>1, ClosedEnd
<1>3. /\ Trims(position, "normal", InTexts(tokens), strip, trimNewline)
      /\ RegionsOnly(tokens)
  BY <1>1, <1>2 DEF TrimInv, All
<1>4. /\ m = "normal" => ~OpensRaw(position)
      /\ m \in RawTags => IsTag(position, m)
  BY <1>2 DEF OpensRaw, IsTag, RawTags
<1>5. Trims(position', m, InTexts(tokens), strip', trimNewline')
  <2>1. strip' <=> strip \/ (source[position].kind # "comment" /\ source[position].trimClose)
    BY <1>1, <1>2
  <2>2. trimNewline' <=> \/ trimNewline
                         \/ /\ source[position].kind = "tag"
                            /\ ~source[position].trimClose /\ opts.trim
    BY <1>1, <1>2
  <2>3. /\ source \in Seq(Piece) /\ position \in 1 .. Len(source)
        /\ source[position].kind # "char" /\ position' = position + 1
    BY <1>1, <1>2
  <2> HIDE DEF m
  <2> QED
    BY <1>3, <1>4, <2>1, <2>2, <2>3, RegionTrims
<1>6. t \in AnyToken /\ t.tok = "tag" /\ Range(t.at) = {position}
  <2>1. source[position].body \in Body /\ position \in Nat
    BY <1>2, SourceIs
  <2>2. t \in TagTokens
    BY <1>2, <2>1 DEF TagToken, TagTokens
  <2> QED
    BY <2>2 DEF AnyToken, TagToken, Range
<1> HIDE DEF t, m
<1>7. InTexts(tokens') = InTexts(tokens)
  BY <1>1, <1>2, <1>6, InTextsNext
<1>8. RegionsOnly(tokens')
  BY <1>1, <1>2, <1>3, <1>6, RegionsNext
<1> QED
  BY <1>1, <1>2, <1>5, <1>7, <1>8 DEF TrimNow, All

(* TakeRaw: the block is one text, of which its end drops nothing.         *)
LEMMA RawStepTrims == LexInv /\ TrimInv /\ AllClosed /\ TakeRaw => TrimNow
<1> SUFFICES ASSUME LexInv, TrimInv, AllClosed, TakeRaw PROVE TrimNow
  OBVIOUS
<1> DEFINE n == Len(source)
           c == RawCloses
           literal == LeadingStrip(Span(position, c))
           x == TextToken(literal)
           t == TagToken(c)
<1>1. /\ mode \in RawTags /\ c # 0 /\ position' = c + 1
      /\ tokens' = Append(tokens, IF literal = << >> THEN t ELSE x)
      /\ pending' = (IF literal = << >> THEN None ELSE t)
      /\ mode' = "normal"
      /\ strip' = source[c].trimClose /\ trimNewline' = FALSE
  BY DEF TakeRaw
<1>2. /\ n \in Nat /\ position \in Nat \ {0} /\ pending = None
      /\ tokens \in Seq(AnyToken) /\ source \in Seq(Piece)
  BY ReadingNow DEF TakeRaw
<1>3. c \in position .. n /\ IsTag(c, RawEnd(mode))
  BY <1>1, <1>2, CloseIs DEF RawCloses
<1> HIDE DEF c
<1>4. /\ c \in Nat /\ position <= c /\ c \in 1 .. Len(source)
  BY <1>2, <1>3
<1>5. /\ Trims(position, mode, InTexts(tokens), strip, trimNewline)
      /\ RegionsOnly(tokens)
  BY <1>1, <1>2 DEF TrimInv, All
<1>6. \A i \in position .. c - 1 :
         i \notin Range(literal) <=> Led(strip, trimNewline, position, i)
  BY <1>2, <1>4, LiteralIs
<1>7. literal \in Seq(Nat) /\ Range(literal) \in SUBSET (position .. c - 1)
  BY <1>2, <1>4, TextKept, KeptPositions
<1>8. x \in AnyToken /\ x.tok = "text" /\ x.at = literal
  BY <1>7 DEF TextToken, AnyToken, TextTokens
<1>9. t \in AnyToken /\ t.tok = "tag" /\ Range(t.at) = {c} /\ source[c].kind = "tag"
      /\ t # None
  <2>1. source[c].kind = "tag"
    BY <1>3 DEF IsTag
  <2>2. source[c].body \in Body
    BY <1>2, <1>4, <2>1, SourceIs
  <2>3. t \in TagTokens
    BY <1>4, <2>2 DEF TagToken, TagTokens
  <2>4. t # None
    BY <2>3, NoneIsNoToken DEF TagTokens
  <2> QED
    BY <2>1, <2>3, <2>4 DEF AnyToken, TagToken, Range
<1> HIDE DEF literal, x, t
<1>10. Trims(c + 1, "normal", InTexts(tokens) \cup Range(literal), strip', FALSE)
  BY <1>1, <1>2, <1>3, <1>5, <1>6, <1>7, RawTrims
<1>11. RegionsOnly(Append(tokens, t)) /\ InTexts(Append(tokens, t)) = InTexts(tokens)
  BY <1>2, <1>5, <1>9, InTextsNext, RegionsNext
<1>12. /\ Append(tokens, x) \in Seq(AnyToken)
       /\ InTexts(Append(tokens, x)) = InTexts(tokens) \cup Range(literal)
       /\ RegionsOnly(Append(Append(tokens, x), t))
  <2>1. Append(tokens, x) \in Seq(AnyToken) /\ RegionsOnly(Append(tokens, x))
    BY <1>2, <1>5, <1>8, RegionsNext
  <2>2. RegionsOnly(Append(Append(tokens, x), t))
    BY <1>9, <2>1, RegionsNext
  <2> QED
    BY <1>2, <1>8, <2>1, <2>2, InTextsNext
<1>13. CASE literal = << >>
  <2>1. Range(literal) = {}
    BY <1>13 DEF Range
  <2> QED
    BY <1>1, <1>10, <1>11, <1>13, <2>1 DEF TrimNow, All
<1>14. CASE literal # << >>
  BY <1>1, <1>9, <1>10, <1>12, <1>14 DEF TrimNow, All
<1> QED
  BY <1>13, <1>14

(* TakePending: the end of a raw block is no text.                         *)
LEMMA PendingTrims == LexInv /\ TrimInv /\ AllClosed /\ TakePending => TrimNow
<1> SUFFICES ASSUME LexInv, TrimInv, AllClosed, TakePending PROVE TrimNow
  OBVIOUS
<1>1. /\ pending # None /\ tokens' = Append(tokens, pending) /\ pending' = None
      /\ position' = position /\ mode' = mode
      /\ strip' = strip /\ trimNewline' = trimNewline
  BY DEF TakePending, flags
<1>2. pending \in TagTokens /\ tokens \in Seq(AnyToken)
  BY <1>1 DEF LexInv, Lexed
<1>3. pending \in AnyToken /\ pending.tok = "tag"
  BY <1>2 DEF TagTokens, AnyToken
<1>4. InTexts(tokens') = InTexts(tokens)
  BY <1>1, <1>2, <1>3, InTextsNext
<1>5. All(tokens', pending') = All(tokens, pending)
  BY <1>1 DEF All
<1> QED
  BY <1>1, <1>4, <1>5 DEF TrimNow, TrimInv

(* Unclosed and EndOfInput leave the flags and the text as they are.       *)
LEMMA EndTrims == LexInv /\ TrimInv /\ AllClosed /\ (Unclosed \/ EndOfInput) => TrimNow
<1> SUFFICES ASSUME LexInv, TrimInv, AllClosed, Unclosed \/ EndOfInput PROVE TrimNow
  OBVIOUS
<1>1. /\ position' = position /\ mode' = mode /\ pending' = pending
      /\ strip' = strip /\ trimNewline' = trimNewline
      /\ tokens' = tokens \/ (tokens' = <<TextToken(<< >>)>> /\ source = << >> /\ pending = None)
  BY DEF Unclosed, EndOfInput, flags, Reading
<1>2. CASE tokens' = tokens
  BY <1>1, <1>2 DEF TrimNow, TrimInv
<1>3. CASE tokens' # tokens
  <2>1. tokens' = <<TextToken(<< >>)>> /\ source = << >> /\ pending = None
    BY <1>1, <1>3
  <2>2. InTexts(tokens') = {}
    <3>1. DOMAIN tokens' = {1} /\ tokens'[1].at = << >>
      BY <2>1 DEF TextToken
    <3> QED
      BY <3>1 DEF InTexts, Range
  <2>3. InTexts(tokens) = {}
    <3>1. Trims(position, mode, InTexts(tokens), strip, trimNewline)
      BY DEF TrimInv
    <3>2. InTexts(tokens) \subseteq 1 .. position - 1 /\ position \in 1 .. 0 + 1
      BY <2>1, <3>1 DEF Trims, LexInv, Lexed
    <3> QED
      BY <3>2
  <2>4. RegionsOnly(tokens')
    BY <2>1 DEF RegionsOnly, TextToken
  <2> QED
    BY <1>1, <2>1, <2>2, <2>3, <2>4 DEF TrimNow, TrimInv, All
<1> QED
  BY <1>2, <1>3

(* What is said of the source stays so while the source does.              *)
LEMMA TrimStays == TrimNow /\ source' = source /\ opts' = opts => TrimInv'
<1> SUFFICES ASSUME TrimNow, source' = source, opts' = opts PROVE TrimInv'
  OBVIOUS
<1>1. \A K, x, y : Apart(K, x, y)' <=> Apart(K, x, y)
  BY DEF Apart
<1>2. /\ \A x, name : IsTag(x, name)' <=> IsTag(x, name)
      /\ \A x : OpensRaw(x)' <=> OpensRaw(x)
  BY DEF OpensRaw, IsTag, RawTags
<1>3. \A x, y : RawPair(x, y)' <=> RawPair(x, y)
  BY <1>2 DEF RawPair, IsTag, RawTags, RawEnd
<1>4. \A K, b : /\ DashLeads(K, b)' <=> DashLeads(K, b)
                /\ NewlineLeads(K, b)' <=> NewlineLeads(K, b)
  <2>1. \A K, j : ClosesRaw(K, j)' <=> ClosesRaw(K, j)
    BY <1>1, <1>3 DEF ClosesRaw
  <2>2. \A K, b : Leading(K, b)' = Leading(K, b)
    BY <1>3 DEF Leading
  <2> QED
    BY <2>1, <2>2 DEF DashLeads, NewlineLeads
<1>5. \A K, T, x, y : Settled(K, T, x, y)' <=> Settled(K, T, x, y)
  <2>1. \A K, x, i :
           Led(DashLeads(K, x), NewlineLeads(K, x), x + 1, i)'
              <=> Led(DashLeads(K, x), NewlineLeads(K, x), x + 1, i)
    BY <1>4 DEF Led, White, Blank, Newline
  <2>2. \A b, i : Cut(b, i)' <=> Cut(b, i)
    BY DEF Cut, White, Blank, Newline
  <2>3. \A a, b, i : Stripped(a, b, i)' <=> Stripped(a, b, i)
    BY DEF Stripped, Blank, Newline
  <2> QED
    BY <1>3, <2>1, <2>2, <2>3 DEF Settled
<1>6. \A T, p : Bordering(T, p)' = Bordering(T, p)
  BY DEF Bordering
<1>7. ASSUME NEW p, NEW m, NEW T, NEW dash, NEW newline, Trims(p, m, T, dash, newline)
      PROVE  Trims(p, m, T, dash, newline)'
  <2>1. PICK K : K = Bordering(T, p) /\ K = Bordering(T, p)'
    BY <1>6
  <2>2. /\ T \subseteq 1 .. p - 1
        /\ p = Len(source) + 1 \/ p - 1 \in K \cup {0} \/ source[p].kind # "char"
        /\ \A x \in K \cup {0}, y \in K \cup {p} :
              x < y /\ Apart(K, x, y) => Settled(K, T, x, y)
        /\ dash <=> DashLeads(K, p - 1)
        /\ newline <=> NewlineLeads(K, p - 1)
        /\ m = "normal" => \A x \in K : Apart(K, x, p) => ~OpensRaw(x)
        /\ m \in RawTags => p - 1 \in K /\ IsTag(p - 1, m)
    BY <1>7, <2>1 DEF Trims
  <2>3. /\ T \subseteq 1 .. p - 1
        /\ p = Len(source)' + 1 \/ p - 1 \in K \cup {0} \/ source'[p].kind # "char"
        /\ \A x \in K \cup {0}, y \in K \cup {p} :
              x < y /\ Apart(K, x, y)' => Settled(K, T, x, y)'
        /\ dash <=> DashLeads(K, p - 1)'
        /\ newline <=> NewlineLeads(K, p - 1)'
        /\ m = "normal" => \A x \in K : Apart(K, x, p)' => ~OpensRaw(x)'
        /\ m \in RawTags' => p - 1 \in K /\ IsTag(p - 1, m)'
    BY <1>1, <1>2, <1>4, <1>5, <2>2 DEF RawTags
  <2> QED
    BY <2>1, <2>3 DEF Trims
<1> QED
  BY <1>7 DEF TrimNow, TrimInv, RegionsOnly, InTexts, All

(* A step of the lexer.                                                    *)
LEMMA TrimStep == LexInv /\ TrimInv /\ LexNext => TrimInv'
<1> SUFFICES ASSUME LexInv, TrimInv, LexNext PROVE TrimInv'
  OBVIOUS
<1>1. source' = source /\ opts' = opts
  BY DEF LexNext, RestIsText, SkipComment, TakeTag, TakeVariable, TextBefore, TakeRaw,
         TakePending, Unclosed, EndOfInput, input
<1>2. CASE ~AllClosed
  BY <1>1, <1>2 DEF TrimInv, AllClosed
<1>3. CASE AllClosed
  <2>1. TrimNow
    BY <1>3, RestTrims, BeforeTrims, CommentTrims, VariableTrims, TagTrims, RawStepTrims,
       PendingTrims, EndTrims DEF LexNext
  <2> QED
    BY <1>1, <2>1, TrimStays
<1> QED
  BY <1>2, <1>3

(* Where the lexer begins.                                                 *)
LEMMA TrimBegins == Init => TrimInv
<1> SUFFICES ASSUME Init PROVE TrimInv
  OBVIOUS
<1>1. /\ position = 1 /\ mode = "normal" /\ pending = None /\ tokens = << >>
      /\ strip = FALSE /\ trimNewline = FALSE
  BY DEF Init, LexInit
<1>2. InTexts(tokens) = {} /\ RegionsOnly(All(tokens, pending))
  BY <1>1 DEF InTexts, RegionsOnly, All
<1>3. Bordering({}, 1) = {}
  BY DEF Bordering
<1>4. Trims(1, "normal", {}, FALSE, FALSE)
  <2> DEFINE K == Bordering({}, 1)
  <2>1. \A x \in K \cup {0}, y \in K \cup {1} : Settled(K, {}, x, y)
    <3>1. Settled({}, {}, 0, 1)
      BY DEF Settled
    <3> QED
      BY <1>3, <3>1
  <2>2. Leading(K, 0) = {}
    BY DEF Leading
  <2> QED
    BY <1>3, <2>1, <2>2 DEF Trims, DashLeads, NewlineLeads, RawTags
<1> QED
  BY <1>1, <1>2, <1>4 DEF TrimInv

(* The border before a position is the one from which no border parts it.  *)
LEMMA BeforeIs ==
    ASSUME source \in Seq(Piece), NEW j \in 1 .. Len(source)
    PROVE  /\ Before(j) \in Borders \cup {0} /\ Before(j) \in 0 .. j - 1
           /\ Apart(Borders, Before(j), j)
           /\ \A x \in Borders \cup {0} : x < j /\ Apart(Borders, x, j) => x = Before(j)
<1> DEFINE S == {k \in Borders : k < j}
           x == Before(j)
<1>1. Borders \in SUBSET (1 .. Len(source)) /\ Len(source) \in Nat
  BY SourceIs DEF Borders
<1>2. S \in SUBSET (1 .. j - 1) /\ j - 1 \in Nat
  <2>1. \A k \in Borders : k < j => k \in 1 .. j - 1
    BY <1>1
  <2>2. j - 1 \in Nat
    BY <1>1
  <2> QED
    BY <2>1, <2>2
<1>3. x = Latest(S)
  BY DEF Before
<1>4. \A k : k \in S <=> k \in Borders /\ k < j
  OBVIOUS
<1> HIDE DEF S, x
<1>5. x \in 0 .. j - 1 /\ (S = {} => x = 0) /\ (S # {} => x \in S) /\ \A k \in S : k <= x
  BY <1>2, <1>3, LatestMember
<1>6. x \in Borders \cup {0}
  BY <1>4, <1>5
<1>7. Apart(Borders, x, j)
  <2> SUFFICES ASSUME NEW k \in Borders, k \in x + 1 .. j - 1 PROVE FALSE
    BY DEF Apart
  <2>1. k < j /\ ~(k <= x)
    BY <1>5
  <2> QED
    BY <1>4, <1>5, <2>1
<1>8. ASSUME NEW z \in Borders \cup {0}, z < j, Apart(Borders, z, j) PROVE z = x
  <2>1. CASE z < x
    <3>1. x \in z + 1 .. j - 1 /\ x \in Borders
      BY <1>1, <1>5, <1>6, <2>1
    <3> QED
      BY <1>8, <3>1 DEF Apart
  <2>2. CASE x < z
    <3>1. z \in Borders /\ ~(z <= x)
      BY <1>1, <1>5, <2>2
    <3> QED
      BY <1>4, <1>5, <1>8, <3>1
  <2>3. z \in Nat /\ x \in Nat
    BY <1>1, <1>5
  <2> QED
    BY <2>1, <2>2, <2>3
<1> QED
  BY <1>5, <1>6, <1>7, <1>8 DEF x

(* The border after a piece that is none, and the one before it.           *)
LEMMA AfterIs ==
    ASSUME source \in Seq(Piece), NEW i \in 1 .. Len(source), i \notin Borders
    PROVE  /\ After(i) \in Borders \cup {Len(source) + 1} /\ After(i) \in i + 1 .. Len(source) + 1
           /\ Apart(Borders, Before(i), After(i))
<1> DEFINE B == {j \in Borders : j > i}
           x == Before(i)
           y == After(i)
<1>1. Borders \in SUBSET (1 .. Len(source)) /\ Len(source) \in Nat
  BY SourceIs DEF Borders
<1>2. B \in SUBSET (Nat \ {0})
  <2>1. \A k \in Borders : k \in Nat \ {0}
    BY <1>1
  <2> QED
    BY <2>1
<1>3. y = IF B = {} THEN Len(source) + 1 ELSE First(B)
  BY DEF After, First
<1>4. \A k : k \in B <=> k \in Borders /\ k > i
  OBVIOUS
<1>5. x \in 0 .. i - 1 /\ Apart(Borders, x, i)
  BY BeforeIs
<1> HIDE DEF B, x, y
<1>6. B # {} => First(B) \in B /\ \A k \in B : First(B) <= k
  BY <1>2, FirstMember
<1>7. y \in Borders \cup {Len(source) + 1} /\ y \in i + 1 .. Len(source) + 1
  BY <1>1, <1>3, <1>4, <1>6
<1>8. Apart(Borders, x, y)
  <2> SUFFICES ASSUME NEW k \in Borders, k \in x + 1 .. y - 1 PROVE FALSE
    BY DEF Apart
  <2>1. CASE k > i
    BY <1>1, <1>3, <1>4, <1>6, <1>7, <2>1
  <2>2. CASE k < i
    <3>1. k \in x + 1 .. i - 1
      BY <1>1, <1>5, <2>2
    <3> QED
      BY <1>5, <3>1 DEF Apart
  <2> QED
    BY <1>1, <2>1, <2>2
<1> QED
  BY <1>7, <1>8 DEF x, y

(* The end of a raw block, said of the borders.                            *)
LEMMA EndsRawIs ==
    ASSUME source \in Seq(Piece), NEW j \in Borders
    PROVE  /\ EndsRaw(j) <=> RawPair(Before(j), j)
           /\ EndsRaw(j) <=> ClosesRaw(Borders, j)
<1>1. j \in 1 .. Len(source) /\ Len(source) \in Nat
  BY SourceIs DEF Borders
<1> DEFINE x == Before(j)
<1>2. /\ x \in Borders \cup {0} /\ x \in 0 .. j - 1 /\ Apart(Borders, x, j)
      /\ \A z \in Borders \cup {0} : z < j /\ Apart(Borders, z, j) => z = x
  BY <1>1, BeforeIs
<1>3. EndsRaw(j) <=> RawPair(x, j)
  BY <1>1 DEF EndsRaw, RawPair
<1> HIDE DEF x
<1>4. RawPair(x, j) <=> ClosesRaw(Borders, j)
  <2>1. RawPair(x, j) => x # 0
    BY DEF RawPair
  <2>2. x < j
    BY <1>1, <1>2
  <2> QED
    BY <1>2, <2>1, <2>2 DEF ClosesRaw
<1> QED
  BY <1>3, <1>4 DEF x

(* The regions that lead to a text, said of the border before it.          *)
LEMMA LeadsIs ==
    ASSUME source \in Seq(Piece), NEW i \in 1 .. Len(source)
    PROVE  Leads(i) = Leading(Borders, Before(i))
<1> DEFINE x == Before(i)
<1>1. Borders \in SUBSET (1 .. Len(source)) /\ Len(source) \in Nat
  BY SourceIs DEF Borders
<1>2. x \in 0 .. i - 1 /\ Apart(Borders, x, i)
  BY BeforeIs
<1>3. \A j : j \in Leads(i) <=>
         /\ j \in Borders /\ j < i /\ j .. x \subseteq Borders /\ source[j].kind # "comment"
         /\ \A k \in j + 1 .. x : ~EndsRaw(k)
  BY DEF Leads
<1> HIDE DEF x
<1>4. ASSUME NEW j \in 1 .. x, j .. x \subseteq Borders, NEW k \in j + 1 .. x
      PROVE  EndsRaw(k) <=> RawPair(k - 1, k)
  <2>1. k \in Borders /\ k - 1 \in Borders /\ k \in 1 .. Len(source) /\ k - 1 < k
    <3>1. k \in j .. x /\ k - 1 \in j .. x
      BY <1>2
    <3>2. k \in Borders /\ k - 1 \in Borders
      BY <1>4, <3>1
    <3> QED
      BY <1>1, <1>2, <3>2
  <2>2. Apart(Borders, k - 1, k)
    BY <1>2 DEF Apart
  <2>3. Before(k) = k - 1
    BY <2>1, <2>2, BeforeIs
  <2> QED
    BY <2>1, <2>3, EndsRawIs
<1>5. ASSUME NEW j \in Borders, j < i PROVE j \in 1 .. x
  <2>1. j \in Nat \ {0}
    BY <1>1
  <2>2. ~(j > x)
    <3> SUFFICES ASSUME j > x PROVE FALSE
      OBVIOUS
    <3>1. j \in x + 1 .. i - 1
      BY <1>2, <1>5, <2>1
    <3> QED
      BY <1>2, <3>1 DEF Apart
  <2> QED
    BY <1>2, <2>1, <2>2
<1>6. ASSUME NEW j \in 1 .. x, j .. x \subseteq Borders PROVE j \in Borders /\ j < i
  <2>1. j \in j .. x /\ j < i
    BY <1>2
  <2> QED
    BY <1>6, <2>1
<1>7. \A j : j \in Leading(Borders, x) <=>
         /\ j \in 1 .. x /\ j .. x \subseteq Borders /\ source[j].kind # "comment"
         /\ \A k \in j + 1 .. x : ~RawPair(k - 1, k)
  BY DEF Leading
<1>8. \A j : j \in Leads(i) <=> j \in Leading(Borders, x)
  BY <1>3, <1>4, <1>5, <1>6, <1>7
<1>9. Leads(i) = Leading(Borders, x)
  BY <1>8 DEF Leads, Leading
<1> QED
  BY <1>9 DEF x

(* What is asked of a text by what leads to it.                            *)
LEMMA AskedBefore ==
    ASSUME source \in Seq(Piece), NEW i \in 1 .. Len(source)
    PROVE  AskedByDash(i) \/ AskedByTrimBlocks(i) <=>
              Led(DashLeads(Borders, Before(i)), NewlineLeads(Borders, Before(i)), Before(i) + 1, i)
<1> DEFINE x == Before(i)
           K == Borders
<1>1. K \in SUBSET (1 .. Len(source)) /\ Len(source) \in Nat /\ x \in 0 .. i - 1
  BY SourceIs, BeforeIs DEF Borders
<1>2. Leads(i) = Leading(K, x)
  BY LeadsIs
<1>3. Leading(K, x) \subseteq K
  <2> SUFFICES ASSUME NEW j \in Leading(K, x) PROVE j \in K
    OBVIOUS
  <2>1. j \in 1 .. x /\ j .. x \subseteq K
    BY DEF Leading
  <2>2. j \in j .. x
    BY <1>1, <2>1
  <2> QED
    BY <2>1, <2>2
<1>4. AskedByDash(i) <=> DashLeads(K, x) /\ \A k \in x + 1 .. i : White(k)
  BY <1>2 DEF AskedByDash, DashLeads
<1>5. \A j \in Leading(K, x) : EndsRaw(j) <=> ClosesRaw(K, j)
  BY <1>3, EndsRawIs
<1>6. AskedByTrimBlocks(i) <=>
         /\ opts.trim /\ Newline(i) /\ i = x + 1
         /\ \E j \in Leading(K, x) : source[j].kind = "tag" /\ ~ClosesRaw(K, j)
  BY <1>2, <1>5 DEF AskedByTrimBlocks
<1> HIDE DEF x, K
<1>7. ASSUME AskedByTrimBlocks(i), ~NewlineLeads(K, x) PROVE AskedByDash(i)
  <2>1. DashLeads(K, x)
    BY <1>6, <1>7 DEF NewlineLeads, DashLeads
  <2>2. x + 1 .. i = {i} /\ White(i)
    BY <1>1, <1>6, <1>7 DEF White
  <2> QED
    BY <1>4, <2>1, <2>2
<1>8. NewlineLeads(K, x) /\ i = x + 1 /\ Newline(i) => AskedByTrimBlocks(i)
  BY <1>6 DEF NewlineLeads
<1>9. AskedByTrimBlocks(i) => i = x + 1 /\ Newline(i)
  BY <1>6
<1>10. Led(DashLeads(K, x), NewlineLeads(K, x), x + 1, i) <=>
          AskedByDash(i) \/ (NewlineLeads(K, x) /\ i = x + 1 /\ Newline(i))
  BY <1>4 DEF Led
<1>11. AskedByDash(i) \/ AskedByTrimBlocks(i) <=>
          Led(DashLeads(K, x), NewlineLeads(K, x), x + 1, i)
  BY <1>7, <1>8, <1>9, <1>10
<1> QED
  BY <1>11 DEF x, K

(* What is asked of a text by what follows it.                             *)
LEMMA AskedAfter ==
    ASSUME source \in Seq(Piece), NEW i \in 1 .. Len(source), i \notin Borders
    PROVE  AskedByNextDash(i) \/ AskedByLstrip(i) <=>
              /\ After(i) <= Len(source) /\ ~RawPair(Before(i), After(i))
              /\ Cut(After(i), i) \/ Stripped(Before(i) + 1, After(i), i)
<1> DEFINE x == Before(i)
           y == After(i)
<1>1. Borders \in SUBSET (1 .. Len(source)) /\ Len(source) \in Nat
  BY SourceIs DEF Borders
<1>2. /\ x \in Borders \cup {0} /\ x \in 0 .. i - 1
      /\ y \in Borders \cup {Len(source) + 1} /\ y \in i + 1 .. Len(source) + 1
      /\ Apart(Borders, x, y)
  BY BeforeIs, AfterIs
<1> HIDE DEF x, y
<1>3. y <= Len(source) => (EndsRaw(y) <=> RawPair(x, y))
  <2> SUFFICES ASSUME y <= Len(source) PROVE EndsRaw(y) <=> RawPair(x, y)
    OBVIOUS
  <2>1. y \in Borders /\ y \in 1 .. Len(source) /\ x < y
    BY <1>1, <1>2
  <2>2. x = Before(y)
    BY <1>2, <2>1, BeforeIs
  <2> QED
    BY <2>1, <2>2, EndsRawIs
<1>4. AskedByNextDash(i) <=> y <= Len(source) /\ ~EndsRaw(y) /\ Cut(y, i)
  BY DEF AskedByNextDash, Cut, y
<1>5. AskedByLstrip(i) <=> y <= Len(source) /\ ~EndsRaw(y) /\ Stripped(x + 1, y, i)
  BY DEF AskedByLstrip, Stripped, x, y
<1>6. AskedByNextDash(i) \/ AskedByLstrip(i) <=>
         /\ y <= Len(source) /\ ~RawPair(x, y)
         /\ Cut(y, i) \/ Stripped(x + 1, y, i)
  BY <1>3, <1>4, <1>5
<1> QED
  BY <1>6 DEF x, y

(* At the end, all that was settled is all that is asked.                  *)
LEMMA AsAsked == LexInv /\ TrimInv => TrimmedWhereAsked
<1> SUFFICES ASSUME LexInv, TrimInv, lexing = "done",
                    \A i \in DOMAIN source : source[i].kind = "char" \/ source[i].closed,
                    NEW i \in DOMAIN source, source[i].kind = "char"
             PROVE  i \notin Delivered <=> \/ AskedByDash(i) \/ AskedByTrimBlocks(i)
                                           \/ AskedByNextDash(i) \/ AskedByLstrip(i)
  BY DEF TrimmedWhereAsked
<1> DEFINE n == Len(source)
           T == InTexts(tokens)
           x == Before(i)
           y == After(i)
<1>1. /\ position = n + 1 /\ pending = None /\ tokens \in Seq(AnyToken)
      /\ source \in Seq(Piece)
  BY DEF LexInv, Lexed
<1>2. n \in Nat /\ DOMAIN source = 1 .. n /\ i \in 1 .. n /\ (n + 1) - 1 = n
  BY <1>1, SourceIs
<1>3. Borders = Bordering(T, n + 1)
  BY <1>2 DEF Borders, Bordering, InTexts
<1>4. Trims(n + 1, mode, T, strip, trimNewline) /\ RegionsOnly(tokens)
  BY <1>1 DEF TrimInv, AllClosed, All
<1>5. i \in Delivered <=> i \in T
  BY <1>4 DEF RegionsOnly, Delivered, InTexts
<1>6. i \notin Borders
  BY <1>3 DEF Bordering
<1>7. /\ x \in Borders \cup {0} /\ x \in 0 .. i - 1
      /\ y \in Borders \cup {n + 1} /\ y \in i + 1 .. n + 1
      /\ Apart(Borders, x, y)
  BY <1>1, <1>2, <1>6, BeforeIs, AfterIs
<1> HIDE DEF n, T, x, y
<1>8. i \in x + 1 .. y - 1 /\ x < y
  BY <1>2, <1>7
<1>9. Settled(Borders, T, x, y)
  BY <1>3, <1>4, <1>7, <1>8 DEF Trims
<1>10. i \notin T <=> \/ Led(DashLeads(Borders, x), NewlineLeads(Borders, x), x + 1, i)
                      \/ /\ y <= Len(source) /\ ~RawPair(x, y)
                         /\ Cut(y, i) \/ Stripped(x + 1, y, i)
  BY <1>8, <1>9 DEF Settled
<1> QED
  BY <1>1, <1>2, <1>5, <1>6, <1>10, AskedBefore, AskedAfter DEF n, x, y

(* Whitespace is dropped exactly where a marker or an option asks for it.  *)
THEOREM TrimmedAsAsked == Spec => []TrimmedWhereAsked
<1>1. IInv /\ TrimInv /\ [Next]_vars => TrimInv'
  <2> SUFFICES ASSUME IInv, TrimInv, [Next]_vars PROVE TrimInv'
    OBVIOUS
  <2>1. CASE LexNext
    BY <2>1, TrimStep DEF IInv
  <2>2. CASE ParseNext \/ UNCHANGED vars
    <3>1. /\ source' = source /\ opts' = opts /\ position' = position /\ mode' = mode
          /\ pending' = pending /\ strip' = strip /\ trimNewline' = trimNewline
          /\ tokens' = tokens
      BY <2>2 DEF ParseNext, ParseLeaf, OpenBlock, NextSection, CloseBlock, Reject, Finish,
                  Taken, vars, input, lexer, flags
    <3>2. CASE AllClosed
      <4>1. TrimNow
        BY <3>1, <3>2 DEF TrimInv, TrimNow
      <4> QED
        BY <3>1, <4>1, TrimStays
    <3>3. CASE ~AllClosed
      BY <3>1, <3>3 DEF TrimInv, AllClosed
    <3> QED
      BY <3>2, <3>3
  <2> QED
    BY <2>1, <2>2 DEF Next, Lexing
<1>2. IInv /\ TrimInv => TrimmedWhereAsked
  BY AsAsked DEF IInv
<1> QED
  BY <1>1, <1>2, TrimBegins, Inductive, PTL DEF Spec
=============================================================================
