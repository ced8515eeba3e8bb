-------------------------------- MODULE Lexer --------------------------------
(***************************************************************************)
(* The lexer (lexer.rs): a source becomes text, expression and tag tokens, *)
(* and the whitespace that trim markers, trim_blocks and lstrip_blocks ask *)
(* for is left out of the text.                                            *)
(*                                                                         *)
(* A source is a sequence of pieces: characters, and the regions between   *)
(* delimiters, each of them one piece.  A region that is not closed is the *)
(* opening delimiter alone and what is written after it.  "nl" is a line   *)
(* end of either form, "sp" a space or a tab, "x" anything else.  A text   *)
(* token holds the positions of its pieces, not the pieces, so that what   *)
(* was left out can be told.  Delimiters and quotes are not spelled out.   *)
(*                                                                         *)
(* A step is one turn of the loop in next_token.                           *)
(***************************************************************************)
EXTENDS Integers, SequencesExt

CONSTANT None

(* What is in a tag: its keyword, the names it gives and its expression,   *)
(* None where it might have one and has none.                              *)
Body == [kw : STRING, names : Seq(STRING), head : {None} \cup Seq(STRING)]

Piece ==
    [kind : {"char"}, char : {"nl", "sp", "x"}]
    \cup [kind : {"comment"}, closed : BOOLEAN]
    \cup [kind : {"var"}, closed : BOOLEAN, trimOpen : BOOLEAN, trimClose : BOOLEAN,
          head : Seq(STRING)]
    \cup [kind : {"tag"}, closed : BOOLEAN, trimOpen : BOOLEAN, trimClose : BOOLEAN,
          body : Body]

Options == [trim : BOOLEAN, lstrip : BOOLEAN]

ASSUME NoneIsNoToken == None \notin [tok : {"tag"}, at : Seq(Nat), body : Body]

VARIABLES
    source,         \* input
    opts,           \* trim_blocks and lstrip_blocks
    position,       \* the next piece
    mode,           \* LexerMode: "normal", "raw" or "verbatim"
    pending,        \* the closing tag of a raw block that had text, or None
    strip,          \* strip_leading_next_text
    trimNewline,    \* trim_block_newline
    tokens,         \* the tokens so far
    lexing          \* "on", "done" or "failed"

input == <<source, opts>>
flags == <<strip, trimNewline>>
lexer == <<position, mode, pending, flags, tokens, lexing>>

LexInit(given, options) ==
    /\ source = given
    /\ opts = options
    /\ position = 1
    /\ mode = "normal"
    /\ pending = None
    /\ strip = FALSE
    /\ trimNewline = FALSE
    /\ tokens = << >>
    /\ lexing = "on"

-----------------------------------------------------------------------------
Newline(i) == source[i].kind = "char" /\ source[i].char = "nl"
Blank(i) == source[i].kind = "char" /\ source[i].char = "sp"
White(i) == Blank(i) \/ Newline(i)

Span(i, j) == [k \in 1 .. j - i |-> i + k - 1]

(* The first and the last of a set of positions, 0 if there is none.       *)
First(S) == IF S = {} THEN 0 ELSE Min(S)
Latest(S) == IF S = {} THEN 0 ELSE Max(S)

(* next_opener                                                             *)
NextOpener == First({i \in position .. Len(source) : source[i].kind # "char"})

(* find_tag_close, skip_comment and find_var_close: the piece in which the *)
(* region that begins at i ends.  A tag or a comment that is not closed    *)
(* runs to the end of the next one, a variable does not get past one.      *)
EndOf(i) ==
    IF source[i].closed THEN i
    ELSE IF source[i].kind = "var" THEN 0
    ELSE First({j \in i + 1 .. Len(source) :
                    source[j].kind = source[i].kind /\ source[j].closed})

IsTag(i, kw) == source[i].kind = "tag" /\ source[i].closed /\ source[i].body.kw = kw

RawTags == {"raw", "verbatim"}
RawEnd(name) == IF name = "raw" THEN "endraw" ELSE "endverbatim"

(* find_matching_block_close: blocks of the same name nest, other tags and *)
(* what is not closed are text.  The depth is 1, and one more or less for  *)
(* every opening and closing tag.                                          *)
MatchingClose(from, name) ==
    LET seen(kw, i) == Cardinality({j \in from .. i : IsTag(j, kw)})
    IN  First({i \in from .. Len(source) : seen(RawEnd(name), i) = seen(name, i) + 1})

TrimStart(text) ==
    LET solid == First({k \in DOMAIN text : ~White(text[k])})
    IN  IF solid = 0 THEN << >> ELSE SubSeq(text, solid, Len(text))

TrimEnd(text) == SubSeq(text, 1, Latest({k \in DOMAIN text : ~White(text[k])}))

(* apply_leading_strip: what it does to a text, and to the flags.          *)
LeadingStrip(text) ==
    IF strip THEN TrimStart(text)
    ELSE IF trimNewline /\ text # << >> /\ Newline(Head(text)) THEN Tail(text)
    ELSE text

FlagsUsed == strip' = FALSE /\ trimNewline' = FALSE

(* apply_lstrip_trailing                                                   *)
LstripTrailing(text, opener) ==
    LET solid == Latest({k \in DOMAIN text : ~Blank(text[k])})
    IN  IF \/ ~opts.lstrip
           \/ source[opener].kind = "var"
           \/ solid > 0 /\ ~Newline(text[solid])
        THEN text
        ELSE SubSeq(text, 1, solid)

(* What next_token_normal makes of the text up to an opener.               *)
TextUpTo(opener) ==
    LET led == LeadingStrip(Span(position, opener))
        cut == IF source[opener].kind # "comment" /\ source[opener].trimOpen
               THEN TrimEnd(led) ELSE led
    IN  LstripTrailing(cut, opener)

TextToken(text) == [tok |-> "text", at |-> text]
ExprToken(i) == [tok |-> "expr", at |-> <<i>>, head |-> source[i].head]
TagToken(i) == [tok |-> "tag", at |-> <<i>>, body |-> source[i].body]

-----------------------------------------------------------------------------
Reading == lexing = "on" /\ pending = None
Normal == Reading /\ mode = "normal" /\ position <= Len(source)
At(kind) == Normal /\ NextOpener = position /\ source[position].kind = kind

RestIsText ==
    /\ Normal
    /\ NextOpener = 0
    /\ tokens' = Append(tokens, TextToken(LeadingStrip(Span(position, Len(source) + 1))))
    /\ FlagsUsed
    /\ position' = Len(source) + 1
    /\ UNCHANGED <<input, mode, pending, lexing>>

(* Mutant of SkipComment: it stays at the comment's end.                   *)
SkipToCommentEnd ==
    /\ At("comment")
    /\ EndOf(position) # 0
    /\ position' = EndOf(position)
    /\ UNCHANGED <<input, mode, pending, flags, tokens, lexing>>

SkipComment ==
    /\ At("comment")
    /\ EndOf(position) # 0
    /\ position' = EndOf(position) + 1
    /\ UNCHANGED <<input, mode, pending, flags, tokens, lexing>>

(* Mutant of TakeTag: verbatim does not change the mode.                   *)
TakeTagRawOnly ==
    /\ At("tag")
    /\ EndOf(position) # 0
    /\ LET body == source[position].body
           trims == source[EndOf(position)].trimClose
       IN  /\ strip' = (strip \/ trims)
           /\ trimNewline' = (trimNewline \/ (~trims /\ opts.trim))
           /\ mode' = IF body.kw = "raw" THEN body.kw ELSE mode
    /\ tokens' = Append(tokens, TagToken(position))
    /\ position' = EndOf(position) + 1
    /\ UNCHANGED <<input, pending, lexing>>

(* consume_tag_at_position                                                 *)
TakeTag ==
    /\ At("tag")
    /\ EndOf(position) # 0
    /\ LET body == source[position].body
           trims == source[EndOf(position)].trimClose
       IN  /\ strip' = (strip \/ trims)
           /\ trimNewline' = (trimNewline \/ (~trims /\ opts.trim))
           /\ mode' = IF body.kw \in RawTags THEN body.kw ELSE mode
    /\ tokens' = Append(tokens, TagToken(position))
    /\ position' = EndOf(position) + 1
    /\ UNCHANGED <<input, pending, lexing>>

(* consume_variable                                                        *)
TakeVariable ==
    /\ At("var")
    /\ EndOf(position) # 0
    /\ strip' = (strip \/ source[position].trimClose)
    /\ tokens' = Append(tokens, ExprToken(position))
    /\ position' = position + 1
    /\ UNCHANGED <<input, mode, pending, trimNewline, lexing>>

(* Text that is left empty is not a token.                                 *)
TextBefore ==
    /\ Normal
    /\ NextOpener > position
    /\ LET text == TextUpTo(NextOpener)
       IN  tokens' = IF text = << >> THEN tokens ELSE Append(tokens, TextToken(text))
    /\ FlagsUsed
    /\ position' = NextOpener
    /\ UNCHANGED <<input, mode, pending, lexing>>

RawCloses == MatchingClose(position, mode)

(* Mutant of TakeRaw: trim_blocks of the opening tag outlives the block.   *)
TakeRawKeepingFlags ==
    /\ Reading
    /\ mode \in RawTags
    /\ RawCloses # 0
    /\ LET literal == LeadingStrip(Span(position, RawCloses))
           close == TagToken(RawCloses)
       IN  /\ tokens' = Append(tokens, IF literal = << >> THEN close ELSE TextToken(literal))
           /\ pending' = IF literal = << >> THEN None ELSE close
    /\ strip' = source[RawCloses].trimClose
    /\ position' = RawCloses + 1
    /\ mode' = "normal"
    /\ UNCHANGED <<input, trimNewline, lexing>>

(* Mutant of TakeRaw: the closing tag is forgotten once there is text.     *)
TakeRawForgettingEnd ==
    /\ Reading
    /\ mode \in RawTags
    /\ RawCloses # 0
    /\ LET literal == LeadingStrip(Span(position, RawCloses))
           close == TagToken(RawCloses)
       IN  tokens' = Append(tokens, IF literal = << >> THEN close ELSE TextToken(literal))
    /\ strip' = source[RawCloses].trimClose
    /\ trimNewline' = FALSE
    /\ position' = RawCloses + 1
    /\ mode' = "normal"
    /\ UNCHANGED <<input, pending, lexing>>

(* next_token_block_mode: the closing tag sets no trim_block_newline, and  *)
(* its opening marker trims nothing.                                       *)
TakeRaw ==
    /\ Reading
    /\ mode \in RawTags
    /\ RawCloses # 0
    /\ LET literal == LeadingStrip(Span(position, RawCloses))
           close == TagToken(RawCloses)
       IN  /\ tokens' = Append(tokens, IF literal = << >> THEN close ELSE TextToken(literal))
           /\ pending' = IF literal = << >> THEN None ELSE close
    /\ strip' = source[RawCloses].trimClose
    /\ trimNewline' = FALSE
    /\ position' = RawCloses + 1
    /\ mode' = "normal"
    /\ UNCHANGED <<input, lexing>>

TakePending ==
    /\ lexing = "on"
    /\ pending # None
    /\ tokens' = Append(tokens, pending)
    /\ pending' = None
    /\ UNCHANGED <<input, position, mode, flags, lexing>>

(* A region or a raw block that is not closed: tokenize returns the error. *)
Unclosed ==
    /\ Reading
    /\ \/ \E kind \in {"comment", "tag", "var"} : At(kind) /\ EndOf(position) = 0
       \/ mode \in RawTags /\ RawCloses = 0
    /\ lexing' = "failed"
    /\ UNCHANGED <<input, position, mode, pending, flags, tokens>>

(* tokenize_with_options gives an empty source one empty text.             *)
EndOfInput ==
    /\ Reading
    /\ mode = "normal"
    /\ position > Len(source)
    /\ tokens' = IF source = << >> THEN <<TextToken(<< >>)>> ELSE tokens
    /\ lexing' = "done"
    /\ UNCHANGED <<input, position, mode, pending, flags>>

LexNext ==
    \/ RestIsText \/ SkipComment \/ TakeTag \/ TakeVariable \/ TextBefore
    \/ TakeRaw \/ TakePending \/ Unclosed \/ EndOfInput

-----------------------------------------------------------------------------
LexTypeOK ==
    /\ position \in 1 .. Len(source) + 1
    /\ mode \in {"normal"} \cup RawTags
    /\ strip \in BOOLEAN /\ trimNewline \in BOOLEAN
    /\ lexing \in {"on", "done", "failed"}
    /\ \A t \in Range(tokens) \cup ({pending} \ {None}) :
          t.tok \in {"text", "expr", "tag"} /\ Range(t.at) \subseteq DOMAIN source

Delivered == UNION {Range(tokens[k].at) : k \in DOMAIN tokens}

(* Inside a tag or a comment that was not closed where it began.           *)
Swallowed(i) ==
    \E j \in 1 .. i - 1 :
        /\ source[j].kind \in {"tag", "comment"}
        /\ ~source[j].closed
        /\ i <= EndOf(j)

(* Whatever the flags, the raw blocks and the unclosed delimiters: every   *)
(* piece is delivered once, in the order of the source, and what is not    *)
(* delivered is whitespace, a comment, or inside a region.                 *)
NothingLost ==
    lexing = "done" =>
        /\ \A k \in DOMAIN tokens :
              /\ \A p, q \in DOMAIN tokens[k].at : p < q => tokens[k].at[p] < tokens[k].at[q]
              /\ \A l \in DOMAIN tokens : k < l =>
                    \A i \in Range(tokens[k].at), j \in Range(tokens[l].at) : i < j
        /\ \A i \in DOMAIN source :
              \/ i \in Delivered \/ White(i)
              \/ source[i].kind = "comment" \/ Swallowed(i)

-----------------------------------------------------------------------------
(* What the markers and options mean, said of the source and not of the    *)
(* flags.  A border is a region that was not taken for text; only sources  *)
(* whose regions are closed are considered.                                *)
Borders ==
    LET texts == {k \in DOMAIN tokens : tokens[k].tok = "text"}
    IN  {i \in DOMAIN source : source[i].kind # "char"}
            \ UNION {Range(tokens[k].at) : k \in texts}

Before(i) == Latest({j \in Borders : j < i})
After(i) == LET B == {j \in Borders : j > i} IN IF B = {} THEN Len(source) + 1 ELSE Min(B)

EndsRaw(j) ==
    \E name \in RawTags :
        j <= Len(source) /\ IsTag(j, RawEnd(name)) /\ Before(j) # 0 /\ IsTag(Before(j), name)

(* The regions right before the text of i, comments and empty text apart.  *)
(* The content of a raw block is text, empty or not.                       *)
Leads(i) == {j \in Borders : /\ j < i
                             /\ j .. Before(i) \subseteq Borders
                             /\ source[j].kind # "comment"
                             /\ \A k \in j + 1 .. Before(i) : ~EndsRaw(k)}

AskedByDash(i) ==
    /\ \E j \in Leads(i) : source[j].trimClose
    /\ \A k \in Before(i) + 1 .. i : White(k)

AskedByTrimBlocks(i) ==
    /\ opts.trim /\ Newline(i) /\ i = Before(i) + 1
    /\ \E j \in Leads(i) : source[j].kind = "tag" /\ ~EndsRaw(j)

AskedByNextDash(i) ==
    LET next == After(i)
    IN  /\ next <= Len(source) /\ ~EndsRaw(next)
        /\ source[next].kind # "comment" /\ source[next].trimOpen
        /\ \A k \in i .. next - 1 : White(k)

AskedByLstrip(i) ==
    LET next == After(i)
    IN  /\ opts.lstrip
        /\ next <= Len(source) /\ ~EndsRaw(next)
        /\ source[next].kind # "var"
        /\ \E a \in Before(i) + 1 .. i :
              /\ \A k \in a .. next - 1 : Blank(k)
              /\ a = Before(i) + 1 \/ Newline(a - 1)

(* Whitespace is dropped exactly where a marker or an option asks for it:  *)
(* the two flags, which outlive tokens, comments and raw blocks until some *)
(* text uses them, never reach a text they are not for.  As in the code,   *)
(* lstrip_blocks takes the place after any region for a line's beginning.  *)
TrimmedWhereAsked ==
    lexing = "done" /\ (\A i \in DOMAIN source : source[i].kind = "char" \/ source[i].closed) =>
        \A i \in DOMAIN source :
            source[i].kind = "char" =>
                (i \notin Delivered
                    <=> \/ AskedByDash(i) \/ AskedByTrimBlocks(i)
                        \/ AskedByNextDash(i) \/ AskedByLstrip(i))
=============================================================================
