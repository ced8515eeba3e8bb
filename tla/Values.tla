-------------------------------- MODULE Values --------------------------------
(***************************************************************************)
(* The algorithms on values that templates are written with: slices,       *)
(* range, the loop object and the filters that cut a sequence up.          *)
(* Values are abstract; a sequence stands for an array, or for a string as *)
(* the characters in it.  Numbers are integers: range over fractions is    *)
(* left out.                                                               *)
(***************************************************************************)
EXTENDS Integers, FiniteSets, SequencesExt

CONSTANT None       \* an argument that is not given

Or(given, default) == IF given = None THEN default ELSE given

(* first, first + by, ... as long as In holds: the loop of range and slice *)
Walk(first, by, In(_)) ==
    LET from[i \in Int] == IF In(i) THEN <<i>> \o from[i + by] ELSE << >>
    IN from[first]

Range_(start, stop, step) ==
    Walk(start, step, LAMBDA i : IF step > 0 THEN i < stop ELSE i > stop)

Slice(items, from, to, by) ==
    LET len == Len(items)
        step == Or(by, 1)
        FromEnd(bound) == IF bound < 0 THEN bound + len ELSE bound
        start ==
            IF from # None THEN FromEnd(from)
            ELSE IF step < 0 /\ len > 0 THEN len - 1
            ELSE 0
        stop ==
            IF to # None THEN FromEnd(to)
            ELSE IF step < 0 THEN -1
            ELSE len
        Inside(i) == i \in 0 .. len /\ IF step > 0 THEN i < stop ELSE i > stop
        Held(i) == i < len
        places == SelectSeq(Walk(start, step, Inside), Held)
    IN IF step = 0 THEN << >> ELSE [k \in DOMAIN places |-> items[places[k] + 1]]

(* Mutant of LoopObject: revindex counts like revindex0.                   *)
LoopObjectFromZero(i, len) ==
    [index |-> i + 1, index0 |-> i, first |-> i = 0, last |-> len > 0 /\ i + 1 = len,
     length |-> len, revindex |-> len - i - 1,
     revindex0 |-> IF len - 1 > i THEN len - 1 - i ELSE 0]

(* The subtraction of revindex0 saturates.                                 *)
LoopObject(i, len) ==
    [index |-> i + 1, index0 |-> i, first |-> i = 0, last |-> len > 0 /\ i + 1 = len,
     length |-> len, revindex |-> len - i, revindex0 |-> IF len - 1 > i THEN len - 1 - i ELSE 0]

Batch(items, size, fill) ==
    LET Take(acc, k) ==
            IF (k - 1) % size = 0 /\ acc.row # << >>
            THEN [rows |-> Append(acc.rows, acc.row), row |-> <<items[k]>>]
            ELSE [acc EXCEPT !.row = Append(@, items[k])]
        taken == FoldLeft(Take, [rows |-> << >>, row |-> << >>], [k \in DOMAIN items |-> k])
        padding ==
            IF fill = None THEN << >> ELSE [k \in 1 .. size - Len(taken.row) |-> fill]
    IN IF taken.row = << >> THEN taken.rows
       ELSE Append(taken.rows, taken.row \o padding)

Columns(items, slices, fill) ==
    LET least == Len(items) \div slices
        extra == Len(items) % slices
        Cut(acc, i) ==
            LET end == acc.offset + IF i < extra THEN 1 ELSE 0
                part == SubSeq(items, acc.offset + i * least + 1, end + (i + 1) * least)
                padding == IF fill # None /\ i >= extra THEN <<fill>> ELSE << >>
            IN [offset |-> end, parts |-> Append(acc.parts, part \o padding)]
    IN FoldLeft(Cut, [offset |-> 0, parts |-> << >>], [i \in 1 .. slices |-> i - 1]).parts

(* A key is added where it first occurs; its items keep their order.       *)
GroupBy(items, Key(_)) ==
    LET Put(groups, item) ==
            LET key == Key(item)
            IN [k \in DOMAIN groups \cup {key} |->
                    IF k # key THEN groups[k]
                    ELSE IF key \in DOMAIN groups THEN Append(groups[key], item)
                    ELSE <<item>>]
    IN FoldLeft(Put, << >>, items)

(* The bytes of a character: rfind gives a place in bytes, which is then   *)
(* taken for a number of characters.                                       *)
Width(char) == IF char = "wide" THEN 2 ELSE 1

Bytes(text) == FoldLeft(LAMBDA n, char : n + Width(char), 0, text)

Truncate(text, length, killwords) ==
    LET prefix == SubSeq(text, 1, length + 1)
        spaces == {k \in DOMAIN prefix : prefix[k] = "space"}
        lastSpace == CHOOSE k \in spaces : \A other \in spaces : other <= k
        found == Bytes(SubSeq(prefix, 1, lastSpace - 1))
    IN IF Len(text) <= length THEN text
       ELSE IF ~killwords /\ spaces # {} /\ found > 0
       THEN SubSeq(prefix, 1, IF found < Len(prefix) THEN found ELSE Len(prefix))
       ELSE SubSeq(text, 1, length)

(* One computation a template asks for, and what the program gives it.     *)
Computed(asked) ==
    CASE asked.op = "range" -> Range_(asked.start, asked.stop, asked.step)
      [] asked.op = "array slice" -> Slice(asked.items, asked.start, asked.stop, asked.step)
      [] asked.op = "loop" -> LoopObject(asked.place, asked.length)
      [] asked.op = "batch" -> Batch(asked.items, asked.count, asked.fill)
      [] asked.op = "slice" -> Columns(asked.items, asked.count, asked.fill)
      [] asked.op = "groupby" -> GroupBy(asked.items, LAMBDA item : item.key)
      [] asked.op = "truncate" -> Truncate(asked.items, asked.length, asked.killwords)

-----------------------------------------------------------------------------
(* What each of them should be, said without its loop.                     *)

Every(by) == IF by > 0 THEN by ELSE -by

(* The numbers from start towards stop, short of it, that are a multiple   *)
(* of step away from start.                                                *)
Progression(start, stop, step) ==
    LET between == IF step > 0 THEN start .. stop - 1 ELSE stop + 1 .. start
        members == {i \in between : (i - start) % Every(step) = 0}
    IN SetToSortSeq(members, LAMBDA a, b : IF step > 0 THEN a < b ELSE a > b)

(* The slice of Python: a bound past an end of the array is that end.      *)
PythonSlice(items, from, to, by) ==
    LET len == Len(items)
        step == Or(by, 1)
        lowest == IF step > 0 THEN 0 ELSE -1
        highest == IF step > 0 THEN len ELSE len - 1
        Place(bound) == IF bound < 0 THEN bound + len ELSE bound
        Clamp(i) == IF i < lowest THEN lowest ELSE IF i > highest THEN highest ELSE i
        start == IF from = None THEN IF step > 0 THEN lowest ELSE highest ELSE Clamp(Place(from))
        stop == IF to = None THEN IF step > 0 THEN highest ELSE lowest ELSE Clamp(Place(to))
        places == Progression(start, stop, step)
    IN [k \in DOMAIN places |-> items[places[k] + 1]]

(* Where the code, like Nunjucks, leaves Python: it starts outside the     *)
(* array and stops at once, or starts one past it and steps down from      *)
(* there.                                                                  *)
StartsWithin(items, from) ==
    from = None \/ (-Len(items) <= from /\ from < Len(items))

SameSlice(items, from, to, by, got) ==
    StartsWithin(items, from) /\ by # 0 => got = PythonSlice(items, from, to, by)

Unfilled(fill, row) == SelectSeq(row, LAMBDA item : item # fill)

(* Rows of size, the last one shorter unless it is filled, that hold the   *)
(* items in their order.                                                   *)
IsBatch(items, size, fill, rows) ==
    /\ FlattenSeq([r \in DOMAIN rows |-> Unfilled(fill, rows[r])]) = items
    /\ \A r \in DOMAIN rows :
            IF r < Len(rows) \/ fill # None
            THEN Len(rows[r]) = size
            ELSE Len(rows[r]) \in 1 .. size

(* As many parts as asked for, that hold the items in their order and      *)
(* differ by one in length, the longer ones first.                         *)
IsColumns(items, slices, fill, parts) ==
    LET Size(p) == Len(Unfilled(fill, parts[p]))
    IN /\ Len(parts) = slices
       /\ FlattenSeq([p \in DOMAIN parts |-> Unfilled(fill, parts[p])]) = items
       /\ \A p \in DOMAIN parts : Size(p) \in {Size(slices), Size(slices) + 1}
       /\ \A p \in 2 .. slices : Size(p) <= Size(p - 1)

(* The items that are left to come and those that have been, whichever way *)
(* they are counted, are all there are.                                    *)
IsLoopObject(place, len, loop) ==
    /\ loop.index + loop.revindex = len + 1
    /\ loop.index0 + loop.revindex0 = len - 1
    /\ loop.first <=> loop.revindex = len
    /\ loop.last <=> loop.revindex0 = 0
    /\ loop.index0 = place

IsGrouping(items, groups) ==
    /\ DOMAIN groups = {items[k].key : k \in DOMAIN items}
    /\ \A key \in DOMAIN groups :
            groups[key] = SelectSeq(items, LAMBDA item : item.key = key)

(* At most length characters, and no word cut unless there is but one.     *)
IsTruncated(text, length, killwords, got) ==
    /\ IsPrefix(got, text)
    /\ Len(text) > length => Len(got) <= length
    /\ got # text /\ ~killwords =>
            \/ text[Len(got) + 1] = "space"
            \/ \A k \in 2 .. length + 1 : text[k] # "space"

Narrow(text) == \A k \in DOMAIN text : Width(text[k]) = 1

IsRight(asked, got) ==
    CASE asked.op = "range" -> got = Progression(asked.start, asked.stop, asked.step)
      [] asked.op = "array slice" ->
            SameSlice(asked.items, asked.start, asked.stop, asked.step, got)
      [] asked.op = "loop" -> IsLoopObject(asked.place, asked.length, got)
      [] asked.op = "batch" -> IsBatch(asked.items, asked.count, asked.fill, got)
      [] asked.op = "slice" -> IsColumns(asked.items, asked.count, asked.fill, got)
      [] asked.op = "groupby" -> IsGrouping(asked.items, got)
      [] asked.op = "truncate" ->
            Narrow(asked.items) =>
                IsTruncated(asked.items, asked.length, asked.killwords, got)
=============================================================================
