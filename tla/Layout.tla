------------------------------- MODULE Layout -------------------------------
(***************************************************************************)
(* How the reports lay out what they show: the table lists of the sphinx   *)
(* pages (RSTTable.DrawTableList), the broken lines of the file pages      *)
(* (linebreak) and the grouped numbers of the web pages (FormatInt).       *)
(* RSTTable can draw a table in columns as well (DrawTable, ColWidth,      *)
(* RowHeight, and splitLine for the width of a column); no template asks   *)
(* for it.  The functions are pure; the module adds rows to a table, draws *)
(* it after every row, and formats numbers digit by digit.                 *)
(*                                                                         *)
(* A text is the sequence of the lengths of its words, as strings.Split    *)
(* cuts it: two blanks in a row are a word of length 0, and the empty      *)
(* string is one such word.                                                *)
(***************************************************************************)
EXTENDS Integers, SequencesExt, FiniteSetsExt

CONSTANTS
    Cols,       \* Cols() of the rows, a sequence
    Unsplit,    \* columns whose Data is the text in one piece
    Titles,     \* Titles[c]: the length of Title(c)
    PageWidth,  \* the 100 of DrawTable
    Texts,      \* what a cell may hold
    Numbers,    \* the numbers to format: [digits, negative, size]
    MaxRows     \* bound: rows of a table

Columns == {Cols[k] : k \in 1 .. Len(Cols)}

ASSUME ColumnsAssumption ==
    /\ Cols \in Seq(Columns) /\ Cols # <<>>
    /\ Unsplit \subseteq Columns /\ Titles \in [Columns -> Nat]
ASSUME PageAssumption == PageWidth \in Nat /\ PageWidth >= Len(Cols) /\ MaxRows \in Nat
ASSUME TextsAssumption == Texts \subseteq Seq(Nat)
ASSUME NumbersAssumption ==
    Numbers \subseteq [digits : Nat \ {0}, negative : BOOLEAN, size : Int]

VARIABLES
    table,   \* the rows, each a text per column
    number   \* FormatInt at work

vars == <<table, number>>

(***************************************************************************)
(* Lengths of strings.                                                     *)
(***************************************************************************)
LengthOf[words \in Seq(Nat)] ==
    IF words = <<>> THEN 0 ELSE LengthOf[Front(words)] + 1 + Last(words)

\* The words that can be seen, of a line and of several.
Words[words \in Seq(Nat)] ==
    IF words = <<>> THEN <<>>
    ELSE IF Last(words) = 0 THEN Words[Front(words)]
    ELSE Append(Words[Front(words)], Last(words))
WordsOf[lines \in Seq(Seq(Nat))] ==
    IF lines = <<>> THEN <<>> ELSE WordsOf[Front(lines)] \o Words[Last(lines)]

\* strings.TrimSpace takes the blanks at both ends, the ones inside stay.
Trimmed(words) ==
    LET full == {k \in 1 .. Len(words) : words[k] > 0}
    IN  IF full = {} THEN <<>> ELSE SubSeq(words, Min(full), Max(full))
WidthOf(line) == IF line = <<>> THEN 0 ELSE LengthOf[line] - 1

(***************************************************************************)
(* splitLine: a line begins with a blank, and a word that would fill it    *)
(* begins the next; lines that turn out empty are dropped.                 *)
(***************************************************************************)
AddWord(lines, word, maxWidth) ==
    IF LengthOf[Last(lines)] + word >= maxWidth
    THEN Append(lines, <<word>>)
    ELSE [lines EXCEPT ![Len(lines)] = Append(@, word)]

LinesOf(text, maxWidth) ==
    LET lines[words \in Seq(Nat)] ==
          IF words = <<>> THEN << <<>> >>
          ELSE AddWord(lines[Front(words)], Last(words), maxWidth)
    IN  lines[text]

Kept[lines \in Seq(Seq(Nat))] ==
    IF lines = <<>> THEN <<>>
    ELSE IF Trimmed(Last(lines)) = <<>> THEN Kept[Front(lines)]
    ELSE Append(Kept[Front(lines)], Trimmed(Last(lines)))

SplitLine(text, maxWidth) ==
    IF maxWidth = 0 THEN <<text>> ELSE Kept[LinesOf(text, maxWidth)]

(***************************************************************************)
(* linebreak, the function of the file template.                           *)
(***************************************************************************)
BreakLate(lines, word, size) ==
    IF lines = << <<>> >> \/ LengthOf[Last(lines)] <= size
    THEN [lines EXCEPT ![Len(lines)] = Append(@, word)]
    ELSE Append(lines, <<word>>)

BreakBefore(lines, word, size) ==
    IF lines = << <<>> >> \/ LengthOf[Last(lines)] + word <= size
    THEN [lines EXCEPT ![Len(lines)] = Append(@, word)]
    ELSE Append(lines, <<word>>)

Broken(text, size) ==
    LET lines[words \in Seq(Nat)] ==
          IF words = <<>> THEN << <<>> >>
          ELSE BreakBefore(lines[Front(words)], Last(words), size)
    IN  lines[text]

Linebreak(text, size) ==
    IF size >= WidthOf(text) THEN <<text>>
    ELSE [k \in DOMAIN Broken(text, size) |-> Trimmed(Broken(text, size)[k])]

(***************************************************************************)
(* The cells of a row (Data, FieldSize) and the measures of a table.       *)
(***************************************************************************)
Data(row, col, maxWidth) ==
    IF col \in Unsplit THEN <<row[col]>> ELSE SplitLine(row[col], maxWidth)

FieldWidth(row, col, maxWidth) ==
    LET data == Data(row, col, maxWidth)
    IN  Max({0} \cup {WidthOf(data[k]) : k \in DOMAIN data})
FieldHeight(row, col, maxWidth) == Len(Data(row, col, maxWidth))

ColWidthAtMost(col, maxWidth) ==
    Max({maxWidth, Titles[col]}) + 2

ColWidth(col, maxWidth) ==
    Max({FieldWidth(table[k], col, maxWidth) : k \in DOMAIN table} \cup {Titles[col]}) + 2

RowHeightOfFirst(row, widths) == FieldHeight(row, Cols[1], widths[Cols[1]])
RowHeight(row, widths) == Max({FieldHeight(row, col, widths[col]) : col \in Columns})

(***************************************************************************)
(* DrawTable, which has no caller: the cells are split at the width of the *)
(* page to measure the columns, and again at the width of their column to  *)
(* draw them.                                                              *)
(***************************************************************************)
Widths == [col \in Columns |-> ColWidth(col, PageWidth \div Len(Cols))]

\* The lines of a row: the text of each cell, nothing below its end.
DrawRow(row, widths) ==
    LET data == [col \in Columns |-> Data(row, col, widths[col])]
    IN  [l \in 1 .. RowHeight(row, widths) |->
           [col \in Columns |-> IF l <= Len(data[col]) THEN data[col][l] ELSE <<>>]]

DrawTable == LET widths == Widths IN [k \in DOMAIN table |-> DrawRow(table[k], widths)]

(***************************************************************************)
(* DrawTableList: a list of lists, the titles first and then the rows, one *)
(* item for each line of a cell, and a dash where the cell begins.         *)
(***************************************************************************)
\* The items of a cell in a column, the first of them all or not.
ItemsWrapped(row, col, first) ==
    [l \in DOMAIN Data(row, col, PageWidth) |->
       [star |-> first /\ l = 1, dash |-> l = 1, text |-> Data(row, col, PageWidth)[l]]]

Items(row, col, first) ==
    [l \in DOMAIN Data(row, col, 0) |->
       [star |-> first /\ l = 1, dash |-> l = 1, text |-> Data(row, col, 0)[l]]]

DrawList(row) ==
    LET list[cols \in Seq(Columns)] ==
          IF cols = <<>> THEN <<>>
          ELSE list[Front(cols)] \o Items(row, Last(cols), Len(cols) = 1)
    IN  list[Cols]

HeaderList == [k \in DOMAIN Cols |->
                 [star |-> k = 1, dash |-> TRUE, text |-> <<Titles[Cols[k]]>>]]

\* Without a row there is no header either.
DrawTableList ==
    IF table = <<>> THEN <<>>
    ELSE [k \in 1 .. Len(table) + 1 |->
            IF k = 1 THEN HeaderList ELSE DrawList(table[k - 1])]

AddRow ==
    /\ number = <<>>
    /\ Len(table) < MaxRows
    /\ \E row \in [Columns -> Texts] : table' = Append(table, row)
    /\ UNCHANGED number

(***************************************************************************)
(* FormatInt fills its result from the right.  The digits are 1, 2, ...    *)
(***************************************************************************)
Unset == 0
Mark == -1
Minus == -2

NumOfCommasByAll(digits, size) == digits \div size
NumOfCommas(digits, size) == (digits - 1) \div size

BeginFormat ==
    /\ number = <<>>
    /\ table = <<>>
    /\ \E n \in Numbers :
          LET size == IF n.size < 1 THEN 3 ELSE n.size
              sign == IF n.negative THEN <<Minus>> ELSE <<>>
              rest == [k \in 1 .. n.digits + NumOfCommas(n.digits, size) |-> Unset]
          IN  number' = [of |-> n, size |-> size, out |-> sign \o rest, i |-> n.digits,
                         j |-> Len(sign \o rest), k |-> 0, done |-> FALSE]
    /\ UNCHANGED table

\* One turn of the loop: a digit, and the mark when a group is full.
FormatDigit ==
    /\ number # <<>> /\ ~ number.done
    /\ LET out == [number.out EXCEPT ![number.j] = number.i]
       IN  number' =
             IF number.i = 1 THEN [number EXCEPT !.out = out, !.done = TRUE]
             ELSE IF number.k + 1 = number.size
             THEN [number EXCEPT !.out = [out EXCEPT ![number.j - 1] = Mark],
                                 !.i = @ - 1, !.j = @ - 2, !.k = 0]
             ELSE [number EXCEPT !.out = out, !.i = @ - 1, !.j = @ - 1, !.k = @ + 1]
    /\ UNCHANGED table

Init == table = <<>> /\ number = <<>>
Next == AddRow \/ BeginFormat \/ FormatDigit
Spec == Init /\ [][Next]_vars

\* In a drawn table no text is wider than its column, nor is a title: the
\* columns are measured with lines that are split elsewhere than the ones that
\* are drawn, by the other rows and with a long word among them (ColWidth,
\* FieldSize, splitLine).
CellsFit ==
    LET widths == Widths  drawn == DrawTable
    IN  table # <<>> =>
          \A col \in Columns :
              /\ Titles[col] <= widths[col]
              /\ \A k \in DOMAIN drawn : \A l \in DOMAIN drawn[k] :
                    WidthOf(drawn[k][l][col]) <= widths[col]

\* A drawn table shows every word of every cell, in its order (RowHeight,
\* tableRow).
NothingIsLost ==
    LET drawn == DrawTable
    IN  \A k \in DOMAIN table, col \in Columns :
          WordsOf[[l \in DOMAIN drawn[k] |-> drawn[k][l][col]]] = Words[table[k][col]]

\* A table list has a star for each row and a dash for each of its cells, as
\* sphinx requires: the header has as many as the rows, and an empty cell is one
\* as well (DrawTableList, Data).
ListIsUniform ==
    \A k \in DOMAIN DrawTableList :
      LET list == DrawTableList[k]
      IN  /\ {l \in DOMAIN list : list[l].star} = {1}
          /\ Cardinality({l \in DOMAIN list : list[l].dash}) = Len(Cols)

\* A broken line is no wider than the size, unless it is one long word, and no
\* word is lost (linebreak).
BrokenLinesFit ==
    table # <<>> =>
        \A col \in Columns, size \in 1 .. PageWidth :
            LET text == Last(table)[col]
                lines == Linebreak(text, size)
            IN  /\ WordsOf[lines] = Words[text]
                /\ \A l \in DOMAIN lines : WidthOf(lines[l]) <= size \/ Len(lines[l]) = 1

\* A formatted number reads from the right: `size` digits and a mark, again and
\* again, all the digits in their order, and no mark in front (FormatInt).
NumbersAreGrouped ==
    number # <<>> /\ number.done =>
        LET digits == number.of.digits
            sign == IF number.of.negative THEN 1 ELSE 0
            last == Len(number.out)
        IN  /\ last = sign + digits + (digits - 1) \div number.size
            /\ sign = 1 => number.out[1] = Minus
            /\ number.out[sign + 1] = 1
            /\ \A right \in 0 .. last - sign - 1 :
                  number.out[last - right] =
                      IF right % (number.size + 1) = number.size THEN Mark
                      ELSE digits - (right - right \div (number.size + 1))
=============================================================================
