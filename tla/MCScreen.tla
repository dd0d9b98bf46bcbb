------------------------------ MODULE MCScreen ------------------------------
(* Small instances of Screen for TLC. *)
EXTENDS Screen

Window(cols, rows) == [cols |-> cols, rows |-> rows, known |-> TRUE]

(* The floor, the smallest window a comment of term.c names, the narrowest *)
(* that holds a row, the usual one, one that shows command lines, the      *)
(* largest, one beyond both ends, and one that does not tell.              *)
MCWindows == {Window(40, 10), Window(50, 18), Window(62, 10), Window(80, 24),
              Window(100, 24), Window(240, 120), Window(30, 150),
              [cols |-> 80, rows |-> 24, known |-> FALSE]}

MCLists == {[n |-> 0, pos |-> 0], [n |-> 9, pos |-> 8],
            [n |-> 300, pos |-> 0], [n |-> 300, pos |-> 150]}

RowText(pid, over, len, breaks, gaps) ==
    [pid |-> pid, over |-> over, len |-> len, breaks |-> breaks, gaps |-> gaps]

(* Short rows, the longest with every field in its column, the longest     *)
(* with a pid of seven digits, and one with all fields beyond them and     *)
(* with newlines and tabs.                                                 *)
MCTexts == {RowText(5, 0, 4, 0, 0), RowText(6, 0, 127, 0, 0),
            RowText(7, 0, 127, 0, 0), RowText(10, 12, 127, 3, 6)}

(* The windows, lists and texts of the documented claims. *)
UsualWindow  == {Window(80, 24)}
NarrowWindow == {Window(50, 18)}
LongLists    == {[n |-> 300, pos |-> 0], [n |-> 300, pos |-> 150]}
ShortRows    == {RowText(5, 0, 4, 0, 0)}
=============================================================================
