------------------------------- MODULE Screen -------------------------------
(***************************************************************************)
(* One frame of the dashboard on a terminal: paint() of render.c composes  *)
(* lines in a buffer with a cap, render_dashboard writes them from the     *)
(* first row of the window down, each with a newline behind it, and the    *)
(* window has as many columns and rows as it has by then.                  *)
(*                                                                         *)
(* Lines are counted, not spelt: a line is how many glyphs it has and how  *)
(* many bytes, colours and Unicode included (the longest frame there is).  *)
(* A frame is a sequence of blocks of equal lines.  What becomes of it on  *)
(* the glass follows from the rows its lines take: a line longer than the  *)
(* window goes on in the next row, and what comes below the last row       *)
(* pushes the first ones out at the top.                                   *)
(*                                                                         *)
(* A line of the program's own ends in a sequence that erases the rest of  *)
(* its row, and then a newline.  The command line of a process may hold    *)
(* newlines and tabs of its own: these move the cursor and erase nothing.  *)
(* The host's name, the filter and the users are taken to be printable.    *)
(***************************************************************************)
EXTENDS ProcView

CONSTANTS
    Windows,     \* sizes of the window: cols, rows, and whether it tells
    Lists,       \* filtered lists: n rows, the selected one at pos
    Texts,       \* what the rows of a list say, alike in all rows:
                 \*   pid     digits of the pids
                 \*   over    glyphs the other fields need beyond their columns
                 \*   len     bytes of the names
                 \*   breaks  newlines in the command lines
                 \*   gaps    cells that tabs skip
    FilterLens,  \* glyphs of the filter
    Wraps,       \* a full row is left "late", with the next glyph, or
                 \* "early", with its last
    HostLen,     \* glyphs of the host's name
    HostShort,   \* glyphs behind it in a narrow window
    HostFull     \* glyphs behind it in a wide one

ASSUME ScreenAssumption ==
    /\ Windows \subseteq [cols : Nat \ {0}, rows : Nat \ {0}, known : BOOLEAN]
    /\ Lists \subseteq {l \in [n : Nat, pos : Nat] : l.n > 0 => l.pos < l.n}
    /\ Texts \subseteq [pid : 1..10, over : 0..40, len : 0..127,
                        breaks : Nat, gaps : Nat]
    /\ FilterLens \subseteq 0..47
    /\ Wraps \subseteq {"late", "early"}
    /\ HostLen \in 0..255
    /\ HostShort \in 0..126 /\ HostFull \in 0..262

Modes == {"question", "filter", "banner", "legend"}

VARIABLES
    wrap,      \* how this terminal wraps
    window,    \* the window as it is
    size,      \* opt.cols and opt.rows: the window as term_size read it
    view,      \* what the frame will show: the list, its rows, the line
               \* under it, the filter, paused
    scroll,    \* opt.scroll
    pc,        \* "top" before term_size, "sized" before the frame
    glass      \* what can be seen

vars == <<wrap, window, size, view, scroll, pc, glass>>

-----------------------------------------------------------------------------
(* The window. *)

(* Mutant: the size is believed as it is. *)
term_size_raw(w) == IF w.known THEN [cols |-> w.cols, rows |-> w.rows]
                               ELSE [cols |-> 80, rows |-> 24]

term_size(w) ==
    [cols |-> util_clamp_int(IF w.known THEN w.cols ELSE 80, 40, 240),
     rows |-> util_clamp_int(IF w.known THEN w.rows ELSE 24, 10, 120)]

(* The rows of a window that a line takes up to its newline. *)
RowsOf(width, cols) ==
    CASE width = 0       -> 1
      [] wrap = "early"  -> width \div cols + 1
      [] OTHER           -> (width + cols - 1) \div cols

-----------------------------------------------------------------------------
(* Widths. *)

line_cols(cols) == IF cols > 1 THEN cols - 1 ELSE cols

Narrow(cols) == cols < 100

(* The annotation of the memory bar, with six digits to each size. *)
MemRight(cols) == IF Narrow(cols) THEN 23 ELSE 28

main_bar_width(cols) == util_clamp_int(line_cols(cols) - 12 - MemRight(cols), 8, 48)

(* Mutant: names run to the last column. *)
NameWidthToTheEdge(cols) == util_clamp_int(cols - 57, 4, 127)

NameWidth(cols) == util_clamp_int(line_cols(cols) - 57, 4, 127)

Least(a, b) == IF a < b THEN a ELSE b
Most(a, b)  == IF a > b THEN a ELSE b

(* A row of the table: pid, user, rates, sizes, threads, state and name.   *)
(* The columns of the fields are minima: a pid of seven digits makes its   *)
(* row a glyph longer.                                                     *)
Excess == Most(view.row.pid - 6, 0) + view.row.over

RowWidth(cols) == 57 + Excess + Least(view.row.len, NameWidth(cols))

(* Newlines come with the command line, which wide windows show in place   *)
(* of the name; tabs come with either.  Those cut off do not count.        *)
Breaks(cols) == IF NameWidth(cols) >= 40 THEN view.row.breaks ELSE 0
Gaps(cols)   == view.row.gaps

HostWidth(cols) ==
    2 + IF Narrow(cols)
        THEN Least(HostLen, Most(line_cols(cols) - 36, 8)) + HostShort
        ELSE HostLen + HostFull

(* The question, the filter being typed, a banner that nothing was         *)
(* permitted, the legend with its clock.                                   *)
StatusWidth(cols) ==
    CASE view.mode = "question" -> 43 + view.row.pid
      [] view.mode = "filter"   -> 38 + view.filter
      [] view.mode = "banner"   -> 37 + view.row.pid
      [] OTHER                  -> IF Narrow(cols) THEN 57 ELSE 93

FooterWidth == 43 + Most(view.filter, 1)

-----------------------------------------------------------------------------
(* The frame. *)

(* Mutant: a buffer of the size one thinks of first. *)
FRAME_CAP_8K == 8192

FRAME_CAP == 32768

(* Live frames erase what is left of each row before they leave it. *)
fb_nl == [bytes |-> 4, erases |-> TRUE]

Block(kind, count, width, codes) ==
    [kind |-> kind, count |-> count, width |-> width, breaks |-> 0, gaps |-> 0,
     bytes |-> count * (width + codes + fb_nl.bytes)]

(* A rule is three bytes a glyph, and so is the inside of a bar. *)
Rule(cols) == Block("rule", 1, line_cols(cols), 2 * line_cols(cols) + 8)

Bar(kind, cols, right) ==
    LET bw == main_bar_width(cols)
    IN  Block(kind, 1, 12 + bw + right, 2 * bw + 9)

Shown(page) == IF view.n = 0 THEN 0 ELSE Least(page, view.n - scroll)

(* The lines of a frame.  Those of the table are the rows before the       *)
(* selected one, that row, those after it, a line that says why there is   *)
(* none, and blank lines up to the page.                                   *)
paint ==
    LET cols  == size.cols
        page  == render_page_rows(size.rows)
        shown == Shown(page)
        at    == view.pos - scroll
        here  == view.n > 0 /\ at \in 0..shown - 1
        Table(kind, count) == [Block(kind, count, RowWidth(cols), 23)
                                 EXCEPT !.breaks = Breaks(cols), !.gaps = Gaps(cols)]
    IN  << Block("title", 1, 29 + IF view.paused THEN 9 ELSE 0, 17),
           Block("host", 1, HostWidth(cols), 21),
           Rule(cols),
           Bar("cpu", cols, 8),
           Bar("memory", cols, MemRight(cols)),
           Rule(cols),
           Block("heads", 1, 62, 8),
           Table("rows", IF here THEN at ELSE shown),
           Table("selected", IF here THEN 1 ELSE 0),
           Table("rows", IF here THEN shown - at - 1 ELSE 0),
           Block("none", IF shown = 0 THEN 1 ELSE 0, 33, 8),
           Block("blank", page - shown, 0, 0),
           Rule(cols),
           Block("status", 1, StatusWidth(cols), 60),
           Block("footer", 1, FooterWidth, 9) >>

(* What each block of a frame brings in, added up: total[j] is the sum of  *)
(* the first j numbers.                                                    *)
UpTo(parts) ==
    LET total[j \in 0..Len(parts)] == IF j = 0 THEN 0 ELSE total[j - 1] + parts[j]
    IN  total

BytesUpTo(frame) == UpTo([k \in 1..Len(frame) |-> frame[k].bytes])

(* fb_add cuts the frame where the buffer is full, and the last byte is    *)
(* kept for the terminator.  The leading home sequence takes three.        *)
Kept(frame) ==
    Cardinality({j \in 1..Len(frame) : 3 + BytesUpTo(frame)[j] <= FRAME_CAP - 1})

(* Mutant: the frame ends with its last line. *)
NoErase(frame) == FALSE

(* The sequence that erases all below the frame is the last to be added.   *)
ErasesBelow(frame) ==
    Kept(frame) = Len(frame) /\ 6 + BytesUpTo(frame)[Len(frame)] <= FRAME_CAP - 1

(* The rows the lines of a block take, newlines within them included.      *)
RowsTaken(block, cols) ==
    block.count * (RowsOf(block.width + block.gaps, cols) + block.breaks)

RowsUpTo(frame, cols) ==
    UpTo([k \in 1..Len(frame) |-> RowsTaken(frame[k], cols)])

(* A newline or a tab within a line passes over cells and erases none.     *)
Ragged(block) == block.count > 0 /\ block.breaks + block.gaps > 0

(* The glass after the frame is written: the lines that can be seen        *)
(* whole, how many rows hold anything, and whether any of it may be older: *)
(* what an older frame said shines through ragged lines.                   *)
(* The newline behind the last line takes the cursor one row further.      *)
Written(frame) ==
    LET kept  == Kept(frame)
        above == RowsUpTo(frame, window.cols)
        total == above[kept]
        lost  == Most(total + 1 - window.rows, 0)
    IN  [shows  |-> {frame[j].kind : j \in {i \in 1..kept :
                        frame[i].count = 1 /\ above[i - 1] >= lost}},
         filled |-> IF ErasesBelow(frame) THEN total - lost
                    ELSE Most(total - lost, glass.filled),
         stale  |-> \/ ~fb_nl.erases /\ glass.filled > 0
                    \/ ~ErasesBelow(frame) /\ lost = 0 /\ glass.filled > total
                    \/ \E j \in 1..kept :
                          Ragged(frame[j]) /\ above[j] > lost
                             /\ glass.filled > above[j - 1],
         settled |-> TRUE]

-----------------------------------------------------------------------------
(* Behaviour. *)

Views ==
    { [n |-> l.n, pos |-> l.pos, row |-> row, mode |-> mode, filter |-> f,
       paused |-> p] :
      l \in Lists, row \in Texts, mode \in Modes, f \in FilterLens, p \in BOOLEAN }

NoText == [pid |-> 1, over |-> 0, len |-> 0, breaks |-> 0, gaps |-> 0]

Unsettled(w) == [shows |-> {}, filled |-> w.rows, stale |-> TRUE, settled |-> FALSE]

Init ==
    /\ wrap \in Wraps
    /\ window \in Windows
    /\ size = [cols |-> 80, rows |-> 24]
    /\ view = [n |-> 0, pos |-> 0, row |-> NoText, mode |-> "legend", filter |-> 0,
               paused |-> FALSE]
    /\ scroll = 0
    /\ pc = "top"
    /\ glass = Unsettled(window)

(* A pass begins: the window is measured, the table sampled or kept, and   *)
(* the selection clamped into it.                                          *)
Measure ==
    /\ pc = "top"
    /\ size' = term_size(window)
    /\ view' \in {v \in Views : v.mode = "question" => v.n > 0}
    /\ scroll' = IF view'.n = 0 THEN 0
                 ELSE ClampScroll(scroll, view'.pos, render_page_rows(size'.rows), view'.n)
    /\ pc' = "sized"
    /\ UNCHANGED <<wrap, window, glass>>

render_dashboard ==
    /\ pc = "sized"
    /\ glass' = Written(paint)
    /\ pc' = "top"
    /\ UNCHANGED <<wrap, window, size, view, scroll>>

(* The terminal is resized at any moment; what it then shows of the old    *)
(* frame is its own affair.                                                *)
Resize(w) ==
    /\ w # window
    /\ window' = w
    /\ glass' = Unsettled(w)
    /\ UNCHANGED <<wrap, size, view, scroll, pc>>

Next == Measure \/ render_dashboard \/ \E w \in Windows : Resize(w)
Spec == Init /\ [][Next]_vars

-----------------------------------------------------------------------------
(* Properties. *)

(* Every variable has its type; the size is between its floor and ceiling. *)
TypeOK ==
    /\ window \in Windows
    /\ size.cols \in 40..240 /\ size.rows \in 10..120
    /\ view.n > 0 => view.pos < view.n /\ scroll \in 0..view.n - 1
    /\ glass.filled \in 0..window.rows
    /\ pc \in {"top", "sized"}

(* The frame was written and the window has not changed since. *)
OnGlass == glass.settled /\ pc = "top"

(* The rows of the table hold neither a newline nor a tab.                 *)
Plain == Breaks(size.cols) = 0 /\ Gaps(size.cols) = 0

(* Although no frame clears the screen first, nothing of an older one can  *)
(* be seen beside it or below it, whatever the window was when the frame   *)
(* before was written and whatever that one said: newlines and tabs in its *)
(* command lines included, as long as this one has none (render.c, 25-28). *)
NothingStale == OnGlass /\ Plain => ~glass.stale

(* Whoever is asked can read the question: from 40 by 10 up it is on the   *)
(* glass, also when the window changed between its measuring and the       *)
(* frame, and in the largest frame there is.                               *)
QuestionVisible ==
    OnGlass /\ view.mode = "question" /\ window.cols >= 40 /\ window.rows >= 10
        => "status" \in glass.shows

(* The glyph of a row that a terminal forgives: one that wraps late leaves *)
(* a full row only with the next glyph.                                    *)
Spare == IF wrap = "late" THEN 1 ELSE 0

(* In a window that holds a row of the table and some of its name, the     *)
(* selected row can be seen wherever it is in the list, as long as the     *)
(* fields before the name keep to their columns (on a terminal that wraps  *)
(* late, all but one glyph) and no command line holds newlines or tabs     *)
(* (clamp_view with render_page_rows and paint_proc).                      *)
SelectedOnGlass ==
    OnGlass /\ view.n > 0 /\ size = [cols |-> window.cols, rows |-> window.rows]
        /\ window.cols > 61 /\ Plain /\ Excess <= Spare
            => "selected" \in glass.shows

(* EXECUTION_FLOW.md on clamp_view: "keep selected pid on screen". *)
SelectedKept ==
    OnGlass /\ view.n > 0 /\ size = [cols |-> window.cols, rows |-> window.rows]
        => "selected" \in glass.shows

(* WORKINGS.md on a pause: "the last snapshot is redrawn so the footer can *)
(* still show PAUSED".                                                     *)
PausedShown ==
    OnGlass /\ view.paused /\ size = [cols |-> window.cols, rows |-> window.rows]
        => "title" \in glass.shows
=============================================================================
