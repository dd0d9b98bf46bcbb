---------------------------- MODULE ScreenProofs ----------------------------
(***************************************************************************)
(* Theorems about Screen for every window, every list, every length of     *)
(* the texts in a frame and every way of wrapping.                         *)
(*                                                                         *)
(* A frame is fifteen blocks of lines.  Added up block by block, its bytes *)
(* stay below the cap of the buffer, so nothing of it is cut; and the rows *)
(* that its last lines take are few enough to leave the selected row and   *)
(* the question in the window when the first lines scroll away.            *)
(***************************************************************************)
EXTENDS Screen, ProcViewProofs

-----------------------------------------------------------------------------
(* Sums over the blocks of a frame. *)

(* A frame has fifteen blocks. *)
Blocks == 15

(* The totals of fifteen numbers are what adding them one by one gives. *)
LEMMA UpToSums ==
    ASSUME NEW parts \in [1..Blocks -> Nat], Len(parts) = Blocks
    PROVE  /\ UpTo(parts)[0] = 0
           /\ \A j \in 1..Blocks : /\ UpTo(parts)[j] = UpTo(parts)[j - 1] + parts[j]
                                   /\ UpTo(parts)[j] \in Nat
<1> DEFINE s1 == parts[1]        s2 == s1 + parts[2]      s3 == s2 + parts[3]
           s4 == s3 + parts[4]   s5 == s4 + parts[5]      s6 == s5 + parts[6]
           s7 == s6 + parts[7]   s8 == s7 + parts[8]      s9 == s8 + parts[9]
           s10 == s9 + parts[10] s11 == s10 + parts[11]   s12 == s11 + parts[12]
           s13 == s12 + parts[13] s14 == s13 + parts[14]  s15 == s14 + parts[15]
           sum == [j \in 0..Blocks |->
                     IF j = 0 THEN 0 ELSE IF j = 1 THEN s1 ELSE IF j = 2 THEN s2
                     ELSE IF j = 3 THEN s3 ELSE IF j = 4 THEN s4 ELSE IF j = 5 THEN s5
                     ELSE IF j = 6 THEN s6 ELSE IF j = 7 THEN s7 ELSE IF j = 8 THEN s8
                     ELSE IF j = 9 THEN s9 ELSE IF j = 10 THEN s10
                     ELSE IF j = 11 THEN s11 ELSE IF j = 12 THEN s12
                     ELSE IF j = 13 THEN s13 ELSE IF j = 14 THEN s14 ELSE s15]
           Step(f) == [j \in 0..Blocks |-> IF j = 0 THEN 0 ELSE f[j - 1] + parts[j]]
<1>1. \A j \in 1..Blocks : parts[j] \in Nat
  OBVIOUS
<1>2. \A j \in 1..Blocks : sum[j] = sum[j - 1] + parts[j]
  BY <1>1 DEF Blocks
<1>3. sum[0] = 0 /\ sum = [j \in 0..Blocks |-> sum[j]]
  BY DEF Blocks
<1> HIDE DEF sum
<1>4. \A j \in 0..Blocks : sum[j] = Step(sum)[j]
  <2> SUFFICES ASSUME NEW j \in 0..Blocks PROVE sum[j] = Step(sum)[j]
    OBVIOUS
  <2>1. j = 0 \/ j \in 1..Blocks
    BY DEF Blocks
  <2>2. j \in 1..Blocks => j # 0
    BY DEF Blocks
  <2> QED
    BY <1>2, <1>3, <2>1, <2>2
<1>5. sum = Step(sum)
  BY <1>3, <1>4
<1>6. UpTo(parts) = CHOOSE f : f = Step(f)
  BY DEF UpTo
<1> DEFINE total == CHOOSE f : f = Step(f)
<1>7. total = Step(total)
  BY <1>5
<1> HIDE DEF total
<1>8. total[0] = 0 /\ \A j \in 1..Blocks : total[j] = total[j - 1] + parts[j]
  BY <1>7 DEF Blocks
<1>9. \A j \in 1..Blocks : total[j] \in Nat
  <2>1. \A j \in 1..Blocks : total[j - 1] \in Nat => total[j] \in Nat
    BY <1>1, <1>8
  <2>2. /\ total[0] \in Nat
        /\ total[0] \in Nat => total[1] \in Nat
        /\ total[1] \in Nat => total[2] \in Nat
        /\ total[2] \in Nat => total[3] \in Nat
        /\ total[3] \in Nat => total[4] \in Nat
        /\ total[4] \in Nat => total[5] \in Nat
        /\ total[5] \in Nat => total[6] \in Nat
        /\ total[6] \in Nat => total[7] \in Nat
        /\ total[7] \in Nat => total[8] \in Nat
        /\ total[8] \in Nat => total[9] \in Nat
        /\ total[9] \in Nat => total[10] \in Nat
        /\ total[10] \in Nat => total[11] \in Nat
        /\ total[11] \in Nat => total[12] \in Nat
        /\ total[12] \in Nat => total[13] \in Nat
        /\ total[13] \in Nat => total[14] \in Nat
        /\ total[14] \in Nat => total[15] \in Nat
    BY <1>8, <2>1 DEF Blocks
  <2> QED
    BY <2>2 DEF Blocks
<1> QED
  BY <1>6, <1>8, <1>9 DEF total

-----------------------------------------------------------------------------
(* What a frame is made of. *)

RowTexts == [pid : 1..10, over : 0..40, len : 0..127, breaks : Nat, gaps : Nat]

(* The window as it was read is within its floor and ceiling, and what the *)
(* frame will show is a list with a window on it.                          *)
Sized ==
    /\ size \in [cols : 40..240, rows : 10..120]
    /\ view \in [n : Nat, pos : Nat, row : RowTexts, mode : Modes, filter : 0..47,
                 paused : BOOLEAN]
    /\ scroll \in Nat
    /\ view.n > 0 => view.pos < view.n /\ scroll < view.n

Page  == render_page_rows(size.rows)
Place == view.pos - scroll
Here  == view.n > 0 /\ Place \in 0..Shown(Page) - 1

LEMMA PageBounds ==
    ASSUME Sized
    PROVE  /\ Page \in Nat /\ Page >= 1 /\ Page <= 80
           /\ Page = 1 \/ Page <= size.rows - 10
           /\ Shown(Page) \in Nat /\ Shown(Page) <= Page
           /\ Place \in Int
           /\ view.n > 0 => Shown(Page) > 0
<1>1. size.rows \in Int /\ size.rows >= 10 /\ size.rows <= 120
  BY DEF Sized
<1>2. view.n \in Nat /\ view.pos \in Nat /\ scroll \in Nat /\ (view.n > 0 => scroll < view.n)
  BY DEF Sized
<1>3. Page \in Nat /\ Page >= 1 /\ Page <= 80 /\ (Page = 1 \/ Page <= size.rows - 10)
  BY <1>1 DEF Page, render_page_rows, util_clamp_int
<1>4. Shown(Page) = IF view.n = 0 THEN 0
                    ELSE IF Page < view.n - scroll THEN Page ELSE view.n - scroll
  BY DEF Shown, Least
<1>5. Place \in Int
  BY <1>2 DEF Place
<1> QED
  BY <1>2, <1>3, <1>4, <1>5

(* The widths of the lines that depend on the window or the names. *)
LEMMA Widths ==
    ASSUME Sized
    PROVE  /\ line_cols(size.cols) \in Nat /\ line_cols(size.cols) = size.cols - 1
           /\ RowWidth(size.cols) \in Nat /\ RowWidth(size.cols) <= 228
           /\ Excess \in Nat /\ (size.cols > 61 => RowWidth(size.cols) < size.cols + Excess)
           /\ Breaks(size.cols) \in Nat /\ Gaps(size.cols) \in Nat
           /\ HostWidth(size.cols) \in Nat /\ HostWidth(size.cols) <= 519
           /\ main_bar_width(size.cols) \in Nat /\ main_bar_width(size.cols) <= 48
           /\ MemRight(size.cols) \in Nat /\ MemRight(size.cols) <= 28
           /\ StatusWidth(size.cols) \in Nat /\ StatusWidth(size.cols) <= 93
           /\ view.mode = "question" => StatusWidth(size.cols) <= 53
           /\ FooterWidth \in Nat /\ FooterWidth <= 90
<1>1. size.cols \in Int /\ size.cols >= 40 /\ size.cols <= 240
  BY DEF Sized
<1>2. /\ view.row.pid \in Nat /\ view.row.pid <= 10
      /\ view.row.over \in Nat /\ view.row.over <= 40
      /\ view.row.len \in Nat /\ view.row.len <= 127
      /\ view.row.breaks \in Nat /\ view.row.gaps \in Nat
      /\ view.filter \in Nat /\ view.filter <= 47
      /\ view.mode \in Modes
  BY DEF Sized, RowTexts
<1>3. line_cols(size.cols) = size.cols - 1
  BY <1>1 DEF line_cols
<1>4. /\ RowWidth(size.cols) \in Nat /\ RowWidth(size.cols) <= 228
      /\ Excess \in Nat /\ (size.cols > 61 => RowWidth(size.cols) < size.cols + Excess)
  <2>1. Excess \in Nat /\ Excess <= 44
    BY <1>2 DEF Excess, Most
  <2>2. /\ Least(view.row.len, NameWidth(size.cols)) \in 0..127
        /\ size.cols > 61 => Least(view.row.len, NameWidth(size.cols)) <= size.cols - 58
    BY <1>1, <1>2, <1>3 DEF NameWidth, util_clamp_int, Least
  <2> QED
    BY <1>1, <2>1, <2>2 DEF RowWidth
<1>10. Breaks(size.cols) \in Nat /\ Gaps(size.cols) \in Nat
  BY <1>2 DEF Breaks, Gaps
<1>5. HostWidth(size.cols) \in Nat /\ HostWidth(size.cols) <= 519
  BY <1>1, <1>3, ScreenAssumption DEF HostWidth, Least, Most
<1>6. MemRight(size.cols) \in Nat /\ MemRight(size.cols) <= 28
  BY DEF MemRight
<1>7. main_bar_width(size.cols) \in Nat /\ main_bar_width(size.cols) <= 48
  BY <1>1, <1>3, <1>6 DEF main_bar_width, util_clamp_int
<1>8. /\ StatusWidth(size.cols) \in Nat /\ StatusWidth(size.cols) <= 93
      /\ view.mode = "question" => StatusWidth(size.cols) <= 53
  BY <1>2 DEF StatusWidth, Modes
<1>9. FooterWidth \in Nat /\ FooterWidth <= 90
  BY <1>2 DEF FooterWidth, Most
<1> QED
  BY <1>1, <1>3, <1>4, <1>5, <1>6, <1>7, <1>8, <1>9, <1>10

(* The rows of the table as a block of the frame.                          *)
Table(kind, count) ==
    [Block(kind, count, RowWidth(size.cols), 23)
        EXCEPT !.breaks = Breaks(size.cols), !.gaps = Gaps(size.cols)]

LEMMA PaintIs ==
    /\ Len(paint) = 15
    /\ paint[1] = Block("title", 1, 29 + IF view.paused THEN 9 ELSE 0, 17)
    /\ paint[2] = Block("host", 1, HostWidth(size.cols), 21)
    /\ paint[3] = Rule(size.cols)
    /\ paint[4] = Bar("cpu", size.cols, 8)
    /\ paint[5] = Bar("memory", size.cols, MemRight(size.cols))
    /\ paint[6] = Rule(size.cols)
    /\ paint[7] = Block("heads", 1, 62, 8)
    /\ paint[8] = Table("rows", IF Here THEN Place ELSE Shown(Page))
    /\ paint[9] = Table("selected", IF Here THEN 1 ELSE 0)
    /\ paint[10] = Table("rows", IF Here THEN Shown(Page) - Place - 1 ELSE 0)
    /\ paint[11] = Block("none", IF Shown(Page) = 0 THEN 1 ELSE 0, 33, 8)
    /\ paint[12] = Block("blank", Page - Shown(Page), 0, 0)
    /\ paint[13] = Rule(size.cols)
    /\ paint[14] = Block("status", 1, StatusWidth(size.cols), 60)
    /\ paint[15] = Block("footer", 1, FooterWidth, 9)
BY DEF paint, Page, Place, Here, Table

LEMMA TableIs ==
    ASSUME NEW kind, NEW count
    PROVE  LET b == Table(kind, count)
           IN  /\ b.kind = kind /\ b.count = count /\ b.width = RowWidth(size.cols)
               /\ b.breaks = Breaks(size.cols) /\ b.gaps = Gaps(size.cols)
               /\ b.bytes = count * (RowWidth(size.cols) + 23 + 4)
BY DEF Table, Block, fb_nl

(* The same, block by block: how many lines, how wide, how many bytes. *)
LEMMA Counts ==
    ASSUME Sized
    PROVE  /\ paint[8].count \in Nat /\ paint[9].count \in Nat /\ paint[10].count \in Nat
           /\ paint[8].count + paint[9].count + paint[10].count = Shown(Page)
           /\ paint[11].count \in {0, 1} /\ paint[12].count = Page - Shown(Page)
           /\ paint[12].count \in Nat
           /\ \A j \in {1, 2, 3, 4, 5, 6, 7, 13, 14, 15} : paint[j].count = 1
<1>1. /\ Page \in Nat /\ Shown(Page) \in Nat /\ Shown(Page) <= Page /\ Place \in Int
  BY PageBounds
<1>2. Here => Place \in 0..Shown(Page) - 1
  BY DEF Here
<1>3. /\ paint[8].count = IF Here THEN Place ELSE Shown(Page)
      /\ paint[9].count = IF Here THEN 1 ELSE 0
      /\ paint[10].count = IF Here THEN Shown(Page) - Place - 1 ELSE 0
      /\ paint[11].count = IF Shown(Page) = 0 THEN 1 ELSE 0
      /\ paint[12].count = Page - Shown(Page)
  BY PaintIs, TableIs DEF Block
<1>4. \A j \in {1, 2, 3, 4, 5, 6, 7, 13, 14, 15} : paint[j].count = 1
  BY PaintIs DEF Block, Rule, Bar
<1> HIDE DEF Here
<1>5. /\ paint[8].count \in Nat /\ paint[9].count \in Nat /\ paint[10].count \in Nat
      /\ paint[8].count + paint[9].count + paint[10].count = Shown(Page)
  BY <1>1, <1>2, <1>3
<1> QED
  BY <1>1, <1>3, <1>4, <1>5

LEMMA LineWidths ==
    ASSUME Sized
    PROVE  /\ \A j \in 1..15 : paint[j].width \in Nat
           /\ \A j \in {8, 9, 10} : paint[j].width = RowWidth(size.cols)
           /\ paint[12].width = 0 /\ paint[13].width = size.cols - 1
           /\ paint[14].width = StatusWidth(size.cols) /\ paint[15].width = FooterWidth
           /\ \A j \in {8, 9, 10} : /\ paint[j].breaks = Breaks(size.cols)
                                    /\ paint[j].gaps = Gaps(size.cols)
           /\ \A j \in (1..15) \ {8, 9, 10} : paint[j].breaks = 0 /\ paint[j].gaps = 0
<1>1. /\ paint[1].width \in Nat /\ paint[2].width \in Nat /\ paint[3].width \in Nat
      /\ paint[4].width \in Nat /\ paint[5].width \in Nat /\ paint[6].width \in Nat
      /\ paint[7].width \in Nat
  BY PaintIs, Widths DEF Block, Rule, Bar
<1>2. /\ paint[8].width = RowWidth(size.cols) /\ paint[9].width = RowWidth(size.cols)
      /\ paint[10].width = RowWidth(size.cols) /\ paint[11].width = 33
      /\ paint[12].width = 0 /\ paint[13].width = size.cols - 1
      /\ paint[14].width = StatusWidth(size.cols) /\ paint[15].width = FooterWidth
  BY PaintIs, TableIs, Widths DEF Block, Rule
<1>3. /\ paint[8].width \in Nat /\ paint[9].width \in Nat
      /\ paint[10].width \in Nat /\ paint[11].width \in Nat
      /\ paint[12].width \in Nat /\ paint[13].width \in Nat
      /\ paint[14].width \in Nat /\ paint[15].width \in Nat
  BY <1>2, Widths
<1>4. \A j \in {8, 9, 10} : /\ paint[j].breaks = Breaks(size.cols)
                            /\ paint[j].gaps = Gaps(size.cols)
  BY PaintIs, TableIs
<1>5. \A j \in (1..15) \ {8, 9, 10} : paint[j].breaks = 0 /\ paint[j].gaps = 0
  <2>1. \A j \in (1..15) \ {8, 9, 10} : j \in {1, 2, 3, 4, 5, 6, 7, 11, 12, 13, 14, 15}
    OBVIOUS
  <2>2. \A j \in {1, 2, 3, 4, 5, 6, 7, 11, 12, 13, 14, 15} :
           paint[j].breaks = 0 /\ paint[j].gaps = 0
    BY PaintIs DEF Block, Rule, Bar
  <2> QED
    BY <2>1, <2>2
<1> QED
  BY <1>1, <1>2, <1>3, <1>4, <1>5

(* A page of rows is no longer than its rows times the longest of them.    *)
LEMMA PageOfRows ==
    ASSUME NEW a \in Nat, NEW b \in Nat, NEW c \in Nat, a + b + c <= 80,
           NEW w \in Nat, w <= 255
    PROVE  /\ a * w \in Nat /\ b * w \in Nat /\ c * w \in Nat
           /\ a * w + b * w + c * w <= 20400
<1>1. \A n \in Nat : n * w \in Nat /\ n * w <= n * 255
  OBVIOUS
<1>2. a * w <= a * 255 /\ b * w <= b * 255 /\ c * w <= c * 255
  BY <1>1
<1>3. a * w \in Nat /\ b * w \in Nat /\ c * w \in Nat
  BY <1>1
<1> QED
  BY <1>2, <1>3

LEMMA LineBytes ==
    ASSUME Sized
    PROVE  /\ \A j \in 1..15 : paint[j].bytes \in Nat
           /\ paint[8].bytes + paint[9].bytes + paint[10].bytes <= 20400
           /\ paint[12].bytes <= 320
           /\ \A j \in {1, 2, 3, 4, 5, 6, 7, 11, 13, 14, 15} : paint[j].bytes <= 729
<1>1. /\ paint[1].bytes \in Nat /\ paint[1].bytes <= 729
      /\ paint[2].bytes \in Nat /\ paint[2].bytes <= 729
      /\ paint[7].bytes \in Nat /\ paint[7].bytes <= 729
      /\ paint[11].bytes \in Nat /\ paint[11].bytes <= 729
      /\ paint[14].bytes \in Nat /\ paint[14].bytes <= 729
      /\ paint[15].bytes \in Nat /\ paint[15].bytes <= 729
  BY PaintIs, Widths DEF Block, fb_nl
<1>2. /\ paint[3].bytes \in Nat /\ paint[3].bytes <= 729
      /\ paint[6].bytes \in Nat /\ paint[6].bytes <= 729
      /\ paint[13].bytes \in Nat /\ paint[13].bytes <= 729
  <2>1. size.cols \in Nat /\ size.cols >= 40 /\ size.cols <= 240
    BY DEF Sized
  <2> QED
    BY <2>1, PaintIs, Widths DEF Block, Rule, fb_nl
<1>3. /\ paint[4].bytes \in Nat /\ paint[4].bytes <= 729
      /\ paint[5].bytes \in Nat /\ paint[5].bytes <= 729
  BY PaintIs, Widths DEF Block, Bar, fb_nl
<1>4. /\ paint[8].bytes \in Nat /\ paint[9].bytes \in Nat /\ paint[10].bytes \in Nat
      /\ paint[8].bytes + paint[9].bytes + paint[10].bytes <= 20400
  <2> DEFINE w == RowWidth(size.cols) + 23 + 4
  <2>1. w \in Nat /\ w <= 255
    BY Widths
  <2>2. /\ paint[8].bytes = paint[8].count * w /\ paint[9].bytes = paint[9].count * w
        /\ paint[10].bytes = paint[10].count * w
    BY PaintIs, TableIs
  <2>3. /\ paint[8].count \in Nat /\ paint[9].count \in Nat /\ paint[10].count \in Nat
        /\ paint[8].count + paint[9].count + paint[10].count <= 80
    BY Counts, PageBounds
  <2> DEFINE a == paint[8].count
             b == paint[9].count
             c == paint[10].count
  <2> HIDE DEF w, a, b, c
  <2>4. /\ a * w \in Nat /\ b * w \in Nat /\ c * w \in Nat
        /\ a * w + b * w + c * w <= 20400
    <3>1. a \in Nat /\ b \in Nat /\ c \in Nat /\ a + b + c <= 80
      BY <2>3 DEF a, b, c
    <3> QED
      BY <2>1, <3>1, PageOfRows
  <2>5. \A x, y, z : x = a * w /\ y = b * w /\ z = c * w
                     => x \in Nat /\ y \in Nat /\ z \in Nat /\ x + y + z <= 20400
    BY <2>4
  <2>6. paint[8].bytes = a * w /\ paint[9].bytes = b * w /\ paint[10].bytes = c * w
    BY <2>2 DEF a, b, c
  <2> DEFINE x == paint[8].bytes
             y == paint[9].bytes
             z == paint[10].bytes
  <2> HIDE DEF x, y, z
  <2>7. x \in Nat /\ y \in Nat /\ z \in Nat /\ x + y + z <= 20400
    BY <2>5, <2>6 DEF x, y, z
  <2> QED
    BY <2>7 DEF x, y, z
<1>5. paint[12].bytes \in Nat /\ paint[12].bytes <= 320
  <2>1. paint[12].bytes = (Page - Shown(Page)) * (0 + 0 + 4)
    BY PaintIs DEF Block, fb_nl
  <2> QED
    BY <2>1, PageBounds
<1> QED
  BY <1>1, <1>2, <1>3, <1>4, <1>5

-----------------------------------------------------------------------------
(* The frame fits its buffer. *)

LEMMA BytesAddUp ==
    ASSUME Sized
    PROVE  /\ BytesUpTo(paint)[15] <= 32000
           /\ \A j \in 1..15 : /\ BytesUpTo(paint)[j] \in Nat
                               /\ BytesUpTo(paint)[j] <= BytesUpTo(paint)[15]
<1> DEFINE parts == [k \in 1..Len(paint) |-> paint[k].bytes]
           total == UpTo(parts)
<1>1. Len(paint) = 15
  BY PaintIs
<1>2. parts \in [1..Blocks -> Nat] /\ \A k \in 1..15 : parts[k] = paint[k].bytes
  BY <1>1, LineBytes DEF Blocks
<1>3. Len(parts) = Blocks
  BY <1>1 DEF Blocks
<1> HIDE DEF parts
<1>4. /\ total[0] = 0
      /\ \A j \in 1..15 : total[j] = total[j - 1] + parts[j] /\ total[j] \in Nat
  BY <1>2, <1>3, UpToSums DEF Blocks
<1>5. /\ \A k \in 1..15 : parts[k] \in Nat
      /\ parts[8] + parts[9] + parts[10] <= 20400 /\ parts[12] <= 320
      /\ \A k \in {1, 2, 3, 4, 5, 6, 7, 11, 13, 14, 15} : parts[k] <= 729
  <2>1. /\ parts[8] = paint[8].bytes /\ parts[9] = paint[9].bytes
        /\ parts[10] = paint[10].bytes /\ parts[12] = paint[12].bytes
    BY <1>2
  <2> DEFINE others == {1, 2, 3, 4, 5, 6, 7, 11, 13, 14, 15}
  <2>2. others \subseteq 1..15
    OBVIOUS
  <2>3. \A k \in others : paint[k].bytes <= 729
    BY LineBytes
  <2>4. \A k \in 1..15 : paint[k].bytes \in Nat
    BY LineBytes
  <2> HIDE DEF others
  <2>5. \A k \in others : parts[k] <= 729
    BY <1>2, <2>2, <2>3, Zenon
  <2>6. \A k \in 1..15 : parts[k] \in Nat
    BY <1>2, <2>4, Zenon
  <2>7. parts[8] + parts[9] + parts[10] <= 20400 /\ parts[12] <= 320
    BY <2>1, LineBytes
  <2> QED
    BY <2>5, <2>6, <2>7 DEF others
<1> HIDE DEF total
<1>6. total[15] <= 32000
  <2>1. total[7] <= 7 * 729
    BY <1>4, <1>5
  <2>2. total[10] <= total[7] + 20400
    BY <1>4, <1>5
  <2>3. total[15] <= total[10] + 320 + 4 * 729
    BY <1>4, <1>5
  <2> QED
    BY <1>4, <2>1, <2>2, <2>3
<1>7. \A j \in 1..15 : total[j] \in Nat /\ total[j] <= total[15]
  BY <1>4, <1>5
<1>8. BytesUpTo(paint) = total
  BY DEF total, BytesUpTo, parts
<1> QED
  BY <1>6, <1>7, <1>8

(* Every line of it is kept, and so is the sequence that erases what is    *)
(* below it.                                                               *)
LEMMA FrameFits ==
    ASSUME Sized PROVE Kept(paint) = 15 /\ ErasesBelow(paint)
<1>1. Len(paint) = 15
  BY PaintIs
<1>2. {j \in 1..15 : 3 + BytesUpTo(paint)[j] <= FRAME_CAP - 1} = 1..15
  BY BytesAddUp DEF FRAME_CAP
<1>3. Cardinality(1..15) = 15
  <2>1. \A n \in Nat : Cardinality(1..n) = n
    BY FS_Interval
  <2> QED
    BY <2>1
<1>4. Kept(paint) = 15
  BY <1>1, <1>2, <1>3 DEF Kept
<1>5. 6 + BytesUpTo(paint)[15] <= FRAME_CAP - 1
  BY BytesAddUp DEF FRAME_CAP
<1> QED
  BY <1>1, <1>4, <1>5 DEF ErasesBelow

-----------------------------------------------------------------------------
(* The rows of the window a frame takes. *)

(* A line shorter than k widths of the window takes at most k rows. *)
LEMMA RowsOfBound ==
    ASSUME NEW width \in Nat, NEW cols \in Nat \ {0}
    PROVE  /\ RowsOf(width, cols) \in Nat
           /\ width < cols => RowsOf(width, cols) <= 1
           /\ width < 2 * cols => RowsOf(width, cols) <= 2
           /\ width < 3 * cols => RowsOf(width, cols) <= 3
<1>1. \A n \in Nat : /\ n \div cols \in Nat
                     /\ n < cols => n \div cols <= 0
                     /\ n < 2 * cols => n \div cols <= 1
                     /\ n < 3 * cols => n \div cols <= 2
                     /\ n < 4 * cols => n \div cols <= 3
  OBVIOUS
<1>2. width + cols - 1 \in Nat
  OBVIOUS
<1> QED
  BY <1>1, <1>2 DEF RowsOf

LEMMA RowsWithin ==
    ASSUME NEW cols \in Nat \ {0}
    PROVE  \A w \in Nat : /\ RowsOf(w, cols) \in Nat
                          /\ w < cols => RowsOf(w, cols) \in 0..1
                          /\ w < 2 * cols => RowsOf(w, cols) \in 0..2
                          /\ w < 3 * cols => RowsOf(w, cols) \in 0..3
<1> TAKE w \in Nat
<1> DEFINE r == RowsOf(w, cols)
<1>1. /\ r \in Nat /\ (w < cols => r <= 1) /\ (w < 2 * cols => r <= 2)
      /\ (w < 3 * cols => r <= 3)
  BY RowsOfBound
<1> HIDE DEF r
<1>2. /\ r \in Nat /\ (w < cols => r \in 0..1) /\ (w < 2 * cols => r \in 0..2)
      /\ (w < 3 * cols => r \in 0..3)
  BY <1>1
<1> QED
  BY <1>2 DEF r

(* A line of the program's own holds neither newline nor tab.              *)
LEMMA OwnLine ==
    ASSUME Sized, NEW cols \in Nat \ {0}, NEW j \in (1..15) \ {8, 9, 10}, paint[j].count = 1
    PROVE  RowsTaken(paint[j], cols) = RowsOf(paint[j].width, cols)
<1>1. paint[j].breaks = 0 /\ paint[j].gaps = 0 /\ paint[j].width \in Nat
  BY LineWidths
<1>2. RowsOf(paint[j].width + 0, cols) = RowsOf(paint[j].width, cols)
  BY <1>1
<1>3. RowsOf(paint[j].width, cols) \in Nat
  BY <1>1, RowsOfBound
<1>4. RowsTaken(paint[j], cols) = 1 * (RowsOf(paint[j].width, cols) + 0)
  BY <1>1, <1>2 DEF RowsTaken
<1> QED
  BY <1>3, <1>4

LEMMA RowsAddUp ==
    ASSUME Sized, NEW cols \in Nat \ {0}
    PROVE  LET above == RowsUpTo(paint, cols)
               takes(j) == RowsTaken(paint[j], cols)
           IN  /\ \A j \in 1..15 : above[j] = above[j - 1] + takes(j) /\ takes(j) \in Nat
               /\ \A j \in 0..15 : above[j] \in Nat
<1> DEFINE takes(j) == RowsTaken(paint[j], cols)
           parts == [k \in 1..Len(paint) |-> takes(k)]
           above == UpTo(parts)
<1>1. Len(paint) = 15
  BY PaintIs
<1>2. \A j \in 1..15 : /\ RowsOf(paint[j].width + paint[j].gaps, cols) \in Nat
                       /\ paint[j].breaks \in Nat
  <2>1. \A j \in 1..15 : /\ paint[j].width \in Nat /\ paint[j].gaps \in Nat
                         /\ paint[j].breaks \in Nat
    BY LineWidths, Widths
  <2>2. \A w \in Nat : RowsOf(w, cols) \in Nat
    BY RowsOfBound
  <2>3. \A w, g \in Nat : w + g \in Nat
    OBVIOUS
  <2> QED
    BY <2>1, <2>2, <2>3, Zenon
<1>3. \A j \in 1..15 : paint[j].count \in Nat
  <2>1. \A j \in 1..15 : j \in {1, 2, 3, 4, 5, 6, 7, 13, 14, 15} \cup {8, 9, 10, 11, 12}
    OBVIOUS
  <2> QED
    BY <2>1, Counts
<1>4. \A j \in 1..15 : takes(j) \in Nat
  <2>1. \A c, r, b \in Nat : c * (r + b) \in Nat
    OBVIOUS
  <2>2. \A j \in 1..15 : takes(j) = paint[j].count *
          (RowsOf(paint[j].width + paint[j].gaps, cols) + paint[j].breaks)
    BY DEF RowsTaken
  <2> HIDE DEF takes
  <2> SUFFICES ASSUME NEW j \in 1..15 PROVE takes(j) \in Nat
    OBVIOUS
  <2> DEFINE c == paint[j].count
             r == RowsOf(paint[j].width + paint[j].gaps, cols)
             b == paint[j].breaks
  <2>3. c \in Nat /\ r \in Nat /\ b \in Nat
    BY <1>2, <1>3
  <2>4. takes(j) = c * (r + b)
    BY <2>2
  <2> HIDE DEF c, r, b
  <2> QED
    BY <2>1, <2>3, <2>4
<1> HIDE DEF takes
<1>5. parts \in [1..Blocks -> Nat] /\ Len(parts) = Blocks
      /\ \A j \in 1..15 : parts[j] = takes(j)
  BY <1>1, <1>4 DEF Blocks
<1> HIDE DEF parts
<1>6. /\ above[0] = 0
      /\ \A j \in 1..15 : above[j] = above[j - 1] + parts[j] /\ above[j] \in Nat
  BY <1>5, UpToSums DEF Blocks
<1> HIDE DEF above
<1>7. /\ \A j \in 1..15 : above[j] = above[j - 1] + takes(j) /\ takes(j) \in Nat
      /\ \A j \in 0..15 : above[j] \in Nat
  <2>1. \A j \in 0..15 : j = 0 \/ j \in 1..15
    OBVIOUS
  <2>2. \A j \in 0..15 : above[j] \in Nat
    BY <1>6, <2>1
  <2> QED
    BY <1>4, <1>5, <1>6, <2>2
<1>8. above = RowsUpTo(paint, cols)
  BY DEF above, parts, takes, RowsUpTo
<1> QED
  BY <1>7, <1>8 DEF takes

-----------------------------------------------------------------------------
(* What can be seen of a frame. *)

(* The glass a frame leaves, in terms of the rows its lines take: the last *)
(* row stays empty, and nothing of an older frame is left by plain rows.   *)
LEMMA WrittenIs ==
    ASSUME Sized, window.cols \in Nat \ {0}, window.rows \in Nat \ {0}
    PROVE  LET above == RowsUpTo(paint, window.cols)
               lost  == Most(above[15] + 1 - window.rows, 0)
           IN  /\ lost \in Nat /\ above[15] - lost \in 0..window.rows
               /\ Written(paint).filled = above[15] - lost
               /\ Plain => ~Written(paint).stale
               /\ \A j \in 1..15 : paint[j].count = 1 /\ above[j - 1] >= lost
                                     => paint[j].kind \in Written(paint).shows
<1> DEFINE above == RowsUpTo(paint, window.cols)
           lost  == Most(above[15] + 1 - window.rows, 0)
<1>1. Kept(paint) = 15 /\ ErasesBelow(paint)
  BY FrameFits
<1>2. above[15] \in Nat
  BY RowsAddUp
<1>3. /\ Written(paint).filled = above[15] - lost
      /\ Written(paint).shows = {paint[j].kind : j \in {i \in 1..15 :
                                    paint[i].count = 1 /\ above[i - 1] >= lost}}
  BY <1>1 DEF Written
<1>6. Plain => ~Written(paint).stale
  <2> SUFFICES ASSUME Plain PROVE ~Written(paint).stale
    OBVIOUS
  <2>1. \A j \in 1..15 : paint[j].breaks = 0 /\ paint[j].gaps = 0
    BY LineWidths DEF Plain
  <2>2. \A j \in 1..15 : ~Ragged(paint[j])
    BY <2>1 DEF Ragged
  <2>3. fb_nl.erases
    BY DEF fb_nl
  <2> QED
    BY <1>1, <2>2, <2>3 DEF Written
<1> HIDE DEF above
<1>4. lost \in Nat /\ above[15] - lost \in 0..window.rows
  BY <1>2 DEF Most
<1>5. \A j \in 1..15 : paint[j].count = 1 /\ above[j - 1] >= lost
                         => paint[j].kind \in Written(paint).shows
  BY <1>3
<1> QED
  BY <1>3, <1>4, <1>5, <1>6 DEF above

(* The question is one of the last two lines, and these never take more    *)
(* than five rows of a window of forty columns.                            *)
LEMMA QuestionStays ==
    ASSUME Sized, window.cols \in Nat, window.cols >= 40,
           window.rows \in Nat, window.rows >= 10, view.mode = "question"
    PROVE  "status" \in Written(paint).shows
<1> DEFINE above == RowsUpTo(paint, window.cols)
           lost  == Most(above[15] + 1 - window.rows, 0)
           takes(j) == RowsTaken(paint[j], window.cols)
<1>0. window.cols \in Nat \ {0} /\ window.rows \in Nat \ {0}
  OBVIOUS
<1>1. paint[14].count = 1 /\ paint[15].count = 1 /\ paint[14].kind = "status"
  BY Counts, PaintIs DEF Block
<1>2. /\ paint[14].width \in Nat /\ paint[14].width <= 53
      /\ paint[15].width \in Nat /\ paint[15].width <= 90
  BY LineWidths, Widths
<1>3. takes(14) <= 2 /\ takes(15) <= 3 /\ takes(14) \in Nat /\ takes(15) \in Nat
  <2>1. \A w \in Nat : /\ w < 2 * window.cols => RowsOf(w, window.cols) \in 0..2
                       /\ w < 3 * window.cols => RowsOf(w, window.cols) \in 0..3
    BY <1>0, RowsWithin, Zenon
  <2>2. /\ paint[14].width \in Nat /\ paint[14].width < 2 * window.cols
        /\ paint[15].width \in Nat /\ paint[15].width < 3 * window.cols
    BY <1>2
  <2>3. /\ RowsOf(paint[14].width, window.cols) \in 0..2
        /\ RowsOf(paint[15].width, window.cols) \in 0..3
    BY <2>1, <2>2, Zenon
  <2>4. takes(14) = RowsOf(paint[14].width, window.cols)
    BY <1>1, <1>2, <2>3, OwnLine
  <2>5. takes(15) = RowsOf(paint[15].width, window.cols)
    BY <1>1, <1>2, <2>3, OwnLine
  <2> HIDE DEF takes
  <2> QED
    BY <2>3, <2>4, <2>5
<1>4. /\ above[15] = above[14] + takes(15) /\ above[14] = above[13] + takes(14)
      /\ above[13] \in Nat /\ above[14] \in Nat /\ above[15] \in Nat
  <2>1. \A j \in 1..15 : above[j] = above[j - 1] + takes(j)
    BY <1>0, RowsAddUp
  <2>2. \A j \in 0..15 : above[j] \in Nat
    BY <1>0, RowsAddUp
  <2> HIDE DEF above, takes
  <2> QED
    BY <2>1, <2>2
<1>5. \A j \in 1..15 : paint[j].count = 1 /\ above[j - 1] >= lost
                         => paint[j].kind \in Written(paint).shows
  BY <1>0, WrittenIs
<1> HIDE DEF above, takes
<1>6. above[13] >= lost
  BY <1>3, <1>4 DEF Most
<1> HIDE DEF lost
<1> QED
  BY <1>1, <1>5, <1>6

(* In a window wide enough a row of the table takes one row, as long as    *)
(* its fields keep their columns.                                          *)
LEMMA RowsOnce ==
    ASSUME Sized, size.cols > 61, Excess <= Spare
    PROVE  RowsOf(RowWidth(size.cols), size.cols) \in 0..1
<1> DEFINE w == RowWidth(size.cols)
           c == size.cols
<1>1. c \in Nat \ {0} /\ w \in Nat /\ Excess \in Nat /\ w < c + Excess
  BY Widths DEF Sized
<1>2. Spare = IF wrap = "late" THEN 1 ELSE 0
  BY DEF Spare
<1> HIDE DEF w, c
<1>3. CASE wrap = "late"
  <2>1. w <= c
    BY <1>1, <1>2, <1>3
  <2>2. \A n \in Nat : n < 2 * c => n \div c \in 0..1
    BY <1>1
  <2>3. w = 0 \/ (w + c - 1 \in Nat /\ w + c - 1 < 2 * c)
    BY <1>1, <2>1
  <2>4. RowsOf(w, c) = IF w = 0 THEN 1 ELSE (w + c - 1) \div c
    BY <1>3 DEF RowsOf
  <2> QED
    BY <2>2, <2>3, <2>4 DEF w, c
<1>4. CASE wrap # "late"
  <2>1. w < c
    BY <1>1, <1>2, <1>4
  <2>2. RowsOf(w, c) \in 0..1
    BY <1>1, <2>1, RowsWithin
  <2> QED
    BY <2>2 DEF w, c
<1> QED
  BY <1>3, <1>4

(* The selected row is at most a page above the status, and no row of the  *)
(* table takes two rows of the window when its fields keep their columns.  *)
LEMMA SelectionStays ==
    ASSUME Sized, size = [cols |-> window.cols, rows |-> window.rows],
           window.cols > 61, Plain, Excess <= Spare, view.n > 0,
           view.pos \in scroll .. scroll + Page - 1
    PROVE  "selected" \in Written(paint).shows
<1> DEFINE above == RowsUpTo(paint, window.cols)
           lost  == Most(above[15] + 1 - window.rows, 0)
           takes(j) == RowsTaken(paint[j], window.cols)
<1>1. /\ size.cols = window.cols /\ size.rows = window.rows
      /\ window.cols \in Nat \ {0} /\ window.rows \in Nat \ {0} /\ window.rows >= 10
  BY DEF Sized
<1>2. Here
  <2>1. /\ view.n \in Nat /\ view.pos \in Nat /\ scroll \in Nat /\ Page \in Nat
        /\ view.pos < view.n /\ scroll < view.n
    BY PageBounds DEF Sized
  <2>2. Shown(Page) = IF Page < view.n - scroll THEN Page ELSE view.n - scroll
    BY DEF Shown, Least
  <2>3. view.pos - scroll \in 0 .. Shown(Page) - 1
    BY <2>1, <2>2
  <2> QED
    BY <2>3 DEF Here, Place
<1>3. /\ paint[9].count = 1 /\ paint[9].kind = "selected" /\ paint[11].count = 0
      /\ paint[10].count + paint[12].count <= Page - 1
      /\ paint[8].count \in Nat /\ paint[10].count \in Nat /\ paint[12].count \in Nat
      /\ paint[13].count = 1 /\ paint[14].count = 1 /\ paint[15].count = 1
  <2>1. /\ paint[9].count = 1 /\ paint[9].kind = "selected"
        /\ paint[11].count = IF Shown(Page) = 0 THEN 1 ELSE 0
    BY <1>2, PaintIs, TableIs DEF Block
  <2>2. /\ paint[8].count \in Nat /\ paint[10].count \in Nat /\ paint[12].count \in Nat
        /\ paint[8].count + 1 + paint[10].count = Shown(Page)
        /\ paint[12].count = Page - Shown(Page)
        /\ paint[13].count = 1 /\ paint[14].count = 1 /\ paint[15].count = 1
    BY <2>1, Counts
  <2>3. Page \in Nat /\ Shown(Page) \in Nat /\ Shown(Page) > 0
    BY PageBounds
  <2>4. paint[10].count + paint[12].count <= Page - 1
    <3> DEFINE before == paint[8].count
               behind == paint[10].count
               blank  == paint[12].count
               shown  == Shown(Page)
    <3> HIDE DEF before, behind, blank, shown
    <3>1. before \in Nat /\ behind \in Nat /\ blank \in Nat /\ shown \in Nat /\ Page \in Nat
          /\ before + 1 + behind = shown /\ blank = Page - shown
      BY <2>2, <2>3 DEF before, behind, blank, shown
    <3>2. behind + blank <= Page - 1
      BY <3>1
    <3> QED
      BY <3>2 DEF behind, blank
  <2> QED
    BY <2>1, <2>2, <2>3, <2>4
<1>4. /\ RowsOf(paint[9].width, window.cols) \in 0..1
      /\ RowsOf(paint[10].width, window.cols) \in 0..1
      /\ RowsOf(paint[12].width, window.cols) \in 0..1
      /\ RowsOf(paint[13].width, window.cols) \in 0..1
      /\ RowsOf(paint[14].width, window.cols) \in 0..2
      /\ RowsOf(paint[15].width, window.cols) \in 0..2
      /\ RowsOf(paint[11].width, window.cols) \in Nat
  <2>1. /\ \A j \in {12, 13} : paint[j].width \in Nat /\ paint[j].width < window.cols
        /\ \A j \in {14, 15} : paint[j].width \in Nat /\ paint[j].width < 2 * window.cols
        /\ paint[11].width \in Nat
    BY <1>1, LineWidths, Widths
  <2>2. \A w \in Nat : /\ w < window.cols => RowsOf(w, window.cols) \in 0..1
                       /\ w < 2 * window.cols => RowsOf(w, window.cols) \in 0..2
                       /\ RowsOf(w, window.cols) \in Nat
    BY <1>1, RowsWithin, Zenon
  <2>3. \A j \in {12, 13} : RowsOf(paint[j].width, window.cols) \in 0..1
    BY <2>1, <2>2, Zenon
  <2>4. \A j \in {14, 15} : RowsOf(paint[j].width, window.cols) \in 0..2
    BY <2>1, <2>2, Zenon
  <2>5. RowsOf(paint[11].width, window.cols) \in Nat
    BY <2>1, <2>2, Zenon
  <2>6. RowsOf(RowWidth(size.cols), window.cols) \in 0..1
    BY <1>1, RowsOnce
  <2>7. \A j \in {9, 10} : paint[j].width = RowWidth(size.cols)
    BY LineWidths
  <2>8. \A j \in {9, 10} : RowsOf(paint[j].width, window.cols) \in 0..1
    BY <2>6, <2>7, Zenon
  <2> QED
    BY <2>3, <2>4, <2>5, <2>8
<1>5. /\ takes(9) <= 1 /\ takes(10) <= paint[10].count /\ takes(11) = 0
      /\ takes(12) <= paint[12].count /\ takes(13) <= 1 /\ takes(14) <= 2 /\ takes(15) <= 2
  <2>1. \A c \in Nat, r \in 0..1 : c * r <= c
    OBVIOUS
  <2>2. \A r \in Nat : 1 * r = r /\ 0 * r = 0
    OBVIOUS
  <2>3. \A j \in 9..15 : takes(j) = paint[j].count * RowsOf(paint[j].width, window.cols)
    <3>1. \A j \in 1..15 : paint[j].width \in Nat
      BY LineWidths
    <3>2. \A j \in 1..15 : paint[j].breaks = 0 /\ paint[j].gaps = 0
      BY LineWidths DEF Plain
    <3>3. \A w \in Nat : /\ RowsOf(w, window.cols) \in Nat
                         /\ RowsOf(w + 0, window.cols) + 0 = RowsOf(w, window.cols)
      <4> TAKE w \in Nat
      <4>1. w + 0 = w /\ RowsOf(w, window.cols) \in Nat
        BY <1>1, RowsWithin
      <4> QED
        BY <4>1
    <3>4. \A j \in 9..15 : j \in 1..15
      OBVIOUS
    <3>5. \A j \in 9..15 :
             /\ paint[j].width \in Nat
             /\ takes(j) = paint[j].count * (RowsOf(paint[j].width + 0, window.cols) + 0)
      BY <3>1, <3>2, <3>4, Zenon DEF RowsTaken
    <3> HIDE DEF takes
    <3> QED
      BY <3>3, <3>5, Zenon
  <2> HIDE DEF takes
  <2>4. /\ takes(9) = paint[9].count * RowsOf(paint[9].width, window.cols)
        /\ takes(10) = paint[10].count * RowsOf(paint[10].width, window.cols)
        /\ takes(11) = paint[11].count * RowsOf(paint[11].width, window.cols)
        /\ takes(12) = paint[12].count * RowsOf(paint[12].width, window.cols)
        /\ takes(13) = paint[13].count * RowsOf(paint[13].width, window.cols)
        /\ takes(14) = paint[14].count * RowsOf(paint[14].width, window.cols)
        /\ takes(15) = paint[15].count * RowsOf(paint[15].width, window.cols)
    BY <2>3
  <2>5. takes(10) <= paint[10].count /\ takes(12) <= paint[12].count
    BY <1>3, <1>4, <2>1, <2>4
  <2>6. /\ takes(9) <= 1 /\ takes(11) = 0 /\ takes(13) <= 1 /\ takes(14) <= 2
        /\ takes(15) <= 2
    BY <1>3, <1>4, <2>2, <2>4
  <2> QED
    BY <2>5, <2>6
<1>6. \A j \in 1..15 : above[j] = above[j - 1] + takes(j) /\ takes(j) \in Nat
  BY <1>1, RowsAddUp
<1>7. \A j \in 0..15 : above[j] \in Nat
  BY <1>1, RowsAddUp
<1>8. \A j \in 1..15 : paint[j].count = 1 /\ above[j - 1] >= lost
                         => paint[j].kind \in Written(paint).shows
  BY <1>1, WrittenIs
<1> HIDE DEF above, takes
<1>9. above[15] - above[8] <= Page + 5
  <2> DEFINE behind == paint[10].count
             blank  == paint[12].count
  <2> HIDE DEF behind, blank
  <2>1. /\ behind \in Nat /\ blank \in Nat /\ behind + blank <= Page - 1
        /\ takes(10) <= behind /\ takes(12) <= blank
    BY <1>3, <1>5 DEF behind, blank
  <2>2. /\ above[9] = above[8] + takes(9) /\ above[10] = above[9] + takes(10)
        /\ above[11] = above[10] + takes(11) /\ above[12] = above[11] + takes(12)
        /\ above[13] = above[12] + takes(13) /\ above[14] = above[13] + takes(14)
        /\ above[15] = above[14] + takes(15)
    BY <1>6
  <2>3. /\ takes(9) \in Nat /\ takes(10) \in Nat /\ takes(12) \in Nat /\ takes(13) \in Nat
        /\ takes(14) \in Nat /\ takes(15) \in Nat /\ above[8] \in Nat
    BY <1>6, <1>7
  <2>4. Page \in Nat
    BY PageBounds
  <2> QED
    BY <1>5, <2>1, <2>2, <2>3, <2>4
<1>10. above[8] >= lost
  <2>1. Page \in Nat /\ Page + 5 <= window.rows - 1
    BY <1>1, PageBounds
  <2>2. above[8] \in Nat /\ above[15] \in Nat
    BY <1>7
  <2> QED
    BY <1>1, <1>9, <2>1, <2>2 DEF Most
<1> HIDE DEF lost
<1> QED
  BY <1>3, <1>8, <1>10
-----------------------------------------------------------------------------
(* What is visible. *)

(* A frame about to be written has the selected row on its page. *)
Scrolled == pc = "sized" /\ view.n > 0 => view.pos \in scroll .. scroll + Page - 1

SInv ==
    /\ TypeOK
    /\ Sized
    /\ Scrolled
    /\ NothingStale
    /\ QuestionVisible
    /\ SelectedOnGlass

LEMMA WindowTyped ==
    ASSUME NEW w \in Windows
    PROVE  w.cols \in Nat \ {0} /\ w.rows \in Nat \ {0} /\ w.known \in BOOLEAN
BY ScreenAssumption

(* Whatever the window says of itself, the size read lies between floor    *)
(* and ceiling.                                                            *)
LEMMA SizeBounded ==
    ASSUME NEW w \in Windows
    PROVE  term_size(w) \in [cols : 40..240, rows : 10..120]
BY WindowTyped DEF term_size, util_clamp_int

LEMMA ScreenInit == Init => SInv
<1> SUFFICES ASSUME Init PROVE SInv
  OBVIOUS
<1>1. /\ window \in Windows /\ size = [cols |-> 80, rows |-> 24]
      /\ view = [n |-> 0, pos |-> 0, row |-> NoText, mode |-> "legend", filter |-> 0,
                 paused |-> FALSE]
      /\ scroll = 0 /\ pc = "top" /\ glass = Unsettled(window)
  BY DEF Init
<1>2. glass.filled = window.rows /\ glass.settled = FALSE
  BY <1>1 DEF Unsettled
<1>3. TypeOK
  BY <1>1, <1>2, WindowTyped DEF TypeOK
<1>4. Sized
  BY <1>1 DEF Sized, Modes, RowTexts, NoText
<1>5. Scrolled /\ NothingStale /\ QuestionVisible /\ SelectedOnGlass
  BY <1>1, <1>2 DEF Scrolled, NothingStale, QuestionVisible, SelectedOnGlass, OnGlass
<1> QED
  BY <1>3, <1>4, <1>5 DEF SInv

LEMMA MeasureKeeps == SInv /\ Measure => SInv'
<1> SUFFICES ASSUME SInv, Measure PROVE SInv'
  OBVIOUS
<1>1. /\ pc' = "sized" /\ window' = window /\ glass' = glass
      /\ size' = term_size(window)
  BY DEF Measure
<1>2. window \in Windows /\ glass.filled \in 0..window.rows /\ scroll \in Nat
  BY DEF SInv, TypeOK, Sized
<1>3. size' \in [cols : 40..240, rows : 10..120]
  BY <1>1, <1>2, SizeBounded
<1>4. /\ view' \in [n : Nat, pos : Nat, row : RowTexts, mode : Modes, filter : 0..47,
                    paused : BOOLEAN]
      /\ view'.n > 0 => view'.pos < view'.n
  <2>1. PICK l \in Lists, row \in Texts, mode \in Modes, f \in FilterLens,
             p \in BOOLEAN :
             view' = [n |-> l.n, pos |-> l.pos, row |-> row, mode |-> mode,
                      filter |-> f, paused |-> p]
    BY DEF Measure, Views
  <2>2. /\ l.n \in Nat /\ l.pos \in Nat /\ (l.n > 0 => l.pos < l.n)
        /\ row \in RowTexts /\ f \in 0..47
    BY ScreenAssumption DEF RowTexts
  <2> QED
    BY <2>1, <2>2
<1>5. Page' \in Nat \ {0} /\ Page' = render_page_rows(size'.rows)
  BY <1>3 DEF Page, render_page_rows, util_clamp_int
<1>6. /\ scroll' \in Nat
      /\ view'.n > 0 => scroll' < view'.n /\ view'.pos \in scroll' .. scroll' + Page' - 1
  <2>1. CASE view'.n = 0
    BY <2>1 DEF Measure
  <2>2. CASE view'.n > 0
    <3>1. scroll' = ClampScroll(scroll, view'.pos, Page', view'.n)
      BY <1>5, <2>2 DEF Measure
    <3>2. /\ scroll' \in Nat /\ view'.pos \in scroll' .. scroll' + Page' - 1
      BY <1>2, <1>4, <1>5, <2>2, <3>1, ClampScrollShows
    <3>3. \A a, b, c : a \in Nat /\ b \in Nat /\ c \in Nat /\ b < c /\ b >= a => a < c
      OBVIOUS
    <3> QED
      BY <1>4, <1>5, <2>2, <3>2
  <2> QED
    BY <1>4, <2>1, <2>2
<1>7. TypeOK'
  BY <1>1, <1>2, <1>3, <1>4, <1>6 DEF TypeOK
<1>8. Sized'
  BY <1>3, <1>4, <1>6 DEF Sized
<1>9. Scrolled'
  BY <1>6 DEF Scrolled
<1>10. NothingStale' /\ QuestionVisible' /\ SelectedOnGlass'
  BY <1>1 DEF NothingStale, QuestionVisible, SelectedOnGlass, OnGlass
<1> QED
  BY <1>7, <1>8, <1>9, <1>10 DEF SInv

LEMMA FrameKeeps == SInv /\ render_dashboard => SInv'
<1> SUFFICES ASSUME SInv, render_dashboard PROVE SInv'
  OBVIOUS
<1>1. /\ pc = "sized" /\ pc' = "top" /\ glass' = Written(paint)
      /\ window' = window /\ size' = size /\ view' = view /\ scroll' = scroll
      /\ wrap' = wrap
  BY DEF render_dashboard
<1>2. Sized /\ TypeOK /\ Scrolled /\ window \in Windows
  BY DEF SInv, TypeOK
<1>3. window.cols \in Nat \ {0} /\ window.rows \in Nat \ {0}
  BY <1>2, WindowTyped
<1>4. /\ Written(paint).filled \in 0..window.rows
      /\ Plain => ~Written(paint).stale
  BY <1>2, <1>3, WrittenIs
<1>5. TypeOK'
  BY <1>1, <1>2, <1>4 DEF TypeOK
<1>6. Sized'
  BY <1>1, <1>2 DEF Sized
<1>7. Scrolled'
  BY <1>1 DEF Scrolled
<1>8. NothingStale'
  <2>1. Plain' = Plain
    BY <1>1 DEF Plain, Breaks, Gaps
  <2> QED
    BY <1>1, <1>4, <2>1 DEF NothingStale
<1>9. QuestionVisible'
  <2> SUFFICES ASSUME view.mode = "question", window.cols >= 40, window.rows >= 10
               PROVE  "status" \in Written(paint).shows
    BY <1>1 DEF QuestionVisible
  <2> QED
    BY <1>2, <1>3, QuestionStays
<1>10. SelectedOnGlass'
  <2> SUFFICES ASSUME view.n > 0, size = [cols |-> window.cols, rows |-> window.rows],
                      window.cols > 61, Plain, Excess <= Spare
               PROVE  "selected" \in Written(paint).shows
    <3>1. Plain' = Plain /\ Excess' = Excess /\ Spare' = Spare
      BY <1>1 DEF Plain, Breaks, Gaps, Excess, Spare
    <3> QED
      BY <1>1, <3>1 DEF SelectedOnGlass
  <2>1. view.pos \in scroll .. scroll + Page - 1
    BY <1>1, <1>2 DEF Scrolled
  <2> QED
    BY <1>2, <2>1, SelectionStays
<1> QED
  BY <1>5, <1>6, <1>7, <1>8, <1>9, <1>10 DEF SInv

LEMMA ResizeKeeps == SInv /\ (\E w \in Windows : Resize(w)) => SInv'
<1> SUFFICES ASSUME SInv, NEW w \in Windows, Resize(w) PROVE SInv'
  OBVIOUS
<1>1. /\ window' = w /\ glass' = Unsettled(w) /\ size' = size /\ view' = view
      /\ scroll' = scroll /\ pc' = pc
  BY DEF Resize
<1>2. glass'.filled = w.rows /\ glass'.settled = FALSE
  BY <1>1 DEF Unsettled
<1>3. TypeOK'
  BY <1>1, <1>2, WindowTyped DEF SInv, TypeOK
<1>4. Sized'
  BY <1>1 DEF SInv, Sized
<1>5. Scrolled'
  BY <1>1 DEF SInv, Scrolled, Page
<1>6. NothingStale' /\ QuestionVisible' /\ SelectedOnGlass'
  BY <1>2 DEF NothingStale, QuestionVisible, SelectedOnGlass, OnGlass
<1> QED
  BY <1>3, <1>4, <1>5, <1>6 DEF SInv

LEMMA ScreenStutters == SInv /\ UNCHANGED vars => SInv'
BY DEF SInv, vars, TypeOK, Sized, Scrolled, Page, NothingStale, QuestionVisible,
       SelectedOnGlass, OnGlass, Plain, Breaks, Gaps, Excess, Spare

LEMMA ScreenInvariant == Spec => []SInv
<1>1. SInv /\ [Next]_vars => SInv'
  BY MeasureKeeps, FrameKeeps, ResizeKeeps, ScreenStutters DEF Next
<1> QED
  BY <1>1, ScreenInit, PTL DEF Spec

(* Whatever the window says of itself and however often it is resized, the *)
(* size the program works with stays between its floor and its ceiling,    *)
(* and the scroll offset within the list (term_size, clamp_view).          *)
THEOREM ScreenTypes == Spec => []TypeOK
<1>1. SInv => TypeOK
  BY DEF SInv
<1> QED
  BY <1>1, ScreenInvariant, PTL

(* A frame whose rows hold neither newline nor tab leaves nothing of an    *)
(* older one on the glass, whatever that one held: in every window it fits *)
(* its buffer with the sequence that erases what is below it (render.c,    *)
(* 25-28 and FRAME_CAP).                                                   *)
THEOREM NothingIsStale == Spec => []NothingStale
<1>1. SInv => NothingStale
  BY DEF SInv
<1> QED
  BY <1>1, ScreenInvariant, PTL

(* The question before a kill can be read in every window of at least 40   *)
(* by 10, also in one that changed after it was measured (paint).          *)
THEOREM QuestionIsVisible == Spec => []QuestionVisible
<1>1. SInv => QuestionVisible
  BY DEF SInv
<1> QED
  BY <1>1, ScreenInvariant, PTL

(* In every window that holds a row of the table and some of its name the  *)
(* selected row can be seen, for every list and place in it, however long  *)
(* the host's name, the filter and the names are, as long as the fields    *)
(* before the names keep to their columns and no command line holds a      *)
(* newline or a tab (clamp_view with paint).                               *)
THEOREM SelectionOnGlass == Spec => []SelectedOnGlass
<1>1. SInv => SelectedOnGlass
  BY DEF SInv
<1> QED
  BY <1>1, ScreenInvariant, PTL
=============================================================================
