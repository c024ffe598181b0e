---------------------------- MODULE DisplayServer -----------------------------
(***************************************************************************)
(* The display server (displayserver.c) over its two buffers (screenbuf.c, *)
(* screenbuf_render.c): next[], the frame under construction, and cell[],  *)
(* what the server takes the terminal to show, so that a render sends only *)
(* the cells that differ.  The server answers each call before it takes    *)
(* the next, and a call is one step.                                       *)
(*                                                                         *)
(* A cell is a glyph with its attributes.  Escape sequences are words here *)
(* (the parser keeps its state when a sequence is cut between two calls).  *)
(* Left out: the position and visibility of the terminal's own cursor,     *)
(* synchronized output, which no client asks for, and the calls that only  *)
(* ask.  The size is the one locked at boot: after SET_SIZE or SCREEN_AUTO *)
(* the cells that come into view are stale until the next full repaint.    *)
(*                                                                         *)
(* External: the terminal, which obeys the cells, 2J, and a line feed at   *)
(* the bottom of a scroll region: that scrolls whole rows.                 *)
(***************************************************************************)
EXTENDS Integers, Sequences, SequencesExt, FiniteSetsExt

CONSTANTS
  Rows, Cols,
  BodyTop, BodyBottom, \* rows of the shell's region, and of the Tetris board
  Glyphs,              \* what clients write
  Texts,               \* sequences of words that a WRITE carries
  Trees,               \* frames that trees paint
  THIST_LINES,
  SBUF_DIFF_QCAP,
  MaxDisplayCalls      \* bound: calls to the server

VARIABLES
  ds,          \* the server: buffers, cursor, history, view, shell region, readline;
               \* external: .terminal, what the terminal shows
  displayCalls \* history: calls made

displayVars == <<ds, displayCalls>>

Blank == " "
Invalid == ""      \* g[0] = 0: differs from whatever is wanted
Cells == (0..Rows - 1) \X (0..Cols - 1)
Blanks == [p \in Cells |-> Blank]
NoRegion == -1

-----------------------------------------------------------------------------
(* The buffers. *)

screenbuf_set(d, row, col, g) ==
  IF <<row, col>> \in Cells THEN [d EXCEPT !.next[<<row, col>>] = g] ELSE d

\* Rows r0 to r1 up by one, in the columns C; the last is blank. One row alone
\* stays as it is, which is no region a client gives.
ScrolledUp(buf, r0, r1, C) ==
  [p \in Cells |-> IF r1 <= r0 \/ p[1] \notin r0..r1 \/ p[2] \notin C THEN buf[p]
                   ELSE IF p[1] = r1 THEN Blank ELSE buf[<<p[1] + 1, p[2]>>]]

screenbuf_clear_eol(d, row, col) ==
  [d EXCEPT !.next = [p \in Cells |-> IF p[1] = row /\ p[2] >= col THEN Blank ELSE @[p]]]

screenbuf_clear_buf(d) ==
  [d EXCEPT !.next = Blanks, !.cell = [p \in Cells |-> Invalid]]

\* The rows core b + 1 compares.
BandRows(b) ==
  LET height(i) == Rows \div 3 + (IF i < Rows % 3 THEN 1 ELSE 0)
      start == (Rows \div 3) * b + (IF b < Rows % 3 THEN b ELSE Rows % 3)
  IN  start..start + height(b) - 1

ASSUME QueuesHoldTheirBands ==
  \A b \in 0..2 : Cardinality(BandRows(b)) * Cols <= SBUF_DIFF_QCAP

diff_band_fn(d, b) == {p \in Cells : p[1] \in BandRows(b) /\ d.cell[p] # d.next[p]}

\* The cells that differ are sent to the terminal.
screenbuf_render(d) ==
  LET queued == UNION {diff_band_fn(d, b) : b \in 0..2}
      drained(buf) == [p \in Cells |-> IF p \in queued THEN d.next[p] ELSE buf[p]]
  IN  [d EXCEPT !.cell = drained(@), !.terminal = drained(@)]

-----------------------------------------------------------------------------
(* The cursor and the lines. *)

term_shell_col0(d) == IF d.r0 >= 0 THEN 1 ELSE 0
term_shell_col_last == IF Cols > 2 THEN Cols - 2 ELSE Cols - 1
term_scroll_bottom(d) == IF d.r1 >= 0 THEN d.r1 ELSE Rows - 1
ScrollTop(d) == IF d.r0 >= 0 THEN d.r0 ELSE 0
TextCols(d) == IF d.r0 >= 0 THEN term_shell_col0(d)..term_shell_col_last ELSE 0..Cols - 1

thist_push_row(hist, line) ==
  IF Len(hist) < THIST_LINES THEN Append(hist, line) ELSE Append(Tail(hist), line)

\* Seeded fault: the terminal scrolls, and cell[] does not.
CellStays(d) ==
  LET bot == term_scroll_bottom(d)
      up(buf, C) == ScrolledUp(buf, ScrollTop(d), bot, C)
      down == [d EXCEPT !.row = IF @ < bot THEN @ + 1 ELSE bot]
  IN  IF d.row < bot THEN down
      ELSE [down EXCEPT !.next = up(@, TextCols(d)), !.terminal = up(@, 0..Cols - 1)]

\* In a shell region cell[] scrolls between the borders only.
term_linefeed(d) ==
  LET r0 == ScrollTop(d)
      bot == term_scroll_bottom(d)
      scrolled == [d EXCEPT
        !.row = bot,
        !.hist = thist_push_row(@, [c \in 0..Cols - 1 |-> d.next[<<r0, c>>]]),
        !.next = ScrolledUp(@, r0, bot, TextCols(d))]
  IN  IF d.row + 1 <= bot THEN [d EXCEPT !.row = @ + 1]
      ELSE IF d.view # 0 THEN scrolled
      ELSE [scrolled EXCEPT !.cell = ScrolledUp(@, r0, bot, TextCols(d)),
                            !.terminal = ScrolledUp(@, r0, bot, 0..Cols - 1)]

term_put_glyph(d, g) ==
  LET put == [screenbuf_set(d, d.row, d.col, g) EXCEPT !.col = @ + 1]
  IN  IF put.col <= Max(TextCols(d)) THEN put
      ELSE term_linefeed([put EXCEPT !.col = term_shell_col0(d)])

Clamped(n, last) == IF n < 0 THEN 0 ELSE IF n > last THEN last ELSE n
term_cursor_goto(d, row, col) ==
  [d EXCEPT !.row = Clamped(row, Rows - 1), !.col = Clamped(col, Cols - 1)]

\* Left of this column nothing is erased; `min' is a column, or one of a row.
InText(d, min) == IF min < term_shell_col0(d) THEN term_shell_col0(d) ELSE min
readline_min_col(d) == IF d.row = d.start THEN d.min ELSE term_shell_col0(d)

\* The next stop of eight columns, within the text.
Tabbed(d) ==
  LET stop == ((d.col + 8) \div 8) * 8
  IN  InText(d, IF stop > term_shell_col_last THEN term_shell_col_last ELSE stop)

\* One character or escape sequence; CSI J blanks the screen, CSI K the line.
Fed(d, word) ==
  CASE word = "CR" -> [d EXCEPT !.col = term_shell_col0(d)]
    [] word = "LF" -> term_linefeed([d EXCEPT !.col = term_shell_col0(d)])
    [] word = "TAB" -> [d EXCEPT !.col = Tabbed(d)]
    [] word = "BS" -> IF d.col <= InText(d, d.min) THEN d
                      ELSE [screenbuf_set(d, d.row, d.col - 1, Blank) EXCEPT !.col = @ - 1]
    [] word = "CSI H" -> term_cursor_goto(d, 0, 0)
    [] word = "CSI J" -> screenbuf_clear_buf(d)
    [] word = "CSI K" -> screenbuf_clear_eol(d, d.row, d.col)
    [] OTHER -> term_put_glyph(d, word)

-----------------------------------------------------------------------------
(* The view of the history. *)

term_view_live(d) == IF d.view = 0 THEN d ELSE [d EXCEPT !.next = d.saved, !.view = 0]

term_compose_view(d) ==
  LET line(i) == Len(d.hist) - d.view + i
  IN  [d EXCEPT !.next = [p \in Cells |->
        IF line(p[1]) < 0 THEN Blank
        ELSE IF line(p[1]) < Len(d.hist) THEN d.hist[line(p[1]) + 1][p[2]]
        ELSE d.saved[<<line(p[1]) - Len(d.hist), p[2]>>]]]

\* Nothing, not even a render, if the view stays where it is.
term_scroll(d, delta) ==
  LET view == Clamped(d.view + delta, Len(d.hist))
      left == IF d.view = 0 THEN [d EXCEPT !.saved = d.next, !.view = view]
              ELSE [d EXCEPT !.view = view]
  IN  IF view = d.view THEN d
      ELSE screenbuf_render(IF view = 0 THEN [left EXCEPT !.next = d.saved]
                            ELSE term_compose_view(left))

-----------------------------------------------------------------------------
(* The calls. *)

DisplayInit ==
  /\ ds = [next |-> Blanks, cell |-> [p \in Cells |-> Invalid], terminal |-> Blanks,
           saved |-> Blanks, view |-> 0, hist |-> <<>>, row |-> 0, col |-> 0,
           r0 |-> NoRegion, r1 |-> NoRegion, tetris |-> FALSE,
           line |-> [row |-> -1, col |-> 0], start |-> 0, min |-> 0]
  /\ displayCalls = 0

Handled(d) ==
  /\ displayCalls < MaxDisplayCalls /\ displayCalls' = displayCalls + 1
  /\ ds' = d

term_feed(text) == Handled(screenbuf_render(FoldLeft(Fed, term_view_live(ds), text)))

disp_render_now == Handled(screenbuf_render(ds))

\* A whole frame, painted over a blank one.
handle_render_tree(tree, clear) ==
  LET live == [ds EXCEPT !.view = 0]
      cleared == IF clear THEN screenbuf_clear_buf(live) ELSE [live EXCEPT !.next = Blanks]
  IN  Handled(screenbuf_render([cleared EXCEPT !.next = tree]))

handle_clear ==
  Handled([ds EXCEPT !.next = Blanks, !.cell = Blanks, !.terminal = Blanks,
                     !.row = 0, !.col = 0, !.view = 0])

disp_put_cell(row, col, g) == Handled(screenbuf_set(ds, row, col, g))

\* Input starts at the cursor; nothing left of it can be erased.
readline_start ==
  Handled([ds EXCEPT !.min = InText(ds, ds.col), !.start = ds.row,
                     !.line = [row |-> ds.row, col |-> ds.col]])

\* The cell of the input, wherever other output has left the cursor.
term_readline_echo(g) ==
  LET there == term_cursor_goto(ds, ds.line.row, ds.line.col)
      put == term_put_glyph(there, g)
  IN  Handled(screenbuf_render(
        IF ds.line.row < 0 THEN ds
        ELSE [put EXCEPT !.line = [row |-> put.row, col |-> put.col]]))

readline_end == Handled([ds EXCEPT !.line.row = -1, !.start = 0])

\* Back to the end of the line above, but not above the line of the prompt.
term_erase_input_char ==
  LET min == InText(ds, readline_min_col(ds))
      back == IF ds.col > min THEN [ds EXCEPT !.col = @ - 1]
              ELSE [ds EXCEPT !.row = @ - 1, !.col = term_shell_col_last]
  IN  Handled(
        IF ds.col <= min /\ ds.row <= ds.start THEN ds
        ELSE screenbuf_render(
               [screenbuf_set(back, back.row, back.col, Blank)
                  EXCEPT !.line = [row |-> back.row, col |-> back.col]]))

goto_cursor(row, col) ==
  LET there == term_cursor_goto(ds, row, col)
  IN  Handled([there EXCEPT !.line.col = there.col])

shell_region(top, bottom) ==
  Handled(IF bottom < top THEN [ds EXCEPT !.r0 = NoRegion, !.r1 = NoRegion]
          ELSE [ds EXCEPT !.r0 = top, !.r1 = bottom])

\* Opens with a frame that is repainted in full.
disp_tetris_begin(frame) ==
  LET cleared == screenbuf_clear_buf([ds EXCEPT !.view = 0, !.tetris = TRUE])
  IN  Handled(screenbuf_render([cleared EXCEPT !.next = frame]))

\* The body is taken from what is shown, with the board painted over it.
disp_tetris_update(board) ==
  LET body == {p \in Cells : p[1] \in BodyTop..BodyBottom /\ p[2] \in 1..Cols - 2}
      painted == [p \in Cells |-> IF p \in DOMAIN board THEN board[p]
                                  ELSE IF p \in body THEN ds.cell[p] ELSE ds.next[p]]
  IN  Handled(screenbuf_render(IF ds.tetris THEN [ds EXCEPT !.next = painted] ELSE ds))

disp_tetris_end == Handled([ds EXCEPT !.tetris = FALSE])

\* The shell's region, or none; the board is one block, somewhere in the body.
DisplayNext ==
  \/ disp_render_now \/ handle_clear
  \/ \E text \in Texts : term_feed(text)
  \/ \E tree \in Trees : \/ \E clear \in BOOLEAN : handle_render_tree(tree, clear)
                        \/ disp_tetris_begin(tree)
  \/ \E delta \in {-1, 1} : Handled(term_scroll(ds, delta))
  \/ \E g \in Glyphs : term_readline_echo(g)
  \/ \E g \in Glyphs, row \in 0..Rows - 1 : disp_put_cell(row, 1, g)
  \/ \E g \in Glyphs, row \in BodyTop..BodyBottom :
       disp_tetris_update([p \in {<<row, 1>>} |-> g])
  \/ readline_start \/ readline_end \/ term_erase_input_char
  \/ \E row \in 0..Rows - 1 : goto_cursor(row, 1)
  \/ shell_region(BodyTop, BodyBottom) \/ shell_region(0, -1)
  \/ disp_tetris_end

DisplaySpec == DisplayInit /\ [][DisplayNext]_displayVars

-----------------------------------------------------------------------------
(* Properties. *)

\* "cell[] - current: what the terminal is showing now" (screenbuf.h): no render
\* ever leaves out a cell that the terminal shows otherwise.  The first and the
\* last column are excepted: a scroll of the shell's region scrolls them on the
\* terminal and not in cell[], so the frame loses its border there.
TerminalShowsCells ==
  \A p \in Cells : p[2] \in 1..Cols - 2 /\ ds.cell[p] # Invalid =>
                    ds.terminal[p] = ds.cell[p]

=============================================================================
