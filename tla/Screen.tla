-------------------------------- MODULE Screen --------------------------------
(***************************************************************************)
(* The output side of a terminal: the escape sequences of TTYFile::write   *)
(* (tty/file.cpp), the cursor moves of TTY (tty/tty.cpp), and the cursor   *)
(* of the framebuffer (drivers/framebuffer/fb.cpp).                        *)
(*                                                                         *)
(* Positions are in pixels, mX downwards and mY to the right as in the     *)
(* code.  Colors and the glyphs themselves are left out.                   *)
(***************************************************************************)
EXTENDS Integers

CONSTANTS
    FontHeight, FontWidth,      \* FONT_HEIGHT (16), FONT_WIDTH (8)
    Height, Width,              \* mHeight, mWidth
    NumInputs,                  \* gNumEscapeInputs: 6
    MaxInput                    \* bound: the numbers in an escape sequence

\* rows, columns
Rows == Height \div FontHeight
Columns == Width \div FontWidth

\* The loader asks for 1024 x 768 pixels, whole rows and columns of the font
\* (boot/loader.s:44).  On a screen with a partial one a backspace after a move to
\* the far edge would take mX or mY, which are unsigned, below 0.
ASSUME ScreenAssumption ==
    /\ FontHeight \in Nat \ {0} /\ FontWidth \in Nat \ {0}
    /\ Height \in Nat /\ Height = Rows * FontHeight /\ Rows >= 2
    /\ Width \in Nat /\ Width = Columns * FontWidth /\ Columns >= 3
    /\ NumInputs \in Nat \ {0} /\ MaxInput \in Nat

VARIABLES
    mX, mY,             \* the cursor
    mEscapeStatus,      \* "OFF", "ESC" or "CSI"
    current,            \* mCurrentEscapeSequenceInput
    inputs,             \* mEscapeSequenceInput
    moved               \* a cursor move put the cursor at the far edge (history):
                        \* [down, right : BOOLEAN]

screenVars == <<mX, mY, mEscapeStatus, current, inputs, moved>>

ScreenInit ==
    /\ mX = 0 /\ mY = 0
    /\ mEscapeStatus = "OFF"
    /\ current = 0
    /\ inputs = [i \in 0..(NumInputs - 1) |-> 0]
    /\ moved = [down |-> FALSE, right |-> FALSE]

(***************************************************************************)
(* The framebuffer.                                                        *)
(***************************************************************************)
\* row, column
Row == mX \div FontHeight
Column == mY \div FontWidth

\* setRow, setCol: a move past the edge ends at it.
RowPixel(r) == IF r * FontHeight > Height THEN Height ELSE r * FontHeight
ColPixel(c) == IF c * FontWidth > Width THEN Width ELSE c * FontWidth

\* setPosition
SetPosition(r, c) ==
    /\ mX' = RowPixel(r)
    /\ mY' = ColPixel(c)
    /\ moved' = [down |-> RowPixel(r) + FontHeight > Height,
                 right |-> ColPixel(c) + FontWidth > Width]

\* nl: on to the next row, or scroll.  The mutant scrolls too late.
ScrollsLate(x) == x > Height
Scrolls(x) == x + FontHeight > Height

NewLine ==
    /\ mX' = IF Scrolls(mX + FontHeight) THEN FontHeight * (Rows - 1) ELSE mX + FontHeight
    /\ mY' = 0
    /\ moved' = [down |-> FALSE, right |-> FALSE]

\* putc of a character: clearAtCursor, putchar, advance.
PutGlyph ==
    \/ /\ mY + 2 * FontWidth >= Width
       /\ NewLine
    \/ /\ mY + 2 * FontWidth < Width
       /\ mY' = mY + FontWidth
       /\ UNCHANGED <<mX, moved>>

\* putc of a backspace: rewind, to the row above at its start, and clearAtCursor.
PutBackspace ==
    \/ /\ mY > 0
       /\ mY' = mY - FontWidth
       /\ UNCHANGED mX
       /\ moved' = [moved EXCEPT !.right = FALSE]
    \/ /\ mY = 0 /\ mX > 0
       /\ mY' = FontWidth * (Columns - 2)
       /\ mX' = mX - FontHeight
       /\ moved' = [moved EXCEPT !.down = FALSE]
    \/ /\ mY = 0 /\ mX = 0
       /\ UNCHANGED <<mX, mY, moved>>

\* putc of a carriage return: linefeed.
PutReturn ==
    /\ mY' = 0
    /\ moved' = [moved EXCEPT !.right = FALSE]
    /\ UNCHANGED mX

\* clearLine walks the cursor along the row, which is drawn over, and back.
ClearLine ==
    /\ mY' = ColPixel(Column)
    /\ moved' = [moved EXCEPT !.right = mY' + FontWidth > Width]
    /\ UNCHANGED mX

(***************************************************************************)
(* TTYFile::write, one byte at a time.                                     *)
(***************************************************************************)
Escapes == <<mEscapeStatus, current, inputs>>
Input0 == inputs[current]
\* CURRENT_CSI_INPUT of the moves: 1 if none is given.
Distance == IF Input0 = 0 THEN 1 ELSE Input0

\* Bytes that are not part of a sequence.  They do not end one.
WritePlain ==
    /\ PutGlyph \/ PutBackspace \/ NewLine \/ PutReturn
    /\ UNCHANGED Escapes

WriteEscape ==
    /\ mEscapeStatus' = "ESC"
    /\ inputs' = [i \in DOMAIN inputs |-> 0]
    /\ current' = 0
    /\ UNCHANGED <<mX, mY, moved>>

WriteBracket ==
    /\ mEscapeStatus = "ESC"
    /\ mEscapeStatus' = "CSI"
    /\ UNCHANGED <<current, inputs, mX, mY, moved>>

WriteDigit(d) ==
    /\ mEscapeStatus = "CSI"
    /\ 10 * Input0 + d <= MaxInput
    /\ inputs' = [inputs EXCEPT ![current] = 10 * @ + d]
    /\ UNCHANGED <<mEscapeStatus, current, mX, mY, moved>>

\* The last input takes what comes after it as well.  The mutant does not look.
NextInputAny(i) == i + 1
NextInput(i) == IF i = NumInputs - 1 THEN i ELSE i + 1

WriteSemicolon ==
    /\ mEscapeStatus = "CSI"
    /\ current' = NextInput(current)
    /\ UNCHANGED <<mEscapeStatus, inputs, mX, mY, moved>>

\* The moves A, B, C and D; H, J that clears the screen, and the commands that
\* leave the cursor alone (m, J and K with other numbers); K.  The sums of the
\* moves, 16 bits in the code, stay below MaxInput plus the size of the screen.
Subtract(a, b) == IF a >= b THEN a - b ELSE 0

WriteCommand ==
    /\ mEscapeStatus = "CSI"
    /\ mEscapeStatus' = "OFF"
    /\ \/ /\ \/ SetPosition(Subtract(Row, Distance), Column)
             \/ SetPosition(Row + Distance, Column)
             \/ SetPosition(Row, Column + Distance)
             \/ SetPosition(Row, Subtract(Column, Distance))
          /\ inputs' = [inputs EXCEPT ![current] = Distance]
       \/ /\ SetPosition(0, 0) \/ UNCHANGED <<mX, mY, moved>>
          /\ UNCHANGED inputs
       \/ /\ Input0 \in 0..2 /\ ClearLine
          /\ UNCHANGED inputs
    /\ UNCHANGED current

\* The ioctl.
MoveCursor(r, c) ==
    /\ SetPosition(r, c)
    /\ UNCHANGED Escapes

ScreenNext ==
    \/ WritePlain \/ WriteEscape \/ WriteBracket \/ WriteSemicolon \/ WriteCommand
    \/ \E d \in 0..9 : WriteDigit(d)
    \/ \E r \in 0..(Rows + 1), c \in 0..(Columns + 1) : MoveCursor(r, c)

ScreenSpec == ScreenInit /\ [][ScreenNext]_screenVars

(***************************************************************************)
(* Properties.                                                             *)
(***************************************************************************)
\* The cursor, where glyphs are drawn and rows cleared, is on the screen, and a
\* number of an escape sequence in its array, whatever is written.  Only a cursor
\* move may put it at the far edge, which setRow and setCol take for a place on the
\* screen (fb.cpp:159); scrolling, wrapping and backspaces never leave it there.
CursorOnScreen ==
    /\ mX \in 0..Height /\ mY \in 0..Width
    /\ mX + FontHeight > Height => moved.down
    /\ mY + FontWidth > Width => moved.right
    /\ current < NumInputs
================================================================================
