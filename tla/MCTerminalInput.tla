-------------------------- MODULE MCTerminalInput --------------------------
(***************************************************************************)
(* Two terminals with 3-character buffers (two characters and the slot     *)
(* kept for a newline) on a 2 x 2 screen, so that a buffer fills, the      *)
(* cursor wraps, scrolls and backs over a line; three keyboard interrupts  *)
(* from L, Enter, Backspace, F2 and the left Shift, Caps Lock, Ctrl and    *)
(* Alt keys, so that Caps Lock repeats, Shift and Caps Lock combine, and   *)
(* Ctrl+L and Alt+F2 happen.  Reads ask for a negative count, for fewer    *)
(* bytes than the buffer holds and for more (cut by the clamp).            *)
(***************************************************************************)
EXTENDS TerminalInput

MCBufferSize == 3
MCNumCols == 2
MCNumRows == 2
MCNumTerminals == 2
MCChars == {"l", "L", "\n", "\\"}
\* L, Enter, Backspace and F2; Left Shift, Caps Lock, Left Ctrl, Left Alt.
MCTapKeys == {38, 28, 14, 60}
MCModKeys == {[code |-> 42, ext |-> FALSE], [code |-> 58, ext |-> FALSE],
              [code |-> 29, ext |-> FALSE], [code |-> 56, ext |-> FALSE]}
MCReadSizesAll == {-1, 2, 4}
MCWriteStrings == { << "a" >> }
MCMaxKeys == 3
====
