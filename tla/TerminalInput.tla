--------------------------- MODULE TerminalInput ---------------------------
(***************************************************************************)
(* Keyboard input and the terminals' line buffers in the mp3 kernel        *)
(* (terminal.c): handle_keypress runs in the keyboard interrupt gate and   *)
(* appends to, or erases from, the foreground terminal's buffer and moves  *)
(* its cursor; terminal_read of the process of a terminal polls that       *)
(* terminal's buffer with interrupts enabled and then, under cli, drains   *)
(* from the front; terminal_write moves the cursor of the writer's         *)
(* terminal under cli.                                                     *)
(*                                                                         *)
(* A read is therefore two steps: ReadBreak, where the poll loop exits,    *)
(* and ReadDrain, the critical section; keystrokes may come between them.  *)
(* handle_keypress is one step: it decodes the scancode with the modifier  *)
(* flags and then acts on the foreground terminal.  Screen contents are    *)
(* left out; of the scancode tables the model keeps the entries of L,      *)
(* Enter, Backspace, F1-F3 and the modifier keys.                          *)
(***************************************************************************)
EXTENDS Integers, Sequences, SequencesExt

CONSTANTS
    TERMINAL_BUFFER_SIZE, \* 128
    NUM_COLS,             \* 80
    NUM_ROWS,             \* 25
    NUM_TERMINALS,        \* 3
    Chars,                \* characters the keyboard can put in a buffer, "\n" among them
    TapKeys,              \* make codes of the keys that are not modifiers
    ModKeys,              \* modifier keys, [code |-> make code, ext |-> 0xE0-prefixed]
    PrefixOutcomes,       \* whether the second inb of an 0xE0 pair returns the next byte
    ReadSizes,            \* num_bytes given to terminal_read
    WriteStrings,         \* buffers given to terminal_write
    StrayOutcomes,        \* what the byte before terminals[0].buffer can be: is it '\n'?
    MAX_KEYS              \* keystrokes in a behaviour

NL == "\n"
NUL == "NUL"
Terms == 0 .. NUM_TERMINALS - 1
Idle == [state |-> "idle", n |-> 0]

VARIABLES
    buffer,                \* buffer[t]: terminals[t].buffer[0 .. chars_in_buffer-1]
    pos,                   \* pos[t]: [x |-> pos_x, y |-> pos_y]
    active_terminal_index, \* the foreground terminal
    reader,                \* the terminal_read call of terminal t's process, if any
    stray,                 \* the byte read as buffer[-1] of terminal 0 is '\n'
    keys,                  \* keyboard interrupts so far
    modifiers,             \* modifiers[0 .. 6]
    caps_held,             \* Caps Lock's make code came last of its two codes
    fresh,                 \* the platform's second inb of an 0xE0 pair reads the next byte
    held,                  \* ghost: the modifier keys held down
    capsOn,                \* ghost: Caps Lock has been pressed an odd number of times
    accepted,              \* ghost: characters put in t's buffer and not erased
    delivered,             \* ghost: characters terminal_read has returned on t
    last                   \* ghost: the last completed read on t

vars == << buffer, pos, active_terminal_index, reader, stray, keys,
           modifiers, caps_held, fresh, held, capsOn, accepted, delivered, last >>

kbd == << keys, modifiers, caps_held, fresh, held, capsOn >>

(* terminal_putc's cursor: a newline, or a character in the last column,  *)
(* moves to the next line; past the last row the screen scrolls up one.   *)
ScrollLate(p) == IF p.y > NUM_ROWS THEN [p EXCEPT !.y = NUM_ROWS - 1] ELSE p

Scroll(p) == IF p.y >= NUM_ROWS THEN [p EXCEPT !.y = NUM_ROWS - 1] ELSE p

Putc(p, c) ==
    IF c = NL \/ p.x + 1 >= NUM_COLS
    THEN Scroll([x |-> 0, y |-> p.y + 1])
    ELSE Scroll([x |-> p.x + 1, y |-> p.y])

\* handle_keypress's backspace: back one cell, to the end of the line above
\* from column 0, and nowhere from the top-left corner.
BackspaceCursor(p) ==
    IF p.x = 0
    THEN IF p.y = 0 THEN p ELSE [x |-> NUM_COLS - 1, y |-> p.y - 1]
    ELSE [p EXCEPT !.x = @ - 1]

KeyGuard == keys < MAX_KEYS

(* The effects handle_keypress has on the foreground terminal.            *)

KeyPress(c) ==
    LET t == active_terminal_index
        b == buffer[t]
    IN  IF Len(b) < TERMINAL_BUFFER_SIZE - 1
           \/ (c = NL /\ Len(b) < TERMINAL_BUFFER_SIZE)
        THEN /\ buffer' = [buffer EXCEPT ![t] = Append(@, c)]
             /\ accepted' = [accepted EXCEPT ![t] = Append(@, c)]
             /\ pos' = [pos EXCEPT ![t] = Putc(@, c)]
             /\ UNCHANGED active_terminal_index
        ELSE UNCHANGED << buffer, accepted, pos, active_terminal_index >>

\* Backspace erases the last buffered character, whatever it is.
Backspace ==
    LET t == active_terminal_index
    IN  /\ IF buffer[t] = << >>
           THEN UNCHANGED << buffer, accepted, pos >>
           ELSE /\ buffer' = [buffer EXCEPT ![t] = Front(@)]
                /\ accepted' = [accepted EXCEPT ![t] = Front(@)]
                /\ pos' = [pos EXCEPT ![t] = BackspaceCursor(@)]
        /\ UNCHANGED active_terminal_index

\* Ctrl+L: clear_terminal homes the cursor; the buffer is kept.
ClearScreen ==
    /\ pos' = [pos EXCEPT ![active_terminal_index] = [x |-> 0, y |-> 0]]
    /\ UNCHANGED << buffer, accepted, active_terminal_index >>

\* Alt+F1..F3: switch_terminal ignores an index past 2 or the foreground
\* one, and otherwise makes t the foreground terminal.
SwitchTerminal(t) ==
    /\ IF t \in Terms /\ t # active_terminal_index
       THEN active_terminal_index' = t
       ELSE UNCHANGED active_terminal_index
    /\ UNCHANGED << buffer, pos, accepted >>

NoEffect == UNCHANGED << buffer, pos, accepted, active_terminal_index >>

-----------------------------------------------------------------------------
(* handle_keypress, terminal.c 251-346: scancode set 1, a make code below *)
(* 0x80 and its break code 0x80 above it; 0xE0 prefixes a second byte.    *)

SC_BACKSPACE == 14
SC_ENTER == 28
SC_LCTRL == 29
SC_L == 38
SC_LSHIFT == 42
SC_RSHIFT == 54
SC_LALT == 56
SC_CAPS == 58
SC_F1 == 59
SC_PREFIX == 224
BREAK == 128

\* The indices of modifiers[] (terminal.c 3-9).
CAPS_INDEX == 0
L_SHIFT_INDEX == 1
R_SHIFT_INDEX == 2
L_CTRL_INDEX == 3
R_CTRL_INDEX == 4
L_ALT_INDEX == 5
R_ALT_INDEX == 6
ModIdx == 0 .. 6

\* The three tables at the entries of the keys the model presses: every
\* other of them (Backspace, the modifiers, F1-F3) holds 0.
LOWERCASE_SCANCODES(sc) == CASE sc = SC_L -> "l" [] sc = SC_ENTER -> NL [] OTHER -> NUL
SHIFTCASE_SCANCODES(sc) == CASE sc = SC_L -> "L" [] sc = SC_ENTER -> NL [] OTHER -> NUL
CAPSLOCK_SCANCODES(sc)  == CASE sc = SC_L -> "L" [] sc = SC_ENTER -> "\\" [] OTHER -> NUL

\* The flag a one-byte make or break code sets or clears, and those of the
\* byte after 0xE0.
ModCodes ==
    (SC_LCTRL :> [i |-> L_CTRL_INDEX, v |-> 1]) @@ (SC_LSHIFT :> [i |-> L_SHIFT_INDEX, v |-> 1])
    @@ (SC_RSHIFT :> [i |-> R_SHIFT_INDEX, v |-> 1]) @@ (SC_LALT :> [i |-> L_ALT_INDEX, v |-> 1])
    @@ (SC_LCTRL + BREAK :> [i |-> L_CTRL_INDEX, v |-> 0])
    @@ (SC_LSHIFT + BREAK :> [i |-> L_SHIFT_INDEX, v |-> 0])
    @@ (SC_RSHIFT + BREAK :> [i |-> R_SHIFT_INDEX, v |-> 0])
    @@ (SC_LALT + BREAK :> [i |-> L_ALT_INDEX, v |-> 0])
ExtModCodes ==
    (SC_LCTRL :> [i |-> R_CTRL_INDEX, v |-> 1]) @@ (SC_LALT :> [i |-> R_ALT_INDEX, v |-> 1])
    @@ (SC_LCTRL + BREAK :> [i |-> R_CTRL_INDEX, v |-> 0])
    @@ (SC_LALT + BREAK :> [i |-> R_ALT_INDEX, v |-> 0])

SetFlag(m, codes, sc) == IF sc \in DOMAIN codes THEN [m EXCEPT ![codes[sc].i] = codes[sc].v] ELSE m

ModifiersNoCapsHeld(m, sc, next) ==
    LET m1 == SetFlag(m, ModCodes, sc)
        m2 == IF sc = SC_CAPS THEN [m1 EXCEPT ![CAPS_INDEX] = 1 - @] ELSE m1
    IN  IF sc = SC_PREFIX THEN SetFlag(m2, ExtModCodes, next) ELSE m2

ModifiersCapsIncrement(m, sc, next) ==
    LET m1 == SetFlag(m, ModCodes, sc)
        m2 == IF sc = SC_CAPS /\ caps_held # 1 THEN [m1 EXCEPT ![CAPS_INDEX] = @ + 1] ELSE m1
    IN  IF sc = SC_PREFIX THEN SetFlag(m2, ExtModCodes, next) ELSE m2

\* Lines 256-284: the modifier flags after scancode sc (next: the byte the
\* second inb returns); Caps Lock toggles only while caps_held is clear.
Modifiers(m, sc, next) ==
    LET m1 == SetFlag(m, ModCodes, sc)
        m2 == IF sc = SC_CAPS /\ caps_held # 1 THEN [m1 EXCEPT ![CAPS_INDEX] = 1 - @] ELSE m1
    IN  IF sc = SC_PREFIX THEN SetFlag(m2, ExtModCodes, next) ELSE m2

CapsHeld(sc) ==
    CASE sc = SC_CAPS -> 1 [] sc = SC_CAPS + BREAK -> 0 [] OTHER -> caps_held

Shifted(m) == m[L_SHIFT_INDEX] = 1 \/ m[R_SHIFT_INDEX] = 1
Ctrl(m) == m[L_CTRL_INDEX] = 1 \/ m[R_CTRL_INDEX] = 1
Alt(m) == m[L_ALT_INDEX] = 1 \/ m[R_ALT_INDEX] = 1

PressedShiftFirst(m, sc) ==
    IF Shifted(m) THEN SHIFTCASE_SCANCODES(sc)
    ELSE IF m[CAPS_INDEX] = 1 THEN CAPSLOCK_SCANCODES(sc)
    ELSE LOWERCASE_SCANCODES(sc)

\* Lines 311-319: the table is chosen by Shift and Caps Lock.
Pressed(m, sc) ==
    IF Shifted(m) /\ m[CAPS_INDEX] = 0 THEN SHIFTCASE_SCANCODES(sc)
    ELSE IF ~Shifted(m) /\ m[CAPS_INDEX] = 1 THEN CAPSLOCK_SCANCODES(sc)
    ELSE LOWERCASE_SCANCODES(sc)

\* One keyboard interrupt: the flags, then backspace, then the key's effect
\* in the order of the handler's early returns.
HandleKeypress(sc, next) ==
    LET m == Modifiers(modifiers, sc, next)
        c == Pressed(m, sc)
    IN  /\ modifiers' = m
        /\ caps_held' = CapsHeld(sc)
        /\ CASE sc = SC_BACKSPACE                       -> Backspace
             [] sc > 63                                 -> NoEffect
             [] Ctrl(m) /\ c \in {"l", "L"}             -> ClearScreen
             [] Alt(m) /\ sc \in SC_F1 .. SC_F1 + 2     -> SwitchTerminal(sc - SC_F1)
             [] c = NUL \/ Alt(m) \/ Ctrl(m)            -> NoEffect
             [] OTHER                                   -> KeyPress(c)

(* The keyboard: a key that is not a modifier is a make code (its break   *)
(* code reaches the sc > 0x3F return and changes nothing), sent again by  *)
(* typematic repeat; a modifier key is pressed, repeated while held, and  *)
(* released.  An extended key's two bytes are read by one interrupt when  *)
(* the second inb returns the next byte (fresh); otherwise that inb reads *)
(* 0xE0 again, which changes nothing, and the second byte comes as an     *)
(* interrupt of its own.                                                  *)
Send(code, ext) ==
    IF ext /\ fresh THEN HandleKeypress(SC_PREFIX, code) ELSE HandleKeypress(code, 0)

TapKey(sc) ==
    /\ KeyGuard /\ keys' = keys + 1
    /\ Send(sc, FALSE)
    /\ UNCHANGED << held, capsOn, reader, stray, fresh, delivered, last >>

PressKey(k) ==
    /\ KeyGuard /\ keys' = keys + 1
    /\ k \notin held
    /\ held' = held \cup {k}
    /\ capsOn' = (capsOn # (k.code = SC_CAPS))
    /\ Send(k.code, k.ext)
    /\ UNCHANGED << reader, stray, fresh, delivered, last >>

\* Of the held modifiers only Caps Lock is repeated: a repeated make code of
\* Shift, Ctrl or Alt sets a flag its first make code set, and changes
\* nothing but the interrupt count.
RepeatKey(k) ==
    /\ KeyGuard /\ keys' = keys + 1
    /\ k \in held /\ k.code = SC_CAPS
    /\ Send(k.code, k.ext)
    /\ UNCHANGED << held, capsOn, reader, stray, fresh, delivered, last >>

ReleaseKey(k) ==
    /\ KeyGuard /\ keys' = keys + 1
    /\ k \in held
    /\ held' = held \ {k}
    /\ Send(k.code + BREAK, k.ext)
    /\ UNCHANGED << capsOn, reader, stray, fresh, delivered, last >>

(* terminal_read's entry: num_bytes is cut to the buffer size.            *)
ReadStart(t, n) ==
    /\ reader[t].state = "idle"
    /\ reader' = [reader EXCEPT ![t] =
                    [state |-> "polling",
                     n |-> IF n > TERMINAL_BUFFER_SIZE THEN TERMINAL_BUFFER_SIZE ELSE n]]
    /\ UNCHANGED << buffer, pos, active_terminal_index, stray, kbd, accepted, delivered, last >>

(* The byte the poll loop looks at, buffer[chars_in_buffer - 1], is '\n'. *)
(* With an empty buffer that is buffer[-1]: for terminal 0 the byte       *)
(* before the terminals array, for the others the zero padding at the end *)
(* of the previous terminal_t.                                            *)
LastIsNewline(t) ==
    IF buffer[t] = << >> THEN t = 0 /\ stray ELSE Last(buffer[t]) = NL

\* The poll loop exits once chars_in_buffer >= num_bytes (a signed
\* comparison) or on a newline.
Ready(t) == ~(Len(buffer[t]) < reader[t].n) \/ LastIsNewline(t)

ReadBreak(t) ==
    /\ reader[t].state = "polling"
    /\ Ready(t)
    /\ reader' = [reader EXCEPT ![t].state = "draining"]
    /\ UNCHANGED << buffer, pos, active_terminal_index, stray, kbd, accepted, delivered, last >>

\* retval = min(num_bytes, chars_in_buffer), num_bytes compared as unsigned.
Retval(n, c) == IF n >= 0 /\ n < c THEN n ELSE c

\* The shift loop starts at index retval - 1 instead of retval.
DrainedFromRetval(b, r) == SubSeq(b, IF r = 0 THEN 1 ELSE r, Len(b))

\* What is left after retval characters are copied out and the rest shifted
\* to the front.
Drained(b, r) == SubSeq(b, r + 1, Len(b))

ReadDrain(t) ==
    LET r    == Retval(reader[t].n, Len(buffer[t]))
        data == SubSeq(buffer[t], 1, r)
    IN  /\ reader[t].state = "draining"
        /\ buffer' = [buffer EXCEPT ![t] = Drained(@, r)]
        /\ delivered' = [delivered EXCEPT ![t] = @ \o data]
        /\ last' = [last EXCEPT ![t] = [data |-> data, n |-> reader[t].n]]
        /\ reader' = [reader EXCEPT ![t] = Idle]
        /\ UNCHANGED << pos, active_terminal_index, stray, kbd, accepted >>

(* terminal_write: every character goes through terminal_putc on the      *)
(* writer's terminal, under cli.                                          *)
TerminalWrite(t, s) ==
    /\ reader[t].state = "idle"
    /\ pos' = [pos EXCEPT ![t] = FoldLeft(Putc, @, s)]
    /\ UNCHANGED << buffer, active_terminal_index, reader, stray, kbd, accepted, delivered, last >>

Init ==
    /\ buffer = [t \in Terms |-> << >>]
    /\ pos = [t \in Terms |-> [x |-> 0, y |-> 0]]
    /\ active_terminal_index = 0
    /\ reader = [t \in Terms |-> Idle]
    /\ stray \in StrayOutcomes
    /\ keys = 0
    /\ modifiers = [i \in ModIdx |-> 0]
    /\ caps_held = 0
    /\ fresh \in PrefixOutcomes
    /\ held = {}
    /\ capsOn = FALSE
    /\ accepted = [t \in Terms |-> << >>]
    /\ delivered = [t \in Terms |-> << >>]
    /\ last = [t \in Terms |-> [data |-> << >>, n |-> 0]]

Next ==
    \/ \E sc \in TapKeys : TapKey(sc)
    \/ \E k \in ModKeys : PressKey(k) \/ RepeatKey(k) \/ ReleaseKey(k)
    \/ \E t \in Terms, n \in ReadSizes : ReadStart(t, n)
    \/ \E t \in Terms : ReadBreak(t)
    \/ \E t \in Terms : ReadDrain(t)
    \/ \E t \in Terms, s \in WriteStrings : TerminalWrite(t, s)

(* The process of every terminal gets the CPU again and again (Kernel's   *)
(* TerminalsServed), so its poll loop and critical section make progress. *)
(* The user is under no obligation to type.                               *)
Fairness == \A t \in Terms : WF_vars(ReadBreak(t)) /\ WF_vars(ReadDrain(t))

Spec == Init /\ [][Next]_vars /\ Fairness

-----------------------------------------------------------------------------

TypeOK ==
    /\ buffer \in [Terms -> Seq(Chars)]
    /\ \A t \in Terms : Len(buffer[t]) <= TERMINAL_BUFFER_SIZE
    /\ pos \in [Terms -> [x : Nat, y : Nat]]
    /\ active_terminal_index \in Terms
    /\ reader \in [Terms -> [state : {"idle", "polling", "draining"},
                            n : {k \in Int : k <= TERMINAL_BUFFER_SIZE}]]
    /\ stray \in BOOLEAN
    /\ keys \in 0 .. MAX_KEYS
    /\ modifiers \in [ModIdx -> {0, 1}]
    /\ caps_held \in {0, 1}
    /\ held \subseteq ModKeys

(* Typed input is neither lost, duplicated nor reordered: what the reads  *)
(* of a terminal have returned, followed by what is still buffered, is    *)
(* exactly what was typed there and not erased, however keystrokes and    *)
(* the two steps of terminal_read interleave.                             *)
InputConserved ==
    \A t \in Terms : delivered[t] \o buffer[t] = accepted[t]

(* After any mix of echoed keys, backspaces, Ctrl+L and terminal_write,   *)
(* the cursor of every terminal is on its screen (terminal_putc scrolls,  *)
(* backspace wraps to the line above), so video writes stay in the page.  *)
CursorOnScreen ==
    \A t \in Terms : pos[t].x \in 0 .. NUM_COLS - 1 /\ pos[t].y \in 0 .. NUM_ROWS - 1

ShiftDown == \E k \in held : k.code \in {SC_LSHIFT, SC_RSHIFT}

(* Caps Lock is on exactly when its key has been pressed an odd number of *)
(* times: typematic repeat of a held Caps Lock (make codes with no break  *)
(* code between them) must not toggle it again, which is what caps_held   *)
(* in handle_keypress is for.                                             *)
CapsLockFollowsPresses == (modifiers[CAPS_INDEX] = 1) = capsOn

(* A letter typed into a buffer is upper case exactly when either Shift   *)
(* is held or Caps Lock is on, and not both: handle_keypress's choice of  *)
(* SHIFTCASE, CAPSLOCK or LOWERCASE table agrees with the keys the user   *)
(* holds and has toggled.                                                 *)
LetterCaseFollowsKeys ==
    [][\A t \in Terms :
         (Len(accepted'[t]) > Len(accepted[t]) /\ Last(accepted'[t]) \in {"l", "L"})
            => ((Last(accepted'[t]) = "L") = (ShiftDown' # capsOn'))]_vars

(* Spec 4.6: a read blocks until the requested count or a newline is      *)
(* buffered: once a newline is in the buffer a waiting read returns.      *)
NewlineReleasesRead ==
    \A t \in Terms :
        [](reader[t].state = "polling" /\ NL \in ToSet(buffer[t])
             => <>(reader[t].state # "polling" \/ NL \notin ToSet(buffer[t])))

(* Spec 4.6 and the "no backspaces" critical section of terminal_read: a  *)
(* read asked for n > 0 bytes returns n bytes or a line ending in the     *)
(* newline that released it.                                              *)
ReadReturnsLineOrCount ==
    \A t \in Terms :
        last[t].n > 0 => Len(last[t].data) >= last[t].n \/ NL \in ToSet(last[t].data)

====
