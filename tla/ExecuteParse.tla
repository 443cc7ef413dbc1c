---------------------------- MODULE ExecuteParse ----------------------------
(***************************************************************************)
(* execute's command parsing and getargs (syscalls.c) for one process     *)
(* slot: execute splits the command into the filename it loads and the    *)
(* argument it stores in the slot's PCB (arg, num_char_in_arg); getargs   *)
(* of the process running in the slot copies the argument to user memory; *)
(* halt frees the slot, and the next execute reuses the PCB as it is.     *)
(*                                                                         *)
(* A command is the bytes command[0 .. TERMINAL_BUFFER_SIZE-1], each a     *)
(* member of Chars: a letter, " ", "\n" or NUL.  The user page is the     *)
(* addresses USER_BASE .. USER_BASE + USER_SIZE - 1 (128MB to 132MB).     *)
(***************************************************************************)
EXTENDS Integers, Sequences, SequencesExt

CONSTANTS
    FILENAME_LEN,          \* 32
    TERMINAL_BUFFER_SIZE,  \* 128
    Chars,                 \* the bytes of a command
    Commands,              \* commands given to execute
    Programs,              \* filenames load_program loads (executable regular files)
    USER_BASE, USER_SIZE,  \* MB_128, MB_4
    Bufs,                  \* buf pointers given to getargs (0 is NULL)
    NBytes                 \* nbytes given to getargs

NUL == "NUL"
BufIdx == 0 .. TERMINAL_BUFFER_SIZE - 1

VARIABLES
    arg,      \* the slot's pcb->arg[0 .. TERMINAL_BUFFER_SIZE-1]
    num,      \* the slot's pcb->num_char_in_arg
    running,  \* a program started by execute runs in the slot
    cmd,      \* ghost: the command of the last execute into the slot (<< >> before one)
    filename, \* ghost: [name, term]: execute's filename bytes, and whether a NUL ends them
    got       \* ghost: the last getargs of the program, [ret, n, out] (<< >> before one)

vars == << arg, num, running, cmd, filename, got >>

-----------------------------------------------------------------------------
(* execute, lines 200-240.                                                 *)

RECURSIVE NameLoopPastCap(_, _, _)
NameLoopPastCap(c, i, fn) ==
    IF i > FILENAME_LEN THEN [name |-> fn, next |-> i, term |-> FALSE]
    ELSE IF c[i] = " " THEN [name |-> fn, next |-> i + 1, term |-> TRUE]
    ELSE IF c[i] = NUL THEN [name |-> fn, next |-> i, term |-> TRUE]
    ELSE NameLoopPastCap(c, i + 1, Append(fn, c[i]))

\* The filename loop: copy up to FILENAME_LEN bytes into filename, which
\* has room for no more; a space is stored as NUL and skipped, a NUL is
\* stored and left as the next byte.  term: a NUL ends the bytes copied.
RECURSIVE NameLoop(_, _, _)
NameLoop(c, i, fn) ==
    IF i >= FILENAME_LEN THEN [name |-> fn, next |-> i, term |-> FALSE]
    ELSE IF c[i] = " " THEN [name |-> fn, next |-> i + 1, term |-> TRUE]
    ELSE IF c[i] = NUL THEN [name |-> fn, next |-> i, term |-> TRUE]
    ELSE NameLoop(c, i + 1, Append(fn, c[i]))

\* while (command[i] == ' ') i++;  Past the buffer the argument loop copies
\* nothing whatever the bytes there are, so they are taken as no space.
RECURSIVE SkipSpaces(_, _)
SkipSpaces(c, i) ==
    IF i < TERMINAL_BUFFER_SIZE /\ c[i] = " " THEN SkipSpaces(c, i + 1) ELSE i

RECURSIVE ArgLoopKeepsNewline(_, _, _, _, _)
ArgLoopKeepsNewline(c, i, j, a, n) ==
    IF i >= TERMINAL_BUFFER_SIZE THEN [arg |-> a, num |-> n]
    ELSE LET a2 == [a EXCEPT ![j] = c[i]]
         IN  IF c[i] \in {"\n", NUL} THEN [arg |-> a2, num |-> j + 1]
             ELSE ArgLoopKeepsNewline(c, i + 1, j + 1, a2, n)

\* The argument loop: copy bytes into arg until a newline (stored as NUL)
\* or a NUL, and set num_char_in_arg to the bytes stored; when neither
\* comes before TERMINAL_BUFFER_SIZE, num_char_in_arg keeps its value n.
RECURSIVE ArgLoop(_, _, _, _, _)
ArgLoop(c, i, j, a, n) ==
    IF i >= TERMINAL_BUFFER_SIZE THEN [arg |-> a, num |-> n]
    ELSE LET a2 == [a EXCEPT ![j] = c[i]]
         IN  IF c[i] = "\n" THEN [arg |-> [a2 EXCEPT ![j] = NUL], num |-> j + 1]
             ELSE IF c[i] = NUL THEN [arg |-> a2, num |-> j + 1]
             ELSE ArgLoop(c, i + 1, j + 1, a2, n)

ParseName(c) == NameLoop(c, 0, << >>)

ArgStart(c) == SkipSpaces(c, ParseName(c).next)

\* load_program (vfs.c) on the filename: its strlen must be below 33 and
\* read_dentry_by_name refuses an empty name and needs a directory entry,
\* here one of an executable.  Of an unterminated filename the strlen runs
\* on into execute's stack: whether it stops at once (overrun = 0) or
\* counts past 32 depends on bytes the code does not set.
LoadSucceeds(f, overrun) ==
    /\ f.term \/ overrun = 0
    /\ f.name # << >>
    /\ f.name \in Programs

\* execute into the slot: parse, then load; a failed load returns -1 with
\* the argument already stored in the slot's PCB.
Execute(c) ==
    LET f == ParseName(c)
        r == ArgLoop(c, ArgStart(c), 0, arg, num)
    IN  /\ ~running
        /\ arg' = r.arg
        /\ num' = r.num
        /\ cmd' = c
        /\ filename' = [name |-> f.name, term |-> f.term]
        /\ \E overrun \in {0, 1} : running' = LoadSucceeds(f, overrun)
        /\ got' = << >>

\* halt of the program in the slot: active[curr_process - 1] = INACTIVE,
\* the PCB left as it is.
Halt ==
    /\ running
    /\ running' = FALSE
    /\ UNCHANGED << arg, num, cmd, filename, got >>

-----------------------------------------------------------------------------
(* getargs, lines 293-319, called by the program in the slot.             *)

BufRefused(buf) == buf = 0 \/ buf > USER_BASE + USER_SIZE \/ buf < USER_BASE

GetArgsNoFitCheck(buf, n) ==
    /\ running
    /\ IF BufRefused(buf) \/ num = 1
       THEN got' = [ret |-> -1, n |-> n, out |-> << >>]
       ELSE got' = [ret |-> 0, n |-> n, out |-> [k \in 1 .. num |-> arg[k - 1]]]
    /\ UNCHANGED << arg, num, running, cmd, filename >>

GetArgs(buf, n) ==
    /\ running
    /\ IF BufRefused(buf) \/ num = 1 \/ n < num
       THEN got' = [ret |-> -1, n |-> n, out |-> << >>]
       ELSE got' = [ret |-> 0, n |-> n, out |-> [k \in 1 .. num |-> arg[k - 1]]]
    /\ UNCHANGED << arg, num, running, cmd, filename >>

-----------------------------------------------------------------------------
\* No code sets a PCB before the first execute into its slot, so
\* num_char_in_arg starts as any value; arg's bytes are overwritten before
\* getargs reads them, save for the case num_char_in_arg is stale.
Init ==
    /\ arg = [k \in BufIdx |-> NUL]
    /\ num \in 0 .. TERMINAL_BUFFER_SIZE
    /\ running = FALSE
    /\ cmd = << >>
    /\ filename = [name |-> << >>, term |-> TRUE]
    /\ got = << >>

Next ==
    \/ \E c \in Commands : Execute(c)
    \/ Halt
    \/ \E buf \in Bufs, n \in NBytes : GetArgs(buf, n)

Spec == Init /\ [][Next]_vars

-----------------------------------------------------------------------------
(* A reference for the split spec.md section 4 describes: the filename up *)
(* to the first space or the 32-byte cap, and the argument string that    *)
(* follows it and its spaces, up to a newline or NUL.                     *)

AsSeq(c) == [k \in 1 .. TERMINAL_BUFFER_SIZE |-> c[k - 1]]

\* s up to (not including) its first element in stops.
UpTo(s, stops) ==
    LET k == SelectInSeq(s, LAMBDA x : x \in stops)
    IN  IF k = 0 THEN s ELSE SubSeq(s, 1, k - 1)

Word(c) == UpTo(AsSeq(c), {" ", NUL})

RefName(c) == SubSeq(Word(c), 1, IF Len(Word(c)) < FILENAME_LEN THEN Len(Word(c)) ELSE FILENAME_LEN)

\* The command after the filename, its one delimiting space and the spaces
\* that follow.
Rest(c) ==
    LET s     == AsSeq(c)
        w     == Len(Word(c))
        after == IF w >= FILENAME_LEN THEN FILENAME_LEN
                 ELSE IF s[w + 1] = " " THEN w + 1 ELSE w
        r     == SubSeq(s, after + 1, Len(s))
        k     == SelectInSeq(r, LAMBDA x : x # " ")
    IN  IF k = 0 THEN << >> ELSE SubSeq(r, k, Len(r))

RefArgs(c) == UpTo(Rest(c), {"\n", NUL})

Terminated(c) == \E k \in 1 .. Len(Rest(c)) : Rest(c)[k] \in {"\n", NUL}

-----------------------------------------------------------------------------
(* Properties.                                                             *)

TypeOK ==
    /\ arg \in [BufIdx -> Chars]
    /\ num \in 0 .. TERMINAL_BUFFER_SIZE
    /\ filename.name \in Seq(Chars) /\ Len(filename.name) <= FILENAME_LEN
    /\ running \in BOOLEAN
    /\ got = << >> \/ got.ret \in {-1, 0}

\* execute's loops split every command as the reference does: the filename
\* it loads is RefName, and when the argument is terminated within the
\* buffer, the PCB holds RefArgs and its NUL, num_char_in_arg counting both.
ParseMatchesReference ==
    cmd # << >> =>
        /\ filename.name = RefName(cmd)
        /\ Terminated(cmd) =>
              /\ num = Len(RefArgs(cmd)) + 1
              /\ \A k \in 1 .. Len(RefArgs(cmd)) : arg[k - 1] = RefArgs(cmd)[k]
              /\ arg[num - 1] = NUL

\* getargs of a program started by a terminated command returns 0 only when
\* there is an argument and it fits in nbytes, and then delivers exactly it
\* and its NUL.
GetArgsReturnsArgs ==
    (got # << >> /\ got.ret = 0 /\ Terminated(cmd)) =>
        /\ RefArgs(cmd) # << >>
        /\ got.out = RefArgs(cmd) \o << NUL >>
        /\ Len(got.out) <= got.n
====
