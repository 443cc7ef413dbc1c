--------------------------- MODULE ProcessStacks ---------------------------
(***************************************************************************)
(* What the process lifecycle of the mp3 kernel promises (spec 2, 4.4,     *)
(* 4.5, 4.6), without slots bitmaps, parent pointers or saved registers:   *)
(* every terminal holds a stack of processes whose bottom is the           *)
(* terminal's root shell and whose top is the one process of the terminal  *)
(* that may run; execute pushes a fresh process on the running terminal,   *)
(* halt of a non-root process pops it, a terminal switch may open a new    *)
(* root shell on an empty terminal, and the scheduler runs the top of some *)
(* non-empty terminal.  A process id is on at most one stack, once.        *)
(***************************************************************************)
EXTENDS Integers, Sequences, SequencesExt

CONSTANTS
    Procs,      \* process ids
    Terms       \* terminals

NoTerm == -1    \* before the first process runs

VARIABLES
    stacks,     \* stacks[t]: root shell first, running candidate last
    running     \* the terminal whose top process the CPU runs

vars == << stacks, running >>

InUse == UNION { ToSet(stacks[t]) : t \in Terms }

Init ==
    /\ stacks = [ t \in Terms |-> << >> ]
    /\ running = NoTerm

\* The boot code starts the first shell on terminal 0.
Boot ==
    /\ running = NoTerm
    /\ \E p \in Procs :
         /\ stacks' = [ stacks EXCEPT ![0] = << p >> ]
         /\ running' = 0

\* execute: a fresh process is pushed on the running terminal and runs.
Spawn ==
    /\ running # NoTerm
    /\ \E p \in Procs \ InUse :
         stacks' = [ stacks EXCEPT ![running] = Append(@, p) ]
    /\ UNCHANGED running

\* halt of a process that is not a root shell: its parent runs again.
Exit ==
    /\ running # NoTerm
    /\ Len(stacks[running]) > 1
    /\ stacks' = [ stacks EXCEPT ![running] = Front(@) ]
    /\ UNCHANGED running

\* Switching to an empty terminal opens a root shell there; it runs when
\* the scheduler gets to it.
Open(t) ==
    /\ running # NoTerm
    /\ stacks[t] = << >>
    /\ \E p \in Procs \ InUse :
         stacks' = [ stacks EXCEPT ![t] = << p >> ]
    /\ UNCHANGED running

\* The scheduler hands the CPU to the top process of a non-empty terminal.
Run(t) ==
    /\ running # NoTerm
    /\ stacks[t] # << >>
    /\ running' = t
    /\ UNCHANGED stacks

Next ==
    \/ Boot
    \/ Spawn
    \/ Exit
    \/ \E t \in Terms : Open(t)
    \/ \E t \in Terms : Run(t)

Spec == Init /\ [][Next]_vars

\* No process id is on two stacks or twice on one: a process slot is owned
\* by at most one live process (spec 3, PCB invariant).
SlotsOwnedOnce ==
    /\ \A t \in Terms : IsInjective(stacks[t])
    /\ \A t, u \in Terms : t # u => ToSet(stacks[t]) \cap ToSet(stacks[u]) = {}

=============================================================================
