------------------------------- MODULE Kernel -------------------------------
(***************************************************************************)
(* Process lifecycle, preemptive scheduler and terminal switching of the   *)
(* mp3 kernel (src/mp3/student-distrib).                                   *)
(*                                                                         *)
(*   execute / halt      syscalls.c                                        *)
(*   schedule            scheduler.c   (PIT interrupt, 100 Hz)             *)
(*   switch_terminal     terminal.c    (keyboard interrupt, Alt+F1..F3)    *)
(*   vidmap              syscalls.c                                        *)
(*                                                                         *)
(* There is one CPU.  execute, halt, vidmap and switch_terminal run with   *)
(* interrupts disabled (cli / cli_and_save) from their first statement to  *)
(* the context switch or return that ends them, and schedule runs inside   *)
(* an interrupt gate, so each is one atomic step here.  Process ids are    *)
(* 1-based; the code's active[pid-1] and page_directory_array[pid-1] are   *)
(* written active[pid] and a directory number pid.  Pid 0 names the boot   *)
(* kernel stack, whose PCB slot getProcessPCB(0) the boot execute reads.   *)
(*                                                                         *)
(* A ghost variable loc records where each process really is, so that the  *)
(* saved contexts in the PCBs can be compared with it.                     *)
(***************************************************************************)
EXTENDS Integers, FiniteSets, Sequences

CONSTANTS
    NUM_MAX_PROCESSES,   \* paging.h: number of process slots (6)
    NUM_TERMINALS        \* terminal.h: number of virtual terminals (3)

ASSUME NUM_MAX_PROCESSES \in Nat \ {0}
ASSUME NUM_TERMINALS \in Nat \ {0}

Slots == 1..NUM_MAX_PROCESSES          \* process ids
Pids  == 0..NUM_MAX_PROCESSES          \* 0: no process / boot stack
Terms == 0..NUM_TERMINALS - 1
NoProcess == -1                        \* init_terminals: active_process = -1

\* Physical 4 kB frames of text video memory (terminal.h, terminal.c):
\* VIDEO_BASE 0xB8000 and terminalN_storage 0xB9000 + N * 0x1000.
VIDEO_BASE == 184
StorageLocation(t) == 185 + t
VideoFrames == {VIDEO_BASE} \cup {StorageLocation(t) : t \in Terms}

\* Saved instruction pointer in a PCB: never written, the EIP_RETURN label
\* of schedule, or the program entry point written by switch_terminal.
Eips == {"none", "EIP_RETURN", "entry"}

\* Where a process really is (ghost): a free slot, a shell created by
\* switch_terminal that has not run yet, running or runnable user code, or
\* blocked inside its own execute waiting for its child to halt.
Locs == {"free", "fresh", "user", "in_execute"}

VARIABLES
    active,                 \* syscalls.c active[]: slot in use
    curr_process,           \* syscalls.c curr_process
    pcb,                    \* PCB fields used by the lifecycle code
    terminals,              \* terminal.h terminals[]: active_process, video_start
    active_terminal_index,  \* foreground terminal
    terminal_iter,          \* scheduler.c terminal_iter
    tss_esp0,               \* whose kernel stack tss.esp0 points at
    cr3,                    \* which page directory is loaded
    video_mem_page_table,   \* frame of entry 0 of each vidmap page table, 0 if never set
    pde64,                  \* page_directory_array[p][64] present
    loc                     \* ghost: where each process is

vars == << active, curr_process, pcb, terminals, active_terminal_index,
           terminal_iter, tss_esp0, cr3, video_mem_page_table, pde64, loc >>

PcbRecords == [ parent_num : Pids, terminal_index : Terms,
                parent_stack : Pids, current_eip : Eips,
                is_user_mode : BOOLEAN ]

TerminalRecords == [ active_process : {NoProcess} \cup Slots,
                     video_start : VideoFrames ]

-----------------------------------------------------------------------------
(* Helpers *)

\* Mutation: the slot search without its active[] test.
FreeSlotsUnchecked == Slots

\* The lowest free slot, as found by the loops of execute and switch_terminal.
FreeSlots == { p \in Slots : ~active[p] }
LowestFree == CHOOSE p \in FreeSlots : \A q \in FreeSlots : p =< q

Occupied(t) == terminals[t].active_process # NoProcess

\* Mutation: the scan starts at terminal_iter itself, without the first
\* advance, so the current terminal is picked again.
NextTerminalNoAdvance(i) ==
    LET k == CHOOSE k \in 0..(NUM_TERMINALS - 1) :
                 /\ Occupied((i + k) % NUM_TERMINALS)
                 /\ \A j \in 0..(k - 1) : ~Occupied((i + j) % NUM_TERMINALS)
    IN  (i + k) % NUM_TERMINALS

\* schedule: advance terminal_iter once, then keep advancing while the
\* terminal has no active process.
NextTerminal(i) ==
    LET k == CHOOSE k \in 1..NUM_TERMINALS :
                 /\ Occupied((i + k) % NUM_TERMINALS)
                 /\ \A j \in 1..(k - 1) : ~Occupied((i + j) % NUM_TERMINALS)
    IN  (i + k) % NUM_TERMINALS

\* Mutation: the remap loop without its else-if branch.
RemapAliasesOldOnly(old, next) ==
    [ i \in Slots |->
        IF video_mem_page_table[i] = VIDEO_BASE
        THEN StorageLocation(old)
        ELSE video_mem_page_table[i] ]

\* switch_terminal: the loop over video_mem_page_table that moves every
\* present alias that referred to the old foreground or to the new one.
RemapAliases(old, next) ==
    [ i \in Slots |->
        IF video_mem_page_table[i] = VIDEO_BASE
        THEN StorageLocation(old)
        ELSE IF video_mem_page_table[i] = StorageLocation(next)
             THEN VIDEO_BASE
             ELSE video_mem_page_table[i] ]

\* switch_terminal: the two memcpy and the video_start bookkeeping.
SwapVideo(old, next) ==
    [ terminals EXCEPT ![old].video_start = StorageLocation(old),
                       ![next].video_start = VIDEO_BASE ]

-----------------------------------------------------------------------------
Init ==
    /\ active = [ p \in Slots |-> FALSE ]
    /\ curr_process = 0
    /\ pcb = [ p \in Pids |-> [ parent_num |-> 0, terminal_index |-> 0,
                                parent_stack |-> 0, current_eip |-> "none",
                                is_user_mode |-> FALSE ] ]
    /\ terminals = [ t \in Terms |->
                       [ active_process |-> NoProcess,
                         video_start |-> IF t = 0 THEN VIDEO_BASE
                                                  ELSE StorageLocation(t) ] ]
    /\ active_terminal_index = 0
    /\ terminal_iter = 0
    /\ tss_esp0 = 0
    /\ cr3 = 1                              \* initPaging loads directory 0
    /\ video_mem_page_table = [ p \in Slots |-> 0 ]
    /\ pde64 = [ p \in Slots |-> FALSE ]
    /\ loc = [ p \in Slots |-> "free" ]

\* The caller of execute: the boot code (curr_process 0, before any process
\* exists) or the running process in user mode.
CanCallExecute ==
    \/ curr_process = 0 /\ \A p \in Slots : ~active[p]
    \/ curr_process # 0 /\ loc[curr_process] = "user"

\* Mutation: execute without the terminal_index assignment, so the child
\* keeps the terminal of the slot's previous occupant.
ExecuteSuccessStaleTerminal ==
    /\ CanCallExecute
    /\ FreeSlots # {}
    /\ LET pid == LowestFree
           me  == pcb[tss_esp0]
       IN
       /\ active' = [ active EXCEPT ![pid] = TRUE ]
       /\ tss_esp0' = pid
       /\ pcb' = [ pcb EXCEPT ![pid].parent_num = curr_process,
                              ![pid].parent_stack = tss_esp0 ]
       /\ terminals' = [ terminals EXCEPT
                           ![me.terminal_index].active_process = pid ]
       /\ curr_process' = pid
       /\ cr3' = pid
       /\ loc' = [ q \in Slots |-> CASE q = pid          -> "user"
                                       [] q = curr_process -> "in_execute"
                                       [] OTHER            -> loc[q] ]
       /\ UNCHANGED << active_terminal_index, terminal_iter,
                       video_mem_page_table, pde64 >>

\* execute, successful path: lowest free slot, program loaded, PCB filled,
\* terminal ownership inherited from the PCB found from the stack pointer,
\* child made current, then context_switch to user mode at its entry point.
\* The caller stays blocked at end_of_execute.
ExecuteSuccess ==
    /\ CanCallExecute
    /\ FreeSlots # {}
    /\ LET pid == LowestFree
           me  == pcb[tss_esp0]
       IN
       /\ active' = [ active EXCEPT ![pid] = TRUE ]
       /\ tss_esp0' = pid
       /\ pcb' = [ pcb EXCEPT ![pid].parent_num = curr_process,
                              ![pid].terminal_index = me.terminal_index,
                              ![pid].parent_stack = tss_esp0 ]
       /\ terminals' = [ terminals EXCEPT
                           ![me.terminal_index].active_process = pid ]
       /\ curr_process' = pid
       /\ cr3' = pid
       /\ loc' = [ q \in Slots |-> CASE q = pid          -> "user"
                                       [] q = curr_process -> "in_execute"
                                       [] OTHER            -> loc[q] ]
       /\ UNCHANGED << active_terminal_index, terminal_iter,
                       video_mem_page_table, pde64 >>

\* execute, failing paths: no free slot (return -1), or load_program fails
\* after the child's directory was loaded (the caller's directory is
\* reloaded and -1 returned).  The boot shell always loads.
ExecuteFail ==
    /\ curr_process # 0
    /\ loc[curr_process] = "user"
    /\ \/ /\ FreeSlots = {}
          /\ UNCHANGED cr3
       \/ /\ FreeSlots # {}
          /\ cr3' = curr_process
    /\ UNCHANGED << active, curr_process, pcb, terminals, active_terminal_index,
                    terminal_iter, tss_esp0, video_mem_page_table, pde64, loc >>

\* Mutation: halt without the root-shell test, so a root shell "returns"
\* to parent 0 and loads page_directory_array[-1].
HaltNoRootCheck ==
    /\ curr_process # 0
    /\ loc[curr_process] = "user"
    /\ LET me     == pcb[tss_esp0]
           parent == me.parent_num
       IN
       /\ cr3' = parent
       /\ terminals' = [ terminals EXCEPT
                           ![me.terminal_index].active_process = parent ]
       /\ tss_esp0' = parent
       /\ active' = [ active EXCEPT ![curr_process] = FALSE ]
       /\ curr_process' = parent
       /\ loc' = [ loc EXCEPT ![curr_process] = "free",
                              ![me.parent_stack] = "user" ]
       /\ UNCHANGED << pcb, active_terminal_index, terminal_iter,
                       video_mem_page_table, pde64 >>

\* Mutation: halt without the tss.esp0 update.
HaltKeepsEsp0 ==
    /\ curr_process # 0
    /\ loc[curr_process] = "user"
    /\ LET me     == pcb[tss_esp0]
           parent == me.parent_num
       IN
       /\ parent # 0
       /\ cr3' = parent
       /\ terminals' = [ terminals EXCEPT
                           ![me.terminal_index].active_process = parent ]
       /\ active' = [ active EXCEPT ![curr_process] = FALSE ]
       /\ curr_process' = parent
       /\ loc' = [ loc EXCEPT ![curr_process] = "free",
                              ![me.parent_stack] = "user" ]
       /\ UNCHANGED << pcb, active_terminal_index, terminal_iter, tss_esp0,
                       video_mem_page_table, pde64 >>

\* halt of a process whose parent is a process: restore the parent's
\* directory, give the terminal back to the parent, point tss.esp0 at the
\* parent, free the slot of curr_process, and jump to the saved
\* end_of_execute on the saved parent stack.  halt first closes the files,
\* which FileTable models.  A root shell (parent_num 0) is restarted in
\* place by context_switch and changes nothing modelled here.
Halt ==
    /\ curr_process # 0
    /\ loc[curr_process] = "user"
    /\ LET me     == pcb[tss_esp0]
           parent == me.parent_num
       IN
       /\ parent # 0
       /\ cr3' = parent
       /\ terminals' = [ terminals EXCEPT
                           ![me.terminal_index].active_process = parent ]
       /\ tss_esp0' = parent
       /\ active' = [ active EXCEPT ![curr_process] = FALSE ]
       /\ curr_process' = parent
       /\ loc' = [ loc EXCEPT ![curr_process] = "free",
                              ![me.parent_stack] = "user" ]
       /\ UNCHANGED << pcb, active_terminal_index, terminal_iter,
                       video_mem_page_table, pde64 >>

\* Mutation: schedule saves the eip but leaves is_user_mode as it was.
ScheduleKeepsUserMode ==
    /\ curr_process # 0
    /\ LET saved == [ pcb EXCEPT ![tss_esp0].current_eip = "EIP_RETURN" ]
           iter  == NextTerminal(terminal_iter)
           pid   == terminals[iter].active_process
       IN
       /\ pcb' = saved
       /\ terminal_iter' = iter
       /\ cr3' = pid
       /\ tss_esp0' = pid
       /\ curr_process' = pid
       /\ loc' = IF saved[pid].is_user_mode
                 THEN [ loc EXCEPT ![pid] = "user" ]
                 ELSE loc
       /\ UNCHANGED << active, terminals, active_terminal_index,
                       video_mem_page_table, pde64 >>

\* schedule (PIT interrupt): save the interrupted context in the PCB found
\* from the stack, pick the next terminal with an active process, load its
\* directory and kernel stack, and resume it: in user mode at the saved
\* entry point if is_user_mode, else by returning into its own schedule.
Schedule ==
    /\ curr_process # 0
    /\ LET saved == [ pcb EXCEPT ![tss_esp0].current_eip = "EIP_RETURN",
                                 ![tss_esp0].is_user_mode = FALSE ]
           iter  == NextTerminal(terminal_iter)
           pid   == terminals[iter].active_process
       IN
       /\ pcb' = saved
       /\ terminal_iter' = iter
       /\ cr3' = pid
       /\ tss_esp0' = pid
       /\ curr_process' = pid
       /\ loc' = IF saved[pid].is_user_mode
                 THEN [ loc EXCEPT ![pid] = "user" ]
                 ELSE loc
       /\ UNCHANGED << active, terminals, active_terminal_index,
                       video_mem_page_table, pde64 >>

\* switch_terminal to a terminal that already has a process: swap video
\* memory, remap the vidmap aliases, reload the current directory.
SwitchTerminal(next) ==
    /\ curr_process # 0
    /\ next # active_terminal_index
    /\ Occupied(next)
    /\ terminals' = SwapVideo(active_terminal_index, next)
    /\ video_mem_page_table' = RemapAliases(active_terminal_index, next)
    /\ cr3' = curr_process
    /\ active_terminal_index' = next
    /\ UNCHANGED << active, curr_process, pcb, terminal_iter, tss_esp0,
                    pde64, loc >>

\* switch_terminal to a terminal without a process: if a slot is free, swap
\* video memory as above, then set up a root shell in the lowest free slot
\* (parent 0, saved context = user mode at the shell's entry) and make it
\* the terminal's active process; the scheduler will start it.
SwitchTerminalSpawn(next) ==
    /\ curr_process # 0
    /\ next # active_terminal_index
    /\ ~Occupied(next)
    /\ FreeSlots # {}
    /\ LET pid == LowestFree IN
       /\ pcb' = [ pcb EXCEPT ![pid] = [ parent_num |-> 0,
                                         terminal_index |-> next,
                                         parent_stack |-> 0,
                                         current_eip |-> "entry",
                                         is_user_mode |-> TRUE ] ]
       /\ active' = [ active EXCEPT ![pid] = TRUE ]
       /\ terminals' = [ SwapVideo(active_terminal_index, next)
                           EXCEPT ![next].active_process = pid ]
       /\ video_mem_page_table' = RemapAliases(active_terminal_index, next)
       /\ cr3' = curr_process
       /\ active_terminal_index' = next
       /\ loc' = [ loc EXCEPT ![pid] = "fresh" ]
       /\ UNCHANGED << curr_process, terminal_iter, tss_esp0, pde64 >>

\* vidmap with a valid pointer: point entry 0 of the caller's video page
\* table at VIDEO_BASE, install directory entry 64, flush the TLB.
Vidmap ==
    /\ curr_process # 0
    /\ loc[curr_process] = "user"
    /\ video_mem_page_table' = [ video_mem_page_table EXCEPT
                                   ![curr_process] = VIDEO_BASE ]
    /\ pde64' = [ pde64 EXCEPT ![curr_process] = TRUE ]
    /\ cr3' = curr_process
    /\ UNCHANGED << active, curr_process, pcb, terminals, active_terminal_index,
                    terminal_iter, tss_esp0, loc >>

Next ==
    \/ ExecuteSuccess
    \/ ExecuteFail
    \/ Halt
    \/ Schedule
    \/ \E t \in Terms : SwitchTerminal(t)
    \/ \E t \in Terms : SwitchTerminalSpawn(t)
    \/ Vidmap

\* The PIT fires every 10 ms whenever interrupts are enabled; every other
\* step is taken by user code or by the person at the keyboard.
Fairness == WF_vars(Schedule)

Spec == Init /\ [][Next]_vars /\ Fairness

-----------------------------------------------------------------------------
(* Properties *)

TypeOK ==
    /\ active \in [Slots -> BOOLEAN]
    /\ curr_process \in Pids
    /\ pcb \in [Pids -> PcbRecords]
    /\ terminals \in [Terms -> TerminalRecords]
    /\ active_terminal_index \in Terms
    /\ terminal_iter \in Terms
    /\ tss_esp0 \in Pids
    /\ cr3 \in Slots
    /\ video_mem_page_table \in [Slots -> {0} \cup VideoFrames]
    /\ pde64 \in [Slots -> BOOLEAN]
    /\ loc \in [Slots -> Locs]

\* The processes a halt chain from p passes through: p, its parent, ... up
\* to the first parent_num 0 (at most NUM_MAX_PROCESSES links are followed).
RECURSIVE LineageFrom(_, _)
LineageFrom(p, fuel) ==
    IF p = 0 \/ fuel = 0 THEN {}
    ELSE {p} \cup LineageFrom(pcb[p].parent_num, fuel - 1)

Lineage(p) == LineageFrom(p, NUM_MAX_PROCESSES)

\* The halt chain of p ends at parent 0 (a root shell) within the slots.
ReachesRoot(p) ==
    \E q \in Lineage(p) : pcb[q].parent_num = 0

\* Process tree (execute, halt, switch_terminal).  Every live process
\* belongs to the halt chain of its terminal's active_process; that chain
\* ends at a root shell and stays on one terminal; the active process is
\* runnable and every other live process is blocked in execute with its
\* frame on its own stack, which is where halt will return to.  A slot is
\* free exactly when its active[] entry is clear.
ProcessTreeWellFormed ==
    /\ \A p \in Slots : active[p] <=> loc[p] # "free"
    /\ \A t \in Terms :
         LET top == terminals[t].active_process IN
         IF top = NoProcess
         THEN \A p \in Slots : active[p] => pcb[p].terminal_index # t
         ELSE /\ active[top]
              /\ loc[top] \in {"user", "fresh"}
              /\ ReachesRoot(top)
              /\ \A q \in Lineage(top) :
                   /\ active[q]
                   /\ pcb[q].terminal_index = t
                   /\ pcb[q].parent_stack = pcb[q].parent_num
                   /\ q # top => loc[q] = "in_execute"
    /\ \A p \in Slots :
         active[p] =>
           p \in Lineage(terminals[pcb[p].terminal_index].active_process)

\* The two notions of "current process" agree while a process runs: the
\* global curr_process (used by halt's active[] update and by vidmap) and
\* the PCB found from the kernel stack through tss.esp0 (used for
\* parent_num and terminal_index); the loaded page directory is the
\* running process's own, it is its terminal's active process, and the
\* scheduler's terminal_iter points at that terminal.
RunningProcessConsistent ==
    curr_process # 0 =>
        /\ tss_esp0 = curr_process
        /\ cr3 = curr_process
        /\ loc[curr_process] = "user"
        /\ terminals[pcb[curr_process].terminal_index].active_process
             = curr_process
        /\ terminal_iter = pcb[curr_process].terminal_index

\* The context schedule will resume for each waiting terminal matches
\* where that process really is: a shell set up by switch_terminal and not
\* yet run resumes in user mode at its entry point; any process that has
\* run resumes in kernel mode at the EIP_RETURN of its own schedule.
SavedContextMatches ==
    \A t \in Terms :
        LET p == terminals[t].active_process IN
        p \notin {NoProcess, curr_process} =>
            /\ loc[p] = "fresh" =>
                 pcb[p].is_user_mode /\ pcb[p].current_eip = "entry"
            /\ loc[p] = "user" =>
                 ~pcb[p].is_user_mode /\ pcb[p].current_eip = "EIP_RETURN"

\* Every present vidmap alias (of a live slot or a stale one) points at a
\* buffer some terminal currently draws to: real video memory for the
\* foreground terminal, or the storage page of a background terminal.
\* Never at the storage page of the foreground terminal, which the next
\* switch_terminal overwrites with the contents of video memory.
AliasesReachLiveBuffers ==
    \A p \in Slots :
        video_mem_page_table[p] # 0 =>
            \E t \in Terms : terminals[t].video_start = video_mem_page_table[p]

\* The vidmap alias of a live process points at the video buffer of that
\* process's own terminal (spec 4.1 map_video_alias).
VidmapAliasTracksTerminal ==
    \A p \in Slots :
        active[p] /\ pde64[p] =>
            video_mem_page_table[p] = terminals[pcb[p].terminal_index].video_start

\* A free slot keeps no video-memory alias: halt tears down what vidmap
\* installed (spec 3: entry 64 is present when vidmap has been called), so
\* the next process executed into the slot does not inherit it.
VidmapTornDownAtHalt ==
    \A p \in Slots : ~active[p] => ~pde64[p]

\* Under the PIT's periodic interrupt, every terminal that has a process
\* has it run again and again (spec 8, scheduler fairness).
TerminalsServed ==
    \A t \in Terms :
        []<>( ~Occupied(t)
              \/ (curr_process # 0 /\ pcb[curr_process].terminal_index = t) )

-----------------------------------------------------------------------------
(* Refinement of ProcessStacks *)

\* The stack of terminal t: the halt chain of its active process, read from
\* the root shell up.
RECURSIVE ChainFrom(_, _)
ChainFrom(p, fuel) ==
    IF p = 0 \/ fuel = 0 THEN << >>
    ELSE Append(ChainFrom(pcb[p].parent_num, fuel - 1), p)

StackOf(t) ==
    IF Occupied(t)
    THEN ChainFrom(terminals[t].active_process, NUM_MAX_PROCESSES)
    ELSE << >>

Stacks == INSTANCE ProcessStacks
            WITH Procs   <- Slots,
                 stacks  <- [ t \in Terms |-> StackOf(t) ],
                 running <- IF curr_process = 0 THEN -1
                            ELSE pcb[curr_process].terminal_index

\* The parent pointers, active[] bitmap and per-terminal active_process of
\* execute, halt, schedule and switch_terminal implement per-terminal
\* process stacks: every step is a push on the running terminal, a pop of a
\* non-root process, a new root shell on an empty terminal, a hand-over of
\* the CPU to a non-empty terminal, or leaves the stacks alone.
ImplementsProcessStacks == Stacks!Spec

=============================================================================
