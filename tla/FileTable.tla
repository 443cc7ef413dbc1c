----------------------------- MODULE FileTable -----------------------------
(***************************************************************************)
(* The file descriptor table of one process slot of the mp3 kernel and the *)
(* system calls that work on it: open, close, read and write dispatched    *)
(* through the per-descriptor operations table (syscalls.c), the regular   *)
(* file, directory and RTC back ends (vfs.c, rtc.c), and halt's close loop *)
(* followed by the next execute's init_file_array into the same slot.      *)
(*                                                                         *)
(* Descriptors 0 and 1 (the terminal) never change here; terminal_read and *)
(* terminal_write are the TerminalInput module.  A process's calls do not  *)
(* interleave with another process's on this table: every PCB is reached  *)
(* through the caller's own kernel stack, and the only foreign writer is   *)
(* rtc_int, which touches rtc_count.                                       *)
(***************************************************************************)
EXTENDS Integers, Sequences, FiniteSets

CONSTANTS
    NUM_MAX_OPEN_FILES, \* descriptors per PCB (8)
    NUM_FILES,          \* directory entries in the boot block (63)
    BLOCK_SIZE,         \* NUM_B_IN_FOUR_KB
    RTC_MAX_FREQ,       \* 1024: the RTC's real rate and the highest virtual one
    Dentries,           \* [0..NUM_FILES-1 -> [name, filetype, inode]]; unused entries are named ""
    Contents,           \* inode -> sequence of bytes of a regular file
    OpenNames,          \* arguments to open: [name, long]; long = more than 32 characters
    ReadSizes,          \* nbytes given to read
    WriteArgs           \* [freq, nbytes] given to write

Fds == 0 .. NUM_MAX_OPEN_FILES - 1
GeneralFds == 2 .. NUM_MAX_OPEN_FILES - 1
BadFds == {-1, NUM_MAX_OPEN_FILES}
OpsTables == {"none", "terminal", "file", "directory", "rtc"}

\* file_t; blank is what init_vfs puts in every free entry.
blank == [ops |-> "none", inode |-> 0, pos |-> 0, flags |-> "AVAIL"]
terminal_entry == [ops |-> "terminal", inode |-> 0, pos |-> 0, flags |-> "OCCUP"]

VARIABLES
    file_array, \* the PCB's file_array
    rtc_count,  \* the PCB's rtc_count
    waiting,    \* the process is spinning in rtc_read
    retval,     \* what the last system call returned to the process (eax)
    handed,     \* ghost: descriptors open returned, not closed since
    got         \* ghost: what reads through each descriptor returned since it was opened

vars == << file_array, rtc_count, waiting, retval, handed, got >>

FileLength(i) == Len(Contents[i])
Bytes == UNION { { Contents[i][k] : k \in DOMAIN Contents[i] } : i \in DOMAIN Contents }
Names == { Dentries[i].name : i \in 0 .. NUM_FILES - 1 }
\* Greater than every file length: (uint32_t) of a negative nbytes is at
\* least 2^31, so read_data runs to the end of the file.
FileLimit == 1 + NUM_FILES * BLOCK_SIZE
AsLength(n) == IF n >= 0 THEN n ELSE FileLimit

MinOf(a, b) == IF a <= b THEN a ELSE b

(* read_data: the inner loop copies from data block `block` of the inode *)
(* starting at index `inblock`, until the request, the block or the file  *)
(* ends; the outer loop moves to the next block of the inode with the     *)
(* index into the block reset to 0.  Data block b of a file holds its     *)
(* bytes b*BLOCK_SIZE+1 .. (b+1)*BLOCK_SIZE.                              *)
RECURSIVE BlockLoop(_, _, _, _, _, _)
BlockLoop(inode, block, inblock, offset, length, acc) ==
    LET n     == MinOf(MinOf(length - Len(acc), BLOCK_SIZE - inblock),
                       FileLength(inode) - offset)
        first == block * BLOCK_SIZE + inblock + 1
        acc2  == acc \o SubSeq(Contents[inode], first, first + n - 1)
    IN  IF Len(acc2) >= length \/ offset + n >= FileLength(inode)
        THEN acc2
        ELSE BlockLoop(inode, block + 1, 0, offset + n, length, acc2)

\* index_in_inode taken as 0 instead of offset / NUM_B_IN_FOUR_KB
ReadDataFromFirstBlock(inode, offset, length) ==
    IF offset >= FileLength(inode) THEN << >>
    ELSE BlockLoop(inode, 0, offset % BLOCK_SIZE, offset, length, << >>)

ReadData(inode, offset, length) ==
    IF offset >= FileLength(inode) THEN << >>
    ELSE BlockLoop(inode, offset \div BLOCK_SIZE, offset % BLOCK_SIZE, offset, length, << >>)

(* read_dentry_by_name: the first entry whose name matches the first 32   *)
(* characters of fname; -1 for an empty or unknown name.                  *)
DentryByName(nm) ==
    LET hits == { i \in 0 .. NUM_FILES - 1 : Dentries[i].name = nm.name }
    IN  IF nm.name = "" \/ hits = {} THEN -1
        ELSE CHOOSE i \in hits : \A j \in hits : i <= j

FreeFds(fa) == { i \in GeneralFds : fa[i].flags = "AVAIL" }

\* rtc_open on the entry file_open chose: the virtual rate starts at 2 Hz.
RtcOpen(e) == [e EXCEPT !.pos = 2, !.flags = "OCCUP"]

(* file_open: returns [fa, ret] with the new table and the result.        *)
FileOpen(fa, nm) ==
    LET d   == DentryByName(nm)
        idx == CHOOSE i \in FreeFds(fa) : \A j \in FreeFds(fa) : i <= j
        ty  == Dentries[d].filetype
    IN  IF nm.long \/ d = -1 \/ FreeFds(fa) = {}
        THEN [fa |-> fa, ret |-> -1]
        ELSE LET e == [fa[idx] EXCEPT !.ops = CASE ty = 2 -> "file"
                                                [] ty = 1 -> "directory"
                                                [] ty = 0 -> "rtc",
                                      !.inode = Dentries[d].inode]
             IN  [fa  |-> [fa EXCEPT ![idx] = IF ty = 0 THEN RtcOpen(e)
                                              ELSE [e EXCEPT !.pos = 0, !.flags = "OCCUP"]],
                  ret |-> idx]

\* directory_open: the name is looked up again and must be a directory.
DirectoryOpen(fa, nm) ==
    LET d == DentryByName(nm)
    IN  IF d = -1 \/ Dentries[d].filetype # 1 THEN [fa |-> fa, ret |-> -1]
        ELSE FileOpen(fa, nm)

(* open: an RTC file goes through file_open twice and the first           *)
(* descriptor is kept; a directory through directory_open, which looks    *)
(* the name up again and calls file_open.                                 *)
OpenResult(nm) ==
    LET d == DentryByName(nm)
    IN  IF d = -1 THEN [fa |-> file_array, ret |-> -1]
        ELSE IF Dentries[d].filetype = 0
        THEN LET first == FileOpen(file_array, nm)
             IN  IF first.ret = -1 THEN first ELSE FileOpen(first.fa, nm)
        ELSE IF Dentries[d].filetype = 1 THEN DirectoryOpen(file_array, nm)
        ELSE IF Dentries[d].filetype = 2 THEN FileOpen(file_array, nm)
        ELSE [fa |-> file_array, ret |-> -1]

Open(nm) ==
    /\ ~waiting
    /\ LET r == OpenResult(nm)
       IN  /\ file_array' = r.fa
           /\ retval' = r.ret
           /\ handed' = IF r.ret = -1 THEN handed ELSE handed \cup {r.ret}
           /\ got' = IF r.ret = -1 THEN got ELSE [got EXCEPT ![r.ret] = << >>]
    /\ UNCHANGED << rtc_count, waiting >>

\* file_close: a descriptor in range and open is replaced by blank.
FileClose(fa, fd) ==
    IF fd \notin Fds \/ fa[fd].flags = "AVAIL" THEN [fa |-> fa, ret |-> -1]
    ELSE [fa |-> [fa EXCEPT ![fd] = blank], ret |-> 0]

DirectoryClose(fa, fd) == FileClose(fa, fd)

\* rtc_close: an open entry has its fields zeroed and is marked free.
RtcClose(fa, fd) ==
    IF fa[fd].flags = "AVAIL" THEN [fa |-> fa, ret |-> -1]
    ELSE [fa |-> [fa EXCEPT ![fd] = [ops |-> "none", inode |-> 0, pos |-> 0, flags |-> "AVAIL"]],
          ret |-> 0]

(* close: fds 0 and 1 and free entries are refused; otherwise the close   *)
(* of the descriptor's operations table runs.                             *)
Close(fd) ==
    /\ ~waiting
    /\ IF fd \in GeneralFds /\ file_array[fd].flags = "OCCUP"
       THEN LET r == CASE file_array[fd].ops = "file"      -> FileClose(file_array, fd)
                       [] file_array[fd].ops = "directory" -> DirectoryClose(file_array, fd)
                       [] file_array[fd].ops = "rtc"       -> RtcClose(file_array, fd)
            IN  /\ file_array' = r.fa
                /\ retval' = r.ret
                /\ handed' = IF r.ret = 0 THEN handed \ {fd} ELSE handed
                /\ got' = IF r.ret = 0 THEN [got EXCEPT ![fd] = << >>] ELSE got
       ELSE /\ retval' = -1
            /\ UNCHANGED << file_array, handed, got >>
    /\ UNCHANGED << rtc_count, waiting >>

\* read and write refuse a descriptor out of range or not open.
Refused(fd) == IF fd \in Fds THEN file_array[fd].flags = "AVAIL" ELSE TRUE

ReadRefused ==
    /\ retval' = -1
    /\ UNCHANGED << file_array, rtc_count, waiting, handed, got >>

FileReadAdvancesByRequest(fd, n) ==
    /\ LET bytes == ReadData(file_array[fd].inode, file_array[fd].pos, AsLength(n))
       IN  /\ file_array' = [file_array EXCEPT ![fd].pos = @ + AsLength(n)]
           /\ retval' = Len(bytes)
           /\ got' = [got EXCEPT ![fd] = @ \o bytes]
    /\ UNCHANGED << rtc_count, waiting, handed >>

(* file_read: read_data from the cursor, and the cursor advances by what  *)
(* was read.                                                              *)
FileRead(fd, n) ==
    /\ LET bytes == ReadData(file_array[fd].inode, file_array[fd].pos, AsLength(n))
       IN  /\ file_array' = [file_array EXCEPT ![fd].pos = @ + Len(bytes)]
           /\ retval' = Len(bytes)
           /\ got' = [got EXCEPT ![fd] = @ \o bytes]
    /\ UNCHANGED << rtc_count, waiting, handed >>

\* read_dentry_by_index: -1 past the boot block's NUM_FILES entries.
DentryByIndex(i) == IF i >= NUM_FILES THEN -1 ELSE i

(* directory_read: the entry at the cursor, by index into the boot block; *)
(* past NUM_FILES it fails and the cursor stays.                          *)
DirectoryReadNoAdvance(fd) ==
    /\ IF DentryByIndex(file_array[fd].pos) = -1
       THEN /\ retval' = -1
            /\ UNCHANGED << file_array, got >>
       ELSE LET name == Dentries[file_array[fd].pos].name
            IN  /\ UNCHANGED file_array
                /\ retval' = IF name = "" THEN 0 ELSE Len(name)
                /\ got' = [got EXCEPT ![fd] = Append(@, name)]
    /\ UNCHANGED << rtc_count, waiting, handed >>

DirectoryRead(fd) ==
    /\ IF DentryByIndex(file_array[fd].pos) = -1
       THEN /\ retval' = -1
            /\ UNCHANGED << file_array, got >>
       ELSE LET name == Dentries[file_array[fd].pos].name
            IN  /\ file_array' = [file_array EXCEPT ![fd].pos = @ + 1]
                /\ retval' = IF name = "" THEN 0 ELSE Len(name)
                /\ got' = [got EXCEPT ![fd] = Append(@, name)]
    /\ UNCHANGED << rtc_count, waiting, handed >>

(* rtc_read: the countdown is set from the descriptor's virtual rate and  *)
(* the process spins until rtc_int has brought it to 0.                   *)
RtcRead(fd) ==
    /\ rtc_count' = RTC_MAX_FREQ \div file_array[fd].pos
    /\ waiting' = TRUE
    /\ UNCHANGED << file_array, retval, handed, got >>

(* read: the descriptor is checked, then the read of its operations      *)
(* table runs (fds 0 and 1, terminal_read, are the TerminalInput module). *)
Read(fd, n) ==
    /\ ~waiting
    /\ IF Refused(fd) THEN ReadRefused
       ELSE CASE file_array[fd].ops = "file"      -> FileRead(fd, n)
              [] file_array[fd].ops = "directory" -> DirectoryRead(fd)
              [] file_array[fd].ops = "rtc"       -> RtcRead(fd)

RtcReadReturn ==
    /\ waiting
    /\ rtc_count = 0
    /\ waiting' = FALSE
    /\ retval' = 0
    /\ UNCHANGED << file_array, rtc_count, handed, got >>

\* rtc_int, for this slot's PCB.
RtcIntDecrementsAtOne ==
    /\ rtc_count > 1
    /\ rtc_count' = rtc_count - 1
    /\ UNCHANGED << file_array, waiting, retval, handed, got >>

RtcIntNoZeroCheck ==
    /\ rtc_count' = rtc_count - 1
    /\ UNCHANGED << file_array, waiting, retval, handed, got >>

RtcInt ==
    /\ rtc_count # 0
    /\ rtc_count' = rtc_count - 1
    /\ UNCHANGED << file_array, waiting, retval, handed, got >>

IsPowerOfTwo(f) == \E k \in 0 .. f : 2^k = f

(* rtc_write: exactly 4 bytes holding a power of two in 2..1024, stored   *)
(* as the descriptor's virtual rate.                                      *)
RtcWriteAnyFreq(fd, w) ==
    IF w.nbytes # 4 \/ w.freq < 2 \/ w.freq > RTC_MAX_FREQ
    THEN [fa |-> file_array, ret |-> -1]
    ELSE [fa |-> [file_array EXCEPT ![fd].pos = w.freq], ret |-> 4]

RtcWriteResult(fd, w) ==
    IF w.nbytes # 4 \/ w.freq < 2 \/ w.freq > RTC_MAX_FREQ \/ ~IsPowerOfTwo(w.freq)
    THEN [fa |-> file_array, ret |-> -1]
    ELSE [fa |-> [file_array EXCEPT ![fd].pos = w.freq], ret |-> 4]

\* file_write and directory_write always fail.
FileWrite == [fa |-> file_array, ret |-> -1]

DirectoryWrite == FileWrite

(* write: the descriptor is checked, then the write of its operations     *)
(* table runs.                                                            *)
Write(fd, w) ==
    /\ ~waiting
    /\ LET r == IF Refused(fd) THEN [fa |-> file_array, ret |-> -1]
                ELSE CASE file_array[fd].ops = "rtc"       -> RtcWriteResult(fd, w)
                       [] file_array[fd].ops = "file"      -> FileWrite
                       [] file_array[fd].ops = "directory" -> DirectoryWrite
       IN  /\ file_array' = r.fa
           /\ retval' = r.ret
    /\ UNCHANGED << rtc_count, waiting, handed, got >>

(* halt closes descriptors 2..7; the next execute into the slot runs      *)
(* init_file_array, which leaves the same table.                          *)
Halt ==
    /\ ~waiting
    /\ file_array' = [i \in Fds |-> IF i \in GeneralFds THEN blank ELSE terminal_entry]
    /\ handed' = {}
    /\ got' = [i \in Fds |-> << >>]
    /\ UNCHANGED << rtc_count, waiting, retval >>

Init ==
    /\ file_array = [i \in Fds |-> IF i \in GeneralFds THEN blank ELSE terminal_entry]
    /\ rtc_count = 0
    /\ waiting = FALSE
    /\ retval = 0
    /\ handed = {}
    /\ got = [i \in Fds |-> << >>]

Next ==
    \/ \E nm \in OpenNames : Open(nm)
    \/ \E fd \in GeneralFds \cup BadFds \cup {0, 1} : Close(fd)
    \/ \E fd \in GeneralFds \cup BadFds, n \in ReadSizes : Read(fd, n)
    \/ RtcReadReturn
    \/ RtcInt
    \/ \E fd \in GeneralFds \cup BadFds, w \in WriteArgs : Write(fd, w)
    \/ Halt

\* The RTC keeps interrupting at its fixed rate, and the spinning process is
\* given the CPU again by the scheduler (Kernel's TerminalsServed).
Fairness == WF_vars(RtcInt) /\ WF_vars(RtcReadReturn)

Spec == Init /\ [][Next]_vars /\ Fairness

-----------------------------------------------------------------------------

TypeOK ==
    /\ file_array \in [Fds -> [ops : OpsTables, inode : Nat, pos : Nat,
                               flags : {"AVAIL", "OCCUP"}]]
    /\ rtc_count \in 0 .. RTC_MAX_FREQ
    /\ waiting \in BOOLEAN
    /\ retval \in Int
    /\ handed \subseteq GeneralFds
    /\ got \in [Fds -> Seq(Bytes \cup Names)]


(* Whatever read an open file descriptor makes next, read_data(inode,    *)
(* cursor, length) returns exactly the file's bytes from the cursor on,   *)
(* as many as asked and the file has, however the range falls across the *)
(* 4 KB data blocks (spec 6: stitch blocks, stop at the file length).     *)
ReadDataMatchesReference ==
    \A fd \in GeneralFds :
        file_array[fd].ops = "file" =>
            LET i   == file_array[fd].inode
                off == file_array[fd].pos
            IN  \A len \in 0 .. FileLength(i) + 1 :
                    ReadData(i, off, len)
                        = SubSeq(Contents[i], off + 1, MinOf(off + len, FileLength(i)))

(* Reads of a regular file through one descriptor deliver the file from   *)
(* its first byte with no gap or repeat, and the descriptor's cursor is   *)
(* exactly the number of bytes delivered, so a short read at end of file  *)
(* or a negative nbytes (file_read's cast to uint32_t) cannot skip data.  *)
FileCursorMatchesBytes ==
    \A fd \in GeneralFds :
        file_array[fd].ops = "file" =>
            /\ file_array[fd].pos <= FileLength(file_array[fd].inode)
            /\ got[fd] = SubSeq(Contents[file_array[fd].inode], 1, file_array[fd].pos)

\* The names of the boot block's entries in index order ("" for unused ones).
Listing == [k \in 1 .. NUM_FILES |-> Dentries[k - 1].name]

(* Repeated directory_read on a freshly opened directory enumerates every *)
(* entry exactly once in order and then ends with zero-byte reads (spec   *)
(* 8); what was returned is always a prefix of the listing.               *)
DirectoryListingInOrder ==
    \A fd \in GeneralFds :
        file_array[fd].ops = "directory" =>
            /\ Len(got[fd]) <= NUM_FILES
            /\ got[fd] = SubSeq(Listing, 1, Len(got[fd]))

(* Every RTC descriptor holds a virtual rate that is a power of two in    *)
(* 2..1024 (rtc_open's default or an accepted rtc_write), so rtc_read's   *)
(* 1024 / rate is a whole number of real ticks and never divides by zero, *)
(* and a pending countdown is at most 512 ticks.                          *)
RtcRateValid ==
    /\ \A fd \in GeneralFds :
         file_array[fd].ops = "rtc" =>
            /\ file_array[fd].pos \in 2 .. RTC_MAX_FREQ
            /\ IsPowerOfTwo(file_array[fd].pos)
    /\ waiting => rtc_count <= RTC_MAX_FREQ \div 2

(* A process that calls rtc_read returns from it: the RTC interrupt keeps *)
(* counting its countdown down to 0 and the spin loop then exits.         *)
RtcReadReturns == waiting ~> ~waiting

(* Every descriptor from 2 up that is in use is one that open returned to *)
(* the process and that it has not closed (spec 7: no partial success; a  *)
(* failed open leaves the table as it was).                               *)
DescriptorsAccounted ==
    { fd \in GeneralFds : file_array[fd].flags = "OCCUP" } = handed

====
