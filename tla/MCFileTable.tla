---------------------------- MODULE MCFileTable ----------------------------
(***************************************************************************)
(* A boot block with the directory ".", the RTC device and one regular     *)
(* file of three bytes that spans two blocks, and one unused (zeroed)      *)
(* entry; three general descriptors; the RTC scaled to 8 Hz so that every  *)
(* virtual rate 2, 4, 8 has its own countdown.                             *)
(***************************************************************************)
EXTENDS FileTable

MCNumMaxOpenFiles == 5
MCNumFiles == 4
MCBlockSize == 2
MCRtcMaxFreq == 8

MCDentries ==
    [i \in 0 .. 3 |->
        << [name |-> ".",          filetype |-> 1, inode |-> 0],
           [name |-> "rtc",        filetype |-> 0, inode |-> 0],
           [name |-> "frame0.txt", filetype |-> 2, inode |-> 1],
           [name |-> "",           filetype |-> 0, inode |-> 0] >>[i + 1]]

MCContents == [i \in {1} |-> << "x", "y", "z" >>]

MCOpenNames ==
    { [name |-> n, long |-> FALSE] : n \in {".", "rtc", "frame0.txt", "nosuch"} }
    \cup { [name |-> "frame0.txt", long |-> TRUE] }

MCReadSizes == {-1, 0, 1, 2}

MCWriteArgs ==
    { [freq |-> f, nbytes |-> 4] : f \in {1, 4, 6, 8, 16} }
    \cup { [freq |-> 4, nbytes |-> 2] }
====
