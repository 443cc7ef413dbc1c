--------------------------- MODULE MCExecuteParse ---------------------------
(* execute and getargs with a 2-byte filename cap, a 4-byte command       *)
(* buffer and a 4-address user page at 4 .. 7.                            *)
EXTENDS ExecuteParse

MCChars == {"a", " ", "\n", "NUL"}
MCCommands == [0 .. 3 -> MCChars]
MCPrograms == {<< "a" >>, << "a", "a" >>}
MCBufs == {0, 3, 4, 6, 8}
MCNBytes == {1, 2, 4}
====
