-------------------------------- MODULE MCFiles --------------------------------
(* Small images: a directory, a clock, a program of a block and a half and a  *)
(* file of two and a half blocks, whose names fill their directory entries.   *)
(* In the second image a block of the file, and the inode of the last entry,  *)
(* are out of range.  The argument of one command does not fit its array.     *)
EXTENDS Files

Entry(filename, type, inode) == [filename |-> filename, type |-> type, inode_num |-> inode]

Blocks == << <<"E", "p">>, <<"q", "q">>, <<"a", "b">>, <<"c", "d">>, <<"e", "z">> >>

Image(second, last) ==
  [dir_entries |-> << Entry(<<".">>, FTYPE_DIR, 0), Entry(<<"p", "g">>, FTYPE_FILE, 1),
                      Entry(<<"f", "g">>, FTYPE_FILE, 2), last >>,
   nodes |-> << [length |-> 0, data_block |-> <<>>],
                [length |-> 3, data_block |-> <<0, 1>>],
                [length |-> 5, data_block |-> <<2, second, 4>>] >>,
   blocks |-> Blocks]

MCImages == {Image(3, Entry(<<"r">>, FTYPE_RTC, 0)), Image(5, Entry(<<"r">>, FTYPE_FILE, 9))}

MCNames == { <<".">>, <<"f", "g">>, <<"f", "g", "h">>, <<"r">> }

MCCommands == { <<"p", "g">>, <<" ", "p", "g", " ", " ", "x", " ", "y">>,
                <<"p", "g", " ">> \o [k \in 1..(MAX_ARGS + 5) |-> "x"], <<"p", "g", "h">>, <<"p">>, <<"f", "g", " ", "y">>, <<"r">> }

MCHeader == <<"E">>
=============================================================================
