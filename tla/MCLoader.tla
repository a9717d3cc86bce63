------------------------------- MODULE MCLoader -------------------------------
(***************************************************************************)
(* An instance of Loader for TLC: every file of up to three lines of a     *)
(* small alphabet of lines, each of which meets what the others leave.     *)
(***************************************************************************)
EXTENDS Loader

S(t, p) == [start |-> "S", type |-> t, pairs |-> p]

Lines ==
  { S("0", <<4, 0, 0, 77, 174>>),                  \* a name
    S("1", <<5, 1, 0, 1, 2, 246>>),                \* two bytes at 0x0100
    S("1", <<6, 1, 1, 7, 8, 9, 223>>),             \* three at 0x0101
    S("1", <<5, 255, 255, 3, 4, 0>>),              \* round the end, bad sum
    S("1", <<5, 1, 0>>),                           \* shorter than its count
    S("1", <<12, 0, 0, 1, 2>>),                    \* longer than inrec
    S("1", <<0, 1, 1, 7>>),                        \* a count below 2
    S("9", <<3, 1, 0, 251>>),                      \* the entry point 0x0100
    S("9", <<>>),                                  \* no digits at all
    S("5", <<3, 0, 1, 251>>),                      \* a type that is unknown
    [start |-> "x", type |-> "y", pairs |-> <<8>>] }

MCFiles == UNION {[1 .. n -> Lines] : n \in 0 .. 3}
=============================================================================
