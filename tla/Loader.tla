-------------------------------- MODULE Loader --------------------------------
(***************************************************************************)
(* The S-record loader (Loader.c) that debugger() calls first.  fgets()    *)
(* leaves a line in inrec, and sscanf() reads pairs of hexadecimal digits  *)
(* at fixed places and at nibble: slot k of inrec is the pair at its       *)
(* characters 2k and 2k+1, nibble is kept as its slot, and a slot without  *)
(* digits is End.  sscanf() leaves a variable alone for which it finds no  *)
(* digits, and every variable is a global of the program: what one record  *)
(* leaves in inrec, len, nibble or data_b the next one may read.           *)
(***************************************************************************)
EXTENDS ByteMemory, Sequences

CONSTANTS
  Files,   \* the files the user may name, as sequences of lines
  Slots,   \* the last slot of inrec: MXN \div 2 - 1, 127 in the code
  Unsigned \* the number of values of an unsigned int: 2^32 in the code

Byte == 0 .. 255
End  == -1

Line == [start : STRING, type : STRING, pairs : Seq(Byte)]

ASSUME LoaderAssumption ==
  /\ Slots \in Nat /\ Slots >= 4
  /\ Unsigned \in Nat /\ Unsigned > 256
  /\ Files \subseteq Seq(Line)
  /\ \A f \in Files : \A i \in DOMAIN f : Len(f[i].pairs) < Slots

VARIABLES
  file, line,          \* the lines fgets() has not read, and the last it has
  inrec,
  len, ah, al, data_b, last_byte,
  address, nibble, checksum,
  memory, PC,
  report,              \* what was printed of the last record
  at                   \* where loader() stands

scanned == <<len, ah, al, data_b, last_byte>>
loaded  == <<memory, PC>>
vars    == <<file, line, inrec, scanned, address, nibble, checksum, loaded,
             report, at>>

pos_data == 4

Init ==
  /\ file = <<>>
  /\ line = [start |-> "none", type |-> "none", pairs |-> <<>>]
  /\ inrec = [k \in 0 .. Slots |-> End]
  /\ len = 0 /\ ah = 0 /\ al = 0 /\ data_b = 0 /\ last_byte = 0
  /\ address = 0 /\ nibble = 0 /\ checksum = 0
  /\ memory = <<>> /\ PC = 0
  /\ report = "none"
  /\ at = "load_file"

(* sscanf() with one and, from slot 1 on, with several conversions. *)
Scan(k, old)       == IF inrec[k] = End THEN old ELSE inrec[k]
ScanHeader(k, old) == IF \E j \in 1 .. k : inrec[j] = End THEN old ELSE inrec[k]

(* Mutant of Add: the sum is not kept to the eight bits of checksum. *)
AddWide(x) == checksum + x

(* checksum is an unsigned char. *)
Add(x) == (checksum + x) % 256

(* A file that cannot be opened is reported, but loader() goes on to read
   from a null stream.                                                     *)
load_file ==
  /\ at = "load_file"
  /\ \/ file' \in Files /\ at' = "fgets"
     \/ UNCHANGED file /\ at' = "undefined"
  /\ UNCHANGED <<line, inrec, scanned, address, nibble, checksum, loaded, report>>

(* Mutant of Rest: a line that is not a record is read again and again. *)
RestStays(f) == IF Head(f).start = "S" THEN Tail(f) ELSE f

Rest(f) == Tail(f)

(* inrec after the line l: its end is marked, and beyond the mark stays what
   longer lines have left.                                                 *)
Overwritten(l) ==
  [k \in 0 .. Slots |-> CASE k \in DOMAIN l.pairs  -> l.pairs[k]
                          [] k = Len(l.pairs) + 1 -> End
                          [] OTHER                -> inrec[k]]

(* fgets(), and the cases that call no function. *)
fgets ==
  /\ at = "fgets"
  /\ \/ /\ file = <<>>
        /\ at' = "menu"
        /\ UNCHANGED <<file, line, inrec>>
     \/ /\ file # <<>>
        /\ line' = Head(file) /\ file' = Rest(file)
        /\ inrec' = Overwritten(line')
        /\ at' = IF line'.start # "S" THEN "fgets"
                 ELSE IF line'.type \in {"0", "1", "9"} THEN "header"
                 ELSE "last_byte"
  /\ UNCHANGED <<scanned, address, nibble, checksum, loaded, report>>

(* len -= 2, on an unsigned int: a count below 2 wraps, and the loop over the
   data goes on until it has left inrec.                                   *)
LessTwo(n) == IF n < 2 THEN n + Unsigned - 2 ELSE n - 2

(* The start of s0_rec(), s1_rec() and s9_rec(). *)
header ==
  /\ at = "header"
  /\ ah' = ScanHeader(2, ah) /\ al' = ScanHeader(3, al)
  /\ address' = 256 * ah' + al'
  /\ nibble' = pos_data
  /\ LET count == ScanHeader(1, len)
     IN  /\ checksum' = Add(count + ah' + al')
         /\ \/ /\ line.type = "9"
               /\ len' = count
               /\ PC' = address' /\ at' = "last_byte"
            \/ /\ line.type # "9"
               /\ len' = LessTwo(count)
               /\ at' = "data" /\ UNCHANGED PC
  /\ UNCHANGED <<file, line, inrec, data_b, last_byte, memory, report>>

(* Mutant of MoreData: the checksum is taken for data. *)
MoreDataAndSum == len > 0

MoreData == len > 1

(* while (len > 1), of which s0_rec() prints the bytes; undefined is what a
   scan beyond inrec finds.                                                *)
data ==
  /\ at = "data"
  /\ \/ /\ ~MoreData
        /\ at' = "last_byte"
        /\ UNCHANGED <<len, data_b, address, nibble, checksum, memory>>
     \/ /\ MoreData /\ nibble <= Slots
        /\ data_b' = Scan(nibble, data_b)
        /\ IF line.type = "1"
           THEN /\ memory' = WriteBus(memory, address, data_b', 1)
                /\ address' = Plus(address, 1)
           ELSE UNCHANGED <<memory, address>>
        /\ len' = len - 1
        /\ nibble' = nibble + 1
        /\ checksum' = Add(data_b')
        /\ UNCHANGED at
     \/ /\ MoreData /\ nibble > Slots
        /\ at' = "undefined"
        /\ UNCHANGED <<len, data_b, address, nibble, checksum, memory>>
  /\ UNCHANGED <<file, line, inrec, ah, al, last_byte, PC, report>>

(* The end of the loop of loader().  After a record of unknown type nibble
   is where the record before it ended.                                    *)
check ==
  /\ at = "last_byte"
  /\ \/ /\ nibble <= Slots
        /\ last_byte' = Scan(nibble, last_byte)
        /\ report' = IF Add(last_byte') = 255 THEN "valid" ELSE "invalid"
        /\ checksum' = 0
        /\ at' = "fgets"
     \/ /\ nibble > Slots
        /\ at' = "undefined"
        /\ UNCHANGED <<last_byte, report, checksum>>
  /\ UNCHANGED <<file, line, inrec, len, ah, al, data_b, address, nibble, loaded>>

Next == load_file \/ fgets \/ header \/ data \/ check

(* loader() never waits but for the disk, which answers. *)
Spec == Init /\ [][Next]_vars /\ WF_vars(Next)

-----------------------------------------------------------------------------
(* Properties.                                                             *)

(* Types.  They rest on the eight bits of checksum and the 16 of address,
   and on a count that has been taken from a byte: what a record with a
   wrapped count leaves no other record sees.                              *)
TypeOK ==
  /\ DOMAIN inrec = 0 .. Slots
  /\ \A k \in 0 .. Slots : inrec[k] \in Byte \cup {End}
  /\ len \in 0 .. Unsigned - 1
  /\ at \notin {"data", "undefined"} => len \in Byte
  /\ ah \in Byte /\ al \in Byte
  /\ data_b \in Byte /\ last_byte \in Byte /\ checksum \in Byte
  /\ address \in Word16 /\ nibble \in 0 .. Slots + 1
  /\ IsMemory(memory) /\ PC \in Word16
  /\ report \in {"none", "valid", "invalid"}
  /\ at \in {"load_file", "fgets", "header", "data", "last_byte", "menu",
             "undefined"}

(* The bytes of data inrec has room for. *)
Room == Slots + 1 - pos_data

Record == INSTANCE SRecords WITH entry <- PC, doing <- at

(* The record being read has its whole effect, where it has a definite one. *)
MemoryAfter == IF /\ at \in {"header", "data"}
                  /\ line.type = "1" /\ Record!IsComplete(line)
               THEN Record!With(memory, line) ELSE memory
EntryAfter  == IF at = "header" /\ line.type = "9" /\ Record!IsComplete(line)
               THEN Record!AddressOf(line) ELSE PC

Doing == CASE at = "load_file" -> "closed"
           [] at = "fgets"     -> "ready"
           [] at = "menu"      -> "done"
           [] at = "undefined" -> "failed"
           [] OTHER            -> "record"

Records == INSTANCE SRecords WITH
  memory <- MemoryAfter, entry <- EntryAfter, doing <- Doing

(* Loading: the data of a record lands at its address byte by byte, round the
   end of memory, and its verdict is that of its own bytes, although the line
   buffer and every variable still hold what earlier lines left.           *)
ImplementsSRecords == Records!Spec

(* Every file is read to its end. *)
Loads == at = "load_file" ~> at \in {"menu", "undefined"}

(* The steps from here to the end of the file at most: a line is as many as
   there are slots, and the end one.                                       *)
StepsLeft ==
  LET lines == (Slots + 1) * Len(file)
  IN  CASE at = "fgets"     -> lines + 1
        [] at = "header"    -> lines + Slots + 1
        [] at = "data"      -> lines + Slots + 1 - nibble + 3
        [] at = "last_byte" -> lines + 2
        [] OTHER            -> 0

(* Whatever a record claims to be and whatever earlier ones have left, every
   step of loading brings it nearer to its end, or to what is undefined: no
   record is read twice, and no count, wrapped or not, makes the loop over
   the data longer than inrec.  This is the part of Loads that needs no
   fairness.                                                               *)
LoadsSoon == [][at # "load_file" => StepsLeft' \in 0 .. StepsLeft - 1]_vars
=============================================================================
