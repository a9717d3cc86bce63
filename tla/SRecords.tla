------------------------------ MODULE SRecords ------------------------------
(***************************************************************************)
(* What loading an S-record file promises: every line is used once, in     *)
(* order.  A complete S1 record puts its data at its address, and a        *)
(* complete S9 record sets the entry point, whether or not its checksum    *)
(* is right; the verdict on a complete record says whether its bytes sum   *)
(* to 0xFF, whatever the records before it were.  An S1 record that is not *)
(* complete may spoil the addresses its header names and no others (with a *)
(* count below 2, as many as a line has room for), such an S9 record the   *)
(* entry point, and loading may fail on one.  Loader implements this       *)
(* module.                                                                 *)
(*                                                                         *)
(* A line is its first character, its type and the bytes its pairs of      *)
(* hexadecimal digits stand for: count, address, data, checksum.           *)
(***************************************************************************)
EXTENDS ByteMemory, Sequences

CONSTANTS Files, \* the files there are, as sequences of lines
          Room   \* the bytes of data a line has room for

VARIABLES file,      \* the lines not read yet
          doing,     \* "closed", "ready", "record", "done" or "failed"
          line,      \* the line read last
          memory, entry,
          report     \* the verdict on the last record

vars == <<file, doing, line, memory, entry, report>>

IsRecord(l) == l.start = "S"
Count(l)    == l.pairs[1]

(* S9 records have no data, S0 and S1 records an address and a checksum at
   least.                                                                  *)
IsComplete(l) ==
  /\ Len(l.pairs) > 3 /\ Len(l.pairs) > Count(l)
  /\ \/ l.type \in {"0", "1"} /\ Count(l) >= 3
     \/ l.type = "9" /\ Count(l) = 3

AddressOf(l) == 256 * l.pairs[2] + l.pairs[3]
Offsets(l)   == 0 .. (IF Count(l) < 2 THEN Room - 1 ELSE Count(l) - 4)

(* The addresses the record l may change. *)
Named(l) == IF l.type # "1" THEN {}
            ELSE IF Len(l.pairs) < 3 THEN Word16
            ELSE {Plus(AddressOf(l), k) : k \in Offsets(l)}

(* Memory m with the data of l, in which a later byte replaces an earlier
   one if the record is longer than memory.                                *)
With(m, l) ==
  [a \in DOMAIN m \cup Named(l) |->
     IF a \notin Named(l) THEN m[a]
     ELSE l.pairs[4 + CHOOSE k \in Offsets(l) : Plus(AddressOf(l), k) = a]]

(* The sums of the first n bytes of l. *)
Total(l) ==
  LET total[n \in 0 .. Len(l.pairs)] ==
        IF n = 0 THEN 0 ELSE total[n - 1] + l.pairs[n]
  IN  total

Verdict(l) == IF Total(l)[Count(l) + 1] % 256 = 255 THEN "valid" ELSE "invalid"

Init == /\ file = <<>> /\ doing = "closed"
        /\ line = [start |-> "none", type |-> "none", pairs |-> <<>>]
        /\ memory = <<>> /\ entry = 0 /\ report = "none"

Open == /\ doing = "closed"
        /\ \/ file' \in Files /\ doing' = "ready"
           \/ UNCHANGED file /\ doing' = "failed"
        /\ UNCHANGED <<line, memory, entry, report>>

Next_line == /\ doing = "ready" /\ file # <<>>
             /\ line' = Head(file) /\ file' = Tail(file)

Ignore == /\ Next_line /\ ~IsRecord(line')
          /\ UNCHANGED <<doing, memory, entry, report>>

Apply == /\ Next_line /\ IsRecord(line') /\ IsComplete(line')
         /\ doing' = "record"
         /\ memory' = IF line'.type = "1" THEN With(memory, line') ELSE memory
         /\ entry' = IF line'.type = "9" THEN AddressOf(line') ELSE entry
         /\ UNCHANGED report

Misread == /\ Next_line /\ IsRecord(line') /\ ~IsComplete(line')
           /\ doing' = "record"
           /\ UNCHANGED <<memory, entry, report>>

Spoil == /\ doing = "record" /\ ~IsComplete(line)
         /\ \A a \in (DOMAIN memory \cup DOMAIN memory') \ Named(line) :
              ByteAt(memory', a) = ByteAt(memory, a)
         /\ \/ line.type = "9" /\ entry' \in Word16
            \/ UNCHANGED entry
         /\ UNCHANGED <<file, doing, line, report>>

Judge == /\ doing = "record"
         /\ doing' = "ready"
         /\ IF IsComplete(line) THEN report' = Verdict(line)
                                ELSE report' \in {"valid", "invalid"}
         /\ UNCHANGED <<file, line, memory, entry>>

Fail == /\ doing = "record" /\ ~IsComplete(line)
        /\ doing' = "failed"
        /\ UNCHANGED <<file, line, memory, entry, report>>

Close == /\ doing = "ready" /\ file = <<>>
         /\ doing' = "done"
         /\ UNCHANGED <<file, line, memory, entry, report>>

Next == \/ Open \/ Ignore \/ Apply \/ Misread \/ Spoil \/ Judge \/ Fail \/ Close

Spec == Init /\ [][Next]_vars
=============================================================================
