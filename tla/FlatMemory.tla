----------------------------- MODULE FlatMemory -----------------------------
(***************************************************************************)
(* What the program running on the emulator is promised by its memory,     *)
(* whatever cache organisation is selected: a read delivers what memory    *)
(* holds, a write changes the addressed word or byte and nothing else.     *)
(* This is the behaviour of bus() alone (cache_type = NO_CACHE); Cache     *)
(* implements it for the accesses named in CacheProofs.                    *)
(***************************************************************************)
EXTENDS Memory

CONSTANTS
  Accesses,   \* the <<address, width>> pairs the program uses
  Data,       \* the register values it stores
  Images      \* the memory contents the loader may leave

ASSUME FlatAssumption == /\ Accesses \subseteq Address \X Width
                         /\ Data \subseteq Word
                         /\ Images \subseteq [Address -> Byte]

VARIABLES
  memory,     \* the bytes of primary memory
  port        \* the last access the program made, with its data

(* The port before the first access. *)
Idle == [op |-> "none", address |-> 0, width |-> "word",
         data |-> [lo |-> Zero, hi |-> Zero]]

Port == [op : {"none", "read", "write"}, address : Address,
         width : Width, data : Word]

Transfer(op, a, wb, d) == [op |-> op, address |-> a, width |-> wb, data |-> d]

Init == /\ memory \in Images
        /\ port = Idle

Read(a, wb) ==
  /\ port' = Transfer("read", a, wb, BusRead(memory, a, wb))
  /\ UNCHANGED memory

Write(a, wb, d) ==
  /\ memory' = BusWrite(memory, a, d, wb)
  /\ port' = Transfer("write", a, wb, d)

Next == \E x \in Accesses :
          \/ Read(x[1], x[2])
          \/ \E d \in Data : Write(x[1], x[2], d)

Spec == Init /\ [][Next]_<<memory, port>>
=============================================================================
