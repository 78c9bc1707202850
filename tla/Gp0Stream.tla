------------------------------ MODULE Gp0Stream ------------------------------
(***************************************************************************)
(* The GP0 port as a stream of packets, without counters or modes.  A word *)
(* begins a packet, continues the one begun, or is pixel data that an      *)
(* image load announced.  A packet is executed with exactly its own words; *)
(* a reset of the port forgets the packet and the data it was waiting for. *)
(***************************************************************************)
EXTENDS Integers, Sequences

CONSTANT Words  \* the words sent: four bytes, the most significant first

VARIABLES
    pending,   \* the words of a packet that is not complete
    owed,      \* pixel words still to come
    executed,  \* the packet executed last, until the next one begins
    halted     \* a word was refused or an execution failed: the end

vars == <<pending, owed, executed, halted>>

\* The words of a packet: a command byte rides on the first color; a shaded
\* primitive has one color per corner, a textured one a texture coordinate.
Monochrome(corners) == 1 + corners
Shaded(corners) == 2 * corners
Textured(corners) == 1 + 2 * corners
Copy == 1 + 1 + 1  \* command, place, size

Size(opcode) ==
    CASE opcode = 40  -> Monochrome(4)
      [] opcode = 44  -> Textured(4)
      [] opcode = 48  -> Shaded(3)
      [] opcode = 56  -> Shaded(4)
      [] opcode \in {160, 192} -> Copy
      [] opcode \in {0, 1, 225, 226, 227, 228, 229, 230} -> 1
      [] OTHER -> 0

\* Two 16-bit pixels to a word, the last word of an odd count half empty.
PixelWords(size) ==
    LET width == 256 * size[3] + size[4]
        height == 256 * size[1] + size[2]
    IN  IF (width * height) % 2 = 0 THEN (width * height) \div 2
                                    ELSE (width * height) \div 2 + 1

Init == pending = <<>> /\ owed = 0 /\ executed = <<>> /\ halted = FALSE

Refuse == halted' = TRUE /\ UNCHANGED <<pending, owed, executed>>

Receive(w) ==
    LET packet == Append(pending, w) IN
    IF owed > 0
    THEN owed' = owed - 1 /\ UNCHANGED <<pending, executed, halted>>
    ELSE \/ /\ Len(packet) < Size(packet[1][1])
            /\ pending' = packet
            /\ executed' = <<>>
            /\ UNCHANGED <<owed, halted>>
         \/ /\ Len(packet) = Size(packet[1][1])
            /\ pending' = <<>>
            /\ executed' = packet
            /\ owed' = IF packet[1][1] = 160 THEN PixelWords(packet[3]) ELSE 0
            /\ halted' \in BOOLEAN

Reset == pending' = <<>> /\ owed' = 0 /\ executed' = <<>> /\ UNCHANGED halted

Next == ~halted /\ (Refuse \/ Reset \/ \E w \in Words : Receive(w))

Spec == Init /\ [][Next]_vars

=============================================================================
