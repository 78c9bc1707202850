--------------------------- MODULE PacketReceiver ---------------------------
(***************************************************************************)
(* How src/src/debug/gdb_server.c finds packets in what a connection       *)
(* brings: $ bytes # and two digits of a checksum, with interrupts (byte   *)
(* 3) anywhere, acknowledgements of GDB and noise in between.  GdbServer   *)
(* has what a packet does; here only the command that ends                 *)
(* acknowledgements and the one that ends the connection are told apart.   *)
(***************************************************************************)
EXTENDS Integers, Sequences, Functions

CONSTANTS
    Bytes,          \* the bytes that may come besides $ and 3
    Value,          \* [Bytes -> Nat]: what a byte adds to the checksum
    Digit,          \* hex_value, -1 for a byte that is no digit
    HexBase,        \* 16
    Capacity,       \* GDB_PACKET_CAPACITY
    NoAckCommand, KillCommand,      \* two packets: QStartNoAckMode and k
    MaxLine         \* bound: bytes after a $

ASSUME ReceiverAssumption ==
    /\ HexBase \in Nat /\ HexBase > 1 /\ Capacity \in Nat \ {0} /\ MaxLine \in Nat
    /\ Digit \in [Bytes -> -1..(HexBase - 1)]
    /\ Value \in [Bytes -> 0..(HexBase * HexBase - 1)]
    /\ "#" \in Bytes /\ Digit["#"] = -1

VARIABLES
    client,             \* client_fd >= 0
    packet,             \* packet and packet_length
    checksum, received_checksum, checksum_digits,
    receiving_packet, reading_checksum,
    no_ack_mode,
    line,               \* history: the bytes since the last $, without the 3s
    framed,             \* history: a $ has come on this connection
    ack,                \* history: what the last byte was acknowledged with
    handled             \* history: the packets that the last byte led to

frame == <<packet, checksum, received_checksum, checksum_digits,
           receiving_packet, reading_checksum>>
vars == <<client, frame, no_ack_mode, line, framed, ack, handled>>

Word == HexBase * HexBase   \* u8

-----------------------------------------------------------------------------
Init ==
    /\ client = FALSE
    /\ packet = << >>
    /\ checksum = 0 /\ received_checksum = 0 /\ checksum_digits = 0
    /\ receiving_packet = FALSE /\ reading_checksum = FALSE
    /\ no_ack_mode = FALSE
    /\ line = << >> /\ framed = FALSE /\ ack = "none" /\ handled = << >>

\* Mutation: the sum of the packet before goes on.
reset_packet_KeepsChecksum(receiving) ==
    /\ packet' = << >>
    /\ received_checksum' = 0 /\ checksum_digits' = 0
    /\ receiving_packet' = receiving /\ reading_checksum' = FALSE
    /\ UNCHANGED checksum

\* reset_packet, and receiving_packet as the caller leaves it.
reset_packet(receiving) ==
    /\ packet' = << >>
    /\ checksum' = 0 /\ received_checksum' = 0 /\ checksum_digits' = 0
    /\ receiving_packet' = receiving /\ reading_checksum' = FALSE

Connect ==
    /\ ~client
    /\ client' = TRUE
    /\ reset_packet(FALSE)
    /\ line' = << >> /\ framed' = FALSE /\ ack' = "none" /\ handled' = << >>
    /\ UNCHANGED no_ack_mode

Disconnect ==
    /\ client
    /\ client' = FALSE
    /\ ack' = "none" /\ handled' = << >>
    /\ UNCHANGED <<frame, no_ack_mode, line, framed>>

-----------------------------------------------------------------------------
(* receive_byte.  The reply to an interrupt or to a packet may fail, which *)
(* closes the connection.                                                  *)

\* The byte is dealt with: nothing is acknowledged or handled.
Quiet(byte) ==
    /\ client
    /\ Len(line) < MaxLine
    /\ line' = Append(line, byte)
    /\ ack' = "none" /\ handled' = << >>
    /\ UNCHANGED <<client, no_ack_mode, framed>>

Interrupt ==
    /\ client
    /\ client' \in BOOLEAN
    /\ ack' = "none" /\ handled' = << >>
    /\ UNCHANGED <<frame, no_ack_mode, line, framed>>

Start ==
    /\ client
    /\ reset_packet(TRUE)
    /\ line' = << >> /\ framed' = TRUE /\ ack' = "none" /\ handled' = << >>
    /\ UNCHANGED <<client, no_ack_mode>>

EndOfPacket ==
    /\ Quiet("#")
    /\ receiving_packet
    /\ receiving_packet' = FALSE /\ reading_checksum' = TRUE
    /\ UNCHANGED <<packet, checksum, received_checksum, checksum_digits>>

\* Mutation: a byte that does not fit is dropped.
PacketByte_Drops(byte) ==
    /\ Quiet(byte)
    /\ receiving_packet /\ byte # "#"
    /\ checksum' = (checksum + Value[byte]) % Word
    /\ packet' = IF Len(packet) < Capacity - 1 THEN Append(packet, byte) ELSE packet
    /\ UNCHANGED <<received_checksum, checksum_digits, receiving_packet, reading_checksum>>

PacketByte(byte) ==
    /\ Quiet(byte)
    /\ receiving_packet /\ byte # "#"
    /\ IF Len(packet) < Capacity - 1
       THEN /\ packet' = Append(packet, byte)
            /\ checksum' = (checksum + Value[byte]) % Word
            /\ UNCHANGED <<received_checksum, checksum_digits, receiving_packet, reading_checksum>>
       ELSE reset_packet(FALSE)

\* Not a digit, as in a # that comes again: the packet is forgotten.
NoDigit(byte) ==
    /\ Quiet(byte)
    /\ ~receiving_packet /\ reading_checksum
    /\ Digit[byte] < 0
    /\ reset_packet(FALSE)

Received(byte) == (received_checksum * HexBase + Digit[byte]) % Word

FirstDigit(byte) ==
    /\ Quiet(byte)
    /\ ~receiving_packet /\ reading_checksum /\ checksum_digits = 0
    /\ Digit[byte] >= 0
    /\ received_checksum' = Received(byte)
    /\ checksum_digits' = 1
    /\ UNCHANGED <<packet, checksum, receiving_packet, reading_checksum>>

\* handle_packet: the connection goes on, or it does not, and the mode.
Handle ==
    /\ handled' = <<packet>>
    /\ no_ack_mode' = (no_ack_mode \/ packet = NoAckCommand)
    /\ client' \in IF packet = KillCommand THEN {FALSE} ELSE BOOLEAN

\* Mutation: the acknowledgement does not ask for the mode.
Acknowledge_Always(valid) == ack' = IF valid THEN "+" ELSE "-"

Acknowledge(valid) ==
    ack' = IF no_ack_mode THEN "none" ELSE IF valid THEN "+" ELSE "-"

LastDigit(byte) ==
    LET valid == Received(byte) = checksum
    IN  /\ client
        /\ ~receiving_packet /\ reading_checksum /\ checksum_digits = 1
        /\ Digit[byte] >= 0
        /\ Len(line) < MaxLine
        /\ received_checksum' = Received(byte)
        /\ checksum_digits' = 2
        /\ reading_checksum' = FALSE
        /\ line' = Append(line, byte)
        /\ Acknowledge(valid)
        /\ IF valid THEN Handle
           ELSE handled' = << >> /\ UNCHANGED <<client, no_ack_mode>>
        /\ UNCHANGED <<packet, checksum, receiving_packet, framed>>

\* The acknowledgement cannot be sent.
LastDigitFails(byte) ==
    /\ client /\ ~no_ack_mode
    /\ ~receiving_packet /\ reading_checksum /\ checksum_digits = 1
    /\ Digit[byte] >= 0
    /\ received_checksum' = Received(byte)
    /\ checksum_digits' = 2
    /\ client' = FALSE
    /\ ack' = "none" /\ handled' = << >>
    /\ UNCHANGED <<packet, checksum, receiving_packet, reading_checksum, no_ack_mode, line, framed>>

Noise(byte) ==
    /\ Quiet(byte)
    /\ ~receiving_packet /\ ~reading_checksum
    /\ UNCHANGED frame

receive_byte ==
    \/ Interrupt \/ Start \/ EndOfPacket
    \/ \E byte \in Bytes :
          \/ PacketByte(byte) \/ NoDigit(byte) \/ FirstDigit(byte)
          \/ LastDigit(byte) \/ LastDigitFails(byte) \/ Noise(byte)

Next == Connect \/ Disconnect \/ receive_byte

Spec == Init /\ [][Next]_vars

-----------------------------------------------------------------------------
(* Properties.                                                             *)

\* What a frame is, told of the whole line: bytes that fit, #, two digits.
Hash == CHOOSE n \in DOMAIN line :
            line[n] = "#" /\ \A k \in 1..(n - 1) : line[k] # "#"

IsFrame ==
    /\ framed
    /\ \E n \in DOMAIN line : line[n] = "#"
    /\ Len(line) = Hash + 2
    /\ Hash <= Capacity
    /\ \A k \in {Hash + 1, Hash + 2} : Digit[line[k]] >= 0

Contents == SubSeq(line, 1, Hash - 1)

\* The bytes of a packet, added up.
SumOf(bytes) ==
    LET sum[n \in 0..Len(bytes)] == IF n = 0 THEN 0 ELSE sum[n - 1] + Value[bytes[n]]
    IN  sum[Len(bytes)] % Word

IsValid ==
    Digit[line[Hash + 1]] * HexBase + Digit[line[Hash + 2]] = SumOf(Contents)

\* A packet is handled only when the bytes since the last $ are a frame with
\* its right checksum, and with exactly its contents: whatever packets, half
\* packets, noise and interrupts came before or in between.  That every frame
\* leads to something is NoFrameLost.
HandlesFrames ==
    \A p \in Range(handled) : IsFrame /\ IsValid /\ p = Contents

\* GDB is told of every frame, once, whether it was handled; it is told
\* nothing about anything else, and nothing in no-acknowledgement mode, except
\* for the packet that asks for the mode.
AckTellsFrame ==
    /\ ack = "+" => IsFrame /\ IsValid /\ handled = <<Contents>>
    /\ ack = "-" => IsFrame /\ ~IsValid /\ handled = << >>
    /\ handled # << >> /\ ack = "none" => no_ack_mode
    /\ ack = "-" => ~no_ack_mode
    /\ ack = "+" /\ no_ack_mode => handled = <<NoAckCommand>>

\* Every frame leads to something: with the byte that completes it, a packet is
\* handled, or the sender is told.
NoFrameLost ==
    [][line' # line /\ client' /\ IsFrame' =>
          IF IsValid' THEN handled' # << >> ELSE no_ack_mode \/ ack' = "-"]_vars

=============================================================================
