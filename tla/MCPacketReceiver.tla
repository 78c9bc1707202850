-------------------------- MODULE MCPacketReceiver --------------------------
(* Digits of base 2: a checksum is a word of two bits.  Both digits also   *)
(* count as packet bytes, as in the code.                                  *)
EXTENDS PacketReceiver

Values == [b \in Bytes |-> IF b = "0" THEN 0 ELSE IF b = "1" THEN 1 ELSE 3]
Digits == [b \in Bytes |-> IF b = "0" THEN 0 ELSE IF b = "1" THEN 1 ELSE -1]
AskNoAck == <<"1">>
Kill == <<"x", "1">>

=============================================================================
