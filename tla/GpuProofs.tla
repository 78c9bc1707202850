----------------------------- MODULE GpuProofs -----------------------------
(***************************************************************************)
(* Proofs about Gpu for any words sent to its ports: the framing of GP0    *)
(* commands is coherent, its internal errors are unreachable, and it       *)
(* implements Gp0Stream.                                                   *)
(***************************************************************************)
EXTENDS Gpu, SequenceTheorems, TLAPS

(* The command table: every length is between 1 and 9 words.               *)
LEMMA LengthRange == \A c \in Commands : Length(c) \in 1 .. 9
  BY DEF Length, Commands, Opcodes

LEMMA AttributeLength == \A c \in Attributes : c \in Commands /\ Length(c) = 1
  BY DEF Length, Attributes, Commands, Opcodes

(* The table of lengths is the shapes of the packets.                      *)
LEMMA SizeIsLength ==
    \A c \in Commands : Gp0StreamSpec!Size(Opcodes[c]) = Length(c)
  BY DEF Length, Commands, Opcodes, Gp0StreamSpec!Size, Gp0StreamSpec!Monochrome,
     Gp0StreamSpec!Shaded, Gp0StreamSpec!Textured, Gp0StreamSpec!Copy

LEMMA ImageOpcode ==
    \A c \in Commands : Opcodes[c] = 160 <=> c = "IMAGE_LOAD"
  BY DEF Commands, Opcodes

(* Rounding up by adding one is rounding up by parity.                     *)
LEMMA RoundUp ==
    \A n \in Nat : /\ (n + 1) \div 2 \in Nat
                   /\ (n + 1) \div 2 = IF n % 2 = 0 THEN n \div 2 ELSE n \div 2 + 1
  OBVIOUS

LEMMA Product == \A m, n \in Nat : m * n \in Nat
  OBVIOUS

LEMMA Pixels ==
    ASSUME NEW w \in Word
    PROVE  /\ ImageWords(w) \in Nat
           /\ Gp0StreamSpec!PixelWords(w) = ImageWords(w)
  <1> DEFINE width == 256 * w[3] + w[4]
             height == 256 * w[1] + w[2]
  <1>1. width \in Nat /\ height \in Nat
    <2>1. w[1] \in 0 .. 255 /\ w[2] \in 0 .. 255 /\ w[3] \in 0 .. 255 /\ w[4] \in 0 .. 255
      BY DEF Word, Byte
    <2>2. \A m, n \in 0 .. 255 : 256 * m + n \in Nat
      OBVIOUS
    <2> QED BY <2>1, <2>2
  <1>2. width * height \in Nat /\ height * width = width * height
    BY <1>1, Product
  <1> HIDE DEF width, height
  <1>3. (width * height + 1) \div 2 \in Nat
        /\ (width * height + 1) \div 2 =
             IF (width * height) % 2 = 0 THEN (width * height) \div 2
             ELSE (width * height) \div 2 + 1
    BY <1>2, RoundUp
  <1>4. ImageWords(w) = (width * height + 1) \div 2
    BY DEF ImageWords, width, height
  <1>5. Gp0StreamSpec!PixelWords(w) =
             IF (width * height) % 2 = 0 THEN (width * height) \div 2
             ELSE (width * height) \div 2 + 1
    BY DEF Gp0StreamSpec!PixelWords, width, height
  <1> QED BY <1>3, <1>4, <1>5

-----------------------------------------------------------------------------
(* The types that framing depends on, without the payloads.                *)
PortOK ==
    /\ gp0_command_buffer \in Seq(Word) /\ Len(gp0_command_buffer) <= 9
    /\ gp0_words_remaining \in Nat
    /\ gp0_command \in Commands \cup {"NONE"}
    /\ gp0_mode \in {"COMMAND", "IMAGE_LOAD"}

Failures == {"none", "unknown_command", "texture_depth", "renderer", "control"}

IInv == PortOK /\ FramingCoherent /\ failure \in Failures

(* What gpu_gp0 knows when it has taken a word in command mode.            *)
LEMMA WordFacts ==
    ASSUME IInv, NEW w \in Word, gp0_mode = "COMMAND", Starting => Started(w) # {}
    PROVE  /\ CommandWith(w) \in Commands
           /\ Before \in Seq(Word)
           /\ RemainingWith(w) \in Nat
           /\ Len(Before) + 1 + RemainingWith(w) = Length(CommandWith(w))
           /\ Opcode(Append(Before, w)[1]) = Opcodes[CommandWith(w)]
  <1>1. CASE Starting
    <2>1. CommandWith(w) \in Commands /\ Opcodes[CommandWith(w)] = Opcode(w)
      BY <1>1 DEF CommandWith, Started
    <2>2. Before = <<>> /\ Append(Before, w)[1] = w
      BY <1>1 DEF Before
    <2>3. RemainingWith(w) = Length(CommandWith(w)) - 1
      BY <1>1 DEF RemainingWith
    <2> QED BY <2>1, <2>2, <2>3, LengthRange
  <1>2. CASE ~Starting
    <2>1. gp0_words_remaining > 0
      BY <1>2 DEF Starting, IInv, PortOK
    <2>2. CommandWith(w) = gp0_command /\ Before = gp0_command_buffer
          /\ RemainingWith(w) = gp0_words_remaining - 1
      BY <1>2 DEF CommandWith, Before, RemainingWith
    <2>3. /\ gp0_command \in Commands
          /\ gp0_command_buffer # <<>>
          /\ Opcode(gp0_command_buffer[1]) = Opcodes[gp0_command]
          /\ Len(gp0_command_buffer) + gp0_words_remaining = Length(gp0_command)
      BY <2>1 DEF IInv, FramingCoherent
    <2>4. gp0_command_buffer \in Seq(Word) /\ gp0_words_remaining \in Nat
      BY DEF IInv, PortOK
    <2>5. Append(gp0_command_buffer, w)[1] = gp0_command_buffer[1]
      BY <2>3, <2>4
    <2> QED BY <2>1, <2>2, <2>3, <2>4, <2>5
  <1> QED BY <1>1, <1>2

(* What executing a complete command leaves behind.                        *)
LEMMA ExecuteShape ==
    ASSUME NEW c \in Commands, NEW b \in Seq(Word), Len(b) = Length(c),
           gp0_mode = "COMMAND", gpu_execute_gp0_command(c, b)
    PROVE  /\ c # "IMAGE_LOAD" => gp0_words_remaining' = 0 /\ gp0_mode' = "COMMAND"
           /\ c = "IMAGE_LOAD" =>
                /\ gp0_words_remaining' = ImageWords(b[3])
                /\ gp0_mode' = IF ImageWords(b[3]) = 0 THEN "COMMAND" ELSE "IMAGE_LOAD"
           /\ failure' \in Failures
  <1>1. CASE Draw(c, b)
    BY <1>1 DEF Draw, Ask, Failures
  <1>2. CASE SetAttribute(c, b)
    <2>1. failure' \in Failures
      BY <1>2 DEF SetAttribute, Ask, Done, Fail, Failures
    <2> QED BY <1>2, <2>1 DEF SetAttribute, Attributes
  <1>3. CASE gpu_gp0_image_load(c, b)
    BY <1>3 DEF gpu_gp0_image_load, Done, Failures
  <1>4. CASE Ignore(c)
    <2>1. c # "NONE"
      BY DEF Commands, Opcodes
    <2> QED BY <1>4, <2>1 DEF Ignore, Done, Failures
  <1> QED BY <1>1, <1>2, <1>3, <1>4 DEF gpu_execute_gp0_command

(* GP1 leaves GP0 alone, empties it, or refuses its own word.              *)
LEMMA ControlShape ==
    ASSUME NEW w \in Word, gpu_gp1(w)
    PROVE  /\ UNCHANGED gp0 \/ gpu_reset_command_buffer
           /\ \/ UNCHANGED failure
              \/ failure' = "control" /\ UNCHANGED gp0
  BY DEF gpu_gp1, gpu_gp1_reset

(* Nothing of the port but its failure changes.                            *)
LEMMA QuietStep ==
    ASSUME IInv, UNCHANGED gp0, failure' \in Failures
    PROVE  IInv'
  <1> USE DEF gp0
  <1>1. PortOK'
    BY DEF IInv, PortOK
  <1>2. FramingCoherent'
    BY DEF IInv, FramingCoherent
  <1> QED BY <1>1, <1>2 DEF IInv

LEMMA ImageStep ==
    ASSUME IInv, NEW w \in Word, ImageWord(w)
    PROVE  /\ ~Starting
           /\ gp0_command' = gp0_command
           /\ gp0_command_buffer' = gp0_command_buffer
           /\ gp0_words_remaining' = gp0_words_remaining - 1
           /\ gp0_mode' = IF gp0_words_remaining' = 0 THEN "COMMAND" ELSE "IMAGE_LOAD"
           /\ IInv'
  <1>1. gp0_words_remaining > 0 /\ gp0_command = "IMAGE_LOAD"
    BY DEF ImageWord, IInv, FramingCoherent
  <1>2. ~Starting /\ gp0_words_remaining \in Nat
    BY <1>1 DEF Starting, IInv, PortOK
  <1>3. /\ gp0_command' = gp0_command
        /\ gp0_command_buffer' = gp0_command_buffer
        /\ gp0_words_remaining' = gp0_words_remaining - 1
        /\ gp0_mode' = IF gp0_words_remaining' = 0 THEN "COMMAND" ELSE "IMAGE_LOAD"
    BY <1>2 DEF ImageWord, CommandWith, Before, RemainingWith
  <1>4. PortOK'
    BY <1>1, <1>2, <1>3 DEF IInv, PortOK
  <1>5. FramingCoherent'
    BY <1>1, <1>2, <1>3 DEF FramingCoherent
  <1>6. failure' \in Failures
    BY DEF ImageWord, Done, Failures
  <1> QED BY <1>2, <1>3, <1>4, <1>5, <1>6 DEF IInv

(* A word of a command that is not complete yet.                           *)
LEMMA CollectStep ==
    ASSUME IInv, NEW w \in Word, CommandWord(w), RemainingWith(w) # 0
    PROVE  /\ gp0_command' = CommandWith(w)
           /\ gp0_command_buffer' = Append(Before, w)
           /\ gp0_words_remaining' = RemainingWith(w)
           /\ gp0_mode' = "COMMAND"
           /\ failure' = "none"
           /\ IInv'
  <1>1. gp0_mode = "COMMAND" /\ (Starting => Started(w) # {})
    BY DEF CommandWord
  <1>2. /\ CommandWith(w) \in Commands
        /\ Before \in Seq(Word)
        /\ RemainingWith(w) \in Nat
        /\ Len(Before) + 1 + RemainingWith(w) = Length(CommandWith(w))
        /\ Opcode(Append(Before, w)[1]) = Opcodes[CommandWith(w)]
    BY <1>1, WordFacts
  <1>3. Length(CommandWith(w)) \in 1 .. 9 /\ Len(Before) \in Nat
    BY <1>2, LengthRange
  <1>4. ~(Len(Before) >= 12) /\ Len(Before) < 12
    BY <1>2, <1>3
  <1>5. /\ gp0_command' = CommandWith(w)
        /\ gp0_command_buffer' = Append(Before, w)
        /\ gp0_words_remaining' = RemainingWith(w)
        /\ gp0_mode' = "COMMAND"
        /\ failure' = "none"
    BY <1>1, <1>4 DEF CommandWord, Done
  <1>6. Append(Before, w) \in Seq(Word) /\ Len(Append(Before, w)) = Len(Before) + 1
    BY <1>2
  <1>7. PortOK'
    BY <1>2, <1>3, <1>5, <1>6 DEF PortOK
  <1>8. FramingCoherent'
    BY <1>2, <1>3, <1>5, <1>6 DEF FramingCoherent
  <1> QED BY <1>5, <1>7, <1>8 DEF IInv, Failures

(* The last word of a command.                                             *)
LEMMA CompleteStep ==
    ASSUME IInv, NEW w \in Word, CommandWord(w), RemainingWith(w) = 0
    PROVE  LET c == CommandWith(w)
               b == Append(Before, w) IN
           /\ gp0_command_buffer' = b
           /\ c # "IMAGE_LOAD" => gp0_words_remaining' = 0 /\ gp0_mode' = "COMMAND"
           /\ c = "IMAGE_LOAD" =>
                /\ b[3] \in Word
                /\ gp0_words_remaining' = ImageWords(b[3])
                /\ gp0_mode' = IF ImageWords(b[3]) = 0 THEN "COMMAND" ELSE "IMAGE_LOAD"
           /\ IInv'
  <1> DEFINE c == CommandWith(w)
             b == Append(Before, w)
  <1>1. gp0_mode = "COMMAND" /\ (Starting => Started(w) # {})
    BY DEF CommandWord
  <1>2. /\ c \in Commands
        /\ Before \in Seq(Word)
        /\ Len(Before) + 1 = Length(c)
    BY <1>1, WordFacts, LengthRange
  <1>3. Length(c) \in 1 .. 9 /\ Len(Before) \in Nat
    BY <1>2, LengthRange
  <1>4. ~(Len(Before) >= 12) /\ Len(Before) < 12
    BY <1>2, <1>3
  <1>5. b \in Seq(Word) /\ Len(b) = Length(c)
    BY <1>2
  <1>6. gp0_command' = c /\ gp0_command_buffer' = b /\ gpu_execute_gp0_command(c, b)
    BY <1>4 DEF CommandWord
  <1> HIDE DEF c, b
  <1>7. /\ c # "IMAGE_LOAD" => gp0_words_remaining' = 0 /\ gp0_mode' = "COMMAND"
        /\ c = "IMAGE_LOAD" =>
             /\ gp0_words_remaining' = ImageWords(b[3])
             /\ gp0_mode' = IF ImageWords(b[3]) = 0 THEN "COMMAND" ELSE "IMAGE_LOAD"
        /\ failure' \in Failures
    BY <1>1, <1>2, <1>5, <1>6, ExecuteShape
  <1>8. ASSUME c = "IMAGE_LOAD" PROVE b[3] \in Word /\ ImageWords(b[3]) \in Nat
    <2>1. Len(b) = 3
      BY <1>5, <1>8 DEF Length
    <2>2. b[3] \in Word
      BY <1>5, <2>1
    <2> QED BY <2>2, Pixels
  <1>9. PortOK'
    BY <1>2, <1>3, <1>5, <1>6, <1>7, <1>8 DEF PortOK
  <1>10. FramingCoherent'
    BY <1>6, <1>7, <1>8 DEF FramingCoherent
  <1> QED BY <1>6, <1>7, <1>8, <1>9, <1>10 DEF IInv, c, b

LEMMA NextStep == IInv /\ [Next]_vars => IInv'
  <1> SUFFICES ASSUME IInv, [Next]_vars PROVE IInv'
    OBVIOUS
  <1>1. CASE UNCHANGED vars
    BY <1>1, QuietStep DEF vars, IInv
  <1>2. ASSUME NEW w \in Word, gpu_gp0(w) PROVE IInv'
    <2>1. CASE UnknownCommand(w)
      BY <2>1, QuietStep DEF UnknownCommand, Fail, Failures
    <2>2. CASE ImageWord(w)
      BY <2>2, ImageStep
    <2>3. CASE CommandWord(w)
      BY <2>3, CollectStep, CompleteStep
    <2> QED BY <1>2, <2>1, <2>2, <2>3 DEF gpu_gp0
  <1>3. ASSUME NEW w \in Word, gpu_gp1(w) PROVE IInv'
    <2>1. failure' \in Failures
      BY <1>3, ControlShape DEF IInv, Failures
    <2>2. CASE UNCHANGED gp0
      BY <2>1, <2>2, QuietStep
    <2>3. CASE gpu_reset_command_buffer
      <3>1. PortOK'
        BY <2>3 DEF gpu_reset_command_buffer, PortOK
      <3>2. FramingCoherent'
        BY <2>3 DEF gpu_reset_command_buffer, FramingCoherent
      <3> QED BY <2>1, <3>1, <3>2 DEF IInv
    <2> QED BY <1>3, <2>2, <2>3, ControlShape
  <1> QED BY <1>1, <1>2, <1>3, GpuAssumption DEF Next, WriteGp0, WriteGp1

LEMMA InitOK == Init => IInv
  BY DEF Init, IInv, PortOK, FramingCoherent, Failures

THEOREM Invariance == Spec => []IInv
  BY InitOK, NextStep, PTL DEF Spec

(* The counter, the mode, the command and the buffer agree at every word.  *)
THEOREM FramingTheorem == Spec => []FramingCoherent
  <1>1. IInv => FramingCoherent
    BY DEF IInv
  <1> QED BY <1>1, Invariance, PTL

(* The internal errors of gpu_gp0 are unreachable.                         *)
THEOREM NoInternalErrorTheorem == Spec => []NoInternalError
  <1>1. IInv => NoInternalError
    BY DEF IInv, NoInternalError, Failures
  <1> QED BY <1>1, Invariance, PTL

-----------------------------------------------------------------------------
(* Every reachable state is well typed.  IInv covers the GP0 port; what    *)
(* remains are the attributes, the registers and the last call.            *)
RegistersOK ==
    /\ drawing \in [Attributes -> Byte \X Byte \X Byte]
    /\ control \in [3 .. 8 -> Byte \X Byte \X Byte]
    /\ call.op \in {"none", "triangle", "quad", "display"}

LEMMA PayloadType == \A w \in Word : Payload(w) \in Byte \X Byte \X Byte
  BY DEF Payload, Word

LEMMA ExecuteRegisters ==
    ASSUME RegistersOK, NEW c \in Commands, NEW b \in Seq(Word), Len(b) = Length(c),
           gpu_execute_gp0_command(c, b)
    PROVE  /\ drawing' \in [Attributes -> Byte \X Byte \X Byte]
           /\ call'.op \in {"none", "triangle", "quad", "display"}
  <1>1. CASE Draw(c, b)
    <2>1. drawing' = drawing
      BY <1>1 DEF Draw
    <2>2. call'.op \in {"triangle", "quad"}
      BY <1>1 DEF Draw, Ask, Push, gp0_triangle_shaded_opaque, gpu_gp0_quad_mono_opaque,
         gpu_gp0_quad_shaded_opaque, gpu_gp0_quad_texture_blend_opaque
    <2> QED BY <2>1, <2>2 DEF RegistersOK
  <1>2. CASE SetAttribute(c, b)
    <2>1. c \in Attributes /\ Length(c) = 1
      BY <1>2, AttributeLength DEF SetAttribute
    <2>2. b[1] \in Word
      <3>1. Len(b) = 1
        BY <2>1
      <3> QED BY <3>1, ElementOfSeq
    <2>3. drawing' = drawing \/ drawing' = [drawing EXCEPT ![c] = Payload(b[1])]
      BY <1>2 DEF SetAttribute
    <2>4. drawing' \in [Attributes -> Byte \X Byte \X Byte]
      BY <2>1, <2>2, <2>3, PayloadType DEF RegistersOK
    <2>5. call'.op \in {"none", "display"}
      BY <1>2 DEF SetAttribute, Ask, Done, Fail, NoCall
    <2> QED BY <2>4, <2>5
  <1>3. CASE gpu_gp0_image_load(c, b)
    BY <1>3 DEF gpu_gp0_image_load, Done, NoCall, RegistersOK
  <1>4. CASE Ignore(c)
    BY <1>4 DEF Ignore, Done, Fail, NoCall, RegistersOK
  <1> QED BY <1>1, <1>2, <1>3, <1>4 DEF gpu_execute_gp0_command

LEMMA RegistersStep == IInv /\ RegistersOK /\ [Next]_vars => RegistersOK'
  <1> SUFFICES ASSUME IInv, RegistersOK, [Next]_vars PROVE RegistersOK'
    OBVIOUS
  <1>1. CASE UNCHANGED vars
    BY <1>1 DEF vars, RegistersOK
  <1>2. ASSUME NEW w \in Word, gpu_gp0(w) PROVE RegistersOK'
    <2>1. CASE UnknownCommand(w)
      BY <2>1 DEF UnknownCommand, Fail, NoCall, RegistersOK
    <2>2. CASE ImageWord(w)
      BY <2>2 DEF ImageWord, Done, NoCall, RegistersOK
    <2>3. CASE CommandWord(w)
      <3> DEFINE c == CommandWith(w)
                 b == Append(Before, w)
      <3>1. c \in Commands /\ Before \in Seq(Word) /\ RemainingWith(w) \in Nat
            /\ Len(Before) + 1 + RemainingWith(w) = Length(c)
        BY <2>3, WordFacts DEF CommandWord
      <3>2. control' = control
        BY <2>3 DEF CommandWord
      <3>3. CASE RemainingWith(w) = 0 /\ Len(Before) < 12
        <4>1. gpu_execute_gp0_command(c, b)
          BY <2>3, <3>3 DEF CommandWord
        <4>2. b \in Seq(Word) /\ Len(b) = Length(c)
          BY <3>1, <3>3, LengthRange
        <4> QED BY <3>1, <3>2, <4>1, <4>2, ExecuteRegisters DEF RegistersOK
      <3>4. CASE ~(RemainingWith(w) = 0 /\ Len(Before) < 12)
        BY <2>3, <3>2, <3>4 DEF CommandWord, Done, Fail, NoCall, RegistersOK
      <3> QED BY <3>3, <3>4
    <2> QED BY <1>2, <2>1, <2>2, <2>3 DEF gpu_gp0
  <1>3. ASSUME NEW w \in Word, gpu_gp1(w) PROVE RegistersOK'
    <2>1. call'.op = "none"
      BY <1>3 DEF gpu_gp1, NoCall
    <2>2. CASE gpu_gp1_reset
      BY <2>1, <2>2 DEF gpu_gp1_reset, RegistersOK, NoDrawing, AfterReset, Byte
    <2>3. CASE UNCHANGED <<drawing, control>>
      BY <2>1, <2>3 DEF RegistersOK
    <2>4. CASE /\ Opcode(w) \in 3 .. 8 /\ UNCHANGED drawing
               /\ control' = [control EXCEPT ![Opcode(w)] = Payload(w)]
      BY <2>1, <2>4, PayloadType DEF RegistersOK
    <2> QED BY <1>3, <2>2, <2>3, <2>4 DEF gpu_gp1
  <1> QED BY <1>1, <1>2, <1>3, GpuAssumption DEF Next, WriteGp0, WriteGp1

THEOREM TypeCorrect == Spec => []TypeOK
  <1>1. Init => RegistersOK
    BY DEF Init, RegistersOK, NoDrawing, PowerOn, NoCall, Byte
  <1>2. IInv /\ RegistersOK => TypeOK
    BY DEF IInv, PortOK, RegistersOK, TypeOK, Failures
  <1> QED BY <1>1, <1>2, Invariance, RegistersStep, PTL DEF Spec

-----------------------------------------------------------------------------
(* The refinement mapping, named.                                          *)
InCommand == gp0_mode = "COMMAND" /\ gp0_words_remaining > 0
Pending == IF InCommand THEN gp0_command_buffer ELSE <<>>
Owed == IF gp0_mode = "IMAGE_LOAD" THEN gp0_words_remaining ELSE 0
Executed == IF InCommand THEN <<>> ELSE gp0_command_buffer
Halted == failure # "none"

LEMMA ReceivePacket ==
    ASSUME NEW w, ~(Owed > 0),
           LET packet == Append(Pending, w) IN
           /\ Len(packet) = Gp0StreamSpec!Size(packet[1][1])
           /\ Pending' = <<>>
           /\ Executed' = packet
           /\ Owed' = IF packet[1][1] = 160 THEN Gp0StreamSpec!PixelWords(packet[3]) ELSE 0
           /\ Halted' \in BOOLEAN
    PROVE  Gp0StreamSpec!Receive(w)
  BY DEF Gp0StreamSpec!Receive, Pending, Owed, Executed, Halted, InCommand

(* A word that continues or completes a command is received as the stream  *)
(* prescribes.                                                             *)
LEMMA ReceiveStep ==
    ASSUME IInv, failure = "none", NEW w \in Word, CommandWord(w)
    PROVE  Gp0StreamSpec!Receive(w)
  <1> DEFINE c == CommandWith(w)
             b == Append(Before, w)
  <1>1. gp0_mode = "COMMAND" /\ (Starting => Started(w) # {})
    BY DEF CommandWord
  <1>2. /\ c \in Commands
        /\ Before \in Seq(Word)
        /\ RemainingWith(w) \in Nat
        /\ Len(Before) + 1 + RemainingWith(w) = Length(c)
        /\ Opcode(b[1]) = Opcodes[c]
    BY <1>1, WordFacts
  <1>3. Gp0StreamSpec!Size(b[1][1]) = Length(c)
    BY <1>2, SizeIsLength DEF Opcode
  <1>4. Pending = Before /\ Owed = 0
    BY <1>1 DEF Pending, Owed, InCommand, Before, Starting, IInv, PortOK
  <1>5. Len(b) = Len(Before) + 1 /\ Len(Before) \in Nat /\ Length(c) \in Nat
    BY <1>2, LengthRange
  <1>6. CASE RemainingWith(w) # 0
    <2>1. /\ gp0_command_buffer' = b
          /\ gp0_words_remaining' = RemainingWith(w)
          /\ gp0_mode' = "COMMAND"
          /\ failure' = "none"
      BY <1>6, CollectStep
    <2>2. Pending' = b /\ Owed' = Owed /\ Executed' = <<>> /\ Halted' = Halted
      BY <1>2, <1>4, <1>6, <2>1 DEF Pending, Owed, Executed, Halted, InCommand
    <2>3. Len(b) < Length(c)
      BY <1>2, <1>5, <1>6
    <2> QED BY <1>3, <1>4, <2>2, <2>3
        DEF Gp0StreamSpec!Receive, Pending, Owed, Executed, Halted, InCommand
  <1>7. CASE RemainingWith(w) = 0
    <2>1. /\ gp0_command_buffer' = b
          /\ c # "IMAGE_LOAD" => gp0_words_remaining' = 0 /\ gp0_mode' = "COMMAND"
          /\ c = "IMAGE_LOAD" =>
               /\ b[3] \in Word
               /\ gp0_words_remaining' = ImageWords(b[3])
               /\ gp0_mode' = IF ImageWords(b[3]) = 0 THEN "COMMAND" ELSE "IMAGE_LOAD"
      BY <1>7, CompleteStep
    <2>2. Len(b) = Length(c)
      BY <1>2, <1>5, <1>7
    <2>3. Pending' = <<>> /\ Executed' = b
      <3>1. CASE c = "IMAGE_LOAD" /\ ImageWords(b[3]) # 0
        <4>1. gp0_mode' = "IMAGE_LOAD"
          BY <2>1, <3>1
        <4> QED BY <2>1, <4>1 DEF Pending, Executed, InCommand
      <3>2. CASE c # "IMAGE_LOAD" \/ ImageWords(b[3]) = 0
        <4>1. gp0_words_remaining' = 0
          BY <2>1, <3>2
        <4>2. ~(gp0_words_remaining' > 0)
          BY <4>1
        <4> QED BY <2>1, <4>2 DEF Pending, Executed, InCommand
      <3> QED BY <3>1, <3>2
    <2>4. Owed' = IF b[1][1] = 160 THEN Gp0StreamSpec!PixelWords(b[3]) ELSE 0
      <3>1. b[1][1] = 160 <=> c = "IMAGE_LOAD"
        BY <1>2, ImageOpcode DEF Opcode
      <3>2. CASE c = "IMAGE_LOAD"
        BY <2>1, <3>1, <3>2, Pixels DEF Owed
      <3>3. CASE c # "IMAGE_LOAD"
        BY <2>1, <3>1, <3>3 DEF Owed
      <3> QED BY <3>2, <3>3
    <2>5. Halted' \in BOOLEAN
      BY DEF Halted
    <2> HIDE DEF c
    <2>6. Append(Pending, w) = b /\ ~(Owed > 0)
      BY <1>4
    <2> HIDE DEF b
    <2> QED BY <1>3, <2>2, <2>3, <2>4, <2>5, <2>6, ReceivePacket
  <1> QED BY <1>6, <1>7

LEMMA RefinementStep ==
    IInv /\ [Next]_vars => [Gp0StreamSpec!Next]_(Gp0StreamSpec!vars)
  <1> SUFFICES ASSUME IInv, [Next]_vars
               PROVE  [Gp0StreamSpec!Next]_(Gp0StreamSpec!vars)
    OBVIOUS
  <1>1. ASSUME UNCHANGED <<gp0, failure>> PROVE UNCHANGED Gp0StreamSpec!vars
    BY <1>1 DEF gp0, Gp0StreamSpec!vars
  <1>2. ASSUME UNCHANGED gp0, failure = "none", failure' # "none"
        PROVE  Gp0StreamSpec!Next
    BY <1>2 DEF gp0, Gp0StreamSpec!Next, Gp0StreamSpec!Refuse
  <1>3. ASSUME NEW w \in CommandWords \cup ParameterWords, gpu_gp0(w)
        PROVE  Gp0StreamSpec!Next
    <2>1. w \in Word /\ failure = "none"
      BY <1>3, GpuAssumption DEF gpu_gp0
    <2>2. CASE UnknownCommand(w)
      BY <1>2, <2>1, <2>2 DEF UnknownCommand, Fail
    <2>3. CASE ImageWord(w)
      <3>1. /\ ~Starting
            /\ gp0_command_buffer' = gp0_command_buffer
            /\ gp0_words_remaining' = gp0_words_remaining - 1
            /\ gp0_mode' = IF gp0_words_remaining' = 0 THEN "COMMAND" ELSE "IMAGE_LOAD"
        BY <2>1, <2>3, ImageStep
      <3>2. gp0_mode = "IMAGE_LOAD" /\ failure' = "none" /\ gp0_words_remaining \in Nat
        BY <2>3 DEF ImageWord, Done, IInv, PortOK
      <3>3. gp0_words_remaining > 0
        BY <3>1, <3>2 DEF Starting
      <3>4. /\ Owed > 0 /\ Owed' = Owed - 1
            /\ Pending' = Pending /\ Executed' = Executed /\ Halted' = Halted
        BY <2>1, <3>1, <3>2, <3>3 DEF Pending, Owed, Executed, Halted, InCommand
      <3>5. Gp0StreamSpec!Receive(w)
        BY <3>4 DEF Gp0StreamSpec!Receive, Pending, Owed, Executed, Halted, InCommand
      <3> QED BY <1>3, <2>1, <3>5 DEF Gp0StreamSpec!Next
    <2>4. CASE CommandWord(w)
      BY <1>3, <2>1, <2>4, ReceiveStep DEF Gp0StreamSpec!Next
    <2> QED BY <1>3, <2>2, <2>3, <2>4 DEF gpu_gp0
  <1>4. ASSUME NEW w \in Word, gpu_gp1(w)
        PROVE  [Gp0StreamSpec!Next]_(Gp0StreamSpec!vars)
    <2>1. failure = "none"
      BY <1>4 DEF gpu_gp1
    <2>2. CASE UNCHANGED <<gp0, failure>>
      BY <1>1, <2>2
    <2>3. CASE UNCHANGED gp0 /\ failure' = "control"
      BY <1>2, <2>1, <2>3
    <2>4. CASE gpu_reset_command_buffer /\ UNCHANGED failure
      BY <2>1, <2>4 DEF gpu_reset_command_buffer, Gp0StreamSpec!Next, Gp0StreamSpec!Reset
    <2> QED BY <1>4, <2>2, <2>3, <2>4, ControlShape
  <1>5. CASE UNCHANGED vars
    BY <1>1, <1>5 DEF vars
  <1> QED BY <1>3, <1>4, <1>5, GpuAssumption DEF Next, WriteGp0, WriteGp1

(* Gpu implements the packet stream, for any words and any sizes of images. *)
THEOREM Refinement == Spec => ImplementsGp0Stream
  <1>1. Init => Gp0StreamSpec!Init
    BY DEF Init, Gp0StreamSpec!Init
  <1> QED BY <1>1, Invariance, RefinementStep, PTL
      DEF Spec, ImplementsGp0Stream, Gp0StreamSpec!Spec

=============================================================================
