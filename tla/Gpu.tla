-------------------------------- MODULE Gpu --------------------------------
(***************************************************************************)
(* The GPU's two ports (src/src/hardware/gpu.c).  GP0 takes commands word  *)
(* by word: gpu_gp0 counts down the words of the command it has started,   *)
(* executes it with the last one, and discards the pixels of an image      *)
(* load.  GP1 takes control words of one word each; two of them reset the  *)
(* GP0 side, at any point of a command.  A port function that returns      *)
(* false ends the emulator (interconnect.c:379, 384).                      *)
(***************************************************************************)
EXTENDS Integers, Sequences

Byte == 0 .. 255
Word == [1 .. 4 -> Byte]  \* from the most significant byte down
Opcode(w) == w[1]
Payload(w) == <<w[2], w[3], w[4]>>

CONSTANTS
    CommandWords,    \* words the CPU sends to GP0 where a command starts
    ParameterWords,  \* and where one continues
    ControlWords,    \* words it sends to GP1
    MaxImageWords    \* bound of the model: pixel words of an image load

ASSUME GpuAssumption ==
    /\ CommandWords \cup ParameterWords \cup ControlWords \subseteq Word
    /\ MaxImageWords \in Nat

VARIABLES
    gp0_command_buffer,   \* its first gp0_command_length words
    gp0_words_remaining, gp0_command, gp0_mode,
    drawing,  \* payload of the last command of each drawing attribute
    control,  \* payload of the last GP1 command of each display register
    call,     \* what the last word asked of the renderer
    failure   \* why a port function returned false, or none

gp0 == <<gp0_command_buffer, gp0_words_remaining, gp0_command, gp0_mode>>
vars == <<gp0, drawing, control, call, failure>>

-----------------------------------------------------------------------------
(* The commands: their opcodes and, gpu_start_gp0_command, their lengths.  *)

Attributes == {"DRAW_MODE", "TEXTURE_WINDOW", "DRAWING_AREA_TOP_LEFT",
               "DRAWING_AREA_BOTTOM_RIGHT", "DRAWING_OFFSET", "MASK_BIT_SETTING"}

Opcodes == [NOP |-> 0, CLEAR_CACHE |-> 1, MONO_QUAD |-> 40, TEXTURED_QUAD |-> 44,
            SHADED_TRIANGLE |-> 48, SHADED_QUAD |-> 56, IMAGE_LOAD |-> 160,
            IMAGE_STORE |-> 192, DRAW_MODE |-> 225, TEXTURE_WINDOW |-> 226,
            DRAWING_AREA_TOP_LEFT |-> 227, DRAWING_AREA_BOTTOM_RIGHT |-> 228,
            DRAWING_OFFSET |-> 229, MASK_BIT_SETTING |-> 230]

Commands == DOMAIN Opcodes

Length(command) ==
    CASE command = "MONO_QUAD" -> 5
      [] command = "TEXTURED_QUAD" -> 9
      [] command = "SHADED_TRIANGLE" -> 6
      [] command = "SHADED_QUAD" -> 8
      [] command \in {"IMAGE_LOAD", "IMAGE_STORE"} -> 3
      [] OTHER -> 1

\* Mutation: the last pixel of an odd number brings no word.
ImageWords_RoundsDown(size) ==
    ((256 * size[3] + size[4]) * (256 * size[1] + size[2])) \div 2

\* Width and height are the halves of the word; two pixels to a word.  The
\* product of two halves is too small for the test against UINT32_MAX.
ImageWords(size) ==
    ((256 * size[3] + size[4]) * (256 * size[1] + size[2]) + 1) \div 2

-----------------------------------------------------------------------------
(* Vertices, as the renderer is given them.                                *)

i16(n) == IF n < 32768 THEN n ELSE n - 65536
position_from_gp0(w) == [x |-> i16(256 * w[3] + w[4]), y |-> i16(256 * w[1] + w[2])]
color_from_gp0(w) == [r |-> w[4], g |-> w[3], b |-> w[2]]
Red == [r |-> 128, g |-> 0, b |-> 0]

NoCall == [op |-> "none", vertices |-> <<>>]
Push(op, words, colors) ==
    [op |-> op, vertices |->
        [i \in DOMAIN words |-> [position |-> position_from_gp0(words[i]),
                                 color |-> colors[i]]]]

gp0_triangle_shaded_opaque(b) ==
    Push("triangle", <<b[2], b[4], b[6]>>,
         [i \in 1 .. 3 |-> color_from_gp0(b[2 * i - 1])])
gpu_gp0_quad_mono_opaque(b) ==
    Push("quad", <<b[2], b[3], b[4], b[5]>>,
         [i \in 1 .. 4 |-> color_from_gp0(b[1])])
gpu_gp0_quad_shaded_opaque(b) ==
    Push("quad", <<b[2], b[4], b[6], b[8]>>,
         [i \in 1 .. 4 |-> color_from_gp0(b[2 * i - 1])])
gpu_gp0_quad_texture_blend_opaque(b) ==
    Push("quad", <<b[2], b[4], b[6], b[8]>>, [i \in 1 .. 4 |-> Red])

-----------------------------------------------------------------------------
(* gpu_execute_gp0_command: what each command does with its words b.       *)

Ask(request) == call' = request /\ failure' \in {"none", "renderer"}
Done == call' = NoCall /\ failure' = "none"
Fail(reason) == call' = NoCall /\ failure' = reason

Draw(command, b) ==
    /\ \/ command = "SHADED_TRIANGLE" /\ Ask(gp0_triangle_shaded_opaque(b))
       \/ command = "MONO_QUAD" /\ Ask(gpu_gp0_quad_mono_opaque(b))
       \/ command = "SHADED_QUAD" /\ Ask(gpu_gp0_quad_shaded_opaque(b))
       \/ command = "TEXTURED_QUAD" /\ Ask(gpu_gp0_quad_texture_blend_opaque(b))
    /\ gp0_words_remaining' = 0
    /\ UNCHANGED <<gp0_mode, drawing>>

TextureDepth(w) == 2 * (w[3] % 2) + w[4] \div 128

\* Draw mode 3 is refused; an offset also displays what has been drawn.
SetAttribute(command, b) ==
    /\ command \in Attributes
    /\ IF command = "DRAW_MODE" /\ TextureDepth(b[1]) = 3
       THEN Fail("texture_depth") /\ UNCHANGED drawing
       ELSE /\ drawing' = [drawing EXCEPT ![command] = Payload(b[1])]
            /\ IF command = "DRAWING_OFFSET"
               THEN Ask([op |-> "display", vertices |-> <<>>]) ELSE Done
    /\ gp0_words_remaining' = 0
    /\ UNCHANGED gp0_mode

\* Mutation: the words of an image of no pixels are waited for.
gpu_gp0_image_load_Empty(command, b) ==
    /\ command = "IMAGE_LOAD"
    /\ gp0_words_remaining' = ImageWords(b[3])
    /\ gp0_mode' = "IMAGE_LOAD"
    /\ Done
    /\ UNCHANGED drawing

gpu_gp0_image_load(command, b) ==
    /\ command = "IMAGE_LOAD"
    /\ gp0_words_remaining' = ImageWords(b[3])
    /\ gp0_mode' = IF ImageWords(b[3]) = 0 THEN "COMMAND" ELSE "IMAGE_LOAD"
    /\ Done
    /\ UNCHANGED drawing

Ignore(command) ==
    /\ command \in {"NOP", "CLEAR_CACHE", "IMAGE_STORE", "NONE"}
    /\ IF command = "NONE" THEN Fail("no_command") ELSE Done
    /\ gp0_words_remaining' = 0
    /\ UNCHANGED <<gp0_mode, drawing>>

gpu_execute_gp0_command(command, b) ==
    Draw(command, b) \/ SetAttribute(command, b)
    \/ gpu_gp0_image_load(command, b) \/ Ignore(command)

-----------------------------------------------------------------------------
(* gpu_gp0                                                                 *)

Starting == gp0_words_remaining = 0
Started(w) == {c \in Commands : Opcodes[c] = Opcode(w)}

\* gpu_start_gp0_command refuses the opcode.
UnknownCommand(w) ==
    /\ Starting /\ Started(w) = {}
    /\ Fail("unknown_command")
    /\ UNCHANGED <<gp0, drawing, control>>

\* The command, its words so far and its words to come, once w has been
\* found to start a command or to continue one.
CommandWith(w) == IF Starting THEN CHOOSE c \in Commands : Opcodes[c] = Opcode(w)
                  ELSE gp0_command
Before == IF Starting THEN <<>> ELSE gp0_command_buffer
RemainingWith(w) ==
    (IF Starting THEN Length(CommandWith(w)) ELSE gp0_words_remaining) - 1

ImageWord(w) ==
    /\ gp0_mode = "IMAGE_LOAD"
    /\ Starting => Started(w) # {}
    /\ gp0_command' = CommandWith(w)
    /\ gp0_command_buffer' = Before
    /\ gp0_words_remaining' = RemainingWith(w)
    /\ gp0_mode' = IF RemainingWith(w) = 0 THEN "COMMAND" ELSE "IMAGE_LOAD"
    /\ Done
    /\ UNCHANGED <<drawing, control>>

\* The test for 12 words comes before the word is stored.
CommandWord(w) ==
    LET b == Append(Before, w) IN
    /\ gp0_mode = "COMMAND"
    /\ Starting => Started(w) # {}
    /\ gp0_command' = CommandWith(w)
    /\ gp0_command_buffer' = IF Len(Before) >= 12 THEN Before ELSE b
    /\ IF RemainingWith(w) = 0 /\ Len(Before) < 12
       THEN gpu_execute_gp0_command(CommandWith(w), b)
       ELSE /\ gp0_words_remaining' = RemainingWith(w)
            /\ IF Len(Before) >= 12 THEN Fail("overflow") ELSE Done
            /\ UNCHANGED <<gp0_mode, drawing>>
    /\ UNCHANGED control

gpu_gp0(w) == /\ failure = "none"
              /\ UnknownCommand(w) \/ ImageWord(w) \/ CommandWord(w)

-----------------------------------------------------------------------------
(* gpu_gp1                                                                 *)

\* Mutation: a reset goes on counting the words of the command it dropped.
gpu_reset_command_buffer_KeepsCount ==
    /\ gp0_command_buffer' = <<>>
    /\ gp0_command' = "NONE"
    /\ gp0_mode' = "COMMAND"
    /\ UNCHANGED gp0_words_remaining

gpu_reset_command_buffer ==
    /\ gp0_command_buffer' = <<>>
    /\ gp0_words_remaining' = 0
    /\ gp0_command' = "NONE"
    /\ gp0_mode' = "COMMAND"

\* Display registers by GP1 opcode: 3 disable, 4 DMA direction, 5 VRAM start,
\* 6 horizontal and 7 vertical range, 8 mode.
NoDrawing == [a \in Attributes |-> <<0, 0, 0>>]
PowerOn == [r \in 3 .. 8 |-> IF r = 3 THEN <<0, 0, 1>> ELSE <<0, 0, 0>>]
AfterReset == [r \in 3 .. 8 |-> CASE r = 3 -> <<0, 0, 1>>
                                  [] r = 6 -> <<192, 2, 0>>
                                  [] r = 7 -> <<4, 0, 16>>
                                  [] r = 8 -> <<0, 0, 32>>
                                  [] OTHER -> <<0, 0, 0>>]

gpu_gp1_reset == /\ gpu_reset_command_buffer
                 /\ drawing' = NoDrawing
                 /\ control' = AfterReset

\* Control word 2 acknowledges an interrupt, which nothing ever raises.
gpu_gp1(w) ==
    /\ failure = "none"
    /\ call' = NoCall
    /\ \/ Opcode(w) = 0 /\ gpu_gp1_reset /\ UNCHANGED failure
       \/ Opcode(w) = 1 /\ gpu_reset_command_buffer
                        /\ UNCHANGED <<drawing, control, failure>>
       \/ Opcode(w) = 2 /\ UNCHANGED <<gp0, drawing, control, failure>>
       \/ /\ Opcode(w) \in 3 .. 8
          /\ ~(Opcode(w) = 8 /\ w[4] >= 128)
          /\ control' = [control EXCEPT ![Opcode(w)] = Payload(w)]
          /\ UNCHANGED <<gp0, drawing, failure>>
       \/ /\ Opcode(w) > 8 \/ (Opcode(w) = 8 /\ w[4] >= 128)
          /\ failure' = "control"
          /\ UNCHANGED <<gp0, drawing, control>>

-----------------------------------------------------------------------------
Init == /\ gp0_command_buffer = <<>>
        /\ gp0_words_remaining = 0
        /\ gp0_command = "NONE"
        /\ gp0_mode = "COMMAND"
        /\ drawing = NoDrawing
        /\ control = PowerOn
        /\ call = NoCall
        /\ failure = "none"

\* The third word of an image load is its size.
Bounded(w) == (gp0_command = "IMAGE_LOAD" /\ Len(gp0_command_buffer) = 2)
                  => ImageWords(w) <= MaxImageWords

WriteGp0 == \E w \in IF Starting THEN CommandWords ELSE ParameterWords :
                Bounded(w) /\ gpu_gp0(w)
WriteGp1 == \E w \in ControlWords : gpu_gp1(w)

Next == WriteGp0 \/ WriteGp1

Spec == Init /\ [][Next]_vars

-----------------------------------------------------------------------------
TypeOK ==
    /\ gp0_command_buffer \in Seq(Word) /\ Len(gp0_command_buffer) <= 12
    /\ gp0_words_remaining \in Nat
    /\ gp0_command \in Commands \cup {"NONE"}
    /\ gp0_mode \in {"COMMAND", "IMAGE_LOAD"}
    /\ drawing \in [Attributes -> Byte \X Byte \X Byte]
    /\ control \in [3 .. 8 -> Byte \X Byte \X Byte]
    /\ call.op \in {"none", "triangle", "quad", "display"}
    /\ failure \in {"none", "unknown_command", "texture_depth", "no_command",
                    "overflow", "renderer", "control"}

\* The counter, the mode, the command and the buffer agree at every word,
\* however commands, pixels and resets follow each other: a command in
\* progress is the one its first word names, what is stored and what is to
\* come make up its length, and in image mode there is a word to come, so that
\* gpu_gp0 (gpu.c:317) never starts a command in that mode.
FramingCoherent ==
    /\ gp0_mode = "IMAGE_LOAD" =>
          gp0_words_remaining > 0 /\ gp0_command = "IMAGE_LOAD"
    /\ (gp0_mode = "COMMAND" /\ gp0_words_remaining > 0) =>
          /\ gp0_command \in Commands
          /\ gp0_command_buffer # <<>>
          /\ Opcode(gp0_command_buffer[1]) = Opcodes[gp0_command]
          /\ Len(gp0_command_buffer) + gp0_words_remaining = Length(gp0_command)

\* The two internal errors of gpu_gp0 never happen: the buffer does not
\* overflow (gpu.c:332) and a command is always selected (gpu.c:281).
NoInternalError == failure \notin {"overflow", "no_command"}

\* Word by word, with resets anywhere, GP0 executes the packets of the stream,
\* each with its own words; pixels that look like commands are not executed.
Gp0StreamSpec ==
    INSTANCE Gp0Stream WITH
        Words <- CommandWords \cup ParameterWords,
        pending <- IF gp0_mode = "COMMAND" /\ gp0_words_remaining > 0
                   THEN gp0_command_buffer ELSE <<>>,
        owed <- IF gp0_mode = "IMAGE_LOAD" THEN gp0_words_remaining ELSE 0,
        executed <- IF gp0_mode = "COMMAND" /\ gp0_words_remaining > 0
                    THEN <<>> ELSE gp0_command_buffer,
        halted <- failure # "none"
ImplementsGp0Stream == Gp0StreamSpec!Spec

=============================================================================
