------------------------------ MODULE Graphics ------------------------------
(***************************************************************************)
(* The GPU's ports and the renderer together: a word that completes a      *)
(* command has the renderer stage, draw or display before the store        *)
(* returns, and its result is the port's (src/src/hardware/gpu.c, called   *)
(* by route_gpu_store in src/src/memory/interconnect.c).  Commands, resets *)
(* and early draws fall anywhere; what counts is what the screen shows of  *)
(* the words that were sent.                                               *)
(***************************************************************************)
EXTENDS Renderer, SequencesExt

CONSTANTS
    CommandWords,   \* words the CPU sends to GP0 where a command starts
    ParameterAt,    \* and where one continues, by the words that it has
    ControlWords,   \* words it sends to GP1
    MaxImageWords   \* bound: pixel words of an image load

VARIABLES
    gp0_command_buffer, gp0_words_remaining, gp0_command, gp0_mode,
    drawing, control, call, port_failure,                   \* Gpu
    frame_packets,          \* history: primitives executed since the last display
    shown_packets           \* history: those that the last display ended

gpu == <<gp0_command_buffer, gp0_words_remaining, gp0_command, gp0_mode,
         drawing, control, call, port_failure>>
history == <<frame_packets, shown_packets>>
gvars == <<vars, gpu, history>>

ParameterWords == UNION {ParameterAt[n] : n \in DOMAIN ParameterAt}

G == INSTANCE Gpu WITH failure <- port_failure

\* The renderer takes whatever vertices the words make.
ASSUME GraphicsAssumption ==
    /\ DOMAIN ParameterAt = 1 .. 11
    /\ MaxImageWords \in Nat
    /\ CommandWords \cup ParameterWords \cup ControlWords \subseteq G!Word
    /\ \A w \in CommandWords \cup ParameterWords :
          G!position_from_gp0(w) \in Positions /\ G!color_from_gp0(w) \in Colors
    /\ G!Red \in Colors

-----------------------------------------------------------------------------
GraphicsInit ==
    /\ G!Init /\ Init
    /\ frame_packets = <<>> /\ shown_packets = <<>>

\* gpu_execute_gp0_command returns what the renderer does.
Answers == (port_failure' = "renderer") = (failure' # "none")

\* What the command just executed asks of the renderer.
Renders ==
    \/ call'.op = "none" /\ UNCHANGED vars
    \/ call'.op = "triangle" /\ renderer_push_triangle(call'.vertices) /\ Answers
    \/ call'.op = "quad" /\ renderer_push_quad(call'.vertices) /\ Answers
    \/ call'.op = "display" /\ renderer_display /\ Answers

\* The history keeps the words of the packet, not what was made of them.
Remember(packet) ==
    \/ /\ port_failure' # "none" \/ call'.op = "none"
       /\ UNCHANGED history
    \/ /\ port_failure' = "none" /\ call'.op \in {"triangle", "quad"}
       /\ frame_packets' = Append(frame_packets, packet) /\ UNCHANGED shown_packets
    \/ /\ port_failure' = "none" /\ call'.op = "display"
       /\ shown_packets' = frame_packets /\ frame_packets' = <<>>

Inputs == IF G!Starting \/ gp0_mode = "IMAGE_LOAD" THEN CommandWords
          ELSE ParameterAt[Len(gp0_command_buffer)]

\* Bounds: the size of an image, and a primitive starts only where a frame has
\* room for the larger one.
InBounds(w) ==
    /\ G!Bounded(w)
    /\ G!Starting /\ G!Opcode(w) \in {40, 44, 48, 56} => InFrame(6)

WriteGp0(w) ==
    /\ InBounds(w) /\ G!gpu_gp0(w)
    /\ Renders
    /\ Remember(Append(G!Before, w))

\* Mutation: a reset empties the staging buffers.
WriteGp1_Unstages(w) ==
    /\ G!gpu_gp1(w)
    /\ vertex_count' = IF G!Opcode(w) \in {0, 1} THEN 0 ELSE vertex_count
    /\ UNCHANGED <<positions, colors, drawn, shown, failure, history>>

WriteGp1(w) == G!gpu_gp1(w) /\ UNCHANGED <<vars, history>>

GraphicsNext ==
    \/ \E w \in Inputs : WriteGp0(w)
    \/ \E w \in ControlWords : WriteGp1(w)

GraphicsSpec == GraphicsInit /\ [][GraphicsNext]_gvars

-----------------------------------------------------------------------------
(* Properties *)

\* Corner k of a packet, from the format: a color per corner when shaded, one
\* for all when not, and a texture coordinate after each position when
\* textured, which is drawn red.
Corner(packet, k) ==
    LET opcode == G!Opcode(packet[1])
        stride == IF opcode = 40 THEN 1 ELSE 2
        color == IF opcode \in {48, 56} THEN packet[2 * k - 1] ELSE packet[1]
    IN  [position |-> G!position_from_gp0(packet[2 + stride * (k - 1)]),
         color |-> IF opcode = 44 THEN G!Red ELSE G!color_from_gp0(color)]

\* The triangles of a packet: three corners, or twice three that share a side.
TrianglesOf(packet) ==
    LET corners == IF G!Opcode(packet[1]) = 48 THEN <<1, 2, 3>> ELSE <<1, 2, 3, 2, 3, 4>>
    IN  [i \in DOMAIN corners |-> Corner(packet, corners[i])]

AllTriangles(packets) == FlattenSeq([i \in DOMAIN packets |-> TrianglesOf(packets[i])])

\* The screen shows exactly the primitives whose last word came between the two
\* last displays, whatever resets dropped commands in between and wherever the
\* buffer was drawn early; what is staged or drawn is the next frame so far.
ScreenShowsPackets ==
    port_failure = "none" =>
    /\ shown = AllTriangles(shown_packets)
    /\ drawn \o Staged = AllTriangles(frame_packets)

=============================================================================
