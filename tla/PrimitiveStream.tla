--------------------------- MODULE PrimitiveStream ---------------------------
(***************************************************************************)
(* What the renderer promises the GPU, without staging buffers: the        *)
(* vertices of a frame are those of the primitives pushed since the last   *)
(* display, each once and in order, and a display shows exactly them.      *)
(* Any call may fail instead and then changes nothing.                     *)
(***************************************************************************)
EXTENDS Sequences

CONSTANTS Triangles, Quads  \* primitives: corner number -> attributes

VARIABLES
    frame,  \* vertices pushed since the last display
    shown   \* vertices of the frame on the screen

vars == <<frame, shown>>

Init == frame = <<>> /\ shown = <<>>

PushTriangle(t) == /\ frame' = frame \o <<t[1], t[2], t[3]>>
                   /\ UNCHANGED shown

\* Two triangles that share the diagonal from the second corner to the third.
PushQuad(q) == /\ frame' = frame \o <<q[1], q[2], q[3], q[2], q[3], q[4]>>
               /\ UNCHANGED shown

Display == shown' = frame /\ frame' = <<>>

Next == \/ \E t \in Triangles : PushTriangle(t)
        \/ \E q \in Quads : PushQuad(q)
        \/ Display

Spec == Init /\ [][Next]_vars

=============================================================================
