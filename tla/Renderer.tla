------------------------------ MODULE Renderer ------------------------------
(***************************************************************************)
(* The renderer's vertex staging (src/src/frontend/renderer.c): two        *)
(* parallel arrays, of positions and of colors, filled by the GPU's        *)
(* primitives and handed to OpenGL as one draw when a frame is displayed,  *)
(* or early when the next primitive does not fit.  A call that returns     *)
(* false ends the emulator, so nothing follows a failure.                  *)
(***************************************************************************)
EXTENDS Integers, Sequences

CONSTANTS
    Capacity,                 \* RENDERER_VERTEX_BUFFER_LENGTH, 64 * 1024
    Positions, Colors,        \* vertex attributes
    ZeroPosition, ZeroColor,  \* what calloc leaves in the arrays
    Triangles, Quads,         \* the primitives pushed: sequences of vertices
    MaxFrame                  \* bound of the model: vertices in one frame

Vertices == [position : Positions, color : Colors]

ASSUME RendererAssumption ==
    /\ Capacity \in Nat /\ Capacity >= 6
    /\ ZeroPosition \in Positions /\ ZeroColor \in Colors
    /\ Triangles \subseteq [1 .. 3 -> Vertices]
    /\ Quads \subseteq [1 .. 4 -> Vertices]
    /\ MaxFrame \in Nat

VARIABLES
    positions, colors,  \* the staging arrays
    vertex_count,       \* how much of them is staged
    drawn,              \* external: vertices OpenGL drew since the last swap
    shown,              \* external: vertices of the frame on the screen
    failure             \* why a call returned false, or none

vars == <<positions, colors, vertex_count, drawn, shown, failure>>

Indices == 0 .. Capacity - 1

\* renderer_buffer_set for each index; those out of range are not written.
Stage(array, count, values) ==
    [i \in Indices |-> IF i \in count .. count + Len(values) - 1
                       THEN values[i - count + 1]
                       ELSE array[i]]

\* What renderer_buffer_upload and glDrawArrays take from the arrays.
Staged == [i \in 1 .. vertex_count |->
             [position |-> positions[i - 1], color |-> colors[i - 1]]]

-----------------------------------------------------------------------------
\* renderer_draw returns false: an upload or the draw failed, and the count
\* of staged vertices stays.  With nothing staged it cannot fail.
DrawFails == /\ vertex_count # 0
             /\ failure' = "draw"
             /\ UNCHANGED <<positions, colors, vertex_count, drawn, shown>>

\* Stage the vertices, after an early draw if the buffer counts as full.
\* An index beyond the arrays fails renderer_buffer_set and the call.
PushWhen(full, vertices) ==
    LET base == IF full THEN 0 ELSE vertex_count
    IN  /\ failure = "none"
        /\ \/ full /\ DrawFails
           \/ /\ drawn' = IF full THEN drawn \o Staged ELSE drawn
              /\ positions' = Stage(positions, base,
                                    [i \in DOMAIN vertices |-> vertices[i].position])
              /\ colors' = Stage(colors, base,
                                 [i \in DOMAIN vertices |-> vertices[i].color])
              /\ IF base + Len(vertices) > Capacity
                 THEN failure' = "overflow" /\ vertex_count' = base
                 ELSE failure' = "none" /\ vertex_count' = base + Len(vertices)
              /\ UNCHANGED shown

\* Mutation: every primitive is tested as if it were a triangle.
PushVertices_TriangleTest(vertices) ==
    PushWhen(vertex_count > Capacity - 3, vertices)

PushVertices(vertices) ==
    PushWhen(vertex_count > Capacity - Len(vertices), vertices)

renderer_push_triangle(t) == PushVertices(<<t[1], t[2], t[3]>>)

\* vertex_order: the diagonal shared by corners 1 and 2, counted from 0.
renderer_push_quad(q) == PushVertices(<<q[1], q[2], q[3], q[2], q[3], q[4]>>)

\* Mutation: what is left staged is not drawn before the swap.
renderer_display_NoDraw ==
    /\ failure = "none"
    /\ shown' = drawn
    /\ drawn' = <<>>
    /\ UNCHANGED <<positions, colors, vertex_count, failure>>

\* Draw what is staged, then swap; either may fail.
renderer_display ==
    /\ failure = "none"
    /\ \/ DrawFails
       \/ /\ vertex_count' = 0
          /\ UNCHANGED <<positions, colors>>
          /\ \/ /\ failure' = "swap"
                /\ drawn' = drawn \o Staged
                /\ UNCHANGED shown
             \/ /\ failure' = "none"
                /\ shown' = drawn \o Staged
                /\ drawn' = <<>>

-----------------------------------------------------------------------------
Init == /\ positions = [i \in Indices |-> ZeroPosition]
        /\ colors = [i \in Indices |-> ZeroColor]
        /\ vertex_count = 0
        /\ drawn = <<>>
        /\ shown = <<>>
        /\ failure = "none"

InFrame(n) == Len(drawn) + vertex_count + n <= MaxFrame

Next == \/ \E t \in Triangles : InFrame(3) /\ renderer_push_triangle(t)
        \/ \E q \in Quads : InFrame(6) /\ renderer_push_quad(q)
        \/ renderer_display

Spec == Init /\ [][Next]_vars

-----------------------------------------------------------------------------
TypeOK ==
    /\ positions \in [Indices -> Positions]
    /\ colors \in [Indices -> Colors]
    /\ vertex_count \in 0 .. Capacity
    /\ drawn \in Seq(Vertices)
    /\ shown \in Seq(Vertices)
    /\ failure \in {"none", "draw", "swap", "overflow"}

\* The overflow branch of renderer_buffer_set (renderer.c:213) is never taken:
\* the tests of the two push functions and the early draw always make room,
\* although the capacity is a multiple neither of 3 nor of 6.
NeverOverflows == failure # "overflow"

\* A draw is of whole triangles: GL_TRIANGLES ignores up to two vertices of a
\* count that is not a multiple of three, and renderer_draw (renderer.c:427)
\* would drop them with the rest.
WholeTriangles == vertex_count % 3 = 0

\* However the early draws fall, whatever the arrays held before and whichever
\* call fails, the screen shows the primitives of a frame, each vertex with
\* its own color, once and in the order the GPU pushed them.
PrimitiveStreamSpec ==
    INSTANCE PrimitiveStream WITH frame <- drawn \o Staged
ImplementsPrimitiveStream == PrimitiveStreamSpec!Spec

=============================================================================
