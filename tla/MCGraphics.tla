----------------------------- MODULE MCGraphics -----------------------------
(* Values for the constants of Graphics.                                   *)
EXTENDS Graphics

\* A mono quad, a textured quad, a shaded triangle, a shaded quad, an image
\* load and the display.
Starts == {<<40, 1, 2, 3>>, <<44, 0, 0, 0>>, <<48, 4, 5, 6>>, <<56, 7, 8, 9>>,
           <<160, 0, 0, 0>>, <<229, 0, 0, 0>>}

\* Each place of a packet has a word of its own, whose x is negative in odd
\* places; the third of an image load makes it two pixels large.
OneEach == [n \in 1 .. 11 |->
              {IF n = 2 THEN <<0, 1, 0, 2>> ELSE <<0, n, 255 * (n % 2), n>>}]

\* The vertices of the packet that an opcode starts.
Primitive(opcode, corners) ==
    LET packet == [n \in 1 .. 12 |-> IF n = 1
                                     THEN CHOOSE w \in Starts : w[1] = opcode
                                     ELSE CHOOSE w \in OneEach[n - 1] : TRUE]
    IN  [k \in 1 .. corners |-> Corner(packet, k)]

SentTriangles == {Primitive(48, 3)}
SentQuads == {Primitive(opcode, 4) : opcode \in {40, 44, 56}}

AllPositions == [x : Int, y : Int]
AllColors == [r : Int, g : Int, b : Int]
Origin == [x |-> 0, y |-> 0]
Black == [r |-> 0, g |-> 0, b |-> 0]

Resets == {<<0, 0, 0, 0>>, <<1, 0, 0, 0>>}

=============================================================================
