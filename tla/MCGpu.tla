------------------------------- MODULE MCGpu -------------------------------
(* Values for the constants of Gpu.                                        *)
EXTENDS Gpu

\* One word per GP0 command, a draw mode that is refused, an unknown command.
AllCommands == {<<op, 16, 0, 1>> : op \in {0, 1, 40, 44, 48, 56, 160, 192, 229}}
               \cup {<<225, 0, 0, 1>>, <<225, 0, 1, 128>>, <<255, 0, 0, 0>>}

\* A drawing-offset command that, taken for a size, is an image without
\* pixels; a vertex that, taken for one, is an image of 3 pixels.
Parameters == {<<229, 0, 0, 0>>, <<0, 1, 0, 3>>}

\* Both resets, the acknowledgement, a register, a refused display mode.
Controls == {<<0, 0, 0, 0>>, <<1, 0, 0, 0>>, <<2, 0, 0, 0>>, <<4, 0, 0, 2>>,
             <<8, 0, 0, 128>>}

=============================================================================
