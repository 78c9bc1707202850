------------------------------- MODULE MCDma -------------------------------
(* Values for the constants of Dma.                                        *)
EXTENDS Dma

GpuPort == {"GPU"}
BlockPorts == {"OTC", "GPU"}
C(direction, step, sync, enable, trigger) ==
    [direction |-> direction, step |-> step, sync |-> sync,
     enable |-> enable, trigger |-> trigger]

\* Lists: linked-list mode on and off.
ListControls == {C("FROM_RAM", "INCREMENT", "LINKED_LIST", TRUE, FALSE),
                 C("FROM_RAM", "INCREMENT", "LINKED_LIST", FALSE, FALSE)}
\* Any link, packets of none or one word, an end anywhere.
ListWords == {[size |-> 0, end |-> FALSE, next |-> 4 * i] : i \in 0 .. RamWords - 1}
             \cup {[size |-> 1, end |-> FALSE, next |-> 4 * (RamWords - 1)],
                   [size |-> 0, end |-> TRUE, next |-> 3],
                   [size |-> 2, end |-> TRUE, next |-> 0]}
Zero == {0}
ListBases == {0, 4 * RamWords + 4}

\* Blocks: both modes, directions and steps, a trigger without enable, a list
\* on a channel that has none, an unknown mode.
BlockControls ==
    {C(d, s, "REQUEST", TRUE, FALSE) : d \in {"TO_RAM", "FROM_RAM"},
                                       s \in {"INCREMENT", "DECREMENT"}}
    \cup {C("TO_RAM", "DECREMENT", "MANUAL", TRUE, TRUE),
          C("FROM_RAM", "INCREMENT", "MANUAL", TRUE, FALSE),
          C("TO_RAM", "DECREMENT", "MANUAL", FALSE, TRUE),
          C("TO_RAM", "DECREMENT", "LINKED_LIST", TRUE, FALSE),
          C("TO_RAM", "DECREMENT", "UNKNOWN", TRUE, TRUE)}
\* An aligned base, and one that is neither aligned nor within RAM.
BlockBases == {4, 4 * RamWords + 10}
Sizes == {0, 1, 3}
Counts == {1}
NoWords == {}

=============================================================================
