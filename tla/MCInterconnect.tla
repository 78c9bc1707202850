--------------------------- MODULE MCInterconnect ---------------------------
(* Instances of Interconnect: the addresses around every border of the map,*)
(* in the mirrored segments and some that are not mirrored.                *)
EXTENDS Interconnect

Contents == [o \in 0..7 |-> 100 + o]

\* Every byte of every register differs.
Words == [r \in DmaRegisters |-> <<r + 1, r + 2, r + 3, r + 4>>]

Status == <<151, 152, 153, 154>>

Borders == UNION {{r.start, r.start + r.size} : r \in {MEMORY_MAP[i] : i \in DOMAIN MEMORY_MAP}}

Near == {b + d : b \in Borders, d \in {-4, -1, 0, 2}} \cap 0..(SegSize - 1)

AllAddrs == [seg : {0, 1, 5, 7}, off : Near]

\* Around RAM and its mirrors, and at the end of the address space.
RamAddrs == [seg : {0, 4, 5}, off : {0, 2, 3}] \cup [seg : {3, 7}, off : {SegSize - 1}]

=============================================================================
