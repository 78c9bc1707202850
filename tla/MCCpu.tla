------------------------------- MODULE MCCpu -------------------------------
(* Values for the constants of Cpu.                                        *)
EXTENDS Cpu

TwoRegs == {0, 1}
TwoModes == {0, 1}
\* An aligned address and one that is not; a register holds the second, a link
\* or the 0 of reset.
Aligned4And6 == {4, 6}
Only6 == {6}
Syscall == {"Syscall"}
SlotCause == {[code |-> "None", bd |-> TRUE]}

=============================================================================
