-------------------------------- MODULE Cpu --------------------------------
(***************************************************************************)
(* The interpreter's pipeline state (src/src/cpu/cpu.c): the two register  *)
(* banks, the pending load, the program counter kept one instruction       *)
(* ahead, the branch and delay-slot flags, and COP0's SR, Cause, EPC and   *)
(* BadVAddr.  One action is one call of cpu_run_next_instruction; the      *)
(* instruction it fetches is any instruction, so the program is arbitrary. *)
(* What an instruction computes is abstracted to "some word of Values";    *)
(* where the result goes and when it becomes visible is not.  The actions  *)
(* Debug... are the register writes of the GDB server (gdb_server.c),      *)
(* which happen between two instructions.  HI, LO and the memory behind    *)
(* loads and stores are data: a read of them is a word of Values.          *)
(***************************************************************************)
EXTENDS Integers, Sequences

CONSTANTS
    WordMod,         \* 2^32 in the code: every u32 wraps modulo this
    Segment,         \* 2^28: J and JAL stay in the segment of their slot
    Regs,            \* register indices, with 0 = $zero
    Link,            \* index of $ra, register 31
    ResetPc,         \* 0xbfc00000
    BootHandler,     \* 0xbfc00180, the vector used while SR.BEV is set
    GeneralHandler,  \* 0x80000080
    Poison,          \* 0xdeadbeef, in every register after cpu_init
    Values,          \* words that a computation or a bus read yields
    Addresses,       \* effective addresses of loads and stores
    Offsets,         \* branch displacements, already shifted left by 2
    Modes,           \* (user mode, interrupt enable) pairs of SR; 0 = kernel
    TrapCodes,       \* codes of the instructions that do nothing but trap
    DebugCauses      \* Cause words that a debugger writes

Word == 0 .. WordMod - 1
\* Mutation: an address that does not wrap.
Add_NoWrap(a, b) == a + b

Add(a, b) == (a + b) % WordMod

Codes == {"LoadAddressError", "StoreAddressError", "Syscall", "Break",
          "IllegalInstruction", "CoprocessorError", "Overflow"}
CauseWords == [code : Codes \cup {"None"}, bd : BOOLEAN]

ASSUME CpuAssumption ==
    /\ WordMod \in Nat /\ WordMod > 4
    /\ Segment \in Nat \ {0}
    /\ {0, Link} \subseteq Regs
    /\ {ResetPc, BootHandler, GeneralHandler, Poison} \subseteq Word
    /\ Values \cup Addresses \cup Offsets \subseteq Word
    /\ 0 \in Modes
    /\ TrapCodes \subseteq Codes /\ DebugCauses \subseteq CauseWords

VARIABLES
    pc, next_pc, current_pc,   \* next fetch, the one after it, last executed
    branch, delay_slot,        \* last instruction branched / sat in a slot
    regs, out_regs, load,      \* input bank, output bank, load in flight
    sr, cause, epc, badvaddr,  \* COP0
    halted,                    \* the process left through exit()
    saved                      \* history: modes interrupted, innermost first

control == <<pc, next_pc, current_pc, branch, delay_slot>>
cop0 == <<sr, cause, epc, badvaddr, saved>>
vars == <<control, regs, out_regs, load, cop0, halted>>

-----------------------------------------------------------------------------
(* Helpers.                                                                *)

NoLoad == [reg |-> 0, value |-> 0]

SetReg(bank, r, v) == [bank EXCEPT ![r] = v, ![0] = 0]

\* out_regs once the load of the previous instruction has been committed.
Committed == SetReg(out_regs, load.reg, load.value)

StatusWords == [cur : Modes, prev : Modes, old : Modes, bev : BOOLEAN]

\* SR's six-bit mode stack, shifted left by an exception, right by RFE.
PushMode(s) == [s EXCEPT !.old = s.prev, !.prev = s.cur, !.cur = 0]

\* Mutation: RFE restores the current mode but does not shift the stack.
PopMode_NoShift(s) == [s EXCEPT !.cur = s.prev]

PopMode(s) == [s EXCEPT !.cur = s.prev, !.prev = s.old, !.old = 0]

\* The history of interrupted modes: the hardware remembers two of them.
PushSaved == IF saved = <<>> THEN <<sr.cur>> ELSE <<sr.cur, saved[1]>>

Handler == IF sr.bev THEN BootHandler ELSE GeneralHandler

JumpTargets == {t \in Word : t % 4 = 0 /\ t \div Segment = next_pc \div Segment}

-----------------------------------------------------------------------------
(* Parts of cpu_run_next_instruction.                                      *)

\* The prologue: remember what is executed, and whether it is in a slot.
Begin == /\ ~halted
         /\ current_pc' = pc
         /\ delay_slot' = branch
         /\ UNCHANGED halted

Fetch == Begin /\ pc % 4 = 0

Sequential == /\ branch' = FALSE
              /\ pc' = next_pc
              /\ next_pc' = Add(next_pc, 4)

Jump(target) == /\ branch' = TRUE
                /\ pc' = next_pc
                /\ next_pc' = target

\* The epilogue copies the output bank over the input bank.
Retire(bank) == regs' = bank /\ out_regs' = bank

\* Mutation: EPC ignores the delay slot.
cpu_exception_NoSlot(code) ==
    /\ sr' = PushMode(sr)
    /\ saved' = PushSaved
    /\ cause' = [code |-> code, bd |-> delay_slot']
    /\ epc' = current_pc'
    /\ pc' = Handler
    /\ next_pc' = Add(Handler, 4)
    /\ branch' = FALSE

cpu_exception(code) ==
    /\ sr' = PushMode(sr)
    /\ saved' = PushSaved
    /\ cause' = [code |-> code, bd |-> delay_slot']
    /\ epc' = IF delay_slot' THEN (current_pc' - 4) % WordMod ELSE current_pc'
    /\ pc' = Handler
    /\ next_pc' = Add(Handler, 4)
    /\ branch' = FALSE

\* An instruction that raises an exception and does nothing else.
Trap(code) == /\ Fetch
              /\ cpu_exception(code)
              /\ Retire(Committed)
              /\ load' = NoLoad

-----------------------------------------------------------------------------
(* Instructions.                                                           *)

\* A fetch from an unaligned PC traps before the pending load is committed.
MisalignedFetch ==
    /\ Begin
    /\ pc % 4 # 0
    /\ badvaddr' = pc
    /\ cpu_exception("LoadAddressError")
    /\ UNCHANGED <<regs, out_regs, load>>

\* Logic, shifts, set-on-less-than, unsigned arithmetic, LUI, MFHI, MFLO;
\* v is the result.
OpCompute(d, v) ==
    /\ Fetch
    /\ Sequential
    /\ Retire(SetReg(Committed, d, v))
    /\ load' = NoLoad
    /\ UNCHANGED cop0

\* Instructions that leave the general registers alone: MULT, DIV, MTHI...
\* and a store that reaches memory or is dropped by the isolated cache.
OpNoResult ==
    /\ Fetch
    /\ Sequential
    /\ Retire(Committed)
    /\ load' = NoLoad
    /\ UNCHANGED cop0

\* Mutation: the wrapped sum is written although the addition traps.
OpTrappingAdd_Writes(d, v) ==
    \/ OpCompute(d, v)
    \/ /\ Fetch
       /\ cpu_exception("Overflow")
       /\ Retire(SetReg(Committed, d, v))
       /\ load' = NoLoad
       /\ UNCHANGED badvaddr

\* ADD, ADDI and SUB write their result or trap, never both.
OpTrappingAdd(d, v) ==
    \/ OpCompute(d, v)
    \/ Trap("Overflow") /\ UNCHANGED badvaddr

\* Mutation: the value read is visible to the next instruction.
OpLoad_Immediate(t, addr, size, v) ==
    \/ /\ addr % size = 0
       /\ Fetch
       /\ Sequential
       /\ Retire(SetReg(Committed, t, v))
       /\ load' = [reg |-> t, value |-> v]
       /\ UNCHANGED cop0
    \/ /\ addr % size # 0
       /\ Trap("LoadAddressError")
       /\ badvaddr' = addr

\* LB, LBU, LH, LHU, LW, and LWL and LWR with size 1 (they never trap): the
\* value read lands one instruction later.
OpLoad(t, addr, size, v) ==
    \/ /\ addr % size = 0
       /\ Fetch
       /\ Sequential
       /\ Retire(Committed)
       /\ load' = [reg |-> t, value |-> v]
       /\ UNCHANGED cop0
    \/ /\ addr % size # 0
       /\ Trap("LoadAddressError")
       /\ badvaddr' = addr

\* SB, SH, SW, and SWL and SWR with size 1.
OpStore(addr, size) ==
    \/ addr % size = 0 /\ OpNoResult
    \/ addr % size # 0 /\ Trap("StoreAddressError") /\ badvaddr' = addr

\* Every jump and branch: the flag is set whether or not it is taken, and
\* the return address goes to register d (0 when the instruction links none).
OpJump(d, target) ==
    /\ Fetch
    /\ Jump(target)
    /\ Retire(SetReg(Committed, d, Add(next_pc, 4)))
    /\ load' = NoLoad
    /\ UNCHANGED cop0

\* BEQ, BNE, BLEZ, BGTZ (d = 0), BLTZ[AL] and BGEZ[AL]: an untaken branch
\* falls through to the instruction after its slot.
OpBranch(d, taken, offset) ==
    OpJump(d, IF taken THEN Add(next_pc, offset) ELSE Add(next_pc, 4))

\* JR (d = 0) and JALR jump to the value of s in the input bank.
OpJumpRegister(d, s) == OpJump(d, regs[s])

\* MTC0 to SR; writes of zero to the other registers are OpNoResult.
OpMtc0(status) ==
    /\ Fetch
    /\ Sequential
    /\ Retire(Committed)
    /\ load' = NoLoad
    /\ sr' = status
    /\ saved' = <<>>
    /\ UNCHANGED <<cause, epc, badvaddr>>

\* MFC0 delivers SR, Cause (words of Values here) or EPC like a load.
OpMfc0(t, v) ==
    /\ Fetch
    /\ Sequential
    /\ Retire(Committed)
    /\ load' = [reg |-> t, value |-> v]
    /\ UNCHANGED cop0

OpRfe ==
    /\ Fetch
    /\ Sequential
    /\ Retire(Committed)
    /\ load' = NoLoad
    /\ sr' = PopMode(sr)
    /\ saved' = IF saved = <<>> THEN saved ELSE Tail(saved)
    /\ UNCHANGED <<cause, epc, badvaddr>>

\* SYSCALL, BREAK, an unusable coprocessor, an unknown opcode.
OpTrap(code) == Trap(code) /\ UNCHANGED badvaddr

\* An unmapped bus address, a GTE instruction, an unsupported COP0 register.
Abort == /\ ~halted
         /\ pc % 4 = 0
         /\ halted' = TRUE
         /\ UNCHANGED <<control, regs, out_regs, load, cop0>>

-----------------------------------------------------------------------------
(* Register writes of the GDB server, between two instructions.            *)

\* Mutation: the write misses the output bank.
DebugSetReg_OneBank(r, v) ==
    /\ ~halted
    /\ r # 0
    /\ regs' = [regs EXCEPT ![r] = v]
    /\ UNCHANGED <<out_regs, control, load, cop0, halted>>

DebugSetReg(r, v) ==
    /\ ~halted
    /\ r # 0
    /\ regs' = [regs EXCEPT ![r] = v]
    /\ out_regs' = [out_regs EXCEPT ![r] = v]
    /\ UNCHANGED <<control, load, cop0, halted>>

\* Mutation: the write leaves a pending branch pending.
DebugSetPc_KeepsBranch(v) ==
    /\ ~halted
    /\ v % 4 = 0
    /\ pc' = v
    /\ next_pc' = Add(v, 4)
    /\ current_pc' = v
    /\ delay_slot' = FALSE
    /\ UNCHANGED <<branch, regs, out_regs, load, cop0, halted>>

DebugSetPc(v) ==
    /\ ~halted
    /\ v % 4 = 0
    /\ pc' = v
    /\ next_pc' = Add(v, 4)
    /\ current_pc' = v
    /\ branch' = FALSE
    /\ delay_slot' = FALSE
    /\ UNCHANGED <<regs, out_regs, load, cop0, halted>>

DebugSetSr(status) ==
    /\ ~halted
    /\ sr' = status
    /\ saved' = <<>>
    /\ UNCHANGED <<control, regs, out_regs, load, cause, epc, badvaddr, halted>>

DebugSetCause(c) ==
    /\ ~halted
    /\ cause' = c
    /\ UNCHANGED <<control, regs, out_regs, load, sr, epc, badvaddr, saved, halted>>

DebugSetBadVAddr(v) ==
    /\ ~halted
    /\ badvaddr' = v
    /\ UNCHANGED <<control, regs, out_regs, load, sr, cause, epc, saved, halted>>

-----------------------------------------------------------------------------
Init ==
    /\ pc = ResetPc /\ next_pc = Add(ResetPc, 4) /\ current_pc = 0
    /\ branch = FALSE /\ delay_slot = FALSE
    /\ regs = [r \in Regs |-> IF r = 0 THEN 0 ELSE Poison]
    /\ out_regs = regs
    /\ load = NoLoad
    /\ sr = [cur |-> 0, prev |-> 0, old |-> 0, bev |-> FALSE]
    /\ cause = [code |-> "None", bd |-> FALSE]
    /\ epc = 0 /\ badvaddr = 0
    /\ halted = FALSE
    /\ saved = <<>>

Instruction ==
    \/ MisalignedFetch
    \/ \E d \in Regs, v \in Values : OpCompute(d, v) \/ OpTrappingAdd(d, v)
    \/ OpNoResult
    \/ \E t \in Regs, addr \in Addresses, size \in {1, 2, 4}, v \in Values :
          OpLoad(t, addr, size, v)
    \/ \E addr \in Addresses, size \in {1, 2, 4} : OpStore(addr, size)
    \/ \E d \in {0, Link}, t \in JumpTargets : OpJump(d, t)
    \/ \E d \in {0, Link}, taken \in BOOLEAN, o \in Offsets : OpBranch(d, taken, o)
    \/ \E d, s \in Regs : OpJumpRegister(d, s)
    \/ \E status \in StatusWords : OpMtc0(status)
    \/ \E t \in Regs, v \in Values \cup {epc} : OpMfc0(t, v)
    \/ OpRfe
    \/ \E code \in TrapCodes : OpTrap(code)
    \/ Abort

DebugWrite ==
    \/ \E r \in Regs, v \in Values : DebugSetReg(r, v)
    \/ \E v \in Addresses : DebugSetPc(v)
    \/ \E status \in StatusWords : DebugSetSr(status)
    \/ \E c \in DebugCauses : DebugSetCause(c)
    \/ \E v \in Values : DebugSetBadVAddr(v)

Next == Instruction \/ DebugWrite

Spec == Init /\ [][Next]_vars

-----------------------------------------------------------------------------
(* Properties.                                                             *)

\* Every variable keeps its type; in particular every address wraps to a word.
TypeOK ==
    /\ {pc, next_pc, current_pc, epc, badvaddr} \subseteq Word
    /\ {branch, delay_slot, halted} \subseteq BOOLEAN
    /\ regs \in [Regs -> Word] /\ out_regs \in [Regs -> Word]
    /\ load \in [reg : Regs, value : Word]
    /\ sr \in StatusWords
    /\ cause \in CauseWords
    /\ saved \in Seq(Modes) /\ Len(saved) <= 2

\* Between two instructions the input and the output bank hold the same words,
\* also after a trap, an unaligned fetch or a debugger's register write, and
\* $zero is zero: otherwise an instruction would read a stale operand.
BanksAgree == regs = out_regs /\ regs[0] = 0

\* The pre-incremented program counter is coherent: unless a branch is pending
\* the next two fetches are consecutive, and after a branch that is not itself
\* in a delay slot the next fetch is its slot.  Exceptions and the debugger's
\* PC writes cancel a pending branch.
FetchOrder ==
    /\ ~branch => next_pc = Add(pc, 4)
    /\ branch /\ ~delay_slot => pc = Add(current_pc, 4)

\* SR's mode stack remembers the two innermost modes that exceptions have
\* interrupted and RFE has not restored yet, in the order they were entered.
ModeStackHonest ==
    /\ Len(saved) >= 1 => sr.prev = saved[1]
    /\ Len(saved) = 2 => sr.old = saved[2]

\* An exception (only exceptions write EPC) is precise: the instruction that
\* raised it wrote no register, and a load in flight has landed or is still
\* in flight.
PreciseExceptions ==
    [][epc' # epc =>
        /\ \A r \in Regs \ {load.reg} : regs'[r] = regs[r]
        /\ \/ regs'[load.reg] = IF load.reg = 0 THEN 0 ELSE load.value
           \/ load' = load]_vars

\* EPC is where execution has to restart: the instruction that trapped, or,
\* with Cause.BD set, the branch whose delay slot it was in.
RestartPoint ==
    [][epc' # epc =>
        /\ cause'.bd = branch
        /\ ~branch => epc' = pc
        /\ branch /\ ~delay_slot => epc' = current_pc]_vars

\* Loads are delayed: a step that puts a load in flight changes no register
\* but the target of the load that was in flight before it.
DelayedLoads ==
    [][load'.reg # 0 /\ load' # load =>
        \A r \in Regs \ {load.reg} : regs'[r] = regs[r]]_vars

=============================================================================
