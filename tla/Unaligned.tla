----------------------------- MODULE Unaligned -----------------------------
(***************************************************************************)
(* A word at any address, as programs read and write it with the pairs LWL,*)
(* LWR and SWL, SWR (src/src/cpu/cpu.c).  Each instruction moves a part of *)
(* the word; the first load of a pair is still in flight when the second   *)
(* merges with it.  One action is one instruction, with the two register   *)
(* banks and the load in flight as in Cpu; the register t is the one that  *)
(* all of them use, and the word is four bytes of any base.  Of the status *)
(* register it has the bit that isolates the cache, which drops stores.    *)
(* The debugger writes nothing between these instructions.                 *)
(***************************************************************************)
EXTENDS Integers, Sequences, FiniteSets

CONSTANTS
    Base,       \* 2^8: the values of a byte
    MemorySize,             \* bytes of memory, a multiple of 4
    InitialMemory,          \* what memory and the register hold at first
    InitialRegister,
    MaxInstructions         \* bound: length of the program

Bytes == 0 .. Base - 1

\* The factor of a shift by n bytes.
Power(n) == <<1, Base, Base * Base, Base * Base * Base, Base * Base * Base * Base>>[n + 1]

FourBytesMod == Power(4)
FourBytes == 0 .. FourBytesMod - 1

Parameters ==
    /\ Base \in Nat /\ Base > 1
    /\ MemorySize \in Nat /\ MemorySize % 4 = 0 /\ MemorySize > 4
    /\ InitialMemory \in [0 .. MemorySize - 1 -> Bytes]
    /\ InitialRegister \in FourBytes
    /\ MaxInstructions \in Nat

ASSUME UnalignedAssumption == Parameters

ByteAddresses == 0 .. MemorySize - 1

VARIABLES
    memory,         \* [ByteAddresses -> Bytes]
    reg, out_reg,   \* register t in the input bank and in the output bank
    in_flight,      \* [pending, value]: the load in flight to t
    isolated,       \* bit 16 of sr: the cache is isolated
    recent          \* history: the instructions executed, newest first

pvars == <<memory, reg, out_reg, in_flight, isolated, recent>>

NoneInFlight == [pending |-> FALSE, value |-> 0]

\* The output bank once the load in flight is committed.
OutputValue == IF in_flight.pending THEN in_flight.value ELSE out_reg

Aligned(addr) == addr - (addr % 4)    \* addr & ~3u

\* The bytes from addr on as a word, the first as the lowest.
WordAt(mem, addr) ==
    mem[addr] + Base * (mem[addr + 1] + Base * (mem[addr + 2] + Base * mem[addr + 3]))

ByteOf(word, n) == (word \div Power(n)) % Base

\* A word at an aligned address replaced.
StoreWord(addr, word) ==
    [a \in ByteAddresses |-> IF a \in addr .. addr + 3 THEN ByteOf(word, a - addr) ELSE memory[a]]

\* The word without its n lowest bytes, and only these.
High(word, n) == word - (word % Power(n))
Low(word, n) == word % Power(n)

ShiftLeft(word, n) == (word * Power(n)) % FourBytesMod

ShiftRight(word, n) == word \div Power(n)

-----------------------------------------------------------------------------
(* The four merges, by addr & 3. *)

MergeLeft(current, word, n) == Low(current, 3 - n) + ShiftLeft(word, 3 - n)

MergeRight(current, word, n) == High(current, 4 - n) + ShiftRight(word, n)

\* Mutation: the register is shifted one byte too far.
MergeStoreLeft_OffByOne(current, v, n) == High(current, n + 1) + ShiftRight(v, 4 - n)

MergeStoreLeft(current, v, n) == High(current, n + 1) + ShiftRight(v, 3 - n)

MergeStoreRight(current, v, n) == Low(current, n) + ShiftLeft(v, n)

-----------------------------------------------------------------------------
PairInit ==
    /\ memory = InitialMemory
    /\ reg = InitialRegister /\ out_reg = InitialRegister
    /\ in_flight = NoneInFlight /\ isolated = FALSE
    /\ recent = << >>

Remember(instruction) ==
    Len(recent) < MaxInstructions /\ recent' = <<instruction>> \o recent

\* Mutation: the register as the instructions before see it, without the load
\* that is in flight.
MergedWith_InputBank == reg

\* LWL and LWR merge with the output bank, which has the load in flight.
MergedWith == OutputValue

\* The aligned word that an address is in.
WordThere(addr) == WordAt(memory, Aligned(addr))

LoadPart(op, addr, merged) ==
    /\ in_flight' = [pending |-> TRUE, value |-> merged]
    /\ out_reg' = OutputValue /\ reg' = OutputValue
    /\ Remember(<<op, addr>>)
    /\ UNCHANGED <<memory, isolated>>

op_lwl(addr) == LoadPart("lwl", addr, MergeLeft(MergedWith, WordThere(addr), addr % 4))
op_lwr(addr) == LoadPart("lwr", addr, MergeRight(MergedWith, WordThere(addr), addr % 4))

\* A store does nothing while the cache is isolated; a load does not ask.
cpu_store(addr, word) ==
    IF isolated THEN UNCHANGED memory ELSE memory' = StoreWord(addr, word)

\* Stores read the input bank, in which the load in flight is not yet.
StorePart(op, addr, merged) ==
    /\ cpu_store(Aligned(addr), merged)
    /\ in_flight' = NoneInFlight
    /\ out_reg' = OutputValue /\ reg' = OutputValue
    /\ Remember(<<op, addr>>)
    /\ UNCHANGED isolated

op_swl(addr) == StorePart("swl", addr, MergeStoreLeft(WordThere(addr), reg, addr % 4))
op_swr(addr) == StorePart("swr", addr, MergeStoreRight(WordThere(addr), reg, addr % 4))

\* An instruction that does not use t, and one that computes t.
Other(v) ==
    /\ in_flight' = NoneInFlight
    /\ out_reg' = v /\ reg' = v
    /\ Remember(<<"other", 0>>)
    /\ UNCHANGED <<memory, isolated>>

\* MTC0 to the status register.
op_mtc0(value) ==
    /\ isolated' = value
    /\ in_flight' = NoneInFlight
    /\ out_reg' = OutputValue /\ reg' = OutputValue
    /\ Remember(<<"mtc0", 0>>)
    /\ UNCHANGED memory

Ended == Len(recent) = MaxInstructions /\ UNCHANGED pvars

PairNext ==
    \/ \E addr \in ByteAddresses : op_lwl(addr) \/ op_lwr(addr) \/ op_swl(addr) \/ op_swr(addr)
    \/ \E v \in {OutputValue, InitialRegister} : Other(v)
    \/ \E value \in BOOLEAN : op_mtc0(value)
    \/ Ended

PairSpec == PairInit /\ [][PairNext]_pvars

-----------------------------------------------------------------------------
(* Properties *)

\* Some word of memory, aligned or not.
WordAddresses == 0 .. MemorySize - 4

\* The last two instructions were the pair of these for the word at addr, in
\* either order.
JustPaired(left, right, addr) ==
    /\ Len(recent) >= 2
    /\ {recent[1], recent[2]} = {<<left, addr + 3>>, <<right, addr>>}

\* LWL and LWR of a word next to each other, in either order, leave exactly the
\* word at that address, although the first is in flight when the second runs.
PairLoadsWord ==
    \A addr \in WordAddresses :
        JustPaired("lwl", "lwr", addr) => OutputValue = WordAt(memory, addr)

\* SWL and SWR next to each other, in either order, store the register, when no
\* load to it was in flight before them and the cache is not isolated.
PairStoresWord ==
    LET LoadBefore == Len(recent) >= 3 /\ recent[3][1] \in {"lwl", "lwr"} IN
    \A addr \in WordAddresses :
        JustPaired("swl", "swr", addr) /\ ~LoadBefore /\ ~isolated
            => WordAt(memory, addr) = reg

=============================================================================
