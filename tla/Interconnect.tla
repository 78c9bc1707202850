---------------------------- MODULE Interconnect ----------------------------
(***************************************************************************)
(* The memory map of src/src/memory/interconnect.c as the CPU sees it      *)
(* (load and store) and as GDB sees it (examine and deposit, behind the m  *)
(* and M packets of gdb_server.c).  A 32-bit address is its upper three    *)
(* bits, seg, and the rest, off.  A value is the sequence of its bytes,    *)
(* least significant first, so that narrowing it keeps a prefix.  What the *)
(* devices do with a store is the subject of Dma and Gpu: here their       *)
(* registers have fixed contents, and a DMA store may leave anything in    *)
(* RAM.                                                                    *)
(***************************************************************************)
EXTENDS Integers, Sequences

CONSTANTS
    RamSize, BiosSize,  \* RAM_SIZE, BIOS_SIZE
    Bios,               \* bios->data
    DmaWords,           \* what the DMA registers hold
    GpuStatus,          \* gpu_status
    Data,               \* the bytes that stores and DMA transfers write
    Addrs,              \* the addresses that the CPU accesses and GDB reads
    WriteAddrs,         \* those that GDB writes to
    MaxLength           \* bound: bytes of an M packet

Byte == 0..255
SegSize == 536870912    \* 2^29
Addresses == [seg : 0..7, off : 0..(SegSize - 1)]
Widths == {1, 2, 4}     \* AccessWidth

\* The offsets of DMA registers: base, block control and channel control of
\* seven channels, the control and the interrupt register.
DmaRegisters == {o \in 0..127 : o % 16 \in {0, 4} \/ (o % 16 = 8 /\ o < 112)}

ASSUME InterconnectAssumption ==
    /\ RamSize \in Nat /\ RamSize > 0 /\ RamSize % 4 = 0 /\ RamSize <= 520093696
    /\ BiosSize \in Nat /\ BiosSize > 0 /\ BiosSize % 4 = 0 /\ BiosSize <= 4194304
    /\ Bios \in [0..(BiosSize - 1) -> Byte]
    /\ DmaWords \in [DmaRegisters -> [1..4 -> Byte]]
    /\ GpuStatus \in [1..4 -> Byte]
    /\ Data \subseteq Byte
    /\ Addrs \subseteq Addresses /\ WriteAddrs \subseteq Addresses
    /\ MaxLength \in Nat /\ MaxLength <= RamSize

VARIABLES
    ram,
    running,    \* FALSE after exit(EXIT_FAILURE)
    packet,     \* the M packet being handled
    reply,      \* history: the answer to it, until the CPU runs again
    before      \* history: RAM when the packet came, or after the CPU's last access

vars == <<ram, running, packet, reply, before>>

RamContents == [0..(RamSize - 1) -> Data]

-----------------------------------------------------------------------------
(* Addresses and regions.                                                  *)

\* KSEG0 and KSEG1 mirror the first segment.
mask_region(addr) ==
    IF addr.seg \in {4, 5} THEN [addr EXCEPT !.seg = 0] ELSE addr

\* addr + n, modulo 2^32.
Plus(addr, n) ==
    IF addr.off + n < SegSize THEN [addr EXCEPT !.off = @ + n]
    ELSE [seg |-> (addr.seg + 1) % 8, off |-> addr.off + n - SegSize]

Region(device, seg, start, size) ==
    [device |-> device, seg |-> seg, start |-> start, size |-> size]

MEMORY_MAP ==
  << Region("BIOS",         0, 532676608, BiosSize),  \* 1fc00000
     Region("MEMCONTROL",   0, 528486400, 36),        \* 1f801000
     Region("RAM",          0, 0,         RamSize),
     Region("RAMSIZE",      0, 528486496, 4),         \* 1f801060
     Region("IRQCONTROL",   0, 528486512, 8),         \* 1f801070
     Region("DMA",          0, 528486528, 128),       \* 1f801080
     Region("GPU",          0, 528488464, 8),         \* 1f801810
     Region("CDROM",        0, 528488448, 4),         \* 1f801800
     Region("CACHECONTROL", 7, 536740144, 4),         \* fffe0130
     Region("SPU",          0, 528489472, 640),       \* 1f801c00
     Region("TIMERS",       0, 528486656, 48),        \* 1f801100
     Region("EXPANSION_1",  0, 520093696, 524288),    \* 1f000000
     Region("EXPANSION_2",  0, 528490496, 66) >>      \* 1f802000

\* The regions that have no load function, and those that have no store one.
WriteOnly == {"MEMCONTROL", "RAMSIZE", "CACHECONTROL", "EXPANSION_2"}
ReadOnly == {"BIOS", "EXPANSION_1"}

\* Mutation: the width of the access does not count.
memory_region_contains_NoWidth(region, addr, width) ==
    /\ addr.seg = region.seg
    /\ addr.off >= region.start
    /\ addr.off - region.start <= region.size

memory_region_contains(region, addr, width) ==
    /\ addr.seg = region.seg
    /\ addr.off >= region.start
    /\ addr.off - region.start <= region.size - width

\* The regions that a physical access may go to: the first one is taken.
Hits(addr, width) ==
    {i \in DOMAIN MEMORY_MAP : memory_region_contains(MEMORY_MAP[i], addr, width)}

Route(addr, width) ==
    MEMORY_MAP[CHOOSE i \in Hits(addr, width) : \A j \in Hits(addr, width) : i <= j]

-----------------------------------------------------------------------------
(* interconnect_load.  << >> is an access that ends the program (load,     *)
(* store) or is refused (examine).                                         *)

Bytes(memory, offset, width) == [k \in 1..width |-> memory[offset + k - 1]]
Fill(byte, width) == [k \in 1..width |-> byte]

RegionLoad(device, offset, width) ==
    CASE device = "BIOS" -> Bytes(Bios, offset, width)
      [] device = "RAM" -> Bytes(ram, offset, width)
      [] device \in {"IRQCONTROL", "SPU", "TIMERS"} -> Fill(0, width)
      [] device = "EXPANSION_1" -> Fill(255, width)
      [] device = "DMA" /\ width = 4 /\ offset \in DmaRegisters -> DmaWords[offset]
      [] device = "GPU" /\ width = 4 ->
            IF offset = 0 THEN Fill(0, 4) ELSE GpuStatus
      [] device = "CDROM" /\ width = 1 -> Fill(IF offset = 0 THEN 24 ELSE 0, 1)
      [] OTHER -> << >>

interconnect_load(addr, width) ==
    LET physical == mask_region(addr)
        region == Route(physical, width)
    IN  IF addr.off % width = 0 /\ Hits(physical, width) # {} /\ region.device \notin WriteOnly
        THEN RegionLoad(region.device, physical.off - region.start, width)
        ELSE << >>

-----------------------------------------------------------------------------
(* interconnect_store.                                                     *)

Expansion1Base == <<0, 0, 0, 31>>       \* 1f000000
Expansion2Base == <<0, 32, 128, 31>>    \* 1f802000

\* Does the device take the value?  If not, the program ends.
Accepts(device, offset, width, value) ==
    CASE device = "MEMCONTROL" ->
            /\ width = 4
            /\ offset = 0 => value = Expansion1Base
            /\ offset = 4 => value = Expansion2Base
      [] device = "DMA" -> width = 4 /\ offset \in DmaRegisters
      [] device \in {"GPU", "CACHECONTROL"} -> width = 4
      [] device = "CDROM" -> width = 1
      [] OTHER -> TRUE

\* The devices that also end the program over what they are told to do.
Demanding == {"DMA", "GPU"}

\* ram_store
Stored(memory, offset, value, width) ==
    [o \in DOMAIN memory |-> IF o \in offset..(offset + width - 1)
                             THEN value[o - offset + 1] ELSE memory[o]]

\* RAM after a store that the device takes; a DMA register may start a
\* transfer that writes to RAM.
RamAfter(device, offset, value, width) ==
    CASE device = "RAM" -> {Stored(ram, offset, value, width)}
      [] device = "DMA" -> {ram} \cup RamContents
      [] OTHER -> {ram}

-----------------------------------------------------------------------------
(* interconnect_examine and interconnect_deposit.                          *)

Between(addr, first, limit) ==
    addr.seg = 0 /\ addr.off >= first /\ addr.off < limit

\* Mutation: the bytes of a register are counted from its first one.
Narrowed_FirstByte(word, addr, width) ==
    IF (addr.off % 4) + width <= 4 THEN [k \in 1..width |-> word[k]] ELSE << >>

\* The bytes of a register word that an access of this width asks for.
Narrowed(word, addr, width) ==
    LET first == addr.off % 4
    IN  IF first + width <= 4 THEN [k \in 1..width |-> word[first + k]] ELSE << >>

Aligned(offset) == offset - (offset % 4)

\* Device registers as GDB sees them, without their side effects.
ExamineDevice(addr, width) ==
    IF Between(addr, 528486528, 528486656)
    THEN LET register == Aligned(addr.off - 528486528)
         IN  IF register \in DmaRegisters
             THEN Narrowed(DmaWords[register], addr, width) ELSE << >>
    ELSE IF Between(addr, 528488464, 528488472)
    THEN Narrowed(IF Aligned(addr.off - 528488464) = 0 THEN Fill(0, 4) ELSE GpuStatus,
                  addr, width)
    ELSE IF Between(addr, 528488448, 528488452)
    THEN IF width = 1 THEN Fill(IF addr.off = 528488448 THEN 24 ELSE 0, 1) ELSE << >>
    ELSE IF \/ Between(addr, 528486512, 528486520)
            \/ Between(addr, 528486656, 528486704)
            \/ Between(addr, 528489472, 528490112)
    THEN Fill(0, width)
    ELSE IF Between(addr, 520093696, 520617984) THEN Fill(255, width) ELSE << >>

ExaminePhysical(addr, width) ==
    IF Between(addr, 0, RamSize) /\ addr.off <= RamSize - width
    THEN Bytes(ram, addr.off, width)
    ELSE IF /\ addr.seg = 0
            /\ addr.off >= 532676608
            /\ addr.off - 532676608 <= BiosSize - width
    THEN Bytes(Bios, addr.off - 532676608, width)
    ELSE ExamineDevice(addr, width)

interconnect_examine(addr, width) ==
    IF addr.off % width = 0 THEN ExaminePhysical(mask_region(addr), width) ELSE << >>

CanDeposit(addr, width) ==
    /\ addr.off % width = 0
    /\ Between(mask_region(addr), 0, RamSize)
    /\ mask_region(addr).off <= RamSize - width

-----------------------------------------------------------------------------
(* The CPU's accesses.                                                     *)

Idle == [step |-> "none", addr |-> [seg |-> 0, off |-> 0], data |-> << >>, i |-> 0]

Load(addr, width) ==
    /\ running /\ packet = Idle
    /\ running' = (interconnect_load(addr, width) # << >>)
    /\ reply' = "none" /\ before' = ram
    /\ UNCHANGED <<ram, packet>>

Store(addr, width, value) ==
    LET physical == mask_region(addr)
        region == Route(physical, width)
        offset == physical.off - region.start
        handled == /\ addr.off % width = 0
                   /\ Hits(physical, width) # {}
                   /\ region.device \notin ReadOnly
                   /\ Accepts(region.device, offset, width, value)
    IN  /\ running /\ packet = Idle
        /\ IF handled THEN ram' \in RamAfter(region.device, offset, value, width)
           ELSE UNCHANGED ram
        /\ running' \in IF handled /\ region.device \in Demanding THEN BOOLEAN ELSE {handled}
        /\ reply' = "none" /\ before' = ram'
        /\ UNCHANGED packet

-----------------------------------------------------------------------------
(* handle_memory_write: the M packet, byte by byte.                        *)

BadHex == -1  \* a byte of the packet that is not two hexadecimal digits

MemoryWrite(addr, data) ==
    /\ running /\ packet = Idle
    /\ packet' = [step |-> "validate", addr |-> addr, data |-> data, i |-> 0]
    /\ before' = ram
    /\ reply' = "none"
    /\ UNCHANGED <<ram, running>>

Answer(text) == packet' = Idle /\ reply' = text

\* Mutation: only the digits are validated before the first byte is written.
Validate_DigitsOnly ==
    /\ packet.step = "validate"
    /\ IF packet.i = Len(packet.data)
       THEN packet' = [packet EXCEPT !.step = "deposit", !.i = 0] /\ UNCHANGED reply
       ELSE IF packet.data[packet.i + 1] = BadHex
       THEN Answer("E03")
       ELSE packet' = [packet EXCEPT !.i = @ + 1] /\ UNCHANGED reply
    /\ UNCHANGED <<ram, running, before>>

Validate ==
    LET target == mask_region(Plus(packet.addr, packet.i))
    IN  /\ packet.step = "validate"
        /\ IF packet.i = Len(packet.data)
           THEN packet' = [packet EXCEPT !.step = "deposit", !.i = 0] /\ UNCHANGED reply
           ELSE IF ~Between(target, 0, RamSize) \/ packet.data[packet.i + 1] = BadHex
           THEN Answer("E03")
           ELSE packet' = [packet EXCEPT !.i = @ + 1] /\ UNCHANGED reply
        /\ UNCHANGED <<ram, running, before>>

Deposit ==
    LET target == Plus(packet.addr, packet.i)
    IN  /\ packet.step = "deposit"
        /\ IF packet.i = Len(packet.data)
           THEN Answer("OK") /\ UNCHANGED ram
           ELSE IF ~CanDeposit(target, 1)
           THEN Answer("E03") /\ UNCHANGED ram
           ELSE /\ ram' = Stored(ram, mask_region(target).off,
                                 Fill(packet.data[packet.i + 1], 1), 1)
                /\ packet' = [packet EXCEPT !.i = @ + 1]
                /\ UNCHANGED reply
        /\ UNCHANGED <<running, before>>

-----------------------------------------------------------------------------
Init ==
    /\ ram \in RamContents  \* garbage
    /\ running = TRUE
    /\ packet = Idle
    /\ reply = "none"
    /\ before = ram

Packets == UNION {[1..n -> Data \cup {BadHex}] : n \in 0..MaxLength}

Access ==
    \E addr \in Addrs, width \in Widths :
        \/ Load(addr, width)
        \/ \E value \in [1..width -> Data] : Store(addr, width, value)

Next ==
    \/ Access
    \/ \E addr \in WriteAddrs, data \in Packets : MemoryWrite(addr, data)
    \/ Validate \/ Deposit

Spec == Init /\ [][Next]_vars

-----------------------------------------------------------------------------
(* Properties.                                                             *)

Progress == [step : {"none", "validate", "deposit"}, addr : Addresses,
             data : Seq(Data \cup {BadHex}), i : Nat]

\* RAM holds bytes and the packet is within its bounds.
TypeOK ==
    /\ ram \in [0..(RamSize - 1) -> Byte]
    /\ before \in [0..(RamSize - 1) -> Byte]
    /\ running \in BOOLEAN
    /\ packet \in Progress
    /\ packet.i <= Len(packet.data) /\ Len(packet.data) <= MaxLength
    /\ reply \in {"none", "OK", "E03"}

\* The table may be searched in any order, and a device is given no byte
\* beyond its end: an access, of any width at any address, is within at most
\* one region, and one to RAM or BIOS within its array.
RoutesSound ==
    \A addr \in Addrs, width \in Widths :
        LET physical == mask_region(addr)
            hits == Hits(physical, width)
            offsets(i) == {physical.off - MEMORY_MAP[i].start + k : k \in 0..(width - 1)}
        IN  /\ \A i, j \in hits : i = j
            /\ \A i \in hits :
                  /\ MEMORY_MAP[i].device = "RAM" => offsets(i) \subseteq DOMAIN ram
                  /\ MEMORY_MAP[i].device = "BIOS" => offsets(i) \subseteq DOMAIN Bios

\* GDB's view, written apart from the table (interconnect.c:626), shows what
\* a load by the CPU would return wherever a load returns, also when GDB reads
\* byte by byte what the CPU has to load as a word (gdb_server.c:274).
ExamineAgreesWithLoad ==
    \A addr \in Addrs, width \in Widths :
        LET value == interconnect_load(addr, width)
        IN  value # << >> =>
              /\ interconnect_examine(addr, width) = value
              /\ \A k \in 1..width :
                    interconnect_examine(Plus(addr, k - 1), 1) = Fill(value[k], 1)

\* A memory write of GDB is done as a whole or not at all: refused, it has
\* left RAM alone, acknowledged, exactly its bytes have changed, and the CPU
\* and GDB both read them.
MemoryWriteAllOrNothing ==
    /\ packet.step = "validate" => ram = before
    /\ reply = "E03" => ram = before
    /\ packet.step = "deposit" =>
         /\ \A k \in 0..(Len(packet.data) - 1) :
               LET target == Plus(packet.addr, k) IN
               /\ CanDeposit(target, 1)
               /\ k < packet.i =>
                    /\ interconnect_examine(target, 1) = Fill(packet.data[k + 1], 1)
                    /\ interconnect_load(target, 1) = Fill(packet.data[k + 1], 1)
         /\ \A o \in 0..(RamSize - 1) :
               ram[o] # before[o] =>
                 \E k \in 0..(packet.i - 1) : o = mask_region(Plus(packet.addr, k)).off

=============================================================================
