------------------------- MODULE InterconnectProofs -------------------------
(* Theorems about the memory map, for every address and any size of RAM.   *)
(* The prover must not meet an interval with a bound like 536870911: the   *)
(* value of SegSize is therefore a fact of its own.                        *)
EXTENDS Interconnect, TLAPS

-----------------------------------------------------------------------------
(* The table.                                                              *)

LEMMA TableSize == DOMAIN MEMORY_MAP = 1..13
  BY SMT DEF MEMORY_MAP

LEMMA TableFacts ==
    /\ MEMORY_MAP[1] = Region("BIOS", 0, 532676608, BiosSize)
    /\ MEMORY_MAP[2] = Region("MEMCONTROL", 0, 528486400, 36)
    /\ MEMORY_MAP[3] = Region("RAM", 0, 0, RamSize)
    /\ MEMORY_MAP[4] = Region("RAMSIZE", 0, 528486496, 4)
    /\ MEMORY_MAP[5] = Region("IRQCONTROL", 0, 528486512, 8)
    /\ MEMORY_MAP[6] = Region("DMA", 0, 528486528, 128)
    /\ MEMORY_MAP[7] = Region("GPU", 0, 528488464, 8)
    /\ MEMORY_MAP[8] = Region("CDROM", 0, 528488448, 4)
    /\ MEMORY_MAP[9] = Region("CACHECONTROL", 7, 536740144, 4)
    /\ MEMORY_MAP[10] = Region("SPU", 0, 528489472, 640)
    /\ MEMORY_MAP[11] = Region("TIMERS", 0, 528486656, 48)
    /\ MEMORY_MAP[12] = Region("EXPANSION_1", 0, 520093696, 524288)
    /\ MEMORY_MAP[13] = Region("EXPANSION_2", 0, 528490496, 66)
  BY SMT DEF MEMORY_MAP

LEMMA Fields ==
    ASSUME NEW device, NEW seg, NEW start, NEW size
    PROVE  /\ Region(device, seg, start, size).device = device
           /\ Region(device, seg, start, size).seg = seg
           /\ Region(device, seg, start, size).start = start
           /\ Region(device, seg, start, size).size = size
  BY SMT DEF Region

LEMMA SegSizeNat == SegSize \in Nat
  BY SMT DEF SegSize

LEMMA SegSizeValue == SegSize = 536870912
  BY SMT DEF SegSize

LEMMA AddressParts ==
    ASSUME NEW a \in Addresses
    PROVE  a.seg \in 0..7 /\ a.off \in Nat /\ a.off < SegSize
  BY SegSizeNat, SMT DEF Addresses

\* What region i of the table takes, with its device.
Takes(i, device, seg, start, size, a, w) ==
    /\ MEMORY_MAP[i].device = device
    /\ MEMORY_MAP[i].start = start
    /\ a.seg = seg /\ a.off >= start /\ a.off + w <= start + size

LEMMA InRegion ==
    ASSUME NEW a \in Addresses, NEW w \in Widths, NEW i,
           NEW device, NEW seg, NEW start \in Nat, NEW size \in Nat,
           MEMORY_MAP[i] = Region(device, seg, start, size),
           memory_region_contains(MEMORY_MAP[i], a, w)
    PROVE  Takes(i, device, seg, start, size, a, w)
  <1> DEFINE r == MEMORY_MAP[i]
  <1>1. /\ r.device = device
        /\ r.seg = seg /\ r.start = start /\ r.size = size
    BY Fields, SMT
  <1>2. a.off \in Nat /\ w \in Nat
    BY AddressParts, SMT DEF Widths
  <1>3. a.seg = r.seg /\ a.off >= r.start /\ a.off - r.start <= r.size - w
    BY SMT DEF memory_region_contains
  <1> HIDE DEF r
  <1>4. a.seg = seg /\ a.off >= start /\ a.off + w <= start + size
    BY <1>1, <1>2, <1>3, SMT
  <1> QED
    BY <1>1, <1>4, SMT DEF Takes, r

\* The accesses that each region takes.
LEMMA ContainsFacts ==
    ASSUME NEW a \in Addresses, NEW w \in Widths, NEW i \in Hits(a, w)
    PROVE  /\ i \in 1..13
           /\ i = 1 => Takes(1, "BIOS", 0, 532676608, BiosSize, a, w)
           /\ i = 2 => Takes(2, "MEMCONTROL", 0, 528486400, 36, a, w)
           /\ i = 3 => Takes(3, "RAM", 0, 0, RamSize, a, w)
           /\ i = 4 => Takes(4, "RAMSIZE", 0, 528486496, 4, a, w)
           /\ i = 5 => Takes(5, "IRQCONTROL", 0, 528486512, 8, a, w)
           /\ i = 6 => Takes(6, "DMA", 0, 528486528, 128, a, w)
           /\ i = 7 => Takes(7, "GPU", 0, 528488464, 8, a, w)
           /\ i = 8 => Takes(8, "CDROM", 0, 528488448, 4, a, w)
           /\ i = 9 => Takes(9, "CACHECONTROL", 7, 536740144, 4, a, w)
           /\ i = 10 => Takes(10, "SPU", 0, 528489472, 640, a, w)
           /\ i = 11 => Takes(11, "TIMERS", 0, 528486656, 48, a, w)
           /\ i = 12 => Takes(12, "EXPANSION_1", 0, 520093696, 524288, a, w)
           /\ i = 13 => Takes(13, "EXPANSION_2", 0, 528490496, 66, a, w)
  <1>1. i \in 1..13 /\ memory_region_contains(MEMORY_MAP[i], a, w)
    BY TableSize, SMT DEF Hits
  <1>2. RamSize \in Nat /\ BiosSize \in Nat
    BY InterconnectAssumption, SMT
  <1>3. ASSUME i = 1 PROVE Takes(1, "BIOS", 0, 532676608, BiosSize, a, w)
    BY <1>1, <1>2, <1>3, TableFacts, InRegion, SMT
  <1>4. ASSUME i = 2 PROVE Takes(2, "MEMCONTROL", 0, 528486400, 36, a, w)
    BY <1>1, <1>2, <1>4, TableFacts, InRegion, SMT
  <1>5. ASSUME i = 3 PROVE Takes(3, "RAM", 0, 0, RamSize, a, w)
    BY <1>1, <1>2, <1>5, TableFacts, InRegion, SMT
  <1>6. ASSUME i = 4 PROVE Takes(4, "RAMSIZE", 0, 528486496, 4, a, w)
    BY <1>1, <1>2, <1>6, TableFacts, InRegion, SMT
  <1>7. ASSUME i = 5 PROVE Takes(5, "IRQCONTROL", 0, 528486512, 8, a, w)
    BY <1>1, <1>2, <1>7, TableFacts, InRegion, SMT
  <1>8. ASSUME i = 6 PROVE Takes(6, "DMA", 0, 528486528, 128, a, w)
    BY <1>1, <1>2, <1>8, TableFacts, InRegion, SMT
  <1>9. ASSUME i = 7 PROVE Takes(7, "GPU", 0, 528488464, 8, a, w)
    BY <1>1, <1>2, <1>9, TableFacts, InRegion, SMT
  <1>10. ASSUME i = 8 PROVE Takes(8, "CDROM", 0, 528488448, 4, a, w)
    BY <1>1, <1>2, <1>10, TableFacts, InRegion, SMT
  <1>11. ASSUME i = 9 PROVE Takes(9, "CACHECONTROL", 7, 536740144, 4, a, w)
    BY <1>1, <1>2, <1>11, TableFacts, InRegion, SMT
  <1>12. ASSUME i = 10 PROVE Takes(10, "SPU", 0, 528489472, 640, a, w)
    BY <1>1, <1>2, <1>12, TableFacts, InRegion, SMT
  <1>13. ASSUME i = 11 PROVE Takes(11, "TIMERS", 0, 528486656, 48, a, w)
    BY <1>1, <1>2, <1>13, TableFacts, InRegion, SMT
  <1>14. ASSUME i = 12 PROVE Takes(12, "EXPANSION_1", 0, 520093696, 524288, a, w)
    BY <1>1, <1>2, <1>14, TableFacts, InRegion, SMT
  <1>15. ASSUME i = 13 PROVE Takes(13, "EXPANSION_2", 0, 528490496, 66, a, w)
    BY <1>1, <1>2, <1>15, TableFacts, InRegion, SMT
  <1> QED
    BY <1>1, <1>3, <1>4, <1>5, <1>6, <1>7, <1>8,
       <1>9, <1>10, <1>11, <1>12, <1>13, <1>14, <1>15, SMT

\* No access is within two regions.
LEMMA OneRegion ==
    ASSUME NEW a \in Addresses, NEW w \in Widths,
           NEW i \in Hits(a, w), NEW j \in Hits(a, w)
    PROVE  i = j
  <1>1. a.off \in Nat /\ w \in Nat /\ w >= 1
    BY AddressParts, SMT DEF Widths
  <1>2. RamSize \in Nat /\ BiosSize \in Nat /\ RamSize <= 520093696
    BY InterconnectAssumption, SMT
  <1>3. i \in 1..13 /\ j \in 1..13
    BY ContainsFacts, SMT
  <1>4. ASSUME i = 1 PROVE i = j
    BY <1>1, <1>2, <1>3, <1>4, ContainsFacts, SMT DEF Takes
  <1>5. ASSUME i = 2 PROVE i = j
    BY <1>1, <1>2, <1>3, <1>5, ContainsFacts, SMT DEF Takes
  <1>6. ASSUME i = 3 PROVE i = j
    BY <1>1, <1>2, <1>3, <1>6, ContainsFacts, SMT DEF Takes
  <1>7. ASSUME i = 4 PROVE i = j
    BY <1>1, <1>2, <1>3, <1>7, ContainsFacts, SMT DEF Takes
  <1>8. ASSUME i = 5 PROVE i = j
    BY <1>1, <1>2, <1>3, <1>8, ContainsFacts, SMT DEF Takes
  <1>9. ASSUME i = 6 PROVE i = j
    BY <1>1, <1>2, <1>3, <1>9, ContainsFacts, SMT DEF Takes
  <1>10. ASSUME i = 7 PROVE i = j
    BY <1>1, <1>2, <1>3, <1>10, ContainsFacts, SMT DEF Takes
  <1>11. ASSUME i = 8 PROVE i = j
    BY <1>1, <1>2, <1>3, <1>11, ContainsFacts, SMT DEF Takes
  <1>12. ASSUME i = 9 PROVE i = j
    BY <1>1, <1>2, <1>3, <1>12, ContainsFacts, SMT DEF Takes
  <1>13. ASSUME i = 10 PROVE i = j
    BY <1>1, <1>2, <1>3, <1>13, ContainsFacts, SMT DEF Takes
  <1>14. ASSUME i = 11 PROVE i = j
    BY <1>1, <1>2, <1>3, <1>14, ContainsFacts, SMT DEF Takes
  <1>15. ASSUME i = 12 PROVE i = j
    BY <1>1, <1>2, <1>3, <1>15, ContainsFacts, SMT DEF Takes
  <1>16. ASSUME i = 13 PROVE i = j
    BY <1>1, <1>2, <1>3, <1>16, ContainsFacts, SMT DEF Takes
  <1> QED
    BY <1>3, <1>4, <1>5, <1>6, <1>7, <1>8, <1>9,
       <1>10, <1>11, <1>12, <1>13, <1>14, <1>15, <1>16, SMT

LEMMA RouteOf ==
    ASSUME NEW a \in Addresses, NEW w \in Widths, NEW i \in Hits(a, w)
    PROVE  Route(a, w) = MEMORY_MAP[i]
  <1>1. i \in Int
    BY ContainsFacts, SMT
  <1>2. \A j \in Hits(a, w) : j = i
    BY OneRegion, SMT
  <1> DEFINE first == CHOOSE k \in Hits(a, w) : \A j \in Hits(a, w) : k <= j
  <1>3. \E k \in Hits(a, w) : \A j \in Hits(a, w) : k <= j
    BY <1>1, <1>2, SMT
  <1>4. first \in Hits(a, w)
    BY <1>3, Zenon
  <1>5. first = i
    BY <1>2, <1>4, Zenon
  <1> QED
    BY <1>5, Zenon DEF Route

-----------------------------------------------------------------------------
(* Addresses.                                                              *)

LEMMA Masked ==
    ASSUME NEW a \in Addresses
    PROVE  mask_region(a) \in Addresses /\ mask_region(a).off = a.off
  BY SMT DEF mask_region, Addresses

\* The bytes of an aligned access do not leave its segment.
LEMMA ByteOf ==
    ASSUME NEW a \in Addresses, NEW w \in Widths, a.off % w = 0, NEW k \in 1..w
    PROVE  /\ Plus(a, k - 1) \in Addresses
           /\ mask_region(Plus(a, k - 1)) \in Addresses
           /\ mask_region(Plus(a, k - 1)).seg = mask_region(a).seg
           /\ Plus(a, k - 1).off = a.off + k - 1
           /\ mask_region(Plus(a, k - 1)).off = mask_region(a).off + k - 1
           /\ Plus(a, k - 1).off % 1 = 0
  <1>1. a.off \in Nat /\ a.off < SegSize /\ SegSize \in Nat
    BY AddressParts, SegSizeNat, SMT
  <1>2. w \in {1, 2, 4} /\ k \in Nat /\ k >= 1 /\ k <= w
    BY SMT DEF Widths
  <1>3. a.off + k - 1 < SegSize
    <2>1. CASE w = 1
      BY <1>1, <1>2, <2>1, SMT
    <2>2. CASE w = 2
      BY <1>1, <1>2, <2>2, SegSizeValue, SMT
    <2>3. CASE w = 4
      BY <1>1, <1>2, <2>3, SegSizeValue, SMT
    <2> QED
      BY <1>2, <2>1, <2>2, <2>3, SMT
  <1>4. Plus(a, k - 1) = [a EXCEPT !.off = a.off + (k - 1)]
    BY <1>1, <1>2, <1>3, SMT DEF Plus
  <1>5. /\ Plus(a, k - 1) \in Addresses
        /\ Plus(a, k - 1).off = a.off + k - 1
        /\ Plus(a, k - 1).seg = a.seg
    BY <1>1, <1>2, <1>3, <1>4, SMT DEF Addresses
  <1>6. mask_region(Plus(a, k - 1)).seg = mask_region(a).seg
    BY <1>5, SMT DEF mask_region, Addresses
  <1>7. /\ mask_region(Plus(a, k - 1)) \in Addresses
        /\ mask_region(Plus(a, k - 1)).off = a.off + k - 1
    BY <1>5, Masked, SMT
  <1>8. Plus(a, k - 1).off % 1 = 0
    BY <1>1, <1>2, <1>5, SMT
  <1> QED
    BY <1>5, <1>6, <1>7, <1>8, Masked, SMT

-----------------------------------------------------------------------------
(* GDB's view of each readable region.                                     *)

\* The access p as a whole and, at q, its byte k - 1 bytes further on.
SameByte(p, q, w, k) ==
    /\ p \in Addresses /\ q \in Addresses /\ w \in Widths /\ k \in 1..w
    /\ p.off % w = 0 /\ q.seg = p.seg /\ q.off = p.off + k - 1

Agree(p, q, w, k, value) ==
    ExaminePhysical(p, w) = value /\ ExaminePhysical(q, 1) = Fill(value[k], 1)

LEMMA ParameterFacts ==
    /\ RamSize \in Nat /\ RamSize <= 520093696 /\ RamSize > 0
    /\ BiosSize \in Nat /\ BiosSize > 0
  BY InterconnectAssumption, SMT

LEMMA SameByteFacts ==
    ASSUME NEW p, NEW q, NEW w, NEW k, SameByte(p, q, w, k)
    PROVE  /\ p.off \in Nat /\ q.off \in Nat /\ w \in {1, 2, 4} /\ k \in Nat
           /\ k >= 1 /\ k <= w /\ k \in 1..w /\ q.seg = p.seg /\ q.off = p.off + k - 1
           /\ p.off % w = 0
  BY AddressParts, SMT DEF SameByte, Widths

LEMMA RegionLoads ==
    ASSUME NEW o, NEW w
    PROVE  /\ RegionLoad("BIOS", o, w) = Bytes(Bios, o, w)
           /\ RegionLoad("RAM", o, w) = Bytes(ram, o, w)
           /\ RegionLoad("IRQCONTROL", o, w) = Fill(0, w)
           /\ RegionLoad("SPU", o, w) = Fill(0, w)
           /\ RegionLoad("TIMERS", o, w) = Fill(0, w)
           /\ RegionLoad("EXPANSION_1", o, w) = Fill(255, w)
  <1>1. RegionLoad("BIOS", o, w) = Bytes(Bios, o, w)
    BY Zenon DEF RegionLoad
  <1>2. RegionLoad("RAM", o, w) = Bytes(ram, o, w)
    BY Zenon DEF RegionLoad
  <1>3. RegionLoad("IRQCONTROL", o, w) = Fill(0, w)
    BY Zenon DEF RegionLoad
  <1>4. RegionLoad("SPU", o, w) = Fill(0, w)
    BY Zenon DEF RegionLoad
  <1>5. RegionLoad("TIMERS", o, w) = Fill(0, w)
    BY Zenon DEF RegionLoad
  <1>6. RegionLoad("EXPANSION_1", o, w) = Fill(255, w)
    BY Zenon DEF RegionLoad
  <1> QED
    BY <1>1, <1>2, <1>3, <1>4, <1>5, <1>6, Zenon

LEMMA RegisterLoads ==
    ASSUME NEW o, NEW w
    PROVE  /\ RegionLoad("DMA", o, w) # << >> =>
                 w = 4 /\ o \in DmaRegisters /\ RegionLoad("DMA", o, w) = DmaWords[o]
           /\ RegionLoad("GPU", o, w) # << >> =>
                 w = 4 /\ RegionLoad("GPU", o, w) = IF o = 0 THEN Fill(0, 4) ELSE GpuStatus
           /\ RegionLoad("CDROM", o, w) # << >> =>
                 w = 1 /\ RegionLoad("CDROM", o, w) = Fill(IF o = 0 THEN 24 ELSE 0, 1)
  <1>1. RegionLoad("DMA", o, w) # << >> =>
           w = 4 /\ o \in DmaRegisters /\ RegionLoad("DMA", o, w) = DmaWords[o]
    BY Zenon DEF RegionLoad
  <1>2. RegionLoad("GPU", o, w) # << >> =>
           w = 4 /\ RegionLoad("GPU", o, w) = IF o = 0 THEN Fill(0, 4) ELSE GpuStatus
    BY Zenon DEF RegionLoad
  <1>3. RegionLoad("CDROM", o, w) # << >> =>
           w = 1 /\ RegionLoad("CDROM", o, w) = Fill(IF o = 0 THEN 24 ELSE 0, 1)
    BY Zenon DEF RegionLoad
  <1> QED
    BY <1>1, <1>2, <1>3, Zenon

LEMMA AgreeRam ==
    ASSUME NEW p, NEW q, NEW w, NEW k, SameByte(p, q, w, k),
           Takes(3, "RAM", 0, 0, RamSize, p, w)
    PROVE  Agree(p, q, w, k, RegionLoad("RAM", p.off - 0, w))
  <1>a. /\ p.seg = 0 /\ p.off >= 0 /\ p.off < RamSize /\ p.off <= RamSize - w
        /\ q.seg = 0 /\ q.off >= 0 /\ q.off < RamSize /\ q.off <= RamSize - 1
    BY SameByteFacts, ParameterFacts, SMT DEF Takes
  <1>b. ExaminePhysical(p, w) = Bytes(ram, p.off, w)
    BY <1>a, SMT DEF ExaminePhysical, Between
  <1>c. ExaminePhysical(q, 1) = Bytes(ram, q.off, 1)
    BY <1>a, SMT DEF ExaminePhysical, Between
  <1>1. ExaminePhysical(p, w) = Bytes(ram, p.off, w) /\ ExaminePhysical(q, 1) = Bytes(ram, q.off, 1)
    BY <1>b, <1>c, SMT
  <1>2. Bytes(ram, q.off, 1) = Fill(Bytes(ram, p.off, w)[k], 1)
    BY SameByteFacts, SMT DEF Bytes, Fill
  <1>3. p.off - 0 = p.off
    BY SameByteFacts, SMT
  <1> QED
    BY <1>1, <1>2, <1>3, RegionLoads, SMT DEF Agree

LEMMA AgreeBios ==
    ASSUME NEW p, NEW q, NEW w, NEW k, SameByte(p, q, w, k),
           Takes(1, "BIOS", 0, 532676608, BiosSize, p, w)
    PROVE  Agree(p, q, w, k, RegionLoad("BIOS", p.off - 532676608, w))
  <1> DEFINE o == p.off - 532676608
  <1>1. ExaminePhysical(p, w) = Bytes(Bios, o, w)
    BY SameByteFacts, ParameterFacts, SMT DEF Takes, ExaminePhysical, Between
  <1>2. ExaminePhysical(q, 1) = Bytes(Bios, q.off - 532676608, 1)
    BY SameByteFacts, ParameterFacts, SMT DEF Takes, ExaminePhysical, Between
  <1>3. Bytes(Bios, q.off - 532676608, 1) = Fill(Bytes(Bios, o, w)[k], 1)
    BY SameByteFacts, SMT DEF Bytes, Fill
  <1> QED
    BY <1>1, <1>2, <1>3, RegionLoads, SMT DEF Agree

\* The devices whose registers read as one byte repeated.
LEMMA AgreeFill ==
    ASSUME NEW p, NEW q, NEW w, NEW k, SameByte(p, q, w, k),
           NEW i, NEW device, NEW start \in Nat, NEW size \in Nat, NEW byte,
           Takes(i, device, 0, start, size, p, w),
           \A a \in Addresses, v \in Widths :
              Takes(i, device, 0, start, size, a, v) => ExaminePhysical(a, v) = Fill(byte, v)
    PROVE  Agree(p, q, w, k, Fill(byte, w))
  <1>1. q \in Addresses /\ p \in Addresses /\ w \in Widths /\ 1 \in Widths
    BY SMT DEF SameByte, Widths
  <1>2. Takes(i, device, 0, start, size, q, 1)
    BY SameByteFacts, SMT DEF Takes
  <1>3. ExaminePhysical(p, w) = Fill(byte, w) /\ ExaminePhysical(q, 1) = Fill(byte, 1)
    BY <1>1, <1>2, SMT
  <1>4. Fill(byte, w)[k] = byte
    BY SameByteFacts, SMT DEF Fill
  <1> QED
    BY <1>3, <1>4, SMT DEF Agree

LEMMA PhysicalFacts ==
    ASSUME NEW a \in Addresses, NEW v \in Widths
    PROVE  a.off \in Nat /\ v \in Nat /\ v >= 1
  BY AddressParts, SMT DEF Widths

LEMMA FillOf ==
    ASSUME NEW a \in Addresses, NEW v \in Widths
    PROVE  /\ Takes(5, "IRQCONTROL", 0, 528486512, 8, a, v) => ExaminePhysical(a, v) = Fill(0, v)
           /\ Takes(10, "SPU", 0, 528489472, 640, a, v) => ExaminePhysical(a, v) = Fill(0, v)
           /\ Takes(11, "TIMERS", 0, 528486656, 48, a, v) => ExaminePhysical(a, v) = Fill(0, v)
           /\ Takes(12, "EXPANSION_1", 0, 520093696, 524288, a, v) =>
                 ExaminePhysical(a, v) = Fill(255, v)
  <1>1. Takes(5, "IRQCONTROL", 0, 528486512, 8, a, v) => ExaminePhysical(a, v) = Fill(0, v)
    BY PhysicalFacts, ParameterFacts, SMT DEF Takes, ExaminePhysical, ExamineDevice, Between
  <1>2. Takes(10, "SPU", 0, 528489472, 640, a, v) => ExaminePhysical(a, v) = Fill(0, v)
    BY PhysicalFacts, ParameterFacts, SMT DEF Takes, ExaminePhysical, ExamineDevice, Between
  <1>3. Takes(11, "TIMERS", 0, 528486656, 48, a, v) => ExaminePhysical(a, v) = Fill(0, v)
    BY PhysicalFacts, ParameterFacts, SMT DEF Takes, ExaminePhysical, ExamineDevice, Between
  <1>4. Takes(12, "EXPANSION_1", 0, 520093696, 524288, a, v) => ExaminePhysical(a, v) = Fill(255, v)
    BY PhysicalFacts, ParameterFacts, SMT DEF Takes, ExaminePhysical, ExamineDevice, Between
  <1> QED
    BY <1>1, <1>2, <1>3, <1>4, SMT


\* A byte of a register's word.
LEMMA OneByte ==
    ASSUME NEW word, NEW q, q.off \in Nat
    PROVE  Narrowed(word, q, 1) = Fill(word[(q.off % 4) + 1], 1)
  <1> DEFINE first == q.off % 4
  <1>1. first + 1 <= 4 /\ first \in Nat
    BY SMT
  <1>2. Narrowed(word, q, 1) = [n \in 1..1 |-> word[first + n]]
    BY <1>1, Zenon DEF Narrowed
  <1>3. [n \in 1..1 |-> word[first + n]] = [n \in 1..1 |-> word[first + 1]]
    BY <1>1, SMT
  <1> QED
    BY <1>2, <1>3, Zenon DEF Fill

LEMMA WholeWord ==
    ASSUME NEW word, word = [n \in 1..4 |-> word[n]], NEW a, a.off % 4 = 0
    PROVE  Narrowed(word, a, 4) = word
  <1> DEFINE first == a.off % 4
  <1>1. first + 4 <= 4
    BY SMT
  <1>2. Narrowed(word, a, 4) = [n \in 1..4 |-> word[first + n]]
    BY <1>1, Zenon DEF Narrowed
  <1>3. \A n \in 1..4 : first + n = n
    BY SMT
  <1>4. [n \in 1..4 |-> word[first + n]] = [n \in 1..4 |-> word[n]]
    BY <1>3, Zenon
  <1> QED
    BY <1>2, <1>4, Zenon

\* Byte k of the word at x is at y, in a device that begins at start.
ByteAt(x, y, k, start) ==
    /\ x \in Nat /\ y \in Nat /\ k \in 1..4 /\ start \in Nat
    /\ x % 4 = 0 /\ y = x + k - 1 /\ start % 4 = 0 /\ start <= x

\* The register that it belongs to.
LEMMA AlignedTo ==
    ASSUME NEW x, NEW y, NEW k, NEW start, ByteAt(x, y, k, start)
    PROVE  /\ Aligned(x - start) = x - start /\ Aligned(y - start) = x - start
           /\ y % 4 = k - 1
  <1>1. (x - start) % 4 = 0 /\ x - start \in Nat
    BY SMT DEF ByteAt
  <1>2. (y - start) % 4 = k - 1 /\ y - start \in Nat
    BY <1>1, SMT DEF ByteAt
  <1>3. y % 4 = k - 1
    BY SMT DEF ByteAt
  <1> QED
    BY <1>1, <1>2, <1>3, SMT DEF Aligned, ByteAt

LEMMA RegisterWords ==
    /\ \A r \in DmaRegisters : /\ DOMAIN DmaWords[r] = 1..4
                               /\ DmaWords[r] = [n \in 1..4 |-> DmaWords[r][n]]
    /\ DOMAIN GpuStatus = 1..4 /\ GpuStatus = [n \in 1..4 |-> GpuStatus[n]]
    /\ DOMAIN Fill(0, 4) = 1..4 /\ Fill(0, 4) = [n \in 1..4 |-> Fill(0, 4)[n]]
  <1>1. DmaWords \in [DmaRegisters -> [1..4 -> Byte]] /\ GpuStatus \in [1..4 -> Byte]
    BY InterconnectAssumption, SMT
  <1>2. DOMAIN Fill(0, 4) = 1..4 /\ Fill(0, 4) = [n \in 1..4 |-> Fill(0, 4)[n]]
    BY SMT DEF Fill
  <1> QED
    BY <1>1, <1>2, SMT

LEMMA AgreeDma ==
    ASSUME NEW p, NEW q, NEW w, NEW k, SameByte(p, q, w, k),
           Takes(6, "DMA", 0, 528486528, 128, p, w),
           RegionLoad("DMA", p.off - 528486528, w) # << >>
    PROVE  Agree(p, q, w, k, RegionLoad("DMA", p.off - 528486528, w))
  <1>1. w = 4 /\ p.off - 528486528 \in DmaRegisters
    BY RegisterLoads, SMT
  <1>a. p.off % 4 = 0
    BY <1>1, SameByteFacts, SMT
  <1>2. /\ p.off \in Nat /\ q.off \in Nat /\ k \in 1..4
        /\ q.seg = p.seg /\ q.off = p.off + k - 1
    BY <1>1, SameByteFacts, SMT
  <1>3. p.seg = 0 /\ p.off >= 528486528 /\ p.off + 4 <= 528486656
    BY <1>1, <1>2, SMT DEF Takes
  <1>4. q.seg = 0 /\ q.off >= 528486528 /\ q.off < 528486656 /\ p.off < 528486656
    BY <1>2, <1>3, SMT
  <1>5. ByteAt(p.off, q.off, k, 528486528)
    BY <1>a, <1>2, <1>3, SMT DEF ByteAt
  <1>b. q.off % 4 = k - 1
    BY <1>5, AlignedTo, SMT
  <1>6. /\ Aligned(p.off - 528486528) = p.off - 528486528
        /\ Aligned(q.off - 528486528) = p.off - 528486528
    BY <1>5, AlignedTo, SMT
  <1>7. PICK word : word = DmaWords[p.off - 528486528]
    BY SMT
  <1>f. ~(p.off < RamSize) /\ ~(p.off >= 532676608) /\ ~(q.off < RamSize) /\ ~(q.off >= 532676608)
    BY <1>2, <1>3, <1>4, ParameterFacts, SMT
  <1>c. ExaminePhysical(p, 4) = ExamineDevice(p, 4)
    BY <1>f, SMT DEF ExaminePhysical, Between
  <1>d. ExaminePhysical(q, 1) = ExamineDevice(q, 1)
    BY <1>f, SMT DEF ExaminePhysical, Between
  <1>g. Between(p, 528486528, 528486656) /\ Between(q, 528486528, 528486656)
    BY <1>2, <1>3, <1>4, SMT DEF Between
  <1>8. ExamineDevice(p, 4) = Narrowed(word, p, 4)
    BY <1>1, <1>6, <1>g, <1>7, SMT DEF ExamineDevice
  <1>9. ExamineDevice(q, 1) = Narrowed(word, q, 1)
    BY <1>1, <1>6, <1>g, <1>7, SMT DEF ExamineDevice
  <1>10. DOMAIN word = 1..4 /\ word = [n \in 1..4 |-> word[n]]
    BY <1>1, <1>7, RegisterWords, SMT
  <1>e. Narrowed(word, p, 4) = word
    BY <1>a, <1>10, WholeWord, SMT
  <1>h. q.off \in Nat
    BY <1>2, SMT
  <1>i. Narrowed(word, q, 1) = Fill(word[(q.off % 4) + 1], 1)
    BY <1>h, OneByte, SMT
  <1>11. Narrowed(word, q, 1) = Fill(word[k], 1)
    BY <1>2, <1>b, <1>i, SMT
  <1>12. RegionLoad("DMA", p.off - 528486528, w) = word
    BY <1>1, <1>2, <1>7, RegisterLoads, SMT
  <1> QED
    BY <1>1, <1>c, <1>d, <1>8, <1>9, <1>e, <1>11, <1>12, SMT DEF Agree

LEMMA AgreeGpu ==
    ASSUME NEW p, NEW q, NEW w, NEW k, SameByte(p, q, w, k),
           Takes(7, "GPU", 0, 528488464, 8, p, w),
           RegionLoad("GPU", p.off - 528488464, w) # << >>
    PROVE  Agree(p, q, w, k, RegionLoad("GPU", p.off - 528488464, w))
  <1>1. w = 4
    BY RegisterLoads, SMT
  <1>a. p.off % 4 = 0
    BY <1>1, SameByteFacts, SMT
  <1>2. /\ p.off \in Nat /\ q.off \in Nat /\ k \in 1..4
        /\ q.seg = p.seg /\ q.off = p.off + k - 1
    BY <1>1, SameByteFacts, SMT
  <1>3. p.seg = 0 /\ p.off >= 528488464 /\ p.off + 4 <= 528488472
    BY <1>1, <1>2, SMT DEF Takes
  <1>4. q.seg = 0 /\ q.off >= 528488464 /\ q.off < 528488472 /\ p.off < 528488472
    BY <1>2, <1>3, SMT
  <1>5. ByteAt(p.off, q.off, k, 528488464)
    BY <1>a, <1>2, <1>3, SMT DEF ByteAt
  <1>b. q.off % 4 = k - 1
    BY <1>5, AlignedTo, SMT
  <1>6. /\ Aligned(p.off - 528488464) = p.off - 528488464
        /\ Aligned(q.off - 528488464) = p.off - 528488464
    BY <1>5, AlignedTo, SMT
  <1>f. p.off >= RamSize /\ q.off >= RamSize /\ p.off < 532676608 /\ q.off < 532676608
    BY <1>2, <1>3, <1>4, ParameterFacts, SMT
  <1>c. ExaminePhysical(p, 4) = ExamineDevice(p, 4)
    BY <1>f, <1>2, ParameterFacts, SMT DEF ExaminePhysical, Between
  <1>d. ExaminePhysical(q, 1) = ExamineDevice(q, 1)
    BY <1>f, <1>2, ParameterFacts, SMT DEF ExaminePhysical, Between
  <1>g. Between(p, 528488464, 528488472) /\ Between(q, 528488464, 528488472)
    BY <1>2, <1>3, <1>4, SMT DEF Between
  <1>h. ~Between(p, 528486528, 528486656) /\ ~Between(q, 528486528, 528486656)
    BY <1>2, <1>3, <1>4, SMT DEF Between
  <1>7. PICK word : word = IF p.off - 528488464 = 0 THEN Fill(0, 4) ELSE GpuStatus
    BY SMT
  <1>l. /\ p.off - 528488464 = 0 <=> Aligned(p.off - 528488464) = 0
        /\ p.off - 528488464 = 0 <=> Aligned(q.off - 528488464) = 0
    BY <1>2, <1>6, SMT
  <1>j. /\ word = IF Aligned(p.off - 528488464) = 0 THEN Fill(0, 4) ELSE GpuStatus
        /\ word = IF Aligned(q.off - 528488464) = 0 THEN Fill(0, 4) ELSE GpuStatus
    BY <1>7, <1>l, SMT
  <1>8. ExamineDevice(p, 4) = Narrowed(word, p, 4)
    BY <1>g, <1>h, <1>j, SMT DEF ExamineDevice
  <1>9. ExamineDevice(q, 1) = Narrowed(word, q, 1)
    BY <1>g, <1>h, <1>j, SMT DEF ExamineDevice
  <1>10. DOMAIN word = 1..4 /\ word = [n \in 1..4 |-> word[n]]
    BY <1>1, <1>7, RegisterWords, SMT
  <1>e. Narrowed(word, p, 4) = word
    BY <1>a, <1>10, WholeWord, SMT
  <1>k. q.off \in Nat
    BY <1>2, SMT
  <1>i. Narrowed(word, q, 1) = Fill(word[(q.off % 4) + 1], 1)
    BY <1>k, OneByte, SMT
  <1>11. Narrowed(word, q, 1) = Fill(word[k], 1)
    BY <1>2, <1>b, <1>i, SMT
  <1>12. RegionLoad("GPU", p.off - 528488464, w) = word
    BY <1>1, <1>2, <1>7, RegisterLoads, SMT
  <1> QED
    BY <1>1, <1>c, <1>d, <1>8, <1>9, <1>e, <1>11, <1>12, SMT DEF Agree

LEMMA AgreeCdrom ==
    ASSUME NEW p, NEW q, NEW w, NEW k, SameByte(p, q, w, k),
           Takes(8, "CDROM", 0, 528488448, 4, p, w),
           RegionLoad("CDROM", p.off - 528488448, w) # << >>
    PROVE  Agree(p, q, w, k, RegionLoad("CDROM", p.off - 528488448, w))
  <1>0. p.off \in Nat
    BY SameByteFacts, SMT
  <1>1. w = 1 /\ RegionLoad("CDROM", p.off - 528488448, w) =
                   Fill(IF p.off - 528488448 = 0 THEN 24 ELSE 0, 1)
    BY <1>0, RegisterLoads, SMT
  <1>2. /\ p.off \in Nat /\ k = 1 /\ q.off = p.off /\ q.seg = p.seg
    BY <1>1, SameByteFacts, SMT
  <1>3. p.seg = 0 /\ p.off >= 528488448 /\ p.off < 528488452
    BY <1>1, <1>2, SMT DEF Takes
  <1>4. /\ ExaminePhysical(p, 1) = ExamineDevice(p, 1)
        /\ ExaminePhysical(q, 1) = ExamineDevice(q, 1)
    BY <1>2, <1>3, ParameterFacts, SMT DEF ExaminePhysical, Between
  <1>5. PICK byte : byte = IF p.off = 528488448 THEN 24 ELSE 0
    BY SMT
  <1>6. ExamineDevice(p, 1) = Fill(byte, 1) /\ ExamineDevice(q, 1) = Fill(byte, 1)
    BY <1>2, <1>3, <1>5, SMT DEF ExamineDevice, Between
  <1>7. RegionLoad("CDROM", p.off - 528488448, w) = Fill(byte, 1)
    BY <1>1, <1>2, <1>5, SMT
  <1>8. Fill(byte, 1)[k] = byte
    BY <1>2, SMT DEF Fill
  <1> QED
    BY <1>1, <1>4, <1>6, <1>7, <1>8, SMT DEF Agree

\* What GDB reads is what region i gives the CPU, if it gives anything.
LEMMA RegionAgrees ==
    ASSUME NEW p, NEW q, NEW w, NEW k, SameByte(p, q, w, k), NEW i \in Hits(p, w),
           NEW r, r = MEMORY_MAP[i], r.device \notin WriteOnly,
           NEW value, value = RegionLoad(r.device, p.off - r.start, w), value # << >>
    PROVE  Agree(p, q, w, k, value)
  <1>1. p \in Addresses /\ w \in Widths
    BY SMT DEF SameByte
  <1>2. i \in 1..13
    BY <1>1, ContainsFacts, SMT
  <1>3. ASSUME i = 1 PROVE Agree(p, q, w, k, value)
    <2>1. Takes(1, "BIOS", 0, 532676608, BiosSize, p, w)
      BY <1>1, <1>3, ContainsFacts, SMT
    <2>2. r.device = "BIOS" /\ r.start = 532676608
      BY <1>3, <2>1, SMT DEF Takes
    <2>3. value = RegionLoad("BIOS", p.off - 532676608, w)
      BY <2>2, SMT
    <2> QED
      BY <2>1, <2>3, AgreeBios, SMT
  <1>4. ASSUME i = 2 PROVE Agree(p, q, w, k, value)
    <2>1. Takes(2, "MEMCONTROL", 0, 528486400, 36, p, w)
      BY <1>1, <1>4, ContainsFacts, SMT
    <2>2. r.device = "MEMCONTROL" /\ r.start = 528486400
      BY <1>4, <2>1, SMT DEF Takes
    <2> QED
      BY <2>2, SMT DEF WriteOnly
  <1>5. ASSUME i = 3 PROVE Agree(p, q, w, k, value)
    <2>1. Takes(3, "RAM", 0, 0, RamSize, p, w)
      BY <1>1, <1>5, ContainsFacts, SMT
    <2>2. r.device = "RAM" /\ r.start = 0
      BY <1>5, <2>1, SMT DEF Takes
    <2>3. value = RegionLoad("RAM", p.off - 0, w)
      BY <2>2, SMT
    <2> QED
      BY <2>1, <2>3, AgreeRam, SMT
  <1>6. ASSUME i = 4 PROVE Agree(p, q, w, k, value)
    <2>1. Takes(4, "RAMSIZE", 0, 528486496, 4, p, w)
      BY <1>1, <1>6, ContainsFacts, SMT
    <2>2. r.device = "RAMSIZE" /\ r.start = 528486496
      BY <1>6, <2>1, SMT DEF Takes
    <2> QED
      BY <2>2, SMT DEF WriteOnly
  <1>7. ASSUME i = 5 PROVE Agree(p, q, w, k, value)
    <2>1. Takes(5, "IRQCONTROL", 0, 528486512, 8, p, w)
      BY <1>1, <1>7, ContainsFacts, SMT
    <2>2. r.device = "IRQCONTROL" /\ r.start = 528486512
      BY <1>7, <2>1, SMT DEF Takes
    <2>3. value = Fill(0, w)
      BY <2>2, RegionLoads, SMT
    <2>4. \A a \in Addresses, v \in Widths :
             Takes(5, "IRQCONTROL", 0, 528486512, 8, a, v) => ExaminePhysical(a, v) = Fill(0, v)
      BY FillOf, SMT
    <2>5. 528486512 \in Nat /\ 8 \in Nat
      BY SMT
    <2>6. Agree(p, q, w, k, Fill(0, w))
      BY <2>1, <2>4, <2>5, AgreeFill, SMT
    <2> QED
      BY <2>3, <2>6, SMT
  <1>8. ASSUME i = 6 PROVE Agree(p, q, w, k, value)
    <2>1. Takes(6, "DMA", 0, 528486528, 128, p, w)
      BY <1>1, <1>8, ContainsFacts, SMT
    <2>2. r.device = "DMA" /\ r.start = 528486528
      BY <1>8, <2>1, SMT DEF Takes
    <2>3. value = RegionLoad("DMA", p.off - 528486528, w)
      BY <2>2, SMT
    <2> QED
      BY <2>1, <2>3, AgreeDma, SMT
  <1>9. ASSUME i = 7 PROVE Agree(p, q, w, k, value)
    <2>1. Takes(7, "GPU", 0, 528488464, 8, p, w)
      BY <1>1, <1>9, ContainsFacts, SMT
    <2>2. r.device = "GPU" /\ r.start = 528488464
      BY <1>9, <2>1, SMT DEF Takes
    <2>3. value = RegionLoad("GPU", p.off - 528488464, w)
      BY <2>2, SMT
    <2> QED
      BY <2>1, <2>3, AgreeGpu, SMT
  <1>10. ASSUME i = 8 PROVE Agree(p, q, w, k, value)
    <2>1. Takes(8, "CDROM", 0, 528488448, 4, p, w)
      BY <1>1, <1>10, ContainsFacts, SMT
    <2>2. r.device = "CDROM" /\ r.start = 528488448
      BY <1>10, <2>1, SMT DEF Takes
    <2>3. value = RegionLoad("CDROM", p.off - 528488448, w)
      BY <2>2, SMT
    <2> QED
      BY <2>1, <2>3, AgreeCdrom, SMT
  <1>11. ASSUME i = 9 PROVE Agree(p, q, w, k, value)
    <2>1. Takes(9, "CACHECONTROL", 7, 536740144, 4, p, w)
      BY <1>1, <1>11, ContainsFacts, SMT
    <2>2. r.device = "CACHECONTROL" /\ r.start = 536740144
      BY <1>11, <2>1, SMT DEF Takes
    <2> QED
      BY <2>2, SMT DEF WriteOnly
  <1>12. ASSUME i = 10 PROVE Agree(p, q, w, k, value)
    <2>1. Takes(10, "SPU", 0, 528489472, 640, p, w)
      BY <1>1, <1>12, ContainsFacts, SMT
    <2>2. r.device = "SPU" /\ r.start = 528489472
      BY <1>12, <2>1, SMT DEF Takes
    <2>3. value = Fill(0, w)
      BY <2>2, RegionLoads, SMT
    <2>4. \A a \in Addresses, v \in Widths :
             Takes(10, "SPU", 0, 528489472, 640, a, v) => ExaminePhysical(a, v) = Fill(0, v)
      BY FillOf, SMT
    <2>5. 528489472 \in Nat /\ 640 \in Nat
      BY SMT
    <2>6. Agree(p, q, w, k, Fill(0, w))
      BY <2>1, <2>4, <2>5, AgreeFill, SMT
    <2> QED
      BY <2>3, <2>6, SMT
  <1>13. ASSUME i = 11 PROVE Agree(p, q, w, k, value)
    <2>1. Takes(11, "TIMERS", 0, 528486656, 48, p, w)
      BY <1>1, <1>13, ContainsFacts, SMT
    <2>2. r.device = "TIMERS" /\ r.start = 528486656
      BY <1>13, <2>1, SMT DEF Takes
    <2>3. value = Fill(0, w)
      BY <2>2, RegionLoads, SMT
    <2>4. \A a \in Addresses, v \in Widths :
             Takes(11, "TIMERS", 0, 528486656, 48, a, v) => ExaminePhysical(a, v) = Fill(0, v)
      BY FillOf, SMT
    <2>5. 528486656 \in Nat /\ 48 \in Nat
      BY SMT
    <2>6. Agree(p, q, w, k, Fill(0, w))
      BY <2>1, <2>4, <2>5, AgreeFill, SMT
    <2> QED
      BY <2>3, <2>6, SMT
  <1>14. ASSUME i = 12 PROVE Agree(p, q, w, k, value)
    <2>1. Takes(12, "EXPANSION_1", 0, 520093696, 524288, p, w)
      BY <1>1, <1>14, ContainsFacts, SMT
    <2>2. r.device = "EXPANSION_1" /\ r.start = 520093696
      BY <1>14, <2>1, SMT DEF Takes
    <2>3. value = Fill(255, w)
      BY <2>2, RegionLoads, SMT
    <2>4. \A a \in Addresses, v \in Widths :
             Takes(12, "EXPANSION_1", 0, 520093696, 524288, a, v) => ExaminePhysical(a, v) = Fill(255, v)
      BY FillOf, SMT
    <2>5. 520093696 \in Nat /\ 524288 \in Nat
      BY SMT
    <2>6. Agree(p, q, w, k, Fill(255, w))
      BY <2>1, <2>4, <2>5, AgreeFill, SMT
    <2> QED
      BY <2>3, <2>6, SMT
  <1>15. ASSUME i = 13 PROVE Agree(p, q, w, k, value)
    <2>1. Takes(13, "EXPANSION_2", 0, 528490496, 66, p, w)
      BY <1>1, <1>15, ContainsFacts, SMT
    <2>2. r.device = "EXPANSION_2" /\ r.start = 528490496
      BY <1>15, <2>1, SMT DEF Takes
    <2> QED
      BY <2>2, SMT DEF WriteOnly
  <1> QED
    BY <1>2, <1>3, <1>4, <1>5, <1>6, <1>7, <1>8,
       <1>9, <1>10, <1>11, <1>12, <1>13, <1>14, <1>15, SMT

\* A load that returns, seen by GDB as a whole and byte by byte.
LEMMA ExamineAgrees ==
    ASSUME NEW a \in Addresses, NEW w \in Widths, NEW value,
           value = interconnect_load(a, w), value # << >>, NEW k \in 1..w
    PROVE  /\ interconnect_examine(a, w) = value
           /\ interconnect_examine(Plus(a, k - 1), 1) = Fill(value[k], 1)
  <1> DEFINE p == mask_region(a)
             b == Plus(a, k - 1)
             q == mask_region(b)
  <1>1. a.off % w = 0 /\ Hits(p, w) # {} /\ Route(p, w).device \notin WriteOnly
    BY Zenon DEF interconnect_load
  <1>2. value = RegionLoad(Route(p, w).device, p.off - Route(p, w).start, w)
    BY <1>1, Zenon DEF interconnect_load
  <1>3. PICK i \in Hits(p, w) : i = i
    BY <1>1, Zenon
  <1>4. p \in Addresses /\ p.off = a.off
    BY Masked, SMT
  <1>5. Route(p, w) = MEMORY_MAP[i]
    BY <1>3, <1>4, RouteOf, SMT
  <1>6. b.off % 1 = 0 /\ q \in Addresses /\ q.seg = p.seg /\ q.off = p.off + k - 1
    BY <1>1, ByteOf, SMT
  <1>7. SameByte(p, q, w, k)
    BY <1>1, <1>4, <1>6, SMT DEF SameByte
  <1>8. Agree(p, q, w, k, value)
    <2> HIDE DEF p, q
    <2> QED
      BY <1>1, <1>2, <1>3, <1>5, <1>7, RegionAgrees, SMT
  <1>9. ExaminePhysical(p, w) = value /\ ExaminePhysical(q, 1) = Fill(value[k], 1)
    BY <1>8, Zenon DEF Agree
  <1> QED
    BY <1>1, <1>6, <1>9, Zenon DEF interconnect_examine

\* GDB's view of memory is the CPU's: at every address and for every width,
\* whenever a load by the CPU returns a value (interconnect.c:711),
\* interconnect_examine (interconnect.c:671) gives GDB the same bytes.
LEMMA ExamineAgreesState == ExamineAgreesWithLoad
  <1> SUFFICES ASSUME NEW a \in Addrs, NEW w \in Widths,
                      interconnect_load(a, w) # << >>
               PROVE  /\ interconnect_examine(a, w) = interconnect_load(a, w)
                      /\ \A k \in 1..w : interconnect_examine(Plus(a, k - 1), 1)
                                           = Fill(interconnect_load(a, w)[k], 1)
    BY Zenon DEF ExamineAgreesWithLoad
  <1>1. a \in Addresses
    BY InterconnectAssumption, SMT
  <1>2. w >= 1 /\ w \in Int
    BY SMT DEF Widths
  <1>3. 1 \in 1..w
    BY <1>2, SMT
  <1>4. \A k \in 1..w : interconnect_examine(Plus(a, k - 1), 1)
                          = Fill(interconnect_load(a, w)[k], 1)
    BY <1>1, ExamineAgrees, Zenon
  <1>5. interconnect_examine(a, w) = interconnect_load(a, w)
    BY <1>1, <1>3, ExamineAgrees, Zenon
  <1> QED
    BY <1>4, <1>5, Zenon

-----------------------------------------------------------------------------
(* The inductive invariant: what the M packet has validated so far can be  *)
(* written, and RAM differs from what it was only by what it has written.  *)

Target(k) == mask_region(Plus(packet.addr, k))

Validated(k) ==
    /\ Between(Target(k), 0, RamSize)
    /\ packet.data[k + 1] \in Data

Written ==
    /\ \A k \in 0..(packet.i - 1) : ram[Target(k).off] = packet.data[k + 1]
    /\ \A o \in 0..(RamSize - 1) :
          ram[o] # before[o] => \E k \in 0..(packet.i - 1) : o = Target(k).off

Inv ==
    /\ TypeOK
    /\ packet.data \in Seq(Data \cup {BadHex})
    /\ packet.step = "validate" =>
         ram = before /\ \A k \in 0..(packet.i - 1) : Validated(k)
    /\ packet.step = "deposit" =>
         Written /\ \A k \in 0..(Len(packet.data) - 1) : Validated(k)
    /\ packet.step # "none" => reply = "none"
    /\ reply = "E03" => ram = before

Ram == [0..(RamSize - 1) -> Byte]

LEMMA ContentsTyped == RamContents \subseteq Ram
  <1>1. Data \subseteq Byte
    BY InterconnectAssumption, SMT
  <1> QED
    BY <1>1, SMT DEF RamContents, Ram

LEMMA StoredTyped ==
    ASSUME NEW memory \in Ram, NEW offset \in Int, NEW width \in Nat,
           NEW value \in [1..width -> Byte]
    PROVE  Stored(memory, offset, value, width) \in Ram
  <1>1. \A o \in 0..(RamSize - 1) :
           o \in offset..(offset + width - 1) => o - offset + 1 \in 1..width
    BY ParameterFacts, SMT
  <1> QED
    BY <1>1, SMT DEF Stored, Ram

LEMMA PacketParts ==
    ASSUME TypeOK
    PROVE  /\ ram \in Ram /\ before \in Ram /\ packet.addr \in Addresses
           /\ packet.data \in Seq(Data \cup {BadHex}) /\ Len(packet.data) <= MaxLength
           /\ Len(packet.data) \in Nat /\ packet.i \in 0..Len(packet.data)
  BY SMT DEF TypeOK, Ram, Progress

LEMMA Added ==
    ASSUME NEW a \in Addresses, NEW n \in Nat, n < SegSize
    PROVE  /\ Plus(a, n) \in Addresses
           /\ Plus(a, n).off = IF a.off + n < SegSize THEN a.off + n
                               ELSE a.off + n - SegSize
  <1>1. a.off \in Nat /\ a.off < SegSize /\ SegSize \in Nat /\ a.seg \in 0..7
    BY AddressParts, SegSizeNat, SMT
  <1>2. CASE a.off + n < SegSize
    <2>1. Plus(a, n) = [a EXCEPT !.off = a.off + n]
      BY <1>2, SMT DEF Plus
    <2>2. a.off + n \in 0..(SegSize - 1)
      BY <1>1, <1>2, SMT
    <2> QED
      BY <1>1, <1>2, <2>1, <2>2, SMT DEF Addresses
  <1>3. CASE ~(a.off + n < SegSize)
    <2>1. Plus(a, n) = [seg |-> (a.seg + 1) % 8, off |-> a.off + n - SegSize]
      BY <1>3, SMT DEF Plus
    <2>2. a.off + n - SegSize \in 0..(SegSize - 1) /\ (a.seg + 1) % 8 \in 0..7
      BY <1>1, <1>3, SMT
    <2> QED
      BY <1>1, <1>3, <2>1, <2>2, SMT DEF Addresses
  <1> QED
    BY <1>2, <1>3, SMT

\* Bytes of a packet go to different offsets.
LEMMA Distinct ==
    ASSUME NEW a \in Addresses, NEW m \in Nat, NEW n \in Nat,
           m < SegSize, n < SegSize, m # n
    PROVE  mask_region(Plus(a, m)).off # mask_region(Plus(a, n)).off
  <1>1. a.off \in Nat /\ a.off < SegSize /\ SegSize \in Nat
    BY AddressParts, SegSizeNat, SMT
  <1> DEFINE x == Plus(a, m).off
             y == Plus(a, n).off
  <1>3. x = IF a.off + m < SegSize THEN a.off + m ELSE a.off + m - SegSize
    BY Added, SMT
  <1>4. y = IF a.off + n < SegSize THEN a.off + n ELSE a.off + n - SegSize
    BY Added, SMT
  <1> HIDE DEF x, y
  <1>5. x # y
    BY <1>1, <1>3, <1>4, SMT
  <1>2. Plus(a, m).off # Plus(a, n).off
    BY <1>5, SMT DEF x, y
  <1> QED
    BY <1>2, Added, Masked, SMT

LEMMA Bound == MaxLength \in Nat /\ MaxLength < SegSize
  BY InterconnectAssumption, SegSizeValue, SMT

LEMMA TargetFacts ==
    ASSUME TypeOK, NEW k \in 0..(Len(packet.data) - 1)
    PROVE  /\ Plus(packet.addr, k) \in Addresses /\ Target(k) \in Addresses
           /\ Target(k).off = Plus(packet.addr, k).off /\ Target(k).off \in Nat
           /\ \A n \in 0..(Len(packet.data) - 1) : n # k => Target(n).off # Target(k).off
  <1>1. Len(packet.data) \in Nat /\ Len(packet.data) < SegSize /\ packet.addr \in Addresses
    BY PacketParts, Bound, SegSizeNat, SMT
  <1>2. k \in Nat /\ k < SegSize
    BY <1>1, SegSizeNat, SMT
  <1>3. Plus(packet.addr, k) \in Addresses
    BY <1>1, <1>2, Added, SMT
  <1>4. \A n \in 0..(Len(packet.data) - 1) : n # k => Target(n).off # Target(k).off
    <2> TAKE n \in 0..(Len(packet.data) - 1)
    <2>1. n \in Nat /\ n < SegSize
      BY <1>1, SegSizeNat, SMT
    <2> QED
      BY <1>1, <1>2, <2>1, Distinct, SMT DEF Target
  <1> QED
    BY <1>3, <1>4, Masked, AddressParts, SMT DEF Target

LEMMA ZeroAddress == [seg |-> 0, off |-> 0] \in Addresses
  <1>1. SegSize \in Nat /\ SegSize > 0
    BY SegSizeNat, SegSizeValue, SMT
  <1>2. 0 \in 0..(SegSize - 1)
    BY <1>1, SMT
  <1> QED
    BY <1>2, SMT DEF Addresses

LEMMA IdleTyped == Idle \in Progress /\ Idle.i <= Len(Idle.data) /\ Len(Idle.data) <= MaxLength
  <1>1. << >> \in Seq(Data \cup {BadHex}) /\ Len(<< >>) = 0 /\ MaxLength >= 0
    BY Bound, SMT
  <1> QED
    BY <1>1, ZeroAddress, SMT DEF Idle, Progress

LEMMA InitInv == Init => Inv
  <1> SUFFICES ASSUME Init PROVE Inv
    OBVIOUS
  <1> USE DEF Init
  <1>1. ram \in Ram
    BY ContentsTyped, SMT
  <1>2. packet.step = "none" /\ packet.data = << >> /\ packet.i = 0 /\ packet.addr = [seg |-> 0, off |-> 0]
    BY SMT DEF Idle
  <1>3. [seg |-> 0, off |-> 0] \in Addresses
    BY ZeroAddress, SMT
  <1>4. << >> \in Seq(Data \cup {BadHex}) /\ Len(<< >>) = 0
    BY SMT
  <1>5. MaxLength >= 0
    BY Bound, SMT
  <1>6. TypeOK
    BY <1>1, IdleTyped, SMT DEF TypeOK, Ram
  <1> QED
    BY <1>2, <1>4, <1>6, SMT DEF Inv

\* Between packets, an access keeps the invariant if it keeps RAM's type.
LEMMA AccessInv ==
    ASSUME Inv, packet = Idle, packet' = packet, reply' = "none",
           ram' \in Ram, before' \in Ram, running' \in BOOLEAN
    PROVE  Inv'
  <1>1. packet.step = "none"
    BY SMT DEF Idle
  <1>2. TypeOK'
    BY SMT DEF Inv, TypeOK, Ram
  <1> QED
    BY <1>1, <1>2, SMT DEF Inv

LEMMA LoadInv ==
    ASSUME Inv, NEW addr, NEW width, Load(addr, width)
    PROVE  Inv'
  <1>1. ram \in Ram
    BY PacketParts, SMT DEF Inv
  <1> QED
    BY <1>1, AccessInv, SMT DEF Load

\* The region with the device RAM is the third one.
LEMMA RamRegion ==
    ASSUME NEW a \in Addresses, NEW w \in Widths, NEW i \in Hits(a, w),
           MEMORY_MAP[i].device = "RAM"
    PROVE  i = 3 /\ MEMORY_MAP[i].start = 0
  <1>1. i \in 1..13
    BY ContainsFacts, SMT
  <1>2. i = 3
    BY <1>1, TableFacts, Fields, SMT
  <1>3. Takes(3, "RAM", 0, 0, RamSize, a, w)
    BY <1>2, ContainsFacts, SMT
  <1> QED
    BY <1>2, <1>3, SMT DEF Takes

LEMMA StoreInv ==
    ASSUME Inv, NEW addr \in Addrs, NEW width \in Widths, NEW value \in [1..width -> Data],
           Store(addr, width, value)
    PROVE  Inv'
  <1> DEFINE p == mask_region(addr)
             region == Route(p, width)
             offset == p.off - region.start
  <1>1. ram \in Ram
    BY PacketParts, SMT DEF Inv
  <1>2. addr \in Addresses /\ Data \subseteq Byte
    BY InterconnectAssumption, SMT
  <1>3. value \in [1..width -> Byte] /\ width \in Nat
    BY <1>2, SMT DEF Widths
  <1>4. p \in Addresses /\ p.off \in Nat
    BY <1>2, Masked, AddressParts, SMT
  <1>a. /\ packet = Idle /\ packet' = packet /\ reply' = "none" /\ before' = ram'
    BY SMT DEF Store
  <1>b. running' \in BOOLEAN
    BY Zenon DEF Store
  <1>5. CASE UNCHANGED ram
    BY <1>1, <1>5, <1>a, <1>b, AccessInv, SMT
  <1>6. CASE Hits(p, width) # {} /\ ram' \in RamAfter(region.device, offset, value, width)
    <2>1. PICK i \in Hits(p, width) : i = i
      BY <1>6, Zenon
    <2>2. region = MEMORY_MAP[i]
      BY <1>4, <2>1, RouteOf, SMT
    <2>3. CASE region.device = "RAM"
      <3>1. region.start = 0
        BY <1>4, <2>2, <2>3, RamRegion, SMT
      <3>2. offset \in Int
        BY <1>4, <3>1, SMT
      <3>3. ram' = Stored(ram, offset, value, width)
        BY <1>6, <2>3, Zenon DEF RamAfter
      <3>4. ram' \in Ram
        BY <1>1, <1>3, <3>2, <3>3, StoredTyped, SMT
      <3> QED
        BY <3>4, <1>a, <1>b, AccessInv, SMT
    <2>4. CASE region.device # "RAM"
      <3>1. ram' \in {ram} \cup RamContents
        BY <1>6, <2>4, Zenon DEF RamAfter
      <3>2. ram' \in Ram
        BY <1>1, <3>1, ContentsTyped, SMT
      <3> QED
        BY <3>2, <1>a, <1>b, AccessInv, SMT
    <2> QED
      BY <2>3, <2>4, Zenon
  <1> QED
    BY <1>5, <1>6, Zenon DEF Store

LEMMA MemoryWriteInv ==
    ASSUME Inv, NEW addr \in WriteAddrs, NEW data \in Packets, MemoryWrite(addr, data)
    PROVE  Inv'
  <1>1. ram \in Ram /\ before \in Ram
    BY PacketParts, SMT DEF Inv
  <1>2. addr \in Addresses
    BY InterconnectAssumption, SMT
  <1>3. PICK n \in 0..MaxLength : data \in [1..n -> Data \cup {BadHex}]
    BY SMT DEF Packets
  <1>4. n \in Nat /\ n <= MaxLength
    BY <1>3, Bound, SMT
  <1>5. data \in Seq(Data \cup {BadHex}) /\ Len(data) = n
    BY <1>3, <1>4, SMT
  <1>6. /\ packet'.step = "validate" /\ packet'.addr = addr /\ packet'.data = data
        /\ packet'.i = 0 /\ before' = ram /\ reply' = "none" /\ ram' = ram /\ running' = running
    BY SMT DEF MemoryWrite
  <1>8. packet' \in Progress
    BY <1>2, <1>5, SMT DEF MemoryWrite, Progress
  <1>7. TypeOK'
    BY <1>1, <1>4, <1>5, <1>6, <1>8, SMT DEF TypeOK, Ram, Inv
  <1> QED
    BY <1>5, <1>6, <1>7, SMT DEF Inv

\* The end of a packet.
LEMMA AnswerInv ==
    ASSUME Inv, NEW text \in {"OK", "E03"}, Answer(text),
           UNCHANGED <<ram, running, before>>, text = "E03" => ram = before
    PROVE  Inv'
  <1>1. /\ packet'.step = "none" /\ packet'.data = << >> /\ packet'.i = 0
        /\ packet'.addr = [seg |-> 0, off |-> 0] /\ reply' = text
    BY SMT DEF Answer, Idle
  <1>2. << >> \in Seq(Data \cup {BadHex}) /\ Len(<< >>) = 0 /\ MaxLength >= 0
    BY Bound, SMT
  <1>3. TypeOK'
    BY <1>1, IdleTyped, SMT DEF Inv, TypeOK, Answer
  <1> QED
    BY <1>1, <1>2, <1>3, SMT DEF Inv

\* The packet moves on: only its step and its index change.
Moved(step, i) ==
    /\ packet'.step = step /\ packet'.i = i
    /\ packet'.addr = packet.addr /\ packet'.data = packet.data

LEMMA PacketAdvances ==
    ASSUME TypeOK, packet.i # Len(packet.data),
           packet' = [packet EXCEPT !.i = packet.i + 1],
           reply' = reply, running' = running, before' = before, ram' \in Ram
    PROVE  TypeOK' /\ Moved(packet.step, packet.i + 1)
  <1>1. packet.i + 1 \in Nat /\ packet.i + 1 <= Len(packet.data)
    BY PacketParts, SMT
  <1>2. packet \in Progress
    BY Zenon DEF TypeOK
  <1>3. packet' \in Progress /\ Moved(packet.step, packet.i + 1)
    BY <1>1, <1>2, SMT DEF Progress, Moved
  <1> QED
    BY <1>1, <1>3, SMT DEF TypeOK, Ram, Moved

LEMMA TwoFields ==
    ASSUME NEW r \in Progress, NEW t, t = [r EXCEPT !.step = "deposit", !.i = 0]
    PROVE  /\ t \in Progress /\ t.step = "deposit" /\ t.i = 0
           /\ t.addr = r.addr /\ t.data = r.data
  <1>1. 0 \in Nat
    BY SMT
  <1>2. t \in Progress
    BY <1>1, Zenon DEF Progress
  <1>3. t.step = "deposit" /\ t.i = 0 /\ t.addr = r.addr /\ t.data = r.data
    BY SMT DEF Progress
  <1> QED
    BY <1>2, <1>3, Zenon

LEMMA PacketValidated ==
    ASSUME TypeOK, packet' = [packet EXCEPT !.step = "deposit", !.i = 0],
           reply' = reply, running' = running, before' = before, ram' \in Ram
    PROVE  TypeOK' /\ Moved("deposit", 0)
  <1>1. 0 <= Len(packet.data)
    BY PacketParts, SMT
  <1>2. packet \in Progress
    BY Zenon DEF TypeOK
  <1>3. packet' \in Progress /\ Moved("deposit", 0)
    BY <1>2, TwoFields, Zenon DEF Moved
  <1> QED
    BY <1>1, <1>3, SMT DEF TypeOK, Ram, Moved

LEMMA ValidateInv ==
    ASSUME Inv, Validate
    PROVE  Inv'
  <1>1. /\ TypeOK /\ packet.step = "validate" /\ ram = before
        /\ \A k \in 0..(packet.i - 1) : Validated(k)
    BY SMT DEF Inv, Validate
  <1>2. UNCHANGED <<ram, running, before>>
    BY SMT DEF Validate
  <1>3. /\ ram \in Ram /\ Len(packet.data) \in Nat /\ packet.i \in 0..Len(packet.data)
        /\ packet.data \in Seq(Data \cup {BadHex})
    BY <1>1, PacketParts, SMT
  <1>4. CASE Answer("E03")
    BY <1>1, <1>2, <1>4, AnswerInv, SMT
  <1>5. CASE /\ packet.i = Len(packet.data)
             /\ packet' = [packet EXCEPT !.step = "deposit", !.i = 0] /\ reply' = reply
    <2>1. /\ TypeOK' /\ packet'.step = "deposit" /\ packet'.i = 0
          /\ packet'.addr = packet.addr /\ packet'.data = packet.data
      BY <1>1, <1>2, <1>3, <1>5, PacketValidated, SMT DEF Moved
    <2>2. \A k : Validated(k)' <=> Validated(k)
      BY <2>1, SMT DEF Validated, Target
    <2>3. Written'
      BY <1>1, <1>2, <2>1, SMT DEF Written
    <2> QED
      BY <1>1, <1>2, <1>3, <1>5, <2>1, <2>2, <2>3, SMT DEF Inv
  <1>6. CASE /\ packet.i # Len(packet.data)
             /\ Between(Target(packet.i), 0, RamSize)
             /\ packet.data[packet.i + 1] # BadHex
             /\ packet' = [packet EXCEPT !.i = packet.i + 1] /\ reply' = reply
    <2>2. packet.i + 1 \in 0..Len(packet.data)
      BY <1>3, <1>6, SMT
    <2>3. /\ TypeOK' /\ packet'.step = "validate" /\ packet'.i = packet.i + 1
          /\ packet'.addr = packet.addr /\ packet'.data = packet.data
      BY <1>1, <1>2, <1>3, <1>6, PacketAdvances, SMT DEF Moved
    <2>4. \A k : Validated(k)' <=> Validated(k)
      BY <2>3, SMT DEF Validated, Target
    <2>5. packet.data[packet.i + 1] \in Data
      BY <1>3, <1>6, <2>2, SMT
    <2>6. Validated(packet.i)
      BY <1>6, <2>5, SMT DEF Validated
    <2>7. \A k \in 0..(packet'.i - 1) : Validated(k)
      BY <1>1, <1>3, <2>3, <2>6, SMT
    <2>8. packet'.data \in Seq(Data \cup {BadHex}) /\ ram' = before'
      BY <1>1, <1>2, <1>3, <2>3, SMT
    <2>9. packet'.step = "validate" /\ reply' = "none"
      BY <1>1, <1>6, <2>3, SMT DEF Inv
    <2>10. \A k \in 0..(packet'.i - 1) : Validated(k)'
      BY <2>4, <2>7, SMT
    <2> QED
      BY <2>3, <2>8, <2>9, <2>10, SMT DEF Inv
  <1> QED
    BY <1>4, <1>5, <1>6, SMT DEF Validate, Target

LEMMA StoredByte ==
    ASSUME NEW memory \in Ram, NEW offset \in Int, NEW byte, NEW o \in 0..(RamSize - 1)
    PROVE  Stored(memory, offset, Fill(byte, 1), 1)[o] =
             IF o = offset THEN byte ELSE memory[o]
  <1>1. DOMAIN memory = 0..(RamSize - 1) /\ o \in Int
    BY ParameterFacts, SMT DEF Ram
  <1>2. o \in offset..(offset + 1 - 1) <=> o = offset
    BY <1>1, SMT
  <1>3. Stored(memory, offset, Fill(byte, 1), 1)[o] =
           IF o = offset THEN Fill(byte, 1)[o - offset + 1] ELSE memory[o]
    BY <1>1, <1>2, SMT DEF Stored
  <1>4. o = offset => o - offset + 1 = 1
    BY <1>1, SMT
  <1>5. Fill(byte, 1)[1] = byte
    BY SMT DEF Fill
  <1> QED
    BY <1>3, <1>4, <1>5, SMT

\* What has been validated can be deposited.
LEMMA ValidatedFacts ==
    ASSUME TypeOK, NEW k \in 0..(Len(packet.data) - 1), Validated(k)
    PROVE  /\ CanDeposit(Plus(packet.addr, k), 1)
           /\ Target(k).off \in 0..(RamSize - 1) /\ Target(k).seg = 0
  <1>1. Plus(packet.addr, k).off \in Nat /\ Target(k).off \in Nat
    BY TargetFacts, AddressParts, SMT
  <1>2. Target(k).seg = 0 /\ Target(k).off >= 0 /\ Target(k).off < RamSize
    BY SMT DEF Validated, Between
  <1>3. Target(k).off \in 0..(RamSize - 1) /\ Target(k).off <= RamSize - 1
    BY <1>1, <1>2, ParameterFacts, SMT
  <1>4. Plus(packet.addr, k).off % 1 = 0
    BY <1>1, SMT
  <1> QED
    BY <1>2, <1>3, <1>4, SMT DEF CanDeposit, Target, Validated

LEMMA DepositInv ==
    ASSUME Inv, Deposit
    PROVE  Inv'
  <1> DEFINE i == packet.i
  <1>1. /\ TypeOK /\ packet.step = "deposit" /\ Written
        /\ \A k \in 0..(Len(packet.data) - 1) : Validated(k)
    BY SMT DEF Inv, Deposit
  <1>2. /\ ram \in Ram /\ Len(packet.data) \in Nat /\ i \in 0..Len(packet.data)
        /\ packet.data \in Seq(Data \cup {BadHex}) /\ Data \subseteq Byte
    BY <1>1, PacketParts, InterconnectAssumption, SMT
  <1>3. running' = running /\ before' = before
    BY SMT DEF Deposit
  <1>4. CASE i = Len(packet.data) /\ Answer("OK") /\ ram' = ram
    BY <1>3, <1>4, AnswerInv, SMT
  <1>5. CASE i # Len(packet.data)
    <2>1. i \in 0..(Len(packet.data) - 1) /\ i \in Nat
      BY <1>2, <1>5, SMT
    <2>2. Validated(i)
      BY <1>1, <2>1, SMT
    <2>3. /\ CanDeposit(Plus(packet.addr, i), 1)
          /\ Target(i).off \in 0..(RamSize - 1)
      BY <1>1, <2>1, <2>2, ValidatedFacts, SMT
    <2> DEFINE byte == packet.data[i + 1]
               offset == Target(i).off
    <2>4. /\ ram' = Stored(ram, offset, Fill(byte, 1), 1)
          /\ packet' = [packet EXCEPT !.i = packet.i + 1] /\ reply' = reply
      BY <1>5, <2>3, SMT DEF Deposit, Target
    <2>5. byte \in Byte /\ offset \in Int
      BY <1>2, <2>2, <2>3, ParameterFacts, SMT DEF Validated
    <2>6. Fill(byte, 1) \in [1..1 -> Byte]
      BY <2>5, SMT DEF Fill
    <2>7. ram' \in Ram
      <3> DEFINE value == Fill(byte, 1)
      <3> HIDE DEF byte, offset, value
      <3>1. 1 \in Nat /\ value \in [1..1 -> Byte] /\ offset \in Int
        BY <2>5, <2>6, SMT DEF value
      <3>2. Stored(ram, offset, value, 1) \in Ram
        BY <1>2, <3>1, StoredTyped, Zenon
      <3> QED
        BY <2>4, <3>2, Zenon DEF value
    <2>8. TypeOK' /\ Moved("deposit", i + 1)
      BY <1>1, <1>3, <1>5, <2>4, <2>7, PacketAdvances, SMT
    <2>9. \A o \in 0..(RamSize - 1) : ram'[o] = IF o = offset THEN byte ELSE ram[o]
      BY <1>2, <2>4, <2>5, StoredByte, SMT
    <2>10. \A k : Target(k)' = Target(k) /\ (Validated(k)' <=> Validated(k))
      BY <2>8, SMT DEF Moved, Target, Validated
    <2>11. \A k \in 0..i : ram'[Target(k).off] = packet.data[k + 1]
      <3> TAKE k \in 0..i
      <3>1. k \in 0..(Len(packet.data) - 1)
        BY <1>2, <2>1, SMT
      <3>2. Target(k).off \in 0..(RamSize - 1)
        BY <1>1, <3>1, ValidatedFacts, SMT
      <3>3. CASE k = i
        BY <2>9, <3>2, <3>3, SMT
      <3>4. CASE k # i
        <4>1. Target(k).off # Target(i).off
          BY <1>1, <2>1, <3>1, <3>4, TargetFacts, SMT
        <4>2. k \in 0..(i - 1)
          BY <2>1, <3>4, SMT
        <4>3. ram[Target(k).off] = packet.data[k + 1]
          BY <1>1, <4>2, SMT DEF Written
        <4> QED
          BY <2>9, <3>2, <4>1, <4>3, SMT
      <3> QED
        BY <3>3, <3>4, Zenon
    <2>12. \A o \in 0..(RamSize - 1) :
              ram'[o] # before[o] => \E k \in 0..i : o = Target(k).off
      <3> TAKE o \in 0..(RamSize - 1)
      <3> HAVE ram'[o] # before[o]
      <3>1. CASE o = offset
        BY <2>1, <3>1, SMT
      <3>2. CASE o # offset
        <4>1. ram[o] # before[o]
          BY <2>9, <3>2, SMT
        <4>2. PICK k \in 0..(i - 1) : o = Target(k).off
          BY <1>1, <4>1, SMT DEF Written
        <4>3. k \in 0..i
          BY <2>1, SMT
        <4> QED
          BY <4>2, <4>3, Zenon
      <3> QED
        BY <3>1, <3>2, Zenon
    <2>13. packet'.i - 1 = i /\ packet'.data = packet.data /\ packet'.step = "deposit"
      BY <2>1, <2>8, SMT DEF Moved
    <2>14. Written'
      BY <1>3, <2>10, <2>11, <2>12, <2>13, SMT DEF Written
    <2>15. \A k \in 0..(Len(packet'.data) - 1) : Validated(k)'
      BY <1>1, <2>10, <2>13, SMT
    <2>16. reply' = "none"
      BY <1>1, <2>4, SMT DEF Inv
    <2> QED
      BY <1>2, <2>8, <2>13, <2>14, <2>15, <2>16, SMT DEF Inv
  <1> QED
    BY <1>4, <1>5, SMT DEF Deposit

LEMMA StepInv ==
    ASSUME Inv, [Next]_vars
    PROVE  Inv'
  <1>1. ASSUME NEW addr \in Addrs, NEW width \in Widths, Load(addr, width) PROVE Inv'
    BY <1>1, LoadInv, Zenon
  <1>2. ASSUME NEW addr \in Addrs, NEW width \in Widths, NEW value \in [1..width -> Data],
               Store(addr, width, value)
        PROVE  Inv'
    BY <1>2, StoreInv, Zenon
  <1>3. ASSUME NEW addr \in WriteAddrs, NEW data \in Packets, MemoryWrite(addr, data)
        PROVE  Inv'
    BY <1>3, MemoryWriteInv, Zenon
  <1>4. ASSUME Validate PROVE Inv'
    BY <1>4, ValidateInv, Zenon
  <1>5. ASSUME Deposit PROVE Inv'
    BY <1>5, DepositInv, Zenon
  <1>6. ASSUME UNCHANGED vars PROVE Inv'
    BY <1>6, SMT DEF vars, Inv, TypeOK, Written, Validated, Target
  <1> QED
    BY <1>1, <1>2, <1>3, <1>4, <1>5, <1>6, Zenon DEF Next, Access

THEOREM Invariance == Spec => []Inv
  <1>1. Init => Inv
    BY InitInv
  <1>2. Inv /\ [Next]_vars => Inv'
    BY StepInv
  <1> QED
    BY <1>1, <1>2, PTL DEF Spec

\* RAM never holds anything but bytes, whatever is stored, transferred or
\* written by GDB, and a packet never moves past its end.
THEOREM TypeCorrect == Spec => []TypeOK
  <1>1. Inv => TypeOK
    BY Zenon DEF Inv
  <1> QED
    BY <1>1, Invariance, PTL

LEMMA RoutesSoundState == Inv => RoutesSound
  <1> SUFFICES ASSUME Inv, NEW a \in Addrs, NEW w \in Widths
               PROVE  LET p == mask_region(a)
                          hits == Hits(p, w)
                          offsets(i) == {p.off - MEMORY_MAP[i].start + k : k \in 0..(w - 1)}
                      IN  /\ \A i, j \in hits : i = j
                          /\ \A i \in hits :
                                /\ MEMORY_MAP[i].device = "RAM" => offsets(i) \subseteq DOMAIN ram
                                /\ MEMORY_MAP[i].device = "BIOS" => offsets(i) \subseteq DOMAIN Bios
    BY Zenon DEF RoutesSound
  <1> DEFINE p == mask_region(a)
             offsets(i) == {p.off - MEMORY_MAP[i].start + k : k \in 0..(w - 1)}
  <1>1. a \in Addresses /\ w \in Nat
    BY InterconnectAssumption, SMT DEF Widths
  <1>2. p \in Addresses /\ p.off \in Nat
    BY <1>1, Masked, AddressParts, SMT
  <1>3. DOMAIN ram = 0..(RamSize - 1) /\ DOMAIN Bios = 0..(BiosSize - 1)
    BY InterconnectAssumption, SMT DEF Inv, TypeOK
  <1>4. \A i, j \in Hits(p, w) : i = j
    BY <1>2, OneRegion, SMT
  <1>5. ASSUME NEW i \in Hits(p, w), MEMORY_MAP[i].device = "RAM"
        PROVE  offsets(i) \subseteq DOMAIN ram
    <2>1. i = 3
      BY <1>2, <1>5, RamRegion, SMT
    <2>2. MEMORY_MAP[i].start = 0 /\ p.off >= 0 /\ p.off + w <= 0 + RamSize
      BY <1>2, <2>1, ContainsFacts, SMT DEF Takes
    <2> HIDE DEF p
    <2> QED
      BY <1>1, <1>2, <1>3, <2>2, ParameterFacts, SMT
  <1>6. ASSUME NEW i \in Hits(p, w), MEMORY_MAP[i].device = "BIOS"
        PROVE  offsets(i) \subseteq DOMAIN Bios
    <2>1. i = 1
      BY <1>2, <1>6, ContainsFacts, SMT DEF Takes
    <2>2. /\ MEMORY_MAP[i].start = 532676608
          /\ p.off >= 532676608 /\ p.off + w <= 532676608 + BiosSize
      BY <1>2, <2>1, ContainsFacts, SMT DEF Takes
    <2> HIDE DEF p
    <2> QED
      BY <1>1, <1>2, <1>3, <2>2, ParameterFacts, SMT
  <1> QED
    BY <1>4, <1>5, <1>6, Zenon

\* The order of MEMORY_MAP (interconnect.c:517) does not matter and no access
\* leaves the array of RAM or BIOS, for every address, for any size of RAM up
\* to expansion region 1 and of BIOS up to 4 MB.
THEOREM RoutesSoundAlways == Spec => []RoutesSound
  BY RoutesSoundState, Invariance, PTL

\* GDB reads what the CPU would load, in every reachable state.
THEOREM ExamineAgreesAlways == Spec => []ExamineAgreesWithLoad
  <1>1. Inv => ExamineAgreesWithLoad
    BY ExamineAgreesState
  <1> QED
    BY <1>1, Invariance, PTL

\* A byte of RAM as the CPU loads it and as GDB examines it.
LEMMA LoadedByte ==
    ASSUME NEW a \in Addresses, mask_region(a).seg = 0,
           mask_region(a).off \in 0..(RamSize - 1)
    PROVE  /\ interconnect_load(a, 1) = Fill(ram[mask_region(a).off], 1)
           /\ interconnect_examine(a, 1) = Fill(ram[mask_region(a).off], 1)
  <1> DEFINE p == mask_region(a)
             o == p.off
  <1>1. p \in Addresses /\ o \in Int /\ o >= 0 /\ o < RamSize /\ RamSize \in Nat /\ o = a.off
    BY ParameterFacts, Masked, SMT
  <1>2. a.off % 1 = 0 /\ 1 \in Widths
    BY <1>1, SMT DEF Widths
  <1>3. /\ MEMORY_MAP[3].device = "RAM" /\ MEMORY_MAP[3].seg = 0
        /\ MEMORY_MAP[3].start = 0 /\ MEMORY_MAP[3].size = RamSize
    BY TableFacts, Fields, SMT
  <1>4. memory_region_contains(MEMORY_MAP[3], p, 1)
    BY <1>1, <1>3, SMT DEF memory_region_contains
  <1>5. 3 \in Hits(p, 1)
    BY <1>4, TableSize, SMT DEF Hits
  <1>6. Route(p, 1) = MEMORY_MAP[3]
    BY <1>1, <1>2, <1>5, RouteOf, SMT
  <1>7. "RAM" \notin WriteOnly
    BY SMT DEF WriteOnly
  <1>8. interconnect_load(a, 1) = RegionLoad("RAM", o - 0, 1)
    BY <1>2, <1>3, <1>5, <1>6, <1>7, Zenon DEF interconnect_load
  <1>9. RegionLoad("RAM", o - 0, 1) = Bytes(ram, o, 1)
    BY <1>1, RegionLoads, SMT
  <1>10. Bytes(ram, o, 1) = Fill(ram[o], 1)
    BY <1>1, SMT DEF Bytes, Fill
  <1>11. ExaminePhysical(p, 1) = Bytes(ram, o, 1)
    BY <1>1, SMT DEF ExaminePhysical, Between
  <1>12. interconnect_examine(a, 1) = ExaminePhysical(p, 1)
    BY <1>2, Zenon DEF interconnect_examine
  <1> QED
    BY <1>8, <1>9, <1>10, <1>11, <1>12, Zenon

LEMMA AllOrNothingState == Inv => MemoryWriteAllOrNothing
  <1> SUFFICES ASSUME Inv PROVE MemoryWriteAllOrNothing
    OBVIOUS
  <1>1. TypeOK
    BY SMT DEF Inv
  <1>2. /\ packet.step = "validate" => ram = before
        /\ reply = "E03" => ram = before
    BY SMT DEF Inv
  <1>3. ASSUME packet.step = "deposit", NEW k \in 0..(Len(packet.data) - 1)
        PROVE  LET target == Plus(packet.addr, k) IN
               /\ CanDeposit(target, 1)
               /\ k < packet.i =>
                    /\ interconnect_examine(target, 1) = Fill(packet.data[k + 1], 1)
                    /\ interconnect_load(target, 1) = Fill(packet.data[k + 1], 1)
    <2>1. Validated(k)
      BY <1>3, SMT DEF Inv
    <2>2. CanDeposit(Plus(packet.addr, k), 1)
      BY <1>1, <2>1, ValidatedFacts, SMT
    <2>3. /\ Plus(packet.addr, k) \in Addresses
          /\ Target(k).off \in 0..(RamSize - 1) /\ Target(k).seg = 0
      BY <1>1, <2>1, ValidatedFacts, TargetFacts, SMT
    <2>4. ASSUME k < packet.i PROVE ram[Target(k).off] = packet.data[k + 1]
      <3>1. k \in 0..(packet.i - 1)
        BY <1>1, <2>4, PacketParts, SMT
      <3> QED
        BY <1>3, <3>1, SMT DEF Inv, Written
    <2>5. /\ interconnect_load(Plus(packet.addr, k), 1) = Fill(ram[Target(k).off], 1)
          /\ interconnect_examine(Plus(packet.addr, k), 1) = Fill(ram[Target(k).off], 1)
      BY <2>3, LoadedByte, Zenon DEF Target
    <2> QED
      BY <2>2, <2>4, <2>5, Zenon
  <1>4. ASSUME packet.step = "deposit"
        PROVE  \A o \in 0..(RamSize - 1) : ram[o] # before[o] =>
                 \E k \in 0..(packet.i - 1) : o = mask_region(Plus(packet.addr, k)).off
    BY <1>4, Zenon DEF Inv, Written, Target
  <1> QED
    BY <1>2, <1>3, <1>4, Zenon DEF MemoryWriteAllOrNothing

\* The M packet of GDB (gdb_server.c:285) is all or nothing for any size of RAM,
\* any address and any length: no byte is refused after the first was written.
THEOREM MemoryWriteAlways == Spec => []MemoryWriteAllOrNothing
  BY AllOrNothingState, Invariance, PTL

=============================================================================
