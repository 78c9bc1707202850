----------------------------- MODULE DmaProofs -----------------------------
(***************************************************************************)
(* Proofs about Dma for any size of RAM, any channels and any stores of    *)
(* the CPU: types, with every address within RAM and the count of nodes    *)
(* bounded; no channel is left active; what uploads send, what clearing a  *)
(* table writes, what a list transfer sends and which lists it gives up;   *)
(* and that every step of a transfer brings it nearer to its end.          *)
(***************************************************************************)
EXTENDS Dma, Numbers, SequenceTheorems, FiniteSetTheorems, TLAPS

(* TypeOK with the record of a transfer as a whole, and what makes it      *)
(* inductive: a list reads headers at word addresses, and the count of     *)
(* nodes is below the bound as long as the emulator runs.                  *)
Transfers == [kind : {"upload", "otc", "list"}, port : Ports, channel : Channel,
              addr : 0 .. RamBytes - 1, words : Nat, header : Word,
              nodes : 0 .. RamWords, phase : {"block", "header", "packet"}]

MemoryOK == /\ channels \in [Ports -> Channel]
            /\ ram \in [RamAddrs -> Word]
            /\ sent \in Seq(Word)
            /\ exited \in {"no", "sync", "unsupported", "gpu", "endless"}

TransferOK ==
    transfer = Idle \/
      /\ transfer \in Transfers
      /\ transfer.kind = "list" => transfer.addr \in RamAddrs
      /\ transfer.kind = "list" <=> transfer.phase # "block"
      /\ exited = "no" => transfer.nodes < RamWords

(* Only the channel of the transfer that runs is active.                   *)
OneActive ==
    exited = "no" =>
      \A p \in Ports : dma_channel_active(channels[p]) =>
                         transfer # Idle /\ transfer.port = p

IInv == MemoryOK /\ TransferOK /\ OneActive

-----------------------------------------------------------------------------
(* Addresses.                                                              *)
LEMMA Wrap == \A n \in Int : n % RamBytes \in 0 .. RamBytes - 1
  BY DmaAssumption DEF RamBytes

LEMMA RamAddrType ==
    /\ RamAddrs \subseteq 0 .. RamBytes - 1
    /\ \A n \in Int : RamAddr(n) \in RamAddrs
  <1>1. RamWords \in Nat \ {0}
    BY DmaAssumption
  <1>2. RamAddrs \subseteq 0 .. RamBytes - 1
    BY <1>1 DEF RamAddrs, RamBytes
  <1>3. ASSUME NEW x \in 0 .. 4 * RamWords - 1 PROVE 4 * (x \div 4) \in RamAddrs
    <2>1. x \div 4 \in 0 .. RamWords - 1
      BY <1>1
    <2> QED BY <2>1 DEF RamAddrs
  <1>4. \A n \in Int : RamAddr(n) \in RamAddrs
    BY <1>3, Wrap DEF RamAddr, RamBytes
  <1> QED BY <1>2, <1>4

LEMMA Product == \A m, n \in Nat : m * n \in Nat
  OBVIOUS

LEMMA ChannelFields ==
    \A c \in Channel : /\ c.base \in Nat /\ c.block_size \in Nat /\ c.block_count \in Nat
                       /\ c.control \in Control
  <1> TAKE c \in Channel
  <1>1. /\ c.base \in 0 .. MaxBase /\ c.block_size \in BlockSizes \cup {0}
        /\ c.block_count \in BlockCounts \cup {0} /\ c.control \in Control
    BY DEF Channel
  <1>2. MaxBase \in Nat /\ BlockSizes \subseteq Nat /\ BlockCounts \subseteq Nat
    BY DmaAssumption
  <1>3. c.base \in Nat
    BY <1>1, <1>2
  <1>4. c.block_size \in Nat
    <2>1. CASE c.block_size \in BlockSizes
      BY <1>2, <2>1, Zenon
    <2>2. CASE c.block_size = 0
      BY <2>2
    <2> QED BY <1>1, <2>1, <2>2, Zenon
  <1>5. c.block_count \in Nat
    <2>1. CASE c.block_count \in BlockCounts
      BY <1>2, <2>1, Zenon
    <2>2. CASE c.block_count = 0
      BY <2>2
    <2> QED BY <1>1, <2>1, <2>2, Zenon
  <1> QED BY <1>1, <1>3, <1>4, <1>5

LEMMA ZeroWordType == ZeroWord \in Word
  BY DmaAssumption DEF ZeroWord, Word, RamBytes

(* A channel that is done is a channel, and not active.                    *)
LEMMA DoneInactive ==
    \A c \in Channel : dma_channel_done(c) \in Channel
                       /\ ~dma_channel_active(dma_channel_done(c))
  BY DEF dma_channel_done, dma_channel_active, Channel, Control

LEMMA BeginType ==
    ASSUME NEW p \in Ports, NEW c \in Channel, Kind(p, c) # "bad"
    PROVE  LET t == Begin(p, c) IN
           /\ t \in Transfers
           /\ t.kind = "list" => t.addr \in RamAddrs
           /\ t.kind = "list" <=> t.phase # "block"
           /\ t.nodes < RamWords
           /\ t.port = p
  <1>1. Kind(p, c) \in {"upload", "otc", "list"}
    BY DEF Kind
  <1>2. c.base \in Nat /\ dma_channel_transfer_size(c) \in Nat
    BY ChannelFields, Product DEF dma_channel_transfer_size
  <1>3. RamAddr(c.base) \in RamAddrs /\ RamAddr(c.base) \in 0 .. RamBytes - 1
        /\ c.base % RamBytes \in 0 .. RamBytes - 1
    <2>1. c.base \in Int
      BY <1>2
    <2>2. RamAddr(c.base) \in RamAddrs
      BY <2>1, RamAddrType
    <2>3. c.base % RamBytes \in 0 .. RamBytes - 1
      BY <2>1, Wrap
    <2> QED BY <2>2, <2>3, RamAddrType
  <1>4. RamWords \in Nat \ {0}
    BY DmaAssumption
  <1> QED BY <1>1, <1>2, <1>3, <1>4, ZeroWordType DEF Begin, Transfers

LEMMA IdleIsNone == \A t \in Transfers : t # Idle /\ t.kind # "none"
  BY DEF Transfers, Idle

-----------------------------------------------------------------------------
(* Stores of the CPU.                                                      *)
LEMMA WrittenStep ==
    ASSUME IInv, CpuRuns, NEW p \in Ports, NEW c \in Channel, Written(p, c)
    PROVE  IInv'
  <1>1. channels \in [Ports -> Channel] /\ channels' = [channels EXCEPT ![p] = c]
    BY DEF IInv, MemoryOK, Written
  <1>2. channels' \in [Ports -> Channel] /\ channels'[p] = c
        /\ \A q \in Ports \ {p} : channels'[q] = channels[q]
    BY <1>1
  <1>3. ram' = ram /\ sent' = <<>>
    BY DEF Written
  <1>4. \A q \in Ports : ~dma_channel_active(channels[q])
    BY DEF IInv, OneActive, CpuRuns
  <1>5. CASE ~dma_channel_active(c)
    <2>1. transfer' = Idle /\ exited' = "no"
      BY <1>5 DEF Written, CpuRuns
    <2>2. MemoryOK'
      BY <1>2, <1>3, <2>1, EmptySeq DEF IInv, MemoryOK
    <2>3. \A q \in Ports : ~dma_channel_active(channels'[q])
      BY <1>2, <1>4, <1>5
    <2> QED BY <2>1, <2>2, <2>3 DEF IInv, TransferOK, OneActive, dma_channel_active
  <1>6. CASE dma_channel_active(c) /\ Kind(p, c) = "bad"
    <2>1. transfer' = Idle /\ exited' = "unsupported"
      BY <1>6 DEF Written, CpuRuns
    <2>2. MemoryOK'
      BY <1>2, <1>3, <2>1, EmptySeq DEF IInv, MemoryOK
    <2> QED BY <2>1, <2>2 DEF IInv, TransferOK, OneActive
  <1>7. CASE dma_channel_active(c) /\ Kind(p, c) # "bad"
    <2>1. transfer' = Begin(p, c) /\ exited' = "no"
      BY <1>7 DEF Written, CpuRuns
    <2>2. MemoryOK'
      BY <1>2, <1>3, <2>1, EmptySeq DEF IInv, MemoryOK
    <2>3. TransferOK' /\ transfer' # Idle /\ transfer'.port = p
      BY <1>7, <2>1, BeginType, IdleIsNone DEF TransferOK
    <2>4. \A q \in Ports : dma_channel_active(channels'[q]) => q = p
      BY <1>2, <1>4
    <2> QED BY <2>2, <2>3, <2>4 DEF IInv, OneActive, dma_channel_active
  <1> QED BY <1>5, <1>6, <1>7

LEMMA CpuStepInv == IInv /\ CpuStep => IInv'
  <1> SUFFICES ASSUME IInv, CpuStep PROVE IInv'
    OBVIOUS
  <1>1. ASSUME NEW p \in Ports, RegisterStore(p) PROVE IInv'
    <2>1. channels[p] \in Channel
      BY DEF IInv, MemoryOK
    <2>2. ASSUME NEW val \in Bases, dma_channel_set_base(p, val) PROVE IInv'
      <3>1. [channels[p] EXCEPT !.base = val] \in Channel
        BY <2>1, DmaAssumption DEF Channel
      <3> QED BY <2>2, <3>1, WrittenStep DEF dma_channel_set_base
    <2>3. ASSUME NEW size \in BlockSizes, NEW count \in BlockCounts,
                 dma_channel_set_block_control(p, size, count)
          PROVE  IInv'
      <3>1. [channels[p] EXCEPT !.block_size = size, !.block_count = count] \in Channel
        BY <2>1 DEF Channel
      <3> QED BY <2>3, <3>1, WrittenStep DEF dma_channel_set_block_control
    <2>4. ASSUME NEW val \in Controls, dma_channel_set_control(p, val) PROVE IInv'
      <3>1. [channels[p] EXCEPT !.control = val] \in Channel
        BY <2>1, DmaAssumption DEF Channel
      <3>2. CASE val.sync = "UNKNOWN"
        <4>1. UNCHANGED <<channels, ram, transfer, sent>> /\ exited' = "sync"
              /\ transfer = Idle
          BY <2>4, <3>2 DEF dma_channel_set_control, CpuRuns
        <4> QED BY <4>1 DEF IInv, MemoryOK, TransferOK, OneActive
      <3>3. CASE val.sync # "UNKNOWN"
        BY <2>4, <3>1, <3>3, WrittenStep DEF dma_channel_set_control
      <3> QED BY <3>2, <3>3
    <2> QED BY <1>1, <2>2, <2>3, <2>4 DEF RegisterStore
  <1>2. ASSUME NEW a \in RamAddrs, NEW w \in Words, ram_store(a, w) PROVE IInv'
    <2>1. ram' \in [RamAddrs -> Word]
      BY <1>2, DmaAssumption DEF ram_store, IInv, MemoryOK
    <2> QED BY <1>2, <2>1 DEF ram_store, IInv, MemoryOK, TransferOK, OneActive,
                               dma_channel_active
  <1> QED BY <1>1, <1>2 DEF CpuStep

-----------------------------------------------------------------------------
(* Steps of a transfer.                                                    *)

(* A turn of a loop: the transfer stays on its channel, and the channels   *)
(* are left alone.                                                         *)
LEMMA TurnStep ==
    ASSUME IInv, exited = "no", transfer # Idle, channels' = channels,
           MemoryOK', TransferOK', transfer' # Idle, transfer'.port = transfer.port
    PROVE  IInv'
  BY DEF IInv, OneActive, dma_channel_active

LEMMA FinishStep == ASSUME IInv, transfer # Idle, exited = "no", Finish PROVE IInv'
  <1>1. transfer.port \in Ports
    BY DEF IInv, TransferOK, Transfers
  <1>2. channels[transfer.port] \in Channel
    BY <1>1 DEF IInv, MemoryOK
  <1>3. /\ channels' \in [Ports -> Channel]
        /\ channels'[transfer.port] = dma_channel_done(channels[transfer.port])
        /\ \A q \in Ports \ {transfer.port} : channels'[q] = channels[q]
    BY <1>1, <1>2, DoneInactive DEF Finish, IInv, MemoryOK
  <1>4. \A q \in Ports : ~dma_channel_active(channels'[q])
    BY <1>2, <1>3, DoneInactive DEF IInv, OneActive
  <1>5. MemoryOK'
    BY <1>3 DEF Finish, IInv, MemoryOK
  <1>6. TransferOK'
    BY DEF Finish, TransferOK
  <1> QED BY <1>4, <1>5, <1>6 DEF IInv, OneActive, dma_channel_active

LEMMA SendType ==
    ASSUME MemoryOK, NEW word \in Word, Send(word), channels' = channels, ram' = ram
    PROVE  MemoryOK'
  <1>1. sent' \in Seq(Word)
    BY DEF Send, MemoryOK
  <1> QED BY <1>1 DEF Send, MemoryOK

LEMMA RunsFacts ==
    ASSUME IInv, NEW kind \in {"upload", "otc", "list"}, Runs(kind)
    PROVE  /\ transfer # Idle /\ transfer \in Transfers
           /\ transfer.kind = kind /\ exited = "no"
           /\ kind = "list" => transfer.addr \in RamAddrs
           /\ kind = "list" <=> transfer.phase # "block"
           /\ transfer.nodes < RamWords
           /\ transfer.addr \in Int /\ RamAddr(transfer.addr) \in RamAddrs
           /\ transfer.words \in Nat
           /\ transfer.port \in Ports
           /\ transfer.header \in Word
  <1>1. transfer # Idle /\ transfer.kind = kind /\ exited = "no"
    BY DEF Runs, Idle
  <1>2. transfer \in Transfers
    BY <1>1 DEF IInv, TransferOK
  <1>3. transfer.addr \in 0 .. RamBytes - 1 /\ transfer.words \in Nat
        /\ transfer.port \in Ports /\ transfer.header \in Word
    BY <1>2 DEF Transfers
  <1>4. transfer.addr \in Int
    BY <1>3, DmaAssumption DEF RamBytes
  <1>5. RamAddr(transfer.addr) \in RamAddrs
    BY <1>4, RamAddrType
  <1> QED BY <1>1, <1>2, <1>3, <1>4, <1>5 DEF IInv, TransferOK

(* The turn of a block transfer.                                           *)
LEMMA BlockTurnStep ==
    ASSUME IInv, NEW kind \in {"upload", "otc"}, Runs(kind), transfer.words > 0, BlockTurn
    PROVE  TransferOK' /\ transfer' # Idle /\ transfer'.port = transfer.port
  <1>1. /\ transfer \in Transfers /\ transfer.words \in Nat /\ transfer.addr \in Int
        /\ transfer.kind = kind /\ transfer.phase = "block"
        /\ transfer.nodes < RamWords
    BY RunsFacts
  <1>2. NextBlockAddr \in 0 .. RamBytes - 1
    <2>1. transfer.addr + 4 \in Int /\ transfer.addr - 4 \in Int
      BY <1>1
    <2> QED BY <2>1, Wrap DEF NextBlockAddr
  <1>3. transfer.words - 1 \in Nat
    BY <1>1
  <1>4. /\ transfer' \in Transfers
        /\ transfer'.kind = kind /\ transfer'.phase = "block"
        /\ transfer'.nodes = transfer.nodes /\ transfer'.port = transfer.port
    BY <1>1, <1>2, <1>3 DEF BlockTurn, Transfers
  <1> QED BY <1>1, <1>4, IdleIsNone DEF TransferOK

LEMMA TableEntryType ==
    ASSUME transfer.addr \in Int PROVE TableEntry \in Word
  <1>1. (transfer.addr - 4) % RamBytes \in 0 .. RamBytes - 1
    BY Wrap
  <1>2. RamBytes - 1 \in 0 .. RamBytes - 1
    BY DmaAssumption DEF RamBytes
  <1> QED BY <1>1, <1>2 DEF TableEntry, Word

LEMMA TransferStepInv == IInv /\ TransferStep => IInv'
  <1> SUFFICES ASSUME IInv, TransferStep PROVE IInv'
    OBVIOUS
  <1>1. CASE UploadWord
    <2>1. Runs("upload")
      BY <1>1 DEF UploadWord
    <2>2. exited = "no" /\ transfer # Idle /\ RamAddr(transfer.addr) \in RamAddrs
      BY <2>1, RunsFacts
    <2>3. ram[RamAddr(transfer.addr)] \in Word
      BY <2>2 DEF IInv, MemoryOK
    <2>4. MemoryOK' /\ channels' = channels
      BY <1>1, <2>3, SendType DEF UploadWord, IInv
    <2>5. TransferOK' /\ transfer' # Idle /\ transfer'.port = transfer.port
      BY <1>1, <2>1, BlockTurnStep DEF UploadWord
    <2> QED BY <2>2, <2>4, <2>5, TurnStep
  <1>2. CASE ClearWord
    <2>1. Runs("otc")
      BY <1>2 DEF ClearWord
    <2>2. /\ exited = "no" /\ transfer # Idle /\ RamAddr(transfer.addr) \in RamAddrs
          /\ transfer.addr \in Int
      BY <2>1, RunsFacts
    <2>3. ram' \in [RamAddrs -> Word]
      BY <1>2, <2>2, TableEntryType DEF ClearWord, IInv, MemoryOK
    <2>4. MemoryOK' /\ channels' = channels
      BY <1>2, <2>3 DEF ClearWord, IInv, MemoryOK
    <2>5. TransferOK' /\ transfer' # Idle /\ transfer'.port = transfer.port
      BY <1>2, <2>1, BlockTurnStep DEF ClearWord
    <2> QED BY <2>2, <2>4, <2>5, TurnStep
  <1>3. CASE BlockDone
    BY <1>3, FinishStep, RunsFacts DEF BlockDone
  <1>4. CASE LastNode
    BY <1>4, FinishStep, RunsFacts DEF LastNode, PacketDone
  <1>5. ASSUME Runs("list")
        PROVE  /\ exited = "no" /\ transfer # Idle /\ transfer \in Transfers
               /\ transfer.addr \in RamAddrs /\ transfer.addr \in Int
               /\ transfer.kind = "list" /\ transfer.phase # "block"
               /\ transfer.nodes < RamWords /\ transfer.words \in Nat
               /\ transfer.nodes \in Nat /\ RamWords \in Nat /\ transfer.header \in Word
    BY <1>5, RunsFacts, DmaAssumption DEF Transfers
  <1>6. CASE ReadHeader
    <2>1. Runs("list")
      BY <1>6 DEF ReadHeader
    <2>2. ram[transfer.addr] \in Word
      BY <1>5, <2>1 DEF IInv, MemoryOK
    <2>3. ram[transfer.addr].size \in Nat
      BY <2>2 DEF Word
    <2>4. /\ transfer' \in Transfers
          /\ transfer'.kind = "list" /\ transfer'.phase = "packet"
          /\ transfer'.addr = transfer.addr /\ transfer'.nodes = transfer.nodes
          /\ transfer'.port = transfer.port
      BY <1>5, <1>6, <2>1, <2>2, <2>3 DEF ReadHeader, Transfers
    <2>5. TransferOK' /\ transfer' # Idle
      BY <1>5, <2>1, <2>4, IdleIsNone DEF TransferOK
    <2>6. MemoryOK' /\ channels' = channels
      BY <1>6 DEF ReadHeader, IInv, MemoryOK
    <2> QED BY <1>5, <2>1, <2>4, <2>5, <2>6, TurnStep
  <1>7. CASE PacketWord
    <2> DEFINE addr == RamAddr(transfer.addr + 4)
    <2>1. Runs("list") /\ transfer.words > 0
      BY <1>7 DEF PacketWord
    <2>2. addr \in RamAddrs /\ addr \in 0 .. RamBytes - 1
      <3>1. transfer.addr + 4 \in Int
        BY <1>5, <2>1
      <3> QED BY <3>1, RamAddrType
    <2>3. /\ Send(ram[addr]) /\ channels' = channels /\ ram' = ram
          /\ transfer' = [transfer EXCEPT !.addr = addr, !.words = @ - 1]
      BY <1>7 DEF PacketWord
    <2> HIDE DEF addr
    <2>4. ram[addr] \in Word
      BY <2>2 DEF IInv, MemoryOK
    <2>5. MemoryOK'
      BY <2>3, <2>4, SendType DEF IInv
    <2>6. transfer.words - 1 \in Nat
      BY <1>5, <2>1
    <2>7. /\ transfer' \in Transfers
          /\ transfer'.kind = "list" /\ transfer'.phase # "block"
          /\ transfer'.addr \in RamAddrs /\ transfer'.nodes = transfer.nodes
          /\ transfer'.port = transfer.port
      BY <1>5, <2>1, <2>2, <2>3, <2>6 DEF Transfers
    <2>8. TransferOK' /\ transfer' # Idle
      BY <1>5, <2>1, <2>7, IdleIsNone DEF TransferOK
    <2> QED BY <1>5, <2>1, <2>3, <2>5, <2>7, <2>8, TurnStep
  <1>8. CASE NextNode
    <2> DEFINE addr == RamAddr(transfer.header.next)
    <2>1. Runs("list")
      BY <1>8 DEF NextNode, PacketDone
    <2>2. addr \in RamAddrs /\ addr \in 0 .. RamBytes - 1
      <3>1. transfer.header.next \in 0 .. RamBytes - 1
        BY <1>5, <2>1 DEF Word
      <3>2. transfer.header.next \in Int
        BY <3>1, DmaAssumption DEF RamBytes
      <3> QED BY <3>2, RamAddrType
    <2>3. /\ UNCHANGED <<channels, ram, sent>>
          /\ transfer' = [transfer EXCEPT !.addr = addr, !.nodes = @ + 1, !.phase = "header"]
          /\ exited' = IF transfer.nodes + 1 >= RamWords THEN "endless" ELSE "no"
      BY <1>8 DEF NextNode
    <2> HIDE DEF addr
    <2>4. transfer.nodes + 1 \in 0 .. RamWords
      BY <1>5, <2>1
    <2>5. /\ transfer' \in Transfers
          /\ transfer'.kind = "list" /\ transfer'.phase = "header"
          /\ transfer'.addr \in RamAddrs /\ transfer'.nodes = transfer.nodes + 1
          /\ transfer'.port = transfer.port
      BY <1>5, <2>1, <2>2, <2>3, <2>4 DEF Transfers
    <2>6. exited' = "no" => transfer'.nodes < RamWords
      BY <1>5, <2>1, <2>3, <2>5
    <2>7. TransferOK' /\ transfer' # Idle
      BY <2>5, <2>6, IdleIsNone DEF TransferOK
    <2>8. MemoryOK'
      BY <2>3 DEF IInv, MemoryOK
    <2> QED BY <1>5, <2>1, <2>3, <2>5, <2>7, <2>8, TurnStep
  <1> QED BY <1>1, <1>2, <1>3, <1>4, <1>6, <1>7, <1>8 DEF TransferStep

-----------------------------------------------------------------------------
LEMMA InitOK == Init => IInv
  <1> SUFFICES ASSUME Init PROVE IInv
    OBVIOUS
  <1>1. [base |-> 0, block_size |-> 0, block_count |-> 0, control |-> Stopped] \in Channel
    BY DmaAssumption DEF Channel, Control, Stopped
  <1>2. MemoryOK
    BY <1>1, ZeroWordType, EmptySeq DEF Init, MemoryOK
  <1>3. OneActive
    BY DEF Init, OneActive, dma_channel_active, Stopped
  <1> QED BY <1>2, <1>3 DEF Init, IInv, TransferOK

THEOREM Invariance == Spec => []IInv
  <1>1. IInv /\ UNCHANGED vars => IInv'
    BY DEF vars, IInv, MemoryOK, TransferOK, OneActive, dma_channel_active
  <1>2. IInv /\ [Next]_vars => IInv'
    BY <1>1, CpuStepInv, TransferStepInv DEF Next
  <1> QED BY <1>2, InitOK, PTL DEF Spec

(* Registers, RAM and the locals of a transfer keep their types: addresses *)
(* stay within RAM and the count of nodes within its bound.                *)
THEOREM TypeCorrect == Spec => []TypeOK
  <1>1. IInv => TypeOK
    BY DEF IInv, MemoryOK, TransferOK, Transfers, TypeOK
  <1> QED BY <1>1, Invariance, PTL

(* When the CPU runs, no channel is active.                                *)
THEOREM NeverLeftActiveTheorem == Spec => []NeverLeftActive
  <1>1. IInv => NeverLeftActive
    BY DEF IInv, OneActive, NeverLeftActive, CpuRuns
  <1> QED BY <1>1, Invariance, PTL

-----------------------------------------------------------------------------
(* Addresses modulo the size of RAM.                                       *)

(* The word of RAM that an address is in: the low two bits are ignored, and *)
(* the rest wraps.                                                         *)
LEMMA RamAddrWord == \A x \in Int : RamAddr(x) = 4 * ((x \div 4) % RamWords)
  <1> TAKE x \in Int
  <1> DEFINE z == x \div 4
             b == x % 4
             q == z \div RamWords
             r == z % RamWords
             y == 4 * r + b
  <1>1. RamWords \in Nat \ {0}
    BY DmaAssumption
  <1>2. x = 4 * z + b /\ z \in Int /\ b \in 0 .. 3
    OBVIOUS
  <1>3. z = RamWords * q + r /\ r \in 0 .. RamWords - 1 /\ q \in Int
    BY <1>1, <1>2, Quotient
  <1> HIDE DEF z, b, q, r
  <1>4. 4 * z = (4 * RamWords) * q + 4 * r
    BY <1>1, <1>3
  <1>5. y \in 0 .. RamBytes - 1 /\ RamBytes \in Nat \ {0} /\ y \div 4 = r
    BY <1>1, <1>2, <1>3 DEF RamBytes
  <1>6. x = RamBytes * q + y
    BY <1>1, <1>2, <1>3, <1>4 DEF RamBytes
  <1> HIDE DEF y
  <1>7. x % RamBytes = y
    BY <1>3, <1>5, <1>6, RemainderOf
  <1>8. RamAddr(x) = 4 * r
    BY <1>5, <1>7 DEF RamAddr
  <1> QED BY <1>8 DEF r, z

LEMMA RamAddrWraps ==
    /\ \A x \in Int : RamAddr(x % RamBytes) = RamAddr(x)
    /\ \A x, k \in Int : RamAddr(RamAddr(x) + 4 * k) = RamAddr(x + 4 * k)
    /\ \A a \in RamAddrs : RamAddr(a) = a
  <1>1. RamWords \in Nat \ {0} /\ RamBytes \in Nat \ {0}
    BY DmaAssumption DEF RamBytes
  <1>2. ASSUME NEW x \in Int PROVE RamAddr(x % RamBytes) = RamAddr(x)
    <2>1. x % RamBytes \in 0 .. RamBytes - 1
      BY <1>1
    <2>2. (x % RamBytes) % RamBytes = x % RamBytes
      BY <1>1, <2>1
    <2> QED BY <2>2 DEF RamAddr
  <1>3. ASSUME NEW x \in Int, NEW k \in Int
        PROVE  RamAddr(RamAddr(x) + 4 * k) = RamAddr(x + 4 * k)
    <2> DEFINE z == x \div 4
               w == (z % RamWords) + k
    <2>1. z \in Int /\ (x + 4 * k) \div 4 = z + k /\ z + k \in Int
      OBVIOUS
    <2>2. z % RamWords \in 0 .. RamWords - 1
      BY <1>1, <2>1
    <2>3. RamAddr(x) = 4 * (z % RamWords)
      BY RamAddrWord
    <2>4. RamAddr(x) + 4 * k = 4 * w /\ w \in Int
      BY <1>1, <2>2, <2>3
    <2>5. 4 * w \in Int /\ (4 * w) \div 4 = w
      BY <2>4
    <2>6. RamAddr(4 * w) = 4 * (w % RamWords)
      BY <2>5, RamAddrWord
    <2>7. w % RamWords = (z + k) % RamWords
      BY <1>1, <2>1, RemainderAdd
    <2>8. RamAddr(x + 4 * k) = 4 * ((z + k) % RamWords)
      BY <2>1, RamAddrWord
    <2> QED BY <2>4, <2>6, <2>7, <2>8
  <1>4. ASSUME NEW a \in RamAddrs PROVE RamAddr(a) = a
    <2>1. PICK i \in 0 .. RamWords - 1 : a = 4 * i
      BY DEF RamAddrs
    <2>2. i \in Int /\ (4 * i) \div 4 = i /\ 4 * i \in Int
      BY <1>1, <2>1
    <2>3. i % RamWords = i
      BY <1>1
    <2> QED BY <2>1, <2>2, <2>3, RamAddrWord
  <1> QED BY <1>2, <1>3, <1>4

(* Entries of a block that fits in RAM are different words.                *)
LEMMA BlockWordsDiffer ==
    ASSUME NEW b \in Int, NEW i \in Nat, NEW j \in Nat, i < j, j - i < RamWords
    PROVE  RamAddr(b - 4 * i) # RamAddr(b - 4 * j)
  <1> DEFINE c == b \div 4
             p == (c - i) \div RamWords
             q == (c - j) \div RamWords
             s == (c - i) % RamWords
             t == (c - j) % RamWords
  <1>1. RamWords \in Nat \ {0}
    BY DmaAssumption
  <1>2. /\ c \in Int /\ (b - 4 * i) \div 4 = c - i /\ (b - 4 * j) \div 4 = c - j
        /\ c - i \in Int /\ c - j \in Int /\ b - 4 * i \in Int /\ b - 4 * j \in Int
    OBVIOUS
  <1>3. c - i = RamWords * p + s /\ p \in Int /\ s \in 0 .. RamWords - 1
    BY <1>1, <1>2, Quotient
  <1>4. c - j = RamWords * q + t /\ q \in Int /\ t \in 0 .. RamWords - 1
    BY <1>1, <1>2, Quotient
  <1>5. RamAddr(b - 4 * i) = 4 * s /\ RamAddr(b - 4 * j) = 4 * t
    BY <1>2, RamAddrWord
  <1> HIDE DEF c, p, q, s, t
  <1>6. SUFFICES ASSUME s = t PROVE FALSE
    BY <1>1, <1>3, <1>4, <1>5
  <1>7. RamWords * (p - q) = RamWords * p - RamWords * q
    BY <1>1, <1>3, <1>4
  <1>8. RamWords * (p - q) + 0 = RamWords * 0 + (j - i)
    BY <1>1, <1>2, <1>3, <1>4, <1>6, <1>7
  <1>9. p - q \in Int /\ 0 \in 0 .. RamWords - 1 /\ j - i \in 0 .. RamWords - 1
    BY <1>1, <1>3, <1>4
  <1> QED BY <1>1, <1>8, <1>9, QuotientUnique

-----------------------------------------------------------------------------
(* Blocks.  The locals of the loop say which words have been transferred:  *)
(* BlockSoFar places the next one, UploadSoFar has what was sent, and      *)
(* TableSoFar what was written.                                            *)

Size(c) == dma_channel_transfer_size(c)
Done(t) == Size(t.channel) - t.words

\* The address of word k of a block, counted from 0, before it wraps.
WordAddr(c, k) == IF c.control.step = "INCREMENT" THEN c.base + 4 * k ELSE c.base - 4 * k

Uploaded(r, c, n) == [i \in 1 .. n |-> r[RamAddr(WordAddr(c, i - 1))]]

IsEntry(w, base, n, i) ==
    /\ w.size = 0
    /\ w.end <=> i = n - 1
    /\ ~w.end => RamAddr(w.next) = RamAddr(base - 4 * (i + 1))

BlockSoFar ==
    exited = "no" /\ transfer.kind \in {"upload", "otc"} =>
        /\ transfer.words <= Size(transfer.channel)
        /\ transfer.addr = WordAddr(transfer.channel, Done(transfer)) % RamBytes

UploadSoFar ==
    exited = "no" /\ transfer.kind = "upload" =>
        sent = Uploaded(ram, transfer.channel, Done(transfer))

TableSoFar ==
    /\ exited = "no" /\ transfer.kind = "otc"
    /\ transfer.channel.control.step = "DECREMENT" /\ Size(transfer.channel) <= RamWords
    => \A i \in 0 .. Done(transfer) - 1 :
          IsEntry(ram[RamAddr(transfer.channel.base - 4 * i)],
                  transfer.channel.base, Size(transfer.channel), i)

(* A channel's addresses and its size are numbers.                         *)
LEMMA WordAddrType ==
    ASSUME NEW c \in Channel
    PROVE  Size(c) \in Nat /\ c.base \in Nat /\ \A k \in Int : WordAddr(c, k) \in Int
  BY ChannelFields, Product DEF Size, dma_channel_transfer_size, WordAddr

(* What a store of the CPU does to the transfer: nothing, or it starts one. *)
LEMMA StoreOutcome ==
    ASSUME IInv, CpuStep
    PROVE  \/ transfer' = Idle
           \/ /\ \E p \in Ports, c \in Channel :
                    Kind(p, c) # "bad" /\ transfer' = Begin(p, c)
              /\ sent' = <<>> /\ ram' = ram /\ exited' = "no"
  <1>1. ASSUME NEW p \in Ports, NEW c \in Channel, CpuRuns, Written(p, c)
        PROVE  \/ transfer' = Idle
               \/ /\ Kind(p, c) # "bad" /\ transfer' = Begin(p, c)
                  /\ sent' = <<>> /\ ram' = ram /\ exited' = "no"
    BY <1>1 DEF Written, CpuRuns
  <1>2. ASSUME NEW p \in Ports, RegisterStore(p)
        PROVE  \/ transfer' = Idle
               \/ \E c \in Channel : CpuRuns /\ Written(p, c)
    <2>1. channels[p] \in Channel
      BY DEF IInv, MemoryOK
    <2>2. ASSUME NEW val \in Bases, dma_channel_set_base(p, val)
          PROVE  \E c \in Channel : CpuRuns /\ Written(p, c)
      <3>1. [channels[p] EXCEPT !.base = val] \in Channel
        BY <2>1, DmaAssumption DEF Channel
      <3> QED BY <2>2, <3>1 DEF dma_channel_set_base
    <2>3. ASSUME NEW size \in BlockSizes, NEW count \in BlockCounts,
                 dma_channel_set_block_control(p, size, count)
          PROVE  \E c \in Channel : CpuRuns /\ Written(p, c)
      <3>1. [channels[p] EXCEPT !.block_size = size, !.block_count = count] \in Channel
        BY <2>1 DEF Channel
      <3> QED BY <2>3, <3>1 DEF dma_channel_set_block_control
    <2>4. ASSUME NEW val \in Controls, dma_channel_set_control(p, val)
          PROVE  transfer' = Idle \/ \E c \in Channel : CpuRuns /\ Written(p, c)
      <3>1. [channels[p] EXCEPT !.control = val] \in Channel
        BY <2>1, DmaAssumption DEF Channel
      <3> QED BY <2>4, <3>1 DEF dma_channel_set_control, CpuRuns
    <2> QED BY <1>2, <2>2, <2>3, <2>4 DEF RegisterStore
  <1>3. ASSUME NEW a \in RamAddrs, NEW w \in Words, ram_store(a, w) PROVE transfer' = Idle
    BY <1>3 DEF ram_store, CpuRuns
  <1> QED BY <1>1, <1>2, <1>3 DEF CpuStep

(* What a transfer starts with.                                            *)
LEMMA BeginLocals ==
    ASSUME NEW p \in Ports, NEW c \in Channel
    PROVE  LET t == Begin(p, c) IN
           /\ t.kind = Kind(p, c) /\ t.channel = c
           /\ t.kind # "list" => t.words = Size(c) /\ t.addr = c.base % RamBytes
           /\ t.kind = "list" => /\ t.words = 0 /\ t.addr = RamAddr(c.base)
                                 /\ t.nodes = 0 /\ t.phase = "header"
  BY DEF Begin, Size

(* The step of the loop, with the word that was due.                       *)
LEMMA BlockTurnSoFar ==
    ASSUME IInv, BlockSoFar, NEW kind \in {"upload", "otc"}, Runs(kind),
           transfer.words > 0, BlockTurn
    PROVE  /\ transfer'.kind = kind /\ transfer'.channel = transfer.channel
           /\ transfer'.words = transfer.words - 1
           /\ transfer'.words <= Size(transfer.channel)
           /\ Done(transfer') = Done(transfer) + 1 /\ Done(transfer) \in Nat
           /\ transfer'.addr = WordAddr(transfer.channel, Done(transfer) + 1) % RamBytes
           /\ RamAddr(transfer.addr) = RamAddr(WordAddr(transfer.channel, Done(transfer)))
  <1> DEFINE c == transfer.channel
             n == Done(transfer)
             here == WordAddr(c, n)
             by == IF c.control.step = "INCREMENT" THEN 4 ELSE -4
  <1>1. transfer \in Transfers /\ transfer.words \in Nat /\ transfer.kind = kind
        /\ exited = "no" /\ transfer.addr \in Int
    BY RunsFacts
  <1>2. c \in Channel
    BY <1>1 DEF Transfers
  <1>3. Size(c) \in Nat /\ c.base \in Nat /\ \A k \in Int : WordAddr(c, k) \in Int
    BY <1>2, WordAddrType
  <1>4. transfer.words <= Size(c) /\ transfer.addr = here % RamBytes
    BY <1>1 DEF BlockSoFar
  <1>5. n \in Nat /\ here \in Int
    BY <1>1, <1>3, <1>4 DEF Done
  <1>6. /\ transfer'.kind = kind /\ transfer'.channel = c
        /\ transfer'.words = transfer.words - 1
        /\ transfer'.addr = NextBlockAddr
    BY <1>1 DEF BlockTurn, Transfers
  <1>7. Done(transfer') = n + 1
    BY <1>1, <1>3, <1>6 DEF Done
  <1>8. WordAddr(c, n + 1) = here + by
    BY <1>3, <1>5 DEF WordAddr
  <1>9. NextBlockAddr = (transfer.addr + by) % RamBytes
    <2>1. transfer.addr - 4 = transfer.addr + (-4)
      BY <1>1
    <2> QED BY <2>1 DEF NextBlockAddr
  <1>10. NextBlockAddr = (here + by) % RamBytes
    <2>1. RamBytes \in Nat \ {0} /\ by \in Int
      BY DmaAssumption DEF RamBytes
    <2> HIDE DEF here, by
    <2>2. ((here % RamBytes) + by) % RamBytes = (here + by) % RamBytes
      BY <1>5, <2>1, RemainderAdd
    <2> QED BY <1>4, <1>9, <2>2
  <1>11. RamAddr(transfer.addr) = RamAddr(here)
    BY <1>4, <1>5, RamAddrWraps
  <1>12. transfer'.words <= Size(c)
    BY <1>1, <1>3, <1>4, <1>6
  <1> HIDE DEF here, by
  <1> QED BY <1>5, <1>6, <1>7, <1>8, <1>10, <1>11, <1>12 DEF here

(* A sequence one longer.                                                  *)
LEMMA AppendFunction ==
    ASSUME NEW V, NEW n \in Nat, NEW g \in [1 .. n + 1 -> V]
    PROVE  Append([i \in 1 .. n |-> g[i]], g[n + 1]) = g
  <1> DEFINE s == [i \in 1 .. n |-> g[i]]
             t == Append(s, g[n + 1])
  <1>1. s \in Seq(V) /\ Len(s) = n
    OBVIOUS
  <1>2. g \in Seq(V) /\ Len(g) = n + 1
    OBVIOUS
  <1>3. t \in Seq(V) /\ Len(t) = n + 1
    BY <1>1
  <1>4. \A i \in 1 .. n + 1 : t[i] = g[i]
    BY <1>1
  <1> HIDE DEF t
  <1> QED BY <1>2, <1>3, <1>4, SeqEqual

(* The steps of a transfer that matter for one of the given kind, when the *)
(* emulator goes on.                                                       *)
LEMMA KindSteps ==
    ASSUME IInv, TransferStep, transfer' # Idle, exited' = "no"
    PROVE  /\ exited = "no" /\ transfer # Idle
           /\ \/ UploadWord /\ transfer.kind = "upload"
              \/ ClearWord /\ transfer.kind = "otc"
              \/ (ReadHeader \/ PacketWord \/ NextNode) /\ transfer.kind = "list"
           /\ transfer'.kind = transfer.kind
           /\ transfer'.channel = transfer.channel
  <1>1. ~BlockDone /\ ~LastNode
    BY DEF BlockDone, LastNode, Finish
  <1>2. CASE UploadWord
    BY <1>2, RunsFacts DEF UploadWord, Runs, BlockTurn, Transfers
  <1>3. CASE ClearWord
    BY <1>3, RunsFacts DEF ClearWord, Runs, BlockTurn, Transfers
  <1>4. CASE ReadHeader
    BY <1>4, RunsFacts DEF ReadHeader, Runs, Transfers
  <1>5. CASE PacketWord
    BY <1>5, RunsFacts DEF PacketWord, Runs, Transfers
  <1>6. CASE NextNode
    BY <1>6, RunsFacts DEF NextNode, PacketDone, Runs, Transfers
  <1> QED BY <1>1, <1>2, <1>3, <1>4, <1>5, <1>6 DEF TransferStep

LEMMA IdleKind == Idle.kind = "none"
  BY DEF Idle

LEMMA BlockSoFarStep == IInv /\ BlockSoFar /\ [Next]_vars => BlockSoFar'
  <1> SUFFICES ASSUME IInv, BlockSoFar, [Next]_vars,
                      exited' = "no", transfer'.kind \in {"upload", "otc"}
               PROVE  /\ transfer'.words <= Size(transfer'.channel)
                      /\ transfer'.addr = WordAddr(transfer'.channel, Done(transfer')) % RamBytes
    BY DEF BlockSoFar
  <1>1. transfer' # Idle
    BY IdleKind
  <1>2. CASE CpuStep
    <2>1. PICK p \in Ports, c \in Channel : transfer' = Begin(p, c)
      BY <1>1, <1>2, StoreOutcome
    <2>2. Size(c) \in Nat /\ c.base \in Nat
      BY WordAddrType
    <2>3. /\ transfer'.channel = c /\ transfer'.words = Size(c)
          /\ transfer'.addr = c.base % RamBytes
      BY <2>1, BeginLocals
    <2>4. Done(transfer') = 0 /\ WordAddr(c, 0) = c.base
      BY <2>2, <2>3 DEF Done, WordAddr
    <2> QED BY <2>2, <2>3, <2>4
  <1>3. CASE TransferStep
    <2>1. PICK kind \in {"upload", "otc"} :
             Runs(kind) /\ transfer.words > 0 /\ BlockTurn
      BY <1>1, <1>3, KindSteps DEF UploadWord, ClearWord
    <2> QED BY <2>1, BlockTurnSoFar
  <1>4. CASE UNCHANGED vars
    BY <1>4 DEF vars, BlockSoFar
  <1> QED BY <1>2, <1>3, <1>4 DEF Next

LEMMA UploadSoFarStep ==
    IInv /\ BlockSoFar /\ UploadSoFar /\ [Next]_vars => UploadSoFar'
  <1> SUFFICES ASSUME IInv, BlockSoFar, UploadSoFar, [Next]_vars,
                      exited' = "no", transfer'.kind = "upload"
               PROVE  sent' = Uploaded(ram', transfer'.channel, Done(transfer'))
    BY DEF UploadSoFar
  <1>1. transfer' # Idle
    BY IdleKind
  <1>2. CASE CpuStep
    <2>1. PICK p \in Ports, c \in Channel : transfer' = Begin(p, c)
      BY <1>1, <1>2, StoreOutcome
    <2>2. sent' = <<>>
      BY <1>1, <1>2, StoreOutcome
    <2>3. transfer'.channel = c /\ transfer'.words = Size(c) /\ Size(c) \in Nat
      BY <2>1, BeginLocals, WordAddrType
    <2>4. Done(transfer') = 0
      BY <2>3 DEF Done
    <2>5. Uploaded(ram', c, 0) = <<>>
      BY DEF Uploaded
    <2> QED BY <2>2, <2>3, <2>4, <2>5
  <1>3. CASE TransferStep
    <2> DEFINE c == transfer.channel
               n == Done(transfer)
               w == ram[RamAddr(transfer.addr)]
    <2>1. /\ UploadWord /\ exited = "no" /\ transfer.kind = "upload"
          /\ Runs("upload") /\ transfer.words > 0 /\ BlockTurn
      BY <1>1, <1>3, KindSteps DEF UploadWord
    <2>2. /\ transfer'.channel = c /\ Done(transfer') = n + 1 /\ n \in Nat
          /\ RamAddr(transfer.addr) = RamAddr(WordAddr(c, n))
      BY <2>1, BlockTurnSoFar
    <2>3. sent = Uploaded(ram, c, n)
      BY <2>1 DEF UploadSoFar
    <2>4. sent' = Append(sent, w) /\ ram' = ram
      BY <2>1 DEF UploadWord, Send
    <2>5. w = ram[RamAddr(WordAddr(c, n))]
      BY <2>2
    <2> HIDE DEF c, n, w
    <2>6. Append(Uploaded(ram, c, n), w) = Uploaded(ram, c, n + 1)
      <3> DEFINE g == Uploaded(ram, c, n + 1)
      <3>1. g \in [1 .. n + 1 -> {g[i] : i \in 1 .. n + 1}]
        BY DEF Uploaded
      <3>2. (n + 1) - 1 = n /\ n + 1 \in 1 .. n + 1
        BY <2>2
      <3>3. g[n + 1] = w
        BY <2>5, <3>2 DEF Uploaded
      <3>4. Uploaded(ram, c, n) = [i \in 1 .. n |-> g[i]]
        BY <2>2 DEF Uploaded
      <3> HIDE DEF g
      <3> QED BY <2>2, <3>1, <3>3, <3>4, AppendFunction DEF g
    <2> QED BY <2>2, <2>3, <2>4, <2>6
  <1>4. CASE UNCHANGED vars
    BY <1>4 DEF vars, UploadSoFar
  <1> QED BY <1>2, <1>3, <1>4 DEF Next

(* A block transfer completes with its last word, and changes nothing then. *)
LEMMA BlockCompletes ==
    ASSUME IInv, BlockSoFar, [Next]_vars, NEW kind \in {"upload", "otc"}, Completes(kind)
    PROVE  /\ exited = "no" /\ transfer.kind = kind
           /\ UNCHANGED <<ram, sent>>
           /\ Done(transfer) = Size(transfer.channel)
           /\ transfer.channel \in Channel
  <1>1. transfer.kind = kind /\ transfer' = Idle
    BY DEF Completes
  <1>2. transfer # Idle
    BY <1>1, IdleKind
  <1>3. ~CpuStep
    BY <1>2 DEF CpuStep, RegisterStore, dma_channel_set_base, dma_channel_set_block_control,
                dma_channel_set_control, ram_store, CpuRuns
  <1>4. ~UNCHANGED vars
    BY <1>1, <1>2 DEF vars
  <1>5. TransferStep
    BY <1>3, <1>4 DEF Next
  <1>6. ~UploadWord /\ ~ClearWord
    BY <1>1, BlockTurnSoFar, IdleKind DEF UploadWord, ClearWord
  <1>7. ~ReadHeader /\ ~PacketWord /\ ~LastNode /\ ~NextNode
    BY <1>1 DEF ReadHeader, PacketWord, LastNode, NextNode, PacketDone, Runs
  <1>8. Runs(kind) /\ transfer.words = 0 /\ Finish
    BY <1>1, <1>5, <1>6, <1>7 DEF TransferStep, BlockDone, Runs
  <1>9. transfer \in Transfers /\ exited = "no"
    BY <1>8, RunsFacts
  <1>10. transfer.channel \in Channel
    BY <1>9 DEF Transfers
  <1>11. Size(transfer.channel) \in Nat
    BY <1>10, WordAddrType
  <1>12. Done(transfer) = Size(transfer.channel)
    BY <1>8, <1>11 DEF Done
  <1> QED BY <1>1, <1>8, <1>9, <1>10, <1>12 DEF Finish

(* A block upload sends the words of the block, in its direction, with the *)
(* wrap at the end of RAM.                                                 *)
THEOREM UploadTheorem == Spec => UploadSendsBlock
  <1> DEFINE Sends ==
        Completes("upload") =>
          sent' = [i \in 1 .. Total |->
                     ram[RamAddr(IF transfer.channel.control.step = "INCREMENT"
                                 THEN Base + 4 * (i - 1) ELSE Base - 4 * (i - 1))]]
  <1>1. Init => BlockSoFar /\ UploadSoFar
    BY IdleKind DEF Init, BlockSoFar, UploadSoFar
  <1>2. IInv /\ BlockSoFar /\ UploadSoFar /\ [Next]_vars => (BlockSoFar /\ UploadSoFar)'
    BY BlockSoFarStep, UploadSoFarStep
  <1>3. ASSUME IInv, BlockSoFar, UploadSoFar, [Next]_vars, Completes("upload") PROVE Sends
    <2>1. sent' = Uploaded(ram, transfer.channel, Total)
      BY <1>3, BlockCompletes DEF UploadSoFar, Total, Size
    <2> QED BY <2>1 DEF Uploaded, WordAddr, Base
  <1>4. IInv /\ BlockSoFar /\ UploadSoFar /\ [Next]_vars => [Sends]_vars
    BY <1>3
  <1> QED BY <1>1, <1>2, <1>4, Invariance, PTL DEF Spec, UploadSendsBlock

(* The entry that is due.                                                  *)
LEMMA EntryDue ==
    ASSUME IInv, BlockSoFar, Runs("otc"), transfer.words > 0,
           transfer.channel.control.step = "DECREMENT"
    PROVE  IsEntry(TableEntry, transfer.channel.base, Size(transfer.channel), Done(transfer))
  <1> DEFINE c == transfer.channel
             n == Done(transfer)
             below == c.base - 4 * (n + 1)
  <1>1. /\ transfer \in Transfers /\ transfer.words \in Nat /\ transfer.kind = "otc"
        /\ exited = "no" /\ transfer.addr \in Int
    BY RunsFacts
  <1>2. c \in Channel
    BY <1>1 DEF Transfers
  <1>3. Size(c) \in Nat /\ c.base \in Nat
    BY <1>2, WordAddrType
  <1>4. /\ transfer.words <= Size(c)
        /\ transfer.addr = (c.base - 4 * n) % RamBytes
    BY <1>1 DEF BlockSoFar, WordAddr
  <1>5. n \in Nat /\ (transfer.words = 1 <=> n = Size(c) - 1)
    BY <1>1, <1>3, <1>4 DEF Done
  <1>6. RamAddr((transfer.addr - 4) % RamBytes) = RamAddr(below)
    <2>1. RamBytes \in Nat \ {0} /\ c.base - 4 * n \in Int /\ transfer.addr - 4 \in Int
      BY <1>1, <1>3, <1>5, DmaAssumption DEF RamBytes
    <2>2. below = (c.base - 4 * n) + (-4) /\ below \in Int
      BY <1>3, <1>5
    <2>3. transfer.addr - 4 = transfer.addr + (-4)
      BY <1>1
    <2> HIDE DEF below, n
    <2>4. (((c.base - 4 * n) % RamBytes) + (-4)) % RamBytes = ((c.base - 4 * n) + (-4)) % RamBytes
      BY <2>1, RemainderAdd
    <2>5. (transfer.addr - 4) % RamBytes = below % RamBytes
      BY <1>4, <2>2, <2>3, <2>4
    <2> QED BY <2>2, <2>5, RamAddrWraps
  <1> HIDE DEF below, n
  <1> HIDE DEF c
  <1>7. CASE transfer.words = 1
    <2>1. TableEntry = [size |-> 0, end |-> TRUE, next |-> RamBytes - 1]
      BY <1>7 DEF TableEntry
    <2>2. IsEntry(TableEntry, c.base, Size(c), n)
      BY <1>5, <1>7, <2>1 DEF IsEntry
    <2> QED BY <2>2 DEF n, c
  <1>8. CASE transfer.words # 1
    <2>1. TableEntry = [size |-> 0, end |-> FALSE, next |-> (transfer.addr - 4) % RamBytes]
      BY <1>8 DEF TableEntry
    <2>2. /\ TableEntry.size = 0 /\ TableEntry.end = FALSE
          /\ RamAddr(TableEntry.next) = RamAddr(c.base - 4 * (n + 1))
      BY <1>6, <2>1 DEF below
    <2>3. IsEntry(TableEntry, c.base, Size(c), n)
      BY <1>5, <1>8, <2>2 DEF IsEntry
    <2> QED BY <2>3 DEF n, c
  <1> QED BY <1>7, <1>8

LEMMA TableSoFarStep ==
    IInv /\ BlockSoFar /\ TableSoFar /\ [Next]_vars => TableSoFar'
  <1> SUFFICES ASSUME IInv, BlockSoFar, TableSoFar, [Next]_vars,
                      exited' = "no", transfer'.kind = "otc",
                      transfer'.channel.control.step = "DECREMENT",
                      Size(transfer'.channel) <= RamWords,
                      NEW i \in 0 .. Done(transfer') - 1
               PROVE  IsEntry(ram'[RamAddr(transfer'.channel.base - 4 * i)],
                              transfer'.channel.base, Size(transfer'.channel), i)
    BY DEF TableSoFar
  <1>1. transfer' # Idle
    BY IdleKind
  <1>2. CASE CpuStep
    <2>1. PICK p \in Ports, c \in Channel : transfer' = Begin(p, c)
      BY <1>1, <1>2, StoreOutcome
    <2>2. transfer'.channel = c /\ transfer'.words = Size(c) /\ Size(c) \in Nat
      BY <2>1, BeginLocals, WordAddrType
    <2>3. Done(transfer') = 0
      BY <2>2 DEF Done
    <2> QED BY <2>3
  <1>3. CASE TransferStep
    <2> DEFINE c == transfer.channel
               n == Done(transfer)
               addr == RamAddr(c.base - 4 * n)
    <2>1. /\ ClearWord /\ exited = "no" /\ transfer.kind = "otc"
          /\ Runs("otc") /\ transfer.words > 0 /\ BlockTurn
      BY <1>1, <1>3, KindSteps DEF ClearWord
    <2>2. /\ transfer'.channel = c /\ Done(transfer') = n + 1 /\ n \in Nat
          /\ transfer'.words = transfer.words - 1
          /\ RamAddr(transfer.addr) = RamAddr(WordAddr(c, n))
      BY <2>1, BlockTurnSoFar
    <2>3. transfer \in Transfers /\ transfer.words \in Nat
      BY <2>1, RunsFacts
    <2>4. c \in Channel
      BY <2>3 DEF Transfers
    <2>5. Size(c) \in Nat /\ c.base \in Nat /\ RamWords \in Nat
      BY <2>4, WordAddrType, DmaAssumption
    <2>6. RamAddr(transfer.addr) = addr
      BY <2>2 DEF WordAddr
    <2>7. addr \in RamAddrs
      BY <2>2, <2>5, RamAddrType
    <2>8. ram \in [RamAddrs -> Word] /\ ram' = [ram EXCEPT ![addr] = TableEntry]
      BY <2>1, <2>6 DEF ClearWord, IInv, MemoryOK
    <2>9. n < Size(c) /\ Size(c) <= RamWords
      BY <2>1, <2>2, <2>3, <2>5 DEF Done
    <2>10. IsEntry(TableEntry, c.base, Size(c), n)
      BY <2>1, <2>2, EntryDue
    <2> HIDE DEF c, n
    <2>11. CASE i = n
      BY <2>2, <2>7, <2>8, <2>10, <2>11 DEF c
    <2>12. CASE i # n
      <3>1. i \in 0 .. n - 1 /\ i \in Nat /\ i < n /\ n - i < RamWords /\ c.base - 4 * i \in Int
        BY <2>2, <2>5, <2>9, <2>12
      <3>2. RamAddr(c.base - 4 * i) # addr
        BY <2>2, <2>5, <3>1, BlockWordsDiffer
      <3>3. RamAddr(c.base - 4 * i) \in RamAddrs
        BY <3>1, RamAddrType
      <3>4. ram'[RamAddr(c.base - 4 * i)] = ram[RamAddr(c.base - 4 * i)]
        BY <2>7, <2>8, <3>2, <3>3
      <3>5. IsEntry(ram[RamAddr(c.base - 4 * i)], c.base, Size(c), i)
        BY <2>1, <2>2, <2>9, <3>1 DEF TableSoFar, c, n
      <3> QED BY <2>2, <3>4, <3>5
    <2> QED BY <2>11, <2>12
  <1>4. CASE UNCHANGED vars
    BY <1>4 DEF vars, TableSoFar
  <1> QED BY <1>2, <1>3, <1>4 DEF Next

(* A cleared ordering table that fits in RAM is a list from its base on.   *)
THEOREM TableTheorem == Spec => OtcBuildsTable
  <1> DEFINE Builds ==
        (/\ Completes("otc")
         /\ transfer.channel.control.step = "DECREMENT"
         /\ Total <= RamWords)
           => IsTable(ram', Base, Total)
  <1>1. Init => BlockSoFar /\ TableSoFar
    BY IdleKind DEF Init, BlockSoFar, TableSoFar
  <1>2. IInv /\ BlockSoFar /\ TableSoFar /\ [Next]_vars => (BlockSoFar /\ TableSoFar)'
    BY BlockSoFarStep, TableSoFarStep
  <1>3. ASSUME IInv, BlockSoFar, TableSoFar, [Next]_vars, Completes("otc"),
               transfer.channel.control.step = "DECREMENT", Total <= RamWords
        PROVE  IsTable(ram', Base, Total)
    <2>1. /\ exited = "no" /\ transfer.kind = "otc" /\ ram' = ram
          /\ Done(transfer) = Size(transfer.channel)
      BY <1>3, BlockCompletes
    <2>2. \A i \in 0 .. Total - 1 : IsEntry(ram[RamAddr(Base - 4 * i)], Base, Total, i)
      BY <1>3, <2>1 DEF TableSoFar, Base, Total, Size
    <2> QED BY <2>1, <2>2 DEF IsTable, IsEntry
  <1>4. IInv /\ BlockSoFar /\ TableSoFar /\ [Next]_vars => [Builds]_vars
    BY <1>3
  <1> QED BY <1>1, <1>2, <1>4, Invariance, PTL DEF Spec, OtcBuildsTable

-----------------------------------------------------------------------------
(* Lists.  The nodes and packets of the list that RAM holds, with the RAM  *)
(* as a parameter: a transfer of a list leaves RAM alone, so that they are *)
(* the same before and after each of its steps.                            *)
NodesFrom(r, base) ==
    LET node[n \in Nat] ==
          IF n = 0 THEN RamAddr(base) ELSE RamAddr(r[node[n - 1]].next)
    IN  node

PacketAt(r, a) == [j \in 1 .. r[a].size |-> r[RamAddr(a + 4 * j)]]
PrefixAt(r, a, k) == [j \in 1 .. k |-> r[RamAddr(a + 4 * j)]]

PacketsFrom(r, base) ==
    LET packets[n \in Nat] ==
          IF n = 0 THEN PacketAt(r, NodesFrom(r, base)[0])
          ELSE packets[n - 1] \o PacketAt(r, NodesFrom(r, base)[n])
    IN  packets

LEMMA ListOfRam ==
    \A b : Node(b) = NodesFrom(ram, b) /\ Packets(b) = PacketsFrom(ram, b)
  BY DEF Node, NodesFrom, Packet, PacketAt, Packets, PacketsFrom

LEMMA WordFields ==
    \A w \in Word : w.size \in Nat /\ w.end \in BOOLEAN /\ w.next \in Nat
  BY DmaAssumption DEF Word, RamBytes

(* The recursion of the nodes has a solution, which is what Node is.       *)
LEMMA NodesUnfold ==
    ASSUME NEW r \in [RamAddrs -> Word], NEW b \in Nat
    PROVE  LET N == NodesFrom(r, b) IN
           /\ N \in [Nat -> RamAddrs]
           /\ N[0] = RamAddr(b)
           /\ \A n \in Nat : N[n + 1] = RamAddr(r[N[n]].next)
  <1> DEFINE next == [a \in RamAddrs |-> RamAddr(r[a].next)]
             F == [n \in Nat |-> next]
             x == RamAddr(b)
  <1>1. x \in RamAddrs
    BY RamAddrType
  <1>2. \A a \in RamAddrs : RamAddr(r[a].next) \in RamAddrs
    BY WordFields, RamAddrType
  <1>3. next \in [RamAddrs -> RamAddrs]
    BY <1>2
  <1>4. F \in [Nat -> [RamAddrs -> RamAddrs]]
    BY <1>3
  <1> HIDE DEF F, x
  <1>5. PICK f \in [Nat -> RamAddrs] : Solves(f, x, F)
    BY <1>1, <1>4, Recursion
  <1>6. ASSUME NEW n \in Nat, n # 0 PROVE F[n][f[n - 1]] = RamAddr(r[f[n - 1]].next)
    <2>1. n - 1 \in Nat /\ f[n - 1] \in RamAddrs
      BY <1>5, <1>6
    <2> QED BY <2>1 DEF F
  <1>7. f = [n \in Nat |-> IF n = 0 THEN RamAddr(b) ELSE RamAddr(r[f[n - 1]].next)]
    BY <1>5, <1>6 DEF x, Solves
  <1> DEFINE N == NodesFrom(r, b)
  <1>8. N = [n \in Nat |-> IF n = 0 THEN RamAddr(b) ELSE RamAddr(r[N[n - 1]].next)]
    BY <1>7 DEF NodesFrom
  <1> HIDE DEF N
  <1>9. N \in [Nat -> RamAddrs]
    <2> DEFINE T == {n \in Nat : N[n] \in RamAddrs}
    <2>1. 0 \in T
      BY <1>1, <1>8 DEF x
    <2>2. ASSUME NEW n \in Nat, n \in T PROVE n + 1 \in T
      BY <1>2, <1>8, <2>2
    <2> HIDE DEF T
    <2>3. Nat \subseteq T
      BY <2>1, <2>2, InductionSet
    <2>4. \A n \in Nat : N[n] \in RamAddrs
      BY <2>3 DEF T
    <2> QED BY <1>8, <2>4
  <1>10. \A n \in Nat : n + 1 \in Nat /\ n + 1 # 0 /\ (n + 1) - 1 = n
    OBVIOUS
  <1>11. \A n \in Nat : N[n + 1] = RamAddr(r[N[n]].next)
    BY <1>8, <1>10
  <1> QED BY <1>8, <1>9, <1>11 DEF N

(* A packet, and a prefix of one, are sequences of words.                  *)
LEMMA PacketType ==
    ASSUME NEW r \in [RamAddrs -> Word], NEW a \in RamAddrs
    PROVE  /\ r[a].size \in Nat
           /\ PacketAt(r, a) = PrefixAt(r, a, r[a].size)
           /\ PrefixAt(r, a, 0) = <<>>
           /\ \A k \in Nat :
                /\ PrefixAt(r, a, k) \in Seq(Word)
                /\ r[RamAddr(a + 4 * (k + 1))] \in Word
                /\ PrefixAt(r, a, k + 1) = Append(PrefixAt(r, a, k), r[RamAddr(a + 4 * (k + 1))])
  <1>1. r[a].size \in Nat
    BY WordFields
  <1>2. PacketAt(r, a) = PrefixAt(r, a, r[a].size) /\ PrefixAt(r, a, 0) = <<>>
    BY DEF PacketAt, PrefixAt
  <1>3. a \in Int
    BY RamAddrType
  <1>4. ASSUME NEW j \in Int PROVE r[RamAddr(a + 4 * j)] \in Word
    <2>1. a + 4 * j \in Int
      BY <1>3
    <2>2. RamAddr(a + 4 * j) \in RamAddrs
      BY <2>1, RamAddrType
    <2> QED BY <2>2
  <1>5. ASSUME NEW k \in Nat
        PROVE  /\ PrefixAt(r, a, k) \in Seq(Word)
               /\ r[RamAddr(a + 4 * (k + 1))] \in Word
               /\ PrefixAt(r, a, k + 1) = Append(PrefixAt(r, a, k), r[RamAddr(a + 4 * (k + 1))])
    <2> DEFINE g == PrefixAt(r, a, k + 1)
    <2>1. g \in [1 .. k + 1 -> Word]
      BY <1>4 DEF PrefixAt
    <2>2. PrefixAt(r, a, k) = [i \in 1 .. k |-> g[i]]
      BY DEF PrefixAt
    <2>3. g[k + 1] = r[RamAddr(a + 4 * (k + 1))]
      BY DEF PrefixAt
    <2>4. [i \in 1 .. k |-> g[i]] \in Seq(Word)
      BY <2>1
    <2>5. r[RamAddr(a + 4 * (k + 1))] \in Word
      <3>1. k + 1 \in Int
        OBVIOUS
      <3> QED BY <1>4, <3>1, Zenon
    <2> HIDE DEF g
    <2>6. Append([i \in 1 .. k |-> g[i]], g[k + 1]) = g
      BY <2>1, AppendFunction
    <2> QED BY <2>2, <2>3, <2>4, <2>5, <2>6 DEF g
  <1> QED BY <1>1, <1>2, <1>5

(* The recursion of the packets has a solution, too.                       *)
LEMMA PacketsUnfold ==
    ASSUME NEW r \in [RamAddrs -> Word], NEW b \in Nat
    PROVE  LET N == NodesFrom(r, b)
               P == PacketsFrom(r, b)
           IN  /\ P \in [Nat -> Seq(Word)]
               /\ P[0] = PacketAt(r, N[0])
               /\ \A n \in Nat : P[n + 1] = P[n] \o PacketAt(r, N[n + 1])
  <1> DEFINE N == NodesFrom(r, b)
             P == PacketsFrom(r, b)
             S == Seq(Word)
             x == PacketAt(r, N[0])
             F == [n \in Nat |-> [s \in S |-> s \o PacketAt(r, N[n])]]
  <1>1. N \in [Nat -> RamAddrs]
    BY NodesUnfold
  <1> HIDE DEF N
  <1>2. ASSUME NEW n \in Nat PROVE PacketAt(r, N[n]) \in S
    <2>1. N[n] \in RamAddrs
      BY <1>1
    <2> HIDE DEF N
    <2>2. /\ r[N[n]].size \in Nat /\ PacketAt(r, N[n]) = PrefixAt(r, N[n], r[N[n]].size)
          /\ \A k \in Nat : PrefixAt(r, N[n], k) \in Seq(Word)
      BY <2>1, PacketType
    <2> QED BY <2>2
  <1>3. x \in S
    BY <1>2
  <1>4. \A n \in Nat, s \in S : s \o PacketAt(r, N[n]) \in S
    BY <1>2, ConcatProperties
  <1> HIDE DEF S
  <1>5. F \in [Nat -> [S -> S]]
    BY <1>4
  <1> HIDE DEF F, x
  <1>6. PICK f \in [Nat -> S] : Solves(f, x, F)
    BY <1>3, <1>5, Recursion
  <1>7. ASSUME NEW n \in Nat, n # 0 PROVE F[n][f[n - 1]] = f[n - 1] \o PacketAt(r, N[n])
    <2>1. n - 1 \in Nat /\ f[n - 1] \in S
      BY <1>6, <1>7
    <2> QED BY <2>1 DEF F
  <1>8. f = [n \in Nat |-> IF n = 0 THEN PacketAt(r, N[0])
                           ELSE f[n - 1] \o PacketAt(r, N[n])]
    BY <1>6, <1>7 DEF x, Solves
  <1>9. P = [n \in Nat |-> IF n = 0 THEN PacketAt(r, N[0])
                           ELSE P[n - 1] \o PacketAt(r, N[n])]
    BY <1>8 DEF PacketsFrom, N
  <1> HIDE DEF P
  <1>10. \A n \in Nat : n + 1 \in Nat /\ n + 1 # 0 /\ (n + 1) - 1 = n
    OBVIOUS
  <1>11. \A n \in Nat : P[n + 1] = P[n] \o PacketAt(r, N[n + 1])
    BY <1>9, <1>10
  <1>12. P \in [Nat -> S]
    <2> DEFINE T == {n \in Nat : P[n] \in S}
    <2>1. 0 \in T
      BY <1>3, <1>9 DEF x
    <2>2. ASSUME NEW n \in Nat, n \in T PROVE n + 1 \in T
      BY <1>4, <1>10, <1>11, <1>2, <2>2
    <2> HIDE DEF T
    <2>3. Nat \subseteq T
      BY <2>1, <2>2, InductionSet
    <2>4. \A n \in Nat : P[n] \in S
      BY <2>3 DEF T
    <2> QED BY <1>9, <2>4
  <1> QED BY <1>9, <1>11, <1>12 DEF P, N, S

(* What the packets before node n have sent.                               *)
Before(r, base, n) == IF n = 0 THEN <<>> ELSE PacketsFrom(r, base)[n - 1]

LEMMA BeforeStep ==
    ASSUME NEW r \in [RamAddrs -> Word], NEW b \in Nat, NEW n \in Nat
    PROVE  LET a == NodesFrom(r, b)[n] IN
           /\ a \in RamAddrs
           /\ Before(r, b, n) \in Seq(Word)
           /\ Before(r, b, n) \o PacketAt(r, a) = PacketsFrom(r, b)[n]
           /\ Before(r, b, n + 1) = PacketsFrom(r, b)[n]
  <1> DEFINE N == NodesFrom(r, b)
             P == PacketsFrom(r, b)
  <1>1. N \in [Nat -> RamAddrs]
    BY NodesUnfold
  <1>2. /\ P \in [Nat -> Seq(Word)] /\ P[0] = PacketAt(r, N[0])
        /\ \A m \in Nat : P[m + 1] = P[m] \o PacketAt(r, N[m + 1])
    BY PacketsUnfold
  <1> HIDE DEF N, P
  <1>3. Before(r, b, n + 1) = P[n]
    <2>1. n + 1 # 0 /\ (n + 1) - 1 = n
      OBVIOUS
    <2> QED BY <2>1 DEF Before, P
  <1>4. CASE n = 0
    <2>1. Before(r, b, n) = <<>>
      BY <1>4 DEF Before
    <2>2. P[0] \in Seq(Word) /\ <<>> \in Seq(Word)
      BY <1>2, EmptySeq
    <2>3. <<>> \o PacketAt(r, N[0]) = P[0]
      BY <1>2, <2>2, ConcatEmptySeq
    <2>4. N[n] \in RamAddrs
      BY <1>1
    <2> QED BY <1>3, <1>4, <2>1, <2>2, <2>3, <2>4 DEF N, P
  <1>5. CASE n # 0
    <2>1. n - 1 \in Nat /\ (n - 1) + 1 = n
      BY <1>5
    <2>2. Before(r, b, n) = P[n - 1]
      BY <1>5 DEF Before, P
    <2>3. P[n - 1] \in Seq(Word) /\ P[n] = P[n - 1] \o PacketAt(r, N[n]) /\ N[n] \in RamAddrs
      <3>1. P[(n - 1) + 1] = P[n - 1] \o PacketAt(r, N[(n - 1) + 1])
        BY <1>2, <2>1
      <3> QED BY <1>1, <1>2, <2>1, <3>1
    <2> QED BY <1>3, <2>2, <2>3 DEF N, P
  <1> QED BY <1>4, <1>5

(* If two of the first nodes are the same, the list goes round in circles. *)
LEMMA Circles ==
    ASSUME NEW r \in [RamAddrs -> Word], NEW b \in Nat, NEW i \in Nat, NEW j \in Nat,
           NodesFrom(r, b)[i] = NodesFrom(r, b)[j]
    PROVE  \A k \in Nat : NodesFrom(r, b)[i + k] = NodesFrom(r, b)[j + k]
  <1> DEFINE N == NodesFrom(r, b)
             T == {k \in Nat : N[i + k] = N[j + k]}
  <1>1. \A n \in Nat : N[n + 1] = RamAddr(r[N[n]].next)
    BY NodesUnfold
  <1>2. N[i] = N[j]
    OBVIOUS
  <1> HIDE DEF N
  <1>3. 0 \in T
    BY <1>2
  <1>4. ASSUME NEW k \in Nat, k \in T PROVE k + 1 \in T
    <2>1. N[i + k] = N[j + k]
      BY <1>4
    <2>2. N[(i + k) + 1] = RamAddr(r[N[i + k]].next)
          /\ N[(j + k) + 1] = RamAddr(r[N[j + k]].next)
      BY <1>1
    <2>3. (i + k) + 1 = i + (k + 1) /\ (j + k) + 1 = j + (k + 1)
      OBVIOUS
    <2> QED BY <2>1, <2>2, <2>3
  <1> HIDE DEF T
  <1>5. Nat \subseteq T
    BY <1>3, <1>4, InductionSet
  <1> QED BY <1>5 DEF T, N

(* Two of the nodes 0 .. RamWords are the same word of RAM.                *)
LEMMA SomeNodeTwice ==
    ASSUME NEW r \in [RamAddrs -> Word], NEW b \in Nat
    PROVE  \E i \in Nat, j \in Nat :
              i < j /\ j <= RamWords /\ NodesFrom(r, b)[i] = NodesFrom(r, b)[j]
  <1> DEFINE N == NodesFrom(r, b)
             S == 0 .. RamWords
             T == 0 .. RamWords - 1
             f == [m \in S |-> N[m] \div 4]
  <1>1. RamWords \in Nat \ {0}
    BY DmaAssumption
  <1>2. N \in [Nat -> RamAddrs]
    BY NodesUnfold
  <1> HIDE DEF N
  <1>3. \A a \in RamAddrs : a \div 4 \in T /\ a = 4 * (a \div 4)
    BY <1>1 DEF RamAddrs
  <1>4. f \in [S -> T]
    BY <1>1, <1>2, <1>3
  <1>5. IsFiniteSet(S) /\ IsFiniteSet(T) /\ Cardinality(T) < Cardinality(S)
    BY <1>1, FS_Interval
  <1> HIDE DEF f, S, T
  <1>6. PICK x, y \in S : x # y /\ f[x] = f[y]
    BY <1>4, <1>5, FS_PigeonHole
  <1>7. x \in Nat /\ y \in Nat /\ x <= RamWords /\ y <= RamWords /\ N[x] = N[y]
    <2>1. x \in Nat /\ y \in Nat /\ x <= RamWords /\ y <= RamWords
      BY <1>1 DEF S
    <2>2. N[x] \div 4 = N[y] \div 4
      BY <1>6 DEF f
    <2>3. N[x] \in RamAddrs /\ N[y] \in RamAddrs
      BY <1>2, <2>1
    <2> QED BY <1>3, <2>1, <2>2, <2>3
  <1>8. x < y \/ y < x
    BY <1>6, <1>7
  <1> QED BY <1>7, <1>8 DEF N

(* A list whose first RamWords nodes are no end has no end at all.         *)
LEMMA NeverEnds ==
    ASSUME NEW r \in [RamAddrs -> Word], NEW b \in Nat,
           \A m \in 0 .. RamWords - 1 : ~r[NodesFrom(r, b)[m]].end
    PROVE  \A n \in Nat : ~r[NodesFrom(r, b)[n]].end
  <1> DEFINE N == NodesFrom(r, b)
             T == {n \in Nat : r[N[n]].end}
  <1> SUFFICES ASSUME T # {} PROVE FALSE
    OBVIOUS
  <1>1. PICK n \in T : \A m \in T : ~(m < n)
    BY LeastNumber
  <1>2. PICK i \in Nat, j \in Nat : i < j /\ j <= RamWords /\ N[i] = N[j]
    BY SomeNodeTwice
  <1>3. RamWords \in Nat \ {0}
    BY DmaAssumption
  <1>4. n \in Nat /\ r[N[n]].end /\ ~(n < RamWords)
    BY <1>1, <1>3
  <1> DEFINE k == n - j
  <1>5. k \in Nat /\ j + k = n /\ i + k \in Nat /\ i + k < n
    BY <1>2, <1>3, <1>4
  <1> HIDE DEF k
  <1>6. N[i + k] = N[j + k]
    <2> HIDE DEF T
    <2>1. \A h \in Nat : N[i + h] = N[j + h]
      BY <1>2, Circles
    <2> QED BY <1>5, <2>1
  <1>7. i + k \in T
    BY <1>4, <1>5, <1>6
  <1> QED BY <1>1, <1>5, <1>7

(* Where a list is: no node so far is an end, and what has been sent is    *)
(* the packets before this node and the words of this one that are done.   *)
AtNode == NodesFrom(ram, transfer.channel.base)[transfer.nodes]
InPacket == ram[AtNode].size - transfer.words

ListSoFar ==
    exited = "no" /\ transfer.kind = "list" =>
      /\ \A m \in 0 .. transfer.nodes - 1 :
            ~ram[NodesFrom(ram, transfer.channel.base)[m]].end
      /\ transfer.phase = "header" =>
           /\ transfer.addr = AtNode
           /\ sent = Before(ram, transfer.channel.base, transfer.nodes)
      /\ transfer.phase = "packet" =>
           /\ transfer.header = ram[AtNode]
           /\ transfer.words <= ram[AtNode].size
           /\ transfer.addr = RamAddr(AtNode + 4 * InPacket)
           /\ sent = Before(ram, transfer.channel.base, transfer.nodes)
                     \o PrefixAt(ram, AtNode, InPacket)

(* A list that was given up has gone through as many nodes as RAM has words. *)
GivenUpEndless ==
    exited = "endless" =>
      /\ transfer \in Transfers
      /\ \A m \in 0 .. RamWords - 1 :
            ~ram[NodesFrom(ram, transfer.channel.base)[m]].end

(* A word goes to the end of the packet that is under way.                 *)
LEMMA AppendAfterConcat ==
    ASSUME NEW s \in Seq(Word), NEW t \in Seq(Word), NEW v \in Word
    PROVE  Append(s \o t, v) = s \o Append(t, v)
  <1> DEFINE a == Append(s \o t, v)
             b == s \o Append(t, v)
  <1>1. /\ s \o t \in Seq(Word) /\ Len(s \o t) = Len(s) + Len(t)
        /\ \A i \in 1 .. Len(s) + Len(t) :
              (s \o t)[i] = IF i <= Len(s) THEN s[i] ELSE t[i - Len(s)]
    BY ConcatProperties
  <1>2. /\ Append(t, v) \in Seq(Word) /\ Len(Append(t, v)) = Len(t) + 1
        /\ \A i \in 1 .. Len(t) : Append(t, v)[i] = t[i]
        /\ Append(t, v)[Len(t) + 1] = v
    OBVIOUS
  <1>3. /\ b \in Seq(Word) /\ Len(b) = Len(s) + (Len(t) + 1)
        /\ \A i \in 1 .. Len(s) + (Len(t) + 1) :
              b[i] = IF i <= Len(s) THEN s[i] ELSE Append(t, v)[i - Len(s)]
    BY <1>2, ConcatProperties
  <1>4. /\ a \in Seq(Word) /\ Len(a) = Len(s) + Len(t) + 1
        /\ \A i \in 1 .. Len(s) + Len(t) : a[i] = (s \o t)[i]
        /\ a[Len(s) + Len(t) + 1] = v
    BY <1>1
  <1>5. Len(s) \in Nat /\ Len(t) \in Nat
    OBVIOUS
  <1> HIDE DEF a, b
  <1>6. ASSUME NEW i \in 1 .. Len(a) PROVE a[i] = b[i]
    <2>1. CASE i <= Len(s)
      <3>1. i \in 1 .. Len(s) + Len(t) /\ i \in 1 .. Len(s) + (Len(t) + 1)
        BY <1>4, <1>5, <2>1
      <3> QED BY <1>1, <1>3, <1>4, <2>1, <3>1
    <2>3. CASE Len(s) < i /\ i <= Len(s) + Len(t)
      <3>1. i \in 1 .. Len(s) + Len(t) /\ i \in 1 .. Len(s) + (Len(t) + 1)
            /\ i - Len(s) \in 1 .. Len(t) /\ ~(i <= Len(s))
        BY <1>4, <1>5, <2>3
      <3>2. a[i] = t[i - Len(s)] /\ b[i] = Append(t, v)[i - Len(s)]
        BY <1>1, <1>3, <1>4, <3>1
      <3> QED BY <1>2, <3>1, <3>2
    <2>2. CASE i = Len(s) + Len(t) + 1
      <3>1. i - Len(s) = Len(t) + 1 /\ ~(i <= Len(s))
        BY <1>5, <2>2
      <3> QED BY <1>2, <1>3, <1>4, <1>5, <2>2, <3>1
    <2>4. i \in Nat /\ i <= Len(s) + Len(t) + 1
      BY <1>4, <1>5
    <2> QED BY <1>5, <2>1, <2>2, <2>3, <2>4
  <1>7. Len(a) = Len(b)
    BY <1>3, <1>4, <1>5
  <1> QED BY <1>3, <1>4, <1>6, <1>7, SeqEqual DEF a, b

(* What a list transfer knows of its list.                                 *)
LEMMA ListFacts ==
    ASSUME IInv, Runs("list")
    PROVE  /\ transfer \in Transfers /\ exited = "no" /\ transfer.kind = "list"
           /\ ram \in [RamAddrs -> Word]
           /\ transfer.channel.base \in Nat
           /\ transfer.nodes \in Nat /\ transfer.nodes < RamWords
           /\ transfer.words \in Nat
           /\ AtNode \in RamAddrs /\ AtNode \in Int
           /\ ram[AtNode].size \in Nat
  <1>1. /\ transfer \in Transfers /\ exited = "no" /\ transfer.kind = "list"
        /\ transfer.nodes < RamWords /\ transfer.words \in Nat
    BY RunsFacts
  <1>2. ram \in [RamAddrs -> Word]
    BY DEF IInv, MemoryOK
  <1>3. transfer.channel.base \in Nat /\ transfer.nodes \in Nat
    BY <1>1, ChannelFields DEF Transfers
  <1>4. AtNode \in RamAddrs
    BY <1>2, <1>3, BeforeStep DEF AtNode
  <1>5. AtNode \in Int /\ ram[AtNode].size \in Nat
    BY <1>2, <1>4, RamAddrType, PacketType
  <1> QED BY <1>1, <1>2, <1>3, <1>4, <1>5

(* The header of a node is read at the node.                               *)
LEMMA HeaderTurn == ASSUME IInv, ListSoFar, ReadHeader PROVE ListSoFar'
  <1>1. Runs("list") /\ transfer.phase = "header" /\ ram' = ram /\ sent' = sent
        /\ exited' = exited
    BY DEF ReadHeader
  <1>2. /\ transfer \in Transfers /\ exited = "no" /\ transfer.kind = "list"
        /\ ram \in [RamAddrs -> Word] /\ transfer.channel.base \in Nat
        /\ transfer.nodes \in Nat /\ AtNode \in RamAddrs /\ AtNode \in Int
        /\ ram[AtNode].size \in Nat
    BY <1>1, ListFacts
  <1>3. transfer.addr = AtNode /\ sent = Before(ram, transfer.channel.base, transfer.nodes)
    BY <1>1, <1>2 DEF ListSoFar
  <1>4. /\ transfer'.phase = "packet" /\ transfer'.nodes = transfer.nodes
        /\ transfer'.channel = transfer.channel /\ transfer'.kind = "list"
        /\ transfer'.addr = transfer.addr
        /\ transfer'.header = ram[transfer.addr] /\ transfer'.words = ram[transfer.addr].size
    BY <1>2 DEF ReadHeader, Transfers
  <1>5. AtNode' = AtNode /\ InPacket' = 0
    BY <1>1, <1>2, <1>3, <1>4 DEF AtNode, InPacket
  <1>6. RamAddr(AtNode + 4 * 0) = AtNode
    <2>1. AtNode + 4 * 0 = AtNode
      BY <1>2
    <2> QED BY <1>2, <2>1, RamAddrWraps
  <1>7. sent = Before(ram, transfer.channel.base, transfer.nodes) \o PrefixAt(ram, AtNode, 0)
    <2>1. Before(ram, transfer.channel.base, transfer.nodes) \in Seq(Word)
      BY <1>2, BeforeStep
    <2>2. PrefixAt(ram, AtNode, 0) = <<>>
      BY <1>2, PacketType
    <2> QED BY <1>3, <2>1, <2>2, ConcatEmptySeq
  <1>8. \A m \in 0 .. transfer.nodes - 1 :
            ~ram[NodesFrom(ram, transfer.channel.base)[m]].end
    BY <1>2 DEF ListSoFar
  <1>9. transfer'.words <= ram'[AtNode'].size
    BY <1>1, <1>2, <1>3, <1>4, <1>5
  <1> QED BY <1>1, <1>3, <1>4, <1>5, <1>6, <1>7, <1>8, <1>9 DEF ListSoFar

(* One more word of the packet is sent.                                    *)
LEMMA PacketTurn == ASSUME IInv, ListSoFar, PacketWord PROVE ListSoFar'
  <1> DEFINE k == InPacket
             start == Before(ram, transfer.channel.base, transfer.nodes)
  <1>1. /\ Runs("list") /\ transfer.phase = "packet" /\ transfer.words > 0
        /\ ram' = ram
        /\ sent' = Append(sent, ram[RamAddr(transfer.addr + 4)])
    BY DEF PacketWord, Send
  <1>2. /\ transfer \in Transfers /\ exited = "no" /\ transfer.kind = "list"
        /\ ram \in [RamAddrs -> Word] /\ transfer.channel.base \in Nat
        /\ transfer.nodes \in Nat /\ AtNode \in RamAddrs /\ AtNode \in Int
        /\ ram[AtNode].size \in Nat /\ transfer.words \in Nat
    BY <1>1, ListFacts
  <1>3. /\ transfer.header = ram[AtNode] /\ transfer.words <= ram[AtNode].size
        /\ transfer.addr = RamAddr(AtNode + 4 * k)
        /\ sent = start \o PrefixAt(ram, AtNode, k)
        /\ \A m \in 0 .. transfer.nodes - 1 :
              ~ram[NodesFrom(ram, transfer.channel.base)[m]].end
    BY <1>1, <1>2 DEF ListSoFar
  <1>4. /\ transfer'.phase = "packet" /\ transfer'.nodes = transfer.nodes
        /\ transfer'.channel = transfer.channel /\ transfer'.kind = "list"
        /\ transfer'.addr = RamAddr(transfer.addr + 4)
        /\ transfer'.header = transfer.header /\ transfer'.words = transfer.words - 1
    BY <1>1, <1>2 DEF PacketWord, Transfers
  <1>5. AtNode' = AtNode
    BY <1>1, <1>4 DEF AtNode
  <1>6. k \in Nat /\ InPacket' = k + 1
    BY <1>1, <1>2, <1>3, <1>4, <1>5 DEF InPacket
  <1> HIDE DEF k, start
  <1>7. RamAddr(transfer.addr + 4) = RamAddr(AtNode + 4 * (k + 1))
    <2> DEFINE x == AtNode + 4 * k
    <2>1. x \in Int /\ x + 4 * 1 = AtNode + 4 * (k + 1)
      BY <1>2, <1>6
    <2> HIDE DEF x
    <2>2. \A j \in Int : RamAddr(RamAddr(x) + 4 * j) = RamAddr(x + 4 * j)
      BY <2>1, RamAddrWraps
    <2>3. RamAddr(RamAddr(x) + 4 * 1) = RamAddr(x + 4 * 1)
      BY <2>2
    <2>4. RamAddr(x) + 4 * 1 = transfer.addr + 4
      BY <1>3 DEF x
    <2> QED BY <2>1, <2>3, <2>4
  <1>8. sent' = start \o PrefixAt(ram, AtNode, k + 1)
    <2> DEFINE p == PrefixAt(ram, AtNode, k)
               w == ram[RamAddr(AtNode + 4 * (k + 1))]
    <2>1. p \in Seq(Word) /\ w \in Word /\ PrefixAt(ram, AtNode, k + 1) = Append(p, w)
      BY <1>2, <1>6, PacketType
    <2>2. start \in Seq(Word)
      BY <1>2, BeforeStep DEF start
    <2>3. sent = start \o p /\ sent' = Append(sent, w)
      BY <1>1, <1>3, <1>7
    <2> HIDE DEF p, w
    <2>4. Append(start \o p, w) = start \o Append(p, w)
      BY <2>1, <2>2, AppendAfterConcat
    <2> QED BY <2>1, <2>3, <2>4
  <1>9. transfer'.words <= ram'[AtNode'].size
    BY <1>1, <1>2, <1>3, <1>4, <1>5
  <1> QED BY <1>1, <1>3, <1>4, <1>5, <1>6, <1>7, <1>8, <1>9 DEF ListSoFar, start

(* A packet is complete: what has been sent are the packets up to here.    *)
LEMMA PacketComplete ==
    ASSUME IInv, ListSoFar, PacketDone
    PROVE  /\ transfer.header = ram[AtNode]
           /\ sent = PacketsFrom(ram, transfer.channel.base)[transfer.nodes]
           /\ \A m \in 0 .. transfer.nodes - 1 :
                 ~ram[NodesFrom(ram, transfer.channel.base)[m]].end
  <1>1. Runs("list") /\ transfer.phase = "packet" /\ transfer.words = 0
    BY DEF PacketDone
  <1>2. /\ exited = "no" /\ transfer.kind = "list"
        /\ ram \in [RamAddrs -> Word] /\ transfer.channel.base \in Nat
        /\ transfer.nodes \in Nat /\ AtNode \in RamAddrs
        /\ ram[AtNode].size \in Nat
    BY <1>1, ListFacts
  <1>3. InPacket = ram[AtNode].size
    BY <1>1, <1>2 DEF InPacket
  <1>4. PrefixAt(ram, AtNode, InPacket) = PacketAt(ram, AtNode)
    BY <1>2, <1>3, PacketType
  <1>5. Before(ram, transfer.channel.base, transfer.nodes) \o PacketAt(ram, AtNode)
        = PacketsFrom(ram, transfer.channel.base)[transfer.nodes]
    BY <1>2, BeforeStep DEF AtNode
  <1> QED BY <1>1, <1>2, <1>4, <1>5 DEF ListSoFar

(* The transfer goes on to the next node.                                  *)
LEMMA NodeTurn ==
    ASSUME IInv, ListSoFar, NextNode
    PROVE  ListSoFar' /\ GivenUpEndless'
  <1> DEFINE N == NodesFrom(ram, transfer.channel.base)
             n == transfer.nodes
  <1>1. /\ PacketDone /\ Runs("list") /\ ~transfer.header.end
        /\ ram' = ram /\ sent' = sent
    BY DEF NextNode, PacketDone
  <1>2. /\ transfer \in Transfers /\ exited = "no" /\ transfer.kind = "list"
        /\ ram \in [RamAddrs -> Word] /\ transfer.channel.base \in Nat
        /\ n \in Nat /\ n < RamWords
    BY <1>1, ListFacts
  <1>3. /\ transfer.header = ram[N[n]]
        /\ sent = PacketsFrom(ram, transfer.channel.base)[n]
        /\ \A m \in 0 .. n - 1 : ~ram[N[m]].end
    BY <1>1, PacketComplete DEF AtNode
  <1>4. /\ transfer'.phase = "header" /\ transfer'.nodes = n + 1
        /\ transfer'.channel = transfer.channel /\ transfer'.kind = "list"
        /\ transfer'.addr = RamAddr(transfer.header.next)
    BY <1>2 DEF NextNode, Transfers
  <1>5. exited' = IF n + 1 >= RamWords THEN "endless" ELSE "no"
    BY DEF NextNode
  <1>6. N[n + 1] = RamAddr(ram[N[n]].next)
    BY <1>2, NodesUnfold
  <1>7. sent = Before(ram, transfer.channel.base, n + 1)
    BY <1>2, <1>3, BeforeStep
  <1> HIDE DEF n
  <1>8. AtNode' = N[n + 1]
    BY <1>1, <1>4 DEF AtNode
  <1> HIDE DEF N
  <1>9. \A m \in 0 .. (n + 1) - 1 : ~ram[N[m]].end
    <2>1. ~ram[N[n]].end
      BY <1>1, <1>3
    <2> QED BY <1>2, <1>3, <2>1
  <1>10. ListSoFar'
    BY <1>1, <1>3, <1>4, <1>6, <1>7, <1>8, <1>9 DEF ListSoFar, N
  <1>11. GivenUpEndless'
    <2>1. SUFFICES ASSUME exited' = "endless"
                   PROVE  /\ transfer' \in Transfers
                          /\ \A m \in 0 .. RamWords - 1 : ~ram[N[m]].end
      BY <1>1, <1>4 DEF GivenUpEndless, N
    <2>2. RamWords \in Nat \ {0}
      BY DmaAssumption
    <2>3. n + 1 = RamWords
      BY <1>2, <1>5, <2>1, <2>2
    <2>4. transfer' \in Transfers
      <3>1. IInv'
        BY TransferStepInv DEF TransferStep
      <3>2. transfer' # Idle
        BY <1>4, IdleKind
      <3> QED BY <3>1, <3>2 DEF IInv, TransferOK
    <2> QED BY <1>9, <2>3, <2>4
  <1> QED BY <1>10, <1>11

(* A transfer of a list begins at its base, with nothing sent.             *)
LEMMA ListBegins ==
    ASSUME IInv, CpuStep, transfer'.kind = "list"
    PROVE  ListSoFar'
  <1>1. transfer' # Idle
    BY IdleKind
  <1>2. PICK p \in Ports, c \in Channel : transfer' = Begin(p, c)
    BY <1>1, StoreOutcome
  <1>3. sent' = <<>> /\ ram' = ram
    BY <1>1, StoreOutcome
  <1>4. /\ transfer'.channel = c /\ transfer'.nodes = 0 /\ transfer'.phase = "header"
        /\ transfer'.addr = RamAddr(c.base)
    BY <1>2, BeginLocals
  <1>5. c.base \in Nat /\ ram \in [RamAddrs -> Word]
    BY ChannelFields DEF IInv, MemoryOK
  <1>6. NodesFrom(ram, c.base)[0] = RamAddr(c.base)
    BY <1>5, NodesUnfold
  <1>7. AtNode' = RamAddr(c.base)
    BY <1>3, <1>4, <1>6 DEF AtNode
  <1>8. Before(ram, c.base, 0) = <<>>
    BY DEF Before
  <1>9. 0 .. 0 - 1 = {}
    OBVIOUS
  <1> QED BY <1>3, <1>4, <1>7, <1>8, <1>9 DEF ListSoFar

LEMMA ListStep ==
    IInv /\ ListSoFar /\ GivenUpEndless /\ [Next]_vars => ListSoFar' /\ GivenUpEndless'
  <1> SUFFICES ASSUME IInv, ListSoFar, GivenUpEndless, [Next]_vars
               PROVE  ListSoFar' /\ GivenUpEndless'
    OBVIOUS
  <1>1. CASE CpuStep
    <2>1. exited' # "endless"
      BY <1>1 DEF CpuStep, RegisterStore, dma_channel_set_base, dma_channel_set_block_control,
                  dma_channel_set_control, ram_store, CpuRuns, Written
    <2>2. CASE transfer'.kind = "list"
      BY <1>1, <2>1, <2>2, ListBegins DEF GivenUpEndless
    <2>3. CASE transfer'.kind # "list"
      BY <2>1, <2>3 DEF ListSoFar, GivenUpEndless
    <2> QED BY <2>2, <2>3
  <1>2. CASE UploadWord
    BY <1>2, RunsFacts DEF UploadWord, Send, BlockTurn, Runs, ListSoFar, GivenUpEndless, Transfers
  <1>3. CASE ClearWord
    BY <1>3, RunsFacts DEF ClearWord, BlockTurn, Runs, ListSoFar, GivenUpEndless, Transfers
  <1>4. CASE BlockDone
    BY <1>4, IdleKind DEF BlockDone, Finish, Runs, ListSoFar, GivenUpEndless
  <1>5. CASE LastNode
    BY <1>5, IdleKind DEF LastNode, PacketDone, Finish, Runs, ListSoFar, GivenUpEndless
  <1>6. CASE ReadHeader
    BY <1>6, HeaderTurn DEF ReadHeader, Runs, GivenUpEndless
  <1>7. CASE PacketWord
    BY <1>7, PacketTurn DEF PacketWord, Send, GivenUpEndless
  <1>8. CASE NextNode
    BY <1>8, NodeTurn
  <1>9. CASE UNCHANGED vars
    BY <1>9 DEF vars, ListSoFar, GivenUpEndless, AtNode, InPacket
  <1> QED BY <1>1, <1>2, <1>3, <1>4, <1>5, <1>6, <1>7, <1>8, <1>9 DEF Next, TransferStep

LEMMA ListInvariance == Spec => [](IInv /\ ListSoFar /\ GivenUpEndless)
  <1>1. Init => ListSoFar /\ GivenUpEndless
    BY IdleKind DEF Init, ListSoFar, GivenUpEndless
  <1> QED BY <1>1, ListStep, Invariance, PTL DEF Spec

(* A list transfer completes at its last node.                             *)
LEMMA ListCompletes ==
    ASSUME IInv, [Next]_vars, Completes("list")
    PROVE  LastNode
  <1>1. transfer.kind = "list" /\ transfer' = Idle
    BY DEF Completes
  <1>2. transfer # Idle
    BY <1>1, IdleKind
  <1>3. ~CpuStep
    BY <1>2 DEF CpuStep, RegisterStore, dma_channel_set_base, dma_channel_set_block_control,
                dma_channel_set_control, ram_store, CpuRuns
  <1>4. ~UNCHANGED vars
    BY <1>1, <1>2 DEF vars
  <1>5. ~UploadWord /\ ~ClearWord /\ ~BlockDone
    BY <1>1 DEF UploadWord, ClearWord, BlockDone, Runs
  <1>6. transfer \in Transfers
    BY <1>2 DEF IInv, TransferOK
  <1>7. ~ReadHeader /\ ~PacketWord /\ ~NextNode
    <2>1. transfer'.kind = "none"
      BY <1>1, IdleKind
    <2> QED BY <1>1, <1>6, <2>1 DEF ReadHeader, PacketWord, NextNode, Transfers
  <1> QED BY <1>3, <1>4, <1>5, <1>7 DEF Next, TransferStep

(* A list that has an end is sent, all its packets in order and nothing    *)
(* else: the walk of do_dma_linked_list, whatever the program left in RAM. *)
THEOREM ListTheorem == Spec => ListSendsPackets
  <1> DEFINE Sends ==
        Completes("list") => \E n \in 0 .. RamWords - 1 :
          EndsAt(Base, n) /\ sent' = Packets(Base)[n]
  <1>1. ASSUME IInv, ListSoFar, [Next]_vars, Completes("list") PROVE Sends
    <2> DEFINE n == transfer.nodes
    <2>1. LastNode /\ PacketDone /\ Runs("list") /\ transfer.header.end /\ sent' = sent
      BY <1>1, ListCompletes DEF LastNode, PacketDone, Finish
    <2>2. /\ transfer.header = ram[AtNode]
          /\ sent = PacketsFrom(ram, transfer.channel.base)[n]
          /\ \A m \in 0 .. n - 1 : ~ram[NodesFrom(ram, transfer.channel.base)[m]].end
      BY <1>1, <2>1, PacketComplete
    <2>3. n \in 0 .. RamWords - 1
      <3>1. n \in Nat /\ n < RamWords /\ RamWords \in Nat
        BY <1>1, <2>1, ListFacts, DmaAssumption
      <3> QED BY <3>1
    <2>4. EndsAt(Base, n)
      BY <2>1, <2>2, ListOfRam DEF EndsAt, Base, AtNode
    <2>5. sent' = Packets(Base)[n]
      BY <2>1, <2>2, ListOfRam DEF Base
    <2> QED BY <2>3, <2>4, <2>5
  <1>2. IInv /\ ListSoFar /\ [Next]_vars => [Sends]_vars
    BY <1>1
  <1> QED BY <1>2, ListInvariance, PTL DEF Spec, ListSendsPackets

(* A list that is given up has no end, however far it is followed.         *)
THEOREM EndlessTheorem ==
    Spec => [](exited = "endless" => \A n \in Nat : ~ram[Node(Base)[n]].end)
  <1>1. ASSUME IInv, GivenUpEndless, exited = "endless"
        PROVE  \A n \in Nat : ~ram[Node(Base)[n]].end
    <2>1. /\ transfer.channel \in Channel
          /\ \A m \in 0 .. RamWords - 1 : ~ram[NodesFrom(ram, Base)[m]].end
      BY <1>1 DEF GivenUpEndless, Transfers, Base
    <2>2. Base \in Nat
      BY <2>1, ChannelFields DEF Base
    <2>3. ram \in [RamAddrs -> Word]
      BY <1>1 DEF IInv, MemoryOK
    <2>4. \A n \in Nat : ~ram[NodesFrom(ram, Base)[n]].end
      BY <2>1, <2>2, <2>3, NeverEnds
    <2> QED BY <2>4, ListOfRam
  <1> QED BY <1>1, ListInvariance, PTL

(* The count of nodes, which does not look for a cycle, is right.          *)
THEOREM GivenUpTheorem == Spec => []OnlyEndlessGivenUp
  <1>1. ASSUME exited = "endless" => \A n \in Nat : ~ram[Node(Base)[n]].end
        PROVE  OnlyEndlessGivenUp
    <2>1. \A n \in 0 .. RamWords : n \in Nat
      BY DmaAssumption
    <2> QED BY <1>1, <2>1 DEF OnlyEndlessGivenUp, EndsAt
  <1> QED BY <1>1, EndlessTheorem, PTL

-----------------------------------------------------------------------------
(***************************************************************************)
(* The end of a transfer.                                                  *)
(***************************************************************************)

(* How many steps a transfer may still take.  A node takes one to read its *)
(* header, at most 255 for its words and one to go on; 258 is more.        *)
StepsLeft ==
    IF transfer.kind # "list" THEN transfer.words + 1
    ELSE 258 * (RamWords - transfer.nodes)
         + (IF transfer.phase = "header" THEN 257 ELSE transfer.words + 1)

Approach ==
    transfer # Idle =>
       StepsLeft \in Nat /\ (transfer' = Idle \/ StepsLeft' < StepsLeft)

(* The number of a transfer is natural, and given by its locals.           *)
LEMMA StepsLeftOf ==
    ASSUME transfer \in Transfers
    PROVE  /\ transfer.words \in Nat /\ transfer.nodes \in 0 .. RamWords /\ RamWords \in Nat
           /\ StepsLeft \in Nat
           /\ transfer.kind # "list" => StepsLeft = transfer.words + 1
           /\ transfer.kind = "list" /\ transfer.phase = "header" =>
                 StepsLeft = 258 * (RamWords - transfer.nodes) + 257
           /\ transfer.kind = "list" /\ transfer.phase # "header" =>
                 StepsLeft = 258 * (RamWords - transfer.nodes) + (transfer.words + 1)
  <1>1. transfer.words \in Nat /\ transfer.nodes \in 0 .. RamWords /\ RamWords \in Nat
    BY DmaAssumption DEF Transfers
  <1> QED BY <1>1 DEF StepsLeft

(* What a step that goes on with the transfer does to the locals counted.  *)
LEMMA Turns ==
    ASSUME IInv, TransferStep, transfer' # Idle
    PROVE  /\ transfer \in Transfers /\ transfer' \in Transfers
           /\ transfer'.kind = transfer.kind
           /\ \/ /\ transfer.kind # "list" /\ transfer.words > 0
                 /\ transfer'.words = transfer.words - 1
              \/ /\ transfer.kind = "list" /\ transfer.phase = "header"
                 /\ transfer'.phase = "packet" /\ transfer'.nodes = transfer.nodes
                 /\ transfer'.words \in 0 .. 255
              \/ /\ transfer.kind = "list" /\ transfer.phase = "packet"
                 /\ transfer'.phase = "packet" /\ transfer'.nodes = transfer.nodes
                 /\ transfer'.words = transfer.words - 1
              \/ /\ transfer.kind = "list" /\ transfer.phase = "packet"
                 /\ transfer'.phase = "header" /\ transfer'.nodes = transfer.nodes + 1
  <1>1. IInv'
    BY TransferStepInv
  <1>2. transfer' \in Transfers
    BY <1>1 DEF IInv, TransferOK
  <1>3. ~BlockDone /\ ~LastNode
    BY DEF BlockDone, LastNode, Finish
  <1>4. CASE UploadWord
    BY <1>2, <1>4, RunsFacts DEF UploadWord, BlockTurn, Runs, Transfers
  <1>5. CASE ClearWord
    BY <1>2, <1>5, RunsFacts DEF ClearWord, BlockTurn, Runs, Transfers
  <1>6. CASE ReadHeader
    <2>1. /\ Runs("list") /\ transfer.phase = "header"
          /\ transfer' = [transfer EXCEPT !.header = ram[transfer.addr],
                                          !.words = ram[transfer.addr].size,
                                          !.phase = "packet"]
      BY <1>6 DEF ReadHeader
    <2>2. transfer \in Transfers /\ transfer.kind = "list" /\ transfer.addr \in RamAddrs
      BY <2>1, RunsFacts
    <2>3. ram[transfer.addr] \in Word
      BY <2>2 DEF IInv, MemoryOK
    <2>4. ram[transfer.addr].size \in 0 .. 255
      BY <2>3 DEF Word
    <2> QED BY <1>2, <2>1, <2>2, <2>4 DEF Transfers
  <1>7. CASE PacketWord
    BY <1>2, <1>7, RunsFacts DEF PacketWord, Transfers
  <1>8. CASE NextNode
    BY <1>2, <1>8, RunsFacts DEF NextNode, PacketDone, Transfers
  <1> QED BY <1>3, <1>4, <1>5, <1>6, <1>7, <1>8 DEF TransferStep

(* Every step of a transfer, of a block, a table or a list of any shape,    *)
(* brings it nearer to its end: what TransferTerminates needs besides       *)
(* fairness.                                                               *)
THEOREM TransferApproachesEnd == Spec => [][Approach]_vars
  <1>1. ASSUME IInv, Next, transfer # Idle, transfer' # Idle PROVE StepsLeft' < StepsLeft
    <2>1. ~CpuStep
      BY <1>1 DEF CpuStep, RegisterStore, dma_channel_set_base, dma_channel_set_block_control,
                  dma_channel_set_control, ram_store, CpuRuns
    <2>2. TransferStep
      BY <1>1, <2>1 DEF Next
    <2>3. /\ transfer.words \in Nat /\ transfer.nodes \in 0 .. RamWords /\ RamWords \in Nat
          /\ transfer.kind # "list" => StepsLeft = transfer.words + 1
          /\ transfer.kind = "list" /\ transfer.phase = "header" =>
                StepsLeft = 258 * (RamWords - transfer.nodes) + 257
          /\ transfer.kind = "list" /\ transfer.phase # "header" =>
                StepsLeft = 258 * (RamWords - transfer.nodes) + (transfer.words + 1)
      BY <1>1, <2>2, Turns, StepsLeftOf
    <2>4. /\ transfer'.words \in Nat /\ transfer'.nodes \in 0 .. RamWords
          /\ transfer'.kind # "list" => StepsLeft' = transfer'.words + 1
          /\ transfer'.kind = "list" /\ transfer'.phase = "header" =>
                StepsLeft' = 258 * (RamWords - transfer'.nodes) + 257
          /\ transfer'.kind = "list" /\ transfer'.phase # "header" =>
                StepsLeft' = 258 * (RamWords - transfer'.nodes) + (transfer'.words + 1)
      <3>1. transfer' \in Transfers
        BY <1>1, <2>2, Turns
      <3> QED BY <3>1, DmaAssumption DEF Transfers, StepsLeft
    <2> QED BY <1>1, <2>2, <2>3, <2>4, Turns
  <1>2. IInv /\ transfer # Idle => StepsLeft \in Nat
    BY StepsLeftOf DEF IInv, TransferOK
  <1>3. IInv /\ [Next]_vars => [Approach]_vars
    BY <1>1, <1>2 DEF Approach
  <1> QED BY <1>3, Invariance, PTL DEF Spec

=============================================================================
