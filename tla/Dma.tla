-------------------------------- MODULE Dma --------------------------------
(***************************************************************************)
(* The DMA channels and their transfers (src/src/hardware/dma.c and        *)
(* do_dma in src/src/memory/interconnect.c).  A register store that leaves *)
(* a channel active runs the whole transfer before the store returns: the  *)
(* CPU waits, and each step below is one turn of a loop of the transfer.   *)
(* Three transfers exist: a block of GP0 words to the GPU, a linked list   *)
(* of GP0 packets to the GPU, and the clearing of an ordering table, which *)
(* writes such a list.  Everything else ends the emulator.                 *)
(***************************************************************************)
EXTENDS Integers, Sequences

CONSTANTS
    RamWords,     \* RAM_SIZE / sizeof(u32), 524288
    MaxBase,      \* a base has 24 bits, more than RAM needs
    Ports,        \* channels in use, among GPU, OTC and others
    \* What the CPU stores: base addresses, block sizes and counts, control
    \* words, and words in RAM.
    Bases, BlockSizes, BlockCounts, Controls, Words

RamBytes == 4 * RamWords
RamAddrs == {4 * i : i \in 0 .. RamWords - 1}

\* A word as DMA reads it: packet size, end marker (bit 23), next node.
Word == [size : 0 .. 255, end : BOOLEAN, next : 0 .. RamBytes - 1]
ZeroWord == [size |-> 0, end |-> FALSE, next |-> 0]
Control == [direction : {"TO_RAM", "FROM_RAM"}, step : {"INCREMENT", "DECREMENT"},
            sync : {"MANUAL", "REQUEST", "LINKED_LIST", "UNKNOWN"},
            enable : BOOLEAN, trigger : BOOLEAN]

ASSUME DmaAssumption ==
    /\ RamWords \in Nat \ {0}
    /\ MaxBase \in Nat
    /\ Bases \subseteq 0 .. MaxBase
    /\ BlockSizes \subseteq Nat /\ BlockCounts \subseteq Nat
    /\ Controls \subseteq Control
    /\ Words \subseteq Word

VARIABLES
    channels,  \* base, block_size, block_count and control of each channel
    ram,
    transfer,  \* the locals of the transfer that is running, or Idle
    sent,      \* the words the transfer has stored to GP0
    exited     \* why the emulator has called exit, or no

vars == <<channels, ram, transfer, sent, exited>>

Idle == [kind |-> "none"]

\* RAM accesses wrap and ignore the low bits: addr & 0x001ffffc.  Addresses
\* are only ever used modulo the size of RAM, which divides 2^32.
RamAddr(addr) == 4 * ((addr % RamBytes) \div 4)

-----------------------------------------------------------------------------
(* Channels                                                                *)

dma_channel_active(c) ==
    c.control.enable /\ (c.control.sync = "MANUAL" => c.control.trigger)

dma_channel_transfer_size(c) ==
    IF c.control.sync = "MANUAL" THEN c.block_size ELSE c.block_size * c.block_count

\* Mutation: only the trigger is cleared, as for a manual transfer.
dma_channel_done_Trigger(c) == [c EXCEPT !.control.trigger = FALSE]

dma_channel_done(c) ==
    [c EXCEPT !.control.enable = FALSE, !.control.trigger = FALSE]

Kind(port, c) ==
    LET to_gpu == port = "GPU" /\ c.control.direction = "FROM_RAM"
        clear == port = "OTC" /\ c.control.direction = "TO_RAM"
    IN  IF c.control.sync = "LINKED_LIST" THEN (IF to_gpu THEN "list" ELSE "bad")
        ELSE CASE to_gpu -> "upload" [] clear -> "otc" [] OTHER -> "bad"

\* The locals a transfer starts with; channel is its snapshot of c.
Begin(port, c) ==
    LET list == Kind(port, c) = "list" IN
    [kind |-> Kind(port, c), port |-> port, channel |-> c,
     addr |-> IF list THEN RamAddr(c.base) ELSE c.base % RamBytes,
     words |-> IF list THEN 0 ELSE dma_channel_transfer_size(c),
     header |-> ZeroWord, nodes |-> 0, phase |-> IF list THEN "header" ELSE "block"]

\* The end of route_dma_store: the channel has been written.
Written(port, c) ==
    /\ channels' = [channels EXCEPT ![port] = c]
    /\ sent' = <<>>
    /\ IF ~dma_channel_active(c) THEN UNCHANGED <<transfer, exited>>
       ELSE IF Kind(port, c) = "bad"
       THEN exited' = "unsupported" /\ UNCHANGED transfer
       ELSE transfer' = Begin(port, c) /\ UNCHANGED exited
    /\ UNCHANGED ram

CpuRuns == transfer = Idle /\ exited = "no"

dma_channel_set_base(port, val) ==
    CpuRuns /\ Written(port, [channels[port] EXCEPT !.base = val])

dma_channel_set_block_control(port, size, count) ==
    CpuRuns /\ Written(port, [channels[port] EXCEPT !.block_size = size,
                                                    !.block_count = count])

dma_channel_set_control(port, val) ==
    /\ CpuRuns
    /\ IF val.sync = "UNKNOWN"
       THEN exited' = "sync" /\ UNCHANGED <<channels, ram, transfer, sent>>
       ELSE Written(port, [channels[port] EXCEPT !.control = val])

\* A store of the CPU to RAM, which DMA will read.
ram_store(addr, word) == /\ CpuRuns
                         /\ ram' = [ram EXCEPT ![addr] = word]
                         /\ UNCHANGED <<channels, transfer, sent, exited>>

-----------------------------------------------------------------------------
(* Transfers.  Each step is one turn of a loop.                            *)

Runs(kind) == transfer.kind = kind /\ exited = "no"

\* route_gpu_store: the GPU may refuse the word, which ends the emulator.
Send(word) == sent' = Append(sent, word) /\ exited' \in {"no", "gpu"}

Finish == /\ transfer' = Idle
          /\ channels' = [channels EXCEPT ![transfer.port] = dma_channel_done(@)]
          /\ UNCHANGED <<ram, sent, exited>>

\* Mutation: the direction of the transfer is taken for granted.
NextBlockAddr_Increments == (transfer.addr + 4) % RamBytes

NextBlockAddr ==
    (IF transfer.channel.control.step = "INCREMENT" THEN transfer.addr + 4
     ELSE transfer.addr - 4) % RamBytes

BlockTurn == transfer' = [transfer EXCEPT !.addr = NextBlockAddr, !.words = @ - 1]

UploadWord == /\ Runs("upload")
              /\ transfer.words > 0
              /\ Send(ram[RamAddr(transfer.addr)])
              /\ BlockTurn
              /\ UNCHANGED <<channels, ram>>

\* Mutation: the table ends one entry late.
TableEntry_NoEnd == [size |-> 0, end |-> FALSE, next |-> (transfer.addr - 4) % RamBytes]

\* An empty packet that links to the word below; 0x00ffffff ends the table.
TableEntry ==
    IF transfer.words = 1
    THEN [size |-> 0, end |-> TRUE, next |-> RamBytes - 1]
    ELSE [size |-> 0, end |-> FALSE, next |-> (transfer.addr - 4) % RamBytes]

ClearWord == /\ Runs("otc")
             /\ transfer.words > 0
             /\ ram' = [ram EXCEPT ![RamAddr(transfer.addr)] = TableEntry]
             /\ BlockTurn
             /\ UNCHANGED <<channels, sent, exited>>

BlockDone == (Runs("upload") \/ Runs("otc")) /\ transfer.words = 0 /\ Finish

ReadHeader == /\ Runs("list")
              /\ transfer.phase = "header"
              /\ transfer' = [transfer EXCEPT !.header = ram[transfer.addr],
                                              !.words = ram[transfer.addr].size,
                                              !.phase = "packet"]
              /\ UNCHANGED <<channels, ram, sent, exited>>

\* Mutation: the word is sent before the address moves past the header.
PacketWord_FromHeader ==
    /\ Runs("list")
    /\ transfer.phase = "packet"
    /\ transfer.words > 0
    /\ Send(ram[transfer.addr])
    /\ transfer' = [transfer EXCEPT !.addr = RamAddr(transfer.addr + 4), !.words = @ - 1]
    /\ UNCHANGED <<channels, ram>>

PacketWord ==
    LET addr == RamAddr(transfer.addr + 4) IN
    /\ Runs("list")
    /\ transfer.phase = "packet"
    /\ transfer.words > 0
    /\ Send(ram[addr])
    /\ transfer' = [transfer EXCEPT !.addr = addr, !.words = @ - 1]
    /\ UNCHANGED <<channels, ram>>

PacketDone == Runs("list") /\ transfer.phase = "packet" /\ transfer.words = 0

LastNode == PacketDone /\ transfer.header.end /\ Finish

\* Mutation: the count of nodes is not bounded.
NextNode_Unbounded ==
    /\ PacketDone
    /\ ~transfer.header.end
    /\ transfer' = [transfer EXCEPT !.addr = RamAddr(transfer.header.next),
                                    !.phase = "header"]
    /\ UNCHANGED <<channels, ram, sent, exited>>

\* Mutation: a list through every word of RAM counts as endless.
NextNode_TooSoon ==
    /\ PacketDone
    /\ ~transfer.header.end
    /\ transfer' = [transfer EXCEPT !.addr = RamAddr(transfer.header.next),
                                    !.nodes = @ + 1, !.phase = "header"]
    /\ exited' = IF transfer.nodes + 2 >= RamWords THEN "endless" ELSE "no"
    /\ UNCHANGED <<channels, ram, sent>>

NextNode == /\ PacketDone
            /\ ~transfer.header.end
            /\ transfer' = [transfer EXCEPT !.addr = RamAddr(transfer.header.next),
                                            !.nodes = @ + 1, !.phase = "header"]
            /\ exited' = IF transfer.nodes + 1 >= RamWords THEN "endless" ELSE "no"
            /\ UNCHANGED <<channels, ram, sent>>

TransferStep == \/ UploadWord \/ ClearWord \/ BlockDone
                \/ ReadHeader \/ PacketWord \/ LastNode \/ NextNode

-----------------------------------------------------------------------------
Stopped == [direction |-> "TO_RAM", step |-> "INCREMENT", sync |-> "MANUAL",
            enable |-> FALSE, trigger |-> FALSE]

\* interconnect_init clears RAM.
Init == /\ channels = [p \in Ports |-> [base |-> 0, block_size |-> 0,
                                        block_count |-> 0, control |-> Stopped]]
        /\ ram = [a \in RamAddrs |-> ZeroWord]
        /\ transfer = Idle
        /\ sent = <<>>
        /\ exited = "no"

RegisterStore(p) ==
    \/ \E val \in Bases : dma_channel_set_base(p, val)
    \/ \E size \in BlockSizes, count \in BlockCounts :
          dma_channel_set_block_control(p, size, count)
    \/ \E val \in Controls : dma_channel_set_control(p, val)

CpuStep == \/ \E p \in Ports : RegisterStore(p)
           \/ \E a \in RamAddrs, w \in Words : ram_store(a, w)

Next == CpuStep \/ TransferStep

Spec == Init /\ [][Next]_vars

\* The loops of a transfer run on one thread and wait for nothing.
FairSpec == Spec /\ WF_vars(TransferStep)

-----------------------------------------------------------------------------
Channel == [base : 0 .. MaxBase, block_size : BlockSizes \cup {0},
            block_count : BlockCounts \cup {0}, control : Control]
TypeOK ==
    /\ channels \in [Ports -> Channel]
    /\ ram \in [RamAddrs -> Word]
    /\ transfer = Idle \/
          /\ transfer.kind \in {"upload", "otc", "list"}
          /\ transfer.port \in Ports /\ transfer.channel \in Channel
          /\ transfer.addr \in 0 .. RamBytes - 1 /\ transfer.words \in Nat
          /\ transfer.header \in Word /\ transfer.nodes \in 0 .. RamWords
          /\ transfer.phase \in IF transfer.kind = "list" THEN {"header", "packet"}
                               ELSE {"block"}
    /\ sent \in Seq(Word)
    /\ exited \in {"no", "sync", "unsupported", "gpu", "endless"}

\* When the CPU runs, no channel is active, so that the test at the end of
\* route_dma_store (interconnect.c:318) starts each transfer once and a store
\* to another register of the channel never repeats the last one.
NeverLeftActive ==
    CpuRuns => \A p \in Ports : ~dma_channel_active(channels[p])

Completes(kind) == transfer.kind = kind /\ transfer' = Idle
Base == transfer.channel.base
Total == dma_channel_transfer_size(transfer.channel)

\* Clearing an ordering table downwards leaves a list that linked-list DMA can
\* walk from the same base: the channel and do_dma_linked_list, which read and
\* write the format independently, agree on links, alignment and end.
IsTable(r, base, n) ==
    \A i \in 0 .. n - 1 :
        LET entry == r[RamAddr(base - 4 * i)] IN
        /\ entry.size = 0
        /\ entry.end <=> i = n - 1
        /\ ~entry.end => RamAddr(entry.next) = RamAddr(base - 4 * (i + 1))
OtcBuildsTable ==
    [][ (/\ Completes("otc")
         /\ transfer.channel.control.step = "DECREMENT"
         /\ Total <= RamWords)
           => IsTable(ram', Base, Total) ]_vars

\* A block upload sends the words of the block, in the direction of the step,
\* wrapping at the end of RAM.
UploadSendsBlock ==
    [][ Completes("upload") =>
          sent' = [i \in 1 .. Total |->
                     ram[RamAddr(IF transfer.channel.control.step = "INCREMENT"
                                 THEN Base + 4 * (i - 1) ELSE Base - 4 * (i - 1))]] ]_vars

\* The nodes of the list that starts at a base, as far as it goes.
Node(base) ==
    LET node[n \in Nat] ==
          IF n = 0 THEN RamAddr(base) ELSE RamAddr(ram[node[n - 1]].next)
    IN  node
EndsAt(base, n) == /\ ram[Node(base)[n]].end
                   /\ \A m \in 0 .. n - 1 : ~ram[Node(base)[m]].end
Packet(a) == [j \in 1 .. ram[a].size |-> ram[RamAddr(a + 4 * j)]]
Packets(base) ==
    LET packets[n \in Nat] ==
          IF n = 0 THEN Packet(Node(base)[0])
          ELSE packets[n - 1] \o Packet(Node(base)[n])
    IN  packets

\* A list that has an end is sent, all its packets in order and nothing else.
ListSendsPackets ==
    [][ Completes("list") => \E n \in 0 .. RamWords - 1 :
          EndsAt(Base, n) /\ sent' = Packets(Base)[n] ]_vars

\* Only a list without an end is given up: the count of nodes, which does not
\* look for a cycle, is right for lists through every word of RAM.
OnlyEndlessGivenUp ==
    exited = "endless" => ~\E n \in 0 .. RamWords : EndsAt(Base, n)

\* The CPU is never left waiting: a transfer completes or the emulator exits,
\* although a list is whatever the program has left in RAM.
TransferTerminates == transfer # Idle ~> (transfer = Idle \/ exited # "no")

=============================================================================
