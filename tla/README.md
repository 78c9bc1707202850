# A TLA+ model of psx-c-emulator

The emulator interprets the MIPS R3000 of the original PlayStation, its memory
map, DMA and GPU ports, draws with OpenGL, and can be debugged from a GDB
server and from a window of its own, both at once. It is one C program of one
thread. What makes it hard is not parallelism but *interleaving at the seams
of one loop*: commands of two uncoordinated frontends between instructions, a
GPU port that receives a command one word at a time and may be reset between
any two, a pipeline whose effects appear one instruction late, a vertex buffer
that flushes in the middle of a frame, and DMA over whatever the emulated
program left in RAM.

Paths below are relative to `src/` of the repository (the sources are in
`src/src/`).

## 1. Inventory

| Component | State | Operations | Talks to |
|---|---|---|---|
| CPU interpreter `cpu/cpu.c` | two register banks (`regs`, `out_regs`), load in flight, `pc`/`next_pc`/`current_pc`, `branch`, `delay_slot`, HI/LO, COP0 | `cpu_run_next_instruction`, one function per opcode, `cpu_exception` | debugger (before and after each instruction, each data access), interconnect |
| Instruction fields `cpu/instruction.c` | none | bit fields of a word | CPU |
| Debugger `debug/debugger.c` | three address arrays, `stopped`, `single_step`, the breakpoint to pass once, stop reason and address | before/after instruction, memory read/write, add/remove, pause/continue/step | CPU, GDB server, debug window |
| GDB server `debug/gdb_server.c` | sockets, packet buffer and its receive state, no-ack mode, last packet, `stop_reported` | poll, accept, receive byte, handle packet, send stop reason | debugger, CPU registers, memory (examine/deposit), main loop |
| Interconnect `memory/interconnect.c` | owns RAM, BIOS, DMA, GPU | load, store, examine, deposit, `do_dma` | all devices |
| RAM, BIOS `memory/ram.c`, `bios.c` | bytes | load, store | interconnect |
| DMA `hardware/dma.c` | per channel base, block control, control bits; control and interrupt registers | register reads and writes, active, transfer size, done | interconnect |
| GPU ports `hardware/gpu.c` | command buffer, words remaining, command, mode; drawing and display attributes | `gpu_gp0`, `gpu_gp1`, status, read | renderer |
| Renderer `frontend/renderer.c` | window, GL context and objects, two staging arrays, `vertex_count`, pause request | init, push triangle, push quad, display, handle events, take the pause, destroy | OpenGL, main loop |
| Debug window `frontend/debug_ui.c` | window, GL context and objects, Nuklear's input, visibility | init, input begin and end, handle event, frame, destroy | debugger, renderer's GL context |
| Main loop `main.c` | options, `running` | start, poll GDB, handle events, take the pause, frame, 10000 instructions, end | all |
| Shaders | none | per-vertex arithmetic | OpenGL |

### What is hard, and what makes each component correct

* **CPU.** A load lands one instruction late; a branch takes effect after its
  slot; an exception in a slot must restart at the branch. The code gets this
  from the order of a few assignments at the top of `cpu_run_next_instruction`
  and from the early return of an unaligned fetch. Correct: the two banks agree
  between instructions, fetches are sequential unless a branch is pending,
  exceptions are precise and restartable, loads are delayed, SR's mode stack
  restores what was interrupted, a register write of a debugger at any point
  keeps all of it.
* **Debugger.** The permission to pass a breakpoint once, the single-step
  flag and the stop reason are updated by the instruction hooks and by two
  frontends that never look before they command. Correct: a breakpoint is
  passed silently only after it was announced, a resume leaves it, a step
  executes at most one instruction and ends, the fixed arrays behave as sets.
* **GDB server.** Partial packets, acknowledgements, disconnects between any
  two bytes, stop reports. Correct: exactly one report per stop of a waiting
  client, nothing carried over to the next connection.
* **Interconnect.** Thirteen regions, three widths and two mirrors; the view of
  a debugger is written apart from the table that the CPU's accesses go
  through. Correct: an access is within one region and its array, examine shows
  what a load returns, a memory write of GDB is done as a whole or not at all.
* **DMA.** A transfer runs inside the register store that starts it; lists and
  tables are untrusted data in RAM. Correct: it starts once, moves exactly the
  words described, in order and with the wrap of the hardware, and ends.
* **GPU ports.** Four variables say where in the stream GP0 is; GP1 resets
  come at any word. Correct: packets are cut where the stream says, pixel data
  is never executed, the internal errors are unreachable.
* **Renderer.** The buffer's length is not a multiple of a primitive, arrays
  keep old vertices, OpenGL calls fail. Correct: a frame shows each pushed
  vertex once, in order, with its own color, and the buffer is never overrun.
* **Debug window, main loop.** Two GL contexts of which one is current, input
  begun and not ended when the window is hidden, some thirty calls at the start
  that may each fail. Correct: everything acquired is released in order, OpenGL
  calls run in the context of their objects, a pause key is taken before the
  next instruction, a quit ends the program.

`PROJECT.json` lists the hazards line by line, each with the properties that
would catch it or with the reason why none does yet.

## 2. Modules

```
AddressList ── Debugger ══> ExecutionControl     Gpu ══> Gp0Stream
                  │                               │
              GdbServer                       Graphics
                  ╎                               │
           PacketReceiver                     Renderer ══> PrimitiveStream

Cpu ╌╌ Unaligned       Interconnect       Dma       Frontend

(──, │ : extends or instantiates; ══> : implements, by a refinement mapping;
 ╌╌, ╎ : another level of the same code)
```

`XProofs` has the theorems about `X`, for `Cpu`, `Gpu`, `Dma`, `Interconnect` and
`PacketReceiver`; `CpuProofs` also those about `Unaligned`, `GdbServerProofs` those
about `AddressList`, `Debugger` and `GdbServer`, `GraphicsProofs` those about
`Renderer`, `Graphics` and `Frontend`. `Numbers` has what several of them need of
natural numbers.
`MCx` modules only give values to the constants of `x`. Every `\* Mutation:`
definition stands next to the definition it is a plausible bug of. Replacing
the one by the other must violate the property that `PROJECT.json` names; no
specification uses them otherwise.

### Cpu (`cpu/cpu.c`, register writes of `debug/gdb_server.c`)

One action is one call of `cpu_run_next_instruction` for one class of
instructions. The fetched instruction is arbitrary, so every program is
covered. *What* an instruction computes is "some word"; *where* the word goes
and *when* it is visible is exact. `Begin`, `Fetch`, `Committed` and `Retire`
are the four parts of the function: advance the pipeline, check alignment,
commit the load in flight, copy the banks. `OpCompute` stands for the
instructions that always write one register, `OpTrappingAdd` for
ADD/ADDI/SUB (which may trap on overflow), `OpNoResult` for those that write
none (MULT, DIV, MTHI, ...), then loads, stores, jumps, branches, COP0 moves,
RFE and the instructions that only trap. `Abort` is `exit()`: an unsupported
coprocessor register, GTE, an address without device. `DebugSet...` are the
cases of `set_gdb_register`; a bulk write (`G`) is a sequence of them.
`saved` is a history variable: the modes that exceptions interrupted and RFE
has not restored. The model has no debugger in it; stops between instructions
change nothing in the CPU.

### Unaligned (`cpu/cpu.c`)

What `Cpu` abstracts to "some word" for LWL, LWR, SWL and SWR: one register with
its two banks and the load in flight (`in_flight`), and a memory of bytes. A load merges with
the output bank, in which the load before it has been committed; a store reads
the input bank, in which it has not. `cpu_store` drops a store while bit 16 of the
status register (`isolated`) is set, which only MTC0 changes (`op_mtc0`); loads do
not ask for it. `PairStoresWord` is therefore about a cache that is not isolated.
`recent` is the program so far. The debugger writes neither the register nor the
memory nor the status register between these instructions.

### AddressList, Debugger, ExecutionControl (`debug/debugger.c`)

`AddressList` has the three array operations as pure operators on sequences:
an add fails silently when the array is full, a removal moves the last element
into the hole. `Debugger` has every operation of the file as an action.
`RunNextInstruction` is the call of `cpu_run_next_instruction` with its hooks
in order: before (breakpoint, unless this PC may pass once), up to two data
accesses (watchpoints), after (end of a step). Its environment (`Commands`,
`EditLists`) is the GDB server, the debug window and the pause key: none of
them tests the state before a command, so every command is always enabled.
`announced`, `calls`, `executed` and `resumed_by` are history variables; they
saturate at 2, and no guard reads them.

`ExecutionControl` is the promise: a *set* of breakpoints, a mode, and the
breakpoint announced since the last instruction. The mapping reads the array as
a set and the three flags as a mode.

### GdbServer (`debug/gdb_server.c`, `main.c`)

Extends `Debugger` with the loop that drives it. `phase` is where a turn of the
loop is: the poll of the server (accept, bytes, close, report), the events, the
frame with its buttons, the instructions. A packet is told apart by what it
changes: resume (`c`, `s`, `vCont`), Ctrl-C, `?`, `D` and `k`, edits of a list,
a write of PC. `Z4` and `z4` are two list operations of which the second runs
even when the first failed; `access` is the state between them. A reply may fail
at any time and closes the connection, which resumes the CPU. `asked` is what a
GDB that follows its protocol expects (while it waits for a stop it sends only
Ctrl-C), `heard` the breakpoint it was told of, `sole` that nobody else has
resumed the CPU since it connected: three history variables, of which the first
bounds what GDB may send and no step of the server reads any.

### PacketReceiver (`debug/gdb_server.c`)

The bytes below the packets: one action per branch of `receive_byte`, with the
partial packet, the checksum digits, acknowledgements and the mode without them.
A connection may end at any byte. `no_ack_mode` outlives the connection, as in
the code. `line` is the history the properties are stated on: a frame is defined
there, on the bytes since the last `$`, without the receiver's variables.

### Interconnect (`memory/interconnect.c`, `ram.c`, `bios.c`, `M` of the server)

An address is its segment (upper three bits) and its offset, a value the
sequence of its bytes. `MEMORY_MAP` is the table in its order; `Route` takes the
first hit. `Load` and `Store` are the CPU's accesses, with the errors that end
the program; `interconnect_examine` and `CanDeposit` are GDB's way around the
table. `Store` is what `cpu_store` hands on: that it drops stores while the cache
is isolated is left out here, so that the model has every store the code has, and
more; no property needs a store to be made. An `M` packet is one step for its validation per byte and one per byte
written. Devices are what the map sees of them: fixed register contents, and a
DMA store may leave anything in RAM (`Dma` says what).

### Gpu, Gp0Stream (`hardware/gpu.c`)

A word is its four bytes. `gpu_gp0` is one action with the code's branches:
`UnknownCommand`, `ImageWord`, `CommandWord`; the last executes the command
with its last word in the same step, as the code does. `drawing` and `control`
are the payloads of the last command of each attribute and display register,
kept raw: unpacking them into named fields is pure bit extraction. Two of them
are decoded because control depends on it: texture depth 3 and display mode
bit 7 are refused. `call` is what the renderer is asked; the vertices carry
sign-extended positions and colors decoded as in the code. A call that returns
false ends the emulator (`interconnect.c:379`, `384`): `failure` absorbs.

`Gp0Stream` knows no counters or modes. It cuts the stream by packet sizes
derived from the shape of the primitives (corners, colors, texture
coordinates), counts owed pixel words and forgets both on a reset.

### Renderer, PrimitiveStream (`frontend/renderer.c`)

The two arrays and the count as in the code, `drawn` and `shown` for what
OpenGL does with a draw call and a swap (external: modelled from how
`renderer_draw` and `renderer_display` use them). Each upload, draw and swap
may fail. `PrimitiveStream` has no buffer: a frame is the concatenation of the
primitives pushed since the last display.

### Graphics (`hardware/gpu.c`, `frontend/renderer.c`)

Extends `Renderer` and instantiates `Gpu`, composed through `call`: the step of
the word that completes a command is also the step of the renderer, and the port
fails exactly when the renderer does. The history keeps the *words* of each primitive;
the property decodes them from the format of the packets, not from the code's
tables.

### Frontend (`main.c`, `frontend/renderer.c`, `frontend/debug_ui.c`)

What the program acquires and releases. `RendererCalls` and `UiCalls` list the
calls of the two initialisations in order, each with what it gives and what it
may leave behind when it fails; `init_call` is the next one. `live` is what exists,
`fields` and `implementation` what the program still has a pointer or a name
for, `current` the current GL context. The loop has one action per call of
`main`; `renderer_handle_events` is one action per event. `Poll` may accept a GDB
client or close the one there is, and what it leaves open `gdb_server_destroy`
closes with the listening socket. SDL and OpenGL are
external: `SDL_GL_MakeCurrent` may fail, and a context that is destroyed takes
its objects with it.

### Dma (`hardware/dma.c`, transfers of `memory/interconnect.c`)

A register store is an action that, if it leaves the channel active, sets up
`transfer`, the locals of the C function. Each turn of a loop is a further
action, and the CPU is blocked meanwhile. A RAM word is what DMA makes of it:
packet size, end bit, next address. Addresses wrap modulo the size of RAM,
which divides 2^32, so 32-bit addition never shows. `exited` is `exit()` with
its cause.

## 3. Runs

| Run | Shows |
|---|---|
| `cpu` | `BanksAgree`, `FetchOrder`, `PreciseExceptions`, `RestartPoint`, `DelayedLoads` for any instruction sequence with debugger writes between, `ModeStackHonest` through nested exceptions, RFE and SR writes |
| `cpu_unaligned` | pairs load and store the word at any address, in either order, through the load in flight and, for stores, unless the cache is isolated |
| `gdb_server` | of the debugger, in the loop that drives it: a removal removes its address only, steps of at most one instruction that end, silent passes only after an announcement, a resume leaves its breakpoint, refinement of `ExecutionControl`; of the server: every breakpoint is announced to a GDB that alone resumes the CPU before it is passed, a stop is told once, OK to an access watchpoint is true, a stop other than a pause reaches a GDB that waits |
| `debugger_step_one`, `gdb_stop_visible` | **fail as found**, see Findings |
| `gdb_bytes` | only frames with the right checksum are handled (`HandlesFrames`), none is lost (`NoFrameLost`), each is acknowledged once |
| `memory_map` | one region per access and no byte beyond its array, examine agrees with load, memory writes all or nothing |
| `gpu` | counter, mode, command and buffer agree; internal errors unreachable; refinement of `Gp0Stream` |
| `graphics` | the buffer is never overrun, refinement of `PrimitiveStream`, the frame shown is the triangles of the packets sent between two displays |
| `dma_list` | lists are sent completely and in order or, only if endless, given up; every transfer ends |
| `dma_block` | a channel is never left active, cleared tables are lists that the list transfer accepts, uploads in order |
| `frontend` | whichever call fails, everything is released in order and nothing is left or dangling; each GL call in its own context; a quit ends |

### Bounds and why they are enough

* **CPU** (`WordMod` 8): two aligned addresses and an unaligned one, with
  wrap-around of PC, slot and EPC; two registers, one of them $zero and one the
  link register, are all that the interplay of a load, its consumer and another
  writer needs. Two modes fill three stack levels of SR differently enough to
  tell every shift apart.
* **GDB server and debugger** two addresses, a list that holds both, so that a
  removal moves an element, and lists of one, so that an add fails; one address
  in `gdb_stop_visible`. Nothing is counted: packets, connections and turns are
  unbounded. Arrays of any length are left to the proofs.
* **Packet bytes** (`HexBase` 2, `Capacity` 3): a checksum of two digits wraps at
  4 instead of 256, digits are also packet bytes, `x` is no digit. `MaxLine` = 6
  bytes after a `$` hold a packet that is one byte too long and one with a
  second `#` among its digits. Connections are unbounded.
* **Memory map** four bytes of RAM, eight of BIOS, the other regions at their
  real places and sizes: addresses -4, -1, 0 and 2 bytes from every border, in
  the first segment, a mirror and two that are none; `M` packets of up to two
  bytes (`MaxLength`) at the borders of RAM and at the end of the address space.
* **Unaligned** programs of `MaxInstructions` = 3, the pair and what precedes or
  follows it (a load in flight to the register, an MTC0 that isolates the cache), on
  two words of memory, so that a word may span both. The bytes
  all differ and instructions only move them, so that which bytes does not matter.
* **Graphics** (`Capacity` 7): like the real 65536, one more than a multiple of
  three. Quads then hit the early draw with 3 or 6 vertices staged, triangles
  with 6. A mono, a textured and a shaded quad, a shaded triangle, an image load
  and the display, with one word for each place of a packet; `MaxFrame` 12
  vertices in a frame (checked where a primitive starts) and `MaxImageWords` 1.
* **Frontend** `MaxFaults` = 2 calls of `SDL_GL_MakeCurrent` that fail once both
  windows are up: one at the entry of a frame or the end and one at a restore.
  Failures of the start are unbounded, as it fails once.
* **GPU** one word per command, a refused draw mode, an unknown command; two
  parameter words, of which one is a valid command and an empty image size,
  the other a size of three pixels, i.e. two words. `MaxImageWords` bounds the
  pixels of a load, in `Bounded`.
* **DMA** three words of RAM hold every shape of list: ending, cyclic with and
  without a tail, overlapping packets and headers, unaligned end links; four
  words for blocks, with one base unaligned and beyond RAM, sizes 0, 1 and 3.
  Sizes larger than RAM are excluded from `OtcBuildsTable` by a guard: such a
  table overwrites itself.

Deadlock is not checked where the emulator calls `exit()` or returns `false`
to its main loop: it really stops.

### Fairness

* `WF_vars(TransferStep)` in `dma_list`: the loops of `do_dma` run on one
  thread and wait for nothing.
* `ServerFairness` in `gdb_server`: the turn of the loop goes on, phase by
  phase (`main.c:102-130`). Nothing is assumed of GDB, of the network's failures
  or of the user. Two conditions say that what is bounded in the code ends: the
  bytes that one poll reads (`InputEnds`) and the batch of instructions
  (`BatchEnds`).
* `WF_mvars(MainNext)` and `WF_mvars(NoMoreEvents)` in `frontend`: one thread that is
  always at some call that returns, and a queue of events that is empty at last.

### Findings

* **Step.** `docs/DEBUG_UI.md:31` says that Step executes exactly one
  instruction. `debugger_step` (`debugger.c:132`) arms the pass only when the
  *reason* of the stop is `BREAKPOINT`. After a pause, a finished step or a
  watchpoint stop at a PC that has a breakpoint, Step announces that breakpoint
  and executes nothing; the second Step executes (`debugger_step_one`).
* **Pause.** `docs/DEBUG_UI.md:34` says that a stop requested from either
  frontend is immediately visible to the other. `gdb_server_poll`
  (`gdb_server.c:626`) reports no stop whose reason is a pause: a GDB that waits
  for its continue to end goes on waiting (`gdb_stop_visible`).

A remark on `docs/DEBUG_UI.md:23`, that the PS1 context is restored before the
CPU resumes: `debug_ui_frame` (`debug_ui.c:703`) does not look at the result of
the call that restores it, which is why `GlInOwnContext` is stated for runs in
which no `SDL_GL_MakeCurrent` has failed.

## 4. Proofs

TLAPS proves these for every value of the constants, from the `ASSUME` of the
module alone (`CpuAssumption`, `DebuggerAssumption`, `RendererAssumption`,
`GpuAssumption`, `GraphicsAssumption`, `DmaAssumption`, `GdbServerAssumption`,
`InterconnectAssumption`, `ReceiverAssumption`, `UnalignedAssumption`; the theorems
about `Frontend` use no assumption, not even `FrontendAssumption`).
`RefinementInGraphics` says besides that the inputs of `PrimitiveStream` are all
triangles and all quadrilaterals; `Refinement`, of the renderer on its own, does not.

**Induction.** The library's induction theorems take an operator as a parameter,
which none of the provers instantiates. `Numbers` states induction with a set
instead (`InductionSet`, from the least element of a set of numbers), and
recursion with a function that gives each step (`Recursion`: if every finite
prefix of the recursion exists, so does the whole). That is how the proofs reach
`Packets` and `Node` (the list in RAM), `SumOf` (the checksum of a line) and
`FlattenSeq` (the triangles of a sequence of packets). `RemainderAdd` and its
neighbours are for sums that wrap at every step or once at the end.

* `CpuProofs`. `StepShapes` reduces the fifteen instruction classes to a few
  shapes (a retired instruction, a trap, a debugger's write); each theorem is
  then a short argument over shapes. `TypeOK` is inductive; `BanksAgree`,
  `FetchOrder` and `ModeStackHonest` are inductive relative to it. The action
  properties rest on these: `PreciseExceptions` and `DelayedLoads` on
  `BanksAgree`, because a trap and a load copy the output bank over the input
  bank, and only banks that agreed before differ in nothing but the load that
  landed; `RestartPoint` on `FetchOrder`, which in a delay slot makes `pc - 4` the
  address of the branch, also around the end of the address space.
  *Unaligned*: a word is four bytes of an arbitrary base (`Grouped`,
  `WordIsBytes`), and each merge, whose source says shifts and masks, chooses
  between the bytes of two words (`LoadLeft`, `LoadRight`, `StoreLeft`,
  `StoreRight`). Neither property says what one instruction of a pair leaves for the
  other; `SidesKept` does: after a load, the load in flight has the bytes on its
  side of the address (`HasLeft`, `HasRight`), and after a store memory has those
  of the register, unless the cache is isolated. Each byte of the word is on one
  side or the other, and both sides make the word (`BothSides`). The factors of a
  shift are a table (`Power`), as none of the provers knows `^`.
* `GdbServerProofs`, in three parts.
  *Address lists*: add and swap-with-last removal keep a sequence free of
  duplicates and act on the set of its elements as union and difference.
  *Debugger*: `IInv` is the inductive invariant: the types (`ListsOK`,
  `FlagsOK`, `HistoryOK`), the three state properties, and `StepArmed`: while a
  step runs, the flag that will end it is still set. Without that part
  `StepAtMostOne` is not inductive.
  `ResumeTheorem` additionally needs `SkipArmed`: after exactly one command
  since an announced stop, the permission for that PC is still armed.
  `Refinement` maps each action to a step of `ExecutionControl` or a stutter.
  *Server*: `DebuggerStep` shows that every step of the loop is a step of
  `Debugger` or leaves it alone, so that all that is proved of the debugger holds
  in the program (`DebuggerInLoop`). On top of its `IInv`, `SoleResumer` is the
  invariant behind `GdbHearsBreakpoint`: while GDB alone resumes the CPU, a
  running CPU is one it waits for, and both the permission to pass a breakpoint
  and a stop at one that GDB does not wait for are of a breakpoint it has heard
  of. The property alone says nothing of how the permission came to be.
  `FirstHalf` carries the first list operation of an access watchpoint to the
  second; `Remembers` is that an answered GDB has its stop marked as reported.
  `StepEndsInTurn` says that no step outlasts the batch of instructions after it:
  the batch begins with the step or with nothing to do. `StopNearsGdb` says that
  while a stop is one that a waiting GDB has yet to hear of, each step of the loop
  is one phase nearer to the report (`StepsToReport`), and the report is made; it
  needs that a GDB that waits is connected and has its stop unmarked (`Waits`).
* `PacketReceiverProofs`. The receiver sees one byte at a time, the properties
  look at the whole line. `Phase` is the inductive invariant that joins them:
  while a packet is received, the array holds the line and the checksum is the sum
  of what it holds; while the digits are read, the first `#` is where the packet
  ended; otherwise no frame has begun, or the line is `Lost`: whatever
  comes, it is not a frame any more. `Told` says what was handled and
  acknowledged in terms of the line. From both, `HandlesFrames`, `AckTellsFrame`
  and `NoFrameLost`. The sum of the code wraps at each byte, the sum of the
  definition once (`SumOf`).
* `GpuProofs`. `IInv` is the types of the port, `FramingCoherent` and the
  absence of the two internal errors; `FramingCoherent` is inductive with the
  types. `CollectStep` and `CompleteStep` say what a word does before and at the
  end of a command; the refinement maps them to the two branches of `Receive`.
  `SizeIsLength` and `RoundUp` are where the code's table of lengths and its
  rounding meet the shapes of the packets.
* `GraphicsProofs`, of the renderer and of what the ports make of it.
  *Renderer*: the invariant is the type, no overflow and whole
  triangles; for overflow only `Capacity >= 6` is needed. The refinement rests
  on `PushStep`: after an early draw or without one, `drawn \o Staged` grows by
  exactly the vertices of the primitive. Nothing is assumed of `MaxFrame`.
  *Both*: `GP` is `GpuProofs` with the ports of `Graphics`, so that the framing is
  not proved again: its assumption is shown to hold here (`PortAssumption`). The
  inductive invariant `GraphicsInv` is the one of the ports, the one of the
  renderer, `HistoryOK` and `ScreenShowsPackets` itself. `DrawAsks` is the step
  between them: the call that a complete drawing command makes asks for exactly
  the triangles of its packet; `AllTrianglesAppend` carries this from one packet
  to the sequence of them.
  The renderer that is driven by the ports never overflows and still implements
  `PrimitiveStream` (`NeverOverflowsInGraphics`, `RefinementInGraphics`).
  *Frontend*: `Held` says what exists at each place of `main`, in the start by the
  number of the call; that everything is released, in order, can be read off it
  only because each place determines what is held, but for the client's socket
  during the loop. `Contexts` does the same for the
  current context and the one that is to be restored, as long as no
  `SDL_GL_MakeCurrent` has failed. `QuitApproachesEnd` counts the steps that are
  left once the loop is told to stop, at most ten.
* `DmaProofs`. `IInv` adds to the types that a list reads its headers at word
  addresses, that the node count is below the bound while the emulator runs, and
  `OneActive`: only the channel of the running transfer is active. From that,
  `NeverLeftActive`, whose proof shows that every kind of transfer ends in
  `dma_channel_done`, on the channel that started it.
  What a transfer has done so far is one invariant for each kind. `BlockSoFar`
  gives the address by the number of words done, `UploadSoFar` what was sent and
  `TableSoFar` what was written: entries are written downwards, and those
  already written stay because, with a table that fits in RAM, no two have the
  same address. `ListSoFar` says that after `n` nodes the header read is the one
  at `Node(Base)[n]` and what was sent is `Packets(Base)[n]` with the part of the
  packet in progress.
  The bound on nodes does not look for a cycle. It is right nevertheless:
  a list of more nodes than RAM has words visits one of them twice
  (`SomeNodeTwice`, a pigeonhole argument), circles from there (`Circles`) and
  has no end however far it is followed (`EndlessTheorem`, which says more than
  `OnlyEndlessGivenUp`, whose search for an end stops at the size of RAM).
  Every step of a transfer decreases a natural number (`TransferApproachesEnd`): the
  words left, and for a list besides 258 for each node that the bound still
  allows, more than the words of a packet, its header and its link.
* `InterconnectProofs`. `OneRegion` and `RouteOf` make the order of the table
  irrelevant for any size of RAM and BIOS that fits its place; `ExamineAgreesAlways`
  then goes through the devices one by one. The memory write needs `Inv`: each
  byte validated so far can be written, and RAM differs from what it was only by
  the bytes already written, also when the addresses wrap or two of them are
  mirrors of each other (`Target`, `Validated`, `Written`). The sets of addresses
  are arbitrary.

The type invariants other than `Cpu`'s, `NoDuplicates`, `StopStateCoherent`,
`LeavesRunning` and `WholeTriangles` are stated by theorems only: no run repeats
them.

Two definitions were corrected by their proofs. `Kind` (`Dma`) and `Remember`
(`Graphics`) chose with a `CASE` whose arms overlapped. TLC takes the first arm
that holds; TLA+ does not say which one is meant, and nothing could be proved of
them. Their arms are now disjoint, in the order of the code.

Only model-checked: the four liveness properties (`StepEnds`, `TransferTerminates`,
`StopReachesGdb`, `QuitEnds`). Liveness under fairness and `ENABLED` are out of the
prover's reach. What each of them rests on besides fairness is proved:
`StepEndsInTurn`, `TransferApproachesEnd`, `StopNearsGdb` and `QuitApproachesEnd`
say that a step that is taken never goes back. That a step can always be taken,
and that the scheduler takes it, TLC checks.

## 5. Not modelled

* **DMA control and interrupt registers.** They keep what is stored. No transfer
  sets an interrupt flag, and `README.md:177` says that interrupts are incomplete:
  there is no behaviour to state.
* **`gpu_status` and `gpu_read`**, which change nothing; `Interconnect` has the
  status as a constant.
* **Replies of the GDB server**: register and memory dumps, the target description
  and its chunks are formatting. Delivery of a signal (SIGPIPE) is not in the model
  of `send`, which only fails.
* **Results of arithmetic, HI and LO, bitwise operations, comparisons, bit fields
  of an instruction**: functions of the operands, which tests reach. `Cpu` takes
  any result. The cases of DIV that C leaves undefined (`cpu.c:636-653`) are
  guarded in the code.
* **Panels of the debug window, Nuklear, the shaders, OpenGL's own state, reading
  the BIOS file, command-line options**: layout, libraries or I/O.

The hazard without a property is in `PROJECT.json` with the reason: no document
or test says what should happen.

## 6. Plan

Modelled first were the CPU, the debugger and the GPU ports, whose hazards are
the worst to test, then DMA and the renderer, then what composes them:
`GdbServer` over `Debugger`, `Graphics` over `Gpu` and `Renderer`, `Frontend`
around all. What a next step would add:

1. The results of arithmetic against their definitions, at a parametric width.
2. `Dma` as the source of the words of `Graphics`: a list in RAM to the screen.
   The parts are checked each on their own; the composition is large for TLC.
3. DMA interrupts and timers, once the emulator has them.
