------------------------------ MODULE Debugger ------------------------------
(***************************************************************************)
(* Execution control (src/src/debug/debugger.c): the Debugger object that  *)
(* the CPU consults around every instruction and that the GDB server, the  *)
(* hardware-debug window and the hot key command between instructions.     *)
(* Nothing synchronises the frontends and none of them looks at the state  *)
(* before it issues a command, so every command may come at any time.      *)
(* Of the CPU only the PC and the data addresses an instruction touches    *)
(* matter here.                                                            *)
(***************************************************************************)
EXTENDS AddressList, FiniteSets

CONSTANTS
    Addrs,           \* addresses, of code and of data
    None,            \* no address
    MaxBreakpoints,  \* DEBUGGER_MAX_BREAKPOINTS, 64
    MaxWatchpoints   \* DEBUGGER_MAX_WATCHPOINTS, 64

ASSUME DebuggerAssumption ==
    /\ None \notin Addrs
    /\ MaxBreakpoints \in Nat /\ MaxWatchpoints \in Nat

VARIABLES
    breakpoints, read_watchpoints, write_watchpoints,  \* address lists
    stopped, single_step,
    skip_breakpoint_once, skipped_breakpoint,  \* let one PC pass once
    stop_reason, stop_address,
    pc,          \* the CPU's next instruction
    announced,   \* history: breakpoint announced since the last instruction
    calls,       \* history: commands since the debugger last stopped (0, 1, 2+)
    executed,    \* history: instructions since the last command (0, 1, 2+)
    resumed_by   \* history: the last command that resumed

lists == <<breakpoints, read_watchpoints, write_watchpoints>>
flags == <<stopped, single_step, skip_breakpoint_once, skipped_breakpoint,
           stop_reason, stop_address>>
history == <<announced, calls, executed, resumed_by>>
vars == <<lists, flags, pc, history>>

Reasons == {"NONE", "PAUSE", "STEP", "BREAKPOINT", "READ_WATCHPOINT",
            "WRITE_WATCHPOINT"}

-----------------------------------------------------------------------------
(* The lists, edited by GDB's Z and z packets.                             *)

debugger_add_breakpoint(addr) ==
    /\ breakpoints' = address_list_add(breakpoints, MaxBreakpoints, addr)
    /\ UNCHANGED <<read_watchpoints, write_watchpoints, flags, pc, history>>

debugger_remove_breakpoint(addr) ==
    /\ breakpoints' = address_list_remove(breakpoints, addr)
    /\ UNCHANGED <<read_watchpoints, write_watchpoints, flags, pc, history>>

debugger_add_read_watchpoint(addr) ==
    /\ read_watchpoints' = address_list_add(read_watchpoints, MaxWatchpoints, addr)
    /\ UNCHANGED <<breakpoints, write_watchpoints, flags, pc, history>>

debugger_remove_read_watchpoint(addr) ==
    /\ read_watchpoints' = address_list_remove(read_watchpoints, addr)
    /\ UNCHANGED <<breakpoints, write_watchpoints, flags, pc, history>>

debugger_add_write_watchpoint(addr) ==
    /\ write_watchpoints' = address_list_add(write_watchpoints, MaxWatchpoints, addr)
    /\ UNCHANGED <<breakpoints, read_watchpoints, flags, pc, history>>

debugger_remove_write_watchpoint(addr) ==
    /\ write_watchpoints' = address_list_remove(write_watchpoints, addr)
    /\ UNCHANGED <<breakpoints, read_watchpoints, flags, pc, history>>

-----------------------------------------------------------------------------
(* One call of cpu_run_next_instruction.                                   *)

debugger_stop(reason, addr) ==
    /\ stopped' = TRUE
    /\ single_step' = FALSE
    /\ stop_reason' = reason
    /\ stop_address' = addr

\* Mutation: the permission is not tied to the address it was given for.
Skips_AnyPc == skip_breakpoint_once

Skips == skip_breakpoint_once /\ skipped_breakpoint = pc

\* debugger_before_instruction refuses: a breakpoint, and not the one to skip.
BreakpointHit ==
    /\ ~stopped
    /\ ~Skips
    /\ address_list_contains(breakpoints, pc)
    /\ skip_breakpoint_once' = FALSE
    /\ debugger_stop("BREAKPOINT", pc)
    /\ announced' = pc
    /\ calls' = 0
    /\ UNCHANGED <<lists, skipped_breakpoint, pc, executed, resumed_by>>

\* The stop that a data access leaves behind: debugger_memory_read, then
\* debugger_memory_write, the last hit winning.  None: no such access.
AccessStop(read, write) ==
    IF address_list_contains(write_watchpoints, write)
    THEN <<"WRITE_WATCHPOINT", write>>
    ELSE IF address_list_contains(read_watchpoints, read)
    THEN <<"READ_WATCHPOINT", read>>
    ELSE <<"NONE", None>>

\* Mutation: debugger_after_instruction does not end a step.
Execute_StepGoesOn(read, write) ==
    LET hit == AccessStop(read, write) IN
    /\ ~stopped
    /\ Skips \/ ~address_list_contains(breakpoints, pc)
    /\ skip_breakpoint_once' = FALSE
    /\ IF hit[1] # "NONE" THEN debugger_stop(hit[1], hit[2])
       ELSE UNCHANGED <<stopped, single_step, stop_reason, stop_address>>
    /\ pc' \in Addrs
    /\ announced' = None
    /\ calls' = 0
    /\ executed' = IF executed = 2 THEN 2 ELSE executed + 1
    /\ UNCHANGED <<lists, skipped_breakpoint, resumed_by>>

\* debugger_before_instruction agrees, the instruction runs, touching the
\* given data addresses, and debugger_after_instruction ends a step.
Execute(read, write) ==
    LET hit == AccessStop(read, write) IN
    /\ ~stopped
    /\ Skips \/ ~address_list_contains(breakpoints, pc)
    /\ skip_breakpoint_once' = FALSE
    /\ IF hit[1] # "NONE" THEN debugger_stop(hit[1], hit[2])
       ELSE IF single_step THEN debugger_stop("STEP", pc)
       ELSE UNCHANGED <<stopped, single_step, stop_reason, stop_address>>
    /\ pc' \in Addrs
    /\ announced' = None
    /\ calls' = 0
    /\ executed' = IF executed = 2 THEN 2 ELSE executed + 1
    /\ UNCHANGED <<lists, skipped_breakpoint, resumed_by>>

RunNextInstruction ==
    \/ BreakpointHit
    \/ \E read, write \in Addrs \cup {None} : Execute(read, write)

-----------------------------------------------------------------------------
(* Commands: GDB's Ctrl-C, c, s, D and disconnect, the buttons Run, Pause  *)
(* and Step, and the hot key.                                              *)

Command == calls' = IF calls = 2 THEN 2 ELSE calls + 1

debugger_pause ==
    /\ debugger_stop("PAUSE", None)
    /\ Command
    /\ UNCHANGED <<lists, skip_breakpoint_once, skipped_breakpoint, pc,
                   announced, executed, resumed_by>>

\* Mutation: every resume lets the stop address pass.
ArmSkip_Always ==
    /\ skip_breakpoint_once' = TRUE
    /\ skipped_breakpoint' = stop_address

\* Mutation: no resume does.
ArmSkip_Never ==
    /\ skip_breakpoint_once' = FALSE
    /\ skipped_breakpoint' = stop_address

ArmSkip ==
    /\ skip_breakpoint_once' = (stop_reason = "BREAKPOINT")
    /\ skipped_breakpoint' = stop_address

debugger_continue ==
    /\ ArmSkip
    /\ stopped' = FALSE
    /\ single_step' = FALSE
    /\ stop_reason' = "NONE"
    /\ Command
    /\ executed' = 0
    /\ resumed_by' = "continue"
    /\ UNCHANGED <<lists, stop_address, pc, announced>>

debugger_step ==
    /\ ArmSkip
    /\ stopped' = FALSE
    /\ single_step' = TRUE
    /\ stop_reason' = "NONE"
    /\ Command
    /\ executed' = 0
    /\ resumed_by' = IF stopped THEN "step" ELSE "late_step"
    /\ UNCHANGED <<lists, stop_address, pc, announced>>

\* A debugger writes the PC register.
WritePc(addr) == pc' = addr /\ UNCHANGED <<lists, flags, history>>

-----------------------------------------------------------------------------
Init ==
    /\ breakpoints = <<>> /\ read_watchpoints = <<>> /\ write_watchpoints = <<>>
    /\ stopped = FALSE /\ single_step = FALSE
    /\ skip_breakpoint_once = FALSE /\ skipped_breakpoint = None
    /\ stop_reason = "NONE" /\ stop_address = None
    /\ pc \in Addrs
    /\ announced = None /\ calls = 0 /\ executed = 0 /\ resumed_by = "reset"

EditLists ==
    \E addr \in Addrs :
        \/ debugger_add_breakpoint(addr)       \/ debugger_remove_breakpoint(addr)
        \/ debugger_add_read_watchpoint(addr)  \/ debugger_remove_read_watchpoint(addr)
        \/ debugger_add_write_watchpoint(addr) \/ debugger_remove_write_watchpoint(addr)

Commands ==
    \/ debugger_pause \/ debugger_continue \/ debugger_step
    \/ \E addr \in Addrs : WritePc(addr)

Next == RunNextInstruction \/ EditLists \/ Commands

Spec == Init /\ [][Next]_vars

-----------------------------------------------------------------------------
(* Properties.                                                             *)

\* Every variable keeps its type, and the address arrays their capacity.
TypeOK ==
    /\ breakpoints \in Seq(Addrs) /\ Len(breakpoints) <= MaxBreakpoints
    /\ read_watchpoints \in Seq(Addrs) /\ Len(read_watchpoints) <= MaxWatchpoints
    /\ write_watchpoints \in Seq(Addrs) /\ Len(write_watchpoints) <= MaxWatchpoints
    /\ stopped \in BOOLEAN /\ single_step \in BOOLEAN
    /\ skip_breakpoint_once \in BOOLEAN
    /\ skipped_breakpoint \in Addrs \cup {None}
    /\ stop_address \in Addrs \cup {None}
    /\ announced \in Addrs \cup {None}
    /\ stop_reason \in Reasons
    /\ pc \in Addrs
    /\ calls \in 0 .. 2 /\ executed \in 0 .. 2
    /\ resumed_by \in {"reset", "continue", "step", "late_step"}

\* The arrays stay sets under add and swap-with-last remove: a removed
\* breakpoint cannot survive as a second copy.
NoDuplicates ==
    /\ IsSetList(breakpoints, MaxBreakpoints)
    /\ IsSetList(read_watchpoints, MaxWatchpoints)
    /\ IsSetList(write_watchpoints, MaxWatchpoints)

\* Removing a breakpoint, which moves the last element of the array into the
\* hole (debugger.c:26-34), takes that address out and no other.
RemovesOnlyAddress ==
    [][\A addr \in Addrs : debugger_remove_breakpoint(addr) =>
         Listed(breakpoints)' = Listed(breakpoints) \ {addr}]_vars

\* A stop always has a reason and a running CPU none; a step in progress is a
\* CPU that is not stopped.  The frontends derive what they report from this.
StopStateCoherent ==
    /\ stopped <=> stop_reason # "NONE"
    /\ single_step => ~stopped

\* A step executes at most one instruction before it stops again, whatever
\* breakpoints and watchpoints it meets and whoever interferes.
StepAtMostOne ==
    /\ single_step => executed = 0
    /\ resumed_by \in {"step", "late_step"} => executed <= 1

\* The permission to pass a breakpoint silently is held only for one that has
\* been announced since the last instruction; a stop that claims to be at a
\* breakpoint is one of those.
SkipOnlyAnnounced ==
    /\ skip_breakpoint_once => announced = skipped_breakpoint
    /\ stop_reason = "BREAKPOINT" => announced = stop_address
                                     /\ announced # None

\* A single resume leaves a breakpoint: it is not announced twice in a row
\* when exactly one command came between.
ResumeLeavesBreakpoint ==
    [][(~stopped /\ stop_reason' = "BREAKPOINT") =>
         ~(announced = pc /\ calls = 1)]_vars

\* A step of a stopped CPU has executed exactly one instruction when the CPU
\* has stopped again, unless a pause stopped it (docs/DEBUG_UI.md:31).
StepExecutesOne ==
    resumed_by = "step" /\ stopped /\ stop_reason # "PAUSE" => executed = 1

\* The debugger keeps the promise of ExecutionControl.
EC == INSTANCE ExecutionControl WITH
        breakpoints <- Listed(breakpoints),
        mode <- IF stopped THEN "stopped"
                ELSE IF single_step THEN "stepping" ELSE "running"

ImplementsExecutionControl == EC!Spec

=============================================================================
