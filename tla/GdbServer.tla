----------------------------- MODULE GdbServer -----------------------------
(***************************************************************************)
(* The GDB server (src/src/debug/gdb_server.c) in the main loop of main.c. *)
(* One thread does everything: a turn of the loop polls the server, lets   *)
(* the window command the debugger and runs a batch of instructions.  GDB, *)
(* the network and the user act between its steps.  Packets are what       *)
(* PacketReceiver delivers, told apart as far as they change a state here; *)
(* the sending of a reply may fail at any time.                            *)
(***************************************************************************)
EXTENDS Debugger

CONSTANTS DebugUi  \* was the program started with --debug-ui?

ASSUME GdbServerAssumption == DebugUi \in BOOLEAN

VARIABLES
    phase,          \* where the main loop is
    client,         \* client_fd >= 0
    stop_reported,
    access,         \* a Z4 or z4 packet between its two list operations
    asked,          \* history: what GDB expects, new, waiting or answered
    heard,          \* history: breakpoint GDB heard of since the last instruction
    sole            \* history: only GDB has resumed the CPU since it connected

server == <<client, stop_reported, access>>
gdb == <<asked, heard, sole>>
gvars == <<vars, phase, server, gdb>>

Phases == {"poll", "receive", "access", "closing", "report", "events",
           "frame", "run", "ran", "ended"}

\* No access watchpoint in progress.
Idle == [add |-> FALSE, addr |-> None, ok |-> FALSE]

\* While GDB waits for a stop reply it sends no packet: only Ctrl-C.
GdbSpeaks == phase = "receive" /\ asked # "waiting"

\* A reply that cannot be sent makes receive_byte fail, which closes.
Replying == phase' \in {"receive", "closing"}

-----------------------------------------------------------------------------
(* gdb_server_poll: a connection.                                          *)

Accept ==
    /\ phase = "poll" /\ ~client
    /\ phase' = "receive"
    /\ client' = TRUE
    /\ debugger_pause
    /\ stop_reported' = FALSE
    /\ asked' = "new" /\ heard' = None /\ sole' = TRUE
    /\ UNCHANGED <<access>>

NobodyConnects ==
    /\ phase = "poll" /\ ~client
    /\ phase' \in {"events", "ended"}  \* ended: accept or fcntl failed
    /\ UNCHANGED <<vars, server, gdb>>

PollClient ==
    /\ phase = "poll" /\ client
    /\ phase' = "receive"
    /\ UNCHANGED <<vars, server, gdb>>

-----------------------------------------------------------------------------
(* receive_byte and handle_packet.                                         *)

\* What GDB knows after a stop reply with this reason and address.
Told(reason, addr) ==
    /\ asked' = "answered"
    /\ heard' = IF reason = "BREAKPOINT" THEN addr ELSE heard

\* Mutation: Ctrl-C answers and leaves the stop to be reported again.
Interrupt_ReportsAgain ==
    /\ phase = "receive"
    /\ debugger_pause
    /\ stop_reported' = FALSE
    /\ Told("PAUSE", None)
    /\ Replying
    /\ UNCHANGED <<client, access, sole>>

\* Ctrl-C, the byte 0x03.
Interrupt ==
    /\ phase = "receive"
    /\ debugger_pause
    /\ stop_reported' = TRUE
    /\ Told("PAUSE", None)
    /\ Replying
    /\ UNCHANGED <<client, access, sole>>

\* ?
StopQuery ==
    /\ GdbSpeaks
    /\ stop_reported' = TRUE
    /\ Told(stop_reason, stop_address)
    /\ Replying
    /\ UNCHANGED <<vars, client, access, sole>>

\* c and s: no reply before the CPU stops again.
Resume ==
    /\ GdbSpeaks
    /\ debugger_continue \/ debugger_step
    /\ stop_reported' = FALSE
    /\ asked' = "waiting"
    /\ UNCHANGED <<phase, client, access, heard, sole>>

\* D
Detach ==
    /\ GdbSpeaks
    /\ debugger_continue
    /\ sole' = FALSE
    /\ Replying
    /\ UNCHANGED <<server, asked, heard>>

\* k, and every other reason to drop the connection while receiving.
Drop ==
    /\ phase = "receive"
    /\ phase' = "closing"
    /\ UNCHANGED <<vars, server, gdb>>

\* P of the program counter.
WritePcRegister(addr) ==
    /\ GdbSpeaks
    /\ WritePc(addr)
    /\ Replying
    /\ UNCHANGED <<server, gdb>>

\* Z0 and Z1, z0 and z1; Z2 and z2; Z3 and z3.
EditList(addr) ==
    /\ GdbSpeaks
    /\ \/ debugger_add_breakpoint(addr)       \/ debugger_remove_breakpoint(addr)
       \/ debugger_add_write_watchpoint(addr) \/ debugger_remove_write_watchpoint(addr)
       \/ debugger_add_read_watchpoint(addr)  \/ debugger_remove_read_watchpoint(addr)
    /\ Replying
    /\ UNCHANGED <<server, gdb>>

\* What an edit of a list returns: an address that is there already can be
\* added, one that is not cannot be removed.
Edited(list, add, addr) ==
    address_list_contains(list, addr) \/ (add /\ Len(list) < MaxWatchpoints)

\* Z4 and z4, the first of two list operations.
AccessWatchpoint(addr, add) ==
    /\ GdbSpeaks
    /\ phase' = "access"
    /\ IF add THEN debugger_add_read_watchpoint(addr)
       ELSE debugger_remove_read_watchpoint(addr)
    /\ access' = [add |-> add, addr |-> addr,
                  ok |-> Edited(read_watchpoints, add, addr)]
    /\ UNCHANGED <<client, stop_reported, gdb>>

\* Mutation: one of the two operations is enough for OK.
AccessWatchpointEnds_EitherOk(reply) ==
    /\ phase = "access"
    /\ IF access.add THEN debugger_add_write_watchpoint(access.addr)
       ELSE debugger_remove_write_watchpoint(access.addr)
    /\ reply = IF access.ok \/ Edited(write_watchpoints, access.add, access.addr)
               THEN "OK" ELSE "E02"
    /\ access' = Idle
    /\ Replying
    /\ UNCHANGED <<client, stop_reported, gdb>>

\* The second, done whether or not the first succeeded.
AccessWatchpointEnds(reply) ==
    /\ phase = "access"
    /\ IF access.add THEN debugger_add_write_watchpoint(access.addr)
       ELSE debugger_remove_write_watchpoint(access.addr)
    /\ reply = IF access.ok /\ Edited(write_watchpoints, access.add, access.addr)
               THEN "OK" ELSE "E02"
    /\ access' = Idle
    /\ Replying
    /\ UNCHANGED <<client, stop_reported, gdb>>

AnswersAccess == \E reply \in {"OK", "E02"} : AccessWatchpointEnds(reply)

Packet ==
    \/ Interrupt \/ StopQuery \/ Resume \/ Detach \/ Drop \/ AnswersAccess
    \/ \E addr \in Addrs :
          \/ EditList(addr) \/ WritePcRegister(addr)
          \/ \E add \in BOOLEAN : AccessWatchpoint(addr, add)

-----------------------------------------------------------------------------
(* The end of gdb_server_poll.                                             *)

\* recv finds no more bytes, or fails.
InputEnds ==
    /\ phase = "receive"
    /\ phase' \in {"report", "ended"}
    /\ UNCHANGED <<vars, server, gdb>>

\* The connection is closed, by GDB or by the server.
Close ==
    /\ phase = "closing"
    /\ phase' = "events"
    /\ client' = FALSE
    /\ debugger_continue
    /\ asked' = "new" /\ heard' = None /\ sole' = FALSE
    /\ UNCHANGED <<stop_reported, access>>

\* Mutation: a stop at a watchpoint is not reported.
MustReport_NoWatchpoint ==
    stopped /\ ~stop_reported /\ stop_reason \in {"STEP", "BREAKPOINT"}

MustReport == stopped /\ ~stop_reported /\ stop_reason # "PAUSE"

\* A stop that GDB has not been told of.
ReportStop ==
    /\ phase = "report" /\ MustReport
    /\ phase' = "events"
    /\ stop_reported' = TRUE
    /\ Told(stop_reason, stop_address)
    /\ UNCHANGED <<vars, client, access, sole>>

\* GDB does not get it: gdb_server_poll fails, and main gives up.
ReportFails ==
    /\ phase = "report" /\ MustReport
    /\ phase' = "ended"
    /\ UNCHANGED <<vars, server, gdb>>

NothingToReport ==
    /\ phase = "report" /\ ~MustReport
    /\ phase' = "events"
    /\ UNCHANGED <<vars, server, gdb>>

-----------------------------------------------------------------------------
(* The rest of the turn: the Pause key, the buttons, the instructions.     *)

PauseKey ==
    /\ phase = "events" /\ phase' = "frame"
    /\ debugger_pause
    /\ UNCHANGED <<server, gdb>>

NoPauseKey ==
    /\ phase = "events" /\ phase' = "frame"
    /\ UNCHANGED <<vars, server, gdb>>

\* build_controls: Run, Pause and Step.
Button ==
    /\ phase = "frame" /\ phase' = "run"
    /\ DebugUi
    /\ \/ debugger_pause /\ UNCHANGED sole
       \/ (debugger_continue \/ debugger_step) /\ sole' = FALSE
    /\ UNCHANGED <<server, asked, heard>>

NoButton ==
    /\ phase = "frame" /\ phase' = "run"
    /\ UNCHANGED <<vars, server, gdb>>

\* cpu_run_next_instruction meets a breakpoint and ends the batch.
MeetBreakpoint ==
    /\ phase \in {"run", "ran"} /\ phase' = "ran"
    /\ BreakpointHit
    /\ UNCHANGED <<server, gdb>>

RunInstruction ==
    /\ phase \in {"run", "ran"} /\ phase' = "ran"
    /\ \E read, write \in Addrs \cup {None} : Execute(read, write)
    /\ heard' = None
    /\ UNCHANGED <<server, asked, sole>>

\* The batch is over: stopped, or 10000 instructions run.
BatchEnds ==
    /\ (phase = "run" /\ stopped) \/ phase = "ran"
    /\ phase' = "poll"
    /\ UNCHANGED <<vars, server, gdb>>

-----------------------------------------------------------------------------
ServerInit ==
    /\ Init
    /\ phase = "poll"
    /\ client = FALSE /\ stop_reported = FALSE
    /\ access = Idle
    /\ asked = "new" /\ heard = None /\ sole = FALSE

Poll ==
    \/ Accept \/ NobodyConnects \/ PollClient
    \/ Packet \/ InputEnds \/ Close
    \/ ReportStop \/ ReportFails \/ NothingToReport

Turn ==
    \/ PauseKey \/ NoPauseKey \/ Button \/ NoButton
    \/ MeetBreakpoint \/ RunInstruction \/ BatchEnds

ServerNext == Poll \/ Turn

ServerSpec == ServerInit /\ [][ServerNext]_gvars

\* The loop goes on: whatever GDB, the network and the user do not do, it
\* does.  The bytes of one poll and the instructions of one batch come to an
\* end.
ServerFairness ==
    /\ WF_gvars(NobodyConnects \/ PollClient \/ AnswersAccess)
    /\ WF_gvars(InputEnds)
    /\ WF_gvars(Close \/ ReportStop \/ NothingToReport)
    /\ WF_gvars(NoPauseKey \/ NoButton)
    /\ WF_gvars(BatchEnds)
    /\ WF_gvars(MeetBreakpoint \/ RunInstruction)

FairServerSpec == ServerSpec /\ ServerFairness

-----------------------------------------------------------------------------
(* Properties.                                                             *)

\* Every variable of the server keeps its type, and an access watchpoint is
\* in progress only inside its packet.
ServerTypeOK ==
    /\ TypeOK
    /\ phase \in Phases
    /\ client \in BOOLEAN /\ stop_reported \in BOOLEAN
    /\ access \in [add : BOOLEAN, addr : Addrs \cup {None}, ok : BOOLEAN]
    /\ phase = "access" => access.addr \in Addrs
    /\ asked \in {"new", "waiting", "answered"}
    /\ heard \in Addrs \cup {None} /\ sole \in BOOLEAN

\* GDB is told of a stop once: whatever answered its last request, the stop
\* reply of the poll (gdb_server.c:625) does not come on top of it.
StopReportedOnce == [][ReportStop => asked # "answered"]_gvars

\* While only GDB resumes the CPU, an instruction at a breakpoint executes
\* only after GDB has heard of that breakpoint, even when Ctrl-C, the Pause
\* key or a new connection overwrote the stop before it was reported.
GdbHearsBreakpoint ==
    [][RunInstruction /\ client /\ sole /\ address_list_contains(breakpoints, pc)
         => heard = pc]_gvars

\* OK to a Z4 means that both lists hold the address and OK to a z4 that
\* neither does, although each packet is two operations that may fail.
OkMeansBoth ==
    [][AccessWatchpointEnds("OK") =>
         LET addr == access.addr IN
         IF access.add
         THEN /\ address_list_contains(read_watchpoints', addr)
              /\ address_list_contains(write_watchpoints', addr)
         ELSE /\ ~address_list_contains(read_watchpoints', addr)
              /\ ~address_list_contains(write_watchpoints', addr)]_gvars

\* When GDB has gone, however it went, the CPU is not left stopped.
LeavesRunning == [][client /\ ~client' => ~stopped']_gvars

\* A GDB that waits is told of a stop at a breakpoint, a watchpoint or after
\* a step, unless the CPU is resumed, a pause hides it or the program ends.
StopReachesGdb ==
    (asked = "waiting" /\ stopped /\ stop_reason # "PAUSE") ~>
        (asked # "waiting" \/ ~stopped \/ stop_reason = "PAUSE" \/ phase = "ended")

\* A command to step ends, by an instruction, a breakpoint, another command or
\* with the program, whatever GDB and the window do.
StepEnds == single_step ~> ~single_step \/ phase = "ended"

\* A stop from either frontend is visible to the other at once
\* (docs/DEBUG_UI.md:34): after a poll no stop is hidden from a waiting GDB.
StopVisibleToGdb ==
    [][phase = "report" /\ phase' = "events" => ~(asked' = "waiting" /\ stopped)]_gvars

\* The debugger in this program is the one of Debugger.tla.
DebuggerSpec == Spec

=============================================================================
