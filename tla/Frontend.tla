------------------------------ MODULE Frontend ------------------------------
(***************************************************************************)
(* What src/src/main.c, renderer.c and debug_ui.c acquire and release: SDL,*)
(* the two windows with an OpenGL context each, the objects in them, and   *)
(* the sockets of the GDB server.  Start-up may fail at any call; the loop *)
(* moves the one current context between the windows; the end takes all of *)
(* it down.  What a frame draws and what the CPU computes is left out.     *)
(***************************************************************************)
EXTENDS Naturals, Sequences, FiniteSets

CONSTANT MaxFaults      \* bound: calls of SDL_GL_MakeCurrent that fail once the windows are up

ASSUME FrontendAssumption == MaxFaults \in Nat

VARIABLES
    pc,                     \* where main is
    init_call,              \* which call of renderer_init or debug_ui_init is next
    want_ui,                \* options.debug_ui
    live,                   \* what exists outside of the program's variables
    fields,                 \* the fields of Renderer that are not null
    implementation,         \* debug_ui.implementation is not null
    current,                \* the current OpenGL context, with its window
    previous_context,       \* the local of debug_ui_init and debug_ui_frame
    visible,                \* ui->visible
    input_open,             \* between nk_input_begin and nk_input_end
    debug_pause_requested, running,
    faults                  \* bound: failures of SDL_GL_MakeCurrent so far

resources == <<live, fields, implementation>>
context == <<current, previous_context, faults>>
input == <<visible, input_open, debug_pause_requested, running>>
mvars == <<pc, init_call, want_ui, resources, context, input>>

\* What lives in a context and is gone when the context is.
RendererObjects == {"vertex_shader", "fragment_shader", "program",
                    "vertex_array_obj", "positions", "colors"}
UiObjects == {"ui_shaders", "ui_program", "ui_objects"}
UiResources == {"ui", "ui_window", "ui_context", "ui_nuklear", "ui_staging"} \cup UiObjects

\* The calls of renderer_init in their order: what each acquires, and what it
\* may leave behind when it fails.
RendererCalls == <<
    [gives |-> {"sdl"}, leaves |-> { {} }],             \* SDL_Init
    [gives |-> {}, leaves |-> { {} }],                  \* renderer_set_gl_attribute
    [gives |-> {"window"}, leaves |-> { {} }],
    [gives |-> {"gl_context"}, leaves |-> { {} }],
    [gives |-> {}, leaves |-> { {} }],                  \* SDL_GL_MakeCurrent
    [gives |-> {"vertex_shader", "fragment_shader"},    \* both are tried, and may not load
     leaves |-> { {}, {"vertex_shader"}, {"fragment_shader"} }],
    [gives |-> {"program"}, leaves |-> { {} }],         \* renderer_link_program deletes its own
    [gives |-> {"vertex_array_obj"}, leaves |-> SUBSET {"vertex_array_obj"}],
    [gives |-> {"positions"}, leaves |-> { {} }],       \* renderer_buffer_init undoes its own
    [gives |-> {}, leaves |-> { {} }],                  \* renderer_bind_integer_attribute
    [gives |-> {"colors"}, leaves |-> { {} }],
    [gives |-> {}, leaves |-> { {} }] >>
CreatesContext == 4

\* The same for the shaders, the program and the objects of the debug window.
create_device == <<
    [gives |-> {"ui_shaders"}, leaves |-> SUBSET {"ui_shaders"}],
    [gives |-> {"ui_program"}, leaves |-> SUBSET {"ui_program"}],
    [gives |-> {"ui_staging"}, leaves |-> SUBSET {"ui_staging"}],
    [gives |-> {"ui_objects"}, leaves |-> SUBSET {"ui_objects"}] >>

\* The same for debug_ui_init, which ends with create_device.
UiCalls == <<
    [gives |-> {"ui"}, leaves |-> { {} }],
    [gives |-> {"ui_window"}, leaves |-> { {} }],
    [gives |-> {"ui_context"}, leaves |-> { {} }],
    [gives |-> {}, leaves |-> { {} }],                  \* SDL_GL_MakeCurrent
    [gives |-> {"ui_nuklear"}, leaves |-> { {} }] >> \o create_device
CreatesUiContext == 3
UiVisible == 5

-----------------------------------------------------------------------------
MainInit ==
    /\ pc \in {"renderer_init", "done"}     \* done: the options or the BIOS file
    /\ init_call = 1 /\ want_ui \in BOOLEAN
    /\ live = {} /\ fields = {} /\ implementation = FALSE
    /\ current = "none" /\ previous_context = "none" /\ faults = 0
    /\ visible = FALSE /\ input_open = FALSE
    /\ debug_pause_requested = FALSE /\ running = TRUE

Goto(stage) == pc' = stage /\ UNCHANGED <<init_call, want_ui>>

\* SDL_GL_MakeCurrent: a call that fails leaves the context that was current.
MakeCurrent(c) == current' = c /\ UNCHANGED faults
MakeCurrentFails == faults < MaxFaults /\ faults' = faults + 1 /\ UNCHANGED current
MakeCurrentUnchecked(c) == MakeCurrent(c) \/ MakeCurrentFails

CallsLeft(calls) == init_call < Len(calls)

WithoutContext(c) == IF current = c THEN "none" ELSE current    \* SDL_GL_DestroyContext

-----------------------------------------------------------------------------
(* renderer_init and renderer_destroy *)

renderer_init_Proceeds ==
    /\ pc = "renderer_init"
    /\ live' = live \cup RendererCalls[init_call].gives
    /\ fields' = fields \cup (RendererCalls[init_call].gives \ {"sdl"})
    /\ current' = IF init_call = CreatesContext THEN "psx" ELSE current
    /\ IF CallsLeft(RendererCalls)
       THEN pc' = pc /\ init_call' = init_call + 1
       ELSE pc' = (IF want_ui THEN "debug_ui_init" ELSE "gdb_port") /\ init_call' = 1
    /\ UNCHANGED <<want_ui, implementation, previous_context, faults, input>>

renderer_destroy(left) ==
    /\ live' = (live \cup left) \ (fields \cup left \cup {"sdl"})
    /\ fields' = {}
    /\ current' = IF "gl_context" \in fields THEN WithoutContext("psx") ELSE current

\* Mutation: a failure to create the context forgets the window.
FailureBeforeContext_KeepsWindow ==
    IF init_call = 1 THEN UNCHANGED live ELSE live' = live \ {"sdl"}

\* Until there is a context each failure undoes the calls before by itself.
FailureBeforeContext ==
    IF init_call = 1 THEN UNCHANGED live
    ELSE live' = live \ ({"sdl"} \cup (IF init_call = CreatesContext THEN {"window"} ELSE {}))

renderer_init_Fails ==
    /\ pc = "renderer_init" /\ Goto("done")
    /\ IF init_call <= CreatesContext
       THEN FailureBeforeContext /\ fields' = {} /\ UNCHANGED current
       ELSE \E left \in RendererCalls[init_call].leaves : renderer_destroy(left)
    /\ UNCHANGED <<implementation, previous_context, faults, input>>

-----------------------------------------------------------------------------
(* debug_ui_init *)

debug_ui_init_Proceeds ==
    /\ pc = "debug_ui_init"
    /\ live' = live \cup UiCalls[init_call].gives
    /\ previous_context' = IF init_call = 1 THEN current ELSE previous_context
    /\ current' = IF init_call = CreatesUiContext THEN "ui" ELSE current
    /\ visible' = (visible \/ init_call + 1 = UiVisible)
    /\ IF CallsLeft(UiCalls)
       THEN pc' = pc /\ init_call' = init_call + 1 /\ UNCHANGED implementation
       ELSE pc' = "debug_ui_init_restore" /\ implementation' = TRUE /\ init_call' = init_call
    /\ UNCHANGED <<want_ui, fields, faults, input_open, debug_pause_requested, running>>

debug_ui_init_Fails ==
    /\ pc = "debug_ui_init"
    /\ IF init_call = 1 THEN Goto("interconnect_destroy") ELSE Goto("failure")
    /\ \E left \in UiCalls[init_call].leaves : live' = live \cup left
    /\ UNCHANGED <<fields, implementation, context, input>>

\* The label failure, when there is a context to enter first and when not.
failure_InContext ==
    /\ pc = "failure" /\ "ui_context" \in live
    /\ MakeCurrentUnchecked("ui")
    /\ Goto("failure_destroy_device")
    /\ UNCHANGED <<resources, previous_context, input>>

failure_NoContext ==
    /\ pc = "failure" /\ "ui_context" \notin live
    /\ live' = live \ {"ui_window", "ui"}
    /\ Goto("failure_restore")
    /\ UNCHANGED <<fields, implementation, context, input>>

\* destroy_device, and the context, the window and the memory after it.
destroy_device == live' = live \ UiResources

failure_destroy_device ==
    /\ pc = "failure_destroy_device"
    /\ destroy_device /\ current' = WithoutContext("ui")
    /\ Goto("failure_restore")
    /\ UNCHANGED <<fields, implementation, previous_context, faults, input>>

failure_restore ==
    /\ pc = "failure_restore"
    /\ MakeCurrentUnchecked(previous_context)
    /\ Goto("interconnect_destroy")
    /\ UNCHANGED <<resources, previous_context, input>>

OrRenderer(c) == IF c = "none" THEN "psx" ELSE c

debug_ui_init_restore ==
    /\ pc = "debug_ui_init_restore"
    /\ MakeCurrentUnchecked(OrRenderer(previous_context))
    /\ Goto("gdb_port")
    /\ UNCHANGED <<resources, previous_context, input>>

-----------------------------------------------------------------------------
(* main: the server, and the loop *)

\* gdb_port_from_environment and gdb_server_init
gdb_server_init_Fails ==
    /\ pc = "gdb_port" /\ Goto("debug_ui_destroy")
    /\ UNCHANGED <<resources, context, input>>

gdb_server_init ==
    /\ pc = "gdb_port" /\ Goto("poll")
    /\ live' = live \cup {"listen_fd"}
    /\ UNCHANGED <<fields, implementation, context, input>>

\* gdb_server_poll may accept a client, close the one it has, or both; when it
\* fails, a client it has stays open, and the loop is left.
Poll ==
    /\ pc = "poll"
    /\ \/ Goto("input_begin") /\ live' \in {live \cup {"client_fd"}, live \ {"client_fd"}}
       \/ Goto("gdb_server_destroy") /\ live' \in {live, live \cup {"client_fd"}}
    /\ UNCHANGED <<fields, implementation, context, input>>

debug_ui_input_begin ==
    /\ pc = "input_begin" /\ Goto("handle_events")
    /\ input_open' = (input_open \/ (implementation /\ visible))
    /\ UNCHANGED <<resources, context, visible, debug_pause_requested, running>>

\* Mutation: the events after it are still handled.
QuitEvent_GoesOn ==
    /\ pc = "handle_events" /\ running' = FALSE /\ Goto("handle_events")
    /\ UNCHANGED <<resources, context, visible, input_open, debug_pause_requested>>

\* renderer_handle_events: one event, of the many that may wait.
QuitEvent ==
    /\ pc = "handle_events" /\ running' = FALSE /\ Goto("input_end")
    /\ UNCHANGED <<resources, context, visible, input_open, debug_pause_requested>>

PauseEvent ==
    /\ pc = "handle_events" /\ debug_pause_requested' = TRUE /\ Goto(pc)
    /\ UNCHANGED <<resources, context, visible, input_open, running>>

CloseUiEvent ==
    /\ pc = "handle_events" /\ implementation /\ visible' = FALSE /\ Goto(pc)
    /\ UNCHANGED <<resources, context, input_open, debug_pause_requested, running>>

NoMoreEvents ==
    /\ pc = "handle_events" /\ running' = TRUE /\ Goto("input_end")
    /\ UNCHANGED <<resources, context, visible, input_open, debug_pause_requested>>

debug_ui_input_end == input_open' = (input_open /\ ~(implementation /\ visible))

renderer_take_debug_pause == debug_pause_requested' = FALSE

EndInput ==
    /\ pc = "input_end" /\ Goto("frame")
    /\ debug_ui_input_end /\ renderer_take_debug_pause
    /\ UNCHANGED <<resources, context, visible, running>>

\* debug_ui_frame enters its own context, or gives the frame up.
debug_ui_frame ==
    /\ pc = "frame"
    /\ \/ ~(implementation /\ visible) /\ Goto("cpu") /\ UNCHANGED context
       \/ /\ implementation /\ visible /\ previous_context' = current
          /\ \/ MakeCurrent("ui") /\ Goto("render_ui")
             \/ MakeCurrentFails /\ Goto("cpu")
    /\ UNCHANGED <<resources, input>>

render_ui ==
    /\ pc = "render_ui" /\ Goto("frame_restore")
    /\ UNCHANGED <<resources, context, input>>

\* Mutation: the window's own context stays current.
debug_ui_frame_restore_Skipped ==
    /\ pc = "frame_restore" /\ Goto("cpu")
    /\ UNCHANGED <<resources, context, input>>

debug_ui_frame_restore ==
    /\ pc = "frame_restore"
    /\ MakeCurrentUnchecked(OrRenderer(previous_context))
    /\ Goto("cpu")
    /\ UNCHANGED <<resources, previous_context, input>>

\* The instructions of a turn draw with the renderer's context; an instruction
\* that is not emulated ends the process.
RunInstructions ==
    /\ pc = "cpu"
    /\ \/ Goto(IF running THEN "poll" ELSE "gdb_server_destroy")
       \/ Goto("died")
    /\ UNCHANGED <<resources, context, input>>

-----------------------------------------------------------------------------
(* The end *)

gdb_server_destroy ==
    /\ pc = "gdb_server_destroy" /\ Goto("debug_ui_destroy")
    /\ live' = live \ {"client_fd", "listen_fd"}
    /\ UNCHANGED <<fields, implementation, context, input>>

debug_ui_destroy ==
    /\ pc = "debug_ui_destroy"
    /\ IF implementation
       THEN MakeCurrentUnchecked("ui") /\ Goto("destroy_device")
       ELSE Goto("interconnect_destroy") /\ UNCHANGED <<current, faults>>
    /\ UNCHANGED <<resources, previous_context, input>>

debug_ui_destroy_Device ==
    /\ pc = "destroy_device"
    /\ destroy_device /\ implementation' = FALSE /\ current' = WithoutContext("ui")
    /\ Goto("destroy_restore")
    /\ UNCHANGED <<fields, previous_context, faults, input>>

debug_ui_destroy_Restore ==
    /\ pc = "destroy_restore"
    /\ MakeCurrentUnchecked("psx")
    /\ Goto("interconnect_destroy")
    /\ UNCHANGED <<resources, previous_context, input>>

interconnect_destroy ==
    /\ pc = "interconnect_destroy" /\ Goto("done")
    /\ renderer_destroy({})
    /\ UNCHANGED <<implementation, previous_context, faults, input>>

Ended == pc \in {"done", "died"} /\ UNCHANGED mvars

Events == QuitEvent \/ PauseEvent \/ CloseUiEvent \/ NoMoreEvents

MainNext ==
    \/ renderer_init_Proceeds \/ renderer_init_Fails
    \/ debug_ui_init_Proceeds \/ debug_ui_init_Fails
    \/ failure_InContext \/ failure_NoContext
    \/ failure_destroy_device \/ failure_restore \/ debug_ui_init_restore
    \/ gdb_server_init \/ gdb_server_init_Fails
    \/ Poll \/ debug_ui_input_begin \/ Events \/ EndInput
    \/ debug_ui_frame \/ render_ui \/ debug_ui_frame_restore \/ RunInstructions
    \/ gdb_server_destroy \/ debug_ui_destroy
    \/ debug_ui_destroy_Device \/ debug_ui_destroy_Restore
    \/ interconnect_destroy \/ Ended

MainSpec == MainInit /\ [][MainNext]_mvars

\* One thread that is always at some call that returns; the queue of events
\* is empty at last.
FairMainSpec == MainSpec /\ WF_mvars(MainNext) /\ WF_mvars(NoMoreEvents)

-----------------------------------------------------------------------------
(* Properties *)

\* When main returns, nothing is left of what it acquired.
NothingLeft == pc = "done" => live = {}

\* A pointer or an OpenGL name that the program still has stands for something
\* that exists, so that nothing is released or used after it is gone.
NoDangling ==
    /\ fields \subseteq live
    /\ implementation /\ pc # "died" => UiResources \subseteq live

\* A window and its context outlive what was made in them, and SDL all of it.
OwnersOutlive ==
    /\ live \cap (RendererObjects \cup {"gl_context"}) # {} => {"gl_context", "window"} \subseteq live
    /\ live \cap UiObjects # {} => {"ui_context", "ui_window"} \subseteq live
    /\ live \cap {"window", "ui_window", "gl_context", "ui_context"} # {} => "sdl" \in live

\* Whichever call of the start fails and wherever the loop ends, everything
\* acquired is released once, before what it depends on, and nothing is left.
ReleasedInOrder == NothingLeft /\ NoDangling /\ OwnersOutlive

\* Names of OpenGL objects mean something else in the other context: while no
\* call of SDL_GL_MakeCurrent has failed, every object is made, used and deleted
\* in its own.
GlInOwnContext ==
    faults = 0 =>
    /\ pc \in {"cpu", "interconnect_destroy"} \/ (pc = "renderer_init" /\ init_call > CreatesContext)
            => current = "psx"
    /\ pc \in {"render_ui", "destroy_device", "failure_destroy_device"}
       \/ (pc = "debug_ui_init" /\ init_call > CreatesUiContext)
            => current = "ui"

\* After a quit, a close or Escape main returns, unless the CPU ends the process.
QuitEnds == ~running ~> pc \in {"done", "died"}

=============================================================================
