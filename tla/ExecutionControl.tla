-------------------------- MODULE ExecutionControl --------------------------
(***************************************************************************)
(* What the debugger promises its frontends, without its flags and arrays. *)
(* Breakpoints are a set.  An instruction at a breakpoint executes only    *)
(* after that breakpoint has been announced by a stop, and then once.      *)
(* While stopped nothing executes; while stepping one instruction does.    *)
(***************************************************************************)
CONSTANTS Addrs, None

VARIABLES
    pc,           \* the instruction to execute next
    breakpoints,  \* addresses to stop at
    mode,         \* running, stepping or stopped
    announced     \* breakpoint announced since the last instruction, or None

vars == <<pc, breakpoints, mode, announced>>

Init == /\ pc \in Addrs
        /\ breakpoints = {}
        /\ mode = "running"
        /\ announced = None

\* Adding may fail (and then changes nothing); removing may not.
Add(addr) == /\ breakpoints' = breakpoints \cup {addr}
             /\ UNCHANGED <<pc, mode, announced>>

Remove(addr) == /\ breakpoints' = breakpoints \ {addr}
                /\ UNCHANGED <<pc, mode, announced>>

Announce == /\ mode # "stopped"
            /\ pc \in breakpoints
            /\ mode' = "stopped"
            /\ announced' = pc
            /\ UNCHANGED <<pc, breakpoints>>

Execute == /\ mode # "stopped"
           /\ pc \in breakpoints => announced = pc
           /\ pc' \in Addrs
           /\ announced' = None
           /\ mode' \in IF mode = "stepping" THEN {"stopped"} ELSE {"running", "stopped"}
           /\ UNCHANGED breakpoints

Pause == mode' = "stopped" /\ UNCHANGED <<pc, breakpoints, announced>>

Resume == mode' \in {"running", "stepping"} /\ UNCHANGED <<pc, breakpoints, announced>>

WritePc == pc' \in Addrs /\ UNCHANGED <<breakpoints, mode, announced>>

Next == \/ \E addr \in Addrs : Add(addr) \/ Remove(addr)
        \/ Announce \/ Execute \/ Pause \/ Resume \/ WritePc

Spec == Init /\ [][Next]_vars

=============================================================================
