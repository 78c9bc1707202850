-------------------------- MODULE GdbServerProofs --------------------------
(***************************************************************************)
(* Proofs about AddressList, Debugger and GdbServer, which extend each     *)
(* other, for any set of addresses and any capacity.  First the arrays,    *)
(* then the debugger by itself: its invariants, and that it implements     *)
(* ExecutionControl.  Last the main loop: in it the debugger still is the  *)
(* one of Debugger.tla, so that what is proved there holds of the program, *)
(* the server keeps its promises to GDB, and no step and no stop is left   *)
(* behind by a turn of the loop.                                           *)
(***************************************************************************)
EXTENDS GdbServer, SequenceTheorems, TLAPS

-----------------------------------------------------------------------------
(***************************************************************************)
(* The address arrays behave as sets.                                      *)
(***************************************************************************)

(* Adding keeps the list a set of at most capacity addresses, and adds the *)
(* address or, when the array is full, nothing.                            *)
LEMMA AddKeepsSet ==
    ASSUME NEW S, NEW list \in Seq(S), NEW capacity \in Nat, NEW addr \in S,
           IsSetList(list, capacity)
    PROVE  LET added == address_list_add(list, capacity, addr) IN
           /\ added \in Seq(S)
           /\ IsSetList(added, capacity)
           /\ Listed(added) \in {Listed(list) \cup {addr}, Listed(list)}
  <1> DEFINE added == address_list_add(list, capacity, addr)
  <1>1. CASE address_list_contains(list, addr) \/ Len(list) = capacity
    BY <1>1 DEF address_list_add
  <1>2. CASE ~address_list_contains(list, addr) /\ Len(list) # capacity
    <2>1. added = Append(list, addr)
      BY <1>2 DEF address_list_add
    <2>2. /\ added \in Seq(S) /\ Len(added) = Len(list) + 1
          /\ \A i \in 1 .. Len(list) : added[i] = list[i]
          /\ added[Len(list) + 1] = addr
          /\ Len(list) \in Nat
      BY <2>1
    <2> HIDE DEF added
    <2>3. IsSetList(added, capacity)
      <3>1. Len(added) <= capacity
        BY <1>2, <2>2 DEF IsSetList
      <3>2. \A i \in 1 .. Len(list) : added[i] # addr
        BY <1>2, <2>2 DEF address_list_contains
      <3>3. ASSUME NEW i \in 1 .. Len(added), NEW j \in 1 .. Len(added), added[i] = added[j]
            PROVE  i = j
        <4>1. CASE i \in 1 .. Len(list) /\ j \in 1 .. Len(list)
          BY <2>2, <3>3, <4>1 DEF IsSetList
        <4>2. CASE i = Len(list) + 1 \/ j = Len(list) + 1
          <5>1. added[i] = addr /\ added[j] = addr
            BY <2>2, <3>3, <4>2
          <5> QED BY <2>2, <3>2, <5>1
        <4> QED BY <2>2, <4>1, <4>2
      <3> QED BY <3>1, <3>3 DEF IsSetList
    <2>4. Listed(added) = Listed(list) \cup {addr}
      <3>1. Listed(added) \subseteq Listed(list) \cup {addr}
        BY <2>2 DEF Listed
      <3>2. Listed(list) \cup {addr} \subseteq Listed(added)
        BY <2>2 DEF Listed
      <3> QED BY <3>1, <3>2
    <2> QED BY <2>2, <2>3, <2>4 DEF added
  <1> QED BY <1>1, <1>2

(* Removing keeps the list a set and takes exactly the address out of it.  *)
LEMMA RemoveKeepsSet ==
    ASSUME NEW S, NEW list \in Seq(S), NEW capacity \in Nat, NEW addr,
           IsSetList(list, capacity)
    PROVE  LET removed == address_list_remove(list, addr) IN
           /\ removed \in Seq(S)
           /\ IsSetList(removed, capacity)
           /\ Listed(removed) = Listed(list) \ {addr}
  <1> DEFINE removed == address_list_remove(list, addr)
             n == Len(list)
             First(i) == list[i] = addr /\ \A j \in 1 .. i - 1 : list[j] # addr
  <1>1. CASE ~address_list_contains(list, addr)
    BY <1>1 DEF address_list_remove, address_list_contains, Listed
  <1>2. CASE address_list_contains(list, addr)
    <2>1. n \in Nat
      OBVIOUS
    <2>2. PICK k \in 1 .. n : list[k] = addr
      BY <1>2 DEF address_list_contains
    <2>3. First(k)
      BY <2>1, <2>2 DEF IsSetList
    <2> DEFINE i == CHOOSE i \in 1 .. n : First(i)
    <2>4. i \in 1 .. n /\ list[i] = addr
      BY <2>3
    <2> DEFINE moved == [list EXCEPT ![i] = list[n]]
    <2>5. removed = SubSeq(moved, 1, n - 1)
      BY <1>2 DEF address_list_remove
    <2> HIDE DEF i, removed
    <2>6. /\ moved \in [1 .. n -> S]
          /\ \A j \in 1 .. n : moved[j] = IF j = i THEN list[n] ELSE list[j]
      <3>1. list \in [1 .. n -> S] /\ n \in 1 .. n
        BY <2>1, <2>4, LenProperties
      <3> QED BY <3>1, <2>4
    <2> HIDE DEF moved
    <2>7. /\ removed \in Seq(S) /\ Len(removed) = n - 1
          /\ \A j \in 1 .. n - 1 : removed[j] = moved[j]
      <3>1. \A j \in 1 .. n - 1 : moved[j] \in S
        BY <2>1, <2>6
      <3>2. n >= 1
        BY <2>1, <2>4
      <3>3. /\ SubSeq(moved, 1, n - 1) \in Seq(S)
            /\ Len(SubSeq(moved, 1, n - 1)) = IF 1 <= n - 1 THEN n - 1 - 1 + 1 ELSE 0
            /\ \A j \in 1 .. n - 1 - 1 + 1 : SubSeq(moved, 1, n - 1)[j] = moved[1 + j - 1]
        BY <2>1, <3>1, SubSeqProperties
      <3> HIDE DEF n
      <3> QED BY <2>1, <2>5, <3>2, <3>3
    <2>8. \A j \in 1 .. n - 1 : removed[j] = IF j = i THEN list[n] ELSE list[j]
      BY <2>1, <2>6, <2>7
    <2>9. \A j, m \in 1 .. n : list[j] = list[m] => j = m
      BY DEF IsSetList
    <2>10. IsSetList(removed, capacity)
      <3>1. Len(removed) <= capacity
        BY <2>1, <2>7 DEF IsSetList
      <3>2. ASSUME NEW j \in 1 .. n - 1, NEW m \in 1 .. n - 1, removed[j] = removed[m]
            PROVE  j = m
        <4>1. j \in 1 .. n /\ m \in 1 .. n /\ n \in 1 .. n /\ j # n /\ m # n
          BY <2>1, <2>4
        <4> QED BY <2>8, <2>9, <3>2, <4>1
      <3> QED BY <2>7, <3>1, <3>2 DEF IsSetList
    <2>11. Listed(removed) = Listed(list) \ {addr}
      <3>1. ASSUME NEW j \in 1 .. n - 1
            PROVE  removed[j] \in Listed(list) /\ removed[j] # addr
        <4>1. j \in 1 .. n /\ n \in 1 .. n /\ j # n
          BY <2>1, <2>4
        <4> QED BY <2>4, <2>8, <2>9, <4>1 DEF Listed
      <3>2. ASSUME NEW j \in 1 .. n, list[j] # addr
            PROVE  \E m \in 1 .. n - 1 : removed[m] = list[j]
        <4>1. CASE j # n
          <5>1. j \in 1 .. n - 1 /\ j # i
            BY <2>1, <2>4, <3>2, <4>1
          <5> QED BY <2>8, <5>1
        <4>2. CASE j = n
          <5>1. i \in 1 .. n - 1
            BY <2>1, <2>4, <3>2, <4>2
          <5> QED BY <2>8, <4>2, <5>1
        <4> QED BY <4>1, <4>2
      <3>3. Listed(removed) = {removed[j] : j \in 1 .. n - 1}
        BY <2>7 DEF Listed
      <3>4. Listed(list) = {list[j] : j \in 1 .. n}
        BY DEF Listed
      <3>5. Listed(removed) \subseteq Listed(list) \ {addr}
        BY <3>1, <3>3
      <3> HIDE DEF n
      <3>6. Listed(list) \ {addr} \subseteq Listed(removed)
        BY <3>2, <3>3, <3>4
      <3> QED BY <3>5, <3>6
    <2> QED BY <2>7, <2>10, <2>11 DEF removed
  <1> QED BY <1>1, <1>2

-----------------------------------------------------------------------------
(***************************************************************************)
(* The debugger.                                                           *)
(***************************************************************************)

(* The lists alone.                                                        *)
ListsOK ==
    /\ {breakpoints, read_watchpoints, write_watchpoints} \subseteq Seq(Addrs)
    /\ NoDuplicates

(* The flags alone, and the history variables with the PC.                 *)
FlagsOK ==
    /\ stopped \in BOOLEAN /\ single_step \in BOOLEAN
    /\ skip_breakpoint_once \in BOOLEAN
    /\ skipped_breakpoint \in Addrs \cup {None}
    /\ stop_address \in Addrs \cup {None}
    /\ stop_reason \in Reasons

HistoryOK ==
    /\ pc \in Addrs
    /\ announced \in Addrs \cup {None}
    /\ calls \in 0 .. 2 /\ executed \in 0 .. 2
    /\ resumed_by \in {"reset", "continue", "step", "late_step"}

(* While a step runs, the flag that will end it is still set: without this *)
(* part StepAtMostOne would not be inductive.                              *)
StepArmed ==
    resumed_by \in {"step", "late_step"} /\ ~stopped => single_step

IInv == /\ ListsOK /\ FlagsOK /\ HistoryOK
        /\ StopStateCoherent /\ SkipOnlyAnnounced /\ StepAtMostOne /\ StepArmed

(* The inductive invariant implies the type invariant.                     *)
LEMMA IInvTypes == IInv => TypeOK /\ NoDuplicates
  BY DEF IInv, ListsOK, FlagsOK, HistoryOK, TypeOK, NoDuplicates, IsSetList

-----------------------------------------------------------------------------
(* A step that leaves the flags and the history alone.                     *)
LEMMA QuietStep ==
    ASSUME IInv, ListsOK', pc' \in Addrs, UNCHANGED <<flags, history>>
    PROVE  IInv'
  <1> USE DEF flags, history
  <1>1. FlagsOK' /\ HistoryOK'
    BY DEF IInv, FlagsOK, HistoryOK
  <1>2. StopStateCoherent' /\ SkipOnlyAnnounced'
    BY DEF IInv, StopStateCoherent, SkipOnlyAnnounced
  <1>3. StepAtMostOne' /\ StepArmed'
    BY DEF IInv, StepAtMostOne, StepArmed
  <1> QED BY <1>1, <1>2, <1>3 DEF IInv

(* The history keeps its type; stated without the Boolean flags.           *)
LEMMA HistoryStep ==
    ASSUME HistoryOK, pc' \in Addrs, announced' \in Addrs \cup {None},
           calls' = 0 \/ Command,
           \/ executed' \in {0, executed}
           \/ executed' = IF executed = 2 THEN 2 ELSE executed + 1,
           resumed_by' \in {"reset", "continue", "step", "late_step"}
    PROVE  HistoryOK'
  <1>1. calls \in 0 .. 2 /\ executed \in 0 .. 2
    BY DEF HistoryOK
  <1>2. calls' \in 0 .. 2
    <2>1. CASE calls' = 0
      BY <2>1
    <2>2. CASE Command
      BY <1>1, <2>2 DEF Command
    <2> QED BY <2>1, <2>2
  <1>3. executed' \in 0 .. 2
    BY <1>1
  <1> QED BY <1>2, <1>3 DEF HistoryOK

(* Editing a list disturbs nothing but the list.                           *)
LEMMA EditStep == IInv /\ EditLists => IInv'
  <1> SUFFICES ASSUME IInv, EditLists PROVE IInv'
    OBVIOUS
  <1> USE DebuggerAssumption
  <1>1. UNCHANGED <<flags, pc, history>>
    BY DEF EditLists, debugger_add_breakpoint, debugger_remove_breakpoint,
           debugger_add_read_watchpoint, debugger_remove_read_watchpoint,
           debugger_add_write_watchpoint, debugger_remove_write_watchpoint
  <1>2. ListsOK'
    <2> USE DEF IInv, ListsOK, NoDuplicates
    <2>1. PICK addr \in Addrs :
            \/ debugger_add_breakpoint(addr) \/ debugger_remove_breakpoint(addr)
            \/ debugger_add_read_watchpoint(addr) \/ debugger_remove_read_watchpoint(addr)
            \/ debugger_add_write_watchpoint(addr) \/ debugger_remove_write_watchpoint(addr)
      BY DEF EditLists
    <2>2. CASE debugger_add_breakpoint(addr)
      BY <2>2, AddKeepsSet DEF debugger_add_breakpoint
    <2>3. CASE debugger_remove_breakpoint(addr)
      BY <2>3, RemoveKeepsSet DEF debugger_remove_breakpoint
    <2>4. CASE debugger_add_read_watchpoint(addr)
      BY <2>4, AddKeepsSet DEF debugger_add_read_watchpoint
    <2>5. CASE debugger_remove_read_watchpoint(addr)
      BY <2>5, RemoveKeepsSet DEF debugger_remove_read_watchpoint
    <2>6. CASE debugger_add_write_watchpoint(addr)
      BY <2>6, AddKeepsSet DEF debugger_add_write_watchpoint
    <2>7. CASE debugger_remove_write_watchpoint(addr)
      BY <2>7, RemoveKeepsSet DEF debugger_remove_write_watchpoint
    <2> QED BY <2>1, <2>2, <2>3, <2>4, <2>5, <2>6, <2>7
  <1>3. pc' \in Addrs
    BY <1>1 DEF IInv, HistoryOK
  <1> QED BY <1>1, <1>2, <1>3, QuietStep

(* What an instruction does to the flags: it stops the debugger with a     *)
(* reason other than a breakpoint, or leaves a running debugger alone.     *)
LEMMA ExecuteOutcome ==
    ASSUME NEW read \in Addrs \cup {None}, NEW write \in Addrs \cup {None},
           IInv, Execute(read, write)
    PROVE  \/ /\ stopped' = TRUE /\ single_step' = FALSE
              /\ stop_reason' \in Reasons \ {"NONE", "BREAKPOINT"}
              /\ stop_address' \in Addrs \cup {None}
           \/ /\ ~single_step
              /\ UNCHANGED <<stopped, single_step, stop_reason, stop_address>>
  <1> DEFINE hit == AccessStop(read, write)
  <1>1. \/ hit = <<"WRITE_WATCHPOINT", write>>
        \/ hit = <<"READ_WATCHPOINT", read>>
        \/ hit = <<"NONE", None>>
    BY DEF AccessStop
  <1>2. /\ hit[1] \in {"WRITE_WATCHPOINT", "READ_WATCHPOINT", "NONE"}
        /\ hit[2] \in Addrs \cup {None}
    BY <1>1
  <1>3. IF hit[1] # "NONE" THEN debugger_stop(hit[1], hit[2])
        ELSE IF single_step THEN debugger_stop("STEP", pc)
        ELSE UNCHANGED <<stopped, single_step, stop_reason, stop_address>>
    BY DEF Execute
  <1> HIDE DEF hit
  <1>4. pc \in Addrs
    BY DEF IInv, HistoryOK
  <1> QED BY <1>2, <1>3, <1>4 DEF debugger_stop, Reasons

(* An instruction, or the stop in front of it.                             *)
LEMMA RunStep == IInv /\ RunNextInstruction => IInv'
  <1> SUFFICES ASSUME IInv, RunNextInstruction PROVE IInv'
    OBVIOUS
  <1> USE DebuggerAssumption
  <1>1. UNCHANGED lists
    BY DEF RunNextInstruction, BreakpointHit, Execute
  <1>2. ListsOK'
    BY <1>1 DEF lists, IInv, ListsOK, NoDuplicates
  <1>3. CASE BreakpointHit
    <2> USE <1>3 DEF BreakpointHit, debugger_stop
    <2>1. FlagsOK'
      BY DEF IInv, FlagsOK, HistoryOK, Reasons
    <2>4. HistoryOK'
      BY HistoryStep DEF IInv, HistoryOK
    <2>2. StopStateCoherent' /\ SkipOnlyAnnounced'
      BY DEF IInv, HistoryOK, StopStateCoherent, SkipOnlyAnnounced
    <2>3. StepAtMostOne' /\ StepArmed'
      BY DEF IInv, StepAtMostOne, StepArmed
    <2> QED BY <1>2, <2>1, <2>2, <2>3, <2>4 DEF IInv
  <1>4. ASSUME NEW read \in Addrs \cup {None}, NEW write \in Addrs \cup {None},
               Execute(read, write)
        PROVE  IInv'
    <2>1. /\ ~stopped /\ skip_breakpoint_once' = FALSE
          /\ pc' \in Addrs /\ announced' = None /\ calls' = 0
          /\ executed' = IF executed = 2 THEN 2 ELSE executed + 1
          /\ UNCHANGED <<skipped_breakpoint, resumed_by>>
      BY <1>4 DEF Execute
    <2>2. FlagsOK' /\ HistoryOK'
      <3>1. FlagsOK'
        BY <1>4, <2>1, ExecuteOutcome DEF IInv, FlagsOK
      <3>2. HistoryOK'
        BY <2>1, HistoryStep DEF IInv, HistoryOK
      <3> QED BY <3>1, <3>2
    <2>3. StopStateCoherent' /\ SkipOnlyAnnounced'
      BY <1>4, <2>1, ExecuteOutcome DEF IInv, StopStateCoherent, SkipOnlyAnnounced
    <2>4. StepAtMostOne' /\ StepArmed'
      <3>1. resumed_by \in {"step", "late_step"} => executed = 0
        BY <2>1 DEF IInv, StepAtMostOne, StepArmed
      <3>2. executed = 0 => executed' <= 1
        BY <2>1
      <3>3. ~single_step'
        BY <1>4, ExecuteOutcome
      <3>4. single_step => stopped'
        BY <1>4, ExecuteOutcome
      <3> QED BY <2>1, <3>1, <3>2, <3>3, <3>4 DEF IInv, StepAtMostOne, StepArmed
    <2> QED BY <1>2, <2>2, <2>3, <2>4 DEF IInv
  <1> QED BY <1>3, <1>4 DEF RunNextInstruction

(* A command from a frontend, at any time.                                 *)
LEMMA CommandStep == IInv /\ Commands => IInv'
  <1> SUFFICES ASSUME IInv, Commands PROVE IInv'
    OBVIOUS
  <1> USE DebuggerAssumption
  <1>1. UNCHANGED lists
    BY DEF Commands, debugger_pause, debugger_continue, debugger_step, WritePc
  <1>2. ListsOK'
    BY <1>1 DEF lists, IInv, ListsOK, NoDuplicates
  <1>3. CASE debugger_pause
    <2> USE <1>3 DEF debugger_pause, debugger_stop
    <2>1. FlagsOK'
      BY DEF IInv, FlagsOK, Reasons
    <2>4. HistoryOK'
      BY HistoryStep DEF IInv, HistoryOK
    <2>2. StopStateCoherent' /\ SkipOnlyAnnounced'
      BY DEF IInv, StopStateCoherent, SkipOnlyAnnounced
    <2>3. StepAtMostOne' /\ StepArmed'
      BY DEF IInv, StepAtMostOne, StepArmed
    <2> QED BY <1>2, <2>1, <2>2, <2>3, <2>4 DEF IInv
  <1>4. CASE debugger_continue
    <2> USE <1>4 DEF debugger_continue, ArmSkip
    <2>1. FlagsOK'
      BY DEF IInv, FlagsOK, Reasons
    <2>4. HistoryOK'
      BY HistoryStep DEF IInv, HistoryOK
    <2>2. StopStateCoherent' /\ SkipOnlyAnnounced'
      BY DEF IInv, StopStateCoherent, SkipOnlyAnnounced
    <2>5. executed' = 0
      OBVIOUS
    <2>6. executed' <= 1
      <3> HIDE DEF debugger_step, debugger_continue
      <3> QED BY <2>5
    <2>3. StepAtMostOne' /\ StepArmed'
      BY <2>5, <2>6 DEF StepAtMostOne, StepArmed
    <2> QED BY <1>2, <2>1, <2>2, <2>3, <2>4 DEF IInv
  <1>5. CASE debugger_step
    <2> USE <1>5 DEF debugger_step, ArmSkip
    <2>1. FlagsOK'
      BY DEF IInv, FlagsOK, Reasons
    <2>4. HistoryOK'
      BY HistoryStep DEF IInv, HistoryOK
    <2>2. StopStateCoherent' /\ SkipOnlyAnnounced'
      BY DEF IInv, StopStateCoherent, SkipOnlyAnnounced
    <2>5. executed' = 0
      OBVIOUS
    <2>6. executed' <= 1
      <3> HIDE DEF debugger_step, debugger_continue
      <3> QED BY <2>5
    <2>3. StepAtMostOne' /\ StepArmed'
      BY <2>5, <2>6 DEF StepAtMostOne, StepArmed
    <2> QED BY <1>2, <2>1, <2>2, <2>3, <2>4 DEF IInv
  <1>6. ASSUME NEW addr \in Addrs, WritePc(addr) PROVE IInv'
    <2>1. UNCHANGED <<flags, history>> /\ pc' \in Addrs
      BY <1>6 DEF WritePc
    <2> QED BY <1>2, <2>1, QuietStep
  <1> QED BY <1>3, <1>4, <1>5, <1>6 DEF Commands

(* The invariant is inductive.                                             *)
LEMMA InitInvariant == Init => IInv
  <1> SUFFICES ASSUME Init PROVE IInv
    OBVIOUS
  <1>1. ListsOK
    BY DebuggerAssumption DEF Init, ListsOK, NoDuplicates, IsSetList
  <1>2. FlagsOK
    BY DEF Init, FlagsOK, Reasons
  <1>3. HistoryOK
    BY DEF Init, HistoryOK
  <1>4. StopStateCoherent /\ SkipOnlyAnnounced
    BY DEF Init, StopStateCoherent, SkipOnlyAnnounced
  <1>5. StepAtMostOne /\ StepArmed
    BY DEF Init, StepAtMostOne, StepArmed
  <1> QED BY <1>1, <1>2, <1>3, <1>4, <1>5 DEF IInv

LEMMA StepInvariant == IInv /\ [Next]_vars => IInv'
  <1>1. ASSUME IInv, UNCHANGED vars PROVE IInv'
    <2>1. ListsOK' /\ pc' \in Addrs
      BY <1>1 DEF vars, lists, IInv, ListsOK, NoDuplicates, HistoryOK
    <2>2. UNCHANGED <<flags, history>>
      BY <1>1 DEF vars
    <2> QED BY <1>1, <2>1, <2>2, QuietStep
  <1> QED BY <1>1, EditStep, RunStep, CommandStep DEF Next

THEOREM Invariance == Spec => []IInv
  BY InitInvariant, StepInvariant, PTL DEF Spec

(* Every reachable state is well typed and the arrays respect their capacity. *)
THEOREM TypeCorrect == Spec => []TypeOK
  BY Invariance, IInvTypes, PTL

(* The arrays never hold an address twice.                                 *)
THEOREM ListsAreSets == Spec => []NoDuplicates
  BY Invariance, IInvTypes, PTL

(* Removing a breakpoint removes exactly that one.                         *)
THEOREM RemovalTheorem == Spec => RemovesOnlyAddress
  <1>1. ASSUME IInv, NEW addr \in Addrs, debugger_remove_breakpoint(addr)
        PROVE  Listed(breakpoints)' = Listed(breakpoints) \ {addr}
    <2>1. breakpoints \in Seq(Addrs) /\ IsSetList(breakpoints, MaxBreakpoints)
      BY <1>1 DEF IInv, ListsOK, NoDuplicates
    <2>2. Listed(address_list_remove(breakpoints, addr)) = Listed(breakpoints) \ {addr}
      BY <2>1, RemoveKeepsSet, DebuggerAssumption
    <2> QED BY <1>1, <2>2 DEF debugger_remove_breakpoint, Listed
  <1>2. IInv => [\A addr \in Addrs : debugger_remove_breakpoint(addr) =>
                  Listed(breakpoints)' = Listed(breakpoints) \ {addr}]_vars
    BY <1>1
  <1> QED BY <1>2, Invariance, PTL DEF RemovesOnlyAddress

(* A stop has a reason, a running CPU none, and no step outlives a stop.   *)
THEOREM StopsCoherent == Spec => []StopStateCoherent
  <1>1. IInv => StopStateCoherent
    BY DEF IInv
  <1> QED BY <1>1, Invariance, PTL

(* Step executes at most one instruction.                                  *)
THEOREM StepsAtMostOne == Spec => []StepAtMostOne
  <1>1. IInv => StepAtMostOne
    BY DEF IInv
  <1> QED BY <1>1, Invariance, PTL

(* Only an announced breakpoint can be passed silently.                    *)
THEOREM SkipsOnlyAnnounced == Spec => []SkipOnlyAnnounced
  <1>1. IInv => SkipOnlyAnnounced
    BY DEF IInv
  <1> QED BY <1>1, Invariance, PTL

-----------------------------------------------------------------------------
(***************************************************************************)
(* One resume leaves a breakpoint.  Between the announcement and the first *)
(* command the debugger still shows the breakpoint as its stop reason; one *)
(* command later, if the CPU runs at all, the skip is armed for it.        *)
(***************************************************************************)
SkipArmed ==
    announced # None =>
        /\ calls = 0 => stop_reason = "BREAKPOINT"
        /\ calls = 1 /\ ~stopped => skip_breakpoint_once /\ skipped_breakpoint = announced

LEMMA SkipArmedStep == IInv /\ SkipArmed /\ [Next]_vars => SkipArmed'
  <1> SUFFICES ASSUME IInv, SkipArmed, [Next]_vars PROVE SkipArmed'
    OBVIOUS
  <1> USE DEF SkipArmed
  <1>1. CASE EditLists \/ UNCHANGED vars
    <2>1. UNCHANGED <<flags, history>>
      BY <1>1 DEF vars, EditLists, debugger_add_breakpoint, debugger_remove_breakpoint,
         debugger_add_read_watchpoint, debugger_remove_read_watchpoint,
         debugger_add_write_watchpoint, debugger_remove_write_watchpoint
    <2> QED BY <2>1 DEF flags, history
  <1>2. CASE BreakpointHit
    BY <1>2 DEF BreakpointHit, debugger_stop
  <1>3. ASSUME NEW read \in Addrs \cup {None}, NEW write \in Addrs \cup {None},
               Execute(read, write)
        PROVE  SkipArmed'
    BY <1>3 DEF Execute
  <1>4. CASE debugger_pause
    <2>1. stopped' = TRUE /\ calls' # 0
      BY <1>4 DEF debugger_pause, debugger_stop, Command, IInv, HistoryOK
    <2> QED BY <2>1
  <1>5. CASE debugger_continue \/ debugger_step
    <2>1. ArmSkip /\ Command /\ announced' = announced
      BY <1>5 DEF debugger_continue, debugger_step
    <2>2. calls' # 0 /\ (calls' = 1 => calls = 0)
      BY <2>1 DEF Command, IInv, HistoryOK
    <2>3. announced # None /\ calls = 0 => skip_breakpoint_once' /\ skipped_breakpoint' = announced
      BY <2>1 DEF ArmSkip, IInv, SkipOnlyAnnounced
    <2> QED BY <2>1, <2>2, <2>3
  <1>6. ASSUME NEW addr \in Addrs, WritePc(addr) PROVE SkipArmed'
    BY <1>6 DEF WritePc, flags, history
  <1> QED BY <1>1, <1>2, <1>3, <1>4, <1>5, <1>6 DEF Next, RunNextInstruction, Commands

(* A breakpoint is not announced again after exactly one command, unless   *)
(* an instruction has been executed.                                       *)
THEOREM ResumeTheorem == Spec => ResumeLeavesBreakpoint
  <1> DEFINE Rehit == /\ ~stopped /\ stop_reason' = "BREAKPOINT"
                      /\ announced = pc /\ calls = 1
  <1>1. Init => SkipArmed
    BY DEF Init, SkipArmed
  <1>2. IInv /\ SkipArmed /\ [Next]_vars => ~Rehit
    <2> SUFFICES ASSUME IInv, SkipArmed, [Next]_vars, Rehit PROVE FALSE
      OBVIOUS
    <2>1. pc # None /\ stop_reason = "NONE"
      BY DebuggerAssumption DEF IInv, HistoryOK, StopStateCoherent
    <2>2. Skips
      BY <2>1 DEF SkipArmed, Skips
    <2>3. ~BreakpointHit
      BY <2>2 DEF BreakpointHit
    <2>4. ASSUME NEW read \in Addrs \cup {None}, NEW write \in Addrs \cup {None},
                 Execute(read, write)
          PROVE  FALSE
      BY <2>1, <2>4, ExecuteOutcome
    <2>5. ~debugger_pause /\ ~debugger_continue /\ ~debugger_step
      BY DEF debugger_pause, debugger_stop, debugger_continue, debugger_step
    <2>6. stop_reason' # stop_reason
      BY <2>1
    <2>7. ~EditLists /\ ~UNCHANGED vars
      BY <2>6 DEF vars, flags, EditLists, debugger_add_breakpoint,
         debugger_remove_breakpoint, debugger_add_read_watchpoint,
         debugger_remove_read_watchpoint, debugger_add_write_watchpoint,
         debugger_remove_write_watchpoint
    <2>8. \A addr \in Addrs : ~WritePc(addr)
      BY <2>6 DEF WritePc, flags
    <2> QED BY <2>3, <2>4, <2>5, <2>7, <2>8 DEF Next, RunNextInstruction, Commands
  <1>3. ~Rehit => (~stopped /\ stop_reason' = "BREAKPOINT" => ~(announced = pc /\ calls = 1))
    OBVIOUS
  <1>4. Spec => [][~Rehit]_vars
    BY <1>1, <1>2, Invariance, SkipArmedStep, PTL DEF Spec
  <1> QED BY <1>3, <1>4, PTL DEF ResumeLeavesBreakpoint

-----------------------------------------------------------------------------
(* What a running debugger executes at a breakpoint has been announced.    *)
LEMMA ExecuteAnnounced ==
    ASSUME NEW read \in Addrs \cup {None}, NEW write \in Addrs \cup {None},
           IInv, Execute(read, write)
    PROVE  pc \in Listed(breakpoints) => announced = pc
  <1>1. Skips \/ ~address_list_contains(breakpoints, pc)
    BY DEF Execute
  <1>2. address_list_contains(breakpoints, pc) <=> pc \in Listed(breakpoints)
    BY DEF address_list_contains, Listed
  <1>3. Skips => announced = pc
    BY DEF Skips, IInv, SkipOnlyAnnounced
  <1> QED BY <1>1, <1>2, <1>3

(* Every step of the debugger is one that ExecutionControl allows.         *)
LEMMA RefinementStep == IInv /\ [Next]_vars => [EC!Next]_(EC!vars)
  <1> SUFFICES ASSUME IInv, [Next]_vars PROVE EC!Next \/ UNCHANGED EC!vars
    OBVIOUS
  <1> USE DebuggerAssumption
  <1>1. CASE EditLists
    <2>1. UNCHANGED <<flags, pc, history>>
      BY <1>1 DEF EditLists, debugger_add_breakpoint, debugger_remove_breakpoint,
         debugger_add_read_watchpoint, debugger_remove_read_watchpoint,
         debugger_add_write_watchpoint, debugger_remove_write_watchpoint
    <2>2. \E addr \in Addrs :
             Listed(breakpoints)' \in {Listed(breakpoints) \cup {addr},
                                       Listed(breakpoints) \ {addr},
                                       Listed(breakpoints)}
      <3>1. PICK addr \in Addrs :
               \/ breakpoints' = address_list_add(breakpoints, MaxBreakpoints, addr)
               \/ breakpoints' = address_list_remove(breakpoints, addr)
               \/ breakpoints' = breakpoints
        BY <1>1 DEF EditLists, debugger_add_breakpoint, debugger_remove_breakpoint,
           debugger_add_read_watchpoint, debugger_remove_read_watchpoint,
           debugger_add_write_watchpoint, debugger_remove_write_watchpoint
      <3>2. breakpoints \in Seq(Addrs) /\ IsSetList(breakpoints, MaxBreakpoints)
        BY DEF IInv, ListsOK, NoDuplicates
      <3>3. Listed(address_list_add(breakpoints, MaxBreakpoints, addr))
               \in {Listed(breakpoints) \cup {addr}, Listed(breakpoints)}
        BY <3>2, AddKeepsSet
      <3>4. Listed(address_list_remove(breakpoints, addr)) = Listed(breakpoints) \ {addr}
        BY <3>2, RemoveKeepsSet
      <3> QED BY <3>1, <3>3, <3>4
    <2> QED BY <2>1, <2>2
      DEF flags, history, EC!Next, EC!Add, EC!Remove, EC!vars
  <1>2. CASE BreakpointHit
    <2>1. pc \in Listed(breakpoints)
      BY <1>2 DEF BreakpointHit, address_list_contains, Listed
    <2>2. EC!Announce
      BY <1>2, <2>1 DEF BreakpointHit, debugger_stop, lists, EC!Announce
    <2> QED BY <2>2 DEF EC!Next
  <1>3. ASSUME NEW read \in Addrs \cup {None}, NEW write \in Addrs \cup {None},
               Execute(read, write)
        PROVE  EC!Next
    <2>1. /\ ~stopped /\ pc' \in Addrs /\ announced' = None
          /\ breakpoints' = breakpoints
      BY <1>3 DEF Execute, lists
    <2>2. \/ stopped'
          \/ ~single_step /\ ~stopped' /\ ~single_step'
      BY <1>3, <2>1, ExecuteOutcome
    <2>3. EC!Execute
      BY <1>3, <2>1, <2>2, ExecuteAnnounced DEF EC!Execute
    <2> QED BY <2>3 DEF EC!Next
  <1>4. CASE debugger_pause
    BY <1>4 DEF debugger_pause, debugger_stop, lists, EC!Next, EC!Pause
  <1>5. CASE debugger_continue
    BY <1>5 DEF debugger_continue, lists, EC!Next, EC!Resume
  <1>6. CASE debugger_step
    BY <1>6 DEF debugger_step, lists, EC!Next, EC!Resume
  <1>7. ASSUME NEW addr \in Addrs, WritePc(addr) PROVE EC!Next
    BY <1>7 DEF WritePc, lists, flags, history, EC!Next, EC!WritePc
  <1>8. CASE UNCHANGED vars
    BY <1>8 DEF vars, lists, flags, history, EC!vars
  <1> QED
    BY <1>1, <1>2, <1>3, <1>4, <1>5, <1>6, <1>7, <1>8 DEF Next, RunNextInstruction, Commands

(* The debugger implements ExecutionControl.                               *)
THEOREM Refinement == Spec => ImplementsExecutionControl
  <1>1. Init => EC!Init
    BY DEF Init, EC!Init, Listed
  <1> QED BY <1>1, RefinementStep, Invariance, PTL
      DEF Spec, ImplementsExecutionControl, EC!Spec

-----------------------------------------------------------------------------
(***************************************************************************)
(* The server in the main loop.                                            *)
(***************************************************************************)

(* The server's own variables.                                             *)
ServerTyped ==
    /\ phase \in Phases
    /\ client \in BOOLEAN /\ stop_reported \in BOOLEAN
    /\ access \in [add : BOOLEAN, addr : Addrs \cup {None}, ok : BOOLEAN]
    /\ asked \in {"new", "waiting", "answered"}
    /\ heard \in Addrs \cup {None} /\ sole \in BOOLEAN

Accessing == phase = "access" => access.addr \in Addrs

-----------------------------------------------------------------------------
(* The program drives the debugger by its operations alone.                *)
LEMMA PacketIsDebuggerStep == Accessing /\ Packet => [Next]_vars
  <1> SUFFICES ASSUME Accessing, Packet PROVE [Next]_vars
    OBVIOUS
  <1> USE DEF Next, EditLists, Commands
  <1>1. CASE Interrupt \/ StopQuery \/ Resume \/ Detach \/ Drop
    BY <1>1 DEF Interrupt, StopQuery, Resume, Detach, Drop
  <1>2. ASSUME NEW addr \in Addrs,
               \/ EditList(addr) \/ WritePcRegister(addr)
               \/ \E add \in BOOLEAN : AccessWatchpoint(addr, add)
        PROVE  Next
    BY <1>2 DEF EditList, WritePcRegister, AccessWatchpoint
  <1>3. CASE AnswersAccess
    BY <1>3 DEF AnswersAccess, AccessWatchpointEnds, Accessing
  <1> QED BY <1>1, <1>2, <1>3 DEF Packet

LEMMA DebuggerStep == Accessing /\ [ServerNext]_gvars => [Next]_vars
  <1> SUFFICES ASSUME Accessing, [ServerNext]_gvars PROVE [Next]_vars
    OBVIOUS
  <1>1. CASE Packet
    BY <1>1, PacketIsDebuggerStep
  <1>2. CASE Accept \/ Close \/ PauseKey \/ Button
    BY <1>2 DEF Accept, Close, PauseKey, Button, Next, Commands
  <1>3. CASE MeetBreakpoint \/ RunInstruction
    BY <1>3 DEF MeetBreakpoint, RunInstruction, Next, RunNextInstruction
  <1>4. CASE \/ NobodyConnects \/ PollClient \/ InputEnds \/ ReportStop
             \/ ReportFails \/ NothingToReport \/ NoPauseKey \/ NoButton
             \/ BatchEnds
    BY <1>4 DEF NobodyConnects, PollClient, InputEnds, ReportStop, ReportFails,
       NothingToReport, NoPauseKey, NoButton, BatchEnds
  <1>5. CASE UNCHANGED gvars
    BY <1>5 DEF gvars
  <1> QED BY <1>1, <1>2, <1>3, <1>4, <1>5 DEF ServerNext, Poll, Turn

-----------------------------------------------------------------------------
(* A step keeps the server's types.                                        *)
LEMMA TypedStep == TypeOK /\ ServerTyped /\ Accessing /\ [ServerNext]_gvars
                     => ServerTyped' /\ Accessing'
  <1> SUFFICES ASSUME TypeOK, ServerTyped, Accessing, [ServerNext]_gvars
               PROVE  ServerTyped' /\ Accessing'
    OBVIOUS
  <1> USE DEF ServerTyped, Accessing, Phases, server, gdb, Replying
  <1>0. stop_address \in Addrs \cup {None} /\ pc \in Addrs
    BY DEF TypeOK
  <1>1. CASE Accept \/ NobodyConnects \/ PollClient \/ InputEnds \/ Close
    BY <1>1 DEF Accept, NobodyConnects, PollClient, InputEnds, Close
  <1>2. CASE Interrupt \/ StopQuery
    BY <1>0, <1>2 DEF Interrupt, StopQuery, Told, GdbSpeaks
  <1>3. CASE Resume \/ Detach \/ Drop
    BY <1>3 DEF Resume, Detach, Drop, GdbSpeaks
  <1>4. CASE AnswersAccess
    BY <1>4 DEF AnswersAccess, AccessWatchpointEnds, Idle
  <1>5. ASSUME NEW addr \in Addrs,
               \/ EditList(addr) \/ WritePcRegister(addr)
               \/ \E add \in BOOLEAN : AccessWatchpoint(addr, add)
        PROVE  ServerTyped' /\ Accessing'
    <2>1. CASE EditList(addr) \/ WritePcRegister(addr)
      BY <2>1 DEF EditList, WritePcRegister, GdbSpeaks
    <2>2. ASSUME NEW add \in BOOLEAN, AccessWatchpoint(addr, add)
          PROVE  ServerTyped' /\ Accessing'
      <3>1. Edited(read_watchpoints, add, addr) \in BOOLEAN
        BY DEF Edited, address_list_contains
      <3>2. access' \in [add : BOOLEAN, addr : Addrs \cup {None}, ok : BOOLEAN]
        BY <2>2, <3>1 DEF AccessWatchpoint
      <3> QED BY <2>2, <3>2 DEF AccessWatchpoint, GdbSpeaks
    <2> QED BY <1>5, <2>1, <2>2
  <1>6. CASE ReportStop \/ ReportFails \/ NothingToReport
    BY <1>0, <1>6 DEF ReportStop, ReportFails, NothingToReport, Told
  <1>7. CASE PauseKey \/ NoPauseKey \/ Button \/ NoButton
    BY <1>7 DEF PauseKey, NoPauseKey, Button, NoButton
  <1>8. CASE MeetBreakpoint \/ RunInstruction \/ BatchEnds
    BY <1>8 DEF MeetBreakpoint, RunInstruction, BatchEnds
  <1>9. CASE UNCHANGED gvars
    BY <1>9 DEF gvars
  <1> QED BY <1>1, <1>2, <1>3, <1>4, <1>5, <1>6, <1>7, <1>8, <1>9
          DEF ServerNext, Poll, Turn, Packet

LEMMA ServerStart == ServerInit => ServerTyped /\ Accessing
  <1> SUFFICES ASSUME ServerInit PROVE ServerTyped /\ Accessing
    OBVIOUS
  <1>1. access \in [add : BOOLEAN, addr : Addrs \cup {None}, ok : BOOLEAN]
    BY DEF ServerInit, Idle
  <1>2. /\ phase = "poll" /\ client = FALSE /\ stop_reported = FALSE
        /\ asked = "new" /\ heard = None /\ sole = FALSE
    BY DEF ServerInit
  <1> QED BY <1>1, <1>2 DEF ServerTyped, Accessing, Phases

(* The debugger's invariant and the server's types, together.              *)
LEMMA ServerInvariance == ServerSpec => [](IInv /\ ServerTyped /\ Accessing)
  <1>1. ServerInit => Init
    BY DEF ServerInit
  <1>2. IInv => TypeOK
    BY IInvTypes
  <1> QED BY <1>1, <1>2, InitInvariant, StepInvariant, ServerStart,
             DebuggerStep, TypedStep, PTL DEF ServerSpec

(* In the main loop the debugger is the one of Debugger.tla: its theorems  *)
(* are theorems about the program.                                         *)
THEOREM DebuggerInLoop == ServerSpec => DebuggerSpec
  <1>1. ServerInit => Init
    BY DEF ServerInit
  <1> QED BY <1>1, ServerInvariance, DebuggerStep, PTL
      DEF ServerSpec, DebuggerSpec, Spec

(* Every reachable state of the server is well typed.                      *)
THEOREM ServerTypeCorrect == ServerSpec => []ServerTypeOK
  <1>1. TypeOK /\ ServerTyped /\ Accessing => ServerTypeOK
    BY DEF ServerTypeOK, ServerTyped, Accessing
  <1> QED BY <1>1, ServerInvariance, IInvTypes, PTL

-----------------------------------------------------------------------------
(***************************************************************************)
(* What the server remembers of GDB.  While GDB alone resumes the CPU, a   *)
(* running CPU is one that GDB waits for, and the permission to pass a     *)
(* breakpoint, or a stop at one that GDB is not waiting for, is of a       *)
(* breakpoint that GDB has heard of.                                       *)
(***************************************************************************)
Remembers == asked = "answered" => stop_reported

SoleResumer ==
    sole => /\ ~stopped => asked = "waiting"
            /\ ~stopped /\ skip_breakpoint_once => heard = skipped_breakpoint
            /\ stop_reason = "BREAKPOINT" /\ asked # "waiting" => heard = stop_address

(* The first half of an access watchpoint has done what it claims.         *)
FirstHalf ==
    phase = "access" /\ access.ok =>
        (access.add <=> address_list_contains(read_watchpoints, access.addr))

LEMMA RemembersStep == Remembers /\ [ServerNext]_gvars => Remembers'
  <1> SUFFICES ASSUME Remembers, [ServerNext]_gvars PROVE Remembers'
    OBVIOUS
  <1> USE DEF Remembers, server, gdb
  <1>1. CASE Packet
    BY <1>1 DEF Packet, Interrupt, StopQuery, Resume, Detach, Drop, AnswersAccess,
       AccessWatchpointEnds, EditList, WritePcRegister, AccessWatchpoint
  <1>2. CASE Poll /\ ~Packet
    BY <1>2 DEF Poll, Accept, NobodyConnects, PollClient, InputEnds, Close,
       ReportStop, ReportFails, NothingToReport
  <1>3. CASE Turn
    BY <1>3 DEF Turn, PauseKey, NoPauseKey, Button, NoButton, MeetBreakpoint,
       RunInstruction, BatchEnds
  <1>4. CASE UNCHANGED gvars
    BY <1>4 DEF gvars
  <1> QED BY <1>1, <1>2, <1>3, <1>4 DEF ServerNext

(* GDB is told of a stop once.                                             *)
THEOREM ReportedOnce == ServerSpec => StopReportedOnce
  <1>1. ServerInit => Remembers
    BY DEF ServerInit, Remembers
  <1>2. Remembers => [ReportStop => asked # "answered"]_gvars
    BY DEF Remembers, ReportStop, MustReport
  <1> QED BY <1>1, <1>2, RemembersStep, PTL DEF ServerSpec, StopReportedOnce

-----------------------------------------------------------------------------
LEMMA SoleResumerStep == IInv /\ SoleResumer /\ [ServerNext]_gvars => SoleResumer'
  <1> SUFFICES ASSUME IInv, SoleResumer, [ServerNext]_gvars PROVE SoleResumer'
    OBVIOUS
  <1> USE DEF SoleResumer, server, gdb, flags
  <1>0. stopped <=> stop_reason # "NONE"
    BY DEF IInv, StopStateCoherent
  <1>1. CASE Accept \/ Close
    BY <1>1 DEF Accept, Close, debugger_pause, debugger_stop
  <1>2. CASE Interrupt \/ PauseKey
    BY <1>2 DEF Interrupt, PauseKey, debugger_pause, debugger_stop
  <1>3. CASE StopQuery
    <2>1. UNCHANGED flags /\ asked # "waiting"
      BY <1>3 DEF StopQuery, GdbSpeaks, vars
    <2>2. stop_reason = "BREAKPOINT" => heard' = stop_address
      BY <1>3 DEF StopQuery, Told
    <2> QED BY <1>3, <2>1, <2>2 DEF StopQuery
  <1>4. CASE Resume
    BY <1>4 DEF Resume, GdbSpeaks, debugger_continue, debugger_step, ArmSkip
  <1>5. CASE Detach \/ Button
    BY <1>5 DEF Detach, Button, debugger_pause, debugger_stop
  <1>6. CASE \/ AnswersAccess \/ Drop \/ NobodyConnects \/ PollClient
             \/ InputEnds \/ ReportFails \/ NothingToReport \/ NoPauseKey
             \/ NoButton \/ BatchEnds \/ UNCHANGED gvars
             \/ \E addr \in Addrs :
                   \/ EditList(addr) \/ WritePcRegister(addr)
                   \/ \E add \in BOOLEAN : AccessWatchpoint(addr, add)
    <2>1. UNCHANGED <<flags, gdb>>
      BY <1>6 DEF AnswersAccess, AccessWatchpointEnds, Drop, NobodyConnects,
         PollClient, InputEnds, ReportFails, NothingToReport, NoPauseKey, NoButton,
         BatchEnds, EditList, WritePcRegister, AccessWatchpoint, WritePc, gvars, vars,
         debugger_add_breakpoint, debugger_remove_breakpoint,
         debugger_add_read_watchpoint, debugger_remove_read_watchpoint,
         debugger_add_write_watchpoint, debugger_remove_write_watchpoint
    <2> QED BY <2>1
  <1>7. CASE ReportStop
    <2>1. UNCHANGED flags /\ stopped
      BY <1>7 DEF ReportStop, MustReport, vars
    <2>2. stop_reason = "BREAKPOINT" => heard' = stop_address
      BY <1>7 DEF ReportStop, Told
    <2> QED BY <1>7, <2>1, <2>2 DEF ReportStop
  <1>8. CASE MeetBreakpoint
    BY <1>8 DEF MeetBreakpoint, BreakpointHit, debugger_stop
  <1>9. CASE RunInstruction
    <2>1. PICK read, write \in Addrs \cup {None} : Execute(read, write)
      BY <1>9 DEF RunInstruction
    <2>2. ~stopped /\ ~skip_breakpoint_once' /\ UNCHANGED <<asked, sole>>
      BY <1>9, <2>1 DEF RunInstruction, Execute
    <2>3. \/ stopped' /\ stop_reason' # "BREAKPOINT"
          \/ UNCHANGED <<stopped, stop_reason>>
      BY <2>1, ExecuteOutcome
    <2> QED BY <1>0, <2>2, <2>3
  <1> QED BY <1>1, <1>2, <1>3, <1>4, <1>5, <1>6, <1>7, <1>8, <1>9
          DEF ServerNext, Poll, Turn, Packet

(* While only GDB resumes the CPU, no breakpoint is passed unheard.        *)
THEOREM BreakpointsHeard == ServerSpec => GdbHearsBreakpoint
  <1>1. ServerInit => SoleResumer
    BY DEF ServerInit, SoleResumer
  <1>2. SoleResumer => [RunInstruction /\ client /\ sole
                          /\ address_list_contains(breakpoints, pc) => heard = pc]_gvars
    <2> SUFFICES ASSUME SoleResumer, RunInstruction, sole,
                        address_list_contains(breakpoints, pc)
                 PROVE  heard = pc
      OBVIOUS
    <2>1. ~stopped /\ Skips
      BY DEF RunInstruction, Execute
    <2> QED BY <2>1 DEF SoleResumer, Skips
  <1> QED BY <1>1, <1>2, SoleResumerStep, ServerInvariance, PTL
      DEF ServerSpec, GdbHearsBreakpoint

-----------------------------------------------------------------------------
(* However GDB goes, it leaves the CPU running.                            *)
THEOREM GoneLeavesRunning == ServerSpec => LeavesRunning
  <1>1. [ServerNext]_gvars => [client /\ ~client' => ~stopped']_gvars
    <2> SUFFICES ASSUME ServerNext, client, ~client' PROVE ~stopped'
      OBVIOUS
    <2>1. ServerNext /\ ~Close => (client => client')
      BY DEF ServerNext, Poll, Turn, Packet, Accept, NobodyConnects, PollClient,
         Interrupt, StopQuery, Resume, Detach, Drop, AnswersAccess,
         AccessWatchpointEnds, EditList, WritePcRegister, AccessWatchpoint,
         InputEnds, ReportStop, ReportFails, NothingToReport, PauseKey, NoPauseKey,
         Button, NoButton, MeetBreakpoint, RunInstruction, BatchEnds, server
    <2>2. Close
      BY <2>1
    <2> QED BY <2>2 DEF Close, debugger_continue
  <1> QED BY <1>1, PTL DEF ServerSpec, LeavesRunning

-----------------------------------------------------------------------------
(* What an edit of a list returns is true of the list it leaves.           *)
LEMMA EditedIsTrue ==
    ASSUME NEW list \in Seq(Addrs), IsSetList(list, MaxWatchpoints),
           NEW addr \in Addrs, NEW add \in BOOLEAN, Edited(list, add, addr)
    PROVE  IF add
           THEN address_list_contains(
                    address_list_add(list, MaxWatchpoints, addr), addr)
           ELSE ~address_list_contains(address_list_remove(list, addr), addr)
  <1>1. CASE add /\ address_list_contains(list, addr)
    BY <1>1 DEF address_list_add
  <1>2. CASE add /\ ~address_list_contains(list, addr)
    <2>1. Len(list) < MaxWatchpoints /\ Len(list) \in Nat
      BY <1>2 DEF Edited
    <2>2. address_list_add(list, MaxWatchpoints, addr) = Append(list, addr)
      BY <1>2, <2>1, DebuggerAssumption DEF address_list_add
    <2>3. /\ Len(Append(list, addr)) = Len(list) + 1
          /\ Append(list, addr)[Len(list) + 1] = addr
      OBVIOUS
    <2>4. Len(list) + 1 \in 1 .. Len(Append(list, addr))
      BY <2>1, <2>3
    <2> QED BY <1>2, <2>2, <2>3, <2>4 DEF address_list_contains
  <1>3. CASE ~add
    <2>1. Listed(address_list_remove(list, addr)) = Listed(list) \ {addr}
      BY RemoveKeepsSet, DebuggerAssumption
    <2> QED BY <1>3, <2>1 DEF address_list_contains, Listed
  <1> QED BY <1>1, <1>2, <1>3

LEMMA FirstHalfStep == IInv /\ FirstHalf /\ [ServerNext]_gvars => FirstHalf'
  <1> SUFFICES ASSUME IInv, FirstHalf, [ServerNext]_gvars, (phase = "access")', access'.ok
               PROVE  access'.add <=> address_list_contains(read_watchpoints', access'.addr)
    BY DEF FirstHalf
  <1>1. CASE UNCHANGED gvars
    BY <1>1 DEF FirstHalf, gvars, vars, lists, server
  <1>2. ServerNext => \E addr \in Addrs : \E add \in BOOLEAN : AccessWatchpoint(addr, add)
    BY DEF ServerNext, Poll, Turn, Packet, Accept, NobodyConnects, PollClient,
       Interrupt, StopQuery, Resume, Detach, Drop, AnswersAccess, GdbSpeaks,
       AccessWatchpointEnds, EditList, WritePcRegister, Replying, InputEnds, Close,
       ReportStop, ReportFails, NothingToReport, PauseKey, NoPauseKey, Button,
       NoButton, MeetBreakpoint, RunInstruction, BatchEnds
  <1>3. ASSUME NEW addr \in Addrs, NEW add \in BOOLEAN, AccessWatchpoint(addr, add)
        PROVE  access'.add <=> address_list_contains(read_watchpoints', access'.addr)
    <2>1. access' = [add |-> add, addr |-> addr, ok |-> Edited(read_watchpoints, add, addr)]
      BY <1>3 DEF AccessWatchpoint
    <2>2. read_watchpoints \in Seq(Addrs) /\ IsSetList(read_watchpoints, MaxWatchpoints)
      BY DEF IInv, ListsOK, NoDuplicates
    <2>3. read_watchpoints' = IF add
              THEN address_list_add(read_watchpoints, MaxWatchpoints, addr)
              ELSE address_list_remove(read_watchpoints, addr)
      BY <1>3 DEF AccessWatchpoint, debugger_add_read_watchpoint,
         debugger_remove_read_watchpoint
    <2>4. Edited(read_watchpoints, add, addr)
      BY <2>1
    <2>5. IF add THEN address_list_contains(read_watchpoints', addr)
          ELSE ~address_list_contains(read_watchpoints', addr)
      BY <2>2, <2>3, <2>4, EditedIsTrue
    <2> QED BY <2>1, <2>5
  <1> QED BY <1>1, <1>2, <1>3

(* OK to an access watchpoint is true of both lists.                       *)
THEOREM OkIsTrue == ServerSpec => OkMeansBoth
  <1> DEFINE addr == access.addr
             Both == IF access.add
                     THEN /\ address_list_contains(read_watchpoints', addr)
                          /\ address_list_contains(write_watchpoints', addr)
                     ELSE /\ ~address_list_contains(read_watchpoints', addr)
                          /\ ~address_list_contains(write_watchpoints', addr)
  <1>1. ServerInit => FirstHalf
    BY DEF ServerInit, FirstHalf
  <1>2. ASSUME IInv, ServerTyped, Accessing, FirstHalf, AccessWatchpointEnds("OK")
        PROVE  Both
    <2>1. addr \in Addrs /\ access.add \in BOOLEAN
      BY <1>2 DEF AccessWatchpointEnds, Accessing, ServerTyped
    <2>2. access.ok /\ Edited(write_watchpoints, access.add, addr)
      BY <1>2 DEF AccessWatchpointEnds
    <2>3. write_watchpoints \in Seq(Addrs) /\ IsSetList(write_watchpoints, MaxWatchpoints)
      BY <1>2 DEF IInv, ListsOK, NoDuplicates
    <2>4. write_watchpoints' = IF access.add
              THEN address_list_add(write_watchpoints, MaxWatchpoints, addr)
              ELSE address_list_remove(write_watchpoints, addr)
      BY <1>2 DEF AccessWatchpointEnds, debugger_add_write_watchpoint,
         debugger_remove_write_watchpoint
    <2>5. IF access.add THEN address_list_contains(write_watchpoints', addr)
          ELSE ~address_list_contains(write_watchpoints', addr)
      BY <2>1, <2>2, <2>3, <2>4, EditedIsTrue
    <2>6. read_watchpoints' = read_watchpoints /\ phase = "access"
      BY <1>2 DEF AccessWatchpointEnds, debugger_add_write_watchpoint,
         debugger_remove_write_watchpoint
    <2>7. access.add <=> address_list_contains(read_watchpoints', addr)
      BY <1>2, <2>2, <2>6 DEF FirstHalf
    <2> QED BY <2>5, <2>7
  <1>3. IInv /\ ServerTyped /\ Accessing /\ FirstHalf
          => [AccessWatchpointEnds("OK") => Both]_gvars
    BY <1>2
  <1> QED BY <1>1, <1>3, FirstHalfStep, ServerInvariance, PTL
      DEF ServerSpec, OkMeansBoth

-----------------------------------------------------------------------------
(***************************************************************************)
(* What the liveness of the loop rests on besides fairness: a step ends    *)
(* within the turn of the loop in which it is commanded, and a stop that   *)
(* GDB waits for goes straight to the end of the next poll.                *)
(***************************************************************************)
StepDone == phase \in {"ran", "poll"} => single_step = FALSE

(* The batch of a turn begins with the step, or with nothing to do.        *)
LEMMA StepDoneStep == IInv /\ StepDone /\ [ServerNext]_gvars => StepDone'
  <1> SUFFICES ASSUME IInv, StepDone, [ServerNext]_gvars PROVE StepDone'
    OBVIOUS
  <1> USE DEF StepDone, Replying
  <1>1. CASE Packet
    <2>1. phase' \notin {"ran", "poll"}
      BY <1>1 DEF Packet, Interrupt, StopQuery, Resume, Detach, Drop, AnswersAccess,
         AccessWatchpointEnds, EditList, WritePcRegister, AccessWatchpoint, GdbSpeaks
    <2> QED BY <2>1
  <1>2. CASE Accept \/ NobodyConnects \/ PollClient \/ InputEnds \/ Close
    BY <1>2 DEF Accept, NobodyConnects, PollClient, InputEnds, Close
  <1>3. CASE ReportStop \/ ReportFails \/ NothingToReport
    BY <1>3 DEF ReportStop, ReportFails, NothingToReport
  <1>4. CASE PauseKey \/ NoPauseKey \/ Button \/ NoButton
    BY <1>4 DEF PauseKey, NoPauseKey, Button, NoButton
  <1>5. CASE MeetBreakpoint
    BY <1>5 DEF MeetBreakpoint, BreakpointHit, debugger_stop
  <1>6. CASE RunInstruction
    <2>1. PICK read \in Addrs \cup {None}, write \in Addrs \cup {None} : Execute(read, write)
      BY <1>6 DEF RunInstruction
    <2>2. single_step' = FALSE \/ (~single_step /\ single_step' = single_step)
      BY <2>1, ExecuteOutcome
    <2>3. single_step \in BOOLEAN
      BY DEF IInv, FlagsOK
    <2> QED BY <2>2, <2>3
  <1>7. CASE BatchEnds
    <2>1. single_step \in BOOLEAN /\ (single_step => ~stopped)
      BY DEF IInv, FlagsOK, StopStateCoherent
    <2> QED BY <1>7, <2>1 DEF BatchEnds, vars, flags
  <1>8. CASE UNCHANGED gvars
    BY <1>8 DEF gvars, vars, flags
  <1> QED BY <1>1, <1>2, <1>3, <1>4, <1>5, <1>6, <1>7, <1>8 DEF ServerNext, Poll, Turn

(* No step outlasts the turn of the loop in which GDB or the window has     *)
(* commanded it: when the next poll begins it has ended.                   *)
THEOREM StepEndsInTurn == ServerSpec => [](phase = "poll" => ~single_step)
  <1>1. ServerInit => StepDone
    BY DEF ServerInit, Init, StepDone
  <1>2. StepDone => (phase = "poll" => ~single_step)
    BY DEF StepDone
  <1> QED BY <1>1, <1>2, StepDoneStep, ServerInvariance, PTL DEF ServerSpec

-----------------------------------------------------------------------------
(* A GDB that sends is connected, and so is one that waits, which has not   *)
(* been told of a stop.                                                    *)
Waits ==
    /\ phase \in {"receive", "access"} => client = TRUE
    /\ asked = "waiting" => client = TRUE /\ stop_reported = FALSE

(* A stop that a waiting GDB is to be told of.                             *)
Unheard == asked = "waiting" /\ stopped /\ stop_reason # "PAUSE"

(* How many steps of the loop are left until GDB is told.                  *)
StepsToReport ==
    [events |-> 8, frame |-> 7, run |-> 6, ran |-> 5, poll |-> 4, access |-> 3,
     receive |-> 2, closing |-> 1, report |-> 1, ended |-> 0]

GoesToReport == Unheard => ~Unheard' \/ StepsToReport[phase'] < StepsToReport[phase]

LEMMA WaitsStep ==
    ASSUME ServerTyped, Waits, ServerNext
    PROVE  Waits' /\ GoesToReport
  <1> USE DEF Waits, GoesToReport, Unheard, StepsToReport, server, gdb, Replying, GdbSpeaks
  <1>1. CASE Accept \/ Close
    BY <1>1 DEF Accept, Close
  <1>2. CASE NobodyConnects \/ PollClient \/ InputEnds
    BY <1>2 DEF NobodyConnects, PollClient, InputEnds
  <1>3. CASE Interrupt \/ StopQuery \/ Drop
    BY <1>3 DEF Interrupt, StopQuery, Drop, Told
  <1>4. CASE Resume \/ Detach
    BY <1>4 DEF Resume, Detach, ServerTyped
  <1>5. CASE AnswersAccess
    BY <1>5 DEF AnswersAccess, AccessWatchpointEnds
  <1>6. ASSUME NEW addr \in Addrs, NEW add \in BOOLEAN,
               EditList(addr) \/ WritePcRegister(addr) \/ AccessWatchpoint(addr, add)
        PROVE  Waits' /\ GoesToReport
    BY <1>6 DEF EditList, WritePcRegister, AccessWatchpoint
  <1>7. CASE ReportStop \/ ReportFails \/ NothingToReport
    BY <1>7 DEF ReportStop, ReportFails, NothingToReport, MustReport, Told
  <1>8. CASE PauseKey \/ NoPauseKey \/ Button \/ NoButton
    BY <1>8 DEF PauseKey, NoPauseKey, Button, NoButton
  <1>9. CASE MeetBreakpoint \/ RunInstruction
    BY <1>9 DEF MeetBreakpoint, RunInstruction, BreakpointHit, Execute
  <1>10. CASE BatchEnds
    BY <1>10 DEF BatchEnds
  <1> QED BY <1>1, <1>2, <1>3, <1>4, <1>5, <1>6, <1>7, <1>8, <1>9, <1>10
          DEF ServerNext, Poll, Turn, Packet

(* A stop that a waiting GDB is to be told of goes to the end of the poll,  *)
(* one phase of the loop after the other, and is not passed over there:    *)
(* what StopReachesGdb needs besides fairness.                             *)
THEOREM StopNearsGdb == ServerSpec => [][GoesToReport]_gvars
  <1>1. ServerInit => Waits
    BY DEF ServerInit, Waits
  <1>2. Waits /\ UNCHANGED gvars => Waits'
    BY DEF Waits, gvars, server, gdb
  <1> QED BY <1>1, <1>2, WaitsStep, ServerInvariance, PTL DEF ServerSpec

=============================================================================
