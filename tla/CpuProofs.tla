----------------------------- MODULE CpuProofs -----------------------------
(***************************************************************************)
(* Proofs about Cpu for every word size, register file and instruction     *)
(* stream: type correctness, the three invariants of the pipeline, and what*)
(* an exception and a load leave of the registers; and about Unaligned for *)
(* every byte size, memory and program: what pairs of LWL and LWR, and of  *)
(* SWL and SWR, load and store.                                            *)
(***************************************************************************)
EXTENDS Cpu, Unaligned, Numbers, SequenceTheorems, TLAPS

(* Arithmetic on words wraps back into the words.                          *)
LEMMA WrapWord == \A n \in Int : n % WordMod \in Word
  BY CpuAssumption DEF Word

(* The sum of two words is a word.                                         *)
LEMMA AddWord == \A a, b \in Int : Add(a, b) \in Word
  BY WrapWord DEF Add

(* The constants that the actions use are words.                           *)
LEMMA ConstantWords ==
    /\ Word \subseteq Int /\ 0 \in Word
    /\ Handler \in Word /\ JumpTargets \subseteq Word
  BY CpuAssumption DEF Word, Handler, JumpTargets

(* A write to a register bank keeps its type, and $zero stays zero.        *)
LEMMA SetRegType ==
    ASSUME NEW bank \in [Regs -> Word], NEW r \in Regs, NEW v \in Word
    PROVE  SetReg(bank, r, v) \in [Regs -> Word] /\ SetReg(bank, r, v)[0] = 0
  BY CpuAssumption, ConstantWords DEF SetReg

(* Committing the load in flight does so too.                              *)
LEMMA CommittedType ==
    ASSUME TypeOK
    PROVE  Committed \in [Regs -> Word] /\ Committed[0] = 0
  BY SetRegType DEF TypeOK, Committed

(* PUSH and POP of SR's mode stack yield status words.                     *)
LEMMA ModeStackType ==
    ASSUME NEW s \in StatusWords
    PROVE  PushMode(s) \in StatusWords /\ PopMode(s) \in StatusWords
  BY CpuAssumption DEF StatusWords, PushMode, PopMode

-----------------------------------------------------------------------------
(***************************************************************************)
(* What any step does to each group of variables.  The four shapes carry   *)
(* all that the invariants need, so each action is looked at once.         *)
(***************************************************************************)

Exception == Begin /\ \E code \in Codes : cpu_exception(code)

ControlShape ==
    \/ Begin /\ Sequential
    \/ Begin /\ \E t \in Word : Jump(t)
    \/ Exception
    \/ \E v \in Word : DebugSetPc(v)
    \/ UNCHANGED control

BanksShape ==
    \/ \E bank \in [Regs -> Word] : bank[0] = 0 /\ Retire(bank)
    \/ \E r \in Regs, v \in Word : DebugSetReg(r, v)
    \/ UNCHANGED <<regs, out_regs>>

LoadShape == load' \in [reg : Regs, value : Word]

Cop0Shape ==
    \/ Exception /\ badvaddr' \in Word
    \/ sr' \in StatusWords /\ saved' = <<>> /\ UNCHANGED <<cause, epc, badvaddr>>
    \/ OpRfe
    \/ cause' \in CauseWords /\ UNCHANGED <<sr, epc, badvaddr, saved>>
    \/ badvaddr' \in Word /\ UNCHANGED <<sr, cause, epc, saved>>
    \/ UNCHANGED cop0

StepShape == /\ ControlShape /\ BanksShape /\ LoadShape /\ Cop0Shape
             /\ halted' \in BOOLEAN

(* An instruction that retires a well-typed bank and puts a well-typed load *)
(* in flight, shared by all instructions that run to the end.               *)
LEMMA RetireShape ==
    ASSUME TypeOK, NEW bank \in [Regs -> Word], bank[0] = 0, Retire(bank),
           load' \in [reg : Regs, value : Word], Fetch,
           Sequential \/ \E t \in Word : Jump(t)
    PROVE  ControlShape /\ BanksShape /\ LoadShape /\ halted' \in BOOLEAN
  BY DEF TypeOK, ControlShape, BanksShape, LoadShape, Fetch, Begin

(* NoLoad is a load of $zero.                                              *)
LEMMA NoLoadType == NoLoad \in [reg : Regs, value : Word]
  BY CpuAssumption, ConstantWords DEF NoLoad

(* An instruction that traps.                                              *)
LEMMA TrapShape ==
    ASSUME TypeOK, NEW code \in Codes, Trap(code), badvaddr' \in Word
    PROVE  StepShape
  <1>1. ControlShape /\ Cop0Shape
    BY DEF Trap, Fetch, ControlShape, Cop0Shape, Exception
  <1>2. BanksShape /\ LoadShape
    BY CommittedType, NoLoadType DEF Trap, BanksShape, LoadShape
  <1>3. halted' \in BOOLEAN
    BY DEF TypeOK, Trap, Fetch, Begin
  <1> QED BY <1>1, <1>2, <1>3 DEF StepShape

(* An instruction that writes one register and falls through.              *)
LEMMA ComputeShape ==
    ASSUME TypeOK, NEW d \in Regs, NEW v \in Word, OpCompute(d, v)
    PROVE  StepShape
  <1>1. /\ SetReg(Committed, d, v) \in [Regs -> Word]
        /\ SetReg(Committed, d, v)[0] = 0
    BY CommittedType, SetRegType
  <1>2. Cop0Shape
    BY DEF OpCompute, Cop0Shape
  <1> QED BY <1>1, <1>2, RetireShape, NoLoadType DEF OpCompute, StepShape

(* An instruction that writes no register and falls through.               *)
LEMMA NoResultShape ==
    ASSUME TypeOK, OpNoResult
    PROVE  StepShape
  <1>1. Cop0Shape
    BY DEF OpNoResult, Cop0Shape
  <1> QED BY <1>1, RetireShape, CommittedType, NoLoadType DEF OpNoResult, StepShape

(* A jump to any word, linked or not.                                      *)
LEMMA JumpShape ==
    ASSUME TypeOK, NEW d \in Regs, NEW t \in Word, OpJump(d, t)
    PROVE  StepShape
  <1>1. Add(next_pc, 4) \in Word
    BY AddWord, ConstantWords, CpuAssumption DEF TypeOK
  <1>2. /\ SetReg(Committed, d, Add(next_pc, 4)) \in [Regs -> Word]
        /\ SetReg(Committed, d, Add(next_pc, 4))[0] = 0
    BY <1>1, CommittedType, SetRegType
  <1>3. Cop0Shape
    BY DEF OpJump, Cop0Shape
  <1> QED BY <1>2, <1>3, RetireShape, NoLoadType DEF OpJump, StepShape

(* An instruction that puts a load in flight.                              *)
LEMMA LoadStepShape ==
    ASSUME TypeOK, NEW t \in Regs, NEW v \in Word,
           Fetch, Sequential, Retire(Committed),
           load' = [reg |-> t, value |-> v], UNCHANGED cop0
    PROVE  StepShape
  <1>1. Cop0Shape
    BY DEF Cop0Shape
  <1> QED BY <1>1, RetireShape, CommittedType DEF StepShape

(* Every step of the specification has one of the shapes.                  *)
LEMMA StepShapes == TypeOK /\ [Next]_vars => StepShape
  <1> SUFFICES ASSUME TypeOK, [Next]_vars PROVE StepShape
    OBVIOUS
  <1> USE CpuAssumption, ConstantWords
  <1>1. CASE MisalignedFetch
    <2>1. "LoadAddressError" \in Codes
      BY DEF Codes
    <2>2. ControlShape /\ Cop0Shape
      BY <1>1, <2>1 DEF MisalignedFetch, ControlShape, Cop0Shape, Exception, TypeOK
    <2> QED BY <1>1, <2>2
      DEF MisalignedFetch, Begin, TypeOK, StepShape, BanksShape, LoadShape
  <1>2. ASSUME NEW d \in Regs, NEW v \in Values, OpTrappingAdd(d, v) PROVE StepShape
    <2>1. CASE OpCompute(d, v)
      BY <2>1, ComputeShape
    <2>2. CASE Trap("Overflow") /\ UNCHANGED badvaddr
      BY <2>2, TrapShape DEF Codes, TypeOK
    <2> QED BY <1>2, <2>1, <2>2 DEF OpTrappingAdd
  <1>3. ASSUME NEW t \in Regs, NEW addr \in Addresses, NEW size \in {1, 2, 4},
               NEW v \in Values, OpLoad(t, addr, size, v)
        PROVE  StepShape
    <2>1. CASE addr % size = 0
      BY <1>3, <2>1, LoadStepShape DEF OpLoad
    <2>2. CASE addr % size # 0
      BY <1>3, <2>2, TrapShape DEF OpLoad, Codes
    <2> QED BY <2>1, <2>2
  <1>4. ASSUME NEW addr \in Addresses, NEW size \in {1, 2, 4}, OpStore(addr, size)
        PROVE  StepShape
    <2>1. CASE OpNoResult
      BY <2>1, NoResultShape
    <2>2. CASE Trap("StoreAddressError") /\ badvaddr' = addr
      BY <2>2, TrapShape DEF Codes
    <2> QED BY <1>4, <2>1, <2>2 DEF OpStore
  <1>5. ASSUME NEW d \in {0, Link}, NEW taken \in BOOLEAN, NEW o \in Offsets,
               OpBranch(d, taken, o)
        PROVE  StepShape
    <2>1. Add(next_pc, o) \in Word /\ Add(next_pc, 4) \in Word
      BY AddWord DEF TypeOK
    <2> QED BY <1>5, <2>1, JumpShape DEF OpBranch
  <1>6. ASSUME NEW d \in Regs, NEW s \in Regs, OpJumpRegister(d, s) PROVE StepShape
    BY <1>6, JumpShape DEF OpJumpRegister, TypeOK
  <1>7. ASSUME NEW status \in StatusWords, OpMtc0(status) PROVE StepShape
    BY <1>7, RetireShape, CommittedType, NoLoadType DEF OpMtc0, StepShape, Cop0Shape
  <1>8. ASSUME NEW t \in Regs, NEW v \in Values \cup {epc}, OpMfc0(t, v) PROVE StepShape
    BY <1>8, LoadStepShape DEF OpMfc0, TypeOK
  <1>9. CASE OpRfe
    <2>1. Cop0Shape
      BY <1>9 DEF Cop0Shape
    <2> QED BY <1>9, <2>1, RetireShape, CommittedType, NoLoadType DEF OpRfe, StepShape
  <1>10. ASSUME NEW code \in TrapCodes, OpTrap(code) PROVE StepShape
    BY <1>10, TrapShape DEF OpTrap, TypeOK
  <1>11. CASE Abort
    BY <1>11 DEF Abort, StepShape, ControlShape, BanksShape, LoadShape, Cop0Shape, TypeOK
  <1>12. ASSUME NEW r \in Regs, NEW v \in Values, DebugSetReg(r, v) PROVE StepShape
    BY <1>12
    DEF DebugSetReg, StepShape, ControlShape, BanksShape, LoadShape, Cop0Shape, TypeOK
  <1>13. ASSUME NEW v \in Addresses, DebugSetPc(v) PROVE StepShape
    BY <1>13
    DEF DebugSetPc, StepShape, ControlShape, BanksShape, LoadShape, Cop0Shape, TypeOK
  <1>14. ASSUME NEW status \in StatusWords, DebugSetSr(status) PROVE StepShape
    BY <1>14
    DEF DebugSetSr, StepShape, ControlShape, BanksShape, LoadShape, Cop0Shape, TypeOK
  <1>15. ASSUME NEW c \in DebugCauses, DebugSetCause(c) PROVE StepShape
    BY <1>15
    DEF DebugSetCause, StepShape, ControlShape, BanksShape, LoadShape, Cop0Shape, TypeOK
  <1>16. ASSUME NEW v \in Values, DebugSetBadVAddr(v) PROVE StepShape
    BY <1>16
    DEF DebugSetBadVAddr, StepShape, ControlShape, BanksShape, LoadShape, Cop0Shape, TypeOK
  <1>17. CASE UNCHANGED vars
    BY <1>17 DEF vars, StepShape, ControlShape, BanksShape, LoadShape, Cop0Shape, TypeOK
  <1> QED
    BY <1>1, <1>2, <1>3, <1>4, <1>5, <1>6, <1>7, <1>8, <1>9, <1>10, <1>11, <1>12,
       <1>13, <1>14, <1>15, <1>16, <1>17, ComputeShape, NoResultShape, JumpShape
    DEF Next, Instruction, DebugWrite

-----------------------------------------------------------------------------
(* The initial state is well typed and satisfies the three invariants.     *)
LEMMA InitOK == Init => TypeOK /\ BanksAgree /\ FetchOrder /\ ModeStackHonest
  <1> SUFFICES ASSUME Init PROVE TypeOK /\ BanksAgree /\ FetchOrder /\ ModeStackHonest
    OBVIOUS
  <1> USE CpuAssumption, ConstantWords DEF Init
  <1>1. {pc, next_pc, current_pc, epc, badvaddr} \subseteq Word
    BY AddWord
  <1>2. regs \in [Regs -> Word] /\ out_regs = regs /\ regs[0] = 0
    OBVIOUS
  <1>3. load \in [reg : Regs, value : Word]
    BY NoLoadType
  <1>4. sr \in StatusWords /\ cause \in CauseWords
    BY DEF StatusWords, CauseWords, Codes
  <1>5. saved \in Seq(Modes) /\ Len(saved) = 0
    OBVIOUS
  <1> QED
    BY <1>1, <1>2, <1>3, <1>4, <1>5 DEF TypeOK, BanksAgree, FetchOrder, ModeStackHonest

(* What an exception leaves in the registers it writes.                    *)
LEMMA ExceptionType ==
    ASSUME TypeOK, Exception
    PROVE  /\ {pc', next_pc', current_pc', epc'} \subseteq Word
           /\ branch' \in BOOLEAN /\ delay_slot' \in BOOLEAN
           /\ sr' \in StatusWords /\ cause' \in CauseWords
           /\ saved' \in Seq(Modes) /\ Len(saved') <= 2
  <1> USE CpuAssumption, ConstantWords
  <1>1. PICK code \in Codes : cpu_exception(code)
    BY DEF Exception
  <1>2. current_pc' \in Word /\ delay_slot' \in BOOLEAN /\ branch' \in BOOLEAN
    BY <1>1 DEF Exception, Begin, cpu_exception, TypeOK
  <1>3. pc' \in Word /\ next_pc' \in Word
    BY <1>1, AddWord DEF cpu_exception
  <1>4. epc' \in Word
    BY <1>1, <1>2, WrapWord DEF cpu_exception
  <1>5. sr' \in StatusWords
    BY <1>1, ModeStackType DEF cpu_exception, TypeOK
  <1>6. cause' \in CauseWords
    BY <1>1, <1>2 DEF cpu_exception, CauseWords
  <1>7. saved' \in Seq(Modes) /\ Len(saved') <= 2
    BY <1>1 DEF cpu_exception, PushSaved, TypeOK, StatusWords
  <1> QED BY <1>2, <1>3, <1>4, <1>5, <1>6, <1>7

(* A step of any of the shapes preserves the types.                        *)
LEMMA TypeStep == TypeOK /\ [Next]_vars => TypeOK'
  <1> SUFFICES ASSUME TypeOK, StepShape PROVE TypeOK'
    BY StepShapes
  <1> USE CpuAssumption, ConstantWords
  <1>1. /\ {pc, next_pc, current_pc}' \subseteq Word
        /\ {branch, delay_slot}' \subseteq BOOLEAN
    <2>1. CASE Begin /\ Sequential
      BY <2>1, AddWord DEF Begin, Sequential, TypeOK
    <2>2. CASE Begin /\ \E t \in Word : Jump(t)
      BY <2>2 DEF Begin, Jump, TypeOK
    <2>3. CASE Exception
      BY <2>3, ExceptionType
    <2>4. CASE \E v \in Word : DebugSetPc(v)
      <3>1. PICK v \in Word : DebugSetPc(v)
        BY <2>4
      <3>2. Add(v, 4) \in Word
        BY AddWord
      <3> QED BY <3>1, <3>2 DEF DebugSetPc
    <2>5. CASE UNCHANGED control
      BY <2>5 DEF control, TypeOK
    <2> QED BY <2>1, <2>2, <2>3, <2>4, <2>5 DEF StepShape, ControlShape
  <1>2. regs' \in [Regs -> Word] /\ out_regs' \in [Regs -> Word]
    BY DEF StepShape, BanksShape, Retire, DebugSetReg, TypeOK
  <1>3. /\ {epc, badvaddr}' \subseteq Word
        /\ sr' \in StatusWords /\ cause' \in CauseWords
        /\ saved' \in Seq(Modes) /\ Len(saved') <= 2
    <2>1. CASE Exception /\ badvaddr' \in Word
      BY <2>1, ExceptionType
    <2>2. CASE OpRfe
      BY <2>2, ModeStackType DEF OpRfe, TypeOK
    <2>3. CASE ~OpRfe /\ ~(Exception /\ badvaddr' \in Word)
      BY <2>3 DEF StepShape, Cop0Shape, cop0, TypeOK
    <2> QED BY <2>1, <2>2, <2>3
  <1> QED BY <1>1, <1>2, <1>3 DEF TypeOK, StepShape, LoadShape

(* Every reachable state is well typed.                                    *)
THEOREM TypeCorrect == Spec => []TypeOK
  <1>1. Init => TypeOK
    BY InitOK
  <1> QED BY <1>1, TypeStep, PTL DEF Spec

-----------------------------------------------------------------------------
(* The two register banks agree between instructions, and $zero is zero.   *)
THEOREM BanksTheorem == Spec => []BanksAgree
  <1>1. Init => BanksAgree
    BY InitOK
  <1>2. TypeOK /\ BanksAgree /\ [Next]_vars => BanksAgree'
    <2> SUFFICES ASSUME TypeOK, BanksAgree, StepShape PROVE BanksAgree'
      BY StepShapes
    <2>1. CASE \E bank \in [Regs -> Word] : bank[0] = 0 /\ Retire(bank)
      BY <2>1 DEF Retire, BanksAgree
    <2>2. CASE \E r \in Regs, v \in Word : DebugSetReg(r, v)
      BY <2>2, CpuAssumption DEF DebugSetReg, BanksAgree, TypeOK
    <2>3. CASE UNCHANGED <<regs, out_regs>>
      BY <2>3 DEF BanksAgree
    <2> QED BY <2>1, <2>2, <2>3 DEF StepShape, BanksShape
  <1> QED BY <1>1, <1>2, TypeCorrect, PTL DEF Spec

(* Fetches are consecutive but for a branch, whose slot comes first.       *)
THEOREM FetchTheorem == Spec => []FetchOrder
  <1>1. Init => FetchOrder
    BY InitOK
  <1>2. TypeOK /\ FetchOrder /\ [Next]_vars => FetchOrder'
    <2> SUFFICES ASSUME TypeOK, FetchOrder, StepShape PROVE FetchOrder'
      BY StepShapes
    <2> USE DEF FetchOrder
    <2>1. CASE Begin /\ Sequential
      BY <2>1 DEF Begin, Sequential
    <2>2. CASE Begin /\ \E t \in Word : Jump(t)
      BY <2>2 DEF Begin, Jump
    <2>3. CASE Exception
      BY <2>3 DEF Exception, cpu_exception
    <2>4. CASE \E v \in Word : DebugSetPc(v)
      BY <2>4 DEF DebugSetPc
    <2>5. CASE UNCHANGED control
      BY <2>5 DEF control
    <2> QED BY <2>1, <2>2, <2>3, <2>4, <2>5 DEF StepShape, ControlShape
  <1> QED BY <1>1, <1>2, TypeCorrect, PTL DEF Spec

(* The tail of a sequence of one or two elements.                          *)
LEMMA TailOfTwo ==
    ASSUME NEW S, NEW s \in Seq(S), s # <<>>, Len(s) <= 2
    PROVE  /\ Len(Tail(s)) # 2
           /\ Len(Tail(s)) >= 1 => Len(s) = 2 /\ Tail(s)[1] = s[2]
  <1> DEFINE t == Tail(s)
  <1>1. Len(s) \in Nat \ {0}
    BY EmptySeq
  <1>2. Len(t) = Len(s) - 1 /\ \A i \in 1 .. Len(t) : t[i] = s[i + 1]
    BY HeadTailProperties
  <1> HIDE DEF t
  <1>3. Len(t) # 2 /\ (Len(t) >= 1 => Len(s) = 2 /\ t[1] = s[1 + 1])
    BY <1>1, <1>2
  <1> QED BY <1>3 DEF t

(* SR's mode stack holds the interrupted modes that RFE has yet to restore. *)
THEOREM ModeStackTheorem == Spec => []ModeStackHonest
  <1>1. Init => ModeStackHonest
    BY InitOK
  <1>2. TypeOK /\ ModeStackHonest /\ [Next]_vars => ModeStackHonest'
    <2> SUFFICES ASSUME TypeOK, ModeStackHonest, StepShape PROVE ModeStackHonest'
      BY StepShapes
    <2> USE DEF ModeStackHonest, TypeOK, StatusWords
    <2>1. CASE Exception
      <3>1. PICK code \in Codes : cpu_exception(code)
        BY <2>1 DEF Exception
      <3>2. sr'.prev = sr.cur /\ sr'.old = sr.prev
        BY <3>1 DEF cpu_exception, PushMode
      <3> QED BY <3>1, <3>2 DEF cpu_exception, PushSaved
    <2>2. CASE OpRfe
      <3>1. sr'.prev = sr.old
        BY <2>2 DEF OpRfe, PopMode
      <3>2. CASE saved = <<>>
        <4>1. saved' = <<>>
          BY <2>2, <3>2 DEF OpRfe
        <4> QED BY <4>1
      <3>3. CASE saved # <<>>
        <4>1. saved' = Tail(saved)
          BY <2>2, <3>3 DEF OpRfe
        <4>2. /\ Len(saved') # 2
              /\ Len(saved') >= 1 => Len(saved) = 2 /\ saved'[1] = saved[2]
          BY <3>3, <4>1, TailOfTwo
        <4> QED BY <3>1, <4>2
      <3> QED BY <3>2, <3>3
    <2>3. CASE ~Exception /\ ~OpRfe
      BY <2>3 DEF StepShape, Cop0Shape, cop0
    <2> QED BY <2>1, <2>2, <2>3
  <1> QED BY <1>1, <1>2, TypeCorrect, PTL DEF Spec

-----------------------------------------------------------------------------
(* The three properties of a step.  Each says what an exception or a load  *)
(* leaves of the registers, for which the banks have to agree before it.   *)

(* Only two kinds of step write EPC.                                       *)
LEMMA EpcWriters ==
    ASSUME [Next]_vars, epc' # epc
    PROVE  MisalignedFetch \/ \E code \in Codes : Trap(code)
  <1> USE DEF cop0
  <1>1. CASE Instruction
    <2>1. ASSUME NEW d \in Regs, NEW v \in Values, OpCompute(d, v) \/ OpTrappingAdd(d, v)
          PROVE  Trap("Overflow")
      BY <2>1 DEF OpTrappingAdd, OpCompute
    <2>2. ASSUME NEW t \in Regs, NEW addr \in Addresses, NEW size \in {1, 2, 4},
                 NEW v \in Values, OpLoad(t, addr, size, v)
          PROVE  Trap("LoadAddressError")
      BY <2>2 DEF OpLoad
    <2>3. ASSUME NEW addr \in Addresses, NEW size \in {1, 2, 4}, OpStore(addr, size)
          PROVE  Trap("StoreAddressError")
      BY <2>3 DEF OpStore, OpNoResult
    <2>4. ~OpNoResult /\ ~OpRfe /\ ~Abort
      BY DEF OpNoResult, OpRfe, Abort
    <2>5. \A d, t : ~OpJump(d, t)
      BY DEF OpJump
    <2>6. /\ \A d, taken, o : ~OpBranch(d, taken, o)
          /\ \A d, s : ~OpJumpRegister(d, s)
      BY <2>5 DEF OpBranch, OpJumpRegister
    <2>7. (\A status : ~OpMtc0(status)) /\ (\A t, v : ~OpMfc0(t, v))
      BY DEF OpMtc0, OpMfc0
    <2>8. ASSUME NEW code \in TrapCodes, OpTrap(code) PROVE Trap(code) /\ code \in Codes
      BY <2>8, CpuAssumption DEF OpTrap
    <2>9. {"Overflow", "LoadAddressError", "StoreAddressError"} \subseteq Codes
      BY DEF Codes
    <2> QED BY <1>1, <2>1, <2>2, <2>3, <2>4, <2>5, <2>6, <2>7, <2>8, <2>9 DEF Instruction
  <1>2. CASE DebugWrite
    BY <1>2 DEF DebugWrite, DebugSetReg, DebugSetPc, DebugSetSr, DebugSetCause, DebugSetBadVAddr
  <1>3. CASE UNCHANGED vars
    BY <1>3 DEF vars
  <1> QED BY <1>1, <1>2, <1>3 DEF Next

(* The committed bank differs from what instructions read only in the      *)
(* target of the load in flight.                                           *)
LEMMA CommittedBank ==
    ASSUME TypeOK, BanksAgree
    PROVE  /\ \A r \in Regs \ {load.reg} : Committed[r] = regs[r]
           /\ Committed[load.reg] = IF load.reg = 0 THEN 0 ELSE load.value
  BY CpuAssumption DEF TypeOK, BanksAgree, Committed, SetReg

(* An exception writes no register: the load in flight lands, or stays.    *)
THEOREM PreciseTheorem == Spec => PreciseExceptions
  <1> DEFINE Precise ==
        epc' # epc =>
          /\ \A r \in Regs \ {load.reg} : regs'[r] = regs[r]
          /\ \/ regs'[load.reg] = IF load.reg = 0 THEN 0 ELSE load.value
             \/ load' = load
  <1>1. ASSUME TypeOK, BanksAgree, [Next]_vars PROVE Precise
    <2>1. CASE MisalignedFetch
      BY <2>1 DEF MisalignedFetch
    <2>2. CASE \E code \in Codes : Trap(code)
      BY <1>1, <2>2, CommittedBank DEF Trap, Retire, BanksAgree
    <2> QED BY <1>1, <2>1, <2>2, EpcWriters
  <1>2. TypeOK /\ BanksAgree /\ [Next]_vars => [Precise]_vars
    BY <1>1
  <1> QED BY <1>2, TypeCorrect, BanksTheorem, PTL DEF Spec, PreciseExceptions

(* A word and back, around the end of the address space.                   *)
LEMMA AddSubtract == \A a \in Word : (Add(a, 4) - 4) % WordMod = a
  <1> TAKE a \in Word
  <1>1. WordMod \in Nat /\ WordMod > 4 /\ a \in Nat /\ a < WordMod
    BY CpuAssumption DEF Word
  <1>2. CASE a + 4 < WordMod
    BY <1>1, <1>2 DEF Add
  <1>3. CASE a + 4 >= WordMod
    <2>1. Add(a, 4) = a + 4 - WordMod
      BY <1>1, <1>3 DEF Add
    <2> QED BY <1>1, <2>1
  <1> QED BY <1>1, <1>2, <1>3

(* What EPC and Cause.BD say of where to restart.                          *)
THEOREM RestartTheorem == Spec => RestartPoint
  <1> DEFINE Restart ==
        epc' # epc =>
          /\ cause'.bd = branch
          /\ ~branch => epc' = pc
          /\ branch /\ ~delay_slot => epc' = current_pc
  <1>1. ASSUME TypeOK, FetchOrder, [Next]_vars, epc' # epc PROVE Restart
    <2>1. Exception
      BY <1>1, EpcWriters DEF MisalignedFetch, Trap, Fetch, Exception, Codes
    <2>2. PICK code \in Codes : cpu_exception(code)
      BY <2>1 DEF Exception
    <2>3. cause'.bd = branch
      BY <2>1, <2>2 DEF Exception, Begin, cpu_exception
    <2>4. epc' = IF branch THEN (pc - 4) % WordMod ELSE pc
      BY <2>1, <2>2 DEF Exception, Begin, cpu_exception
    <2>5. branch /\ ~delay_slot => (pc - 4) % WordMod = current_pc
      BY <1>1, AddSubtract DEF FetchOrder, TypeOK
    <2> QED BY <2>3, <2>4, <2>5
  <1>2. TypeOK /\ FetchOrder /\ [Next]_vars => [Restart]_vars
    BY <1>1
  <1> QED BY <1>2, TypeCorrect, FetchTheorem, PTL DEF Spec, RestartPoint

(* Only loads and MFC0 put a load in flight, and they retire the committed *)
(* bank.                                                                   *)
LEMMA LoadWriters ==
    ASSUME [Next]_vars, load'.reg # 0, load' # load
    PROVE  Retire(Committed)
  <1>1. load' # NoLoad
    BY DEF NoLoad
  <1>2. CASE Instruction
    <2>1. \A code : ~Trap(code)
      BY <1>1 DEF Trap
    <2>2. ~MisalignedFetch /\ ~OpNoResult /\ ~OpRfe /\ ~Abort
      BY <1>1 DEF MisalignedFetch, OpNoResult, OpRfe, Abort
    <2>3. \A d, v : ~OpCompute(d, v) /\ ~OpTrappingAdd(d, v) /\ ~OpJump(d, v)
      BY <1>1, <2>1 DEF OpCompute, OpTrappingAdd, OpJump
    <2>4. \A a, n : ~OpStore(a, n)
      BY <2>1, <2>2 DEF OpStore
    <2>5. /\ \A d, taken, o : ~OpBranch(d, taken, o)
          /\ \A d, s : ~OpJumpRegister(d, s)
      BY <2>3 DEF OpBranch, OpJumpRegister
    <2>6. (\A status : ~OpMtc0(status)) /\ (\A code : ~OpTrap(code))
      BY <1>1, <2>1 DEF OpMtc0, OpTrap
    <2>7. \A t, a, n, v : OpLoad(t, a, n, v) => Retire(Committed)
      BY <2>1 DEF OpLoad
    <2>8. \A t, v : OpMfc0(t, v) => Retire(Committed)
      BY DEF OpMfc0
    <2> QED BY <1>2, <2>2, <2>3, <2>4, <2>5, <2>6, <2>7, <2>8 DEF Instruction
  <1>3. CASE DebugWrite
    BY <1>3 DEF DebugWrite, DebugSetReg, DebugSetPc, DebugSetSr, DebugSetCause, DebugSetBadVAddr
  <1>4. CASE UNCHANGED vars
    BY <1>4 DEF vars
  <1> QED BY <1>2, <1>3, <1>4 DEF Next

(* A load changes no register before the next instruction has run.         *)
THEOREM DelayedTheorem == Spec => DelayedLoads
  <1> DEFINE Delayed ==
        load'.reg # 0 /\ load' # load =>
          \A r \in Regs \ {load.reg} : regs'[r] = regs[r]
  <1>1. TypeOK /\ BanksAgree /\ [Next]_vars => [Delayed]_vars
    BY LoadWriters, CommittedBank DEF Retire
  <1> QED BY <1>1, TypeCorrect, BanksTheorem, PTL DEF Spec, DelayedLoads

-----------------------------------------------------------------------------
(***************************************************************************)
(* Words at any address.  A word is taken as four bytes, each merge as a   *)
(* choice of bytes, and an address by its place in the aligned word.       *)
(***************************************************************************)

(* A quotient and a remainder are the only ones. *)
LEMMA DivisionIs ==
    ASSUME NEW m \in Nat \ {0}, NEW q \in Int, NEW r \in 0 .. m - 1, NEW x, x = m * q + r
    PROVE  x % m = r /\ x \div m = q
  BY RemainderOf

(* The word of four bytes, the first as the lowest.                        *)
WordOf(a, b, c, d) == a + Base * (b + Base * (c + Base * d))

(* The factors of the shifts. *)
LEMMA PowersAre ==
    ASSUME Parameters
    PROVE  /\ Power(0) = 1 /\ Power(1) = Base /\ Power(2) = Base * Base
           /\ Power(3) = Base * Base * Base /\ Power(4) = Base * Base * Base * Base
           /\ \A n \in 0 .. 4 : Power(n) \in Nat \ {0}
  <1>1. /\ Power(0) = 1 /\ Power(1) = Base /\ Power(2) = Base * Base
        /\ Power(3) = Base * Base * Base /\ Power(4) = Base * Base * Base * Base
    BY DEF Power
  <1>2. Base \in Nat \ {0}
    BY DEF Parameters
  <1>3. Base * Base \in Nat \ {0}
    BY <1>2
  <1>4. Base * Base * Base \in Nat \ {0}
    BY <1>2, <1>3
  <1>5. Base * Base * Base * Base \in Nat \ {0}
    BY <1>2, <1>4
  <1>6. ASSUME NEW n \in 0 .. 4 PROVE Power(n) \in Nat \ {0}
    BY <1>1, <1>2, <1>3, <1>4, <1>5
  <1> QED BY <1>1, <1>6

(* A byte under a number below m is a number below Base * m. *)
LEMMA BelowNext ==
    ASSUME Parameters, NEW m \in Nat \ {0}, NEW a \in Bytes, NEW x \in 0 .. m - 1
    PROVE  a + Base * x \in 0 .. Base * m - 1
  <1>1. Base \in Nat /\ Base > 1 /\ a \in Nat /\ a <= Base - 1
    BY DEF Parameters, Bytes
  <1>2. \A k \in Nat : Base * k \in Nat
    BY <1>1
  <1>3. m - 1 - x \in Nat
    OBVIOUS
  <1>4. Base * m = Base * x + Base + Base * (m - 1 - x)
    BY <1>1
  <1>5. Base * x \in Nat /\ Base * (m - 1 - x) \in Nat
    BY <1>2, <1>3
  <1> QED BY <1>1, <1>4, <1>5

(* A word as two or three low bytes and what is above them, with their
   ranges. *)
LEMMA Grouped ==
    ASSUME Parameters, NEW a \in Bytes, NEW b \in Bytes, NEW c \in Bytes, NEW d \in Bytes
    PROVE  /\ a + Base * b \in 0 .. Power(2) - 1
           /\ a + Base * (b + Base * c) \in 0 .. Power(3) - 1
           /\ WordOf(a, b, c, d) \in FourBytes
           /\ WordOf(a, b, c, d) = Power(2) * (c + Base * d) + (a + Base * b)
           /\ WordOf(a, b, c, d) = Power(3) * d + (a + Base * (b + Base * c))
  <1>1. Base \in Nat \ {0} /\ a \in Int /\ b \in Int /\ c \in Int /\ d \in Int
    BY DEF Parameters, Bytes
  <1>2. Bytes = 0 .. Base - 1
    BY DEF Bytes
  <1>3. ASSUME NEW x \in Bytes, NEW y \in Bytes PROVE x + Base * y \in 0 .. Base * Base - 1
    BY <1>1, <1>2, BelowNext
  <1>4. ASSUME NEW x \in Bytes, NEW y \in Bytes, NEW z \in Bytes
        PROVE  x + Base * (y + Base * z) \in 0 .. Base * (Base * Base) - 1
    BY <1>1, <1>3, PowersAre, BelowNext
  <1>5. WordOf(a, b, c, d) \in 0 .. Base * (Base * (Base * Base)) - 1
    <2>1. Base * (Base * Base) \in Nat \ {0}
      BY <1>1, PowersAre
    <2> QED BY <1>4, <2>1, BelowNext DEF WordOf
  <1>6. Base * Base * Base = Base * (Base * Base)
        /\ Base * Base * Base * Base = Base * (Base * (Base * Base))
    BY <1>1
  <1>7. a + Base * (b + Base * (c + Base * d)) = (Base * Base) * (c + Base * d) + (a + Base * b)
    BY <1>1
  <1>8. a + Base * (b + Base * (c + Base * d))
          = (Base * Base * Base) * d + (a + Base * (b + Base * c))
    BY <1>1
  <1> QED BY <1>3, <1>4, <1>5, <1>6, <1>7, <1>8, PowersAre DEF WordOf, FourBytes, FourBytesMod

(* What the low parts, the shifts and ByteOf take of a word of four bytes. *)
LEMMA BytesOf ==
    ASSUME Parameters,
           NEW a \in Bytes, NEW b \in Bytes, NEW c \in Bytes, NEW d \in Bytes
    PROVE  LET w == WordOf(a, b, c, d) IN
           /\ Low(w, 0) = 0 /\ ShiftRight(w, 0) = w
           /\ Low(w, 1) = a /\ ShiftRight(w, 1) = b + Base * (c + Base * d)
           /\ Low(w, 2) = a + Base * b /\ ShiftRight(w, 2) = c + Base * d
           /\ Low(w, 3) = a + Base * (b + Base * c) /\ ShiftRight(w, 3) = d
           /\ Low(w, 4) = w
           /\ ByteOf(w, 0) = a /\ ByteOf(w, 1) = b /\ ByteOf(w, 2) = c /\ ByteOf(w, 3) = d
  <1> DEFINE w == WordOf(a, b, c, d)
  <1>1. Base \in Nat \ {0} /\ a \in Int /\ b \in Int /\ c \in Int /\ d \in Int
        /\ a \in 0 .. Base - 1 /\ b \in 0 .. Base - 1 /\ c \in 0 .. Base - 1 /\ d \in 0 .. Base - 1
    BY DEF Parameters, Bytes
  <1>2. w \in Int /\ w \in 0 .. Power(4) - 1
    BY Grouped, PowersAre DEF FourBytes, FourBytesMod
  <1> DEFINE q2 == c + Base * d
             q1 == b + Base * q2
             r2 == a + Base * b
             r3 == a + Base * (b + Base * c)
  <1>3. /\ q1 \in Int /\ q2 \in Int
        /\ r2 \in 0 .. Power(2) - 1 /\ r3 \in 0 .. Power(3) - 1
        /\ w = 1 * w + 0 /\ w = Base * q1 + a
        /\ w = Power(2) * q2 + r2 /\ w = Power(3) * d + r3
        /\ q1 = Base * q2 + b /\ q2 = Base * d + c
    <2>1. q2 \in Int /\ q2 = Base * d + c
      BY <1>1
    <2>2. q1 \in Int /\ q1 = Base * q2 + b
      BY <1>1, <2>1
    <2>3. w = Base * q1 + a
      BY <1>1, <2>2 DEF WordOf
    <2> QED BY <1>2, <2>1, <2>2, <2>3, Grouped
  <1>4. Power(2) \in Nat \ {0} /\ Power(3) \in Nat \ {0} /\ Power(4) \in Nat \ {0}
    BY PowersAre
  <1> DEFINE P2 == Power(2)
             P3 == Power(3)
             P4 == Power(4)
  <1>5. Power(2) = P2 /\ Power(3) = P3 /\ Power(4) = P4
    OBVIOUS
  <1>6. w % P4 = w
    <2> HIDE DEF w, P4
    <2> QED BY <1>2, <1>4, <1>5
  <1> HIDE DEF w, q1, q2, r2, r3, P2, P3, P4
  <1>7. w % 1 = 0 /\ w \div 1 = w
    BY <1>2, <1>3, DivisionIs
  <1>8. w % Base = a /\ w \div Base = q1
    <2>1. Base \in Nat \ {0} /\ q1 \in Int /\ a \in 0 .. Base - 1 /\ w = Base * q1 + a
      BY <1>1, <1>3
    <2> QED BY <2>1, DivisionIs
  <1>9. w % P2 = r2 /\ w \div P2 = q2
    <2>1. P2 \in Nat \ {0} /\ q2 \in Int /\ r2 \in 0 .. P2 - 1 /\ w = P2 * q2 + r2
      BY <1>3, <1>4, <1>5
    <2> QED BY <2>1, DivisionIs
  <1>10. w % P3 = r3 /\ w \div P3 = d
    <2>1. P3 \in Nat \ {0} /\ d \in Int /\ r3 \in 0 .. P3 - 1 /\ w = P3 * d + r3
      BY <1>1, <1>3, <1>4, <1>5
    <2> QED BY <2>1, DivisionIs
  <1>11. q1 % Base = b
    <2>1. Base \in Nat \ {0} /\ q2 \in Int /\ b \in 0 .. Base - 1 /\ q1 = Base * q2 + b
      BY <1>1, <1>3
    <2> QED BY <2>1, DivisionIs
  <1>12. q2 % Base = c
    <2>1. Base \in Nat \ {0} /\ d \in Int /\ c \in 0 .. Base - 1 /\ q2 = Base * d + c
      BY <1>1, <1>3
    <2> QED BY <2>1, DivisionIs
  <1>13. q1 % Base = b /\ q2 % Base = c /\ d % Base = d
    BY <1>1, <1>11, <1>12
  <1>14. Power(0) = 1 /\ Power(1) = Base
    BY PowersAre
  <1>15. /\ Low(w, 0) = 0 /\ ShiftRight(w, 0) = w
         /\ Low(w, 1) = a /\ ShiftRight(w, 1) = q1
         /\ Low(w, 2) = r2 /\ ShiftRight(w, 2) = q2
         /\ Low(w, 3) = r3 /\ ShiftRight(w, 3) = d
         /\ Low(w, 4) = w
    BY <1>5, <1>6, <1>7, <1>8, <1>9, <1>10, <1>14 DEF Low, ShiftRight
  <1>16. /\ ByteOf(w, 0) = a /\ ByteOf(w, 1) = b /\ ByteOf(w, 2) = c /\ ByteOf(w, 3) = d
    BY <1>5, <1>7, <1>8, <1>9, <1>13, <1>14, <1>10 DEF ByteOf
  <1> QED BY <1>15, <1>16 DEF w, q1, q2, r2, r3

(* The quotient of a number below a product by one of its factors. *)
LEMMA QuotientBelow ==
    ASSUME NEW b \in Nat \ {0}, NEW m \in Nat, NEW x \in 0 .. b * m - 1
    PROVE  x \div b \in 0 .. m - 1
  <1> DEFINE y == x \div b
             z == x % b
  <1>1. b * m \in Nat /\ x \in Int
    OBVIOUS
  <1>2. x = b * y + z /\ z \in 0 .. b - 1 /\ y \in Int
    BY <1>1, Quotient
  <1> HIDE DEF y, z
  <1>3. ASSUME y >= m PROVE FALSE
    <2>1. y - m \in Nat
      BY <1>2, <1>3
    <2>2. b * (y - m) \in Nat
      BY <2>1
    <2>3. b * y = b * m + b * (y - m)
      BY <1>2
    <2>4. b * y \in Int /\ z >= 0 /\ x <= b * m - 1
      BY <1>1, <1>2
    <2> QED BY <1>1, <1>2, <2>2, <2>3, <2>4
  <1>4. ASSUME y < 0 PROVE FALSE
    <2>1. -y - 1 \in Nat
      BY <1>2, <1>4
    <2>2. b * (-y - 1) \in Nat
      BY <2>1
    <2>3. b * y = 0 - (b * (-y - 1)) - b
      BY <1>2
    <2>4. b * y \in Int /\ z <= b - 1 /\ x >= 0
      BY <1>1, <1>2
    <2> QED BY <1>2, <2>2, <2>3, <2>4
  <1> QED BY <1>2, <1>3, <1>4 DEF y

(* Every word is the word of its own four bytes. *)
LEMMA WordIsBytes ==
    ASSUME Parameters, NEW w \in FourBytes
    PROVE  /\ \A k \in 0 .. 3 : ByteOf(w, k) \in Bytes
           /\ w = WordOf(ByteOf(w, 0), ByteOf(w, 1), ByteOf(w, 2), ByteOf(w, 3))
  <1> DEFINE p == w \div Base
             q == p \div Base
             r == q \div Base
  <1>1. Base \in Nat \ {0} /\ w \in 0 .. Base * (Base * (Base * Base)) - 1
    <2>1. Base \in Nat \ {0}
      BY DEF Parameters
    <2>2. Base * Base * Base * Base = Base * (Base * (Base * Base))
      BY <2>1
    <2> QED BY <2>1, <2>2, PowersAre DEF FourBytes, FourBytesMod
  <1>2. Base * Base \in Nat /\ Base * (Base * Base) \in Nat
    BY <1>1
  <1>3. p \in 0 .. Base * (Base * Base) - 1
    BY <1>1, <1>2, QuotientBelow
  <1>4. q \in 0 .. Base * Base - 1
    BY <1>1, <1>2, <1>3, QuotientBelow
  <1>5. r \in 0 .. Base - 1
    BY <1>1, <1>4, QuotientBelow
  <1>6. w \in Int /\ p \in Int /\ q \in Int /\ r \in Int /\ r \in Bytes
    BY <1>1, <1>2, <1>3, <1>4, <1>5 DEF Bytes
  <1>7. /\ w = Base * p + (w % Base) /\ w % Base \in Bytes
        /\ p = Base * q + (p % Base) /\ p % Base \in Bytes
        /\ q = Base * r + (q % Base) /\ q % Base \in Bytes
    BY <1>1, <1>6, Quotient DEF Bytes
  <1> HIDE DEF p, q, r
  <1>8. w = WordOf(w % Base, p % Base, q % Base, r)
    <2> DEFINE a == w % Base
               b == p % Base
               c == q % Base
    <2>1. a \in Int /\ b \in Int /\ c \in Int
      BY <1>1, <1>7 DEF Bytes
    <2> HIDE DEF a, b, c
    <2>2. w = Base * p + a /\ p = Base * q + b /\ q = Base * r + c
      BY <1>7 DEF a, b, c
    <2>3. q = c + Base * r
      BY <1>1, <1>6, <2>1, <2>2
    <2>4. p = b + Base * (c + Base * r)
      BY <1>1, <1>6, <2>1, <2>2, <2>3
    <2>5. w = WordOf(a, b, c, r)
      BY <1>1, <1>6, <2>1, <2>2, <2>4 DEF WordOf
    <2> QED BY <2>5 DEF a, b, c
  <1>9. /\ ByteOf(w, 0) = w % Base /\ ByteOf(w, 1) = p % Base
        /\ ByteOf(w, 2) = q % Base /\ ByteOf(w, 3) = r
    <2> DEFINE a == w % Base
               b == p % Base
               c == q % Base
    <2>1. a \in Bytes /\ b \in Bytes /\ c \in Bytes /\ w = WordOf(a, b, c, r)
      BY <1>7, <1>8
    <2> HIDE DEF a, b, c
    <2>2. /\ ByteOf(w, 0) = a /\ ByteOf(w, 1) = b /\ ByteOf(w, 2) = c
          /\ ByteOf(w, 3) = r
      BY <1>6, <2>1, BytesOf
    <2> QED BY <2>2 DEF a, b, c
  <1> QED BY <1>6, <1>7, <1>8, <1>9

(* Words with the same bytes are the same. *)
LEMMA SameBytes ==
    ASSUME Parameters, NEW v \in FourBytes, NEW w \in FourBytes,
           \A k \in 0 .. 3 : ByteOf(v, k) = ByteOf(w, k)
    PROVE  v = w
  BY WordIsBytes

(* Zero is a byte. *)
LEMMA ZeroByte == Parameters => 0 \in Bytes
  BY DEF Parameters, Bytes

(* The parts of a word that the merges are made of, in its bytes. *)
LEMMA PartsOf ==
    ASSUME Parameters, NEW w \in FourBytes
    PROVE  LET b0 == ByteOf(w, 0)
               b1 == ByteOf(w, 1)
               b2 == ByteOf(w, 2)
               b3 == ByteOf(w, 3) IN
           /\ Low(w, 0) = 0 /\ Low(w, 1) = b0
           /\ Low(w, 2) = b0 + Base * b1 /\ Low(w, 3) = b0 + Base * (b1 + Base * b2)
           /\ High(w, 4) = 0 /\ High(w, 3) = Base * Base * Base * b3
           /\ High(w, 2) = Base * Base * (b2 + Base * b3)
           /\ High(w, 1) = Base * (b1 + Base * (b2 + Base * b3))
           /\ ShiftRight(w, 0) = w
           /\ ShiftRight(w, 1) = b1 + Base * (b2 + Base * b3)
           /\ ShiftRight(w, 2) = b2 + Base * b3 /\ ShiftRight(w, 3) = b3
           /\ ShiftLeft(w, 0) = w
           /\ ShiftLeft(w, 1) = Base * (b0 + Base * (b1 + Base * b2))
           /\ ShiftLeft(w, 2) = Base * Base * (b0 + Base * b1)
           /\ ShiftLeft(w, 3) = Base * Base * Base * b0
  <1> DEFINE a == ByteOf(w, 0)
             b == ByteOf(w, 1)
             c == ByteOf(w, 2)
             d == ByteOf(w, 3)
  <1>1. a \in Bytes /\ b \in Bytes /\ c \in Bytes /\ d \in Bytes
        /\ w = WordOf(a, b, c, d) /\ w \in Int
    BY WordIsBytes, PowersAre DEF FourBytes, FourBytesMod
  <1> HIDE DEF a, b, c, d
  <1>2. Base \in Nat \ {0} /\ a \in Int /\ b \in Int /\ c \in Int /\ d \in Int
    BY <1>1 DEF Parameters, Bytes
  <1>3. /\ Low(w, 0) = 0 /\ Low(w, 1) = a
        /\ Low(w, 2) = a + Base * b /\ Low(w, 3) = a + Base * (b + Base * c)
        /\ Low(w, 4) = w
        /\ ShiftRight(w, 0) = w /\ ShiftRight(w, 1) = b + Base * (c + Base * d)
        /\ ShiftRight(w, 2) = c + Base * d /\ ShiftRight(w, 3) = d
    BY <1>1, BytesOf
  <1>4. \A n \in 0 .. 4 : High(w, n) = w - Low(w, n)
    BY DEF High, Low
  <1>5. /\ High(w, 4) = 0 /\ High(w, 3) = Base * Base * Base * d
        /\ High(w, 2) = Base * Base * (c + Base * d)
        /\ High(w, 1) = Base * (b + Base * (c + Base * d))
    <2>1. WordOf(a, b, c, d) - (a + Base * (b + Base * c)) = Base * Base * Base * d
      BY <1>2 DEF WordOf
    <2>2. WordOf(a, b, c, d) - (a + Base * b) = Base * Base * (c + Base * d)
      BY <1>2 DEF WordOf
    <2>3. WordOf(a, b, c, d) - a = Base * (b + Base * (c + Base * d))
      BY <1>2 DEF WordOf
    <2> QED BY <1>1, <1>3, <1>4, <2>1, <2>2, <2>3
  <1>6. /\ ShiftLeft(w, 0) = w
        /\ ShiftLeft(w, 1) = Base * (a + Base * (b + Base * c))
        /\ ShiftLeft(w, 2) = Base * Base * (a + Base * b)
        /\ ShiftLeft(w, 3) = Base * Base * Base * a
    <2> DEFINE M == Power(4)
    <2>1. M \in Nat \ {0} /\ M = Base * Base * Base * Base /\ FourBytesMod = M
      BY PowersAre DEF FourBytesMod
    <2>2. ASSUME NEW n \in 0 .. 3, NEW x \in FourBytes, NEW q \in Int,
                 w * Power(n) = M * q + x
          PROVE  ShiftLeft(w, n) = x
      <3>1. x \in 0 .. M - 1
        BY <2>1 DEF FourBytes
      <3> HIDE DEF M
      <3> QED BY <2>1, <2>2, <3>1, DivisionIs DEF ShiftLeft
    <2>3. Power(0) = 1 /\ Power(1) = Base /\ Power(2) = Base * Base
          /\ Power(3) = Base * Base * Base
      BY PowersAre
    <2> HIDE DEF M
    <2>4. ShiftLeft(w, 0) = w
      <3>1. w * 1 = M * 0 + w
        BY <1>1, <2>1
      <3> QED BY <2>2, <2>3, <3>1
    <2>5. ShiftLeft(w, 1) = Base * (a + Base * (b + Base * c))
      <3>1. Base * (a + Base * (b + Base * c)) = WordOf(0, a, b, c)
        BY <1>2 DEF WordOf
      <3>2. WordOf(a, b, c, d) * Base = (Base * Base * Base * Base) * d
                                        + Base * (a + Base * (b + Base * c))
        BY <1>2 DEF WordOf
      <3>3. WordOf(0, a, b, c) \in FourBytes
        BY <1>1, ZeroByte, Grouped
      <3> QED BY <1>1, <1>2, <2>1, <2>2, <2>3, <3>1, <3>2, <3>3
    <2>6. ShiftLeft(w, 2) = Base * Base * (a + Base * b)
      <3>1. Base * Base * (a + Base * b) = WordOf(0, 0, a, b)
        BY <1>2 DEF WordOf
      <3>2. WordOf(a, b, c, d) * (Base * Base)
            = (Base * Base * Base * Base) * (c + Base * d) + Base * Base * (a + Base * b)
        BY <1>2 DEF WordOf
      <3>3. WordOf(0, 0, a, b) \in FourBytes /\ c + Base * d \in Int
        BY <1>1, <1>2, ZeroByte, Grouped
      <3> DEFINE q == c + Base * d
                 x == Base * Base * (a + Base * b)
      <3>4. w * Power(2) = M * q + x /\ x \in FourBytes /\ q \in Int
        BY <1>1, <2>1, <2>3, <3>1, <3>2, <3>3
      <3> HIDE DEF q, x
      <3>5. ShiftLeft(w, 2) = x
        BY <2>2, <3>4
      <3> QED BY <3>5 DEF x
    <2>7. ShiftLeft(w, 3) = Base * Base * Base * a
      <3>1. Base * Base * Base * a = WordOf(0, 0, 0, a)
        BY <1>2 DEF WordOf
      <3>2. WordOf(a, b, c, d) * (Base * Base * Base)
            = (Base * Base * Base * Base) * (b + Base * (c + Base * d)) + Base * Base * Base * a
        BY <1>2 DEF WordOf
      <3>3. WordOf(0, 0, 0, a) \in FourBytes /\ b + Base * (c + Base * d) \in Int
        BY <1>1, <1>2, ZeroByte, Grouped
      <3> DEFINE q == b + Base * (c + Base * d)
                 x == Base * Base * Base * a
      <3>4. w * Power(3) = M * q + x /\ x \in FourBytes /\ q \in Int
        BY <1>1, <2>1, <2>3, <3>1, <3>2, <3>3
      <3> HIDE DEF q, x
      <3>5. ShiftLeft(w, 3) = x
        BY <2>2, <3>4
      <3> QED BY <3>5 DEF x
    <2> QED BY <2>4, <2>5, <2>6, <2>7
  <1> QED BY <1>3, <1>5, <1>6 DEF a, b, c, d

(* A part of v and the part of w that is shifted next to it are a word
   again, whose bytes are known. *)
LEMMA Joined ==
    ASSUME Parameters, NEW v \in FourBytes, NEW w \in FourBytes
    PROVE  LET V(n) == ByteOf(v, n)
               W(n) == ByteOf(w, n) IN
           /\ Low(v, 0) + ShiftLeft(w, 0) = w
           /\ Low(v, 1) + ShiftLeft(w, 1) = WordOf(V(0), W(0), W(1), W(2))
           /\ Low(v, 2) + ShiftLeft(w, 2) = WordOf(V(0), V(1), W(0), W(1))
           /\ Low(v, 3) + ShiftLeft(w, 3) = WordOf(V(0), V(1), V(2), W(0))
           /\ High(v, 4) + ShiftRight(w, 0) = w
           /\ High(v, 3) + ShiftRight(w, 1) = WordOf(W(1), W(2), W(3), V(3))
           /\ High(v, 2) + ShiftRight(w, 2) = WordOf(W(2), W(3), V(2), V(3))
           /\ High(v, 1) + ShiftRight(w, 3) = WordOf(W(3), V(1), V(2), V(3))
  <1> DEFINE v0 == ByteOf(v, 0)
             v1 == ByteOf(v, 1)
             v2 == ByteOf(v, 2)
             v3 == ByteOf(v, 3)
             w0 == ByteOf(w, 0)
             w1 == ByteOf(w, 1)
             w2 == ByteOf(w, 2)
             w3 == ByteOf(w, 3)
  <1>1. /\ v0 \in Int /\ v1 \in Int /\ v2 \in Int /\ v3 \in Int
        /\ w0 \in Int /\ w1 \in Int /\ w2 \in Int /\ w3 \in Int /\ w \in Int /\ Base \in Int
    <2>1. \A x \in Bytes : x \in Int
      BY DEF Bytes, Parameters
    <2>2. \A x \in FourBytes : x \in Int
      BY DEF FourBytes
    <2>3. Base \in Int
      BY DEF Parameters
    <2> QED BY <2>1, <2>2, <2>3, WordIsBytes
  <1>2. /\ Low(v, 0) = 0 /\ ShiftLeft(w, 0) = w /\ High(v, 4) = 0 /\ ShiftRight(w, 0) = w
        /\ Low(v, 1) = v0 /\ Low(v, 2) = v0 + Base * v1
        /\ Low(v, 3) = v0 + Base * (v1 + Base * v2)
        /\ ShiftLeft(w, 1) = Base * (w0 + Base * (w1 + Base * w2))
        /\ ShiftLeft(w, 2) = Base * Base * (w0 + Base * w1)
        /\ ShiftLeft(w, 3) = Base * Base * Base * w0
    BY PartsOf
  <1>3. /\ High(v, 3) = Base * Base * Base * v3 /\ High(v, 2) = Base * Base * (v2 + Base * v3)
        /\ High(v, 1) = Base * (v1 + Base * (v2 + Base * v3))
        /\ ShiftRight(w, 1) = w1 + Base * (w2 + Base * w3)
        /\ ShiftRight(w, 2) = w2 + Base * w3 /\ ShiftRight(w, 3) = w3
    BY PartsOf
  <1> HIDE DEF v0, v1, v2, v3, w0, w1, w2, w3
  <1>4. /\ v0 + Base * (w0 + Base * (w1 + Base * w2)) = WordOf(v0, w0, w1, w2)
        /\ (v0 + Base * v1) + Base * Base * (w0 + Base * w1) = WordOf(v0, v1, w0, w1)
        /\ (v0 + Base * (v1 + Base * v2)) + Base * Base * Base * w0 = WordOf(v0, v1, v2, w0)
    BY <1>1 DEF WordOf
  <1>5. /\ Base * Base * Base * v3 + (w1 + Base * (w2 + Base * w3)) = WordOf(w1, w2, w3, v3)
        /\ Base * Base * (v2 + Base * v3) + (w2 + Base * w3) = WordOf(w2, w3, v2, v3)
        /\ Base * (v1 + Base * (v2 + Base * v3)) + w3 = WordOf(w3, v1, v2, v3)
    BY <1>1 DEF WordOf
  <1>6. 0 + w = w
    BY <1>1
  <1> QED BY <1>2, <1>3, <1>4, <1>5, <1>6 DEF v0, v1, v2, v3, w0, w1, w2, w3

(* LWL: a byte of the merged word is one of memory from the place of the
   address downwards, and the register's below them. *)
LEMMA MergeLeftBytes ==
    ASSUME Parameters, NEW v \in FourBytes, NEW w \in FourBytes, NEW n \in 0 .. 3
    PROVE  /\ MergeLeft(v, w, n) \in FourBytes
           /\ \A k \in 0 .. 3 : ByteOf(MergeLeft(v, w, n), k) =
                 IF k + n >= 3 THEN ByteOf(w, k + n - 3) ELSE ByteOf(v, k)
  <1> DEFINE m == MergeLeft(v, w, n)
             V(k) == ByteOf(v, k)
             W(k) == ByteOf(w, k)
  <1>1. m = Low(v, 3 - n) + ShiftLeft(w, 3 - n)
    BY DEF MergeLeft
  <1>2. \A k \in 0 .. 3 : V(k) \in Bytes /\ W(k) \in Bytes
    BY WordIsBytes
  <1>3. w = WordOf(W(0), W(1), W(2), W(3))
    BY WordIsBytes
  <1>4. ASSUME NEW a \in Bytes, NEW b \in Bytes, NEW c \in Bytes, NEW d \in Bytes,
               m = WordOf(a, b, c, d)
        PROVE  /\ m \in FourBytes
               /\ ByteOf(m, 0) = a /\ ByteOf(m, 1) = b
               /\ ByteOf(m, 2) = c /\ ByteOf(m, 3) = d
    BY <1>4, Grouped, BytesOf
  <1>5. n = 3 => m = w
    BY <1>1, Joined
  <1>6. n = 2 => m = WordOf(V(0), W(0), W(1), W(2))
    BY <1>1, Joined
  <1>7. n = 1 => m = WordOf(V(0), V(1), W(0), W(1))
    BY <1>1, Joined
  <1>8. n = 0 => m = WordOf(V(0), V(1), V(2), W(0))
    BY <1>1, Joined
  <1> HIDE DEF m
  <1>9. m \in FourBytes /\ \A k \in 0 .. 3 :
           ByteOf(m, k) = IF k + n >= 3 THEN W(k + n - 3) ELSE V(k)
    <2> HIDE DEF V, W
    <2>1. \A k \in 0 .. 3 : k = 0 \/ k = 1 \/ k = 2 \/ k = 3
      OBVIOUS
    <2>2. CASE n = 3
      BY <1>5, <2>2 DEF W
    <2>3. CASE n = 2
      <3>1. m \in FourBytes /\ ByteOf(m, 0) = V(0) /\ ByteOf(m, 1) = W(0)
            /\ ByteOf(m, 2) = W(1) /\ ByteOf(m, 3) = W(2)
        BY <1>2, <1>4, <1>6, <2>3
      <3> QED BY <2>1, <2>3, <3>1
    <2>4. CASE n = 1
      <3>1. m \in FourBytes /\ ByteOf(m, 0) = V(0) /\ ByteOf(m, 1) = V(1)
            /\ ByteOf(m, 2) = W(0) /\ ByteOf(m, 3) = W(1)
        BY <1>2, <1>4, <1>7, <2>4
      <3> QED BY <2>1, <2>4, <3>1
    <2>5. CASE n = 0
      <3>1. m \in FourBytes /\ ByteOf(m, 0) = V(0) /\ ByteOf(m, 1) = V(1)
            /\ ByteOf(m, 2) = V(2) /\ ByteOf(m, 3) = W(0)
        BY <1>2, <1>4, <1>8, <2>5
      <3> QED BY <2>1, <2>5, <3>1
    <2> QED BY <2>2, <2>3, <2>4, <2>5
  <1> QED BY <1>9 DEF m

(* LWR: a byte of the merged word is one of memory from the address on, and
   the register's above them. *)
LEMMA MergeRightBytes ==
    ASSUME Parameters, NEW v \in FourBytes, NEW w \in FourBytes, NEW n \in 0 .. 3
    PROVE  /\ MergeRight(v, w, n) \in FourBytes
           /\ \A k \in 0 .. 3 : ByteOf(MergeRight(v, w, n), k) =
                 IF k + n <= 3 THEN ByteOf(w, k + n) ELSE ByteOf(v, k)
  <1> DEFINE m == MergeRight(v, w, n)
             V(k) == ByteOf(v, k)
             W(k) == ByteOf(w, k)
  <1>1. m = High(v, 4 - n) + ShiftRight(w, n)
    BY DEF MergeRight
  <1>2. \A k \in 0 .. 3 : V(k) \in Bytes /\ W(k) \in Bytes
    BY WordIsBytes
  <1>4. ASSUME NEW a \in Bytes, NEW b \in Bytes, NEW c \in Bytes, NEW d \in Bytes,
               m = WordOf(a, b, c, d)
        PROVE  /\ m \in FourBytes
               /\ ByteOf(m, 0) = a /\ ByteOf(m, 1) = b
               /\ ByteOf(m, 2) = c /\ ByteOf(m, 3) = d
    BY <1>4, Grouped, BytesOf
  <1>5. n = 0 => m = w
    BY <1>1, Joined
  <1>6. n = 1 => m = WordOf(W(1), W(2), W(3), V(3))
    BY <1>1, Joined
  <1>7. n = 2 => m = WordOf(W(2), W(3), V(2), V(3))
    BY <1>1, Joined
  <1>8. n = 3 => m = WordOf(W(3), V(1), V(2), V(3))
    BY <1>1, Joined
  <1> HIDE DEF m
  <1>9. m \in FourBytes /\ \A k \in 0 .. 3 :
           ByteOf(m, k) = IF k + n <= 3 THEN W(k + n) ELSE V(k)
    <2> HIDE DEF V, W
    <2>1. \A k \in 0 .. 3 : k = 0 \/ k = 1 \/ k = 2 \/ k = 3
      OBVIOUS
    <2>2. CASE n = 0
      BY <1>5, <2>2 DEF W
    <2>3. CASE n = 1
      <3>1. m \in FourBytes /\ ByteOf(m, 0) = W(1) /\ ByteOf(m, 1) = W(2)
            /\ ByteOf(m, 2) = W(3) /\ ByteOf(m, 3) = V(3)
        BY <1>2, <1>4, <1>6, <2>3
      <3> QED BY <2>1, <2>3, <3>1
    <2>4. CASE n = 2
      <3>1. m \in FourBytes /\ ByteOf(m, 0) = W(2) /\ ByteOf(m, 1) = W(3)
            /\ ByteOf(m, 2) = V(2) /\ ByteOf(m, 3) = V(3)
        BY <1>2, <1>4, <1>7, <2>4
      <3> QED BY <2>1, <2>4, <3>1
    <2>5. CASE n = 3
      <3>1. m \in FourBytes /\ ByteOf(m, 0) = W(3) /\ ByteOf(m, 1) = V(1)
            /\ ByteOf(m, 2) = V(2) /\ ByteOf(m, 3) = V(3)
        BY <1>2, <1>4, <1>8, <2>5
      <3> QED BY <2>1, <2>5, <3>1
    <2> QED BY <2>2, <2>3, <2>4, <2>5
  <1> QED BY <1>9 DEF m

(* SWL and SWR merge like a load of the other side at the opposite
   alignment. *)
LEMMA MergeStoreBytes ==
    ASSUME Parameters, NEW v \in FourBytes, NEW w \in FourBytes, NEW n \in 0 .. 3
    PROVE  /\ MergeStoreLeft(v, w, n) \in FourBytes /\ MergeStoreRight(v, w, n) \in FourBytes
           /\ \A k \in 0 .. 3 :
                 /\ ByteOf(MergeStoreLeft(v, w, n), k) =
                       IF k <= n THEN ByteOf(w, k + 3 - n) ELSE ByteOf(v, k)
                 /\ ByteOf(MergeStoreRight(v, w, n), k) =
                       IF k >= n THEN ByteOf(w, k - n) ELSE ByteOf(v, k)
  <1>1. 3 - n \in 0 .. 3 /\ 4 - (3 - n) = n + 1 /\ 3 - (3 - n) = n
    OBVIOUS
  <1>2. MergeStoreLeft(v, w, n) = MergeRight(v, w, 3 - n)
    BY <1>1 DEF MergeStoreLeft, MergeRight
  <1>3. MergeStoreRight(v, w, n) = MergeLeft(v, w, 3 - n)
    BY <1>1 DEF MergeStoreRight, MergeLeft
  <1>4. ASSUME NEW k \in 0 .. 3
        PROVE  /\ k + (3 - n) <= 3 <=> k <= n
               /\ k + (3 - n) >= 3 <=> k >= n
               /\ k + (3 - n) = k + 3 - n /\ k + (3 - n) - 3 = k - n
    OBVIOUS
  <1> QED BY <1>1, <1>2, <1>3, <1>4, MergeLeftBytes, MergeRightBytes

-----------------------------------------------------------------------------
(* What the history consists of. *)
Instructions == {"lwl", "lwr", "swl", "swr", "other", "mtc0"} \X Nat

UnalignedTyped ==
    /\ memory \in [ByteAddresses -> Bytes]
    /\ reg \in FourBytes /\ out_reg = reg
    /\ in_flight \in [pending : BOOLEAN, value : FourBytes]
    /\ isolated \in BOOLEAN
    /\ recent \in Seq(Instructions)

(* An address, the aligned one below it, and the word there. *)
LEMMA AddressFacts ==
    ASSUME Parameters, NEW x \in ByteAddresses
    PROVE  /\ x \in Nat /\ x % 4 \in 0 .. 3 /\ Aligned(x) = x - (x % 4)
           /\ \A j \in 0 .. 3 : Aligned(x) + j \in ByteAddresses
           /\ Aligned(x) + 0 = Aligned(x)
  BY DEF Parameters, ByteAddresses, Aligned

(* The bytes of a word of memory are those of memory. *)
LEMMA WordAtBytes ==
    ASSUME Parameters, NEW mem \in [ByteAddresses -> Bytes], NEW addr \in Nat,
           \A j \in 0 .. 3 : addr + j \in ByteAddresses
    PROVE  /\ WordAt(mem, addr) \in FourBytes
           /\ \A j \in 0 .. 3 : ByteOf(WordAt(mem, addr), j) = mem[addr + j]
  <1>1. addr + 0 = addr
    OBVIOUS
  <1>2. WordAt(mem, addr) = WordOf(mem[addr + 0], mem[addr + 1], mem[addr + 2], mem[addr + 3])
    BY <1>1 DEF WordAt, WordOf
  <1> DEFINE M(j) == mem[addr + j]
  <1>3. M(0) \in Bytes /\ M(1) \in Bytes /\ M(2) \in Bytes /\ M(3) \in Bytes
    OBVIOUS
  <1>4. WordAt(mem, addr) = WordOf(M(0), M(1), M(2), M(3))
    BY <1>2
  <1>5. \A j \in 0 .. 3 : j = 0 \/ j = 1 \/ j = 2 \/ j = 3
    OBVIOUS
  <1> HIDE DEF M
  <1>6. WordAt(mem, addr) \in FourBytes
        /\ ByteOf(WordAt(mem, addr), 0) = M(0) /\ ByteOf(WordAt(mem, addr), 1) = M(1)
        /\ ByteOf(WordAt(mem, addr), 2) = M(2) /\ ByteOf(WordAt(mem, addr), 3) = M(3)
    <2> DEFINE w == WordOf(M(0), M(1), M(2), M(3))
    <2>1. w \in FourBytes
      BY <1>3, Grouped
    <2>2. ByteOf(w, 0) = M(0) /\ ByteOf(w, 1) = M(1)
          /\ ByteOf(w, 2) = M(2) /\ ByteOf(w, 3) = M(3)
      BY <1>3, BytesOf
    <2> HIDE DEF w
    <2> QED BY <1>4, <2>1, <2>2 DEF w
  <1>7. \A j \in 0 .. 3 : ByteOf(WordAt(mem, addr), j) = M(j)
    BY <1>5, <1>6
  <1> QED BY <1>6, <1>7 DEF M

(* That word and mem agree on one side of the address x: up to x, with the
   highest bytes of word, or from x on, with its lowest, as far as the
   aligned word goes that x is in. *)
HasLeft(mem, word, x) ==
    \A k \in 0 .. 3 : k + (x % 4) >= 3 => ByteOf(word, k) = mem[x + k - 3]
HasRight(mem, word, x) ==
    \A k \in 0 .. 3 : k + (x % 4) <= 3 => ByteOf(word, k) = mem[x + k]

(* A word with both sides of the word of memory at addr is that word. *)
LEMMA BothSides ==
    ASSUME Parameters, NEW mem \in [ByteAddresses -> Bytes], NEW word \in FourBytes,
           NEW addr \in WordAddresses, HasLeft(mem, word, addr + 3), HasRight(mem, word, addr)
    PROVE  word = WordAt(mem, addr)
  <1>1. addr \in Nat /\ \A j \in 0 .. 3 : addr + j \in ByteAddresses
    BY DEF WordAddresses, ByteAddresses, Parameters
  <1>2. ASSUME NEW k \in 0 .. 3 PROVE ByteOf(word, k) = mem[addr + k]
    <2>1. k + (addr % 4) <= 3 \/ k + ((addr + 3) % 4) >= 3
      BY <1>1
    <2>2. (addr + 3) + k - 3 = addr + k
      BY <1>1
    <2> QED BY <2>1, <2>2 DEF HasLeft, HasRight
  <1> QED BY <1>1, <1>2, WordAtBytes, SameBytes

-----------------------------------------------------------------------------
(* The instruction before, and whether the i-th last was a load. *)
UnalignedLoads == {"lwl", "lwr"}
LastWas(op, x) == Len(recent) >= 1 /\ recent[1] = <<op, x>>
AfterLoad(i) == Len(recent) >= i /\ recent[i][1] \in UnalignedLoads

(* A load is in flight after a load, and has its side of the word; a store *)
(* has put there its side of the register, if none was in flight before    *)
(* and the cache was not isolated.                                         *)
SidesKept ==
    /\ in_flight.pending <=> AfterLoad(1)
    /\ \A x \in ByteAddresses :
          /\ LastWas("lwl", x) => HasLeft(memory, in_flight.value, x)
          /\ LastWas("lwr", x) => HasRight(memory, in_flight.value, x)
          /\ LastWas("swl", x) /\ ~AfterLoad(2) /\ ~isolated => HasLeft(memory, reg, x)
          /\ LastWas("swr", x) /\ ~AfterLoad(2) /\ ~isolated => HasRight(memory, reg, x)

(* The history after one more instruction. *)
LEMMA RememberedAre ==
    ASSUME recent \in Seq(Instructions), NEW op, NEW x \in Nat, <<op, x>> \in Instructions,
           Remember(<<op, x>>)
    PROVE  /\ recent' \in Seq(Instructions)
           /\ Len(recent') = Len(recent) + 1 /\ recent'[1] = <<op, x>>
           /\ \A i \in 1 .. Len(recent) : recent'[i + 1] = recent[i]
           /\ (AfterLoad(1)' <=> op \in UnalignedLoads)
           /\ (AfterLoad(2)' <=> AfterLoad(1))
           /\ (AfterLoad(3)' <=> AfterLoad(2))
           /\ \A o, y : LastWas(o, y)' <=> o = op /\ y = x
  <1>1. recent' = <<<<op, x>>>> \o recent /\ Len(recent) \in Nat
    BY DEF Remember
  <1>2. /\ recent' \in Seq(Instructions)
        /\ Len(recent') = Len(recent) + 1 /\ recent'[1] = <<op, x>>
        /\ \A i \in 1 .. Len(recent) : recent'[i + 1] = recent[i]
    BY <1>1
  <1>3. Len(recent') >= 1 /\ recent'[1][1] = op
    BY <1>1, <1>2
  <1>4. Len(recent') >= 2 <=> Len(recent) >= 1
    BY <1>1, <1>2
  <1>5. Len(recent) >= 1 => recent'[2] = recent[1]
    BY <1>1, <1>2
  <1>6. Len(recent') >= 3 <=> Len(recent) >= 2
    BY <1>1, <1>2
  <1>7. Len(recent) >= 2 => recent'[3] = recent[2]
    BY <1>1, <1>2
  <1> QED BY <1>2, <1>3, <1>4, <1>5, <1>6, <1>7 DEF AfterLoad, LastWas

(* A pair is the last instruction with the one before. *)
LEMMA PairIs ==
    ASSUME recent \in Seq(Instructions), NEW op, NEW x \in Nat, <<op, x>> \in Instructions,
           Remember(<<op, x>>), NEW left, NEW right, left # right, NEW addr \in Nat,
           JustPaired(left, right, addr)'
    PROVE  \/ op = left /\ x = addr + 3 /\ LastWas(right, addr)
           \/ op = right /\ x = addr /\ LastWas(left, addr + 3)
  <1>1. /\ Len(recent') = Len(recent) + 1 /\ recent'[1] = <<op, x>> /\ Len(recent) \in Nat
        /\ \A i \in 1 .. Len(recent) : recent'[i + 1] = recent[i]
    <2>1. Len(recent) \in Nat
      OBVIOUS
    <2> QED BY <2>1, RememberedAre, Zenon
  <1>2. Len(recent) >= 1 /\ recent'[2] = recent[1]
    BY <1>1 DEF JustPaired
  <1>3. {<<op, x>>, recent[1]} = {<<left, addr + 3>>, <<right, addr>>}
    BY <1>1, <1>2 DEF JustPaired
  <1>4. <<left, addr + 3>> # <<right, addr>>
    OBVIOUS
  <1>5. \/ <<op, x>> = <<left, addr + 3>> /\ recent[1] = <<right, addr>>
        \/ <<op, x>> = <<right, addr>> /\ recent[1] = <<left, addr + 3>>
    BY <1>3, <1>4
  <1> QED BY <1>2, <1>5 DEF LastWas

(* The aligned word that an address is in. *)
LEMMA ThereBytes ==
    ASSUME Parameters, UnalignedTyped, NEW x \in ByteAddresses
    PROVE  /\ WordThere(x) \in FourBytes
           /\ \A j \in 0 .. 3 : ByteOf(WordThere(x), j) = memory[Aligned(x) + j]
  <1>1. Aligned(x) \in Nat
    <2>1. Aligned(x) \in ByteAddresses
      BY AddressFacts
    <2> QED BY <2>1 DEF ByteAddresses, Parameters
  <1> QED BY <1>1, AddressFacts, WordAtBytes DEF UnalignedTyped, WordThere

(* The output bank with the load in flight committed is a word, that of the
   load if there is one. *)
LEMMA MergedType ==
    ASSUME UnalignedTyped
    PROVE  /\ OutputValue \in FourBytes
           /\ in_flight.pending => OutputValue = in_flight.value
           /\ ~in_flight.pending => OutputValue = reg
  BY DEF UnalignedTyped, OutputValue

(* What LWL puts in flight: its side of the word, over what it merges with. *)
LEMMA LoadLeft ==
    ASSUME Parameters, UnalignedTyped, NEW x \in ByteAddresses
    PROVE  LET m == MergeLeft(MergedWith, WordThere(x), x % 4) IN
           /\ m \in FourBytes /\ HasLeft(memory, m, x)
           /\ \A k \in 0 .. 3 : k + (x % 4) < 3 => ByteOf(m, k) = ByteOf(OutputValue, k)
  <1> DEFINE m == MergeLeft(MergedWith, WordThere(x), x % 4)
  <1>1. MergedWith \in FourBytes /\ MergedWith = OutputValue
    BY MergedType DEF MergedWith
  <1>2. x % 4 \in 0 .. 3 /\ x \in Nat /\ Aligned(x) = x - (x % 4)
    BY AddressFacts
  <1>3. m \in FourBytes /\ \A k \in 0 .. 3 : ByteOf(m, k) =
           IF k + (x % 4) >= 3 THEN ByteOf(WordThere(x), k + (x % 4) - 3)
           ELSE ByteOf(MergedWith, k)
    BY <1>1, <1>2, ThereBytes, MergeLeftBytes
  <1> HIDE DEF m
  <1>4. ASSUME NEW k \in 0 .. 3, k + (x % 4) >= 3
        PROVE  ByteOf(m, k) = memory[x + k - 3]
    <2> DEFINE j == k + (x % 4) - 3
    <2>1. j \in 0 .. 3 /\ Aligned(x) + j = x + k - 3
      BY <1>2, <1>4
    <2>2. ByteOf(m, k) = ByteOf(WordThere(x), j)
      BY <1>3, <1>4
    <2> HIDE DEF j
    <2>3. ByteOf(WordThere(x), j) = memory[Aligned(x) + j]
      BY <2>1, ThereBytes
    <2> QED BY <2>1, <2>2, <2>3
  <1>5. ASSUME NEW k \in 0 .. 3, k + (x % 4) < 3
        PROVE  ByteOf(m, k) = ByteOf(OutputValue, k)
    BY <1>1, <1>2, <1>3, <1>5
  <1> QED BY <1>3, <1>4, <1>5 DEF HasLeft, m

(* What LWR puts in flight. *)
LEMMA LoadRight ==
    ASSUME Parameters, UnalignedTyped, NEW x \in ByteAddresses
    PROVE  LET m == MergeRight(MergedWith, WordThere(x), x % 4) IN
           /\ m \in FourBytes /\ HasRight(memory, m, x)
           /\ \A k \in 0 .. 3 : k + (x % 4) > 3 => ByteOf(m, k) = ByteOf(OutputValue, k)
  <1> DEFINE m == MergeRight(MergedWith, WordThere(x), x % 4)
  <1>1. MergedWith \in FourBytes /\ MergedWith = OutputValue
    BY MergedType DEF MergedWith
  <1>2. x % 4 \in 0 .. 3 /\ x \in Nat /\ Aligned(x) = x - (x % 4)
    BY AddressFacts
  <1>3. m \in FourBytes /\ \A k \in 0 .. 3 : ByteOf(m, k) =
           IF k + (x % 4) <= 3 THEN ByteOf(WordThere(x), k + (x % 4))
           ELSE ByteOf(MergedWith, k)
    BY <1>1, <1>2, ThereBytes, MergeRightBytes
  <1> HIDE DEF m
  <1>4. ASSUME NEW k \in 0 .. 3, k + (x % 4) <= 3
        PROVE  ByteOf(m, k) = memory[x + k]
    <2> DEFINE j == k + (x % 4)
    <2>1. j \in 0 .. 3 /\ Aligned(x) + j = x + k
      BY <1>2, <1>4
    <2>2. ByteOf(m, k) = ByteOf(WordThere(x), j)
      BY <1>3, <1>4
    <2> HIDE DEF j
    <2>3. ByteOf(WordThere(x), j) = memory[Aligned(x) + j]
      BY <2>1, ThereBytes
    <2> QED BY <2>1, <2>2, <2>3
  <1>5. ASSUME NEW k \in 0 .. 3, k + (x % 4) > 3
        PROVE  ByteOf(m, k) = ByteOf(OutputValue, k)
    BY <1>1, <1>2, <1>3, <1>5
  <1> QED BY <1>3, <1>4, <1>5 DEF HasRight, m

(* What storing an aligned word leaves in memory. *)
LEMMA StoredBytes ==
    ASSUME Parameters, UnalignedTyped, NEW x \in ByteAddresses, NEW m \in FourBytes
    PROVE  /\ StoreWord(Aligned(x), m) \in [ByteAddresses -> Bytes]
           /\ \A j \in 0 .. 3 : StoreWord(Aligned(x), m)[Aligned(x) + j] = ByteOf(m, j)
           /\ \A a \in ByteAddresses :
                 a < Aligned(x) \/ a > Aligned(x) + 3
                   => StoreWord(Aligned(x), m)[a] = memory[a]
  <1> DEFINE b == Aligned(x)
  <1>1. b \in Nat /\ \A j \in 0 .. 3 : b + j \in ByteAddresses
    <2>1. b \in ByteAddresses
      BY AddressFacts
    <2> QED BY <2>1, AddressFacts DEF ByteAddresses, Parameters
  <1>2. ByteAddresses \subseteq Nat
    BY DEF ByteAddresses, Parameters
  <1>3. memory \in [ByteAddresses -> Bytes]
    BY DEF UnalignedTyped
  <1> HIDE DEF b
  <1>4. ASSUME NEW a \in ByteAddresses, a \in b .. b + 3 PROVE a - b \in 0 .. 3
    BY <1>1, <1>2, <1>4
  <1>5. StoreWord(b, m)
          = [a \in ByteAddresses |-> IF a \in b .. b + 3 THEN ByteOf(m, a - b) ELSE memory[a]]
    BY DEF StoreWord
  <1>6. StoreWord(b, m) \in [ByteAddresses -> Bytes]
    BY <1>3, <1>4, <1>5, WordIsBytes
  <1>7. ASSUME NEW j \in 0 .. 3 PROVE StoreWord(b, m)[b + j] = ByteOf(m, j)
    <2>1. b + j \in b .. b + 3 /\ (b + j) - b = j
      BY <1>1
    <2> QED BY <1>1, <1>5, <2>1
  <1>8. ASSUME NEW a \in ByteAddresses, a < b \/ a > b + 3 PROVE StoreWord(b, m)[a] = memory[a]
    <2>1. a \notin b .. b + 3
      BY <1>1, <1>2, <1>8
    <2> QED BY <1>5, <2>1
  <1> QED BY <1>6, <1>7, <1>8 DEF b

(* What SWL leaves in memory: its side of the register, and all else. *)
LEMMA StoreLeft ==
    ASSUME Parameters, UnalignedTyped, NEW x \in ByteAddresses,
           memory' = StoreWord(Aligned(x), MergeStoreLeft(WordThere(x), reg, x % 4))
    PROVE  /\ memory' \in [ByteAddresses -> Bytes]
           /\ HasLeft(memory', reg, x)
           /\ \A a \in ByteAddresses : a <= x - (x % 4) - 1 \/ a > x => memory'[a] = memory[a]
  <1> DEFINE m == MergeStoreLeft(WordThere(x), reg, x % 4)
  <1>1. reg \in FourBytes
    BY DEF UnalignedTyped
  <1>2. x % 4 \in 0 .. 3 /\ x \in Nat /\ Aligned(x) = x - (x % 4)
        /\ \A j \in 0 .. 3 : Aligned(x) + j \in ByteAddresses
    BY AddressFacts
  <1>3. m \in FourBytes /\ \A j \in 0 .. 3 : ByteOf(m, j) =
           IF j <= x % 4 THEN ByteOf(reg, j + 3 - (x % 4)) ELSE ByteOf(WordThere(x), j)
    BY <1>1, <1>2, ThereBytes, MergeStoreBytes
  <1> HIDE DEF m
  <1>4. /\ memory' \in [ByteAddresses -> Bytes]
        /\ \A j \in 0 .. 3 : memory'[Aligned(x) + j] = ByteOf(m, j)
        /\ \A a \in ByteAddresses :
              a < Aligned(x) \/ a > Aligned(x) + 3 => memory'[a] = memory[a]
    BY <1>3, StoredBytes DEF m
  <1>5. ASSUME NEW k \in 0 .. 3, k + (x % 4) >= 3
        PROVE  ByteOf(reg, k) = memory'[x + k - 3]
    <2> DEFINE j == k + (x % 4) - 3
    <2>1. j \in 0 .. 3 /\ Aligned(x) + j = x + k - 3 /\ j <= x % 4 /\ j + 3 - (x % 4) = k
      BY <1>2, <1>5
    <2> HIDE DEF j
    <2>2. ByteOf(m, j) = ByteOf(reg, k)
      BY <1>3, <2>1
    <2> QED BY <1>4, <2>1, <2>2
  <1>6. ASSUME NEW a \in ByteAddresses, a <= x - (x % 4) - 1 \/ a > x
        PROVE  memory'[a] = memory[a]
    <2>1. a \in Nat
      BY DEF ByteAddresses, Parameters
    <2>2. CASE a < Aligned(x) \/ a > Aligned(x) + 3
      BY <1>4, <2>2
    <2>3. CASE ~(a < Aligned(x) \/ a > Aligned(x) + 3)
      <3> DEFINE j == a - Aligned(x)
      <3>1. j \in 0 .. 3 /\ Aligned(x) + j = a /\ ~(j <= x % 4)
        BY <1>2, <1>6, <2>1, <2>3
      <3> HIDE DEF j
      <3>2. ByteOf(m, j) = ByteOf(WordThere(x), j)
        BY <1>3, <3>1
      <3>3. ByteOf(WordThere(x), j) = memory[Aligned(x) + j]
        BY <3>1, ThereBytes
      <3> QED BY <1>4, <3>1, <3>2, <3>3
    <2> QED BY <2>2, <2>3
  <1> QED BY <1>4, <1>5, <1>6 DEF HasLeft

(* What SWR leaves in memory. *)
LEMMA StoreRight ==
    ASSUME Parameters, UnalignedTyped, NEW x \in ByteAddresses,
           memory' = StoreWord(Aligned(x), MergeStoreRight(WordThere(x), reg, x % 4))
    PROVE  /\ memory' \in [ByteAddresses -> Bytes]
           /\ HasRight(memory', reg, x)
           /\ \A a \in ByteAddresses : a < x \/ a > x - (x % 4) + 3 => memory'[a] = memory[a]
  <1> DEFINE m == MergeStoreRight(WordThere(x), reg, x % 4)
  <1>1. reg \in FourBytes
    BY DEF UnalignedTyped
  <1>2. x % 4 \in 0 .. 3 /\ x \in Nat /\ Aligned(x) = x - (x % 4)
        /\ \A j \in 0 .. 3 : Aligned(x) + j \in ByteAddresses
    BY AddressFacts
  <1>3. m \in FourBytes /\ \A j \in 0 .. 3 : ByteOf(m, j) =
           IF j >= x % 4 THEN ByteOf(reg, j - (x % 4)) ELSE ByteOf(WordThere(x), j)
    BY <1>1, <1>2, ThereBytes, MergeStoreBytes
  <1> HIDE DEF m
  <1>4. /\ memory' \in [ByteAddresses -> Bytes]
        /\ \A j \in 0 .. 3 : memory'[Aligned(x) + j] = ByteOf(m, j)
        /\ \A a \in ByteAddresses :
              a < Aligned(x) \/ a > Aligned(x) + 3 => memory'[a] = memory[a]
    BY <1>3, StoredBytes DEF m
  <1>5. ASSUME NEW k \in 0 .. 3, k + (x % 4) <= 3
        PROVE  ByteOf(reg, k) = memory'[x + k]
    <2> DEFINE j == k + (x % 4)
    <2>1. j \in 0 .. 3 /\ Aligned(x) + j = x + k /\ j >= x % 4 /\ j - (x % 4) = k
      BY <1>2, <1>5
    <2> HIDE DEF j
    <2>2. ByteOf(m, j) = ByteOf(reg, k)
      BY <1>3, <2>1
    <2> QED BY <1>4, <2>1, <2>2
  <1>6. ASSUME NEW a \in ByteAddresses, a < x \/ a > x - (x % 4) + 3
        PROVE  memory'[a] = memory[a]
    <2>1. a \in Nat
      BY DEF ByteAddresses, Parameters
    <2>2. CASE a < Aligned(x) \/ a > Aligned(x) + 3
      BY <1>4, <2>2
    <2>3. CASE ~(a < Aligned(x) \/ a > Aligned(x) + 3)
      <3> DEFINE j == a - Aligned(x)
      <3>1. j \in 0 .. 3 /\ Aligned(x) + j = a /\ ~(j >= x % 4)
        BY <1>2, <1>6, <2>1, <2>3
      <3> HIDE DEF j
      <3>2. ByteOf(m, j) = ByteOf(WordThere(x), j)
        BY <1>3, <3>1
      <3>3. ByteOf(WordThere(x), j) = memory[Aligned(x) + j]
        BY <3>1, ThereBytes
      <3> QED BY <1>4, <3>1, <3>2, <3>3
    <2> QED BY <2>2, <2>3
  <1> QED BY <1>4, <1>5, <1>6 DEF HasRight

(* The two properties, with what makes them inductive. *)
UnalignedInv == UnalignedTyped /\ SidesKept /\ PairLoadsWord /\ PairStoresWord

(* What the history of a program allows after any instruction. *)
LEMMA InstructionStep ==
    ASSUME Parameters, UnalignedTyped, NEW op \in {"lwl", "lwr", "swl", "swr", "other", "mtc0"},
           NEW x \in ByteAddresses, Remember(<<op, x>>)
    PROVE  /\ recent' \in Seq(Instructions)
           /\ (AfterLoad(1)' <=> op \in UnalignedLoads)
           /\ (AfterLoad(2)' <=> AfterLoad(1))
           /\ (AfterLoad(3)' <=> AfterLoad(2))
           /\ \A o, y : LastWas(o, y)' <=> o = op /\ y = x
           /\ \A left, right : \A addr \in WordAddresses :
                 JustPaired(left, right, addr)' /\ left # right =>
                   \/ op = left /\ x = addr + 3 /\ LastWas(right, addr)
                   \/ op = right /\ x = addr /\ LastWas(left, addr + 3)
  <1>1. x \in Nat
    BY AddressFacts
  <1>2. <<op, x>> \in Instructions /\ recent \in Seq(Instructions)
    BY <1>1 DEF Instructions, UnalignedTyped
  <1>3. \A addr \in WordAddresses : addr \in Nat
    BY DEF WordAddresses, Parameters
  <1> QED BY <1>1, <1>2, <1>3, RememberedAre, PairIs

(* The bytes of a word that PairLoadsWord and PairStoresWord speak of. *)
LEMMA WordAddressesAre ==
    Parameters => \A addr \in WordAddresses :
        addr \in Nat /\ \A k \in 0 .. 3 : addr + k \in ByteAddresses
  BY DEF WordAddresses, ByteAddresses, Parameters

(* LWL leaves the bytes that LWR has put in flight just before. *)
LEMMA LwlStep ==
    ASSUME Parameters, UnalignedInv, NEW x \in ByteAddresses, op_lwl(x)
    PROVE  UnalignedInv'
  <1> DEFINE m == MergeLeft(MergedWith, WordThere(x), x % 4)
  <1>1. /\ m \in FourBytes /\ HasLeft(memory, m, x)
        /\ \A k \in 0 .. 3 : k + (x % 4) < 3 => ByteOf(m, k) = ByteOf(OutputValue, k)
    BY LoadLeft DEF UnalignedInv
  <1>2. /\ in_flight' = [pending |-> TRUE, value |-> m] /\ memory' = memory
        /\ out_reg' = OutputValue /\ reg' = OutputValue /\ Remember(<<"lwl", x>>)
        /\ isolated' = isolated
    BY DEF op_lwl, LoadPart
  <1> HIDE DEF m
  <1>3. /\ recent' \in Seq(Instructions) /\ AfterLoad(1)'
        /\ \A o, y : LastWas(o, y)' <=> o = "lwl" /\ y = x
        /\ \A left, right : \A addr \in WordAddresses :
              JustPaired(left, right, addr)' /\ left # right =>
                \/ "lwl" = left /\ x = addr + 3 /\ LastWas(right, addr)
                \/ "lwl" = right /\ x = addr /\ LastWas(left, addr + 3)
    BY <1>2, InstructionStep DEF UnalignedInv, UnalignedLoads
  <1>4. UnalignedTyped'
    BY <1>1, <1>2, <1>3, MergedType DEF UnalignedInv, UnalignedTyped
  <1>5. SidesKept'
    BY <1>1, <1>2, <1>3 DEF SidesKept
  <1>6. PairStoresWord'
    BY <1>3 DEF PairStoresWord
  <1>7. ASSUME NEW addr \in WordAddresses, JustPaired("lwl", "lwr", addr)'
        PROVE  OutputValue' = WordAt(memory, addr)'
    <2>1. x = addr + 3 /\ LastWas("lwr", addr)
      BY <1>3, <1>7
    <2>2. addr \in Nat /\ addr \in ByteAddresses
      <3>1. addr \in Nat /\ addr + 0 \in ByteAddresses
        BY WordAddressesAre
      <3> QED BY <3>1
    <2>3. HasRight(memory, in_flight.value, addr) /\ OutputValue = in_flight.value
      BY <2>1, <2>2, MergedType DEF UnalignedInv, SidesKept, AfterLoad, LastWas, UnalignedLoads
    <2>4. ASSUME NEW k \in 0 .. 3, k + (addr % 4) <= 3
          PROVE  ByteOf(m, k) = memory[addr + k]
      <3>1. x + k - 3 = addr + k /\ x % 4 \in 0 .. 3
        BY <2>1, <2>2
      <3>2. CASE k + (x % 4) >= 3
        BY <1>1, <3>1, <3>2 DEF HasLeft
      <3>3. CASE k + (x % 4) < 3
        BY <1>1, <2>3, <2>4, <3>3 DEF HasRight
      <3> QED BY <3>1, <3>2, <3>3
    <2>5. HasRight(memory, m, addr)
      BY <2>4 DEF HasRight
    <2>6. m = WordAt(memory, addr)
      BY <1>1, <2>1, <2>5, BothSides DEF UnalignedInv, UnalignedTyped
    <2> QED BY <1>2, <2>6 DEF OutputValue, WordAt
  <1> QED BY <1>4, <1>5, <1>6, <1>7 DEF UnalignedInv, PairLoadsWord

(* LWR leaves the bytes that LWL has put in flight just before. *)
LEMMA LwrStep ==
    ASSUME Parameters, UnalignedInv, NEW x \in ByteAddresses, op_lwr(x)
    PROVE  UnalignedInv'
  <1> DEFINE m == MergeRight(MergedWith, WordThere(x), x % 4)
  <1>1. /\ m \in FourBytes /\ HasRight(memory, m, x)
        /\ \A k \in 0 .. 3 : k + (x % 4) > 3 => ByteOf(m, k) = ByteOf(OutputValue, k)
    BY LoadRight DEF UnalignedInv
  <1>2. /\ in_flight' = [pending |-> TRUE, value |-> m] /\ memory' = memory
        /\ out_reg' = OutputValue /\ reg' = OutputValue /\ Remember(<<"lwr", x>>)
        /\ isolated' = isolated
    BY DEF op_lwr, LoadPart
  <1> HIDE DEF m
  <1>3. /\ recent' \in Seq(Instructions) /\ AfterLoad(1)'
        /\ \A o, y : LastWas(o, y)' <=> o = "lwr" /\ y = x
        /\ \A left, right : \A addr \in WordAddresses :
              JustPaired(left, right, addr)' /\ left # right =>
                \/ "lwr" = left /\ x = addr + 3 /\ LastWas(right, addr)
                \/ "lwr" = right /\ x = addr /\ LastWas(left, addr + 3)
    BY <1>2, InstructionStep DEF UnalignedInv, UnalignedLoads
  <1>4. UnalignedTyped'
    BY <1>1, <1>2, <1>3, MergedType DEF UnalignedInv, UnalignedTyped
  <1>5. SidesKept'
    BY <1>1, <1>2, <1>3 DEF SidesKept
  <1>6. PairStoresWord'
    BY <1>3 DEF PairStoresWord
  <1>7. ASSUME NEW addr \in WordAddresses, JustPaired("lwl", "lwr", addr)'
        PROVE  OutputValue' = WordAt(memory, addr)'
    <2>1. x = addr /\ LastWas("lwl", addr + 3)
      BY <1>3, <1>7
    <2>2. addr \in Nat /\ addr + 3 \in ByteAddresses
      BY WordAddressesAre
    <2>3. HasLeft(memory, in_flight.value, addr + 3) /\ OutputValue = in_flight.value
      BY <2>1, <2>2, MergedType DEF UnalignedInv, SidesKept, AfterLoad, LastWas, UnalignedLoads
    <2>4. ASSUME NEW k \in 0 .. 3, k + ((addr + 3) % 4) >= 3
          PROVE  ByteOf(m, k) = memory[(addr + 3) + k - 3]
      <3>1. (addr + 3) + k - 3 = x + k /\ x % 4 \in 0 .. 3
        BY <2>1, <2>2
      <3>2. CASE k + (x % 4) <= 3
        BY <1>1, <3>1, <3>2 DEF HasRight
      <3>3. CASE k + (x % 4) > 3
        BY <1>1, <2>3, <2>4, <3>3 DEF HasLeft
      <3> QED BY <3>1, <3>2, <3>3
    <2>5. HasLeft(memory, m, addr + 3)
      BY <2>4 DEF HasLeft
    <2>6. m = WordAt(memory, addr)
      BY <1>1, <2>1, <2>5, BothSides DEF UnalignedInv, UnalignedTyped
    <2> QED BY <1>2, <2>6 DEF OutputValue, WordAt
  <1> QED BY <1>4, <1>5, <1>6, <1>7 DEF UnalignedInv, PairLoadsWord

(* SWL leaves the bytes that SWR has stored just before, and those were of
   the same register value unless a load was in flight. *)
LEMMA SwlStep ==
    ASSUME Parameters, UnalignedInv, NEW x \in ByteAddresses, op_swl(x)
    PROVE  UnalignedInv'
  <1>1. isolated = FALSE =>
          memory' = StoreWord(Aligned(x), MergeStoreLeft(WordThere(x), reg, x % 4))
    BY DEF op_swl, StorePart, cpu_store
  <1>2. /\ in_flight' = NoneInFlight
        /\ out_reg' = OutputValue /\ reg' = OutputValue /\ Remember(<<"swl", x>>)
        /\ isolated' = isolated /\ isolated \in BOOLEAN /\ (isolated => memory' = memory)
    BY DEF op_swl, StorePart, cpu_store, UnalignedInv, UnalignedTyped
  <1>3. /\ memory' \in [ByteAddresses -> Bytes]
        /\ isolated = FALSE =>
              /\ HasLeft(memory', reg, x)
              /\ \A a \in ByteAddresses : a <= x - (x % 4) - 1 \/ a > x => memory'[a] = memory[a]
    <2>1. CASE isolated
      BY <1>2, <2>1 DEF UnalignedInv, UnalignedTyped
    <2>2. CASE isolated = FALSE
      BY <1>1, <2>2, StoreLeft DEF UnalignedInv
    <2> QED BY <1>2, <2>1, <2>2
  <1>4. /\ recent' \in Seq(Instructions) /\ ~AfterLoad(1)'
        /\ (AfterLoad(2)' <=> AfterLoad(1))
        /\ (AfterLoad(3)' <=> AfterLoad(2))
        /\ \A o, y : LastWas(o, y)' <=> o = "swl" /\ y = x
        /\ \A left, right : \A addr \in WordAddresses :
              JustPaired(left, right, addr)' /\ left # right =>
                \/ "swl" = left /\ x = addr + 3 /\ LastWas(right, addr)
                \/ "swl" = right /\ x = addr /\ LastWas(left, addr + 3)
    BY <1>2, InstructionStep DEF UnalignedInv, UnalignedLoads
  <1>5. 0 \in FourBytes
    BY PowersAre DEF FourBytes, FourBytesMod
  <1>6. UnalignedTyped'
    BY <1>2, <1>3, <1>4, <1>5, MergedType DEF UnalignedInv, UnalignedTyped, NoneInFlight
  <1>7. ~AfterLoad(1) => reg' = reg
    BY <1>2, MergedType DEF UnalignedInv, SidesKept
  <1>8. SidesKept'
    BY <1>2, <1>3, <1>4, <1>7 DEF SidesKept, NoneInFlight
  <1>9. PairLoadsWord'
    BY <1>4 DEF PairLoadsWord
  <1>10. ASSUME NEW addr \in WordAddresses, JustPaired("swl", "swr", addr)', ~AfterLoad(3)',
                isolated = FALSE
         PROVE  WordAt(memory, addr)' = reg'
    <2>0. /\ memory' \in [ByteAddresses -> Bytes] /\ HasLeft(memory', reg, x)
          /\ \A a \in ByteAddresses : a <= x - (x % 4) - 1 \/ a > x => memory'[a] = memory[a]
      BY <1>3, <1>10
    <2>1. x = addr + 3 /\ LastWas("swr", addr) /\ ~AfterLoad(2) /\ ~isolated
      BY <1>4, <1>10
    <2>2. addr \in Nat /\ addr \in ByteAddresses /\ \A k \in 0 .. 3 : addr + k \in ByteAddresses
      <3>1. addr \in Nat /\ \A k \in 0 .. 3 : addr + k \in ByteAddresses
        BY WordAddressesAre
      <3>2. addr + 0 = addr
        BY <3>1
      <3> QED BY <3>1, <3>2
    <2>3. HasRight(memory, reg, addr) /\ ~AfterLoad(1)
      BY <2>1, <2>2 DEF UnalignedInv, SidesKept, AfterLoad, LastWas, UnalignedLoads
    <2>4. ASSUME NEW k \in 0 .. 3, k + (addr % 4) <= 3
          PROVE  ByteOf(reg, k) = memory'[addr + k]
      <3>1. x + k - 3 = addr + k /\ x % 4 \in 0 .. 3 /\ addr + k \in ByteAddresses
        BY <2>1, <2>2
      <3>2. CASE k + (x % 4) >= 3
        BY <2>0, <3>1, <3>2 DEF HasLeft
      <3>3. CASE k + (x % 4) < 3
        <4>1. addr + k <= x - (x % 4) - 1
          BY <2>1, <2>2, <3>1, <3>3
        <4>2. memory'[addr + k] = memory[addr + k]
          BY <2>0, <3>1, <4>1
        <4> QED BY <2>3, <2>4, <4>2 DEF HasRight
      <3> QED BY <3>1, <3>2, <3>3
    <2>5. HasRight(memory', reg, addr) /\ HasLeft(memory', reg, addr + 3)
      BY <2>0, <2>1, <2>4 DEF HasRight
    <2>6. reg = WordAt(memory', addr)
      BY <2>0, <2>5, BothSides DEF UnalignedInv, UnalignedTyped
    <2> QED BY <1>7, <2>3, <2>6 DEF WordAt
  <1>11. PairStoresWord'
    <2>1. isolated' = TRUE \/ isolated = FALSE
      BY <1>2
    <2> QED BY <1>2, <1>10, <2>1 DEF PairStoresWord, AfterLoad, UnalignedLoads
  <1> QED BY <1>6, <1>8, <1>9, <1>11 DEF UnalignedInv

(* SWR leaves the bytes that SWL has stored just before. *)
LEMMA SwrStep ==
    ASSUME Parameters, UnalignedInv, NEW x \in ByteAddresses, op_swr(x)
    PROVE  UnalignedInv'
  <1>1. isolated = FALSE =>
          memory' = StoreWord(Aligned(x), MergeStoreRight(WordThere(x), reg, x % 4))
    BY DEF op_swr, StorePart, cpu_store
  <1>2. /\ in_flight' = NoneInFlight
        /\ out_reg' = OutputValue /\ reg' = OutputValue /\ Remember(<<"swr", x>>)
        /\ isolated' = isolated /\ isolated \in BOOLEAN /\ (isolated => memory' = memory)
    BY DEF op_swr, StorePart, cpu_store, UnalignedInv, UnalignedTyped
  <1>3. /\ memory' \in [ByteAddresses -> Bytes]
        /\ isolated = FALSE =>
              /\ HasRight(memory', reg, x)
              /\ \A a \in ByteAddresses : a < x \/ a > x - (x % 4) + 3 => memory'[a] = memory[a]
    <2>1. CASE isolated
      BY <1>2, <2>1 DEF UnalignedInv, UnalignedTyped
    <2>2. CASE isolated = FALSE
      BY <1>1, <2>2, StoreRight DEF UnalignedInv
    <2> QED BY <1>2, <2>1, <2>2
  <1>4. /\ recent' \in Seq(Instructions) /\ ~AfterLoad(1)'
        /\ (AfterLoad(2)' <=> AfterLoad(1))
        /\ (AfterLoad(3)' <=> AfterLoad(2))
        /\ \A o, y : LastWas(o, y)' <=> o = "swr" /\ y = x
        /\ \A left, right : \A addr \in WordAddresses :
              JustPaired(left, right, addr)' /\ left # right =>
                \/ "swr" = left /\ x = addr + 3 /\ LastWas(right, addr)
                \/ "swr" = right /\ x = addr /\ LastWas(left, addr + 3)
    BY <1>2, InstructionStep DEF UnalignedInv, UnalignedLoads
  <1>5. 0 \in FourBytes
    BY PowersAre DEF FourBytes, FourBytesMod
  <1>6. UnalignedTyped'
    BY <1>2, <1>3, <1>4, <1>5, MergedType DEF UnalignedInv, UnalignedTyped, NoneInFlight
  <1>7. ~AfterLoad(1) => reg' = reg
    BY <1>2, MergedType DEF UnalignedInv, SidesKept
  <1>8. SidesKept'
    BY <1>2, <1>3, <1>4, <1>7 DEF SidesKept, NoneInFlight
  <1>9. PairLoadsWord'
    BY <1>4 DEF PairLoadsWord
  <1>10. ASSUME NEW addr \in WordAddresses, JustPaired("swl", "swr", addr)', ~AfterLoad(3)',
                isolated = FALSE
         PROVE  WordAt(memory, addr)' = reg'
    <2>0. /\ memory' \in [ByteAddresses -> Bytes] /\ HasRight(memory', reg, x)
          /\ \A a \in ByteAddresses : a < x \/ a > x - (x % 4) + 3 => memory'[a] = memory[a]
      BY <1>3, <1>10
    <2>1. x = addr /\ LastWas("swl", addr + 3) /\ ~AfterLoad(2) /\ ~isolated
      BY <1>4, <1>10
    <2>2. addr \in Nat /\ addr + 3 \in ByteAddresses /\ \A k \in 0 .. 3 : addr + k \in ByteAddresses
      BY WordAddressesAre
    <2>3. HasLeft(memory, reg, addr + 3) /\ ~AfterLoad(1)
      BY <2>1, <2>2 DEF UnalignedInv, SidesKept, AfterLoad, LastWas, UnalignedLoads
    <2>4. ASSUME NEW k \in 0 .. 3, k + ((addr + 3) % 4) >= 3
          PROVE  ByteOf(reg, k) = memory'[(addr + 3) + k - 3]
      <3>1. (addr + 3) + k - 3 = x + k /\ x % 4 \in 0 .. 3 /\ x + k \in ByteAddresses
        BY <2>1, <2>2
      <3>2. CASE k + (x % 4) <= 3
        BY <2>0, <3>1, <3>2 DEF HasRight
      <3>3. CASE k + (x % 4) > 3
        <4>1. x + k > x - (x % 4) + 3
          <5>1. x \in Nat /\ k \in Nat /\ x % 4 \in Nat /\ k + (x % 4) > 3
            BY <2>1, <2>2, <3>1, <3>3
          <5> QED BY <5>1
        <4>2. memory'[x + k] = memory[x + k]
          BY <2>0, <3>1, <4>1
        <4> QED BY <2>3, <2>4, <3>1, <4>2 DEF HasLeft
      <3> QED BY <3>1, <3>2, <3>3
    <2>5. HasLeft(memory', reg, addr + 3) /\ HasRight(memory', reg, addr)
      BY <2>0, <2>1, <2>4 DEF HasLeft
    <2>6. reg = WordAt(memory', addr)
      BY <2>0, <2>5, BothSides DEF UnalignedInv, UnalignedTyped
    <2> QED BY <1>7, <2>3, <2>6 DEF WordAt
  <1>11. PairStoresWord'
    <2>1. isolated' = TRUE \/ isolated = FALSE
      BY <1>2
    <2> QED BY <1>2, <1>10, <2>1 DEF PairStoresWord, AfterLoad, UnalignedLoads
  <1> QED BY <1>6, <1>8, <1>9, <1>11 DEF UnalignedInv

(* Any other instruction ends a pair. *)
LEMMA OtherStep ==
    ASSUME Parameters, UnalignedInv, NEW v \in {OutputValue, InitialRegister}, Other(v)
    PROVE  UnalignedInv'
  <1>1. /\ in_flight' = NoneInFlight /\ memory' = memory
        /\ out_reg' = v /\ reg' = v /\ Remember(<<"other", 0>>)
        /\ isolated' = isolated
    BY DEF Other
  <1>2. 0 \in ByteAddresses /\ 0 \in FourBytes /\ v \in FourBytes
    <2>1. 0 \in ByteAddresses
      BY DEF Parameters, ByteAddresses
    <2>2. 0 \in FourBytes
      BY PowersAre DEF FourBytes, FourBytesMod
    <2>3. v \in FourBytes
      BY MergedType DEF Parameters, UnalignedInv
    <2> QED BY <2>1, <2>2, <2>3
  <1>3. /\ recent' \in Seq(Instructions) /\ ~AfterLoad(1)'
        /\ \A o, y : LastWas(o, y)' <=> o = "other" /\ y = 0
        /\ \A left, right : \A addr \in WordAddresses :
              JustPaired(left, right, addr)' /\ left # right => "other" \in {left, right}
    BY <1>1, <1>2, InstructionStep DEF UnalignedInv, UnalignedLoads
  <1>4. UnalignedTyped'
    BY <1>1, <1>2, <1>3 DEF UnalignedInv, UnalignedTyped, NoneInFlight
  <1>5. SidesKept'
    BY <1>1, <1>3 DEF SidesKept, NoneInFlight
  <1>6. PairLoadsWord' /\ PairStoresWord'
    BY <1>3 DEF PairLoadsWord, PairStoresWord
  <1> QED BY <1>4, <1>5, <1>6 DEF UnalignedInv

(* So does an instruction that isolates the cache or ends that. *)
LEMMA Mtc0Step ==
    ASSUME Parameters, UnalignedInv, NEW value \in BOOLEAN, op_mtc0(value)
    PROVE  UnalignedInv'
  <1>1. /\ in_flight' = NoneInFlight /\ memory' = memory
        /\ out_reg' = OutputValue /\ reg' = OutputValue /\ Remember(<<"mtc0", 0>>)
        /\ isolated' \in BOOLEAN
    BY DEF op_mtc0
  <1>2. 0 \in ByteAddresses /\ 0 \in FourBytes /\ OutputValue \in FourBytes
    <2>1. 0 \in ByteAddresses
      BY DEF Parameters, ByteAddresses
    <2>2. 0 \in FourBytes
      BY PowersAre DEF FourBytes, FourBytesMod
    <2>3. OutputValue \in FourBytes
      BY MergedType DEF UnalignedInv
    <2> QED BY <2>1, <2>2, <2>3
  <1>3. /\ recent' \in Seq(Instructions) /\ ~AfterLoad(1)'
        /\ \A o, y : LastWas(o, y)' <=> o = "mtc0" /\ y = 0
        /\ \A left, right : \A addr \in WordAddresses :
              JustPaired(left, right, addr)' /\ left # right => "mtc0" \in {left, right}
    BY <1>1, <1>2, InstructionStep DEF UnalignedInv, UnalignedLoads
  <1>4. UnalignedTyped'
    BY <1>1, <1>2, <1>3 DEF UnalignedInv, UnalignedTyped, NoneInFlight
  <1>5. SidesKept'
    BY <1>1, <1>3 DEF SidesKept, NoneInFlight
  <1>6. PairLoadsWord' /\ PairStoresWord'
    BY <1>3 DEF PairLoadsWord, PairStoresWord
  <1> QED BY <1>4, <1>5, <1>6 DEF UnalignedInv

(* Each side that the last instruction has moved stays until the next one,
   which makes the invariant inductive. *)
LEMMA UnalignedInvariance == Parameters /\ PairSpec => []UnalignedInv
  <1> SUFFICES ASSUME Parameters PROVE PairSpec => []UnalignedInv
    OBVIOUS
  <1>1. PairInit => UnalignedInv
    <2> SUFFICES ASSUME PairInit PROVE UnalignedInv
      OBVIOUS
    <2>1. recent = <<>> /\ Len(recent) = 0 /\ recent \in Seq(Instructions)
      BY DEF PairInit
    <2>2. 0 \in FourBytes
      BY PowersAre DEF FourBytes, FourBytesMod
    <2>3. UnalignedTyped
      BY <2>1, <2>2 DEF PairInit, UnalignedTyped, NoneInFlight, Parameters, ByteAddresses
    <2>4. SidesKept
      BY <2>1 DEF PairInit, SidesKept, AfterLoad, LastWas, NoneInFlight
    <2> QED BY <2>1, <2>3, <2>4 DEF UnalignedInv, PairLoadsWord, PairStoresWord, JustPaired
  <1>2. UnalignedInv /\ [PairNext]_pvars => UnalignedInv'
    <2> SUFFICES ASSUME UnalignedInv, [PairNext]_pvars PROVE UnalignedInv'
      OBVIOUS
    <2>1. CASE UNCHANGED pvars
      BY <2>1 DEF pvars, UnalignedInv, UnalignedTyped, SidesKept, AfterLoad, LastWas,
                  PairLoadsWord, PairStoresWord, JustPaired, OutputValue
    <2> QED BY <2>1, LwlStep, LwrStep, SwlStep, SwrStep, OtherStep, Mtc0Step DEF PairNext, Ended
  <1> QED BY <1>1, <1>2, PTL DEF PairSpec

(* LWL and LWR next to each other load the word at any address.            *)
THEOREM PairLoadsTheorem == PairSpec => []PairLoadsWord
  <1>1. UnalignedInv => PairLoadsWord
    BY DEF UnalignedInv
  <1> QED BY <1>1, UnalignedAssumption, UnalignedInvariance, PTL

(* SWL and SWR next to each other store the register at any address.       *)
THEOREM PairStoresTheorem == PairSpec => []PairStoresWord
  <1>1. UnalignedInv => PairStoresWord
    BY DEF UnalignedInv
  <1> QED BY <1>1, UnalignedAssumption, UnalignedInvariance, PTL

=============================================================================
