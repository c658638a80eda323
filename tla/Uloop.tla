--------------------------------- MODULE Uloop ---------------------------------
(***************************************************************************)
(* The micro-code loop processor of uloop-example: uloop_state_machine     *)
(* walks over up to six nested loops and uloop_execute updates a register  *)
(* file with the micro-code of code.yml.  uloop_check.py runs it next to   *)
(* iterate_hl_loop (LoopNest) and compares their addresses; uloop_run.py   *)
(* prints them.  A step is one round of the loop these scripts share.      *)
(***************************************************************************)
EXTENDS LoopNest, Sequences

VARIABLES
  addr, loop, op, idx,  (* The state of the loop processor.                *)
  registers,
  printed,              (* The addresses uloop_print_idx showed last.      *)
  nb_iter,              (* The number of points shown so far.              *)
  err,                  (* The number of points that differ.               *)
  end

ulVars == <<addr, loop, op, idx, registers, printed, nb_iter, err, end>>
vars == <<nestVars, ulVars>>

NB_LOOPS == 6
ULOOP_LEN == 192
Register == 0 .. 25

-----------------------------------------------------------------------------
(* The micro-code and the registers.                                       *)

Mnemonic == [W |-> 0, x |-> 1, y |-> 2, x_major |-> 3, nif |-> 4, nof |-> 5,
             ow_X_nof |-> 6, w_X_nif |-> 7, TPin |-> 8, nif_X_fs2 |-> 9,
             TPout |-> 10, x_iter |-> 11, x_maj_iter |-> 12, zero |-> 14,
             TP2 |-> 15]

Add(a, b) == [op_sel |-> 1, a |-> Mnemonic[a], b |-> Mnemonic[b]]

(* Mutant: source and destination are swapped.                             *)
MvSwapped(a, b) == [op_sel |-> 0, a |-> Mnemonic[b], b |-> Mnemonic[a]]

Mv(a, b) == [op_sel |-> 0, a |-> Mnemonic[a], b |-> Mnemonic[b]]

(* The operations of all loops, one after the other, and their numbers.    *)
Code ==
  << Add("W", "TPin"), Add("x", "TPin"),                      (* loop 0     *)
     Add("W", "TPin"), Add("x", "TPin"),                      (* loop 1     *)
     Add("W", "TPin"), Add("x", "x_iter"),                    (* loop 2     *)
     Add("W", "TPin"), Add("y", "TPout"), Mv("x", "x_major"), (* loop 3     *)
     Mv("W", "zero"), Add("y", "TPout"),                      (* loop 4     *)
     Add("x_major", "nif"), Mv("x", "x_major"),
     Mv("W", "zero"), Add("y", "TPout"),                      (* loop 5     *)
     Add("x_major", "x_maj_iter"), Mv("x", "x_major") >>

NbOps == [l \in Loop |-> IF l < 3 THEN 2 ELSE IF l = 3 THEN 3 ELSE 4]

(* uloop_get_loops: the operations of a loop follow those of the loops     *)
(* within it.                                                              *)
UloopAddr[l \in Loop] == IF l = 0 THEN 0 ELSE UloopAddr[l - 1] + NbOps[l - 1]

InitialRegisters(s) ==
  [r \in Register |->
     IF r = Mnemonic.nif THEN s.nif
     ELSE IF r = Mnemonic.nof THEN s.nof
     ELSE IF r = Mnemonic.ow_X_nof THEN s.ow * s.nof
     ELSE IF r = Mnemonic.w_X_nif THEN (s.ow + s.fs - 1) * s.nif
     ELSE IF r = Mnemonic.TPin THEN TP
     ELSE IF r = Mnemonic.nif_X_fs2 THEN s.fs * s.fs * s.nif
     ELSE IF r = Mnemonic.TPout THEN TP
     ELSE IF r = Mnemonic.x_iter THEN TP + s.nif * (s.ow - 1)
     ELSE IF r = Mnemonic.x_maj_iter THEN s.nif * s.fs
     ELSE IF r = Mnemonic.TP2 THEN TP * TP
     ELSE 0]

Shown(regs) == [W |-> regs[Mnemonic.W], x |-> regs[Mnemonic.x],
                y |-> regs[Mnemonic.y]]

-----------------------------------------------------------------------------
(* uloop_bytecode: what the script loads into the hardware, most           *)
(* significant bit first.  hwpe_ctrl_uloop.sv reads it back through the    *)
(* packed types of hwpe_ctrl_package.sv.                                   *)

(* Mutant: the least significant bit first.                                *)
UintLsbFirst(v, n) == [i \in 1 .. n |-> (v \div 2 ^ (i - 1)) % 2]

Uint(v, n) == [i \in 1 .. n |-> (v \div 2 ^ (n - i)) % 2]

CodeBits[n \in 0 .. Len(Code)] ==
  IF n = 0 THEN <<>>
  ELSE Uint(Code[n].op_sel, 1) \o Uint(Code[n].a, 5) \o Uint(Code[n].b, 5)
         \o CodeBits[n - 1]

BytecodeCode ==
  [i \in 1 .. ULOOP_LEN - Len(CodeBits[Len(Code)]) |-> 0] \o CodeBits[Len(Code)]

BytecodeLoops[n \in 0 .. NB_LOOPS] ==
  IF n = 0 THEN <<>>
  ELSE Uint(UloopAddr[n - 1], 5) \o Uint(NbOps[n - 1], 3) \o BytecodeLoops[n - 1]

(* The n bits of a packed value that start at bit first, counted from the  *)
(* least significant one; the bits beyond its end are 0.                   *)
Field(bits, first, n) ==
  LET Bit(i) == IF i < Len(bits) THEN bits[Len(bits) - i] ELSE 0
      Value[i \in 0 .. n] == IF i = 0 THEN 0
                             ELSE Value[i - 1] + Bit(first + i - 1) * 2 ^ (i - 1)
  IN Value[n]

(* uloop_bytecode_t: op_sel, a and b of 1, 5 and 5 bits.                   *)
RtlCode(n) ==
  [op_sel |-> Field(BytecodeCode, 11 * n + 10, 1),
   a |-> Field(BytecodeCode, 11 * n + 5, 5),
   b |-> Field(BytecodeCode, 11 * n, 5)]

(* uloop_loops_t: uloop_addr of 5 bits and nb_ops of 4.                    *)
RtlLoop(l) ==
  [uloop_addr |-> Field(BytecodeLoops[NB_LOOPS], 9 * l + 4, 5),
   nb_ops |-> Field(BytecodeLoops[NB_LOOPS], 9 * l, 4)]

-----------------------------------------------------------------------------
(* One round: uloop_execute, uloop_state_machine, and the comparison.      *)

Execute(regs) ==
  LET c == Code[addr + 1]
  IN [regs EXCEPT ![c.a] = IF c.op_sel = 1 THEN regs[c.a] + regs[c.b]
                           ELSE regs[c.b]]

(* Mutant: a loop runs once too often.                                     *)
MoreToDoLate == idx[loop] < Times(shape)[loop]

MoreToDo == idx[loop] < Times(shape)[loop] - 1

(* Mutant: one operation too many.                                         *)
LastOpLate == op >= NbOps[loop]

LastOp == op >= NbOps[loop] - 1

(* busy: nothing is shown and iterate_hl_loop is not advanced.             *)
Busy == UNCHANGED <<nestVars, printed, nb_iter, err, end>>

(* not busy: the next point.                                               *)
Show ==
  /\ NestNext
  /\ printed' = Shown(registers')
  /\ nb_iter' = nb_iter + 1
  /\ err' = IF addresses' # Shown(registers') THEN err + 1 ELSE err

Update ==
  /\ MoreToDo /\ ~LastOp
  /\ addr' = addr + 1
  /\ op' = op + 1
  /\ registers' = Execute(registers)
  /\ UNCHANGED <<loop, idx>>
  /\ Busy

(* Mutant: the inner loops do not start over.                              *)
IterateAndGotoLoop0NoReset ==
  /\ MoreToDo /\ LastOp /\ loop > 0
  /\ loop' = 0
  /\ idx' = [idx EXCEPT ![loop] = @ + 1]
  /\ addr' = UloopAddr[0]
  /\ op' = 0
  /\ registers' = Execute(registers)
  /\ UNCHANGED end
  /\ Show

IterateAndGotoLoop0 ==
  /\ MoreToDo /\ LastOp /\ loop > 0
  /\ loop' = 0
  /\ idx' = [l \in Loop |-> IF l < loop THEN 0
                            ELSE IF l = loop THEN idx[l] + 1 ELSE idx[l]]
  /\ addr' = UloopAddr[0]
  /\ op' = 0
  /\ registers' = Execute(registers)
  /\ UNCHANGED end
  /\ Show

IterateLoop0 ==
  /\ MoreToDo /\ LastOp /\ loop = 0
  /\ addr' = UloopAddr[loop]
  /\ op' = 0
  /\ idx' = [idx EXCEPT ![loop] = @ + 1]
  /\ registers' = Execute(registers)
  /\ UNCHANGED <<loop, end>>
  /\ Show

(* Mutant: the address moves on, the loop does not.                        *)
GotoNextLoopStays ==
  /\ ~MoreToDo /\ loop < NB_LOOPS - 1
  /\ addr' = UloopAddr[loop + 1]
  /\ op' = 0
  /\ UNCHANGED <<loop, idx, registers>>
  /\ Busy

GotoNextLoop ==
  /\ ~MoreToDo /\ loop < NB_LOOPS - 1
  /\ loop' = loop + 1
  /\ addr' = UloopAddr[loop + 1]
  /\ op' = 0
  /\ UNCHANGED <<idx, registers>>
  /\ Busy

Terminate ==
  /\ ~MoreToDo /\ loop = NB_LOOPS - 1
  /\ end' = TRUE
  /\ loop' = 0 /\ addr' = 0 /\ op' = 0
  /\ idx' = [l \in Loop |-> 0]
  /\ UNCHANGED registers
  /\ Show

Init ==
  /\ NestInit
  /\ addr = 0 /\ loop = 0 /\ op = 0
  /\ idx = [l \in Loop |-> 0]
  /\ registers = InitialRegisters(shape)
  /\ printed = Shown(registers)
  /\ nb_iter = 0
  /\ err = 0
  /\ end = FALSE

Next ==
  /\ ~end
  /\ \/ Update
     \/ IterateAndGotoLoop0
     \/ IterateLoop0
     \/ GotoNextLoop
     \/ Terminate

Spec == Init /\ [][Next]_vars /\ WF_vars(Next)

-----------------------------------------------------------------------------
(* Properties.                                                             *)

(* Every variable has its type; in particular the program counter stays    *)
(* within the operations of the current loop, which are within the         *)
(* micro-code.                                                             *)
TypeOK ==
  /\ NestTypeOK
  /\ loop \in Loop
  /\ op \in 0 .. NbOps[loop] - 1
  /\ addr = UloopAddr[loop] + op
  /\ idx \in [Loop -> Nat]
  /\ registers \in [Register -> Nat]
  /\ printed \in [W : Nat, x : Nat, y : Nat]
  /\ nb_iter \in Nat
  /\ err \in Nat
  /\ end \in BOOLEAN

(* uloop_check reports no error: at every point the registers, updated by  *)
(* additions alone, are the addresses of the loop nest.                    *)
NoErrors == err = 0

(* uloop_run shows every point of the nest after the first once, and the   *)
(* last one a second time on termination.                                  *)
EveryPointShown ==
  end => nb_iter = Times(shape)[0] * Times(shape)[1] * Times(shape)[2]
                     * Times(shape)[3] * Times(shape)[4] * Times(shape)[5]

(* The loop processor by itself is a loop nest: its own indices run        *)
(* through the points in order, and what it shows is what the nest yields. *)
OwnPoint == IF end THEN [l \in Loop |-> Times(shape)[l] - 1] ELSE idx
Nest == INSTANCE LoopNest WITH point <- OwnPoint, addresses <- printed,
                               exhausted <- end
ImplementsNest == Nest!NestSpec

(* The loops end: the processor is never caught in one of them.            *)
Terminates == <>end

(* The operation that the hardware reads from the bytecode at the program  *)
(* counter is the one that the script executes.                            *)
CodeDecodes == RtlCode(addr) = Code[addr + 1]

(* The loop that the hardware reads from the bytecode has the address and  *)
(* the number of operations that the script walks over.                    *)
LoopsDecode ==
  RtlLoop(loop) = [uloop_addr |-> UloopAddr[loop], nb_ops |-> NbOps[loop]]

=============================================================================
