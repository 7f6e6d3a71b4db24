------------------------------- MODULE RV32E -------------------------------
(***************************************************************************)
(* What software and the memory see of DitDah32: an RV32EC machine-mode    *)
(* hart that executes one instruction, takes one trap or leaves WFI in one *)
(* atomic step.  No cycle, bus handshake or intermediate register appears; *)
(* an access may be refused by the memory at any time.                     *)
(*                                                                         *)
(* An interrupt is taken exactly between two instructions, and exactly     *)
(* when a pin enabled in mie is high and mstatus.MIE is set after the      *)
(* first of them (doc/requirements.md, Interrupt and CSR Model).           *)
(***************************************************************************)
EXTENDS DitDah32Exec

CONSTANTS ResetVector, Pins

VARIABLES
  pc,        \* address of the next instruction
  gpr,       \* x0 .. x[RegCount-1]
  csr,       \* machine-mode CSRs
  sleeping,  \* WFI has been executed and nothing has woken the hart
  irq,       \* interrupt pins that are high
  imem,      \* instruction memory: parcel at every halfword address
  dmem       \* data memory: word at every aligned address

vars == <<pc, gpr, csr, sleeping, irq, imem, dmem>>

Init ==
  /\ pc = ResetVector
  /\ gpr = [r \in Reg |-> 0]
  /\ csr = ResetCsr
  /\ sleeping = FALSE
  /\ irq \in SUBSET Pins
  /\ imem \in [Word -> Halfword]
  /\ dmem = [a \in {w \in Word : w % 2 = 0} |-> 0]

\* The instruction the program counter points at, wherever it lies in a word.
InsnAtPc ==
  IF imem[pc] \in Compressed THEN [len |-> 1, lo |-> imem[pc], hi |-> ZeroHalf]
  ELSE [len |-> 2, lo |-> imem[pc], hi |-> imem[Plus(pc, 1)]]
InstrAtPc == DecodedInstr(InsnAtPc)

\* Pins may change at any time; the program does not.
PinsMove == irq' \in SUBSET Pins /\ UNCHANGED imem

Trap(cause, tval) ==
  /\ csr' = TrapEntry(csr, pc, cause, tval)
  /\ pc' = csr.mtvec
  /\ UNCHANGED <<gpr, sleeping, dmem>>

\* Go on at next with CSRs c, or take the interrupt that is due there.
Boundary(c, next, sleep) ==
  IF IrqTrapPending(c, irq)
  THEN csr' = InterruptEntry(c, next, irq) /\ pc' = c.mtvec /\ sleeping' = FALSE
  ELSE csr' = c /\ pc' = next /\ sleeping' = sleep

Retire(i, n) ==
  /\ ~ExecTrap(i, gpr)
  /\ gpr' = ExecGpr(i, n.len, pc, gpr)
  /\ Boundary(PostCommitCsr(csr, i), ExecNextPc(i, n.len, pc, gpr, csr.mepc),
              i.op = "wfi")
  /\ UNCHANGED dmem

\* Any instruction but a load or store that passes its checks.
Execute ==
  /\ ~sleeping
  /\ LET i == InstrAtPc IN
       \/ ExecTrap(i, gpr) /\ Trap(TrapCause(i, gpr), TrapValue(i, InsnAtPc, gpr))
       \/ ~MemOp(i) /\ Retire(i, InsnAtPc)
  /\ PinsMove

Load ==
  /\ ~sleeping
  /\ LET i == InstrAtPc IN
       /\ i.op = "load" /\ ~ExecTrap(i, gpr)
       /\ gpr' = WriteReg(gpr, i.rd, dmem[MemAddr(i, gpr)])
       /\ Boundary(csr, Plus(pc, InsnAtPc.len), FALSE)
       /\ UNCHANGED dmem
  /\ PinsMove

Store ==
  /\ ~sleeping
  /\ LET i == InstrAtPc IN
       /\ i.op = "store" /\ ~ExecTrap(i, gpr)
       /\ dmem' = [dmem EXCEPT ![MemAddr(i, gpr)] = ReadReg(gpr, i.rs2)]
       /\ Boundary(csr, Plus(pc, InsnAtPc.len), FALSE)
       /\ UNCHANGED gpr
  /\ PinsMove

\* The memory refuses the fetch, or the access of a load or store.
AccessFault ==
  /\ ~sleeping
  /\ LET i == InstrAtPc IN
       \/ Trap(FetchAccessFault, AddrTval(pc))
       \/ i.op = "load" /\ ~ExecTrap(i, gpr)
            /\ Trap(LoadAccessFault, AddrTval(MemAddr(i, gpr)))
       \/ i.op = "store" /\ ~ExecTrap(i, gpr)
            /\ Trap(StoreAccessFault, AddrTval(MemAddr(i, gpr)))
  /\ PinsMove

\* An enabled pin ends WFI, whether or not it may interrupt.
Wake ==
  /\ sleeping /\ IrqEnabled(csr, irq) # {}
  /\ Boundary(csr, pc, FALSE)
  /\ UNCHANGED <<gpr, dmem>>
  /\ PinsMove

Wait == PinsMove /\ UNCHANGED <<pc, gpr, csr, sleeping, dmem>>

Next == Execute \/ Load \/ Store \/ AccessFault \/ Wake \/ Wait
Spec == Init /\ [][Next]_vars
============================================================================
