--------------------------- MODULE DitDah32Csr ---------------------------
(***************************************************************************)
(* The machine-mode CSRs of DitDah32 and the pure functions the core       *)
(* applies to them: the three mstatus updates (trap entry, MRET, software  *)
(* write), the interrupt mask and its priority, and the CSR updates of a   *)
(* trap.                                                                   *)
(*                                                                         *)
(* mstatus, mie and the interrupt pins are sets of bit names, so a bitwise *)
(* and, or, and-not of the code is \cap, \cup, \ here.  Instruction and    *)
(* data addresses count halfwords: bit 0 of a byte address, which the code *)
(* clears in pc, mepc and every jump target, is left out.                  *)
(***************************************************************************)
EXTENDS Naturals

CONSTANT AddrSpace   \* number of halfwords addressed; 2^31 in the code

ASSUME AddrSpaceAssumption == AddrSpace \in Nat \ {0} /\ AddrSpace % 2 = 0

Word == 0 .. AddrSpace - 1
\* Mutant: the carry out of bit 31 is kept.
PlusWide(a, b) == a + b
Plus(a, b) == (a + b) % AddrSpace

\* The aligned 32-bit word holding address a (its first halfword).
WordAddr(a) == a - (a % 2)

IrqSource == {"software", "timer", "external"}
MstatusBit == {"MIE", "MPIE", "MPP"}   \* MPP in the set: the field is 2'b11

\* mcause has its top bit set for an interrupt; the cause codes are small.
InterruptBit == 16

FetchAccessFault == 1
IllegalInstruction == 2
Breakpoint == 3
LoadMisaligned == 4
LoadAccessFault == 5
StoreMisaligned == 6
StoreAccessFault == 7
EcallM == 11

TrapMstatus(m) == {"MPP"} \cup {b \in {"MPIE"} : "MIE" \in m}
MretMstatus(m) == {"MPP", "MPIE"} \cup {b \in {"MIE"} : "MPIE" \in m}
WritableMstatus(v) == {"MPP"} \cup (v \cap {"MIE", "MPIE"})

(***************************************************************************)
(* Interrupts.  irq is the set of pins that are high; c the CSR record.    *)
(***************************************************************************)
IrqEnabled(c, irq) == c.mie \cap irq
IrqTrapPending(c, irq) == IrqEnabled(c, irq) # {} /\ "MIE" \in c.mstatus

\* Mutant: the software interrupt wins over the external one.
IrqCauseSoftwareFirst(enabled) ==
  InterruptBit + (IF "software" \in enabled THEN 3
                  ELSE IF "external" \in enabled THEN 11 ELSE 7)
IrqCause(enabled) ==
  InterruptBit + (IF "external" \in enabled THEN 11
                  ELSE IF "software" \in enabled THEN 3 ELSE 7)

(***************************************************************************)
(* What a trap writes.  mtval is a tagged pair: an address, or the bits of *)
(* an illegal instruction (its two halfwords).                             *)
(***************************************************************************)
AddrTval(a) == <<"addr", a>>
InsnTval(lo, hi) == <<"insn", <<lo, hi>> >>

TrapEntry(c, epc, cause, tval) ==
  [mstatus |-> TrapMstatus(c.mstatus), mie |-> c.mie, mtvec |-> c.mtvec,
   mscratch |-> c.mscratch, mepc |-> epc, mcause |-> cause, mtval |-> tval]

InterruptEntry(c, epc, irq) ==
  TrapEntry(c, epc, IrqCause(IrqEnabled(c, irq)), AddrTval(0))
==========================================================================
