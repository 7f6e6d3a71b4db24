----------------------------- MODULE TraceCompare -----------------------------
(***************************************************************************)
(* The lock step of the Python reference model and the RTL: the comparison *)
(* test of test_ditdah32.py runs the model over a program first, then the  *)
(* core, and compares the two traces item by item.  Here both execute the  *)
(* same instruction in every step, until the model halts or sleeps.        *)
(***************************************************************************)
EXTENDS EncodeTrip

CONSTANT
  Suites     \* of each suite: the architectural states a program starts in, the
             \* instructions it can contain, and a bound on its length

VARIABLES
  suite,     \* the suite that runs
  model,     \* the state of RV32ECModel
  rtl,       \* the state of the core
  expected,  \* the model's last trace item
  actual,    \* the RTL's last trace item, its address the one on the AXI port
  steps

compareVars == <<suite, model, rtl, expected, actual, steps>>

NoItem == [pc |-> 0, insn |-> Parcel(1), rd |-> None, wdata |-> None, addr |-> None, rdata |-> None,
           store |-> None, trap |-> FALSE, cause |-> "none"]

CompareInit ==
  /\ suite \in DOMAIN Suites
  /\ model \in Suites[suite].starts
  /\ rtl = model
  /\ expected = NoItem
  /\ actual = NoItem
  /\ steps = 0

\* RV32ECModel.run stops at a trap or a WFI; the test waits for the core as many items.
CanStep == steps < Suites[suite].length /\ \A s \in {model, rtl} : ~s.halted /\ ~s.sleeping

Execute(insn) ==
  LET m == M!Outcome(model, insn)
      r == R!Outcome(rtl, insn)
  IN  /\ model' = M!After(model, m)
      /\ rtl' = M!After(rtl, r)
      /\ expected' = M!TraceItem(model, insn, m)
      /\ actual' = M!TraceItem(rtl, insn, r)
      /\ steps' = steps + 1
      /\ UNCHANGED suite

CompareNext == suite \in DOMAIN Suites /\ CanStep /\ \E insn \in Suites[suite].program : Execute(insn)
-----------------------------------------------------------------------------
StateOK(s) ==
  /\ s.pc \in 0 .. 2^XLEN - 1
  /\ s.regs \in [1 .. 15 -> 0 .. 2^XLEN - 1]
  /\ \A a \in DOMAIN s.mem : s.mem[a] \in 0 .. 2^ByteBits - 1
  /\ s.csrs \in [Writable -> 0 .. 2^XLEN - 1]
StatesOK == \A s \in {model, rtl} : StateOK(s)

\* A state a program can start in: the CSRs are as their writes leave them.
StartOK(s) ==
  /\ StateOK(s) /\ s.pc % 2 = 0
  /\ s.csrs[Mepc] % 2 = 0 /\ s.csrs[Mtvec] % 4 = 0 /\ (s.csrs[Mie] & IrqBits) = s.csrs[Mie]

\* The instructions of 32 bits by their fields, and the parcels of 16.
InsnFields ==
  [len : {4}, opcode : 0 .. 127, rd : 0 .. 31, funct3 : 0 .. 7, rs1 : 0 .. 31, rs2 : 0 .. 31,
   funct7 : 0 .. 127]
IsParcel(insn) == insn.parcel \in Int /\ insn.parcel % 4 # 3 /\ insn = Parcel(insn.parcel)

\* The CSR instructions on which the two may differ.  They keep different values in
\* mstatus.MPP, and a set or a clear of a read-only CSR by a register of zero is a read to
\* the model and an illegal instruction to the core.
CsrAddr(f) == f.funct7 * 2^5 + f.rs2
ReadsMpp(f) == CsrAddr(f) = Mstatus /\ f.rd # 0
SetsReadOnly(f) == CsrAddr(f) \in ReadOnly /\ f.funct3 \in {2, 3} /\ f.rs1 \in 1 .. 15

\* A suite has none of them, or tries them in its starting states only, with a register
\* that is not zero.
SuiteOK(x) ==
  /\ x.length \in Nat
  /\ \A s \in x.starts : StartOK(s)
  /\ \A insn \in x.program :
       IF insn.len = 2 THEN IsParcel(insn)
       ELSE /\ insn \in InsnFields
            /\ insn.opcode = 115 /\ ReadsMpp(insn) => x.length <= 1
            /\ insn.opcode = 115 /\ SetsReadOnly(insn) =>
                 x.length <= 1 /\ \A s \in x.starts : M!ReadReg(s, insn.rs1) # 0

Retired == ~expected.trap /\ ~actual.trap

\* rtl_trace_schema: the memory fields are copied from the expected item.
Schema(item, exp) == [item EXCEPT !.addr = exp.addr, !.rdata = exp.rdata, !.store = exp.store]

\* Causes that are an illegal instruction: a register of the upper half and an extension
\* the core does not have are cases of it.
Illegal == {"illegal_instruction", "rv32e_register", "unsupported_extension"}

\* The bits of mstatus both sides store; they differ in MPP.
Interrupts(s) == <<Bit(s.csrs[Mstatus], 3), Bit(s.csrs[Mstatus], 7)>>

\* After every instruction that neither side traps on, the registers, the program counter,
\* memory and the CSRs of the model are those of the core, and the core has accessed the word
\* that holds the model's address or none: no immediate, sign, shift amount, byte lane or
\* legalization differs.
StateAgrees ==
  Retired => /\ actual.addr = IF expected.addr = None THEN None ELSE AlignDown(expected.addr, 4)
             /\ model.pc = rtl.pc
             /\ model.regs = rtl.regs
             /\ \A a \in DOMAIN model.mem \cup DOMAIN rtl.mem : ByteAt(model.mem, a) = ByteAt(rtl.mem, a)
             /\ \A a \in Writable \ {Mstatus} : model.csrs[a] = rtl.csrs[a]
             /\ Interrupts(model) = Interrupts(rtl)
             /\ model.sleeping = rtl.sleeping

\* The two trap on the same instructions, with the same cause up to which illegal
\* instruction it is.  The core prefers a misaligned address to an upper register.
TrapsAgree ==
  /\ expected.trap = actual.trap
  /\ expected.trap =>
       \/ expected.cause = actual.cause
       \/ expected.cause \in Illegal /\ actual.cause \in Illegal
       \/ expected.cause = "rv32e_register" /\ actual.cause \in {"load_misaligned", "store_misaligned"}
=============================================================================
