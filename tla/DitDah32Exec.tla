--------------------------- MODULE DitDah32Exec ---------------------------
(***************************************************************************)
(* The EX stage as pure functions of a decoded instruction: trap           *)
(* detection with its cause and value, the destination value, the next pc  *)
(* and the CSRs after commit.                                              *)
(*                                                                         *)
(* An instruction is a record; which bits encode it is left to the         *)
(* constants DecodeC (a 16-bit instruction) and Decode32 (the two          *)
(* halfwords of a 32-bit one), so every result here holds for every        *)
(* encoding.  Loads and stores are word accesses, CSR instructions have    *)
(* the immediate form and destination x0; the ALU operations keep the two  *)
(* additions and the two upper-immediate forms.                            *)
(***************************************************************************)
EXTENDS DitDah32Csr

CONSTANTS
  RegCount,     \* registers x0 .. x[RegCount-1]; 16 in the code
  Halfword,     \* the values of a 16-bit parcel
  Compressed,   \* the parcels whose low two bits are not 2'b11
  ZeroHalf,     \* the all-zero parcel
  DecodeC,      \* a compressed parcel -> decoded instruction
  Decode32      \* <<low parcel, high parcel>> -> decoded instruction

CsrName == {"mstatus", "mie", "mtvec", "mscratch", "mepc", "mcause", "mtval",
            "mip", "misa", "unimplemented"}
CsrReadOnly == {"mip", "misa"}

Op == {"illegal", "lui", "auipc", "jal", "jalr", "branch", "load", "store",
       "alui", "alur", "fence", "ecall", "ebreak", "wfi", "mret", "csr"}

Reg == 0 .. RegCount - 1
RegField == 0 .. 2 * RegCount - 1   \* a 5-bit field: bit 4 names x16 .. x31

\* mstatus and mie are written, set or cleared with bits; the CSRs holding
\* numbers are written whole with imm.
InstrFields ==
  [op : Op, rd : RegField, rs1 : RegField, rs2 : RegField, imm : Word,
   csr : CsrName, csrop : {"rw", "rs", "rc"},
   bits : SUBSET (MstatusBit \cup IrqSource)]
Instr ==
  {i \in InstrFields :
     i.op = "csr" => /\ i.rd = 0
                     /\ i.csr \notin {"mstatus", "mie"} => i.csrop = "rw" \/ i.rs1 = 0}

ASSUME RegCountAssumption == RegCount \in Nat \ {0}
ASSUME ParcelAssumption == Compressed \subseteq Halfword /\ ZeroHalf \in Compressed
ASSUME DecodeAssumption ==
  /\ DecodeC \in [Compressed -> Instr]
  /\ Decode32 \in [Halfword \X Halfword -> Instr]

\* The instruction bits handed to EX: a compressed parcel is zero extended.
Insn == [len : {1, 2}, lo : Halfword, hi : Halfword]
DecodedInstr(n) == IF n.len = 1 THEN DecodeC[n.lo] ELSE Decode32[<<n.lo, n.hi>>]

Value == {"addr"} \X Word \cup {"insn"} \X (Halfword \X Halfword)
CsrState ==
  [mstatus : SUBSET MstatusBit, mie : SUBSET IrqSource, mtvec : Word,
   mscratch : Word, mepc : Word, mcause : Nat, mtval : Value]
ResetCsr ==
  [mstatus |-> {}, mie |-> {}, mtvec |-> 0, mscratch |-> 0, mepc |-> 0,
   mcause |-> 0, mtval |-> AddrTval(0)]

\* x0 and an index past the file read zero, and writing them is ignored.
ReadReg(gpr, r) == IF r \in Reg \ {0} THEN gpr[r] ELSE 0
WriteReg(gpr, r, v) == IF r \in Reg \ {0} THEN [gpr EXCEPT ![r] = v] ELSE gpr

(***************************************************************************)
(* Traps                                                                   *)
(***************************************************************************)
CsrWriteEnable(i) == i.op = "csr" /\ (i.csrop = "rw" \/ i.rs1 # 0)
CsrIllegal(i) ==
  i.op = "csr" /\ \/ i.csr = "unimplemented"
                  \/ CsrWriteEnable(i) /\ i.csr \in CsrReadOnly

ExecUsesRd(i) ==
  i.op \in {"lui", "auipc", "jal", "jalr", "load", "alui", "alur", "csr"}
ExecUsesRs1(i) == i.op \in {"jalr", "branch", "load", "store", "alui", "alur"}
ExecUsesRs2(i) == i.op \in {"branch", "store", "alur"}
RegAccessIllegal(i) == \/ ExecUsesRd(i) /\ i.rd \notin Reg
                       \/ ExecUsesRs1(i) /\ i.rs1 \notin Reg
                       \/ ExecUsesRs2(i) /\ i.rs2 \notin Reg

MemAddr(i, gpr) == Plus(ReadReg(gpr, i.rs1), i.imm)
MemOp(i) == i.op \in {"load", "store"}
Misaligned(i, gpr) == MemOp(i) /\ MemAddr(i, gpr) % 2 # 0

ExecTrap(i, gpr) == \/ i.op \in {"illegal", "ecall", "ebreak"}
                    \/ CsrIllegal(i)
                    \/ RegAccessIllegal(i)
                    \/ Misaligned(i, gpr)

TrapCause(i, gpr) ==
  CASE i.op = "ebreak" -> Breakpoint
    [] i.op = "ecall" -> EcallM
    [] Misaligned(i, gpr) -> IF i.op = "load" THEN LoadMisaligned ELSE StoreMisaligned
    [] OTHER -> IllegalInstruction

TrapValue(i, n, gpr) ==
  IF Misaligned(i, gpr) THEN AddrTval(MemAddr(i, gpr))
  ELSE IF i.op = "illegal" \/ CsrIllegal(i) THEN InsnTval(n.lo, n.hi)
  ELSE AddrTval(0)

(***************************************************************************)
(* Results                                                                 *)
(***************************************************************************)
ExecNextPc(i, len, pc, gpr, mepc) ==
  CASE i.op = "branch" /\ ReadReg(gpr, i.rs1) # ReadReg(gpr, i.rs2) -> Plus(pc, i.imm)
    [] i.op = "jal" -> Plus(pc, i.imm)
    [] i.op = "jalr" -> Plus(ReadReg(gpr, i.rs1), i.imm)
    [] i.op = "mret" -> mepc
    [] OTHER -> Plus(pc, len)

ExecWdata(i, len, pc, gpr) ==
  CASE i.op = "lui" -> i.imm
    [] i.op = "auipc" -> Plus(pc, i.imm)
    [] i.op \in {"jal", "jalr"} -> Plus(pc, len)
    [] i.op = "alui" -> Plus(ReadReg(gpr, i.rs1), i.imm)
    [] i.op = "alur" -> Plus(ReadReg(gpr, i.rs1), ReadReg(gpr, i.rs2))
    [] OTHER -> 0

\* The register file after an instruction that neither traps nor waits for memory.
ExecGpr(i, len, pc, gpr) ==
  IF ExecUsesRd(i) THEN WriteReg(gpr, i.rd, ExecWdata(i, len, pc, gpr)) ELSE gpr

CsrOperate(i, old) == CASE i.csrop = "rw" -> i.bits
                        [] i.csrop = "rs" -> old \cup i.bits
                        [] i.csrop = "rc" -> old \ i.bits

WriteCsr(c, i) ==
  CASE i.csr = "mstatus" ->
         [c EXCEPT !.mstatus = WritableMstatus(CsrOperate(i, c.mstatus))]
    [] i.csr = "mie" -> [c EXCEPT !.mie = CsrOperate(i, c.mie) \cap IrqSource]
    [] i.csr = "mtvec" -> [c EXCEPT !.mtvec = WordAddr(i.imm)]
    [] i.csr = "mscratch" -> [c EXCEPT !.mscratch = i.imm]
    [] i.csr = "mepc" -> [c EXCEPT !.mepc = i.imm]
    [] i.csr = "mcause" -> [c EXCEPT !.mcause = i.imm]
    [] i.csr = "mtval" -> [c EXCEPT !.mtval = AddrTval(i.imm)]
    [] OTHER -> c

\* The CSRs after an instruction that does not trap (postCommitMstatus, postCommitMie).
PostCommitCsr(c, i) ==
  CASE CsrWriteEnable(i) -> WriteCsr(c, i)
    [] i.op = "mret" -> [c EXCEPT !.mstatus = MretMstatus(c.mstatus)]
    [] OTHER -> c
==========================================================================
