----------------------------- MODULE Rv32ecModel -----------------------------
(***************************************************************************)
(* scripts/rv32ec_model.py: the Python reference model, as the function    *)
(* from an architectural state and an instruction to what the instruction  *)
(* does.  A trap is an exception of the code: what was written before it   *)
(* is raised stays written.                                                *)
(***************************************************************************)
EXTENDS Rv32Word

Raise(s, cause) == [Nothing(s, s.pc) EXCEPT !.cause = cause]

\* Mutant: x16 is accepted.
LegalUpTo16(regs) == \A r \in regs : r <= 16

Legal(regs) == \A r \in regs : r <= 15
ReadReg(s, r) == IF r \in 1 .. 15 THEN s.regs[r] ELSE 0

WriteReg(s, o, r, v) ==
  IF o.cause # "none" \/ r = 0 THEN o
  ELSE IF r > 15 THEN [o EXCEPT !.cause = "rv32e_register", !.pc = s.pc]
  ELSE [o EXCEPT !.rd = r, !.wdata = Word(v)]

ReadCsr(s, a) == IF a = Misa THEN MisaValue ELSE IF a \in ReadOnly THEN 0 ELSE s.csrs[a]

CsrMask(a, v) ==
  CASE a = Mstatus -> v & (MIE + MPIE + MPP)
    [] a = Mie -> v & IrqBits
    [] a = Mtvec -> AlignDown(v, 4)
    [] a = Mepc -> AlignDown(v, 2)
    [] OTHER -> v

WriteCsr(s, o, a, v) ==
  IF a \in Writable THEN [o EXCEPT !.csrs[a] = CsrMask(a, Word(v))]
  ELSE Raise(s, "illegal_instruction")

LoadData(s, o, rd, addr, size, signed) ==
  IF addr % size # 0 THEN Raise(s, "load_misaligned")
  ELSE LET raw == BytesAt(s.mem, addr, size)
           v == Word(IF signed THEN Sext(raw, size * ByteBits) ELSE raw)
       IN  WriteReg(s, [o EXCEPT !.addr = addr, !.rdata = v], rd, v)

StoreData(s, o, addr, size, v) ==
  IF addr % size # 0 THEN Raise(s, "store_misaligned")
  ELSE [o EXCEPT !.addr = addr, !.store = v % 2^(size * ByteBits),
                 !.mem = WithBytes(s.mem, [a \in addr .. addr + size - 1 |->
                           Bits(v, ByteBits * (a - addr + 1) - 1, ByteBits * (a - addr))])]
-----------------------------------------------------------------------------
\* The immediates of a compressed parcel.
CImm6(p) == Sext(Bit(p, 12) * 2^5 + Bits(p, 6, 2), 6)

CAddi4spnImm(p) ==
  Bits(p, 12, 11) * 2^4 + Bits(p, 10, 7) * 2^6 + Bit(p, 6) * 2^2 + Bit(p, 5) * 2^3

CLwImm(p) == Bit(p, 5) * 2^6 + Bits(p, 12, 10) * 2^3 + Bit(p, 6) * 2^2

CLwspImm(p) == Bits(p, 3, 2) * 2^6 + Bit(p, 12) * 2^5 + Bits(p, 6, 4) * 2^2

CSwspImm(p) == Bits(p, 8, 7) * 2^6 + Bits(p, 12, 9) * 2^2

CAddi16spImm(p) ==
  Sext(Bit(p, 12) * 2^9 + Bits(p, 4, 3) * 2^7 + Bit(p, 5) * 2^6 + Bit(p, 2) * 2^5 + Bit(p, 6) * 2^4, 10)

CBranchImm(p) ==
  Sext(Bit(p, 12) * 2^8 + Bits(p, 6, 5) * 2^6 + Bits(p, 11, 10) * 2^3 + Bits(p, 4, 3) * 2
         + Bit(p, 2) * 2^5, 9)

CJumpImm(p) ==
  Sext(Bit(p, 12) * 2^11 + Bit(p, 11) * 2^4 + Bits(p, 10, 9) * 2^8 + Bit(p, 8) * 2^10
         + Bit(p, 7) * 2^6 + Bit(p, 6) * 2^7 + Bits(p, 5, 3) * 2 + Bit(p, 2) * 2^5, 12)

Funct3C(p) == Bits(p, 15, 13)
RdRs1(p) == Bits(p, 11, 7)
Rs2C(p) == Bits(p, 6, 2)
RdPrime(p) == 8 + Bits(p, 4, 2)
Rs1Prime(p) == 8 + Bits(p, 9, 7)

Unsupported(s) == Raise(s, "unsupported_extension")
Illegal(s) == Raise(s, "illegal_instruction")
HighRegister(s) == Raise(s, "rv32e_register")
SequentialC(s) == Nothing(s, s.pc + 2)

CompressedQ0(s, p) ==
  LET base == Word(ReadReg(s, Rs1Prime(p)) + CLwImm(p))
  IN  CASE Funct3C(p) = 0 ->
             IF CAddi4spnImm(p) = 0 THEN Illegal(s)
             ELSE WriteReg(s, SequentialC(s), RdPrime(p), ReadReg(s, 2) + CAddi4spnImm(p))
        [] Funct3C(p) = 2 -> LoadData(s, SequentialC(s), RdPrime(p), base, 4, TRUE)
        [] Funct3C(p) = 6 -> StoreData(s, SequentialC(s), base, 4, ReadReg(s, RdPrime(p)))
        [] Funct3C(p) = 4 -> Illegal(s)
        [] OTHER -> Unsupported(s)

\* C.LUI and C.ADDI16SP.
CompressedLui(s, p) ==
  LET rd == RdRs1(p)
  IN  CASE rd = 0 -> IF CImm6(p) = 0 THEN Illegal(s) ELSE SequentialC(s)
        [] rd = 2 -> IF CAddi16spImm(p) = 0 THEN Illegal(s)
                     ELSE WriteReg(s, SequentialC(s), 2, ReadReg(s, 2) + CAddi16spImm(p))
        [] OTHER -> IF CImm6(p) = 0 THEN Illegal(s)
                    ELSE WriteReg(s, SequentialC(s), rd, CImm6(p) * 2^12)

CompressedAlu(s, p) ==
  LET rd == Rs1Prime(p)
      lhs == ReadReg(s, rd)
      rhs == ReadReg(s, RdPrime(p))
      To(v) == WriteReg(s, SequentialC(s), rd, v)
      op == Bits(p, 11, 10)
  IN  CASE op = 2 -> To(lhs & Word(CImm6(p)))
        [] op # 2 /\ Bit(p, 12) = 1 -> Unsupported(s)
        [] op \in {0, 1} /\ Bit(p, 12) = 0 ->
             IF Rs2C(p) = 0 THEN SequentialC(s)
             ELSE To(IF op = 0 THEN Shr(lhs, Rs2C(p)) ELSE Sra(lhs, Rs2C(p)))
        [] op = 3 /\ Bit(p, 12) = 0 ->
             To(CASE Bits(p, 6, 5) = 0 -> lhs - rhs
                  [] Bits(p, 6, 5) = 1 -> lhs ^^ rhs
                  [] Bits(p, 6, 5) = 2 -> lhs | rhs
                  [] Bits(p, 6, 5) = 3 -> lhs & rhs)

CompressedQ1(s, p) ==
  LET rd == RdRs1(p)
      f == Funct3C(p)
      jump == Nothing(s, s.pc + CJumpImm(p))
      taken == (ReadReg(s, Rs1Prime(p)) = 0) = (f = 6)
  IN  CASE f \in {0, 2, 3} /\ rd > 15 -> HighRegister(s)
        [] f = 0 /\ rd <= 15 ->
             IF CImm6(p) = 0 THEN SequentialC(s)
             ELSE WriteReg(s, SequentialC(s), rd, ReadReg(s, rd) + CImm6(p))
        [] f = 1 -> WriteReg(s, jump, 1, s.pc + 2)
        [] f = 2 /\ rd <= 15 -> WriteReg(s, SequentialC(s), rd, CImm6(p))
        [] f = 3 /\ rd <= 15 -> CompressedLui(s, p)
        [] f = 4 -> CompressedAlu(s, p)
        [] f = 5 -> jump
        [] f \in {6, 7} -> IF taken THEN Nothing(s, s.pc + CBranchImm(p)) ELSE SequentialC(s)

\* C.JR, C.MV, C.EBREAK, C.JALR and C.ADD.
CompressedCr(s, p) ==
  LET rd == RdRs1(p)
      rs2 == Rs2C(p)
      link == Bit(p, 12) = 1
      target == Nothing(s, AlignDown(ReadReg(s, rd), 2))
  IN  CASE ~Legal({rd, rs2}) -> HighRegister(s)
        [] Legal({rd, rs2}) /\ rs2 = 0 ->
             IF rd = 0 THEN Raise(s, IF link THEN "ebreak" ELSE "illegal_instruction")
             ELSE IF link THEN WriteReg(s, target, 1, s.pc + 2) ELSE target
        [] Legal({rd, rs2}) /\ rs2 # 0 ->
             WriteReg(s, SequentialC(s), rd,
                      IF link THEN ReadReg(s, rd) + ReadReg(s, rs2) ELSE ReadReg(s, rs2))

CompressedQ2(s, p) ==
  LET rd == RdRs1(p)
      f == Funct3C(p)
  IN  CASE f = 0 -> IF Bit(p, 12) = 1 THEN Unsupported(s)
                    ELSE IF rd > 15 THEN HighRegister(s)
                    ELSE IF Rs2C(p) = 0 THEN SequentialC(s)
                    ELSE WriteReg(s, SequentialC(s), rd, Shl(ReadReg(s, rd), Rs2C(p)))
        [] f = 2 -> IF rd > 15 THEN HighRegister(s)
                    ELSE IF rd = 0 THEN Illegal(s)
                    ELSE LoadData(s, SequentialC(s), rd, Word(ReadReg(s, 2) + CLwspImm(p)), 4, TRUE)
        [] f = 4 -> CompressedCr(s, p)
        [] f = 6 -> IF Rs2C(p) > 15 THEN HighRegister(s)
                    ELSE StoreData(s, SequentialC(s), Word(ReadReg(s, 2) + CSwspImm(p)), 4,
                                   ReadReg(s, Rs2C(p)))
        [] OTHER -> Unsupported(s)

ExecuteCompressed(s, p) ==
  CASE p = 0 -> Illegal(s)
    [] p # 0 /\ p % 4 = 0 -> CompressedQ0(s, p)
    [] p % 4 = 1 -> CompressedQ1(s, p)
    [] p % 4 = 2 -> CompressedQ2(s, p)
-----------------------------------------------------------------------------
\* The immediates of a 32-bit instruction.
ImmI(f) == Sext(f.funct7 * 2^5 + f.rs2, 12)
ImmS(f) == Sext(f.funct7 * 2^5 + f.rd, 12)
ImmB(f) == Sext(Bit(f.funct7, 6) * 2^12 + Bit(f.rd, 0) * 2^11 + Bits(f.funct7, 5, 0) * 2^5
                  + Bits(f.rd, 4, 1) * 2, 13)
ImmU(f) == Shl(f.funct7 * 2^13 + f.rs2 * 2^8 + f.rs1 * 2^3 + f.funct3, 12)
ImmJ(f) == Sext(Bit(f.funct7, 6) * 2^20 + (f.rs1 * 2^3 + f.funct3) * 2^12 + Bit(f.rs2, 0) * 2^11
                  + (Bits(f.funct7, 5, 0) * 2^4 + Bits(f.rs2, 4, 1)) * 2, 21)

Sequential(s) == Nothing(s, s.pc + 4)

\* A jump or a branch: the immediates are even, so the misaligned trap stays dead.
JumpTo(s, target) ==
  IF Word(target) % 2 = 1 THEN Raise(s, "instruction_misaligned") ELSE Nothing(s, target)

ExecuteJump(s, f) ==
  LET target == Word(ReadReg(s, f.rs1) + ImmI(f))
  IN  CASE f.opcode = 111 -> IF Legal({f.rd}) THEN WriteReg(s, JumpTo(s, s.pc + ImmJ(f)), f.rd, s.pc + 4)
                             ELSE HighRegister(s)
        [] f.opcode = 103 /\ f.funct3 # 0 -> Illegal(s)
        [] f.opcode = 103 /\ f.funct3 = 0 ->
             IF Legal({f.rd, f.rs1}) THEN WriteReg(s, Nothing(s, AlignDown(target, 2)), f.rd, s.pc + 4)
             ELSE HighRegister(s)

ExecuteBranch(s, f) ==
  LET lhs == ReadReg(s, f.rs1)
      rhs == ReadReg(s, f.rs2)
      taken == CASE f.funct3 = 0 -> lhs = rhs
                 [] f.funct3 = 1 -> lhs # rhs
                 [] f.funct3 = 4 -> Signed(lhs) < Signed(rhs)
                 [] f.funct3 = 5 -> Signed(lhs) >= Signed(rhs)
                 [] f.funct3 = 6 -> lhs < rhs
                 [] f.funct3 = 7 -> lhs >= rhs
  IN  CASE ~Legal({f.rs1, f.rs2}) -> HighRegister(s)
        [] Legal({f.rs1, f.rs2}) /\ f.funct3 \in {2, 3} -> Illegal(s)
        [] Legal({f.rs1, f.rs2}) /\ f.funct3 \notin {2, 3} ->
             IF taken THEN JumpTo(s, s.pc + ImmB(f)) ELSE Sequential(s)

ExecuteLoad(s, f) ==
  IF ~Legal({f.rd, f.rs1}) THEN HighRegister(s)
  ELSE IF f.funct3 \notin {0, 1, 2, 4, 5} THEN Illegal(s)
  ELSE LoadData(s, Sequential(s), f.rd, Word(ReadReg(s, f.rs1) + ImmI(f)), 2^(f.funct3 % 4),
                f.funct3 < 4)

ExecuteStore(s, f) ==
  IF ~Legal({f.rs1, f.rs2}) THEN HighRegister(s)
  ELSE IF f.funct3 > 2 THEN Illegal(s)
  ELSE StoreData(s, Sequential(s), Word(ReadReg(s, f.rs1) + ImmS(f)), 2^f.funct3,
                 ReadReg(s, f.rs2))

\* The operations OP and OP-IMM share; b is a word, n the shift amount.
AluResult(funct3, a, b, n, minus) ==
  CASE funct3 = 0 -> IF minus THEN a - b ELSE a + b
    [] funct3 = 1 -> Shl(a, n)
    [] funct3 = 2 -> IF Signed(a) < Signed(b) THEN 1 ELSE 0
    [] funct3 = 3 -> IF a < b THEN 1 ELSE 0
    [] funct3 = 4 -> a ^^ b
    [] funct3 = 5 -> IF minus THEN Sra(a, n) ELSE Shr(a, n)
    [] funct3 = 6 -> a | b
    [] funct3 = 7 -> a & b

ExecuteOpImm(s, f) ==
  IF ~Legal({f.rd, f.rs1}) THEN HighRegister(s)
  ELSE IF (f.funct3 = 1 /\ f.funct7 # 0) \/ (f.funct3 = 5 /\ f.funct7 \notin {0, 32}) THEN Illegal(s)
  ELSE WriteReg(s, Sequential(s), f.rd,
                AluResult(f.funct3, ReadReg(s, f.rs1), Word(ImmI(f)), f.rs2,
                          f.funct3 = 5 /\ f.funct7 = 32))

ExecuteOp(s, f) ==
  IF ~Legal({f.rd, f.rs1, f.rs2}) THEN HighRegister(s)
  ELSE IF f.funct7 # 0 /\ ~(f.funct7 = 32 /\ f.funct3 \in {0, 5}) THEN Illegal(s)
  ELSE WriteReg(s, Sequential(s), f.rd,
                AluResult(f.funct3, ReadReg(s, f.rs1), ReadReg(s, f.rs2),
                          ReadReg(s, f.rs2) % 2^5, f.funct7 = 32))

ExecuteCsr(s, f) ==
  LET a == f.funct7 * 2^5 + f.rs2
      old == ReadCsr(s, a)
      operand == IF f.funct3 >= 4 THEN f.rs1 ELSE ReadReg(s, f.rs1)
      op == f.funct3 % 4
      new == CASE op = 1 -> operand
               [] op = 2 -> old | operand
               [] op = 3 -> old - (old & operand)
      written == IF op = 1 \/ operand # 0 THEN WriteCsr(s, Sequential(s), a, new) ELSE Sequential(s)
  IN  IF a \notin Writable \cup ReadOnly THEN Illegal(s)
      ELSE IF f.funct3 < 4 /\ f.rs1 > 15 THEN HighRegister(s)
      ELSE IF written.cause # "none" THEN written
      ELSE WriteReg(s, written, f.rd, old)

\* ECALL, EBREAK, WFI and MRET have one encoding each.
ExecuteSystem(s, f) ==
  LET bits == <<f.funct7, f.rs2, f.rs1, f.funct3, f.rd>>
      mie == IF Bit(s.csrs[Mstatus], 7) = 1 THEN MIE ELSE 0
  IN  CASE bits = <<0, 0, 0, 0, 0>> -> Raise(s, "ecall")
        [] bits = <<0, 1, 0, 0, 0>> -> Raise(s, "ebreak")
        [] bits = <<8, 5, 0, 0, 0>> -> [Sequential(s) EXCEPT !.sleeping = TRUE]
        [] bits = <<24, 2, 0, 0, 0>> ->
             WriteCsr(s, Nothing(s, s.csrs[Mepc]), Mstatus, mie + MPIE + MPP)
        [] f.funct3 % 4 # 0 -> ExecuteCsr(s, f)
        [] OTHER -> Illegal(s)

Execute(s, f) ==
  CASE f.opcode = 55 -> WriteReg(s, Sequential(s), f.rd, ImmU(f))
    [] f.opcode = 23 -> WriteReg(s, Sequential(s), f.rd, s.pc + ImmU(f))
    [] f.opcode \in {111, 103} -> ExecuteJump(s, f)
    [] f.opcode = 99 -> ExecuteBranch(s, f)
    [] f.opcode = 3 -> ExecuteLoad(s, f)
    [] f.opcode = 35 -> ExecuteStore(s, f)
    [] f.opcode = 19 -> ExecuteOpImm(s, f)
    [] f.opcode = 51 -> ExecuteOp(s, f)
    [] f.opcode = 15 -> IF f.funct3 = 0 THEN Sequential(s) ELSE Illegal(s)
    [] f.opcode = 115 -> ExecuteSystem(s, f)
    [] OTHER -> Illegal(s)

\* step: a trap halts the model, and what was written before it was raised remains.
Outcome(s, insn) ==
  IF s.pc % 2 = 1 THEN Raise(s, "instruction_misaligned")
  ELSE IF insn.len = 2 THEN ExecuteCompressed(s, insn.parcel) ELSE Execute(s, insn)

After(s, o) ==
  [pc |-> o.pc, regs |-> IF o.rd # None THEN [s.regs EXCEPT ![o.rd] = o.wdata] ELSE s.regs,
   mem |-> o.mem, csrs |-> o.csrs, halted |-> o.cause # "none", sleeping |-> o.sleeping]

\* make_trace: a trapping item names only the cause.
TraceItem(s, insn, o) ==
  LET trap == o.cause # "none"
  IN  [pc |-> s.pc, insn |-> insn, rd |-> IF trap THEN None ELSE o.rd,
       wdata |-> IF trap THEN None ELSE o.wdata, addr |-> IF trap THEN None ELSE o.addr,
       rdata |-> IF trap THEN None ELSE o.rdata, store |-> IF trap THEN None ELSE o.store,
       trap |-> trap, cause |-> o.cause]
=============================================================================
