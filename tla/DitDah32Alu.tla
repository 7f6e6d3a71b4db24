----------------------------- MODULE DitDah32Alu -----------------------------
(***************************************************************************)
(* The execute stage of DitDah32.scala as a function from the registers,   *)
(* the CSRs, the memory behind the AXI port and a fetched instruction to   *)
(* what the instruction does: the decoder's operation wires, the byte      *)
(* lanes of loads and stores, the CSR port and the trap chain.  Interrupt  *)
(* lines are low and the build has no debug module.                        *)
(***************************************************************************)
EXTENDS DitDah32Rvc

\* A register without storage reads zero.
Gpr(s, r) == IF r \in 1 .. 15 THEN s.regs[r] ELSE 0

\* The immediates: a field of n bits under copies of the sign of the instruction.
SignFill(f, n) == IF Bit(f.funct7, 6) = 1 THEN 2^XLEN - 2^n ELSE 0
imm12(f) == SignFill(f, 12) + f.funct7 * 2^5 + f.rs2
immS(f) == SignFill(f, 12) + f.funct7 * 2^5 + f.rd
immB(f) ==
  SignFill(f, 13) + Bit(f.funct7, 6) * 2^12 + Bit(f.rd, 0) * 2^11 + Bits(f.funct7, 5, 0) * 2^5
    + Bits(f.rd, 4, 1) * 2
immJ(f) ==
  Word((IF Bit(f.funct7, 6) = 1 THEN -(2^21) ELSE 0) + Bit(f.funct7, 6) * 2^20 + f.rs1 * 2^15
         + f.funct3 * 2^12 + Bit(f.rs2, 0) * 2^11 + Bits(f.funct7, 5, 0) * 2^5 + Bits(f.rs2, 4, 1) * 2)
upperImm(f) == Shl(f.funct7 * 2^13 + f.rs2 * 2^8 + f.rs1 * 2^3 + f.funct3, 12)

isJalr(f) == f.opcode = 103 /\ f.funct3 = 0
isBranch(f) == f.opcode = 99 /\ f.funct3 \in {0, 1, 4, 5, 6, 7}
isLoad(f) == f.opcode = 3 /\ f.funct3 \in {0, 1, 2, 4, 5}
isStore(f) == f.opcode = 35 /\ f.funct3 \in {0, 1, 2}
isAluImm(f) ==
  /\ f.opcode = 19
  /\ \/ f.funct3 \in {0, 2, 3, 4, 6, 7}
     \/ f.funct3 = 1 /\ f.funct7 = 0
     \/ f.funct3 = 5 /\ f.funct7 \in {0, 32}
isAluReg(f) ==
  f.opcode = 51 /\ (f.funct7 = 0 \/ (f.funct7 = 32 /\ f.funct3 \in {0, 5}))
isCsr(f) == f.opcode = 115 /\ f.funct3 # 0
isFence(f) == f.opcode = 15 /\ f.funct3 = 0
isEcall(f) == f = Fields(0, 0, 0, 0, 0, 115)
isEbreak(f) == f = Fields(0, 1, 0, 0, 0, 115)
isWfi(f) == f = Fields(8, 5, 0, 0, 0, 115)
isMret(f) == f = Fields(24, 2, 0, 0, 0, 115)

\* The CSR port.  A set or clear writes unless its rs1 field is zero.
csrAddr(f) == f.funct7 * 2^5 + f.rs2
csrWriteEnable(f) == isCsr(f) /\ (f.funct3 \in {1, 5} \/ (f.funct3 \in {2, 3, 6, 7} /\ f.rs1 # 0))
csrUsesRs1(f) == isCsr(f) /\ (f.funct3 = 1 \/ (f.funct3 \in {2, 3} /\ f.rs1 # 0))
csrIllegal(f) ==
  /\ isCsr(f)
  /\ \/ csrAddr(f) \notin Writable \cup ReadOnly
     \/ f.funct3 = 4
     \/ csrWriteEnable(f) /\ csrAddr(f) \in ReadOnly
csrReadData(s, f) ==
  CASE csrAddr(f) \in Writable -> s.csrs[csrAddr(f)]
    [] csrAddr(f) = Misa -> MisaValue
    [] OTHER -> 0
csrWriteData(s, f) ==
  LET operand == IF f.funct3 >= 4 THEN f.rs1 ELSE Gpr(s, f.rs1)
  IN  CASE f.funct3 \in {1, 5} -> operand
        [] f.funct3 \in {2, 6} -> csrReadData(s, f) | operand
        [] f.funct3 \in {3, 7} -> csrReadData(s, f) & (2^XLEN - 1 - operand)

\* What the register keeps of a written value; MPP is wired to machine mode.
Legalized(a, v) ==
  CASE a = Mstatus -> MPP + Bit(v, 7) * MPIE + Bit(v, 3) * MIE
    [] a = Mie -> v & IrqBits
    [] a = Mtvec -> Bits(v, XLEN - 1, 2) * 4
    [] a = Mepc -> Bits(v, XLEN - 1, 1) * 2
    [] OTHER -> v
mretMstatus(v) == MPP + MPIE + Bit(v, 7) * MIE
-----------------------------------------------------------------------------
\* Loads and stores move one aligned word and the lanes the address selects.
memAddr(s, f) == Word(Gpr(s, f.rs1) + (IF isStore(f) THEN immS(f) ELSE imm12(f)))

Misaligned(s, f) ==
  \/ f.funct3 \in {1, 5} /\ Bit(memAddr(s, f), 0) = 1
  \/ f.funct3 = 2 /\ memAddr(s, f) % 4 # 0

loadWdata(s, f) ==
  LET lane == memAddr(s, f) % 4
      data == BytesAt(s.mem, AlignDown(memAddr(s, f), 4), 4)
      loadByte == Bits(data, ByteBits * (lane + 1) - 1, ByteBits * lane)
      loadHalf == IF lane >= 2 THEN Shr(data, 2 * ByteBits) ELSE data % 2^(2 * ByteBits)
      Fill(x, n) == x + (IF Bit(x, n - 1) = 1 THEN 2^XLEN - 2^n ELSE 0)
  IN  CASE f.funct3 = 0 -> Fill(loadByte, ByteBits)
        [] f.funct3 = 1 -> Fill(loadHalf, 2 * ByteBits)
        [] f.funct3 = 2 -> data
        [] f.funct3 = 4 -> loadByte
        [] f.funct3 = 5 -> loadHalf

\* Mutant: the strobes do not follow the address.
storeBeLow(s, f) == 0 .. 2^f.funct3 - 1

storeBe(s, f) ==
  LET lane == memAddr(s, f) % 4
  IN  CASE f.funct3 = 0 -> {lane}
        [] f.funct3 = 1 -> IF lane >= 2 THEN {2, 3} ELSE {0, 1}
        [] f.funct3 = 2 -> 0 .. 3

\* The word on the write channel, the stored bytes moved to their lanes.
storeData(s, f) ==
  LET lane == memAddr(s, f) % 4
      rs2Data == Gpr(s, f.rs2)
  IN  CASE f.funct3 = 0 -> (rs2Data % 2^ByteBits) * 2^(ByteBits * lane)
        [] f.funct3 = 1 -> (rs2Data % 2^(2 * ByteBits)) * 2^(IF lane >= 2 THEN 2 * ByteBits ELSE 0)
        [] f.funct3 = 2 -> rs2Data

Written(s, f) ==
  LET base == AlignDown(memAddr(s, f), 4)
  IN  WithBytes(s.mem, [a \in {base + i : i \in storeBe(s, f)} |->
        Bits(storeData(s, f), ByteBits * (a - base + 1) - 1, ByteBits * (a - base))])
-----------------------------------------------------------------------------
execUsesRd(f) ==
  f.opcode \in {55, 23, 111} \/ isJalr(f) \/ isLoad(f) \/ isAluImm(f) \/ isAluReg(f) \/ isCsr(f)
execUsesRs1(f) ==
  isJalr(f) \/ isBranch(f) \/ isLoad(f) \/ isStore(f) \/ isAluImm(f) \/ isAluReg(f) \/ csrUsesRs1(f)
execUsesRs2(f) == isBranch(f) \/ isStore(f) \/ isAluReg(f)
execKnown(f) ==
  execUsesRd(f) \/ isBranch(f) \/ isStore(f) \/ isFence(f) \/ isEcall(f) \/ isEbreak(f) \/ isWfi(f)
    \/ isMret(f)

regAccessIllegal(f) ==
  \/ execUsesRd(f) /\ f.rd > 15
  \/ execUsesRs1(f) /\ f.rs1 > 15
  \/ execUsesRs2(f) /\ f.rs2 > 15

\* The chain of assignments, the last one that applies first.
execTrapCause(s, f) ==
  CASE isEbreak(f) -> "ebreak"
    [] isEcall(f) -> "ecall"
    [] isStore(f) /\ Misaligned(s, f) -> "store_misaligned"
    [] isLoad(f) /\ Misaligned(s, f) -> "load_misaligned"
    [] regAccessIllegal(f) /\ ~(isLoad(f) \/ isStore(f)) -> "rv32e_register"
    [] regAccessIllegal(f) /\ (isLoad(f) \/ isStore(f)) /\ ~Misaligned(s, f) -> "rv32e_register"
    [] ~regAccessIllegal(f) /\ (~execKnown(f) \/ csrIllegal(f)) -> "illegal_instruction"
    [] OTHER -> "none"

\* Signed order is unsigned order with the sign bits inverted.
SignedOrder(x) == (x + 2^(XLEN - 1)) % 2^XLEN

AluWdata(s, f) ==
  LET reg == isAluReg(f)
      a == Gpr(s, f.rs1)
      b == IF reg THEN Gpr(s, f.rs2) ELSE imm12(f)
      amount == IF reg THEN Gpr(s, f.rs2) % 2^5 ELSE f.rs2
      alternate == f.funct7 = 32
  IN  CASE f.funct3 = 0 -> Word(IF reg /\ alternate THEN a - b ELSE a + b)
        [] f.funct3 = 1 -> Shl(a, amount)
        [] f.funct3 = 2 -> IF SignedOrder(a) < SignedOrder(b) THEN 1 ELSE 0
        [] f.funct3 = 3 -> IF a < b THEN 1 ELSE 0
        [] f.funct3 = 4 -> a ^^ b
        [] f.funct3 = 5 -> IF alternate THEN Sra(a, amount) ELSE Shr(a, amount)
        [] f.funct3 = 6 -> a | b
        [] f.funct3 = 7 -> a & b

execWdata(s, f, sequentialPc) ==
  CASE f.opcode = 55 -> upperImm(f)
    [] f.opcode = 23 -> Word(s.pc + upperImm(f))
    [] f.opcode = 111 \/ isJalr(f) -> sequentialPc
    [] isAluImm(f) \/ isAluReg(f) -> AluWdata(s, f)
    [] isLoad(f) -> loadWdata(s, f)
    [] isCsr(f) -> csrReadData(s, f)

branchTaken(s, f) ==
  LET a == Gpr(s, f.rs1)
      b == Gpr(s, f.rs2)
  IN  CASE f.funct3 = 0 -> a = b
        [] f.funct3 = 1 -> a # b
        [] f.funct3 = 4 -> SignedOrder(a) < SignedOrder(b)
        [] f.funct3 = 5 -> ~(SignedOrder(a) < SignedOrder(b))
        [] f.funct3 = 6 -> a < b
        [] f.funct3 = 7 -> ~(a < b)

execNextPc(s, f, sequentialPc) ==
  CASE isBranch(f) /\ branchTaken(s, f) -> Word(s.pc + immB(f))
    [] f.opcode = 111 -> Word(s.pc + immJ(f))
    [] isJalr(f) -> Bits(Word(Gpr(s, f.rs1) + imm12(f)), XLEN - 1, 1) * 2
    [] isMret(f) -> s.csrs[Mepc]
    [] OTHER -> sequentialPc

\* One committed instruction, with the memory phase of a load or a store.
Outcome(s, insn) ==
  LET f == IF insn.len = 2 THEN DecodeRvc(insn.parcel) ELSE insn
      cause == execTrapCause(s, f)
      sequentialPc == Word(s.pc + insn.len)
      writes == execUsesRd(f) /\ f.rd # 0
      aligned == AlignDown(memAddr(s, f), 4)
  IN  IF cause # "none" THEN [Nothing(s, s.pc) EXCEPT !.cause = cause]
      ELSE [Nothing(s, execNextPc(s, f, sequentialPc)) EXCEPT
              !.rd = IF writes THEN f.rd ELSE None,
              !.wdata = IF writes THEN execWdata(s, f, sequentialPc) ELSE None,
              !.addr = IF isLoad(f) \/ isStore(f) THEN aligned ELSE None,
              !.rdata = IF isLoad(f) THEN BytesAt(s.mem, aligned, 4) ELSE None,
              !.store = IF isStore(f) THEN storeData(s, f) ELSE None,
              !.mem = IF isStore(f) THEN Written(s, f) ELSE s.mem,
              !.csrs = IF csrWriteEnable(f)
                       THEN [s.csrs EXCEPT ![csrAddr(f)] = Legalized(csrAddr(f), csrWriteData(s, f))]
                       ELSE IF isMret(f) THEN [s.csrs EXCEPT ![Mstatus] = mretMstatus(@)]
                       ELSE s.csrs,
              !.sleeping = isWfi(f)]
=============================================================================
