----------------------------- MODULE DitDah32Rvc -----------------------------
(***************************************************************************)
(* DitDah32Rvc.scala: the combinational expansion of a 16-bit parcel into  *)
(* the fields of a 32-bit instruction.  Everything that is not expanded is *)
(* the all-zero word, which no decoder accepts.                            *)
(***************************************************************************)
EXTENDS Rv32Word

Zero == Fields(0, 0, 0, 0, 0, 0)

\* The concatenations of the code: immediates sign extended, written here modulo the
\* width of the field that takes them.
IType(imm, rs1, funct3, rd, opcode) ==
  Fields((imm % 2^12) \div 2^5, imm % 2^5, rs1, funct3, rd, opcode)
SType(imm, rs2, rs1, funct3, opcode) ==
  Fields((imm % 2^12) \div 2^5, rs2, rs1, funct3, imm % 2^5, opcode)
RType(funct7, rs2, rs1, funct3, rd) == Fields(funct7, rs2, rs1, funct3, rd, 51)
UType(imm20, rd) ==
  LET u == imm20 % 2^20
  IN  Fields(Bits(u, 19, 13), Bits(u, 12, 8), Bits(u, 7, 3), Bits(u, 2, 0), rd, 55)
JType(imm, rd) ==
  LET j == imm % 2^21
  IN  Fields(Bit(j, 20) * 2^6 + Bits(j, 10, 5), Bits(j, 4, 1) * 2 + Bit(j, 11),
             Bits(j, 19, 15), Bits(j, 14, 12), rd, 111)
BType(imm, rs1, funct3) ==
  LET b == imm % 2^13
  IN  Fields(Bit(b, 12) * 2^6 + Bits(b, 10, 5), 0, rs1, funct3, Bits(b, 4, 1) * 2 + Bit(b, 11), 99)

cRdRs1(p) == Bits(p, 11, 7)
cRs2(p) == Bits(p, 6, 2)
cRdPrime(p) == 8 + Bits(p, 4, 2)
cRs1Prime(p) == 8 + Bits(p, 9, 7)
cShamt(p) == Bits(p, 6, 2)

\* A bit string is <<value, width>>; ## puts one above another, as in the code.
Slice(p, high, low) == <<Bits(p, high, low), high - low + 1>>
Zeros(n) == <<0, n>>
a ## b == <<a[1] * 2^b[2] + b[1], a[2] + b[2]>>
Unsigned(b) == b[1]
Extended(b) == Sext(b[1], b[2])

cImm6(p) == Extended(Slice(p, 12, 12) ## Slice(p, 6, 2))
cAddi4spnImm(p) ==
  Unsigned(Slice(p, 10, 7) ## Slice(p, 12, 11) ## Slice(p, 5, 5) ## Slice(p, 6, 6) ## Zeros(2))
cLwImm(p) == Unsigned(Slice(p, 5, 5) ## Slice(p, 12, 10) ## Slice(p, 6, 6) ## Zeros(2))
cLwspImm(p) == Unsigned(Slice(p, 3, 2) ## Slice(p, 12, 12) ## Slice(p, 6, 4) ## Zeros(2))
cSwspImm(p) == Unsigned(Slice(p, 8, 7) ## Slice(p, 12, 9) ## Zeros(2))
cAddi16spImm(p) ==
  Extended(Slice(p, 12, 12) ## Slice(p, 4, 3) ## Slice(p, 5, 5) ## Slice(p, 2, 2) ## Slice(p, 6, 6)
             ## Zeros(4))
cBranchImm(p) ==
  Extended(Slice(p, 12, 12) ## Slice(p, 6, 5) ## Slice(p, 2, 2) ## Slice(p, 11, 10) ## Slice(p, 4, 3)
             ## Zeros(1))
cJumpImm(p) ==
  Extended(Slice(p, 12, 12) ## Slice(p, 8, 8) ## Slice(p, 10, 9) ## Slice(p, 6, 6) ## Slice(p, 7, 7)
             ## Slice(p, 2, 2) ## Slice(p, 11, 11) ## Slice(p, 5, 3) ## Zeros(1))

Quadrant0(p) ==
  LET funct3 == Bits(p, 15, 13)
  IN  CASE funct3 = 0 /\ cAddi4spnImm(p) # 0 -> IType(cAddi4spnImm(p), 2, 0, cRdPrime(p), 19)
        [] funct3 = 2 -> IType(cLwImm(p), cRs1Prime(p), 2, cRdPrime(p), 3)
        [] funct3 = 6 -> SType(cLwImm(p), cRdPrime(p), cRs1Prime(p), 2, 35)
        [] OTHER -> Zero

\* funct3 = 4 of quadrant 1: shifts, C.ANDI and the register operations.
AluC(p) ==
  LET rd == cRs1Prime(p)
      op == Bits(p, 11, 10)
  IN  CASE op = 2 -> IType(cImm6(p), rd, 7, rd, 19)
        [] op # 2 /\ Bit(p, 12) = 1 -> Zero
        [] op = 0 /\ Bit(p, 12) = 0 -> Fields(0, cShamt(p), rd, 5, rd, 19)
        [] op = 1 /\ Bit(p, 12) = 0 -> Fields(32, cShamt(p), rd, 5, rd, 19)
        [] op = 3 /\ Bit(p, 12) = 0 ->
             CASE Bits(p, 6, 5) = 0 -> RType(32, cRdPrime(p), rd, 0, rd)
               [] Bits(p, 6, 5) = 1 -> RType(0, cRdPrime(p), rd, 4, rd)
               [] Bits(p, 6, 5) = 2 -> RType(0, cRdPrime(p), rd, 6, rd)
               [] Bits(p, 6, 5) = 3 -> RType(0, cRdPrime(p), rd, 7, rd)

\* C.LUI names x16 .. x31 even with a zero immediate, to trap as a register.
LuiC(p) ==
  LET rd == cRdRs1(p)
  IN  CASE rd = 2 /\ cAddi16spImm(p) # 0 -> IType(cAddi16spImm(p), 2, 0, 2, 19)
        [] rd # 2 /\ (cImm6(p) # 0 \/ rd >= 16) -> UType(cImm6(p), rd)
        [] OTHER -> Zero

Quadrant1(p) ==
  LET funct3 == Bits(p, 15, 13)
      rd == cRdRs1(p)
  IN  CASE funct3 = 0 -> IType(cImm6(p), rd, 0, rd, 19)
        [] funct3 = 1 -> JType(cJumpImm(p), 1)
        [] funct3 = 2 -> IType(cImm6(p), 0, 0, rd, 19)
        [] funct3 = 3 -> LuiC(p)
        [] funct3 = 4 -> AluC(p)
        [] funct3 = 5 -> JType(cJumpImm(p), 0)
        [] funct3 \in {6, 7} -> BType(cBranchImm(p), cRs1Prime(p), funct3 - 6)

Quadrant2(p) ==
  LET funct3 == Bits(p, 15, 13)
      rd == cRdRs1(p)
      rs2 == cRs2(p)
      link == Bit(p, 12)
  IN  CASE funct3 = 0 /\ Bit(p, 12) = 0 -> Fields(0, cShamt(p), rd, 1, rd, 19)
        [] funct3 = 2 /\ rd # 0 -> IType(cLwspImm(p), 2, 2, rd, 3)
        [] funct3 = 4 /\ rs2 = 0 /\ rd # 0 -> IType(0, rd, 0, link, 103)
        [] funct3 = 4 /\ rs2 # 0 -> RType(0, rs2, rd * link, 0, rd)
        [] funct3 = 4 /\ rs2 = 0 /\ rd = 0 /\ link = 1 -> IType(1, 0, 0, 0, 115)
        [] funct3 = 6 -> SType(cSwspImm(p), rs2, 2, 2, 35)
        [] OTHER -> Zero

DecodeRvc(p) ==
  CASE p % 4 = 0 -> Quadrant0(p)
    [] p % 4 = 1 -> Quadrant1(p)
    [] p % 4 = 2 -> Quadrant2(p)
=============================================================================
