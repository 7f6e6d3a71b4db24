---------------------------- MODULE Rv32ecEncode ----------------------------
(***************************************************************************)
(* scripts/rv32ec_encode.py: the encoders the test programs are built      *)
(* with.  An encoder masks its operands, so a value out of range encodes   *)
(* another one.                                                            *)
(***************************************************************************)
EXTENDS Rv32Word

RType(funct7, rs2, rs1, funct3, rd) == Fields(funct7, rs2, rs1, funct3, rd, 51)

IType(imm, rs1, funct3, rd, opcode) == Fields(Bits(imm, 11, 5), Bits(imm, 4, 0), rs1, funct3, rd, opcode)

CsrType(csr, rs1, funct3, rd) == Fields(Bits(csr, 11, 5), Bits(csr, 4, 0), rs1, funct3, rd, 115)

SType(imm, rs2, rs1, funct3) == Fields(Bits(imm, 11, 5), rs2, rs1, funct3, Bits(imm, 4, 0), 35)

\* Mutant: the two highest bits of the field are not those of the format.
BTypeSwapped(imm, rs2, rs1, funct3) ==
  Fields(Bit(imm, 11) * 2^6 + Bits(imm, 10, 5), rs2, rs1, funct3, Bits(imm, 4, 1) * 2 + Bit(imm, 12), 99)

BType(imm, rs2, rs1, funct3) ==
  Fields(Bit(imm, 12) * 2^6 + Bits(imm, 10, 5), rs2, rs1, funct3, Bits(imm, 4, 1) * 2 + Bit(imm, 11), 99)

\* imm20 is the upper 20 bits of the word that u_type masks.
UType(imm20, rd, opcode) ==
  Fields(Bits(imm20, 19, 13), Bits(imm20, 12, 8), Bits(imm20, 7, 3), Bits(imm20, 2, 0), rd, opcode)

JType(imm, rd) ==
  Fields(Bit(imm, 20) * 2^6 + Bits(imm, 10, 5), Bits(imm, 4, 1) * 2 + Bit(imm, 11), Bits(imm, 19, 15),
         Bits(imm, 14, 12), rd, 111)

\* A parcel is the sum of its fields; CReg is a register of the compact set.
CReg(r) == r - 8

CCi(funct3, rd, imm) == Parcel(funct3 * 2^13 + Bit(imm, 5) * 2^12 + rd * 2^7 + Bits(imm, 4, 0) * 2^2 + 1)
CAddi(rd, imm) == CCi(0, rd, imm)
CLi(rd, imm) == CCi(2, rd, imm)
CLui(rd, imm) == CCi(3, rd, imm)

CAddi16sp(imm) ==
  Parcel(3 * 2^13 + Bit(imm, 9) * 2^12 + 2 * 2^7 + Bit(imm, 4) * 2^6 + Bit(imm, 6) * 2^5
           + Bits(imm, 8, 7) * 2^3 + Bit(imm, 5) * 2^2 + 1)

CAddi4spn(rd, imm) ==
  Parcel(Bits(imm, 5, 4) * 2^11 + Bits(imm, 9, 6) * 2^7 + Bit(imm, 2) * 2^6 + Bit(imm, 3) * 2^5 + CReg(rd) * 2^2)

\* c_lw and c_sw differ in funct3.
CMem(funct3, r, rs1, imm) ==
  Parcel(funct3 * 2^13 + Bits(imm, 5, 3) * 2^10 + CReg(rs1) * 2^7 + Bit(imm, 2) * 2^6 + Bit(imm, 6) * 2^5
           + CReg(r) * 2^2)
CLw(rd, rs1, imm) == CMem(2, rd, rs1, imm)
CSw(rs2, rs1, imm) == CMem(6, rs2, rs1, imm)

CLwsp(rd, imm) ==
  Parcel(2 * 2^13 + Bit(imm, 5) * 2^12 + rd * 2^7 + Bits(imm, 4, 2) * 2^4 + Bits(imm, 7, 6) * 2^2 + 2)

CSwsp(rs2, imm) == Parcel(6 * 2^13 + Bits(imm, 5, 2) * 2^9 + Bits(imm, 7, 6) * 2^7 + rs2 * 2^2 + 2)

CJ(funct3, imm) ==
  Parcel(funct3 * 2^13 + Bit(imm, 11) * 2^12 + Bit(imm, 4) * 2^11 + Bits(imm, 9, 8) * 2^9 + Bit(imm, 10) * 2^8
           + Bit(imm, 6) * 2^7 + Bit(imm, 7) * 2^6 + Bits(imm, 3, 1) * 2^3 + Bit(imm, 5) * 2^2 + 1)

CBranch(funct3, rs1, imm) ==
  Parcel(funct3 * 2^13 + Bit(imm, 8) * 2^12 + Bits(imm, 4, 3) * 2^10 + CReg(rs1) * 2^7
           + Bits(imm, 7, 6) * 2^5 + Bits(imm, 2, 1) * 2^3 + Bit(imm, 5) * 2^2 + 1)

CSlli(rd, shamt) == Parcel(rd * 2^7 + (shamt % 2^5) * 2^2 + 2)

CCr(bit12, rd, rs2) == Parcel(4 * 2^13 + bit12 * 2^12 + rd * 2^7 + rs2 * 2^2 + 2)

CEbreak == CCr(1, 0, 0)
Ebreak == Fields(0, 1, 0, 0, 0, 115)
Wfi == Fields(8, 5, 0, 0, 0, 115)

\* ProgramImage: a sequence of instructions laid out from address 0.
Starts(image) ==
  LET at[i \in 1 .. Len(image) + 1] == IF i = 1 THEN 0 ELSE at[i - 1] + image[i - 1].len
  IN  at
InsnsAt(image, pc) == {image[i] : i \in {j \in 1 .. Len(image) : Starts(image)[j] = pc}}
=============================================================================
