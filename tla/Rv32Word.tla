------------------------------ MODULE Rv32Word ------------------------------
(***************************************************************************)
(* Words of XLEN bits as natural numbers, the way both the Python model    *)
(* and the RTL compute with them, and the fields of an instruction.  A     *)
(* byte is a quarter of a word, so that XLEN can be less than the 32 of    *)
(* the code.  A 32-bit instruction is the record of its fields, a 16-bit   *)
(* one its parcel.                                                         *)
(***************************************************************************)
EXTENDS Integers, Sequences, TLC

CONSTANT XLEN

ASSUME XlenAssumption == XLEN \in Nat /\ XLEN >= 16 /\ XLEN % 4 = 0

ByteBits == XLEN \div 4

Word(x) == x % 2^XLEN
Bits(x, high, low) == (x \div 2^low) % 2^(high - low + 1)
Bit(x, i) == Bits(x, i, i)

\* A field of n bits, and a word, as two's complement.
Sext(x, n) == IF Bit(x, n - 1) = 1 THEN (x % 2^n) - 2^n ELSE x % 2^n
Signed(x) == Sext(x, XLEN)

Shl(x, n) == IF n >= XLEN THEN 0 ELSE (x % 2^(XLEN - n)) * 2^n
Shr(x, n) == IF n >= XLEN THEN 0 ELSE x \div 2^n
Sra(x, n) == Word(Signed(x) \div 2^(IF n >= XLEN THEN XLEN - 1 ELSE n))

\* Bitwise operations on words of up to 32 bits: And2 to And16 are & on the lowest bits.
And2(x, y) == (x % 2) * (y % 2) + Bit(x, 1) * Bit(y, 1) * 2
And4(x, y) == And2(x, y) + And2(x \div 2^2, y \div 2^2) * 2^2
And8(x, y) == And4(x, y) + And4(x \div 2^4, y \div 2^4) * 2^4
And16(x, y) == And8(x, y) + And8(x \div 2^8, y \div 2^8) * 2^8
x & y == And16(x, y) + And16(x \div 2^16, y \div 2^16) * 2^16
x | y == x + y - (x & y)
x ^^ y == x + y - 2 * (x & y)

AlignDown(x, n) == x - (x % n)

Fields(funct7, rs2, rs1, funct3, rd, opcode) ==
  [len |-> 4, opcode |-> opcode, rd |-> rd, funct3 |-> funct3, rs1 |-> rs1, rs2 |-> rs2,
   funct7 |-> funct7]
Parcel(p) == [len |-> 2, parcel |-> p]

\* Memory is a function from the byte addresses written so far; the rest reads zero.
ByteAt(mem, a) == IF a \in DOMAIN mem THEN mem[a] ELSE 0
\* Memory after some bytes, a function from their addresses, have been written.
WithBytes(mem, bytes) ==
  [a \in DOMAIN bytes \cup DOMAIN mem |-> IF a \in DOMAIN bytes THEN bytes[a] ELSE mem[a]]
\* One, two or four bytes, the lowest first.
BytesAt(mem, a, n) ==
  LET Pair(b) == ByteAt(mem, b) + ByteAt(mem, b + 1) * 2^ByteBits
  IN  CASE n = 1 -> ByteAt(mem, a)
        [] n = 2 -> Pair(a)
        [] n = 4 -> Pair(a) + Pair(a + 2) * 2^(2 * ByteBits)

\* What one instruction did; None where it did nothing.
None == -1
Nothing(s, pc) ==
  [cause |-> "none", pc |-> Word(pc), rd |-> None, wdata |-> None, addr |-> None,
   rdata |-> None, store |-> None, mem |-> s.mem, csrs |-> s.csrs, sleeping |-> FALSE]

\* The control and status registers of the profile.
Mstatus == 768   Misa == 769   Mie == 772   Mtvec == 773   Mscratch == 832
Mepc == 833      Mcause == 834 Mtval == 835 Mip == 836
Writable == {Mstatus, Mie, Mtvec, Mscratch, Mepc, Mcause, Mtval}
ReadOnly == {Misa, Mip, 3857, 3858, 3859, 3860}
MisaValue == Word(20 + (IF XLEN > 30 THEN 2^30 ELSE 0))
MIE == 2^3
MPIE == 2^7
MPP == 3 * 2^11
IrqBits == 2^3 + 2^7 + 2^11
=============================================================================
