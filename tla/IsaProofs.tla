------------------------------ MODULE IsaProofs ------------------------------
(***************************************************************************)
(* Proofs about the instruction set, at the width of the code: what the    *)
(* encoders of rv32ec_encode.py encode is what the model and the RTL       *)
(* decode, and the model and the RTL agree on every instruction, 32 bits   *)
(* or 16, in every pair of states that agree, so that no suite tells them  *)
(* apart.                                                                  *)
(***************************************************************************)
EXTENDS IsaRegress, FiniteSetTheorems, SequenceTheorems, WellFoundedInduction, TLAPS

(***************************************************************************)
(* The compressed formats.  An immediate is cut into the groups of bits    *)
(* that the parcel keeps together; the parcel is the sum of the groups at  *)
(* their places, and each group is found there again.                      *)
(***************************************************************************)
\* CAddi: the immediate, and the registers, come back.
LEMMA CAddiTrip ==
  ASSUME NEW x \in Int, -32 <= x, x <= 31, NEW rd \in 0 .. 31
  PROVE  LET p == CAddi(rd, x).parcel IN
         /\ p \in Int
         /\ M!CImm6(p) = x
         /\ M!RdRs1(p) = rd
<1> DEFINE low == x % 32
           top == (x \div 32) % 2
           q == 0 * 8192 + top * 4096 + rd * 128 + low * 4 + 1
<1>1. /\ low \in 0 .. 31 /\ top \in 0 .. 1
  OBVIOUS
<1>2a. x = low + 32 * (x \div 32) /\ x \div 32 = -top
  OBVIOUS
<1>2. CAddi(rd, x) = Parcel(q)
  BY DEF CAddi, CCi, Bits, Bit
<1> HIDE DEF low, top
<1>3. x = low - top * 32
  BY <1>1, <1>2a
<1>5a. M!Bit(q, 12) = top
  BY <1>1 DEF M!Bits, M!Bit
<1>5b. M!Bits(q, 6, 2) = low
  BY <1>1 DEF M!Bits, M!Bit
<1>5c. M!RdRs1(q) = rd
  BY <1>1 DEF M!Bits, M!Bit, M!RdRs1
<1> HIDE DEF q
<1>4. M!Sext(top * 2^5 + low, 6) = x
  BY <1>1, <1>3 DEF M!Sext, M!Bit, M!Bits
<1>5. M!CImm6(q) = x
  BY <1>4, <1>5a, <1>5b, <1>5c DEF M!CImm6
<1>6. q \in Int
  BY <1>1 DEF q
<1>7. QED
  BY <1>2, <1>5, <1>6, <1>5c DEF Parcel

\* CLi: the immediate, and the registers, come back.
LEMMA CLiTrip ==
  ASSUME NEW x \in Int, -32 <= x, x <= 31, NEW rd \in 0 .. 31
  PROVE  LET p == CLi(rd, x).parcel IN
         /\ p \in Int
         /\ M!CImm6(p) = x
         /\ M!RdRs1(p) = rd
<1> DEFINE low == x % 32
           top == (x \div 32) % 2
           q == 2 * 8192 + top * 4096 + rd * 128 + low * 4 + 1
<1>1. /\ low \in 0 .. 31 /\ top \in 0 .. 1
  OBVIOUS
<1>2a. x = low + 32 * (x \div 32) /\ x \div 32 = -top
  OBVIOUS
<1>2. CLi(rd, x) = Parcel(q)
  BY DEF CLi, CCi, Bits, Bit
<1> HIDE DEF low, top
<1>3. x = low - top * 32
  BY <1>1, <1>2a
<1>5a. M!Bit(q, 12) = top
  BY <1>1 DEF M!Bits, M!Bit
<1>5b. M!Bits(q, 6, 2) = low
  BY <1>1 DEF M!Bits, M!Bit
<1>5c. M!RdRs1(q) = rd
  BY <1>1 DEF M!Bits, M!Bit, M!RdRs1
<1> HIDE DEF q
<1>4. M!Sext(top * 2^5 + low, 6) = x
  BY <1>1, <1>3 DEF M!Sext, M!Bit, M!Bits
<1>5. M!CImm6(q) = x
  BY <1>4, <1>5a, <1>5b, <1>5c DEF M!CImm6
<1>6. q \in Int
  BY <1>1 DEF q
<1>7. QED
  BY <1>2, <1>5, <1>6, <1>5c DEF Parcel

\* CLui: the immediate, and the registers, come back.
LEMMA CLuiTrip ==
  ASSUME NEW x \in Int, -32 <= x, x <= 31, NEW rd \in 0 .. 31
  PROVE  LET p == CLui(rd, x).parcel IN
         /\ p \in Int
         /\ M!CImm6(p) = x
         /\ M!RdRs1(p) = rd
<1> DEFINE low == x % 32
           top == (x \div 32) % 2
           q == 3 * 8192 + top * 4096 + rd * 128 + low * 4 + 1
<1>1. /\ low \in 0 .. 31 /\ top \in 0 .. 1
  OBVIOUS
<1>2a. x = low + 32 * (x \div 32) /\ x \div 32 = -top
  OBVIOUS
<1>2. CLui(rd, x) = Parcel(q)
  BY DEF CLui, CCi, Bits, Bit
<1> HIDE DEF low, top
<1>3. x = low - top * 32
  BY <1>1, <1>2a
<1>5a. M!Bit(q, 12) = top
  BY <1>1 DEF M!Bits, M!Bit
<1>5b. M!Bits(q, 6, 2) = low
  BY <1>1 DEF M!Bits, M!Bit
<1>5c. M!RdRs1(q) = rd
  BY <1>1 DEF M!Bits, M!Bit, M!RdRs1
<1> HIDE DEF q
<1>4. M!Sext(top * 2^5 + low, 6) = x
  BY <1>1, <1>3 DEF M!Sext, M!Bit, M!Bits
<1>5. M!CImm6(q) = x
  BY <1>4, <1>5a, <1>5b, <1>5c DEF M!CImm6
<1>6. q \in Int
  BY <1>1 DEF q
<1>7. QED
  BY <1>2, <1>5, <1>6, <1>5c DEF Parcel

\* CAddi16sp: the immediate, and the registers, come back.
LEMMA CAddi16spTrip ==
  ASSUME NEW x \in Int, -512 <= x, x <= 511, x % 16 = 0
  PROVE  LET p == CAddi16sp(x).parcel IN
         /\ p \in Int
         /\ M!CAddi16spImm(p) = x
<1> DEFINE b4 == (x \div 16) % 2
           b5 == (x \div 32) % 2
           b6 == (x \div 64) % 2
           b7 == (x \div 128) % 4
           b9 == (x \div 512) % 2
           q == 3 * 8192 + b9 * 4096 + 2 * 128 + b4 * 64 + b6 * 32 + b7 * 8 + b5 * 4 + 1
<1>1. /\ b4 \in 0 .. 1 /\ b5 \in 0 .. 1 /\ b6 \in 0 .. 1 /\ b7 \in 0 .. 3 /\ b9 \in 0 .. 1
  OBVIOUS
<1>2a. x = 16 * (x \div 16) /\ x \div 16 = b4 + 2 * (x \div 32)
  OBVIOUS
<1>2b. x \div 32 = b5 + 2 * (x \div 64) /\ x \div 64 = b6 + 2 * (x \div 128)
  OBVIOUS
<1>2c. x \div 128 = b7 + 4 * (x \div 512) /\ x \div 512 = -b9
  OBVIOUS
<1>2. CAddi16sp(x) = Parcel(q)
  BY DEF CAddi16sp, Bits, Bit
<1> HIDE DEF b4, b5, b6, b7, b9
<1>3. x = b4 * 16 + b5 * 32 + b6 * 64 + b7 * 128 - b9 * 512
  BY <1>1, <1>2a, <1>2b, <1>2c
<1>5a. M!Bit(q, 12) = b9 /\ M!Bits(q, 4, 3) = b7
  BY <1>1 DEF M!Bits, M!Bit
<1>5b. M!Bit(q, 5) = b6 /\ M!Bit(q, 2) = b5
  BY <1>1 DEF M!Bits, M!Bit
<1>5c. M!Bit(q, 6) = b4
  BY <1>1 DEF M!Bits, M!Bit
<1> HIDE DEF q
<1>4. M!Sext(b9 * 2^9 + b7 * 2^7 + b6 * 2^6 + b5 * 2^5 + b4 * 2^4, 10) = x
  BY <1>1, <1>3 DEF M!Sext, M!Bit, M!Bits
<1>5. M!CAddi16spImm(q) = x
  BY <1>4, <1>5a, <1>5b, <1>5c DEF M!CAddi16spImm
<1>6. q \in Int
  BY <1>1 DEF q
<1>7. QED
  BY <1>2, <1>5, <1>6 DEF Parcel

\* CBranch: the immediate, and the registers, come back.
LEMMA CBranchTrip ==
  ASSUME NEW x \in Int, -256 <= x, x <= 255, x % 2 = 0, NEW f3 \in 0 .. 7, NEW rs1 \in 8 .. 15
  PROVE  LET p == CBranch(f3, rs1, x).parcel IN
         /\ p \in Int
         /\ M!CBranchImm(p) = x
         /\ M!Rs1Prime(p) = rs1
<1> DEFINE b1 == (x \div 2) % 4
           b3 == (x \div 8) % 4
           b5 == (x \div 32) % 2
           b6 == (x \div 64) % 4
           b8 == (x \div 256) % 2
           u == f3 * 64 + b8 * 32 + b3 * 8 + (rs1 - 8)
           l == b6 * 32 + b1 * 8 + b5 * 4 + 1
           q == u * 128 + l
<1>1. /\ b1 \in 0 .. 3 /\ b3 \in 0 .. 3 /\ b5 \in 0 .. 1 /\ b6 \in 0 .. 3 /\ b8 \in 0 .. 1
  OBVIOUS
<1>2a. x = 2 * (x \div 2) /\ x \div 2 = b1 + 4 * (x \div 8)
  OBVIOUS
<1>2b. x \div 8 = b3 + 4 * (x \div 32) /\ x \div 32 = b5 + 2 * (x \div 64)
  OBVIOUS
<1>2c. x \div 64 = b6 + 4 * (x \div 256) /\ x \div 256 = -b8
  OBVIOUS
<1>2. CBranch(f3, rs1, x) = Parcel(q)
  BY DEF CBranch, CReg, Bits, Bit
<1> HIDE DEF b1, b3, b5, b6, b8
<1>3. x = b1 * 2 + b3 * 8 + b5 * 32 + b6 * 64 - b8 * 256
  BY <1>1, <1>2a, <1>2b, <1>2c
<1>4. u \in Int /\ l \in 0 .. 127
  BY <1>1
<1> HIDE DEF u, l
<1>5a. M!Bit(q, 12) = b8 /\ M!Bits(q, 11, 10) = b3
  BY <1>1, <1>4, SMTT(30) DEF u, M!Bits, M!Bit
<1>5b. M!Bits(q, 6, 5) = b6 /\ M!Bits(q, 4, 3) = b1
  BY <1>1, <1>4, SMTT(30) DEF l, M!Bits, M!Bit
<1>5c. M!Bit(q, 2) = b5
  BY <1>1, <1>4, SMTT(30) DEF l, M!Bits, M!Bit
<1>5d. M!Rs1Prime(q) = rs1
  BY <1>1, <1>4 DEF u, M!Bits, M!Bit, M!Rs1Prime
<1> HIDE DEF q
<1>5. M!Sext(b8 * 2^8 + b6 * 2^6 + b3 * 2^3 + b1 * 2 + b5 * 2^5, 9) = x
  BY <1>1, <1>3 DEF M!Sext, M!Bit, M!Bits
<1>6. M!CBranchImm(q) = x
  BY <1>5, <1>5a, <1>5b, <1>5c, <1>5d DEF M!CBranchImm
<1>7. q \in Int
  BY <1>4 DEF q
<1>8. QED
  BY <1>2, <1>6, <1>7, <1>5d DEF Parcel

\* CJ: the immediate, and the registers, come back.
LEMMA CJTrip ==
  ASSUME NEW x \in Int, -2048 <= x, x <= 2047, x % 2 = 0, NEW f3 \in 0 .. 7
  PROVE  LET p == CJ(f3, x).parcel IN
         /\ p \in Int
         /\ M!CJumpImm(p) = x
<1> DEFINE b1 == (x \div 2) % 8
           b4 == (x \div 16) % 2
           b5 == (x \div 32) % 2
           b6 == (x \div 64) % 2
           b7 == (x \div 128) % 2
           b8 == (x \div 256) % 4
           b10 == (x \div 1024) % 2
           b11 == (x \div 2048) % 2
           u == f3 * 32 + b11 * 16 + b4 * 8 + b8 * 2 + b10
           l == b6 * 128 + b7 * 64 + b1 * 8 + b5 * 4 + 1
           q == u * 256 + l
<1>1. /\ b1 \in 0 .. 7 /\ b4 \in 0 .. 1 /\ b5 \in 0 .. 1 /\ b6 \in 0 .. 1 /\ b7 \in 0 .. 1
      /\ b8 \in 0 .. 3 /\ b10 \in 0 .. 1 /\ b11 \in 0 .. 1
  OBVIOUS
<1>2a. x = 2 * (x \div 2) /\ x \div 2 = b1 + 8 * (x \div 16)
  OBVIOUS
<1>2b. x \div 16 = b4 + 2 * (x \div 32) /\ x \div 32 = b5 + 2 * (x \div 64)
  OBVIOUS
<1>2c. x \div 64 = b6 + 2 * (x \div 128) /\ x \div 128 = b7 + 2 * (x \div 256)
  OBVIOUS
<1>2d. x \div 256 = b8 + 4 * (x \div 1024) /\ x \div 1024 = b10 + 2 * (x \div 2048)
  OBVIOUS
<1>2e. x \div 2048 = -b11
  OBVIOUS
<1>2. CJ(f3, x) = Parcel(q)
  BY DEF CJ, Bits, Bit
<1> HIDE DEF b1, b4, b5, b6, b7, b8, b10, b11
<1>3. x = b1 * 2 + b4 * 16 + b5 * 32 + b6 * 64 + b7 * 128 + b8 * 256 + b10 * 1024 - b11 * 2048
  BY <1>1, <1>2a, <1>2b, <1>2c, <1>2d, <1>2e
<1>4. u \in Int /\ l \in 0 .. 255
  BY <1>1
<1> HIDE DEF u, l
<1>5a. M!Bit(q, 12) = b11
  BY <1>1, <1>4, SMTT(30) DEF u, M!Bits, M!Bit
<1>5b. M!Bit(q, 11) = b4
  BY <1>1, <1>4, SMTT(30) DEF u, M!Bits, M!Bit
<1>5c. M!Bits(q, 10, 9) = b8
  BY <1>1, <1>4, SMTT(30) DEF u, M!Bits, M!Bit
<1>5d. M!Bit(q, 8) = b10
  BY <1>1, <1>4, SMTT(30) DEF u, M!Bits, M!Bit
<1>5e. M!Bit(q, 7) = b6
  <2>1. q \div 128 = u * 2 + b6
    BY <1>1, <1>4 DEF l
  <2>2. QED
    BY <2>1, <1>1, <1>4 DEF M!Bits, M!Bit
<1>5f. M!Bit(q, 6) = b7
  <2>1. q \div 64 = u * 4 + b6 * 2 + b7
    BY <1>1, <1>4 DEF l
  <2>2. QED
    BY <2>1, <1>1, <1>4 DEF M!Bits, M!Bit
<1>5g. M!Bits(q, 5, 3) = b1
  <2>1. q \div 8 = u * 32 + b6 * 16 + b7 * 8 + b1
    BY <1>1, <1>4 DEF l
  <2>2. QED
    BY <2>1, <1>1, <1>4 DEF M!Bits
<1>5h. M!Bit(q, 2) = b5
  <2>1. q \div 4 = u * 64 + b6 * 32 + b7 * 16 + b1 * 2 + b5
    BY <1>1, <1>4 DEF l
  <2>2. QED
    BY <2>1, <1>1, <1>4 DEF M!Bits, M!Bit
<1> HIDE DEF q
<1>5. M!Sext(b11 * 2^11 + b4 * 2^4 + b8 * 2^8 + b10 * 2^10 + b6 * 2^6 + b7 * 2^7 + b1 * 2 + b5 * 2^5, 12) = x
  BY <1>1, <1>3 DEF M!Sext, M!Bit, M!Bits
<1>6. M!CJumpImm(q) = x
  BY <1>5, <1>5a, <1>5b, <1>5c, <1>5d, <1>5e, <1>5f, <1>5g, <1>5h DEF M!CJumpImm
<1>7. q \in Int
  BY <1>4 DEF q
<1>8. QED
  BY <1>2, <1>6, <1>7 DEF Parcel

\* CAddi4spn: the immediate, and the registers, come back.
LEMMA CAddi4spnTrip ==
  ASSUME NEW x \in Int, 0 <= x, x <= 1023, x % 4 = 0, NEW rd \in 8 .. 15
  PROVE  LET p == CAddi4spn(rd, x).parcel IN
         /\ p \in Int
         /\ M!CAddi4spnImm(p) = x
         /\ M!RdPrime(p) = rd
<1> DEFINE b2 == (x \div 4) % 2
           b3 == (x \div 8) % 2
           b4 == (x \div 16) % 4
           b6 == (x \div 64) % 16
           q == b4 * 2048 + b6 * 128 + b2 * 64 + b3 * 32 + (rd - 8) * 4
<1>1. /\ b2 \in 0 .. 1 /\ b3 \in 0 .. 1 /\ b4 \in 0 .. 3 /\ b6 \in 0 .. 15
  OBVIOUS
<1>2a. x = 4 * (x \div 4) /\ x \div 4 = b2 + 2 * (x \div 8)
  OBVIOUS
<1>2b. x \div 8 = b3 + 2 * (x \div 16) /\ x \div 16 = b4 + 4 * (x \div 64)
  OBVIOUS
<1>2c. x \div 64 = b6
  OBVIOUS
<1>2. CAddi4spn(rd, x) = Parcel(q)
  BY DEF CAddi4spn, CReg, Bits, Bit
<1> HIDE DEF b2, b3, b4, b6
<1>3. x = b2 * 4 + b3 * 8 + b4 * 16 + b6 * 64
  BY <1>1, <1>2a, <1>2b, <1>2c
<1>5a. M!Bits(q, 12, 11) = b4 /\ M!Bits(q, 10, 7) = b6
  BY <1>1 DEF M!Bits, M!Bit
<1>5b. M!Bit(q, 6) = b2 /\ M!Bit(q, 5) = b3
  BY <1>1 DEF M!Bits, M!Bit
<1>5c. M!RdPrime(q) = rd
  BY <1>1 DEF M!Bits, M!Bit, M!RdPrime
<1> HIDE DEF q
<1>4. M!CAddi4spnImm(q) = x
  BY <1>1, <1>3, <1>5a, <1>5b, <1>5c DEF M!CAddi4spnImm
<1>5. q \in Int
  BY <1>1 DEF q
<1>6. QED
  BY <1>2, <1>4, <1>5, <1>5c DEF Parcel

\* CLw: the immediate, and the registers, come back.
LEMMA CLwTrip ==
  ASSUME NEW x \in Int, 0 <= x, x <= 127, x % 4 = 0, NEW rd \in 8 .. 15, NEW rs1 \in 8 .. 15
  PROVE  LET p == CLw(rd, rs1, x).parcel IN
         /\ p \in Int
         /\ M!CLwImm(p) = x
         /\ M!RdPrime(p) = rd
         /\ M!Rs1Prime(p) = rs1
<1> DEFINE b2 == (x \div 4) % 2
           b3 == (x \div 8) % 8
           b6 == (x \div 64) % 2
           q == 2 * 8192 + b3 * 1024 + (rs1 - 8) * 128 + b2 * 64 + b6 * 32 + (rd - 8) * 4
<1>1. /\ b2 \in 0 .. 1 /\ b3 \in 0 .. 7 /\ b6 \in 0 .. 1
  OBVIOUS
<1>2a. x = 4 * (x \div 4) /\ x \div 4 = b2 + 2 * (x \div 8)
  OBVIOUS
<1>2b. x \div 8 = b3 + 8 * (x \div 64) /\ x \div 64 = b6
  OBVIOUS
<1>2. CLw(rd, rs1, x) = Parcel(q)
  BY DEF CLw, CMem, CReg, Bits, Bit
<1> HIDE DEF b2, b3, b6
<1>3. x = b2 * 4 + b3 * 8 + b6 * 64
  BY <1>1, <1>2a, <1>2b
<1>5a. M!Bits(q, 12, 10) = b3 /\ M!Bit(q, 6) = b2
  BY <1>1 DEF M!Bits, M!Bit
<1>5b. M!Bit(q, 5) = b6
  BY <1>1 DEF M!Bits, M!Bit
<1>5c. M!RdPrime(q) = rd /\ M!Rs1Prime(q) = rs1
  BY <1>1 DEF M!Bits, M!Bit, M!Rs1Prime, M!RdPrime
<1> HIDE DEF q
<1>4. M!CLwImm(q) = x
  BY <1>1, <1>3, <1>5a, <1>5b, <1>5c DEF M!CLwImm
<1>5. q \in Int
  BY <1>1 DEF q
<1>6. QED
  BY <1>2, <1>4, <1>5, <1>5c DEF Parcel

\* CSw: the immediate, and the registers, come back.
LEMMA CSwTrip ==
  ASSUME NEW x \in Int, 0 <= x, x <= 127, x % 4 = 0, NEW rs2 \in 8 .. 15, NEW rs1 \in 8 .. 15
  PROVE  LET p == CSw(rs2, rs1, x).parcel IN
         /\ p \in Int
         /\ M!CLwImm(p) = x
         /\ M!RdPrime(p) = rs2
         /\ M!Rs1Prime(p) = rs1
<1> DEFINE b2 == (x \div 4) % 2
           b3 == (x \div 8) % 8
           b6 == (x \div 64) % 2
           q == 6 * 8192 + b3 * 1024 + (rs1 - 8) * 128 + b2 * 64 + b6 * 32 + (rs2 - 8) * 4
<1>1. /\ b2 \in 0 .. 1 /\ b3 \in 0 .. 7 /\ b6 \in 0 .. 1
  OBVIOUS
<1>2a. x = 4 * (x \div 4) /\ x \div 4 = b2 + 2 * (x \div 8)
  OBVIOUS
<1>2b. x \div 8 = b3 + 8 * (x \div 64) /\ x \div 64 = b6
  OBVIOUS
<1>2. CSw(rs2, rs1, x) = Parcel(q)
  BY DEF CSw, CMem, CReg, Bits, Bit
<1> HIDE DEF b2, b3, b6
<1>3. x = b2 * 4 + b3 * 8 + b6 * 64
  BY <1>1, <1>2a, <1>2b
<1>5a. M!Bits(q, 12, 10) = b3 /\ M!Bit(q, 6) = b2
  BY <1>1 DEF M!Bits, M!Bit
<1>5b. M!Bit(q, 5) = b6
  BY <1>1 DEF M!Bits, M!Bit
<1>5c. M!RdPrime(q) = rs2 /\ M!Rs1Prime(q) = rs1
  BY <1>1 DEF M!Bits, M!Bit, M!Rs1Prime, M!RdPrime
<1> HIDE DEF q
<1>4. M!CLwImm(q) = x
  BY <1>1, <1>3, <1>5a, <1>5b, <1>5c DEF M!CLwImm
<1>5. q \in Int
  BY <1>1 DEF q
<1>6. QED
  BY <1>2, <1>4, <1>5, <1>5c DEF Parcel

\* CLwsp: the immediate, and the registers, come back.
LEMMA CLwspTrip ==
  ASSUME NEW x \in Int, 0 <= x, x <= 255, x % 4 = 0, NEW rd \in 0 .. 31
  PROVE  LET p == CLwsp(rd, x).parcel IN
         /\ p \in Int
         /\ M!CLwspImm(p) = x
         /\ M!RdRs1(p) = rd
<1> DEFINE b2 == (x \div 4) % 8
           b5 == (x \div 32) % 2
           b6 == (x \div 64) % 4
           q == 2 * 8192 + b5 * 4096 + rd * 128 + b2 * 16 + b6 * 4 + 2
<1>1. /\ b2 \in 0 .. 7 /\ b5 \in 0 .. 1 /\ b6 \in 0 .. 3
  OBVIOUS
<1>2a. x = 4 * (x \div 4) /\ x \div 4 = b2 + 8 * (x \div 32)
  OBVIOUS
<1>2b. x \div 32 = b5 + 2 * (x \div 64) /\ x \div 64 = b6
  OBVIOUS
<1>2. CLwsp(rd, x) = Parcel(q)
  BY DEF CLwsp, Bits, Bit
<1> HIDE DEF b2, b5, b6
<1>3. x = b2 * 4 + b5 * 32 + b6 * 64
  BY <1>1, <1>2a, <1>2b
<1>5a. M!Bit(q, 12) = b5 /\ M!Bits(q, 6, 4) = b2
  BY <1>1 DEF M!Bits, M!Bit
<1>5b. M!Bits(q, 3, 2) = b6
  BY <1>1 DEF M!Bits, M!Bit
<1>5c. M!RdRs1(q) = rd
  BY <1>1 DEF M!Bits, M!Bit, M!RdRs1
<1> HIDE DEF q
<1>4. M!CLwspImm(q) = x
  BY <1>1, <1>3, <1>5a, <1>5b, <1>5c DEF M!CLwspImm
<1>5. q \in Int
  BY <1>1 DEF q
<1>6. QED
  BY <1>2, <1>4, <1>5, <1>5c DEF Parcel

\* CSwsp: the immediate, and the registers, come back.
LEMMA CSwspTrip ==
  ASSUME NEW x \in Int, 0 <= x, x <= 255, x % 4 = 0, NEW rs2 \in 0 .. 31
  PROVE  LET p == CSwsp(rs2, x).parcel IN
         /\ p \in Int
         /\ M!CSwspImm(p) = x
         /\ M!Rs2C(p) = rs2
<1> DEFINE b2 == (x \div 4) % 16
           b6 == (x \div 64) % 4
           q == 6 * 8192 + b2 * 512 + b6 * 128 + rs2 * 4 + 2
<1>1. /\ b2 \in 0 .. 15 /\ b6 \in 0 .. 3
  OBVIOUS
<1>2a. x = 4 * (x \div 4) /\ x \div 4 = b2 + 16 * (x \div 64)
  OBVIOUS
<1>2b. x \div 64 = b6
  OBVIOUS
<1>2. CSwsp(rs2, x) = Parcel(q)
  BY DEF CSwsp, Bits, Bit
<1> HIDE DEF b2, b6
<1>3. x = b2 * 4 + b6 * 64
  BY <1>1, <1>2a, <1>2b
<1>5a. M!Bits(q, 12, 9) = b2 /\ M!Bits(q, 8, 7) = b6
  BY <1>1 DEF M!Bits, M!Bit
<1>5b. M!Rs2C(q) = rs2
  BY <1>1 DEF M!Bits, M!Bit, M!Rs2C
<1> HIDE DEF q
<1>4. M!CSwspImm(q) = x
  BY <1>1, <1>3, <1>5a, <1>5b DEF M!CSwspImm
<1>5. q \in Int
  BY <1>1 DEF q
<1>6. QED
  BY <1>2, <1>4, <1>5, <1>5b DEF Parcel

(***************************************************************************)
(* The immediates of a parcel: the RTL's concatenations are the model's    *)
(* sums of shifted fields.                                                 *)
(***************************************************************************)
LEMMA SameImm6 == \A p \in Int : R!cImm6(p) = M!CImm6(p)
  BY DEF R!cImm6, R!Extended, R!Slice, R!##, R!Sext, R!Bit, R!Bits, M!CImm6, M!Sext, M!Bit, M!Bits

LEMMA SameAddi4spn == \A p \in Int : R!cAddi4spnImm(p) = M!CAddi4spnImm(p)
  BY DEF R!cAddi4spnImm, R!Unsigned, R!Slice, R!Zeros, R!##, R!Bits, M!CAddi4spnImm, M!Bit, M!Bits

LEMMA SameLw == \A p \in Int : R!cLwImm(p) = M!CLwImm(p)
  BY DEF R!cLwImm, R!Unsigned, R!Slice, R!Zeros, R!##, R!Bits, M!CLwImm, M!Bit, M!Bits

LEMMA SameLwsp == \A p \in Int : R!cLwspImm(p) = M!CLwspImm(p)
  BY DEF R!cLwspImm, R!Unsigned, R!Slice, R!Zeros, R!##, R!Bits, M!CLwspImm, M!Bit, M!Bits

LEMMA SameSwsp == \A p \in Int : R!cSwspImm(p) = M!CSwspImm(p)
  BY DEF R!cSwspImm, R!Unsigned, R!Slice, R!Zeros, R!##, R!Bits, M!CSwspImm, M!Bit, M!Bits

LEMMA SameAddi16sp == \A p \in Int : R!cAddi16spImm(p) = M!CAddi16spImm(p)
<1> SUFFICES ASSUME NEW p \in Int PROVE R!cAddi16spImm(p) = M!CAddi16spImm(p)
  OBVIOUS
<1> DEFINE string == R!##(R!##(R!##(R!##(R!##(R!Slice(p, 12, 12), R!Slice(p, 4, 3)), R!Slice(p, 5, 5)),
                                   R!Slice(p, 2, 2)), R!Slice(p, 6, 6)), R!Zeros(4))
           sum == M!Bit(p, 12) * 2^9 + M!Bits(p, 4, 3) * 2^7 + M!Bit(p, 5) * 2^6 + M!Bit(p, 2) * 2^5
                    + M!Bit(p, 6) * 2^4
<1>1. string = <<sum, 10>>
  BY DEF R!Slice, R!Zeros, R!##, R!Bits, M!Bit, M!Bits
<1>2. R!cAddi16spImm(p) = R!Sext(string[1], string[2])
  BY DEF R!cAddi16spImm, R!Extended
<1> HIDE DEF string
<1>3. R!Sext(sum, 10) = M!Sext(sum, 10)
  BY DEF R!Sext, R!Bit, R!Bits, M!Sext, M!Bit, M!Bits
<1>4. QED
  BY <1>1, <1>2, <1>3 DEF M!CAddi16spImm

LEMMA SameBranch == \A p \in Int : R!cBranchImm(p) = M!CBranchImm(p)
<1> SUFFICES ASSUME NEW p \in Int PROVE R!cBranchImm(p) = M!CBranchImm(p)
  OBVIOUS
<1> DEFINE string == R!##(R!##(R!##(R!##(R!##(R!Slice(p, 12, 12), R!Slice(p, 6, 5)), R!Slice(p, 2, 2)),
                                   R!Slice(p, 11, 10)), R!Slice(p, 4, 3)), R!Zeros(1))
           sum == M!Bit(p, 12) * 2^8 + M!Bits(p, 6, 5) * 2^6 + M!Bits(p, 11, 10) * 2^3 + M!Bits(p, 4, 3) * 2
                    + M!Bit(p, 2) * 2^5
<1>1. string = <<sum, 9>>
  BY DEF R!Slice, R!Zeros, R!##, R!Bits, M!Bit, M!Bits
<1>2. R!cBranchImm(p) = R!Sext(string[1], string[2])
  BY DEF R!cBranchImm, R!Extended
<1> HIDE DEF string
<1>3. R!Sext(sum, 9) = M!Sext(sum, 9)
  BY DEF R!Sext, R!Bit, R!Bits, M!Sext, M!Bit, M!Bits
<1>4. QED
  BY <1>1, <1>2, <1>3 DEF M!CBranchImm

LEMMA SameJump == \A p \in Int : R!cJumpImm(p) = M!CJumpImm(p)
<1> SUFFICES ASSUME NEW p \in Int PROVE R!cJumpImm(p) = M!CJumpImm(p)
  OBVIOUS
<1> DEFINE high == R!##(R!##(R!##(R!##(R!Slice(p, 12, 12), R!Slice(p, 8, 8)), R!Slice(p, 10, 9)),
                             R!Slice(p, 6, 6)), R!Slice(p, 7, 7))
           top == M!Bit(p, 12) * 2^5 + M!Bit(p, 8) * 2^4 + M!Bits(p, 10, 9) * 2^2 + M!Bit(p, 6) * 2
                    + M!Bit(p, 7)
           string == R!##(R!##(R!##(R!##(high, R!Slice(p, 2, 2)), R!Slice(p, 11, 11)), R!Slice(p, 5, 3)),
                          R!Zeros(1))
           sum == M!Bit(p, 12) * 2^11 + M!Bit(p, 11) * 2^4 + M!Bits(p, 10, 9) * 2^8 + M!Bit(p, 8) * 2^10
                    + M!Bit(p, 7) * 2^6 + M!Bit(p, 6) * 2^7 + M!Bits(p, 5, 3) * 2 + M!Bit(p, 2) * 2^5
<1>1. high = <<top, 6>>
  BY DEF R!Slice, R!##, R!Bits, M!Bit, M!Bits
<1>2. R!cJumpImm(p) = R!Sext(string[1], string[2])
  BY DEF R!cJumpImm, R!Extended
<1>3. top \in Int
  BY DEF M!Bit, M!Bits
<1> HIDE DEF high, top
<1>4. string = <<top * 2^6 + M!Bit(p, 2) * 2^5 + M!Bit(p, 11) * 2^4 + M!Bits(p, 5, 3) * 2, 12>>
  BY <1>1, <1>3 DEF R!Slice, R!Zeros, R!##, R!Bits, M!Bit, M!Bits
<1> HIDE DEF string
<1>5. top * 2^6 + M!Bit(p, 2) * 2^5 + M!Bit(p, 11) * 2^4 + M!Bits(p, 5, 3) * 2 = sum
  BY DEF top, M!Bit, M!Bits
<1>6. R!Sext(sum, 12) = M!Sext(sum, 12)
  BY DEF R!Sext, R!Bit, R!Bits, M!Sext, M!Bit, M!Bits
<1>7. QED
  BY <1>2, <1>4, <1>5, <1>6 DEF M!CJumpImm

(***************************************************************************)
(* The 32-bit formats, decoded by both.                                    *)
(***************************************************************************)
\* A word holds a signed number of 31 bits.
LEMMA WordOf ==
  ASSUME XLEN = 32, NEW x \in Int, -2147483648 <= x, x <= 2147483647
  PROVE  Word(x) = IF x < 0 THEN x + 4294967296 ELSE x
  BY DEF Word

\* The I format: both decoders return the offset.
LEMMA FormatI ==
  ASSUME XLEN = 32, NEW x \in Int, -2048 <= x, x <= 2047, NEW rs1, NEW funct3, NEW rd, NEW opcode
  PROVE  LET f == IType(x, rs1, funct3, rd, opcode) IN
         M!ImmI(f) = x /\ R!imm12(f) = Word(x) /\ f.rs1 = rs1 /\ f.rd = rd
<1> DEFINE f == IType(x, rs1, funct3, rd, opcode)
<1>1. M!ImmI(f) = x
  BY DEF M!ImmI, M!Sext, M!Bit, M!Bits, IType, Fields, Bits
<1>2. R!imm12(f) = Word(x)
  BY DEF R!imm12, R!SignFill, R!Bit, R!Bits, IType, Fields, Bits, Word
<1>3. QED
  BY <1>1, <1>2 DEF IType, Fields

\* The S format.
LEMMA FormatS ==
  ASSUME XLEN = 32, NEW x \in Int, -2048 <= x, x <= 2047, NEW rs1, NEW funct3, NEW rs2
  PROVE  LET f == SType(x, rs2, rs1, funct3) IN M!ImmS(f) = x /\ R!immS(f) = Word(x) /\ f.rs2 = rs2
<1> DEFINE f == SType(x, rs2, rs1, funct3)
<1>1. M!ImmS(f) = x
  BY DEF M!ImmS, M!Sext, M!Bit, M!Bits, SType, Fields, Bits
<1>2. R!immS(f) = Word(x)
  BY DEF R!immS, R!SignFill, R!Bit, R!Bits, SType, Fields, Bits, Word
<1>3. QED
  BY <1>1, <1>2 DEF SType, Fields

\* The B format, which scatters the offset's bits.
LEMMA FormatB ==
  ASSUME XLEN = 32, NEW x \in Int, -4096 <= x, x <= 4095, x % 2 = 0, NEW rs1, NEW funct3, NEW rs2
  PROVE  LET f == BType(x, rs2, rs1, funct3) IN M!ImmB(f) = x /\ R!immB(f) = Word(x) /\ f.rs2 = rs2
<1> DEFINE b1 == (x \div 2) % 16
           b5 == (x \div 32) % 64
           b11 == (x \div 2048) % 2
           b12 == (x \div 4096) % 2
           f == Fields(b12 * 64 + b5, rs2, rs1, funct3, b1 * 2 + b11, 99)
<1>1. b1 \in 0 .. 15 /\ b5 \in 0 .. 63 /\ b11 \in 0 .. 1 /\ b12 \in 0 .. 1
  OBVIOUS
<1>2. x = b1 * 2 + b5 * 32 + b11 * 2048 - b12 * 4096
  OBVIOUS
<1>3. BType(x, rs2, rs1, funct3) = f
  BY DEF BType, Bits, Bit
<1> HIDE DEF b1, b5, b11, b12
<1>4. /\ M!Bit(b12 * 64 + b5, 6) = b12 /\ M!Bits(b12 * 64 + b5, 5, 0) = b5
      /\ R!Bit(b12 * 64 + b5, 6) = b12 /\ R!Bits(b12 * 64 + b5, 5, 0) = b5
  BY <1>1 DEF M!Bit, M!Bits, R!Bit, R!Bits
<1>5. /\ M!Bit(b1 * 2 + b11, 0) = b11 /\ M!Bits(b1 * 2 + b11, 4, 1) = b1
      /\ R!Bit(b1 * 2 + b11, 0) = b11 /\ R!Bits(b1 * 2 + b11, 4, 1) = b1
  BY <1>1 DEF M!Bit, M!Bits, R!Bit, R!Bits
<1>6. M!Sext(b12 * 4096 + b11 * 2048 + b5 * 32 + b1 * 2, 13) = x
  BY <1>1, <1>2 DEF M!Sext, M!Bit, M!Bits
<1>7. M!ImmB(f) = x
  BY <1>1, <1>4, <1>5, <1>6 DEF M!ImmB, Fields
<1>8. R!immB(f) = (IF b12 = 1 THEN 2^XLEN - 2^13 ELSE 0) + b12 * 2^12 + b11 * 2^11 + b5 * 2^5 + b1 * 2
  <2>1. f.funct7 = b12 * 64 + b5 /\ f.rd = b1 * 2 + b11
    BY DEF Fields
  <2> HIDE DEF f
  <2>2. R!immB(f) = (IF R!Bit(f.funct7, 6) = 1 THEN 2^XLEN - 2^13 ELSE 0) + R!Bit(f.funct7, 6) * 2^12
                    + R!Bit(f.rd, 0) * 2^11 + R!Bits(f.funct7, 5, 0) * 2^5 + R!Bits(f.rd, 4, 1) * 2
    BY SMT DEF R!immB, R!SignFill
  <2>3. QED
    BY <2>1, <2>2, <1>4, <1>5, SMT
<1>9. R!immB(f) = Word(x)
  BY <1>1, <1>2, <1>8, WordOf, SMT
<1>10. QED
  BY <1>3, <1>7, <1>9 DEF Fields

\* The J format.
LEMMA FormatJ ==
  ASSUME XLEN = 32, NEW x \in Int, -1048576 <= x, x <= 1048575, x % 2 = 0, NEW rd
  PROVE  LET f == JType(x, rd) IN M!ImmJ(f) = x /\ R!immJ(f) = Word(x) /\ f.rd = rd
<1> DEFINE b1 == (x \div 2) % 16
           b5 == (x \div 32) % 64
           b11 == (x \div 2048) % 2
           b12 == (x \div 4096) % 8
           b15 == (x \div 32768) % 32
           b20 == (x \div 1048576) % 2
           f == Fields(b20 * 64 + b5, b1 * 2 + b11, b15, b12, rd, 111)
<1>1. /\ b1 \in 0 .. 15 /\ b5 \in 0 .. 63 /\ b11 \in 0 .. 1 /\ b12 \in 0 .. 7 /\ b15 \in 0 .. 31
      /\ b20 \in 0 .. 1
  OBVIOUS
<1>2a. x = 2 * (x \div 2) /\ x \div 2 = b1 + 16 * (x \div 32)
  OBVIOUS
<1>2b. x \div 32 = b5 + 64 * (x \div 2048) /\ x \div 2048 = b11 + 2 * (x \div 4096)
  OBVIOUS
<1>2c. x \div 4096 = b12 + 8 * (x \div 32768) /\ x \div 32768 = b15 + 32 * (x \div 1048576)
  OBVIOUS
<1>2d. x \div 1048576 = -b20
  OBVIOUS
<1>2. JType(x, rd) = f
  BY DEF JType, Bits, Bit
<1> HIDE DEF b1, b5, b11, b12, b15, b20
<1>3. x = b1 * 2 + b5 * 32 + b11 * 2048 + b12 * 4096 + b15 * 32768 - b20 * 1048576
  BY <1>1, <1>2a, <1>2b, <1>2c, <1>2d
<1>4. /\ M!Bit(b20 * 64 + b5, 6) = b20 /\ M!Bits(b20 * 64 + b5, 5, 0) = b5
      /\ R!Bit(b20 * 64 + b5, 6) = b20 /\ R!Bits(b20 * 64 + b5, 5, 0) = b5
  BY <1>1 DEF M!Bit, M!Bits, R!Bit, R!Bits
<1>5. /\ M!Bit(b1 * 2 + b11, 0) = b11 /\ M!Bits(b1 * 2 + b11, 4, 1) = b1
      /\ R!Bit(b1 * 2 + b11, 0) = b11 /\ R!Bits(b1 * 2 + b11, 4, 1) = b1
  BY <1>1 DEF M!Bit, M!Bits, R!Bit, R!Bits
<1>6. M!Sext(b20 * 1048576 + (b15 * 8 + b12) * 4096 + b11 * 2048 + (b5 * 16 + b1) * 2, 21) = x
  BY <1>1, <1>3 DEF M!Sext, M!Bit, M!Bits
<1>7. M!ImmJ(f) = x
  BY <1>1, <1>4, <1>5, <1>6 DEF M!ImmJ, Fields
<1>8. R!immJ(f) = R!Word((IF b20 = 1 THEN -(2^21) ELSE 0) + b20 * 2^20 + b15 * 2^15 + b12 * 2^12
                           + b11 * 2^11 + b5 * 2^5 + b1 * 2)
  <2>1. /\ f.funct7 = b20 * 64 + b5 /\ f.rs2 = b1 * 2 + b11
        /\ f.rs1 = b15 /\ f.funct3 = b12
    BY DEF Fields
  <2> HIDE DEF f
  <2>2. R!immJ(f) = R!Word((IF R!Bit(f.funct7, 6) = 1 THEN -(2^21) ELSE 0) + R!Bit(f.funct7, 6) * 2^20
                            + f.rs1 * 2^15 + f.funct3 * 2^12 + R!Bit(f.rs2, 0) * 2^11
                            + R!Bits(f.funct7, 5, 0) * 2^5 + R!Bits(f.rs2, 4, 1) * 2)
    BY SMT DEF R!immJ
  <2>3. QED
    BY <2>1, <2>2, <1>4, <1>5, SMT
<1>9. R!immJ(f) = Word(x)
  <2>1. (IF b20 = 1 THEN -(2^21) ELSE 0) + b20 * 2^20 + b15 * 2^15 + b12 * 2^12 + b11 * 2^11 + b5 * 2^5
          + b1 * 2 = x
    BY <1>1, <1>3, SMT
  <2>2. QED
    BY <2>1, <1>8, SMT DEF R!Word, Word
<1>10. QED
  BY <1>2, <1>7, <1>9 DEF Fields

\* C.SLLI: the shift amount of five bits.
LEMMA CSlliTrip ==
  ASSUME NEW x \in 0 .. 31, NEW rd \in 0 .. 31
  PROVE  LET p == CSlli(rd, x).parcel IN
         p \in Int /\ M!Rs2C(p) = x /\ R!cShamt(p) = x /\ M!RdRs1(p) = rd
  BY DEF CSlli, Parcel, M!Rs2C, R!cShamt, M!RdRs1, M!Bits, R!Bits

\* Every parcel and every format returns what it was given, at the width of the code.
LEMMA EncodersTripAt == XLEN = 32 /\ offset \in Int => EncodersTrip
<1> SUFFICES ASSUME XLEN = 32, offset \in Int PROVE EncodersTrip
  OBVIOUS
<1>1. FormatsTrip
  <2>1. Fits(12) =>
          /\ LET f == IType(offset, 5, 2, 9, 3) IN
               M!ImmI(f) = offset /\ R!imm12(f) = Word(offset) /\ f.rs1 = 5 /\ f.rd = 9
          /\ LET f == SType(offset, 7, 5, 2) IN
               M!ImmS(f) = offset /\ R!immS(f) = Word(offset) /\ f.rs2 = 7
    <3> SUFFICES ASSUME Fits(12) PROVE FormatsTrip!1!2
      BY DEF FormatsTrip
    <3>1. -2048 <= offset /\ offset <= 2047
      BY DEF Fits
    <3>2. QED
      BY <3>1, FormatI, FormatS
  <2>2. Fits(13) /\ Even =>
          LET f == BType(offset, 7, 5, 1) IN
            M!ImmB(f) = offset /\ R!immB(f) = Word(offset) /\ f.rs2 = 7
    BY FormatB DEF Fits, Even
  <2>3. Fits(13) => \A x \in {offset, 2^8 * offset} : x % 2 = 0 =>
          LET f == JType(x, 9) IN M!ImmJ(f) = x /\ R!immJ(f) = Word(x) /\ f.rd = 9
    <3> SUFFICES ASSUME Fits(13), NEW x \in {offset, 2^8 * offset}, x % 2 = 0
                 PROVE  LET f == JType(x, 9) IN M!ImmJ(f) = x /\ R!immJ(f) = Word(x) /\ f.rd = 9
      OBVIOUS
    <3>1. x \in Int /\ -1048576 <= x /\ x <= 1048575
      BY SMT DEF Fits
    <3>2. QED
      BY <3>1, FormatJ, SMT
  <2>4. QED
    BY <2>1, <2>2, <2>3 DEF FormatsTrip
<1>2. ParcelsTrip
  <2>1. ASSUME Fits(6), NEW p \in {CAddi(9, offset).parcel, CLi(9, offset).parcel, CLui(9, offset).parcel}
        PROVE  M!CImm6(p) = offset /\ R!cImm6(p) = offset /\ M!RdRs1(p) = 9
    <3>1. -32 <= offset /\ offset <= 31
      BY <2>1 DEF Fits
    <3>2. 9 \in 0 .. 31
      OBVIOUS
    <3>3. CASE p = CAddi(9, offset).parcel
      BY <3>1, <3>2, <3>3, CAddiTrip, SameImm6
    <3>4. CASE p = CLi(9, offset).parcel
      BY <3>1, <3>2, <3>4, CLiTrip, SameImm6
    <3>5. CASE p = CLui(9, offset).parcel
      BY <3>1, <3>2, <3>5, CLuiTrip, SameImm6
    <3>6. QED
      BY <2>1, <3>3, <3>4, <3>5
  <2>2. ASSUME Fits(10), offset % 16 = 0
        PROVE  LET p == CAddi16sp(offset).parcel IN
               M!CAddi16spImm(p) = offset /\ R!cAddi16spImm(p) = offset
    <3>1. -512 <= offset /\ offset <= 511
      BY <2>2 DEF Fits
    <3>2. QED
      BY <2>2, <3>1, CAddi16spTrip, SameAddi16sp
  <2>3. ASSUME Fits(9), Even
        PROVE  LET p == CBranch(6, 9, offset).parcel IN
               M!CBranchImm(p) = offset /\ R!cBranchImm(p) = offset /\ M!Rs1Prime(p) = 9
    <3>1. -256 <= offset /\ offset <= 255 /\ offset % 2 = 0
      BY <2>3 DEF Fits, Even
    <3>2. 6 \in 0 .. 7 /\ 9 \in 8 .. 15
      OBVIOUS
    <3>3. /\ CBranch(6, 9, offset).parcel \in Int
          /\ M!CBranchImm(CBranch(6, 9, offset).parcel) = offset
          /\ M!Rs1Prime(CBranch(6, 9, offset).parcel) = 9
      BY <3>1, <3>2, CBranchTrip
    <3>4. QED
      BY <3>3, SameBranch
  <2>4. ASSUME Fits(12), Even
        PROVE  LET p == CJ(5, offset).parcel IN M!CJumpImm(p) = offset /\ R!cJumpImm(p) = offset
    <3>1. -2048 <= offset /\ offset <= 2047 /\ offset % 2 = 0
      BY <2>4 DEF Fits, Even
    <3>2. QED
      BY <3>1, CJTrip, SameJump
  <2>5. ASSUME offset \in 0 .. 1023, offset % 4 = 0
        PROVE  LET p == CAddi4spn(9, offset).parcel IN
               M!CAddi4spnImm(p) = offset /\ R!cAddi4spnImm(p) = offset /\ M!RdPrime(p) = 9
    <3>1. 9 \in 8 .. 15 /\ 0 <= offset /\ offset <= 1023
      BY <2>5
    <3>2. QED
      BY <2>5, <3>1, CAddi4spnTrip, SameAddi4spn
  <2>6. ASSUME offset \in 0 .. 127, offset % 4 = 0,
               NEW p \in {CLw(9, 10, offset).parcel, CSw(9, 10, offset).parcel}
        PROVE  M!CLwImm(p) = offset /\ R!cLwImm(p) = offset /\ M!RdPrime(p) = 9 /\ M!Rs1Prime(p) = 10
    <3>1. 9 \in 8 .. 15 /\ 10 \in 8 .. 15 /\ 0 <= offset /\ offset <= 127
      BY <2>6
    <3>2. CASE p = CLw(9, 10, offset).parcel
      BY <2>6, <3>1, <3>2, CLwTrip, SameLw
    <3>3. CASE p = CSw(9, 10, offset).parcel
      BY <2>6, <3>1, <3>3, CSwTrip, SameLw
    <3>4. QED
      BY <2>6, <3>2, <3>3
  <2>7. ASSUME offset \in 0 .. 255, offset % 4 = 0
        PROVE  /\ LET p == CLwsp(9, offset).parcel IN
                    M!CLwspImm(p) = offset /\ R!cLwspImm(p) = offset /\ M!RdRs1(p) = 9
               /\ LET p == CSwsp(9, offset).parcel IN
                    M!CSwspImm(p) = offset /\ R!cSwspImm(p) = offset /\ M!Rs2C(p) = 9
    <3>1. 9 \in 0 .. 31 /\ 0 <= offset /\ offset <= 255
      BY <2>7
    <3>2. LET p == CLwsp(9, offset).parcel IN
            M!CLwspImm(p) = offset /\ R!cLwspImm(p) = offset /\ M!RdRs1(p) = 9
      BY <2>7, <3>1, CLwspTrip, SameLwsp
    <3>3. LET p == CSwsp(9, offset).parcel IN
            M!CSwspImm(p) = offset /\ R!cSwspImm(p) = offset /\ M!Rs2C(p) = 9
      BY <2>7, <3>1, CSwspTrip, SameSwsp
    <3>4. QED
      BY <3>2, <3>3
  <2>8. ASSUME offset \in 0 .. 31
        PROVE  LET p == CSlli(9, offset).parcel IN M!Rs2C(p) = offset /\ R!cShamt(p) = offset /\ M!RdRs1(p) = 9
    <3>1. 9 \in 0 .. 31
      OBVIOUS
    <3>2. QED
      BY <2>8, <3>1, CSlliTrip
  <2>9. QED
    BY <2>1, <2>2, <2>3, <2>4, <2>5, <2>6, <2>7, <2>8 DEF ParcelsTrip
<1>3. QED
  BY <1>1, <1>2 DEF EncodersTrip

\* What rv32ec_encode.py encodes is what the model and the RTL decode: every immediate of
\* every format, in words of 32 bits.
THEOREM EncodersAgree == XLEN = 32 => (Spec => []EncodersTrip)
<1> SUFFICES ASSUME XLEN = 32 PROVE Spec => []EncodersTrip
  OBVIOUS
<1>1. Init => offset \in Int
  BY OffsetAssumption DEF Init, TripInit, TripDone
<1>2. offset \in Int /\ [Next]_vars => (offset \in Int)'
  BY DEF Next, TripNext, vars
<1>3. offset \in Int => EncodersTrip
  BY EncodersTripAt
<1>4. QED
  BY <1>1, <1>2, <1>3, PTL DEF Spec

(***************************************************************************)
(* The reference model and the RTL, instruction by instruction.  Both work *)
(* on the words of Rv32Word, each through its own instance.                *)
(***************************************************************************)
\* The operations on words are those of Rv32Word in either instance.
LEMMA SameWords ==
  /\ \A x : M!Word(x) = Word(x) /\ R!Word(x) = Word(x)
  /\ \A x, h, l : M!Bits(x, h, l) = Bits(x, h, l) /\ R!Bits(x, h, l) = Bits(x, h, l)
  /\ \A x, i : M!Bit(x, i) = Bit(x, i) /\ R!Bit(x, i) = Bit(x, i)
  /\ \A x, n : M!Sext(x, n) = Sext(x, n) /\ R!Sext(x, n) = Sext(x, n)
  /\ \A x, n : M!AlignDown(x, n) = AlignDown(x, n) /\ R!AlignDown(x, n) = AlignDown(x, n)
  BY DEF Word, M!Word, R!Word, Bits, M!Bits, R!Bits, Bit, M!Bit, R!Bit, Sext, M!Sext, R!Sext, AlignDown,
         M!AlignDown, R!AlignDown

\* So are the shifts.
LEMMA SameShifts ==
  /\ \A x : M!Signed(x) = Signed(x) /\ R!Signed(x) = Signed(x)
  /\ \A x, n : M!Shl(x, n) = Shl(x, n) /\ R!Shl(x, n) = Shl(x, n)
  /\ \A x, n : M!Shr(x, n) = Shr(x, n) /\ R!Shr(x, n) = Shr(x, n)
  /\ \A x, n : M!Sra(x, n) = Sra(x, n) /\ R!Sra(x, n) = Sra(x, n)
<1>1. \A x : M!Signed(x) = Signed(x) /\ R!Signed(x) = Signed(x)
  BY SameWords DEF Signed, M!Signed, R!Signed
<1>2. \A x, n : M!Shl(x, n) = Shl(x, n) /\ R!Shl(x, n) = Shl(x, n)
  BY DEF Shl, M!Shl, R!Shl
<1>3. \A x, n : M!Shr(x, n) = Shr(x, n) /\ R!Shr(x, n) = Shr(x, n)
  BY DEF Shr, M!Shr, R!Shr
<1>4. \A x, n : M!Sra(x, n) = Sra(x, n) /\ R!Sra(x, n) = Sra(x, n)
  BY <1>1, SameWords DEF Sra, M!Sra, R!Sra
<1>5. QED
  BY <1>1, <1>2, <1>3, <1>4

\* And the bitwise operations.
LEMMA SameBitwise ==
  /\ \A x, y : M!&(x, y) = (x & y) /\ R!&(x, y) = (x & y)
  /\ \A x, y : M!|(x, y) = (x | y) /\ R!|(x, y) = (x | y)
  /\ \A x, y : M!^^(x, y) = (x ^^ y) /\ R!^^(x, y) = (x ^^ y)
<1>1. \A x, y : M!And2(x, y) = And2(x, y) /\ R!And2(x, y) = And2(x, y)
  BY SameWords DEF And2, M!And2, R!And2
<1>2. \A x, y : M!And4(x, y) = And4(x, y) /\ R!And4(x, y) = And4(x, y)
  BY <1>1 DEF And4, M!And4, R!And4
<1>3. \A x, y : M!And8(x, y) = And8(x, y) /\ R!And8(x, y) = And8(x, y)
  BY <1>2 DEF And8, M!And8, R!And8
<1>4. \A x, y : M!And16(x, y) = And16(x, y) /\ R!And16(x, y) = And16(x, y)
  BY <1>3 DEF And16, M!And16, R!And16
<1>5. \A x, y : M!&(x, y) = (x & y) /\ R!&(x, y) = (x & y)
  BY <1>4 DEF &, M!&, R!&
<1>6. QED
  BY <1>5 DEF |, ^^, M!|, M!^^, R!|, R!^^

\* And the bytes of the memory.
LEMMA SameBytes ==
  /\ \A mem, a : M!ByteAt(mem, a) = ByteAt(mem, a) /\ R!ByteAt(mem, a) = ByteAt(mem, a)
  /\ \A mem, a : \A n \in {1, 2, 4} :
       M!BytesAt(mem, a, n) = BytesAt(mem, a, n) /\ R!BytesAt(mem, a, n) = BytesAt(mem, a, n)
  /\ M!ByteBits = ByteBits /\ R!ByteBits = ByteBits
<1>1. \A mem, a : M!ByteAt(mem, a) = ByteAt(mem, a) /\ R!ByteAt(mem, a) = ByteAt(mem, a)
  BY DEF ByteAt, M!ByteAt, R!ByteAt
<1>2. M!ByteBits = ByteBits /\ R!ByteBits = ByteBits
  BY DEF ByteBits, M!ByteBits, R!ByteBits
<1>3. \A mem, a : \A n \in {1, 2, 4} :
        M!BytesAt(mem, a, n) = BytesAt(mem, a, n) /\ R!BytesAt(mem, a, n) = BytesAt(mem, a, n)
  BY <1>1, <1>2 DEF BytesAt, M!BytesAt, R!BytesAt
<1>4. QED
  BY <1>1, <1>2, <1>3

(***************************************************************************)
(* Arithmetic on words of 32 bits.                                         *)
(***************************************************************************)
Words == {x \in Nat : x < 2^XLEN}

\* An operand may be reduced before it is added.
LEMMA WordSums ==
  ASSUME XLEN = 32, NEW x \in Words, NEW y \in Int
  PROVE  x \in Int /\ x + y \in Int /\ Word(x + y) \in Words /\ Word(x + Word(y)) = Word(x + y)
<1> DEFINE q == y \div 4294967296
           z == x + Word(y)
           w == x + y
<1>1. q \in Int /\ Word(y) \in Int /\ Word(y) = y - q * 4294967296
  BY SMT DEF Word
<1>2. x \in Int
  BY SMT DEF Words
<1>3. x + y \in Int
  BY <1>2, SMT
<1>4. Word(x + y) \in Words
  BY <1>3, SMT DEF Words, Word
<1> HIDE DEF q
<1>5. z \in Int /\ w \in Int /\ z = w - q * 4294967296
  BY <1>1, <1>2, SMT
<1> HIDE DEF z, w
<1>6. Word(z) = Word(w)
  BY <1>1, <1>5, SMTT(30) DEF Word
<1>7. QED
  BY <1>2, <1>3, <1>4, <1>6 DEF z, w


\* The values of x modulo a word, which sums may take at any point.
LEMMA WordFacts ==
  ASSUME XLEN = 32
  PROVE  /\ Words \subseteq Nat
         /\ \A x \in Int : Word(x) \in Words
         /\ \A x \in Words : Word(x) = x
         /\ \A x \in Int : Word(x) % 2 = x % 2 /\ Word(x) % 4 = x % 4
         /\ \A x, y \in Int : Word(x + Word(y)) = Word(x + y) /\ Word(Word(x) + y) = Word(x + y)
         /\ \A n \in Nat : n < 65536 => n \in Words
<1>1. Words \subseteq Nat
  BY SMT DEF Words
<1>2. \A x \in Int : Word(x) \in Words
  BY SMT DEF Words, Word
<1>3. \A x \in Words : Word(x) = x
  BY SMT DEF Words, Word
<1>4. \A x \in Int : Word(x) % 2 = x % 2 /\ Word(x) % 4 = x % 4
  BY SMT DEF Word
<1>5. \A x, y \in Int : Word(x + Word(y)) = Word(x + y)
  <2> TAKE x, y \in Int
  <2> DEFINE q == y \div 4294967296
             z == x + Word(y)
             w == x + y
  <2>1. q \in Int /\ Word(y) \in Int /\ Word(y) = y - q * 4294967296
    BY SMT DEF Word
  <2> HIDE DEF q
  <2>2. z \in Int /\ w \in Int /\ z = w - q * 4294967296
    BY <2>1, SMT
  <2> HIDE DEF z, w
  <2>3. Word(z) = Word(w)
    BY <2>1, <2>2, SMTT(30) DEF Word
  <2>4. QED
    BY <2>3 DEF z, w
<1>6. \A x, y \in Int : Word(Word(x) + y) = Word(x + y)
  <2> TAKE x, y \in Int
  <2>1. Word(x) \in Int
    BY SMT DEF Word
  <2>2. Word(x) + y = y + Word(x) /\ x + y = y + x
    BY <2>1, SMT
  <2>3. QED
    BY <1>5, <2>2, SMT
<1>7. \A n \in Nat : n < 65536 => n \in Words
  BY SMT DEF Words
<1>8. QED
  BY <1>1, <1>2, <1>3, <1>4, <1>5, <1>6, <1>7, SMT

\* The RTL's signed order, unsigned order with the sign bits inverted, is that of the model.
LEMMA SignedOrders ==
  ASSUME XLEN = 32, NEW a \in Words, NEW b \in Words
  PROVE  R!SignedOrder(a) < R!SignedOrder(b) <=> M!Signed(a) < M!Signed(b)
<1>1. \A x \in Words : M!Signed(x) = IF x >= 2^31 THEN x - 2^32 ELSE x
  BY SMT DEF Words, M!Signed, M!Sext, M!Bit, M!Bits
<1>2. \A x \in Words : R!SignedOrder(x) = IF x >= 2^31 THEN x - 2^31 ELSE x + 2^31
  BY SMT DEF Words, R!SignedOrder
<1>3. a \in Nat /\ a < 2^32 /\ b \in Nat /\ b < 2^32
  BY SMT DEF Words
<1>4. /\ M!Signed(a) = IF a >= 2^31 THEN a - 2^32 ELSE a
      /\ M!Signed(b) = IF b >= 2^31 THEN b - 2^32 ELSE b
  BY <1>1
<1>5. /\ R!SignedOrder(a) = IF a >= 2^31 THEN a - 2^31 ELSE a + 2^31
      /\ R!SignedOrder(b) = IF b >= 2^31 THEN b - 2^31 ELSE b + 2^31
  BY <1>2
<1>6. QED
  BY <1>3, <1>4, <1>5, SMT

\* Shifts by less than a word stay words, and a shift by zero does nothing.
LEMMA ShiftFacts ==
  ASSUME XLEN = 32, NEW a \in Words
  PROVE  Shl(a, 0) = a /\ Shr(a, 0) = a /\ Sra(a, 0) = a
<1>1. Shl(a, 0) = a /\ Shr(a, 0) = a
  BY SMT DEF Words, Shl, Shr
<1>2. Sra(a, 0) = a
  BY SMT DEF Words, Sra, Word, Signed, Sext, Bit, Bits
<1>3. QED
  BY <1>1, <1>2

\* And2 to And16 keep a factor's complement: what is not in the one is in the other.
LEMMA AndNot ==
  ASSUME XLEN = 32, NEW a \in Words, NEW b \in Words
  PROVE  (a & (2^XLEN - 1 - b)) = a - (a & b)
<1>1. \A x, y, z \in Int : z % 4 = 3 - (y % 4) => And2(x, z) = (x % 4) - And2(x, y)
  <2> SUFFICES ASSUME NEW x \in Int, NEW y \in Int, NEW z \in Int, z % 4 = 3 - (y % 4)
               PROVE  And2(x, z) = (x % 4) - And2(x, y)
    OBVIOUS
  <2>1. z % 2 = 1 - (y % 2) /\ Bit(z, 1) = 1 - Bit(y, 1)
    BY DEF Bit, Bits
  <2>2. x % 4 = (x % 2) + Bit(x, 1) * 2 /\ x % 2 \in 0 .. 1 /\ Bit(x, 1) \in 0 .. 1
    BY DEF Bit, Bits
  <2>3. y % 2 \in 0 .. 1 /\ Bit(y, 1) \in 0 .. 1
    BY DEF Bit, Bits
  <2>4. QED
    BY <2>1, <2>2, <2>3 DEF And2
<1>2. \A x, y, z \in Int : z % 16 = 15 - (y % 16) => And4(x, z) = (x % 16) - And4(x, y)
  <2> SUFFICES ASSUME NEW x \in Int, NEW y \in Int, NEW z \in Int, z % 16 = 15 - (y % 16)
               PROVE  And4(x, z) = (x % 16) - And4(x, y)
    OBVIOUS
  <2>1. z % 4 = 3 - (y % 4) /\ (z \div 4) % 4 = 3 - ((y \div 4) % 4)
    OBVIOUS
  <2>2. x % 16 = (x % 4) + ((x \div 4) % 4) * 4
    OBVIOUS
  <2>3. And2(x, y) \in Int /\ And2(x \div 4, y \div 4) \in Int
    BY DEF And2, Bit, Bits
  <2>4. QED
    BY <1>1, <2>1, <2>2, <2>3 DEF And4
<1>3. \A x, y, z \in Int : z % 256 = 255 - (y % 256) => And8(x, z) = (x % 256) - And8(x, y)
  <2> SUFFICES ASSUME NEW x \in Int, NEW y \in Int, NEW z \in Int, z % 256 = 255 - (y % 256)
               PROVE  And8(x, z) = (x % 256) - And8(x, y)
    OBVIOUS
  <2>1. z % 16 = 15 - (y % 16) /\ (z \div 16) % 16 = 15 - ((y \div 16) % 16)
    OBVIOUS
  <2>2. x % 256 = (x % 16) + ((x \div 16) % 16) * 16
    OBVIOUS
  <2>3. And4(x, y) \in Int /\ And4(x \div 16, y \div 16) \in Int
    BY DEF And4, And2, Bit, Bits
  <2>4. QED
    BY <1>2, <2>1, <2>2, <2>3 DEF And8
<1>4. \A x, y \in Int : And8(x, y) \in Int
  BY DEF And8, And4, And2, Bit, Bits
<1>5. ASSUME NEW x \in Int, NEW y \in Int, NEW z \in Int, NEW u \in Int, NEW v \in Int, NEW w \in Int,
             z % 256 = 255 - (y % 256), w % 256 = 255 - (v % 256)
      PROVE  /\ And8(x, z) = (x % 256) - And8(x, y)
             /\ And8(u, w) = (u % 256) - And8(u, v)
  <2>1. And8(x, z) = (x % 256) - And8(x, y)
    BY <1>3, <1>5
  <2>2. And8(u, w) = (u % 256) - And8(u, v)
    BY <1>3, <1>5
  <2>3. QED
    BY <2>1, <2>2
<1>6. ASSUME NEW x \in Int, NEW y \in Int, NEW z \in Int, z % 65536 = 65535 - (y % 65536)
       PROVE  And16(x, z) = (x % 65536) - And16(x, y)
  <2>1. z % 256 = 255 - (y % 256) /\ (z \div 256) % 256 = 255 - ((y \div 256) % 256)
    BY <1>6, SMT
  <2>2. x % 65536 = (x % 256) + ((x \div 256) % 256) * 256
    BY SMT
  <2>3. x \div 256 \in Int /\ y \div 256 \in Int /\ z \div 256 \in Int
    BY SMT
  <2>4. /\ And8(x, z) = (x % 256) - And8(x, y)
        /\ And8(x \div 256, z \div 256) = ((x \div 256) % 256) - And8(x \div 256, y \div 256)
    BY <1>5, <2>1, <2>3
  <2>5. And8(x, y) \in Int /\ And8(x \div 256, y \div 256) \in Int
    BY <1>4, <2>3
  <2>6. QED
    BY <2>2, <2>4, <2>5, SMT DEF And16
<1>7. \A x, y \in Int : And16(x, y) \in Int
  <2> TAKE x, y \in Int
  <2>1. x \div 256 \in Int /\ y \div 256 \in Int
    BY SMT
  <2>2. And8(x, y) \in Int /\ And8(x \div 256, y \div 256) \in Int
    BY <1>4, <2>1
  <2>3. QED
    BY <2>2, SMT DEF And16
<1> DEFINE c == 2^XLEN - 1 - b
<1>8. c \in Int /\ a \in Int /\ b \in Int
  BY SMT DEF Words
<1>9. c % 65536 = 65535 - (b % 65536) /\ (c \div 65536) % 65536 = 65535 - ((b \div 65536) % 65536)
  BY SMT DEF Words
<1>10. a = (a % 65536) + ((a \div 65536) % 65536) * 65536
  BY SMT DEF Words
<1> HIDE DEF c
<1>11. a \div 65536 \in Int /\ b \div 65536 \in Int /\ c \div 65536 \in Int
  BY <1>8, SMT
<1>12. /\ And16(a, c) = (a % 65536) - And16(a, b)
       /\ And16(a \div 65536, c \div 65536) = ((a \div 65536) % 65536) - And16(a \div 65536, b \div 65536)
  BY <1>6, <1>8, <1>9, <1>11, SMT
<1>13. And16(a, b) \in Int /\ And16(a \div 65536, b \div 65536) \in Int
  BY <1>7, <1>8, <1>11
<1>14. (a & c) = a - (a & b)
  BY <1>8, <1>10, <1>12, <1>13, SMT DEF &
<1>15. QED
  BY <1>14 DEF c

(***************************************************************************)
(* States, instructions and what is to be shown of one instruction.        *)
(***************************************************************************)
Byte == 0 .. 255
GoodMem(mem) == \A a : ByteAt(mem, a) \in Byte
GoodCsrs(csrs) ==
  /\ csrs \in [Writable -> Words]
  /\ csrs[Mepc] % 2 = 0 /\ csrs[Mtvec] % 4 = 0 /\ (csrs[Mie] & IrqBits) = csrs[Mie]
GoodState(s) ==
  /\ s.pc \in Words /\ s.pc % 2 = 0
  /\ s.regs \in [1 .. 15 -> Words]
  /\ GoodMem(s.mem)
  /\ GoodCsrs(s.csrs)

\* The model and the core may differ in mstatus.MPP only.
SameMem(mem, other) == \A a : ByteAt(mem, a) = ByteAt(other, a)
SameCsrs(csrs, other) ==
  /\ \A a \in Writable \ {Mstatus} : csrs[a] = other[a]
  /\ Bit(csrs[Mstatus], 3) = Bit(other[Mstatus], 3)
  /\ Bit(csrs[Mstatus], 7) = Bit(other[Mstatus], 7)
Alike(s, t) == s.pc = t.pc /\ s.regs = t.regs /\ SameMem(s.mem, t.mem) /\ SameCsrs(s.csrs, t.csrs)

\* What the core executes: the fields, or the expansion of the parcel.
Decoded(insn) == IF insn.len = 2 THEN R!DecodeRvc(insn.parcel) ELSE insn

\* Both trap, with causes TrapsAgree accepts.
OneTrap(m, r) ==
  /\ m.cause # "none" /\ r.cause # "none"
  /\ \/ m.cause = r.cause
     \/ m.cause \in Illegal /\ r.cause \in Illegal
     \/ m.cause = "rv32e_register" /\ r.cause \in {"load_misaligned", "store_misaligned"}

\* Neither traps, and they do the same.
OneEffect(s, t, m, r) ==
  /\ m.cause = "none" /\ r.cause = "none"
  /\ GoodState(M!After(s, m)) /\ GoodState(M!After(t, r)) /\ Alike(M!After(s, m), M!After(t, r))
  /\ m.sleeping = r.sleeping
  /\ r.addr = IF m.addr = None THEN None ELSE AlignDown(m.addr, 4)

\* An instruction that goes to pc and writes v to register rd, and touches nothing else.
Writes(o, pc, rd, v) ==
  /\ o.cause = "none" /\ o.pc = pc
  /\ IF rd = 0 THEN o.rd = None ELSE o.rd = rd /\ o.wdata = v
Plain(o, s, pc, rd, v) ==
  /\ Writes(o, pc, rd, v)
  /\ o.mem = s.mem /\ o.csrs = s.csrs /\ o.sleeping = FALSE /\ o.addr = None

\* The registers after an outcome that writes.
LEMMA AfterWrites ==
  ASSUME NEW s, s.regs \in [1 .. 15 -> Words], NEW o, NEW pc, NEW rd \in 0 .. 15, NEW v \in Words,
         Writes(o, pc, rd, v)
  PROVE  /\ M!After(s, o).pc = pc /\ M!After(s, o).mem = o.mem /\ M!After(s, o).csrs = o.csrs
         /\ M!After(s, o).regs = IF rd = 0 THEN s.regs ELSE [s.regs EXCEPT ![rd] = v]
         /\ M!After(s, o).regs \in [1 .. 15 -> Words]
<1>1. M!None = None /\ None \notin 1 .. 15
  BY DEF None, M!None
<1>2. /\ M!After(s, o).pc = o.pc /\ M!After(s, o).mem = o.mem /\ M!After(s, o).csrs = o.csrs
      /\ M!After(s, o).regs = IF o.rd # None THEN [s.regs EXCEPT ![o.rd] = o.wdata] ELSE s.regs
  BY <1>1 DEF M!After
<1>3. M!After(s, o).regs = IF rd = 0 THEN s.regs ELSE [s.regs EXCEPT ![rd] = v]
  BY <1>1, <1>2 DEF Writes
<1>4. IF rd = 0 THEN TRUE ELSE [s.regs EXCEPT ![rd] = v] \in [1 .. 15 -> Words]
  OBVIOUS
<1>5. QED
  BY <1>2, <1>3, <1>4 DEF Writes

\* Or that writes nothing.
LEMMA AfterNothing ==
  ASSUME NEW s, NEW o, NEW pc, NEW v, Writes(o, pc, 0, v)
  PROVE  /\ M!After(s, o).pc = pc /\ M!After(s, o).mem = o.mem /\ M!After(s, o).csrs = o.csrs
         /\ M!After(s, o).regs = s.regs
<1>1. M!None = None
  BY DEF None, M!None
<1>2. QED
  BY <1>1 DEF M!After, Writes

\* Two outcomes agree if they go to one place, write one value and leave memories and CSRs
\* that agree; the model may instead write nothing where the register holds the value
\* already, as for a hint.
LEMMA EffectsAgree ==
  ASSUME NEW s, NEW t, s.regs \in [1 .. 15 -> Words], s.regs = t.regs, NEW m, NEW r,
         NEW pc \in Words, pc % 2 = 0, NEW rd \in 0 .. 15, NEW v \in Words,
         \/ Writes(m, pc, rd, v)
         \/ Writes(m, pc, 0, v) /\ (rd = 0 \/ v = s.regs[rd]),
         Writes(r, pc, rd, v),
         GoodMem(m.mem), GoodMem(r.mem), SameMem(m.mem, r.mem),
         GoodCsrs(m.csrs), GoodCsrs(r.csrs), SameCsrs(m.csrs, r.csrs),
         m.sleeping = r.sleeping,
         r.addr = IF m.addr = None THEN None ELSE AlignDown(m.addr, 4)
  PROVE  OneEffect(s, t, m, r)
<1>1. /\ M!After(t, r).pc = pc /\ M!After(t, r).mem = r.mem /\ M!After(t, r).csrs = r.csrs
      /\ M!After(t, r).regs = IF rd = 0 THEN t.regs ELSE [t.regs EXCEPT ![rd] = v]
      /\ M!After(t, r).regs \in [1 .. 15 -> Words]
  BY AfterWrites
<1>2. /\ M!After(s, m).pc = pc /\ M!After(s, m).mem = m.mem /\ M!After(s, m).csrs = m.csrs
      /\ M!After(s, m).regs = IF rd = 0 THEN s.regs ELSE [s.regs EXCEPT ![rd] = v]
      /\ M!After(s, m).regs \in [1 .. 15 -> Words]
  <2>1. CASE Writes(m, pc, rd, v)
    BY <2>1, AfterWrites
  <2>2. CASE Writes(m, pc, 0, v) /\ (rd = 0 \/ v = s.regs[rd])
    <3>1. /\ M!After(s, m).pc = pc /\ M!After(s, m).mem = m.mem /\ M!After(s, m).csrs = m.csrs
          /\ M!After(s, m).regs = s.regs
      BY <2>2, AfterNothing
    <3>2. ASSUME rd # 0 PROVE s.regs = [s.regs EXCEPT ![rd] = v]
      <4>1. rd \in 1 .. 15 /\ s.regs[rd] = v
        BY <2>2, <3>2
      <4>2. s.regs = [[i \in 1 .. 15 |-> s.regs[i]] EXCEPT ![rd] = s.regs[rd]]
        BY <4>1
      <4>3. QED
        BY <4>1, <4>2
    <3>3. QED
      BY <3>1, <3>2
  <2>3. QED
    BY <2>1, <2>2
<1>3. m.cause = "none" /\ r.cause = "none"
  BY DEF Writes
<1>4. GoodState(M!After(s, m)) /\ GoodState(M!After(t, r))
  BY <1>1, <1>2 DEF GoodState
<1>5. Alike(M!After(s, m), M!After(t, r))
  BY <1>1, <1>2 DEF Alike
<1>6. QED
  BY <1>3, <1>4, <1>5 DEF OneEffect

\* So do two plain ones.
LEMMA PlainAgrees ==
  ASSUME NEW s, NEW t, GoodState(s), GoodState(t), Alike(s, t), NEW m, NEW r,
         NEW pc \in Words, pc % 2 = 0, NEW rd \in 0 .. 15, NEW v \in Words,
         \/ Plain(m, s, pc, rd, v)
         \/ Plain(m, s, pc, 0, v) /\ (rd = 0 \/ v = s.regs[rd]),
         Plain(r, t, pc, rd, v)
  PROVE  OneEffect(s, t, m, r)
<1>1. /\ Writes(r, pc, rd, v)
      /\ Writes(m, pc, rd, v) \/ (Writes(m, pc, 0, v) /\ (rd = 0 \/ v = s.regs[rd]))
  BY DEF Plain
<1>2. /\ r.mem = t.mem /\ r.csrs = t.csrs /\ m.mem = s.mem /\ m.csrs = s.csrs
      /\ m.sleeping = r.sleeping /\ m.addr = None /\ r.addr = None
  BY DEF Plain
<1>3. /\ s.regs \in [1 .. 15 -> Words] /\ s.regs = t.regs
      /\ GoodMem(m.mem) /\ GoodMem(r.mem) /\ SameMem(m.mem, r.mem)
      /\ GoodCsrs(m.csrs) /\ GoodCsrs(r.csrs) /\ SameCsrs(m.csrs, r.csrs)
  BY <1>2 DEF GoodState, Alike
<1>4. QED
  BY <1>1, <1>2, <1>3, EffectsAgree

LowHalf(x) == x % 2^16
HighByte(x) == x \div 2^8
HighHalf(x) == x \div 2^16

\* A bitwise and is at most either word.
LEMMA AndBounds ==
  ASSUME XLEN = 32, NEW a \in Words, NEW b \in Words
  PROVE  (a & b) \in Nat /\ (a & b) <= a /\ (a & b) <= b
<1>1. ASSUME NEW x \in Int, NEW y \in Int
      PROVE  And2(x, y) \in Nat /\ And2(x, y) <= x % 4 /\ And2(x, y) <= y % 4
  <2>1. x % 4 = (x % 2) + Bit(x, 1) * 2 /\ x % 2 \in 0 .. 1 /\ Bit(x, 1) \in 0 .. 1
    BY DEF Bit, Bits
  <2>2. y % 4 = (y % 2) + Bit(y, 1) * 2 /\ y % 2 \in 0 .. 1 /\ Bit(y, 1) \in 0 .. 1
    BY DEF Bit, Bits
  <2>3. \A u, v \in 0 .. 1 : u * v \in 0 .. 1 /\ u * v <= u /\ u * v <= v
    BY SMT
  <2>4. /\ (x % 2) * (y % 2) \in 0 .. 1 /\ (x % 2) * (y % 2) <= x % 2 /\ (x % 2) * (y % 2) <= y % 2
        /\ Bit(x, 1) * Bit(y, 1) \in 0 .. 1 /\ Bit(x, 1) * Bit(y, 1) <= Bit(x, 1)
        /\ Bit(x, 1) * Bit(y, 1) <= Bit(y, 1)
    BY <2>1, <2>2, <2>3
  <2>5. And2(x, y) = (x % 2) * (y % 2) + (Bit(x, 1) * Bit(y, 1)) * 2
    BY DEF And2
  <2> DEFINE g == (x % 2) * (y % 2)
             h == Bit(x, 1) * Bit(y, 1)
  <2> HIDE DEF g, h
  <2>6. /\ g \in 0 .. 1 /\ g <= x % 2 /\ g <= y % 2
        /\ h \in 0 .. 1 /\ h <= Bit(x, 1) /\ h <= Bit(y, 1) /\ And2(x, y) = g + h * 2
    BY <2>4, <2>5 DEF g, h
  <2>7. QED
    BY <2>1, <2>2, <2>6, SMT
<1>2. ASSUME NEW x \in Int, NEW y \in Int
      PROVE  And4(x, y) \in Nat /\ And4(x, y) <= x % 16 /\ And4(x, y) <= y % 16
  <2>1. x \div 4 \in Int /\ y \div 4 \in Int
    BY SMT
  <2>2. /\ And2(x, y) \in Nat /\ And2(x, y) <= x % 4 /\ And2(x, y) <= y % 4
        /\ And2(x \div 4, y \div 4) \in Nat
        /\ And2(x \div 4, y \div 4) <= (x \div 4) % 4 /\ And2(x \div 4, y \div 4) <= (y \div 4) % 4
    BY <1>1, <2>1
  <2>3. x % 16 = (x % 4) + ((x \div 4) % 4) * 4 /\ y % 16 = (y % 4) + ((y \div 4) % 4) * 4
    BY SMT
  <2>4. x % 4 \in Int /\ y % 4 \in Int /\ (x \div 4) % 4 \in Int /\ (y \div 4) % 4 \in Int
    BY SMT
  <2>5. And4(x, y) = And2(x, y) + And2(x \div 4, y \div 4) * 4
    BY DEF And4
  <2> HIDE DEF And2
  <2>6. QED
    BY <2>2, <2>3, <2>4, <2>5, SMT
<1>3. ASSUME NEW x \in Int, NEW y \in Int
      PROVE  And8(x, y) \in Nat /\ And8(x, y) <= x % 256 /\ And8(x, y) <= y % 256
  <2>1. x \div 16 \in Int /\ y \div 16 \in Int
    BY SMT
  <2>2. /\ And4(x, y) \in Nat /\ And4(x, y) <= x % 16 /\ And4(x, y) <= y % 16
        /\ And4(x \div 16, y \div 16) \in Nat
        /\ And4(x \div 16, y \div 16) <= (x \div 16) % 16 /\ And4(x \div 16, y \div 16) <= (y \div 16) % 16
    BY <1>2, <2>1
  <2>3. x % 256 = (x % 16) + ((x \div 16) % 16) * 16 /\ y % 256 = (y % 16) + ((y \div 16) % 16) * 16
    BY SMT
  <2>4. x % 16 \in Int /\ y % 16 \in Int /\ (x \div 16) % 16 \in Int /\ (y \div 16) % 16 \in Int
    BY SMT
  <2>5. And8(x, y) = And4(x, y) + And4(x \div 16, y \div 16) * 16
    BY DEF And8
  <2>6. QED
    BY <2>2, <2>3, <2>4, <2>5, SMT
<1>4. ASSUME NEW x \in Int, NEW y \in Int
      PROVE  And16(x, y) \in Nat /\ And16(x, y) <= LowHalf(x) /\ And16(x, y) <= LowHalf(y)
  <2>1. x \div 256 \in Int /\ y \div 256 \in Int
    BY SMT
  <2>2. /\ And8(x, y) \in Nat /\ And8(x, y) <= x % 256 /\ And8(x, y) <= y % 256
        /\ And8(x \div 256, y \div 256) \in Nat
        /\ And8(x \div 256, y \div 256) <= (x \div 256) % 256 /\ And8(x \div 256, y \div 256) <= (y \div 256) % 256
    <3>1. And8(x, y) \in Nat /\ And8(x, y) <= x % 256 /\ And8(x, y) <= y % 256
      BY <1>3
    <3> DEFINE u == x \div 256
               v == y \div 256
    <3>2. u \in Int /\ v \in Int
      BY <2>1
    <3> HIDE DEF u, v
    <3>3. And8(u, v) \in Nat /\ And8(u, v) <= u % 256 /\ And8(u, v) <= v % 256
      BY <1>3, <3>2
    <3>4. QED
      BY <3>1, <3>3 DEF u, v
  <2>3. LowHalf(x) = (x % 256) + ((x \div 256) % 256) * 256 /\ LowHalf(y) = (y % 256) + ((y \div 256) % 256) * 256
    BY SMT DEF LowHalf
  <2>4. x % 256 \in Int /\ y % 256 \in Int /\ (x \div 256) % 256 \in Int /\ (y \div 256) % 256 \in Int
    BY SMT
  <2>5. And16(x, y) = And8(x, y) + And8(x \div 256, y \div 256) * 256
    BY SMT DEF And16
  <2>6. QED
    BY <2>2, <2>3, <2>4, <2>5, SMT
<1>5. a \in Int /\ b \in Int /\ HighHalf(a) \in Int /\ HighHalf(b) \in Int
  BY SMT DEF Words, HighHalf
<1>6. /\ And16(a, b) \in Nat /\ And16(a, b) <= LowHalf(a) /\ And16(a, b) <= LowHalf(b)
      /\ And16(HighHalf(a), HighHalf(b)) \in Nat
      /\ And16(HighHalf(a), HighHalf(b)) <= LowHalf(HighHalf(a))
      /\ And16(HighHalf(a), HighHalf(b)) <= LowHalf(HighHalf(b))
  BY <1>4, <1>5
<1>7. /\ a = LowHalf(a) + LowHalf(HighHalf(a)) * 65536 /\ b = LowHalf(b) + LowHalf(HighHalf(b)) * 65536
      /\ LowHalf(a) \in Int /\ LowHalf(b) \in Int /\ LowHalf(HighHalf(a)) \in Int
      /\ LowHalf(HighHalf(b)) \in Int
  BY SMT DEF Words, HighHalf, LowHalf
<1>8. (a & b) = And16(a, b) + And16(HighHalf(a), HighHalf(b)) * 65536
  BY SMT DEF &, HighHalf
<1>9. QED
  BY <1>6, <1>7, <1>8, SMT

\* The bitwise operations make words.
LEMMA BitwiseWords ==
  ASSUME XLEN = 32, NEW a \in Words, NEW b \in Words
  PROVE  (a & b) \in Words /\ (a | b) \in Words /\ (a ^^ b) \in Words
<1> DEFINE c == 2^XLEN - 1 - b
<1>1. a \in Nat /\ b \in Nat /\ a < 4294967296 /\ b < 4294967296
  BY SMT DEF Words
<1>2. c \in Words /\ c = 4294967295 - b
  BY <1>1, SMT DEF Words
<1>3. (a & c) = a - (a & b)
  BY AndNot
<1> HIDE DEF c
<1>4. (a & b) \in Nat /\ (a & b) <= a /\ (a & b) <= b /\ (a & c) <= c
  BY <1>2, AndBounds
<1>5. a - (a & b) <= 4294967295 - b
  BY <1>1, <1>2, <1>3, <1>4, SMT
<1>6. (a | b) = a + b - (a & b) /\ (a ^^ b) = a + b - 2 * (a & b)
  BY SMT DEF |, ^^
<1>7. (a & b) \in Words
  BY <1>1, <1>4, SMT DEF Words
<1>8. (a | b) \in Words
  BY <1>1, <1>4, <1>5, <1>6, SMT DEF Words
<1>9. (a ^^ b) \in Words
  BY <1>1, <1>4, <1>5, <1>6, SMT DEF Words
<1>10. QED
  BY <1>7, <1>8, <1>9

\* A word is a power of two times the power above it.
LEMMA Powers ==
  ASSUME XLEN = 32, NEW n \in 0 .. 31
  PROVE  2^n \in Nat \ {0} /\ 2^(XLEN - n) \in Nat \ {0} /\ 2^(XLEN - n) * 2^n = 2^XLEN
<1>1. CASE n = 0
  BY <1>1, SMT
<1>2. CASE n = 1
  BY <1>2, SMT
<1>3. CASE n = 2
  BY <1>3, SMT
<1>4. CASE n = 3
  BY <1>4, SMT
<1>5. CASE n = 4
  BY <1>5, SMT
<1>6. CASE n = 5
  BY <1>6, SMT
<1>7. CASE n = 6
  BY <1>7, SMT
<1>8. CASE n = 7
  BY <1>8, SMT
<1>9. CASE n = 8
  BY <1>9, SMT
<1>10. CASE n = 9
  BY <1>10, SMT
<1>11. CASE n = 10
  BY <1>11, SMT
<1>12. CASE n = 11
  BY <1>12, SMT
<1>13. CASE n = 12
  BY <1>13, SMT
<1>14. CASE n = 13
  BY <1>14, SMT
<1>15. CASE n = 14
  BY <1>15, SMT
<1>16. CASE n = 15
  BY <1>16, SMT
<1>17. CASE n = 16
  BY <1>17, SMT
<1>18. CASE n = 17
  BY <1>18, SMT
<1>19. CASE n = 18
  BY <1>19, SMT
<1>20. CASE n = 19
  BY <1>20, SMT
<1>21. CASE n = 20
  BY <1>21, SMT
<1>22. CASE n = 21
  BY <1>22, SMT
<1>23. CASE n = 22
  BY <1>23, SMT
<1>24. CASE n = 23
  BY <1>24, SMT
<1>25. CASE n = 24
  BY <1>25, SMT
<1>26. CASE n = 25
  BY <1>26, SMT
<1>27. CASE n = 26
  BY <1>27, SMT
<1>28. CASE n = 27
  BY <1>28, SMT
<1>29. CASE n = 28
  BY <1>29, SMT
<1>30. CASE n = 29
  BY <1>30, SMT
<1>31. CASE n = 30
  BY <1>31, SMT
<1>32. CASE n = 31
  BY <1>32, SMT
<1>33. n \in 0 .. 31
  OBVIOUS
<1>34. QED
  BY <1>1, <1>2, <1>3, <1>4, <1>5, <1>6, <1>7, <1>8, <1>9, <1>10, <1>11, <1>12, <1>13, <1>14, <1>15, <1>16, <1>17, <1>18, <1>19, <1>20, <1>21, <1>22, <1>23, <1>24, <1>25, <1>26, <1>27, <1>28, <1>29, <1>30, <1>31, <1>32, <1>33

\* The shifts make words.
LEMMA ShiftWords ==
  ASSUME XLEN = 32, NEW a \in Words, NEW n \in 0 .. 31
  PROVE  Shl(a, n) \in Words /\ Shr(a, n) \in Words /\ Sra(a, n) \in Words
<1>1. PICK p \in Nat \ {0}, q \in Nat \ {0} : 2^n = q /\ 2^(XLEN - n) = p /\ p * q = 2^XLEN
  <2>1. 2^n \in Nat \ {0} /\ 2^(XLEN - n) \in Nat \ {0} /\ 2^(XLEN - n) * 2^n = 2^XLEN
    BY Powers
  <2>2. QED
    BY <2>1
<1>2. a \in Nat /\ a < 2^XLEN /\ ~(n >= XLEN)
  BY SMT DEF Words
<1>3. Shl(a, n) \in Words
  <2>1. Shl(a, n) = (a % p) * q
    BY <1>1, <1>2 DEF Shl
  <2>2. a % p \in Nat /\ a % p <= p - 1
    BY <1>1, <1>2, SMT
  <2>3. (a % p) * q \in Nat /\ (a % p) * q <= (p - 1) * q
    BY <1>1, <2>2, SMT
  <2>4. (p - 1) * q = p * q - q
    BY <1>1, SMT
  <2>5. QED
    BY <1>1, <2>1, <2>3, <2>4, SMT DEF Words
<1>4. Shr(a, n) \in Words
  <2>1. Shr(a, n) = a \div q
    BY <1>1, <1>2 DEF Shr
  <2>2. a \div q \in Nat /\ a \div q <= a
    BY <1>1, <1>2, SMT
  <2>3. QED
    BY <1>2, <2>1, <2>2, SMT DEF Words
<1>5. Sra(a, n) \in Words
  <2>1. Sra(a, n) = Word(Signed(a) \div q)
    BY <1>1, <1>2 DEF Sra
  <2>2. Signed(a) \in Int
    BY <1>2, SMT DEF Signed, Sext, Bit, Bits
  <2>3. Signed(a) \div q \in Int
    BY <1>1, <2>2, SMT
  <2>4. QED
    BY <2>1, <2>3, WordFacts
<1>6. QED
  BY <1>3, <1>4, <1>5

\* The bits of a byte that mstatus keeps, under the bitwise operations: l and m are the
\* operation on the bits below.
LEMMA AndDigits ==
  ASSUME NEW x \in Int, NEW y \in Int
  PROVE  \E l, m \in 0 .. 7 :
           /\ And8(x, y) = l + 8 * (Bit(x, 3) * Bit(y, 3)) + 16 * m + 128 * (Bit(x, 7) * Bit(y, 7))
           /\ l <= x % 8 /\ (x % 8) + (y % 8) - l <= 7
           /\ m <= Bits(x, 6, 4) /\ Bits(x, 6, 4) + Bits(y, 6, 4) - m <= 7
           /\ l <= y % 8 /\ m <= Bits(y, 6, 4)
<1> DEFINE P(i) == Bit(x, i) * Bit(y, i)
<1>1. \A u, v \in 0 .. 1 : u * v \in 0 .. 1 /\ u * v <= u /\ u * v <= v /\ u + v - u * v <= 1
  BY SMT
<1>2. \A i \in 0 .. 7 : Bit(x, i) \in 0 .. 1 /\ Bit(y, i) \in 0 .. 1
  <2>1. \A z \in Int : z % 2 \in 0 .. 1
    BY SMT
  <2>2. /\ Bit(x, 0) = (x \div 1) % 2 /\ Bit(x, 1) = (x \div 2) % 2 /\ Bit(x, 2) = (x \div 4) % 2
        /\ Bit(x, 3) = (x \div 8) % 2 /\ Bit(x, 4) = (x \div 16) % 2 /\ Bit(x, 5) = (x \div 32) % 2
        /\ Bit(x, 6) = (x \div 64) % 2 /\ Bit(x, 7) = (x \div 128) % 2
    BY SMT DEF Bit, Bits
  <2>3. /\ Bit(y, 0) = (y \div 1) % 2 /\ Bit(y, 1) = (y \div 2) % 2 /\ Bit(y, 2) = (y \div 4) % 2
        /\ Bit(y, 3) = (y \div 8) % 2 /\ Bit(y, 4) = (y \div 16) % 2 /\ Bit(y, 5) = (y \div 32) % 2
        /\ Bit(y, 6) = (y \div 64) % 2 /\ Bit(y, 7) = (y \div 128) % 2
    BY SMT DEF Bit, Bits
  <2>4. QED
    BY <2>1, <2>2, <2>3, SMT
<1>3. \A i \in 0 .. 7 : /\ P(i) \in 0 .. 1 /\ P(i) <= Bit(x, i) /\ P(i) <= Bit(y, i)
                        /\ Bit(x, i) + Bit(y, i) - P(i) <= 1
  BY <1>1, <1>2
<1>4. \A u, v \in Int : And2(u, v) = Bit(u, 0) * Bit(v, 0) + Bit(u, 1) * Bit(v, 1) * 2
  BY DEF And2, Bit, Bits
<1>5. \A z \in {x, y} :
        /\ Bit(z \div 4, 0) = Bit(z, 2) /\ Bit(z \div 4, 1) = Bit(z, 3)
        /\ Bit(z \div 16, 0) = Bit(z, 4) /\ Bit(z \div 16, 1) = Bit(z, 5)
        /\ Bit((z \div 16) \div 4, 0) = Bit(z, 6) /\ Bit((z \div 16) \div 4, 1) = Bit(z, 7)
  <2>1. ASSUME NEW z \in Int
        PROVE  /\ Bit(z \div 4, 0) = Bit(z, 2) /\ Bit(z \div 4, 1) = Bit(z, 3)
               /\ Bit(z \div 16, 0) = Bit(z, 4) /\ Bit(z \div 16, 1) = Bit(z, 5)
               /\ Bit((z \div 16) \div 4, 0) = Bit(z, 6) /\ Bit((z \div 16) \div 4, 1) = Bit(z, 7)
    BY SMT DEF Bit, Bits
  <2>2. QED
    BY <2>1
<1>6. /\ And2(x, y) = P(0) + P(1) * 2
      /\ And2(x \div 4, y \div 4) = P(2) + P(3) * 2
      /\ And2(x \div 16, y \div 16) = P(4) + P(5) * 2
      /\ And2((x \div 16) \div 4, (y \div 16) \div 4) = P(6) + P(7) * 2
  BY <1>4, <1>5
<1>7. And8(x, y) = (P(0) + P(1) * 2) + (P(2) + P(3) * 2) * 4
                     + ((P(4) + P(5) * 2) + (P(6) + P(7) * 2) * 4) * 16
  <2>1. /\ And4(x, y) = And2(x, y) + And2(x \div 4, y \div 4) * 4
        /\ And4(x \div 16, y \div 16) = And2(x \div 16, y \div 16)
                                         + And2((x \div 16) \div 4, (y \div 16) \div 4) * 4
    BY DEF And4
  <2>2. And8(x, y) = And4(x, y) + And4(x \div 16, y \div 16) * 16
    BY DEF And8
  <2> HIDE DEF P
  <2>3. QED
    BY <1>6, <2>1, <2>2
<1>8. \A z \in {x, y} : /\ z % 8 = Bit(z, 0) + 2 * Bit(z, 1) + 4 * Bit(z, 2)
                        /\ Bits(z, 6, 4) = Bit(z, 4) + 2 * Bit(z, 5) + 4 * Bit(z, 6)
  BY SMT DEF Bit, Bits
<1> HIDE DEF P
<1> DEFINE l == P(0) + 2 * P(1) + 4 * P(2)
           m == P(4) + 2 * P(5) + 4 * P(6)
<1>9. /\ P(0) \in 0 .. 1 /\ P(1) \in 0 .. 1 /\ P(2) \in 0 .. 1 /\ P(3) \in 0 .. 1
      /\ P(4) \in 0 .. 1 /\ P(5) \in 0 .. 1 /\ P(6) \in 0 .. 1 /\ P(7) \in 0 .. 1
  BY <1>3
<1>10. And8(x, y) = l + 8 * P(3) + 16 * m + 128 * P(7) /\ l \in 0 .. 7 /\ m \in 0 .. 7
  BY <1>7, <1>9, SMT
<1>11. /\ l <= x % 8 /\ l <= y % 8 /\ (x % 8) + (y % 8) - l <= 7
       /\ m <= Bits(x, 6, 4) /\ m <= Bits(y, 6, 4) /\ Bits(x, 6, 4) + Bits(y, 6, 4) - m <= 7
  <2>1. ASSUME NEW p0 \in 0 .. 1, NEW p1 \in 0 .. 1, NEW p2 \in 0 .. 1, NEW u0 \in 0 .. 1, NEW u1 \in 0 .. 1,
               NEW u2 \in 0 .. 1, NEW v0 \in 0 .. 1, NEW v1 \in 0 .. 1, NEW v2 \in 0 .. 1,
               p0 <= u0, p1 <= u1, p2 <= u2, p0 <= v0, p1 <= v1, p2 <= v2,
               u0 + v0 - p0 <= 1, u1 + v1 - p1 <= 1, u2 + v2 - p2 <= 1
        PROVE  /\ p0 + 2 * p1 + 4 * p2 <= u0 + 2 * u1 + 4 * u2
               /\ p0 + 2 * p1 + 4 * p2 <= v0 + 2 * v1 + 4 * v2
               /\ (u0 + 2 * u1 + 4 * u2) + (v0 + 2 * v1 + 4 * v2) - (p0 + 2 * p1 + 4 * p2) <= 7
    BY <2>1, SMT
  <2>2. \A i \in {0, 1, 2, 4, 5, 6} :
          /\ P(i) \in 0 .. 1 /\ Bit(x, i) \in 0 .. 1 /\ Bit(y, i) \in 0 .. 1
          /\ P(i) <= Bit(x, i) /\ P(i) <= Bit(y, i) /\ Bit(x, i) + Bit(y, i) - P(i) <= 1
    <3>1. \A i \in {0, 1, 2, 4, 5, 6} : i \in 0 .. 7
      BY SMT
    <3>2. QED
      BY <1>2, <1>3, <3>1
  <2>3. /\ l <= Bit(x, 0) + 2 * Bit(x, 1) + 4 * Bit(x, 2) /\ l <= Bit(y, 0) + 2 * Bit(y, 1) + 4 * Bit(y, 2)
        /\ (Bit(x, 0) + 2 * Bit(x, 1) + 4 * Bit(x, 2)) + (Bit(y, 0) + 2 * Bit(y, 1) + 4 * Bit(y, 2)) - l <= 7
    BY <2>1, <2>2
  <2>4. /\ m <= Bit(x, 4) + 2 * Bit(x, 5) + 4 * Bit(x, 6) /\ m <= Bit(y, 4) + 2 * Bit(y, 5) + 4 * Bit(y, 6)
        /\ (Bit(x, 4) + 2 * Bit(x, 5) + 4 * Bit(x, 6)) + (Bit(y, 4) + 2 * Bit(y, 5) + 4 * Bit(y, 6)) - m <= 7
    BY <2>1, <2>2
  <2> HIDE DEF l, m
  <2>5. QED
    BY <1>8, <2>3, <2>4
<1> HIDE DEF l, m
<1>12. QED
  BY <1>10, <1>11 DEF P

\* A word by its bits 3 and 7: the bits below each, and those above.
Mix(l, b3, m, b7, h) == l + 8 * b3 + 16 * m + 128 * b7 + 256 * h

\* The bits of a mix at the places of its parts.
LEMMA MixBits ==
  ASSUME NEW l \in 0 .. 7, NEW b3 \in 0 .. 1, NEW m \in 0 .. 7, NEW b7 \in 0 .. 1, NEW h \in Int
  PROVE  Bit(Mix(l, b3, m, b7, h), 3) = b3 /\ Bit(Mix(l, b3, m, b7, h), 7) = b7
<1> DEFINE z == Mix(l, b3, m, b7, h)
<1>1. z \div 8 = b3 + 2 * (m + 8 * b7 + 16 * h) /\ z \div 128 = b7 + 2 * h
  BY SMT DEF Mix
<1>2. Bit(z, 3) = b3 /\ Bit(z, 7) = b7
  BY <1>1, SMT DEF Bit, Bits
<1>3. QED
  BY <1>2

\* Bits 3 and 7 of what the bitwise operations make.
LEMMA KeptBits ==
  ASSUME XLEN = 32, NEW x \in Words, NEW y \in Words, NEW i \in {3, 7}
  PROVE  /\ Bit(x & y, i) = Bit(x, i) * Bit(y, i)
         /\ Bit(x | y, i) = Bit(x, i) + Bit(y, i) - Bit(x, i) * Bit(y, i)
         /\ Bit(x - (x & y), i) = Bit(x, i) - Bit(x, i) * Bit(y, i)
<1>1. x \in Int /\ y \in Int
  BY SMT DEF Words
<1>2. PICK l \in 0 .. 7, m \in 0 .. 7 :
           /\ And8(x, y) = l + 8 * (Bit(x, 3) * Bit(y, 3)) + 16 * m + 128 * (Bit(x, 7) * Bit(y, 7))
           /\ l <= x % 8 /\ (x % 8) + (y % 8) - l <= 7
           /\ m <= Bits(x, 6, 4) /\ Bits(x, 6, 4) + Bits(y, 6, 4) - m <= 7
           /\ l <= y % 8 /\ m <= Bits(y, 6, 4)
  BY <1>1, AndDigits
<1> DEFINE a3 == Bit(x, 3) * Bit(y, 3)
           a7 == Bit(x, 7) * Bit(y, 7)
           k == And8(HighByte(x), HighByte(y)) + And16(HighHalf(x), HighHalf(y)) * 256
<1>3. /\ Bit(x, 3) \in 0 .. 1 /\ Bit(y, 3) \in 0 .. 1 /\ Bit(x, 7) \in 0 .. 1 /\ Bit(y, 7) \in 0 .. 1
      /\ x % 8 \in 0 .. 7 /\ y % 8 \in 0 .. 7 /\ Bits(x, 6, 4) \in 0 .. 7 /\ Bits(y, 6, 4) \in 0 .. 7
  BY <1>1, SMT DEF Bit, Bits
<1>4. \A u, v \in 0 .. 1 : u * v \in 0 .. 1 /\ u * v <= u /\ u * v <= v /\ u + v - u * v <= 1
  BY SMT
<1>5. /\ a3 \in 0 .. 1 /\ a3 <= Bit(x, 3) /\ a3 <= Bit(y, 3) /\ Bit(x, 3) + Bit(y, 3) - a3 <= 1
      /\ a7 \in 0 .. 1 /\ a7 <= Bit(x, 7) /\ a7 <= Bit(y, 7) /\ Bit(x, 7) + Bit(y, 7) - a7 <= 1
  BY <1>3, <1>4
<1>6. (x & y) = And8(x, y) + k * 256 /\ k \in Int
  <2>1. (x & y) = And16(x, y) + And16(HighHalf(x), HighHalf(y)) * 65536
    BY SMT DEF &, HighHalf
  <2>2. And16(x, y) = And8(x, y) + And8(HighByte(x), HighByte(y)) * 256
    BY DEF And16, HighByte
  <2>3. \A u, v \in Int : And8(u, v) \in Int
    BY DEF And8, And4, And2, Bit, Bits
  <2>4. HighByte(x) \in Int /\ HighByte(y) \in Int /\ HighHalf(x) \in Int /\ HighHalf(y) \in Int
    BY <1>1, SMT DEF HighByte, HighHalf
  <2>5. \A u, v \in Int : And16(u, v) \in Int
    <3> TAKE u, v \in Int
    <3>1. u \div 256 \in Int /\ v \div 256 \in Int
      BY SMT
    <3>2. And8(u, v) \in Int /\ And8(u \div 256, v \div 256) \in Int
      BY <2>3, <3>1
    <3>3. QED
      BY <3>2 DEF And16
  <2>6. /\ And8(x, y) \in Int /\ And8(HighByte(x), HighByte(y)) \in Int
        /\ And16(HighHalf(x), HighHalf(y)) \in Int
    BY <1>1, <2>3, <2>4, <2>5
  <2>7. QED
    BY <2>1, <2>2, <2>6, SMT
<1>7. /\ x = (x % 8) + 8 * Bit(x, 3) + 16 * Bits(x, 6, 4) + 128 * Bit(x, 7) + 256 * HighByte(x)
      /\ y = (y % 8) + 8 * Bit(y, 3) + 16 * Bits(y, 6, 4) + 128 * Bit(y, 7) + 256 * HighByte(y)
      /\ HighByte(x) \in Int /\ HighByte(y) \in Int
  BY <1>1, SMTT(30) DEF Bit, Bits, HighByte
<1> DEFINE xl == x % 8
           xm == Bits(x, 6, 4)
           yl == y % 8
           ym == Bits(y, 6, 4)
           x3 == Bit(x, 3)
           x7 == Bit(x, 7)
           xh == HighByte(x)
           y3 == Bit(y, 3)
           y7 == Bit(y, 7)
           yh == HighByte(y)
<1>8. /\ l <= xl /\ l <= yl /\ xl + yl - l <= 7 /\ m <= xm /\ m <= ym /\ xm + ym - m <= 7
       /\ xl \in 0 .. 7 /\ yl \in 0 .. 7 /\ xm \in 0 .. 7 /\ ym \in 0 .. 7
  BY <1>2, <1>3
<1>9. /\ x = Mix(xl, x3, xm, x7, xh)
       /\ y = Mix(yl, y3, ym, y7, yh)
  BY <1>7 DEF Mix
<1>10. /\ x3 \in 0 .. 1 /\ y3 \in 0 .. 1 /\ x7 \in 0 .. 1 /\ y7 \in 0 .. 1 /\ xh \in Int /\ yh \in Int
  BY <1>3, <1>7
<1>11. /\ a3 \in 0 .. 1 /\ a3 <= x3 /\ a3 <= y3 /\ x3 + y3 - a3 <= 1
       /\ a7 \in 0 .. 1 /\ a7 <= x7 /\ a7 <= y7 /\ x7 + y7 - a7 <= 1
  BY <1>5
<1> HIDE DEF k, xl, xm, yl, ym, x3, x7, xh, y3, y7, yh
<1>12. (x & y) = Mix(l, a3, m, a7, k)
  <2>1. And8(x, y) = l + 8 * a3 + 16 * m + 128 * a7
    BY <1>2
  <2> HIDE DEF a3, a7
  <2>2. QED
    BY <1>2, <1>5, <1>6, <2>1, SMT DEF Mix
<1> HIDE DEF a3, a7
<1>13. l \in 0 .. 7 /\ m \in 0 .. 7 /\ k \in Int
  BY <1>2, <1>6
<1>14. Bit(x & y, 3) = a3 /\ Bit(x & y, 7) = a7
  BY <1>11, <1>12, <1>13, MixBits
<1>15. Bit(x | y, 3) = x3 + y3 - a3 /\ Bit(x | y, 7) = x7 + y7 - a7
  <2> DEFINE l0 == xl + yl - l
             m0 == xm + ym - m
             b3 == x3 + y3 - a3
             b7 == x7 + y7 - a7
             h == xh + yh - k
  <2>1. l0 \in 0 .. 7 /\ m0 \in 0 .. 7 /\ b3 \in 0 .. 1 /\ b7 \in 0 .. 1 /\ h \in Int
    BY <1>10, <1>11, <1>8, <1>13, SMT
  <2>2. ASSUME NEW u, NEW v, NEW w, u = Mix(xl, x3, xm, x7, xh), v = Mix(yl, y3, ym, y7, yh),
               w = Mix(l, a3, m, a7, k)
        PROVE  u + v - w = Mix(l0, b3, m0, b7, h)
    BY <1>10, <1>11, <1>8, <1>13, <2>2, SMT DEF Mix
  <2>3. x + y - (x & y) = Mix(l0, b3, m0, b7, h)
    BY <1>9, <1>12, <2>2
  <2>4. (x | y) = Mix(l0, b3, m0, b7, h)
    BY <2>3 DEF |
  <2> HIDE DEF l0, m0, b3, b7, h
  <2>5. Bit(x | y, 3) = b3 /\ Bit(x | y, 7) = b7
    BY <2>1, <2>4, MixBits
  <2>6. QED
    BY <2>5 DEF b3, b7
<1>16. Bit(x - (x & y), 3) = x3 - a3 /\ Bit(x - (x & y), 7) = x7 - a7
  <2> DEFINE l0 == xl - l
             m0 == xm - m
             b3 == x3 - a3
             b7 == x7 - a7
             h == xh - k
  <2>1. l0 \in 0 .. 7 /\ m0 \in 0 .. 7 /\ b3 \in 0 .. 1 /\ b7 \in 0 .. 1 /\ h \in Int
    BY <1>10, <1>11, <1>8, <1>13, SMT
  <2>2. ASSUME NEW u, NEW w, u = Mix(xl, x3, xm, x7, xh), w = Mix(l, a3, m, a7, k)
        PROVE  u - w = Mix(l0, b3, m0, b7, h)
    BY <1>10, <1>11, <1>8, <1>13, <2>2, SMT DEF Mix
  <2>3. x - (x & y) = Mix(l0, b3, m0, b7, h)
    BY <1>9, <1>12, <2>2
  <2> HIDE DEF l0, m0, b3, b7, h
  <2>4. Bit(x - (x & y), 3) = b3 /\ Bit(x - (x & y), 7) = b7
    BY <2>1, <2>3, MixBits
  <2>5. QED
    BY <2>4 DEF b3, b7
<1>17. QED
  BY <1>14, <1>15, <1>16 DEF a3, a7, x3, x7, y3, y7

\* And with the interrupt bits selects them, once and for all.
LEMMA IrqMask ==
  ASSUME XLEN = 32, NEW x \in Words
  PROVE  /\ (x & IrqBits) = 8 * Bit(x, 3) + 128 * Bit(x, 7) + 2048 * Bit(x, 11)
         /\ ((x & IrqBits) & IrqBits) = (x & IrqBits)
<1>1. ASSUME NEW u \in Int PROVE And2(u, 0) = 0 /\ And2(u, 2) = Bit(u, 1) * 2
  BY DEF And2, Bit, Bits
<1>2. \A u \in Int : And2(u, 136) = 0 /\ And2(u, 8) = 0 /\ And2(u, 34) = Bit(u, 1) * 2 /\ And2(u, 546) = Bit(u, 1) * 2
                     /\ And2(u, 2184) = 0 /\ And2(u, 0) = 0 /\ And2(u, 2) = Bit(u, 1) * 2
  BY DEF And2, Bit, Bits
<1>3. \A u \in Int : u \div 4 \in Int /\ u \div 16 \in Int /\ u \div 256 \in Int
  BY SMT
<1>4. \A u \in Int : /\ And4(u, 0) = 0 /\ And4(u, 8) = Bit(u \div 4, 1) * 8
                     /\ And4(u, 136) = Bit(u \div 4, 1) * 8 /\ And4(u, 2184) = Bit(u \div 4, 1) * 8
  <2> TAKE u \in Int
  <2>1. u \div 4 \in Int /\ Bit(u \div 4, 1) \in Int
    BY SMT DEF Bit, Bits
  <2>2. /\ And2(u, 0) = 0 /\ And2(u, 8) = 0 /\ And2(u, 136) = 0 /\ And2(u, 2184) = 0
        /\ And2(u \div 4, 0) = 0 /\ And2(u \div 4, 2) = Bit(u \div 4, 1) * 2
        /\ And2(u \div 4, 34) = Bit(u \div 4, 1) * 2 /\ And2(u \div 4, 546) = Bit(u \div 4, 1) * 2
    BY <1>2, <2>1
  <2>3. 0 \div 4 = 0 /\ 8 \div 4 = 2 /\ 136 \div 4 = 34 /\ 2184 \div 4 = 546
    BY SMT
  <2>4. QED
    BY <2>1, <2>2, <2>3, SMT DEF And4
<1>5. \A u \in Int : /\ And8(u, 0) = 0 /\ And8(u, 8) = Bit(u \div 4, 1) * 8
                     /\ And8(u, 2184) = Bit(u \div 4, 1) * 8 + Bit((u \div 16) \div 4, 1) * 128
  <2> TAKE u \in Int
  <2>1. u \div 16 \in Int /\ Bit(u \div 4, 1) \in Int /\ Bit((u \div 16) \div 4, 1) \in Int
    BY SMT DEF Bit, Bits
  <2>2. /\ And4(u, 0) = 0 /\ And4(u, 8) = Bit(u \div 4, 1) * 8 /\ And4(u, 2184) = Bit(u \div 4, 1) * 8
        /\ And4(u \div 16, 0) = 0 /\ And4(u \div 16, 136) = Bit((u \div 16) \div 4, 1) * 8
    BY <1>4, <2>1
  <2>3. 0 \div 16 = 0 /\ 8 \div 16 = 0 /\ 2184 \div 16 = 136
    BY SMT
  <2>4. QED
    BY <2>1, <2>2, <2>3, SMT DEF And8
<1>6. ASSUME NEW u \in Words
      PROVE  (u & IrqBits) = 8 * Bit(u, 3) + 128 * Bit(u, 7) + 2048 * Bit(u, 11)
  <2>1. u \in Int /\ HighByte(u) \in Int /\ HighHalf(u) \in Int /\ HighByte(HighHalf(u)) \in Int
    BY SMT DEF Words, HighByte, HighHalf
  <2>2. /\ And8(u, 2184) = Bit(u \div 4, 1) * 8 + Bit((u \div 16) \div 4, 1) * 128
        /\ And8(HighByte(u), 8) = Bit(HighByte(u) \div 4, 1) * 8
        /\ And8(HighHalf(u), 0) = 0 /\ And8(HighByte(HighHalf(u)), 0) = 0
    BY <1>5, <2>1
  <2>3. /\ And16(u, 2184) = And8(u, 2184) + And8(HighByte(u), 8) * 256
        /\ And16(HighHalf(u), 0) = And8(HighHalf(u), 0) + And8(HighByte(HighHalf(u)), 0) * 256
    <3>1. 2184 \div 2^8 = 8 /\ 0 \div 2^8 = 0
      BY SMT
    <3>2. QED
      BY <3>1 DEF And16, HighByte
  <2>4. (u & IrqBits) = And16(u, 2184) + And16(HighHalf(u), 0) * 65536
    <3>1. 2184 \div 2^16 = 0 /\ IrqBits = 2184
      BY SMT DEF IrqBits
    <3>2. (u & 2184) = And16(u, 2184) + And16(HighHalf(u), 2184 \div 2^16) * 65536
      BY SMTT(30) DEF &, HighHalf
    <3>3. QED
      BY <3>1, <3>2
  <2>5. /\ Bit(u \div 4, 1) = Bit(u, 3) /\ Bit((u \div 16) \div 4, 1) = Bit(u, 7)
        /\ Bit(HighByte(u) \div 4, 1) = Bit(u, 11)
    BY <2>1, SMTT(40) DEF Bit, Bits, HighByte
  <2>6. Bit(u, 3) \in Int /\ Bit(u, 7) \in Int /\ Bit(u, 11) \in Int
    BY <2>1, SMT DEF Bit, Bits
  <2>7. QED
    BY <2>2, <2>3, <2>4, <2>5, <2>6, SMT
<1> DEFINE z == 8 * Bit(x, 3) + 128 * Bit(x, 7) + 2048 * Bit(x, 11)
<1>7. (x & IrqBits) = z
  BY <1>6
<1>8. Bit(x, 3) \in 0 .. 1 /\ Bit(x, 7) \in 0 .. 1 /\ Bit(x, 11) \in 0 .. 1
  BY SMT DEF Words, Bit, Bits
<1>9. ASSUME NEW a \in 0 .. 1, NEW b \in 0 .. 1, NEW c \in 0 .. 1, NEW w, w = 8 * a + 128 * b + 2048 * c
      PROVE  w \in Words /\ Bit(w, 3) = a /\ Bit(w, 7) = b /\ Bit(w, 11) = c
  <2>1. w \in Words
    BY <1>9, SMT DEF Words
  <2>2. w \div 8 = a + 2 * (8 * b + 128 * c) /\ w \div 128 = b + 2 * (8 * c) /\ w \div 2048 = c
    BY <1>9, SMT
  <2>3. QED
    BY <2>1, <2>2, SMT DEF Bit, Bits
<1> HIDE DEF z
<1>10. z \in Words /\ Bit(z, 3) = Bit(x, 3) /\ Bit(z, 7) = Bit(x, 7) /\ Bit(z, 11) = Bit(x, 11)
  BY <1>8, <1>9 DEF z
<1>11. (z & IrqBits) = z
  <2>1. (z & IrqBits) = 8 * Bit(z, 3) + 128 * Bit(z, 7) + 2048 * Bit(z, 11)
    BY <1>6, <1>10
  <2>2. QED
    BY <1>10, <2>1 DEF z
<1>12. QED
  BY <1>7, <1>11 DEF z

\* A zero operand sets and clears nothing.
LEMMA ZeroOperand ==
  ASSUME XLEN = 32, NEW x \in Words
  PROVE  (x | 0) = x /\ (x & (2^XLEN - 1 - 0)) = x
<1>1. 0 \in Words /\ x \in Int
  BY SMT DEF Words
<1>2. (x & 0) \in Nat /\ (x & 0) <= 0
  BY <1>1, AndBounds
<1>3. (x & 0) = 0
  BY <1>2
<1>4. (x & (2^XLEN - 1 - 0)) = x - (x & 0)
  BY <1>1, AndNot
<1>5. (x | 0) = x + 0 - (x & 0)
  BY DEF |
<1>6. QED
  BY <1>1, <1>3, <1>4, <1>5, SMT

\* A written CSR is legal on both sides, and the same up to mstatus.MPP.
LEMMA CsrWritten ==
  ASSUME XLEN = 32, NEW c, NEW d, GoodCsrs(c), GoodCsrs(d), SameCsrs(c, d), NEW a \in Writable,
         NEW v \in Words, NEW w \in Words, a # Mstatus => v = w, Bit(v, 3) = Bit(w, 3), Bit(v, 7) = Bit(w, 7)
  PROVE  LET x == [c EXCEPT ![a] = M!CsrMask(a, v)]
             y == [d EXCEPT ![a] = R!Legalized(a, w)]
         IN  GoodCsrs(x) /\ GoodCsrs(y) /\ SameCsrs(x, y)
<1> DEFINE p == M!CsrMask(a, v)
           q == R!Legalized(a, w)
<1>1. /\ Mstatus = 768 /\ Mie = 772 /\ Mtvec = 773 /\ Mepc = 833
      /\ M!Mstatus = 768 /\ M!Mie = 772 /\ M!Mtvec = 773 /\ M!Mepc = 833
      /\ R!Mstatus = 768 /\ R!Mie = 772 /\ R!Mtvec = 773 /\ R!Mepc = 833
  BY DEF Mstatus, Mie, Mtvec, Mepc, M!Mstatus, M!Mie, M!Mtvec, M!Mepc, R!Mstatus, R!Mie, R!Mtvec, R!Mepc
<1>2. /\ M!IrqBits = IrqBits /\ R!IrqBits = IrqBits /\ M!MIE = 8 /\ M!MPIE = 128 /\ M!MPP = 6144
      /\ R!MIE = 8 /\ R!MPIE = 128 /\ R!MPP = 6144 /\ IrqBits = 2184
  BY SMT DEF M!IrqBits, R!IrqBits, IrqBits, M!MIE, M!MPIE, M!MPP, R!MIE, R!MPIE, R!MPP
<1>3. v \in Int /\ w \in Int
  BY SMT DEF Words
<1>4. CASE a = Mstatus
  <2>1. p = (v & 6280)
    BY <1>1, <1>2, <1>4, SameBitwise DEF M!CsrMask
  <2>2. q = 6144 + Bit(w, 7) * 128 + Bit(w, 3) * 8
    BY <1>1, <1>2, <1>4, SameWords DEF R!Legalized
  <2>3. 6280 \in Words /\ Bit(6280, 3) = 1 /\ Bit(6280, 7) = 1
    BY SMT DEF Words, Bit, Bits
  <2>4. /\ Bit(v, 3) \in 0 .. 1 /\ Bit(v, 7) \in 0 .. 1 /\ Bit(w, 3) \in 0 .. 1 /\ Bit(w, 7) \in 0 .. 1
    BY <1>3, SMT DEF Bit, Bits
  <2>5. p \in Words /\ Bit(p, 3) = Bit(v, 3) /\ Bit(p, 7) = Bit(v, 7)
    <3>1. (v & 6280) \in Words
      BY <2>3, BitwiseWords
    <3>2. Bit(v & 6280, 3) = Bit(v, 3) * Bit(6280, 3) /\ Bit(v & 6280, 7) = Bit(v, 7) * Bit(6280, 7)
      BY <2>3, KeptBits
    <3>3. QED
      BY <2>1, <2>3, <2>4, <3>1, <3>2
  <2>6. q \in Words /\ Bit(q, 3) = Bit(w, 3) /\ Bit(q, 7) = Bit(w, 7)
    <3>1. ASSUME NEW b3 \in 0 .. 1, NEW b7 \in 0 .. 1, NEW z, z = 6144 + b7 * 128 + b3 * 8
          PROVE  z \in Words /\ Bit(z, 3) = b3 /\ Bit(z, 7) = b7
      <4>1. z \in Words
        BY <3>1, SMT DEF Words
      <4>2. z \div 8 = b3 + 2 * (384 + 8 * b7) /\ z \div 128 = b7 + 2 * 24
        BY <3>1, SMT
      <4>3. QED
        BY <4>1, <4>2, SMT DEF Bit, Bits
    <3>2. QED
      BY <2>2, <2>4, <3>1
  <2> HIDE DEF p, q
  <2>7. a # Mie /\ a # Mtvec /\ a # Mepc
    BY <1>1, <1>4
  <2>8. GoodCsrs([c EXCEPT ![a] = p]) /\ GoodCsrs([d EXCEPT ![a] = q])
    BY <2>5, <2>6, <2>7 DEF GoodCsrs
  <2>9. SameCsrs([c EXCEPT ![a] = p], [d EXCEPT ![a] = q])
    BY <1>4, <2>5, <2>6 DEF GoodCsrs, SameCsrs
  <2>10. QED
    BY <2>8, <2>9 DEF p, q
<1>5. CASE a # Mstatus
  <2>1. v = w
    BY <1>5
  <2>2. /\ p = q /\ p \in Words
        /\ a = Mepc => p % 2 = 0
        /\ a = Mtvec => p % 4 = 0
        /\ a = Mie => (p & IrqBits) = p
    <3>1. CASE a = Mie
      <4>1. p = (v & IrqBits) /\ q = (v & IrqBits)
        BY <1>1, <1>2, <2>1, <3>1, SameBitwise DEF M!CsrMask, R!Legalized
      <4>2. IrqBits \in Words
        BY <1>2, SMT DEF Words
      <4>3. (v & IrqBits) \in Words
        BY <4>2, BitwiseWords
      <4>4. ((v & IrqBits) & IrqBits) = (v & IrqBits)
        BY IrqMask
      <4>5. QED
        BY <1>1, <3>1, <4>1, <4>3, <4>4
    <3>2. CASE a = Mtvec
      <4>1. p = v - (v % 4) /\ q = Bits(v, 31, 2) * 4
        BY <1>1, <1>2, <2>1, <3>2, SameWords DEF M!CsrMask, R!Legalized, AlignDown
      <4>2. p = q /\ p \in Words /\ p % 4 = 0
        BY <4>1, SMT DEF Words, Bits
      <4>3. QED
        BY <1>1, <3>2, <4>2
    <3>3. CASE a = Mepc
      <4>1. p = v - (v % 2) /\ q = Bits(v, 31, 1) * 2
        BY <1>1, <1>2, <2>1, <3>3, SameWords DEF M!CsrMask, R!Legalized, AlignDown
      <4>2. p = q /\ p \in Words /\ p % 2 = 0
        BY <4>1, SMT DEF Words, Bits
      <4>3. QED
        BY <1>1, <3>3, <4>2
    <3>4. CASE a \notin {Mie, Mtvec, Mepc}
      <4>1. p = v /\ q = v
        BY <1>1, <1>5, <2>1, <3>4 DEF M!CsrMask, R!Legalized
      <4>2. QED
        BY <3>4, <4>1
    <3>5. QED
      BY <3>1, <3>2, <3>3, <3>4
  <2> HIDE DEF p, q
  <2>3. GoodCsrs([c EXCEPT ![a] = p]) /\ GoodCsrs([d EXCEPT ![a] = q])
    BY <2>2 DEF GoodCsrs
  <2>4. SameCsrs([c EXCEPT ![a] = p], [d EXCEPT ![a] = q])
    <3>1. Mstatus \in Writable
      BY DEF Writable
    <3>2. QED
      BY <1>5, <2>2, <3>1 DEF GoodCsrs, SameCsrs
  <2>5. QED
    BY <2>3, <2>4 DEF p, q
<1>6. QED
  BY <1>4, <1>5

(***************************************************************************)
(* The RTL: what becomes of an instruction, by its kind.                   *)
(***************************************************************************)
LEMMA SameNames ==
  /\ M!None = None /\ R!None = None
  /\ M!Writable = Writable /\ R!Writable = Writable /\ M!ReadOnly = ReadOnly /\ R!ReadOnly = ReadOnly
  /\ M!MisaValue = MisaValue /\ R!MisaValue = MisaValue
  /\ M!Mstatus = Mstatus /\ R!Mstatus = Mstatus /\ M!Mepc = Mepc /\ R!Mepc = Mepc
  /\ M!Misa = Misa /\ R!Misa = Misa
<1>1. M!None = None /\ R!None = None
  BY DEF None, M!None, R!None
<1>2. M!Writable = Writable /\ R!Writable = Writable
  BY DEF Writable, M!Writable, R!Writable, Mstatus, Mie, Mtvec, Mscratch, Mepc, Mcause, Mtval,
         M!Mstatus, M!Mie, M!Mtvec, M!Mscratch, M!Mepc, M!Mcause, M!Mtval,
         R!Mstatus, R!Mie, R!Mtvec, R!Mscratch, R!Mepc, R!Mcause, R!Mtval
<1>3. M!ReadOnly = ReadOnly /\ R!ReadOnly = ReadOnly
  BY DEF ReadOnly, M!ReadOnly, R!ReadOnly, Misa, Mip, M!Misa, M!Mip, R!Misa, R!Mip
<1>4. M!MisaValue = MisaValue /\ R!MisaValue = MisaValue
  BY DEF MisaValue, M!MisaValue, R!MisaValue, Word, M!Word, R!Word
<1>5. M!Mstatus = Mstatus /\ R!Mstatus = Mstatus /\ M!Mepc = Mepc /\ R!Mepc = Mepc /\ M!Misa = Misa /\ R!Misa = Misa
  BY DEF Mstatus, Mepc, Misa, M!Mstatus, M!Mepc, M!Misa, R!Mstatus, R!Mepc, R!Misa
<1>6. QED
  BY <1>1, <1>2, <1>3, <1>4, <1>5

\* When the core traps, its outcome names the cause.
LEMMA RtlTraps ==
  ASSUME NEW t, NEW insn, NEW f, f = Decoded(insn), R!execTrapCause(t, f) # "none"
  PROVE  R!Outcome(t, insn).cause = R!execTrapCause(t, f)
  BY DEF R!Outcome, R!Nothing, Decoded

\* What an instruction that does not trap leaves.
Commits(r, t, f, seq) ==
  /\ r.cause = "none" /\ r.pc = Word(R!execNextPc(t, f, seq))
  /\ r.rd = IF R!execUsesRd(f) /\ f.rd # 0 THEN f.rd ELSE None
  /\ r.wdata = IF R!execUsesRd(f) /\ f.rd # 0 THEN R!execWdata(t, f, seq) ELSE None
  /\ r.addr = IF R!isLoad(f) \/ R!isStore(f) THEN AlignDown(R!memAddr(t, f), 4) ELSE None
  /\ r.mem = IF R!isStore(f) THEN R!Written(t, f) ELSE t.mem
  /\ r.csrs = IF R!csrWriteEnable(f)
              THEN [t.csrs EXCEPT ![R!csrAddr(f)] = R!Legalized(R!csrAddr(f), R!csrWriteData(t, f))]
              ELSE IF R!isMret(f) THEN [t.csrs EXCEPT ![Mstatus] = R!mretMstatus(@)]
              ELSE t.csrs
  /\ r.sleeping = R!isWfi(f)

\* When it does not, its outcome commits what the operation wires carry.
LEMMA RtlRetires ==
  ASSUME NEW t, NEW insn, R!execTrapCause(t, Decoded(insn)) = "none"
  PROVE  Commits(R!Outcome(t, insn), t, Decoded(insn), Word(t.pc + insn.len))
<1> DEFINE f == Decoded(insn)
<1> DEFINE seq == R!Word(t.pc + insn.len)
           uses == R!execUsesRd(f) /\ f.rd # 0
           aligned == R!AlignDown(R!memAddr(t, f), 4)
           blank == R!Nothing(t, R!execNextPc(t, f, seq))
           rd == IF uses THEN f.rd ELSE R!None
           wdata == IF uses THEN R!execWdata(t, f, seq) ELSE R!None
           addr == IF R!isLoad(f) \/ R!isStore(f) THEN aligned ELSE R!None
           rdata == IF R!isLoad(f) THEN R!BytesAt(t.mem, aligned, 4) ELSE R!None
           store == IF R!isStore(f) THEN R!storeData(t, f) ELSE R!None
           mem == IF R!isStore(f) THEN R!Written(t, f) ELSE t.mem
           csrs == IF R!csrWriteEnable(f)
                   THEN [t.csrs EXCEPT ![R!csrAddr(f)] = R!Legalized(R!csrAddr(f), R!csrWriteData(t, f))]
                   ELSE IF R!isMret(f) THEN [t.csrs EXCEPT ![R!Mstatus] = R!mretMstatus(@)]
                   ELSE t.csrs
           o == [blank EXCEPT !.rd = rd, !.wdata = wdata, !.addr = addr, !.rdata = rdata, !.store = store,
                              !.mem = mem, !.csrs = csrs, !.sleeping = R!isWfi(f)]
<1>1. R!Outcome(t, insn) = o
  BY DEF R!Outcome, Decoded
<1>2. blank = [cause |-> "none", pc |-> R!Word(R!execNextPc(t, f, seq)), rd |-> R!None, wdata |-> R!None,
               addr |-> R!None, rdata |-> R!None, store |-> R!None, mem |-> t.mem, csrs |-> t.csrs,
               sleeping |-> FALSE]
  BY DEF R!Nothing
<1> HIDE DEF blank, rd, wdata, addr, rdata, store, mem, csrs
<1>3. /\ o.cause = "none" /\ o.pc = R!Word(R!execNextPc(t, f, seq)) /\ o.rd = rd /\ o.wdata = wdata
      /\ o.addr = addr /\ o.mem = mem /\ o.csrs = csrs /\ o.sleeping = R!isWfi(f)
  BY <1>2
<1> HIDE DEF o
<1>4. /\ R!None = None /\ R!Mstatus = Mstatus /\ seq = Word(t.pc + insn.len)
      /\ aligned = AlignDown(R!memAddr(t, f), 4) /\ R!Word(R!execNextPc(t, f, seq)) = Word(R!execNextPc(t, f, seq))
  BY SameNames, SameWords
<1>5. QED
  BY <1>1, <1>3, <1>4 DEF Commits, rd, wdata, addr, mem, csrs

\* The opcode of each kind of instruction.
LEMMA KindOpcodes ==
  ASSUME NEW f
  PROVE  /\ R!isJalr(f) => f.opcode = 103
         /\ R!isBranch(f) => f.opcode = 99
         /\ R!isLoad(f) => f.opcode = 3
         /\ R!isStore(f) => f.opcode = 35
         /\ R!isAluImm(f) => f.opcode = 19
         /\ R!isAluReg(f) => f.opcode = 51
         /\ R!isCsr(f) => f.opcode = 115 /\ f.funct3 # 0
         /\ R!isFence(f) => f.opcode = 15
         /\ R!isEcall(f) \/ R!isEbreak(f) \/ R!isWfi(f) \/ R!isMret(f) => f.opcode = 115 /\ f.funct3 = 0
         /\ ~(R!isEcall(f) /\ R!isEbreak(f)) /\ ~(R!isWfi(f) /\ R!isEbreak(f)) /\ ~(R!isMret(f) /\ R!isEbreak(f))
         /\ ~(R!isWfi(f) /\ R!isEcall(f)) /\ ~(R!isMret(f) /\ R!isEcall(f)) /\ ~(R!isMret(f) /\ R!isWfi(f))
         /\ R!csrWriteEnable(f) => R!isCsr(f)
         /\ R!csrUsesRs1(f) => R!isCsr(f)
         /\ R!csrIllegal(f) => R!isCsr(f)
<1>1. /\ R!isJalr(f) => f.opcode = 103
      /\ R!isBranch(f) => f.opcode = 99
      /\ R!isLoad(f) => f.opcode = 3
      /\ R!isStore(f) => f.opcode = 35
      /\ R!isAluImm(f) => f.opcode = 19
      /\ R!isAluReg(f) => f.opcode = 51
      /\ R!isCsr(f) => f.opcode = 115 /\ f.funct3 # 0
      /\ R!isFence(f) => f.opcode = 15
  BY DEF R!isJalr, R!isBranch, R!isLoad, R!isStore, R!isAluImm, R!isAluReg, R!isCsr, R!isFence
<1>2. /\ R!isEcall(f) => f.opcode = 115 /\ f.funct3 = 0 /\ f.funct7 = 0 /\ f.rs2 = 0
      /\ R!isEbreak(f) => f.opcode = 115 /\ f.funct3 = 0 /\ f.funct7 = 0 /\ f.rs2 = 1
      /\ R!isWfi(f) => f.opcode = 115 /\ f.funct3 = 0 /\ f.funct7 = 8
      /\ R!isMret(f) => f.opcode = 115 /\ f.funct3 = 0 /\ f.funct7 = 24
  BY DEF R!isEcall, R!isEbreak, R!isWfi, R!isMret, R!Fields
<1>3. /\ R!csrWriteEnable(f) => R!isCsr(f)
      /\ R!csrUsesRs1(f) => R!isCsr(f)
      /\ R!csrIllegal(f) => R!isCsr(f)
  BY DEF R!csrWriteEnable, R!csrUsesRs1, R!csrIllegal
<1>4. QED
  BY <1>1, <1>2, <1>3

\* The trap, by kind.
LEMMA RtlCause ==
  ASSUME NEW t, NEW f
  PROVE  /\ ~R!execKnown(f) => R!execTrapCause(t, f) = "illegal_instruction"
         /\ R!isEbreak(f) => R!execTrapCause(t, f) = "ebreak"
         /\ R!isEcall(f) => R!execTrapCause(t, f) = "ecall"
         /\ R!isLoad(f) \/ R!isStore(f) =>
              R!execTrapCause(t, f) =
                IF R!Misaligned(t, f) THEN IF R!isStore(f) THEN "store_misaligned" ELSE "load_misaligned"
                ELSE IF R!regAccessIllegal(f) THEN "rv32e_register" ELSE "none"
         /\ ~(R!isLoad(f) \/ R!isStore(f) \/ R!isEbreak(f) \/ R!isEcall(f)) /\ R!execKnown(f) =>
              R!execTrapCause(t, f) =
                IF R!regAccessIllegal(f) THEN "rv32e_register"
                ELSE IF R!csrIllegal(f) THEN "illegal_instruction" ELSE "none"
<1>1. R!csrUsesRs1(f) => R!execUsesRd(f)
  BY KindOpcodes DEF R!execUsesRd
<1>2. R!regAccessIllegal(f) => R!execKnown(f)
  BY <1>1 DEF R!regAccessIllegal, R!execKnown, R!execUsesRd, R!execUsesRs1, R!execUsesRs2
<1>3. ~(R!isLoad(f) /\ R!isStore(f)) /\ ~(R!isLoad(f) /\ R!isEbreak(f)) /\ ~(R!isLoad(f) /\ R!isEcall(f))
      /\ ~(R!isStore(f) /\ R!isEbreak(f)) /\ ~(R!isStore(f) /\ R!isEcall(f)) /\ ~(R!isEcall(f) /\ R!isEbreak(f))
      /\ (R!isLoad(f) \/ R!isStore(f) => ~R!csrIllegal(f))
  BY KindOpcodes
<1>4. (R!isLoad(f) \/ R!isStore(f) \/ R!isEbreak(f) \/ R!isEcall(f)) => R!execKnown(f)
  BY DEF R!execKnown, R!execUsesRd
<1>5. R!isEbreak(f) \/ R!isEcall(f) => ~R!regAccessIllegal(f) /\ ~R!csrIllegal(f)
  BY KindOpcodes DEF R!regAccessIllegal, R!execUsesRd, R!execUsesRs1, R!execUsesRs2
<1>6. ~R!execKnown(f) => R!execTrapCause(t, f) = "illegal_instruction"
  BY <1>2, <1>4, Zenon DEF R!execTrapCause
<1>7. /\ R!isEbreak(f) => R!execTrapCause(t, f) = "ebreak"
      /\ R!isEcall(f) => R!execTrapCause(t, f) = "ecall"
  <2>1. R!isEbreak(f) => R!execTrapCause(t, f) = "ebreak"
    BY <1>3, <1>4, <1>5 DEF R!execTrapCause
  <2>2. R!isEcall(f) => R!execTrapCause(t, f) = "ecall"
    BY <1>3, <1>4, <1>5 DEF R!execTrapCause
  <2>3. QED
    BY <2>1, <2>2
<1>8. R!isLoad(f) \/ R!isStore(f) =>
        R!execTrapCause(t, f) =
          IF R!Misaligned(t, f) THEN IF R!isStore(f) THEN "store_misaligned" ELSE "load_misaligned"
          ELSE IF R!regAccessIllegal(f) THEN "rv32e_register" ELSE "none"
  BY <1>3, <1>4 DEF R!execTrapCause
<1>9. ~(R!isLoad(f) \/ R!isStore(f) \/ R!isEbreak(f) \/ R!isEcall(f)) /\ R!execKnown(f) =>
        R!execTrapCause(t, f) =
          IF R!regAccessIllegal(f) THEN "rv32e_register"
          ELSE IF R!csrIllegal(f) THEN "illegal_instruction" ELSE "none"
  BY DEF R!execTrapCause
<1>10. QED
  BY <1>6, <1>7, <1>8, <1>9

\* An instruction that only goes on and writes a register, or none.
LEMMA RtlPlain ==
  ASSUME NEW t, NEW insn, NEW f, f = Decoded(insn), R!execTrapCause(t, f) = "none",
         f.opcode \in {55, 23, 111, 103, 99, 19, 51, 15}
  PROVE  LET r == R!Outcome(t, insn)
             seq == Word(t.pc + insn.len)
             pc == Word(R!execNextPc(t, f, seq))
         IN  /\ R!execUsesRd(f) => Plain(r, t, pc, f.rd, R!execWdata(t, f, seq))
             /\ ~R!execUsesRd(f) => \A v : Plain(r, t, pc, 0, v)
<1>1. /\ ~R!isLoad(f) /\ ~R!isStore(f) /\ ~R!csrWriteEnable(f) /\ ~R!isMret(f) /\ ~R!isWfi(f)
  BY KindOpcodes
<1> DEFINE r == R!Outcome(t, insn)
           seq == Word(t.pc + insn.len)
<1>2. /\ r.cause = "none" /\ r.pc = Word(R!execNextPc(t, f, seq))
      /\ r.rd = IF R!execUsesRd(f) /\ f.rd # 0 THEN f.rd ELSE None
      /\ r.wdata = IF R!execUsesRd(f) /\ f.rd # 0 THEN R!execWdata(t, f, seq) ELSE None
      /\ r.addr = None /\ r.mem = t.mem /\ r.csrs = t.csrs /\ r.sleeping = FALSE
  <2>1. Commits(r, t, f, seq)
    BY RtlRetires
  <2>2. QED
    BY <1>1, <2>1 DEF Commits
<1> HIDE DEF r, seq
<1>3. QED
  BY <1>2 DEF Plain, Writes, r, seq

\* The states the two are in before an instruction.
Paired(s, t) == GoodState(s) /\ GoodState(t) /\ Alike(s, t)

\* The same operands on both sides.
LEMMA Operands ==
  ASSUME XLEN = 32, NEW s, NEW t, Paired(s, t)
  PROVE  /\ s.pc = t.pc /\ s.pc \in Words /\ s.pc % 2 = 0
         /\ \A x : R!Gpr(t, x) = M!ReadReg(s, x) /\ M!ReadReg(s, x) \in Words
<1>1. s.pc = t.pc /\ s.pc \in Words /\ s.pc % 2 = 0 /\ s.regs = t.regs /\ s.regs \in [1 .. 15 -> Words]
  BY DEF Paired, GoodState, Alike
<1>2. 0 \in Words
  BY SMT DEF Words
<1>3. ASSUME NEW x PROVE R!Gpr(t, x) = M!ReadReg(s, x) /\ M!ReadReg(s, x) \in Words
  BY <1>1, <1>2 DEF R!Gpr, M!ReadReg
<1>4. QED
  BY <1>1, <1>3

\* Where an instruction goes: a word, even like the offset.
LEMMA Targets ==
  ASSUME XLEN = 32, NEW pc \in Words, pc % 2 = 0, NEW x \in Int, x % 2 = 0
  PROVE  Word(pc + x) \in Words /\ Word(pc + x) % 2 = 0 /\ Word(Word(pc + x)) = Word(pc + x)
<1>1. pc \in Int
  BY SMT DEF Words
<1>2. pc + x \in Int /\ (pc + x) % 2 = 0
  BY <1>1, SMT
<1>3. QED
  BY <1>2, WordFacts

\* The signed immediates are what a field of the RTL holds modulo a word.
LEMMA Immediates ==
  ASSUME XLEN = 32, NEW f, f.funct7 \in 0 .. 127, f.rs2 \in 0 .. 31, f.rd \in 0 .. 31, f.rs1 \in 0 .. 31,
         f.funct3 \in 0 .. 7
  PROVE  /\ M!ImmI(f) \in Int /\ R!imm12(f) = Word(M!ImmI(f))
         /\ M!ImmS(f) \in Int /\ R!immS(f) = Word(M!ImmS(f))
         /\ M!ImmB(f) \in Int /\ R!immB(f) = Word(M!ImmB(f)) /\ M!ImmB(f) % 2 = 0
         /\ M!ImmJ(f) \in Int /\ R!immJ(f) = Word(M!ImmJ(f)) /\ M!ImmJ(f) % 2 = 0
         /\ M!ImmU(f) \in Words /\ R!upperImm(f) = M!ImmU(f)
<1>1. ASSUME NEW h \in 0 .. 127, NEW l \in 0 .. 31
      PROVE  /\ M!Sext(h * 2^5 + l, 12) \in Int
             /\ (IF R!Bit(h, 6) = 1 THEN 2^XLEN - 2^12 ELSE 0) + h * 2^5 + l = Word(M!Sext(h * 2^5 + l, 12))
  <2> DEFINE z == h * 32 + l
  <2>1. z \in 0 .. 4095 /\ (R!Bit(h, 6) = 1 <=> z >= 2048) /\ M!Bit(z, 11) = IF z >= 2048 THEN 1 ELSE 0
    BY SMT DEF R!Bit, R!Bits, M!Bit, M!Bits
  <2>2. (IF R!Bit(h, 6) = 1 THEN 2^XLEN - 2^12 ELSE 0) + h * 2^5 + l = (IF z >= 2048 THEN 4294963200 ELSE 0) + z
    BY <2>1, SMT
  <2>3. h * 2^5 + l = z
    BY SMT
  <2> HIDE DEF z
  <2>4. M!Sext(z, 12) = IF z >= 2048 THEN z - 4096 ELSE z
    BY <2>1, SMT DEF M!Sext
  <2>5. QED
    BY <2>1, <2>4, <2>2, <2>3, SMT DEF Word
<1>2. M!ImmI(f) \in Int /\ R!imm12(f) = Word(M!ImmI(f))
  BY <1>1 DEF R!imm12, R!SignFill, M!ImmI
<1>3. M!ImmS(f) \in Int /\ R!immS(f) = Word(M!ImmS(f))
  BY <1>1 DEF R!immS, R!SignFill, M!ImmS
<1>4. M!ImmB(f) \in Int /\ R!immB(f) = Word(M!ImmB(f)) /\ M!ImmB(f) % 2 = 0
  <2> DEFINE b12 == M!Bit(f.funct7, 6)
             b11 == M!Bit(f.rd, 0)
             b5 == M!Bits(f.funct7, 5, 0)
             b1 == M!Bits(f.rd, 4, 1)
  <2>1. b12 \in 0 .. 1 /\ b11 \in 0 .. 1 /\ b5 \in 0 .. 63 /\ b1 \in 0 .. 15
    BY SMT DEF M!Bit, M!Bits
  <2>2. R!Bit(f.funct7, 6) = b12 /\ R!Bit(f.rd, 0) = b11 /\ R!Bits(f.funct7, 5, 0) = b5 /\ R!Bits(f.rd, 4, 1) = b1
    BY SameWords
  <2>3. M!ImmB(f) = M!Sext(b12 * 2^12 + b11 * 2^11 + b5 * 2^5 + b1 * 2, 13)
    BY DEF M!ImmB
  <2>4. R!immB(f) = (IF b12 = 1 THEN 2^XLEN - 2^13 ELSE 0) + b12 * 2^12 + b11 * 2^11 + b5 * 2^5 + b1 * 2
    BY <2>2, SMT DEF R!immB, R!SignFill
  <2> HIDE DEF b12, b11, b5, b1
  <2>5. M!ImmB(f) = b11 * 2048 + b5 * 32 + b1 * 2 - b12 * 4096
    BY <2>1, <2>3, SMT DEF M!Sext, M!Bit, M!Bits
  <2>6. QED
    BY <2>1, <2>4, <2>5, SMT DEF Word
<1>5. M!ImmJ(f) \in Int /\ R!immJ(f) = Word(M!ImmJ(f)) /\ M!ImmJ(f) % 2 = 0
  <2> DEFINE b20 == M!Bit(f.funct7, 6)
             b11 == M!Bit(f.rs2, 0)
             b5 == M!Bits(f.funct7, 5, 0)
             b1 == M!Bits(f.rs2, 4, 1)
             n == f.rs1
             k == f.funct3
             z == b11 * 2048 + b5 * 32 + b1 * 2 + k * 4096 + n * 32768 - b20 * 1048576
  <2>1. b20 \in 0 .. 1 /\ b11 \in 0 .. 1 /\ b5 \in 0 .. 63 /\ b1 \in 0 .. 15 /\ n \in 0 .. 31 /\ k \in 0 .. 7
    BY SMT DEF M!Bit, M!Bits
  <2>2. R!Bit(f.funct7, 6) = b20 /\ R!Bit(f.rs2, 0) = b11 /\ R!Bits(f.funct7, 5, 0) = b5 /\ R!Bits(f.rs2, 4, 1) = b1
    BY SameWords
  <2>3. M!ImmJ(f) = M!Sext(b20 * 2^20 + (n * 2^3 + k) * 2^12 + b11 * 2^11 + (b5 * 2^4 + b1) * 2, 21)
    BY DEF M!ImmJ
  <2>4. R!immJ(f) = R!Word((IF b20 = 1 THEN -(2^21) ELSE 0) + b20 * 2^20 + n * 2^15 + k * 2^12
                             + b11 * 2^11 + b5 * 2^5 + b1 * 2)
    BY <2>2, SMT DEF R!immJ
  <2> HIDE DEF b20, b11, b5, b1, n, k
  <2>5. M!ImmJ(f) = z
    BY <2>1, <2>3, SMT DEF M!Sext, M!Bit, M!Bits
  <2>6. (IF b20 = 1 THEN -(2^21) ELSE 0) + b20 * 2^20 + n * 2^15 + k * 2^12 + b11 * 2^11 + b5 * 2^5 + b1 * 2 = z
    BY <2>1, SMT
  <2>7. z \in Int /\ z % 2 = 0
    BY <2>1, SMT
  <2>8. QED
    BY <2>4, <2>5, <2>6, <2>7, SameWords
<1>6. M!ImmU(f) \in Words /\ R!upperImm(f) = M!ImmU(f)
  <2> DEFINE u == f.funct7 * 2^13 + f.rs2 * 2^8 + f.rs1 * 2^3 + f.funct3
  <2>1. u \in Words
    <3> DEFINE x7 == f.funct7
               x2 == f.rs2
               x1 == f.rs1
               x3 == f.funct3
    <3>1. x7 \in 0 .. 127 /\ x2 \in 0 .. 31 /\ x1 \in 0 .. 31 /\ x3 \in 0 .. 7
      OBVIOUS
    <3>2. u = x7 * 2^13 + x2 * 2^8 + x1 * 2^3 + x3
      OBVIOUS
    <3> HIDE DEF u, x7, x2, x1, x3
    <3>3. u \in Nat /\ u < 4294967296
      BY <3>1, <3>2, SMT
    <3>4. QED
      BY <3>3, SMT DEF Words
  <2>2. Shl(u, 12) \in Words
    BY <2>1, ShiftWords
  <2>3. QED
    BY <2>2, SameShifts DEF M!ImmU, R!upperImm
<1>7. QED
  BY <1>2, <1>3, <1>4, <1>5, <1>6

\* Registers of the upper half are refused.
LEMMA RtlHigh ==
  ASSUME NEW t, NEW f, f.opcode \in {55, 23, 111, 103, 99, 19, 51}, R!execKnown(f)
  PROVE  R!execTrapCause(t, f) = IF R!regAccessIllegal(f) THEN "rv32e_register" ELSE "none"
  BY RtlCause, KindOpcodes

\* LUI and AUIPC of the core.
LEMMA RtlUpper ==
  ASSUME XLEN = 32, NEW s, NEW t, Paired(s, t), NEW insn, NEW f, f = Decoded(insn), insn.len \in {2, 4},
         f.opcode \in {55, 23}, f.rd \in 0 .. 15
  PROVE  Plain(R!Outcome(t, insn), t, Word(s.pc + insn.len), f.rd,
               IF f.opcode = 55 THEN R!upperImm(f) ELSE Word(s.pc + R!upperImm(f)))
<1> DEFINE seq == Word(t.pc + insn.len)
<1>1. R!execUsesRd(f) /\ R!execKnown(f)
  BY DEF R!execUsesRd, R!execKnown
<1>2. ~R!regAccessIllegal(f)
  BY KindOpcodes DEF R!regAccessIllegal, R!execUsesRs1, R!execUsesRs2
<1>3. R!execTrapCause(t, f) = "none"
  BY <1>1, <1>2, RtlHigh
<1>4. R!execNextPc(t, f, seq) = seq
  BY KindOpcodes DEF R!execNextPc
<1>5. R!execWdata(t, f, seq) = IF f.opcode = 55 THEN R!upperImm(f) ELSE Word(t.pc + R!upperImm(f))
  BY KindOpcodes, SameWords DEF R!execWdata
<1>6. Word(seq) = seq /\ s.pc = t.pc
  <2>1. s.pc = t.pc /\ s.pc \in Words /\ s.pc % 2 = 0
    BY Operands
  <2>2. insn.len \in Int /\ insn.len % 2 = 0
    BY SMT
  <2>3. QED
    BY <2>1, <2>2, Targets
<1>7. Plain(R!Outcome(t, insn), t, Word(R!execNextPc(t, f, seq)), f.rd, R!execWdata(t, f, seq))
  BY <1>1, <1>3, RtlPlain
<1>8. QED
  BY <1>4, <1>5, <1>6, <1>7

\* The sequential address is a word as it stands.
LEMMA GoesOn ==
  ASSUME XLEN = 32, NEW s, NEW t, Paired(s, t), NEW n \in {2, 4}
  PROVE  /\ Word(s.pc + n) \in Words /\ Word(s.pc + n) % 2 = 0 /\ Word(Word(s.pc + n)) = Word(s.pc + n)
         /\ t.pc = s.pc
<1>1. s.pc = t.pc /\ s.pc \in Words /\ s.pc % 2 = 0
  BY Operands
<1>2. n \in Int /\ n % 2 = 0
  BY SMT
<1>3. QED
  BY <1>1, <1>2, Targets

\* JAL of the core.
LEMMA RtlJal ==
  ASSUME XLEN = 32, NEW s, NEW t, Paired(s, t), NEW insn, NEW f, f = Decoded(insn), insn.len \in {2, 4},
         f \in InsnFields, f.opcode = 111, f.rd \in 0 .. 15
  PROVE  Plain(R!Outcome(t, insn), t, Word(s.pc + M!ImmJ(f)), f.rd, Word(s.pc + insn.len))
<1> DEFINE seq == Word(t.pc + insn.len)
<1>1. R!execUsesRd(f) /\ R!execKnown(f)
  BY DEF R!execUsesRd, R!execKnown
<1>2. ~R!regAccessIllegal(f)
  BY KindOpcodes DEF R!regAccessIllegal, R!execUsesRs1, R!execUsesRs2
<1>3. R!execTrapCause(t, f) = "none"
  BY <1>1, <1>2, RtlHigh
<1>4. R!execNextPc(t, f, seq) = R!Word(t.pc + R!immJ(f))
  BY KindOpcodes DEF R!execNextPc
<1>5. R!execWdata(t, f, seq) = seq
  BY KindOpcodes DEF R!execWdata
<1>6. s.pc = t.pc /\ s.pc \in Words /\ s.pc % 2 = 0
  BY Operands
<1>7. M!ImmJ(f) \in Int /\ R!immJ(f) = Word(M!ImmJ(f)) /\ M!ImmJ(f) % 2 = 0
  BY Immediates DEF InsnFields
<1>8. Word(R!execNextPc(t, f, seq)) = Word(s.pc + M!ImmJ(f))
  <2>1. Word(s.pc + Word(M!ImmJ(f))) = Word(s.pc + M!ImmJ(f))
    <3>1. s.pc \in Words /\ M!ImmJ(f) \in Int
      BY <1>6, <1>7
    <3>2. QED
      BY <3>1, WordSums
  <2>2. Word(Word(s.pc + M!ImmJ(f))) = Word(s.pc + M!ImmJ(f))
    BY <1>6, <1>7, Targets
  <2>3. R!execNextPc(t, f, seq) = Word(s.pc + M!ImmJ(f))
    BY <1>4, <1>6, <1>7, <2>1, SameWords
  <2>4. QED
    BY <2>2, <2>3
<1>9. Plain(R!Outcome(t, insn), t, Word(R!execNextPc(t, f, seq)), f.rd, R!execWdata(t, f, seq))
  BY <1>1, <1>3, RtlPlain
<1>10. QED
  BY <1>5, <1>6, <1>8, <1>9

\* The target of an indirect jump, on either side.
LEMMA EvenTarget ==
  ASSUME XLEN = 32, NEW x \in Words
  PROVE  /\ Bits(x, XLEN - 1, 1) * 2 = AlignDown(x, 2)
         /\ AlignDown(x, 2) \in Words /\ AlignDown(x, 2) % 2 = 0 /\ Word(AlignDown(x, 2)) = AlignDown(x, 2)
<1>1. x \in Nat /\ x < 4294967296
  BY SMT DEF Words
<1>2. x - (x % 2) \in Nat /\ x - (x % 2) < 4294967296 /\ (x - (x % 2)) % 2 = 0
  BY <1>1, SMT
<1>3. AlignDown(x, 2) \in Words /\ AlignDown(x, 2) % 2 = 0
  BY <1>2, SMT DEF AlignDown, Words
<1>4. Word(AlignDown(x, 2)) = AlignDown(x, 2)
  BY <1>3, WordFacts
<1>5. x \div 2 < 2147483648 /\ x \div 2 \in Nat
  BY <1>1, SMT
<1>6. (x \div 2) % 2147483648 = x \div 2
  BY <1>5, SMT
<1>7. Bits(x, XLEN - 1, 1) = (x \div 2) % 2147483648
  BY SMT DEF Bits
<1>8. (x \div 2) * 2 = x - (x % 2)
  BY <1>1, SMT
<1>9. QED
  BY <1>3, <1>4, <1>6, <1>7, <1>8 DEF AlignDown

\* JALR of the core.
LEMMA RtlJalr ==
  ASSUME XLEN = 32, NEW s, NEW t, Paired(s, t), NEW insn, NEW f, f = Decoded(insn), insn.len \in {2, 4},
         f \in InsnFields, f.opcode = 103, f.funct3 = 0, f.rd \in 0 .. 15, f.rs1 \in 0 .. 15
  PROVE  Plain(R!Outcome(t, insn), t, AlignDown(Word(M!ReadReg(s, f.rs1) + M!ImmI(f)), 2), f.rd,
               Word(s.pc + insn.len))
<1> DEFINE seq == Word(t.pc + insn.len)
           x == Word(M!ReadReg(s, f.rs1) + M!ImmI(f))
<1>1. R!isJalr(f) /\ R!execUsesRd(f) /\ R!execKnown(f)
  BY DEF R!isJalr, R!execUsesRd, R!execKnown
<1>2. ~R!regAccessIllegal(f)
  BY KindOpcodes DEF R!regAccessIllegal, R!execUsesRs1, R!execUsesRs2
<1>3. R!execTrapCause(t, f) = "none"
  BY <1>1, <1>2, RtlHigh
<1>4. R!execNextPc(t, f, seq) = R!Bits(R!Word(R!Gpr(t, f.rs1) + R!imm12(f)), XLEN - 1, 1) * 2
  BY <1>1, KindOpcodes DEF R!execNextPc
<1>5. R!execWdata(t, f, seq) = seq
  BY <1>1, KindOpcodes DEF R!execWdata
<1>6. s.pc = t.pc /\ R!Gpr(t, f.rs1) = M!ReadReg(s, f.rs1) /\ M!ReadReg(s, f.rs1) \in Words
  BY Operands
<1>7. M!ImmI(f) \in Int /\ R!imm12(f) = Word(M!ImmI(f))
  BY Immediates DEF InsnFields
<1>8. R!Word(R!Gpr(t, f.rs1) + R!imm12(f)) = x /\ x \in Words
  <2>1. M!ReadReg(s, f.rs1) \in Words /\ M!ImmI(f) \in Int
    BY <1>6, <1>7
  <2>2. Word(M!ReadReg(s, f.rs1) + Word(M!ImmI(f))) = x /\ x \in Words
    BY <2>1, WordSums
  <2>3. R!Word(M!ReadReg(s, f.rs1) + Word(M!ImmI(f))) = Word(M!ReadReg(s, f.rs1) + Word(M!ImmI(f)))
    BY SameWords
  <2>4. QED
    BY <1>6, <1>7, <2>2, <2>3
<1> HIDE DEF x
<1>9. R!execNextPc(t, f, seq) = AlignDown(x, 2) /\ Word(AlignDown(x, 2)) = AlignDown(x, 2)
  BY <1>4, <1>8, EvenTarget, SameWords
<1>10. Plain(R!Outcome(t, insn), t, Word(R!execNextPc(t, f, seq)), f.rd, R!execWdata(t, f, seq))
  BY <1>1, <1>3, RtlPlain
<1>11. QED
  BY <1>5, <1>6, <1>9, <1>10 DEF x

\* Whether a branch is taken, as the model tells it.
Taken(s, f) ==
  LET lhs == M!ReadReg(s, f.rs1)
      rhs == M!ReadReg(s, f.rs2)
  IN  CASE f.funct3 = 0 -> lhs = rhs
        [] f.funct3 = 1 -> lhs # rhs
        [] f.funct3 = 4 -> M!Signed(lhs) < M!Signed(rhs)
        [] f.funct3 = 5 -> M!Signed(lhs) >= M!Signed(rhs)
        [] f.funct3 = 6 -> lhs < rhs
        [] f.funct3 = 7 -> lhs >= rhs

\* The core and the model take the same branches.
LEMMA SameTaken ==
  ASSUME XLEN = 32, NEW s, NEW t, Paired(s, t), NEW f, f.funct3 \in {0, 1, 4, 5, 6, 7}
  PROVE  R!branchTaken(t, f) = Taken(s, f)
<1> DEFINE a == M!ReadReg(s, f.rs1)
           b == M!ReadReg(s, f.rs2)
<1>1. /\ R!Gpr(t, f.rs1) = a /\ R!Gpr(t, f.rs2) = b /\ a \in Words /\ b \in Words
  BY Operands
<1>2. a \in Int /\ b \in Int
  BY <1>1, WordFacts
<1>3. R!SignedOrder(a) < R!SignedOrder(b) <=> M!Signed(a) < M!Signed(b)
  BY <1>1, SignedOrders
<1>4. M!Signed(a) \in Int /\ M!Signed(b) \in Int
  <2>1. ASSUME NEW x \in Int PROVE M!Signed(x) \in Int
    BY <2>1, SMT DEF M!Signed, M!Sext, M!Bit, M!Bits
  <2>2. QED
    BY <1>2, <2>1
<1>5. /\ R!branchTaken(t, f) =
           CASE f.funct3 = 0 -> a = b
             [] f.funct3 = 1 -> a # b
             [] f.funct3 = 4 -> R!SignedOrder(a) < R!SignedOrder(b)
             [] f.funct3 = 5 -> ~(R!SignedOrder(a) < R!SignedOrder(b))
             [] f.funct3 = 6 -> a < b
             [] f.funct3 = 7 -> ~(a < b)
      /\ Taken(s, f) =
           CASE f.funct3 = 0 -> a = b
             [] f.funct3 = 1 -> a # b
             [] f.funct3 = 4 -> M!Signed(a) < M!Signed(b)
             [] f.funct3 = 5 -> M!Signed(a) >= M!Signed(b)
             [] f.funct3 = 6 -> a < b
             [] f.funct3 = 7 -> a >= b
  BY <1>1 DEF R!branchTaken, Taken
<1> HIDE DEF a, b
<1>6. (M!Signed(a) >= M!Signed(b)) = ~(M!Signed(a) < M!Signed(b)) /\ (a >= b) = ~(a < b)
  BY <1>2, <1>4, SMT
<1>7. CASE f.funct3 = 0
  BY <1>5, <1>7
<1>8. CASE f.funct3 = 1
  BY <1>5, <1>8
<1>9. CASE f.funct3 = 4
  BY <1>3, <1>5, <1>9
<1>10. CASE f.funct3 = 5
  BY <1>3, <1>5, <1>6, <1>10
<1>11. CASE f.funct3 = 6
  BY <1>5, <1>11
<1>12. CASE f.funct3 = 7
  BY <1>5, <1>6, <1>12
<1>13. QED
  BY <1>7, <1>8, <1>9, <1>10, <1>11, <1>12

\* A branch of the core.
LEMMA RtlBranch ==
  ASSUME XLEN = 32, NEW s, NEW t, Paired(s, t), NEW insn, NEW f, f = Decoded(insn), insn.len \in {2, 4},
         f \in InsnFields, f.opcode = 99, f.funct3 \in {0, 1, 4, 5, 6, 7}, f.rs1 \in 0 .. 15, f.rs2 \in 0 .. 15,
         NEW v
  PROVE  Plain(R!Outcome(t, insn), t, IF Taken(s, f) THEN Word(s.pc + M!ImmB(f)) ELSE Word(s.pc + insn.len), 0, v)
<1> DEFINE seq == Word(t.pc + insn.len)
<1>1. R!isBranch(f) /\ R!execKnown(f) /\ ~R!execUsesRd(f)
  <2>1. R!isBranch(f)
    BY DEF R!isBranch
  <2>2. QED
    BY <2>1, KindOpcodes DEF R!execUsesRd, R!execKnown
<1>2. ~R!regAccessIllegal(f)
  BY <1>1 DEF R!regAccessIllegal
<1>3. R!execTrapCause(t, f) = "none"
  BY <1>1, <1>2, RtlHigh
<1>4. R!execNextPc(t, f, seq) = IF R!branchTaken(t, f) THEN R!Word(t.pc + R!immB(f)) ELSE seq
  BY <1>1, KindOpcodes DEF R!execNextPc
<1>5. s.pc = t.pc /\ s.pc \in Words /\ s.pc % 2 = 0
  BY Operands
<1>6. M!ImmB(f) \in Int /\ R!immB(f) = Word(M!ImmB(f)) /\ M!ImmB(f) % 2 = 0
  BY Immediates DEF InsnFields
<1>7. /\ R!Word(t.pc + R!immB(f)) = Word(s.pc + M!ImmB(f))
      /\ Word(Word(s.pc + M!ImmB(f))) = Word(s.pc + M!ImmB(f))
  <2>1. Word(s.pc + Word(M!ImmB(f))) = Word(s.pc + M!ImmB(f))
    <3>1. s.pc \in Words /\ M!ImmB(f) \in Int
      BY <1>5, <1>6
    <3>2. QED
      BY <3>1, WordSums
  <2>2. Word(Word(s.pc + M!ImmB(f))) = Word(s.pc + M!ImmB(f))
    BY <1>5, <1>6, Targets
  <2>3. QED
    BY <1>5, <1>6, <2>1, <2>2, SameWords
<1>8. Word(seq) = seq
  BY GoesOn
<1>9. Plain(R!Outcome(t, insn), t, Word(R!execNextPc(t, f, seq)), 0, v)
  BY <1>1, <1>3, RtlPlain
<1>10. R!branchTaken(t, f) = Taken(s, f)
  BY SameTaken
<1>11. QED
  BY <1>4, <1>5, <1>7, <1>8, <1>9, <1>10

\* A FENCE of the core.
LEMMA RtlFence ==
  ASSUME XLEN = 32, NEW s, NEW t, Paired(s, t), NEW insn, NEW f, f = Decoded(insn), insn.len \in {2, 4},
         f.opcode = 15, f.funct3 = 0, NEW v
  PROVE  Plain(R!Outcome(t, insn), t, Word(s.pc + insn.len), 0, v)
<1> DEFINE seq == Word(t.pc + insn.len)
<1>1. R!execKnown(f) /\ ~R!execUsesRd(f) /\ ~R!regAccessIllegal(f)
  BY KindOpcodes DEF R!isFence, R!execUsesRd, R!execKnown, R!regAccessIllegal, R!execUsesRs1, R!execUsesRs2
<1>2. R!execTrapCause(t, f) = "none"
  BY <1>1, RtlCause, KindOpcodes
<1>3. R!execNextPc(t, f, seq) = seq
  BY KindOpcodes DEF R!execNextPc
<1>4. Plain(R!Outcome(t, insn), t, Word(R!execNextPc(t, f, seq)), 0, v)
  BY <1>1, <1>2, RtlPlain
<1>5. QED
  BY <1>3, <1>4, GoesOn

\* What the ALU of the core makes of its operands, which is the word of the model's result.
AluOf(k, a, b, n, minus) ==
  CASE k = 0 -> Word(IF minus THEN a - b ELSE a + b)
    [] k = 1 -> Shl(a, n)
    [] k = 2 -> IF R!SignedOrder(a) < R!SignedOrder(b) THEN 1 ELSE 0
    [] k = 3 -> IF a < b THEN 1 ELSE 0
    [] k = 4 -> a ^^ b
    [] k = 5 -> IF minus THEN Sra(a, n) ELSE Shr(a, n)
    [] k = 6 -> a | b
    [] k = 7 -> a & b

\* The result of an operation is a word.
LEMMA AluWord ==
  ASSUME XLEN = 32, NEW k \in 0 .. 7, NEW a \in Words, NEW b \in Words, NEW n \in 0 .. 31,
         NEW minus \in BOOLEAN
  PROVE  AluOf(k, a, b, n, minus) \in Words /\ Word(M!AluResult(k, a, b, n, minus)) = AluOf(k, a, b, n, minus)
<1> DEFINE res == M!AluResult(k, a, b, n, minus)
<1>1. \A x \in Words : Word(x) = x
  BY WordFacts
<1>2. 0 \in Words /\ 1 \in Words
  BY SMT DEF Words
<1>3. /\ Shl(a, n) \in Words /\ Shr(a, n) \in Words /\ Sra(a, n) \in Words
      /\ (a & b) \in Words /\ (a | b) \in Words /\ (a ^^ b) \in Words
  BY ShiftWords, BitwiseWords
<1>4. R!SignedOrder(a) < R!SignedOrder(b) <=> M!Signed(a) < M!Signed(b)
  BY SignedOrders
<1>5. CASE k = 0
  <2>1. res = (IF minus THEN a - b ELSE a + b) /\ AluOf(k, a, b, n, minus) = Word(IF minus THEN a - b ELSE a + b)
    BY <1>5 DEF M!AluResult, AluOf
  <2>2. (IF minus THEN a - b ELSE a + b) \in Int
    BY SMT DEF Words
  <2>3. Word(IF minus THEN a - b ELSE a + b) \in Words
    <3> DEFINE z == IF minus THEN a - b ELSE a + b
    <3> HIDE DEF z
    <3>1. z \in Int
      BY <2>2 DEF z
    <3>2. Word(z) \in Words
      BY <3>1, SMT DEF Word, Words
    <3>3. QED
      BY <3>2 DEF z
  <2>4. QED
    BY <2>1, <2>3
<1>6. CASE k = 1
  <2>1. res = Shl(a, n) /\ AluOf(k, a, b, n, minus) = Shl(a, n)
    BY <1>6, SameShifts DEF M!AluResult, AluOf
  <2>2. QED
    BY <1>1, <1>3, <2>1
<1>7. CASE k = 2
  <2>1. /\ res = (IF M!Signed(a) < M!Signed(b) THEN 1 ELSE 0)
        /\ AluOf(k, a, b, n, minus) = IF R!SignedOrder(a) < R!SignedOrder(b) THEN 1 ELSE 0
    BY <1>7 DEF M!AluResult, AluOf
  <2>2. QED
    BY <1>1, <1>2, <1>4, <2>1
<1>8. CASE k = 3
  <2>1. res = (IF a < b THEN 1 ELSE 0) /\ AluOf(k, a, b, n, minus) = IF a < b THEN 1 ELSE 0
    BY <1>8 DEF M!AluResult, AluOf
  <2>2. QED
    BY <1>1, <1>2, <2>1
<1>9. CASE k = 4
  <2>1. res = (a ^^ b) /\ AluOf(k, a, b, n, minus) = (a ^^ b)
    BY <1>9, SameBitwise DEF M!AluResult, AluOf
  <2>2. QED
    BY <1>1, <1>3, <2>1
<1>10. CASE k = 5
  <2>1. res = (IF minus THEN Sra(a, n) ELSE Shr(a, n)) /\ AluOf(k, a, b, n, minus) = IF minus THEN Sra(a, n) ELSE Shr(a, n)
    BY <1>10, SameShifts DEF M!AluResult, AluOf
  <2>2. QED
    BY <1>1, <1>3, <2>1
<1>11. CASE k = 6
  <2>1. res = (a | b) /\ AluOf(k, a, b, n, minus) = (a | b)
    BY <1>11, SameBitwise DEF M!AluResult, AluOf
  <2>2. QED
    BY <1>1, <1>3, <2>1
<1>12. CASE k = 7
  <2>1. res = (a & b) /\ AluOf(k, a, b, n, minus) = (a & b)
    BY <1>12, SameBitwise DEF M!AluResult, AluOf
  <2>2. QED
    BY <1>1, <1>3, <2>1
<1>13. QED
  BY <1>5, <1>6, <1>7, <1>8, <1>9, <1>10, <1>11, <1>12

\* The operands of an immediate and of a register operation.
AluRight(s, f) == IF f.opcode = 51 THEN M!ReadReg(s, f.rs2) ELSE Word(M!ImmI(f))
AluShift(s, f) == IF f.opcode = 51 THEN M!ReadReg(s, f.rs2) % 2^5 ELSE f.rs2
AluMinus(f) == f.funct7 = 32 /\ (f.opcode = 51 \/ f.funct3 = 5)
AluValue(s, f) == AluOf(f.funct3, M!ReadReg(s, f.rs1), AluRight(s, f), AluShift(s, f), AluMinus(f))

\* The operands of an operation are words, and its shift amount fits.
LEMMA AluOperands ==
  ASSUME XLEN = 32, NEW s, NEW t, Paired(s, t), NEW f \in InsnFields
  PROVE  /\ M!ReadReg(s, f.rs1) \in Words /\ AluRight(s, f) \in Words /\ AluShift(s, f) \in 0 .. 31
         /\ AluMinus(f) \in BOOLEAN /\ f.funct3 \in 0 .. 7
         /\ AluValue(s, f) \in Words
<1>1. M!ReadReg(s, f.rs1) \in Words /\ M!ReadReg(s, f.rs2) \in Words
  BY Operands
<1>2. M!ImmI(f) \in Int
  BY Immediates DEF InsnFields
<1>3. Word(M!ImmI(f)) \in Words
  BY <1>2, WordFacts
<1>4. f.rs2 \in 0 .. 31 /\ f.funct3 \in 0 .. 7
  BY DEF InsnFields
<1>5. \A x \in Words : x % 2^5 \in 0 .. 31
  BY SMT DEF Words
<1>6. AluRight(s, f) \in Words
  BY <1>1, <1>3 DEF AluRight
<1>7. AluShift(s, f) \in 0 .. 31
  BY <1>1, <1>4, <1>5, Zenon DEF AluShift
<1>8. AluMinus(f) \in BOOLEAN
  BY DEF AluMinus
<1>9. AluValue(s, f) \in Words
  BY <1>1, <1>4, <1>6, <1>7, <1>8, AluWord DEF AluValue
<1>10. QED
  BY <1>1, <1>4, <1>6, <1>7, <1>8, <1>9

\* An operation of the core.
LEMMA RtlAlu ==
  ASSUME XLEN = 32, NEW s, NEW t, Paired(s, t), NEW insn, NEW f, f = Decoded(insn), insn.len \in {2, 4},
         f \in InsnFields, R!isAluImm(f) \/ R!isAluReg(f), f.rd \in 0 .. 15, f.rs1 \in 0 .. 15,
         f.opcode = 51 => f.rs2 \in 0 .. 15
  PROVE  Plain(R!Outcome(t, insn), t, Word(s.pc + insn.len), f.rd, AluValue(s, f))
<1> DEFINE seq == Word(t.pc + insn.len)
<1>1. f.opcode = (IF R!isAluReg(f) THEN 51 ELSE 19) /\ f.opcode \in {19, 51}
  BY KindOpcodes
<1>2. R!execUsesRd(f) /\ R!execKnown(f)
  BY DEF R!execUsesRd, R!execKnown
<1>3. ~R!regAccessIllegal(f)
  BY <1>1, KindOpcodes DEF R!regAccessIllegal, R!execUsesRs1, R!execUsesRs2
<1>4. R!execTrapCause(t, f) = "none"
  BY <1>1, <1>2, <1>3, RtlHigh
<1>5. R!execNextPc(t, f, seq) = seq
  BY <1>1, KindOpcodes DEF R!execNextPc
<1>6. R!execWdata(t, f, seq) = R!AluWdata(t, f)
  BY <1>1, KindOpcodes DEF R!execWdata
<1>7. /\ R!Gpr(t, f.rs1) = M!ReadReg(s, f.rs1) /\ R!Gpr(t, f.rs2) = M!ReadReg(s, f.rs2)
  BY Operands
<1>8. R!imm12(f) = Word(M!ImmI(f)) /\ f.funct3 \in 0 .. 7
  BY Immediates DEF InsnFields
<1>9. R!isAluImm(f) /\ f.funct7 = 32 /\ f.funct3 \in {0, 1, 5} => f.funct3 \in {0, 5}
  BY DEF R!isAluImm
<1> DEFINE a == M!ReadReg(s, f.rs1)
           b == AluRight(s, f)
           n == AluShift(s, f)
<1>10. R!AluWdata(t, f) =
        CASE f.funct3 = 0 -> R!Word(IF R!isAluReg(f) /\ f.funct7 = 32 THEN a - b ELSE a + b)
          [] f.funct3 = 1 -> R!Shl(a, n)
          [] f.funct3 = 2 -> IF R!SignedOrder(a) < R!SignedOrder(b) THEN 1 ELSE 0
          [] f.funct3 = 3 -> IF a < b THEN 1 ELSE 0
          [] f.funct3 = 4 -> R!^^(a, b)
          [] f.funct3 = 5 -> IF f.funct7 = 32 THEN R!Sra(a, n) ELSE R!Shr(a, n)
          [] f.funct3 = 6 -> R!|(a, b)
          [] f.funct3 = 7 -> R!&(a, b)
  BY <1>1, <1>7, <1>8 DEF R!AluWdata, AluRight, AluShift
<1> HIDE DEF a, b, n
<1>11. AluOf(f.funct3, a, b, n, AluMinus(f)) =
        CASE f.funct3 = 0 -> Word(IF AluMinus(f) THEN a - b ELSE a + b)
          [] f.funct3 = 1 -> Shl(a, n)
          [] f.funct3 = 2 -> IF R!SignedOrder(a) < R!SignedOrder(b) THEN 1 ELSE 0
          [] f.funct3 = 3 -> IF a < b THEN 1 ELSE 0
          [] f.funct3 = 4 -> a ^^ b
          [] f.funct3 = 5 -> IF AluMinus(f) THEN Sra(a, n) ELSE Shr(a, n)
          [] f.funct3 = 6 -> a | b
          [] f.funct3 = 7 -> a & b
  BY DEF AluOf
<1>12. /\ f.funct3 = 0 => (AluMinus(f) <=> R!isAluReg(f) /\ f.funct7 = 32)
       /\ f.funct3 = 5 => (AluMinus(f) <=> f.funct7 = 32)
  BY <1>1 DEF AluMinus
<1>13. R!AluWdata(t, f) = AluOf(f.funct3, a, b, n, AluMinus(f))
  <2>1. /\ \A x : R!Word(x) = Word(x)
        /\ R!Shl(a, n) = Shl(a, n) /\ R!Shr(a, n) = Shr(a, n) /\ R!Sra(a, n) = Sra(a, n)
        /\ R!&(a, b) = (a & b) /\ R!|(a, b) = (a | b) /\ R!^^(a, b) = (a ^^ b)
    BY SameWords, SameShifts, SameBitwise
  <2>2. CASE f.funct3 = 0
    <3>1. CASE AluMinus(f)
      BY <1>10, <1>11, <1>12, <2>1, <2>2, <3>1
    <3>2. CASE ~AluMinus(f)
      BY <1>10, <1>11, <1>12, <2>1, <2>2, <3>2
    <3>3. QED
      BY <3>1, <3>2
  <2>3. CASE f.funct3 = 1
    BY <1>10, <1>11, <1>12, <2>1, <2>3
  <2>4. CASE f.funct3 = 2
    BY <1>10, <1>11, <1>12, <2>1, <2>4
  <2>5. CASE f.funct3 = 3
    BY <1>10, <1>11, <1>12, <2>1, <2>5
  <2>6. CASE f.funct3 = 4
    BY <1>10, <1>11, <1>12, <2>1, <2>6
  <2>7. CASE f.funct3 = 5
    <3>1. CASE AluMinus(f)
      BY <1>10, <1>11, <1>12, <2>1, <2>7, <3>1
    <3>2. CASE ~AluMinus(f)
      BY <1>10, <1>11, <1>12, <2>1, <2>7, <3>2
    <3>3. QED
      BY <3>1, <3>2
  <2>8. CASE f.funct3 = 6
    BY <1>10, <1>11, <1>12, <2>1, <2>8
  <2>9. CASE f.funct3 = 7
    BY <1>10, <1>11, <1>12, <2>1, <2>9
  <2>10. QED
    BY <1>8, <2>2, <2>3, <2>4, <2>5, <2>6, <2>7, <2>8, <2>9
<1>14. Plain(R!Outcome(t, insn), t, Word(R!execNextPc(t, f, seq)), f.rd, R!execWdata(t, f, seq))
  BY <1>1, <1>2, <1>4, RtlPlain
<1>15. QED
  BY <1>5, <1>6, <1>13, <1>14, GoesOn DEF AluValue, a, b, n

(***************************************************************************)
(* The model, and the two side by side.                                    *)
(***************************************************************************)
LEMMA ModelWrites ==
  ASSUME NEW s, NEW pc, NEW r \in 0 .. 15, NEW v
  PROVE  Plain(M!WriteReg(s, M!Nothing(s, pc), r, v), s, Word(pc), r, Word(v))
<1> DEFINE o == M!Nothing(s, pc)
<1>1. o = [cause |-> "none", pc |-> Word(pc), rd |-> None, wdata |-> None, addr |-> None,
           rdata |-> None, store |-> None, mem |-> s.mem, csrs |-> s.csrs, sleeping |-> FALSE]
  BY SameNames, SameWords DEF M!Nothing
<1>2. /\ o.cause = "none" /\ o.pc = Word(pc) /\ o.rd = None /\ o.mem = s.mem /\ o.csrs = s.csrs
      /\ o.sleeping = FALSE /\ o.addr = None
  BY <1>1
<1> HIDE DEF o
<1>3. CASE r = 0
  <2>1. M!WriteReg(s, o, r, v) = o
    BY <1>3 DEF M!WriteReg
  <2>2. QED
    BY <1>2, <1>3, <2>1 DEF Plain, Writes, o
<1>4. CASE r # 0
  <2>1. M!WriteReg(s, o, r, v) = [o EXCEPT !.rd = r, !.wdata = M!Word(v)]
    BY <1>2, <1>4 DEF M!WriteReg
  <2>2. M!Word(v) = Word(v)
    BY SameWords
  <2> DEFINE w == M!WriteReg(s, o, r, v)
  <2>3. /\ w.cause = "none" /\ w.pc = Word(pc) /\ w.rd = r /\ w.wdata = Word(v) /\ w.mem = s.mem
        /\ w.csrs = s.csrs /\ w.sleeping = FALSE /\ w.addr = None
    BY <1>1, <2>1, <2>2
  <2> HIDE DEF w
  <2>4. Plain(w, s, Word(pc), r, Word(v))
    BY <1>4, <2>3 DEF Plain, Writes
  <2>5. QED
    BY <2>4 DEF w, o
<1>5. QED
  BY <1>3, <1>4 DEF o

\* An instruction of the model that writes nothing.
LEMMA ModelStays ==
  ASSUME NEW s, NEW pc, NEW v
  PROVE  Plain(M!Nothing(s, pc), s, Word(pc), 0, v)
  BY SameNames, SameWords DEF M!Nothing, Plain, Writes

\* The causes the model raises.
LEMMA ModelTraps ==
  ASSUME NEW s
  PROVE  /\ \A c : M!Raise(s, c).cause = c
         /\ M!Illegal(s).cause = "illegal_instruction" /\ M!Unsupported(s).cause = "unsupported_extension"
         /\ M!HighRegister(s).cause = "rv32e_register"
         /\ \A pc, r, v : r > 15 /\ r # 0 => M!WriteReg(s, M!Nothing(s, pc), r, v).cause = "rv32e_register"
<1>1. \A c : M!Raise(s, c).cause = c
  BY DEF M!Raise, M!Nothing
<1>2. ASSUME NEW pc, NEW r, NEW v, r > 15, r # 0
      PROVE  M!WriteReg(s, M!Nothing(s, pc), r, v).cause = "rv32e_register"
  BY <1>2 DEF M!WriteReg, M!Nothing
<1>3. QED
  BY <1>1, <1>2 DEF M!Illegal, M!Unsupported, M!HighRegister

\* What is to be shown of an instruction in two states that agree.
Agrees(s, t, insn) ==
  LET m == M!Outcome(s, insn)
      r == R!Outcome(t, insn)
  IN  OneTrap(m, r) \/ OneEffect(s, t, m, r)

\* Illegal instructions of one kind or another.
LEMMA BothIllegal ==
  ASSUME NEW s, NEW t, NEW insn, M!Outcome(s, insn).cause \in Illegal, R!Outcome(t, insn).cause \in Illegal
  PROVE  Agrees(s, t, insn)
  BY DEF Agrees, OneTrap, Illegal

\* An instruction the core does not know, or that names a register it does not have.
LEMMA RtlIllegal ==
  ASSUME NEW t, NEW insn, NEW f, f = Decoded(insn),
         \/ ~R!execKnown(f)
         \/ R!execKnown(f) /\ R!regAccessIllegal(f) /\ f.opcode \in {55, 23, 111, 103, 99, 19, 51}
  PROVE  R!Outcome(t, insn).cause \in Illegal
<1>1. R!execTrapCause(t, f) \in {"illegal_instruction", "rv32e_register"}
  <2>1. CASE ~R!execKnown(f)
    BY <2>1, RtlCause
  <2>2. CASE R!execKnown(f) /\ R!regAccessIllegal(f) /\ f.opcode \in {55, 23, 111, 103, 99, 19, 51}
    BY <2>2, RtlHigh
  <2>3. QED
    BY <2>1, <2>2
<1>2. R!execTrapCause(t, f) # "none"
  BY <1>1
<1>3. R!Outcome(t, insn).cause = R!execTrapCause(t, f)
  BY <1>2, RtlTraps
<1>4. QED
  BY <1>1, <1>3 DEF Illegal

\* A 32-bit instruction is executed as it stands.
LEMMA AsItStands ==
  ASSUME NEW s, s.pc % 2 = 0, NEW f \in InsnFields
  PROVE  M!Outcome(s, f) = M!Execute(s, f) /\ Decoded(f) = f /\ f.len \in {2, 4} /\ f.len = 4
  BY SMT DEF M!Outcome, Decoded, InsnFields

\* LUI and AUIPC agree.
LEMMA UpperAgrees ==
  ASSUME XLEN = 32, NEW s, NEW t, Paired(s, t), NEW f \in InsnFields, f.opcode \in {55, 23}
  PROVE  Agrees(s, t, f)
<1> DEFINE v == IF f.opcode = 55 THEN M!ImmU(f) ELSE s.pc + M!ImmU(f)
<1>1. s.pc = t.pc /\ s.pc \in Words /\ s.pc % 2 = 0
  BY Operands
<1>2. Decoded(f) = f /\ f.len = 4 /\ M!Outcome(s, f) = M!Execute(s, f)
  BY <1>1, AsItStands
<1>3. M!Execute(s, f) = M!WriteReg(s, M!Nothing(s, s.pc + 4), f.rd, v)
  BY DEF M!Execute, M!Sequential
<1>4. M!ImmU(f) \in Words /\ R!upperImm(f) = M!ImmU(f)
  BY Immediates DEF InsnFields
<1>5. f.rd \in 0 .. 31
  BY DEF InsnFields
<1>6. CASE f.rd \in 0 .. 15
  <2>1. Plain(R!Outcome(t, f), t, Word(s.pc + 4), f.rd, IF f.opcode = 55 THEN R!upperImm(f) ELSE Word(s.pc + R!upperImm(f)))
    BY <1>2, <1>6, RtlUpper
  <2>2. Plain(M!Outcome(s, f), s, Word(s.pc + 4), f.rd, Word(v))
    BY <1>2, <1>3, <1>6, ModelWrites
  <2>3. M!ImmU(f) \in Int
    BY <1>4, WordSums, 0 \in Int
  <2>4. Word(M!ImmU(f)) = M!ImmU(f) /\ Word(s.pc + M!ImmU(f)) \in Words
    <3>1. Word(s.pc + M!ImmU(f)) \in Words
      BY <1>1, <2>3, WordSums
    <3>2. QED
      BY <1>4, <3>1, WordFacts
  <2>5. Word(v) \in Words /\ Word(v) = IF f.opcode = 55 THEN R!upperImm(f) ELSE Word(s.pc + R!upperImm(f))
    BY <1>4, <2>4
  <2>6. Word(s.pc + 4) \in Words /\ Word(s.pc + 4) % 2 = 0
    BY GoesOn, 4 \in {2, 4}
  <2> HIDE DEF v
  <2>7. OneEffect(s, t, M!Outcome(s, f), R!Outcome(t, f))
    BY <1>6, <2>1, <2>2, <2>5, <2>6, PlainAgrees DEF Paired
  <2>8. QED
    BY <2>7 DEF Agrees
<1>7. CASE f.rd > 15
  <2>1. M!Outcome(s, f).cause = "rv32e_register"
    <3>1. f.rd > 15 /\ f.rd # 0
      BY <1>5, <1>7
    <3> HIDE DEF v
    <3>2. M!WriteReg(s, M!Nothing(s, s.pc + 4), f.rd, v).cause = "rv32e_register"
      BY <3>1, ModelTraps, SMTT(30)
    <3>3. QED
      BY <1>2, <1>3, <3>2, Zenon
  <2>2. R!execKnown(f) /\ R!regAccessIllegal(f)
    BY <1>7 DEF R!execKnown, R!execUsesRd, R!regAccessIllegal
  <2>3. R!Outcome(t, f).cause \in Illegal
    BY <1>2, <2>2, RtlIllegal
  <2>4. QED
    BY <2>1, <2>3, BothIllegal DEF Illegal
<1>8. QED
  BY <1>5, <1>6, <1>7

\* JAL agrees.
LEMMA JalAgrees ==
  ASSUME XLEN = 32, NEW s, NEW t, Paired(s, t), NEW f \in InsnFields, f.opcode = 111
  PROVE  Agrees(s, t, f)
<1>1. s.pc = t.pc /\ s.pc \in Words /\ s.pc % 2 = 0
  BY Operands
<1>2. Decoded(f) = f /\ f.len = 4 /\ f.len \in {2, 4} /\ M!Outcome(s, f) = M!Execute(s, f)
  BY <1>1, AsItStands
<1>3. M!ImmJ(f) \in Int /\ M!ImmJ(f) % 2 = 0
  BY Immediates DEF InsnFields
<1>4. /\ Word(s.pc + M!ImmJ(f)) \in Words /\ Word(s.pc + M!ImmJ(f)) % 2 = 0
  BY <1>1, <1>3, Targets
<1>5. f.rd \in 0 .. 31
  BY DEF InsnFields
<1>6. CASE f.rd \in 0 .. 15
  <2>1. Plain(R!Outcome(t, f), t, Word(s.pc + M!ImmJ(f)), f.rd, Word(s.pc + f.len))
    BY <1>2, <1>6, RtlJal
  <2>2. M!JumpTo(s, s.pc + M!ImmJ(f)) = M!Nothing(s, s.pc + M!ImmJ(f))
    BY <1>4, SameWords DEF M!JumpTo
  <2>3. M!Legal({f.rd})
    BY <1>6 DEF M!Legal
  <2>4. M!Execute(s, f) = M!WriteReg(s, M!Nothing(s, s.pc + M!ImmJ(f)), f.rd, s.pc + 4)
    BY <2>2, <2>3 DEF M!Execute, M!ExecuteJump
  <2>5. Plain(M!Outcome(s, f), s, Word(s.pc + M!ImmJ(f)), f.rd, Word(s.pc + 4))
    BY <1>2, <1>6, <2>4, ModelWrites
  <2>6. Word(s.pc + 4) \in Words /\ Word(s.pc + 4) % 2 = 0
    BY GoesOn, 4 \in {2, 4}
  <2>7. OneEffect(s, t, M!Outcome(s, f), R!Outcome(t, f))
    BY <1>2, <1>4, <1>6, <2>1, <2>5, <2>6, PlainAgrees DEF Paired
  <2>8. QED
    BY <2>7 DEF Agrees
<1>7. CASE f.rd > 15
  <2>1. ~M!Legal({f.rd})
    BY <1>5, <1>7 DEF M!Legal
  <2>2. M!Execute(s, f) = M!HighRegister(s)
    BY <2>1 DEF M!Execute, M!ExecuteJump
  <2>3. R!execKnown(f) /\ R!regAccessIllegal(f)
    BY <1>7 DEF R!execKnown, R!execUsesRd, R!regAccessIllegal
  <2>4. R!Outcome(t, f).cause \in Illegal
    BY <1>2, <2>3, RtlIllegal
  <2>5. QED
    BY <1>2, <2>2, <2>4, BothIllegal, ModelTraps DEF Illegal
<1>8. QED
  BY <1>5, <1>6, <1>7

\* JALR agrees.
LEMMA JalrAgrees ==
  ASSUME XLEN = 32, NEW s, NEW t, Paired(s, t), NEW f \in InsnFields, f.opcode = 103
  PROVE  Agrees(s, t, f)
<1> DEFINE x == Word(M!ReadReg(s, f.rs1) + M!ImmI(f))
<1>1. s.pc = t.pc /\ s.pc \in Words /\ s.pc % 2 = 0 /\ M!ReadReg(s, f.rs1) \in Words
  BY Operands
<1>2. Decoded(f) = f /\ f.len = 4 /\ f.len \in {2, 4} /\ M!Outcome(s, f) = M!Execute(s, f)
  BY <1>1, AsItStands
<1>3. M!ImmI(f) \in Int
  BY Immediates DEF InsnFields
<1>4. x \in Words
  BY <1>1, <1>3, WordSums
<1>5. f.rd \in 0 .. 31 /\ f.rs1 \in 0 .. 31
  BY DEF InsnFields
<1>6. M!Execute(s, f) = IF f.funct3 # 0 THEN M!Illegal(s)
                        ELSE IF M!Legal({f.rd, f.rs1}) THEN M!WriteReg(s, M!Nothing(s, AlignDown(x, 2)), f.rd, s.pc + 4)
                        ELSE M!HighRegister(s)
  BY SameWords DEF M!Execute, M!ExecuteJump
<1> HIDE DEF x
<1>7. CASE f.funct3 = 0 /\ f.rd \in 0 .. 15 /\ f.rs1 \in 0 .. 15
  <2>1. Plain(R!Outcome(t, f), t, AlignDown(x, 2), f.rd, Word(s.pc + f.len))
    BY <1>2, <1>7, RtlJalr DEF x
  <2>2. M!Legal({f.rd, f.rs1})
    BY <1>7 DEF M!Legal
  <2>3. AlignDown(x, 2) \in Words /\ AlignDown(x, 2) % 2 = 0 /\ Word(AlignDown(x, 2)) = AlignDown(x, 2)
    BY <1>4, EvenTarget
  <2>4. Plain(M!Outcome(s, f), s, Word(AlignDown(x, 2)), f.rd, Word(s.pc + 4))
    BY <1>2, <1>6, <1>7, <2>2, ModelWrites
  <2>5. Word(s.pc + 4) \in Words /\ Word(s.pc + 4) % 2 = 0
    BY GoesOn, 4 \in {2, 4}
  <2>6. OneEffect(s, t, M!Outcome(s, f), R!Outcome(t, f))
    BY <1>2, <1>7, <2>1, <2>3, <2>4, <2>5, PlainAgrees DEF Paired
  <2>7. QED
    BY <2>6 DEF Agrees
<1>8. CASE f.funct3 # 0
  <2>1. ~R!execKnown(f)
    BY <1>8, KindOpcodes DEF R!isJalr, R!execKnown, R!execUsesRd
  <2>2. R!Outcome(t, f).cause \in Illegal
    BY <1>2, <2>1, RtlIllegal
  <2>3. QED
    BY <1>2, <1>6, <1>8, <2>2, BothIllegal, ModelTraps DEF Illegal
<1>9. CASE f.funct3 = 0 /\ (f.rd > 15 \/ f.rs1 > 15)
  <2>1. ~M!Legal({f.rd, f.rs1})
    BY <1>5, <1>9 DEF M!Legal
  <2>2. R!execKnown(f) /\ R!regAccessIllegal(f)
    BY <1>9 DEF R!isJalr, R!execKnown, R!execUsesRd, R!execUsesRs1, R!regAccessIllegal
  <2>3. R!Outcome(t, f).cause \in Illegal
    BY <1>2, <2>2, RtlIllegal
  <2>4. QED
    BY <1>2, <1>6, <1>9, <2>1, <2>3, BothIllegal, ModelTraps DEF Illegal
<1>10. QED
  BY <1>5, <1>7, <1>8, <1>9

\* Branches agree.
LEMMA BranchAgrees ==
  ASSUME XLEN = 32, NEW s, NEW t, Paired(s, t), NEW f \in InsnFields, f.opcode = 99
  PROVE  Agrees(s, t, f)
<1> DEFINE x == s.pc + M!ImmB(f)
<1>1. s.pc = t.pc /\ s.pc \in Words /\ s.pc % 2 = 0
  BY Operands
<1>2. Decoded(f) = f /\ f.len = 4 /\ f.len \in {2, 4} /\ M!Outcome(s, f) = M!Execute(s, f)
  BY <1>1, AsItStands
<1>3. M!ImmB(f) \in Int /\ M!ImmB(f) % 2 = 0
  BY Immediates DEF InsnFields
<1>4. Word(x) \in Words /\ Word(x) % 2 = 0
  BY <1>1, <1>3, Targets
<1>5. f.rs1 \in 0 .. 31 /\ f.rs2 \in 0 .. 31 /\ f.funct3 \in 0 .. 7
  BY DEF InsnFields
<1>6. M!JumpTo(s, x) = M!Nothing(s, x)
  BY <1>4, SameWords DEF M!JumpTo
<1>7. M!Execute(s, f) = CASE ~M!Legal({f.rs1, f.rs2}) -> M!HighRegister(s)
                           [] M!Legal({f.rs1, f.rs2}) /\ f.funct3 \in {2, 3} -> M!Illegal(s)
                           [] M!Legal({f.rs1, f.rs2}) /\ f.funct3 \notin {2, 3} ->
                                IF Taken(s, f) THEN M!JumpTo(s, x) ELSE M!Sequential(s)
  <2>1. M!Execute(s, f) = M!ExecuteBranch(s, f)
    BY DEF M!Execute
  <2>2. QED
    BY <2>1, Zenon DEF M!ExecuteBranch, Taken
<1>8. CASE f.funct3 \in {0, 1, 4, 5, 6, 7} /\ f.rs1 \in 0 .. 15 /\ f.rs2 \in 0 .. 15
  <2> DEFINE pc == IF Taken(s, f) THEN Word(x) ELSE Word(s.pc + 4)
  <2>1. Plain(R!Outcome(t, f), t, pc, 0, 0)
    BY <1>2, <1>8, RtlBranch
  <2>2. M!Legal({f.rs1, f.rs2}) /\ f.funct3 \notin {2, 3}
    BY <1>8 DEF M!Legal
  <2>3. M!Execute(s, f) = IF Taken(s, f) THEN M!JumpTo(s, x) ELSE M!Sequential(s)
    BY <1>7, <2>2
  <2> HIDE DEF x
  <2>4. M!Outcome(s, f) = M!Nothing(s, IF Taken(s, f) THEN x ELSE s.pc + 4)
    BY <1>2, <1>6, <2>3 DEF M!Sequential
  <2>5. Plain(M!Outcome(s, f), s, pc, 0, 0)
    BY <2>4, ModelStays
  <2>6. Word(s.pc + 4) \in Words /\ Word(s.pc + 4) % 2 = 0
    BY GoesOn, 4 \in {2, 4}
  <2>7. pc \in Words /\ pc % 2 = 0 /\ 0 \in Words
    <3>1. 0 \in Words
      BY SMT DEF Words
    <3>2. QED
      BY <1>4, <2>6, <3>1
  <2> HIDE DEF pc
  <2>8. OneEffect(s, t, M!Outcome(s, f), R!Outcome(t, f))
    BY <2>1, <2>5, <2>7, PlainAgrees, 0 \in 0 .. 15 DEF Paired
  <2>9. QED
    BY <2>8 DEF Agrees
<1>9. CASE f.funct3 \in {2, 3}
  <2>1. M!Execute(s, f) = M!HighRegister(s) \/ M!Execute(s, f) = M!Illegal(s)
    BY <1>9, <1>7
  <2>2. ~R!execKnown(f)
    BY <1>9, KindOpcodes DEF R!isBranch, R!execKnown, R!execUsesRd
  <2>3. R!Outcome(t, f).cause \in Illegal
    BY <1>2, <2>2, RtlIllegal
  <2>4. M!Outcome(s, f).cause \in Illegal
    BY <1>2, <2>1, ModelTraps DEF Illegal
  <2>5. QED
    BY <2>3, <2>4, BothIllegal
<1>10. CASE f.funct3 \in {0, 1, 4, 5, 6, 7} /\ (f.rs1 > 15 \/ f.rs2 > 15)
  <2>1. ~M!Legal({f.rs1, f.rs2})
    BY <1>5, <1>10 DEF M!Legal
  <2>2. M!Execute(s, f) = M!HighRegister(s)
    BY <2>1 DEF M!Execute, M!ExecuteBranch
  <2>3. R!execKnown(f) /\ R!regAccessIllegal(f)
    BY <1>10 DEF R!isBranch, R!execKnown, R!execUsesRs1, R!execUsesRs2, R!regAccessIllegal
  <2>4. R!Outcome(t, f).cause \in Illegal
    BY <1>2, <2>3, RtlIllegal
  <2>5. QED
    BY <1>2, <2>2, <2>4, BothIllegal, ModelTraps DEF Illegal
<1>11. QED
  BY <1>5, <1>8, <1>9, <1>10

\* OP and OP-IMM agree.
LEMMA AluAgrees ==
  ASSUME XLEN = 32, NEW s, NEW t, Paired(s, t), NEW f \in InsnFields, f.opcode \in {19, 51}
  PROVE  Agrees(s, t, f)
<1> DEFINE a == M!ReadReg(s, f.rs1)
           res == M!AluResult(f.funct3, a, AluRight(s, f), AluShift(s, f), AluMinus(f))
           known == R!isAluImm(f) \/ R!isAluReg(f)
           low == f.rd \in 0 .. 15 /\ f.rs1 \in 0 .. 15 /\ (f.opcode = 51 => f.rs2 \in 0 .. 15)
<1>1. s.pc = t.pc /\ s.pc \in Words /\ s.pc % 2 = 0
  BY Operands
<1>2. Decoded(f) = f /\ f.len = 4 /\ f.len \in {2, 4} /\ M!Outcome(s, f) = M!Execute(s, f)
  BY <1>1, AsItStands
<1>3. f.rd \in 0 .. 31 /\ f.rs1 \in 0 .. 31 /\ f.rs2 \in 0 .. 31 /\ f.funct3 \in 0 .. 7 /\ f.funct7 \in 0 .. 127
  BY DEF InsnFields
<1>4. M!Legal({f.rd, f.rs1}) <=> f.rd <= 15 /\ f.rs1 <= 15
  BY DEF M!Legal
<1>5. M!Legal({f.rd, f.rs1, f.rs2}) <=> f.rd <= 15 /\ f.rs1 <= 15 /\ f.rs2 <= 15
  BY DEF M!Legal
<1>6. known /\ low => M!Execute(s, f) = M!WriteReg(s, M!Nothing(s, s.pc + 4), f.rd, res)
  <2>1. CASE f.opcode = 19
    <3>1. AluRight(s, f) = M!Word(M!ImmI(f)) /\ AluShift(s, f) = f.rs2 /\ AluMinus(f) = (f.funct3 = 5 /\ f.funct7 = 32)
      BY <2>1, SameWords DEF AluRight, AluShift, AluMinus
    <3>2. known => ~((f.funct3 = 1 /\ f.funct7 # 0) \/ (f.funct3 = 5 /\ f.funct7 \notin {0, 32}))
      BY <2>1 DEF R!isAluImm, R!isAluReg
    <3>3. QED
      BY <1>4, <2>1, <3>1, <3>2 DEF M!Execute, M!ExecuteOpImm, M!Sequential
  <2>2. CASE f.opcode = 51
    <3>1. AluRight(s, f) = M!ReadReg(s, f.rs2) /\ AluShift(s, f) = M!ReadReg(s, f.rs2) % 2^5 /\ AluMinus(f) = (f.funct7 = 32)
      BY <2>2 DEF AluRight, AluShift, AluMinus
    <3>2. known => ~(f.funct7 # 0 /\ ~(f.funct7 = 32 /\ f.funct3 \in {0, 5}))
      BY <2>2 DEF R!isAluImm, R!isAluReg
    <3>3. QED
      BY <1>5, <2>2, <3>1, <3>2 DEF M!Execute, M!ExecuteOp, M!Sequential
  <2>3. QED
    BY <2>1, <2>2
<1>7. ~known \/ ~low => M!Execute(s, f).cause \in Illegal
  <2>1. CASE f.opcode = 19
    <3>1. ~known => (f.funct3 = 1 /\ f.funct7 # 0) \/ (f.funct3 = 5 /\ f.funct7 \notin {0, 32})
      BY <1>3, <2>1 DEF R!isAluImm
    <3>2. ~known \/ ~low => M!Execute(s, f) = M!HighRegister(s) \/ M!Execute(s, f) = M!Illegal(s)
      BY <1>3, <1>4, <2>1, <3>1 DEF M!Execute, M!ExecuteOpImm
    <3>3. QED
      BY <3>2, ModelTraps DEF Illegal
  <2>2. CASE f.opcode = 51
    <3>1. ~known => f.funct7 # 0 /\ ~(f.funct7 = 32 /\ f.funct3 \in {0, 5})
      BY <1>3, <2>2 DEF R!isAluReg
    <3>2. ~known \/ ~low => M!Execute(s, f) = M!HighRegister(s) \/ M!Execute(s, f) = M!Illegal(s)
      BY <1>3, <1>5, <2>2, <3>1 DEF M!Execute, M!ExecuteOp
    <3>3. QED
      BY <3>2, ModelTraps DEF Illegal
  <2>3. QED
    BY <2>1, <2>2
<1>8. CASE known /\ low
  <2>1. Plain(R!Outcome(t, f), t, Word(s.pc + f.len), f.rd, AluValue(s, f))
    BY <1>2, <1>8, RtlAlu
  <2>2. Plain(M!Outcome(s, f), s, Word(s.pc + 4), f.rd, Word(res))
    <3> HIDE DEF res
    <3>1. QED
      BY <1>2, <1>6, <1>8, ModelWrites
  <2>3. /\ a \in Words /\ AluRight(s, f) \in Words /\ AluShift(s, f) \in 0 .. 31 /\ AluMinus(f) \in BOOLEAN
        /\ f.funct3 \in 0 .. 7 /\ AluValue(s, f) \in Words
    BY AluOperands
  <2>4. Word(res) = AluValue(s, f)
    <3>1. Word(M!AluResult(f.funct3, a, AluRight(s, f), AluShift(s, f), AluMinus(f)))
            = AluOf(f.funct3, a, AluRight(s, f), AluShift(s, f), AluMinus(f))
      BY <2>3, AluWord, ZenonT(40)
    <3>2. QED
      BY <3>1, Zenon DEF AluValue
  <2>5. Word(s.pc + 4) \in Words /\ Word(s.pc + 4) % 2 = 0
    BY GoesOn, 4 \in {2, 4}
  <2> HIDE DEF res
  <2>6. OneEffect(s, t, M!Outcome(s, f), R!Outcome(t, f))
    BY <1>2, <1>8, <2>1, <2>2, <2>3, <2>4, <2>5, PlainAgrees DEF Paired
  <2>7. QED
    BY <2>6 DEF Agrees
<1>9. CASE ~known
  <2>1. ~R!execKnown(f)
    BY <1>9, KindOpcodes DEF R!execKnown, R!execUsesRd
  <2>2. R!Outcome(t, f).cause \in Illegal
    BY <1>2, <2>1, RtlIllegal
  <2>3. QED
    BY <1>2, <1>7, <1>9, <2>2, BothIllegal
<1>10. CASE known /\ ~low
  <2>1. known => (R!isAluReg(f) <=> f.opcode = 51)
    BY KindOpcodes
  <2>2. R!execKnown(f) /\ R!regAccessIllegal(f)
    BY <1>3, <1>10, <2>1 DEF R!execKnown, R!execUsesRd, R!execUsesRs1, R!execUsesRs2, R!regAccessIllegal
  <2>3. R!Outcome(t, f).cause \in Illegal
    BY <1>2, <2>2, RtlIllegal
  <2>4. QED
    BY <1>2, <1>7, <1>10, <2>3, BothIllegal
<1>11. QED
  BY <1>8, <1>9, <1>10

\* FENCE, and opcodes neither side has.
LEMMA OtherAgrees ==
  ASSUME XLEN = 32, NEW s, NEW t, Paired(s, t), NEW f \in InsnFields,
         f.opcode \notin {55, 23, 111, 103, 99, 3, 35, 19, 51, 115}
  PROVE  Agrees(s, t, f)
<1>1. s.pc = t.pc /\ s.pc \in Words /\ s.pc % 2 = 0
  BY Operands
<1>2. Decoded(f) = f /\ f.len = 4 /\ f.len \in {2, 4} /\ M!Outcome(s, f) = M!Execute(s, f)
  BY <1>1, AsItStands
<1>3. CASE f.opcode = 15 /\ f.funct3 = 0
  <2>1. Plain(R!Outcome(t, f), t, Word(s.pc + f.len), 0, 0)
    BY <1>2, <1>3, RtlFence
  <2>2. M!Outcome(s, f) = M!Nothing(s, s.pc + 4)
    BY <1>2, <1>3 DEF M!Execute, M!Sequential
  <2>3. Plain(M!Outcome(s, f), s, Word(s.pc + 4), 0, 0)
    BY <2>2, ModelStays
  <2>4. Word(s.pc + 4) \in Words /\ Word(s.pc + 4) % 2 = 0
    BY GoesOn, 4 \in {2, 4}
  <2>5. 0 \in Words
    BY SMT DEF Words
  <2>6. OneEffect(s, t, M!Outcome(s, f), R!Outcome(t, f))
    BY <1>2, <2>1, <2>3, <2>4, <2>5, PlainAgrees, 0 \in 0 .. 15 DEF Paired
  <2>7. QED
    BY <2>6 DEF Agrees
<1>4. CASE ~(f.opcode = 15 /\ f.funct3 = 0)
  <2>1. ~R!execKnown(f)
    BY <1>4, KindOpcodes DEF R!execKnown, R!execUsesRd, R!isFence
  <2>2. M!Execute(s, f) = M!Illegal(s)
    BY <1>4 DEF M!Execute
  <2>3. R!Outcome(t, f).cause \in Illegal
    BY <1>2, <2>1, RtlIllegal
  <2>4. QED
    BY <1>2, <2>2, <2>3, BothIllegal, ModelTraps DEF Illegal
<1>5. QED
  BY <1>3, <1>4

(***************************************************************************)
(* Loads: the lanes of the aligned word are the bytes at the address.      *)
(***************************************************************************)
LEMMA Assembled ==
  ASSUME XLEN = 32, NEW mem, NEW a \in Int
  PROVE  /\ BytesAt(mem, a, 1) = ByteAt(mem, a)
         /\ BytesAt(mem, a, 2) = ByteAt(mem, a) + ByteAt(mem, a + 1) * 256
         /\ BytesAt(mem, a, 4) = ByteAt(mem, a) + ByteAt(mem, a + 1) * 256
                                   + (ByteAt(mem, a + 2) + ByteAt(mem, a + 3) * 256) * 65536
<1>1. ByteBits = 8
  BY SMT DEF ByteBits
<1>2. 2^ByteBits = 256 /\ 2^(2 * ByteBits) = 65536
  BY <1>1, SMT
<1>3. (a + 2) + 1 = a + 3
  BY SMT
<1> HIDE DEF ByteAt
<1>4. BytesAt(mem, a, 1) = ByteAt(mem, a)
  BY DEF BytesAt
<1>5. BytesAt(mem, a, 2) = ByteAt(mem, a) + ByteAt(mem, a + 1) * 256
  BY <1>2 DEF BytesAt
<1>6. BytesAt(mem, a, 4) = ByteAt(mem, a) + ByteAt(mem, a + 1) * 256
                             + (ByteAt(mem, a + 2) + ByteAt(mem, a + 3) * 256) * 65536
  BY <1>2, <1>3 DEF BytesAt
<1>7. QED
  BY <1>4, <1>5, <1>6

\* The lanes of a word.
LaneWord(b0, b1, b2, b3) == b0 + b1 * 256 + (b2 + b3 * 256) * 65536

\* The bytes and the halves of a word on the bus.
LEMMA Lanes ==
  ASSUME XLEN = 32, NEW b0 \in Byte, NEW b1 \in Byte, NEW b2 \in Byte, NEW b3 \in Byte
  PROVE  LET d == LaneWord(b0, b1, b2, b3)
         IN  /\ d \in Words
             /\ Bits(d, 7, 0) = b0 /\ Bits(d, 15, 8) = b1 /\ Bits(d, 23, 16) = b2 /\ Bits(d, 31, 24) = b3
             /\ d % 2^16 = b0 + b1 * 256 /\ Shr(d, 16) = b2 + b3 * 256
<1> DEFINE d == LaneWord(b0, b1, b2, b3)
<1>1. b0 \in Int /\ b1 \in Int /\ b2 \in Int /\ b3 \in Int
      /\ 0 <= b0 /\ b0 < 256 /\ 0 <= b1 /\ b1 < 256 /\ 0 <= b2 /\ b2 < 256 /\ 0 <= b3 /\ b3 < 256
  BY SMT DEF Byte
<1>2. d = b0 + b1 * 256 + b2 * 65536 + b3 * 16777216
  BY <1>1, SMT DEF LaneWord
<1> HIDE DEF d
<1>3. d \in Words
  BY <1>1, <1>2, SMT DEF Words
<1>4. d % 256 = b0
  BY <1>1, <1>2, SMT
<1>5. d \div 256 = b1 + b2 * 256 + b3 * 65536
  BY <1>1, <1>2, SMT
<1>6. d \div 65536 = b2 + b3 * 256
  BY <1>1, <1>2, SMT
<1>7. d \div 16777216 = b3
  BY <1>1, <1>2, SMT
<1>8. (d \div 256) % 256 = b1 /\ (d \div 65536) % 256 = b2 /\ (d \div 16777216) % 256 = b3
  BY <1>1, <1>5, <1>6, <1>7, SMT
<1>9. d % 65536 = b0 + b1 * 256
  BY <1>1, <1>2, SMT
<1>10. /\ Bits(d, 7, 0) = d % 256 /\ Bits(d, 15, 8) = (d \div 256) % 256 /\ Bits(d, 23, 16) = (d \div 65536) % 256
       /\ Bits(d, 31, 24) = (d \div 16777216) % 256
  <2>1. d \div 1 = d
    BY <1>3, SMT DEF Words
  <2>2. QED
    BY <2>1, SMT DEF Bits
<1>11. Shr(d, 16) = d \div 65536
  BY SMT DEF Shr
<1>12. d % 2^16 = d % 65536
  BY SMT
<1>13. QED
  BY <1>3, <1>4, <1>6, <1>8, <1>9, <1>10, <1>11, <1>12 DEF d

\* A sign extended field, as a word.
LEMMA Filled ==
  ASSUME XLEN = 32, NEW n \in {8, 16}, NEW x \in Nat, x < 2^n
  PROVE  /\ x + (IF R!Bit(x, n - 1) = 1 THEN 2^XLEN - 2^n ELSE 0) = Word(Word(M!Sext(x, n)))
         /\ Word(Word(M!Sext(x, n))) \in Words
         /\ x = Word(Word(x)) /\ x \in Words
<1>1. CASE n = 8
  <2>1. x \in 0 .. 255
    BY <1>1, SMT
  <2>2. R!Bit(x, 7) = (IF x >= 128 THEN 1 ELSE 0) /\ M!Bit(x, 7) = (IF x >= 128 THEN 1 ELSE 0)
    BY <2>1, SMT DEF R!Bit, R!Bits, M!Bit, M!Bits
  <2>3. M!Sext(x, 8) = IF x >= 128 THEN x - 256 ELSE x
    BY <2>1, <2>2, SMT DEF M!Sext
  <2>4. Word(M!Sext(x, 8)) = x + (IF x >= 128 THEN 4294967040 ELSE 0)
    BY <2>1, <2>3, SMT DEF Word
  <2>5. Word(M!Sext(x, 8)) \in Words /\ x \in Words
    BY <2>1, <2>4, SMT DEF Words
  <2>6. x + (IF R!Bit(x, 7) = 1 THEN 2^XLEN - 2^8 ELSE 0) = x + (IF x >= 128 THEN 4294967040 ELSE 0)
    BY <2>2, SMT
  <2>7. n - 1 = 7
    BY <1>1, SMT
  <2>8. \A y \in Words : Word(y) = y
    BY WordFacts
  <2>9. QED
    BY <1>1, <2>4, <2>5, <2>6, <2>7, <2>8, SMT
<1>2. CASE n = 16
  <2>1. x < 65536
    BY <1>2, SMT
  <2>2. R!Bit(x, 15) = (IF x >= 32768 THEN 1 ELSE 0) /\ M!Bit(x, 15) = (IF x >= 32768 THEN 1 ELSE 0)
    BY <2>1, SMT DEF R!Bit, R!Bits, M!Bit, M!Bits
  <2>3. M!Sext(x, 16) = IF x >= 32768 THEN x - 65536 ELSE x
    BY <2>1, <2>2, SMT DEF M!Sext
  <2>4. Word(M!Sext(x, 16)) = x + (IF x >= 32768 THEN 4294901760 ELSE 0)
    BY <2>1, <2>3, SMT DEF Word
  <2>5. Word(M!Sext(x, 16)) \in Words /\ x \in Words
    BY <2>1, <2>4, SMT DEF Words
  <2>6. x + (IF R!Bit(x, 15) = 1 THEN 2^XLEN - 2^16 ELSE 0) = x + (IF x >= 32768 THEN 4294901760 ELSE 0)
    BY <2>2, SMT
  <2>7. n - 1 = 15
    BY <1>2, SMT
  <2>8. \A y \in Words : Word(y) = y
    BY WordFacts
  <2>9. QED
    BY <1>2, <2>4, <2>5, <2>6, <2>7, <2>8, SMT
<1>3. QED
  BY <1>1, <1>2

\* Extending the sign of a whole word leaves the word.
LEMMA FullWord ==
  ASSUME XLEN = 32, NEW x \in Words
  PROVE  Word(Word(M!Sext(x, 32))) = x
<1>1. x \in Nat /\ x < 4294967296
  BY SMT DEF Words
<1>2. M!Bit(x, 31) = (IF x >= 2147483648 THEN 1 ELSE 0)
  BY <1>1, SMT DEF M!Bit, M!Bits
<1>3. M!Sext(x, 32) = IF x >= 2147483648 THEN x - 4294967296 ELSE x
  BY <1>1, <1>2, SMT DEF M!Sext
<1>4. Word(M!Sext(x, 32)) = x
  BY <1>1, <1>3, SMT DEF Word
<1>5. \A y \in Words : Word(y) = y
  BY WordFacts
<1>6. QED
  BY <1>4, <1>5, SMT

\* What the model loads from an address.
LoadValue(mem, addr, k) ==
  LET size == 2^(k % 4)
      raw == BytesAt(mem, addr, size)
  IN  Word(Word(IF k < 4 THEN M!Sext(raw, size * ByteBits) ELSE raw))
LoadAddr(s, f) == Word(M!ReadReg(s, f.rs1) + M!ImmI(f))
Size(f) == 2^(f.funct3 % 4)

\* Where a word lies and the lane of an address in it.
LEMMA Aligned4 ==
  ASSUME XLEN = 32, NEW a \in Words
  PROVE  /\ AlignDown(a, 4) \in Words /\ a % 4 \in 0 .. 3 /\ a = AlignDown(a, 4) + (a % 4)
         /\ AlignDown(a, 4) \in Int
<1>1. a \in Nat /\ a < 4294967296
  BY SMT DEF Words
<1>2. a - (a % 4) \in Nat /\ a - (a % 4) < 4294967296 /\ a % 4 \in 0 .. 3 /\ a = (a - (a % 4)) + (a % 4)
  BY <1>1, SMT
<1>3. QED
  BY <1>2, SMT DEF AlignDown, Words

\* The size of an access.
LEMMA Sizes ==
  ASSUME NEW k \in {0, 1, 2, 4, 5}
  PROVE  /\ k \in {0, 4} => 2^(k % 4) = 1
         /\ k \in {1, 5} => 2^(k % 4) = 2
         /\ k = 2 => 2^(k % 4) = 4
<1>1. 2^(0 % 4) = 1 /\ 2^(1 % 4) = 2 /\ 2^(2 % 4) = 4 /\ 2^(4 % 4) = 1 /\ 2^(5 % 4) = 2
  BY SMT
<1>2. CASE k = 0
  BY <1>1, <1>2
<1>3. CASE k = 1
  BY <1>1, <1>3
<1>4. CASE k = 2
  BY <1>1, <1>4
<1>5. CASE k = 4
  BY <1>1, <1>5
<1>6. CASE k = 5
  BY <1>1, <1>6
<1>7. QED
  BY <1>2, <1>3, <1>4, <1>5, <1>6

\* The same value, from the lanes of the aligned word.
Loaded(mem, a, k) ==
  LET lane == a % 4
      data == BytesAt(mem, AlignDown(a, 4), 4)
      loadByte == Bits(data, 8 * (lane + 1) - 1, 8 * lane)
      loadHalf == IF lane >= 2 THEN Shr(data, 16) ELSE data % 2^16
  IN  /\ k = 0 => LoadValue(mem, a, k) = loadByte + (IF R!Bit(loadByte, 7) = 1 THEN 2^XLEN - 2^8 ELSE 0)
      /\ k = 1 => LoadValue(mem, a, k) = loadHalf + (IF R!Bit(loadHalf, 15) = 1 THEN 2^XLEN - 2^16 ELSE 0)
      /\ k = 2 => LoadValue(mem, a, k) = data
      /\ k = 4 => LoadValue(mem, a, k) = loadByte
      /\ k = 5 => LoadValue(mem, a, k) = loadHalf

\* The core selects from the word on the bus what the model reads byte by byte.
LEMMA SameLoads ==
  ASSUME XLEN = 32, NEW mem, GoodMem(mem), NEW a \in Words, NEW k \in {0, 1, 2, 4, 5}, a % 2^(k % 4) = 0
  PROVE  LoadValue(mem, a, k) \in Words /\ Loaded(mem, a, k)
<1> DEFINE lane == a % 4
           base == AlignDown(a, 4)
           data == BytesAt(mem, base, 4)
           loadByte == Bits(data, 8 * (lane + 1) - 1, 8 * lane)
           loadHalf == IF lane >= 2 THEN Shr(data, 16) ELSE data % 2^16
           b(i) == ByteAt(mem, i)
<1>1. base \in Int /\ lane \in 0 .. 3 /\ a = base + lane /\ a \in Int
  <2>1. a \in Int
    BY SMT DEF Words
  <2>2. QED
    BY <2>1, Aligned4
<1>2. a % 4 = lane
  OBVIOUS
<1> HIDE DEF base, lane
<1>3. b(base) \in Byte /\ b(base + 1) \in Byte /\ b(base + 2) \in Byte /\ b(base + 3) \in Byte
  BY DEF GoodMem
<1>4. data = LaneWord(b(base), b(base + 1), b(base + 2), b(base + 3))
  BY <1>1, Assembled DEF LaneWord
<1>5. /\ data \in Words
      /\ Bits(data, 7, 0) = b(base) /\ Bits(data, 15, 8) = b(base + 1)
      /\ Bits(data, 23, 16) = b(base + 2) /\ Bits(data, 31, 24) = b(base + 3)
      /\ data % 2^16 = b(base) + b(base + 1) * 256 /\ Shr(data, 16) = b(base + 2) + b(base + 3) * 256
  BY <1>3, <1>4, Lanes
<1>6. ByteBits = 8
  BY SMT DEF ByteBits
<1> HIDE DEF data, b
<1>7. loadByte = b(a)
  <2>1. CASE lane = 0
    BY <1>1, <1>5, <2>1
  <2>2. CASE lane = 1
    BY <1>1, <1>5, <2>2
  <2>3. CASE lane = 2
    BY <1>1, <1>5, <2>3
  <2>4. CASE lane = 3
    BY <1>1, <1>5, <2>4
  <2>5. QED
    BY <1>1, <2>1, <2>2, <2>3, <2>4
<1>8. loadByte \in Byte
  BY <1>7 DEF GoodMem, b
<1>9. k \in {1, 5} => loadHalf = b(a) + b(a + 1) * 256
  <2>1. k \in {1, 5} => lane \in {0, 2}
    <3>1. k \in {1, 5} => 2^(k % 4) = 2
      BY Sizes
    <3>2. k \in {1, 5} => a % 2 = 0
      BY <3>1
    <3>3. QED
      BY <1>1, <1>2, <3>2, SMT
  <2>2. CASE lane = 0
    BY <1>1, <1>5, <2>2
  <2>3. CASE lane = 2
    <3>1. a = base + 2 /\ a + 1 = base + 3
      BY <1>1, <2>3, SMT
    <3>2. QED
      BY <1>5, <2>3, <3>1
  <2>4. QED
    BY <2>1, <2>2, <2>3
<1>10. k \in {1, 5} => loadHalf \in Nat /\ loadHalf < 65536
  <2>1. b(a) \in Byte /\ b(a + 1) \in Byte
    BY DEF GoodMem, b
  <2>2. \A x, y \in Byte : x + y * 256 \in Nat /\ x + y * 256 < 65536
    BY SMT DEF Byte
  <2>3. b(a) + b(a + 1) * 256 \in Nat /\ b(a) + b(a + 1) * 256 < 65536
    BY <2>1, <2>2
  <2>4. QED
    BY <1>9, <2>3
<1> HIDE DEF loadByte, loadHalf
<1>11. CASE k \in {0, 4}
  <2>1. 2^(k % 4) = 1
    BY <1>11, Sizes
  <2>2. BytesAt(mem, a, 2^(k % 4)) = loadByte
    BY <1>1, <1>7, <2>1, Assembled DEF b
  <2>3. LoadValue(mem, a, k) = Word(Word(IF k < 4 THEN M!Sext(loadByte, 8) ELSE loadByte))
    BY <1>6, <2>1, <2>2, SMT DEF LoadValue
  <2>4. loadByte \in Nat /\ loadByte < 2^8
    BY <1>8, SMT DEF Byte
  <2>5. /\ loadByte + (IF R!Bit(loadByte, 7) = 1 THEN 2^XLEN - 2^8 ELSE 0) = Word(Word(M!Sext(loadByte, 8)))
        /\ Word(Word(M!Sext(loadByte, 8))) \in Words /\ loadByte = Word(Word(loadByte)) /\ loadByte \in Words
    BY <2>4, Filled, 8 \in {8, 16}, 8 - 1 = 7
  <2>6. QED
    BY <1>11, <2>3, <2>5 DEF Loaded, loadByte, loadHalf, lane, data, base
<1>12. CASE k \in {1, 5}
  <2>1. 2^(k % 4) = 2
    BY <1>12, Sizes
  <2>2. BytesAt(mem, a, 2^(k % 4)) = loadHalf
    BY <1>1, <1>9, <1>12, <2>1, Assembled DEF b
  <2>3. LoadValue(mem, a, k) = Word(Word(IF k < 4 THEN M!Sext(loadHalf, 16) ELSE loadHalf))
    BY <1>6, <2>1, <2>2, SMT DEF LoadValue
  <2>4. loadHalf \in Nat /\ loadHalf < 2^16
    BY <1>10, <1>12, SMT
  <2>5. /\ loadHalf + (IF R!Bit(loadHalf, 15) = 1 THEN 2^XLEN - 2^16 ELSE 0) = Word(Word(M!Sext(loadHalf, 16)))
        /\ Word(Word(M!Sext(loadHalf, 16))) \in Words /\ loadHalf = Word(Word(loadHalf)) /\ loadHalf \in Words
    BY <2>4, Filled, 16 \in {8, 16}, 16 - 1 = 15
  <2>6. QED
    BY <1>12, <2>3, <2>5 DEF Loaded, loadByte, loadHalf, lane, data, base
<1>13. CASE k = 2
  <2>1. 2^(k % 4) = 4
    BY <1>13, SMT
  <2>2. a % 4 = 0
    BY <2>1
  <2>3. a = base
    BY <1>1, <1>2, <2>2
  <2>4. LoadValue(mem, a, k) = Word(Word(M!Sext(data, 32)))
    BY <1>6, <1>13, <2>1, <2>3, SMT DEF LoadValue, data
  <2>5. QED
    BY <1>5, <1>13, <2>4, FullWord DEF Loaded, lane, data, base
<1>14. QED
  BY <1>11, <1>12, <1>13

\* Memories that agree have the same bytes everywhere.
LEMMA SameAssembled ==
  ASSUME XLEN = 32, NEW mem, NEW other, SameMem(mem, other), NEW a \in Int, NEW n \in {1, 2, 4}
  PROVE  BytesAt(mem, a, n) = BytesAt(other, a, n)
<1>1. \A i : ByteAt(mem, i) = ByteAt(other, i)
  BY DEF SameMem
<1>2. QED
  BY <1>1, Assembled

\* Which accesses are misaligned.
LEMMA SameMisaligned ==
  ASSUME XLEN = 32, NEW t, NEW f, f.funct3 \in {0, 1, 2, 4, 5}, NEW a \in Words, R!memAddr(t, f) = a
  PROVE  R!Misaligned(t, f) <=> a % Size(f) # 0
<1>1. a \in Int
  BY SMT DEF Words
<1>2. a % 1 = 0 /\ R!Bit(a, 0) = a % 2 /\ a % 2 \in 0 .. 1
  <2>1. a \div 1 = a /\ a % 1 = 0 /\ a % 2 \in 0 .. 1
    BY <1>1, SMT
  <2>2. R!Bit(a, 0) = (a \div 1) % 2
    BY SMT DEF R!Bit, R!Bits
  <2>3. QED
    BY <2>1, <2>2
<1>3. R!Misaligned(t, f) <=> (f.funct3 \in {1, 5} /\ a % 2 = 1) \/ (f.funct3 = 2 /\ a % 4 # 0)
  BY <1>2 DEF R!Misaligned
<1>4. CASE f.funct3 \in {0, 4}
  <2>1. Size(f) = 1
    BY <1>4, Sizes DEF Size
  <2>2. QED
    BY <1>2, <1>3, <1>4, <2>1
<1>5. CASE f.funct3 \in {1, 5}
  <2>1. Size(f) = 2
    BY <1>5, Sizes DEF Size
  <2>2. QED
    BY <1>2, <1>3, <1>5, <2>1
<1>6. CASE f.funct3 = 2
  <2>1. Size(f) = 4
    BY <1>6, Sizes DEF Size
  <2>2. QED
    BY <1>3, <1>6, <2>1
<1>7. QED
  BY <1>4, <1>5, <1>6

\* A load of the core.
LEMMA RtlLoad ==
  ASSUME XLEN = 32, NEW t, GoodMem(t.mem), NEW f, R!isLoad(f), NEW a \in Words, R!memAddr(t, f) = a,
         a % Size(f) = 0
  PROVE  R!loadWdata(t, f) = LoadValue(t.mem, a, f.funct3)
<1> DEFINE lane == a % 4
           data == BytesAt(t.mem, AlignDown(a, 4), 4)
           loadByte == Bits(data, 8 * (lane + 1) - 1, 8 * lane)
           loadHalf == IF lane >= 2 THEN Shr(data, 16) ELSE data % 2^16
<1>1. f.funct3 \in {0, 1, 2, 4, 5}
  BY DEF R!isLoad
<1>2. R!ByteBits = 8
  BY SMT DEF R!ByteBits
<1>3. R!BytesAt(t.mem, R!AlignDown(a, 4), 4) = data
  BY SameBytes, SameWords
<1>4. a % 2^(f.funct3 % 4) = 0
  BY DEF Size
<1>5. /\ f.funct3 = 0 => LoadValue(t.mem, a, f.funct3) = loadByte + (IF R!Bit(loadByte, 7) = 1 THEN 2^XLEN - 2^8 ELSE 0)
      /\ f.funct3 = 1 => LoadValue(t.mem, a, f.funct3) = loadHalf + (IF R!Bit(loadHalf, 15) = 1 THEN 2^XLEN - 2^16 ELSE 0)
      /\ f.funct3 = 2 => LoadValue(t.mem, a, f.funct3) = data
      /\ f.funct3 = 4 => LoadValue(t.mem, a, f.funct3) = loadByte
      /\ f.funct3 = 5 => LoadValue(t.mem, a, f.funct3) = loadHalf
  <2>1. Loaded(t.mem, a, f.funct3)
    BY <1>1, <1>4, SameLoads
  <2>2. QED
    BY <2>1 DEF Loaded
<1>6. R!Bits(data, 8 * (lane + 1) - 1, 8 * lane) = loadByte /\ R!Shr(data, 16) = Shr(data, 16)
  BY SameWords, SameShifts
<1>7. 2 * 8 = 16 /\ 8 - 1 = 7 /\ 16 - 1 = 15
  BY SMT
<1> DEFINE rtlByte == R!Bits(data, 8 * (lane + 1) - 1, 8 * lane)
           rtlHalf == IF lane >= 2 THEN R!Shr(data, 16) ELSE data % 2^16
<1> HIDE DEF data, lane
<1>8. R!loadWdata(t, f) =
        CASE f.funct3 = 0 -> rtlByte + (IF R!Bit(rtlByte, 7) = 1 THEN 2^XLEN - 2^8 ELSE 0)
          [] f.funct3 = 1 -> rtlHalf + (IF R!Bit(rtlHalf, 15) = 1 THEN 2^XLEN - 2^16 ELSE 0)
          [] f.funct3 = 2 -> data
          [] f.funct3 = 4 -> rtlByte
          [] f.funct3 = 5 -> rtlHalf
  BY <1>2, <1>3, <1>7, ZenonT(40) DEF R!loadWdata, lane
<1>9. rtlByte = loadByte /\ rtlHalf = loadHalf
  BY <1>6
<1> HIDE DEF rtlByte, rtlHalf, loadByte, loadHalf
<1>10. QED
  BY <1>1, <1>5, <1>8, <1>9

\* The model's load.
ModelLoaded(m, s, pc, rd, a, k) ==
  /\ Writes(m, Word(pc), rd, LoadValue(s.mem, a, k))
  /\ m.mem = s.mem /\ m.csrs = s.csrs /\ m.sleeping = FALSE /\ m.addr = a

\* A load of the model.
LEMMA ModelLoads ==
  ASSUME XLEN = 32, NEW s, NEW pc, NEW rd \in 0 .. 15, NEW a, NEW k \in {0, 1, 2, 4, 5}, a % 2^(k % 4) = 0
  PROVE  ModelLoaded(M!LoadData(s, M!Nothing(s, pc), rd, a, 2^(k % 4), k < 4), s, pc, rd, a, k)
<1> DEFINE size == 2^(k % 4)
           o == M!Nothing(s, pc)
           v == M!Word(IF k < 4 THEN M!Sext(M!BytesAt(s.mem, a, size), size * M!ByteBits) ELSE M!BytesAt(s.mem, a, size))
           q == [o EXCEPT !.addr = a, !.rdata = v]
           m == M!LoadData(s, o, rd, a, size, k < 4)
<1>1. m = M!WriteReg(s, q, rd, v)
  BY DEF M!LoadData
<1>2. Word(v) = LoadValue(s.mem, a, k)
  <2>1. size \in {1, 2, 4}
    BY Sizes
  <2>2. M!BytesAt(s.mem, a, size) = BytesAt(s.mem, a, size) /\ M!ByteBits = ByteBits
    BY <2>1, SameBytes
  <2>3. v = Word(IF k < 4 THEN M!Sext(BytesAt(s.mem, a, size), size * ByteBits) ELSE BytesAt(s.mem, a, size))
    BY <2>2, SameWords
  <2>4. QED
    BY <2>3 DEF LoadValue
<1>3. o = [cause |-> "none", pc |-> Word(pc), rd |-> None, wdata |-> None, addr |-> None,
           rdata |-> None, store |-> None, mem |-> s.mem, csrs |-> s.csrs, sleeping |-> FALSE]
  BY SameNames, SameWords DEF M!Nothing
<1> HIDE DEF o, v
<1>4. /\ q = [o EXCEPT !.addr = a, !.rdata = v]
      /\ q.cause = "none" /\ q.pc = Word(pc) /\ q.rd = None /\ q.mem = s.mem /\ q.csrs = s.csrs
      /\ q.sleeping = FALSE /\ q.addr = a
  BY <1>3
<1> HIDE DEF q, m
<1>5. M!Word(v) = Word(v)
  BY SameWords
<1>6. /\ Writes(m, Word(pc), rd, Word(v))
      /\ m.mem = s.mem /\ m.csrs = s.csrs /\ m.sleeping = FALSE /\ m.addr = a
  <2>1. CASE rd = 0
    <3>1. m = q
      BY <1>1, <2>1 DEF M!WriteReg
    <3>2. QED
      BY <1>4, <2>1, <3>1 DEF Writes
  <2>2. CASE rd # 0
    <3>1. m = [q EXCEPT !.rd = rd, !.wdata = M!Word(v)]
      BY <1>1, <1>4, <2>2 DEF M!WriteReg
    <3>2. /\ m.cause = "none" /\ m.pc = Word(pc) /\ m.rd = rd /\ m.wdata = Word(v) /\ m.mem = s.mem
          /\ m.csrs = s.csrs /\ m.sleeping = FALSE /\ m.addr = a
      BY <1>3, <1>4, <1>5, <3>1
    <3>3. QED
      BY <2>2, <3>2 DEF Writes
  <2>3. QED
    BY <2>1, <2>2
<1>7. QED
  BY <1>2, <1>6 DEF m, o, ModelLoaded

\* Loads agree.
LEMMA LoadsAgree ==
  ASSUME XLEN = 32, NEW s, NEW t, Paired(s, t), NEW insn, insn.len \in {2, 4}, NEW f, f = Decoded(insn),
         f \in InsnFields, R!isLoad(f), f.rd \in 0 .. 15, f.rs1 \in 0 .. 15,
         M!Outcome(s, insn) =
           M!LoadData(s, M!Nothing(s, s.pc + insn.len), f.rd, LoadAddr(s, f), Size(f), f.funct3 < 4)
  PROVE  Agrees(s, t, insn)
<1> DEFINE a == LoadAddr(s, f)
           m == M!Outcome(s, insn)
           r == R!Outcome(t, insn)
           v == LoadValue(s.mem, a, f.funct3)
<1>1. s.pc = t.pc /\ R!Gpr(t, f.rs1) = M!ReadReg(s, f.rs1) /\ M!ReadReg(s, f.rs1) \in Words
  BY Operands
<1>2. M!ImmI(f) \in Int /\ R!imm12(f) = Word(M!ImmI(f))
  BY Immediates DEF InsnFields
<1>3. ~R!isStore(f) /\ R!execKnown(f) /\ R!execUsesRd(f) /\ ~R!csrWriteEnable(f) /\ ~R!isMret(f) /\ ~R!isWfi(f)
      /\ ~R!isBranch(f) /\ ~R!isJalr(f) /\ ~R!isAluImm(f) /\ ~R!isAluReg(f) /\ ~R!isCsr(f) /\ f.opcode = 3
  BY KindOpcodes DEF R!execKnown, R!execUsesRd
<1>4. a \in Words /\ R!memAddr(t, f) = a
  <2>1. Word(M!ReadReg(s, f.rs1) + Word(M!ImmI(f))) = a /\ a \in Words
    BY <1>1, <1>2, WordSums DEF LoadAddr
  <2>2. R!memAddr(t, f) = R!Word(M!ReadReg(s, f.rs1) + Word(M!ImmI(f)))
    BY <1>1, <1>2, <1>3 DEF R!memAddr
  <2>3. QED
    BY <2>1, <2>2, SameWords
<1>5. f.funct3 \in {0, 1, 2, 4, 5}
  BY DEF R!isLoad
<1>6. R!Misaligned(t, f) <=> a % Size(f) # 0
  BY <1>4, <1>5, SameMisaligned
<1>7. ~R!regAccessIllegal(f)
  BY <1>3 DEF R!regAccessIllegal, R!execUsesRs2
<1>8. CASE a % Size(f) # 0
  <2>1. R!execTrapCause(t, f) = "load_misaligned"
    BY <1>3, <1>6, <1>8, RtlCause
  <2>2. r.cause = "load_misaligned"
    BY <2>1, RtlTraps
  <2>3. m.cause = "load_misaligned"
    <3>1. m = M!Raise(s, "load_misaligned")
      BY <1>8, Zenon DEF M!LoadData
    <3>2. QED
      BY <3>1, ModelTraps, ZenonT(40)
  <2>4. QED
    BY <2>2, <2>3 DEF Agrees, OneTrap
<1>9. CASE a % Size(f) = 0
  <2>1. R!execTrapCause(t, f) = "none"
    BY <1>3, <1>6, <1>7, <1>9, RtlCause
  <2>2. Commits(r, t, f, Word(t.pc + insn.len))
    BY <2>1, RtlRetires
  <2>3. R!execNextPc(t, f, Word(t.pc + insn.len)) = Word(t.pc + insn.len)
    BY <1>3 DEF R!execNextPc
  <2>4. R!execWdata(t, f, Word(t.pc + insn.len)) = R!loadWdata(t, f)
    BY <1>3 DEF R!execWdata
  <2>5. /\ GoodMem(t.mem) /\ GoodMem(s.mem) /\ SameMem(s.mem, t.mem) /\ GoodCsrs(s.csrs) /\ GoodCsrs(t.csrs)
        /\ SameCsrs(s.csrs, t.csrs) /\ s.regs \in [1 .. 15 -> Words] /\ s.regs = t.regs
    BY DEF Paired, GoodState, Alike
  <2>6. R!loadWdata(t, f) = LoadValue(t.mem, a, f.funct3)
    BY <1>4, <1>9, <2>5, RtlLoad
  <2>7. LoadValue(t.mem, a, f.funct3) = v
    <3>1. a \in Int
      BY <1>4, SMT DEF Words
    <3>2. 2^(f.funct3 % 4) \in {1, 2, 4}
      BY <1>5, Sizes
    <3>3. BytesAt(s.mem, a, 2^(f.funct3 % 4)) = BytesAt(t.mem, a, 2^(f.funct3 % 4))
      BY <2>5, <3>1, <3>2, SameAssembled
    <3>4. QED
      BY <3>3 DEF LoadValue
  <2>8. a % 2^(f.funct3 % 4) = 0
    BY <1>9 DEF Size
  <2>9. v \in Words
    BY <1>4, <1>5, <2>5, <2>8, SameLoads
  <2>10. /\ Writes(m, Word(s.pc + insn.len), f.rd, v)
         /\ m.mem = s.mem /\ m.csrs = s.csrs /\ m.sleeping = FALSE /\ m.addr = a
    <3>1. ModelLoaded(m, s, s.pc + insn.len, f.rd, a, f.funct3)
      BY <1>5, <2>8, ModelLoads DEF Size
    <3>2. QED
      BY <3>1 DEF ModelLoaded
  <2>11. Word(s.pc + insn.len) \in Words /\ Word(s.pc + insn.len) % 2 = 0 /\ Word(Word(s.pc + insn.len)) = Word(s.pc + insn.len)
    BY GoesOn
  <2>12. /\ Writes(r, Word(s.pc + insn.len), f.rd, v)
         /\ r.mem = t.mem /\ r.csrs = t.csrs /\ r.sleeping = FALSE /\ r.addr = AlignDown(a, 4)
    BY <1>1, <1>3, <1>4, <2>2, <2>3, <2>4, <2>6, <2>7, <2>11 DEF Commits, Writes
  <2>13. a # None
    BY <1>4, SMT DEF Words, None
  <2> HIDE DEF m, r, v, a
  <2>14. OneEffect(s, t, m, r)
    BY <2>5, <2>9, <2>10, <2>11, <2>12, <2>13, EffectsAgree
  <2>15. QED
    BY <2>14 DEF Agrees, m, r
<1>10. QED
  BY <1>8, <1>9

\* LOAD.
LEMMA LoadAgrees ==
  ASSUME XLEN = 32, NEW s, NEW t, Paired(s, t), NEW f \in InsnFields, f.opcode = 3
  PROVE  Agrees(s, t, f)
<1>1. s.pc = t.pc /\ s.pc \in Words /\ s.pc % 2 = 0
  BY Operands
<1>2. Decoded(f) = f /\ f.len = 4 /\ f.len \in {2, 4} /\ M!Outcome(s, f) = M!Execute(s, f)
  BY <1>1, AsItStands
<1>3. f.rd \in 0 .. 31 /\ f.rs1 \in 0 .. 31 /\ f.funct3 \in 0 .. 7
  BY DEF InsnFields
<1>4. M!Legal({f.rd, f.rs1}) <=> f.rd <= 15 /\ f.rs1 <= 15
  BY DEF M!Legal
<1>5. M!Execute(s, f) =
        IF ~M!Legal({f.rd, f.rs1}) THEN M!HighRegister(s)
        ELSE IF f.funct3 \notin {0, 1, 2, 4, 5} THEN M!Illegal(s)
        ELSE M!LoadData(s, M!Nothing(s, s.pc + 4), f.rd, LoadAddr(s, f), Size(f), f.funct3 < 4)
  BY SameWords DEF M!Execute, M!ExecuteLoad, M!Sequential, LoadAddr, Size
<1>6. R!isLoad(f) <=> f.funct3 \in {0, 1, 2, 4, 5}
  BY DEF R!isLoad
<1>7. CASE ~R!isLoad(f)
  <2>1. ~R!execKnown(f)
    BY <1>7, KindOpcodes DEF R!execKnown, R!execUsesRd
  <2>2. R!Outcome(t, f).cause \in Illegal
    BY <1>2, <2>1, RtlIllegal
  <2>3. M!Outcome(s, f) = M!HighRegister(s) \/ M!Outcome(s, f) = M!Illegal(s)
    BY <1>2, <1>5, <1>6, <1>7
  <2>4. M!Outcome(s, f).cause \in Illegal
    BY <2>3, ModelTraps DEF Illegal
  <2>5. QED
    BY <2>2, <2>4, BothIllegal
<1>8. CASE R!isLoad(f) /\ ~(f.rd <= 15 /\ f.rs1 <= 15)
  <2>1. M!Outcome(s, f).cause = "rv32e_register"
    BY <1>2, <1>4, <1>5, <1>8, ModelTraps
  <2>2. R!regAccessIllegal(f) /\ ~R!isStore(f)
    BY <1>3, <1>8, KindOpcodes DEF R!regAccessIllegal, R!execUsesRd, R!execUsesRs1
  <2>3. R!execTrapCause(t, f) \in {"load_misaligned", "rv32e_register"}
    BY <1>8, <2>2, RtlCause
  <2>4. R!Outcome(t, f).cause \in {"load_misaligned", "rv32e_register"}
    BY <1>2, <2>3, RtlTraps
  <2>5. QED
    BY <2>1, <2>4 DEF Agrees, OneTrap, Illegal
<1>9. CASE R!isLoad(f) /\ f.rd <= 15 /\ f.rs1 <= 15
  <2>1. f.rd \in 0 .. 15 /\ f.rs1 \in 0 .. 15
    BY <1>3, <1>9
  <2>2. M!Outcome(s, f) = M!LoadData(s, M!Nothing(s, s.pc + f.len), f.rd, LoadAddr(s, f), Size(f), f.funct3 < 4)
    BY <1>2, <1>4, <1>5, <1>6, <1>9
  <2>3. QED
    BY <1>2, <1>9, <2>1, <2>2, LoadsAgree
<1>10. QED
  BY <1>7, <1>8, <1>9

(***************************************************************************)
(* Stores: the strobed lanes of the word are the bytes at the address.     *)
(***************************************************************************)
\* A memory with some bytes replaced.
LEMMA Overlaid ==
  ASSUME NEW g, NEW mem, NEW x
  PROVE  ByteAt(WithBytes(mem, g), x) = IF x \in DOMAIN g THEN g[x] ELSE ByteAt(mem, x)
  BY DEF ByteAt, WithBytes

\* Bytes are put over a memory alike in either instance.
LEMMA SameOverlays ==
  \A g, mem : M!WithBytes(mem, g) = WithBytes(mem, g) /\ R!WithBytes(mem, g) = WithBytes(mem, g)
  BY DEF WithBytes, M!WithBytes, R!WithBytes

\* Two memories stay the same when the same bytes are replaced.
LEMMA OverlaysAgree ==
  ASSUME NEW mem, NEW other, GoodMem(mem), GoodMem(other), SameMem(mem, other), NEW g, NEW h,
         DOMAIN g = DOMAIN h, \A x \in DOMAIN g : g[x] \in Byte /\ g[x] = h[x]
  PROVE  GoodMem(WithBytes(mem, g)) /\ GoodMem(WithBytes(other, h)) /\ SameMem(WithBytes(mem, g), WithBytes(other, h))
<1>1. \A x : ByteAt(WithBytes(mem, g), x) = IF x \in DOMAIN g THEN g[x] ELSE ByteAt(mem, x)
  BY Overlaid
<1>2. \A x : ByteAt(WithBytes(other, h), x) = IF x \in DOMAIN h THEN h[x] ELSE ByteAt(other, x)
  BY Overlaid
<1> HIDE DEF ByteAt
<1>3. QED
  BY <1>1, <1>2 DEF GoodMem, SameMem

\* The bytes of a value, and of the same value moved to its lanes.
LEMMA StoreLanes ==
  ASSUME NEW v \in Nat
  PROVE  /\ Bits(v, 7, 0) \in Byte /\ Bits(v, 15, 8) \in Byte /\ Bits(v, 23, 16) \in Byte /\ Bits(v, 31, 24) \in Byte
         /\ Bits((v % 2^8) * 2^0, 7, 0) = Bits(v, 7, 0) /\ Bits((v % 2^8) * 2^8, 15, 8) = Bits(v, 7, 0)
         /\ Bits((v % 2^8) * 2^16, 23, 16) = Bits(v, 7, 0) /\ Bits((v % 2^8) * 2^24, 31, 24) = Bits(v, 7, 0)
         /\ Bits((v % 2^16) * 2^0, 7, 0) = Bits(v, 7, 0) /\ Bits((v % 2^16) * 2^0, 15, 8) = Bits(v, 15, 8)
         /\ Bits((v % 2^16) * 2^16, 23, 16) = Bits(v, 7, 0) /\ Bits((v % 2^16) * 2^16, 31, 24) = Bits(v, 15, 8)
<1>1. /\ Bits(v, 7, 0) \in Byte /\ Bits(v, 15, 8) \in Byte /\ Bits(v, 23, 16) \in Byte /\ Bits(v, 31, 24) \in Byte
  BY SMT DEF Bits, Byte
<1>2. /\ Bits(v, 7, 0) = v % 256 /\ Bits(v, 15, 8) = (v \div 256) % 256
  <2>1. v \div 1 = v
    BY SMT
  <2>2. QED
    BY <2>1, SMT DEF Bits
<1> DEFINE b == v % 256
           h == LowHalf(v)
<1>3. b \in Nat /\ b < 256 /\ v % 2^8 = b
  BY SMT
<1>4. h \in Nat /\ h < 65536 /\ v % 2^16 = h /\ h % 256 = v % 256 /\ h \div 256 = (v \div 256) % 256
  BY SMT DEF LowHalf
<1> HIDE DEF b, h
<1>5. /\ Bits(b * 2^0, 7, 0) = b /\ Bits(b * 2^8, 15, 8) = b
      /\ Bits(b * 2^16, 23, 16) = b /\ Bits(b * 2^24, 31, 24) = b
  <2>1. Bits(b * 2^0, 7, 0) = b
    BY <1>3, SMT DEF Bits
  <2>2. Bits(b * 2^8, 15, 8) = b
    BY <1>3, SMT DEF Bits
  <2>3. Bits(b * 2^16, 23, 16) = b
    BY <1>3, SMT DEF Bits
  <2>4. Bits(b * 2^24, 31, 24) = b
    BY <1>3, SMT DEF Bits
  <2>5. QED
    BY <2>1, <2>2, <2>3, <2>4
<1>6. /\ Bits(h * 2^0, 7, 0) = h % 256 /\ Bits(h * 2^0, 15, 8) = h \div 256
      /\ Bits(h * 2^16, 23, 16) = h % 256 /\ Bits(h * 2^16, 31, 24) = h \div 256
  <2>1. Bits(h * 2^0, 7, 0) = h % 256
    BY <1>4, SMT DEF Bits
  <2>2. Bits(h * 2^0, 15, 8) = h \div 256
    BY <1>4, SMT DEF Bits
  <2>3. Bits(h * 2^16, 23, 16) = h % 256
    BY <1>4, SMT DEF Bits
  <2>4. Bits(h * 2^16, 31, 24) = h \div 256
    BY <1>4, SMT DEF Bits
  <2>5. QED
    BY <2>1, <2>2, <2>3, <2>4
<1>7. v % 256 = b
  BY DEF b
<1>8. Bits(v, 7, 0) = b /\ h % 256 = b /\ h \div 256 = Bits(v, 15, 8) /\ v % 2^8 = b /\ v % 2^16 = h
  BY <1>2, <1>3, <1>4, <1>7
<1>9. /\ Bits((v % 2^8) * 2^0, 7, 0) = b /\ Bits((v % 2^8) * 2^8, 15, 8) = b
      /\ Bits((v % 2^8) * 2^16, 23, 16) = b /\ Bits((v % 2^8) * 2^24, 31, 24) = b
  BY <1>5, <1>8, Zenon
<1>10. /\ Bits((v % 2^16) * 2^0, 7, 0) = b /\ Bits((v % 2^16) * 2^0, 15, 8) = Bits(v, 15, 8)
       /\ Bits((v % 2^16) * 2^16, 23, 16) = b /\ Bits((v % 2^16) * 2^16, 31, 24) = Bits(v, 15, 8)
  BY <1>6, <1>8, Zenon
<1>11. QED
  BY <1>1, <1>8, <1>9, <1>10, Zenon

\* What a store of size 2^k writes on either side, to one aligned word.
ModelBytes(v, a, size) == [x \in a .. a + size - 1 |-> Bits(v, 8 * (x - a + 1) - 1, 8 * (x - a))]
LaneBytes(d, base, lanes) == [x \in {base + i : i \in lanes} |-> Bits(d, 8 * (x - base + 1) - 1, 8 * (x - base))]
LanesOf(k, lane) == CASE k = 0 -> {lane} [] k = 1 -> IF lane >= 2 THEN {2, 3} ELSE {0, 1} [] k = 2 -> 0 .. 3
Moved(v, k, lane) ==
  CASE k = 0 -> (v % 2^8) * 2^(8 * lane)
    [] k = 1 -> (v % 2^16) * 2^(IF lane >= 2 THEN 16 ELSE 0)
    [] k = 2 -> v

SameWritten(g, h) == DOMAIN g = DOMAIN h /\ \A x \in DOMAIN g : g[x] \in Byte /\ g[x] = h[x]

\* The byte lanes of a store hold the bytes the model writes.
LEMMA SameBytesStored ==
  ASSUME NEW v \in Nat, NEW base \in Int, NEW lane \in 0 .. 3, NEW k \in {0, 1, 2},
         k = 1 => lane \in {0, 2}, k = 2 => lane = 0, NEW a, a = base + lane
  PROVE  SameWritten(ModelBytes(v, a, 2^k), LaneBytes(Moved(v, k, lane), base, LanesOf(k, lane)))
<1> DEFINE g == ModelBytes(v, a, 2^k)
           h == LaneBytes(Moved(v, k, lane), base, LanesOf(k, lane))
<1>1. a \in Int /\ base = a - lane
  BY SMT
<1>2. ASSUME NEW x \in Int PROVE x - base = (x - a) + lane
  BY <1>1, SMT
<1>3. /\ Bits(v, 7, 0) \in Byte /\ Bits(v, 15, 8) \in Byte /\ Bits(v, 23, 16) \in Byte /\ Bits(v, 31, 24) \in Byte
      /\ Bits((v % 2^8) * 2^0, 7, 0) = Bits(v, 7, 0) /\ Bits((v % 2^8) * 2^8, 15, 8) = Bits(v, 7, 0)
      /\ Bits((v % 2^8) * 2^16, 23, 16) = Bits(v, 7, 0) /\ Bits((v % 2^8) * 2^24, 31, 24) = Bits(v, 7, 0)
      /\ Bits((v % 2^16) * 2^0, 7, 0) = Bits(v, 7, 0) /\ Bits((v % 2^16) * 2^0, 15, 8) = Bits(v, 15, 8)
      /\ Bits((v % 2^16) * 2^16, 23, 16) = Bits(v, 7, 0) /\ Bits((v % 2^16) * 2^16, 31, 24) = Bits(v, 15, 8)
  BY StoreLanes
<1> DEFINE Lane(d, i) == Bits(d, 8 * (i + 1) - 1, 8 * i)
<1>4. \A d : Lane(d, 0) = Bits(d, 7, 0) /\ Lane(d, 1) = Bits(d, 15, 8) /\ Lane(d, 2) = Bits(d, 23, 16) /\ Lane(d, 3) = Bits(d, 31, 24)
  <2>1. 8 * (0 + 1) - 1 = 7 /\ 8 * 0 = 0 /\ 8 * (1 + 1) - 1 = 15 /\ 8 * 1 = 8 /\ 8 * (2 + 1) - 1 = 23 /\ 8 * 2 = 16
        /\ 8 * (3 + 1) - 1 = 31 /\ 8 * 3 = 24
    BY SMT
  <2>2. QED
    BY <2>1
<1>5. /\ \A x \in a .. a + 2^k - 1 : g[x] = Lane(v, x - a)
      /\ DOMAIN g = a .. a + 2^k - 1
  BY DEF ModelBytes
<1>6. /\ \A x \in {base + i : i \in LanesOf(k, lane)} : h[x] = Lane(Moved(v, k, lane), x - base)
      /\ DOMAIN h = {base + i : i \in LanesOf(k, lane)}
  BY DEF LaneBytes
<1> HIDE DEF g, h, Lane
<1>7. CASE k = 0
  <2>1. DOMAIN g = {a}
    <3>1. a .. a + 2^0 - 1 = {a}
      BY <1>1, SMT
    <3>2. QED
      BY <1>5, <1>7, <3>1
  <2>2. DOMAIN h = {a}
    BY <1>6, <1>7 DEF LanesOf
  <2>3. g[a] = Bits(v, 7, 0)
    <3>1. a - a = 0
      BY <1>1, SMT
    <3>2. QED
      BY <1>4, <1>5, <2>1, <3>1, ZenonT(40)
  <2>4. h[a] = Lane((v % 2^8) * 2^(8 * lane), lane)
    <3>1. a - base = lane
      BY <1>1, SMT
    <3>2. Moved(v, k, lane) = (v % 2^8) * 2^(8 * lane)
      BY <1>7 DEF Moved
    <3>3. a \in {base + i : i \in LanesOf(k, lane)}
      BY <1>6, <2>2
    <3>4. h[a] = Lane(Moved(v, k, lane), a - base)
      BY <1>6, <3>3
    <3>5. QED
      BY <3>1, <3>2, <3>4
  <2>5. Lane((v % 2^8) * 2^(8 * lane), lane) = Bits(v, 7, 0)
    <3>1. 8 * 0 = 0 /\ 8 * 1 = 8 /\ 8 * 2 = 16 /\ 8 * 3 = 24
      BY SMT
    <3>2. CASE lane = 0
      BY <1>3, <1>4, <3>1, <3>2
    <3>3. CASE lane = 1
      BY <1>3, <1>4, <3>1, <3>3
    <3>4. CASE lane = 2
      BY <1>3, <1>4, <3>1, <3>4
    <3>5. CASE lane = 3
      BY <1>3, <1>4, <3>1, <3>5
    <3>6. QED
      BY <3>2, <3>3, <3>4, <3>5
  <2>6. QED
    BY <1>3, <2>1, <2>2, <2>3, <2>4, <2>5 DEF g, h, SameWritten
<1>8. CASE k = 1
  <2>1. DOMAIN g = {a, a + 1}
    <3>1. a .. a + 2^1 - 1 = {a, a + 1}
      BY <1>1, SMT
    <3>2. QED
      BY <1>5, <1>8, <3>1
  <2>2. DOMAIN h = {a, a + 1}
    <3>1. CASE lane = 0
      <4>1. LanesOf(k, lane) = {0, 1}
        BY <1>8, <3>1 DEF LanesOf
      <4>2. base + 0 = a /\ base + 1 = a + 1
        BY <1>1, <3>1, SMT
      <4>3. QED
        BY <1>6, <4>1, <4>2
    <3>2. CASE lane = 2
      <4>1. LanesOf(k, lane) = {2, 3}
        BY <1>8, <3>2 DEF LanesOf
      <4>2. base + 2 = a /\ base + 3 = a + 1
        BY <1>1, <3>2, SMT
      <4>3. QED
        BY <1>6, <4>1, <4>2
    <3>3. QED
      BY <1>8, <3>1, <3>2
  <2>3. g[a] = Bits(v, 7, 0) /\ g[a + 1] = Bits(v, 15, 8)
    <3>1. a - a = 0 /\ (a + 1) - a = 1
      BY <1>1, SMT
    <3>2. QED
      BY <1>4, <1>5, <2>1, <3>1, SMTT(40)
  <2>4. h[a] = Bits(v, 7, 0) /\ h[a + 1] = Bits(v, 15, 8)
    <3>1. CASE lane = 0
      <4>1. Moved(v, k, lane) = (v % 2^16) * 2^0
        BY <1>8, <3>1 DEF Moved
      <4>2. a - base = 0 /\ (a + 1) - base = 1
        BY <1>1, <3>1, SMT
      <4>3. h[a] = Lane(Moved(v, k, lane), a - base) /\ h[a + 1] = Lane(Moved(v, k, lane), (a + 1) - base)
        <5>1. a \in DOMAIN h /\ a + 1 \in DOMAIN h
          BY <2>2
        <5>2. QED
          BY <1>6, <5>1
      <4>4. QED
        BY <1>3, <1>4, <4>1, <4>2, <4>3
    <3>2. CASE lane = 2
      <4>1. Moved(v, k, lane) = (v % 2^16) * 2^16
        BY <1>8, <3>2 DEF Moved
      <4>2. a - base = 2 /\ (a + 1) - base = 3
        BY <1>1, <3>2, SMT
      <4>3. h[a] = Lane(Moved(v, k, lane), a - base) /\ h[a + 1] = Lane(Moved(v, k, lane), (a + 1) - base)
        <5>1. a \in DOMAIN h /\ a + 1 \in DOMAIN h
          BY <2>2
        <5>2. QED
          BY <1>6, <5>1
      <4>4. QED
        BY <1>3, <1>4, <4>1, <4>2, <4>3
    <3>3. QED
      BY <1>8, <3>1, <3>2
  <2>5. QED
    BY <1>3, <2>1, <2>2, <2>3, <2>4 DEF g, h, SameWritten
<1>9. CASE k = 2
  <2>1. a .. a + 2^2 - 1 = {a, a + 1, a + 2, a + 3} /\ a = base
    BY <1>1, <1>9, SMT
  <2>2. LanesOf(k, lane) = {0, 1, 2, 3} /\ Moved(v, k, lane) = v
    <3>1. 0 .. 3 = {0, 1, 2, 3}
      BY SMT
    <3>2. QED
      BY <1>9, <3>1 DEF LanesOf, Moved
  <2>3. DOMAIN g = {a, a + 1, a + 2, a + 3}
    BY <1>5, <1>9, <2>1
  <2>4. DOMAIN h = {a, a + 1, a + 2, a + 3}
    <3>1. a + 0 = a
      BY <1>1, SMT
    <3>2. QED
      BY <1>6, <2>1, <2>2, <3>1
  <2>5. a - a = 0 /\ (a + 1) - a = 1 /\ (a + 2) - a = 2 /\ (a + 3) - a = 3
    BY <1>1, SMT
  <2>6. g[a] = Bits(v, 7, 0) /\ g[a + 1] = Bits(v, 15, 8) /\ g[a + 2] = Bits(v, 23, 16) /\ g[a + 3] = Bits(v, 31, 24)
    <3>1. a \in DOMAIN g /\ a + 1 \in DOMAIN g /\ a + 2 \in DOMAIN g /\ a + 3 \in DOMAIN g
      BY <2>3
    <3>2. g[a] = Lane(v, a - a) /\ g[a + 1] = Lane(v, (a + 1) - a) /\ g[a + 2] = Lane(v, (a + 2) - a)
          /\ g[a + 3] = Lane(v, (a + 3) - a)
      BY <1>5, <3>1
    <3>3. QED
      BY <1>4, <2>5, <3>2
  <2>7. h[a] = Bits(v, 7, 0) /\ h[a + 1] = Bits(v, 15, 8) /\ h[a + 2] = Bits(v, 23, 16) /\ h[a + 3] = Bits(v, 31, 24)
    BY <1>4, <1>6, <2>1, <2>2, <2>4, <2>5
  <2>8. QED
    BY <1>3, <2>3, <2>4, <2>6, <2>7 DEF g, h, SameWritten
<1>10. QED
  BY <1>7, <1>8, <1>9

StoreAddr(s, f) == Word(M!ReadReg(s, f.rs1) + M!ImmS(f))

\* The lanes the core strobes, and what it puts on them.
LEMMA RtlWritten ==
  ASSUME XLEN = 32, NEW t, NEW f, f.funct3 \in {0, 1, 2}, NEW a, R!memAddr(t, f) = a,
         NEW v, R!Gpr(t, f.rs2) = v
  PROVE  R!Written(t, f) =
           WithBytes(t.mem, LaneBytes(Moved(v, f.funct3, a % 4), AlignDown(a, 4), LanesOf(f.funct3, a % 4)))
<1> DEFINE k == f.funct3
           lane == a % 4
<1>1. R!ByteBits = 8 /\ 2 * 8 = 16
  BY SMT DEF R!ByteBits
<1>2. R!storeBe(t, f) = LanesOf(k, lane)
  BY DEF R!storeBe, LanesOf
<1>3. R!storeData(t, f) = Moved(v, k, lane)
  BY <1>1, Zenon DEF R!storeData, Moved
<1>4. R!AlignDown(a, 4) = AlignDown(a, 4) /\ \A x, h, l : R!Bits(x, h, l) = Bits(x, h, l)
  BY SameWords
<1> HIDE DEF k, lane
<1>5. R!Written(t, f) =
        R!WithBytes(t.mem, [x \in {AlignDown(a, 4) + i : i \in LanesOf(k, lane)} |->
          Bits(Moved(v, k, lane), 8 * (x - AlignDown(a, 4) + 1) - 1, 8 * (x - AlignDown(a, 4)))])
  BY <1>1, <1>2, <1>3, <1>4, Zenon DEF R!Written
<1>6. QED
  BY <1>5, SameOverlays DEF LaneBytes, k, lane

\* The model's store.
ModelStored(m, s, pc, a, k, v) ==
  /\ \A w : Writes(m, Word(pc), 0, w)
  /\ m.mem = WithBytes(s.mem, ModelBytes(v, a, 2^k)) /\ m.csrs = s.csrs /\ m.sleeping = FALSE /\ m.addr = a

\* A store of the model.
LEMMA ModelStores ==
  ASSUME XLEN = 32, NEW s, NEW pc, NEW a, NEW k \in {0, 1, 2}, a % 2^k = 0, NEW v
  PROVE  ModelStored(M!StoreData(s, M!Nothing(s, pc), a, 2^k, v), s, pc, a, k, v)
<1> DEFINE o == M!Nothing(s, pc)
           m == M!StoreData(s, o, a, 2^k, v)
           mem == M!WithBytes(s.mem, [x \in a .. a + 2^k - 1 |->
                    M!Bits(v, M!ByteBits * (x - a + 1) - 1, M!ByteBits * (x - a))])
<1>1. m = [o EXCEPT !.addr = a, !.store = v % 2^(2^k * M!ByteBits), !.mem = mem]
  BY DEF M!StoreData
<1>2. o = [cause |-> "none", pc |-> Word(pc), rd |-> None, wdata |-> None, addr |-> None,
           rdata |-> None, store |-> None, mem |-> s.mem, csrs |-> s.csrs, sleeping |-> FALSE]
  BY SameNames, SameWords DEF M!Nothing
<1>3. mem = WithBytes(s.mem, ModelBytes(v, a, 2^k))
  <2>1. M!ByteBits = 8
    BY SMT DEF M!ByteBits
  <2>2. [x \in a .. a + 2^k - 1 |-> M!Bits(v, M!ByteBits * (x - a + 1) - 1, M!ByteBits * (x - a))]
          = ModelBytes(v, a, 2^k)
    BY <2>1, SameWords DEF ModelBytes
  <2>3. QED
    BY <2>2, SameOverlays
<1> HIDE DEF o, mem
<1>4. /\ m.cause = "none" /\ m.pc = Word(pc) /\ m.rd = None /\ m.mem = mem /\ m.csrs = s.csrs
      /\ m.sleeping = FALSE /\ m.addr = a
  BY <1>1, <1>2
<1> HIDE DEF m
<1>5. QED
  BY <1>3, <1>4 DEF ModelStored, Writes, m, o

\* Stores agree.
LEMMA StoresAgree ==
  ASSUME XLEN = 32, NEW s, NEW t, Paired(s, t), NEW insn, insn.len \in {2, 4}, NEW f, f = Decoded(insn),
         f \in InsnFields, R!isStore(f), f.rs1 \in 0 .. 15, f.rs2 \in 0 .. 15,
         M!Outcome(s, insn) =
           M!StoreData(s, M!Nothing(s, s.pc + insn.len), StoreAddr(s, f), 2^f.funct3, M!ReadReg(s, f.rs2))
  PROVE  Agrees(s, t, insn)
<1> DEFINE a == StoreAddr(s, f)
           m == M!Outcome(s, insn)
           r == R!Outcome(t, insn)
           v == M!ReadReg(s, f.rs2)
           k == f.funct3
<1>1. /\ s.pc = t.pc /\ R!Gpr(t, f.rs1) = M!ReadReg(s, f.rs1) /\ M!ReadReg(s, f.rs1) \in Words
      /\ R!Gpr(t, f.rs2) = v /\ v \in Words
  BY Operands
<1>2. M!ImmS(f) \in Int /\ R!immS(f) = Word(M!ImmS(f))
  BY Immediates DEF InsnFields
<1>3. ~R!isLoad(f) /\ R!execKnown(f) /\ ~R!execUsesRd(f) /\ ~R!csrWriteEnable(f) /\ ~R!isMret(f) /\ ~R!isWfi(f)
      /\ ~R!isBranch(f) /\ ~R!isJalr(f) /\ ~R!isAluImm(f) /\ ~R!isAluReg(f) /\ ~R!isCsr(f) /\ f.opcode = 35
  BY KindOpcodes DEF R!execKnown, R!execUsesRd
<1>4. a \in Words /\ R!memAddr(t, f) = a
  <2>1. Word(M!ReadReg(s, f.rs1) + Word(M!ImmS(f))) = a /\ a \in Words
    BY <1>1, <1>2, WordSums DEF StoreAddr
  <2>2. R!memAddr(t, f) = R!Word(M!ReadReg(s, f.rs1) + Word(M!ImmS(f)))
    BY <1>1, <1>2, <1>3 DEF R!memAddr
  <2>3. QED
    BY <2>1, <2>2, SameWords
<1>5. k \in {0, 1, 2}
  BY DEF R!isStore
<1>6. 2^k = Size(f)
  <2>1. k % 4 = k
    BY <1>5, SMT
  <2>2. QED
    BY <2>1 DEF Size
<1>7. R!Misaligned(t, f) <=> a % 2^k # 0
  BY <1>4, <1>5, <1>6, SameMisaligned
<1>8. ~R!regAccessIllegal(f)
  BY <1>3 DEF R!regAccessIllegal, R!execUsesRs2
<1>9. CASE a % 2^k # 0
  <2>1. R!execTrapCause(t, f) = "store_misaligned"
    BY <1>7, <1>9, RtlCause
  <2>2. r.cause = "store_misaligned"
    BY <2>1, RtlTraps
  <2>3. m.cause = "store_misaligned"
    BY <1>9, ModelTraps DEF M!StoreData
  <2>4. QED
    BY <2>2, <2>3 DEF Agrees, OneTrap
<1>10. CASE a % 2^k = 0
  <2>1. R!execTrapCause(t, f) = "none"
    BY <1>3, <1>7, <1>8, <1>10, RtlCause
  <2>2. Commits(r, t, f, Word(t.pc + insn.len))
    BY <2>1, RtlRetires
  <2>3. R!execNextPc(t, f, Word(t.pc + insn.len)) = Word(t.pc + insn.len)
    BY <1>3 DEF R!execNextPc
  <2>4. /\ GoodMem(t.mem) /\ GoodMem(s.mem) /\ SameMem(s.mem, t.mem) /\ GoodCsrs(s.csrs) /\ GoodCsrs(t.csrs)
        /\ SameCsrs(s.csrs, t.csrs) /\ s.regs \in [1 .. 15 -> Words] /\ s.regs = t.regs
    BY DEF Paired, GoodState, Alike
  <2> DEFINE g == ModelBytes(v, a, 2^k)
             h == LaneBytes(Moved(v, k, a % 4), AlignDown(a, 4), LanesOf(k, a % 4))
  <2>5. R!Written(t, f) = WithBytes(t.mem, h)
    BY <1>1, <1>4, <1>5, RtlWritten
  <2>6. SameWritten(g, h)
    <3>1. v \in Nat /\ a \in Int
      BY <1>1, <1>4, SMT DEF Words
    <3>2. a % 4 \in 0 .. 3 /\ a = AlignDown(a, 4) + (a % 4) /\ AlignDown(a, 4) \in Int
      BY <1>4, Aligned4
    <3>3. k = 1 => a % 4 \in {0, 2}
      <4>1. ASSUME k = 1 PROVE a % 2 = 0
        BY <1>10, <4>1
      <4>2. QED
        BY <3>1, <4>1, SMT
    <3>4. k = 2 => a % 4 = 0
      BY <1>10
    <3> HIDE DEF a, v, k
    <3>5. QED
      BY <1>5, <3>1, <3>2, <3>3, <3>4, SameBytesStored
  <2>7. ModelStored(m, s, s.pc + insn.len, a, k, v)
    BY <1>5, <1>10, ModelStores
  <2>8. Word(s.pc + insn.len) \in Words /\ Word(s.pc + insn.len) % 2 = 0 /\ Word(Word(s.pc + insn.len)) = Word(s.pc + insn.len)
    BY GoesOn
  <2>9. /\ Writes(r, Word(s.pc + insn.len), 0, 0)
        /\ r.mem = WithBytes(t.mem, h) /\ r.csrs = t.csrs /\ r.sleeping = FALSE /\ r.addr = AlignDown(a, 4)
    BY <1>1, <1>3, <1>4, <2>2, <2>3, <2>5, <2>8 DEF Commits, Writes
  <2> HIDE DEF g, h
  <2>10. GoodMem(WithBytes(s.mem, g)) /\ GoodMem(WithBytes(t.mem, h)) /\ SameMem(WithBytes(s.mem, g), WithBytes(t.mem, h))
    BY <2>4, <2>6, OverlaysAgree DEF SameWritten
  <2>11. /\ Writes(m, Word(s.pc + insn.len), 0, 0)
         /\ m.mem = WithBytes(s.mem, g) /\ m.csrs = s.csrs /\ m.sleeping = FALSE /\ m.addr = a
    BY <2>7 DEF ModelStored, g
  <2>12. a # None /\ 0 \in Words
    BY <1>4, SMT DEF Words, None
  <2> HIDE DEF m, r, v, a, k
  <2>13. r.addr = (IF m.addr = None THEN None ELSE AlignDown(m.addr, 4)) /\ 0 \in 0 .. 15
    BY <2>9, <2>11, <2>12
  <2>14. OneEffect(s, t, m, r)
    BY <2>4, <2>8, <2>9, <2>10, <2>11, <2>12, <2>13, EffectsAgree
  <2>15. QED
    BY <2>14 DEF Agrees, m, r
<1>11. QED
  BY <1>9, <1>10

\* STORE.
LEMMA StoreAgrees ==
  ASSUME XLEN = 32, NEW s, NEW t, Paired(s, t), NEW f \in InsnFields, f.opcode = 35
  PROVE  Agrees(s, t, f)
<1>1. s.pc = t.pc /\ s.pc \in Words /\ s.pc % 2 = 0
  BY Operands
<1>2. Decoded(f) = f /\ f.len = 4 /\ f.len \in {2, 4} /\ M!Outcome(s, f) = M!Execute(s, f)
  BY <1>1, AsItStands
<1>3. f.rs1 \in 0 .. 31 /\ f.rs2 \in 0 .. 31 /\ f.funct3 \in 0 .. 7
  BY DEF InsnFields
<1>4. M!Legal({f.rs1, f.rs2}) <=> f.rs1 <= 15 /\ f.rs2 <= 15
  BY DEF M!Legal
<1>5. M!Execute(s, f) =
        IF ~M!Legal({f.rs1, f.rs2}) THEN M!HighRegister(s)
        ELSE IF f.funct3 > 2 THEN M!Illegal(s)
        ELSE M!StoreData(s, M!Nothing(s, s.pc + 4), StoreAddr(s, f), 2^f.funct3, M!ReadReg(s, f.rs2))
  BY SameWords DEF M!Execute, M!ExecuteStore, M!Sequential, StoreAddr
<1>6. R!isStore(f) <=> ~(f.funct3 > 2)
  BY <1>3 DEF R!isStore
<1>7. CASE ~R!isStore(f)
  <2>1. ~R!execKnown(f)
    BY <1>7, KindOpcodes DEF R!execKnown, R!execUsesRd
  <2>2. R!Outcome(t, f).cause \in Illegal
    BY <1>2, <2>1, RtlIllegal
  <2>3. M!Outcome(s, f) = M!HighRegister(s) \/ M!Outcome(s, f) = M!Illegal(s)
    BY <1>2, <1>5, <1>6, <1>7
  <2>4. M!Outcome(s, f).cause \in Illegal
    BY <2>3, ModelTraps DEF Illegal
  <2>5. QED
    BY <2>2, <2>4, BothIllegal
<1>8. CASE R!isStore(f) /\ ~(f.rs1 <= 15 /\ f.rs2 <= 15)
  <2>1. M!Outcome(s, f).cause = "rv32e_register"
    BY <1>2, <1>4, <1>5, <1>8, ModelTraps
  <2>2. R!regAccessIllegal(f)
    BY <1>3, <1>8 DEF R!regAccessIllegal, R!execUsesRs1, R!execUsesRs2
  <2>3. R!execTrapCause(t, f) \in {"store_misaligned", "rv32e_register"}
    BY <1>8, <2>2, RtlCause
  <2>4. R!Outcome(t, f).cause \in {"store_misaligned", "rv32e_register"}
    BY <1>2, <2>3, RtlTraps
  <2>5. QED
    BY <2>1, <2>4 DEF Agrees, OneTrap, Illegal
<1>9. CASE R!isStore(f) /\ f.rs1 <= 15 /\ f.rs2 <= 15
  <2>1. f.rs1 \in 0 .. 15 /\ f.rs2 \in 0 .. 15
    BY <1>3, <1>9
  <2>2. M!Outcome(s, f) = M!StoreData(s, M!Nothing(s, s.pc + f.len), StoreAddr(s, f), 2^f.funct3, M!ReadReg(s, f.rs2))
    BY <1>2, <1>4, <1>5, <1>6, <1>9
  <2>3. QED
    BY <1>2, <1>9, <2>1, <2>2, StoresAgree
<1>10. QED
  BY <1>7, <1>8, <1>9

(***************************************************************************)
(* The SYSTEM instructions.                                                *)
(***************************************************************************)
\* A CSR that holds what it may hold is not changed by writing its own value back.
LEMMA CsrKept ==
  ASSUME XLEN = 32, NEW c, NEW d, GoodCsrs(c), GoodCsrs(d), SameCsrs(c, d), NEW a \in Writable
  PROVE  LET y == [d EXCEPT ![a] = R!Legalized(a, d[a])] IN GoodCsrs(y) /\ SameCsrs(c, y)
<1> DEFINE x == [c EXCEPT ![a] = M!CsrMask(a, c[a])]
           y == [d EXCEPT ![a] = R!Legalized(a, d[a])]
<1>1. c \in [Writable -> Words] /\ d \in [Writable -> Words] /\ c[a] \in Words /\ d[a] \in Words
  BY DEF GoodCsrs
<1>2. a # Mstatus => c[a] = d[a]
  BY DEF SameCsrs
<1>3. Bit(c[a], 3) = Bit(d[a], 3) /\ Bit(c[a], 7) = Bit(d[a], 7)
  BY <1>2 DEF SameCsrs
<1>4. GoodCsrs(x) /\ GoodCsrs(y) /\ SameCsrs(x, y)
  <2> DEFINE v == c[a]
             w == d[a]
  <2>1. v \in Words /\ w \in Words /\ (a # Mstatus => v = w) /\ Bit(v, 3) = Bit(w, 3) /\ Bit(v, 7) = Bit(w, 7)
    BY <1>1, <1>2, <1>3
  <2> HIDE DEF v, w
  <2>2. LET p == [c EXCEPT ![a] = M!CsrMask(a, v)]
            q == [d EXCEPT ![a] = R!Legalized(a, w)]
        IN  GoodCsrs(p) /\ GoodCsrs(q) /\ SameCsrs(p, q)
    BY <2>1, CsrWritten
  <2>3. QED
    BY <2>2 DEF v, w
<1>5. /\ M!Mstatus = Mstatus /\ M!Mie = Mie /\ M!Mtvec = Mtvec /\ M!Mepc = Mepc /\ M!IrqBits = IrqBits
      /\ M!MIE + M!MPIE + M!MPP = 6280
      /\ Mstatus # Mie /\ Mstatus # Mtvec /\ Mstatus # Mepc /\ Mie # Mtvec /\ Mie # Mepc /\ Mtvec # Mepc
  BY SMT DEF M!Mstatus, M!Mie, M!Mtvec, M!Mepc, Mstatus, Mie, Mtvec, Mepc, M!IrqBits, IrqBits, M!MIE, M!MPIE, M!MPP
<1>6. CASE a = Mstatus
  <2>1. x[Mstatus] = (c[Mstatus] & 6280)
    BY <1>1, <1>5, <1>6, SameBitwise DEF M!CsrMask
  <2>2. \A b \in Writable \ {Mstatus} : x[b] = c[b]
    BY <1>1, <1>6
  <2> HIDE DEF x, y
  <2>3. 6280 \in Words /\ Bit(6280, 3) = 1 /\ Bit(6280, 7) = 1
    BY SMT DEF Words, Bit, Bits
  <2>4. c[Mstatus] \in Int /\ c[Mstatus] \in Words
    BY <1>1, <1>6, SMT DEF Words
  <2>5. Bit(c[Mstatus], 3) \in 0 .. 1 /\ Bit(c[Mstatus], 7) \in 0 .. 1
    BY <2>4, SMT DEF Bit, Bits
  <2>6. /\ Bit(c[Mstatus] & 6280, 3) = Bit(c[Mstatus], 3) * Bit(6280, 3)
        /\ Bit(c[Mstatus] & 6280, 7) = Bit(c[Mstatus], 7) * Bit(6280, 7)
    BY <2>3, <2>4, KeptBits
  <2>7. Bit(x[Mstatus], 3) = Bit(c[Mstatus], 3) /\ Bit(x[Mstatus], 7) = Bit(c[Mstatus], 7)
    <3>1. Bit(c[Mstatus], 3) * 1 = Bit(c[Mstatus], 3) /\ Bit(c[Mstatus], 7) * 1 = Bit(c[Mstatus], 7)
      BY <2>5, SMT
    <3>2. QED
      BY <2>1, <2>3, <2>6, <3>1
  <2>8. QED
    BY <1>4, <2>7, <2>2 DEF SameCsrs, y
<1>7. CASE a # Mstatus
  <2>1. M!CsrMask(a, c[a]) = c[a]
    <3>1. CASE a = Mie
      <4>1. M!CsrMask(a, c[a]) = (c[Mie] & IrqBits)
        BY <1>5, <3>1, SameBitwise DEF M!CsrMask
      <4>2. QED
        BY <3>1, <4>1 DEF GoodCsrs
    <3>2. CASE a = Mtvec
      <4>1. M!CsrMask(a, c[a]) = c[Mtvec] - (c[Mtvec] % 4)
        BY <1>5, <3>2, SameWords DEF M!CsrMask, AlignDown
      <4>2. c[Mtvec] % 4 = 0 /\ c[Mtvec] \in Int
        BY <1>1, <3>2, SMT DEF GoodCsrs, Words
      <4>3. QED
        BY <3>2, <4>1, <4>2
    <3>3. CASE a = Mepc
      <4>1. M!CsrMask(a, c[a]) = c[Mepc] - (c[Mepc] % 2)
        BY <1>5, <3>3, SameWords DEF M!CsrMask, AlignDown
      <4>2. c[Mepc] % 2 = 0 /\ c[Mepc] \in Int
        BY <1>1, <3>3, SMT DEF GoodCsrs, Words
      <4>3. QED
        BY <3>3, <4>1, <4>2
    <3>4. CASE a \notin {Mie, Mtvec, Mepc}
      BY <1>5, <1>7, <3>4 DEF M!CsrMask
    <3>5. QED
      BY <3>1, <3>2, <3>3, <3>4
  <2>2. \A b \in Writable : x[b] = c[b]
    BY <1>1, <2>1
  <2>3. Mstatus \in Writable
    BY DEF Writable
  <2> HIDE DEF x, y
  <2>4. QED
    BY <1>4, <2>2, <2>3 DEF SameCsrs, y
<1>8. QED
  BY <1>6, <1>7

\* An instruction that leaves the CSRs as z, writes v to register rd and goes to pc.
CsrEffect(o, s, pc, rd, v, z) ==
  /\ Writes(o, pc, rd, v)
  /\ o.mem = s.mem /\ o.csrs = z /\ o.sleeping = FALSE /\ o.addr = None

\* A CSR instruction of the model that writes the CSRs and then its register.
LEMMA ModelCsrWrites ==
  ASSUME NEW s, NEW pc, NEW z, NEW q, q = [M!Nothing(s, pc) EXCEPT !.csrs = z], NEW rd \in 0 .. 31, NEW v
  PROVE  IF rd > 15 THEN M!WriteReg(s, q, rd, v).cause = "rv32e_register"
         ELSE CsrEffect(M!WriteReg(s, q, rd, v), s, Word(pc), rd, Word(v), z)
<1> DEFINE o == M!Nothing(s, pc)
           w == M!WriteReg(s, q, rd, v)
<1>1. o = [cause |-> "none", pc |-> Word(pc), rd |-> None, wdata |-> None, addr |-> None,
           rdata |-> None, store |-> None, mem |-> s.mem, csrs |-> s.csrs, sleeping |-> FALSE]
  BY SameNames, SameWords DEF M!Nothing
<1>2. q = [o EXCEPT !.csrs = z]
  OBVIOUS
<1> HIDE DEF o
<1>3. /\ q.cause = "none" /\ q.pc = Word(pc) /\ q.rd = None /\ q.mem = s.mem /\ q.csrs = z
      /\ q.sleeping = FALSE /\ q.addr = None
  BY <1>1, <1>2
<1>4. CASE rd = 0
  <2>1. w = q /\ ~(rd > 15)
    BY <1>4 DEF M!WriteReg
  <2>2. QED
    BY <1>3, <1>4, <2>1 DEF CsrEffect, Writes
<1>5. CASE rd # 0 /\ ~(rd > 15)
  <2>1. w = [q EXCEPT !.rd = rd, !.wdata = M!Word(v)]
    BY <1>3, <1>5 DEF M!WriteReg
  <2>2. M!Word(v) = Word(v)
    BY SameWords
  <2> HIDE DEF w
  <2>3. /\ w.cause = "none" /\ w.pc = Word(pc) /\ w.rd = rd /\ w.wdata = Word(v) /\ w.mem = s.mem
        /\ w.csrs = z /\ w.sleeping = FALSE /\ w.addr = None
    BY <1>1, <1>2, <2>1, <2>2
  <2>4. CsrEffect(w, s, Word(pc), rd, Word(v), z)
    BY <1>5, <2>3 DEF CsrEffect, Writes
  <2>5. QED
    BY <1>5, <2>4 DEF w
<1>6. CASE rd > 15
  <2>1. w = [q EXCEPT !.cause = "rv32e_register", !.pc = s.pc]
    BY <1>3, <1>6 DEF M!WriteReg
  <2>2. QED
    BY <1>1, <1>2, <1>6, <2>1
<1>7. QED
  BY <1>4, <1>5, <1>6

OldCsr(s, a) == IF a \in Writable THEN s.csrs[a] ELSE IF a = Misa THEN MisaValue ELSE 0
CsrOperand(s, f) == IF f.funct3 >= 4 THEN f.rs1 ELSE M!ReadReg(s, f.rs1)
NewCsr(s, f) ==
  LET old == OldCsr(s, CsrAddr(f))
      operand == CsrOperand(s, f)
  IN  CASE f.funct3 % 4 = 1 -> operand
        [] f.funct3 % 4 = 2 -> old | operand
        [] f.funct3 % 4 = 3 -> old - (old & operand)
ModelCsrs(s, f) ==
  IF f.funct3 % 4 = 1 \/ CsrOperand(s, f) # 0
  THEN [s.csrs EXCEPT ![CsrAddr(f)] = M!CsrMask(CsrAddr(f), Word(NewCsr(s, f)))] ELSE s.csrs

\* What the model does of a CSR instruction.
LEMMA ModelCsr ==
  ASSUME NEW s, NEW f, f.rd \in 0 .. 31
  PROVE  LET m == M!ExecuteCsr(s, f)
             a == CsrAddr(f)
         IN  /\ a \notin Writable \cup ReadOnly \/ (f.funct3 < 4 /\ f.rs1 > 15) => m.cause \in Illegal
             /\ a \in ReadOnly \ Writable /\ (f.funct3 % 4 = 1 \/ CsrOperand(s, f) # 0) => m.cause \in Illegal
             /\ /\ a \in Writable \cup ReadOnly /\ ~(f.funct3 < 4 /\ f.rs1 > 15)
                /\ a \in Writable \/ ~(f.funct3 % 4 = 1 \/ CsrOperand(s, f) # 0)
                => IF f.rd > 15 THEN m.cause = "rv32e_register"
                   ELSE CsrEffect(m, s, Word(s.pc + 4), f.rd, Word(OldCsr(s, a)), ModelCsrs(s, f))
<1> DEFINE m == M!ExecuteCsr(s, f)
           a == CsrAddr(f)
           o == M!Nothing(s, s.pc + 4)
           old == M!ReadCsr(s, a)
           operand == CsrOperand(s, f)
           op == f.funct3 % 4
           new == CASE op = 1 -> operand
                    [] op = 2 -> M!|(old, operand)
                    [] op = 3 -> old - M!&(old, operand)
           written == IF op = 1 \/ operand # 0 THEN M!WriteCsr(s, o, a, new) ELSE o
<1>1. /\ M!Writable = Writable /\ M!ReadOnly = ReadOnly /\ M!MisaValue = MisaValue /\ M!Misa = Misa
  BY SameNames
<1>2. m = IF a \notin Writable \cup ReadOnly THEN M!Illegal(s)
          ELSE IF f.funct3 < 4 /\ f.rs1 > 15 THEN M!HighRegister(s)
          ELSE IF written.cause # "none" THEN written
          ELSE M!WriteReg(s, written, f.rd, old)
  <2>1. m = IF a \notin M!Writable \cup M!ReadOnly THEN M!Illegal(s)
            ELSE IF f.funct3 < 4 /\ f.rs1 > 15 THEN M!HighRegister(s)
            ELSE IF written.cause # "none" THEN written
            ELSE M!WriteReg(s, written, f.rd, old)
    BY DEF M!ExecuteCsr, CsrAddr, CsrOperand, M!Sequential
  <2> HIDE DEF m, written, old, a
  <2>2. QED
    BY <1>1, <2>1
<1>3. Misa \notin Writable /\ \A x \in ReadOnly : x \notin Writable
  BY SMT DEF Misa, Writable, ReadOnly, Mstatus, Mie, Mtvec, Mscratch, Mepc, Mcause, Mtval, Mip
<1>4. a \in Writable \cup ReadOnly => old = OldCsr(s, a)
  BY <1>1, <1>3 DEF M!ReadCsr, OldCsr
<1>5. a \in Writable \cup ReadOnly => new = NewCsr(s, f)
  BY <1>4, SameBitwise DEF NewCsr
<1>6. o.cause = "none" /\ o.csrs = s.csrs
  BY DEF M!Nothing
<1>7. a \notin Writable \cup ReadOnly \/ (f.funct3 < 4 /\ f.rs1 > 15) => m.cause \in Illegal
  <2>1. M!Illegal(s).cause \in Illegal /\ M!HighRegister(s).cause \in Illegal
    BY ModelTraps DEF Illegal
  <2>2. QED
    BY <1>2, <2>1
<1>8. a \in ReadOnly \ Writable /\ (op = 1 \/ operand # 0) => m.cause \in Illegal
  <2>1. ASSUME a \in ReadOnly \ Writable, op = 1 \/ operand # 0, ~(f.funct3 < 4 /\ f.rs1 > 15)
        PROVE  m.cause = "illegal_instruction"
    <3>1. written = M!Raise(s, "illegal_instruction")
      BY <1>1, <2>1 DEF M!WriteCsr
    <3>2. written.cause = "illegal_instruction"
      <4>1. M!Raise(s, "illegal_instruction").cause = "illegal_instruction"
        BY ModelTraps
      <4>2. QED
        BY <3>1, <4>1, Zenon
    <3>3. m = written
      BY <1>2, <2>1, <3>2
    <3>4. QED
      BY <3>2, <3>3
  <2>2. QED
    BY <1>7, <2>1 DEF Illegal
<1>9. ASSUME a \in Writable \cup ReadOnly, ~(f.funct3 < 4 /\ f.rs1 > 15),
             a \in Writable \/ ~(op = 1 \/ operand # 0)
      PROVE  IF f.rd > 15 THEN m.cause = "rv32e_register"
             ELSE CsrEffect(m, s, Word(s.pc + 4), f.rd, Word(OldCsr(s, a)), ModelCsrs(s, f))
  <2>1. CASE op = 1 \/ operand # 0
    <3>1. written = [o EXCEPT !.csrs[a] = M!CsrMask(a, M!Word(new))]
      BY <1>1, <1>9, <2>1 DEF M!WriteCsr
    <3>2. M!Word(new) = Word(NewCsr(s, f))
      BY <1>5, <1>9, SameWords
    <3> DEFINE z == [s.csrs EXCEPT ![a] = M!CsrMask(a, Word(NewCsr(s, f)))]
    <3>3. ModelCsrs(s, f) = z
      BY <2>1 DEF ModelCsrs
    <3>4. [o EXCEPT !.csrs[a] = M!CsrMask(a, Word(NewCsr(s, f)))] = [o EXCEPT !.csrs = z]
      BY <1>6
    <3>5. written = [o EXCEPT !.csrs = ModelCsrs(s, f)]
      BY <3>1, <3>2, <3>3, <3>4
    <3>6. [o EXCEPT !.csrs = ModelCsrs(s, f)].cause = "none"
      BY DEF M!Nothing
    <3> HIDE DEF written, new, old
    <3>7. m = M!WriteReg(s, written, f.rd, old)
      BY <1>2, <1>9, <3>5, <3>6
    <3>8. old = OldCsr(s, a)
      BY <1>4, <1>9
    <3>9. IF f.rd > 15 THEN M!WriteReg(s, written, f.rd, old).cause = "rv32e_register"
          ELSE CsrEffect(M!WriteReg(s, written, f.rd, old), s, Word(s.pc + 4), f.rd, Word(old), ModelCsrs(s, f))
      BY <3>5, ModelCsrWrites
    <3>10. QED
      BY <3>7, <3>8, <3>9
  <2>2. CASE ~(op = 1 \/ operand # 0)
    <3>1. written = o /\ ModelCsrs(s, f) = s.csrs
      BY <2>2 DEF ModelCsrs
    <3> HIDE DEF written, new, old
    <3>2. m = M!WriteReg(s, o, f.rd, old)
      BY <1>2, <1>6, <1>9, <3>1
    <3>3. old = OldCsr(s, a)
      BY <1>4, <1>9
    <3>4. CASE f.rd > 15
      <4>1. f.rd > 15 /\ f.rd # 0
        BY <3>4
      <4>2. M!WriteReg(s, o, f.rd, old).cause = "rv32e_register"
        <5>1. M!WriteReg(s, o, f.rd, old) = [o EXCEPT !.cause = "rv32e_register", !.pc = s.pc]
          BY <1>6, <4>1 DEF M!WriteReg
        <5>2. QED
          BY <5>1 DEF M!Nothing
      <4>3. QED
        BY <3>2, <3>4, <4>2
    <3>5. CASE ~(f.rd > 15)
      <4>1. f.rd \in 0 .. 15
        BY <3>5
      <4>2. Plain(M!WriteReg(s, o, f.rd, old), s, Word(s.pc + 4), f.rd, Word(old))
        BY <4>1, ModelWrites
      <4>3. CsrEffect(M!WriteReg(s, o, f.rd, old), s, Word(s.pc + 4), f.rd, Word(old), s.csrs)
        BY <4>2 DEF Plain, CsrEffect
      <4>4. QED
        BY <3>1, <3>2, <3>3, <3>5, <4>3
    <3>6. QED
      BY <3>4, <3>5
  <2>3. QED
    BY <2>1, <2>2
<1>10. QED
  BY <1>7, <1>8, <1>9

\* What the core does of one.
RtlCsrs(t, f) ==
  IF R!csrWriteEnable(f)
  THEN [t.csrs EXCEPT ![CsrAddr(f)] = R!Legalized(CsrAddr(f), R!csrWriteData(t, f))] ELSE t.csrs

\* A CSR instruction of the core.
LEMMA RtlCsr ==
  ASSUME NEW t, NEW insn, NEW f, f = Decoded(insn), R!isCsr(f), f.rd \in 0 .. 31, f.rs1 \in 0 .. 31
  PROVE  LET r == R!Outcome(t, insn)
         IN  /\ \/ f.rd > 15 \/ CsrAddr(f) \notin Writable \cup ReadOnly \/ f.funct3 = 4
                \/ R!csrUsesRs1(f) /\ f.rs1 > 15
                \/ R!csrWriteEnable(f) /\ CsrAddr(f) \in ReadOnly
                => r.cause \in Illegal
             /\ /\ f.rd <= 15 /\ CsrAddr(f) \in Writable \cup ReadOnly /\ f.funct3 # 4
                /\ ~(R!csrUsesRs1(f) /\ f.rs1 > 15) /\ ~(R!csrWriteEnable(f) /\ CsrAddr(f) \in ReadOnly)
                => CsrEffect(r, t, Word(Word(t.pc + insn.len)), f.rd, OldCsr(t, CsrAddr(f)), RtlCsrs(t, f))
<1> DEFINE r == R!Outcome(t, insn)
           seq == Word(t.pc + insn.len)
<1>1. /\ ~R!isLoad(f) /\ ~R!isStore(f) /\ ~R!isEbreak(f) /\ ~R!isEcall(f) /\ ~R!isMret(f) /\ ~R!isWfi(f)
      /\ ~R!isBranch(f) /\ ~R!isJalr(f) /\ ~R!isAluImm(f) /\ ~R!isAluReg(f)
      /\ f.opcode = 115 /\ R!execUsesRd(f) /\ R!execKnown(f)
  BY KindOpcodes DEF R!execUsesRd, R!execKnown
<1>2. R!regAccessIllegal(f) <=> f.rd > 15 \/ (R!csrUsesRs1(f) /\ f.rs1 > 15)
  BY <1>1 DEF R!regAccessIllegal, R!execUsesRs1, R!execUsesRs2
<1>3. R!csrIllegal(f) <=> \/ CsrAddr(f) \notin Writable \cup ReadOnly \/ f.funct3 = 4
                          \/ R!csrWriteEnable(f) /\ CsrAddr(f) \in ReadOnly
  BY SameNames DEF R!csrIllegal, R!csrAddr, CsrAddr
<1>4. R!execTrapCause(t, f) = IF R!regAccessIllegal(f) THEN "rv32e_register"
                              ELSE IF R!csrIllegal(f) THEN "illegal_instruction" ELSE "none"
  BY <1>1, RtlCause
<1>5. CASE R!regAccessIllegal(f) \/ R!csrIllegal(f)
  <2>1. R!execTrapCause(t, f) \in {"rv32e_register", "illegal_instruction"}
    BY <1>4, <1>5
  <2>2. r.cause \in {"rv32e_register", "illegal_instruction"}
    BY <2>1, RtlTraps
  <2>3. r.cause \in Illegal
    BY <2>2 DEF Illegal
  <2>4. QED
    BY <1>2, <1>3, <1>5, <2>3
<1>6. CASE ~R!regAccessIllegal(f) /\ ~R!csrIllegal(f)
  <2>1. R!execTrapCause(t, f) = "none"
    BY <1>4, <1>6
  <2>2. Commits(r, t, f, seq)
    BY <2>1, RtlRetires
  <2>3. R!execNextPc(t, f, seq) = seq
    BY <1>1 DEF R!execNextPc
  <2>4. R!execWdata(t, f, seq) = R!csrReadData(t, f)
    BY <1>1 DEF R!execWdata
  <2>5. R!csrReadData(t, f) = OldCsr(t, CsrAddr(f))
    <3>1. Misa \notin Writable
      BY SMT DEF Misa, Writable, Mstatus, Mie, Mtvec, Mscratch, Mepc, Mcause, Mtval
    <3>2. QED
      BY <3>1, SameNames DEF R!csrReadData, R!csrAddr, CsrAddr, OldCsr
  <2>6. R!csrAddr(f) = CsrAddr(f)
    BY DEF R!csrAddr, CsrAddr
  <2>7. CsrEffect(r, t, Word(seq), f.rd, OldCsr(t, CsrAddr(f)), RtlCsrs(t, f))
    BY <1>1, <2>2, <2>3, <2>4, <2>5, <2>6 DEF Commits, CsrEffect, Writes, RtlCsrs
  <2>8. QED
    BY <1>2, <1>3, <1>6, <2>7
<1>7. QED
  BY <1>5, <1>6

\* The operand, and the value written, on either side.
LEMMA CsrValues ==
  ASSUME XLEN = 32, NEW s, NEW t, Paired(s, t), NEW f \in InsnFields, f.funct3 \notin {0, 4}, CsrAddr(f) \in Writable
  PROVE  /\ CsrOperand(s, f) \in Words
         /\ NewCsr(s, f) \in Words /\ R!csrWriteData(t, f) \in Words
         /\ CsrAddr(f) # Mstatus => NewCsr(s, f) = R!csrWriteData(t, f)
         /\ Bit(NewCsr(s, f), 3) = Bit(R!csrWriteData(t, f), 3)
         /\ Bit(NewCsr(s, f), 7) = Bit(R!csrWriteData(t, f), 7)
         /\ f.funct3 % 4 # 1 /\ CsrOperand(s, f) = 0 => R!csrWriteData(t, f) = t.csrs[CsrAddr(f)]
<1> DEFINE a == CsrAddr(f)
           x == s.csrs[a]
           y == t.csrs[a]
           n == CsrOperand(s, f)
<1>1. /\ s.csrs \in [Writable -> Words] /\ t.csrs \in [Writable -> Words] /\ SameCsrs(s.csrs, t.csrs)
  BY DEF Paired, GoodState, GoodCsrs, Alike
<1>2. x \in Words /\ y \in Words
  BY <1>1
<1>3. Bit(x, 3) = Bit(y, 3) /\ Bit(x, 7) = Bit(y, 7) /\ (a # Mstatus => x = y)
  BY <1>1 DEF SameCsrs
<1>4. f.rs1 \in 0 .. 31 /\ f.funct3 \in {1, 2, 3, 5, 6, 7}
  BY DEF InsnFields
<1>5. n \in Words
  <2>1. \A i \in 0 .. 31 : i \in Words
    BY SMT DEF Words
  <2>2. M!ReadReg(s, f.rs1) \in Words
    BY Operands
  <2>3. QED
    BY <1>4, <2>1, <2>2 DEF CsrOperand
<1>6. (IF f.funct3 >= 4 THEN f.rs1 ELSE R!Gpr(t, f.rs1)) = n
  BY Operands DEF CsrOperand
<1>7. R!csrReadData(t, f) = y /\ OldCsr(s, a) = x
  <2>1. Misa \notin Writable
    BY SMT DEF Misa, Writable, Mstatus, Mie, Mtvec, Mscratch, Mepc, Mcause, Mtval
  <2>2. QED
    BY <2>1, SameNames DEF R!csrReadData, R!csrAddr, CsrAddr, OldCsr
<1> HIDE DEF x, y, n, a
<1>8. R!csrWriteData(t, f) = CASE f.funct3 \in {1, 5} -> n
                               [] f.funct3 \in {2, 6} -> R!|(y, n)
                               [] f.funct3 \in {3, 7} -> R!&(y, 2^XLEN - 1 - n)
  BY <1>6, <1>7, Zenon DEF R!csrWriteData
<1>9. NewCsr(s, f) = CASE f.funct3 % 4 = 1 -> n
                       [] f.funct3 % 4 = 2 -> x | n
                       [] f.funct3 % 4 = 3 -> x - (x & n)
  BY <1>7, Zenon DEF NewCsr, n, a
<1>10. (y & (2^XLEN - 1 - n)) = y - (y & n)
  BY <1>2, <1>5, AndNot
<1>11. CASE f.funct3 \in {1, 5}
  <2>1. f.funct3 % 4 = 1
    BY <1>11, SMT
  <2>2. R!csrWriteData(t, f) = n /\ NewCsr(s, f) = n
    BY <1>8, <1>9, <1>11, <2>1
  <2>3. QED
    BY <1>5, <2>1, <2>2 DEF n, a
<1>12. CASE f.funct3 \in {2, 6}
  <2>1. f.funct3 % 4 = 2
    BY <1>12, SMT
  <2>2. R!csrWriteData(t, f) = (y | n) /\ NewCsr(s, f) = (x | n)
    BY <1>8, <1>9, <1>12, <2>1, SameBitwise
  <2>3. (y | n) \in Words /\ (x | n) \in Words
    BY <1>2, <1>5, BitwiseWords
  <2>4. Bit(x | n, 3) = Bit(y | n, 3) /\ Bit(x | n, 7) = Bit(y | n, 7)
    <3>1. ASSUME NEW i \in {3, 7}
          PROVE  /\ Bit(x | n, i) = Bit(x, i) + Bit(n, i) - Bit(x, i) * Bit(n, i)
                 /\ Bit(y | n, i) = Bit(y, i) + Bit(n, i) - Bit(y, i) * Bit(n, i)
      BY <1>2, <1>5, KeptBits
    <3>2. QED
      BY <1>3, <3>1
  <2>5. n = 0 => (y | n) = y
    BY <1>2, ZeroOperand
  <2>6. a # Mstatus => (x | n) = (y | n)
    BY <1>3
  <2>7. QED
    BY <1>5, <2>1, <2>2, <2>3, <2>4, <2>5, <2>6 DEF n, y, a
<1>13. CASE f.funct3 \in {3, 7}
  <2>1. f.funct3 % 4 = 3
    BY <1>13, SMT
  <2>2. R!csrWriteData(t, f) = y - (y & n) /\ NewCsr(s, f) = x - (x & n)
    BY <1>8, <1>9, <1>10, <1>13, <2>1, SameBitwise
  <2>3. y - (y & n) \in Words /\ x - (x & n) \in Words
    <3>1. ASSUME NEW z \in Words PROVE z - (z & n) \in Words
      <4>1. (z & n) \in Nat /\ (z & n) <= z
        BY <1>5, AndBounds
      <4>2. QED
        BY <4>1, SMT DEF Words
    <3>2. QED
      BY <1>2, <3>1
  <2>4. Bit(x - (x & n), 3) = Bit(y - (y & n), 3) /\ Bit(x - (x & n), 7) = Bit(y - (y & n), 7)
    <3>1. ASSUME NEW i \in {3, 7}
          PROVE  /\ Bit(x - (x & n), i) = Bit(x, i) - Bit(x, i) * Bit(n, i)
                 /\ Bit(y - (y & n), i) = Bit(y, i) - Bit(y, i) * Bit(n, i)
      BY <1>2, <1>5, KeptBits
    <3>2. QED
      BY <1>3, <3>1
  <2>5. n = 0 => y - (y & n) = y
    BY <1>2, <1>10, ZeroOperand
  <2>6. a # Mstatus => x - (x & n) = y - (y & n)
    BY <1>3
  <2>7. QED
    BY <1>5, <2>1, <2>2, <2>3, <2>4, <2>5, <2>6 DEF n, y, a
<1>14. QED
  BY <1>4, <1>11, <1>12, <1>13

\* The core writes wherever the model does, and where only the core writes nothing changes.
LEMMA CsrsAgree ==
  ASSUME XLEN = 32, NEW s, NEW t, Paired(s, t), NEW f \in InsnFields, f.opcode = 115, f.funct3 \notin {0, 4},
         CsrAddr(f) \in Writable
  PROVE  GoodCsrs(ModelCsrs(s, f)) /\ GoodCsrs(RtlCsrs(t, f)) /\ SameCsrs(ModelCsrs(s, f), RtlCsrs(t, f))
<1> DEFINE a == CsrAddr(f)
           v == NewCsr(s, f)
           w == R!csrWriteData(t, f)
           writes == f.funct3 % 4 = 1 \/ CsrOperand(s, f) # 0
<1>1. GoodCsrs(s.csrs) /\ GoodCsrs(t.csrs) /\ SameCsrs(s.csrs, t.csrs)
  BY DEF Paired, GoodState, Alike
<1>2. /\ v \in Words /\ w \in Words /\ (a # Mstatus => v = w) /\ Bit(v, 3) = Bit(w, 3) /\ Bit(v, 7) = Bit(w, 7)
      /\ ~writes => w = t.csrs[a]
  BY CsrValues
<1>3. Word(v) = v
  <2>1. \A x \in Words : Word(x) = x
    BY WordFacts
  <2>2. QED
    BY <1>2, <2>1
<1>4. R!csrWriteEnable(f) <=> f.funct3 \in {1, 5} \/ f.rs1 # 0
  BY DEF R!csrWriteEnable, R!isCsr, InsnFields
<1>5. writes => R!csrWriteEnable(f)
  <2>1. f.funct3 % 4 = 1 => f.funct3 \in {1, 5}
    BY SMT DEF InsnFields
  <2>2. f.rs1 = 0 => CsrOperand(s, f) = 0
    BY DEF CsrOperand, M!ReadReg
  <2>3. QED
    BY <1>4, <2>1, <2>2
<1>6. CASE ~R!csrWriteEnable(f)
  <2>1. ModelCsrs(s, f) = s.csrs /\ RtlCsrs(t, f) = t.csrs
    BY <1>5, <1>6 DEF ModelCsrs, RtlCsrs
  <2>2. QED
    BY <1>1, <2>1
<1>7. CASE R!csrWriteEnable(f) /\ writes
  <2>1. /\ ModelCsrs(s, f) = [s.csrs EXCEPT ![a] = M!CsrMask(a, v)]
        /\ RtlCsrs(t, f) = [t.csrs EXCEPT ![a] = R!Legalized(a, w)]
    BY <1>3, <1>7 DEF ModelCsrs, RtlCsrs
  <2> HIDE DEF a, v, w
  <2>2. a \in Writable
    BY DEF a
  <2>3. LET p == [s.csrs EXCEPT ![a] = M!CsrMask(a, v)]
            q == [t.csrs EXCEPT ![a] = R!Legalized(a, w)]
        IN  GoodCsrs(p) /\ GoodCsrs(q) /\ SameCsrs(p, q)
    BY <1>1, <1>2, <2>2, CsrWritten
  <2>4. QED
    BY <2>1, <2>3
<1>8. CASE R!csrWriteEnable(f) /\ ~writes
  <2>1. ModelCsrs(s, f) = s.csrs /\ RtlCsrs(t, f) = [t.csrs EXCEPT ![a] = R!Legalized(a, t.csrs[a])]
    BY <1>2, <1>8 DEF ModelCsrs, RtlCsrs
  <2> HIDE DEF a, v, w, writes
  <2>2. a \in Writable
    BY DEF a
  <2>3. LET q == [t.csrs EXCEPT ![a] = R!Legalized(a, t.csrs[a])] IN GoodCsrs(q) /\ SameCsrs(s.csrs, q)
    BY <1>1, <2>2, CsrKept
  <2>4. QED
    BY <1>1, <2>1, <2>3
<1>9. QED
  BY <1>6, <1>7, <1>8

\* The CSR instructions on which the two are bound to agree.
CsrClear(s, t, f) ==
  /\ ReadsMpp(f) => s.csrs[Mstatus] = t.csrs[Mstatus]
  /\ SetsReadOnly(f) => M!ReadReg(s, f.rs1) # 0

\* CSR instructions agree.
LEMMA CsrAgrees ==
  ASSUME XLEN = 32, NEW s, NEW t, Paired(s, t), NEW f \in InsnFields, f.opcode = 115, f.funct3 \notin {0, 4},
         CsrClear(s, t, f), M!Outcome(s, f) = M!ExecuteCsr(s, f)
  PROVE  Agrees(s, t, f)
<1> DEFINE a == CsrAddr(f)
           m == M!Outcome(s, f)
           r == R!Outcome(t, f)
           writes == f.funct3 % 4 = 1 \/ CsrOperand(s, f) # 0
           known == a \in Writable \cup ReadOnly
           high == f.funct3 < 4 /\ f.rs1 > 15
           pc == Word(s.pc + 4)
<1>1. /\ f.rd \in 0 .. 31 /\ f.rs1 \in 0 .. 31 /\ f.funct3 \in {1, 2, 3, 5, 6, 7}
  BY DEF InsnFields
<1>2. s.pc = t.pc /\ s.pc \in Words /\ s.pc % 2 = 0
  BY Operands
<1>3. Decoded(f) = f /\ f.len = 4
  BY <1>2, AsItStands
<1>4. R!isCsr(f)
  BY DEF R!isCsr
<1>5. R!csrWriteEnable(f) <=> f.funct3 \in {1, 5} \/ f.rs1 # 0
  BY <1>1, <1>4 DEF R!csrWriteEnable
<1>6. f.funct3 % 4 = 1 <=> f.funct3 \in {1, 5}
  BY <1>1, SMT
<1>7. writes => R!csrWriteEnable(f)
  <2>1. f.rs1 = 0 => CsrOperand(s, f) = 0
    BY DEF CsrOperand, M!ReadReg
  <2>2. QED
    BY <1>5, <1>6, <2>1
<1>8. a \in ReadOnly /\ R!csrWriteEnable(f) /\ ~high => writes
  <2>1. ASSUME a \in ReadOnly, ~high, f.funct3 \notin {1, 5}, f.rs1 # 0 PROVE CsrOperand(s, f) # 0
    <3>1. CASE f.funct3 \in {2, 3}
      <4>1. f.rs1 \in 1 .. 15
        BY <1>1, <2>1, <3>1
      <4>2. QED
        BY <2>1, <3>1, <4>1 DEF CsrClear, SetsReadOnly, CsrOperand
    <3>2. CASE f.funct3 \in {6, 7}
      BY <2>1, <3>2 DEF CsrOperand
    <3>3. QED
      BY <1>1, <2>1, <3>1, <3>2
  <2>2. QED
    BY <1>5, <1>6, <2>1
<1>9. high <=> R!csrUsesRs1(f) /\ f.rs1 > 15
  BY <1>1, <1>4 DEF R!csrUsesRs1
<1>10. \A x \in ReadOnly : x \notin Writable
  BY SMT DEF Misa, Writable, ReadOnly, Mstatus, Mie, Mtvec, Mscratch, Mepc, Mcause, Mtval, Mip
<1>11. /\ ~known \/ high => m.cause \in Illegal
       /\ a \in ReadOnly \ Writable /\ writes => m.cause \in Illegal
       /\ known /\ ~high /\ (a \in Writable \/ ~writes) =>
            IF f.rd > 15 THEN m.cause = "rv32e_register"
            ELSE CsrEffect(m, s, pc, f.rd, Word(OldCsr(s, a)), ModelCsrs(s, f))
  BY <1>1, ModelCsr
<1>12. /\ f.rd > 15 \/ ~known \/ high \/ (R!csrWriteEnable(f) /\ a \in ReadOnly) => r.cause \in Illegal
       /\ f.rd <= 15 /\ known /\ ~high /\ ~(R!csrWriteEnable(f) /\ a \in ReadOnly) =>
            CsrEffect(r, t, Word(pc), f.rd, OldCsr(t, a), RtlCsrs(t, f))
  BY <1>1, <1>2, <1>3, <1>4, <1>9, RtlCsr
<1>13. CASE ~known \/ high \/ (a \in ReadOnly /\ writes)
  <2>1. m.cause \in Illegal /\ r.cause \in Illegal
    BY <1>7, <1>10, <1>11, <1>12, <1>13
  <2>2. QED
    BY <2>1, BothIllegal
<1>14. CASE known /\ ~high /\ ~(a \in ReadOnly /\ writes) /\ f.rd > 15
  <2>1. m.cause \in Illegal /\ r.cause \in Illegal
    BY <1>11, <1>12, <1>14 DEF Illegal
  <2>2. QED
    BY <2>1, BothIllegal
<1>15. CASE known /\ ~high /\ ~(a \in ReadOnly /\ writes) /\ ~(f.rd > 15)
  <2> DEFINE v == OldCsr(t, a)
  <2>1. f.rd \in 0 .. 15
    BY <1>1, <1>15
  <2>2. CsrEffect(m, s, pc, f.rd, Word(OldCsr(s, a)), ModelCsrs(s, f))
    BY <1>11, <1>15
  <2>3. CsrEffect(r, t, Word(pc), f.rd, v, RtlCsrs(t, f))
    BY <1>8, <1>12, <1>15, <2>1
  <2>4. Word(pc) = pc /\ pc \in Words /\ pc % 2 = 0
    BY <1>3, GoesOn
  <2>5. /\ GoodMem(t.mem) /\ GoodMem(s.mem) /\ SameMem(s.mem, t.mem) /\ GoodCsrs(s.csrs) /\ GoodCsrs(t.csrs)
        /\ SameCsrs(s.csrs, t.csrs) /\ s.regs \in [1 .. 15 -> Words] /\ s.regs = t.regs
    BY DEF Paired, GoodState, Alike
  <2>6. \A x \in Words : Word(x) = x
    BY WordFacts
  <2>7. v \in Words /\ OldCsr(s, a) \in Words /\ (f.rd # 0 => OldCsr(s, a) = v)
    <3>1. 0 \in Words /\ MisaValue \in Words
      <4>1. MisaValue = 1073741844
        BY SMT DEF MisaValue, Word
      <4>2. QED
        BY <4>1, SMT DEF Words
    <3>2. CASE a \in Writable
      <4>1. OldCsr(s, a) = s.csrs[a] /\ v = t.csrs[a]
        BY <3>2 DEF OldCsr
      <4>2. s.csrs[a] \in Words /\ t.csrs[a] \in Words
        BY <2>5, <3>2 DEF GoodCsrs
      <4>3. f.rd # 0 => s.csrs[a] = t.csrs[a]
        BY <2>5, <3>2 DEF SameCsrs, CsrClear, ReadsMpp
      <4>4. QED
        BY <4>1, <4>2, <4>3
    <3>3. CASE a \notin Writable
      BY <3>1, <3>3 DEF OldCsr
    <3>4. QED
      BY <3>2, <3>3
  <2>8. GoodCsrs(ModelCsrs(s, f)) /\ GoodCsrs(RtlCsrs(t, f)) /\ SameCsrs(ModelCsrs(s, f), RtlCsrs(t, f))
    <3>1. CASE a \in Writable
      BY <3>1, CsrsAgree
    <3>2. CASE a \notin Writable
      <4>1. ~writes /\ ~R!csrWriteEnable(f)
        BY <1>8, <1>15, <3>2
      <4>2. ModelCsrs(s, f) = s.csrs /\ RtlCsrs(t, f) = t.csrs
        BY <4>1 DEF ModelCsrs, RtlCsrs
      <4>3. QED
        BY <2>5, <4>2
    <3>3. QED
      BY <3>1, <3>2
  <2> HIDE DEF m, r, a, pc, v
  <2>9. /\ Writes(m, pc, f.rd, v) /\ m.mem = s.mem /\ m.csrs = ModelCsrs(s, f) /\ m.sleeping = FALSE /\ m.addr = None
    BY <2>2, <2>6, <2>7 DEF CsrEffect, Writes
  <2>10. /\ Writes(r, pc, f.rd, v) /\ r.mem = t.mem /\ r.csrs = RtlCsrs(t, f) /\ r.sleeping = FALSE /\ r.addr = None
    BY <2>3, <2>4 DEF CsrEffect
  <2>11. r.addr = (IF m.addr = None THEN None ELSE AlignDown(m.addr, 4)) /\ m.sleeping = r.sleeping
    BY <2>9, <2>10
  <2>12. /\ GoodMem(m.mem) /\ GoodMem(r.mem) /\ SameMem(m.mem, r.mem)
         /\ GoodCsrs(m.csrs) /\ GoodCsrs(r.csrs) /\ SameCsrs(m.csrs, r.csrs)
    BY <2>5, <2>8, <2>9, <2>10
  <2>13. OneEffect(s, t, m, r)
    BY <2>1, <2>4, <2>5, <2>7, <2>9, <2>10, <2>11, <2>12, EffectsAgree
  <2>14. QED
    BY <2>13 DEF Agrees, m, r
<1>16. QED
  BY <1>13, <1>14, <1>15

\* The instructions with one encoding each.
SystemBits(f) == <<f.funct7, f.rs2, f.rs1, f.funct3, f.rd>>

\* Each of the four instructions of SYSTEM without a CSR has one encoding.
LEMMA SystemKinds ==
  ASSUME NEW f \in InsnFields, f.opcode = 115
  PROVE  /\ R!isEcall(f) <=> SystemBits(f) = <<0, 0, 0, 0, 0>>
         /\ R!isEbreak(f) <=> SystemBits(f) = <<0, 1, 0, 0, 0>>
         /\ R!isWfi(f) <=> SystemBits(f) = <<8, 5, 0, 0, 0>>
         /\ R!isMret(f) <=> SystemBits(f) = <<24, 2, 0, 0, 0>>
<1>1. ASSUME NEW a, NEW b
      PROVE  f = R!Fields(a, b, 0, 0, 0, 115) <=> SystemBits(f) = <<a, b, 0, 0, 0>>
  <2>1. f.len = 4
    BY SMT DEF InsnFields
  <2>2. R!Fields(a, b, 0, 0, 0, 115) =
          [len |-> 4, opcode |-> 115, rd |-> 0, funct3 |-> 0, rs1 |-> 0, rs2 |-> b, funct7 |-> a]
    BY DEF R!Fields
  <2>3. SystemBits(f) = <<a, b, 0, 0, 0>> <=> f.funct7 = a /\ f.rs2 = b /\ f.rs1 = 0 /\ f.funct3 = 0 /\ f.rd = 0
    BY DEF SystemBits
  <2>4. f = [len |-> f.len, opcode |-> f.opcode, rd |-> f.rd, funct3 |-> f.funct3, rs1 |-> f.rs1, rs2 |-> f.rs2,
             funct7 |-> f.funct7]
    BY DEF InsnFields
  <2>5. QED
    BY <2>1, <2>2, <2>3, <2>4
<1>2. QED
  BY <1>1 DEF R!isEcall, R!isEbreak, R!isWfi, R!isMret

\* ECALL and EBREAK.
LEMMA BreakAgrees ==
  ASSUME NEW s, NEW t, NEW insn, NEW f, f = Decoded(insn), NEW c, c # "none",
         \/ R!isEbreak(f) /\ c = "ebreak"
         \/ R!isEcall(f) /\ c = "ecall",
         M!Outcome(s, insn) = M!Raise(s, c)
  PROVE  Agrees(s, t, insn)
<1>1. R!execTrapCause(t, f) = c
  BY RtlCause, ZenonT(40)
<1>2. R!Outcome(t, insn).cause = c
  BY <1>1, RtlTraps, Zenon
<1>3. M!Outcome(s, insn).cause = c
  BY ModelTraps, ZenonT(40)
<1>4. QED
  BY <1>2, <1>3 DEF Agrees, OneTrap

\* WFI and MRET retire in the core.
LEMMA RtlSystem ==
  ASSUME NEW t, NEW insn, NEW f, f = Decoded(insn), R!isWfi(f) \/ R!isMret(f)
  PROVE  LET r == R!Outcome(t, insn)
             seq == Word(t.pc + insn.len)
         IN  /\ \A v : Writes(r, Word(IF R!isMret(f) THEN t.csrs[Mepc] ELSE seq), 0, v)
             /\ r.mem = t.mem /\ r.addr = None /\ (r.sleeping <=> R!isWfi(f)) /\ r.sleeping \in BOOLEAN
             /\ r.csrs = IF R!isMret(f) THEN [t.csrs EXCEPT ![Mstatus] = R!mretMstatus(@)] ELSE t.csrs
<1> DEFINE r == R!Outcome(t, insn)
           seq == Word(t.pc + insn.len)
<1>1. /\ ~R!isLoad(f) /\ ~R!isStore(f) /\ ~R!isEbreak(f) /\ ~R!isEcall(f) /\ ~R!isCsr(f)
      /\ ~R!isBranch(f) /\ ~R!isJalr(f) /\ ~R!isAluImm(f) /\ ~R!isAluReg(f) /\ ~R!csrWriteEnable(f)
      /\ ~R!csrUsesRs1(f) /\ ~R!csrIllegal(f) /\ f.opcode = 115
  BY KindOpcodes
<1>2. ~R!execUsesRd(f) /\ R!execKnown(f) /\ ~R!regAccessIllegal(f)
  BY <1>1 DEF R!execUsesRd, R!execKnown, R!regAccessIllegal, R!execUsesRs1, R!execUsesRs2
<1>3. R!execTrapCause(t, f) = "none"
  BY <1>1, <1>2, RtlCause
<1>4. Commits(r, t, f, seq)
  BY <1>3, RtlRetires
<1>5. R!execNextPc(t, f, seq) = IF R!isMret(f) THEN t.csrs[Mepc] ELSE seq
  <2>1. R!Mepc = Mepc
    BY SameNames
  <2>2. QED
    BY <1>1, <2>1 DEF R!execNextPc
<1>6. R!isWfi(f) \in BOOLEAN
  BY DEF R!isWfi
<1> HIDE DEF r, seq
<1>7. QED
  BY <1>1, <1>2, <1>4, <1>5, <1>6 DEF Commits, Writes, r, seq

\* WFI agrees.
LEMMA WfiAgrees ==
  ASSUME XLEN = 32, NEW s, NEW t, Paired(s, t), NEW f \in InsnFields, R!isWfi(f),
         M!Outcome(s, f) = [M!Sequential(s) EXCEPT !.sleeping = TRUE]
  PROVE  Agrees(s, t, f)
<1> DEFINE m == M!Outcome(s, f)
           r == R!Outcome(t, f)
           pc == Word(s.pc + 4)
<1>1. s.pc = t.pc /\ s.pc \in Words /\ s.pc % 2 = 0
  BY Operands
<1>2. Decoded(f) = f /\ f.len = 4 /\ f.len \in {2, 4}
  BY <1>1, AsItStands
<1>3. ~R!isMret(f)
  BY KindOpcodes
<1>4. Word(pc) = pc /\ pc \in Words /\ pc % 2 = 0
  BY <1>2, GoesOn
<1>5. /\ Writes(r, pc, 0, 0) /\ r.mem = t.mem /\ r.addr = None /\ r.sleeping = TRUE /\ r.csrs = t.csrs
  <2>1. /\ Writes(r, Word(Word(t.pc + f.len)), 0, 0)
        /\ r.mem = t.mem /\ r.addr = None /\ r.sleeping = TRUE /\ r.csrs = t.csrs
    BY <1>2, <1>3, RtlSystem
  <2>2. QED
    BY <1>1, <1>2, <1>4, <2>1
<1>6. /\ Writes(m, pc, 0, 0) /\ m.mem = s.mem /\ m.addr = None /\ m.sleeping = TRUE /\ m.csrs = s.csrs
  <2>1. /\ m.cause = "none" /\ m.pc = M!Word(s.pc + 4) /\ m.rd = M!None /\ m.mem = s.mem /\ m.addr = M!None
        /\ m.sleeping = TRUE /\ m.csrs = s.csrs
    BY DEF M!Sequential, M!Nothing
  <2> HIDE DEF m
  <2>2. QED
    BY <2>1, SameNames, SameWords DEF Writes
<1>7. /\ GoodMem(t.mem) /\ GoodMem(s.mem) /\ SameMem(s.mem, t.mem) /\ GoodCsrs(s.csrs) /\ GoodCsrs(t.csrs)
      /\ SameCsrs(s.csrs, t.csrs) /\ s.regs \in [1 .. 15 -> Words] /\ s.regs = t.regs
  BY DEF Paired, GoodState, Alike
<1>8. 0 \in Words /\ 0 \in 0 .. 15
  BY SMT DEF Words
<1> HIDE DEF m, r, pc
<1>9. r.addr = (IF m.addr = None THEN None ELSE AlignDown(m.addr, 4)) /\ m.sleeping = r.sleeping
  BY <1>5, <1>6
<1>10. OneEffect(s, t, m, r)
  BY <1>4, <1>5, <1>6, <1>7, <1>8, <1>9, EffectsAgree
<1>11. QED
  BY <1>10 DEF Agrees, m, r

\* MRET agrees.
LEMMA MretAgrees ==
  ASSUME XLEN = 32, NEW s, NEW t, Paired(s, t), NEW f \in InsnFields, R!isMret(f),
         M!Outcome(s, f) = M!WriteCsr(s, M!Nothing(s, s.csrs[Mepc]), M!Mstatus,
                                      (IF Bit(s.csrs[Mstatus], 7) = 1 THEN M!MIE ELSE 0) + M!MPIE + M!MPP)
  PROVE  Agrees(s, t, f)
<1> DEFINE m == M!Outcome(s, f)
           r == R!Outcome(t, f)
           pc == s.csrs[Mepc]
           v == (IF Bit(s.csrs[Mstatus], 7) = 1 THEN 8 ELSE 0) + 128 + 6144
           x == [s.csrs EXCEPT ![Mstatus] = M!CsrMask(Mstatus, v)]
           y == [t.csrs EXCEPT ![Mstatus] = R!Legalized(Mstatus, v)]
<1>1. s.pc = t.pc /\ s.pc \in Words /\ s.pc % 2 = 0
  BY Operands
<1>2. Decoded(f) = f /\ f.len = 4 /\ f.len \in {2, 4}
  BY <1>1, AsItStands
<1>3. ~R!isWfi(f)
  BY KindOpcodes
<1>4. /\ GoodMem(t.mem) /\ GoodMem(s.mem) /\ SameMem(s.mem, t.mem) /\ GoodCsrs(s.csrs) /\ GoodCsrs(t.csrs)
      /\ SameCsrs(s.csrs, t.csrs) /\ s.regs \in [1 .. 15 -> Words] /\ s.regs = t.regs
  BY DEF Paired, GoodState, Alike
<1>5. Mepc \in Writable /\ Mepc # Mstatus /\ Mstatus \in Writable
  BY SMT DEF Writable, Mepc, Mstatus
<1>6. pc \in Words /\ pc % 2 = 0 /\ t.csrs[Mepc] = pc
  BY <1>4, <1>5 DEF GoodCsrs, SameCsrs
<1>7. Word(pc) = pc
  <2>1. \A z \in Words : Word(z) = z
    BY WordFacts
  <2>2. QED
    BY <1>6, <2>1
<1>8. Bit(s.csrs[Mstatus], 7) = Bit(t.csrs[Mstatus], 7) /\ Bit(t.csrs[Mstatus], 7) \in 0 .. 1
  <2>1. t.csrs[Mstatus] \in Int
    BY <1>4, <1>5, SMT DEF GoodCsrs, Words
  <2>2. QED
    BY <1>4, <2>1, SMT DEF SameCsrs, Bit, Bits
<1>9. v \in Words /\ Word(v) = v /\ Bit(v, 7) = 1 /\ Bit(v, 3) = Bit(t.csrs[Mstatus], 7)
  <2>1. CASE Bit(t.csrs[Mstatus], 7) = 1
    <3>1. v = 6280
      BY <1>8, <2>1, SMT
    <3>2. QED
      BY <2>1, <3>1, SMT DEF Words, Word, Bit, Bits
  <2>2. CASE Bit(t.csrs[Mstatus], 7) = 0
    <3>1. v = 6272
      BY <1>8, <2>2, SMT
    <3>2. QED
      BY <2>2, <3>1, SMT DEF Words, Word, Bit, Bits
  <2>3. QED
    BY <1>8, <2>1, <2>2
<1>10. /\ M!Mstatus = Mstatus /\ M!Writable = Writable /\ R!Mstatus = Mstatus
       /\ M!MIE = 8 /\ M!MPIE = 128 /\ M!MPP = 6144 /\ R!MIE = 8 /\ R!MPIE = 128 /\ R!MPP = 6144
  BY SMT DEF M!Mstatus, Mstatus, R!Mstatus, M!Writable, Writable, M!MIE, M!MPIE, M!MPP, R!MIE, R!MPIE, R!MPP,
             M!Mie, Mie, M!Mtvec, Mtvec, M!Mscratch, Mscratch, M!Mepc, Mepc, M!Mcause, Mcause, M!Mtval, Mtval
<1>11. R!mretMstatus(t.csrs[Mstatus]) = R!Legalized(Mstatus, v)
  <2>1. R!mretMstatus(t.csrs[Mstatus]) = 6144 + 128 + Bit(t.csrs[Mstatus], 7) * 8
    BY <1>10, SameWords DEF R!mretMstatus
  <2>2. R!Legalized(Mstatus, v) = 6144 + Bit(v, 7) * 128 + Bit(v, 3) * 8
    <3> HIDE DEF v
    <3>1. \A w : R!Mstatus = Mstatus => R!Legalized(Mstatus, w) = R!MPP + R!Bit(w, 7) * R!MPIE + R!Bit(w, 3) * R!MIE
      BY SMT DEF R!Legalized, R!Mie, R!Mtvec, R!Mepc, R!Mstatus
    <3>2. QED
      BY <1>10, <3>1, SameWords
  <2>3. QED
    BY <1>8, <1>9, <2>1, <2>2
<1>12. /\ Writes(r, pc, 0, 0) /\ r.mem = t.mem /\ r.addr = None /\ r.sleeping = FALSE /\ r.csrs = y
  <2>1. /\ Writes(r, Word(t.csrs[Mepc]), 0, 0)
        /\ r.mem = t.mem /\ r.addr = None /\ (r.sleeping <=> FALSE) /\ r.sleeping \in BOOLEAN
        /\ r.csrs = [t.csrs EXCEPT ![Mstatus] = R!mretMstatus(@)]
    BY <1>2, <1>3, RtlSystem
  <2>2. [t.csrs EXCEPT ![Mstatus] = R!mretMstatus(@)] = y
    BY <1>11
  <2>3. QED
    BY <1>6, <1>7, <2>1, <2>2
<1>13. /\ Writes(m, pc, 0, 0) /\ m.mem = s.mem /\ m.addr = None /\ m.sleeping = FALSE /\ m.csrs = x
  <2> DEFINE o == M!Nothing(s, s.csrs[Mepc])
  <2>1. m = [o EXCEPT !.csrs[Mstatus] = M!CsrMask(Mstatus, M!Word(v))]
    BY <1>5, <1>10 DEF M!WriteCsr
  <2>2. M!Word(v) = v
    BY <1>9, SameWords
  <2>3. /\ o.cause = "none" /\ o.pc = pc /\ o.rd = None /\ o.mem = s.mem /\ o.addr = None /\ o.sleeping = FALSE
        /\ o.csrs = s.csrs
    BY <1>7, SameNames, SameWords DEF M!Nothing
  <2>4. m = [o EXCEPT !.csrs[Mstatus] = M!CsrMask(Mstatus, v)]
    BY <2>1, <2>2
  <2>5. o = [cause |-> "none", pc |-> M!Word(s.csrs[Mepc]), rd |-> M!None, wdata |-> M!None,
             addr |-> M!None, rdata |-> M!None, store |-> M!None, mem |-> s.mem, csrs |-> s.csrs,
             sleeping |-> FALSE]
    BY DEF M!Nothing
  <2> HIDE DEF m, o, pc, v
  <2>6. /\ m.cause = "none" /\ m.pc = pc /\ m.rd = None /\ m.mem = s.mem /\ m.addr = None /\ m.sleeping = FALSE
        /\ m.csrs = x
    BY <2>3, <2>4, <2>5
  <2>7. QED
    BY <2>6 DEF Writes
<1>14. GoodCsrs(x) /\ GoodCsrs(y) /\ SameCsrs(x, y)
  <2> HIDE DEF v
  <2>1. LET p == [s.csrs EXCEPT ![Mstatus] = M!CsrMask(Mstatus, v)]
            q == [t.csrs EXCEPT ![Mstatus] = R!Legalized(Mstatus, v)]
        IN  GoodCsrs(p) /\ GoodCsrs(q) /\ SameCsrs(p, q)
    BY <1>4, <1>5, <1>9, CsrWritten
  <2>2. QED
    BY <2>1
<1>15. 0 \in Words /\ 0 \in 0 .. 15
  BY SMT DEF Words
<1> HIDE DEF m, r, pc, x, y
<1>16. r.addr = (IF m.addr = None THEN None ELSE AlignDown(m.addr, 4)) /\ m.sleeping = r.sleeping
  BY <1>12, <1>13
<1>17. OneEffect(s, t, m, r)
  BY <1>4, <1>6, <1>12, <1>13, <1>14, <1>15, <1>16, EffectsAgree
<1>18. QED
  BY <1>17 DEF Agrees, m, r

\* SYSTEM.
LEMMA SystemAgrees ==
  ASSUME XLEN = 32, NEW s, NEW t, Paired(s, t), NEW f \in InsnFields, f.opcode = 115,
         f.funct3 \notin {0, 4} => CsrClear(s, t, f)
  PROVE  Agrees(s, t, f)
<1> DEFINE bits == SystemBits(f)
           old == s.csrs[Mstatus]
           mie == IF Bit(old, 7) = 1 THEN M!MIE ELSE 0
<1>1. s.pc = t.pc /\ s.pc \in Words /\ s.pc % 2 = 0
  BY Operands
<1>2. Decoded(f) = f /\ M!Outcome(s, f) = M!Execute(s, f)
  BY <1>1, AsItStands
<1>3. M!Execute(s, f) = M!ExecuteSystem(s, f)
  BY DEF M!Execute
<1>4. /\ R!isEcall(f) <=> bits = <<0, 0, 0, 0, 0>>
      /\ R!isEbreak(f) <=> bits = <<0, 1, 0, 0, 0>>
      /\ R!isWfi(f) <=> bits = <<8, 5, 0, 0, 0>>
      /\ R!isMret(f) <=> bits = <<24, 2, 0, 0, 0>>
  BY SystemKinds
<1>5. /\ <<0, 0, 0, 0, 0>> # <<0, 1, 0, 0, 0>> /\ <<0, 0, 0, 0, 0>> # <<8, 5, 0, 0, 0>>
      /\ <<0, 0, 0, 0, 0>> # <<24, 2, 0, 0, 0>> /\ <<0, 1, 0, 0, 0>> # <<8, 5, 0, 0, 0>>
      /\ <<0, 1, 0, 0, 0>> # <<24, 2, 0, 0, 0>> /\ <<8, 5, 0, 0, 0>> # <<24, 2, 0, 0, 0>>
  BY SMT
<1>6. /\ bits \in {<<0, 0, 0, 0, 0>>, <<0, 1, 0, 0, 0>>, <<8, 5, 0, 0, 0>>, <<24, 2, 0, 0, 0>>} => f.funct3 = 0
      /\ f.funct3 \in 0 .. 7
  BY DEF SystemBits, InsnFields
<1>7. f.funct3 % 4 # 0 <=> f.funct3 \notin {0, 4}
  BY <1>6, SMT
<1>8. /\ M!Mepc = Mepc /\ M!Mstatus = Mstatus /\ M!Bit(s.csrs[Mstatus], 7) = Bit(s.csrs[Mstatus], 7)
  BY SameNames, SameWords
<1>9. M!ExecuteSystem(s, f) =
        CASE bits = <<0, 0, 0, 0, 0>> -> M!Raise(s, "ecall")
          [] bits = <<0, 1, 0, 0, 0>> -> M!Raise(s, "ebreak")
          [] bits = <<8, 5, 0, 0, 0>> -> [M!Sequential(s) EXCEPT !.sleeping = TRUE]
          [] bits = <<24, 2, 0, 0, 0>> ->
               M!WriteCsr(s, M!Nothing(s, s.csrs[Mepc]), M!Mstatus, mie + M!MPIE + M!MPP)
          [] f.funct3 % 4 # 0 -> M!ExecuteCsr(s, f)
          [] OTHER -> M!Illegal(s)
  BY <1>8, Zenon DEF M!ExecuteSystem, SystemBits
<1>10. CASE R!isEcall(f)
  <2>1. M!Outcome(s, f) = M!Raise(s, "ecall")
    BY <1>2, <1>3, <1>4, <1>5, <1>6, <1>7, <1>9, <1>10
  <2>2. QED
    BY <1>2, <1>10, <2>1, BreakAgrees
<1>11. CASE R!isEbreak(f)
  <2>1. M!Outcome(s, f) = M!Raise(s, "ebreak")
    BY <1>2, <1>3, <1>4, <1>5, <1>6, <1>7, <1>9, <1>11
  <2>2. QED
    BY <1>2, <1>11, <2>1, BreakAgrees
<1>12. CASE R!isWfi(f)
  <2>1. M!Outcome(s, f) = [M!Sequential(s) EXCEPT !.sleeping = TRUE]
    BY <1>2, <1>3, <1>4, <1>5, <1>6, <1>7, <1>9, <1>12
  <2>2. QED
    BY <1>12, <2>1, WfiAgrees
<1>13. CASE R!isMret(f)
  <2>1. M!Outcome(s, f) = M!WriteCsr(s, M!Nothing(s, s.csrs[Mepc]), M!Mstatus, mie + M!MPIE + M!MPP)
    BY <1>2, <1>3, <1>4, <1>5, <1>6, <1>7, <1>9, <1>13
  <2>2. QED
    BY <1>13, <2>1, MretAgrees
<1> DEFINE other == ~(R!isEcall(f) \/ R!isEbreak(f) \/ R!isWfi(f) \/ R!isMret(f))
<1>14. CASE other /\ f.funct3 \notin {0, 4}
  <2>1. M!Outcome(s, f) = M!ExecuteCsr(s, f)
    BY <1>2, <1>3, <1>4, <1>7, <1>9, <1>14
  <2>2. QED
    BY <1>14, <2>1, CsrAgrees
<1>15. CASE other /\ f.funct3 \in {0, 4}
  <2>1. M!Outcome(s, f) = M!Illegal(s)
    BY <1>2, <1>3, <1>4, <1>7, <1>9, <1>15
  <2>2. M!Outcome(s, f).cause \in Illegal
    BY <2>1, ModelTraps DEF Illegal
  <2>3. R!Outcome(t, f).cause \in Illegal
    <3>1. CASE f.funct3 = 0
      <4>1. ~R!execKnown(f)
        BY <1>15, <3>1, KindOpcodes DEF R!execKnown, R!execUsesRd
      <4>2. QED
        BY <1>2, <4>1, RtlIllegal
    <3>2. CASE f.funct3 = 4
      <4>1. R!isCsr(f) /\ f.rd \in 0 .. 31 /\ f.rs1 \in 0 .. 31
        BY <3>2 DEF R!isCsr, InsnFields
      <4>2. QED
        BY <1>2, <3>2, <4>1, RtlCsr
    <3>3. QED
      BY <1>15, <3>1, <3>2
  <2>4. QED
    BY <2>2, <2>3, BothIllegal
<1>16. QED
  BY <1>10, <1>11, <1>12, <1>13, <1>14, <1>15

\* Every 32-bit instruction, in every state.
LEMMA WideAgrees ==
  ASSUME XLEN = 32, NEW s, NEW t, Paired(s, t), NEW f \in InsnFields,
         f.opcode = 115 /\ f.funct3 \notin {0, 4} => CsrClear(s, t, f)
  PROVE  Agrees(s, t, f)
<1>1. CASE f.opcode \in {55, 23}
  BY <1>1, UpperAgrees
<1>2. CASE f.opcode = 111
  BY <1>2, JalAgrees
<1>3. CASE f.opcode = 103
  BY <1>3, JalrAgrees
<1>4. CASE f.opcode = 99
  BY <1>4, BranchAgrees
<1>5. CASE f.opcode = 3
  BY <1>5, LoadAgrees
<1>6. CASE f.opcode = 35
  BY <1>6, StoreAgrees
<1>7. CASE f.opcode \in {19, 51}
  BY <1>7, AluAgrees
<1>8. CASE f.opcode = 115
  BY <1>8, SystemAgrees
<1>9. CASE f.opcode \notin {55, 23, 111, 103, 99, 3, 35, 19, 51, 115}
  BY <1>9, OtherAgrees
<1>10. QED
  BY <1>1, <1>2, <1>3, <1>4, <1>5, <1>6, <1>7, <1>8, <1>9

(***************************************************************************)
(* The compressed instructions: the core expands a parcel and executes     *)
(* the expansion.                                                          *)
(***************************************************************************)
\* The formats of the expansion are those of the encoders, the immediate in range or not.
LEMMA SameFormats ==
  ASSUME NEW x \in Int
  PROVE  /\ \A rs1, k, rd, op : R!IType(x, rs1, k, rd, op) = IType(x, rs1, k, rd, op)
         /\ \A rs2, rs1, k : R!SType(x, rs2, rs1, k, 35) = SType(x, rs2, rs1, k)
         /\ \A rs1, k : R!BType(x, rs1, k) = BType(x, 0, rs1, k)
         /\ \A rd : R!JType(x, rd) = JType(x, rd)
         /\ \A rd : R!UType(x, rd) = UType(x, rd, 55)
<1>1. (x % 4096) \div 32 = Bits(x, 11, 5) /\ x % 32 = Bits(x, 4, 0)
  <2>1. x \div 1 = x
    BY SMT
  <2>2. QED
    BY <2>1, SMT DEF Bits
<1>2. \A a, b, c, d, e, g : R!Fields(a, b, c, d, e, g) = Fields(a, b, c, d, e, g)
  BY DEF R!Fields, Fields
<1>3. 2^12 = 4096 /\ 2^5 = 32
  BY SMT
<1>4. \A rs1, k, rd, op : R!IType(x, rs1, k, rd, op) = IType(x, rs1, k, rd, op)
  BY <1>1, <1>2, <1>3 DEF R!IType, IType
<1>5. \A rs2, rs1, k : R!SType(x, rs2, rs1, k, 35) = SType(x, rs2, rs1, k)
  BY <1>1, <1>2, <1>3 DEF R!SType, SType
<1>6. /\ R!Bits(x % 2^13, 12, 12) = Bits(x, 12, 12)
      /\ R!Bits(x % 2^13, 10, 5) = Bits(x, 10, 5)
      /\ R!Bits(x % 2^13, 4, 1) = Bits(x, 4, 1)
      /\ R!Bits(x % 2^13, 11, 11) = Bits(x, 11, 11)
  <2>1. R!Bits(x % 2^13, 12, 12) = Bits(x, 12, 12)
    <3>1. ((x % 8192) \div 4096) % 2 = (x \div 4096) % 2
      BY SMT
    <3>2. QED
      BY <3>1, SMT DEF R!Bits, Bits
  <2>2. R!Bits(x % 2^13, 10, 5) = Bits(x, 10, 5)
    <3>1. ((x % 8192) \div 32) % 64 = (x \div 32) % 64
      BY SMT
    <3>2. QED
      BY <3>1, SMT DEF R!Bits, Bits
  <2>3. R!Bits(x % 2^13, 4, 1) = Bits(x, 4, 1)
    <3>1. ((x % 8192) \div 2) % 16 = (x \div 2) % 16
      BY SMT
    <3>2. QED
      BY <3>1, SMT DEF R!Bits, Bits
  <2>4. R!Bits(x % 2^13, 11, 11) = Bits(x, 11, 11)
    <3>1. ((x % 8192) \div 2048) % 2 = (x \div 2048) % 2
      BY SMT
    <3>2. QED
      BY <3>1, SMT DEF R!Bits, Bits
  <2>5. QED
    BY <2>1, <2>2, <2>3, <2>4
<1>7. /\ R!Bits(x % 2^21, 20, 20) = Bits(x, 20, 20)
      /\ R!Bits(x % 2^21, 10, 5) = Bits(x, 10, 5)
      /\ R!Bits(x % 2^21, 4, 1) = Bits(x, 4, 1)
      /\ R!Bits(x % 2^21, 11, 11) = Bits(x, 11, 11)
      /\ R!Bits(x % 2^21, 19, 15) = Bits(x, 19, 15)
      /\ R!Bits(x % 2^21, 14, 12) = Bits(x, 14, 12)
  <2>1. R!Bits(x % 2^21, 20, 20) = Bits(x, 20, 20)
    <3>1. ((x % 2097152) \div 1048576) % 2 = (x \div 1048576) % 2
      BY SMT
    <3>2. QED
      BY <3>1, SMT DEF R!Bits, Bits
  <2>2. R!Bits(x % 2^21, 10, 5) = Bits(x, 10, 5)
    <3>1. ((x % 2097152) \div 32) % 64 = (x \div 32) % 64
      BY SMT
    <3>2. QED
      BY <3>1, SMT DEF R!Bits, Bits
  <2>3. R!Bits(x % 2^21, 4, 1) = Bits(x, 4, 1)
    <3>1. ((x % 2097152) \div 2) % 16 = (x \div 2) % 16
      BY SMT
    <3>2. QED
      BY <3>1, SMT DEF R!Bits, Bits
  <2>4. R!Bits(x % 2^21, 11, 11) = Bits(x, 11, 11)
    <3>1. ((x % 2097152) \div 2048) % 2 = (x \div 2048) % 2
      BY SMT
    <3>2. QED
      BY <3>1, SMT DEF R!Bits, Bits
  <2>5. R!Bits(x % 2^21, 19, 15) = Bits(x, 19, 15)
    <3>1. ((x % 2097152) \div 32768) % 32 = (x \div 32768) % 32
      BY SMT
    <3>2. QED
      BY <3>1, SMT DEF R!Bits, Bits
  <2>6. R!Bits(x % 2^21, 14, 12) = Bits(x, 14, 12)
    <3>1. ((x % 2097152) \div 4096) % 8 = (x \div 4096) % 8
      BY SMT
    <3>2. QED
      BY <3>1, SMT DEF R!Bits, Bits
  <2>7. QED
    BY <2>1, <2>2, <2>3, <2>4, <2>5, <2>6
<1>8. /\ R!Bits(x % 2^20, 19, 13) = Bits(x, 19, 13)
      /\ R!Bits(x % 2^20, 12, 8) = Bits(x, 12, 8)
      /\ R!Bits(x % 2^20, 7, 3) = Bits(x, 7, 3)
      /\ R!Bits(x % 2^20, 2, 0) = Bits(x, 2, 0)
  <2>1. R!Bits(x % 2^20, 19, 13) = Bits(x, 19, 13)
    <3>1. ((x % 1048576) \div 8192) % 128 = (x \div 8192) % 128
      BY SMT
    <3>2. QED
      BY <3>1, SMT DEF R!Bits, Bits
  <2>2. R!Bits(x % 2^20, 12, 8) = Bits(x, 12, 8)
    <3>1. ((x % 1048576) \div 256) % 32 = (x \div 256) % 32
      BY SMT
    <3>2. QED
      BY <3>1, SMT DEF R!Bits, Bits
  <2>3. R!Bits(x % 2^20, 7, 3) = Bits(x, 7, 3)
    <3>1. ((x % 1048576) \div 8) % 32 = (x \div 8) % 32
      BY SMT
    <3>2. QED
      BY <3>1, SMT DEF R!Bits, Bits
  <2>4. R!Bits(x % 2^20, 2, 0) = Bits(x, 2, 0)
    <3>1. ((x % 1048576) \div 1) % 8 = (x \div 1) % 8
      BY SMT
    <3>2. QED
      BY <3>1, SMT DEF R!Bits, Bits
  <2>5. QED
    BY <2>1, <2>2, <2>3, <2>4
<1>9. \A y, i : R!Bit(y, i) = R!Bits(y, i, i) /\ Bit(y, i) = Bits(y, i, i)
  BY DEF R!Bit, Bit
<1>10. \A rs1, k : R!BType(x, rs1, k) = BType(x, 0, rs1, k)
  BY <1>2, <1>6, <1>9, Zenon DEF R!BType, BType
<1>11. \A rd : R!JType(x, rd) = JType(x, rd)
  BY <1>2, <1>7, <1>9, Zenon DEF R!JType, JType
<1>12. \A rd : R!UType(x, rd) = UType(x, rd, 55)
  BY <1>2, <1>8, Zenon DEF R!UType, UType
<1>13. QED
  BY <1>4, <1>5, <1>10, <1>11, <1>12

\* The fields of a parcel.
LEMMA SameParcels ==
  ASSUME NEW p
  PROVE  /\ R!cRdRs1(p) = M!RdRs1(p) /\ R!cRs2(p) = M!Rs2C(p) /\ R!cShamt(p) = M!Rs2C(p)
         /\ R!cRdPrime(p) = M!RdPrime(p) /\ R!cRs1Prime(p) = M!Rs1Prime(p)
         /\ R!Bits(p, 15, 13) = M!Funct3C(p)
         /\ R!Bit(p, 12) = M!Bit(p, 12) /\ R!Bits(p, 11, 10) = M!Bits(p, 11, 10) /\ R!Bits(p, 6, 5) = M!Bits(p, 6, 5)
  BY SameWords DEF R!cRdRs1, M!RdRs1, R!cRs2, M!Rs2C, R!cShamt, R!cRdPrime, M!RdPrime, R!cRs1Prime, M!Rs1Prime,
                   M!Funct3C

\* The ranges of the groups of bits of a parcel.
LEMMA Digits ==
  ASSUME NEW p \in Int
  PROVE  /\ M!Bit(p, 2) \in 0 .. 1 /\ M!Bit(p, 5) \in 0 .. 1 /\ M!Bit(p, 6) \in 0 .. 1 /\ M!Bit(p, 7) \in 0 .. 1
         /\ M!Bit(p, 8) \in 0 .. 1 /\ M!Bit(p, 11) \in 0 .. 1 /\ M!Bit(p, 12) \in 0 .. 1
         /\ M!Bits(p, 12, 11) \in 0 .. 3 /\ M!Bits(p, 10, 7) \in 0 .. 15 /\ M!Bits(p, 12, 10) \in 0 .. 7
         /\ M!Bits(p, 3, 2) \in 0 .. 3 /\ M!Bits(p, 6, 4) \in 0 .. 7 /\ M!Bits(p, 8, 7) \in 0 .. 3
         /\ M!Bits(p, 12, 9) \in 0 .. 15 /\ M!Bits(p, 4, 3) \in 0 .. 3 /\ M!Bits(p, 6, 5) \in 0 .. 3
         /\ M!Bits(p, 11, 10) \in 0 .. 3 /\ M!Bits(p, 10, 9) \in 0 .. 3 /\ M!Bits(p, 5, 3) \in 0 .. 7
         /\ M!Bits(p, 6, 2) \in 0 .. 31 /\ M!Bits(p, 11, 7) \in 0 .. 31 /\ M!Bits(p, 4, 2) \in 0 .. 7
         /\ M!Bits(p, 9, 7) \in 0 .. 7 /\ M!Bits(p, 15, 13) \in 0 .. 7
<1>1. /\ M!Bit(p, 2) \in 0 .. 1 /\ M!Bit(p, 5) \in 0 .. 1 /\ M!Bit(p, 6) \in 0 .. 1 /\ M!Bit(p, 7) \in 0 .. 1
      /\ M!Bit(p, 8) \in 0 .. 1 /\ M!Bit(p, 11) \in 0 .. 1 /\ M!Bit(p, 12) \in 0 .. 1
  BY SMT DEF M!Bit, M!Bits
<1>2. /\ M!Bits(p, 12, 11) \in 0 .. 3 /\ M!Bits(p, 10, 7) \in 0 .. 15 /\ M!Bits(p, 12, 10) \in 0 .. 7
      /\ M!Bits(p, 3, 2) \in 0 .. 3 /\ M!Bits(p, 6, 4) \in 0 .. 7 /\ M!Bits(p, 8, 7) \in 0 .. 3
      /\ M!Bits(p, 12, 9) \in 0 .. 15 /\ M!Bits(p, 4, 3) \in 0 .. 3 /\ M!Bits(p, 6, 5) \in 0 .. 3
  BY SMT DEF M!Bits
<1>3. /\ M!Bits(p, 11, 10) \in 0 .. 3 /\ M!Bits(p, 10, 9) \in 0 .. 3 /\ M!Bits(p, 5, 3) \in 0 .. 7
      /\ M!Bits(p, 6, 2) \in 0 .. 31 /\ M!Bits(p, 11, 7) \in 0 .. 31 /\ M!Bits(p, 4, 2) \in 0 .. 7
      /\ M!Bits(p, 9, 7) \in 0 .. 7 /\ M!Bits(p, 15, 13) \in 0 .. 7
  BY SMT DEF M!Bits
<1>4. QED
  BY <1>1, <1>2, <1>3

\* The fields of a parcel in both decoders.
LEMMA ParcelFields ==
  ASSUME NEW p \in Int
  PROVE  /\ M!RdRs1(p) \in 0 .. 31 /\ M!Rs2C(p) \in 0 .. 31 /\ M!RdPrime(p) \in 8 .. 15 /\ M!Rs1Prime(p) \in 8 .. 15
         /\ M!Funct3C(p) \in 0 .. 7
  BY Digits DEF M!RdRs1, M!Rs2C, M!RdPrime, M!Rs1Prime, M!Funct3C

\* The immediates of a parcel.
LEMMA ParcelImmediates ==
  ASSUME NEW p \in Int
  PROVE  /\ M!CImm6(p) \in -32 .. 31 /\ M!CAddi4spnImm(p) \in 0 .. 1023 /\ M!CLwImm(p) \in 0 .. 127
         /\ M!CLwspImm(p) \in 0 .. 255 /\ M!CSwspImm(p) \in 0 .. 255 /\ M!CAddi16spImm(p) \in -512 .. 511
         /\ M!CBranchImm(p) \in -256 .. 255 /\ M!CBranchImm(p) % 2 = 0
         /\ M!CJumpImm(p) \in -2048 .. 2047 /\ M!CJumpImm(p) % 2 = 0
<1>1. /\ M!Bit(p, 2) \in 0 .. 1 /\ M!Bit(p, 5) \in 0 .. 1 /\ M!Bit(p, 6) \in 0 .. 1 /\ M!Bit(p, 7) \in 0 .. 1
      /\ M!Bit(p, 8) \in 0 .. 1 /\ M!Bit(p, 11) \in 0 .. 1 /\ M!Bit(p, 12) \in 0 .. 1
      /\ M!Bits(p, 12, 11) \in 0 .. 3 /\ M!Bits(p, 10, 7) \in 0 .. 15 /\ M!Bits(p, 12, 10) \in 0 .. 7
      /\ M!Bits(p, 3, 2) \in 0 .. 3 /\ M!Bits(p, 6, 4) \in 0 .. 7 /\ M!Bits(p, 8, 7) \in 0 .. 3
      /\ M!Bits(p, 12, 9) \in 0 .. 15 /\ M!Bits(p, 4, 3) \in 0 .. 3 /\ M!Bits(p, 6, 5) \in 0 .. 3
      /\ M!Bits(p, 11, 10) \in 0 .. 3 /\ M!Bits(p, 10, 9) \in 0 .. 3 /\ M!Bits(p, 5, 3) \in 0 .. 7
      /\ M!Bits(p, 6, 2) \in 0 .. 31
  BY Digits
<1>2. \A y \in Int : M!Sext(y, 6) \in -32 .. 31
  BY SMT DEF M!Sext, M!Bit, M!Bits
<1>3. \A y \in Int : M!Sext(y, 10) \in -512 .. 511
  BY SMT DEF M!Sext, M!Bit, M!Bits
<1>4. \A y \in Int : M!Sext(y, 9) \in -256 .. 255 /\ (y % 2 = 0 => M!Sext(y, 9) % 2 = 0)
  BY SMT DEF M!Sext, M!Bit, M!Bits
<1> DEFINE Offset(z) == z \in -2048 .. 2047 /\ z % 2 = 0
<1>5. \A y \in Int : y % 2 = 0 => Offset(M!Sext(y, 12))
  BY SMT DEF M!Sext, M!Bit, M!Bits
<1>6. M!CImm6(p) \in -32 .. 31
  BY <1>1, <1>2, SMT DEF M!CImm6
<1>7. M!CAddi4spnImm(p) \in 0 .. 1023
  BY <1>1, SMT DEF M!CAddi4spnImm
<1>8. M!CLwImm(p) \in 0 .. 127
  BY <1>1, SMT DEF M!CLwImm
<1>9. M!CLwspImm(p) \in 0 .. 255 /\ M!CSwspImm(p) \in 0 .. 255
  BY <1>1, SMT DEF M!CLwspImm, M!CSwspImm
<1>10. M!CAddi16spImm(p) \in -512 .. 511
  <2> DEFINE y == M!Bit(p, 12) * 2^9 + M!Bits(p, 4, 3) * 2^7 + M!Bit(p, 5) * 2^6 + M!Bit(p, 2) * 2^5
                    + M!Bit(p, 6) * 2^4
  <2>1. y \in Int
    BY <1>1, SMT
  <2> HIDE DEF y
  <2>2. M!Sext(y, 10) \in -512 .. 511
    BY <1>3, <2>1, Zenon
  <2>3. QED
    BY <2>2, Zenon DEF M!CAddi16spImm, y
<1>11. M!CBranchImm(p) \in -256 .. 255 /\ M!CBranchImm(p) % 2 = 0
  <2> DEFINE y == M!Bit(p, 12) * 2^8 + M!Bits(p, 6, 5) * 2^6 + M!Bits(p, 11, 10) * 2^3 + M!Bits(p, 4, 3) * 2
                    + M!Bit(p, 2) * 2^5
  <2>1. y \in Int /\ y % 2 = 0
    BY <1>1, SMT
  <2> HIDE DEF y
  <2>2. M!Sext(y, 9) \in -256 .. 255 /\ M!Sext(y, 9) % 2 = 0
    BY <1>4, <2>1, Zenon
  <2>3. QED
    BY <2>2 DEF M!CBranchImm, y
<1>12. Offset(M!CJumpImm(p))
  <2> DEFINE y == M!Bit(p, 12) * 2^11 + M!Bit(p, 11) * 2^4 + M!Bits(p, 10, 9) * 2^8 + M!Bit(p, 8) * 2^10
                    + M!Bit(p, 7) * 2^6 + M!Bit(p, 6) * 2^7 + M!Bits(p, 5, 3) * 2 + M!Bit(p, 2) * 2^5
  <2>1. y \in Int /\ y % 2 = 0
    BY <1>1, SMT
  <2> HIDE DEF y, Offset
  <2>2. Offset(M!Sext(y, 12))
    BY <1>5, <2>1, Zenon
  <2>3. QED
    BY <2>2, Zenon DEF M!CJumpImm, y
<1>13. QED
  BY <1>6, <1>7, <1>8, <1>9, <1>10, <1>11, <1>12

\* A parcel is executed by its quadrant, and expanded by it.
LEMMA AsParcel ==
  ASSUME NEW s, s.pc % 2 = 0, NEW p
  PROVE  /\ M!Outcome(s, Parcel(p)) = M!ExecuteCompressed(s, p) /\ Decoded(Parcel(p)) = R!DecodeRvc(p)
         /\ Parcel(p).len = 2 /\ Parcel(p).len \in {2, 4}
         /\ M!SequentialC(s) = M!Nothing(s, s.pc + 2)
  BY DEF M!Outcome, Decoded, Parcel, M!SequentialC

\* The fields an expansion has in each format.
IsI(f, x, rs1, k, rd, op) ==
  f \in InsnFields /\ f.opcode = op /\ f.funct3 = k /\ f.rd = rd /\ f.rs1 = rs1 /\ M!ImmI(f) = x
IsS(f, x, rs2, rs1, k) ==
  f \in InsnFields /\ f.opcode = 35 /\ f.funct3 = k /\ f.rs1 = rs1 /\ f.rs2 = rs2 /\ M!ImmS(f) = x
IsB(f, x, rs1, k) ==
  f \in InsnFields /\ f.opcode = 99 /\ f.funct3 = k /\ f.rs1 = rs1 /\ f.rs2 = 0 /\ M!ImmB(f) = x
IsJ(f, x, rd) == f \in InsnFields /\ f.opcode = 111 /\ f.rd = rd /\ M!ImmJ(f) = x
IsR(f, funct7, rs2, rs1, k, rd, op) ==
  /\ f \in InsnFields /\ f.opcode = op /\ f.funct3 = k /\ f.rd = rd /\ f.rs1 = rs1 /\ f.rs2 = rs2
  /\ f.funct7 = funct7

\* What the encoders cut out of an immediate fits its field.
LEMMA FieldRanges ==
  ASSUME NEW x \in Int
  PROVE  /\ Bits(x, 11, 5) \in 0 .. 127 /\ Bits(x, 4, 0) \in 0 .. 31
         /\ Bit(x, 12) * 2^6 + Bits(x, 10, 5) \in 0 .. 127 /\ Bits(x, 4, 1) * 2 + Bit(x, 11) \in 0 .. 31
         /\ Bit(x, 20) * 2^6 + Bits(x, 10, 5) \in 0 .. 127
         /\ Bits(x, 19, 15) \in 0 .. 31 /\ Bits(x, 14, 12) \in 0 .. 7
         /\ Bits(x, 19, 13) \in 0 .. 127 /\ Bits(x, 12, 8) \in 0 .. 31 /\ Bits(x, 7, 3) \in 0 .. 31
         /\ Bits(x, 2, 0) \in 0 .. 7
<1>1. \A n \in {1, 2, 8, 16, 32, 64, 256, 2048, 4096, 8192, 32768, 1048576} : x \div n \in Int
  BY SMT
<1>2. \A y \in Int : y % 2 \in 0 .. 1 /\ y % 8 \in 0 .. 7 /\ y % 16 \in 0 .. 15 /\ y % 32 \in 0 .. 31
                     /\ y % 64 \in 0 .. 63 /\ y % 128 \in 0 .. 127
  BY SMT
<1>3. /\ 2^0 = 1 /\ 2^1 = 2 /\ 2^3 = 8 /\ 2^4 = 16 /\ 2^5 = 32 /\ 2^6 = 64 /\ 2^7 = 128 /\ 2^8 = 256
      /\ 2^11 = 2048 /\ 2^12 = 4096 /\ 2^13 = 8192 /\ 2^15 = 32768 /\ 2^20 = 1048576
  BY SMT
<1>4. Bits(x, 11, 5) \in 0 .. 127 /\ Bits(x, 4, 0) \in 0 .. 31 /\ Bits(x, 10, 5) \in 0 .. 63
  BY <1>1, <1>2, <1>3, SMT DEF Bits
<1>5. Bit(x, 12) \in 0 .. 1 /\ Bit(x, 20) \in 0 .. 1 /\ Bit(x, 11) \in 0 .. 1 /\ Bits(x, 4, 1) \in 0 .. 15
  BY <1>1, <1>2, <1>3, SMT DEF Bits, Bit
<1>6. Bits(x, 19, 15) \in 0 .. 31 /\ Bits(x, 14, 12) \in 0 .. 7 /\ Bits(x, 19, 13) \in 0 .. 127
  BY <1>1, <1>2, <1>3, SMT DEF Bits
<1>7. Bits(x, 12, 8) \in 0 .. 31 /\ Bits(x, 7, 3) \in 0 .. 31 /\ Bits(x, 2, 0) \in 0 .. 7
  BY <1>1, <1>2, <1>3, SMT DEF Bits
<1>8. /\ Bit(x, 12) * 2^6 + Bits(x, 10, 5) \in 0 .. 127 /\ Bits(x, 4, 1) * 2 + Bit(x, 11) \in 0 .. 31
      /\ Bit(x, 20) * 2^6 + Bits(x, 10, 5) \in 0 .. 127
  BY <1>3, <1>4, <1>5, SMT
<1>9. QED
  BY <1>4, <1>6, <1>7, <1>8

\* An offset of 12 bits, and one of an even number of halfwords.
Imm12(x) == x \in Int /\ -2048 <= x /\ x <= 2047
Even12(x) == Imm12(x) /\ x % 2 = 0

\* The immediates of the compressed formats fit those they are expanded to.
LEMMA ParcelOffsets ==
  ASSUME NEW p \in Int
  PROVE  /\ Imm12(M!CImm6(p)) /\ Imm12(M!CAddi4spnImm(p)) /\ Imm12(M!CLwImm(p)) /\ Imm12(M!CLwspImm(p))
         /\ Imm12(M!CSwspImm(p)) /\ Imm12(M!CAddi16spImm(p)) /\ Even12(M!CBranchImm(p)) /\ Even12(M!CJumpImm(p))
<1>1. /\ M!CImm6(p) \in -32 .. 31 /\ M!CAddi4spnImm(p) \in 0 .. 1023 /\ M!CLwImm(p) \in 0 .. 127
      /\ M!CLwspImm(p) \in 0 .. 255 /\ M!CSwspImm(p) \in 0 .. 255 /\ M!CAddi16spImm(p) \in -512 .. 511
      /\ M!CBranchImm(p) \in -256 .. 255 /\ M!CBranchImm(p) % 2 = 0
      /\ M!CJumpImm(p) \in -2048 .. 2047 /\ M!CJumpImm(p) % 2 = 0
  BY ParcelImmediates, SMTT(30)
<1>2. Imm12(M!CImm6(p))
  <2>1. M!CImm6(p) \in -32 .. 31
    BY <1>1
  <2>2. QED
    BY <2>1, SMT DEF Imm12
<1>3. Imm12(M!CAddi4spnImm(p))
  <2>1. M!CAddi4spnImm(p) \in 0 .. 1023
    BY <1>1
  <2>2. QED
    BY <2>1, SMT DEF Imm12
<1>4. Imm12(M!CLwImm(p))
  <2>1. M!CLwImm(p) \in 0 .. 127
    BY <1>1
  <2>2. QED
    BY <2>1, SMT DEF Imm12
<1>5. Imm12(M!CLwspImm(p))
  <2>1. M!CLwspImm(p) \in 0 .. 255
    BY <1>1
  <2>2. QED
    BY <2>1, SMT DEF Imm12
<1>6. Imm12(M!CSwspImm(p))
  <2>1. M!CSwspImm(p) \in 0 .. 255
    BY <1>1
  <2>2. QED
    BY <2>1, SMT DEF Imm12
<1>7. Imm12(M!CAddi16spImm(p))
  <2>1. M!CAddi16spImm(p) \in -512 .. 511
    BY <1>1
  <2>2. QED
    BY <2>1, SMT DEF Imm12
<1>8. Even12(M!CBranchImm(p))
  <2>1. M!CBranchImm(p) \in -256 .. 255
    BY <1>1
  <2>2. Imm12(M!CBranchImm(p))
    BY <2>1, SMT DEF Imm12
  <2>3. M!CBranchImm(p) % 2 = 0
    BY <1>1
  <2>4. QED
    BY <2>2, <2>3, Zenon DEF Even12
<1>9. Even12(M!CJumpImm(p))
  <2>1. M!CJumpImm(p) \in -2048 .. 2047
    BY <1>1
  <2>2. Imm12(M!CJumpImm(p))
    <3> DEFINE x == M!CJumpImm(p)
    <3>1. x \in -2048 .. 2047
      BY <2>1
    <3> HIDE DEF x
    <3>2. Imm12(x)
      BY <3>1, SMT DEF Imm12
    <3>3. QED
      BY <3>2 DEF x
  <2>3. M!CJumpImm(p) % 2 = 0
    BY <1>1
  <2>4. QED
    BY <2>2, <2>3, Zenon DEF Even12
<1>10. QED
  BY <1>2, <1>3, <1>4, <1>5, <1>6, <1>7, <1>8, <1>9, Zenon

\* The decoder expands to an I-type instruction whose immediate it is given.
LEMMA ExpandedI ==
  ASSUME XLEN = 32, NEW x, Imm12(x), NEW rs1 \in 0 .. 31, NEW k \in 0 .. 7,
         NEW rd \in 0 .. 31, NEW op \in 0 .. 127
  PROVE  IsI(R!IType(x, rs1, k, rd, op), x, rs1, k, rd, op)
<1> DEFINE f == IType(x, rs1, k, rd, op)
<1>1. x \in Int /\ -2048 <= x /\ x <= 2047
  BY SMT DEF Imm12
<1>2. R!IType(x, rs1, k, rd, op) = f
  BY <1>1, SameFormats
<1>3. M!ImmI(f) = x
  BY <1>1, FormatI
<1>4. f \in InsnFields /\ f.opcode = op /\ f.funct3 = k /\ f.rd = rd /\ f.rs1 = rs1
  BY <1>1, FieldRanges DEF IType, Fields, InsnFields
<1> HIDE DEF f
<1>5. QED
  BY <1>2, <1>3, <1>4 DEF IsI

\* So for an S-type instruction.
LEMMA ExpandedS ==
  ASSUME XLEN = 32, NEW x, Imm12(x), NEW rs2 \in 0 .. 31, NEW rs1 \in 0 .. 31, NEW k \in 0 .. 7
  PROVE  IsS(R!SType(x, rs2, rs1, k, 35), x, rs2, rs1, k)
<1> DEFINE f == SType(x, rs2, rs1, k)
<1>1. x \in Int /\ -2048 <= x /\ x <= 2047
  BY SMT DEF Imm12
<1>2. R!SType(x, rs2, rs1, k, 35) = f
  BY <1>1, SameFormats
<1>3. M!ImmS(f) = x
  BY <1>1, FormatS
<1>4. f \in InsnFields /\ f.opcode = 35 /\ f.funct3 = k /\ f.rs1 = rs1 /\ f.rs2 = rs2
  BY <1>1, FieldRanges DEF SType, Fields, InsnFields
<1> HIDE DEF f
<1>5. QED
  BY <1>2, <1>3, <1>4 DEF IsS

\* So for a branch.
LEMMA ExpandedB ==
  ASSUME XLEN = 32, NEW x, Even12(x), NEW rs1 \in 0 .. 31, NEW k \in 0 .. 7
  PROVE  IsB(R!BType(x, rs1, k), x, rs1, k)
<1> DEFINE f == BType(x, 0, rs1, k)
<1>1. x \in Int /\ -4096 <= x /\ x <= 4095 /\ x % 2 = 0
  BY SMT DEF Even12, Imm12
<1>2. R!BType(x, rs1, k) = f
  BY <1>1, SameFormats
<1>3. M!ImmB(f) = x
  BY <1>1, FormatB
<1>4. f \in InsnFields /\ f.opcode = 99 /\ f.funct3 = k /\ f.rs1 = rs1 /\ f.rs2 = 0
  BY <1>1, FieldRanges DEF BType, Fields, InsnFields
<1> HIDE DEF f
<1>5. QED
  BY <1>2, <1>3, <1>4 DEF IsB

\* So for a jump.
LEMMA ExpandedJ ==
  ASSUME XLEN = 32, NEW x, Even12(x), NEW rd \in 0 .. 31
  PROVE  IsJ(R!JType(x, rd), x, rd)
<1> DEFINE f == JType(x, rd)
<1>1. x \in Int /\ -1048576 <= x /\ x <= 1048575 /\ x % 2 = 0
  BY SMT DEF Even12, Imm12
<1>2. R!JType(x, rd) = f
  BY <1>1, SameFormats
<1>3. M!ImmJ(f) = x
  BY <1>1, FormatJ
<1>4. f \in InsnFields /\ f.opcode = 111 /\ f.rd = rd
  BY <1>1, FieldRanges DEF JType, Fields, InsnFields
<1> HIDE DEF f
<1>5. QED
  BY <1>2, <1>3, <1>4 DEF IsJ

\* So for an R-type instruction.
LEMMA ExpandedR ==
  ASSUME NEW funct7 \in 0 .. 127, NEW rs2 \in 0 .. 31, NEW rs1 \in 0 .. 31, NEW k \in 0 .. 7, NEW rd \in 0 .. 31,
         NEW op \in 0 .. 127
  PROVE  IsR(R!Fields(funct7, rs2, rs1, k, rd, op), funct7, rs2, rs1, k, rd, op)
  BY DEF R!Fields, InsnFields, IsR

\* What is not expanded traps.
LEMMA ZeroTraps ==
  ASSUME NEW t, NEW insn, Decoded(insn) = R!Zero
  PROVE  R!Outcome(t, insn).cause \in Illegal
<1>1. R!Zero.opcode = 0
  BY DEF R!Zero, R!Fields
<1>2. ~R!execKnown(R!Zero)
  BY <1>1, KindOpcodes DEF R!execKnown, R!execUsesRd
<1>3. QED
  BY <1>2, RtlIllegal

\* The upper immediate of an expansion.
LEMMA ExpandedU ==
  ASSUME XLEN = 32, NEW x \in Int, NEW rd \in 0 .. 31
  PROVE  LET f == R!UType(x, rd)
         IN  f \in InsnFields /\ f.opcode = 55 /\ f.rd = rd /\ R!upperImm(f) = Word(x * 2^12)
<1> DEFINE f == UType(x, rd, 55)
           a == Bits(x, 19, 13)
           b == Bits(x, 12, 8)
           c == Bits(x, 7, 3)
           d == Bits(x, 2, 0)
<1>1. R!UType(x, rd) = f
  BY SameFormats
<1>2. f \in InsnFields /\ f.opcode = 55 /\ f.rd = rd
  BY FieldRanges DEF UType, Fields, InsnFields
<1>3. R!upperImm(f) = Shl(a * 2^13 + b * 2^8 + c * 2^3 + d, 12)
  BY SameShifts DEF R!upperImm, UType, Fields
<1>4. a = (x \div 8192) % 128 /\ b = (x \div 256) % 32 /\ c = (x \div 8) % 32 /\ d = x % 8
  <2>1. x \div 1 = x
    BY SMT
  <2>2. QED
    BY <2>1, SMT DEF Bits
<1>5. x = 8 * (x \div 8) + d
  BY <1>4, SMT
<1>6. x \div 8 = 32 * (x \div 256) + c
  <2>1. x \div 256 = (x \div 8) \div 32
    BY SMT
  <2>2. QED
    BY <1>4, <2>1, SMT
<1>7. x \div 256 = 32 * (x \div 8192) + b
  <2>1. x \div 8192 = (x \div 256) \div 32
    BY SMT
  <2>2. QED
    BY <1>4, <2>1, SMT
<1>8. x \div 8192 = 128 * (x \div 1048576) + a
  <2>1. x \div 1048576 = (x \div 8192) \div 128
    BY SMT
  <2>2. QED
    BY <1>4, <2>1, SMT
<1>9. a * 8192 + b * 256 + c * 8 + d = x % 1048576
  <2>1. x = 1048576 * (x \div 1048576) + (x % 1048576)
    BY SMT
  <2>2. a \in Int /\ b \in Int /\ c \in Int /\ d \in Int
    BY FieldRanges
  <2>3. QED
    <3> DEFINE h == x \div 1048576
               q == x \div 8192
               m == x \div 256
               n == x \div 8
               l == x % 1048576
    <3>1. h \in Int /\ q \in Int /\ m \in Int /\ n \in Int /\ l \in Int
      BY SMT
    <3>2. x = 8 * n + d /\ n = 32 * m + c /\ m = 32 * q + b /\ q = 128 * h + a /\ x = 1048576 * h + l
      BY <1>5, <1>6, <1>7, <1>8, <2>1
    <3> HIDE DEF h, q, m, n, l, a, b, c, d
    <3>3. a * 8192 + b * 256 + c * 8 + d = l
      BY <2>2, <3>1, <3>2, SMT
    <3>4. QED
      BY <3>3 DEF l
<1>10. Shl(a * 2^13 + b * 2^8 + c * 2^3 + d, 12) = (x % 1048576) * 4096
  <2> DEFINE y == a * 2^13 + b * 2^8 + c * 2^3 + d
  <2>1. 2^13 = 8192 /\ 2^8 = 256 /\ 2^3 = 8
    BY SMT
  <2>2. y = x % 1048576
    BY <1>9, <2>1
  <2> HIDE DEF y
  <2>3. Shl(y, 12) = (y % 1048576) * 4096
    BY SMT DEF Shl
  <2>4. y % 1048576 = y
    BY <2>2, SMT
  <2>5. Shl(y, 12) = (x % 1048576) * 4096
    BY <2>2, <2>3, <2>4
  <2>6. QED
    BY <2>5 DEF y
<1>11. Word(x * 2^12) = (x % 1048576) * 4096
  <2>1. (x * 4096) % 4294967296 = (x % 1048576) * 4096
    BY SMTT(30)
  <2>2. QED
    BY <2>1, SMT DEF Word
<1> HIDE DEF f, a, b, c, d
<1>12. QED
  BY <1>1, <1>2, <1>3, <1>10, <1>11

\* An instruction of the model that writes a register, and one that only goes on, against a
\* core that writes.
LEMMA WritesAgree ==
  ASSUME XLEN = 32, NEW s, NEW t, Paired(s, t), NEW insn, NEW pc, Word(pc) \in Words, Word(pc) % 2 = 0,
         NEW rd \in 0 .. 15, NEW x, Word(x) \in Words,
         M!Outcome(s, insn) = M!WriteReg(s, M!Nothing(s, pc), rd, x),
         Plain(R!Outcome(t, insn), t, Word(pc), rd, Word(x))
  PROVE  Agrees(s, t, insn)
<1>1. Plain(M!Outcome(s, insn), s, Word(pc), rd, Word(x))
  BY ModelWrites
<1>2. OneEffect(s, t, M!Outcome(s, insn), R!Outcome(t, insn))
  BY <1>1, PlainAgrees DEF Paired
<1>3. QED
  BY <1>2 DEF Agrees

\* A parcel that writes nothing on both sides.
LEMMA StaysAgree ==
  ASSUME XLEN = 32, NEW s, NEW t, Paired(s, t), NEW insn, NEW pc, Word(pc) \in Words, Word(pc) % 2 = 0,
         NEW rd \in 0 .. 15, NEW v \in Words, rd = 0 \/ v = s.regs[rd],
         M!Outcome(s, insn) = M!Nothing(s, pc),
         Plain(R!Outcome(t, insn), t, Word(pc), rd, v)
  PROVE  Agrees(s, t, insn)
<1>1. Plain(M!Outcome(s, insn), s, Word(pc), 0, v)
  BY ModelStays
<1>2. OneEffect(s, t, M!Outcome(s, insn), R!Outcome(t, insn))
  BY <1>1, PlainAgrees DEF Paired
<1>3. QED
  BY <1>2 DEF Agrees

\* Both sides find a register of the upper half.
LEMMA HighAgrees ==
  ASSUME NEW s, NEW t, NEW insn, NEW f, f = Decoded(insn), M!Outcome(s, insn) = M!HighRegister(s),
         R!execKnown(f), R!regAccessIllegal(f), f.opcode \in {55, 23, 111, 103, 99, 19, 51}
  PROVE  Agrees(s, t, insn)
<1>1. R!Outcome(t, insn).cause \in Illegal
  BY RtlIllegal
<1>2. M!Outcome(s, insn).cause \in Illegal
  BY ModelTraps DEF Illegal
<1>3. QED
  BY <1>1, <1>2, BothIllegal

\* An addition of an immediate on the core.
LEMMA RtlAdds ==
  ASSUME XLEN = 32, NEW s, NEW t, Paired(s, t), NEW insn, insn.len = 2, NEW f, f = Decoded(insn), NEW x \in Int,
         NEW rs1 \in 0 .. 15, NEW rd \in 0 .. 15, IsI(f, x, rs1, 0, rd, 19)
  PROVE  Plain(R!Outcome(t, insn), t, Word(s.pc + 2), rd, Word(M!ReadReg(s, rs1) + x))
<1>1. f \in InsnFields /\ f.opcode = 19 /\ f.funct3 = 0 /\ f.rd = rd /\ f.rs1 = rs1 /\ M!ImmI(f) = x
  BY DEF IsI
<1>2. R!isAluImm(f) /\ insn.len \in {2, 4}
  BY <1>1 DEF R!isAluImm
<1>3. Plain(R!Outcome(t, insn), t, Word(s.pc + insn.len), f.rd, AluValue(s, f))
  BY <1>1, <1>2, RtlAlu
<1>4. AluRight(s, f) = Word(x) /\ AluMinus(f) = FALSE
  BY <1>1 DEF AluRight, AluMinus
<1>5. AluValue(s, f) = Word(M!ReadReg(s, rs1) + Word(x))
  BY <1>1, <1>4 DEF AluValue, AluOf
<1>6. M!ReadReg(s, rs1) \in Words
  BY Operands
<1>7. Word(M!ReadReg(s, rs1) + Word(x)) = Word(M!ReadReg(s, rs1) + x)
  BY <1>6, WordSums
<1>8. QED
  BY <1>1, <1>3, <1>5, <1>7

\* Quadrant 0.
LEMMA Expanded0 ==
  ASSUME NEW p \in Int, p % 4 = 0
  PROVE  Decoded(Parcel(p)) =
           CASE M!Funct3C(p) = 0 /\ M!CAddi4spnImm(p) # 0 -> R!IType(M!CAddi4spnImm(p), 2, 0, M!RdPrime(p), 19)
             [] M!Funct3C(p) = 2 -> R!IType(M!CLwImm(p), M!Rs1Prime(p), 2, M!RdPrime(p), 3)
             [] M!Funct3C(p) = 6 -> R!SType(M!CLwImm(p), M!RdPrime(p), M!Rs1Prime(p), 2, 35)
             [] OTHER -> R!Zero
<1>1. Decoded(Parcel(p)) = R!DecodeRvc(p)
  BY DEF Decoded, Parcel
<1>2. R!DecodeRvc(p) = R!Quadrant0(p)
  BY SMT DEF R!DecodeRvc
<1>3. /\ R!cRdPrime(p) = M!RdPrime(p) /\ R!cRs1Prime(p) = M!Rs1Prime(p) /\ R!Bits(p, 15, 13) = M!Funct3C(p)
  BY SameParcels
<1>4. R!cAddi4spnImm(p) = M!CAddi4spnImm(p) /\ R!cLwImm(p) = M!CLwImm(p)
  BY SameAddi4spn, SameLw
<1>5. QED
  BY <1>1, <1>2, <1>3, <1>4, Zenon DEF R!Quadrant0

\* The loads and stores of a parcel.
LEMMA ParcelLoads ==
  ASSUME XLEN = 32, NEW s, NEW t, Paired(s, t), NEW insn, insn.len = 2, NEW f, f = Decoded(insn),
         NEW y \in Int, NEW rs1 \in 0 .. 15, NEW rd \in 0 .. 15, IsI(f, y, rs1, 2, rd, 3),
         M!Outcome(s, insn) = M!LoadData(s, M!Nothing(s, s.pc + 2), rd, M!Word(M!ReadReg(s, rs1) + y), 4, TRUE)
  PROVE  Agrees(s, t, insn)
<1>1. f \in InsnFields /\ f.opcode = 3 /\ f.funct3 = 2 /\ f.rd = rd /\ f.rs1 = rs1 /\ M!ImmI(f) = y
  BY DEF IsI
<1>2. R!isLoad(f) /\ f.rd \in 0 .. 15 /\ f.rs1 \in 0 .. 15
  BY <1>1 DEF R!isLoad
<1>3. Size(f) = 4 /\ (f.funct3 < 4) = TRUE
  BY <1>1, Sizes DEF Size
<1>4. LoadAddr(s, f) = M!Word(M!ReadReg(s, rs1) + y)
  BY <1>1, SameWords DEF LoadAddr
<1>5. M!Outcome(s, insn) =
        M!LoadData(s, M!Nothing(s, s.pc + insn.len), f.rd, LoadAddr(s, f), Size(f), f.funct3 < 4)
  BY <1>1, <1>3, <1>4
<1>6. f \in InsnFields /\ insn.len \in {2, 4}
  BY <1>1
<1>7. QED
  BY <1>2, <1>5, <1>6, LoadsAgree

\* A compressed store.
LEMMA ParcelStores ==
  ASSUME XLEN = 32, NEW s, NEW t, Paired(s, t), NEW insn, insn.len = 2, NEW f, f = Decoded(insn),
         NEW y \in Int, NEW rs1 \in 0 .. 15, NEW rs2 \in 0 .. 15, IsS(f, y, rs2, rs1, 2),
         M!Outcome(s, insn) =
           M!StoreData(s, M!Nothing(s, s.pc + 2), M!Word(M!ReadReg(s, rs1) + y), 4, M!ReadReg(s, rs2))
  PROVE  Agrees(s, t, insn)
<1>1. f \in InsnFields /\ f.opcode = 35 /\ f.funct3 = 2 /\ f.rs1 = rs1 /\ f.rs2 = rs2 /\ M!ImmS(f) = y
  BY DEF IsS
<1>2. R!isStore(f) /\ f.rs2 \in 0 .. 15 /\ f.rs1 \in 0 .. 15
  BY <1>1 DEF R!isStore
<1>3. 2^f.funct3 = 4
  BY <1>1, SMT
<1>4. StoreAddr(s, f) = M!Word(M!ReadReg(s, rs1) + y)
  BY <1>1, SameWords DEF StoreAddr
<1>5. M!Outcome(s, insn) =
        M!StoreData(s, M!Nothing(s, s.pc + insn.len), StoreAddr(s, f), 2^f.funct3, M!ReadReg(s, f.rs2))
  BY <1>1, <1>3, <1>4
<1>6. f \in InsnFields /\ insn.len \in {2, 4}
  BY <1>1
<1>7. QED
  BY <1>2, <1>5, <1>6, StoresAgree

\* Both sides find an illegal parcel.
LEMMA ParcelIllegal ==
  ASSUME NEW s, NEW t, NEW insn, Decoded(insn) = R!Zero,
         M!Outcome(s, insn) = M!Illegal(s) \/ M!Outcome(s, insn) = M!Unsupported(s)
  PROVE  Agrees(s, t, insn)
<1>1. R!Outcome(t, insn).cause \in Illegal
  BY ZeroTraps
<1>2. M!Outcome(s, insn).cause \in Illegal
  BY ModelTraps DEF Illegal
<1>3. QED
  BY <1>1, <1>2, BothIllegal

\* Every parcel of quadrant 0.
LEMMA Quadrant0Agrees ==
  ASSUME XLEN = 32, NEW s, NEW t, Paired(s, t), NEW p \in Int, p % 4 = 0
  PROVE  Agrees(s, t, Parcel(p))
<1> DEFINE insn == Parcel(p)
           f == Decoded(insn)
           k == M!Funct3C(p)
           x == M!CAddi4spnImm(p)
           y == M!CLwImm(p)
           rd == M!RdPrime(p)
           rs1 == M!Rs1Prime(p)
           next == M!Nothing(s, s.pc + 2)
           base == M!Word(M!ReadReg(s, rs1) + y)
<1>1. s.pc % 2 = 0
  BY Operands
<1>2. M!Outcome(s, insn) = M!ExecuteCompressed(s, p) /\ insn.len = 2 /\ M!SequentialC(s) = next
  BY <1>1, AsParcel
<1>3. M!ExecuteCompressed(s, p) = IF p = 0 THEN M!Illegal(s) ELSE M!CompressedQ0(s, p)
  BY SMT DEF M!ExecuteCompressed
<1>4. M!CompressedQ0(s, p) =
        CASE k = 0 -> IF x = 0 THEN M!Illegal(s) ELSE M!WriteReg(s, next, rd, M!ReadReg(s, 2) + x)
          [] k = 2 -> M!LoadData(s, next, rd, base, 4, TRUE)
          [] k = 6 -> M!StoreData(s, next, base, 4, M!ReadReg(s, rd))
          [] k = 4 -> M!Illegal(s)
          [] OTHER -> M!Unsupported(s)
  BY <1>2, Zenon DEF M!CompressedQ0
<1>5. f = CASE k = 0 /\ x # 0 -> R!IType(x, 2, 0, rd, 19)
            [] k = 2 -> R!IType(y, rs1, 2, rd, 3)
            [] k = 6 -> R!SType(y, rd, rs1, 2, 35)
            [] OTHER -> R!Zero
  BY Expanded0
<1>6. Imm12(x) /\ Imm12(y)
  BY ParcelOffsets
<1>7. k \in 0 .. 7 /\ rd \in 8 .. 15 /\ rs1 \in 8 .. 15
  BY ParcelFields
<1>8. p = 0 => k = 0 /\ x = 0
  BY SMT DEF M!Funct3C, M!CAddi4spnImm, M!Bits, M!Bit
<1> HIDE DEF insn, f, k, x, y, rd, rs1, base, next
<1>9. rd \in 0 .. 15 /\ rs1 \in 0 .. 15 /\ rd \in 0 .. 31 /\ rs1 \in 0 .. 31
  BY <1>7, SMT
<1>10. x \in Int /\ y \in Int
  BY <1>6 DEF Imm12
<1>11. p # 0 => M!Outcome(s, insn) = M!CompressedQ0(s, p)
  BY <1>2, <1>3
<1>12. /\ 2 \in 0 .. 31 /\ 0 \in 0 .. 7 /\ 2 \in 0 .. 7 /\ 19 \in 0 .. 127 /\ 3 \in 0 .. 127 /\ 2 \in 0 .. 15
  BY SMT
<1>13. CASE k = 0 /\ x # 0
  <2>1. IsI(R!IType(x, 2, 0, rd, 19), x, 2, 0, rd, 19)
    BY <1>6, <1>9, <1>12, ExpandedI
  <2>2. IsI(f, x, 2, 0, rd, 19)
    BY <1>5, <1>13, <2>1
  <2>3. Plain(R!Outcome(t, insn), t, Word(s.pc + 2), rd, Word(M!ReadReg(s, 2) + x))
    BY <1>2, <1>9, <1>10, <1>12, <2>2, RtlAdds DEF f
  <2>4. M!Outcome(s, insn) = M!WriteReg(s, M!Nothing(s, s.pc + 2), rd, M!ReadReg(s, 2) + x)
    BY <1>4, <1>8, <1>11, <1>13 DEF next
  <2>5. M!ReadReg(s, 2) \in Words
    BY Operands
  <2>6. Word(M!ReadReg(s, 2) + x) \in Words
    BY <1>10, <2>5, WordSums
  <2>7. Word(s.pc + 2) \in Words /\ Word(s.pc + 2) % 2 = 0
    BY GoesOn, 2 \in {2, 4}
  <2>8. Agrees(s, t, insn)
    BY <1>9, <2>3, <2>4, <2>6, <2>7, WritesAgree
  <2>9. QED
    BY <2>8 DEF insn
<1>14. CASE k = 2
  <2>1. IsI(R!IType(y, rs1, 2, rd, 3), y, rs1, 2, rd, 3)
    BY <1>6, <1>9, <1>12, ExpandedI
  <2>2. IsI(f, y, rs1, 2, rd, 3)
    BY <1>5, <1>14, <2>1
  <2>3. M!CompressedQ0(s, p) = M!LoadData(s, next, rd, base, 4, TRUE)
    BY <1>4, <1>14
  <2>4. p # 0
    BY <1>8, <1>14
  <2>5. M!Outcome(s, insn) = M!LoadData(s, M!Nothing(s, s.pc + 2), rd, M!Word(M!ReadReg(s, rs1) + y), 4, TRUE)
    BY <1>11, <2>3, <2>4 DEF next, base
  <2>6. Agrees(s, t, insn)
    BY <1>2, <1>9, <1>10, <2>2, <2>5, ParcelLoads DEF f
  <2>7. QED
    BY <2>6 DEF insn
<1>15. CASE k = 6
  <2>1. IsS(R!SType(y, rd, rs1, 2, 35), y, rd, rs1, 2)
    BY <1>6, <1>9, <1>12, ExpandedS
  <2>2. IsS(f, y, rd, rs1, 2)
    BY <1>5, <1>15, <2>1
  <2>3. M!CompressedQ0(s, p) = M!StoreData(s, next, base, 4, M!ReadReg(s, rd))
    BY <1>4, <1>15
  <2>4. p # 0
    BY <1>8, <1>15
  <2>5. M!Outcome(s, insn) =
          M!StoreData(s, M!Nothing(s, s.pc + 2), M!Word(M!ReadReg(s, rs1) + y), 4, M!ReadReg(s, rd))
    BY <1>11, <2>3, <2>4 DEF next, base
  <2>6. Agrees(s, t, insn)
    BY <1>2, <1>9, <1>10, <2>2, <2>5, ParcelStores DEF f
  <2>7. QED
    BY <2>6 DEF insn
<1>16. CASE ~(k = 0 /\ x # 0) /\ k # 2 /\ k # 6
  <2>1. Decoded(insn) = R!Zero
    BY <1>5, <1>16 DEF f
  <2>2. M!Outcome(s, insn) = M!Illegal(s) \/ M!Outcome(s, insn) = M!Unsupported(s)
    BY <1>2, <1>3, <1>4, <1>16
  <2>3. Agrees(s, t, insn)
    BY <2>1, <2>2, ParcelIllegal
  <2>4. QED
    BY <2>3 DEF insn
<1>17. QED
  BY <1>13, <1>14, <1>15, <1>16

\* Quadrant 1.
LEMMA Expanded1 ==
  ASSUME NEW p \in Int, p % 4 = 1
  PROVE  Decoded(Parcel(p)) =
           CASE M!Funct3C(p) = 0 -> R!IType(M!CImm6(p), M!RdRs1(p), 0, M!RdRs1(p), 19)
             [] M!Funct3C(p) = 1 -> R!JType(M!CJumpImm(p), 1)
             [] M!Funct3C(p) = 2 -> R!IType(M!CImm6(p), 0, 0, M!RdRs1(p), 19)
             [] M!Funct3C(p) = 3 -> R!LuiC(p)
             [] M!Funct3C(p) = 4 -> R!AluC(p)
             [] M!Funct3C(p) = 5 -> R!JType(M!CJumpImm(p), 0)
             [] M!Funct3C(p) \in {6, 7} -> R!BType(M!CBranchImm(p), M!Rs1Prime(p), M!Funct3C(p) - 6)
<1>1. Decoded(Parcel(p)) = R!DecodeRvc(p)
  BY DEF Decoded, Parcel
<1>2. R!DecodeRvc(p) = R!Quadrant1(p)
  BY SMT DEF R!DecodeRvc
<1>3. /\ R!cRdRs1(p) = M!RdRs1(p) /\ R!cRs1Prime(p) = M!Rs1Prime(p) /\ R!Bits(p, 15, 13) = M!Funct3C(p)
  BY SameParcels
<1>4. R!cImm6(p) = M!CImm6(p) /\ R!cJumpImm(p) = M!CJumpImm(p) /\ R!cBranchImm(p) = M!CBranchImm(p)
  BY SameImm6, SameJump, SameBranch
<1>5. QED
  BY <1>1, <1>2, <1>3, <1>4, Zenon DEF R!Quadrant1

\* The cases of quadrant 1 in the model.
LEMMA Executed1 ==
  ASSUME NEW s, s.pc % 2 = 0, NEW p \in Int, p % 4 = 1
  PROVE  M!Outcome(s, Parcel(p)) =
           LET rd == M!RdRs1(p)
               f == M!Funct3C(p)
               next == M!Nothing(s, s.pc + 2)
               jump == M!Nothing(s, s.pc + M!CJumpImm(p))
               taken == (M!ReadReg(s, M!Rs1Prime(p)) = 0) = (f = 6)
           IN  CASE f \in {0, 2, 3} /\ rd > 15 -> M!HighRegister(s)
                 [] f = 0 /\ rd <= 15 ->
                      IF M!CImm6(p) = 0 THEN next ELSE M!WriteReg(s, next, rd, M!ReadReg(s, rd) + M!CImm6(p))
                 [] f = 1 -> M!WriteReg(s, jump, 1, s.pc + 2)
                 [] f = 2 /\ rd <= 15 -> M!WriteReg(s, next, rd, M!CImm6(p))
                 [] f = 3 /\ rd <= 15 -> M!CompressedLui(s, p)
                 [] f = 4 -> M!CompressedAlu(s, p)
                 [] f = 5 -> jump
                 [] f \in {6, 7} -> IF taken THEN M!Nothing(s, s.pc + M!CBranchImm(p)) ELSE next
<1>1. M!Outcome(s, Parcel(p)) = M!ExecuteCompressed(s, p) /\ M!SequentialC(s) = M!Nothing(s, s.pc + 2)
  BY AsParcel
<1>2. M!ExecuteCompressed(s, p) = M!CompressedQ1(s, p)
  BY SMT DEF M!ExecuteCompressed
<1>3. QED
  BY <1>1, <1>2, Zenon DEF M!CompressedQ1

\* An addition of an immediate, in a parcel.
LEMMA ParcelAdds ==
  ASSUME XLEN = 32, NEW s, NEW t, Paired(s, t), NEW insn, insn.len = 2, NEW f, f = Decoded(insn), NEW x \in Int,
         NEW rs1 \in 0 .. 15, NEW rd \in 0 .. 15, IsI(f, x, rs1, 0, rd, 19),
         M!Outcome(s, insn) = M!WriteReg(s, M!Nothing(s, s.pc + 2), rd, M!ReadReg(s, rs1) + x)
  PROVE  Agrees(s, t, insn)
<1>1. Plain(R!Outcome(t, insn), t, Word(s.pc + 2), rd, Word(M!ReadReg(s, rs1) + x))
  BY RtlAdds
<1>2. M!ReadReg(s, rs1) \in Words
  BY Operands
<1>3. Word(M!ReadReg(s, rs1) + x) \in Words
  BY <1>2, WordSums
<1>4. Word(s.pc + 2) \in Words /\ Word(s.pc + 2) % 2 = 0
  BY GoesOn, 2 \in {2, 4}
<1>5. QED
  BY <1>1, <1>3, <1>4, WritesAgree

\* An addition of zero, which the model leaves out.
LEMMA AddsNothing ==
  ASSUME XLEN = 32, NEW s, NEW t, Paired(s, t), NEW insn, insn.len = 2, NEW f, f = Decoded(insn),
         NEW rd \in 0 .. 15, IsI(f, 0, rd, 0, rd, 19), M!Outcome(s, insn) = M!Nothing(s, s.pc + 2)
  PROVE  Agrees(s, t, insn)
<1>1. Plain(R!Outcome(t, insn), t, Word(s.pc + 2), rd, Word(M!ReadReg(s, rd) + 0))
  BY 0 \in Int, RtlAdds
<1>2. M!ReadReg(s, rd) \in Words
  BY Operands
<1>3. \A y \in Words : Word(y) = y
  BY WordFacts
<1>4. M!ReadReg(s, rd) + 0 = M!ReadReg(s, rd)
  BY <1>2, SMT DEF Words
<1>5. rd = 0 \/ M!ReadReg(s, rd) = s.regs[rd]
  BY DEF M!ReadReg
<1>6. Word(s.pc + 2) \in Words /\ Word(s.pc + 2) % 2 = 0
  BY GoesOn, 2 \in {2, 4}
<1>7. Plain(R!Outcome(t, insn), t, Word(s.pc + 2), rd, M!ReadReg(s, rd))
  BY <1>1, <1>2, <1>3, <1>4
<1>8. QED
  BY <1>2, <1>5, <1>6, <1>7, StaysAgree

\* An addition to a register of the upper half.
LEMMA AddsHigh ==
  ASSUME NEW s, NEW t, NEW insn, NEW f, f = Decoded(insn), NEW x, NEW rs1, NEW rd, rd > 15,
         IsI(f, x, rs1, 0, rd, 19), M!Outcome(s, insn) = M!HighRegister(s)
  PROVE  Agrees(s, t, insn)
<1>1. f.opcode = 19 /\ f.funct3 = 0 /\ f.rd = rd
  BY DEF IsI
<1>2. R!isAluImm(f)
  BY <1>1 DEF R!isAluImm
<1>3. R!execKnown(f) /\ R!regAccessIllegal(f)
  BY <1>1, <1>2 DEF R!execKnown, R!execUsesRd, R!regAccessIllegal
<1>4. f.opcode \in {55, 23, 111, 103, 99, 19, 51}
  BY <1>1
<1>5. QED
  BY <1>3, <1>4, HighAgrees

\* C.ADDI and C.LI.
LEMMA CAddiAgrees ==
  ASSUME XLEN = 32, NEW s, NEW t, Paired(s, t), NEW p \in Int, p % 4 = 1, M!Funct3C(p) = 0
  PROVE  Agrees(s, t, Parcel(p))
<1> DEFINE insn == Parcel(p)
           f == Decoded(insn)
           x == M!CImm6(p)
           rd == M!RdRs1(p)
           next == M!Nothing(s, s.pc + 2)
<1>1. s.pc % 2 = 0
  BY Operands
<1>2. insn.len = 2
  BY <1>1, AsParcel
<1>3. f = R!IType(x, rd, 0, rd, 19)
  BY Expanded1
<1>4. rd \in 0 .. 31 /\ 0 \in 0 .. 7 /\ 19 \in 0 .. 127
  BY ParcelFields, SMT
<1>5. Imm12(x)
  BY ParcelOffsets
<1>6. x \in Int
  BY <1>5 DEF Imm12
<1>7. M!Outcome(s, insn) =
        IF rd > 15 THEN M!HighRegister(s) ELSE IF x = 0 THEN next ELSE M!WriteReg(s, next, rd, M!ReadReg(s, rd) + x)
  BY <1>1, <1>4, Executed1, SMTT(40)
<1> HIDE DEF insn, f, x, rd, next
<1>8. IsI(f, x, rd, 0, rd, 19)
  BY <1>3, <1>4, <1>5, ExpandedI, ZenonT(40)
<1>9. f = Decoded(insn)
  BY DEF f
<1>10. CASE rd > 15
  <2>1. Agrees(s, t, insn)
    BY <1>7, <1>8, <1>9, <1>10, AddsHigh
  <2>2. QED
    BY <2>1 DEF insn
<1>11. CASE rd <= 15 /\ x = 0
  <2>1. rd \in 0 .. 15
    BY <1>4, <1>11
  <2>2. M!Outcome(s, insn) = M!Nothing(s, s.pc + 2)
    BY <1>4, <1>7, <1>11 DEF next
  <2>3. IsI(f, 0, rd, 0, rd, 19)
    BY <1>8, <1>11
  <2>4. Agrees(s, t, insn)
    BY <1>2, <1>9, <2>1, <2>2, <2>3, AddsNothing
  <2>5. QED
    BY <2>4 DEF insn
<1>12. CASE rd <= 15 /\ x # 0
  <2>1. rd \in 0 .. 15
    BY <1>4, <1>12
  <2>2. M!Outcome(s, insn) = M!WriteReg(s, M!Nothing(s, s.pc + 2), rd, M!ReadReg(s, rd) + x)
    BY <1>4, <1>7, <1>12 DEF next
  <2>3. Agrees(s, t, insn)
    BY <1>2, <1>6, <1>8, <1>9, <2>1, <2>2, ParcelAdds
  <2>4. QED
    BY <2>3 DEF insn
<1>13. QED
  BY <1>4, <1>10, <1>11, <1>12

\* C.LI agrees.
LEMMA CLiAgrees ==
  ASSUME XLEN = 32, NEW s, NEW t, Paired(s, t), NEW p \in Int, p % 4 = 1, M!Funct3C(p) = 2
  PROVE  Agrees(s, t, Parcel(p))
<1> DEFINE insn == Parcel(p)
           f == Decoded(insn)
           x == M!CImm6(p)
           rd == M!RdRs1(p)
<1>1. s.pc % 2 = 0
  BY Operands
<1>2. insn.len = 2
  BY <1>1, AsParcel
<1>3. f = R!IType(x, 0, 0, rd, 19)
  BY Expanded1
<1>4. rd \in 0 .. 31 /\ 0 \in 0 .. 7 /\ 0 \in 0 .. 31 /\ 0 \in 0 .. 15 /\ 19 \in 0 .. 127
  BY ParcelFields, SMT
<1>5. Imm12(x)
  BY ParcelOffsets
<1>6. x \in Int
  BY <1>5 DEF Imm12
<1>7. M!Outcome(s, insn) = IF rd > 15 THEN M!HighRegister(s) ELSE M!WriteReg(s, M!Nothing(s, s.pc + 2), rd, x)
  BY <1>1, <1>4, Executed1, SMTT(40)
<1> HIDE DEF insn, f, x, rd
<1>8. IsI(f, x, 0, 0, rd, 19)
  BY <1>3, <1>4, <1>5, ExpandedI, ZenonT(40)
<1>9. f = Decoded(insn)
  BY DEF f
<1>10. CASE rd > 15
  <2>1. Agrees(s, t, insn)
    BY <1>7, <1>8, <1>9, <1>10, AddsHigh
  <2>2. QED
    BY <2>1 DEF insn
<1>11. CASE rd <= 15
  <2>1. rd \in 0 .. 15
    BY <1>4, <1>11
  <2>2. M!ReadReg(s, 0) + x = x
    BY <1>6, SMT DEF M!ReadReg
  <2>3. M!Outcome(s, insn) = M!WriteReg(s, M!Nothing(s, s.pc + 2), rd, M!ReadReg(s, 0) + x)
    BY <1>4, <1>7, <1>11, <2>2
  <2>4. Agrees(s, t, insn)
    BY <1>2, <1>4, <1>6, <1>8, <1>9, <2>1, <2>3, ParcelAdds
  <2>5. QED
    BY <2>4 DEF insn
<1>12. QED
  BY <1>4, <1>10, <1>11

\* C.JAL and C.J.
LEMMA CJumpAgrees ==
  ASSUME XLEN = 32, NEW s, NEW t, Paired(s, t), NEW p \in Int, p % 4 = 1, M!Funct3C(p) \in {1, 5}
  PROVE  Agrees(s, t, Parcel(p))
<1> DEFINE insn == Parcel(p)
           f == Decoded(insn)
           x == M!CJumpImm(p)
           rd == IF M!Funct3C(p) = 1 THEN 1 ELSE 0
           jump == M!Nothing(s, s.pc + x)
<1>1. s.pc \in Words /\ s.pc % 2 = 0
  BY Operands
<1>2. insn.len = 2 /\ insn.len \in {2, 4}
  BY <1>1, AsParcel
<1>3. f = R!JType(x, rd)
  BY Expanded1
<1>4. rd \in 0 .. 31 /\ rd \in 0 .. 15
  BY SMT
<1>5. Even12(x)
  BY ParcelOffsets
<1>6. x \in Int /\ x % 2 = 0
  BY <1>5 DEF Even12, Imm12
<1>7. M!Outcome(s, insn) = IF rd = 1 THEN M!WriteReg(s, jump, 1, s.pc + 2) ELSE jump
  BY <1>1, Executed1
<1>8. rd = 1 \/ rd = 0
  OBVIOUS
<1> HIDE DEF insn, f, x, rd, jump
<1>9. IsJ(f, x, rd)
  BY <1>3, <1>4, <1>5, ExpandedJ
<1>10. f = Decoded(insn) /\ f \in InsnFields /\ f.opcode = 111 /\ f.rd = rd /\ M!ImmJ(f) = x /\ f.rd \in 0 .. 15
  BY <1>4, <1>9 DEF f, IsJ
<1>11. Plain(R!Outcome(t, insn), t, Word(s.pc + M!ImmJ(f)), f.rd, Word(s.pc + insn.len))
  BY <1>2, <1>10, RtlJal
<1>12. Plain(R!Outcome(t, insn), t, Word(s.pc + x), rd, Word(s.pc + 2))
  BY <1>2, <1>10, <1>11
<1>13. Word(s.pc + x) \in Words /\ Word(s.pc + x) % 2 = 0
  BY <1>1, <1>6, Targets
<1>14. Word(s.pc + 2) \in Words
  BY GoesOn, 2 \in {2, 4}
<1>15. CASE rd = 1
  <2>1. M!Outcome(s, insn) = M!WriteReg(s, M!Nothing(s, s.pc + x), rd, s.pc + 2)
    BY <1>7, <1>15 DEF jump
  <2>2. Agrees(s, t, insn)
    BY <1>4, <1>12, <1>13, <1>14, <2>1, WritesAgree
  <2>3. QED
    BY <2>2 DEF insn
<1>16. CASE rd = 0
  <2>1. M!Outcome(s, insn) = M!Nothing(s, s.pc + x)
    BY <1>7, <1>16 DEF jump
  <2>2. Agrees(s, t, insn)
    BY <1>4, <1>12, <1>13, <1>14, <1>16, <2>1, StaysAgree
  <2>3. QED
    BY <2>2 DEF insn
<1>17. QED
  BY <1>8, <1>15, <1>16

\* C.BEQZ and C.BNEZ.
LEMMA CBranchAgrees ==
  ASSUME XLEN = 32, NEW s, NEW t, Paired(s, t), NEW p \in Int, p % 4 = 1, M!Funct3C(p) \in {6, 7}
  PROVE  Agrees(s, t, Parcel(p))
<1> DEFINE insn == Parcel(p)
           f == Decoded(insn)
           x == M!CBranchImm(p)
           k == M!Funct3C(p)
           rs1 == M!Rs1Prime(p)
           taken == (M!ReadReg(s, rs1) = 0) = (k = 6)
           pc == IF taken THEN s.pc + x ELSE s.pc + 2
<1>1. s.pc \in Words /\ s.pc % 2 = 0
  BY Operands
<1>2. insn.len = 2 /\ insn.len \in {2, 4}
  BY <1>1, AsParcel
<1>3. f = R!BType(x, rs1, k - 6)
  BY Expanded1
<1>4. rs1 \in 0 .. 31 /\ rs1 \in 0 .. 15 /\ k - 6 \in 0 .. 7 /\ k - 6 \in {0, 1, 4, 5, 6, 7}
  <2>1. rs1 \in 8 .. 15
    BY ParcelFields
  <2> HIDE DEF rs1, k
  <2>2. k \in {6, 7}
    BY DEF k
  <2>3. QED
    BY <2>1, <2>2, SMT
<1>5. Even12(x)
  BY ParcelOffsets
<1>6. x \in Int /\ x % 2 = 0
  BY <1>5 DEF Even12, Imm12
<1>7. M!Outcome(s, insn) = IF taken THEN M!Nothing(s, s.pc + x) ELSE M!Nothing(s, s.pc + 2)
  BY <1>1, Executed1
<1>8. k \in {6, 7}
  OBVIOUS
<1> HIDE DEF insn, f, x, k, rs1
<1>9. IsB(R!BType(x, rs1, k - 6), x, rs1, k - 6)
  BY <1>4, <1>5, ExpandedB
<1>10. f = Decoded(insn) /\ f \in InsnFields /\ f.opcode = 99 /\ f.funct3 = k - 6 /\ f.rs1 = rs1 /\ f.rs2 = 0 /\ M!ImmB(f) = x
  BY <1>3, <1>9 DEF f, IsB
<1>11. f.funct3 \in {0, 1, 4, 5, 6, 7} /\ f.rs1 \in 0 .. 15 /\ f.rs2 \in 0 .. 15
  BY <1>4, <1>10
<1>12. Plain(R!Outcome(t, insn), t, IF Taken(s, f) THEN Word(s.pc + M!ImmB(f)) ELSE Word(s.pc + insn.len), 0, 0)
  BY <1>2, <1>10, <1>11, RtlBranch
<1>13. Taken(s, f) <=> taken
  <2>1. M!ReadReg(s, 0) = 0
    BY DEF M!ReadReg
  <2>2. CASE k = 6
    <3>1. f.funct3 = 0
      BY <1>10, <2>2
    <3>2. Taken(s, f) = (M!ReadReg(s, f.rs1) = M!ReadReg(s, f.rs2))
      BY <3>1 DEF Taken
    <3>3. f.rs1 = rs1 /\ f.rs2 = 0
      BY <1>10
    <3>4. QED
      BY <2>1, <2>2, <3>2, <3>3
  <2>3. CASE k = 7
    <3>1. f.funct3 = 1
      BY <1>10, <2>3
    <3>2. Taken(s, f) = (M!ReadReg(s, f.rs1) # M!ReadReg(s, f.rs2))
      BY <3>1 DEF Taken
    <3>3. f.rs1 = rs1 /\ f.rs2 = 0
      BY <1>10
    <3>4. (k = 6) = FALSE
      BY <2>3
    <3>5. Taken(s, f) <=> M!ReadReg(s, rs1) # 0
      BY <2>1, <3>2, <3>3
    <3>6. taken <=> M!ReadReg(s, rs1) # 0
      BY <3>4
    <3>7. QED
      BY <3>5, <3>6
  <2>4. QED
    BY <1>8, <2>2, <2>3
<1>14. Plain(R!Outcome(t, insn), t, Word(pc), 0, 0)
  BY <1>2, <1>10, <1>12, <1>13
<1>15. Word(pc) \in Words /\ Word(pc) % 2 = 0
  <2>1. Word(s.pc + x) \in Words /\ Word(s.pc + x) % 2 = 0
    BY <1>1, <1>6, Targets
  <2>2. Word(s.pc + 2) \in Words /\ Word(s.pc + 2) % 2 = 0
    BY GoesOn, 2 \in {2, 4}
  <2>3. QED
    BY <2>1, <2>2
<1>16. M!Outcome(s, insn) = M!Nothing(s, pc)
  BY <1>7
<1>17. 0 \in 0 .. 15 /\ 0 \in Words
  BY SMT DEF Words
<1> HIDE DEF pc
<1>18. Agrees(s, t, insn)
  BY <1>14, <1>15, <1>16, <1>17, StaysAgree
<1>19. QED
  BY <1>18 DEF insn

\* C.LUI and C.ADDI16SP.
LEMMA ExpandedLui ==
  ASSUME NEW p \in Int, p % 4 = 1, M!Funct3C(p) = 3
  PROVE  Decoded(Parcel(p)) =
           CASE M!RdRs1(p) = 2 /\ M!CAddi16spImm(p) # 0 -> R!IType(M!CAddi16spImm(p), 2, 0, 2, 19)
             [] M!RdRs1(p) # 2 /\ (M!CImm6(p) # 0 \/ M!RdRs1(p) >= 16) -> R!UType(M!CImm6(p), M!RdRs1(p))
             [] OTHER -> R!Zero
<1>1. Decoded(Parcel(p)) = R!LuiC(p)
  BY Expanded1
<1>2. R!cRdRs1(p) = M!RdRs1(p)
  BY SameParcels
<1>3. R!cImm6(p) = M!CImm6(p) /\ R!cAddi16spImm(p) = M!CAddi16spImm(p)
  BY SameImm6, SameAddi16sp
<1>4. QED
  BY <1>1, <1>2, <1>3, Zenon DEF R!LuiC

\* C.LUI and C.ADDI16SP in the model.
LEMMA ExecutedLui ==
  ASSUME NEW s, s.pc % 2 = 0, NEW p \in Int, p % 4 = 1, M!Funct3C(p) = 3
  PROVE  M!Outcome(s, Parcel(p)) =
           LET rd == M!RdRs1(p)
               x == M!CImm6(p)
               sp == M!CAddi16spImm(p)
               next == M!Nothing(s, s.pc + 2)
           IN  IF rd > 15 THEN M!HighRegister(s)
               ELSE IF rd = 0 THEN IF x = 0 THEN M!Illegal(s) ELSE next
               ELSE IF rd = 2 THEN IF sp = 0 THEN M!Illegal(s) ELSE M!WriteReg(s, next, 2, M!ReadReg(s, 2) + sp)
               ELSE IF x = 0 THEN M!Illegal(s) ELSE M!WriteReg(s, next, rd, x * 2^12)
<1> DEFINE rd == M!RdRs1(p)
           x == M!CImm6(p)
           sp == M!CAddi16spImm(p)
           next == M!Nothing(s, s.pc + 2)
<1>1. M!Outcome(s, Parcel(p)) = IF rd > 15 THEN M!HighRegister(s) ELSE M!CompressedLui(s, p)
  <2>1. rd \in 0 .. 31
    BY ParcelFields
  <2>2. QED
    BY <2>1, Executed1
<1>2. M!SequentialC(s) = next
  BY DEF M!SequentialC
<1>3. M!CompressedLui(s, p) =
        CASE rd = 0 -> IF x = 0 THEN M!Illegal(s) ELSE next
          [] rd = 2 -> IF sp = 0 THEN M!Illegal(s) ELSE M!WriteReg(s, next, 2, M!ReadReg(s, 2) + sp)
          [] OTHER -> IF x = 0 THEN M!Illegal(s) ELSE M!WriteReg(s, next, rd, x * 2^12)
  BY <1>2, Zenon DEF M!CompressedLui
<1> HIDE DEF rd, x, sp, next
<1>4. M!CompressedLui(s, p) =
        IF rd = 0 THEN IF x = 0 THEN M!Illegal(s) ELSE next
        ELSE IF rd = 2 THEN IF sp = 0 THEN M!Illegal(s) ELSE M!WriteReg(s, next, 2, M!ReadReg(s, 2) + sp)
        ELSE IF x = 0 THEN M!Illegal(s) ELSE M!WriteReg(s, next, rd, x * 2^12)
  BY <1>3, SMT
<1>5. QED
  BY <1>1, <1>4, Zenon DEF rd, x, sp, next

\* C.LUI and C.ADDI16SP agree.
LEMMA CLuiAgrees ==
  ASSUME XLEN = 32, NEW s, NEW t, Paired(s, t), NEW p \in Int, p % 4 = 1, M!Funct3C(p) = 3
  PROVE  Agrees(s, t, Parcel(p))
<1> DEFINE insn == Parcel(p)
           f == Decoded(insn)
           rd == M!RdRs1(p)
           x == M!CImm6(p)
           sp == M!CAddi16spImm(p)
           next == M!Nothing(s, s.pc + 2)
<1>1. s.pc \in Words /\ s.pc % 2 = 0
  BY Operands
<1>2. insn.len = 2 /\ insn.len \in {2, 4}
  BY <1>1, AsParcel
<1>3. f = CASE rd = 2 /\ sp # 0 -> R!IType(sp, 2, 0, 2, 19)
            [] rd # 2 /\ (x # 0 \/ rd >= 16) -> R!UType(x, rd)
            [] OTHER -> R!Zero
  BY ExpandedLui
<1>4. M!Outcome(s, insn) =
        IF rd > 15 THEN M!HighRegister(s)
        ELSE IF rd = 0 THEN IF x = 0 THEN M!Illegal(s) ELSE next
        ELSE IF rd = 2 THEN IF sp = 0 THEN M!Illegal(s) ELSE M!WriteReg(s, next, 2, M!ReadReg(s, 2) + sp)
        ELSE IF x = 0 THEN M!Illegal(s) ELSE M!WriteReg(s, next, rd, x * 2^12)
  BY <1>1, ExecutedLui
<1>5. rd \in 0 .. 31
  BY ParcelFields
<1>6. Imm12(x) /\ Imm12(sp)
  BY ParcelOffsets
<1>7. x \in Int /\ sp \in Int
  BY <1>6 DEF Imm12
<1>8. Word(s.pc + 2) \in Words /\ Word(s.pc + 2) % 2 = 0
  BY GoesOn, 2 \in {2, 4}
<1>9. R!UType(x, rd) \in InsnFields /\ R!UType(x, rd).opcode = 55 /\ R!UType(x, rd).rd = rd
      /\ R!upperImm(R!UType(x, rd)) = Word(x * 2^12)
  <2> HIDE DEF x, rd
  <2>1. QED
    BY <1>5, <1>7, ExpandedU
<1>10. x * 2^12 \in Int
  <2> HIDE DEF x
  <2>1. QED
    BY <1>7, SMT
<1>11. Word(x * 2^12) \in Words
  <2> DEFINE y == x * 2^12
  <2>1. y \in Int
    BY <1>10
  <2> HIDE DEF y
  <2>2. Word(y) \in Words
    BY <2>1, WordFacts
  <2>3. QED
    BY <2>2 DEF y
<1> HIDE DEF insn, f, rd, x, sp, next
<1>12. f = Decoded(insn)
  BY DEF f
<1>13. CASE f = R!Zero /\ rd <= 15
  <2>1. M!Outcome(s, insn) = M!Illegal(s)
    <3>1. R!Zero.opcode = 0
      BY DEF R!Zero, R!Fields
    <3>2. f # R!UType(x, rd)
      BY <1>9, <1>13, <3>1
    <3>3. f # R!IType(sp, 2, 0, 2, 19)
      BY <1>13, <3>1, SMT DEF R!IType, R!Fields
    <3>4. ~(rd = 2 /\ sp # 0) /\ ~(rd # 2 /\ x # 0)
      BY <1>3, <3>2, <3>3, SMT
    <3>5. QED
      BY <1>4, <1>5, <1>13, <3>4
  <2>2. Agrees(s, t, insn)
    BY <1>12, <1>13, <2>1, ParcelIllegal
  <2>3. QED
    BY <2>2 DEF insn
<1>14. CASE rd = 2 /\ sp # 0
  <2>1. f = R!IType(sp, 2, 0, 2, 19)
    BY <1>3, <1>14
  <2>2. 2 \in 0 .. 31 /\ 0 \in 0 .. 7 /\ 19 \in 0 .. 127 /\ 2 \in 0 .. 15
    BY SMT
  <2>3. IsI(f, sp, 2, 0, 2, 19)
    BY <1>6, <2>1, <2>2, ExpandedI
  <2>4. M!Outcome(s, insn) = M!WriteReg(s, M!Nothing(s, s.pc + 2), 2, M!ReadReg(s, 2) + sp)
    BY <1>4, <1>14 DEF next
  <2>5. Agrees(s, t, insn)
    BY <1>2, <1>7, <1>12, <2>2, <2>3, <2>4, ParcelAdds
  <2>6. QED
    BY <2>5 DEF insn
<1>15. CASE rd > 15
  <2>1. f = R!UType(x, rd)
    BY <1>3, <1>5, <1>15
  <2>2. f.opcode = 55 /\ f.rd > 15
    BY <1>9, <1>15, <2>1
  <2>3. R!execKnown(f) /\ R!regAccessIllegal(f)
    BY <2>2 DEF R!execKnown, R!execUsesRd, R!regAccessIllegal
  <2>4. f.opcode \in {55, 23, 111, 103, 99, 19, 51}
    BY <2>2
  <2>5. M!Outcome(s, insn) = M!HighRegister(s)
    BY <1>4, <1>15
  <2>6. Agrees(s, t, insn)
    BY <1>12, <2>3, <2>4, <2>5, HighAgrees
  <2>7. QED
    BY <2>6 DEF insn
<1>16. CASE rd # 2 /\ rd <= 15 /\ x # 0
  <2>1. f = R!UType(x, rd)
    BY <1>3, <1>16
  <2>2. rd \in 0 .. 15
    BY <1>5, <1>16
  <2>3. f.opcode = 55 /\ f.opcode \in {55, 23} /\ f.rd = rd /\ f.rd \in 0 .. 15 /\ R!upperImm(f) = Word(x * 2^12)
    BY <1>9, <2>1, <2>2
  <2>4. Plain(R!Outcome(t, insn), t, Word(s.pc + insn.len), f.rd,
              IF f.opcode = 55 THEN R!upperImm(f) ELSE Word(s.pc + R!upperImm(f)))
    BY <1>2, <1>12, <2>3, RtlUpper
  <2>5. Plain(R!Outcome(t, insn), t, Word(s.pc + 2), rd, Word(x * 2^12))
    BY <1>2, <2>3, <2>4
  <2>6. CASE rd = 0
    <3>1. M!Outcome(s, insn) = M!Nothing(s, s.pc + 2)
      BY <1>4, <1>16, <2>6 DEF next
    <3>2. Agrees(s, t, insn)
      BY <1>8, <1>11, <2>2, <2>5, <2>6, <3>1, StaysAgree
    <3>3. QED
      BY <3>2 DEF insn
  <2>7. CASE rd # 0
    <3>1. M!Outcome(s, insn) = M!WriteReg(s, M!Nothing(s, s.pc + 2), rd, x * 2^12)
      BY <1>4, <1>5, <1>16, <2>7 DEF next
    <3>2. Agrees(s, t, insn)
      BY <1>8, <1>11, <2>2, <2>5, <3>1, WritesAgree
    <3>3. QED
      BY <3>2 DEF insn
  <2>8. QED
    BY <2>6, <2>7
<1>17. QED
  BY <1>3, <1>5, <1>13, <1>14, <1>15, <1>16

\* An ALU operation of a parcel.
LEMMA ParcelAlu ==
  ASSUME XLEN = 32, NEW s, NEW t, Paired(s, t), NEW insn, insn.len = 2, NEW f, f = Decoded(insn),
         f \in InsnFields, R!isAluImm(f) \/ R!isAluReg(f), f.rd \in 0 .. 15, f.rs1 \in 0 .. 15,
         f.opcode = 51 => f.rs2 \in 0 .. 15, NEW v, Word(v) = AluValue(s, f),
         M!Outcome(s, insn) = M!WriteReg(s, M!Nothing(s, s.pc + 2), f.rd, v)
  PROVE  Agrees(s, t, insn)
<1>1. insn.len \in {2, 4}
  OBVIOUS
<1>2. Plain(R!Outcome(t, insn), t, Word(s.pc + insn.len), f.rd, AluValue(s, f))
  BY <1>1, RtlAlu
<1>3. Plain(R!Outcome(t, insn), t, Word(s.pc + 2), f.rd, Word(v))
  BY <1>2
<1>4. Word(v) \in Words
  BY AluOperands
<1>5. Word(s.pc + 2) \in Words /\ Word(s.pc + 2) % 2 = 0
  BY GoesOn, 2 \in {2, 4}
<1>6. QED
  BY <1>3, <1>4, <1>5, WritesAgree

\* An operation that leaves its register as it is, which the model leaves out.
LEMMA ParcelAluStays ==
  ASSUME XLEN = 32, NEW s, NEW t, Paired(s, t), NEW insn, insn.len = 2, NEW f, f = Decoded(insn),
         f \in InsnFields, R!isAluImm(f) \/ R!isAluReg(f), f.rd \in 0 .. 15, f.rs1 \in 0 .. 15,
         f.opcode = 51 => f.rs2 \in 0 .. 15, f.rd = 0 \/ AluValue(s, f) = s.regs[f.rd],
         M!Outcome(s, insn) = M!Nothing(s, s.pc + 2)
  PROVE  Agrees(s, t, insn)
<1>1. insn.len \in {2, 4}
  OBVIOUS
<1>2. Plain(R!Outcome(t, insn), t, Word(s.pc + insn.len), f.rd, AluValue(s, f))
  BY <1>1, RtlAlu
<1>3. Plain(R!Outcome(t, insn), t, Word(s.pc + 2), f.rd, AluValue(s, f))
  BY <1>2
<1>4. AluValue(s, f) \in Words
  BY AluOperands
<1>5. Word(s.pc + 2) \in Words /\ Word(s.pc + 2) % 2 = 0
  BY GoesOn, 2 \in {2, 4}
<1>6. QED
  BY <1>3, <1>4, <1>5, StaysAgree

\* What the core computes for the ALU operations that parcels have.
LEMMA AluValues ==
  ASSUME XLEN = 32, NEW s, NEW t, Paired(s, t), NEW f, f \in InsnFields
  PROVE  LET a == M!ReadReg(s, f.rs1)
             b == M!ReadReg(s, f.rs2)
         IN  /\ f.opcode = 19 /\ f.funct3 = 1 => AluValue(s, f) = Shl(a, f.rs2)
             /\ f.opcode = 19 /\ f.funct3 = 5 /\ f.funct7 = 0 => AluValue(s, f) = Shr(a, f.rs2)
             /\ f.opcode = 19 /\ f.funct3 = 5 /\ f.funct7 = 32 => AluValue(s, f) = Sra(a, f.rs2)
             /\ f.opcode = 19 /\ f.funct3 = 7 => AluValue(s, f) = (a & Word(M!ImmI(f)))
             /\ f.opcode = 51 /\ f.funct3 = 0 /\ f.funct7 = 0 => AluValue(s, f) = Word(a + b)
             /\ f.opcode = 51 /\ f.funct3 = 0 /\ f.funct7 = 32 => AluValue(s, f) = Word(a - b)
             /\ f.opcode = 51 /\ f.funct3 = 4 => AluValue(s, f) = (a ^^ b)
             /\ f.opcode = 51 /\ f.funct3 = 6 => AluValue(s, f) = (a | b)
             /\ f.opcode = 51 /\ f.funct3 = 7 => AluValue(s, f) = (a & b)
<1> DEFINE a == M!ReadReg(s, f.rs1)
           b == M!ReadReg(s, f.rs2)
<1>1. f.opcode = 19 => AluRight(s, f) = Word(M!ImmI(f)) /\ AluShift(s, f) = f.rs2
  BY DEF AluRight, AluShift
<1>2. f.opcode = 51 => AluRight(s, f) = b
  BY DEF AluRight
<1>3. f.funct7 = 0 => AluMinus(f) = FALSE
  BY DEF AluMinus
<1>4. f.funct7 = 32 /\ (f.opcode = 51 \/ f.funct3 = 5) => AluMinus(f) = TRUE
  BY DEF AluMinus
<1>5. AluValue(s, f) = AluOf(f.funct3, a, AluRight(s, f), AluShift(s, f), AluMinus(f))
  BY DEF AluValue
<1>6. \A x, y, n : AluOf(1, x, y, n, AluMinus(f)) = Shl(x, n)
  BY DEF AluOf
<1>7. \A x, y, n : AluOf(5, x, y, n, FALSE) = Shr(x, n) /\ AluOf(5, x, y, n, TRUE) = Sra(x, n)
  BY DEF AluOf
<1>8. \A x, y, n : AluOf(0, x, y, n, FALSE) = Word(x + y) /\ AluOf(0, x, y, n, TRUE) = Word(x - y)
  BY DEF AluOf
<1>9. \A x, y, n : /\ AluOf(4, x, y, n, AluMinus(f)) = (x ^^ y) /\ AluOf(6, x, y, n, AluMinus(f)) = (x | y)
                   /\ AluOf(7, x, y, n, AluMinus(f)) = (x & y)
  BY DEF AluOf
<1> HIDE DEF a, b
<1>10. f.opcode = 19 /\ f.funct3 = 1 => AluValue(s, f) = Shl(a, f.rs2)
  BY <1>1, <1>5, <1>6
<1>11. f.opcode = 19 /\ f.funct3 = 5 /\ f.funct7 = 0 => AluValue(s, f) = Shr(a, f.rs2)
  BY <1>1, <1>3, <1>5, <1>7
<1>12. f.opcode = 19 /\ f.funct3 = 5 /\ f.funct7 = 32 => AluValue(s, f) = Sra(a, f.rs2)
  BY <1>1, <1>4, <1>5, <1>7
<1>13. f.opcode = 19 /\ f.funct3 = 7 => AluValue(s, f) = (a & Word(M!ImmI(f)))
  BY <1>1, <1>5, <1>9
<1>14. f.opcode = 51 /\ f.funct3 = 0 /\ f.funct7 = 0 => AluValue(s, f) = Word(a + b)
  BY <1>2, <1>3, <1>5, <1>8
<1>15. f.opcode = 51 /\ f.funct3 = 0 /\ f.funct7 = 32 => AluValue(s, f) = Word(a - b)
  BY <1>2, <1>4, <1>5, <1>8
<1>16. f.opcode = 51 /\ f.funct3 = 4 => AluValue(s, f) = (a ^^ b)
  BY <1>2, <1>5, <1>9
<1>17. f.opcode = 51 /\ f.funct3 = 6 => AluValue(s, f) = (a | b)
  BY <1>2, <1>5, <1>9
<1>18. f.opcode = 51 /\ f.funct3 = 7 => AluValue(s, f) = (a & b)
  BY <1>2, <1>5, <1>9
<1>19. QED
  BY <1>10, <1>11, <1>12, <1>13, <1>14, <1>15, <1>16, <1>17, <1>18, Zenon DEF a, b

\* The shifts, C.ANDI and the register operations.
LEMMA ExpandedAlu ==
  ASSUME NEW p \in Int, p % 4 = 1, M!Funct3C(p) = 4
  PROVE  LET f == Decoded(Parcel(p))
             rd == M!Rs1Prime(p)
             rs2 == M!RdPrime(p)
             op == M!Bits(p, 11, 10)
             high == M!Bit(p, 12)
             w == M!Bits(p, 6, 5)
         IN  /\ op = 2 => f = R!IType(M!CImm6(p), rd, 7, rd, 19)
             /\ op # 2 /\ high = 1 => f = R!Zero
             /\ op = 0 /\ high = 0 => f = R!Fields(0, M!Rs2C(p), rd, 5, rd, 19)
             /\ op = 1 /\ high = 0 => f = R!Fields(32, M!Rs2C(p), rd, 5, rd, 19)
             /\ op = 3 /\ high = 0 /\ w = 0 => f = R!Fields(32, rs2, rd, 0, rd, 51)
             /\ op = 3 /\ high = 0 /\ w = 1 => f = R!Fields(0, rs2, rd, 4, rd, 51)
             /\ op = 3 /\ high = 0 /\ w = 2 => f = R!Fields(0, rs2, rd, 6, rd, 51)
             /\ op = 3 /\ high = 0 /\ w = 3 => f = R!Fields(0, rs2, rd, 7, rd, 51)
<1> DEFINE f == Decoded(Parcel(p))
           rd == M!Rs1Prime(p)
           rs2 == M!RdPrime(p)
           op == M!Bits(p, 11, 10)
           high == M!Bit(p, 12)
           w == M!Bits(p, 6, 5)
           sh == M!Rs2C(p)
           x == M!CImm6(p)
<1>1. f = R!AluC(p)
  BY Expanded1
<1>2. /\ R!cRdPrime(p) = rs2 /\ R!cRs1Prime(p) = rd /\ R!cShamt(p) = sh
      /\ R!Bit(p, 12) = high /\ R!Bits(p, 11, 10) = op /\ R!Bits(p, 6, 5) = w
  BY SameParcels
<1>3. R!cImm6(p) = x
  BY SameImm6
<1> DEFINE four == CASE w = 0 -> R!RType(32, rs2, rd, 0, rd)
                     [] w = 1 -> R!RType(0, rs2, rd, 4, rd)
                     [] w = 2 -> R!RType(0, rs2, rd, 6, rd)
                     [] w = 3 -> R!RType(0, rs2, rd, 7, rd)
<1>4. f = CASE op = 2 -> R!IType(x, rd, 7, rd, 19)
            [] op # 2 /\ high = 1 -> R!Zero
            [] op = 0 /\ high = 0 -> R!Fields(0, sh, rd, 5, rd, 19)
            [] op = 1 /\ high = 0 -> R!Fields(32, sh, rd, 5, rd, 19)
            [] op = 3 /\ high = 0 -> four
  BY <1>1, <1>2, <1>3, Zenon DEF R!AluC
<1>5. \A a, b, c, d, e : R!RType(a, b, c, d, e) = R!Fields(a, b, c, d, e, 51)
  BY DEF R!RType
<1> HIDE DEF f, rd, rs2, op, high, w, sh, x, four
<1>6. /\ op = 2 => f = R!IType(x, rd, 7, rd, 19)
      /\ op # 2 /\ high = 1 => f = R!Zero
      /\ op = 0 /\ high = 0 => f = R!Fields(0, sh, rd, 5, rd, 19)
      /\ op = 1 /\ high = 0 => f = R!Fields(32, sh, rd, 5, rd, 19)
  BY <1>4
<1>7. op = 3 /\ high = 0 => f = four
  BY <1>4
<1>8. /\ op = 3 /\ high = 0 /\ w = 0 => f = R!Fields(32, rs2, rd, 0, rd, 51)
      /\ op = 3 /\ high = 0 /\ w = 1 => f = R!Fields(0, rs2, rd, 4, rd, 51)
      /\ op = 3 /\ high = 0 /\ w = 2 => f = R!Fields(0, rs2, rd, 6, rd, 51)
      /\ op = 3 /\ high = 0 /\ w = 3 => f = R!Fields(0, rs2, rd, 7, rd, 51)
  BY <1>5, <1>7 DEF four
<1>9. QED
  BY <1>6, <1>8, Zenon DEF f, rd, rs2, op, high, w, sh, x

\* The operations of quadrant 1 in the model.
LEMMA ExecutedAlu ==
  ASSUME NEW s, s.pc % 2 = 0, NEW p \in Int, p % 4 = 1, M!Funct3C(p) = 4
  PROVE  LET m == M!Outcome(s, Parcel(p))
             rd == M!Rs1Prime(p)
             lhs == M!ReadReg(s, rd)
             rhs == M!ReadReg(s, M!RdPrime(p))
             op == M!Bits(p, 11, 10)
             high == M!Bit(p, 12)
             w == M!Bits(p, 6, 5)
             sh == M!Rs2C(p)
             next == M!Nothing(s, s.pc + 2)
         IN  /\ op = 2 => m = M!WriteReg(s, next, rd, lhs & Word(M!CImm6(p)))
             /\ op # 2 /\ high = 1 => m = M!Unsupported(s)
             /\ op \in {0, 1} /\ high = 0 /\ sh = 0 => m = next
             /\ op = 0 /\ high = 0 /\ sh # 0 => m = M!WriteReg(s, next, rd, Shr(lhs, sh))
             /\ op = 1 /\ high = 0 /\ sh # 0 => m = M!WriteReg(s, next, rd, Sra(lhs, sh))
             /\ op = 3 /\ high = 0 /\ w = 0 => m = M!WriteReg(s, next, rd, lhs - rhs)
             /\ op = 3 /\ high = 0 /\ w = 1 => m = M!WriteReg(s, next, rd, lhs ^^ rhs)
             /\ op = 3 /\ high = 0 /\ w = 2 => m = M!WriteReg(s, next, rd, lhs | rhs)
             /\ op = 3 /\ high = 0 /\ w = 3 => m = M!WriteReg(s, next, rd, lhs & rhs)
<1> DEFINE m == M!Outcome(s, Parcel(p))
           rd == M!Rs1Prime(p)
           lhs == M!ReadReg(s, rd)
           rhs == M!ReadReg(s, M!RdPrime(p))
           op == M!Bits(p, 11, 10)
           high == M!Bit(p, 12)
           w == M!Bits(p, 6, 5)
           sh == M!Rs2C(p)
           next == M!Nothing(s, s.pc + 2)
           To(v) == M!WriteReg(s, next, rd, v)
           four == CASE w = 0 -> lhs - rhs
                     [] w = 1 -> lhs ^^ rhs
                     [] w = 2 -> lhs | rhs
                     [] w = 3 -> lhs & rhs
<1>1. m = M!CompressedAlu(s, p)
  BY Executed1
<1>2. M!SequentialC(s) = next
  BY DEF M!SequentialC
<1>3. /\ \A x, y : M!&(x, y) = (x & y) /\ M!|(x, y) = (x | y) /\ M!^^(x, y) = (x ^^ y)
      /\ \A x, n : M!Shr(x, n) = Shr(x, n) /\ M!Sra(x, n) = Sra(x, n)
      /\ \A x : M!Word(x) = Word(x)
  BY SameBitwise, SameShifts, SameWords
<1>4. m = CASE op = 2 -> To(lhs & Word(M!CImm6(p)))
            [] op # 2 /\ high = 1 -> M!Unsupported(s)
            [] op \in {0, 1} /\ high = 0 ->
                 IF sh = 0 THEN next ELSE To(IF op = 0 THEN Shr(lhs, sh) ELSE Sra(lhs, sh))
            [] op = 3 /\ high = 0 -> To(four)
  BY <1>1, <1>2, <1>3, Zenon DEF M!CompressedAlu
<1> DEFINE x == lhs & Word(M!CImm6(p))
           shr == Shr(lhs, sh)
           sra == Sra(lhs, sh)
           sub == lhs - rhs
           xor == lhs ^^ rhs
           or == lhs | rhs
           and == lhs & rhs
<1>5. m = CASE op = 2 -> To(x)
            [] op # 2 /\ high = 1 -> M!Unsupported(s)
            [] op \in {0, 1} /\ high = 0 -> IF sh = 0 THEN next ELSE To(IF op = 0 THEN shr ELSE sra)
            [] op = 3 /\ high = 0 -> To(four)
  BY <1>4
<1>6. four = CASE w = 0 -> sub [] w = 1 -> xor [] w = 2 -> or [] w = 3 -> and
  BY Zenon
<1> HIDE DEF m, rd, lhs, rhs, op, high, w, sh, next, four, x, shr, sra, sub, xor, or, and
<1>7. /\ op = 2 => m = M!WriteReg(s, next, rd, x)
      /\ op # 2 /\ high = 1 => m = M!Unsupported(s)
      /\ op \in {0, 1} /\ high = 0 /\ sh = 0 => m = next
      /\ op = 0 /\ high = 0 /\ sh # 0 => m = M!WriteReg(s, next, rd, shr)
      /\ op = 1 /\ high = 0 /\ sh # 0 => m = M!WriteReg(s, next, rd, sra)
      /\ op = 3 /\ high = 0 => m = M!WriteReg(s, next, rd, four)
  BY <1>5
<1>8. (w = 0 => four = sub) /\ (w = 1 => four = xor) /\ (w = 2 => four = or) /\ (w = 3 => four = and)
  BY <1>6
<1>9. QED
  BY <1>7, <1>8, Zenon DEF m, rd, lhs, rhs, op, high, w, sh, next, x, shr, sra, sub, xor, or, and

\* The operations of quadrant 1 agree.
LEMMA CAluAgrees ==
  ASSUME XLEN = 32, NEW s, NEW t, Paired(s, t), NEW p \in Int, p % 4 = 1, M!Funct3C(p) = 4
  PROVE  Agrees(s, t, Parcel(p))
<1> DEFINE insn == Parcel(p)
           f == Decoded(insn)
           m == M!Outcome(s, insn)
           x == M!CImm6(p)
           rd == M!Rs1Prime(p)
           rs2 == M!RdPrime(p)
           op == M!Bits(p, 11, 10)
           high == M!Bit(p, 12)
           w == M!Bits(p, 6, 5)
           sh == M!Rs2C(p)
           lhs == M!ReadReg(s, rd)
           rhs == M!ReadReg(s, rs2)
           next == M!Nothing(s, s.pc + 2)
<1>1. s.pc \in Words /\ s.pc % 2 = 0
  BY Operands
<1>2. insn.len = 2
  BY <1>1, AsParcel
<1>3. /\ op = 2 => f = R!IType(x, rd, 7, rd, 19)
      /\ op # 2 /\ high = 1 => f = R!Zero
      /\ op = 0 /\ high = 0 => f = R!Fields(0, sh, rd, 5, rd, 19)
      /\ op = 1 /\ high = 0 => f = R!Fields(32, sh, rd, 5, rd, 19)
      /\ op = 3 /\ high = 0 /\ w = 0 => f = R!Fields(32, rs2, rd, 0, rd, 51)
      /\ op = 3 /\ high = 0 /\ w = 1 => f = R!Fields(0, rs2, rd, 4, rd, 51)
      /\ op = 3 /\ high = 0 /\ w = 2 => f = R!Fields(0, rs2, rd, 6, rd, 51)
      /\ op = 3 /\ high = 0 /\ w = 3 => f = R!Fields(0, rs2, rd, 7, rd, 51)
  BY ExpandedAlu, Zenon
<1>4. /\ op = 2 => m = M!WriteReg(s, next, rd, lhs & Word(x))
      /\ op # 2 /\ high = 1 => m = M!Unsupported(s)
      /\ op \in {0, 1} /\ high = 0 /\ sh = 0 => m = next
      /\ op = 0 /\ high = 0 /\ sh # 0 => m = M!WriteReg(s, next, rd, Shr(lhs, sh))
      /\ op = 1 /\ high = 0 /\ sh # 0 => m = M!WriteReg(s, next, rd, Sra(lhs, sh))
      /\ op = 3 /\ high = 0 /\ w = 0 => m = M!WriteReg(s, next, rd, lhs - rhs)
      /\ op = 3 /\ high = 0 /\ w = 1 => m = M!WriteReg(s, next, rd, lhs ^^ rhs)
      /\ op = 3 /\ high = 0 /\ w = 2 => m = M!WriteReg(s, next, rd, lhs | rhs)
      /\ op = 3 /\ high = 0 /\ w = 3 => m = M!WriteReg(s, next, rd, lhs & rhs)
  BY <1>1, ExecutedAlu, Zenon
<1>5. rd \in 8 .. 15 /\ rs2 \in 8 .. 15 /\ sh \in 0 .. 31
  BY ParcelFields
<1>6. Imm12(x)
  BY ParcelOffsets
<1>7. x \in Int
  BY <1>6 DEF Imm12
<1>8. op \in 0 .. 3 /\ high \in 0 .. 1 /\ w \in 0 .. 3
  BY Digits
<1>9. lhs \in Words /\ rhs \in Words
  BY Operands
<1>10. rd # 0 /\ lhs = s.regs[rd]
  <2>1. rd \in 1 .. 15 /\ rd # 0
    BY <1>5
  <2>2. QED
    BY <2>1 DEF M!ReadReg
<1>11. \A y \in Words : Word(y) = y
  BY WordFacts
<1>12. Word(x) \in Words
  BY <1>7, WordFacts
<1>13. /\ (lhs & Word(x)) \in Words /\ (lhs ^^ rhs) \in Words /\ (lhs | rhs) \in Words /\ (lhs & rhs) \in Words
  BY <1>9, <1>12, BitwiseWords
<1>14. Shr(lhs, sh) \in Words /\ Sra(lhs, sh) \in Words
  BY <1>5, <1>9, ShiftWords
<1>15. Shr(lhs, 0) = lhs /\ Sra(lhs, 0) = lhs
  BY <1>9, ShiftFacts
<1>16. f = Decoded(insn) /\ m = M!Outcome(s, insn) /\ next = M!Nothing(s, s.pc + 2) /\ insn = Parcel(p)
       /\ lhs = M!ReadReg(s, rd) /\ rhs = M!ReadReg(s, rs2)
  OBVIOUS
<1> HIDE DEF insn, f, m, x, rd, rs2, op, high, w, sh, lhs, rhs, next
<1>17. /\ rd \in 0 .. 15 /\ rs2 \in 0 .. 15 /\ rd \in 0 .. 31 /\ rs2 \in 0 .. 31
       /\ 0 \in 0 .. 127 /\ 32 \in 0 .. 127 /\ 19 \in 0 .. 127 /\ 51 \in 0 .. 127
       /\ 0 \in 0 .. 7 /\ 4 \in 0 .. 7 /\ 5 \in 0 .. 7 /\ 6 \in 0 .. 7 /\ 7 \in 0 .. 7
  BY <1>5, SMT
<1>18. CASE op = 2
  <2>1. IsI(f, x, rd, 7, rd, 19)
    BY <1>3, <1>6, <1>17, <1>18, ExpandedI, ZenonT(40)
  <2>2. f \in InsnFields /\ f.opcode = 19 /\ f.funct3 = 7 /\ f.rd = rd /\ f.rs1 = rd /\ M!ImmI(f) = x
    BY <2>1 DEF IsI
  <2>3. R!isAluImm(f) /\ f.rd \in 0 .. 15 /\ f.rs1 \in 0 .. 15 /\ f.opcode # 51
    BY <1>17, <2>2 DEF R!isAluImm
  <2>4. AluValue(s, f) = (lhs & Word(x))
    BY <1>16, <2>2, AluValues
  <2>5. Word(lhs & Word(x)) = AluValue(s, f)
    BY <1>11, <1>13, <2>4
  <2>6. M!Outcome(s, insn) = M!WriteReg(s, M!Nothing(s, s.pc + 2), f.rd, lhs & Word(x))
    BY <1>4, <1>16, <1>18, <2>2
  <2>7. Agrees(s, t, insn)
    BY <1>2, <1>16, <2>2, <2>3, <2>5, <2>6, ParcelAlu
  <2>8. QED
    BY <1>16, <2>7
<1>19. CASE op # 2 /\ high = 1
  <2>1. Decoded(insn) = R!Zero /\ M!Outcome(s, insn) = M!Unsupported(s)
    BY <1>3, <1>4, <1>16, <1>19
  <2>2. Agrees(s, t, insn)
    BY <2>1, ParcelIllegal
  <2>3. QED
    BY <1>16, <2>2
<1>20. CASE op = 0 /\ high = 0
  <2>1. f = R!Fields(0, sh, rd, 5, rd, 19)
    BY <1>3, <1>20
  <2>2. IsR(f, 0, sh, rd, 5, rd, 19)
    BY <1>5, <1>17, <2>1, ExpandedR
  <2>3. f \in InsnFields /\ f.opcode = 19 /\ f.funct3 = 5 /\ f.rd = rd /\ f.rs1 = rd /\ f.rs2 = sh /\ f.funct7 = 0
    BY <2>2 DEF IsR
  <2>4. R!isAluImm(f) /\ f.rd \in 0 .. 15 /\ f.rs1 \in 0 .. 15 /\ f.opcode # 51
    BY <1>17, <2>3 DEF R!isAluImm
  <2>5. AluValue(s, f) = Shr(lhs, sh)
    BY <1>16, <2>3, AluValues
  <2>6. CASE sh = 0
    <3>1. M!Outcome(s, insn) = M!Nothing(s, s.pc + 2)
      BY <1>4, <1>16, <1>20, <2>6
    <3>2. AluValue(s, f) = s.regs[f.rd]
      BY <1>10, <1>15, <2>3, <2>5, <2>6
    <3>3. Agrees(s, t, insn)
      BY <1>2, <1>16, <2>3, <2>4, <3>1, <3>2, ParcelAluStays
    <3>4. QED
      BY <1>16, <3>3
  <2>7. CASE sh # 0
    <3>1. M!Outcome(s, insn) = M!WriteReg(s, M!Nothing(s, s.pc + 2), f.rd, Shr(lhs, sh))
      BY <1>4, <1>16, <1>20, <2>3, <2>7
    <3>2. Word(Shr(lhs, sh)) = AluValue(s, f)
      BY <1>11, <1>14, <2>5
    <3>3. Agrees(s, t, insn)
      BY <1>2, <1>16, <2>3, <2>4, <3>1, <3>2, ParcelAlu
    <3>4. QED
      BY <1>16, <3>3
  <2>8. QED
    BY <2>6, <2>7
<1>21. CASE op = 1 /\ high = 0
  <2>1. f = R!Fields(32, sh, rd, 5, rd, 19)
    BY <1>3, <1>21
  <2>2. IsR(f, 32, sh, rd, 5, rd, 19)
    BY <1>5, <1>17, <2>1, ExpandedR
  <2>3. f \in InsnFields /\ f.opcode = 19 /\ f.funct3 = 5 /\ f.rd = rd /\ f.rs1 = rd /\ f.rs2 = sh /\ f.funct7 = 32
    BY <2>2 DEF IsR
  <2>4. R!isAluImm(f) /\ f.rd \in 0 .. 15 /\ f.rs1 \in 0 .. 15 /\ f.opcode # 51
    BY <1>17, <2>3 DEF R!isAluImm
  <2>5. AluValue(s, f) = Sra(lhs, sh)
    BY <1>16, <2>3, AluValues
  <2>6. CASE sh = 0
    <3>1. M!Outcome(s, insn) = M!Nothing(s, s.pc + 2)
      BY <1>4, <1>16, <1>21, <2>6
    <3>2. AluValue(s, f) = s.regs[f.rd]
      BY <1>10, <1>15, <2>3, <2>5, <2>6
    <3>3. Agrees(s, t, insn)
      BY <1>2, <1>16, <2>3, <2>4, <3>1, <3>2, ParcelAluStays
    <3>4. QED
      BY <1>16, <3>3
  <2>7. CASE sh # 0
    <3>1. M!Outcome(s, insn) = M!WriteReg(s, M!Nothing(s, s.pc + 2), f.rd, Sra(lhs, sh))
      BY <1>4, <1>16, <1>21, <2>3, <2>7
    <3>2. Word(Sra(lhs, sh)) = AluValue(s, f)
      BY <1>11, <1>14, <2>5
    <3>3. Agrees(s, t, insn)
      BY <1>2, <1>16, <2>3, <2>4, <3>1, <3>2, ParcelAlu
    <3>4. QED
      BY <1>16, <3>3
  <2>8. QED
    BY <2>6, <2>7
<1>22. CASE op = 3 /\ high = 0 /\ w = 0
  <2>1. f = R!Fields(32, rs2, rd, 0, rd, 51)
    BY <1>3, <1>22
  <2>2. IsR(f, 32, rs2, rd, 0, rd, 51)
    BY <1>17, <2>1, ExpandedR
  <2>3. f \in InsnFields /\ f.opcode = 51 /\ f.funct3 = 0 /\ f.rd = rd /\ f.rs1 = rd /\ f.rs2 = rs2 /\ f.funct7 = 32
    BY <2>2 DEF IsR
  <2>4. R!isAluReg(f) /\ f.rd \in 0 .. 15 /\ f.rs1 \in 0 .. 15 /\ f.rs2 \in 0 .. 15
    BY <1>17, <2>3 DEF R!isAluReg
  <2>5. Word(lhs - rhs) = AluValue(s, f)
    BY <1>11, <1>13, <1>16, <2>3, AluValues
  <2>6. M!Outcome(s, insn) = M!WriteReg(s, M!Nothing(s, s.pc + 2), f.rd, lhs - rhs)
    BY <1>4, <1>16, <1>22, <2>3
  <2>7. Agrees(s, t, insn)
    BY <1>2, <1>16, <2>3, <2>4, <2>5, <2>6, ParcelAlu
  <2>8. QED
    BY <1>16, <2>7
<1>23. CASE op = 3 /\ high = 0 /\ w = 1
  <2>1. f = R!Fields(0, rs2, rd, 4, rd, 51)
    BY <1>3, <1>23
  <2>2. IsR(f, 0, rs2, rd, 4, rd, 51)
    BY <1>17, <2>1, ExpandedR
  <2>3. f \in InsnFields /\ f.opcode = 51 /\ f.funct3 = 4 /\ f.rd = rd /\ f.rs1 = rd /\ f.rs2 = rs2 /\ f.funct7 = 0
    BY <2>2 DEF IsR
  <2>4. R!isAluReg(f) /\ f.rd \in 0 .. 15 /\ f.rs1 \in 0 .. 15 /\ f.rs2 \in 0 .. 15
    BY <1>17, <2>3 DEF R!isAluReg
  <2>5. Word(lhs ^^ rhs) = AluValue(s, f)
    BY <1>11, <1>13, <1>16, <2>3, AluValues
  <2>6. M!Outcome(s, insn) = M!WriteReg(s, M!Nothing(s, s.pc + 2), f.rd, lhs ^^ rhs)
    BY <1>4, <1>16, <1>23, <2>3
  <2>7. Agrees(s, t, insn)
    BY <1>2, <1>16, <2>3, <2>4, <2>5, <2>6, ParcelAlu
  <2>8. QED
    BY <1>16, <2>7
<1>24. CASE op = 3 /\ high = 0 /\ w = 2
  <2>1. f = R!Fields(0, rs2, rd, 6, rd, 51)
    BY <1>3, <1>24
  <2>2. IsR(f, 0, rs2, rd, 6, rd, 51)
    BY <1>17, <2>1, ExpandedR
  <2>3. f \in InsnFields /\ f.opcode = 51 /\ f.funct3 = 6 /\ f.rd = rd /\ f.rs1 = rd /\ f.rs2 = rs2 /\ f.funct7 = 0
    BY <2>2 DEF IsR
  <2>4. R!isAluReg(f) /\ f.rd \in 0 .. 15 /\ f.rs1 \in 0 .. 15 /\ f.rs2 \in 0 .. 15
    BY <1>17, <2>3 DEF R!isAluReg
  <2>5. Word(lhs | rhs) = AluValue(s, f)
    BY <1>11, <1>13, <1>16, <2>3, AluValues
  <2>6. M!Outcome(s, insn) = M!WriteReg(s, M!Nothing(s, s.pc + 2), f.rd, lhs | rhs)
    BY <1>4, <1>16, <1>24, <2>3
  <2>7. Agrees(s, t, insn)
    BY <1>2, <1>16, <2>3, <2>4, <2>5, <2>6, ParcelAlu
  <2>8. QED
    BY <1>16, <2>7
<1>25. CASE op = 3 /\ high = 0 /\ w = 3
  <2>1. f = R!Fields(0, rs2, rd, 7, rd, 51)
    BY <1>3, <1>25
  <2>2. IsR(f, 0, rs2, rd, 7, rd, 51)
    BY <1>17, <2>1, ExpandedR
  <2>3. f \in InsnFields /\ f.opcode = 51 /\ f.funct3 = 7 /\ f.rd = rd /\ f.rs1 = rd /\ f.rs2 = rs2 /\ f.funct7 = 0
    BY <2>2 DEF IsR
  <2>4. R!isAluReg(f) /\ f.rd \in 0 .. 15 /\ f.rs1 \in 0 .. 15 /\ f.rs2 \in 0 .. 15
    BY <1>17, <2>3 DEF R!isAluReg
  <2>5. Word(lhs & rhs) = AluValue(s, f)
    BY <1>11, <1>13, <1>16, <2>3, AluValues
  <2>6. M!Outcome(s, insn) = M!WriteReg(s, M!Nothing(s, s.pc + 2), f.rd, lhs & rhs)
    BY <1>4, <1>16, <1>25, <2>3
  <2>7. Agrees(s, t, insn)
    BY <1>2, <1>16, <2>3, <2>4, <2>5, <2>6, ParcelAlu
  <2>8. QED
    BY <1>16, <2>7
<1>26. QED
  BY <1>8, <1>18, <1>19, <1>20, <1>21, <1>22, <1>23, <1>24, <1>25

\* Every parcel of quadrant 1.
LEMMA Quadrant1Agrees ==
  ASSUME XLEN = 32, NEW s, NEW t, Paired(s, t), NEW p \in Int, p % 4 = 1
  PROVE  Agrees(s, t, Parcel(p))
<1>1. M!Funct3C(p) \in 0 .. 7
  BY ParcelFields
<1>2. CASE M!Funct3C(p) = 0
  BY <1>2, CAddiAgrees
<1>3. CASE M!Funct3C(p) \in {1, 5}
  BY <1>3, CJumpAgrees
<1>4. CASE M!Funct3C(p) = 2
  BY <1>4, CLiAgrees
<1>5. CASE M!Funct3C(p) = 3
  BY <1>5, CLuiAgrees
<1>6. CASE M!Funct3C(p) = 4
  BY <1>6, CAluAgrees
<1>7. CASE M!Funct3C(p) \in {6, 7}
  BY <1>7, CBranchAgrees
<1>8. QED
  BY <1>1, <1>2, <1>3, <1>4, <1>5, <1>6, <1>7

\* Quadrant 2.
LEMMA Expanded2 ==
  ASSUME NEW p \in Int, p % 4 = 2
  PROVE  LET f == Decoded(Parcel(p))
             k == M!Funct3C(p)
             rd == M!RdRs1(p)
             rs2 == M!Rs2C(p)
             link == M!Bit(p, 12)
         IN  /\ k = 0 /\ link = 0 => f = R!Fields(0, rs2, rd, 1, rd, 19)
             /\ k = 0 /\ link = 1 => f = R!Zero
             /\ k = 2 /\ rd # 0 => f = R!IType(M!CLwspImm(p), 2, 2, rd, 3)
             /\ k = 2 /\ rd = 0 => f = R!Zero
             /\ k = 4 /\ rs2 = 0 /\ rd # 0 => f = R!IType(0, rd, 0, link, 103)
             /\ k = 4 /\ rs2 # 0 => f = R!Fields(0, rs2, rd * link, 0, rd, 51)
             /\ k = 4 /\ rs2 = 0 /\ rd = 0 /\ link = 1 => f = R!IType(1, 0, 0, 0, 115)
             /\ k = 4 /\ rs2 = 0 /\ rd = 0 /\ link = 0 => f = R!Zero
             /\ k = 6 => f = R!SType(M!CSwspImm(p), rs2, 2, 2, 35)
             /\ k \notin {0, 2, 4, 6} => f = R!Zero
<1> DEFINE f == Decoded(Parcel(p))
           k == M!Funct3C(p)
           rd == M!RdRs1(p)
           rs2 == M!Rs2C(p)
           link == M!Bit(p, 12)
           lw == M!CLwspImm(p)
           sw == M!CSwspImm(p)
<1>1. f = R!DecodeRvc(p)
  BY DEF Decoded, Parcel
<1>2. R!DecodeRvc(p) = R!Quadrant2(p)
  BY SMT DEF R!DecodeRvc
<1>3. /\ R!cRdRs1(p) = rd /\ R!cRs2(p) = rs2 /\ R!cShamt(p) = rs2 /\ R!Bits(p, 15, 13) = k /\ R!Bit(p, 12) = link
  BY SameParcels
<1>4. R!cLwspImm(p) = lw /\ R!cSwspImm(p) = sw
  BY SameLwsp, SameSwsp
<1>5. f = CASE k = 0 /\ link = 0 -> R!Fields(0, rs2, rd, 1, rd, 19)
            [] k = 2 /\ rd # 0 -> R!IType(lw, 2, 2, rd, 3)
            [] k = 4 /\ rs2 = 0 /\ rd # 0 -> R!IType(0, rd, 0, link, 103)
            [] k = 4 /\ rs2 # 0 -> R!RType(0, rs2, rd * link, 0, rd)
            [] k = 4 /\ rs2 = 0 /\ rd = 0 /\ link = 1 -> R!IType(1, 0, 0, 0, 115)
            [] k = 6 -> R!SType(sw, rs2, 2, 2, 35)
            [] OTHER -> R!Zero
  BY <1>1, <1>2, <1>3, <1>4, Zenon DEF R!Quadrant2
<1>6. R!RType(0, rs2, rd * link, 0, rd) = R!Fields(0, rs2, rd * link, 0, rd, 51)
  BY DEF R!RType
<1> DEFINE a == R!Fields(0, rs2, rd, 1, rd, 19)
           b == R!IType(lw, 2, 2, rd, 3)
           c == R!IType(0, rd, 0, link, 103)
           d == R!RType(0, rs2, rd * link, 0, rd)
           e == R!IType(1, 0, 0, 0, 115)
           g == R!SType(sw, rs2, 2, 2, 35)
<1>7. f = CASE k = 0 /\ link = 0 -> a
            [] k = 2 /\ rd # 0 -> b
            [] k = 4 /\ rs2 = 0 /\ rd # 0 -> c
            [] k = 4 /\ rs2 # 0 -> d
            [] k = 4 /\ rs2 = 0 /\ rd = 0 /\ link = 1 -> e
            [] k = 6 -> g
            [] OTHER -> R!Zero
  BY <1>5
<1> HIDE DEF f, k, rd, rs2, link, lw, sw, a, b, c, d, e, g
<1>8. /\ k = 0 /\ link = 0 => f = a
      /\ k = 0 /\ link = 1 => f = R!Zero
      /\ k = 2 /\ rd # 0 => f = b
      /\ k = 2 /\ rd = 0 => f = R!Zero
      /\ k = 4 /\ rs2 = 0 /\ rd # 0 => f = c
      /\ k = 4 /\ rs2 # 0 => f = d
      /\ k = 4 /\ rs2 = 0 /\ rd = 0 /\ link = 1 => f = e
      /\ k = 4 /\ rs2 = 0 /\ rd = 0 /\ link = 0 => f = R!Zero
      /\ k = 6 => f = g
      /\ k \notin {0, 2, 4, 6} => f = R!Zero
  BY <1>7
<1>9. d = R!Fields(0, rs2, rd * link, 0, rd, 51)
  BY <1>6 DEF d
<1>10. QED
  BY <1>8, <1>9, Zenon DEF f, k, rd, rs2, link, lw, sw, a, b, c, e, g

\* The cases of quadrant 2 in the model.
LEMMA Executed2 ==
  ASSUME NEW s, s.pc % 2 = 0, NEW p \in Int, p % 4 = 2
  PROVE  LET m == M!Outcome(s, Parcel(p))
             k == M!Funct3C(p)
             rd == M!RdRs1(p)
             rs2 == M!Rs2C(p)
             link == M!Bit(p, 12)
             next == M!Nothing(s, s.pc + 2)
             target == M!Nothing(s, AlignDown(M!ReadReg(s, rd), 2))
         IN  /\ k = 0 /\ link = 1 => m = M!Unsupported(s)
             /\ k = 0 /\ link = 0 =>
                  m = IF rd > 15 THEN M!HighRegister(s) ELSE IF rs2 = 0 THEN next
                      ELSE M!WriteReg(s, next, rd, Shl(M!ReadReg(s, rd), rs2))
             /\ k = 2 =>
                  m = IF rd > 15 THEN M!HighRegister(s) ELSE IF rd = 0 THEN M!Illegal(s)
                      ELSE M!LoadData(s, next, rd, M!Word(M!ReadReg(s, 2) + M!CLwspImm(p)), 4, TRUE)
             /\ k = 4 /\ (rd > 15 \/ rs2 > 15) => m = M!HighRegister(s)
             /\ k = 4 /\ rd = 0 /\ rs2 = 0 /\ link = 1 => m = M!Raise(s, "ebreak")
             /\ k = 4 /\ rd = 0 /\ rs2 = 0 /\ link = 0 => m = M!Raise(s, "illegal_instruction")
             /\ k = 4 /\ rd <= 15 /\ rd # 0 /\ rs2 = 0 /\ link = 1 => m = M!WriteReg(s, target, 1, s.pc + 2)
             /\ k = 4 /\ rd <= 15 /\ rd # 0 /\ rs2 = 0 /\ link = 0 => m = target
             /\ k = 4 /\ rd <= 15 /\ rs2 <= 15 /\ rs2 # 0 /\ link = 1 =>
                  m = M!WriteReg(s, next, rd, M!ReadReg(s, rd) + M!ReadReg(s, rs2))
             /\ k = 4 /\ rd <= 15 /\ rs2 <= 15 /\ rs2 # 0 /\ link = 0 => m = M!WriteReg(s, next, rd, M!ReadReg(s, rs2))
             /\ k = 6 =>
                  m = IF rs2 > 15 THEN M!HighRegister(s)
                      ELSE M!StoreData(s, next, M!Word(M!ReadReg(s, 2) + M!CSwspImm(p)), 4, M!ReadReg(s, rs2))
             /\ k \notin {0, 2, 4, 6} => m = M!Unsupported(s)
<1> DEFINE m == M!Outcome(s, Parcel(p))
           k == M!Funct3C(p)
           rd == M!RdRs1(p)
           rs2 == M!Rs2C(p)
           link == M!Bit(p, 12)
           next == M!Nothing(s, s.pc + 2)
           target == M!Nothing(s, AlignDown(M!ReadReg(s, rd), 2))
           cr == M!CompressedCr(s, p)
           slli == M!WriteReg(s, next, rd, Shl(M!ReadReg(s, rd), rs2))
           load == M!LoadData(s, next, rd, M!Word(M!ReadReg(s, 2) + M!CLwspImm(p)), 4, TRUE)
           store == M!StoreData(s, next, M!Word(M!ReadReg(s, 2) + M!CSwspImm(p)), 4, M!ReadReg(s, rs2))
           jalr == M!WriteReg(s, target, 1, s.pc + 2)
           add == M!WriteReg(s, next, rd, M!ReadReg(s, rd) + M!ReadReg(s, rs2))
           mv == M!WriteReg(s, next, rd, M!ReadReg(s, rs2))
<1>1. m = M!ExecuteCompressed(s, p)
  BY AsParcel
<1>2. M!ExecuteCompressed(s, p) = M!CompressedQ2(s, p)
  BY SMT DEF M!ExecuteCompressed
<1>3. M!SequentialC(s) = next
  BY DEF M!SequentialC
<1>4. (\A x, n : M!Shl(x, n) = Shl(x, n)) /\ (\A x, n : M!AlignDown(x, n) = AlignDown(x, n))
  BY SameShifts, SameWords
<1>5. m = CASE k = 0 -> IF link = 1 THEN M!Unsupported(s)
                        ELSE IF rd > 15 THEN M!HighRegister(s)
                        ELSE IF rs2 = 0 THEN next
                        ELSE slli
            [] k = 2 -> IF rd > 15 THEN M!HighRegister(s) ELSE IF rd = 0 THEN M!Illegal(s) ELSE load
            [] k = 4 -> cr
            [] k = 6 -> IF rs2 > 15 THEN M!HighRegister(s) ELSE store
            [] OTHER -> M!Unsupported(s)
  BY <1>1, <1>2, <1>3, <1>4, Zenon DEF M!CompressedQ2
<1>6. rd \in 0 .. 31 /\ rs2 \in 0 .. 31
  BY ParcelFields
<1>7. M!Legal({rd, rs2}) <=> rd <= 15 /\ rs2 <= 15
  BY DEF M!Legal
<1> DEFINE legal == M!Legal({rd, rs2})
           sum == IF link = 1 THEN M!ReadReg(s, rd) + M!ReadReg(s, rs2) ELSE M!ReadReg(s, rs2)
           cause == IF link = 1 THEN "ebreak" ELSE "illegal_instruction"
<1>8. cr = CASE ~legal -> M!HighRegister(s)
             [] legal /\ rs2 = 0 ->
                  IF rd = 0 THEN M!Raise(s, cause) ELSE IF link = 1 THEN jalr ELSE target
             [] legal /\ rs2 # 0 -> M!WriteReg(s, next, rd, sum)
  BY <1>3, <1>4, Zenon DEF M!CompressedCr
<1>9. link = 1 => M!WriteReg(s, next, rd, sum) = add /\ cause = "ebreak"
  OBVIOUS
<1>10. link = 0 => M!WriteReg(s, next, rd, sum) = mv /\ cause = "illegal_instruction"
  OBVIOUS
<1> DEFINE either == M!WriteReg(s, next, rd, sum)
           raise == M!Raise(s, cause)
<1>11. link = 1 => either = add /\ raise = M!Raise(s, "ebreak")
  BY <1>9
<1>12. link = 0 => either = mv /\ raise = M!Raise(s, "illegal_instruction")
  BY <1>10
<1>13. cr = CASE ~legal -> M!HighRegister(s)
              [] legal /\ rs2 = 0 -> IF rd = 0 THEN raise ELSE IF link = 1 THEN jalr ELSE target
              [] legal /\ rs2 # 0 -> either
  BY <1>8
<1>14. legal <=> rd <= 15 /\ rs2 <= 15
  BY <1>7
<1> HIDE DEF m, k, rd, rs2, link, next, target, cr, slli, load, store, jalr, add, mv, legal, sum, cause, either, raise
<1>15. /\ k = 0 /\ link = 1 => m = M!Unsupported(s)
       /\ k = 0 /\ link = 0 => m = IF rd > 15 THEN M!HighRegister(s) ELSE IF rs2 = 0 THEN next ELSE slli
       /\ k = 2 => m = IF rd > 15 THEN M!HighRegister(s) ELSE IF rd = 0 THEN M!Illegal(s) ELSE load
       /\ k = 4 => m = cr
       /\ k = 6 => m = IF rs2 > 15 THEN M!HighRegister(s) ELSE store
       /\ k \notin {0, 2, 4, 6} => m = M!Unsupported(s)
  BY <1>5
<1>16. /\ rd > 15 \/ rs2 > 15 => cr = M!HighRegister(s)
       /\ rd <= 15 /\ rs2 = 0 => cr = IF rd = 0 THEN raise ELSE IF link = 1 THEN jalr ELSE target
       /\ rd <= 15 /\ rs2 <= 15 /\ rs2 # 0 => cr = either
  BY <1>6, <1>13, <1>14, SMT
<1>17. /\ rd > 15 \/ rs2 > 15 => cr = M!HighRegister(s)
       /\ rd = 0 /\ rs2 = 0 /\ link = 1 => cr = M!Raise(s, "ebreak")
       /\ rd = 0 /\ rs2 = 0 /\ link = 0 => cr = M!Raise(s, "illegal_instruction")
       /\ rd <= 15 /\ rd # 0 /\ rs2 = 0 /\ link = 1 => cr = jalr
       /\ rd <= 15 /\ rd # 0 /\ rs2 = 0 /\ link = 0 => cr = target
       /\ rd <= 15 /\ rs2 <= 15 /\ rs2 # 0 /\ link = 1 => cr = add
       /\ rd <= 15 /\ rs2 <= 15 /\ rs2 # 0 /\ link = 0 => cr = mv
  BY <1>11, <1>12, <1>16, SMT
<1>18. QED
  BY <1>15, <1>17, Zenon DEF m, k, rd, rs2, link, next, target, slli, load, store, jalr, add, mv

\* C.SLLI.
LEMMA CSlliAgrees ==
  ASSUME XLEN = 32, NEW s, NEW t, Paired(s, t), NEW p \in Int, p % 4 = 2, M!Funct3C(p) = 0
  PROVE  Agrees(s, t, Parcel(p))
<1> DEFINE insn == Parcel(p)
           f == Decoded(insn)
           m == M!Outcome(s, insn)
           rd == M!RdRs1(p)
           rs2 == M!Rs2C(p)
           link == M!Bit(p, 12)
           next == M!Nothing(s, s.pc + 2)
<1>1. s.pc \in Words /\ s.pc % 2 = 0
  BY Operands
<1>2. insn.len = 2 /\ insn.len \in {2, 4}
  BY <1>1, AsParcel
<1>3. rd \in 0 .. 31 /\ rs2 \in 0 .. 31
  BY ParcelFields
<1>4. link \in 0 .. 1
  BY Digits
<1>5. f = Decoded(insn) /\ m = M!Outcome(s, insn) /\ next = M!Nothing(s, s.pc + 2) /\ insn = Parcel(p)
  OBVIOUS
<1>6. (link = 0 => f = R!Fields(0, rs2, rd, 1, rd, 19)) /\ (link = 1 => f = R!Zero)
  BY Expanded2, Zenon
<1>7. /\ link = 1 => m = M!Unsupported(s)
      /\ link = 0 => m = IF rd > 15 THEN M!HighRegister(s) ELSE IF rs2 = 0 THEN next
                         ELSE M!WriteReg(s, next, rd, Shl(M!ReadReg(s, rd), rs2))
  BY <1>1, Executed2, Zenon
<1> HIDE DEF insn, f, m, rd, rs2, link, next
<1>8. M!ReadReg(s, rd) \in Words
  BY Operands
<1>9. \A y \in Words : Word(y) = y
  BY WordFacts
<1>10. Shl(M!ReadReg(s, rd), rs2) \in Words
  BY <1>3, <1>8, ShiftWords
<1>11. Shl(M!ReadReg(s, rd), 0) = M!ReadReg(s, rd)
  BY <1>8, ShiftFacts
<1>12. 0 \in 0 .. 127 /\ 1 \in 0 .. 7 /\ 19 \in 0 .. 127
  BY SMT
<1>13. CASE link = 1
  <2>1. Decoded(insn) = R!Zero /\ M!Outcome(s, insn) = M!Unsupported(s)
    BY <1>5, <1>6, <1>7, <1>13
  <2>2. Agrees(s, t, insn)
    BY <2>1, ParcelIllegal
  <2>3. QED
    BY <1>5, <2>2
<1>14. CASE link = 0
  <2>1. IsR(f, 0, rs2, rd, 1, rd, 19)
    <3>1. IsR(R!Fields(0, rs2, rd, 1, rd, 19), 0, rs2, rd, 1, rd, 19)
      BY <1>3, <1>12 DEF R!Fields, InsnFields, IsR
    <3>2. QED
      BY <1>6, <1>14, <3>1
  <2>2. f \in InsnFields /\ f.opcode = 19 /\ f.funct3 = 1 /\ f.rd = rd /\ f.rs1 = rd /\ f.rs2 = rs2 /\ f.funct7 = 0
    BY <2>1 DEF IsR
  <2>3. R!isAluImm(f) /\ f.opcode # 51
    BY <2>2 DEF R!isAluImm
  <2>4. AluValue(s, f) = Shl(M!ReadReg(s, rd), rs2)
    BY <2>2, AluValues
  <2>5. CASE rd > 15
    <3>1. R!execKnown(f) /\ R!regAccessIllegal(f)
      BY <2>2, <2>3, <2>5 DEF R!execKnown, R!execUsesRd, R!regAccessIllegal
    <3>2. f.opcode \in {55, 23, 111, 103, 99, 19, 51}
      BY <2>2
    <3>3. M!Outcome(s, insn) = M!HighRegister(s)
      BY <1>5, <1>7, <1>14, <2>5
    <3>4. Agrees(s, t, insn)
      BY <1>5, <3>1, <3>2, <3>3, HighAgrees
    <3>5. QED
      BY <1>5, <3>4
  <2>6. CASE rd <= 15 /\ rs2 = 0
    <3>1. f.rd \in 0 .. 15 /\ f.rs1 \in 0 .. 15
      BY <1>3, <2>2, <2>6
    <3>2. M!Outcome(s, insn) = M!Nothing(s, s.pc + 2)
      BY <1>3, <1>5, <1>7, <1>14, <2>6
    <3>3. rd = 0 \/ M!ReadReg(s, rd) = s.regs[rd]
      BY <2>2, <3>1 DEF M!ReadReg
    <3>4. f.rd = 0 \/ AluValue(s, f) = s.regs[f.rd]
      BY <1>11, <2>2, <2>4, <2>6, <3>3
    <3>5. Agrees(s, t, insn)
      BY <1>2, <1>5, <2>2, <2>3, <3>1, <3>2, <3>4, ParcelAluStays
    <3>6. QED
      BY <1>5, <3>5
  <2>7. CASE rd <= 15 /\ rs2 # 0
    <3>1. f.rd \in 0 .. 15 /\ f.rs1 \in 0 .. 15
      BY <1>3, <2>2, <2>7
    <3>2. M!Outcome(s, insn) = M!WriteReg(s, M!Nothing(s, s.pc + 2), f.rd, Shl(M!ReadReg(s, rd), rs2))
      BY <1>3, <1>5, <1>7, <1>14, <2>2, <2>7
    <3>3. Word(Shl(M!ReadReg(s, rd), rs2)) = AluValue(s, f)
      BY <1>9, <1>10, <2>4
    <3>4. Agrees(s, t, insn)
      BY <1>2, <1>5, <2>2, <2>3, <3>1, <3>2, <3>3, ParcelAlu
    <3>5. QED
      BY <1>5, <3>4
  <2>8. QED
    BY <1>3, <2>5, <2>6, <2>7
<1>15. QED
  BY <1>4, <1>13, <1>14

\* C.LWSP: a misaligned address can hide a register of the upper half.
LEMMA CLwspAgrees ==
  ASSUME XLEN = 32, NEW s, NEW t, Paired(s, t), NEW p \in Int, p % 4 = 2, M!Funct3C(p) = 2
  PROVE  Agrees(s, t, Parcel(p))
<1> DEFINE insn == Parcel(p)
           f == Decoded(insn)
           m == M!Outcome(s, insn)
           rd == M!RdRs1(p)
           rs2 == M!Rs2C(p)
           link == M!Bit(p, 12)
           next == M!Nothing(s, s.pc + 2)
           x == M!CLwspImm(p)
<1>1. s.pc \in Words /\ s.pc % 2 = 0
  BY Operands
<1>2. insn.len = 2 /\ insn.len \in {2, 4}
  BY <1>1, AsParcel
<1>3. rd \in 0 .. 31 /\ rs2 \in 0 .. 31
  BY ParcelFields
<1>4. link \in 0 .. 1
  BY Digits
<1>5. f = Decoded(insn) /\ m = M!Outcome(s, insn) /\ next = M!Nothing(s, s.pc + 2) /\ insn = Parcel(p)
  OBVIOUS
<1>6. (rd # 0 => f = R!IType(x, 2, 2, rd, 3)) /\ (rd = 0 => f = R!Zero)
  BY Expanded2, Zenon
<1>7. m = IF rd > 15 THEN M!HighRegister(s) ELSE IF rd = 0 THEN M!Illegal(s)
          ELSE M!LoadData(s, next, rd, M!Word(M!ReadReg(s, 2) + x), 4, TRUE)
  BY <1>1, Executed2, Zenon
<1>8. Imm12(x)
  BY ParcelOffsets
<1>9. x \in Int
  BY <1>8 DEF Imm12
<1> HIDE DEF insn, f, m, rd, rs2, link, next, x
<1>10. 2 \in 0 .. 31 /\ 2 \in 0 .. 15 /\ 2 \in 0 .. 7 /\ 3 \in 0 .. 127
  BY SMT
<1>11. CASE rd = 0
  <2>1. Decoded(insn) = R!Zero /\ M!Outcome(s, insn) = M!Illegal(s)
    BY <1>5, <1>6, <1>7, <1>11
  <2>2. Agrees(s, t, insn)
    BY <2>1, ParcelIllegal
  <2>3. QED
    BY <1>5, <2>2
<1>12. CASE rd # 0
  <2>1. IsI(f, x, 2, 2, rd, 3)
    BY <1>3, <1>6, <1>8, <1>10, <1>12, ExpandedI
  <2>2. CASE rd > 15
    <3>1. f.opcode = 3 /\ f.funct3 = 2 /\ f.rd > 15
      BY <2>1, <2>2 DEF IsI
    <3>2. R!isLoad(f) /\ ~R!isStore(f)
      BY <3>1 DEF R!isLoad, R!isStore
    <3>3. R!regAccessIllegal(f)
      BY <3>1, <3>2 DEF R!regAccessIllegal, R!execUsesRd
    <3>4. R!execTrapCause(t, f) \in {"load_misaligned", "rv32e_register"}
      BY <3>2, <3>3, RtlCause
    <3>5. R!Outcome(t, insn).cause \in {"load_misaligned", "rv32e_register"}
      BY <1>5, <3>4, RtlTraps
    <3>6. M!Outcome(s, insn).cause = "rv32e_register"
      BY <1>5, <1>7, <2>2, ModelTraps
    <3>7. Agrees(s, t, insn)
      BY <3>5, <3>6 DEF Agrees, OneTrap, Illegal
    <3>8. QED
      BY <1>5, <3>7
  <2>3. CASE rd <= 15
    <3>1. rd \in 0 .. 15
      BY <1>3, <2>3
    <3>2. M!Outcome(s, insn) = M!LoadData(s, M!Nothing(s, s.pc + 2), rd, M!Word(M!ReadReg(s, 2) + x), 4, TRUE)
      <4> DEFINE load == M!LoadData(s, next, rd, M!Word(M!ReadReg(s, 2) + x), 4, TRUE)
      <4>1. m = IF rd > 15 THEN M!HighRegister(s) ELSE IF rd = 0 THEN M!Illegal(s) ELSE load
        BY <1>7
      <4> HIDE DEF load
      <4>2. m = load
        BY <1>3, <1>12, <2>3, <4>1
      <4>3. QED
        BY <1>5, <4>2 DEF load
    <3>3. Agrees(s, t, insn)
      BY <1>2, <1>5, <1>9, <1>10, <2>1, <3>1, <3>2, ParcelLoads
    <3>4. QED
      BY <1>5, <3>3
  <2>4. QED
    BY <1>3, <2>2, <2>3
<1>13. QED
  BY <1>11, <1>12

\* C.SWSP, likewise.
LEMMA CSwspAgrees ==
  ASSUME XLEN = 32, NEW s, NEW t, Paired(s, t), NEW p \in Int, p % 4 = 2, M!Funct3C(p) = 6
  PROVE  Agrees(s, t, Parcel(p))
<1> DEFINE insn == Parcel(p)
           f == Decoded(insn)
           m == M!Outcome(s, insn)
           rd == M!RdRs1(p)
           rs2 == M!Rs2C(p)
           link == M!Bit(p, 12)
           next == M!Nothing(s, s.pc + 2)
           x == M!CSwspImm(p)
<1>1. s.pc \in Words /\ s.pc % 2 = 0
  BY Operands
<1>2. insn.len = 2 /\ insn.len \in {2, 4}
  BY <1>1, AsParcel
<1>3. rd \in 0 .. 31 /\ rs2 \in 0 .. 31
  BY ParcelFields
<1>4. link \in 0 .. 1
  BY Digits
<1>5. f = Decoded(insn) /\ m = M!Outcome(s, insn) /\ next = M!Nothing(s, s.pc + 2) /\ insn = Parcel(p)
  OBVIOUS
<1>6. f = R!SType(x, rs2, 2, 2, 35)
  BY Expanded2, Zenon
<1>7. m = IF rs2 > 15 THEN M!HighRegister(s)
          ELSE M!StoreData(s, next, M!Word(M!ReadReg(s, 2) + x), 4, M!ReadReg(s, rs2))
  BY <1>1, Executed2, Zenon
<1>8. Imm12(x)
  BY ParcelOffsets
<1>9. x \in Int
  BY <1>8 DEF Imm12
<1> HIDE DEF insn, f, m, rd, rs2, link, next, x
<1>10. 2 \in 0 .. 31 /\ 2 \in 0 .. 15 /\ 2 \in 0 .. 7
  BY SMT
<1>11. IsS(f, x, rs2, 2, 2)
  BY <1>3, <1>6, <1>8, <1>10, ExpandedS
<1>12. CASE rs2 > 15
  <2>1. f.opcode = 35 /\ f.funct3 = 2 /\ f.rs2 > 15
    BY <1>11, <1>12 DEF IsS
  <2>2. R!isStore(f)
    BY <2>1 DEF R!isStore
  <2>3. R!regAccessIllegal(f)
    BY <2>1, <2>2 DEF R!regAccessIllegal, R!execUsesRs2
  <2>4. R!execTrapCause(t, f) \in {"store_misaligned", "rv32e_register"}
    BY <2>2, <2>3, RtlCause
  <2>5. R!Outcome(t, insn).cause \in {"store_misaligned", "rv32e_register"}
    BY <1>5, <2>4, RtlTraps
  <2>6. M!Outcome(s, insn).cause = "rv32e_register"
    BY <1>5, <1>7, <1>12, ModelTraps
  <2>7. Agrees(s, t, insn)
    BY <2>5, <2>6 DEF Agrees, OneTrap, Illegal
  <2>8. QED
    BY <1>5, <2>7
<1>13. CASE rs2 <= 15
  <2>1. rs2 \in 0 .. 15
    BY <1>3, <1>13
  <2>2. M!Outcome(s, insn) =
          M!StoreData(s, M!Nothing(s, s.pc + 2), M!Word(M!ReadReg(s, 2) + x), 4, M!ReadReg(s, rs2))
    BY <1>3, <1>5, <1>7, <1>13
  <2>3. Agrees(s, t, insn)
    BY <1>2, <1>5, <1>9, <1>10, <1>11, <2>1, <2>2, ParcelStores
  <2>4. QED
    BY <1>5, <2>3
<1>14. QED
  BY <1>3, <1>12, <1>13

\* C.JR, C.MV, C.EBREAK, C.JALR and C.ADD.
LEMMA CrAgrees ==
  ASSUME XLEN = 32, NEW s, NEW t, Paired(s, t), NEW p \in Int, p % 4 = 2, M!Funct3C(p) = 4
  PROVE  Agrees(s, t, Parcel(p))
<1> DEFINE insn == Parcel(p)
           f == Decoded(insn)
           m == M!Outcome(s, insn)
           rd == M!RdRs1(p)
           rs2 == M!Rs2C(p)
           link == M!Bit(p, 12)
           next == M!Nothing(s, s.pc + 2)
           a == M!ReadReg(s, rd)
           b == M!ReadReg(s, rs2)
           pc == AlignDown(a, 2)
<1>1. s.pc \in Words /\ s.pc % 2 = 0
  BY Operands
<1>2. insn.len = 2 /\ insn.len \in {2, 4}
  BY <1>1, AsParcel
<1>3. rd \in 0 .. 31 /\ rs2 \in 0 .. 31
  BY ParcelFields
<1>4. link \in 0 .. 1
  BY Digits
<1>5. f = Decoded(insn) /\ m = M!Outcome(s, insn) /\ next = M!Nothing(s, s.pc + 2) /\ insn = Parcel(p)
  OBVIOUS
<1>6. /\ rs2 = 0 /\ rd # 0 => f = R!IType(0, rd, 0, link, 103)
      /\ rs2 # 0 => f = R!Fields(0, rs2, rd * link, 0, rd, 51)
      /\ rs2 = 0 /\ rd = 0 /\ link = 1 => f = R!IType(1, 0, 0, 0, 115)
      /\ rs2 = 0 /\ rd = 0 /\ link = 0 => f = R!Zero
  BY Expanded2, Zenon
<1>7. /\ rd > 15 \/ rs2 > 15 => m = M!HighRegister(s)
      /\ rd = 0 /\ rs2 = 0 /\ link = 1 => m = M!Raise(s, "ebreak")
      /\ rd = 0 /\ rs2 = 0 /\ link = 0 => m = M!Raise(s, "illegal_instruction")
      /\ rd <= 15 /\ rd # 0 /\ rs2 = 0 /\ link = 1 => m = M!WriteReg(s, M!Nothing(s, pc), 1, s.pc + 2)
      /\ rd <= 15 /\ rd # 0 /\ rs2 = 0 /\ link = 0 => m = M!Nothing(s, pc)
      /\ rd <= 15 /\ rs2 <= 15 /\ rs2 # 0 /\ link = 1 => m = M!WriteReg(s, next, rd, a + b)
      /\ rd <= 15 /\ rs2 <= 15 /\ rs2 # 0 /\ link = 0 => m = M!WriteReg(s, next, rd, b)
  BY <1>1, Executed2, Zenon
<1>8. a \in Words /\ b \in Words /\ a = M!ReadReg(s, rd) /\ b = M!ReadReg(s, rs2)
  BY Operands
<1>9. pc = AlignDown(a, 2)
  OBVIOUS
<1> HIDE DEF insn, f, m, rd, rs2, link, next, a, b, pc
<1>10. pc \in Words /\ pc % 2 = 0 /\ Word(pc) = pc
  BY <1>8, <1>9, EvenTarget
<1>11. Word(s.pc + 2) \in Words
  BY GoesOn, 2 \in {2, 4}
<1>12. \A y \in Words : Word(y) = y
  BY WordFacts
<1>13. 0 \in 0 .. 7 /\ 103 \in 0 .. 127 /\ 0 \in 0 .. 127 /\ 51 \in 0 .. 127 /\ link \in 0 .. 31 /\ link \in 0 .. 15
  BY <1>4, SMT
<1>14. Imm12(0)
  BY SMT DEF Imm12
<1>15. rs2 = 0 /\ rd # 0 => IsI(f, 0, rd, 0, link, 103)
  <2>1. IsI(R!IType(0, rd, 0, link, 103), 0, rd, 0, link, 103)
    BY <1>3, <1>13, <1>14, ExpandedI
  <2>2. QED
    BY <1>6, <2>1
<1>16. rd * link = IF link = 1 THEN rd ELSE 0
  BY <1>3, <1>4, SMT
<1>17. rs2 # 0 => IsR(f, 0, rs2, IF link = 1 THEN rd ELSE 0, 0, rd, 51)
  <2>1. rs2 # 0 => f = R!Fields(0, rs2, IF link = 1 THEN rd ELSE 0, 0, rd, 51)
    BY <1>6, <1>16
  <2>2. (IF link = 1 THEN rd ELSE 0) \in 0 .. 31
    BY <1>3, SMT
  <2> DEFINE rs1 == IF link = 1 THEN rd ELSE 0
  <2> HIDE DEF rs1
  <2>3. rs1 \in 0 .. 31
    BY <2>2 DEF rs1
  <2>4. IsR(R!Fields(0, rs2, rs1, 0, rd, 51), 0, rs2, rs1, 0, rd, 51)
    BY <1>3, <1>13, <2>3 DEF R!Fields, InsnFields, IsR
  <2>5. QED
    BY <2>1, <2>4 DEF rs1
<1>18. CASE rd > 15 \/ rs2 > 15
  <2>1. M!Outcome(s, insn) = M!HighRegister(s)
    BY <1>5, <1>7, <1>18
  <2>2. CASE rs2 = 0
    <3>1. rd > 15 /\ rd # 0
      BY <1>3, <1>18, <2>2
    <3>2. f.opcode = 103 /\ f.funct3 = 0 /\ f.rs1 > 15
      BY <1>15, <2>2, <3>1 DEF IsI
    <3>3. R!isJalr(f)
      BY <3>2 DEF R!isJalr
    <3>4. R!execKnown(f) /\ R!regAccessIllegal(f)
      BY <3>2, <3>3 DEF R!execKnown, R!execUsesRd, R!execUsesRs1, R!regAccessIllegal
    <3>5. f.opcode \in {55, 23, 111, 103, 99, 19, 51}
      BY <3>2
    <3>6. QED
      BY <1>5, <2>1, <3>4, <3>5, HighAgrees
  <2>3. CASE rs2 # 0
    <3>1. f.opcode = 51 /\ f.funct7 = 0 /\ f.rd = rd /\ f.rs2 = rs2
      BY <1>17, <2>3 DEF IsR
    <3>2. R!isAluReg(f)
      BY <3>1 DEF R!isAluReg
    <3>3. R!execKnown(f) /\ R!regAccessIllegal(f)
      BY <1>18, <3>1, <3>2 DEF R!execKnown, R!execUsesRd, R!execUsesRs2, R!regAccessIllegal
    <3>4. f.opcode \in {55, 23, 111, 103, 99, 19, 51}
      BY <3>1
    <3>5. QED
      BY <1>5, <2>1, <3>3, <3>4, HighAgrees
  <2>4. QED
    BY <2>2, <2>3
<1>19. CASE rd = 0 /\ rs2 = 0 /\ link = 1
  <2>1. f = R!IType(1, 0, 0, 0, 115)
    BY <1>6, <1>19
  <2>2. R!IType(1, 0, 0, 0, 115) = R!Fields(0, 1, 0, 0, 0, 115)
    BY SMT DEF R!IType
  <2>3. R!isEbreak(f)
    BY <2>1, <2>2 DEF R!isEbreak
  <2>4. M!Outcome(s, insn) = M!Raise(s, "ebreak")
    BY <1>5, <1>7, <1>19
  <2>5. "ebreak" # "none"
    OBVIOUS
  <2>6. QED
    BY <1>5, <2>3, <2>4, <2>5, BreakAgrees
<1>20. CASE rd = 0 /\ rs2 = 0 /\ link = 0
  <2>1. Decoded(insn) = R!Zero
    BY <1>5, <1>6, <1>20
  <2>2. M!Outcome(s, insn) = M!Illegal(s)
    BY <1>5, <1>7, <1>20 DEF M!Illegal
  <2>3. QED
    BY <1>5, <2>1, <2>2, ParcelIllegal
<1>21. CASE rd <= 15 /\ rd # 0 /\ rs2 = 0
  <2>1. /\ f \in InsnFields /\ f.opcode = 103 /\ f.funct3 = 0 /\ f.rd = link /\ f.rs1 = rd /\ M!ImmI(f) = 0
    BY <1>15, <1>21 DEF IsI
  <2>2. rd \in 0 .. 15
    BY <1>3, <1>21
  <2>3. f.rd \in 0 .. 15 /\ f.rs1 \in 0 .. 15
    BY <1>13, <2>1, <2>2
  <2>4. Plain(R!Outcome(t, insn), t, AlignDown(Word(M!ReadReg(s, f.rs1) + M!ImmI(f)), 2), f.rd,
              Word(s.pc + insn.len))
    BY <1>2, <1>5, <2>1, <2>3, RtlJalr
  <2>5. a + 0 = a
    BY <1>8, SMT DEF Words
  <2>6. Word(M!ReadReg(s, f.rs1) + M!ImmI(f)) = a
    BY <1>8, <1>12, <2>1, <2>5
  <2>7. Plain(R!Outcome(t, insn), t, Word(pc), link, Word(s.pc + 2))
    BY <1>2, <1>9, <1>10, <2>1, <2>4, <2>6
  <2>8. Word(pc) \in Words /\ Word(pc) % 2 = 0
    BY <1>10
  <2>9. CASE link = 1
    <3>1. M!Outcome(s, insn) = M!WriteReg(s, M!Nothing(s, pc), link, s.pc + 2)
      BY <1>5, <1>7, <1>21, <2>9
    <3>2. Agrees(s, t, insn)
      BY <1>11, <1>13, <2>7, <2>8, <3>1, WritesAgree
    <3>3. QED
      BY <1>5, <3>2
  <2>10. CASE link = 0
    <3>1. M!Outcome(s, insn) = M!Nothing(s, pc)
      BY <1>5, <1>7, <1>21, <2>10
    <3>2. Agrees(s, t, insn)
      BY <1>11, <1>13, <2>7, <2>8, <2>10, <3>1, StaysAgree
    <3>3. QED
      BY <1>5, <3>2
  <2>11. QED
    BY <1>4, <2>9, <2>10
<1>22. CASE rd <= 15 /\ rs2 <= 15 /\ rs2 # 0
  <2> DEFINE rs1 == IF link = 1 THEN rd ELSE 0
  <2>1. IsR(f, 0, rs2, rs1, 0, rd, 51)
    BY <1>17, <1>22
  <2>2. rd \in 0 .. 15 /\ rs2 \in 0 .. 15
    BY <1>3, <1>22
  <2>3. rs1 \in 0 .. 15
    BY <2>2, SMT
  <2>4. M!ReadReg(s, 0) = 0
    BY DEF M!ReadReg
  <2>5. M!ReadReg(s, rs1) = IF link = 1 THEN a ELSE 0
    BY <1>8, <2>4
  <2> HIDE DEF rs1
  <2>6. f \in InsnFields /\ f.opcode = 51 /\ f.funct3 = 0 /\ f.rd = rd /\ f.rs1 = rs1 /\ f.rs2 = rs2 /\ f.funct7 = 0
    BY <2>1 DEF IsR
  <2>7. R!isAluReg(f) /\ f.rd \in 0 .. 15 /\ f.rs1 \in 0 .. 15 /\ f.rs2 \in 0 .. 15
    BY <2>2, <2>3, <2>6 DEF R!isAluReg
  <2>8. AluValue(s, f) = Word(M!ReadReg(s, rs1) + M!ReadReg(s, rs2))
    BY <2>6, AluValues
  <2>9. CASE link = 1
    <3>1. M!Outcome(s, insn) = M!WriteReg(s, M!Nothing(s, s.pc + 2), f.rd, a + b)
      BY <1>5, <1>7, <1>22, <2>6, <2>9
    <3>2. Word(a + b) = AluValue(s, f)
      BY <1>8, <2>5, <2>8, <2>9
    <3>3. Agrees(s, t, insn)
      BY <1>2, <1>5, <2>6, <2>7, <3>1, <3>2, ParcelAlu
    <3>4. QED
      BY <1>5, <3>3
  <2>10. CASE link = 0
    <3>1. M!Outcome(s, insn) = M!WriteReg(s, M!Nothing(s, s.pc + 2), f.rd, b)
      BY <1>5, <1>7, <1>22, <2>6, <2>10
    <3>2. 0 + b = b
      BY <1>8, SMT DEF Words
    <3>3. Word(b) = AluValue(s, f)
      BY <1>8, <2>5, <2>8, <2>10, <3>2
    <3>4. Agrees(s, t, insn)
      BY <1>2, <1>5, <2>6, <2>7, <3>1, <3>3, ParcelAlu
    <3>5. QED
      BY <1>5, <3>4
  <2>11. QED
    BY <1>4, <2>9, <2>10
<1>23. QED
  BY <1>3, <1>4, <1>18, <1>19, <1>20, <1>21, <1>22

\* Every parcel of quadrant 2.
LEMMA Quadrant2Agrees ==
  ASSUME XLEN = 32, NEW s, NEW t, Paired(s, t), NEW p \in Int, p % 4 = 2
  PROVE  Agrees(s, t, Parcel(p))
<1>1. CASE M!Funct3C(p) = 0
  BY <1>1, CSlliAgrees
<1>2. CASE M!Funct3C(p) = 2
  BY <1>2, CLwspAgrees
<1>3. CASE M!Funct3C(p) = 4
  BY <1>3, CrAgrees
<1>4. CASE M!Funct3C(p) = 6
  BY <1>4, CSwspAgrees
<1>5. CASE M!Funct3C(p) \notin {0, 2, 4, 6}
  <2>1. Decoded(Parcel(p)) = R!Zero
    BY <1>5, Expanded2
  <2>2. s.pc % 2 = 0
    BY Operands
  <2>3. M!Outcome(s, Parcel(p)) = M!Unsupported(s)
    BY <1>5, <2>2, Executed2
  <2>4. QED
    BY <2>1, <2>3, ParcelIllegal
<1>6. QED
  BY <1>1, <1>2, <1>3, <1>4, <1>5

\* Every parcel, in every state.
LEMMA ParcelAgrees ==
  ASSUME XLEN = 32, NEW s, NEW t, Paired(s, t), NEW p \in Int, p % 4 # 3
  PROVE  Agrees(s, t, Parcel(p))
<1>1. p % 4 = 0 \/ p % 4 = 1 \/ p % 4 = 2
  BY SMT
<1>2. QED
  BY <1>1, Quadrant0Agrees, Quadrant1Agrees, Quadrant2Agrees

(***************************************************************************)
(* The two in lock step.                                                   *)
(***************************************************************************)

\* A state a program starts in is one in which the model and the core are compared.
LEMMA StartPaired ==
  ASSUME XLEN = 32, NEW s, StartOK(s)
  PROVE  Paired(s, s)
<1>1. /\ s.pc \in 0 .. 2^XLEN - 1 /\ s.pc % 2 = 0 /\ s.regs \in [1 .. 15 -> 0 .. 2^XLEN - 1]
      /\ s.csrs \in [Writable -> 0 .. 2^XLEN - 1]
      /\ \A a \in DOMAIN s.mem : s.mem[a] \in 0 .. 2^ByteBits - 1
      /\ s.csrs[Mepc] % 2 = 0 /\ s.csrs[Mtvec] % 4 = 0 /\ (s.csrs[Mie] & IrqBits) = s.csrs[Mie]
  BY DEF StartOK, StateOK
<1>2. 0 .. 2^XLEN - 1 = Words
  <2>1. 2^XLEN = 4294967296
    BY SMT
  <2> DEFINE top == 2^XLEN
  <2>2. top \in Nat
    BY <2>1, SMT
  <2> HIDE DEF top
  <2>3. 0 .. top - 1 = {x \in Nat : x < top}
    BY <2>2, SMT
  <2>4. QED
    BY <2>3, Zenon DEF Words, top
<1>3. 0 .. 2^ByteBits - 1 = Byte
  <2>1. ByteBits = 8
    BY SMT DEF ByteBits
  <2>2. 2^ByteBits = 256
    BY <2>1, SMT
  <2>3. QED
    BY <2>2, SMT DEF Byte
<1>4. GoodMem(s.mem)
  <2>1. 0 \in Byte
    BY SMT DEF Byte
  <2>2. \A a \in DOMAIN s.mem : s.mem[a] \in Byte
    BY <1>1, <1>3, Zenon
  <2>3. QED
    BY <2>1, <2>2, Zenon DEF GoodMem, ByteAt
<1>5. GoodCsrs(s.csrs)
  BY <1>1, <1>2 DEF GoodCsrs
<1>6. GoodState(s)
  BY <1>1, <1>2, <1>4, <1>5 DEF GoodState
<1>7. Alike(s, s)
  BY DEF Alike, SameMem, SameCsrs
<1>8. QED
  BY <1>6, <1>7 DEF Paired

\* Every instruction of a suite, in every pair of states a program of it reaches.
LEMMA SuiteAgrees ==
  ASSUME XLEN = 32, NEW x, SuiteOK(x), NEW insn \in x.program, NEW s, NEW t, Paired(s, t),
         x.length <= 1 => s \in x.starts /\ t = s
  PROVE  Agrees(s, t, insn)
<1>1. CASE insn.len = 2
  <2>1. insn.parcel \in Int /\ insn.parcel % 4 # 3 /\ insn = Parcel(insn.parcel)
    BY <1>1 DEF SuiteOK, IsParcel
  <2>2. Agrees(s, t, Parcel(insn.parcel))
    BY <2>1, ParcelAgrees
  <2>3. QED
    BY <2>1, <2>2
<1>2. CASE insn.len # 2
  <2>1. /\ insn \in InsnFields
        /\ insn.opcode = 115 /\ ReadsMpp(insn) => x.length <= 1
        /\ insn.opcode = 115 /\ SetsReadOnly(insn) => x.length <= 1 /\ \A z \in x.starts : M!ReadReg(z, insn.rs1) # 0
    BY <1>2 DEF SuiteOK
  <2>2. insn.opcode = 115 => CsrClear(s, t, insn)
    BY <2>1 DEF CsrClear
  <2>3. QED
    BY <2>1, <2>2, WideAgrees
<1>3. QED
  BY <1>1, <1>2

\* What the trace items of one instruction say of it.
LEMMA ItemFields ==
  ASSUME NEW s, NEW insn, NEW o
  PROVE  /\ M!TraceItem(s, insn, o).trap = (o.cause # "none") /\ M!TraceItem(s, insn, o).cause = o.cause
         /\ o.cause = "none" => M!TraceItem(s, insn, o).addr = o.addr
         /\ M!After(s, o).halted = (o.cause # "none") /\ M!After(s, o).sleeping = o.sleeping
  BY Zenon DEF M!TraceItem, M!After

(***************************************************************************)
(* The programs of the regression.  Their instructions start at different  *)
(* addresses and are none of those on which the two differ.                *)
(***************************************************************************)

\* The instructions that the model and the core execute alike in whatever states they are.
PlainInsns ==
  {f \in InsnFields : f.opcode = 115 => ~ReadsMpp(f) /\ ~SetsReadOnly(f)}
  \cup {Parcel(p) : p \in {q \in Int : q % 4 # 3}}

\* The model and the core agree on a plain instruction.
LEMMA PlainInsnAgrees ==
  ASSUME XLEN = 32, NEW s, NEW t, Paired(s, t), NEW insn \in PlainInsns
  PROVE  Agrees(s, t, insn)
<1>1. ASSUME insn \in InsnFields, insn.opcode = 115 => ~ReadsMpp(insn) /\ ~SetsReadOnly(insn)
      PROVE  Agrees(s, t, insn)
  <2>1. insn.opcode = 115 => CsrClear(s, t, insn)
    BY <1>1 DEF CsrClear
  <2>2. QED
    BY <1>1, <2>1, WideAgrees
<1>2. ASSUME NEW p \in Int, p % 4 # 3, insn = Parcel(p) PROVE Agrees(s, t, insn)
  BY <1>2, ParcelAgrees
<1>3. QED
  BY <1>1, <1>2 DEF PlainInsns

\* An instruction has two bytes or four.
LEMMA PlainSizes == \A insn \in PlainInsns : insn.len \in {2, 4}
<1>1. \A f \in InsnFields : f.len = 4
  BY DEF InsnFields
<1>2. \A p : Parcel(p).len = 2
  BY DEF Parcel
<1>3. QED
  BY <1>1, <1>2 DEF PlainInsns

\* A set of numbers has a least one.
LEMMA Least ==
  ASSUME NEW S, S \subseteq Nat, S # {}
  PROVE  \E x \in S : \A y \in S : x <= y
<1>1. \E x \in S : \A y \in S : <<y, x>> \notin OpToRel(<, Nat)
  BY NatLessThanWellFounded, WFMin
<1>2. PICK x \in S : \A y \in S : <<y, x>> \notin OpToRel(<, Nat)
  BY <1>1
<1>3. ASSUME NEW y \in S PROVE ~(y < x)
  <2>1. <<y, x>> \notin OpToRel(<, Nat) /\ y \in Nat /\ x \in Nat
    BY <1>2
  <2>2. QED
    BY <2>1 DEF OpToRel
<1>4. \A y \in S : x <= y
  BY <1>3
<1>5. QED
  BY <1>4

\* g holds where the first n instructions of an image start.
StartsUpTo(im, n, g) ==
  /\ g \in [1 .. n -> Nat]
  /\ \A i \in 1 .. n : g[i] = IF i = 1 THEN 0 ELSE g[i - 1] + im[i - 1].len

\* For any number of instructions there is such a function: a least number without one has a predecessor with one.
LEMMA StartsExist ==
  ASSUME NEW im, \A i \in 1 .. Len(im) : im[i].len \in Nat, Len(im) \in Nat,
         NEW n \in Nat, n <= Len(im) + 1
  PROVE  \E g : StartsUpTo(im, n, g)
<1> DEFINE S == {k \in Nat : k <= Len(im) + 1 /\ ~\E g : StartsUpTo(im, k, g)}
<1> SUFFICES ASSUME S # {} PROVE FALSE
  OBVIOUS
<1>1. PICK k \in S : \A j \in S : k <= j
  BY Least
<1>2. CASE k = 0
  <2>1. StartsUpTo(im, 0, [i \in 1 .. 0 |-> 0])
    BY DEF StartsUpTo
  <2>2. QED
    BY <1>2, <2>1
<1>3. CASE k # 0
  <2>1. k - 1 \in Nat /\ k - 1 \notin S /\ k - 1 <= Len(im) + 1
    BY <1>1, <1>3
  <2>2. PICK g : StartsUpTo(im, k - 1, g)
    BY <2>1
  <2> DEFINE h == [i \in 1 .. k |-> IF i = 1 THEN 0 ELSE g[i - 1] + im[i - 1].len]
  <2>3. \A i \in 1 .. k : i # 1 => i - 1 \in 1 .. k - 1 /\ im[i - 1].len \in Nat /\ g[i - 1] \in Nat
    BY <2>1, <2>2 DEF StartsUpTo
  <2>4. h \in [1 .. k -> Nat]
    BY <2>3
  <2>5. \A i \in 1 .. k - 1 : h[i] = g[i]
    BY <2>2 DEF StartsUpTo
  <2>6. \A i \in 1 .. k : h[i] = IF i = 1 THEN 0 ELSE h[i - 1] + im[i - 1].len
    BY <2>3, <2>5
  <2>7. StartsUpTo(im, k, h)
    BY <2>4, <2>6 DEF StartsUpTo
  <2>8. QED
    BY <1>1, <2>7
<1>4. QED
  BY <1>2, <1>3

\* The recursive function of the layout is that function.
LEMMA StartsAre ==
  ASSUME NEW im, \A i \in 1 .. Len(im) : im[i].len \in Nat, Len(im) \in Nat
  PROVE  StartsUpTo(im, Len(im) + 1, Starts(im))
<1> DEFINE n == Len(im) + 1
           Is(g) == g = [i \in 1 .. n |-> IF i = 1 THEN 0 ELSE g[i - 1] + im[i - 1].len]
<1>1. PICK g : StartsUpTo(im, n, g)
  BY StartsExist
<1>2. Is(g)
  BY <1>1 DEF StartsUpTo
<1>3. Starts(im) = CHOOSE f : Is(f)
  BY DEF Starts
<1>4. Is(Starts(im))
  BY <1>2, <1>3
<1>5. StartsUpTo(im, n, Starts(im))
  <2> DEFINE h == Starts(im)
             S == {i \in 1 .. n : h[i] \notin Nat}
  <2> HIDE DEF h
  <2>1. \A i \in 1 .. n : h[i] = IF i = 1 THEN 0 ELSE h[i - 1] + im[i - 1].len
    BY <1>4 DEF h
  <2>2. S = {}
    <3> SUFFICES ASSUME S # {} PROVE FALSE
      OBVIOUS
    <3>1. S \subseteq Nat
      BY SMT
    <3>2. PICK i \in S : \A j \in S : i <= j
      BY <3>1, Least
    <3>3. i # 1
      BY <2>1
    <3>4. i - 1 \in 1 .. Len(im) /\ i - 1 \notin S
      BY <3>2, <3>3
    <3>5. h[i] = h[i - 1] + im[i - 1].len
      BY <2>1, <3>3
    <3>6. QED
      BY <3>4, <3>5
  <2>3. DOMAIN h = 1 .. n /\ h = [i \in 1 .. n |-> h[i]]
    BY <1>4 DEF h
  <2>4. h \in [1 .. n -> Nat]
    BY <2>2, <2>3
  <2>5. QED
    BY <2>1, <2>4 DEF StartsUpTo, h
<1>6. QED
  BY <1>5

\* No two instructions of an image start at the same address.
LEMMA OneInsn ==
  ASSUME NEW im \in Seq(PlainInsns), NEW pc
  PROVE  \A a, b \in InsnsAt(im, pc) : a = b /\ a \in PlainInsns
<1>1. Len(im) \in Nat /\ \A i \in 1 .. Len(im) : im[i] \in PlainInsns
  OBVIOUS
<1>2. \A i \in 1 .. Len(im) : im[i].len \in {2, 4}
  BY <1>1, PlainSizes
<1> DEFINE at == Starts(im)
<1>3. StartsUpTo(im, Len(im) + 1, at)
  BY <1>1, <1>2, StartsAre
<1> HIDE DEF at
<1>4. ASSUME NEW i \in 1 .. Len(im), NEW k \in 1 .. Len(im), i < k, at[k] <= at[i] PROVE FALSE
  <2> DEFINE S == {j \in Nat : i < j /\ j <= Len(im) /\ at[j] <= at[i]}
  <2>1. k \in S
    BY <1>1, <1>4
  <2>2. PICK j \in S : \A x \in S : j <= x
    BY <2>1, Least
  <2>3. j \in 1 .. Len(im) /\ j - 1 \in 1 .. Len(im) /\ j # 1 /\ i \in 1 .. Len(im) + 1 /\ j \in 1 .. Len(im) + 1
    BY <1>1, <2>2
  <2> HIDE DEF S
  <2>4. /\ at \in [1 .. Len(im) + 1 -> Nat]
        /\ at[j] = IF j = 1 THEN 0 ELSE at[j - 1] + im[j - 1].len
    BY <1>3, <2>3 DEF StartsUpTo
  <2>5. at[j] = at[j - 1] + im[j - 1].len /\ at[j - 1] \in Nat /\ at[i] \in Nat
    BY <2>3, <2>4
  <2> USE DEF S
  <2>6. im[j - 1].len \in {2, 4}
    BY <1>2, <2>3
  <2>7. j - 1 = i \/ j - 1 \in S
    BY <2>2, <2>3, <2>5, <2>6
  <2>8. QED
    BY <2>2, <2>5, <2>6, <2>7
<1>5. \A i, k \in 1 .. Len(im) : at[i] = at[k] => i = k
  <2>1. \A i \in 1 .. Len(im) : at[i] \in Nat
    BY <1>1, <1>3 DEF StartsUpTo
  <2>2. QED
    BY <1>1, <1>4, <2>1
<1>6. QED
  BY <1>1, <1>5 DEF InsnsAt, at

\* The encoders of 32 bits, SYSTEM apart.
LEMMA WidePlain ==
  ASSUME NEW f \in InsnFields, f.opcode # 115
  PROVE  f \in PlainInsns
  BY DEF PlainInsns

\* Loads and immediate operations.
LEMMA ITypePlain ==
  ASSUME NEW x \in Int, NEW rs1 \in 0 .. 31, NEW k \in 0 .. 7, NEW rd \in 0 .. 31, NEW op \in {3, 19}
  PROVE  IType(x, rs1, k, rd, op) \in PlainInsns
<1>1. IType(x, rs1, k, rd, op) \in InsnFields /\ IType(x, rs1, k, rd, op).opcode = op
  BY FieldRanges DEF IType, Fields, InsnFields
<1>2. QED
  BY <1>1, WidePlain

\* Stores.
LEMMA STypePlain ==
  ASSUME NEW x \in Int, NEW rs2 \in 0 .. 31, NEW rs1 \in 0 .. 31, NEW k \in 0 .. 7
  PROVE  SType(x, rs2, rs1, k) \in PlainInsns
<1>1. SType(x, rs2, rs1, k) \in InsnFields /\ SType(x, rs2, rs1, k).opcode = 35
  BY FieldRanges DEF SType, Fields, InsnFields
<1>2. QED
  BY <1>1, WidePlain

\* Branches.
LEMMA BTypePlain ==
  ASSUME NEW x \in Int, NEW rs2 \in 0 .. 31, NEW rs1 \in 0 .. 31, NEW k \in 0 .. 7
  PROVE  BType(x, rs2, rs1, k) \in PlainInsns
<1>1. BType(x, rs2, rs1, k) \in InsnFields /\ BType(x, rs2, rs1, k).opcode = 99
  BY FieldRanges DEF BType, Fields, InsnFields
<1>2. QED
  BY <1>1, WidePlain

\* LUI and AUIPC.
LEMMA UTypePlain ==
  ASSUME NEW x \in Int, NEW rd \in 0 .. 31, NEW op \in {23, 55}
  PROVE  UType(x, rd, op) \in PlainInsns
<1>1. UType(x, rd, op) \in InsnFields /\ UType(x, rd, op).opcode = op
  BY FieldRanges DEF UType, Fields, InsnFields
<1>2. QED
  BY <1>1, WidePlain

\* JAL.
LEMMA JTypePlain ==
  ASSUME NEW x \in Int, NEW rd \in 0 .. 31
  PROVE  JType(x, rd) \in PlainInsns
<1>1. JType(x, rd) \in InsnFields /\ JType(x, rd).opcode = 111
  BY FieldRanges DEF JType, Fields, InsnFields
<1>2. QED
  BY <1>1, WidePlain

\* Operations on registers.
LEMMA RTypePlain ==
  ASSUME NEW funct7 \in {0, 32}, NEW rs2 \in 0 .. 31, NEW rs1 \in 0 .. 31, NEW k \in 0 .. 7, NEW rd \in 0 .. 31
  PROVE  RType(funct7, rs2, rs1, k, rd) \in PlainInsns
<1>1. RType(funct7, rs2, rs1, k, rd) \in InsnFields /\ RType(funct7, rs2, rs1, k, rd).opcode = 51
  BY DEF RType, Fields, InsnFields
<1>2. QED
  BY <1>1, WidePlain

\* SYSTEM: the directed programs access mtvec and mscratch, sleep and end in a breakpoint.
LEMMA SystemPlain ==
  ASSUME NEW i \in InsnFields, CsrAddr(i) \notin {Mstatus} \cup ReadOnly
  PROVE  i \in PlainInsns
  BY DEF PlainInsns, ReadsMpp, SetsReadOnly

\* An access to mtvec or mscratch.
LEMMA CsrsPlain ==
  ASSUME NEW csr \in {Mtvec, Mscratch}, NEW rs1 \in 0 .. 31, NEW funct3 \in 0 .. 7, NEW rd \in 0 .. 31
  PROVE  CsrType(csr, rs1, funct3, rd) \in PlainInsns
<1> DEFINE i == CsrType(csr, rs1, funct3, rd)
<1>1. csr \in Int /\ Bits(csr, 11, 5) * 32 + Bits(csr, 4, 0) = csr
  BY DEF Bits, Mtvec, Mscratch
<1>2. csr \notin {Mstatus} \cup ReadOnly
  BY DEF Mtvec, Mscratch, Mstatus, ReadOnly, Misa, Mip
<1>3. i \in InsnFields /\ i.funct7 = Bits(csr, 11, 5) /\ i.rs2 = Bits(csr, 4, 0)
  BY <1>1, FieldRanges DEF CsrType, Fields, InsnFields
<1> HIDE DEF i
<1>4. CsrAddr(i) = csr
  BY <1>1, <1>3 DEF CsrAddr
<1>5. i \in PlainInsns
  BY <1>2, <1>3, <1>4, SystemPlain
<1>6. QED
  BY <1>5 DEF i

\* EBREAK and WFI.
LEMMA EndsPlain == Ebreak \in PlainInsns /\ Wfi \in PlainInsns
<1>1. /\ Ebreak \in InsnFields /\ Ebreak.funct7 = 0 /\ Ebreak.rs2 = 1
      /\ Wfi \in InsnFields /\ Wfi.funct7 = 8 /\ Wfi.rs2 = 5
  BY DEF Ebreak, Wfi, Fields, InsnFields
<1>2. CsrAddr(Ebreak) = 1 /\ CsrAddr(Wfi) = 261
  BY <1>1 DEF CsrAddr
<1>3. 1 \notin {Mstatus} \cup ReadOnly /\ 261 \notin {Mstatus} \cup ReadOnly
  BY DEF Mstatus, ReadOnly, Misa, Mip
<1>4. QED
  BY <1>1, <1>2, <1>3, SystemPlain

\* The encoders of 16 bits: the lowest two bits are never those of 32.
LEMMA ParcelPlain ==
  ASSUME NEW k \in Int, NEW q \in {0, 1, 2}
  PROVE  Parcel(k * 4 + q) \in PlainInsns
<1>1. k * 4 + q \in Int /\ (k * 4 + q) % 4 # 3
  BY SMT
<1>2. QED
  BY <1>1 DEF PlainInsns

\* C.ADDI, C.LI and C.LUI.
LEMMA CCiPlain ==
  ASSUME NEW k \in {0, 2, 3}, NEW r \in Nat, NEW x \in Int
  PROVE  CCi(k, r, x) \in PlainInsns
<1> DEFINE g0 == Bit(x, 5)
           g1 == Bits(x, 4, 0)
           z == k * 2048 + g0 * 1024 + r * 32 + g1
<1>1. g0 \in Int /\ g1 \in Int
  BY SMT DEF Bit, Bits
<1> HIDE DEF g0, g1
<1>2. z \in Int
  BY <1>1, SMT
<1>3. CCi(k, r, x) = Parcel(z * 4 + 1)
  BY <1>1, SMT DEF CCi, g0, g1
<1> HIDE DEF z
<1>4. Parcel(z * 4 + 1) \in PlainInsns
  BY <1>2, ParcelPlain
<1>5. QED
  BY <1>3, <1>4

\* C.ADDI16SP.
LEMMA CAddi16spPlain ==
  ASSUME NEW x \in Int
  PROVE  CAddi16sp(x) \in PlainInsns
<1> DEFINE g0 == Bit(x, 9)
           g1 == Bit(x, 4)
           g2 == Bit(x, 6)
           g3 == Bits(x, 8, 7)
           g4 == Bit(x, 5)
           z == 6144 + g0 * 1024 + 64 + g1 * 16 + g2 * 8 + g3 * 2 + g4
<1>1. g0 \in Int /\ g1 \in Int /\ g2 \in Int /\ g3 \in Int /\ g4 \in Int
  BY SMT DEF Bit, Bits
<1> HIDE DEF g0, g1, g2, g3, g4
<1>2. z \in Int
  BY <1>1, SMT
<1>3. CAddi16sp(x) = Parcel(z * 4 + 1)
  BY <1>1, SMT DEF CAddi16sp, g0, g1, g2, g3, g4
<1> HIDE DEF z
<1>4. Parcel(z * 4 + 1) \in PlainInsns
  BY <1>2, ParcelPlain
<1>5. QED
  BY <1>3, <1>4

\* C.ADDI4SPN.
LEMMA CAddi4spnPlain ==
  ASSUME NEW r \in Nat, NEW x \in Int
  PROVE  CAddi4spn(r, x) \in PlainInsns
<1> DEFINE g0 == Bits(x, 5, 4)
           g1 == Bits(x, 9, 6)
           g2 == Bit(x, 2)
           g3 == Bit(x, 3)
           g4 == CReg(r)
           z == g0 * 512 + g1 * 32 + g2 * 16 + g3 * 8 + g4
<1>1. g0 \in Int /\ g1 \in Int /\ g2 \in Int /\ g3 \in Int /\ g4 \in Int
  BY SMT DEF Bit, Bits, CReg
<1> HIDE DEF g0, g1, g2, g3, g4
<1>2. z \in Int
  BY <1>1, SMT
<1>3. CAddi4spn(r, x) = Parcel(z * 4 + 0)
  BY <1>1, SMT DEF CAddi4spn, g0, g1, g2, g3, g4
<1> HIDE DEF z
<1>4. Parcel(z * 4 + 0) \in PlainInsns
  BY <1>2, ParcelPlain
<1>5. QED
  BY <1>3, <1>4

\* C.LW and C.SW.
LEMMA CMemPlain ==
  ASSUME NEW k \in {2, 6}, NEW r \in Nat, NEW s \in Nat, NEW x \in Int
  PROVE  CMem(k, r, s, x) \in PlainInsns
<1> DEFINE g0 == Bits(x, 5, 3)
           g1 == CReg(s)
           g2 == Bit(x, 2)
           g3 == Bit(x, 6)
           g4 == CReg(r)
           z == k * 2048 + g0 * 256 + g1 * 32 + g2 * 16 + g3 * 8 + g4
<1>1. g0 \in Int /\ g1 \in Int /\ g2 \in Int /\ g3 \in Int /\ g4 \in Int
  BY SMT DEF Bit, Bits, CReg
<1> HIDE DEF g0, g1, g2, g3, g4
<1>2. z \in Int
  BY <1>1, SMT
<1>3. CMem(k, r, s, x) = Parcel(z * 4 + 0)
  BY <1>1, SMT DEF CMem, g0, g1, g2, g3, g4
<1> HIDE DEF z
<1>4. Parcel(z * 4 + 0) \in PlainInsns
  BY <1>2, ParcelPlain
<1>5. QED
  BY <1>3, <1>4

\* C.LWSP.
LEMMA CLwspPlain ==
  ASSUME NEW r \in Nat, NEW x \in Int
  PROVE  CLwsp(r, x) \in PlainInsns
<1> DEFINE g0 == Bit(x, 5)
           g1 == Bits(x, 4, 2)
           g2 == Bits(x, 7, 6)
           z == 4096 + g0 * 1024 + r * 32 + g1 * 4 + g2
<1>1. g0 \in Int /\ g1 \in Int /\ g2 \in Int
  BY SMT DEF Bit, Bits
<1> HIDE DEF g0, g1, g2
<1>2. z \in Int
  BY <1>1, SMT
<1>3. CLwsp(r, x) = Parcel(z * 4 + 2)
  BY <1>1, SMT DEF CLwsp, g0, g1, g2
<1> HIDE DEF z
<1>4. Parcel(z * 4 + 2) \in PlainInsns
  BY <1>2, ParcelPlain
<1>5. QED
  BY <1>3, <1>4

\* C.SWSP.
LEMMA CSwspPlain ==
  ASSUME NEW r \in Nat, NEW x \in Int
  PROVE  CSwsp(r, x) \in PlainInsns
<1> DEFINE g0 == Bits(x, 5, 2)
           g1 == Bits(x, 7, 6)
           z == 12288 + g0 * 128 + g1 * 32 + r
<1>1. g0 \in Int /\ g1 \in Int
  BY SMT DEF Bit, Bits
<1> HIDE DEF g0, g1
<1>2. z \in Int
  BY <1>1, SMT
<1>3. CSwsp(r, x) = Parcel(z * 4 + 2)
  BY <1>1, SMT DEF CSwsp, g0, g1
<1> HIDE DEF z
<1>4. Parcel(z * 4 + 2) \in PlainInsns
  BY <1>2, ParcelPlain
<1>5. QED
  BY <1>3, <1>4

\* C.J and C.JAL.
LEMMA CJPlain ==
  ASSUME NEW k \in 0 .. 7, NEW x \in Int
  PROVE  CJ(k, x) \in PlainInsns
<1> DEFINE g0 == Bit(x, 11)
           g1 == Bit(x, 4)
           g2 == Bits(x, 9, 8)
           g3 == Bit(x, 10)
           g4 == Bit(x, 6)
           g5 == Bit(x, 7)
           g6 == Bits(x, 3, 1)
           g7 == Bit(x, 5)
           z == k * 2048 + g0 * 1024 + g1 * 512 + g2 * 128 + g3 * 64 + g4 * 32 + g5 * 16 + g6 * 2 + g7
<1>1. g0 \in Int /\ g1 \in Int /\ g2 \in Int /\ g3 \in Int /\ g4 \in Int /\ g5 \in Int /\ g6 \in Int /\ g7 \in Int
  BY SMT DEF Bit, Bits
<1> HIDE DEF g0, g1, g2, g3, g4, g5, g6, g7
<1>2. z \in Int
  BY <1>1, SMT
<1>3. CJ(k, x) = Parcel(z * 4 + 1)
  BY <1>1, SMT DEF CJ, g0, g1, g2, g3, g4, g5, g6, g7
<1> HIDE DEF z
<1>4. Parcel(z * 4 + 1) \in PlainInsns
  BY <1>2, ParcelPlain
<1>5. QED
  BY <1>3, <1>4

\* C.BEQZ and C.BNEZ.
LEMMA CBranchPlain ==
  ASSUME NEW k \in 0 .. 7, NEW r \in Nat, NEW x \in Int
  PROVE  CBranch(k, r, x) \in PlainInsns
<1> DEFINE g0 == Bit(x, 8)
           g1 == Bits(x, 4, 3)
           g2 == CReg(r)
           g3 == Bits(x, 7, 6)
           g4 == Bits(x, 2, 1)
           g5 == Bit(x, 5)
           z == k * 2048 + g0 * 1024 + g1 * 256 + g2 * 32 + g3 * 8 + g4 * 2 + g5
<1>1. g0 \in Int /\ g1 \in Int /\ g2 \in Int /\ g3 \in Int /\ g4 \in Int /\ g5 \in Int
  BY SMT DEF Bit, Bits, CReg
<1> HIDE DEF g0, g1, g2, g3, g4, g5
<1>2. z \in Int
  BY <1>1, SMT
<1>3. CBranch(k, r, x) = Parcel(z * 4 + 1)
  BY <1>1, SMT DEF CBranch, g0, g1, g2, g3, g4, g5
<1> HIDE DEF z
<1>4. Parcel(z * 4 + 1) \in PlainInsns
  BY <1>2, ParcelPlain
<1>5. QED
  BY <1>3, <1>4

\* C.SLLI.
LEMMA CSlliPlain ==
  ASSUME NEW r \in Nat, NEW x \in Nat
  PROVE  CSlli(r, x) \in PlainInsns
<1> DEFINE g0 == (x % 2^5)
           z == r * 32 + g0
<1>1. g0 \in Int
  BY SMT DEF Bit, Bits
<1> HIDE DEF g0
<1>2. z \in Int
  BY <1>1, SMT
<1>3. CSlli(r, x) = Parcel(z * 4 + 2)
  BY <1>1, SMT DEF CSlli, g0
<1> HIDE DEF z
<1>4. Parcel(z * 4 + 2) \in PlainInsns
  BY <1>2, ParcelPlain
<1>5. QED
  BY <1>3, <1>4

\* C.MV, C.ADD and C.EBREAK.
LEMMA CCrPlain ==
  ASSUME NEW b \in {0, 1}, NEW r \in Nat, NEW s \in Nat
  PROVE  CCr(b, r, s) \in PlainInsns
<1> DEFINE z == 8192 + b * 1024 + r * 32 + s
<1>1. z \in Int
  BY SMT
<1>2. CCr(b, r, s) = Parcel(z * 4 + 2)
  BY SMT DEF CCr
<1> HIDE DEF z
<1>3. Parcel(z * 4 + 2) \in PlainInsns
  BY <1>1, ParcelPlain
<1>4. QED
  BY <1>2, <1>3

\* A constant is loaded by LUI and ADDI, or one of them.
LEMMA LoadConstantPlain ==
  ASSUME XLEN = 32, NEW r \in 0 .. 31, NEW v \in Int
  PROVE  LoadConstant(r, v) \in Seq(PlainInsns)
<1> DEFINE upper == Word(v + 2^11) \div 2^12
           lower == Bits(v - upper * 2^12, 11, 0)
<1>1. upper \in Int
  BY SMT DEF Word
<1> HIDE DEF upper
<1>2. lower \in Int
  BY <1>1, SMT DEF Bits
<1> HIDE DEF lower
<1>3. 0 \in 0 .. 31 /\ 0 \in 0 .. 7 /\ 19 \in {3, 19}
  BY SMT
<1>4. IType(v, 0, 0, r, 19) \in PlainInsns
  BY <1>3, ITypePlain, Zenon
<1>5. UType(upper, r, 55) \in PlainInsns
  BY <1>1, UTypePlain
<1>6. IType(lower, r, 0, r, 19) \in PlainInsns
  BY <1>2, <1>3, ITypePlain, Zenon
<1>7. LoadConstant(r, v) \in {<<IType(v, 0, 0, r, 19)>>, <<UType(upper, r, 55)>>,
                              <<UType(upper, r, 55), IType(lower, r, 0, r, 19)>>}
  BY DEF LoadConstant, upper, lower
<1>8. \A a, b \in PlainInsns : <<a>> \in Seq(PlainInsns) /\ <<a, b>> \in Seq(PlainInsns)
  OBVIOUS
<1>9. QED
  BY <1>4, <1>7, <1>5, <1>6, <1>8, Zenon

\* The data registers are listed in some order.
LEMMA DataRegsFinite ==
  /\ DataRegs \subseteq 1 .. 15 /\ IsFiniteSet(DataRegs)
  /\ SetToSeq(DataRegs) \in [1 .. Cardinality(DataRegs) -> DataRegs] /\ Cardinality(DataRegs) \in Nat
<1>1. DataRegs \subseteq 1 .. 15
  BY DrawsAssumption DEF DataRegs
<1>2. IsFiniteSet(DataRegs)
  <2>1. 1 \in Int /\ 15 \in Int
    OBVIOUS
  <2>2. IsFiniteSet(1 .. 15)
    BY <2>1, FS_Interval, Zenon
  <2>3. QED
    BY <1>1, <2>2, FS_Subset
<1>3. Cardinality(DataRegs) \in Nat /\ ExistsBijection(1 .. Cardinality(DataRegs), DataRegs)
  BY <1>2, FS_CardinalityType
<1>4. PICK f : f \in Bijection(1 .. Cardinality(DataRegs), DataRegs)
  BY <1>3 DEF ExistsBijection
<1>5. f \in [1 .. Cardinality(DataRegs) -> DataRegs] /\ IsInjective(f)
  BY <1>4 DEF Bijection, Injection, IsInjective
<1>6. SetToSeq(DataRegs) \in [1 .. Cardinality(DataRegs) -> DataRegs]
  BY <1>5 DEF SetToSeq
<1>7. QED
  BY <1>1, <1>2, <1>3, <1>6

\* What a random program begins with.
LEMMA ProloguePlain ==
  ASSUME XLEN = 32, NEW values \in [DataRegs -> Short]
  PROVE  Prologue(values) \in Seq(PlainInsns)
<1> DEFINE order == SetToSeq(DataRegs)
           n == Cardinality(DataRegs)
<1>1. order \in [1 .. n -> DataRegs] /\ n \in Nat /\ DataRegs \subseteq 1 .. 15
  BY DataRegsFinite
<1>2. LoadRegs(values) = [i \in 1 .. Len(order) |-> IType(values[order[i]], 0, 0, order[i], 19)]
  BY DEF LoadRegs
<1> HIDE DEF order, n
<1>3. Len(order) = n
  BY <1>1
<1>4. 0 \in 0 .. 31 /\ 0 \in 0 .. 7 /\ 19 \in {3, 19}
  BY SMT
<1>5. ASSUME NEW i \in 1 .. n PROVE IType(values[order[i]], 0, 0, order[i], 19) \in PlainInsns
  <2> DEFINE r == order[i]
  <2>1. r \in DataRegs
    BY <1>1
  <2>2. values[r] \in Int
    BY <2>1, DrawsAssumption
  <2> HIDE DEF r
  <2>3. r \in 0 .. 31
    BY <1>1, <2>1
  <2>4. IType(values[r], 0, 0, r, 19) \in PlainInsns
    BY <2>2, <2>3, <1>4, ITypePlain, Zenon
  <2>5. QED
    BY <2>4 DEF r
<1>6. LoadRegs(values) \in Seq(PlainInsns)
  <2> DEFINE g(i) == IType(values[order[i]], 0, 0, order[i], 19)
  <2>1. \A i \in 1 .. n : g(i) \in PlainInsns
    BY <1>5
  <2>2. LoadRegs(values) = [i \in 1 .. n |-> g(i)]
    BY <1>2, <1>3
  <2> HIDE DEF g
  <2>3. [i \in 1 .. n |-> g(i)] \in Seq(PlainInsns)
    BY <1>1, <2>1
  <2>4. QED
    BY <2>2, <2>3
<1>7. LoadConstant(2, DataBase) \in Seq(PlainInsns) /\ LoadConstant(8, DataBase) \in Seq(PlainInsns)
  BY DrawsAssumption, LoadConstantPlain
<1>8. QED
  BY <1>6, <1>7, ConcatProperties DEF Prologue

\* What it draws from.
LEMMA RandomPlain == RandomInsns \subseteq PlainInsns
<1>1. \A r \in DataRegs : r \in 0 .. 31 /\ r \in Nat
  BY DataRegsFinite
<1>2. \A r \in CompactRegs : r \in Nat
  BY DrawsAssumption DEF CompactRegs
<1>3. \A n : Aligned(n) \subseteq Nat
  BY DrawsAssumption DEF Aligned
<1>4. Values \subseteq Int /\ Short \subseteq Int /\ NonZero \subseteq Int
  BY DrawsAssumption DEF NonZero
<1>5. /\ 3 \in {3, 19} /\ 19 \in {3, 19} /\ 8 \in 0 .. 31 /\ 8 \in Nat
      /\ \A f \in {0, 1, 2, 3, 4, 5, 6, 7} : f \in 0 .. 7
  BY SMT
<1> DEFINE I1 == {IType(imm, rs1, f, rd, 19) : imm \in Values, rs1 \in DataRegs, f \in {0, 2, 3, 4, 6, 7}, rd \in DataRegs}
           I2 == {IType(x[2] * 2^5 + n, rs1, x[1], rd, 19) :
                    n \in {0, 1, 31}, rs1 \in DataRegs, x \in {<<1, 0>>, <<5, 0>>, <<5, 32>>}, rd \in DataRegs}
           I3 == {RType(x[2], rs2, rs1, x[1], rd) :
                    rs2 \in DataRegs, rs1 \in DataRegs, x \in ((0 .. 7) \X {0}) \cup {<<0, 32>>, <<5, 32>>}, rd \in DataRegs}
           I4 == UNION {{IType(o, 8, f, rd, 3) : o \in Aligned(2^(f % 4)), rd \in DataRegs} : f \in {0, 1, 2, 4, 5}}
           I5 == UNION {{SType(o, rs2, 8, f) : o \in Aligned(2^f), rs2 \in DataRegs} : f \in 0 .. 2}
           I6 == {CAddi(rd, v) : rd \in DataRegs, v \in NonZero}
           I7 == {CLi(rd, v) : rd \in DataRegs, v \in Short}
           I8 == {CSlli(rd, n) : rd \in DataRegs, n \in {1, 31}}
           I9 == {CCr(b, rd, rs2) : b \in {0, 1}, rd \in DataRegs, rs2 \in DataRegs}
           I10 == {CLw(r, 8, o) : r \in CompactRegs, o \in Aligned(4)}
           I11 == {CSw(r, 8, o) : r \in CompactRegs, o \in Aligned(4)}
           I12 == {CLwsp(rd, o) : rd \in DataRegs, o \in Aligned(4)}
           I13 == {CSwsp(rs2, o) : rs2 \in DataRegs, o \in Aligned(4)}
<1>6. I1 \subseteq PlainInsns
  <2> SUFFICES ASSUME NEW imm \in Values, NEW rs1 \in DataRegs, NEW f \in {0, 2, 3, 4, 6, 7}, NEW rd \in DataRegs
               PROVE  IType(imm, rs1, f, rd, 19) \in PlainInsns
    OBVIOUS
  <2>1. imm \in Int /\ rs1 \in 0 .. 31 /\ rd \in 0 .. 31 /\ f \in 0 .. 7
    BY <1>1, <1>4, <1>5
  <2>2. QED
    BY <2>1, <1>5, ITypePlain, Zenon
<1>7. I2 \subseteq PlainInsns
  <2> SUFFICES ASSUME NEW n \in {0, 1, 31}, NEW rs1 \in DataRegs, NEW x \in {<<1, 0>>, <<5, 0>>, <<5, 32>>},
                      NEW rd \in DataRegs
               PROVE  IType(x[2] * 2^5 + n, rs1, x[1], rd, 19) \in PlainInsns
    OBVIOUS
  <2>1. x[2] * 2^5 + n \in Int /\ x[1] \in 0 .. 7
    BY SMT
  <2>2. rs1 \in 0 .. 31 /\ rd \in 0 .. 31
    BY <1>1
  <2>3. QED
    BY <2>1, <2>2, <1>5, ITypePlain, Zenon
<1>8. I3 \subseteq PlainInsns
  <2> SUFFICES ASSUME NEW rs2 \in DataRegs, NEW rs1 \in DataRegs,
                      NEW x \in ((0 .. 7) \X {0}) \cup {<<0, 32>>, <<5, 32>>}, NEW rd \in DataRegs
               PROVE  RType(x[2], rs2, rs1, x[1], rd) \in PlainInsns
    OBVIOUS
  <2>1. x[2] \in {0, 32} /\ x[1] \in 0 .. 7
    BY SMT
  <2>2. rs1 \in 0 .. 31 /\ rd \in 0 .. 31 /\ rs2 \in 0 .. 31
    BY <1>1
  <2>3. QED
    BY <2>1, <2>2, RTypePlain, Zenon
<1>9. I4 \subseteq PlainInsns
  <2> SUFFICES ASSUME NEW f \in {0, 1, 2, 4, 5}, NEW o \in Aligned(2^(f % 4)), NEW rd \in DataRegs
               PROVE  IType(o, 8, f, rd, 3) \in PlainInsns
    OBVIOUS
  <2>1. o \in Nat /\ rd \in 0 .. 31 /\ f \in 0 .. 7
    BY <1>1, <1>3, <1>5, Zenon
  <2>2. o \in Int
    BY <2>1
  <2>3. QED
    BY <2>1, <2>2, <1>5, ITypePlain, Zenon
<1>10. I5 \subseteq PlainInsns
  <2> SUFFICES ASSUME NEW f \in 0 .. 2, NEW o \in Aligned(2^f), NEW rs2 \in DataRegs
               PROVE  SType(o, rs2, 8, f) \in PlainInsns
    OBVIOUS
  <2>1. o \in Nat /\ rs2 \in 0 .. 31
    BY <1>1, <1>3, Zenon
  <2>2. o \in Int /\ f \in 0 .. 7
    BY <2>1
  <2>3. QED
    BY <2>1, <2>2, <1>5, STypePlain, Zenon
<1>11. /\ \A k \in {0, 2, 3} : \A r \in Nat, x \in Int : CCi(k, r, x) \in PlainInsns
       /\ \A k \in {2, 6} : \A r, s, x \in Nat : CMem(k, r, s, x) \in PlainInsns
       /\ \A r, x \in Nat : CSlli(r, x) \in PlainInsns /\ CLwsp(r, x) \in PlainInsns /\ CSwsp(r, x) \in PlainInsns
  <2>1. Nat \subseteq Int
    OBVIOUS
  <2>2. QED
    BY <2>1, CCiPlain, CMemPlain, CSlliPlain, CLwspPlain, CSwspPlain, Zenon
<1>12. \A rd \in DataRegs, v \in Int : CAddi(rd, v) \in PlainInsns /\ CLi(rd, v) \in PlainInsns
  BY <1>1, <1>11, Zenon DEF CAddi, CLi
<1>13. \A rd \in DataRegs, n \in {1, 31} : CSlli(rd, n) \in PlainInsns
  <2>1. \A n \in {1, 31} : n \in Nat
    OBVIOUS
  <2>2. QED
    BY <2>1, <1>1, <1>11, Zenon
<1>14. \A b \in {0, 1}, rd \in DataRegs, rs2 \in DataRegs : CCr(b, rd, rs2) \in PlainInsns
  BY <1>1, CCrPlain, Zenon
<1>15. \A r \in CompactRegs, o \in Aligned(4) : CLw(r, 8, o) \in PlainInsns /\ CSw(r, 8, o) \in PlainInsns
  BY <1>2, <1>3, <1>5, <1>11, Zenon DEF CLw, CSw
<1>16. \A r \in DataRegs, o \in Aligned(4) : CLwsp(r, o) \in PlainInsns /\ CSwsp(r, o) \in PlainInsns
  BY <1>1, <1>3, <1>11, Zenon
<1>17. I6 \subseteq PlainInsns /\ I7 \subseteq PlainInsns
  BY <1>4, <1>12
<1>18. I8 \subseteq PlainInsns /\ I9 \subseteq PlainInsns
  BY <1>13, <1>14
<1>19. I10 \subseteq PlainInsns /\ I11 \subseteq PlainInsns
  BY <1>15
<1>20. I12 \subseteq PlainInsns /\ I13 \subseteq PlainInsns
  BY <1>16
<1>21. RandomInsns = I1 \cup I2 \cup I3 \cup I4 \cup I5 \cup I6 \cup I7 \cup I8 \cup I9 \cup I10 \cup I11 \cup I12 \cup I13
  BY DEF RandomInsns
<1> HIDE DEF I1, I2, I3, I4, I5, I6, I7, I8, I9, I10, I11, I12, I13
<1>22. QED
  BY <1>6, <1>7, <1>8, <1>9, <1>10, <1>17, <1>18, <1>19, <1>20, <1>21, Zenon

\* The encoders of 16 bits together.
LEMMA CompactPlain ==
  /\ \A r \in Nat, x \in Int : CAddi(r, x) \in PlainInsns /\ CLi(r, x) \in PlainInsns /\ CLui(r, x) \in PlainInsns
  /\ \A x \in Int : CAddi16sp(x) \in PlainInsns
  /\ \A r \in Nat, x \in Int : CAddi4spn(r, x) \in PlainInsns
  /\ \A r, s \in Nat, x \in Int : CLw(r, s, x) \in PlainInsns /\ CSw(r, s, x) \in PlainInsns
  /\ \A r \in Nat, x \in Int : CLwsp(r, x) \in PlainInsns /\ CSwsp(r, x) \in PlainInsns
  /\ \A k \in 0 .. 7, x \in Int : CJ(k, x) \in PlainInsns
  /\ \A k \in 0 .. 7, r \in Nat, x \in Int : CBranch(k, r, x) \in PlainInsns
  /\ \A r, x \in Nat : CSlli(r, x) \in PlainInsns
  /\ \A b \in {0, 1}, r \in Nat, s \in Nat : CCr(b, r, s) \in PlainInsns
<1>1. \A k \in {0, 2, 3} : \A r \in Nat, x \in Int : CCi(k, r, x) \in PlainInsns
  BY CCiPlain, Zenon
<1>2. \A k \in {2, 6} : \A r, s \in Nat, x \in Int : CMem(k, r, s, x) \in PlainInsns
  BY CMemPlain, Zenon
<1>3. \A r \in Nat, x \in Int : CAddi(r, x) \in PlainInsns /\ CLi(r, x) \in PlainInsns /\ CLui(r, x) \in PlainInsns
  BY <1>1, Zenon DEF CAddi, CLi, CLui
<1>4. \A r, s \in Nat, x \in Int : CLw(r, s, x) \in PlainInsns /\ CSw(r, s, x) \in PlainInsns
  BY <1>2, Zenon DEF CLw, CSw
<1>5. QED
  BY <1>3, <1>4, CAddi16spPlain, CAddi4spnPlain, CLwspPlain, CSwspPlain, CJPlain, CBranchPlain, CSlliPlain, CCrPlain, Zenon

\* The instructions of rv32e_alu.
AluProgram ==
  <<UType(74565, 1, 55), IType(1656, 1, 0, 1, 19), UType(1, 2, 23), IType(-1, 0, 0, 3, 19),
    IType(1, 3, 5, 4, 19), IType(32 * 2^5 + 1, 3, 5, 5, 19), RType(0, 5, 4, 7, 6), RType(0, 5, 4, 6, 7),
    RType(32, 4, 7, 0, 8), Ebreak>>

\* Its instructions are plain.
LEMMA AluPlain == AluProgram \in Seq(PlainInsns)
<1> DEFINE i1 == UType(74565, 1, 55)
           i2 == IType(1656, 1, 0, 1, 19)
           i3 == UType(1, 2, 23)
           i4 == IType(-1, 0, 0, 3, 19)
           i5 == IType(1, 3, 5, 4, 19)
           i6 == IType(32 * 2^5 + 1, 3, 5, 5, 19)
           i7 == RType(0, 5, 4, 7, 6)
           i8 == RType(0, 5, 4, 6, 7)
           i9 == RType(32, 4, 7, 0, 8)
           i10 == Ebreak
<1>1. i1 \in InsnFields /\ i1.opcode # 115
  BY FieldRanges DEF UType, Fields, InsnFields
<1>2. i2 \in InsnFields /\ i2.opcode # 115
  BY FieldRanges DEF IType, Fields, InsnFields
<1>3. i3 \in InsnFields /\ i3.opcode # 115
  BY FieldRanges DEF UType, Fields, InsnFields
<1>4. i4 \in InsnFields /\ i4.opcode # 115
  BY FieldRanges DEF IType, Fields, InsnFields
<1>5. i5 \in InsnFields /\ i5.opcode # 115
  BY FieldRanges DEF IType, Fields, InsnFields
<1>6. i6 \in InsnFields /\ i6.opcode # 115
  BY FieldRanges DEF IType, Fields, InsnFields
<1>7. i7 \in InsnFields /\ i7.opcode # 115
  BY FieldRanges DEF RType, Fields, InsnFields
<1>8. i8 \in InsnFields /\ i8.opcode # 115
  BY FieldRanges DEF RType, Fields, InsnFields
<1>9. i9 \in InsnFields /\ i9.opcode # 115
  BY FieldRanges DEF RType, Fields, InsnFields
<1>10. i10 \in PlainInsns
  BY EndsPlain
<1> HIDE DEF i1, i2, i3, i4, i5, i6, i7, i8, i9, i10
<1>11. i1 \in PlainInsns /\ i2 \in PlainInsns /\ i3 \in PlainInsns /\ i4 \in PlainInsns /\ i5 \in PlainInsns /\ i6 \in PlainInsns /\ i7 \in PlainInsns /\ i8 \in PlainInsns /\ i9 \in PlainInsns
  BY <1>1, <1>2, <1>3, <1>4, <1>5, <1>6, <1>7, <1>8, <1>9, WidePlain, Zenon
<1>12. <<i1, i2, i3, i4, i5, i6, i7, i8, i9, i10>> \in Seq(PlainInsns)
  BY <1>10, <1>11
<1>13. QED
  BY <1>12 DEF AluProgram, i1, i2, i3, i4, i5, i6, i7, i8, i9, i10

\* The instructions of rv32ec_compressed.
CompressedProgram ==
  <<CAddi16sp(16), CLui(4, 1), CLi(8, 0), CBranch(6, 8, 4), CLi(1, 1), CLi(9, 1), CBranch(7, 9, 4),
    CLi(3, 7), CLi(1, 2), CAddi(1, 3), CCr(0, 2, 1), CCr(1, 2, 1), CSlli(2, 1), CJ(5, 4), CLi(3, 7),
    CEbreak>>

\* So are these.
LEMMA CompressedPlain == CompressedProgram \in Seq(PlainInsns)
<1> DEFINE i1 == CAddi16sp(16)
           i2 == CLui(4, 1)
           i3 == CLi(8, 0)
           i4 == CBranch(6, 8, 4)
           i5 == CLi(1, 1)
           i6 == CLi(9, 1)
           i7 == CBranch(7, 9, 4)
           i8 == CLi(3, 7)
           i9 == CLi(1, 2)
           i10 == CAddi(1, 3)
           i11 == CCr(0, 2, 1)
           i12 == CCr(1, 2, 1)
           i13 == CSlli(2, 1)
           i14 == CJ(5, 4)
           i15 == CEbreak
<1>1. i1 \in PlainInsns /\ i2 \in PlainInsns /\ i3 \in PlainInsns /\ i4 \in PlainInsns
  BY CompactPlain, SMT
<1>2. i5 \in PlainInsns /\ i6 \in PlainInsns /\ i7 \in PlainInsns /\ i8 \in PlainInsns
  BY CompactPlain, SMT
<1>3. i9 \in PlainInsns /\ i10 \in PlainInsns /\ i11 \in PlainInsns /\ i12 \in PlainInsns
  BY CompactPlain, SMT
<1>4. i13 \in PlainInsns /\ i14 \in PlainInsns
  BY CompactPlain, SMT
<1>5. i15 \in PlainInsns
  BY CompactPlain DEF CEbreak
<1> HIDE DEF i1, i2, i3, i4, i5, i6, i7, i8, i9, i10, i11, i12, i13, i14, i15
<1>6. <<i1, i2, i3, i4, i5, i6, i7, i8, i9, i10, i11, i12, i13, i14, i8, i15>> \in Seq(PlainInsns)
  BY <1>1, <1>2, <1>3, <1>4, <1>5
<1>7. QED
  BY <1>6 DEF CompressedProgram, i1, i2, i3, i4, i5, i6, i7, i8, i9, i10, i11, i12, i13, i14, i15

\* The instructions of rv32ec_zicsr_wfi.
ZicsrProgram ==
  <<IType(64, 0, 0, 1, 19), CsrType(Mtvec, 1, 1, 0), CsrType(Mtvec, 0, 2, 2), CsrType(Mscratch, 5, 5, 3),
    CsrType(Mscratch, 0, 2, 4), CsrType(Mscratch, 1, 7, 5), IType(4, 0, 0, 6, 19),
    CsrType(Mscratch, 6, 3, 7), CsrType(Mscratch, 2, 6, 8), Wfi, Ebreak>>

\* So are these.
LEMMA ZicsrPlain == ZicsrProgram \in Seq(PlainInsns)
<1> DEFINE i1 == IType(64, 0, 0, 1, 19)
           i2 == CsrType(Mtvec, 1, 1, 0)
           i3 == CsrType(Mtvec, 0, 2, 2)
           i4 == CsrType(Mscratch, 5, 5, 3)
           i5 == CsrType(Mscratch, 0, 2, 4)
           i6 == CsrType(Mscratch, 1, 7, 5)
           i7 == IType(4, 0, 0, 6, 19)
           i8 == CsrType(Mscratch, 6, 3, 7)
           i9 == CsrType(Mscratch, 2, 6, 8)
           i10 == Wfi
           i11 == Ebreak
<1>1. i1 \in InsnFields /\ i1.opcode # 115
  BY FieldRanges DEF IType, Fields, InsnFields
<1>2. i7 \in InsnFields /\ i7.opcode # 115
  BY FieldRanges DEF IType, Fields, InsnFields
<1>3. i2 \in PlainInsns /\ i3 \in PlainInsns /\ i4 \in PlainInsns /\ i5 \in PlainInsns
  BY CsrsPlain
<1>4. i6 \in PlainInsns /\ i8 \in PlainInsns /\ i9 \in PlainInsns
  BY CsrsPlain
<1>5. i10 \in PlainInsns /\ i11 \in PlainInsns
  BY EndsPlain
<1> HIDE DEF i1, i2, i3, i4, i5, i6, i7, i8, i9, i10, i11
<1>6. i1 \in PlainInsns /\ i7 \in PlainInsns
  BY <1>1, <1>2, WidePlain, Zenon
<1>7. <<i1, i2, i3, i4, i5, i6, i7, i8, i9, i10, i11>> \in Seq(PlainInsns)
  BY <1>3, <1>4, <1>5, <1>6
<1>8. QED
  BY <1>7 DEF ZicsrProgram, i1, i2, i3, i4, i5, i6, i7, i8, i9, i10, i11

\* The instructions of the rest of rv32e_branch_memory.
BranchProgram ==
  <<IType(-1, 0, 0, 2, 19), SType(0, 2, 1, 2), IType(0, 1, 2, 3, 3), BType(8, 2, 3, 0),
    IType(1, 0, 0, 4, 19), JType(8, 5), IType(2, 0, 0, 4, 19), Ebreak>>

\* So are these.
LEMMA BranchPlain == BranchProgram \in Seq(PlainInsns)
<1> DEFINE i1 == IType(-1, 0, 0, 2, 19)
           i2 == SType(0, 2, 1, 2)
           i3 == IType(0, 1, 2, 3, 3)
           i4 == BType(8, 2, 3, 0)
           i5 == IType(1, 0, 0, 4, 19)
           i6 == JType(8, 5)
           i7 == IType(2, 0, 0, 4, 19)
           i8 == Ebreak
<1>1. i1 \in InsnFields /\ i1.opcode # 115
  BY FieldRanges DEF IType, Fields, InsnFields
<1>2. i2 \in InsnFields /\ i2.opcode # 115
  BY FieldRanges DEF SType, Fields, InsnFields
<1>3. i3 \in InsnFields /\ i3.opcode # 115
  BY FieldRanges DEF IType, Fields, InsnFields
<1>4. i4 \in InsnFields /\ i4.opcode # 115
  BY FieldRanges DEF BType, Fields, InsnFields
<1>5. i5 \in InsnFields /\ i5.opcode # 115
  BY FieldRanges DEF IType, Fields, InsnFields
<1>6. i6 \in InsnFields /\ i6.opcode # 115
  BY FieldRanges DEF JType, Fields, InsnFields
<1>7. i7 \in InsnFields /\ i7.opcode # 115
  BY FieldRanges DEF IType, Fields, InsnFields
<1>8. i8 \in PlainInsns
  BY EndsPlain
<1> HIDE DEF i1, i2, i3, i4, i5, i6, i7, i8
<1>9. i1 \in PlainInsns /\ i2 \in PlainInsns /\ i3 \in PlainInsns /\ i4 \in PlainInsns /\ i5 \in PlainInsns /\ i6 \in PlainInsns /\ i7 \in PlainInsns
  BY <1>1, <1>2, <1>3, <1>4, <1>5, <1>6, <1>7, WidePlain, Zenon
<1>10. <<i1, i2, i3, i4, i5, i6, i7, i8>> \in Seq(PlainInsns)
  BY <1>8, <1>9
<1>11. QED
  BY <1>10 DEF BranchProgram, i1, i2, i3, i4, i5, i6, i7, i8

\* The instructions of the rest of rv32ec_compressed_memory.
MemoryProgram ==
  <<CAddi4spn(8, 16), CLi(9, 7), CSw(9, 8, 0), CLw(10, 8, 0), CSwsp(10, 4), CLwsp(11, 4), CEbreak>>

\* So are these.
LEMMA MemoryPlain == MemoryProgram \in Seq(PlainInsns)
<1> DEFINE i1 == CAddi4spn(8, 16)
           i2 == CLi(9, 7)
           i3 == CSw(9, 8, 0)
           i4 == CLw(10, 8, 0)
           i5 == CSwsp(10, 4)
           i6 == CLwsp(11, 4)
           i7 == CEbreak
<1>1. i1 \in PlainInsns /\ i2 \in PlainInsns /\ i3 \in PlainInsns /\ i4 \in PlainInsns
  BY CompactPlain, SMT
<1>2. i5 \in PlainInsns /\ i6 \in PlainInsns
  BY CompactPlain, SMT
<1>3. i7 \in PlainInsns
  BY CompactPlain DEF CEbreak
<1> HIDE DEF i1, i2, i3, i4, i5, i6, i7
<1>4. <<i1, i2, i3, i4, i5, i6, i7>> \in Seq(PlainInsns)
  BY <1>1, <1>2, <1>3
<1>5. QED
  BY <1>4 DEF MemoryProgram, i1, i2, i3, i4, i5, i6, i7

\* Every directed program consists of plain instructions.
LEMMA DirectedPlain ==
  ASSUME XLEN = 32
  PROVE  DirectedPrograms \subseteq Seq(PlainInsns)
<1> DEFINE high == 2^(XLEN - 1) + 2^12
           loads == {<<IType(128, 0, 0, 1, 19)>>, LoadConstant(1, high)}
           stacks == {<<IType(64, 0, 0, 2, 19)>>, LoadConstant(2, high)}
<1>1. DirectedPrograms =
        {AluProgram, CompressedProgram, ZicsrProgram} \cup {load \o BranchProgram : load \in loads}
          \cup {load \o MemoryProgram : load \in stacks}
  BY DEF DirectedPrograms, AluProgram, CompressedProgram, ZicsrProgram, BranchProgram, MemoryProgram
<1>2. LoadConstant(1, high) \in Seq(PlainInsns) /\ LoadConstant(2, high) \in Seq(PlainInsns)
  <2>1. high \in Int
    BY SMT
  <2> HIDE DEF high
  <2>2. QED
    BY <2>1, LoadConstantPlain
<1>3. <<IType(128, 0, 0, 1, 19)>> \in Seq(PlainInsns) /\ <<IType(64, 0, 0, 2, 19)>> \in Seq(PlainInsns)
  <2> DEFINE i == IType(128, 0, 0, 1, 19)
             j == IType(64, 0, 0, 2, 19)
  <2>1. i \in InsnFields /\ i.opcode # 115
    BY FieldRanges DEF IType, Fields, InsnFields
  <2>2. j \in InsnFields /\ j.opcode # 115
    BY FieldRanges DEF IType, Fields, InsnFields
  <2> HIDE DEF i, j
  <2>3. i \in PlainInsns /\ j \in PlainInsns
    BY <2>1, <2>2, WidePlain, Zenon
  <2>4. <<i>> \in Seq(PlainInsns) /\ <<j>> \in Seq(PlainInsns)
    BY <2>3
  <2>5. QED
    BY <2>4 DEF i, j
<1>4. loads \subseteq Seq(PlainInsns) /\ stacks \subseteq Seq(PlainInsns)
  BY <1>2, <1>3, Zenon
<1> HIDE DEF loads, stacks
<1>5. \A s, t \in Seq(PlainInsns) : s \o t \in Seq(PlainInsns)
  BY ConcatProperties
<1>6. QED
  BY <1>1, <1>4, <1>5, AluPlain, CompressedPlain, ZicsrPlain, BranchPlain, MemoryPlain

\* The program counters, registers, memory and CSRs agree until one of the two halts.
Lockstep ==
  /\ steps \in Nat
  /\ StateAgrees
  /\ TrapsAgree
  /\ suite # "encodings" /\ ~model.halted /\ ~rtl.halted => Paired(model, rtl)
  /\ suite \in DOMAIN Suites /\ steps = 0 => model \in Suites[suite].starts /\ rtl = model
  /\ Regress => image \in Seq(PlainInsns)

\* Before the first instruction.
LEMMA StartsAgree ==
  ASSUME rtl = model, expected = NoItem, actual = NoItem
  PROVE  StateAgrees /\ TrapsAgree
<1>1. expected.trap = FALSE /\ actual.trap = FALSE /\ expected.addr = None /\ actual.addr = None
  BY DEF NoItem
<1>2. QED
  BY <1>1 DEF StateAgrees, TrapsAgree

\* The state after reset is one a program can start in.
LEMMA ResetOK ==
  ASSUME XLEN = 32
  PROVE  StartOK(Reset)
<1>1. /\ Reset.pc = 0 /\ Reset.regs = [r \in 1 .. 15 |-> 0] /\ Reset.mem = << >>
      /\ Reset.csrs = [a \in Writable |-> 0]
  BY DEF Reset
<1>2. 0 \in 0 .. 2^XLEN - 1 /\ 0 % 2 = 0 /\ 0 % 4 = 0
  BY SMT
<1>3. DOMAIN Reset.mem = {}
  BY <1>1
<1>4. Mepc \in Writable /\ Mtvec \in Writable /\ Mie \in Writable
  BY DEF Writable
<1>5. (0 & IrqBits) = 0
  <2>1. 0 \in Words /\ IrqBits \in Words
    BY SMT DEF Words, IrqBits
  <2>2. (0 & IrqBits) \in Nat /\ (0 & IrqBits) <= 0
    BY <2>1, AndBounds
  <2> DEFINE x == 0 & IrqBits
  <2> HIDE DEF x
  <2>3. x = 0
    <3>1. x \in Nat /\ x <= 0
      BY <2>2 DEF x
    <3>2. QED
      BY <3>1
  <2>4. QED
    BY <2>3 DEF x
<1>6. StateOK(Reset)
  BY <1>1, <1>2, <1>3, Zenon DEF StateOK
<1>7. Reset.csrs[Mepc] = 0 /\ Reset.csrs[Mtvec] = 0 /\ Reset.csrs[Mie] = 0
  BY <1>1, <1>4, Zenon
<1>8. QED
  BY <1>1, <1>2, <1>5, <1>6, <1>7, Zenon DEF StartOK

\* Every suite and every program starts in lock step.
LEMMA LockstepInit ==
  ASSUME XLEN = 32, Init
  PROVE  Lockstep
<1>1. rtl = model /\ expected = NoItem /\ actual = NoItem /\ steps = 0
  BY DEF Init, CompareInit, RegressInit
<1>2. suite \in DOMAIN Suites => model \in Suites[suite].starts
  BY SuitesAssumption DEF Init, CompareInit, RegressInit
<1>3. ASSUME suite # "encodings" PROVE Paired(model, rtl)
  <2>1. StartOK(model)
    <3>1. suite \in DOMAIN Suites \/ model = Reset
      BY <1>3 DEF Init, CompareInit, RegressInit
    <3>2. QED
      BY <1>2, <3>1, ResetOK, SuitesAssumption DEF SuiteOK
  <2>2. QED
    BY <1>1, <2>1, StartPaired
<1>4. ASSUME Regress PROVE image \in Seq(PlainInsns)
  <2>1. RegressInit
    BY <1>4, SuitesAssumption DEF Init, CompareInit, Regress
  <2>2. image \in DirectedPrograms \/ \E values \in [DataRegs -> Short] : image = Prologue(values)
    BY <2>1 DEF RegressInit
  <2>3. QED
    BY <2>2, DirectedPlain, ProloguePlain
<1>5. QED
  BY <1>1, <1>2, <1>3, <1>4, StartsAgree DEF Lockstep

\* One instruction on both sides, from states in which they agree on it.
LEMMA OneStep ==
  ASSUME NEW insn, Agrees(model, rtl, insn),
         model' = M!After(model, M!Outcome(model, insn)), rtl' = M!After(rtl, R!Outcome(rtl, insn)),
         expected' = M!TraceItem(model, insn, M!Outcome(model, insn)),
         actual' = M!TraceItem(rtl, insn, R!Outcome(rtl, insn))
  PROVE  StateAgrees' /\ TrapsAgree' /\ (~model'.halted /\ ~rtl'.halted => Paired(model', rtl'))
<1> DEFINE m == M!Outcome(model, insn)
           r == R!Outcome(rtl, insn)
<1>1. OneTrap(m, r) \/ OneEffect(model, rtl, m, r)
  BY DEF Agrees
<1>2. /\ model' = M!After(model, m) /\ rtl' = M!After(rtl, r)
      /\ expected' = M!TraceItem(model, insn, m) /\ actual' = M!TraceItem(rtl, insn, r)
  OBVIOUS
<1> HIDE DEF m, r
<1>3. /\ expected'.trap = (m.cause # "none") /\ expected'.cause = m.cause
      /\ actual'.trap = (r.cause # "none") /\ actual'.cause = r.cause
      /\ model'.halted = (m.cause # "none") /\ rtl'.halted = (r.cause # "none")
      /\ m.cause = "none" => expected'.addr = m.addr
      /\ r.cause = "none" => actual'.addr = r.addr
      /\ model'.sleeping = m.sleeping /\ rtl'.sleeping = r.sleeping
  BY <1>2, ItemFields
<1>4. CASE OneTrap(m, r)
  <2>1. expected'.trap /\ actual'.trap /\ model'.halted /\ rtl'.halted
    BY <1>3, <1>4 DEF OneTrap
  <2>2. TrapsAgree'
    BY <1>3, <1>4, <2>1 DEF OneTrap, TrapsAgree
  <2>3. StateAgrees'
    BY <2>1 DEF StateAgrees, Retired
  <2>4. QED
    BY <2>1, <2>2, <2>3
<1>5. CASE OneEffect(model, rtl, m, r)
  <2>1. Paired(model', rtl')
    BY <1>2, <1>5 DEF OneEffect, Paired
  <2>2. ~expected'.trap /\ ~actual'.trap
    BY <1>3, <1>5 DEF OneEffect
  <2>3. TrapsAgree'
    BY <1>3, <1>5 DEF OneEffect, TrapsAgree
  <2>4. /\ actual'.addr = (IF expected'.addr = None THEN None ELSE AlignDown(expected'.addr, 4))
        /\ model'.sleeping = rtl'.sleeping
    BY <1>3, <1>5 DEF OneEffect
  <2>5. /\ model'.pc = rtl'.pc /\ model'.regs = rtl'.regs
        /\ \A a : ByteAt(model'.mem, a) = ByteAt(rtl'.mem, a)
        /\ \A a \in Writable \ {Mstatus} : model'.csrs[a] = rtl'.csrs[a]
        /\ Interrupts(model)' = Interrupts(rtl)'
    BY <2>1 DEF Paired, Alike, SameMem, SameCsrs, Interrupts
  <2>6. StateAgrees'
    BY <2>4, <2>5 DEF StateAgrees
  <2>7. QED
    BY <2>1, <2>3, <2>6
<1>6. QED
  BY <1>1, <1>4, <1>5

\* A step of a suite.
LEMMA SuiteStep ==
  ASSUME XLEN = 32, Lockstep, CompareNext
  PROVE  Lockstep'
<1> DEFINE x == Suites[suite]
<1>1. PICK insn \in x.program : Execute(insn)
  BY DEF CompareNext
<1>2. suite \in DOMAIN Suites /\ steps < x.length /\ ~model.halted /\ ~rtl.halted
  BY DEF CompareNext, CanStep
<1>3. SuiteOK(x) /\ x.length \in Nat /\ steps \in Nat /\ suite # "encodings" /\ ~Regress
  BY <1>2, SuitesAssumption DEF Lockstep, SuiteOK, Regress
<1>4. x.length <= 1 => model \in x.starts /\ rtl = model
  BY <1>2, <1>3 DEF Lockstep
<1>5. Paired(model, rtl)
  BY <1>2, <1>3 DEF Lockstep
<1>6. Agrees(model, rtl, insn)
  BY <1>3, <1>4, <1>5, SuiteAgrees
<1> HIDE DEF x
<1>7. steps' = steps + 1 /\ suite' = suite
  BY <1>1 DEF Execute
<1>8. StateAgrees' /\ TrapsAgree' /\ (~model'.halted /\ ~rtl'.halted => Paired(model', rtl'))
  BY <1>1, <1>6, OneStep DEF Execute
<1>9. steps' \in Nat /\ steps' # 0 /\ ~Regress'
  BY <1>3, <1>7 DEF Regress
<1>10. QED
  BY <1>8, <1>9 DEF Lockstep

\* A step of a regression program: both fetch the one instruction that starts where they are.
LEMMA ProgramStep ==
  ASSUME XLEN = 32, Lockstep, Regress, Step
  PROVE  Lockstep'
<1>1. ~model.halted /\ ~rtl.halted /\ suite # "encodings" /\ image \in Seq(PlainInsns) /\ steps \in Nat
  BY DEF Step, Running, Lockstep, Regress
<1>2. Paired(model, rtl)
  BY <1>1 DEF Lockstep
<1>3. model.pc = rtl.pc
  BY <1>2 DEF Paired, Alike
<1>4. PICK mi \in InsnsAt(image, model.pc), ri \in InsnsAt(image, rtl.pc) :
        /\ model' = M!After(model, M!Outcome(model, mi)) /\ rtl' = M!After(rtl, R!Outcome(rtl, ri))
        /\ expected' = M!TraceItem(model, mi, M!Outcome(model, mi))
        /\ actual' = M!TraceItem(rtl, ri, R!Outcome(rtl, ri))
  BY Zenon DEF Step
<1>5. mi = ri /\ mi \in PlainInsns
  BY <1>1, <1>3, OneInsn
<1>6. Agrees(model, rtl, mi)
  BY <1>2, <1>5, PlainInsnAgrees
<1>7. StateAgrees' /\ TrapsAgree' /\ (~model'.halted /\ ~rtl'.halted => Paired(model', rtl'))
  BY <1>4, <1>5, <1>6, OneStep
<1>8. steps' \in Nat /\ suite' = suite /\ image' = image /\ suite \notin DOMAIN Suites
  BY <1>1, SuitesAssumption DEF Step, Regress
<1>9. QED
  BY <1>1, <1>7, <1>8 DEF Lockstep

\* A regression program grows by instructions of the kinds it draws from.
LEMMA EmitStep ==
  ASSUME Lockstep, Regress, Emit \/ EmitEbreak
  PROVE  Lockstep'
<1>1. image \in Seq(PlainInsns)
  BY DEF Lockstep
<1>2. PICK insn \in PlainInsns : image' = Append(image, insn)
  <2>1. CEbreak \in PlainInsns
    BY CompactPlain DEF CEbreak
  <2>2. QED
    BY <2>1, RandomPlain DEF Emit, EmitEbreak
<1>3. image' \in Seq(PlainInsns)
  BY <1>1, <1>2
<1>4. UNCHANGED compareVars
  BY DEF Emit, EmitEbreak
<1>5. QED
  BY <1>3, <1>4 DEF Lockstep, Regress, compareVars, StateAgrees, TrapsAgree, Retired, Interrupts

\* The lock step is never left.
LEMMA LockstepAlways == XLEN = 32 => (Spec => []Lockstep)
<1> SUFFICES ASSUME XLEN = 32 PROVE Spec => []Lockstep
  OBVIOUS
<1>1. Init => Lockstep
  BY LockstepInit
<1>2. Lockstep /\ [Next]_vars => Lockstep'
  <2> SUFFICES ASSUME Lockstep, [Next]_vars PROVE Lockstep'
    OBVIOUS
  <2>1. CASE UNCHANGED compareVars /\ UNCHANGED image
    BY <2>1 DEF Regress, Lockstep, compareVars, StateAgrees, TrapsAgree, Retired, Interrupts
  <2>2. CASE CompareNext /\ UNCHANGED <<offset, image, left>>
    BY <2>2, SuiteStep
  <2>3. CASE RegressNext
    BY <2>3, ProgramStep, EmitStep DEF RegressNext, Regress
  <2>4. QED
    BY <2>1, <2>2, <2>3 DEF Next, vars
<1>3. QED
  BY <1>1, <1>2, PTL DEF Spec

\* StateAgrees: after every instruction that neither side traps on, the registers, the program
\* counter, the memory and the CSRs of rv32ec_model.py are those of the core: in every suite of
\* single instructions or of straight programs, whatever state it starts in, and in every
\* directed or random program of the regression.
THEOREM ModelAndRtlAgree == XLEN = 32 => (Spec => []StateAgrees)
<1> SUFFICES ASSUME XLEN = 32 PROVE Spec => []StateAgrees
  OBVIOUS
<1>1. Lockstep => StateAgrees
  BY DEF Lockstep
<1>2. QED
  BY <1>1, LockstepAlways, PTL

\* TrapsAgree: the two trap on the same instructions of a suite or a program, for the same cause
\* or for one that either side may prefer.
THEOREM ModelAndRtlTrapAlike == XLEN = 32 => (Spec => []TrapsAgree)
<1> SUFFICES ASSUME XLEN = 32 PROVE Spec => []TrapsAgree
  OBVIOUS
<1>1. Lockstep => TrapsAgree
  BY DEF Lockstep
<1>2. QED
  BY <1>1, LockstepAlways, PTL
=============================================================================
