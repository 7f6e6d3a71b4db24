----------------------------- MODULE EncodeTrip -----------------------------
(***************************************************************************)
(* The encoders of rv32ec_encode.py against the decoders of the reference  *)
(* model and of the RTL, for every offset an encoding can hold: what is    *)
(* encoded is what is decoded.                                             *)
(***************************************************************************)
EXTENDS Rv32ecEncode

CONSTANT
  OffsetRange      \* bound: offsets run from -OffsetRange to OffsetRange - 1

ASSUME OffsetAssumption == OffsetRange \in Nat

M == INSTANCE Rv32ecModel
R == INSTANCE DitDah32Alu

VARIABLE offset   \* the offset that is encoded; OffsetRange when all have been

TripInit == offset = -OffsetRange
TripDone == offset = OffsetRange
TripNext == offset < OffsetRange /\ offset' = offset + 1
-----------------------------------------------------------------------------
Fits(bits) == offset \in -(2^(bits - 1)) .. 2^(bits - 1) - 1
Even == offset % 2 = 0

\* The 32-bit formats keep the offset and the registers they are given; JAL holds 21 bits,
\* reached here by the offset itself and by its multiple.
FormatsTrip ==
  /\ Fits(12) =>
       /\ LET f == IType(offset, 5, 2, 9, 3) IN
            M!ImmI(f) = offset /\ R!imm12(f) = Word(offset) /\ f.rs1 = 5 /\ f.rd = 9
       /\ LET f == SType(offset, 7, 5, 2) IN M!ImmS(f) = offset /\ R!immS(f) = Word(offset) /\ f.rs2 = 7
  /\ Fits(13) /\ Even =>
       LET f == BType(offset, 7, 5, 1) IN M!ImmB(f) = offset /\ R!immB(f) = Word(offset) /\ f.rs2 = 7
  /\ Fits(13) => \A x \in {offset, 2^8 * offset} : x % 2 = 0 =>
       LET f == JType(x, 9) IN M!ImmJ(f) = x /\ R!immJ(f) = Word(x) /\ f.rd = 9

\* So do the compressed ones, in the ranges of their scaled fields.
ParcelsTrip ==
  /\ Fits(6) => \A p \in {CAddi(9, offset).parcel, CLi(9, offset).parcel, CLui(9, offset).parcel} :
                  M!CImm6(p) = offset /\ R!cImm6(p) = offset /\ M!RdRs1(p) = 9
  /\ Fits(10) /\ offset % 16 = 0 =>
       LET p == CAddi16sp(offset).parcel IN M!CAddi16spImm(p) = offset /\ R!cAddi16spImm(p) = offset
  /\ Fits(9) /\ Even =>
       LET p == CBranch(6, 9, offset).parcel IN
         M!CBranchImm(p) = offset /\ R!cBranchImm(p) = offset /\ M!Rs1Prime(p) = 9
  /\ Fits(12) /\ Even => LET p == CJ(5, offset).parcel IN M!CJumpImm(p) = offset /\ R!cJumpImm(p) = offset
  /\ offset \in 0 .. 1023 /\ offset % 4 = 0 =>
       LET p == CAddi4spn(9, offset).parcel IN
         M!CAddi4spnImm(p) = offset /\ R!cAddi4spnImm(p) = offset /\ M!RdPrime(p) = 9
  /\ offset \in 0 .. 127 /\ offset % 4 = 0 =>
       \A p \in {CLw(9, 10, offset).parcel, CSw(9, 10, offset).parcel} :
         M!CLwImm(p) = offset /\ R!cLwImm(p) = offset /\ M!RdPrime(p) = 9 /\ M!Rs1Prime(p) = 10
  /\ offset \in 0 .. 255 /\ offset % 4 = 0 =>
       /\ LET p == CLwsp(9, offset).parcel IN M!CLwspImm(p) = offset /\ R!cLwspImm(p) = offset /\ M!RdRs1(p) = 9
       /\ LET p == CSwsp(9, offset).parcel IN M!CSwspImm(p) = offset /\ R!cSwspImm(p) = offset /\ M!Rs2C(p) = 9
  /\ offset \in 0 .. 31 => LET p == CSlli(9, offset).parcel IN M!Rs2C(p) = offset /\ R!cShamt(p) = offset /\ M!RdRs1(p) = 9

\* What rv32ec_encode.py encodes is what the model and the RTL decode.
EncodersTrip == FormatsTrip /\ ParcelsTrip
=============================================================================
