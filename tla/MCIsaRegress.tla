---------------------------- MODULE MCIsaRegress ----------------------------
(***************************************************************************)
(* Suites of instructions, starting states and the values of the           *)
(* regression for words of 24 bits.                                        *)
(***************************************************************************)
EXTENDS IsaRegress

Start(pc, regs) ==
  [pc |-> pc, regs |-> regs, mem |-> << >>, csrs |-> [a \in Writable |-> 0], halted |-> FALSE,
   sleeping |-> FALSE]

\* Aligned and misaligned pointers, both signs, and the ends of the address space.
Pointers == Start(2^12 + 2, [r \in 1 .. 15 |-> IF r % 2 = 0 THEN 2^11 + 4 * r ELSE 2^XLEN - 12 * r])
Odd == Start(2, [r \in 1 .. 15 |-> IF r = 8 THEN 0 ELSE 2^(XLEN - 1) + 3 * r])
ParcelStarts == {Pointers, Odd}
Parcels == {Parcel(p) : p \in {q \in 0 .. 2^16 - 1 : q % 4 # 3}}

\* Every opcode with the edges of each field; every encoding of SYSTEM that names a CSR of
\* the profile or none.  The states have no register of zero.
Words ==
  {Fields(funct7, rs2, rs1, funct3, rd, opcode) :
     funct7 \in {0, 1, 32, 127}, rs2 \in {0, 1, 2, 21, 31}, rs1 \in {0, 1, 4, 5, 16},
     funct3 \in 0 .. 7, rd \in {0, 7, 8, 16, 31}, opcode \in {3, 7, 15, 19, 23, 35, 51, 55, 99, 103, 111}}
System ==
  {Fields(a[1], a[2], rs1, funct3, rd, 115) :
     a \in ({0, 8, 24, 26} \X (0 .. 5)) \cup ({120} \X (16 .. 20)), rs1 \in {0, 1, 8, 16},
     funct3 \in 0 .. 7, rd \in {0, 7, 16}}
AllWords == Words \cup System
WordStarts == {Pointers, [Odd EXCEPT !.regs[8] = 2^XLEN - 1]}

\* Stores and loads of every size over one word, a third of them through each of two
\* registers whose bytes differ.
Data == {Start(0, [r \in 1 .. 15 |-> CASE r = 2 -> 2^6 [] r = 3 -> 9 * 2^20 + 7 * 2^12 + 17 * 2^4 + 12
                                       [] OTHER -> 0])}
Lanes ==
  {Fields(0, 3, 2, x[1], x[2], 35) : x \in ({0} \X (0 .. 3)) \cup ({1} \X {0, 2}) \cup {<<2, 0>>}}
  \cup {Fields(0, x[2], 2, x[1], 3, 3) :
          x \in ({0, 4} \X (0 .. 3)) \cup ({1, 5} \X {0, 2}) \cup {<<2, 0>>}}

\* Writes of every form to the CSRs whose values are legalized, reads, MRET and WFI.
\* Nothing reads mstatus, whose MPP differs.
CsrStarts == {[s EXCEPT !.csrs[Mepc] = 2^8] : s \in {Odd}}
CsrProgram ==
  {Fields(24, 0, rs1, funct3, 0, 115) : rs1 \in {0, 3, 10}, funct3 \in {1, 2, 3, 5, 7}}
  \cup {Fields(24, rs2, rs1, funct3, 3, 115) : rs2 \in {4, 5}, rs1 \in {0, 3, 10}, funct3 \in {1, 2, 3}}
  \cup {Fields(26, 1, rs1, funct3, 3, 115) : rs1 \in {0, 3}, funct3 \in {1, 6}}
  \cup {Fields(24, 2, 0, 0, 0, 115), Fields(8, 5, 0, 0, 0, 115)}

\* Every 16-bit parcel, the 32-bit instructions with the edges of every field, three loads
\* and stores of every size over one word, three CSR instructions.
MCSuites ==
  [parcels |-> [starts |-> ParcelStarts, program |-> Parcels, length |-> 1],
   words |-> [starts |-> WordStarts, program |-> AllWords, length |-> 1],
   lanes |-> [starts |-> Data, program |-> Lanes, length |-> 3],
   csrs |-> [starts |-> CsrStarts, program |-> CsrProgram, length |-> 3]]

\* The regression draws from the ends of its ranges; a cfg has no negative numbers.
EdgeValues == {-128, 127}
EdgeShort == {-32, 0}
=============================================================================
