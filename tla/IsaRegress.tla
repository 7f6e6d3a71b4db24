----------------------------- MODULE IsaRegress -----------------------------
(***************************************************************************)
(* scripts/rv32ec_isa_regress.py and run_rtl_isa_matrix.py: the directed   *)
(* and the random programs, run by the reference model for the expected    *)
(* trace and by the RTL for the actual one.  A random program has no       *)
(* jumps, so each instruction is executed as soon as it is emitted.        *)
(***************************************************************************)
EXTENDS TraceCompare, FiniteSets, SequencesExt

CONSTANTS
  Regs,       \* the registers a random program draws from, 1 .. 15 in the code
  Values,     \* immediates of the data processing instructions, -128 .. 127
  Short,      \* immediates of six bits, -32 .. 31
  Offsets,    \* offsets into the data block, 0 .. 63
  RandomSteps,\* instructions of a random program, 64
  DataBase    \* the address of its data block

\* The encoders and the regression have suites of their own.
ASSUME SuitesAssumption ==
  /\ {"encodings", "regress"} \cap DOMAIN Suites = {}
  /\ \A name \in DOMAIN Suites : SuiteOK(Suites[name])

ASSUME DrawsAssumption ==
  /\ Regs \subseteq 1 .. 15 /\ Values \subseteq Int /\ Short \subseteq Int /\ Offsets \subseteq Nat
  /\ RandomSteps \in Nat /\ DataBase \in Nat

VARIABLES
  image,      \* the program
  left        \* random instructions still to emit; None for a directed program

vars == <<offset, compareVars, image, left>>

\* The constant as LUI and ADDI, of which either may not be needed.
LoadConstant(r, v) ==
  LET upper == Word(v + 2^11) \div 2^12
      lower == Bits(v - upper * 2^12, 11, 0)
  IN  IF v <= 2047 THEN <<IType(v, 0, 0, r, 19)>>
      ELSE IF lower = 0 THEN <<UType(upper, r, 55)>>
      ELSE <<UType(upper, r, 55), IType(lower, r, 0, r, 19)>>

\* Mutant: a zero is drawn too.
AnyShort == Short

\* A HINT is never emitted: the two traces would differ.
NonZero == Short \ {0}

\* x2 and x8 point to the data block and are nobody's destination.
DataRegs == Regs \ {2, 8}
CompactRegs == {r \in Regs : r >= 9}
\* Mutant: each constant is counted as one step.
SetupStepsOneEach == 2

SetupSteps == Len(LoadConstant(2, DataBase)) + Len(LoadConstant(8, DataBase))
MaxSteps == RandomSteps + Cardinality(DataRegs) + SetupSteps + 2

Aligned(size) == {o \in Offsets : o % size = 0}

RandomInsns ==
  {IType(imm, rs1, f, rd, 19) : imm \in Values, rs1 \in DataRegs, f \in {0, 2, 3, 4, 6, 7}, rd \in DataRegs}
  \cup {IType(x[2] * 2^5 + n, rs1, x[1], rd, 19) :
          n \in {0, 1, 31}, rs1 \in DataRegs, x \in {<<1, 0>>, <<5, 0>>, <<5, 32>>}, rd \in DataRegs}
  \cup {RType(x[2], rs2, rs1, x[1], rd) :
          rs2 \in DataRegs, rs1 \in DataRegs, x \in ((0 .. 7) \X {0}) \cup {<<0, 32>>, <<5, 32>>}, rd \in DataRegs}
  \cup (UNION {{IType(o, 8, f, rd, 3) : o \in Aligned(2^(f % 4)), rd \in DataRegs} : f \in {0, 1, 2, 4, 5}})
  \cup (UNION {{SType(o, rs2, 8, f) : o \in Aligned(2^f), rs2 \in DataRegs} : f \in 0 .. 2})
  \cup {CAddi(rd, v) : rd \in DataRegs, v \in NonZero}
  \cup {CLi(rd, v) : rd \in DataRegs, v \in Short}
  \cup {CSlli(rd, n) : rd \in DataRegs, n \in {1, 31}}
  \cup {CCr(b, rd, rs2) : b \in {0, 1}, rd \in DataRegs, rs2 \in DataRegs}
  \cup {CLw(r, 8, o) : r \in CompactRegs, o \in Aligned(4)}
  \cup {CSw(r, 8, o) : r \in CompactRegs, o \in Aligned(4)}
  \cup {CLwsp(rd, o) : rd \in DataRegs, o \in Aligned(4)}
  \cup {CSwsp(rs2, o) : rs2 \in DataRegs, o \in Aligned(4)}

\* The order in which random_rv32ec_program loads the data registers does not matter.
LoadRegs(values) ==
  LET order == SetToSeq(DataRegs)
  IN  [i \in 1 .. Len(order) |-> IType(values[order[i]], 0, 0, order[i], 19)]

Prologue(values) == LoadConstant(2, DataBase) \o LoadConstant(8, DataBase) \o LoadRegs(values)

DirectedPrograms ==
  { \* rv32e_alu
    <<UType(74565, 1, 55), IType(1656, 1, 0, 1, 19), UType(1, 2, 23), IType(-1, 0, 0, 3, 19),
      IType(1, 3, 5, 4, 19), IType(32 * 2^5 + 1, 3, 5, 5, 19), RType(0, 5, 4, 7, 6), RType(0, 5, 4, 6, 7),
      RType(32, 4, 7, 0, 8), Ebreak>>,
    \* rv32ec_compressed
    <<CAddi16sp(16), CLui(4, 1), CLi(8, 0), CBranch(6, 8, 4), CLi(1, 1), CLi(9, 1), CBranch(7, 9, 4), CLi(3, 7),
      CLi(1, 2), CAddi(1, 3), CCr(0, 2, 1), CCr(1, 2, 1), CSlli(2, 1), CJ(5, 4), CLi(3, 7), CEbreak>>,
    \* rv32ec_zicsr_wfi
    <<IType(64, 0, 0, 1, 19), CsrType(Mtvec, 1, 1, 0), CsrType(Mtvec, 0, 2, 2), CsrType(Mscratch, 5, 5, 3),
      CsrType(Mscratch, 0, 2, 4), CsrType(Mscratch, 1, 7, 5), IType(4, 0, 0, 6, 19), CsrType(Mscratch, 6, 3, 7),
      CsrType(Mscratch, 2, 6, 8), Wfi, Ebreak>> }
  \cup { \* rv32e_branch_memory, and with its data in high memory
    load \o <<IType(-1, 0, 0, 2, 19), SType(0, 2, 1, 2), IType(0, 1, 2, 3, 3), BType(8, 2, 3, 0),
              IType(1, 0, 0, 4, 19), JType(8, 5), IType(2, 0, 0, 4, 19), Ebreak>> :
      load \in {<<IType(128, 0, 0, 1, 19)>>, LoadConstant(1, 2^(XLEN - 1) + 2^12)}}
  \cup { \* rv32ec_compressed_memory, and with its data in high memory
    load \o <<CAddi4spn(8, 16), CLi(9, 7), CSw(9, 8, 0), CLw(10, 8, 0), CSwsp(10, 4), CLwsp(11, 4), CEbreak>> :
      load \in {<<IType(64, 0, 0, 2, 19)>>, LoadConstant(2, 2^(XLEN - 1) + 2^12)}}
DirectedSteps == 16

Reset ==
  [pc |-> 0, regs |-> [r \in 1 .. 15 |-> 0], mem |-> << >>, csrs |-> [a \in Writable |-> 0], halted |-> FALSE,
   sleeping |-> FALSE]

RegressInit ==
  /\ suite = "regress"
  /\ \/ image \in DirectedPrograms /\ left = None
     \/ \E values \in [DataRegs -> Short] : image = Prologue(values) /\ left = RandomSteps
  /\ model = Reset /\ rtl = Reset
  /\ steps = 0
  /\ expected = NoItem /\ actual = NoItem

AtEnd == InsnsAt(image, model.pc) = {}

Emit ==
  /\ left > 0 /\ AtEnd
  /\ \E insn \in RandomInsns : image' = Append(image, insn)
  /\ left' = left - 1
  /\ UNCHANGED compareVars

EmitEbreak ==
  /\ left = 0 /\ AtEnd
  /\ image' = Append(image, CEbreak)
  /\ UNCHANGED <<compareVars, left>>

Running(s) == ~s.halted /\ ~s.sleeping
Budget == IF left = None THEN DirectedSteps ELSE MaxSteps

\* RV32ECModel.run, and the core on the same image.
Step ==
  /\ Running(model) /\ Running(rtl)
  /\ steps < Budget
  /\ \E mi \in InsnsAt(image, model.pc), ri \in InsnsAt(image, rtl.pc) :
       LET m == M!Outcome(model, mi)
           r == R!Outcome(rtl, ri)
       IN  /\ model' = M!After(model, m)
           /\ rtl' = M!After(rtl, r)
           /\ expected' = M!TraceItem(model, mi, m)
           /\ actual' = M!TraceItem(rtl, ri, r)
  /\ steps' = steps + 1
  /\ UNCHANGED <<suite, image, left>>

RegressNext ==
  /\ suite = "regress"
  /\ \/ Emit
     \/ EmitEbreak
     \/ Step
-----------------------------------------------------------------------------
\* The encoders are tried offset by offset; a suite is one of single instructions or the
\* regression with its whole programs.
NoProgram == image = <<>> /\ left = None

Init ==
  \/ TripInit /\ NoProgram /\ suite = "encodings" /\ steps = 0
     /\ model = Reset /\ rtl = Reset /\ expected = NoItem /\ actual = NoItem
  \/ TripDone /\ NoProgram /\ CompareInit
  \/ TripDone /\ RegressInit

Next ==
  \/ TripNext /\ UNCHANGED <<compareVars, image, left>>
  \/ CompareNext /\ UNCHANGED <<offset, image, left>>
  \/ RegressNext /\ UNCHANGED offset

Spec == Init /\ [][Next]_vars
-----------------------------------------------------------------------------
Regress == suite = "regress"

\* Type invariant of the two machines and the program under construction.
TypeOK ==
  /\ offset \in -OffsetRange .. OffsetRange
  /\ StatesOK
  /\ left \in {None} \cup 0 .. RandomSteps
  /\ Regress => steps \in 0 .. DirectedSteps + MaxSteps

\* compare of rv32ec_trace_check.py on the items of test_ditdah32.py: every program of the
\* regression yields the model's trace on the RTL, memory fields aside.
TracesMatch == Regress => Schema(actual, expected) = expected

\* A program of the regression traps at its final breakpoint and nowhere before it.
EndsInEbreak ==
  Regress /\ model.halted => expected.cause = "ebreak" /\ expected.insn = image[Len(image)]

\* max_steps is enough: the run does not stop before the end of the program.
BudgetEnough == Regress /\ steps = Budget => ~Running(model)

\* A random program writes its data block and nothing else.
OnlyDataWritten ==
  left # None => \A s \in {model, rtl} : DOMAIN s.mem \subseteq DataBase .. DataBase + 63

\* Every program of the regression runs to its own end: it stops at its final breakpoint,
\* within the steps it was given, and a random one has written its data block only.
ProgramsEnd == TypeOK /\ EndsInEbreak /\ BudgetEnough /\ OnlyDataWritten
=============================================================================
