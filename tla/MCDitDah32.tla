----------------------------- MODULE MCDitDah32 -----------------------------
(***************************************************************************)
(* Small instances of the core: sixteen halfwords of program, three        *)
(* registers, an encoding with one name per parcel, and programs that      *)
(* between them use every kind of instruction, in both halves of a word    *)
(* and across two.                                                         *)
(***************************************************************************)
EXTENDS DitDah32

MCAddrSpace == 16

\* A 32-bit instruction is named by its low parcel; the high one, "i" and a
\* number, holds its immediate.
MCShort == {"0", "c.nop", "c.li", "c.addi", "c.j-", "c.jr", "c.ebreak"}
MCLong == {"lw", "sw", "lwbad", "swbad", "csrmie", "csrmip", "csetmie",
           "cclrmie", "csrmtvec", "csrmepc", "csrunimp", "wfi", "mret",
           "ecall", "jal", "bne", "add"}
MCImm == {"i0", "i1", "i2", "i3", "i4"}
MCHalfword == MCShort \cup MCLong \cup MCImm

ImmOf(h) == CASE h = "i1" -> 1 [] h = "i2" -> 2 [] h = "i3" -> 3 [] h = "i4" -> 4
              [] OTHER -> 0

Plain(op) == [op |-> op, rd |-> 0, rs1 |-> 0, rs2 |-> 0, imm |-> 0,
              csr |-> "mscratch", csrop |-> "rw", bits |-> {}]
CsrInstr(name, op, set, v) ==
  [Plain("csr") EXCEPT !.csr = name, !.csrop = op, !.bits = set, !.imm = v, !.rs1 = 1]

MCDecodeC == [h \in MCShort |->
  CASE h = "c.nop" -> Plain("alui")
    [] h = "c.li" -> [Plain("alui") EXCEPT !.rd = 1, !.imm = 2]
    [] h = "c.addi" -> [Plain("alui") EXCEPT !.rd = 2, !.rs1 = 2, !.imm = 2]
    [] h = "c.j-" -> [Plain("jal") EXCEPT !.imm = MCAddrSpace - 10]
    [] h = "c.jr" -> [Plain("jalr") EXCEPT !.rs1 = 2]
    [] h = "c.ebreak" -> Plain("ebreak")
    [] OTHER -> Plain("illegal")]

Decode(lo, v) ==
  CASE lo = "lw" -> [Plain("load") EXCEPT !.rd = 2, !.rs1 = 1, !.imm = v]
    [] lo = "sw" -> [Plain("store") EXCEPT !.rs1 = 1, !.rs2 = 2, !.imm = v]
    [] lo = "lwbad" -> [Plain("load") EXCEPT !.rd = 3, !.rs1 = 1, !.imm = v]
    [] lo = "swbad" -> [Plain("store") EXCEPT !.rs1 = 1, !.rs2 = 5, !.imm = v]
    [] lo = "csrmie" -> CsrInstr("mie", "rw", {"external", "timer", "software"}, v)
    [] lo = "csetmie" -> CsrInstr("mstatus", "rs", {"MIE"}, v)
    [] lo = "cclrmie" -> CsrInstr("mstatus", "rc", {"MIE"}, v)
    [] lo = "csrmtvec" -> CsrInstr("mtvec", "rw", {}, v)
    [] lo = "csrmepc" -> CsrInstr("mepc", "rw", {}, v)
    [] lo = "csrmip" -> CsrInstr("mip", "rw", {}, v)
    [] lo = "csrunimp" -> CsrInstr("unimplemented", "rw", {}, v)
    [] lo \in {"wfi", "mret", "ecall"} -> Plain(lo)
    [] lo = "jal" -> [Plain("jal") EXCEPT !.rd = 1, !.imm = v]
    [] lo = "bne" -> [Plain("branch") EXCEPT !.rs1 = 1, !.rs2 = 2, !.imm = v]
    [] lo = "add" -> [Plain("alur") EXCEPT !.rd = 2, !.rs1 = 1, !.rs2 = 1]
    [] OTHER -> Plain("illegal")

MCDecode32 == [p \in MCHalfword \X MCHalfword |-> Decode(p[1], ImmOf(p[2]))]

Image(p) == [a \in 0 .. MCAddrSpace - 1 |-> p[a + 1]]

\* The handler, at 0, is MRET in the first three programs: a refused access is
\* retried.  Reset starts at 2.

\* WFI with interrupts on and off, a CSR write that unmasks a pending pin.
SleepImage == Image(<<"mret", "i0", "csrmie", "i0", "c.nop", "csetmie", "i0",
  "wfi", "i0", "cclrmie", "i0", "wfi", "i0", "c.nop", "c.j-", "0">>)

\* Loads and stores in a word, across words, with interrupts on.
MemoryImage == Image(<<"mret", "i0", "csrmie", "i0", "c.li", "sw", "i2",
  "lw", "i2", "csetmie", "i0", "add", "i0", "sw", "i0", "c.j-">>)

\* mtvec moved by software, to a value that is legalized; MRET to a written mepc.
JumpImage == Image(<<"mret", "i0", "csrmtvec", "i3", "jal", "i3", "c.ebreak",
  "bne", "i4", "c.li", "c.nop", "csrmepc", "i4", "c.addi", "mret", "i0">>)

\* Every trap of the EX stage; the handler steps x2 through the program.
TrapImage == Image(<<"c.addi", "c.jr", "ecall", "i0", "c.ebreak", "c.nop",
  "lwbad", "i1", "sw", "i1", "swbad", "i2", "csrmip", "i1", "csrunimp", "i0">>)

MCImages == {SleepImage, MemoryImage, JumpImage, TrapImage}
MCSleepMemory == {SleepImage, MemoryImage}
=============================================================================
