---------------------------- MODULE DebugProgram ----------------------------
(***************************************************************************)
(* What a debugger is promised of the program it looks at: the program     *)
(* runs one instruction at a time, traps and interrupts included, stands   *)
(* still while it is halted but for what the debugger writes, goes on      *)
(* where it stood, and a step runs one instruction.                        *)
(*                                                                         *)
(* Two actions are the hart's departures from that promise, kept apart so  *)
(* that every other step is shown to keep it: HalfTrap and FaultInStep.    *)
(***************************************************************************)
EXTENDS Naturals

CONSTANTS DataSize, Handler
VARIABLES
  program,   \* kind of the instruction at each address
  arch,      \* pc, mie, mpie, mepc
  halted,    \* the hart is in debug mode
  stepping,  \* it runs one instruction only
  ebreaks    \* ebreak enters debug mode

archVars == <<program, arch, halted, stepping, ebreaks>>

Next1(a) == (a + 1) % DataSize
Entered(a) == [pc |-> Handler, mie |-> FALSE, mpie |-> a.mie, mepc |-> a.pc]

\* The instruction at a.pc has run.
Ran(a) ==
  CASE program[a.pc] \in {"trap", "ebreak"} -> Entered(a)
    [] program[a.pc] = "mret" -> [a EXCEPT !.pc = a.mepc, !.mie = a.mpie, !.mpie = TRUE]
    [] program[a.pc] = "setmie" -> [a EXCEPT !.pc = Next1(@), !.mie = TRUE]
    [] OTHER -> [a EXCEPT !.pc = Next1(@)]

Init ==
  /\ arch = [pc |-> 0, mie |-> FALSE, mpie |-> FALSE, mepc |-> 0]
  /\ ~halted /\ ~stepping /\ ~ebreaks

\* One instruction, and the interrupt that follows it at once.
Execute ==
  /\ ~halted /\ (program[arch.pc] = "ebreak" => ~ebreaks)
  /\ \/ arch' = Ran(arch)
     \/ ~stepping /\ Ran(arch).mie /\ arch' = Entered(Ran(arch))
  /\ stepping => halted'

Fault ==
  /\ ~halted /\ program[arch.pc] \in {"load", "store"}
  /\ arch' = Entered(arch)
  /\ stepping => halted'

FetchFault == ~halted /\ ~stepping /\ ~halted' /\ arch' = Entered(arch)
Interrupt == ~halted /\ ~stepping /\ arch.mie /\ ~halted' /\ arch' = Entered(arch)
Halt == ~halted /\ halted' /\ UNCHANGED arch

\* The trap's registers are written, but the hart halts before the handler.
HalfTrap ==
  /\ ~halted /\ halted'
  /\ \E a \in {arch} \cup {b \in {Ran(arch)} : ~stepping} :
       arch' = [Entered(a) EXCEPT !.pc = a.pc]

\* A step that cannot fetch its instruction goes on in the handler.
FaultInStep == ~halted /\ stepping /\ ~halted' /\ arch' = Entered(arch)

Run ==
  /\ Execute \/ Fault \/ FetchFault \/ Interrupt \/ Halt \/ HalfTrap \/ FaultInStep
  /\ stepping' \in {stepping, stepping /\ ~halted'}
  /\ UNCHANGED <<program, ebreaks>>

Resume ==
  /\ halted /\ ~halted' /\ stepping' \in BOOLEAN
  /\ UNCHANGED <<program, arch, ebreaks>>

Write ==
  /\ halted /\ halted'
  /\ \/ arch' = [arch EXCEPT !.pc = arch'.pc] /\ UNCHANGED ebreaks
     \/ arch' = [arch EXCEPT !.mepc = arch'.mepc] /\ UNCHANGED ebreaks
     \/ UNCHANGED arch
  /\ UNCHANGED <<program, stepping>>

Reset ==
  /\ arch' = [pc |-> 0, mie |-> FALSE, mpie |-> FALSE, mepc |-> 0]
  /\ ~halted' /\ ~stepping' /\ ~ebreaks' /\ UNCHANGED program

Next == Run \/ Resume \/ Write \/ Reset
Spec == Init /\ [][Next]_archVars
=============================================================================
