--------------------------- MODULE MCDebugSession ---------------------------
(***************************************************************************)
(* What the debugger asks for, and the programs it meets.                  *)
(***************************************************************************)
EXTENDS DebugSession

Nothing == [halt |-> FALSE, resume |-> FALSE, reset |-> FALSE, ackhavereset |-> FALSE,
            setresethalt |-> FALSE, clrresethalt |-> FALSE]
Dmcontrol(c) == [to |-> "dmcontrol", control |-> c]
Halt == Dmcontrol([Nothing EXCEPT !.halt = TRUE])
Activate == Dmcontrol(Nothing)
Resume == Dmcontrol([Nothing EXCEPT !.resume = TRUE])
Off == [to |-> "off"]
HoldReset == Dmcontrol([Nothing EXCEPT !.reset = TRUE, !.setresethalt = TRUE])
Go(c) == [to |-> "command", command |-> c]
WriteRegister(r) == Go([NoCommand EXCEPT !.transfer = TRUE, !.write = TRUE, !.regno = r])
ReadRegister(r) == Go([NoCommand EXCEPT !.transfer = TRUE, !.regno = r])
Memory(w, s, p) == Go([NoCommand EXCEPT !.type = "memory", !.write = w, !.size = s,
                                        !.postincrement = p])
Data0(d) == [to |-> "data0", data |-> d]
Data1(d) == [to |-> "data1", data |-> d]

RunControl == {Halt, Activate, Resume, HoldReset}

\* Single steps and breakpoints: with data0 = 3, dcsr gets step and ebreakm.
Steps == {Halt, Resume, Data0(3), WriteRegister("dcsr")}
StepsAndControl == RunControl \cup Steps

\* Abstract commands on a halted hart, and what gets in their way.
Commands == {Halt, Resume, Off, Data0(2), Data1(1), Data1(2), [to |-> "readdata"],
             Memory(FALSE, 2, TRUE), Memory(TRUE, 1, TRUE),
             ReadRegister("dpc"), WriteRegister("mepc"), WriteRegister("readonly"),
             [to |-> "abstractcs", clear |-> 0 .. 2]}

\* Each kind of request the hart must act on.
Live == {Halt, Resume, Memory(FALSE, 2, FALSE), Memory(TRUE, 2, FALSE)}

\* A program in four parcels, with its handler at 2.
P(a, b, c, d) == [x \in Datum |-> CASE x = 0 -> a [] x = 1 -> b [] x = 2 -> c [] OTHER -> d]
Sleeper == P("setmie", "wide", "load", "wfi")
Trapper == P("store", "ebreak", "mret", "trap")
Both == {Sleeper, Trapper}
Plain == {P("plain", "plain", "plain", "plain")}

\* A single step in the only order that makes one.
Stepping == <<Halt, Data0(3), WriteRegister("dcsr"), Resume>>

\* Sessions of three kinds: run control with resets, and steps in any order, over a
\* program that traps and stores; halts, resumes and one step over a program that sleeps
\* and meets interrupts; and commands over a program that only goes on.  The pin is low
\* while the hart is halted, when nothing looks at it.
AllPrograms == Both \cup Plain
AllRequests == StepsAndControl \cup Commands
Session ==
  /\ hart.state = "DEBUG" /\ hart'.state = "DEBUG" => ~pin'
  /\ program \in Plain => hart'.state # "IRQ"
  /\ made' # made =>
       CASE program \in Plain -> request' \in Commands
         [] program = Trapper -> request' \in StepsAndControl
         [] program = Sleeper -> request' \in {Halt, Resume} \/ request' = Stepping[made']
=============================================================================
