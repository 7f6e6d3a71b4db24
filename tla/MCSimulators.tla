---------------------------- MODULE MCSimulators ----------------------------
(***************************************************************************)
(* The gates that compare the core or its reference model with what other  *)
(* programs make of the same code: RISCV-DV, Spike, Sail and the           *)
(* compliance suite.  Each behaviour is one of one gate, run again and     *)
(* again over the files it leaves; the others rest.                        *)
(***************************************************************************)
EXTENDS RiscvDv

CONSTANTS SpikeNames, SailNames, SpikePrograms, SailPrograms, N, Sigs, Kinds, MaxRuns, MaxEdits

VARIABLES
  gate,       \* the gate that is run
  hex, log, wrong, ipc, itodo, name, words, attempt, iresults, did, ireport,
  src, hand, core, declared, dut, iss, built, sigFile, sailRep, reference, results, creport,
  cpc, at, rec, sailRc, makeRc, runs, edits

issVars == <<hex, log, wrong, ipc, itodo, name, words, attempt, iresults, did, ireport>>
gateVars == <<src, hand, core, declared, dut, iss, built, sigFile, sailRep, reference, results,
              creport, cpc, at, rec, sailRc, makeRc, runs, edits>>

IssInvocations ==
  [spike |-> [names |-> SpikeNames, programs |-> SpikePrograms, allCompatible |-> TRUE,
              allowLow |-> FALSE],
   sail |-> [names |-> SailNames, programs |-> SailPrograms, allCompatible |-> FALSE,
             allowLow |-> TRUE]]
Iss == INSTANCE IssSmoke WITH
  Invocations <- IssInvocations, simulator <- gate,
  pc <- ipc, todo <- itodo, results <- iresults, report <- ireport
Compliance == INSTANCE ComplianceGate WITH Other <- {}, pc <- cpc, report <- creport

ASSUME ComplianceConstants == Compliance!GateConstants

\* A reference trace has at least the instruction that ends it.
IssItem == [kind : {"alu", "low", "ecall", "ebreak", "wfi"}, value : {0, 1}]
ASSUME IssConstants ==
  /\ SpikeNames # {} /\ SailNames # {}
  /\ SpikePrograms \cup SailPrograms \subseteq Seq(IssItem) \ {<<>>}

RestDv == Init /\ work = <<Seeds[1], CHOOSE f \in Files : TRUE>>
RestIss ==
  /\ hex = 0 /\ log = 0 /\ wrong = 0 /\ ipc = "rest" /\ itodo = 0 /\ name = 0 /\ words = 0
  /\ attempt = 0 /\ iresults = 0 /\ did = 0 /\ ireport = 0
RestCompliance ==
  /\ src = 0 /\ hand = 0 /\ core = 0 /\ declared = 0 /\ dut = 0 /\ iss = 0 /\ built = 0
  /\ sigFile = 0 /\ sailRep = 0 /\ reference = 0 /\ results = 0 /\ creport = 0 /\ cpc = "rest"
  /\ at = 0 /\ rec = 0 /\ sailRc = 0 /\ makeRc = 0 /\ runs = 0 /\ edits = 0

IssGate == gate \in DOMAIN IssInvocations

MCInit ==
  \/ gate = "riscv_dv" /\ Init /\ RestIss /\ RestCompliance
  \/ Iss!Init /\ RestDv /\ RestCompliance
  \/ gate = "compliance" /\ Compliance!Init /\ RestDv /\ RestIss

MCNext ==
  \/ gate = "riscv_dv" /\ Next /\ UNCHANGED <<gate, issVars, gateVars>>
  \/ IssGate /\ Iss!Next /\ UNCHANGED <<vars, gateVars>>
  \/ gate = "compliance" /\ Compliance!Next /\ UNCHANGED <<gate, vars, issVars>>

MCSpec == MCInit /\ [][MCNext]_<<gate, vars, issVars, gateVars>>
-----------------------------------------------------------------------------
\* Programs that tell the rules apart: EBREAK or WFI at the end, low data, a trap in the
\* middle, and a wrong terminal trap.
Item(kind) == [kind |-> kind, value |-> 0]
MCPrograms ==
  { <<Item("alu"), Item("ebreak")>>,
    <<Item("alu"), Item("wfi")>>,
    <<Item("low"), Item("ebreak")>>,
    <<Item("ecall"), Item("alu"), Item("ebreak")>>,
    <<Item("alu"), Item("ecall")>> }
MCFewPrograms == { <<Item("alu"), Item("ebreak")>>, <<Item("low"), Item("wfi")>> }
MCSeeds == <<1, 2, 1>>
-----------------------------------------------------------------------------
\* run_spike_iss_smoke.py, run_sail_iss_smoke.py: an artifact passes only on a log in which
\* every instruction of the reference trace has the reference's effects, and that log is what
\* the simulator, started in this run on the program the script read, wrote; the exception is
\* a Sail that fails before it opens its trace, which is judged by an earlier run's
\* (run_sail_iss_smoke.py:375). An artifact outside the matrix never passes, and a report
\* that calls its coverage complete has skipped nothing; a comparison fails only for a
\* reason, not for what a simulator prints besides.
IssCompared ==
  /\ [](IssGate => Iss!TypeOK /\ Iss!PassIsOfThisRun /\ Iss!NotSilentlyPassed)
  /\ [][IssGate => Iss!FailureExplained]_issVars

\* run_compliance.py: a pass is only reported when the core, on the build it was given, left
\* the signature the ISA gives the build Sail was given, for every program; Sail ran each of
\* them in this run; and the hand-computed manifest does not say otherwise.
ComplianceIsTrue ==
  /\ [](gate = "compliance" => Compliance!TypeOK)
  /\ Compliance!ComplianceTrue
=============================================================================
