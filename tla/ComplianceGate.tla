--------------------------- MODULE ComplianceGate ---------------------------
(***************************************************************************)
(* make verify-compliance: scripts/run_compliance.py builds every program  *)
(* twice (build_compliance.py), lets Sail write the reference signatures   *)
(* (run_compliance_sail.py), runs the core on the first build in cocotb    *)
(* and reports.  Every step leaves files the next run finds, and sources   *)
(* are edited while a run is under way.                                    *)
(***************************************************************************)
EXTENDS Integers, FiniteSets

CONSTANTS
  N,          \* number of programs in test/compliance/tests
  Sigs,       \* signatures a program can leave
  Kinds,      \* kinds of source that occur: see Sources
  Other,      \* cocotb tests that are no compliance tests
  MaxRuns,    \* bound: runs of the gate
  MaxEdits    \* bound: edits of sources

\* What the values of the constants have to satisfy.
GateConstants ==
  /\ N \in Nat \ {0} /\ MaxRuns \in Nat /\ MaxEdits \in Nat
  /\ Kinds \subseteq {"plain", "bare", "broken"}
  /\ Sigs \cap {"none", "fail", "wrong"} = {} /\ Other \cap (1..N) = {}

Tests == 1..N

\* A source is named by the signature the ISA gives it; a bare one has no
\* begin_signature and end_signature, a broken one does not assemble.
Sources == [sig : Sigs, kind : Kinds]
NoProgram == [sig |-> "none", kind |-> "none"]

VARIABLES
  src,        \* test/compliance/tests/*.S
  hand,       \* signature_words of manifest.json, "none" without an entry
  core,       \* signatures the core computes right
  declared,   \* programs with a cocotb test compliance_<name>
  dut, iss,   \* the two builds of every program
  built,      \* compliance_build.json exists
  sigFile,    \* sail_signatures/<name>/signature.txt, "none" without the file
  sailRep,    \* sail_signatures.json: the record of every program, or NoFile
  reference,  \* reference.json: the entry of every program, or NoFile
  results,    \* the cocotb results: outcome of every test
  report,     \* compliance.json: its status, "none" without the file
  pc, at,     \* control of the run, and the program it is at
  rec,        \* records of run_compliance_sail.py
  sailRc, makeRc, \* return codes
  runs, edits

files == <<dut, iss, built, sigFile, sailRep, reference, results, report>>
fixed == <<hand, core, declared>>
vars == <<src, fixed, files, pc, at, rec, sailRc, makeRc, runs, edits>>

NoFile == << >>
Nothing == [t \in Tests |-> "none"]
NoResults == [t \in Tests \cup Other |-> "none"]

Init ==
  /\ src \in [Tests -> Sources] /\ hand \in [Tests -> Sigs \cup {"none"}]
  /\ core \in SUBSET Sigs /\ declared \in SUBSET Tests
  /\ dut = [t \in Tests |-> NoProgram] /\ iss = dut /\ built = FALSE
  /\ sigFile = Nothing /\ sailRep = NoFile /\ reference = NoFile
  /\ results = NoResults /\ report = "none"
  /\ pc = "idle" /\ at = 1 /\ rec = Nothing /\ sailRc = 0 /\ makeRc = 0
  /\ runs = 0 /\ edits = 0
-----------------------------------------------------------------------------
\* make verify-compliance, or the script with --skip-build.
Begin ==
  /\ pc = "idle" /\ runs < MaxRuns
  /\ runs' = runs + 1 /\ pc' \in {"dut", "sail"} /\ at' = 1
  /\ rec' = Nothing /\ sailRc' = 0 /\ makeRc' = 0
  /\ UNCHANGED <<src, fixed, files, edits>>

\* The build script fails: the run reports that and stops; compliance_build.json is the
\* one of an earlier build.
BuildFails == report' = "fail" /\ pc' = "idle" /\ UNCHANGED at

\* compile_one, the variant at base 0: the source as it is now.
CompileDut ==
  /\ pc = "dut"
  /\ \/ /\ src[at].kind # "broken"
        /\ dut' = [dut EXCEPT ![at] = src[at]]
        /\ pc' = "iss" /\ UNCHANGED <<at, report>>
     \/ BuildFails /\ UNCHANGED dut
  /\ UNCHANGED <<src, fixed, iss, built, sigFile, sailRep, reference, results, rec,
                 sailRc, makeRc, runs, edits>>

\* The variant at base 0x80000000: the source may have been edited since.
CompileIss ==
  /\ pc = "iss"
  /\ \/ /\ src[at].kind # "broken"
        /\ iss' = [iss EXCEPT ![at] = src[at]]
        /\ IF at < N THEN pc' = "dut" /\ at' = at + 1 /\ UNCHANGED built
           ELSE pc' = "sail" /\ at' = 1 /\ built' = TRUE
        /\ UNCHANGED report
     \/ BuildFails /\ UNCHANGED <<iss, built>>
  /\ UNCHANGED <<src, fixed, dut, sigFile, sailRep, reference, results, rec, sailRc,
                 makeRc, runs, edits>>
-----------------------------------------------------------------------------
\* run_compliance_sail.py returns before its report: no simulator, no configuration, no
\* build, or the simulator of one program times out.
SailStops ==
  /\ pc = "sail"
  /\ sailRc' = 1 /\ pc' = "reference"
  /\ UNCHANGED <<src, fixed, files, at, rec, makeRc, runs, edits>>

\* The record of a program: a signature file is there, of whatever run.
SailRecord(t, exit, written) ==
  IF exit # 0 \/ written[t] = "none" THEN "fail" ELSE written[t]

\* One program: Sail writes its signature, or exits with an error before it does; of a
\* bare program it writes nothing and exits 0.
SailTest ==
  /\ pc = "sail" /\ built
  /\ \E exit \in {0, 1} :
       /\ sigFile' = IF exit = 0 /\ iss[at].kind = "plain"
                     THEN [sigFile EXCEPT ![at] = iss[at].sig] ELSE sigFile
       /\ rec' = [rec EXCEPT ![at] = SailRecord(at, exit, sigFile')]
  /\ IF at < N THEN pc' = "sail" /\ at' = at + 1 /\ UNCHANGED <<sailRep, sailRc>>
     ELSE /\ sailRep' = rec' /\ pc' = "reference" /\ UNCHANGED at
          /\ sailRc' = IF \E t \in Tests : rec'[t] = "fail" THEN 1 ELSE 0
  /\ UNCHANGED <<src, fixed, dut, iss, built, reference, results, report, makeRc, runs,
                 edits>>

\* The programs a report of Sail has a signature for.
Passed(r) == {t \in DOMAIN r : r[t] # "fail"}

\* reference.json: the passing entries of the report found, even of none.
WriteReference ==
  /\ pc = "reference"
  /\ reference' = [t \in Tests |-> IF t \in Passed(sailRep) THEN sailRep[t] ELSE "none"]
  /\ pc' = "make"
  /\ UNCHANGED <<src, fixed, dut, iss, built, sigFile, sailRep, results, report, at, rec,
                 sailRc, makeRc, runs, edits>>

CrossPass ==
  \A t \in Passed(sailRep) : hand[t] # "none" => hand[t] = sailRep[t]
-----------------------------------------------------------------------------
\* The signature the core leaves in memory.
DutSignature(t) == IF dut[t].sig \in core THEN dut[t].sig ELSE "wrong"

\* _compliance_manifest_entry: reference.json where that file exists.
Expected(t) == IF reference = NoFile THEN hand[t] ELSE reference[t]

\* _run_compliance_program: an entry, the binary, and the same words in memory.
Outcome(t) ==
  IF dut[t] # NoProgram /\ Expected(t) # "none" /\ DutSignature(t) = Expected(t)
  THEN "pass" ELSE "fail"

\* make in test/test_ditdah32: every declared test is run, compliance test or not; a
\* failing test fails make.  A simulation that does not build leaves the old results or
\* none.
RunCocotb ==
  /\ pc = "make"
  /\ \/ /\ makeRc' = 1 /\ results' \in {results, NoResults}
     \/ \E o \in [Other -> {"pass", "fail"}] :
          /\ results' = [t \in Tests \cup Other |->
                           IF t \in Other THEN o[t]
                           ELSE IF t \in declared THEN Outcome(t) ELSE "none"]
          /\ makeRc' = IF \E t \in Tests \cup Other : results'[t] = "fail" THEN 1 ELSE 0
  /\ pc' = "report"
  /\ UNCHANGED <<src, fixed, dut, iss, built, sigFile, sailRep, reference, report, at, rec,
                 sailRc, runs, edits>>

\* Mutant: the return code of the Sail script is not looked at.
OverallByReport ==
  /\ makeRc = 0
  /\ sailRep # NoFile /\ Passed(sailRep) = Tests
  /\ CrossPass
  /\ built => \A t \in Tests : results[t] = "pass"

\* overall_pass: the steps, and every program of compliance_build.json.
OverallPass ==
  /\ makeRc = 0 /\ sailRc = 0
  /\ sailRep # NoFile /\ Passed(sailRep) = Tests
  /\ CrossPass
  /\ built => \A t \in Tests : results[t] = "pass"

WriteReport ==
  /\ pc = "report"
  /\ report' = IF OverallPass THEN "pass" ELSE "fail"
  /\ pc' = "idle"
  /\ UNCHANGED <<src, fixed, dut, iss, built, sigFile, sailRep, reference, results, at, rec,
                 sailRc, makeRc, runs, edits>>
-----------------------------------------------------------------------------
EditSource(t, p) ==
  /\ edits < MaxEdits /\ edits' = edits + 1
  /\ src' = [src EXCEPT ![t] = p]
  /\ UNCHANGED <<fixed, files, pc, at, rec, sailRc, makeRc, runs>>

\* make clean between two runs.
Clean ==
  /\ pc = "idle" /\ edits < MaxEdits /\ edits' = edits + 1
  /\ dut' = [t \in Tests |-> NoProgram] /\ iss' = dut' /\ built' = FALSE
  /\ sigFile' = Nothing /\ sailRep' = NoFile /\ reference' = NoFile /\ report' = "none"
  /\ results' \in {results, NoResults}
  /\ UNCHANGED <<src, fixed, pc, at, rec, sailRc, makeRc, runs>>

GateStep ==
  \/ Begin \/ CompileDut \/ CompileIss \/ SailStops \/ SailTest \/ WriteReference
  \/ RunCocotb \/ WriteReport

Next == GateStep \/ (\E t \in Tests, p \in Sources : EditSource(t, p)) \/ Clean

Spec == Init /\ [][Next]_vars
-----------------------------------------------------------------------------
\* Type invariant of the files and the run.
TypeOK ==
  /\ src \in [Tests -> Sources] /\ hand \in [Tests -> Sigs \cup {"none"}]
  /\ core \subseteq Sigs /\ declared \subseteq Tests
  /\ dut \in [Tests -> Sources \cup {NoProgram}] /\ iss \in [Tests -> Sources \cup {NoProgram}]
  /\ built \in BOOLEAN /\ sigFile \in [Tests -> Sigs \cup {"none"}]
  /\ sailRep # NoFile => sailRep \in [Tests -> Sigs \cup {"fail"}]
  /\ reference # NoFile => reference \in [Tests -> Sigs \cup {"none"}]
  /\ results \in [Tests \cup Other -> {"none", "pass", "fail"}]
  /\ report \in {"none", "pass", "fail"}
  /\ pc \in {"idle", "dut", "iss", "sail", "reference", "make", "report"} /\ at \in Tests
  /\ rec \in [Tests -> Sigs \cup {"none", "fail"}] /\ sailRc \in {0, 1} /\ makeRc \in {0, 1}
  /\ runs \in 0..MaxRuns /\ edits \in 0..MaxEdits

ReportsPass == pc = "report" /\ pc' = "idle" /\ report' = "pass"

\* A pass is only reported when the core, on the build it was given, left the signature
\* the ISA gives the build Sail was given, for every program, although files of earlier
\* runs lie around, a build may have been reused and sources were edited meanwhile.
PassMeansAgreement ==
  [][ReportsPass =>
       \A t \in Tests : DutSignature(t) = iss[t].sig]_vars

\* A pass rests on what Sail did in this run: it ran every program to its end.
SailRanNow ==
  [][ReportsPass => \A t \in Tests : rec[t] = iss[t].sig]_vars

\* A pass never goes against the hand-computed manifest.
HandAgrees ==
  [][ReportsPass =>
       \A t \in Tests : hand[t] \in {"none", DutSignature(t)}]_vars

\* What the compliance gate passes was compared with Sail's word of this run, and with the
\* hand-written manifest.
ComplianceTrue == PassMeansAgreement /\ SailRanNow /\ HandAgrees
=============================================================================
