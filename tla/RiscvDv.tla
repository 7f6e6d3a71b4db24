------------------------------- MODULE RiscvDv -------------------------------
(* The constrained-random regression, scripts/run_riscv_dv.py, and the RTL    *)
(* matrix it calls, scripts/run_rtl_isa_matrix.py: generate programs for each *)
(* seed, scan them, compile them, trace them on the reference model, run them *)
(* on the RTL and compare. Generator, tools and matrix may fail or time out;  *)
(* a run may be killed at any point, and its files stay for the next one.     *)
(*                                                                            *)
(* A program is named by what becomes of it: "clean" passes everything,       *)
(* "register" uses x16..x31, "mnemonic" an instruction outside the profile,   *)
(* "endless" does not end within the step budget, "differs" has another trace *)
(* on the RTL.                                                                *)
EXTENDS Integers, Sequences

CONSTANTS
  Seeds,      \* args.seeds, a sequence: [1] and every --seed behind it
  Files,      \* files the generator may leave for a seed
  Programs    \* the programs they may hold

VARIABLES
  pc,         \* where the script is
  turn,       \* index into Seeds while generating
  asm,        \* generated/seed_<s>/asm_test of each seed
  isa,        \* isa_out_dir: the hex and trace of each artifact name
  steps,      \* generate_and_scan steps: seed, asm files, status
  todo,       \* artifact names still to compile, then to run
  work,       \* the artifact whose hex is written and whose trace is not
  artifacts,  \* statuses of the compile results of this run
  report,     \* status in riscv_dv.json
  scanned,    \* history: the program found clean under each name in this run
  ran         \* history: what the RTL ran under each name in this run

vars == <<pc, turn, asm, isa, steps, todo, work, artifacts, report, scanned, ran>>

SeedSet == {Seeds[i] : i \in 1..Len(Seeds)}
(* An artifact has the name of its seed and the position of its file; here    *)
(* the file stands for its position.                                          *)
ArtifactNames == SeedSet \X Files
Missing == "missing"
Contents == Programs \cup {Missing}
NoFiles == [hex |-> Missing, trace |-> Missing]
Empty == [f \in Files |-> Missing]
Nothing == [n \in ArtifactNames |-> Missing]
Present(listing) == {f \in Files : listing[f] # Missing}

ASSUME SeedsAssumption == Seeds \in Seq(SeedSet) /\ Len(Seeds) > 0
ASSUME ProgramsAssumption ==
  Programs \subseteq {"clean", "register", "mnemonic", "endless", "differs"}

(* scan_asm_for_rv32ec: no violation. *)
ScanPasses(program) == program \notin {"register", "mnemonic"}
(* gcc and objcopy accept it: the registers do not exist in rv32ec. *)
Compiles(program) == program \notin {"register", Missing}
(* run_reference_model: it halts or sleeps in time. *)
ModelEnds(program) == program # "endless"
(* isa_artifact_rtl_trace_matches_reference_model passes on hex and trace.    *)
RtlMatches(files) == files.hex = files.trace /\ files.hex # "differs"

-----------------------------------------------------------------------------
Init ==
  /\ pc = "idle" /\ turn = 0
  /\ asm = [s \in SeedSet |-> Empty]
  /\ isa = [n \in ArtifactNames |-> NoFiles]
  /\ steps = {} /\ todo = {} /\ artifacts = {}
  /\ work \in ArtifactNames
  /\ report = "none"
  /\ scanned = Nothing /\ ran = Nothing

(* main: configuration and generator are looked for; without one of them the  *)
(* report is written at once.                                                 *)
Start(config, generator) ==
  /\ pc \in {"idle", "killed"}
  /\ IF config /\ generator
     THEN pc' = "clear" /\ turn' = 1 /\ UNCHANGED report
     ELSE pc' = "idle" /\ turn' = 0 /\ report' = IF config THEN "partial" ELSE "fail"
  /\ steps' = {} /\ todo' = {} /\ artifacts' = {}
  /\ scanned' = Nothing /\ ran' = Nothing
  /\ UNCHANGED <<asm, isa, work>>

(* run_generator_for_seed: the seed's directory is removed, *)
ClearSeed ==
  /\ pc = "clear"
  /\ asm' = [asm EXCEPT ![Seeds[turn]] = Empty]
  /\ pc' = "generate"
  /\ UNCHANGED <<turn, isa, steps, todo, work, artifacts, report, scanned, ran>>

(* the generator leaves some programs, whatever its end, *)
Generate(listing) ==
  /\ pc = "generate"
  /\ asm' = [asm EXCEPT ![Seeds[turn]] = listing]
  /\ pc' = "scan"
  /\ UNCHANGED <<turn, isa, steps, todo, work, artifacts, report, scanned, ran>>

(* and what is there is scanned. finished: the generator ended in time with   *)
(* exit status 0.                                                             *)
ScanSeed(finished) ==
  LET seed == Seeds[turn]
      files == Present(asm[seed])
      clean == files # {} /\ \A f \in files : ScanPasses(asm[seed][f])
  IN /\ pc = "scan"
     /\ steps' = steps \cup {[seed |-> seed, files |-> files,
                               status |-> IF finished /\ clean THEN "pass" ELSE "fail"]}
     /\ scanned' = [n \in ArtifactNames |->
                      IF n[1] # seed THEN scanned[n]
                      ELSE IF n[2] \in files /\ ScanPasses(asm[seed][n[2]]) THEN asm[seed][n[2]]
                      ELSE Missing]
     /\ turn' = turn + 1
     /\ pc' = IF turn < Len(Seeds) THEN "clear" ELSE "clean"
     /\ UNCHANGED <<asm, isa, todo, work, artifacts, report, ran>>

GenerationClean == steps # {} /\ \A step \in steps : step.status = "pass"
NamesOf(step) == {step.seed} \X step.files

(* compile_and_trace_generation_steps: only if every seed was clean; the old  *)
(* artifacts go first.                                                        *)
CleanIsa ==
  /\ pc = "clean"
  /\ IF GenerationClean
     THEN /\ isa' = [n \in ArtifactNames |-> NoFiles]
          /\ todo' = UNION {NamesOf(step) : step \in steps}
          /\ pc' = "compile"
     ELSE pc' = "report" /\ UNCHANGED <<isa, todo>>
  /\ UNCHANGED <<turn, asm, steps, work, artifacts, report, scanned, ran>>

AsmOf(n) == asm[n[1]][n[2]]

(* compile_and_trace_asm: compile, run the model, write the hex, *)
CompileOne(n, toolsWork) ==
  /\ pc = "compile" /\ n \in todo
  /\ IF toolsWork /\ Compiles(AsmOf(n)) /\ ModelEnds(AsmOf(n))
     THEN /\ isa' = [isa EXCEPT ![n].hex = AsmOf(n)]
          /\ pc' = "trace" /\ work' = n /\ UNCHANGED <<todo, artifacts>>
     ELSE /\ artifacts' = artifacts \cup {"fail"}
          /\ todo' = todo \ {n} /\ UNCHANGED <<isa, pc, work>>
  /\ UNCHANGED <<turn, asm, steps, report, scanned, ran>>

(* and the trace. *)
WriteTrace ==
  /\ pc = "trace"
  /\ isa' = [isa EXCEPT ![work].trace = isa[work].hex]
  /\ artifacts' = artifacts \cup {"pass"}
  /\ todo' = todo \ {work}
  /\ pc' = "compile"
  /\ UNCHANGED <<turn, asm, steps, work, report, scanned, ran>>

(* Mutant: one artifact is enough. *)
CompileSomeClean == "pass" \in artifacts
CompileClean == artifacts = {"pass"}
Traced == {n \in ArtifactNames : isa[n].trace # Missing}

(* run_rtl_trace_compare and discover_artifacts: every trace in the directory *)
(* is run; one without its hex, or none at all, ends the matrix.              *)
StartMatrix ==
  /\ pc = "compile" /\ todo = {}
  /\ IF CompileClean /\ Traced # {} /\ \A n \in Traced : isa[n].hex # Missing
     THEN todo' = Traced /\ pc' = "rtl"
     ELSE pc' = "report" /\ UNCHANGED todo
  /\ UNCHANGED <<turn, asm, isa, steps, work, artifacts, report, scanned, ran>>

(* run_one of the matrix: the first failure ends it. *)
RunRtl(n) ==
  /\ pc = "rtl" /\ n \in todo
  /\ ran' = [ran EXCEPT ![n] = isa[n].hex]
  /\ IF RtlMatches(isa[n]) THEN todo' = todo \ {n} /\ UNCHANGED pc
     ELSE pc' = "report" /\ UNCHANGED todo
  /\ UNCHANGED <<turn, asm, isa, steps, work, artifacts, report, scanned>>

(* The matrix times out or its simulation cannot be built. *)
RtlFails ==
  /\ pc = "rtl" /\ todo # {}
  /\ pc' = "report"
  /\ UNCHANGED <<turn, asm, isa, steps, todo, work, artifacts, report, scanned, ran>>

(* The matrix ends with status 0. *)
RtlClean ==
  /\ pc = "rtl" /\ todo = {}
  /\ pc' = "passed"
  /\ UNCHANGED <<turn, asm, isa, steps, todo, work, artifacts, report, scanned, ran>>

(* main: the status. *)
WriteReport ==
  /\ pc \in {"report", "passed"}
  /\ report' = IF pc = "passed" THEN "pass" ELSE "partial"
  /\ pc' = "idle" /\ turn' = 0
  /\ UNCHANGED <<asm, isa, steps, todo, work, artifacts, scanned, ran>>

(* The run is killed; directories and the old report stay. *)
Kill ==
  /\ pc \notin {"idle", "killed"}
  /\ pc' = "killed" /\ turn' = 0
  /\ UNCHANGED <<asm, isa, steps, todo, work, artifacts, report, scanned, ran>>

Step ==
  \/ ClearSeed
  \/ \E listing \in [Files -> Contents] : Generate(listing)
  \/ \E finished \in BOOLEAN : ScanSeed(finished)
  \/ CleanIsa
  \/ \E n \in ArtifactNames, toolsWork \in BOOLEAN : CompileOne(n, toolsWork)
  \/ WriteTrace
  \/ StartMatrix
  \/ \E n \in ArtifactNames : RunRtl(n)
  \/ RtlFails
  \/ RtlClean
  \/ WriteReport
Next == Step \/ Kill \/ \E c, g \in BOOLEAN : Start(c, g)

Spec == Init /\ [][Next]_vars

-----------------------------------------------------------------------------
TypeOK ==
  /\ pc \in {"idle", "killed", "clear", "generate", "scan", "clean", "compile",
             "trace", "rtl", "report", "passed"}
  /\ turn \in 0..(Len(Seeds) + 1)
  /\ asm \in [SeedSet -> [Files -> Contents]]
  /\ isa \in [ArtifactNames -> [hex : Contents, trace : Contents]]
  /\ steps \subseteq [seed : SeedSet, files : SUBSET Files, status : {"pass", "fail"}]
  /\ todo \subseteq ArtifactNames /\ work \in ArtifactNames
  /\ artifacts \subseteq {"pass", "fail"}
  /\ report \in {"none", "pass", "partial", "fail"}
  /\ scanned \in [ArtifactNames -> Contents] /\ ran \in [ArtifactNames -> Contents]
  /\ pc \in {"clear", "generate", "scan"} => turn \in 1..Len(Seeds)
  /\ pc = "trace" => work \in todo

(* doc/open_gaps.md, RISCV-DV: "Non-RV32EC programs are rejected before RTL   *)
(* execution." What the RTL runs was scanned clean in this very run, and the  *)
(* reference model ended on it: no program of an earlier or killed run, none  *)
(* that replaced the scanned one.                                             *)
OnlyScannedReachRtl ==
  \A n \in ArtifactNames : ran[n] # Missing =>
    /\ ran[n] = scanned[n]
    /\ ran[n] \notin {"register", "mnemonic", "endless"}

(* A report says "pass" only if for every seed there is a program, and each   *)
(* program of each seed was run on the RTL, with a trace equal to the model's.*)
PassCoversSeeds ==
  [][ pc # "idle" /\ pc' = "idle" /\ report' = "pass" =>
        \A s \in SeedSet :
          /\ Present(asm[s]) # {}
          /\ \A f \in Present(asm[s]) :
               asm[s][f] = "clean" /\ ran[<<s, f>>] = "clean" ]_vars

\* What RISCV-DV passes has been scanned, run and compared by the run that passes it.
CampaignCompared == [](TypeOK /\ OnlyScannedReachRtl) /\ PassCoversSeeds
=============================================================================
