-------------------------- MODULE SimulatorsProofs --------------------------
(* Proofs about the RISCV-DV campaign, for every sequence of seeds and every  *)
(* set of files, about the compliance gate, for any number of programs, and   *)
(* about the comparison with Spike and Sail, for any artifacts.               *)
(* The argument for the campaign follows a program through the run: a seed    *)
(* whose scan is over is settled, so that the directory, the step and the     *)
(* scan agree on it (SeedsSettled); once every step has passed, what is in    *)
(* isa_out_dir comes from there (TracesTrue), nothing of it is missing        *)
(* (Covered), and what has left the matrix's list was run and agreed          *)
(* (Compared).  The one for the gate follows a signature: from the plain      *)
(* sources of a build (BuiltPlain) to Sail's record of this run, to the       *)
(* reference and to the core's results.                                       *)
EXTENDS MCSimulators, FiniteSetTheorems, SequenceTheorems, TLAPS

Generating == {"clear", "generate", "scan"}
Building == {"compile", "trace"}
Running == {"rtl", "passed"}

(* The scan of seed s is over, and its directory has not been cleared since.  *)
Done(s) ==
  \/ pc \in {"clean", "report"} \cup Building \cup Running
  \/ /\ pc \in Generating /\ \E i \in 1..(turn - 1) : Seeds[i] = s
     /\ pc = "clear" \/ s # Seeds[turn]

AllScanPass(s) == \A f \in Present(asm[s]) : ScanPasses(asm[s][f])
Settled(s) ==
  /\ \E step \in steps :
       /\ step.seed = s /\ step.files = Present(asm[s])
       /\ step.status = "pass" => Present(asm[s]) # {} /\ AllScanPass(s)
  /\ \A f \in Present(asm[s]) : ScanPasses(asm[s][f]) => scanned[<<s, f>>] = asm[s][f]

SeedsSettled == \A s \in SeedSet : Done(s) => Settled(s)
CleanSoFar == pc \in Building \cup Running => GenerationClean
TraceTrue(n) ==
  /\ isa[n].trace # Missing => isa[n].trace = isa[n].hex
  /\ isa[n].hex # Missing =>
       isa[n].hex = AsmOf(n) /\ Compiles(AsmOf(n)) /\ ModelEnds(AsmOf(n))
TracesTrue ==
  /\ pc \in Building \cup Running => \A n \in ArtifactNames : TraceTrue(n)
  /\ pc = "trace" => isa[work].hex # Missing
Covered ==
  /\ pc \in Building /\ "fail" \notin artifacts =>
       \A n \in ArtifactNames : AsmOf(n) # Missing => n \in todo \/ isa[n].trace = AsmOf(n)
  /\ pc \in Running =>
       \A n \in ArtifactNames : AsmOf(n) # Missing => isa[n].trace = AsmOf(n)
Compared ==
  /\ pc \in Generating \cup {"clean"} \cup Building => ran = Nothing
  /\ pc \in Running =>
       \A n \in ArtifactNames : isa[n].trace # Missing =>
         n \in todo \/ (ran[n] = isa[n].hex /\ RtlMatches(isa[n]))
  /\ pc = "passed" => todo = {}

ArtifactInv == CleanSoFar /\ TracesTrue /\ Covered /\ Compared /\ OnlyScannedReachRtl
IInv == TypeOK /\ SeedsSettled /\ ArtifactInv

-----------------------------------------------------------------------------
(* The index of a seed in work names a seed.                                  *)
LEMMA SeedOfTurn == ASSUME NEW i \in 1..Len(Seeds) PROVE Seeds[i] \in SeedSet
  BY DEF SeedSet

(* The type invariant is inductive.                                           *)
LEMMA TypeStep == TypeOK /\ [Next]_vars => TypeOK'
<1> SUFFICES ASSUME TypeOK, [Next]_vars PROVE TypeOK'
  OBVIOUS
<1>len. Len(Seeds) \in Nat /\ Len(Seeds) > 0
  BY SeedsAssumption
<1>0. Empty \in [Files -> Contents] /\ Nothing \in [ArtifactNames -> Contents]
        /\ NoFiles \in [hex : Contents, trace : Contents]
  BY DEF Empty, Nothing, NoFiles, Contents
<1>1. ASSUME NEW c \in BOOLEAN, NEW g \in BOOLEAN, Start(c, g) PROVE TypeOK'
  BY <1>1, <1>0, <1>len DEF Start, TypeOK
<1>2. CASE ClearSeed
  BY <1>2, <1>0, SeedOfTurn DEF ClearSeed, TypeOK
<1>3. ASSUME NEW listing \in [Files -> Contents], Generate(listing) PROVE TypeOK'
  BY <1>3, SeedOfTurn DEF Generate, TypeOK
<1>4. ASSUME NEW finished \in BOOLEAN, ScanSeed(finished) PROVE TypeOK'
  <2>1. Seeds[turn] \in SeedSet /\ turn \in 1..Len(Seeds)
    BY <1>4, SeedOfTurn DEF ScanSeed, TypeOK
  <2>2. steps' \subseteq [seed : SeedSet, files : SUBSET Files, status : {"pass", "fail"}]
    BY <1>4, <2>1 DEF ScanSeed, TypeOK, Present
  <2>3. scanned' \in [ArtifactNames -> Contents]
    <3> DEFINE seen(n) == IF n[1] # Seeds[turn] THEN scanned[n]
                          ELSE IF n[2] \in Present(asm[Seeds[turn]]) /\ ScanPasses(asm[Seeds[turn]][n[2]])
                          THEN asm[Seeds[turn]][n[2]] ELSE Missing
    <3>1. \A n \in ArtifactNames : seen(n) \in Contents
      BY <2>1 DEF TypeOK, Contents, Present
    <3>2. scanned' = [n \in ArtifactNames |-> seen(n)]
      BY <1>4 DEF ScanSeed
    <3> QED BY <3>1, <3>2
  <2>4. turn' \in 0..(Len(Seeds) + 1) /\ (pc' \in {"clear", "generate", "scan"} => turn' \in 1..Len(Seeds))
    BY <1>4, <2>1, <1>len DEF ScanSeed
  <2> QED BY <1>4, <2>2, <2>3, <2>4 DEF ScanSeed, TypeOK
<1>5. CASE CleanIsa
  <2>1. isa' \in [ArtifactNames -> [hex : Contents, trace : Contents]]
    BY <1>5, <1>0 DEF CleanIsa, TypeOK
  <2>2. todo' \subseteq ArtifactNames
    <3>1. \A step \in steps : NamesOf(step) \subseteq ArtifactNames
      BY DEF TypeOK, NamesOf, ArtifactNames
    <3>2. UNION {NamesOf(step) : step \in steps} \subseteq ArtifactNames
      BY <3>1
    <3> QED BY <1>5, <3>2 DEF CleanIsa, TypeOK
  <2> QED BY <1>5, <2>1, <2>2 DEF CleanIsa, TypeOK
<1>6. ASSUME NEW n \in ArtifactNames, NEW b \in BOOLEAN, CompileOne(n, b) PROVE TypeOK'
  <2>1. AsmOf(n) \in Contents
    BY DEF TypeOK, AsmOf, ArtifactNames
  <2> QED BY <1>6, <2>1 DEF CompileOne, TypeOK
<1>7. CASE WriteTrace
  BY <1>7 DEF WriteTrace, TypeOK
<1>8. CASE StartMatrix
  BY <1>8 DEF StartMatrix, TypeOK, Traced
<1>9. ASSUME NEW n \in ArtifactNames, RunRtl(n) PROVE TypeOK'
  BY <1>9 DEF RunRtl, TypeOK
<1>10. CASE RtlFails
  BY <1>10 DEF RtlFails, TypeOK
<1>11. CASE RtlClean
  BY <1>11 DEF RtlClean, TypeOK
<1>12. CASE WriteReport
  BY <1>12, <1>len DEF WriteReport, TypeOK
<1>13. CASE Kill
  BY <1>13, <1>len DEF Kill, TypeOK
<1>14. CASE UNCHANGED vars
  BY <1>14 DEF vars, TypeOK
<1> QED BY <1>1, <1>2, <1>3, <1>4, <1>5, <1>6, <1>7, <1>8, <1>9, <1>10, <1>11, <1>12, <1>13, <1>14
        DEF Next, Step

(* Before a run has done anything.                                            *)
LEMMA InitHolds == Init => IInv
<1> SUFFICES ASSUME Init PROVE IInv
  OBVIOUS
<1>1. TypeOK
  <2>1. Len(Seeds) \in Nat
    BY SeedsAssumption
  <2>2. Empty \in [Files -> Contents] /\ Nothing \in [ArtifactNames -> Contents]
          /\ NoFiles \in [hex : Contents, trace : Contents]
    BY DEF Empty, Nothing, NoFiles, Contents
  <2> QED BY <2>1, <2>2 DEF Init, TypeOK
<1>2. SeedsSettled /\ CleanSoFar /\ TracesTrue /\ Covered /\ Compared
  BY DEF Init, SeedsSettled, Done, CleanSoFar, TracesTrue, Covered, Compared,
         Generating, Building, Running
<1>3. OnlyScannedReachRtl
  BY DEF Init, Nothing, OnlyScannedReachRtl
<1> QED BY <1>1, <1>2, <1>3 DEF IInv, ArtifactInv

(* A settled seed stays so until its directory is cleared.                    *)
LEMMA SettledStep == ASSUME IInv, [Next]_vars PROVE SeedsSettled'
<1> USE DEF IInv, ArtifactInv
<1>len. Len(Seeds) \in Nat
  BY SeedsAssumption
<1> SUFFICES ASSUME NEW s \in SeedSet, Done(s)' PROVE Settled(s)'
  BY DEF SeedsSettled
<1>1. ASSUME Done(s), UNCHANGED <<asm, steps, scanned>> PROVE Settled(s)'
  BY <1>1 DEF SeedsSettled, Settled, AllScanPass, Present
<1>2. ASSUME NEW c \in BOOLEAN, NEW g \in BOOLEAN, Start(c, g) PROVE FALSE
  BY <1>2, <1>len DEF Start, Done, Generating, Building, Running
<1>3. CASE ClearSeed
  <2>1. Done(s) /\ s # Seeds[turn]
    BY <1>3 DEF ClearSeed, Done, Generating, Building, Running
  <2>2. Settled(s) /\ asm'[s] = asm[s] /\ UNCHANGED <<steps, scanned>>
    BY <1>3, <2>1 DEF ClearSeed, SeedsSettled, TypeOK
  <2> QED BY <2>2 DEF Settled, AllScanPass, Present
<1>4. ASSUME NEW listing \in [Files -> Contents], Generate(listing) PROVE Settled(s)'
  <2>1. Done(s) /\ s # Seeds[turn]
    BY <1>4 DEF Generate, Done, Generating, Building, Running
  <2>2. Settled(s) /\ asm'[s] = asm[s] /\ UNCHANGED <<steps, scanned>>
    BY <1>4, <2>1 DEF Generate, SeedsSettled, TypeOK
  <2> QED BY <2>2 DEF Settled, AllScanPass, Present
<1>5. ASSUME NEW finished \in BOOLEAN, ScanSeed(finished) PROVE Settled(s)'
  <2> DEFINE seed == Seeds[turn]
             done == [seed |-> seed, files |-> Present(asm[seed]),
                      status |-> IF finished /\ Present(asm[seed]) # {} /\ AllScanPass(seed)
                                 THEN "pass" ELSE "fail"]
  <2>1. seed \in SeedSet /\ turn \in 1..Len(Seeds) /\ pc = "scan"
    BY <1>5, SeedOfTurn DEF ScanSeed, TypeOK
  <2>2. steps' = steps \cup {done} /\ asm' = asm
    BY <1>5 DEF ScanSeed, AllScanPass
  <2>3. \A n \in ArtifactNames : scanned'[n] =
          IF n[1] # seed THEN scanned[n]
          ELSE IF n[2] \in Present(asm[seed]) /\ ScanPasses(asm[seed][n[2]]) THEN asm[seed][n[2]]
          ELSE Missing
    BY <1>5 DEF ScanSeed
  <2>4. \A t \in SeedSet, f \in Files : <<t, f>> \in ArtifactNames /\ <<t, f>>[1] = t /\ <<t, f>>[2] = f
    BY DEF ArtifactNames
  <2>5. Present(asm[s]) \subseteq Files
    BY DEF Present
  <2>6. CASE s = seed
    <3>1. done \in steps' /\ done.seed = s /\ done.files = Present(asm'[s])
            /\ (done.status = "pass" => Present(asm'[s]) # {} /\ AllScanPass(s)')
      BY <2>2, <2>6 DEF AllScanPass
    <3>2. \A f \in Present(asm[s]) : ScanPasses(asm[s][f]) => scanned'[<<s, f>>] = asm[s][f]
      BY <2>1, <2>3, <2>4, <2>5, <2>6
    <3> QED BY <3>1, <3>2, <2>2 DEF Settled
  <2>7. CASE s # seed
    <3>1. Done(s)
      <4>1. CASE pc' = "clean"
        <5>1. turn = Len(Seeds)
          BY <1>5, <2>1, <4>1, <1>len DEF ScanSeed
        <5>2. PICK i \in 1..Len(Seeds) : Seeds[i] = s
          BY DEF SeedSet
        <5> QED BY <2>1, <2>7, <5>1, <5>2, <1>len DEF Done, Generating
      <4>2. CASE pc' = "clear"
        <5>1. turn' = turn + 1
          BY <1>5 DEF ScanSeed
        <5>2. PICK i \in 1..turn : Seeds[i] = s
          BY <4>2, <5>1, <2>1, <1>len DEF Done, Generating, Building, Running
        <5> QED BY <2>1, <2>7, <5>2, <1>len DEF Done, Generating
      <4> QED BY <1>5, <4>1, <4>2 DEF ScanSeed
    <3>2. Settled(s)
      BY <3>1 DEF SeedsSettled
    <3>3. \A f \in Present(asm[s]) : scanned'[<<s, f>>] = scanned[<<s, f>>]
      BY <2>3, <2>4, <2>5, <2>7
    <3> QED BY <3>2, <3>3, <2>2 DEF Settled, AllScanPass
  <2> QED BY <2>6, <2>7
<1>6. CASE CleanIsa
  BY <1>6, <1>1 DEF CleanIsa, Done
<1>7. ASSUME NEW n \in ArtifactNames, NEW b \in BOOLEAN, CompileOne(n, b) PROVE Settled(s)'
  BY <1>7, <1>1 DEF CompileOne, Done, Building
<1>8. CASE WriteTrace
  BY <1>8, <1>1 DEF WriteTrace, Done, Building
<1>9. CASE StartMatrix
  BY <1>9, <1>1 DEF StartMatrix, Done, Building
<1>10. ASSUME NEW n \in ArtifactNames, RunRtl(n) PROVE Settled(s)'
  BY <1>10, <1>1 DEF RunRtl, Done, Running
<1>11. CASE RtlFails
  BY <1>11, <1>1 DEF RtlFails, Done, Running
<1>12. CASE RtlClean
  BY <1>12, <1>1 DEF RtlClean, Done, Running
<1>13. CASE WriteReport
  BY <1>13 DEF WriteReport, Done, Generating, Building, Running
<1>14. CASE Kill
  BY <1>14 DEF Kill, Done, Generating, Building, Running
<1>15. CASE UNCHANGED vars
  BY <1>15, <1>1 DEF vars, Done
<1> QED BY <1>2, <1>3, <1>4, <1>5, <1>6, <1>7, <1>8, <1>9, <1>10, <1>11, <1>12, <1>13, <1>14, <1>15
        DEF Next, Step

(* Until the matrix starts nothing was run, and after it nothing changes.     *)
LEMMA EarlyStep ==
  ASSUME IInv, TypeOK', pc' \in Generating \cup {"clean"}, ran' = Nothing
  PROVE ArtifactInv'
  BY DEF ArtifactInv, CleanSoFar, TracesTrue, Covered, Compared, OnlyScannedReachRtl,
         Generating, Building, Running, Nothing

LEMMA LateStep ==
  ASSUME IInv, pc' \in {"idle", "killed", "report"}, UNCHANGED <<ran, scanned>>
  PROVE ArtifactInv'
  BY DEF IInv, ArtifactInv, CleanSoFar, TracesTrue, Covered, Compared, OnlyScannedReachRtl, Generating,
         Building, Running

(* Cleaning leaves no artifact, and every program found is to be compiled.    *)
LEMMA CleanStep ==
  ASSUME IInv, CleanIsa
  PROVE ArtifactInv'
<1> USE DEF IInv, ArtifactInv
<1>0. UNCHANGED <<ran, scanned, asm, steps, artifacts>> /\ ran = Nothing
  BY DEF CleanIsa, Compared
<1>1. CASE ~GenerationClean
  BY <1>0, <1>1, LateStep DEF CleanIsa
<1>2. CASE GenerationClean
  <2>1. pc' = "compile" /\ isa' = [n \in ArtifactNames |-> NoFiles]
          /\ todo' = UNION {NamesOf(step) : step \in steps}
    BY <1>2 DEF CleanIsa
  <2>2. CleanSoFar'
    BY <1>0, <1>2 DEF CleanSoFar, GenerationClean
  <2>3. TracesTrue'
    BY <2>1 DEF TracesTrue, TraceTrue, NoFiles
  <2>4. Covered'
    <3> SUFFICES ASSUME NEW n \in ArtifactNames, AsmOf(n) # Missing PROVE n \in todo'
      BY <2>1, <1>0 DEF Covered, AsmOf, Running
    <3>1. PICK s \in SeedSet, f \in Files : n = <<s, f>>
      BY DEF ArtifactNames
    <3>2. f \in Present(asm[s])
      BY <3>1 DEF AsmOf, Present
    <3>3. Done(s)
      BY DEF Done, CleanIsa
    <3>4. PICK step \in steps : step.seed = s /\ step.files = Present(asm[s])
      BY <3>3 DEF SeedsSettled, Settled
    <3>5. n \in NamesOf(step)
      BY <3>1, <3>2, <3>4 DEF NamesOf
    <3> QED BY <3>5, <2>1
  <2>5. Compared' /\ OnlyScannedReachRtl'
    BY <1>0, <2>1 DEF Compared, OnlyScannedReachRtl, Running, Nothing
  <2> QED BY <2>2, <2>3, <2>4, <2>5
<1> QED BY <1>1, <1>2

(* Compiling leaves only programs of the directory that the model ends on.    *)
LEMMA CompileStep ==
  ASSUME IInv, NEW n \in ArtifactNames, NEW b \in BOOLEAN, CompileOne(n, b)
  PROVE ArtifactInv'
<1> USE DEF IInv, ArtifactInv
<1>0. pc = "compile" /\ UNCHANGED <<ran, scanned, asm, steps>> /\ pc' \in Building
  BY DEF CompileOne, Building
<1>1. CleanSoFar' /\ Compared' /\ OnlyScannedReachRtl'
  BY <1>0 DEF CleanSoFar, GenerationClean, Compared, OnlyScannedReachRtl, Building, Running
<1>2. CASE b /\ Compiles(AsmOf(n)) /\ ModelEnds(AsmOf(n))
  <2>1. isa' = [isa EXCEPT ![n].hex = AsmOf(n)] /\ work' = n /\ UNCHANGED <<todo, artifacts>>
    BY <1>2 DEF CompileOne
  <2>2. AsmOf(n) # Missing
    BY <1>2 DEF Compiles
  <2>3. \A k \in ArtifactNames : TraceTrue(k)
    BY <1>0 DEF TracesTrue, Building
  <2>4. isa'[n].hex = AsmOf(n) /\ isa'[n].trace = isa[n].trace
    BY <2>1 DEF TypeOK
  <2>5. \A k \in ArtifactNames : k # n => isa'[k] = isa[k]
    BY <2>1 DEF TypeOK
  <2>6. TraceTrue(n)'
    BY <2>3, <2>4, <1>2, <1>0 DEF TraceTrue, AsmOf
  <2>7. \A k \in ArtifactNames : TraceTrue(k)'
    <3> SUFFICES ASSUME NEW k \in ArtifactNames, k # n PROVE TraceTrue(k)'
      BY <2>6
    <3> QED BY <2>3, <2>5, <1>0 DEF TraceTrue, AsmOf
  <2>8. TracesTrue'
    BY <2>7, <2>1, <2>2, <2>4 DEF TracesTrue
  <2>9. Covered'
    BY <1>0, <2>1, <2>4, <2>5 DEF Covered, AsmOf, Building, Running
  <2> QED BY <1>1, <2>8, <2>9
<1>3. CASE ~(b /\ Compiles(AsmOf(n)) /\ ModelEnds(AsmOf(n)))
  <2>1. "fail" \in artifacts' /\ UNCHANGED <<isa, pc, work>>
    BY <1>3 DEF CompileOne
  <2>2. TracesTrue'
    BY <1>0, <2>1 DEF TracesTrue, TraceTrue, AsmOf, Building, Running
  <2>3. Covered'
    BY <1>0, <2>1 DEF Covered, Building, Running
  <2> QED BY <1>1, <2>2, <2>3
<1> QED BY <1>2, <1>3

(* The trace written is that of the hex.                                      *)
LEMMA TraceStep ==
  ASSUME IInv, WriteTrace
  PROVE ArtifactInv'
<1> USE DEF IInv, ArtifactInv
<1>0. pc = "trace" /\ pc' = "compile" /\ UNCHANGED <<ran, scanned, asm, steps, work>>
        /\ work \in ArtifactNames /\ todo' = todo \ {work} /\ artifacts' = artifacts \cup {"pass"}
  BY DEF WriteTrace, TypeOK
<1>1. CleanSoFar' /\ Compared' /\ OnlyScannedReachRtl'
  BY <1>0 DEF CleanSoFar, GenerationClean, Compared, OnlyScannedReachRtl, Building, Running
<1>2. isa'[work].hex = isa[work].hex /\ isa'[work].trace = isa[work].hex
  BY <1>0 DEF WriteTrace, TypeOK
<1>3. \A k \in ArtifactNames : k # work => isa'[k] = isa[k]
  BY <1>0 DEF WriteTrace, TypeOK
<1>4. \A k \in ArtifactNames : TraceTrue(k)
  BY <1>0 DEF TracesTrue, Building
<1>5. isa[work].hex = AsmOf(work)
  BY <1>0, <1>4 DEF TracesTrue, TraceTrue
<1>6. \A k \in ArtifactNames : TraceTrue(k)'
  <2> TAKE k \in ArtifactNames
  <2>1. CASE k = work
    BY <2>1, <1>0, <1>2, <1>4 DEF TraceTrue, AsmOf
  <2>2. CASE k # work
    BY <2>2, <1>0, <1>3, <1>4 DEF TraceTrue, AsmOf
  <2> QED BY <2>1, <2>2
<1>7. TracesTrue'
  BY <1>6, <1>0 DEF TracesTrue
<1>8. Covered'
  <2>1. ASSUME "fail" \notin artifacts', NEW k \in ArtifactNames, AsmOf(k) # Missing
        PROVE k \in todo' \/ isa'[k].trace = AsmOf(k)
    <3>1. k \in todo \/ isa[k].trace = AsmOf(k)
      BY <2>1, <1>0 DEF Covered, Building
    <3>2. CASE k = work
      BY <3>2, <1>2, <1>5
    <3>3. CASE k # work
      BY <3>1, <3>3, <1>0, <1>3
    <3> QED BY <3>2, <3>3
  <2> QED BY <2>1, <1>0 DEF Covered, AsmOf, Running
<1> QED BY <1>1, <1>7, <1>8

(* The matrix starts with every trace, and with one for every program.        *)
LEMMA MatrixStep ==
  ASSUME IInv, StartMatrix
  PROVE ArtifactInv'
<1> USE DEF IInv, ArtifactInv
<1>0. pc = "compile" /\ todo = {} /\ UNCHANGED <<ran, scanned, asm, steps, isa, work, artifacts>>
  BY DEF StartMatrix
<1>1. CASE pc' = "report"
  BY <1>0, <1>1, LateStep
<1>2. CASE pc' = "rtl" /\ CompileClean /\ todo' = Traced
  <2>1. CleanSoFar' /\ OnlyScannedReachRtl' /\ TracesTrue'
    BY <1>0, <1>2 DEF CleanSoFar, GenerationClean, OnlyScannedReachRtl, TracesTrue, TraceTrue,
                      AsmOf, Building, Running
  <2>2. "fail" \notin artifacts
    BY <1>2 DEF CompileClean
  <2>3. Covered'
    BY <1>0, <1>2, <2>2 DEF Covered, AsmOf, Building, Running
  <2>4. Compared'
    BY <1>0, <1>2 DEF Compared, Traced, Generating, Building, Running
  <2> QED BY <2>1, <2>3, <2>4
<1> QED BY <1>1, <1>2 DEF StartMatrix

(* What the RTL runs was scanned, compiled and traced in this run.            *)
LEMMA RtlStep ==
  ASSUME IInv, NEW n \in ArtifactNames, RunRtl(n)
  PROVE ArtifactInv'
<1> USE DEF IInv, ArtifactInv
<1>0. pc = "rtl" /\ n \in todo /\ UNCHANGED <<scanned, asm, steps, isa, work, artifacts>>
        /\ ran' = [ran EXCEPT ![n] = isa[n].hex] /\ pc' \in {"rtl", "report"}
  BY DEF RunRtl
<1>1. PICK s \in SeedSet, f \in Files : n = <<s, f>>
  BY DEF ArtifactNames
<1>2. OnlyScannedReachRtl'
  <2>1. \A k \in ArtifactNames : k # n => ran'[k] = ran[k]
    BY <1>0 DEF TypeOK
  <2>2. ran'[n] = isa[n].hex
    BY <1>0 DEF TypeOK
  <2>3. ASSUME isa[n].hex # Missing
        PROVE isa[n].hex = scanned[n] /\ isa[n].hex \notin {"register", "mnemonic", "endless"}
    <3>1. isa[n].hex = AsmOf(n) /\ Compiles(AsmOf(n)) /\ ModelEnds(AsmOf(n))
      BY <2>3, <1>0 DEF TracesTrue, TraceTrue, Running
    <3>2. AsmOf(n) = asm[s][f] /\ f \in Present(asm[s])
      BY <1>1, <2>3, <3>1 DEF AsmOf, Present
    <3>3. Settled(s) /\ GenerationClean
      BY <1>0 DEF SeedsSettled, Done, Running, CleanSoFar
    <3>4. ScanPasses(asm[s][f])
      BY <3>2, <3>3 DEF Settled, AllScanPass, GenerationClean
    <3>5. scanned[n] = asm[s][f]
      BY <1>1, <3>2, <3>3, <3>4 DEF Settled
    <3> QED BY <3>1, <3>2, <3>4, <3>5 DEF ScanPasses, Compiles, ModelEnds
  <2> QED BY <2>1, <2>2, <2>3, <1>0 DEF OnlyScannedReachRtl
<1>3. CASE pc' = "report"
  BY <1>2, <1>3 DEF CleanSoFar, TracesTrue, Covered, Compared, Generating, Building, Running
<1>4. CASE pc' = "rtl"
  <2>1. todo' = todo \ {n} /\ RtlMatches(isa[n])
    BY <1>0, <1>4 DEF RunRtl
  <2>2. CleanSoFar' /\ TracesTrue' /\ Covered'
    BY <1>0, <1>4 DEF CleanSoFar, GenerationClean, TracesTrue, TraceTrue, Covered, AsmOf,
                      Building, Running
  <2>3. Compared'
    <3>1. ASSUME NEW k \in ArtifactNames, isa[k].trace # Missing
          PROVE k \in todo' \/ (ran'[k] = isa[k].hex /\ RtlMatches(isa[k]))
      <4>1. CASE k = n
        BY <4>1, <2>1, <1>0 DEF TypeOK
      <4>2. CASE k # n
        BY <4>2, <3>1, <2>1, <1>0 DEF Compared, Running, TypeOK
      <4> QED BY <4>1, <4>2
    <3> QED BY <3>1, <1>0, <1>4 DEF Compared, RtlMatches, Generating, Building, Running
  <2> QED BY <1>2, <2>2, <2>3
<1> QED BY <1>0, <1>3, <1>4

(* The invariant is inductive.                                                *)
LEMMA Inductive == IInv /\ [Next]_vars => IInv'
<1> SUFFICES ASSUME IInv, [Next]_vars PROVE IInv'
  OBVIOUS
<1> USE DEF ArtifactInv
<1>1. TypeOK' /\ SeedsSettled'
  BY TypeStep, SettledStep DEF IInv
<1>2. ArtifactInv'
  <2>1. ASSUME NEW c \in BOOLEAN, NEW g \in BOOLEAN, Start(c, g) PROVE ArtifactInv'
    <3>1. ran' = Nothing /\ pc' \in {"clear", "idle"}
      BY <2>1 DEF Start
    <3>2. CASE pc' = "clear"
      BY <3>1, <3>2, <1>1, EarlyStep DEF Generating
    <3>3. CASE pc' = "idle"
      BY <3>1, <3>3 DEF CleanSoFar, TracesTrue, Covered, Compared, OnlyScannedReachRtl, Nothing,
                        Generating, Building, Running
    <3> QED BY <3>1, <3>2, <3>3
  <2>2. CASE ClearSeed
    BY <2>2, <1>1, EarlyStep DEF ClearSeed, IInv, Compared, Generating
  <2>3. ASSUME NEW listing \in [Files -> Contents], Generate(listing) PROVE ArtifactInv'
    BY <2>3, <1>1, EarlyStep DEF Generate, IInv, Compared, Generating
  <2>4. ASSUME NEW finished \in BOOLEAN, ScanSeed(finished) PROVE ArtifactInv'
    <3>1. ran' = Nothing /\ pc' \in Generating \cup {"clean"}
      BY <2>4 DEF ScanSeed, IInv, Compared, Generating
    <3> QED BY <3>1, <1>1, EarlyStep
  <2>5. CASE CleanIsa
    BY <2>5, CleanStep
  <2>6. ASSUME NEW n \in ArtifactNames, NEW b \in BOOLEAN, CompileOne(n, b) PROVE ArtifactInv'
    BY <2>6, CompileStep
  <2>7. CASE WriteTrace
    BY <2>7, TraceStep
  <2>8. CASE StartMatrix
    BY <2>8, MatrixStep
  <2>9. ASSUME NEW n \in ArtifactNames, RunRtl(n) PROVE ArtifactInv'
    BY <2>9, RtlStep
  <2>10. CASE RtlFails
    BY <2>10, LateStep DEF RtlFails
  <2>11. CASE RtlClean
    BY <2>11 DEF RtlClean, IInv, CleanSoFar, GenerationClean, TracesTrue, TraceTrue, Covered, AsmOf,
                 Compared, OnlyScannedReachRtl, Generating, Building, Running
  <2>12. CASE WriteReport
    BY <2>12, LateStep DEF WriteReport
  <2>13. CASE Kill
    BY <2>13, LateStep DEF Kill
  <2>14. CASE UNCHANGED vars
    BY <2>14 DEF vars, IInv, CleanSoFar, GenerationClean, TracesTrue, TraceTrue, Covered, AsmOf,
                 Compared, OnlyScannedReachRtl
  <2> QED BY <2>1, <2>2, <2>3, <2>4, <2>5, <2>6, <2>7, <2>8, <2>9, <2>10, <2>11, <2>12, <2>13, <2>14
          DEF Next, Step
<1> QED BY <1>1, <1>2 DEF IInv

LEMMA Invariance == Spec => []IInv
  BY InitHolds, Inductive, PTL DEF Spec

(* Every variable stays in its range, for every sequence of seeds.            *)
THEOREM TypeCorrect == Spec => []TypeOK
<1>1. IInv => TypeOK
  BY DEF IInv
<1> QED BY <1>1, Invariance, PTL

(* Only programs scanned clean in this run, compiled and ended by the model,  *)
(* reach the RTL.                                                             *)
THEOREM ScannedOnly == Spec => []OnlyScannedReachRtl
<1>1. IInv => OnlyScannedReachRtl
  BY DEF IInv, ArtifactInv
<1> QED BY <1>1, Invariance, PTL

(* A passing report has compared every program of every seed.                 *)
THEOREM PassesCoverSeeds == Spec => PassCoversSeeds
<1>1. IInv /\ [Next]_vars =>
        [ pc # "idle" /\ pc' = "idle" /\ report' = "pass" =>
            \A s \in SeedSet :
              /\ Present(asm[s]) # {}
              /\ \A f \in Present(asm[s]) :
                   asm[s][f] = "clean" /\ ran[<<s, f>>] = "clean" ]_vars
  <2> SUFFICES ASSUME IInv, Next, pc # "idle", pc' = "idle", report' = "pass", NEW s \in SeedSet
               PROVE  /\ Present(asm[s]) # {}
                      /\ \A f \in Present(asm[s]) :
                           asm[s][f] = "clean" /\ ran[<<s, f>>] = "clean"
    OBVIOUS
  <2> USE DEF IInv, ArtifactInv
  <2>1. pc = "passed"
    BY DEF Next, Step, Start, ClearSeed, Generate, ScanSeed, CleanIsa, CompileOne, WriteTrace,
           StartMatrix, RunRtl, RtlFails, RtlClean, WriteReport, Kill
  <2>2. Settled(s) /\ GenerationClean
    BY <2>1 DEF SeedsSettled, Done, Running, CleanSoFar
  <2>3. Present(asm[s]) # {} /\ AllScanPass(s)
    BY <2>2 DEF Settled, GenerationClean
  <2>4. ASSUME NEW f \in Present(asm[s]) PROVE asm[s][f] = "clean" /\ ran[<<s, f>>] = "clean"
    <3> DEFINE n == <<s, f>>
    <3>1. n \in ArtifactNames /\ AsmOf(n) = asm[s][f] /\ AsmOf(n) # Missing /\ f \in Files
      BY DEF ArtifactNames, AsmOf, Present
    <3>2. isa[n].trace = AsmOf(n)
      BY <2>1, <3>1 DEF Covered, Running
    <3>3. TraceTrue(n)
      BY <2>1, <3>1 DEF TracesTrue, Running
    <3>4. isa[n].hex = AsmOf(n) /\ Compiles(AsmOf(n)) /\ ModelEnds(AsmOf(n))
      BY <3>1, <3>2, <3>3 DEF TraceTrue
    <3>5. ran[n] = isa[n].hex /\ RtlMatches(isa[n])
      BY <2>1, <3>1, <3>2 DEF Compared, Running
    <3>6. asm[s][f] \in Programs
      BY <3>1 DEF TypeOK, Contents
    <3>7. ScanPasses(asm[s][f])
      BY <2>3 DEF AllScanPass
    <3> QED BY <3>1, <3>4, <3>5, <3>6, <3>7, ProgramsAssumption
            DEF ScanPasses, Compiles, ModelEnds, RtlMatches
  <2> QED BY <2>3, <2>4
<1> QED BY <1>1, Invariance, PTL DEF Spec, PassCoversSeeds

\* What RISCV-DV passes has been scanned, run and compared by the run that passes it.
THEOREM ComparedCampaign == Spec => CampaignCompared
<1>1. Spec => [](TypeOK /\ OnlyScannedReachRtl)
  BY TypeCorrect, ScannedOnly, PTL
<1> QED BY <1>1, PassesCoverSeeds DEF CampaignCompared
-----------------------------------------------------------------------------
\* The compliance gate.  A build is of a source with a signature of its own; what the
\* script of Sail records of it is that signature or a failure, and a run in which no step
\* failed has passed it on to the core's tests.
Tests == Compliance!Tests
Plain(t) == iss[t] \in Compliance!Sources /\ iss[t].kind = "plain"
BuiltPlain == built => \A t \in Tests : Plain(t)
BuildingPlain == cpc \in {"dut", "iss"} => \A t \in Tests : t < at => Plain(t)
SailRecords ==
  cpc = "sail" => \A t \in Tests : t < at => built /\ rec[t] \in {iss[t].sig, "fail"}
SailAnswers ==
  cpc \in {"reference", "make", "report"} /\ sailRc = 0 =>
    built /\ sailRep = rec /\ \A t \in Tests : rec[t] = iss[t].sig
ReferenceAnswers == cpc \in {"make", "report"} /\ sailRc = 0 => reference = rec
CoreAnswers ==
  cpc = "report" /\ sailRc = 0 /\ makeRc = 0 =>
    \A t \in Tests : results[t] = "pass" => Compliance!DutSignature(t) = reference[t]
GateInv ==
  /\ Compliance!TypeOK /\ BuiltPlain /\ BuildingPlain /\ SailRecords /\ SailAnswers
  /\ ReferenceAnswers /\ CoreAnswers

\* Files and their absence are told apart, and so are signatures and the other words.
LEMMA GateWords ==
  /\ N \in Nat \ {0} /\ MaxRuns \in Nat /\ MaxEdits \in Nat
  /\ "none" \notin Sigs /\ "fail" \notin Sigs /\ "wrong" \notin Sigs
  /\ Tests = 1..N /\ 1 \in Tests /\ N \in Tests
  BY ComplianceConstants DEF Compliance!GateConstants, Tests, Compliance!Tests

LEMMA FilesThere == ASSUME NEW T, NEW f \in [Tests -> T] PROVE f # Compliance!NoFile
  <1>1. DOMAIN f = 1..N /\ 1 \in DOMAIN f
    BY GateWords
  <1>2. DOMAIN Compliance!NoFile = {}
    BY DEF Compliance!NoFile
  <1>3. QED
    BY <1>1, <1>2

LEMMA GateInit == ASSUME Compliance!Init PROVE GateInv
  <1>1. /\ dut \in [Tests -> Compliance!Sources \cup {Compliance!NoProgram}]
        /\ iss \in [Tests -> Compliance!Sources \cup {Compliance!NoProgram}]
    BY DEF Compliance!Init, Tests
  <1>2. /\ sigFile \in [Tests -> Sigs \cup {"none"}]
        /\ rec \in [Tests -> Sigs \cup {"none", "fail"}]
    BY DEF Compliance!Init, Compliance!Nothing, Tests
  <1>3. results \in [Tests \cup {} -> {"none", "pass", "fail"}]
    BY DEF Compliance!Init, Compliance!NoResults, Tests
  <1>4. sailRep = Compliance!NoFile /\ reference = Compliance!NoFile
    BY DEF Compliance!Init
  <1>5. at \in Tests /\ runs \in 0..MaxRuns /\ edits \in 0..MaxEdits
    BY GateWords DEF Compliance!Init
  <1>6. /\ src \in [Tests -> Compliance!Sources] /\ hand \in [Tests -> Sigs \cup {"none"}]
        /\ core \subseteq Sigs /\ declared \subseteq Tests
        /\ built = FALSE /\ creport = "none" /\ cpc = "idle" /\ sailRc = 0 /\ makeRc = 0
    BY DEF Compliance!Init, Tests
  <1>7. Compliance!TypeOK
    BY <1>1, <1>2, <1>3, <1>4, <1>5, <1>6 DEF Compliance!TypeOK, Tests
  <1>8. QED
    BY <1>6, <1>7 DEF GateInv, BuiltPlain, BuildingPlain, SailRecords, SailAnswers,
                      ReferenceAnswers, CoreAnswers

\* A new run has no record and no build yet.
LEMMA GateBegins == ASSUME GateInv, Compliance!Begin PROVE GateInv'
  <1> USE DEF Compliance!Begin, Compliance!files, Compliance!fixed
  <1>1. rec' \in [Tests -> Sigs \cup {"none", "fail"}]
    BY DEF Compliance!Nothing, Tests
  <1>2. at' \in Tests /\ runs' \in 0..MaxRuns
    BY GateWords DEF GateInv, Compliance!TypeOK
  <1>3. Compliance!TypeOK'
    BY <1>1, <1>2 DEF GateInv, Compliance!TypeOK, Tests, Compliance!Tests, Compliance!Sources,
                      Compliance!NoProgram, Compliance!NoFile
  <1>4. QED
    BY <1>3, GateWords DEF GateInv, BuiltPlain, BuildingPlain, SailRecords, SailAnswers,
                ReferenceAnswers, CoreAnswers, Plain, Compliance!Sources

\* Without sources that have no signature, one that assembles is plain.
LEMMA PlainSources ==
  ASSUME GateInv, "bare" \notin Kinds, NEW t \in Tests, src[t].kind # "broken"
  PROVE  src[t] \in Compliance!Sources /\ src[t].kind = "plain"
  <1>1. src[t] \in Compliance!Sources
    BY DEF GateInv, Compliance!TypeOK, Tests
  <1>2. src[t].kind \in Kinds /\ Kinds \subseteq {"plain", "bare", "broken"}
    BY <1>1, ComplianceConstants DEF Compliance!Sources, Compliance!GateConstants
  <1>3. QED
    BY <1>1, <1>2

\* A build that fails ends the run.
LEMMA GateCompilesDut ==
  ASSUME GateInv, Compliance!CompileDut PROVE GateInv'
  <1> USE DEF Compliance!CompileDut, Compliance!BuildFails, Compliance!fixed
  <1>1. dut' \in [Tests -> Compliance!Sources \cup {Compliance!NoProgram}]
    BY DEF GateInv, Compliance!TypeOK, Tests
  <1>2. Compliance!TypeOK'
    BY <1>1 DEF GateInv, Compliance!TypeOK, Tests, Compliance!Tests, Compliance!Sources,
                Compliance!NoProgram, Compliance!NoFile
  <1>3. QED
    BY <1>2 DEF GateInv, BuiltPlain, BuildingPlain, SailRecords, SailAnswers,
                ReferenceAnswers, CoreAnswers, Plain, Compliance!Sources

\* The last program of a build completes it, and every build of it is plain.
LEMMA GateCompilesIss ==
  ASSUME GateInv, "bare" \notin Kinds, Compliance!CompileIss PROVE GateInv'
  <1> USE DEF Compliance!CompileIss, Compliance!BuildFails, Compliance!fixed
  <1>1. iss' \in [Tests -> Compliance!Sources \cup {Compliance!NoProgram}]
    BY DEF GateInv, Compliance!TypeOK, Tests
  <1>2. at \in 1..N /\ at' \in Tests /\ at' \in 1..N
    BY GateWords DEF GateInv, Compliance!TypeOK, Tests
  <1>3. Compliance!TypeOK'
    BY <1>1, <1>2 DEF GateInv, Compliance!TypeOK, Tests, Compliance!Tests, Compliance!Sources,
                      Compliance!NoProgram, Compliance!NoFile
  <1>4. ASSUME NEW t \in Tests, Plain(t) \/ (t = at /\ src[at].kind # "broken"),
               iss' = [iss EXCEPT ![at] = src[at]]
        PROVE  Plain(t)'
    BY <1>2, <1>4, PlainSources DEF GateInv, Compliance!TypeOK, Tests, Plain, Compliance!Sources
  <1>5. CASE /\ src[at].kind # "broken" /\ iss' = [iss EXCEPT ![at] = src[at]]
             /\ IF at < N THEN cpc' = "dut" /\ at' = at + 1 /\ UNCHANGED built
                ELSE cpc' = "sail" /\ at' = 1 /\ built' = TRUE
    <2>1. ASSUME NEW t \in Tests, t < at \/ t = at PROVE Plain(t)'
      BY <1>4, <1>5, <2>1 DEF GateInv, BuildingPlain
    <2>2. BuildingPlain'
      BY <1>2, <1>5, <2>1, GateWords DEF BuildingPlain
    <2>3. BuiltPlain'
      <3>1. CASE built
        BY <1>4, <1>5, <3>1 DEF GateInv, BuiltPlain
      <3>2. CASE ~built /\ built'
        <4>1. ~(at < N)
          BY <1>5, <3>2, Zenon
        <4>2. QED
          BY <1>2, <2>1, <4>1, GateWords DEF BuiltPlain
      <3>3. QED
        BY <3>1, <3>2 DEF BuiltPlain
    <2>4. cpc' \in {"dut", "sail"} /\ (cpc' = "sail" => at' = 1)
      BY <1>5
    <2>5. SailRecords' /\ SailAnswers' /\ ReferenceAnswers' /\ CoreAnswers'
      BY <2>4, GateWords DEF SailRecords, SailAnswers, ReferenceAnswers, CoreAnswers
    <2>6. QED
      BY <1>3, <2>2, <2>3, <2>5 DEF GateInv
  <1>6. CASE Compliance!BuildFails /\ UNCHANGED <<iss, built>>
    BY <1>3, <1>6 DEF GateInv, BuiltPlain, BuildingPlain, SailRecords, SailAnswers,
                      ReferenceAnswers, CoreAnswers, Plain, Compliance!Sources
  <1>7. QED
    BY <1>5, <1>6

LEMMA GateSailStops == ASSUME GateInv, Compliance!SailStops PROVE GateInv'
  <1> USE DEF Compliance!SailStops, Compliance!files, Compliance!fixed
  <1>1. Compliance!TypeOK'
    BY DEF GateInv, Compliance!TypeOK, Tests, Compliance!Tests, Compliance!Sources,
           Compliance!NoProgram, Compliance!NoFile
  <1>2. QED
    BY <1>1 DEF GateInv, BuiltPlain, BuildingPlain, SailRecords, SailAnswers,
                ReferenceAnswers, CoreAnswers, Plain, Compliance!Sources

\* What the script of Sail records of a program: its signature, or a failure.
LEMMA GateRecords ==
  ASSUME GateInv, "bare" \notin Kinds, Compliance!SailTest
  PROVE  /\ built /\ at \in Tests
         /\ sigFile' \in [Tests -> Sigs \cup {"none"}]
         /\ rec' \in [Tests -> Sigs \cup {"none", "fail"}]
         /\ rec'[at] \in {iss[at].sig, "fail"}
         /\ \A t \in Tests : t # at => rec'[t] = rec[t]
  <1>1. built /\ at \in Tests /\ Plain(at) /\ cpc = "sail"
    BY DEF Compliance!SailTest, GateInv, Compliance!TypeOK, BuiltPlain, Tests
  <1>2. iss[at].sig \in Sigs /\ iss[at].kind = "plain"
    BY <1>1 DEF Plain, Compliance!Sources
  <1>3. sigFile \in [Tests -> Sigs \cup {"none"}] /\ rec \in [Tests -> Sigs \cup {"none", "fail"}]
    BY DEF GateInv, Compliance!TypeOK, Tests
  <1>4. PICK exit \in {0, 1} :
          /\ sigFile' = IF exit = 0 /\ iss[at].kind = "plain"
                        THEN [sigFile EXCEPT ![at] = iss[at].sig] ELSE sigFile
          /\ rec' = [rec EXCEPT ![at] = Compliance!SailRecord(at, exit, sigFile')]
    BY DEF Compliance!SailTest
  <1>5. sigFile' \in [Tests -> Sigs \cup {"none"}]
    BY <1>1, <1>2, <1>3, <1>4
  <1>6. Compliance!SailRecord(at, exit, sigFile') \in {iss[at].sig, "fail"}
    BY <1>1, <1>2, <1>3, <1>4 DEF Compliance!SailRecord
  <1>7. QED
    BY <1>1, <1>2, <1>3, <1>4, <1>5, <1>6

LEMMA GateRunsSail ==
  ASSUME GateInv, "bare" \notin Kinds, Compliance!SailTest PROVE GateInv'
  <1> USE DEF Compliance!fixed
  <1>1. /\ built /\ at \in Tests
        /\ sigFile' \in [Tests -> Sigs \cup {"none"}]
        /\ rec' \in [Tests -> Sigs \cup {"none", "fail"}]
        /\ rec'[at] \in {iss[at].sig, "fail"}
        /\ \A t \in Tests : t # at => rec'[t] = rec[t]
    BY GateRecords
  <1>2. /\ cpc = "sail"
        /\ UNCHANGED <<src, hand, core, declared, dut, iss, built, reference, results, creport,
                       makeRc, runs, edits>>
    BY DEF Compliance!SailTest
  <1>3. \A t \in Tests : t < at => rec[t] \in {iss[t].sig, "fail"}
    BY <1>2 DEF GateInv, SailRecords
  <1>4. at \in 1..N
    BY <1>1, GateWords
  <1>5. CASE at < N /\ cpc' = "sail" /\ at' = at + 1 /\ UNCHANGED <<sailRep, sailRc>>
    <2>1. at' \in Tests
      BY <1>4, <1>5, GateWords
    <2>2. Compliance!TypeOK'
      BY <1>1, <1>2, <1>5, <2>1
         DEF GateInv, Compliance!TypeOK, Tests, Compliance!Tests, Compliance!Sources,
             Compliance!NoProgram, Compliance!NoFile
    <2>3. SailRecords'
      BY <1>1, <1>2, <1>3, <1>4, <1>5, GateWords DEF SailRecords
    <2>4. QED
      BY <1>2, <1>5, <2>2, <2>3
         DEF GateInv, BuiltPlain, BuildingPlain, SailAnswers, ReferenceAnswers, CoreAnswers, Plain,
             Compliance!Sources
  <1>6. CASE /\ at = N /\ sailRep' = rec' /\ cpc' = "reference" /\ at' = at
             /\ sailRc' = IF \E t \in Compliance!Tests : rec'[t] = "fail" THEN 1 ELSE 0
    <2>1. \A t \in Tests : rec'[t] \in {iss[t].sig, "fail"}
      BY <1>1, <1>3, <1>4, <1>6, GateWords
    <2>2. \A t \in Tests : iss[t].sig \in Sigs
      BY <1>1 DEF GateInv, BuiltPlain, Plain, Compliance!Sources
    <2>3. rec' \in [Tests -> Sigs \cup {"fail"}]
      BY <1>1, <2>1, <2>2
    <2>4. Compliance!TypeOK'
      BY <1>1, <1>2, <1>6, <2>3
         DEF GateInv, Compliance!TypeOK, Tests, Compliance!Tests, Compliance!Sources,
             Compliance!NoProgram, Compliance!NoFile
    <2>5. SailAnswers'
      BY <1>1, <1>2, <1>6, <2>1 DEF SailAnswers, Tests
    <2>6. QED
      BY <1>2, <1>6, <2>4, <2>5
         DEF GateInv, BuiltPlain, BuildingPlain, SailRecords, ReferenceAnswers, CoreAnswers, Plain,
             Compliance!Sources
  <1>7. QED
    <2>1. IF at < N THEN cpc' = "sail" /\ at' = at + 1 /\ UNCHANGED <<sailRep, sailRc>>
          ELSE /\ sailRep' = rec' /\ cpc' = "reference" /\ UNCHANGED at
               /\ sailRc' = IF \E t \in Compliance!Tests : rec'[t] = "fail" THEN 1 ELSE 0
      BY DEF Compliance!SailTest
    <2>2. at < N \/ at = N
      BY <1>4, GateWords
    <2>3. QED
      BY <1>4, <1>5, <1>6, <2>1, <2>2, GateWords

\* The reference of a run in which Sail passed is what its script recorded.
LEMMA GateWritesReference ==
  ASSUME GateInv, Compliance!WriteReference PROVE GateInv'
  <1> DEFINE entry(t) == IF t \in Compliance!Passed(sailRep) THEN sailRep[t] ELSE "none"
  <1>1. /\ cpc = "reference" /\ cpc' = "make" /\ reference' = [t \in Tests |-> entry(t)]
        /\ UNCHANGED <<src, hand, core, declared, dut, iss, built, sigFile, sailRep, results,
                       creport, at, rec, sailRc, makeRc, runs, edits>>
    BY DEF Compliance!WriteReference, Compliance!fixed, Tests
  <1>2. ASSUME NEW t \in Tests PROVE entry(t) \in Sigs \cup {"none"}
    <2>1. CASE sailRep = Compliance!NoFile
      <3>1. DOMAIN sailRep = {}
        BY <2>1 DEF Compliance!NoFile
      <3>2. QED
        BY <3>1 DEF Compliance!Passed
    <2>2. CASE sailRep \in [Tests -> Sigs \cup {"fail"}]
      BY <2>2 DEF Compliance!Passed
    <2>3. QED
      BY <2>1, <2>2 DEF GateInv, Compliance!TypeOK, Tests
  <1>3. reference' \in [Tests -> Sigs \cup {"none"}]
    BY <1>1, <1>2
  <1>4. Compliance!TypeOK'
    BY <1>1, <1>3 DEF GateInv, Compliance!TypeOK, Tests, Compliance!Tests, Compliance!Sources,
                Compliance!NoProgram, Compliance!NoFile
  <1>5. ReferenceAnswers'
    <2>1. SUFFICES ASSUME sailRc = 0 PROVE reference' = rec
      BY <1>1 DEF ReferenceAnswers
    <2>2. /\ sailRep = rec /\ rec \in [Tests -> Sigs \cup {"none", "fail"}]
          /\ \A t \in Tests : rec[t] = iss[t].sig /\ Plain(t)
      BY <1>1, <2>1 DEF GateInv, SailAnswers, BuiltPlain, Compliance!TypeOK, Tests
    <2>3. \A t \in Tests : sailRep[t] # "fail" /\ t \in DOMAIN sailRep
      BY <2>2, GateWords DEF Plain, Compliance!Sources
    <2>4. \A t \in Tests : entry(t) = rec[t]
      BY <2>2, <2>3 DEF Compliance!Passed
    <2>5. QED
      BY <1>1, <2>2, <2>4
  <1>6. QED
    BY <1>1, <1>4, <1>5 DEF GateInv, BuiltPlain, BuildingPlain, SailRecords, SailAnswers,
                CoreAnswers, Plain, Compliance!Sources

\* A compliance test passes only against the entry the reference has for it.
LEMMA GateRunsCocotb ==
  ASSUME GateInv, Compliance!RunCocotb PROVE GateInv'
  <1>1. /\ cpc = "make" /\ cpc' = "report"
        /\ UNCHANGED <<src, hand, core, declared, dut, iss, built, sigFile, sailRep, reference,
                       creport, at, rec, sailRc, runs, edits>>
    BY DEF Compliance!RunCocotb, Compliance!fixed
  <1>2. CASE makeRc' = 1 /\ results' \in {results, Compliance!NoResults}
    <2>1. results' \in [Compliance!Tests \cup {} -> {"none", "pass", "fail"}]
      BY <1>2 DEF GateInv, Compliance!TypeOK, Compliance!NoResults
    <2>2. Compliance!TypeOK'
      BY <1>1, <1>2, <2>1 DEF GateInv, Compliance!TypeOK, Tests, Compliance!Tests,
                  Compliance!Sources, Compliance!NoProgram, Compliance!NoFile
    <2>3. QED
      BY <1>1, <1>2, <2>2 DEF GateInv, BuiltPlain, BuildingPlain, SailRecords, SailAnswers,
                  ReferenceAnswers, CoreAnswers, Plain, Compliance!Sources
  <1>3. CASE \E o \in [{} -> {"pass", "fail"}] :
               /\ results' = [t \in Compliance!Tests \cup {} |->
                                IF t \in {} THEN o[t]
                                ELSE IF t \in declared THEN Compliance!Outcome(t) ELSE "none"]
               /\ makeRc' = IF \E t \in Compliance!Tests \cup {} : results'[t] = "fail" THEN 1 ELSE 0
    <2>1. \A t \in Tests : results'[t] = IF t \in declared THEN Compliance!Outcome(t) ELSE "none"
      BY <1>3 DEF Tests
    <2>2. \A t \in Tests : Compliance!Outcome(t) \in {"pass", "fail"}
      BY DEF Compliance!Outcome
    <2>3. results' \in [Compliance!Tests \cup {} -> {"none", "pass", "fail"}]
      <3>1. DOMAIN results' = Compliance!Tests \cup {} /\ results' = [t \in Compliance!Tests \cup {} |-> results'[t]]
        BY <1>3
      <3>2. QED
        BY <2>1, <2>2, <3>1 DEF Tests
    <2>4. makeRc' \in {0, 1}
      BY <1>3
    <2>5. Compliance!TypeOK'
      BY <1>1, <2>3, <2>4 DEF GateInv, Compliance!TypeOK, Tests, Compliance!Tests,
                  Compliance!Sources, Compliance!NoProgram, Compliance!NoFile
    <2>6. CoreAnswers'
      <3>1. SUFFICES ASSUME sailRc = 0, NEW t \in Tests, results'[t] = "pass"
                     PROVE  Compliance!DutSignature(t)' = reference'[t]
        BY <1>1 DEF CoreAnswers
      <3>2. reference = rec /\ rec \in [Tests -> Sigs \cup {"none", "fail"}]
        BY <1>1, <3>1 DEF GateInv, ReferenceAnswers, Compliance!TypeOK, Tests
      <3>3. reference # Compliance!NoFile
        BY <3>2, FilesThere
      <3>4. Compliance!Outcome(t) = "pass"
        BY <2>1, <3>1
      <3>5. Compliance!DutSignature(t) = reference[t]
        BY <3>3, <3>4 DEF Compliance!Outcome, Compliance!Expected
      <3>6. Compliance!DutSignature(t)' = Compliance!DutSignature(t)
        BY <1>1 DEF Compliance!DutSignature
      <3>7. QED
        BY <1>1, <3>5, <3>6
    <2>7. QED
      BY <1>1, <2>5, <2>6 DEF GateInv, BuiltPlain, BuildingPlain, SailRecords, SailAnswers,
                  ReferenceAnswers, Plain, Compliance!Sources
  <1>4. QED
    BY <1>2, <1>3 DEF Compliance!RunCocotb

LEMMA GateReports ==
  ASSUME GateInv, Compliance!WriteReport PROVE GateInv'
  <1> USE DEF Compliance!WriteReport, Compliance!fixed
  <1>1. Compliance!TypeOK'
    BY DEF GateInv, Compliance!TypeOK, Tests, Compliance!Tests, Compliance!Sources,
           Compliance!NoProgram, Compliance!NoFile
  <1>2. QED
    BY <1>1 DEF GateInv, BuiltPlain, BuildingPlain, SailRecords, SailAnswers,
                ReferenceAnswers, CoreAnswers, Plain, Compliance!Sources

LEMMA GateEdits ==
  ASSUME GateInv, NEW t \in Compliance!Tests, NEW p \in Compliance!Sources,
         Compliance!EditSource(t, p)
  PROVE  GateInv'
  <1> USE DEF Compliance!EditSource, Compliance!files, Compliance!fixed
  <1>1. src' \in [Tests -> Compliance!Sources]
    BY DEF GateInv, Compliance!TypeOK, Tests
  <1>2. edits' \in 0..MaxEdits
    BY GateWords DEF GateInv, Compliance!TypeOK
  <1>3. Compliance!TypeOK'
    BY <1>1, <1>2 DEF GateInv, Compliance!TypeOK, Tests, Compliance!Tests, Compliance!Sources,
           Compliance!NoProgram, Compliance!NoFile
  <1>4. /\ UNCHANGED <<cpc, at, rec, sailRc, makeRc, dut, iss, built, sailRep, reference, results>>
        /\ UNCHANGED core
    OBVIOUS
  <1>5. QED
    BY <1>3, <1>4 DEF GateInv, BuiltPlain, BuildingPlain, SailRecords, SailAnswers,
                ReferenceAnswers, CoreAnswers, Plain, Compliance!Sources, Compliance!DutSignature

LEMMA GateCleans ==
  ASSUME GateInv, Compliance!Clean PROVE GateInv'
  <1> USE DEF Compliance!Clean, Compliance!fixed
  <1>1. /\ dut' \in [Tests -> Compliance!Sources \cup {Compliance!NoProgram}]
        /\ iss' \in [Tests -> Compliance!Sources \cup {Compliance!NoProgram}]
        /\ sigFile' \in [Tests -> Sigs \cup {"none"}]
    BY DEF Compliance!Nothing, Tests
  <1>2. results' \in [Compliance!Tests \cup {} -> {"none", "pass", "fail"}]
    BY DEF GateInv, Compliance!TypeOK, Compliance!NoResults
  <1>3. edits' \in 0..MaxEdits
    BY GateWords DEF GateInv, Compliance!TypeOK
  <1>4. cpc = "idle" /\ cpc' = "idle" /\ built' = FALSE
    OBVIOUS
  <1>5. Compliance!TypeOK'
    BY <1>1, <1>2, <1>3, <1>4 DEF GateInv, Compliance!TypeOK, Tests, Compliance!Tests
  <1>6. QED
    BY <1>4, <1>5 DEF GateInv, BuiltPlain, BuildingPlain, SailRecords, SailAnswers,
                ReferenceAnswers, CoreAnswers

LEMMA GateKeeps ==
  ASSUME GateInv, "bare" \notin Kinds, Compliance!Next PROVE GateInv'
  BY GateBegins, GateCompilesDut, GateCompilesIss, GateSailStops, GateRunsSail,
     GateWritesReference, GateRunsCocotb, GateReports, GateEdits, GateCleans
     DEF Compliance!Next, Compliance!GateStep

\* A pass: the core's answer is the reference's, which is Sail's of this run.
LEMMA GatePasses ==
  ASSUME GateInv, Compliance!WriteReport, creport' = "pass", NEW t \in Compliance!Tests
  PROVE  /\ Compliance!DutSignature(t) = iss[t].sig /\ rec[t] = iss[t].sig
         /\ hand[t] \in {"none", Compliance!DutSignature(t)}
  <1>1. cpc = "report" /\ Compliance!OverallPass
    BY DEF Compliance!WriteReport
  <1>2. /\ makeRc = 0 /\ sailRc = 0 /\ Compliance!CrossPass /\ t \in Tests
        /\ Compliance!Passed(sailRep) = Compliance!Tests
    BY <1>1 DEF Compliance!OverallPass, Tests
  <1>3. built /\ sailRep = rec /\ rec[t] = iss[t].sig /\ reference = rec
    BY <1>1, <1>2 DEF GateInv, SailAnswers, ReferenceAnswers
  <1>4. results[t] = "pass"
    BY <1>1, <1>3 DEF Compliance!OverallPass
  <1>5. Compliance!DutSignature(t) = reference[t]
    BY <1>1, <1>2, <1>4 DEF GateInv, CoreAnswers
  <1>6. hand[t] # "none" => hand[t] = sailRep[t]
    BY <1>2 DEF Compliance!CrossPass
  <1>7. QED
    BY <1>3, <1>5, <1>6

GateHolds == gate = "compliance" => GateInv

LEMMA GateHoldsFirst == MCInit => GateHolds
  BY GateInit DEF MCInit, GateHolds, Iss!Init, IssInvocations

LEMMA GateHoldsNext ==
  ASSUME "bare" \notin Kinds PROVE GateHolds /\ [MCNext]_<<gate, vars, issVars, gateVars>> => GateHolds'
  <1>1. ASSUME GateHolds, MCNext PROVE GateHolds'
    <2>1. gate' = gate
      BY <1>1 DEF MCNext, Iss!Next
    <2>2. CASE gate = "compliance"
      <3>1. Compliance!Next
        BY <1>1, <2>2 DEF MCNext, IssGate, IssInvocations
      <3>2. QED
        BY <1>1, <2>2, <3>1, GateKeeps DEF GateHolds
    <2>3. QED
      BY <2>1, <2>2 DEF GateHolds
  <1>2. ASSUME GateHolds, UNCHANGED <<gate, vars, issVars, gateVars>> PROVE GateHolds'
    BY <1>2 DEF GateHolds, gateVars, GateInv, BuiltPlain, BuildingPlain, SailRecords, SailAnswers,
                ReferenceAnswers, CoreAnswers, Plain, Compliance!Sources, Compliance!DutSignature,
                Compliance!TypeOK, Tests, Compliance!Tests, Compliance!NoProgram, Compliance!NoFile
  <1>3. QED
    BY <1>1, <1>2

\* Whenever the compliance gate reports a pass, the core left the signature the ISA gives
\* the build Sail was given, Sail ran every program in this run, and the hand-written
\* manifest agrees, as long as every source that assembles names its signature.
THEOREM SignaturesCompared == ASSUME "bare" \notin Kinds PROVE MCSpec => ComplianceIsTrue
  <1> DEFINE Passing == cpc = "report" /\ cpc' = "idle" /\ creport' = "pass"
             Agrees == Passing => \A t \in Compliance!Tests :
                                    Compliance!DutSignature(t) = iss[t].sig
             Ran == Passing => \A t \in Compliance!Tests : rec[t] = iss[t].sig
             Hand == Passing => \A t \in Compliance!Tests :
                                  hand[t] \in {"none", Compliance!DutSignature(t)}
             Typed == gate = "compliance" => Compliance!TypeOK
  <1>1. GateHolds => Typed
    BY DEF GateHolds, GateInv
  <1>2. GateHolds /\ [MCNext]_<<gate, vars, issVars, gateVars>> =>
          [Agrees /\ Ran /\ Hand]_(Compliance!vars)
    <2>1. SUFFICES ASSUME GateHolds, MCNext, Compliance!vars' # Compliance!vars, Passing
                   PROVE  Agrees /\ Ran /\ Hand
      BY DEF gateVars, Compliance!vars, Compliance!files, Compliance!fixed
    <2>2. gate = "compliance" /\ Compliance!Next
      BY <2>1 DEF MCNext, gateVars, Compliance!vars, Compliance!files, Compliance!fixed
    <2>3. Compliance!WriteReport
      BY <2>1, <2>2 DEF Compliance!Next, Compliance!GateStep, Compliance!Begin,
         Compliance!CompileDut, Compliance!CompileIss, Compliance!SailStops, Compliance!SailTest,
         Compliance!WriteReference, Compliance!RunCocotb, Compliance!EditSource, Compliance!Clean
    <2>4. QED
      BY <2>1, <2>2, <2>3, GatePasses DEF GateHolds
  <1>3. GateHolds /\ [MCNext]_<<gate, vars, issVars, gateVars>> =>
          [Agrees]_(Compliance!vars) /\ [Ran]_(Compliance!vars) /\ [Hand]_(Compliance!vars)
    BY <1>2
  <1> HIDE DEF Typed, Agrees, Ran, Hand
  <1>4. MCSpec => []GateHolds
    BY GateHoldsFirst, GateHoldsNext, PTL DEF MCSpec
  <1>5. MCSpec => []Typed /\ [][Agrees]_(Compliance!vars) /\ [][Ran]_(Compliance!vars)
                  /\ [][Hand]_(Compliance!vars)
    BY <1>1, <1>3, <1>4, PTL DEF MCSpec
  <1>6. QED
    BY <1>5 DEF ComplianceIsTrue, Compliance!ComplianceTrue, Compliance!PassMeansAgreement,
           Compliance!SailRanNow, Compliance!HandAgrees, Compliance!ReportsPass, Typed, Agrees, Ran, Hand
-----------------------------------------------------------------------------
(* The comparison with Spike and Sail.                                        *)
(* First what the filters of the logs compute: where the items left are       *)
(* neighbours (WithoutOthers), the reference trace without its traps is what  *)
(* the scripts call its commits, and the log of a simulator that agrees is,   *)
(* without the rest, those commits again.  Then the artifact in work: it was  *)
(* read once, and a log that is parsed was written in this run.               *)
\* Counting is the same in both modules.
LEMMA SameCount == ASSUME NEW S PROVE Iss!Cardinality(S) = Cardinality(S)
  BY DEF Iss!Cardinality, Cardinality

\* Where the items that are left are neighbours, they are left as they are.
LEMMA WithoutOthers ==
  ASSUME NEW items, NEW kinds, NEW a \in Nat \ {0}, NEW b \in Nat,
         Iss!Left(items, kinds) = a..b, a <= b + 1
  PROVE  Iss!Without(items, kinds) = [i \in 1..(b - a + 1) |-> items[a + i - 1]]
  <1>1. \A c \in Int : Cardinality(a..c) = IF a > c THEN 0 ELSE c - a + 1
    BY FS_Interval
  <1>2. Iss!Without(items, kinds) = [i \in 1..(b - a + 1) |-> items[Iss!Nth(a..b, i)]]
    <2>1. Cardinality(a..b) = b - a + 1
      BY <1>1
    <2>2. QED
      BY <2>1, SameCount DEF Iss!Without
  <1>3. ASSUME NEW p \in a..b PROVE Iss!Rank(a..b, p) = p - a + 1
    <2>1. {q \in a..b : q <= p} = a..p
      OBVIOUS
    <2>2. Cardinality(a..p) = p - a + 1
      <3>1. p \in Int /\ p >= a
        OBVIOUS
      <3>2. QED
        BY <1>1, <3>1
    <2>3. QED
      BY <2>1, <2>2, SameCount DEF Iss!Rank
  <1>4. ASSUME NEW i \in 1..(b - a + 1) PROVE Iss!Nth(a..b, i) = a + i - 1
    <2>1. a + i - 1 \in a..b
      OBVIOUS
    <2>2. Iss!Rank(a..b, a + i - 1) = i
      BY <1>3, <2>1
    <2>3. ASSUME NEW p \in a..b, Iss!Rank(a..b, p) = i PROVE p = a + i - 1
      BY <1>3, <2>3
    <2>4. QED
      BY <2>1, <2>2, <2>3 DEF Iss!Nth
  <1>5. QED
    BY <1>2, <1>4

\* What is left of a finite trace is one.
LEMMA LeftCounts ==
  ASSUME NEW items, NEW kinds, Len(items) \in Nat
  PROVE  Len(Iss!Without(items, kinds)) \in Nat
  <1>1. IsFiniteSet(1..Len(items)) /\ Iss!Left(items, kinds) \subseteq 1..Len(items)
    BY FS_Interval DEF Iss!Left
  <1>2. Cardinality(Iss!Left(items, kinds)) \in Nat
    BY <1>1, FS_Subset, FS_CardinalityType
  <1>3. QED
    BY <1>2, SameCount DEF Iss!Without

\* What the two invocations are.
LEMMA IssFacts ==
  ASSUME IssGate
  PROVE  /\ Iss!Names # {} /\ Iss!References \subseteq Seq(IssItem) \ {<<>>}
         /\ gate \in {"spike", "sail"}
         /\ gate = "spike" => Iss!AllCompatible
         /\ gate = "sail" => Iss!AllowLow
  BY IssConstants DEF IssGate, IssInvocations, Iss!Names, Iss!References, Iss!AllCompatible,
     Iss!AllowLow

\* A reference trace, item by item.
LEMMA ProgramFacts ==
  ASSUME IssGate, NEW p \in Iss!References
  PROVE  /\ p = [i \in 1..Len(p) |-> p[i]] /\ Len(p) \in Nat \ {0}
         /\ \A i \in 1..Len(p) : p[i] \in IssItem
         /\ p # Iss!NoProgram
  <1>1. p \in Seq(IssItem) /\ p # <<>>
    BY IssFacts
  <1>2. Len(p) \in Nat \ {0} /\ p = [i \in 1..Len(p) |-> p[i]]
    BY <1>1
  <1>3. \A i \in 1..Len(p) : p[i] \in IssItem
    BY <1>1
  <1>4. p[1].kind # "none"
    BY <1>2, <1>3 DEF IssItem
  <1>5. QED
    BY <1>2, <1>3, <1>4 DEF Iss!NoProgram

CommitLen(p) == IF Iss!IsTrap(p[Len(p)]) THEN Len(p) - 1 ELSE Len(p)

LEMMA CommitsFacts ==
  ASSUME IssGate, NEW p \in Iss!References
  PROVE  /\ CommitLen(p) \in {Len(p) - 1, Len(p)} /\ CommitLen(p) \in 0..Len(p)
         /\ Iss!Commits(p) = [i \in 1..CommitLen(p) |-> p[i]]
         /\ Len(Iss!Commits(p)) = CommitLen(p)
  <1>1. p = [i \in 1..Len(p) |-> p[i]] /\ Len(p) \in Nat \ {0} /\ p \in Seq(IssItem)
    BY ProgramFacts, IssFacts
  <1>2. CommitLen(p) \in {Len(p) - 1, Len(p)} /\ CommitLen(p) \in 0..Len(p)
    BY <1>1 DEF CommitLen
  <1>3. SubSeq(p, 1, Len(p) - 1) = [i \in 1..(Len(p) - 1) |-> p[i]]
    BY <1>1
  <1>4. Iss!Commits(p) = [i \in 1..CommitLen(p) |-> p[i]]
    BY <1>1, <1>3 DEF Iss!Commits, Iss!Front, Iss!Final, CommitLen
  <1>5. QED
    BY <1>2, <1>4

\* What is left of a reference trace without the kinds of its last item.
LEMMA CommitsLeft ==
  ASSUME IssGate, NEW p \in Iss!References, NEW kinds,
         \A i \in 1..(Len(p) - 1) : p[i].kind \notin kinds,
         p[Len(p)].kind \in kinds <=> Iss!IsTrap(p[Len(p)])
  PROVE  Iss!Without(p, kinds) = Iss!Commits(p)
  <1>1. Len(p) \in Nat \ {0} /\ CommitLen(p) \in 0..Len(p)
    BY ProgramFacts, CommitsFacts
  <1>2. Iss!Left(p, kinds) = 1..CommitLen(p)
    BY <1>1 DEF Iss!Left, CommitLen
  <1>3. Iss!Without(p, kinds) = [i \in 1..(CommitLen(p) - 1 + 1) |-> p[1 + i - 1]]
    BY <1>1, <1>2, WithoutOthers
  <1>4. QED
    BY <1>1, <1>3, CommitsFacts

\* A supported program is one of the matrix, and the other way round.
LEMMA SupportedIsMatrix ==
  ASSUME IssGate, NEW p \in Iss!References
  PROVE  /\ gate = "spike" => (~Iss!SpikeUnsupported(p) <=> Iss!InMatrix(p))
         /\ gate = "sail" => (~Iss!SailUnsupported(p) <=> Iss!InMatrix(p))
  <1>1. Len(p) \in Nat \ {0} /\ p # <<>> /\ \A i \in 1..Len(p) : p[i] \in IssItem
    BY ProgramFacts, IssFacts
  <1>2. 1..Len(p) = 1..(Len(p) - 1) \cup {Len(p)} /\ Len(p) \notin 1..(Len(p) - 1)
    BY <1>1
  <1>3. Iss!InMatrix(p) <=>
          /\ p[Len(p)].kind \in {"ebreak", "wfi"}
          /\ \A i \in 1..(Len(p) - 1) :
               /\ p[i].kind \notin {"ecall", "ebreak"}
               /\ p[i].kind = "low" => gate = "sail" /\ Iss!AllowLow
    BY <1>2 DEF Iss!InMatrix, Iss!Final
  <1>4. QED
    BY <1>1, <1>3, IssFacts DEF Iss!SpikeUnsupported, Iss!SailUnsupported, Iss!IsTrap, Iss!Traps, Iss!Final

LEMMA MatrixFacts ==
  ASSUME IssGate, NEW p \in Iss!References, Iss!InMatrix(p)
  PROVE  /\ p[Len(p)].kind \in {"ebreak", "wfi"}
         /\ \A i \in 1..(Len(p) - 1) : p[i].kind \notin {"ecall", "ebreak"}
         /\ Iss!Without(p, {"ebreak"}) = Iss!Commits(p)
         /\ Iss!Without(p, Iss!Traps) = Iss!Commits(p)
  <1>1. Len(p) \in Nat \ {0}
    BY ProgramFacts
  <1>2. p[Len(p)].kind \in {"ebreak", "wfi"}
    BY DEF Iss!InMatrix, Iss!Final
  <1>3. \A i \in 1..(Len(p) - 1) : p[i].kind \notin {"ecall", "ebreak"}
    BY <1>1 DEF Iss!InMatrix
  <1>4. QED
    BY <1>2, <1>3, CommitsLeft DEF Iss!IsTrap, Iss!Traps

\* A comparison that finds no error has seen the commits of a program of the matrix.
LEMMA AcceptedExecuted ==
  ASSUME IssGate, NEW p \in Iss!References, NEW raw, Len(raw) \in Nat, Iss!Accepts(p, raw)
  PROVE  LET commits == Iss!Without(p, {"ebreak"})
             executed == Iss!Without(raw, {"outside"})
         IN /\ Iss!InMatrix(p)
            /\ Len(executed) >= Len(commits) /\ SubSeq(executed, 1, Len(commits)) = commits
  <1> DEFINE executed == Iss!Without(raw, {"outside"})
             commits == Iss!Commits(p)
  <1>1. /\ CommitLen(p) \in Nat /\ Len(commits) = CommitLen(p)
        /\ commits = [i \in 1..CommitLen(p) |-> p[i]]
    BY CommitsFacts, ProgramFacts
  <1>2. commits \in Seq(IssItem) /\ SubSeq(commits, 1, Len(commits)) = commits
    <2>1. \A i \in 1..CommitLen(p) : p[i] \in IssItem
      BY CommitsFacts, ProgramFacts
    <2>2. QED
      BY <1>1, <2>1
  <1>3. CASE gate = "spike"
    <2>1. Iss!InMatrix(p) /\ executed = commits
      BY <1>3, SupportedIsMatrix DEF Iss!Accepts, Iss!ComparePrefix, Iss!ParseSpikeLog
    <2>2. QED
      BY <1>1, <1>2, <2>1, MatrixFacts
  <1>4. CASE gate = "sail"
    <2>1. Iss!InMatrix(p) /\ Iss!TrimSailTrace(p, executed) = commits
      BY <1>4, SupportedIsMatrix DEF Iss!Accepts, Iss!CompareSailPrefix, Iss!ParseSailTrace
    <2>2. \/ Len(executed) > Len(commits) /\ SubSeq(executed, 1, Len(commits)) = commits
          \/ executed = commits
      BY <2>1 DEF Iss!TrimSailTrace
    <2>3. Iss!Without(p, {"ebreak"}) = commits
      BY <2>1, MatrixFacts
    <2> HIDE DEF executed, commits
    <2>4. Len(executed) >= Len(commits) /\ SubSeq(executed, 1, Len(commits)) = commits
      <3>1. Len(executed) \in Nat
        BY LeftCounts DEF executed
      <3>2. QED
        BY <1>1, <1>2, <2>2, <3>1
    <2>5. QED
      BY <2>1, <2>3, <2>4 DEF executed
  <1>5. QED
    BY <1>3, <1>4, IssFacts

\* A simulator that agrees with the reference, item by item.
Agrees(p) == ~wrong \/ \A i \in 1..Len(p) : p[i].kind # "alu"
LogItem == [kind : {"alu", "low", "ecall", "ebreak", "wfi", "outside"}, value : {0, 1}]

LEMMA SimulatedItem ==
  ASSUME NEW item \in IssItem
  PROVE  /\ Iss!Simulated(item) \in LogItem /\ Iss!Simulated(item).kind = item.kind
         /\ ~wrong \/ item.kind # "alu" => Iss!Simulated(item) = item
  BY DEF IssItem, LogItem, Iss!Simulated

LEMMA SpikeLog ==
  ASSUME IssGate, NEW p \in Iss!References, Iss!InMatrix(p)
  PROVE  LET c == CommitLen(p) IN
         /\ Len(Iss!SpikeWrites(p)) = c + 1 /\ Iss!SpikeWrites(p) \in Seq(LogItem)
         /\ Iss!SpikeWrites(p)[1] = Iss!Outside
         /\ \A i \in 1..c : Iss!SpikeWrites(p)[i + 1] = Iss!Simulated(p[i])
  <1> DEFINE c == CommitLen(p)
             body == [i \in 1..c |-> Iss!Simulated(p[i])]
  <1>1. c \in Nat /\ \A i \in 1..c : p[i] \in IssItem
    BY CommitsFacts, ProgramFacts
  <1>2. Iss!SpikeWrites(p) = <<Iss!Outside>> \o body
    <2>1. \A i \in 1..c : Iss!Commits(p)[i] = p[i]
      BY CommitsFacts
    <2>2. Iss!SpikeWrites(p) = <<Iss!Outside>> \o [i \in 1..c |-> Iss!Simulated(Iss!Commits(p)[i])]
      BY MatrixFacts, CommitsFacts DEF Iss!SpikeWrites
    <2>3. QED
      BY <2>1, <2>2
  <1>3. body \in Seq(LogItem) /\ Len(body) = c
    BY <1>1, SimulatedItem
  <1>4. Iss!Outside \in LogItem
    BY DEF Iss!Outside, LogItem
  <1> HIDE DEF c
  <1>5. <<Iss!Outside>> \in Seq(LogItem) /\ Len(<<Iss!Outside>>) = 1
    BY <1>4
  <1>6. <<Iss!Outside>> \o body \in Seq(LogItem) /\ Len(<<Iss!Outside>> \o body) = c + 1
    BY <1>1, <1>3, <1>5
  <1>7. (<<Iss!Outside>> \o body)[1] = Iss!Outside
    BY <1>1, <1>3, <1>5
  <1>8. \A i \in 1..c : (<<Iss!Outside>> \o body)[i + 1] = Iss!Simulated(p[i])
    BY <1>1, <1>3, <1>5
  <1>9. QED
    BY <1>2, <1>6, <1>7, <1>8 DEF c

LEMMA SailLog ==
  ASSUME IssGate, NEW p \in Iss!References
  PROVE  /\ Len(Iss!SailWrites(p)) = Len(p) + 1 /\ Iss!SailWrites(p) \in Seq(LogItem)
         /\ \A i \in 1..Len(p) : Iss!SailWrites(p)[i] = Iss!Simulated(p[i])
         /\ Iss!SailWrites(p)[Len(p) + 1].kind = IF p[Len(p)].kind = "wfi" THEN "alu" ELSE "outside"
  <1> DEFINE body == [i \in 1..Len(p) |-> Iss!Simulated(p[i])]
             end == IF p[Len(p)].kind = "wfi" THEN [kind |-> "alu", value |-> 0] ELSE Iss!Outside
  <1>1. Len(p) \in Nat /\ \A i \in 1..Len(p) : p[i] \in IssItem
    BY ProgramFacts
  <1>2. Iss!SailWrites(p) = body \o <<end>>
    BY DEF Iss!SailWrites, Iss!Final
  <1>3. body \in Seq(LogItem) /\ Len(body) = Len(p)
    BY <1>1, SimulatedItem
  <1>4. end \in LogItem /\ end.kind = IF p[Len(p)].kind = "wfi" THEN "alu" ELSE "outside"
    BY DEF Iss!Outside, LogItem
  <1>5. \A i \in 1..Len(p) : body[i] = Iss!Simulated(p[i])
    OBVIOUS
  <1> HIDE DEF body, end
  <1>6. body \o <<end>> \in Seq(LogItem) /\ Len(body \o <<end>>) = Len(p) + 1
    BY <1>1, <1>3, <1>4
  <1>7. (body \o <<end>>)[Len(p) + 1] = end
    BY <1>1, <1>3, <1>4
  <1>8. \A i \in 1..Len(p) : (body \o <<end>>)[i] = Iss!Simulated(p[i])
    BY <1>1, <1>3, <1>4, <1>5
  <1>9. QED
    BY <1>2, <1>4, <1>6, <1>7, <1>8

\* What a simulator that agrees leaves on a program of the matrix passes.
LEMMA AgreementAccepted ==
  ASSUME IssGate, NEW p \in Iss!References, Iss!InMatrix(p), Agrees(p)
  PROVE  Iss!Accepts(p, Iss!Writes(p)) /\ Iss!Writes(p) # Iss!NoLog
  <1> DEFINE c == CommitLen(p)
             W == Iss!Writes(p)
  <1>1. /\ c \in {Len(p) - 1, Len(p)} /\ c \in 0..Len(p) /\ Len(p) \in Nat \ {0}
        /\ Iss!Commits(p) = [i \in 1..c |-> p[i]] /\ Len(Iss!Commits(p)) = c
    BY CommitsFacts, ProgramFacts
  <1>2. \A i \in 1..Len(p) : Iss!Simulated(p[i]) = p[i] /\ p[i].kind \notin {"outside", "none"}
    <2>1. SUFFICES ASSUME NEW i \in 1..Len(p)
                   PROVE  Iss!Simulated(p[i]) = p[i] /\ p[i].kind \notin {"outside", "none"}
      OBVIOUS
    <2>2. p[i] \in IssItem /\ (~wrong \/ p[i].kind # "alu")
      BY ProgramFacts DEF Agrees
    <2>3. p[i].kind \notin {"outside", "none"}
      BY <2>2 DEF IssItem
    <2>4. QED
      BY <2>2, <2>3, SimulatedItem
  <1>3. CASE gate = "spike"
    <2>1. W = Iss!SpikeWrites(p)
      BY <1>3 DEF Iss!Writes
    <2>2. /\ Len(W) = c + 1 /\ W[1].kind = "outside"
          /\ \A i \in 1..c : W[i + 1] = p[i]
      BY <1>1, <1>2, <2>1, SpikeLog DEF Iss!Outside
    <2> HIDE DEF W, c
    <2>3. Iss!Left(W, {"outside"}) = 2..(c + 1)
      <3>1. ASSUME NEW i \in 2..(c + 1) PROVE W[i].kind # "outside"
        <4>1. i - 1 \in 1..c /\ i - 1 \in 1..Len(p) /\ i = (i - 1) + 1
          BY <1>1
        <4>2. W[(i - 1) + 1] = p[i - 1]
          BY <2>2, <4>1
        <4>3. QED
          BY <1>2, <4>1, <4>2
      <3>2. 1..(c + 1) = {1} \cup 2..(c + 1) /\ 1 \notin 2..(c + 1)
        BY <1>1
      <3>3. QED
        BY <2>2, <3>1, <3>2 DEF Iss!Left
    <2>4. Iss!Without(W, {"outside"}) = [i \in 1..((c + 1) - 2 + 1) |-> W[2 + i - 1]]
      <3>1. 2 \in Nat \ {0} /\ c + 1 \in Nat /\ 2 <= c + 1 + 1
        BY <1>1
      <3>2. QED
        BY <2>3, <3>1, WithoutOthers
    <2>5. \A i \in 1..c : 2 + i - 1 = i + 1
      BY <1>1
    <2>6. (c + 1) - 2 + 1 = c
      BY <1>1
    <2>7. Iss!Without(W, {"outside"}) = Iss!Commits(p)
      BY <1>1, <2>2, <2>4, <2>5, <2>6
    <2>8. Iss!Accepts(p, W)
      BY <1>3, <2>7, SupportedIsMatrix DEF Iss!Accepts, Iss!ComparePrefix, Iss!ParseSpikeLog
    <2>9. W # Iss!NoLog
      BY <2>2 DEF Iss!NoLog
    <2>10. QED
      BY <2>8, <2>9 DEF W
  <1>4. CASE gate = "sail"
    <2> DEFINE wfi == p[Len(p)].kind = "wfi"
               n == IF wfi THEN Len(p) + 1 ELSE Len(p)
    <2>1. W = Iss!SailWrites(p)
      BY <1>4 DEF Iss!Writes
    <2>2. /\ Len(W) = Len(p) + 1 /\ W \in Seq(LogItem)
          /\ W[Len(p) + 1].kind = IF wfi THEN "alu" ELSE "outside"
          /\ \A i \in 1..Len(p) : W[i] = p[i]
      BY <1>2, <2>1, SailLog
    <2>3. /\ c = IF wfi THEN Len(p) ELSE Len(p) - 1
          /\ ~wfi => p[Len(p)].kind = "ebreak"
      BY <1>1, MatrixFacts DEF CommitLen, Iss!IsTrap, Iss!Traps
    <2> HIDE DEF W, c
    <2>4. Iss!Left(W, {"outside"}) = 1..n
      <3>1. \A i \in 1..Len(p) : W[i].kind # "outside"
        BY <1>2, <2>2
      <3>2. 1..(Len(p) + 1) = 1..Len(p) \cup {Len(p) + 1} /\ Len(p) + 1 \notin 1..Len(p)
        BY <1>1
      <3>3. QED
        BY <1>1, <2>2, <3>1, <3>2 DEF Iss!Left
    <2>5. Iss!Without(W, {"outside"}) = [i \in 1..(n - 1 + 1) |-> W[1 + i - 1]]
      <3>1. 1 \in Nat \ {0} /\ n \in Nat /\ 1 <= n + 1
        BY <1>1
      <3> HIDE DEF n
      <3>2. QED
        BY <2>4, <3>1, WithoutOthers
    <2>6. n - 1 + 1 = n /\ n \in Nat /\ n = c + 1 /\ \A i \in 1..n : 1 + i - 1 = i
      BY <1>1, <2>3
    <2> HIDE DEF n
    <2> DEFINE executed == Iss!Without(W, {"outside"})
    <2>7. executed = [i \in 1..n |-> W[i]]
      BY <2>5, <2>6
    <2>8. executed \in Seq(LogItem) /\ Len(executed) = n
      <3>1. \A i \in 1..n : W[i] \in LogItem
        BY <1>1, <2>2, <2>3, <2>6
      <3>2. QED
        BY <2>6, <2>7, <3>1
    <2> HIDE DEF executed
    <2>9. SubSeq(executed, 1, c) = Iss!Commits(p)
      <3>1. SubSeq(executed, 1, c) = [i \in 1..c |-> executed[i]]
        BY <1>1, <2>6, <2>8
      <3>2. \A i \in 1..c : executed[i] = p[i]
        BY <1>1, <2>2, <2>6, <2>7
      <3>3. QED
        BY <1>1, <3>1, <3>2
    <2>10. Iss!TrimSailTrace(p, executed) = SubSeq(executed, 1, c)
      <3>1. Len(executed) > c
        BY <1>1, <2>6, <2>8
      <3>2. ~wfi => executed[c + 1] = p[Len(p)]
        BY <1>1, <2>2, <2>3, <2>6, <2>7
      <3>3. Iss!IsTrap(p[Len(p)]) => ~wfi
        BY DEF Iss!IsTrap, Iss!Traps
      <3>4. p[Len(p)].kind \in {"ebreak", "ecall", "wfi"}
        BY MatrixFacts
      <3>5. QED
        BY <1>1, <3>1, <3>2, <3>3, <3>4 DEF Iss!TrimSailTrace, Iss!Final
    <2>11. Iss!Accepts(p, W)
      BY <1>4, <2>9, <2>10, SupportedIsMatrix
         DEF Iss!Accepts, Iss!CompareSailPrefix, Iss!ParseSailTrace, executed
    <2>12. W # Iss!NoLog
      BY <1>1, <1>2, <2>2 DEF Iss!NoLog
    <2>13. QED
      BY <2>11, <2>12 DEF W
  <1>5. QED
    BY <1>3, <1>4, IssFacts

-----------------------------------------------------------------------------
\* What the script knows of the artifact in work.
Logs == Seq(LogItem) \cup {Iss!NoLog}
Working == {"build", "launch", "run", "parse"}

IssTypes ==
  /\ log \in [Iss!Names -> Logs]
  /\ did \in [Iss!Names -> [program : Iss!References \cup {Iss!NoProgram}, wrote : Logs]]

\* The artifact in work is the one read, and one of the matrix where only those are run.
ReadOnce ==
  ipc \in Working =>
    /\ did[name].program = words
    /\ gate = "spike" => Iss!InMatrix(words)

\* The log of artifact n was written in this run, if the simulator opened it.
OwnLog(n) == gate = "spike" \/ did[n].wrote # Iss!NoLog => log[n] = did[n].wrote

\* Spike's old log is gone before it starts; Sail is started once on each artifact.
FreshLog ==
  /\ ipc = "run" /\ gate = "spike" => log[name] = Iss!NoLog
  /\ ipc = "parse" => OwnLog(name)
  /\ gate = "sail" => \A n \in itodo : (ipc = "parse" /\ n = name) \/ did[n].wrote = Iss!NoLog

Attempts ==
  /\ ipc \in {"idle", "next", "build"} => attempt = 0
  /\ ipc = "launch" => attempt \in 0..1
  /\ ipc = "run" => attempt \in 1..2

Undecided == \A n \in itodo : iresults[n] = Iss!Unrun

IssInv ==
  /\ IssGate /\ Iss!TypeOK /\ IssTypes
  /\ ReadOnce /\ FreshLog /\ Attempts /\ Undecided
  /\ Iss!PassIsOfThisRun /\ Iss!NotSilentlyPassed

\* What a pass says of artifact n.
Earned(n) ==
  LET commits == Iss!Without(did[n].program, {"ebreak"})
      executed == Iss!Without(log[n], {"outside"})
  IN /\ Iss!InMatrix(did[n].program) /\ OwnLog(n)
     /\ Len(executed) >= Len(commits) /\ SubSeq(executed, 1, Len(commits)) = commits

ReportComplete == ireport.coverage = "complete" => \A n \in Iss!Names : ireport.results[n] # "skip"

LEMMA PassesEarned ==
  Iss!PassIsOfThisRun /\ Iss!NotSilentlyPassed
    <=> (\A n \in Iss!Names : iresults[n] = "pass" => Earned(n)) /\ ReportComplete
  BY DEF Iss!PassIsOfThisRun, Iss!NotSilentlyPassed, Earned, OwnLog, ReportComplete

\* Whatever is left alone keeps what a pass says.
LEMMA EarnedStays ==
  ASSUME gate' = gate, NEW n, did'[n] = did[n], log'[n] = log[n], Earned(n) PROVE Earned(n)'
  BY DEF Earned, OwnLog, Iss!InMatrix, Iss!Final, Iss!AllowLow

LEMMA IssFirst == ASSUME IssGate, Iss!Init PROVE IssInv
  <1>1. /\ hex \in [Iss!Names -> Iss!References] /\ wrong \in BOOLEAN
        /\ log = [n \in Iss!Names |-> Iss!NoLog] /\ did = [n \in Iss!Names |-> Iss!Untried]
        /\ iresults = [n \in Iss!Names |-> Iss!Unrun]
        /\ ipc = "idle" /\ itodo = {} /\ words = Iss!NoProgram /\ attempt = 0
        /\ name = CHOOSE n \in Iss!Names : TRUE
        /\ ireport = Iss!NoReport
    BY DEF Iss!Init
  <1>2. name \in Iss!Names
    BY <1>1, IssFacts
  <1>3. Iss!TypeOK
    BY <1>1, <1>2 DEF Iss!TypeOK
  <1>4. IssTypes
    BY <1>1 DEF IssTypes, Iss!Untried, Logs
  <1>5. Iss!PassIsOfThisRun /\ Iss!NotSilentlyPassed
    BY <1>1, PassesEarned DEF ReportComplete, Iss!Unrun, Iss!NoReport
  <1>6. QED
    BY <1>1, <1>3, <1>4, <1>5 DEF IssInv, ReadOnce, FreshLog, Attempts, Undecided, Working

\* What a step leaves as it was.
LEMMA SameInvocation ==
  ASSUME gate' = gate
  PROVE  /\ Iss!Names' = Iss!Names /\ Iss!References' = Iss!References /\ IssGate' = IssGate
         /\ Iss!NoProgram' = Iss!NoProgram /\ Iss!NoLog' = Iss!NoLog
  BY DEF Iss!Names, Iss!References, IssGate, IssInvocations

\* What is left to show of a step that keeps the types.
LEMMA StepKeeps ==
  ASSUME IssInv, gate' = gate, Iss!TypeOK', IssTypes', ReadOnce', FreshLog', Attempts', Undecided',
         \A n \in Iss!Names : iresults'[n] = "pass" =>
           Earned(n)' \/ (iresults[n] = "pass" /\ did'[n] = did[n] /\ log'[n] = log[n]),
         ReportComplete'
  PROVE  IssInv'
  <1>1. \A n \in Iss!Names : iresults[n] = "pass" => Earned(n)
    BY PassesEarned DEF IssInv
  <1>2. \A n \in Iss!Names : iresults'[n] = "pass" => Earned(n)'
    BY <1>1, EarnedStays
  <1>3. Iss!PassIsOfThisRun' /\ Iss!NotSilentlyPassed'
    <2>1. (\A n \in Iss!Names : iresults[n] = "pass" => Earned(n))'
      BY <1>2, SameInvocation
    <2>2. QED
      BY <2>1, PassesEarned, PTL
  <1>4. QED
    BY <1>3, SameInvocation DEF IssInv

\* The types, one variable at a time.
LEMMA TypesOf ==
  IssInv =>
    /\ hex \in [Iss!Names -> Iss!References \cup {Iss!NoProgram}] /\ wrong \in BOOLEAN
    /\ ipc \in {"idle", "next", "build", "launch", "run", "parse"}
    /\ itodo \subseteq Iss!Names /\ name \in Iss!Names
    /\ words \in Iss!References \cup {Iss!NoProgram}
    /\ iresults \in [Iss!Names -> Iss!Statuses \cup {Iss!Unrun}]
    /\ ipc \in {"idle", "next"} <=> words = Iss!NoProgram
    /\ ipc \notin {"idle", "next"} => name \in itodo
    /\ log \in [Iss!Names -> Logs]
    /\ did \in [Iss!Names -> [program : Iss!References \cup {Iss!NoProgram}, wrote : Logs]]
  BY DEF IssInv, Iss!TypeOK, IssTypes

LEMMA StartKeeps == ASSUME IssInv, Iss!Start, gate' = gate PROVE IssInv'
  <1>1. /\ ipc = "idle" /\ ipc' = "next" /\ itodo' \subseteq Iss!Names
        /\ iresults' = [n \in Iss!Names |-> Iss!Unrun] /\ did' = [n \in Iss!Names |-> Iss!Untried]
        /\ UNCHANGED <<hex, log, wrong, name, words, attempt, ireport>>
    BY DEF Iss!Start
  <1>2. Iss!TypeOK' /\ IssTypes'
    <2>1. attempt' \in 0..2
      BY <1>1 DEF IssInv, Iss!TypeOK
    <2>2. Iss!Untried \in [program : Iss!References \cup {Iss!NoProgram}, wrote : Logs]
      BY DEF Iss!Untried, Logs
    <2>3. IssTypes'
      BY <1>1, <2>2, TypesOf, SameInvocation DEF IssTypes, Logs
    <2>4. Iss!TypeOK'
      BY <1>1, <2>1, TypesOf, SameInvocation DEF Iss!TypeOK
    <2>5. QED
      BY <2>3, <2>4
  <1>3. ReadOnce' /\ FreshLog' /\ Attempts'
    BY <1>1 DEF IssInv, ReadOnce, FreshLog, Attempts, Working, Iss!Untried
  <1>4. Undecided' /\ \A n \in Iss!Names : iresults'[n] # "pass"
    BY <1>1 DEF Undecided, Iss!Unrun
  <1>5. ReportComplete'
    BY <1>1, PassesEarned, SameInvocation DEF IssInv, ReportComplete
  <1>6. QED
    BY <1>2, <1>3, <1>4, <1>5, StepKeeps

\* An artifact that gets its result, whatever it is, leaves the script between artifacts.
LEMMA EndsKeeps ==
  ASSUME IssInv, NEW n \in itodo, NEW status \in Iss!Statuses, Iss!Ends(n, status),
         status = "pass" => Earned(n)', IssTypes', ipc = "parse" => n = name,
         \A m \in Iss!Names \ {n} : did'[m] = did[m] /\ log'[m] = log[m],
         UNCHANGED <<gate, hex, wrong, ireport>>, name' \in Iss!Names
  PROVE  IssInv'
  <1>1. /\ iresults' = [iresults EXCEPT ![n] = status] /\ itodo' = itodo \ {n}
        /\ words' = Iss!NoProgram /\ attempt' = 0 /\ ipc' = "next"
    BY DEF Iss!Ends
  <1>2. Iss!TypeOK'
    BY <1>1, TypesOf, SameInvocation DEF Iss!TypeOK
  <1>3. ReadOnce' /\ Attempts'
    BY <1>1 DEF ReadOnce, Attempts, Working
  <1>3a. FreshLog'
    BY <1>1, TypesOf, SameInvocation DEF IssInv, FreshLog
  <1>4. Undecided'
    BY <1>1, TypesOf DEF IssInv, Undecided, Iss!Unrun
  <1>5. \A m \in Iss!Names : iresults'[m] = "pass" =>
          Earned(m)' \/ (iresults[m] = "pass" /\ did'[m] = did[m] /\ log'[m] = log[m])
    BY <1>1, TypesOf
  <1>6. ReportComplete'
    BY PassesEarned, SameInvocation DEF IssInv, ReportComplete
  <1>7. QED
    BY <1>2, <1>3, <1>4, <1>5, <1>6, <1>3a, StepKeeps

LEMMA ReadKeeps ==
  ASSUME IssInv, NEW n \in Iss!Names, Iss!ReadArtifact(n), gate' = gate PROVE IssInv'
  <1>1. /\ ipc = "next" /\ n \in itodo /\ name' = n
        /\ did' = [did EXCEPT ![n].program = hex[n]]
        /\ UNCHANGED <<hex, log, wrong, ireport>>
    BY DEF Iss!ReadArtifact
  <1>2. /\ IssTypes' /\ \A m \in Iss!Names \ {n} : did'[m] = did[m]
        /\ did'[n].program = hex[n] /\ did'[n].wrote = did[n].wrote
    BY <1>1, TypesOf, SameInvocation DEF IssTypes, Logs
  <1>3. ASSUME NEW status \in {"fail", "skip"}, Iss!Ends(n, status) PROVE IssInv'
    BY <1>1, <1>2, <1>3, EndsKeeps DEF Iss!Statuses
  <1>4. CASE /\ hex[n] # Iss!NoProgram /\ ~(Iss!AllCompatible /\ Iss!Unsupported(hex[n]))
             /\ words' = hex[n] /\ ipc' = "build" /\ UNCHANGED <<itodo, attempt, iresults>>
    <2>1. hex[n] \in Iss!References /\ attempt = 0
      BY <1>1, <1>4, TypesOf DEF IssInv, Attempts
    <2>2. Iss!TypeOK'
      BY <1>1, <1>4, <2>1, TypesOf, SameInvocation DEF Iss!TypeOK
    <2>3. gate = "spike" => Iss!InMatrix(hex[n])
      BY <1>4, <2>1, IssFacts, SupportedIsMatrix DEF IssInv, Iss!Unsupported
    <2>4. ReadOnce'
      <3>1. gate = "spike" => Iss!InMatrix(hex[n])'
        BY <1>1, <2>3 DEF Iss!InMatrix, Iss!Final, Iss!AllowLow
      <3>2. words' = hex'[n] /\ name' = n /\ did'[name'].program = words'
        BY <1>1, <1>2, <1>4
      <3>3. QED
        BY <1>1, <3>1, <3>2 DEF ReadOnce, Iss!InMatrix, Iss!Final, Iss!AllowLow
    <2>5. Attempts' /\ Undecided'
      BY <1>4, <2>1 DEF IssInv, Attempts, Undecided, Iss!Unrun
    <2>9. FreshLog'
      BY <1>1, <1>2, <1>4, TypesOf, SameInvocation DEF IssInv, FreshLog
    <2>6. \A m \in Iss!Names : iresults'[m] = "pass" =>
            iresults[m] = "pass" /\ did'[m] = did[m] /\ log'[m] = log[m]
      BY <1>1, <1>2, <1>4 DEF IssInv, Undecided, Iss!Unrun
    <2>7. ReportComplete'
      BY <1>1, PassesEarned, SameInvocation DEF IssInv, ReportComplete
    <2>8. QED
      BY <1>2, <2>2, <2>4, <2>5, <2>6, <2>7, <2>9, StepKeeps
  <1>5. QED
    BY <1>3, <1>4 DEF Iss!ReadArtifact

LEMMA BuildKeeps == ASSUME IssInv, NEW ok \in BOOLEAN, Iss!BuildElf(ok), gate' = gate PROVE IssInv'
  <1>1. ipc = "build" /\ UNCHANGED <<hex, log, wrong, name, did, ireport>>
    BY DEF Iss!BuildElf
  <1>2. IssTypes' /\ name \in itodo
    BY <1>1, TypesOf, SameInvocation DEF IssTypes, Logs
  <1>3. CASE ~ok
    BY <1>1, <1>2, <1>3, TypesOf, EndsKeeps DEF Iss!BuildElf, Iss!Statuses
  <1>4. CASE ok
    <2>1. ipc' = "launch" /\ UNCHANGED <<itodo, words, attempt, iresults>>
      BY <1>4 DEF Iss!BuildElf
    <2>2. Iss!TypeOK'
      <3>1. attempt' \in 0..2
        BY <2>1 DEF IssInv, Iss!TypeOK
      <3>2. QED
        BY <1>1, <2>1, <3>1, TypesOf, SameInvocation DEF Iss!TypeOK
    <2>3. ReadOnce'
      BY <1>1, <2>1 DEF IssInv, ReadOnce, Working, Iss!InMatrix, Iss!Final, Iss!AllowLow
    <2>4. FreshLog' /\ Attempts' /\ Undecided'
      BY <1>1, <2>1 DEF IssInv, FreshLog, Attempts, Undecided, Iss!Unrun
    <2>5. ReportComplete'
      BY <1>1, PassesEarned, SameInvocation DEF IssInv, ReportComplete
    <2>6. QED
      BY <1>1, <1>2, <2>1, <2>2, <2>3, <2>4, <2>5, StepKeeps
  <1>5. QED
    BY <1>3, <1>4

\* A step within the work on an artifact, which leaves the results alone.
LEMMA WorkKeeps ==
  ASSUME IssInv, gate' = gate, ipc \in Working, ipc' \in Working,
         UNCHANGED <<hex, wrong, itodo, name, words, iresults, ireport>>,
         attempt' \in 0..2, IssTypes',
         \A m \in Iss!Names \ {name} : did'[m] = did[m] /\ log'[m] = log[m],
         did'[name].program = did[name].program, FreshLog', Attempts'
  PROVE  IssInv'
  <1>1. Iss!TypeOK'
    BY TypesOf, SameInvocation DEF Iss!TypeOK, Working
  <1>2. ReadOnce'
    BY DEF IssInv, ReadOnce, Iss!InMatrix, Iss!Final, Iss!AllowLow
  <1>3. Undecided' /\ name \in itodo
    BY TypesOf DEF IssInv, Undecided, Iss!Unrun, Working
  <1>4. \A m \in Iss!Names : iresults'[m] = "pass" =>
          iresults[m] = "pass" /\ did'[m] = did[m] /\ log'[m] = log[m]
    BY <1>3 DEF IssInv, Undecided, Iss!Unrun
  <1>5. ReportComplete'
    BY PassesEarned, SameInvocation DEF IssInv, ReportComplete
  <1>6. QED
    BY <1>1, <1>2, <1>3, <1>4, <1>5, StepKeeps

LEMMA LaunchKeeps ==
  ASSUME IssInv, Iss!LaunchSpike \/ Iss!LaunchSail, gate' = gate PROVE IssInv'
  <1>1. /\ ipc = "launch" /\ ipc' = "run" /\ attempt' = attempt + 1
        /\ UNCHANGED <<hex, wrong, itodo, name, words, iresults, did, ireport>>
    BY DEF Iss!LaunchSpike, Iss!LaunchSail
  <1>2. attempt \in 0..1 /\ name \in Iss!Names
    BY <1>1, TypesOf DEF IssInv, Attempts
  <1>3. /\ log' \in [Iss!Names -> Logs] /\ (gate = "spike" => log'[name] = Iss!NoLog)
        /\ \A m \in Iss!Names \ {name} : log'[m] = log[m]
    BY <1>2, TypesOf DEF Iss!LaunchSpike, Iss!LaunchSail, Logs
  <1>4. IssTypes'
    BY <1>1, <1>3, TypesOf, SameInvocation DEF IssTypes, Logs
  <1>5. FreshLog'
    BY <1>1, <1>3, SameInvocation DEF IssInv, FreshLog
  <1>6. Attempts' /\ attempt' \in 0..2
    BY <1>1, <1>2 DEF Attempts
  <1>7. QED
    BY <1>1, <1>3, <1>4, <1>5, <1>6, WorkKeeps DEF Working

\* What the simulator leaves when it ends.
LEMMA LeavesLog ==
  ASSUME IssInv, ipc = "run", NEW t, Iss!Leaves(t), gate' = gate
  PROVE  /\ IssTypes' /\ \A m \in Iss!Names \ {name} : did'[m] = did[m] /\ log'[m] = log[m]
         /\ did'[name].program = did[name].program
         /\ log'[name] = did'[name].wrote \/ UNCHANGED <<log, did>>
  <1> DEFINE all == Iss!Writes(words)
  <1>1. all \in Seq(LogItem) /\ name \in Iss!Names
    <2>1. words \in Iss!References /\ (gate = "spike" => Iss!InMatrix(words)) /\ IssGate
      BY TypesOf DEF IssInv, ReadOnce, Working
    <2>2. QED
      BY <2>1, SpikeLog, SailLog, IssFacts, TypesOf DEF Iss!Writes
  <1> HIDE DEF all
  <1>2. \/ \E k \in 0..Len(all) :
             /\ log' = [log EXCEPT ![name] = SubSeq(all, 1, k)]
             /\ did' = [did EXCEPT ![name].wrote = SubSeq(all, 1, k)]
        \/ UNCHANGED <<log, did>>
    <2>1. Len(all) \in 0..Len(all)
      BY <1>1
    <2>2. QED
      BY <2>1 DEF Iss!Leaves, all
  <1>3. ASSUME NEW k \in 0..Len(all), log' = [log EXCEPT ![name] = SubSeq(all, 1, k)],
               did' = [did EXCEPT ![name].wrote = SubSeq(all, 1, k)]
        PROVE  /\ IssTypes' /\ \A m \in Iss!Names \ {name} : did'[m] = did[m] /\ log'[m] = log[m]
               /\ did'[name].program = did[name].program /\ log'[name] = did'[name].wrote
    <2>1. SubSeq(all, 1, k) \in Logs
      BY <1>1, SubSeqProperties DEF Logs
    <2>2. did' \in [Iss!Names -> [program : Iss!References \cup {Iss!NoProgram}, wrote : Logs]]
      BY <1>3, <2>1, TypesOf
    <2>3. log' \in [Iss!Names -> Logs]
      BY <1>3, <2>1, TypesOf
    <2>4. IssTypes'
      BY <2>2, <2>3, SameInvocation DEF IssTypes, Logs
    <2>5. QED
      BY <1>1, <1>3, <2>4, TypesOf
  <1>4. CASE UNCHANGED <<log, did>>
    <2>1. IssTypes'
      BY <1>4, TypesOf, SameInvocation DEF IssTypes, Logs
    <2>2. QED
      BY <1>4, <2>1
  <1>5. QED
    BY <1>2, <1>3, <1>4

LEMMA SpikeKeeps ==
  ASSUME IssInv, NEW t \in BOOLEAN, Iss!SpikeEnds(t), gate' = gate PROVE IssInv'
  <1>1. /\ gate = "spike" /\ ipc = "run" /\ Iss!Leaves(t) /\ attempt \in 1..2
        /\ UNCHANGED <<hex, wrong, name, ireport>>
    BY DEF Iss!SpikeEnds, IssInv, Attempts
  <1>2. /\ IssTypes' /\ \A m \in Iss!Names \ {name} : did'[m] = did[m] /\ log'[m] = log[m]
        /\ did'[name].program = did[name].program /\ name \in itodo /\ name' \in Iss!Names
    BY <1>1, LeavesLog, TypesOf
  <1>3. log'[name] # Iss!NoLog => log'[name] = did'[name].wrote
    BY <1>1, LeavesLog DEF IssInv, FreshLog
  <1>4. CASE log'[name] \notin {Iss!NoLog, <<>>} /\ ipc' = "parse" /\ UNCHANGED <<itodo, words, attempt, iresults>>
    <2>1. FreshLog' /\ Attempts' /\ attempt' \in 0..2
      BY <1>1, <1>3, <1>4, SameInvocation DEF FreshLog, OwnLog, Attempts
    <2>2. QED
      BY <1>1, <1>2, <1>4, <2>1, WorkKeeps DEF Working
  <1>5. CASE attempt = 1 /\ ipc' = "launch" /\ UNCHANGED <<itodo, words, attempt, iresults>>
    <2>1. FreshLog' /\ Attempts' /\ attempt' \in 0..2
      BY <1>1, <1>5 DEF FreshLog, Attempts
    <2>2. QED
      BY <1>1, <1>2, <1>5, <2>1, WorkKeeps DEF Working
  <1>6. CASE Iss!Ends(name, "fail")
    BY <1>1, <1>2, <1>6, EndsKeeps DEF Iss!Statuses
  <1>7. QED
    BY <1>4, <1>5, <1>6 DEF Iss!SpikeEnds

LEMMA SailKeeps ==
  ASSUME IssInv, NEW t \in BOOLEAN, Iss!SailEnds(t), gate' = gate PROVE IssInv'
  <1>1. /\ gate = "sail" /\ ipc = "run" /\ Iss!Leaves(t) /\ ipc' = "parse" /\ attempt \in 1..2
        /\ UNCHANGED <<hex, wrong, itodo, name, words, attempt, iresults, ireport>>
    BY DEF Iss!SailEnds, IssInv, Attempts
  <1>2. /\ IssTypes' /\ \A m \in Iss!Names \ {name} : did'[m] = did[m] /\ log'[m] = log[m]
        /\ did'[name].program = did[name].program
    BY <1>1, LeavesLog
  <1>3. FreshLog' /\ Attempts' /\ attempt' \in 0..2
    <2>1. name \in itodo /\ itodo \subseteq Iss!Names
      BY <1>1, TypesOf
    <2>2. \A n \in itodo : did[n].wrote = Iss!NoLog
      BY <1>1 DEF IssInv, FreshLog
    <2>3. OwnLog(name)'
      BY <1>1, <2>1, <2>2, LeavesLog, SameInvocation DEF OwnLog
    <2>4. QED
      BY <1>1, <1>2, <2>1, <2>2, <2>3, SameInvocation DEF FreshLog, Attempts
  <1>4. QED
    BY <1>1, <1>2, <1>3, WorkKeeps DEF Working

\* A log that is compared has a length.
LEMMA ParsedLog ==
  ASSUME IssInv, ipc = "parse"
  PROVE  /\ name \in itodo /\ name \in Iss!Names /\ words \in Iss!References
         /\ did[name].program = words /\ OwnLog(name)
         /\ log[name] # Iss!NoLog => log[name] \in Seq(LogItem)
         /\ iresults[name] = Iss!Unrun
  BY TypesOf DEF IssInv, ReadOnce, FreshLog, Working, Undecided, Logs

LEMMA CompareKeeps == ASSUME IssInv, Iss!Compare, gate' = gate PROVE IssInv'
  <1>1. ipc = "parse" /\ UNCHANGED <<hex, log, wrong, name, did, ireport>>
    BY DEF Iss!Compare
  <1>2. /\ name \in itodo /\ name \in Iss!Names /\ words \in Iss!References
        /\ did[name].program = words /\ OwnLog(name)
        /\ log[name] # Iss!NoLog => log[name] \in Seq(LogItem)
    BY <1>1, ParsedLog
  <1>3. IssTypes'
    BY <1>1, TypesOf, SameInvocation DEF IssTypes, Logs
  <1>4. ASSUME log[name] # Iss!NoLog, Iss!Accepts(words, log[name]) PROVE Earned(name)'
    <2>1. Len(log[name]) \in Nat /\ IssGate
      BY <1>2, <1>4 DEF IssInv
    <2>2. Earned(name)
      BY <1>2, <1>4, <2>1, AcceptedExecuted DEF Earned
    <2>3. QED
      BY <1>1, <1>2, <2>2, SameInvocation DEF Earned, OwnLog, Iss!InMatrix, Iss!Final, Iss!AllowLow
  <1>5. PICK status \in {"pass", "fail"} :
          /\ Iss!Ends(name, status)
          /\ status = "pass" => log[name] # Iss!NoLog /\ Iss!Accepts(words, log[name])
    BY DEF Iss!Compare
  <1>6. QED
    BY <1>1, <1>2, <1>3, <1>4, <1>5, EndsKeeps DEF Iss!Statuses

LEMMA FinishKeeps == ASSUME IssInv, Iss!Finish, gate' = gate PROVE IssInv'
  <1>1. /\ ipc = "next" /\ ipc' = "idle"
        /\ ireport' = [status |-> IF \E n \in Iss!Names : iresults[n] = "fail" THEN "fail" ELSE "pass",
                       coverage |-> IF \E n \in Iss!Names : iresults[n] = "skip" THEN "partial" ELSE "complete",
                       results |-> iresults]
        /\ UNCHANGED <<hex, log, wrong, itodo, name, words, attempt, iresults, did>>
    BY DEF Iss!Finish
  <1>2. Iss!TypeOK'
    <2>1. attempt' \in 0..2
      BY <1>1 DEF IssInv, Iss!TypeOK
    <2>2. QED
      BY <1>1, <2>1, TypesOf, SameInvocation DEF Iss!TypeOK
  <1>3. IssTypes' /\ Undecided'
    BY <1>1, TypesOf, SameInvocation DEF IssInv, IssTypes, Logs, Undecided, Iss!Unrun
  <1>4. ReadOnce' /\ FreshLog' /\ Attempts'
    BY <1>1 DEF IssInv, ReadOnce, FreshLog, Attempts, Working
  <1>5. ReportComplete'
    BY <1>1, SameInvocation DEF ReportComplete
  <1>6. QED
    BY <1>1, <1>2, <1>3, <1>4, <1>5, StepKeeps

LEMMA KillKeeps == ASSUME IssInv, Iss!Kill, gate' = gate PROVE IssInv'
  <1>1. /\ ipc' = "idle" /\ itodo' = {} /\ words' = Iss!NoProgram /\ attempt' = 0
        /\ UNCHANGED <<hex, log, wrong, name, iresults, did, ireport>>
    BY DEF Iss!Kill
  <1>2. Iss!TypeOK'
    BY <1>1, TypesOf, SameInvocation DEF Iss!TypeOK
  <1>3. IssTypes'
    BY <1>1, TypesOf, SameInvocation DEF IssTypes, Logs
  <1>4. ReadOnce' /\ FreshLog' /\ Attempts' /\ Undecided'
    BY <1>1 DEF ReadOnce, FreshLog, Attempts, Working, Undecided
  <1>5. ReportComplete'
    BY <1>1, PassesEarned, SameInvocation DEF IssInv, ReportComplete
  <1>6. QED
    BY <1>1, <1>2, <1>3, <1>4, <1>5, StepKeeps

LEMMA RegenerateKeeps ==
  ASSUME IssInv, NEW n \in Iss!Names, Iss!Regenerate(n), gate' = gate PROVE IssInv'
  <1>1. UNCHANGED <<log, wrong, ipc, itodo, name, words, attempt, iresults, did, ireport>>
    BY DEF Iss!Regenerate, Iss!script
  <1>2. Iss!TypeOK'
    <2>1. attempt' \in 0..2
      BY <1>1 DEF IssInv, Iss!TypeOK
    <2>2. hex' \in [Iss!Names -> Iss!References \cup {Iss!NoProgram}]
      BY TypesOf DEF Iss!Regenerate
    <2>3. QED
      BY <1>1, <2>1, <2>2, TypesOf, SameInvocation DEF Iss!TypeOK
  <1>3. IssTypes' /\ Undecided'
    BY <1>1, TypesOf, SameInvocation DEF IssInv, IssTypes, Logs, Undecided, Iss!Unrun
  <1>4. ReadOnce' /\ Attempts'
    BY <1>1, SameInvocation DEF IssInv, ReadOnce, Attempts, Iss!InMatrix, Iss!Final, Iss!AllowLow
  <1>4a. FreshLog'
    BY <1>1, SameInvocation DEF IssInv, FreshLog, OwnLog
  <1>5. ReportComplete'
    BY <1>1, PassesEarned, SameInvocation DEF IssInv, ReportComplete
  <1>6. QED
    BY <1>1, <1>2, <1>3, <1>4, <1>4a, <1>5, StepKeeps

LEMMA IssKeeps == ASSUME IssInv, Iss!Next PROVE IssInv'
  <1>1. gate' = gate
    BY DEF Iss!Next
  <1>2. QED
    BY <1>1, StartKeeps, ReadKeeps, BuildKeeps, LaunchKeeps, SpikeKeeps, SailKeeps, CompareKeeps,
       FinishKeeps, KillKeeps, RegenerateKeeps DEF Iss!Next, Iss!Step

\* A comparison that fails has a reason.
LEMMA FailureHasReason ==
  ASSUME IssInv, Iss!Next PROVE Iss!FailureExplained
  <1>1. SUFFICES ASSUME ipc = "parse", iresults'[name] = "fail", Iss!InMatrix(words),
                        did[name].wrote = Iss!Writes(words)
                 PROVE  wrong /\ \E i \in 1..Len(words) : words[i].kind = "alu"
    BY DEF Iss!FailureExplained
  <1>2. iresults[name] # "fail"
    BY <1>1, ParsedLog DEF Iss!Unrun
  <1>3. Iss!Compare
    BY <1>1, <1>2 DEF Iss!Next, Iss!Step, Iss!Start, Iss!ReadArtifact, Iss!BuildElf, Iss!LaunchSpike,
       Iss!LaunchSail, Iss!SpikeEnds, Iss!SailEnds, Iss!Finish, Iss!Kill, Iss!Regenerate, Iss!script
  <1>4. SUFFICES ASSUME Agrees(words) PROVE FALSE
    BY DEF Agrees
  <1>5. Iss!Accepts(words, log[name]) /\ log[name] # Iss!NoLog
    <2>1. Iss!Writes(words) # Iss!NoLog
      BY <1>1, <1>4, ParsedLog, AgreementAccepted DEF IssInv
    <2>2. log[name] = Iss!Writes(words)
      BY <1>1, <2>1, ParsedLog DEF OwnLog
    <2>3. QED
      BY <1>1, <1>4, <2>1, <2>2, ParsedLog, AgreementAccepted DEF IssInv
  <1>6. iresults'[name] = "pass"
    <2>1. iresults' = [iresults EXCEPT ![name] = "pass"]
      BY <1>3, <1>5 DEF Iss!Compare, Iss!Ends
    <2>2. QED
      BY <1>1, <2>1, ParsedLog, TypesOf
  <1>7. QED
    BY <1>1, <1>6

IssHolds == IssGate => IssInv

\* An artifact passes only on a log with the reference's effects, which the simulator wrote
\* in this run unless it is a Sail that never opened its trace; none outside the matrix
\* passes, and a comparison fails for a reason, for any artifacts and programs.
THEOREM LogsCompared == MCSpec => IssCompared
  <1> DEFINE Held == IssGate => Iss!TypeOK /\ Iss!PassIsOfThisRun /\ Iss!NotSilentlyPassed
             Reasons == IssGate => Iss!FailureExplained
  <1>1. MCInit => IssHolds
    <2>1. ASSUME MCInit, IssGate PROVE Iss!Init
      BY <2>1 DEF MCInit, IssGate, IssInvocations
    <2>2. QED
      BY <2>1, IssFirst DEF IssHolds
  <1>2. IssHolds /\ [MCNext]_<<gate, vars, issVars, gateVars>> => IssHolds'
    <2>1. ASSUME IssHolds, MCNext PROVE IssHolds'
      <3>1. gate' = gate
        BY <2>1 DEF MCNext, Iss!Next
      <3>2. CASE IssGate
        <4>1. Iss!Next
          BY <2>1, <3>2 DEF MCNext, IssGate, IssInvocations
        <4>2. QED
          BY <2>1, <3>2, <4>1, IssKeeps DEF IssHolds
      <3>3. IssGate' => IssGate
        BY <3>1 DEF IssGate, IssInvocations
      <3>4. QED
        BY <3>2, <3>3 DEF IssHolds
    <2>2. ASSUME IssHolds, UNCHANGED <<gate, vars, issVars, gateVars>> PROVE IssHolds'
      <3>1. UNCHANGED <<gate, issVars>>
        BY <2>2
      <3>2. SUFFICES ASSUME IssInv PROVE IssInv'
        BY <2>2, <3>1, SameInvocation DEF IssHolds
      <3>3. Iss!TypeOK'
        BY <3>1, <3>2, SameInvocation DEF IssInv, Iss!TypeOK, issVars
      <3>4. IssTypes'
        BY <3>1, <3>2, TypesOf, SameInvocation DEF IssTypes, Logs, issVars
      <3>4a. FreshLog'
        BY <3>1, <3>2, SameInvocation DEF IssInv, FreshLog, OwnLog, issVars
      <3>5. ReadOnce' /\ Attempts' /\ Undecided'
        BY <3>1, <3>2, SameInvocation DEF IssInv, ReadOnce, Attempts, Undecided, Iss!Unrun,
           Iss!InMatrix, Iss!Final, Iss!AllowLow, issVars
      <3>6. ReportComplete'
        BY <3>1, <3>2, PassesEarned, SameInvocation DEF IssInv, ReportComplete, issVars
      <3>7. QED
        BY <3>1, <3>2, <3>3, <3>4, <3>4a, <3>5, <3>6, StepKeeps DEF issVars
    <2>3. QED
      BY <2>1, <2>2
  <1>3. IssHolds => Held
    BY DEF IssHolds, IssInv
  <1>4. IssHolds /\ [MCNext]_<<gate, vars, issVars, gateVars>> => [Reasons]_issVars
    <2>1. SUFFICES ASSUME IssHolds, MCNext, issVars' # issVars, IssGate PROVE Iss!FailureExplained
      BY DEF issVars
    <2>2. Iss!Next
      BY <2>1 DEF MCNext, IssGate, IssInvocations
    <2>3. QED
      BY <2>1, <2>2, FailureHasReason DEF IssHolds
  <1> HIDE DEF Held, Reasons
  <1>5. MCSpec => []Held /\ [][Reasons]_issVars
    BY <1>1, <1>2, <1>3, <1>4, PTL DEF MCSpec
  <1>6. QED
    BY <1>5 DEF IssCompared, Held, Reasons
=============================================================================
