------------------------------ MODULE OpenGaps ------------------------------
(***************************************************************************)
(* scripts/open_gap_audit.py over what the tree and the reports under      *)
(* result/ say, with the two reports it relies on that are computed from   *)
(* other reports: scripts/external_iss_full_report.py and                  *)
(* scripts/run_riscv_dv.py.  A fact is one thing an audit looks up: a file *)
(* or target that is there, a report that passes, a field of it with the   *)
(* wanted value.  Producers replace their own facts at any time.           *)
(***************************************************************************)
EXTENDS FiniteSets

CONSTANT AuditedGaps   \* the gaps of this instance, a subset of DOMAIN Rules

VARIABLES
  gap,     \* the gap that is looked at
  facts    \* what holds in the tree and the reports
vars == <<gap, facts>>

Flag(f) == {{}, {f}}

\* Without tool_availability.json some tools are looked up on the path.
Tools(capabilities, onPath) ==
  onPath \cup {{"tool_audit"} \cup c : c \in SUBSET capabilities}

\* The sets of facts that one run of each producer can leave for the gap.  A matrix is
\* complete when it passes without skipped artifacts; "names" says that an RTL matrix
\* and the matrix of the simulator hold the same artifacts.
ExternalIssProducers ==
  {Tools({"spike_available", "sail_available"}, Flag("spike_available")),
   Flag("spike_smoke"), Flag("spike_matrix"), Flag("spike_strict"),
   {{}, {"sail_matrix"}, {"sail_matrix", "sail_matrix_complete"}},
   {{}, {"spike_highmem"}, {"spike_highmem", "spike_highmem_complete"}},
   {{}, {"sail_highmem"}, {"sail_highmem", "sail_highmem_complete"}},
   {{}, {"rtl_matrix"}, {"rtl_matrix", "sail_names"}},
   {{}, {"spike_highmem_rtl"}, {"spike_highmem_rtl", "spike_highmem_names"}},
   {{}, {"sail_highmem_rtl"}, {"sail_highmem_rtl", "sail_highmem_names"}}}

\* The rules of a gap: "closed" is what closes it, "listed" is what an entry of
\* "missing" asks for whatever else holds, and <<f, needed>> of "listedIf" is asked
\* for when f holds.
ExternalIss ==
  [producers |-> ExternalIssProducers,
   closed |-> {"external_full"},
   listed |-> {"tool_audit", "spike_available", "sail_available", "spike_smoke", "spike_matrix",
               "sail_matrix", "sail_matrix_complete", "spike_strict", "spike_highmem",
               "spike_highmem_complete", "spike_highmem_rtl", "sail_highmem",
               "sail_highmem_complete", "sail_highmem_rtl", "external_full"},
   listedIf |-> {}]

RiscvDv ==
  [producers |-> {Tools({"riscv_dv_available", "riscv_dv_in_devshell"}, Flag("riscv_dv_available")),
                  Flag("riscv_dv_on_path"), Flag("dv_config"), Flag("dv_target")},
   closed |-> {"riscv_dv_available", "riscv_dv_in_devshell", "dv_config", "dv_target",
               "dv_report", "dv_pass"},
   listed |-> {"tool_audit", "riscv_dv_available", "riscv_dv_in_devshell", "dv_config",
               "dv_target", "dv_report"},
   listedIf |-> {<<"dv_report", "dv_clean">>, <<"dv_report", "dv_trace">>,
                 <<"dv_report", "dv_pass">>}]

RvfiProducers ==
  {Tools({"riscv_formal_available", "symbiyosys_available"}, {{}}),
   Flag("local_formal"), Flag("rvfi_lite"), Flag("rvfi_lite_target"), Flag("rvfi_target"),
   Flag("rvfi_lite_file"), Flag("wrapper"), Flag("cfgs"), Flag("fault_cfg"),
   {{}, {"rvfi_report"}} \cup
     {{"rvfi_report", "rvfi_pass"} \cup s : s \in SUBSET {"groups", "none_disabled"}}}

RvfiListed == {"tool_audit", "local_formal", "rvfi_lite", "rvfi_lite_file", "wrapper", "cfgs",
               "rvfi_lite_target", "rvfi_target", "riscv_formal_available"}

RvfiListedIf == {<<"rvfi_target", "rvfi_report">>, <<"rvfi_report", "rvfi_pass">>,
                 <<"rvfi_pass", "groups">>, <<"rvfi_pass", "none_disabled">>}

RvfiClosed == {"local_formal", "rvfi_lite", "rvfi_target", "rvfi_lite_target", "wrapper", "cfgs",
               "fault_cfg", "riscv_formal_available", "symbiyosys_available", "rvfi_pass",
               "groups", "none_disabled"}

RvfiRiscvFormal == [producers |-> RvfiProducers, closed |-> RvfiClosed, listed |-> RvfiListed,
                    listedIf |-> RvfiListedIf]

FullAxi4 ==
  LET documented == {"axi_lite_doc", "full_axi4_doc", "subset_doc"}
  IN  [producers |-> {Flag(d) : d \in documented}, closed |-> documented, listed |-> documented,
       listedIf |-> {}]

\* The required profiles stand or fall together; without a passing remote report, or
\* with one of another head, something is listed in any case.
CiRegression ==
  LET needed == {"workflow_jobs", "remote_pass", "expected_is_head", "run_is_head"}
  IN  [producers |-> {Flag("workflow_jobs"),
                      Flag("remote_report") \cup
                        {{"remote_report", "remote_pass"} \cup s :
                           s \in SUBSET {"expected_is_head", "run_is_head"}}},
       closed |-> needed, listed |-> needed, listedIf |-> {}]

\* A test is recorded when it was compiled, and run_compliance.py passes only when all
\* of them match.  The directory of the tests and the record of them share one entry.
Compliance ==
  [producers |-> {Flag("target"), Flag("build_script"), Flag("runner"), Flag("sail_runner"),
                  Flag("env"), Flag("tests_dir"), Flag("sail_report"),
                  {{}, {"tests"}, {"tests", "cross_check"},
                   {"report_pass", "all_match", "tests", "cross_check"}}},
   closed |-> {"report_pass", "all_match", "sail_report", "cross_check", "tests"},
   listed |-> {"target", "build_script", "runner", "sail_runner", "env", "tests_dir", "tests",
               "report_pass", "sail_report", "cross_check"},
   listedIf |-> {<<"report_pass", "all_match">>}]

CertifiedBenchmarks ==
  LET needed == {"score_pass", "non_certified", "docs_say_so"}
  IN  [producers |-> {{{}} \cup {{"non_certified"} \cup s : s \in Flag("score_pass")},
                      Flag("docs_say_so")},
       closed |-> needed, listed |-> needed, listedIf |-> {}]

Rules == [external_iss |-> ExternalIss, riscv_dv |-> RiscvDv,
          rvfi_riscv_formal |-> RvfiRiscvFormal, full_axi4 |-> FullAxi4,
          ci_regression |-> CiRegression, certified_benchmarks |-> CertifiedBenchmarks,
          compliance_signature_gate |-> Compliance]

Closed(g, F) == Rules[g].closed \subseteq F

Missing(g, F) ==
  (Rules[g].listed \ F) \cup {w[2] : w \in {v \in Rules[g].listedIf : v[1] \in F /\ v[2] \notin F}}

\* Mutant: a matrix with skipped artifacts counts.
CompositeNeedsPassing ==
  {"rtl_matrix", "sail_matrix", "sail_names", "spike_strict",
   "spike_highmem", "spike_highmem_rtl", "spike_highmem_names",
   "sail_highmem", "sail_highmem_rtl", "sail_highmem_names"}

\* build_report of external_iss_full_report.py: the composite passes.
CompositeNeeds ==
  {"rtl_matrix", "sail_matrix_complete", "sail_names", "spike_strict",
   "spike_highmem_complete", "spike_highmem_rtl", "spike_highmem_names",
   "sail_highmem_complete", "sail_highmem_rtl", "sail_highmem_names"}

\* main of run_riscv_dv.py: what its report says when the generator, the compiler with
\* the reference model and the RTL comparison have gone well or not.  Without a
\* configuration its status is "fail", which the audit does not count as a report.
DvReport(F, generated, compiled, compared) ==
  LET clean == "riscv_dv_on_path" \in F /\ generated
      trace == clean /\ compiled /\ compared
  IN  IF "dv_config" \notin F THEN {}
      ELSE {"dv_report"} \cup (IF clean THEN {"dv_clean"} ELSE {})
                         \cup (IF trace THEN {"dv_trace", "dv_pass"} ELSE {})
DvFacts == {"dv_report", "dv_clean", "dv_trace", "dv_pass"}

GapsConstants == AuditedGaps \subseteq DOMAIN Rules
-----------------------------------------------------------------------------
Init == gap \in AuditedGaps /\ facts = {}

\* A producer runs again, or a file of the tree changes.
Produce ==
  \E p \in Rules[gap].producers : \E r \in p :
    /\ facts' = (facts \ UNION p) \cup r
    /\ UNCHANGED gap

ComposeExternalIss ==
  /\ gap = "external_iss"
  /\ facts' = IF CompositeNeeds \subseteq facts THEN facts \cup {"external_full"}
              ELSE facts \ {"external_full"}
  /\ UNCHANGED gap

RunRiscvDv ==
  /\ gap = "riscv_dv"
  /\ \E generated, compiled, compared \in BOOLEAN :
       facts' = (facts \ DvFacts) \cup DvReport(facts, generated, compiled, compared)
  /\ UNCHANGED gap

\* The local branch moves on: remote evidence is no longer that of HEAD.
MoveHead ==
  /\ gap = "ci_regression"
  /\ facts' = facts \ {"expected_is_head", "run_is_head"}
  /\ UNCHANGED gap

Next == Produce \/ ComposeExternalIss \/ RunRiscvDv \/ MoveHead

Spec == Init /\ [][Next]_vars

\* A project in order: the composite is computed when nothing else is missing.
OrderlySpec ==
  Init /\ [][Next /\ (ComposeExternalIss => Missing(gap, facts) \subseteq {"external_full"})]_vars
-----------------------------------------------------------------------------
\* Facts that are computed from others, and all facts that somebody produces.
Computed(g) ==
  CASE g = "riscv_dv" -> DvFacts [] g = "external_iss" -> {"external_full"} [] OTHER -> {}
Produced(g) == (UNION {UNION p : p \in Rules[g].producers}) \cup Computed(g)

\* Type invariant: only facts of the gap that is looked at; and every fact that its
\* rules look up is one that somebody produces.
TypeOK ==
  /\ gap \in AuditedGaps
  /\ facts \subseteq Produced(gap)
  /\ Rules[gap].closed \cup Rules[gap].listed \subseteq Produced(gap)

\* doc/open_gaps.md:4: "A gap is closed only when the requirement, implementation, test
\* or property, command, and machine-readable evidence all agree."  A closed gap lists
\* nothing as missing.  Three gaps of the seven are not like that.
ClosedAgrees == Closed(gap, facts) => Missing(gap, facts) = {}

\* Where the rules that close a gap and the rules that list what is missing, which are
\* written separately, have drifted apart: what a gap does not need although it lists it,
\* and what it needs although no entry asks for it.
Unneeded(g) ==
  CASE g = "external_iss" ->
         {"tool_audit", "spike_available", "sail_available", "spike_smoke", "spike_matrix"}
    [] g = "rvfi_riscv_formal" -> {"rvfi_lite_file"}
    [] g = "compliance_signature_gate" ->
         {"target", "build_script", "runner", "sail_runner", "env", "tests_dir"}
    [] OTHER -> {}
Unasked(g) == IF g = "rvfi_riscv_formal" THEN {"fault_cfg", "symbiyosys_available"} ELSE {}

\* They have drifted apart there and nowhere else.  A closed gap lists nothing as missing
\* that closing it should have needed, although the rules look at different fields, some
\* of reports that are computed from others; the external ISS gap excepted, which stays
\* closed when a report its composite was computed from is replaced.  A gap that is not
\* closed lists what it still needs, or needs one of the two facts no entry asks for.
DriftKnown ==
  /\ gap # "external_iss" /\ Closed(gap, facts) => Missing(gap, facts) \subseteq Unneeded(gap)
  /\ ~Closed(gap, facts) /\ Unasked(gap) \subseteq facts => Missing(gap, facts) # {}

\* What external_iss_full_report.py accepts and what open_gap_audit.py lists: when the
\* composite has just been computed, a gap that it closes lists nothing as missing that the
\* composite stands for, neither a matrix nor its completeness.
CompositeEarned ==
  [][ComposeExternalIss /\ Closed(gap, facts)' => (Missing(gap, facts) \subseteq Unneeded(gap))']_vars
=============================================================================
