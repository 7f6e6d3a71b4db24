SPECIFICATION MCSpec
CHECK_DEADLOCK FALSE
CONSTANTS
  Procs = {p1, p2}
  Trees = {t1, t2}
  Tags = {v1}
  Variants = 3
  MaxRuns = 3
  MaxMoves = 1
  Last = 3
  SmokeLast = 2
  Quiet = TRUE
  CampaignRuns = 3
  CampaignMoves = 2
  AuditedGaps = {"external_iss", "riscv_dv", "rvfi_riscv_formal", "full_axi4", "ci_regression", "certified_benchmarks", "compliance_signature_gate"}
PROPERTIES ReleaseSafe SignoffEarned GapsAgree
