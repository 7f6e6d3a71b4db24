SPECIFICATION MCSpec
CHECK_DEADLOCK FALSE
CONSTANTS
  Seeds <- MCSeeds
  Files = {1}
  Programs = {"clean", "mnemonic", "register", "endless", "differs"}
  SpikeNames = {"a", "b"}
  SpikePrograms <- MCFewPrograms
  SailNames = {"a"}
  SailPrograms <- MCPrograms
  N = 2
  Sigs = {s1, s2}
  Kinds = {"plain", "broken"}
  MaxRuns = 2
  MaxEdits = 1
PROPERTIES CampaignCompared IssCompared ComplianceIsTrue
