SPECIFICATION MCSpec
CHECK_DEADLOCK FALSE
CONSTANTS
  Repos = {r1, r2}
  Branches = {b1}
  Commits = {c1, c2}
  MaxMoves = 1
  Profiles = {"smoke", "ci-evidence"}
  SmokeProfile = "smoke"
  DispatchProfiles <- MCProfiles
  BeforeLimit = 1
  FindLimit = 1
  EvidenceLimit = 2
  AppearPolls = 1
  RunPolls = 1
  DispatchRuns = 3
  EvidenceRuns = 2
SYMMETRY Symmetry
INVARIANTS PublicationTrue DispatchIsTrue EvidenceIsTrue
PROPERTIES WritesBounded TriggersAreFollowed
