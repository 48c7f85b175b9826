SPECIFICATION Spec
CONSTANTS
  l1 = l1
  l2 = l2
  l3 = l3
  candidate = candidate
  production = production
  Launches = {l1, l2, l3}
  NoLaunch = NoLaunch
  Homes = {candidate, production}
  home <- MixedHome
  Candidates = {candidate}
  Gated = {l1, l2}
  MaxBoots = 2
  MaxCrashes = 2
  MaxResumes = 1
  MaxFaults = 1
SYMMETRY Symmetry
INVARIANTS LaunchInv OneContainer Reachable
PROPERTY ClaimsReconciled
CHECK_DEADLOCK FALSE
