\* Every balancer and middleware on pools of up to three backends.
CONSTANTS
  Targets = {1, 2, 3}
  Profiles <- SomeProfiles
  Names = {"", "a"}
  SniMatches <- SomeMatches
  Hashes <- SomeHashes
  MaxTurns = 4
SPECIFICATION Spec
INVARIANTS WeightByRFC OrderIrrelevant Iphash1Stable PassedAsConfigured CircularIfAlike
