\* Two processes share the tuning file and plan by what they measured.
SPECIFICATION Spec
CONSTANTS
  None = None
  NoFile = NoFile
  Torn = Torn
  s1 = s1
  s2 = s2
  here = here
  elsewhere = elsewhere
  gemm = gemm
  attention = attention
  Savers = {s1, s2}
  ProcessOf <- MCProcessOf
  Keys <- MCKeys
  Medians = {6}
  Earlier <- MCEarlier
  MaxRecords = 2
  Backends <- MCBackends
  Operations = {gemm, attention}
  Rank <- MCRank
  Offers <- MCOffers
  UnmeasuredUs = 4
  DefaultTransitionUs = 3
  RankPenaltyUs = 1
  Transitions <- MCTransitions
  Here = here
  MaxChanges = 1
  Workloads <- MCWorkloads
SYMMETRY MCSymmetry
INVARIANTS
  LoadsAreWhole
  StoreSurvives
  PlanIsOptimal
  PlannerAgreesWithRouter
  RouteWasRight
PROPERTIES
  LookupTellsWhatCounts
