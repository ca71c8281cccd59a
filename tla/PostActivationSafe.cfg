SPECIFICATION FairSpec
CONSTANTS
  Clusters <- MCClusters
  Reach <- MCReach
  Late <- MCLate
  Msa <- MCMsa
  MaxFaults = 2
INVARIANT AnnotationsInPlace
INVARIANT RepairedUnlessMissed
PROPERTY OneCompactor
PROPERTY EventuallyVerifiedOrAbandoned
CHECK_DEADLOCK FALSE
