\* Three CPUs allow a kind to be split in two by a registration that also
\* brings new CPUs, and two adjacent kinds to vanish in one restrict().
CONSTANTS
  c1 = c1
  c2 = c2
  c3 = c3
  i1 = i1
  CPUs <- MCCPUs
  Infos <- MCInfos
  Efficiencies = {0}
  Unknown = Unknown
  MaxRegs = 3
SPECIFICATION Spec
INVARIANTS
  KindsPartition
  InfosPerCpu
  DupFreesOwnCopies
