SPECIFICATION SwitchSpec
CONSTANTS
  Project = {base, a, b}
  Default = base
  Name = {n1, n2}
  NoFile = NoFile
  MaxProjects = 2
  MaxVersion = 1
  MaxWrites = 2
  Session = {s1}
  Request = {r1, r2}
INVARIANTS DiskInv OnlySelectedWorks EveryoneJoined
PROPERTIES CheckpointsForward
SYMMETRY Names
CONSTRAINT Bounded
