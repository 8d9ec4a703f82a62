CONSTANTS
  w1 = w1
  w2 = w2
  n1 = n1
  n2 = n2
  clean = clean
  malware = malware
  h1 = h1
  h2 = h2
  Workers <- TwoWorkers
  Names <- TwoNames
  Bodies <- BodySet
  Infected <- InfectedSet
  DrawsCollide = FALSE
  Hosts <- OneHost
  MaxFd = 4
  MaxRequests = 2
SPECIFICATION Spec
INVARIANTS TypeOK SocketsOwned SocketsClosedAtEnd MemoryReturned
PROPERTIES FilesSpec
SYMMETRY TwoSymmetry
