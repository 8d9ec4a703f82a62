CONSTANTS
  w1 = w1
  w2 = w2
  n1 = n1
  n2 = n2
  n3 = n3
  clean1 = clean1
  clean2 = clean2
  malware = malware
  Workers <- WorkerPair
  Names <- NameTriple
  Bodies <- BodySet
  Infected <- InfectedSet
  DrawsCollide = FALSE
SPECIFICATION Spec
INVARIANTS TypeOK ShownAsJudged NameStaysClaimed
PROPERTIES LeftoversUntouched NothingLeftBehind GateSpec
SYMMETRY PairSymmetry
