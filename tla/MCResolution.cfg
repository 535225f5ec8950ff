SPECIFICATION ResolutionSpec
CONSTANTS
  Elements = {e1, e2, e3, e4}
  PerPage = 2
  MaxPages = 3
  Tailles = {1, 2, 3}
  Exces = {0, 1}
  Proches = {"voulu-2"}
  Lointains = {"autre"}
  MaxActes = 1
SYMMETRY Symetrie
INVARIANTS
  ResolutionTypeOK
  ListeComplete
  ErreurFondee
  NomResolu
