SPECIFICATION Spec
CONSTANTS
  Executions = {p1, p2}
  Champs <- ChampsPatch
  Strategie <- StrategiePatch
  References = {}
  Norme <- MCNorme
  Valeurs <- MCValeurs
  Rien = Rien
  Null = Null
  Methode = "PATCH"
  Secrets = {}
  NonVerifies = {}
  Nullables = {"tags"}
  Pose <- MCPose
  MaxTours = 1
INVARIANTS
  DeuxFacettes
