SPECIFICATION Spec
CONSTANTS
  Executions = {p1}
  Champs <- ChampsPut
  Strategie <- StrategiePut
  References = {"backend_id"}
  Norme <- MCNorme
  Valeurs <- MCValeurs
  Rien = Rien
  Null = Null
  Methode = "PUT"
  Secrets = {"cle"}
  NonVerifies = {}
  Nullables = {"tags"}
  Pose <- MCPose
  MaxTours = 2
INVARIANTS
  IInv
  ChangedExact
  SuccesObserve
  Idempotence
PROPERTIES
  NonDemandesPreserves
