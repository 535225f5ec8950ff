SPECIFICATION Spec
CONSTANTS
  Runs <- Deux
INVARIANTS
  IInv
  DeboutVerrouille
PROPERTIES
  RetourFidele
