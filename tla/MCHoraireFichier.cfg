SPECIFICATION Spec
CONSTANTS
  Machines <- Deux
  Compte <- UnCompte
  Source <- Zones
  Servies <- LesDeux
  Reseau = "reseau"
  Configs <- ParFichier
  MaxJeux = 2
  MaxChangements = 1
INVARIANTS
  ServiPourLui
