SPECIFICATION Spec
CONSTANTS
  Machines <- Deux
  Compte <- UnCompte
  Source <- Zones
  Servies <- LesDeux
  Reseau = "reseau"
  Configs <- ParOption
  MaxJeux = 2
  MaxChangements = 1
INVARIANTS
  TypeOK
  ServiPourLui
  RienSansBesoin
  BilanVrai
PROPERTIES
  JeuTermine
