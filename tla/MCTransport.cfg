SPECIFICATION FairSpec
CONSTANTS
  MAX_REESSAIS = 3
  ATTENTES <- MCAttentes
  ATTENTE_MAX = 30
  Politiques = {"never", "limited", "safe"}
  Statuts <- MCStatuts
  RetryAfters <- MCRetryAfters
INVARIANTS
  IInv
  AuPlusUneFois
  ActionJamaisRejouee
  BoucleBornee
PROPERTIES
  AppelTermine
  RespecteLeContrat
