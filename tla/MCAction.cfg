SPECIFICATION FairSpec
CONSTANTS
  Actions <- MCActions
  Etats <- MCEtats
  Aucun = Aucun
  Vise <- MCVise
  Chemin <- MCChemin
  Acceptes <- MCAcceptes
  Departs <- MCDeparts
  DelaisDemandes = {0, 1, 3}
  DELAI_PAR_DEFAUT = 5
  INTERVALLE = 1
  LectureMax = 4
  LecturesMuettes = FALSE
INVARIANTS
  AttenteFidele
  ChangedExact
  AttenteBornee
  IInv
PROPERTIES
  ModuleTermine
  RespecteLaPromesse
