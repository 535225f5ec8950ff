SPECIFICATION Spec
CONSTANTS
  Ressources <- R
  Produit <- Produits
  Portee <- LesPortees
  Severite <- Gravites
  Echeance <- Exceptions
  SondesAudit <- AuditSepare
  SondesReleve <- Releve
  ZonesAudit <- Zones
  MaxJours = 2
INVARIANTS TypeOK ResoluFonde DisparueFondee NiveauFonde
PROPERTY JamaisEnSilence
