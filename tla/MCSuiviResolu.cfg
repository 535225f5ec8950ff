SPECIFICATION Spec
CONSTANTS
  Ressources <- R
  Produit <- Produits
  Portee <- LesPortees
  Severite <- Gravites
  Echeance <- Exceptions
  SondesAudit <- AuditMele
  SondesReleve <- Releve
  ZonesAudit <- Zones
  MaxJours = 2
INVARIANT ResoluFonde
