SPECIFICATION Spec
CONSTANTS
  m1 = m1
  m2 = m2
  m3 = m3
  m4 = m4
  m5 = m5
  Machines = {m1, m2, m3, m4, m5}
  Cibles <- MCCibles
  Lot = 2
  MaxSondages = 1
INVARIANTS
  LotRevenu
