SPECIFICATION Spec
CONSTANTS
  Calls = {c1, c2}
  Tenants = {t, u}
  Ids = {a, b}
  Contents <- AtMostOne
  Limits = {0, 1}
  MaxDeletes = 1
  MaxQuotas = 1
SYMMETRY Symmetries
CHECK_DEADLOCK FALSE
INVARIANTS ReservationsAddUp WithinQuotaUnlessOvertaken
