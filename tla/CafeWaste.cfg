SPECIFICATION Spec
CONSTANTS
  N = 2
  Baristas = {2}
  Arrivals = {0, 1}
  Tolerances = {1, 2}
  Times = {1, 2}
INVARIANTS NoWasteIfTolerant
