SPECIFICATION FairSpec
CONSTANTS
  N = 2
  Baristas = {1, 2}
  Arrivals = {0, 1}
  Tolerances = {0, 2}
  Times = {1, 2}
INVARIANTS EachOrderSettledOnce NoWasteWithSlack
PROPERTIES AllSettled
