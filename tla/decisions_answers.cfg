SPECIFICATION Spec
CONSTANTS
  d1 = d1
  d2 = d2
  d3 = d3
  p1 = p1
  p2 = p2
  p3 = p3
  yes = yes
  no = no
  None = None
  Decision = {d1, d2}
  Proc = {p1, p2, p3}
  Choice = {yes, no}
  Options <- TwoOrders
  MaxAnswers = 2
  MaxFaults = 1
  MaxCrashes = 1
SYMMETRY Symmetry
CHECK_DEADLOCK FALSE
INVARIANTS TypeOK ConfirmedOnRecord PageTellsAnswer RedirectsLeadForward
PROPERTIES KeepsPromise
