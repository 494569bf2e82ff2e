SPECIFICATION Spec
CONSTANTS
  Mons = {m1, m2}
  None = None
  NBoxes = 2
  NSlots = 2
  NPcSlots = 1
  MaxDeletions = 2
  MaxMishaps = 2
  Swaps = FALSE
SYMMETRY MonSymmetry
INVARIANTS TypeOK NoMonLost ExactWhenSmooth
