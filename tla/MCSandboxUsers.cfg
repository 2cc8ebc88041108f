CONSTANTS
  Boxes = {b1, b2}
  Threads = {"t1", "t2"}
  Candidate <- MCApart
  Callers = {c1, c2}
SPECIFICATION Spec
SYMMETRY Symmetry
INVARIANTS RunsWhereKnown 
