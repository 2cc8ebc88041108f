CONSTANTS
  Users = {"ann", "bob"}
  Callers = {c1, c2}
  MaxLive = 1
  MaxBoxes = 3
SPECIFICATION Spec
INVARIANTS NothingForgotten PoolIsKept
PROPERTIES ImplementsEntry PoolMovesOn
