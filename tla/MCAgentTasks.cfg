\* Two tasks of one website, of two, or of none.
CONSTANTS
  None = None
  Task = {t1, t2}
  Site = {"site"}
  MaxBatch = 2
  MaxRestarts = 2
SPECIFICATION Spec
SYMMETRY Alike
INVARIANTS OneTaskPerSite NobodyWaitsAtTheDoor LostMeansGone
PROPERTY ImplementsCallOnce
