CONSTANTS
    e = e  f = f  t = t
    Key = {e, f, t}  Slab = {1, 2}  SlabOf <- InSlabs
    Kind = {"entry", "other"}  None = None
    Batch = 2  MaxValues = 3  MaxChanges = 1
SPECIFICATION PSpec
INVARIANTS PTypeOK RepliesInStep ListsAllOwed ShowsOwedKinds
PROPERTIES ColdOwesNothing RefreshEnds
