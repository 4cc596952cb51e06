SPECIFICATION Spec
CONSTANT MaxDocs = 5
INVARIANTS TypeOK ComponentsExact ShallowTrees FirstOfEachKept
CHECK_DEADLOCK FALSE
