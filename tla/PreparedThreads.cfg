SPECIFICATION Spec
CONSTANTS
    Threads = {t1, t2}
    Geometries <- MCGeometries
    Targets <- TwoTargets
    Tests <- TwoTests
    Relation <- RelationTable
    NULL = NULL
INVARIANTS
    PreparedAgrees
