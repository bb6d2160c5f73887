SPECIFICATION Spec
CONSTANTS
    Threads = {t1}
    Geometries <- MCGeometries
    Targets <- MCTargets
    Tests <- MCTests
    Relation <- RelationTable
    NULL = NULL
INVARIANTS
    PreparedAgrees
