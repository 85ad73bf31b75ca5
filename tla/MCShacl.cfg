CONSTANTS
    PreResolved <- MCPreResolved
    Queries <- MCQueries
    Stores <- MCStores
    ShapesGraphs <- MCShapesGraphs
SPECIFICATION Spec
INVARIANTS NestedAgrees RefusalExact BatchingInvisible ReportReadsBack
CHECK_DEADLOCK FALSE
