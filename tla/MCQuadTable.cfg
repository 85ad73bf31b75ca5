SPECIFICATION Spec
CONSTANTS
    Absent = Absent
    Ids <- MCIds
    Quads <- MCQuads
INVARIANTS
    IndexesExact
    LookupsExact
PROPERTIES
    ImplementsQuadSet
