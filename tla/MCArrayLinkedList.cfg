CONSTANT MaxLinks = 4
SPECIFICATION Spec
INVARIANTS
    LinkCheckExact
    IterationVisitsAll
PROPERTIES
    ImplementsOrderedList
