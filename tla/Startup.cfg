CONSTANTS
    i1 = i1  i2 = i2  i3 = i3
    Instances <- Three
    Migrating <- Two
SPECIFICATION Spec
SYMMETRY Symmetry
INVARIANTS TypeOK AppliedInOrder WorksOnFullSchema
