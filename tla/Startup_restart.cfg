CONSTANTS
    i1 = i1  i2 = i2  i3 = i3
    Instances <- One
    Migrating <- One
SPECIFICATION FairSpec
PROPERTIES ComesBack
