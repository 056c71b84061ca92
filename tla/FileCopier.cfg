CONSTANTS
    Copy = {c1, c2}
    Path = {f1, f2, f3}
    Absent = Absent
    Zero = Zero
    MaxSize = 2
SPECIFICATION Spec
INVARIANTS
    CopyIsExact
    ExistingFilesKept
    MappingsBacked
    NoForeignBlocks
