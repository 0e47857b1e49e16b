\* Two writers and a reader; an inode for the file, each temporary file and the reader.
CONSTANTS
    p1 = p1
    p2 = p2
    r1 = r1
    v1 = v1
    v2 = v2
    None = None
    i1 = i1
    i2 = i2
    i3 = i3
    i4 = i4
    Procs <- MCProcs
    Readers <- MCReaders
    Values <- MCValues
    Inodes <- MCInodes

SPECIFICATION WriteSpec

SYMMETRY SymInodes

INVARIANTS
    ReadersSeeWhole

PROPERTIES
    ImplementsReplace
