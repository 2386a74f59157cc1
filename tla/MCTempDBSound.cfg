\* Three ids, one lister, five Add/Remove calls: every growth of a small
\* array and every shift of Remove under a reader.
CONSTANTS
    a = a  b = b  c = c
    IDs = {a, b, c}
    Readers = {r1}
    r1 = r1
    Empty = Empty
    Shared = Shared
    MaxOps = 5
\* The DB stops changing after MaxOps calls and the lister after one
\* listing: the final states are real ends of the bounded run.
CHECK_DEADLOCK FALSE
INIT Init
NEXT Next
SYMMETRY MCSymmetry
INVARIANT ListingSound
