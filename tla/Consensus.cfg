SPECIFICATION Spec
CONSTANTS
    Nodes = {n1, n2, n3, n4}
    Faulty = {n4}
    Queries = {q1, q2}
    MaxStrikes = 2
    MaxHeight = 1
INVARIANTS
    StrikesBounded
PROPERTIES
    ResultIsRegular
    NoFraming
SYMMETRY Symmetry
