CONSTANTS
    Release = {r1, r2}
    Path = {p1, p2}
    Job = {j1, j2, j3}
    None = none
SPECIFICATION Spec
SYMMETRY Symmetry
PROPERTIES CatalogNeverResurrects NamingKeepsBinding
CHECK_DEADLOCK FALSE
