\* Three copies of part3.c, while root loads and unloads the module.
SPECIFICATION Spec
CONSTANT Program = {p1, p2, p3}
SYMMETRY ProgramSymmetry
INVARIANTS TypeOK StartsAt40 UpdatedIs17
