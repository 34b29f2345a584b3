SPECIFICATION Spec
CONSTANTS
    User = {u1, u2, u3, u4}
    Request = {p1}
    Command = {p1}
    Targets = {1}
    Null = Null
SYMMETRY Symmetry
PROPERTIES
    ActiveAdminIsKept
