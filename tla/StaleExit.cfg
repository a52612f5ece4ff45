SPECIFICATION Spec
CONSTANTS
    Clients = {c1, c2, c3, c4}
    None = None
INVARIANT OneLiveHolder
