CONSTANTS
    Slots = 2
    Remotes = {1, 2}
    Ports = {22, 80}
    Port = 22
    MaxChanges = 1
    MaxForeign = 1
SPECIFICATION Spec
INVARIANTS SessionsFound
