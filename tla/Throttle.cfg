\* A shared address, a member and a stranger's name; both modes.
SPECIFICATION FairSpec
CONSTANTS
    Modes = {"accounts", "passphrase"}
    Addresses = {podman}
    Offered = {ann, nobody}
    Members = {ann}
    Free <- MCFree
    Cap = 2
    Lockout = 3
    MaxAttempts = 2
    MaxTracked = 3
    Strange = TRUE
    MaxCount = 4
    MaxSlips = 1
    MaxRestarts = 1
INVARIANTS
    Deserved
PROPERTIES
    RightOneGetsIn
