\* A set only an identity group names is never collected.
SPECIFICATION Spec
CONSTANTS
    Scenes <- MCScenes
    Here = "v1"
    MaxLost = 1
    Nobody = ""
    SsidLimit = 2
    Bits = 6
    Widest = 2
    Bucket = 4
    NoSet = NoSet
    NoPool = NoPool
    NoRadius = NoRadius
    NoPolicy = NoPolicy
    NoVlan = 0
    Invalid = Invalid
    SafeKeys = {"passphraseCount"}
    SecretKeys = {"passphraseCount", "loginPassword", "psk"}
    Redacted = "redacted"
    VlanKeys = {"vlanId", "vlanMembers"}
    DpskKeys = {"dpskLength"}
    PassphraseKeys = {"passphrase"}
    BuriedKeys = {"vlanMembers"}
INVARIANT
    ScopeReaches
CHECK_DEADLOCK FALSE
