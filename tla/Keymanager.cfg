SPECIFICATION Spec
CONSTANTS
    k1 = k1
    k2 = k2
    k3 = k3
    good = good
    other = other
    bad = bad
    fee = fee
    x = x
    Keys = {k1, k2, k3}
    Urls = {good, other, bad}
    BadUrls = {bad}
    Settings = {fee}
    Values = {x}
    NoRow = NoRow
    NoSigner = NoSigner
    NoValue = NoValue
    MaxGeneration = 2
SYMMETRY Symmetric
INVARIANTS
    OneSignerPerUrl
    OverridesInEffect
PROPERTIES
    ImplementsKeyStore
    DeletedKeysAreNotSigned
CHECK_DEADLOCK FALSE
