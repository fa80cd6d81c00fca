\* Three users, one of them logged in and two to be added; two passwords.
CONSTANTS
    root = root
    ann = ann
    bob = bob
    p = p
    q = q
    Names = {root, ann, bob}
    Texts = {p, q}
    Empty = empty
    Nothing = nothing
    LoggedIn = root
SPECIFICATION FairSpec
INVARIANTS TypeOK PromiseKept
PROPERTIES FormForgets AddIsAtomic PromiseFulfilled
