SPECIFICATION Spec
CONSTANTS
    M0 = M0
    Main = Main
    None = None
    M = {M0, m1}
    G = {Main, g1}
    Workers = {}
INVARIANTS
    SingleOwner
    ParkHandshake
    LockedStaysHome
PROPERTY
    LostOnlyThere
