SPECIFICATION Spec
CONSTANTS
    Blocks = {b1, b2, b3, b4}
    NoBlock = NoBlock
    u1 = u1
    u2 = u2
    Unmounters = {u1, u2}
    MayUnmount <- OwnLetters
    Users = {t1}
    NUM_OF_PARTS = 3
INVARIANTS
    TypeOK
    LetterOnce
    MountedIsLive
    DeletesOnce
PROPERTIES
    MountReplacesNothing
CHECK_DEADLOCK FALSE
