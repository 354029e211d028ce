CONSTANTS
    ActionLists <- MCLists
    MaxInstrs = 2
    NoKey = NoKey
    Garbage = Garbage
SPECIFICATION Spec
INVARIANTS SetFieldsAsListed
