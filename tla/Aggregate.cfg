SPECIFICATION Spec
CONSTANTS
    Inputs <- MCInputs
    Accepts <- MCAccepts
    Aggs <- MCAggs
    HashXor <- MCXor
INVARIANT GroupsExact EachCountedOnce
CHECK_DEADLOCK FALSE
