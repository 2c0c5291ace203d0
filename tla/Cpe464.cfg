SPECIFICATION Spec
CONSTANTS
    Unset = Unset
    NotANumber = NotANumber
    Environments <- MCEnvironments
    Arguments <- MCArguments
    MaxChildren = 2
    MaxTime = 2
    MaxMsgs = 2
INVARIANTS SiblingSeedsDiffer EnvPrecedence FlipListSilences ListedDropped
\* The bounds of the model end it.
CHECK_DEADLOCK FALSE
