SPECIFICATION FairSpec
CONSTANTS
    N = 2
    Workers = {w1}
    Conditions <- MCHung
    Health = Health
    NULL = NULL
PROPERTIES HungDropped
