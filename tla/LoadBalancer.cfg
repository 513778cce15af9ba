SPECIFICATION FairSpec
CONSTANTS
    N = 3
    Workers = {w1}
    Conditions <- MCConditions
    Health = Health
    NULL = NULL
INVARIANTS LockOwned PickCorrect NoDescriptorLeak
PROPERTIES AnsweredOrBroken RotationAtomic OneUpSuffices HealthConverges NoStarvation ConnectionEnds
