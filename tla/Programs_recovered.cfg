SPECIFICATION Spec
CONSTANTS
    Variables = {1, 2}
    Setups <- AllSetups
    MaxLosses = 1
INVARIANTS ResultExact InputsComplete
 
CHECK_DEADLOCK FALSE
