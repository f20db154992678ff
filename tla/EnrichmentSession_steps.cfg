SPECIFICATION SessionSpec
CONSTANT MaxTroubles = 1
INVARIANT StepsIndependent
CHECK_DEADLOCK FALSE
