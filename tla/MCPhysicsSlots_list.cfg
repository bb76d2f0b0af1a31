SPECIFICATION Spec
CONSTANT Slots = 3
CONSTANT Masses = {0, 1, 7}
CONSTANT Generations = 3
CONSTANT MaxHeld = 3
CHECK_DEADLOCK FALSE
INVARIANT NextSlotIsEmpty
