SPECIFICATION DSpec
CONSTANT KeysOf <- MCKeysOf
CONSTANT Enter = "enter"
CONSTANT QueueCap = 1
CONSTANT MaxInputs = 1
CONSTANT Backends = {"wayland"}
CONSTANT Sizes = {0, 1}
CONSTANT DefaultSize = 3
CONSTANT MaxEvents = 1
CONSTANT Devices <- MCDevices
CHECK_DEADLOCK FALSE
INVARIANT AttachAfterConfigure
