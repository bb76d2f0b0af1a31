SPECIFICATION DFairSpec
CONSTANT KeysOf <- MCKeysOf
CONSTANT Enter = "enter"
CONSTANT QueueCap = 1
CONSTANT MaxInputs = 3
CONSTANT Backends = {"wayland", "x11"}
CONSTANT Sizes = {0, 1}
CONSTANT DefaultSize = 3
CONSTANT MaxEvents = 2
CONSTANT Devices <- MCDevices
CHECK_DEADLOCK FALSE
INVARIANT NoStuckKey
INVARIANT SizeIsLatest
INVARIANT OneConstraint
INVARIANT FrameBuffersLive
INVARIANT TeardownIsClean
PROPERTY PointerGivenBack
PROPERTY PingIsAnswered
