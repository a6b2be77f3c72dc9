CONSTANT MaxMessages = 2
SPECIFICATION ProxySpec
INVARIANT OnlyBinaryTunneled
CHECK_DEADLOCK FALSE
