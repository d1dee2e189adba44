SPECIFICATION Spec
INVARIANTS TransportsKeepMessages
PROPERTIES ConnectorsAreServed BridgesDeliver
CHECK_DEADLOCK FALSE
