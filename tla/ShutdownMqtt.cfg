\* The client of the mqtt package, as outside TEST_MODE.
SPECIFICATION Spec
CONSTANTS
    Clients = {c1}
    Calls = {g1}
    Signals = {term}
    Pools = {sqlite}
    NoPool = NoPool
    MqttClient = "package"
INVARIANT CompletesInTime
CHECK_DEADLOCK FALSE
