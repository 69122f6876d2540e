\* Two clients, two signals at once, the MQTT client of TEST_MODE.
SPECIFICATION FairSpec
CONSTANTS
    Clients = {c1, c2}
    Calls = {g1}
    Signals = {term, int}
    Pools = {sqlite, mysql}
    NoPool = NoPool
    MqttClient = "test"
INVARIANTS
    TypeOK
    CleanExit
    NobodyWaitsOnClosedPool
PROPERTY SignalEndsProcess
CHECK_DEADLOCK FALSE
