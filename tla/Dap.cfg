SPECIFICATION Spec
CONSTANTS
    Packets <- AllPackets
    Requests <- RequestKinds
    MaxRequests = 3
    RetryCount = 1
    MatchRetry = 1
    MaxCount = 5
    BlockRetries = 2
    Ports = {"DISABLED", "SWD", "JTAG"}
    Idles = {0, 2}
    Turnarounds = {1, 2}
    Counts = {8, 11, 51, 256}
    Clocks = {0, 1, 999, 1000000, 1999999, 2000000, 9999999, 10000000}
    Chips = {"ESP8266", "ESP32", "ESP32C3", "ESP32S3"}
    ScanChains <- SomeChains
    Words <- SomeWords
    ScanRequests <- SomeRequests
    W = 3
INVARIANTS
    TypeOK ListInStep TransferTrue BlockTrue SessionSound ScanExact
PROPERTY
    WireSound
