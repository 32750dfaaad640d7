SPECIFICATION FairSpec
CONSTANTS
    Conns <- MCConns
    Ips <- MCIps
    Allowed <- MCAllowed
    MaxConcurrent = 2
    MaxPerIp = 1
    Modes = {TRUE, FALSE}
    Transports = {"tcp", "quic"}
    Clients <- MCClients
    Panics = {"tcp", "quic"}
INVARIANTS SlotsMatch PermitsMatch LimitsHold
PROPERTIES OneOffEnds
