SPECIFICATION Spec
CONSTANTS
    c1 = c1
    c2 = c2
    c3 = c3
    Peers <- ThreePeers
    Main = main
    EcSettings = {"gpu"}
    Values = {v1}
    Unset = Unset
    Empty = Empty
    Torn = Torn
    None = None
    MAX_CONCURRENT_REQUESTS = 2
    Users <- ChangesReadsOrSignals
SYMMETRY Symmetry
PROPERTIES StartKeepsChoices
