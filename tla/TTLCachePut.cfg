\* As in TTLCache.cfg.
SPECIFICATION Spec
CONSTANTS
    p1 = p1
    p2 = p2
    c1 = c1
    c2 = c2
    key_1_0 = key_1_0
    key_1_1 = key_1_1
    Producers = {p1, p2}
    Consumers = {c1, c2}
    Keys = {key_1_0, key_1_1}
    Puts <- MCPuts
    Wanted <- MCWanted
    MaxTTL = 2
    Timeout = 2
    None = None
PROPERTIES
    PutStores
