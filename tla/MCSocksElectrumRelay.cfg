CONSTANTS
    Calls = {c1, c2}
    RelayTimeout = 2
SPECIFICATION SocksSpec
INVARIANT CallWithinTimeout
