CONSTANTS
    MAC_BYTES = 2
    TAG_SIZE = 2
    MIN_LENGTH = 5
    host1 = host1
    host2 = host2
    group = group
    Mac = {group}
    Port = {1, 2}
    Member = {host1, host2}
    MacOf <- MCMacOf
    PortOf <- MCPortOf
    Room <- MCRoom
    MAX_TRIES = 2
SPECIFICATION FairSpec
INVARIANT NoOutsiders TagInPlace InfoKeptExactly CloneKeptExactly
PROPERTY PassedOnExactly Healed
