CONSTANTS
    x = x
    v1 = v1
    v2 = v2
    s1 = s1
    s2 = s2
    s3 = s3
    cid1 = cid1
    cid2 = cid2
    pe1 = pe1
    pe2 = pe2
    px = px
    NoConn = NoConn
    Null = Null
    Ids <- MCIds
    Versions <- MCVersions
    BufMax = 1
    ConnIds <- MCConnIds
    Perspectives <- MCPerspectives
    PeNames <- MCPeNames
    Prefixes <- MCPrefixes
    PrefixMatch <- MCPrefixMatch
    Conns <- MCConnsDispatch
    ConnIdOf <- MCConnIdOf
    MaxReq = 0
    MaxWrites = 0

SPECIFICATION FairSpec

INVARIANT ChannelsEndedBeforeStore
