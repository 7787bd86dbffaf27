CONSTANTS
    Entries = {e1, e2, e3}
    Addr6 = {x6, y6}
    Addr4 <- MCAddr4
    AddrBits = 2
    Threads = {t1}
    Prefixes4 <- MCPrefixes
    PortRanges <- MCPortRanges
    Paging = FALSE
    PageSize = 1
    MaxSessions = 1
    SplitRelease = TRUE
    NULL = NULL

SPECIFICATION Spec
CONSTRAINT MCRefsFloor
SYMMETRY MCSymmetry

INVARIANT TypeOK
INVARIANT TableIntegrity
 
