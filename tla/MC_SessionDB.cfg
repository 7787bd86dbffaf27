CONSTANTS
    Sessions = {s1, s2}
    Threads = {t1, t2}
    Flows = {"fT", "fU1", "fU2"}
    FlowBib <- MCFlowBib
    Bibs = {"b1", "b2"}
    BibAddr4 <- MCBibAddr4
    StaticBibs = {"b1"}
    BibProto <- MCBibProto
    DefaultTtl <- MCDefaultTtl
    ListTtls <- MCListTtls
    MaxTime = 2
SPECIFICATION Spec
INVARIANT TypeOK
INVARIANT QueuesOrdered
INVARIANT InTheRightList
INVARIANT BibRefsExact
INVARIANT SessionRefsExact
INVARIANT OneSessionPerFlow
PROPERTY ReapLeavesNoExpired
PROPERTY ExpiredEventuallyReaped
PROPERTY UnstoredEventuallyFreed
