SPECIFICATION FairSpec
CONSTANTS
    Chats = {r, c1, c2}
    Root = r
    Agents = {g}
    Factories = {g}
    DepthLimit = 3
PROPERTIES
    DelegationReturns
CHECK_DEADLOCK FALSE
