\* Six components, each on its own instance; bounds as commented in MCPure.
CONSTANTS
    n1 = n1
    n2 = n2
    n3 = n3
    a1 = a1
    a2 = a2
    a3 = a3
    x1 = x1
    q = q
    q1 = q1
    q2 = q2
    Names <- MCNames
    Required <- MCRequired
    Addrs <- MCAddrs
    Global <- MCGlobal
    Replies <- MCReplies
    MaxAddresses = 2
    Owners <- MCOwners
    Query = q
    Ips <- MCIps
    Public <- MCPublic
    MaxHops = 2
    Messages <- MCMessages
    Pending = Pending
    Order <- MCOrder
    Length <- MCLength
    Destinations <- MCDestinations
    MaxCommentLen = 7
    Atoms <- MCAtoms
    ForeignRules <- MCForeign
    MaxForeign = 1
    Fragment = Fragment
    MaxLabel = 2
    MaxName = 4
    MaxChain = 3
    MaxJoined = 4
    MaxChars = 7
    Octets <- Edges
    Networks <- Blocks
    MaxArgs = 5

SPECIFICATION PureSpec

INVARIANTS
    SeenCoversAllowed
    VerdictJustified
    GoodAnswerAccepted
    
    DirtyIsExact
    HostnamesExact
    
    AddressCheckExact
    CommandLineExact

PROPERTIES
    LkgIsolation
    AllOrNothing
    SeenAddressesStay

\* A judged answer, a full file and an ended command go no further.
CHECK_DEADLOCK FALSE
