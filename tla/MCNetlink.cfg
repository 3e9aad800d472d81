SPECIFICATION NetSpec
CONSTANTS
    Requests = {r1, r2}
    NOps = 2
    NGroups = 1
    RealId = 7
    UserMessages <- MCMessages
    Policies <- MCPolicies
    SendPolicy <- MCSendPolicy
    Nets = {1, 2, 3, 4}
    McGroups <- MCGroups
INVARIANTS ErrorsLeaveOnlyTheCopy ValidationHolds SentIsParsed MulticastOnce
PROPERTIES ContractSpec Answered
CHECK_DEADLOCK FALSE
