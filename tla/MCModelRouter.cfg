SPECIFICATION FairSpec
CONSTANTS
    local = local
    cloud = cloud
    typo = typo
    executor = executor
    default = default
    k1 = k1
    k2 = k2
    apikey = apikey
    baseurl = baseurl
    none = none
    Keys <- MCKeys
    Models <- MCModels
    EnvVars <- MCVars
    NoVar = none
    Roles <- MCRoles
    DefaultRole = default
    RoleModels <- MCRoleModels
    Fallback <- MCFallback
    Pinned <- MCPinned
    Timed <- MCKeys
    Cooldown = 2
    Calls <- MCCalls
INVARIANTS
    CooldownExact
    AccountedFor
PROPERTIES
    CallEnds
CHECK_DEADLOCK FALSE
