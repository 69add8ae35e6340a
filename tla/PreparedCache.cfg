CONSTANTS
    Plans = {"d1", "d2", "d3"}
    PlanArtifacts <- MCPlanArtifacts
    PlanCandidates <- MCPlanCandidates
    ExactFiles = {"layout"}
    LocalPackages = {"voice"}
    VerifyFiles = FALSE
    RequiredSource <- MCRequired
    Legacy <- MCLegacy
    Roles = {"model", "mmproj", "draft", "local"}
    RoleSource <- MCRoleSource
    RoleRepository <- MCRoleRepository
    RoleCandidates <- MCRoleCandidates
    MaxRevision = 2
    MaxDamaged = 1
INIT ProvisioningInit
NEXT ArtifactsNext
INVARIANT PreparedFindsProvisioned
CHECK_DEADLOCK FALSE
