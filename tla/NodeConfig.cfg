CONSTANTS
    NoRewrite = NoRewrite
    Zones <- MCZones
    RepoAddrs <- MCRepoAddrs
    Namespaces <- MCNamespaces
    Overrides <- MCOverrides
    Rewrites <- MCRewrites
    Repo = "pause"
    Tag = "3.9"
    Configs <- MCConfigs
    InitConfig <- C1
    DistroLines <- MCDistroLines
    OwnLines <- MCOwnLines
    MaxOwn = 2
    MaxRuns = 5
    NoConfig = NoConfig
SPECIFICATION Spec
INVARIANTS
    TypeOK
    NamesResolveToInventory
    OwnLinesKept
    BlankRunsBounded
    NameAgreesWithAccessors
CHECK_DEADLOCK FALSE
