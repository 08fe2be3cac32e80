CONSTANTS
    h1 = h1
    h2 = h2
    Hosts <- MCHosts
    Prompts <- MCAllPrompts
    Words <- MCWords
    MaxLines = 2
    DockerVersions <- MCDockerVersions
SYMMETRY MCSymmetry
SPECIFICATION Spec
INVARIANTS
    TypeOK
    InstallationOnlyWhenReady
    UpgradeWarnsOnOldDocker
PROPERTIES
    ErrorReturningPromptsEnd
