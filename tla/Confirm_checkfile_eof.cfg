CONSTANTS
    h1 = h1
    h2 = h2
    Hosts <- MCHosts
    Prompts <- MCCheckFile
    Words <- MCWords
    MaxLines = 2
    DockerVersions <- MCDockerVersions
SYMMETRY MCSymmetry
SPECIFICATION Spec
PROPERTIES
    PromptEnds
