SPECIFICATION Spec
CONSTANTS
    Hosts = {h1, h2}
    MaxPort = 3
    DefaultPort = 2
INVARIANT TypeOK
PROPERTY RestartKeepsSettings
