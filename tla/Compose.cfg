\* Two operations on one project and a probe; two at once.
SPECIFICATION Spec
CONSTANTS
    Ops <- MCOps
    Probes <- MCProbes
    Installed <- MCInstalled
    Projects <- MCProjects
    ProjectOf <- MCProjectOf
    Names <- MCNames
    Standard <- MCStandard
    EnvFiles <- MCEnvFiles
    FilesOf <- MCFilesOf
    ExplicitOf <- MCExplicitOf
    Inline <- MCInline
    VersionOf <- MCVersionOf
    NoName = "none"
    MaxParallel = 2
INVARIANT OwnInputs
PROPERTIES CommandSound Answered
CHECK_DEADLOCK FALSE
