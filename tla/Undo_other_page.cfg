SPECIFICATION Spec
CONSTANTS
    shell = shell
    inner = inner
    AllPages <- TwoPages
    First = inner
    Shells <- ShellOf
    Limit = 2
    None = None
    MaxEdits = 3
    MaxSteps = 2
    MaxVisits = 1
PROPERTY StepWaits
CHECK_DEADLOCK FALSE
