CONSTANTS
    sd = sd
    sdxl = sdxl
    net = net
    Names <- ThreeFiles
    Kind <- Kinds
    Weight <- Weights
    Resembles <- Similar
    Asks <- SomeAsks
    Executions = {one, two}
    CARD = 6
    MOTION = 1
    OFFLOAD_MODE = "none"
    Patches <- SomePatches
    Most = 3
    LEFT = 1
    POOL = 2
    Longest = 3
    Amounts = {0, 1, 2, 3}
    Caps = {0, 1, 3}
    KeySets <- UpToThree
    FewKeys <- UpToOne
SYMMETRY Either
SPECIFICATION Spec
INVARIANTS TypeOK AlgorithmsAreRight
PROPERTIES StrictLoadFits ShortHasTakenAll
