CONSTANTS
    big = big
    small = small
    Adapters = {x, y}
    Nets = {big, small}
    Size <- Sizes
    Cards = {50, 51, 52, 53}
    RESERVE = 2
    Chains <- AgainChains
    Steps = 2
    Names <- AllNames
    Curves <- AllCurves
    Most = 12
    Denoises = {0, 5, 35, 50, 85, 100}
    Conds <- AllConds
    Controls = {"none", "controlnet", "instantid"}
    Extents = {1, 7, 8, 9, 500, 513}
    Scales = {1, 50, 100, 150, 205}
SPECIFICATION Spec
INVARIANT NetRunsOnCard
