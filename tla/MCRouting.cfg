SPECIFICATION Spec
CONSTANTS
    a = a
    b = b
    x = x
    sol = sol
    opus = opus
    luna = luna
    high = high
    Ids = {a, b, x, "none", "main loop"}
    Models = {sol, opus, luna}
    Variants = {high}
    Unset = unset
    Hidden = hidden
    NoProbe = no_probe
    Nothing = nothing
    Configurations <- MCConfigurations
    Requests <- MCRequests
    Injected <- MCInjected
INVARIANTS TypeOK RaisesForNamesOnly ModeIsAsked WorkersDecideNothing OneAuthority
CHECK_DEADLOCK FALSE
