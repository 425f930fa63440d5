\* Two operators, two builds, one disturbance.
SPECIFICATION FairSpec
CONSTANTS
    Runners = {r1, r2}
    Builds = {b1, b2}
    Ips = {ip1, ip2}
    Amis = {a1, a2}
    Slots = {c1, c2}
    MaxTrouble = 1
    None = None
INVARIANTS
    OneBuild
PROPERTIES
    SuccessIsReal
    RerunCompletes
