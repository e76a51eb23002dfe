SPECIFICATION FairSpec
CONSTANTS
    Configurations <- MCConfigurations
    h1 = h1
    h2 = h2
    Hosts = {h1, h2}
    None = None
INVARIANTS TypeOK Findable HasDatabase CleanExit OneGate
PROPERTIES ShutsDown StartsOrEnds
