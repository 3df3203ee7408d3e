\* Up to two sockets at once: one in use, the other closing.  One token that
\* needs encoding and one that does not.
CONSTANTS
    Slots = 2
    PageIntervals = {2, 12}
    DefaultPace = 2
    MaxInFlight = 2
    MaxAnswers = 1
    Tokens = {"plain", "special"}
    Mangled = {"special"}
    Settings = {"plain", "special"}
SPECIFICATION SessionLiveSpec
INVARIANTS
    SessionTypeOK
    OneLiveSocket
    NeverGivesUp
    StatusIsHonest
    SettingsReachServer
    OnlyTheTokenIsServed
PROPERTIES
    Reconnects
    PeerContract
