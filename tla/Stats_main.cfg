SPECIFICATION StatsSpec
CONSTANTS
    Events = {e1, e2, e3}
    RingSize = 2
    Limits = {0, 1, 3}
    Classes = {"ALLOW", "LOG"}
    Ips = {a, b}
INVARIANTS RingInv CountersAgree TablesAgree SnapshotBracketed FeedInRealTime
PROPERTY ImplementsRecentEvents
SYMMETRY Symmetry
