SPECIFICATION Spec
CONSTANTS
    Starts = {"block", "DETECT"}
    Pages = {p1}
    Slots = {1, 2, 3}
    MaxToggles = 3
    MaxFailures = 1
PROPERTIES BadgesConverge
