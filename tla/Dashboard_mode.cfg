SPECIFICATION Spec
CONSTANTS
    Starts = {"detect"}
    Pages = {p1, p2}
    Slots = {1, 2}
    MaxToggles = 2
    MaxFailures = 1
PROPERTY DecisionFollowsMode
