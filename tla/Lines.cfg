SPECIFICATION Spec
CONSTANTS
    Boards <- MCBoards
    Systems <- MCSystems
    OpenWhileDown = FALSE
    MaxOpen = 1
    MaxEnable = 2
INVARIANTS LinesOwned Reachable PortsPlaced
