\* Two developers and a server with the configured port only; two ports, which
\* other programs take and leave; API_PORT may be 0 and beyond the last port.
SPECIFICATION Spec
CONSTANTS
    Process = {p1, p2, p3}
    Development = {p1, p2}
    ApiPort = {0, 1, 3}
    MaxPort = 2
    None = none
    Foreign = foreign
INVARIANTS SomebodyServes OnlyTheGapIsLost PortsAreReleased
PROPERTY ServesOrEnds
