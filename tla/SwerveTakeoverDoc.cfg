SPECIFICATION Spec
CONSTANTS
    w = w
    Wheels = {w}
    Positions = {0, 2048, 5120}
    Headings = {0, 180}
    MaxHeartbeatTicks = 1
INVARIANT
    NotTurnedBack
