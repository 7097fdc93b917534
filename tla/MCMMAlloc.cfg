CONSTANTS
    PGSIZE = 4
    HeapStart = 4
    ESP = 24
    Frame <- MCFrame
    SetPageFails = TRUE
    H = 2
    Size = {1, 3, 5}
    MaxHeld = 3

SPECIFICATION Spec
INVARIANT TypeOK
INVARIANT Intact
INVARIANT BlocksTile
INVARIANT Coalesced
INVARIANT HeapBacked
