SPECIFICATION FairSpec
CONSTANTS
    Sectors = 3
    Audio = {1}
    Selected = {3}
    MaxBlocks = 1
    Tray = {"in", "empty"}
    Command <- Commands
INVARIANTS TypeOk CommandsIntact
PROPERTIES SectorsStored PlayEnds
