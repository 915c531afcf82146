SPECIFICATION FairSpec
CONSTANTS
    camera = camera
    entity = entity
    Part = {camera, entity}
    MaxPublished = 3
    QuickPasses = TRUE
INVARIANTS
    PassIsWhole
    HistoryIsDrawn
PROPERTIES
    Snapshots
    PublishedIsDrawn
