SPECIFICATION Spec
CONSTANTS
    VfsDisks = 2
    ExfatDisks = {1}
    Depth = 2
    MaxInodes = 12
    VfsPaths <- Paths
    MaxVfsOps = 4
    ExfatEntries = 6
    ExfatLast = 4
    Groups = 2
    ClusterUnits = 2
    ExfatName = {"a", "b"}
    ExfatText = {1, 3}
    ExfatMaxSize = 4
    FatEntries = 6
    LastOnDisk = 4
    Slots = 4
    Word = 8
    ClusterSize = 2
    TextSize = {2}
    MaxSize = 5
    Name <- MCPair
    Render <- MCRender
    LfnSlots <- MCLfnSlots
 
 
INVARIANT ExfatSound
INVARIANT ExfatCleanOnDisk
INVARIANT VolumeSound
INVARIANT CleanMeansOnDisk
PROPERTY DotDotGoesUp
PROPERTY OnlyWhatWasAsked
CHECK_DEADLOCK FALSE
