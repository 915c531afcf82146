SPECIFICATION FairSpec
CONSTANTS
    mesh = mesh
    texture = texture
    texture2 = texture2
    Target = {mesh, texture, texture2}
    Image = {texture, texture2}
    Chained = {texture, texture2}
    Op = {o1, o2, o3}
    ImageOp = {o2, o3}
    NoTarget = NoTarget
    NoOp = NoOp
    MaxBytes = 2
    Bytes <- MCBytes
INVARIANTS
    DataIsOwn
    SemaphoreIsFree
PROPERTIES
    OperationsReturn
    UploadsLand
