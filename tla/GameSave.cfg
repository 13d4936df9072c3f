\* Two operations at a time on one blob of a container, two contents.
SPECIFICATION Spec
CONSTANTS
    o1 = o1
    o2 = o2
    b1 = b1
    i1 = i1
    i2 = i2
    Ids = {i1, i2}
    Cut = Cut
    Nobody = Nobody
    Nowhere = Nowhere
    Absent = Absent
    Empty = Empty
    Torn = Torn
    Ops = {o1, o2}
    Blobs = {b1}
    MaxContainers = 1
    MaxUpdates = 1
    MaxBlobWrites = 2
    MaxBlobReads = 1
    MaxStamps = 2
SYMMETRY Interchangeable
INVARIANTS
    TornOnlyByOverlap
    EmptiedOnlyByRefusal
    NewestKept
    
    SavesFound
