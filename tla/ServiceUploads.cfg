SPECIFICATION Spec
CONSTANTS
    c1 = c1  v1 = v1  v2 = v2  x1 = x1  e1 = e1
    t1 = t1  t2 = t2  i1 = i1  i2 = i2  i3 = i3  s1 = s1  r2 = r2  r3 = r3
    NoTime = NoTime  Absent = Absent  Null = Null
    Fingerprints = {c1, v1, v2, x1, e1}
    Times = {t1, t2}
    Kind <- MCKind  Entries <- MCEntries  Size <- MCSize  Parse <- MCParse
    MaxBatchObjects = 3  MaxBatchBytes = 5
    MaxCertificates = 2  MaxRevocationEvidence = 1  MaxRevocationEntries = 2
    Instances = {a, b}
    Threads = {th}
    RequestIds = {r1, r2, r3, r4}
    SetIds = {s1}
    Labels = {none}
    Batches <- UploadBatches
    Inputs = {}
    Results <- MCResults
    Engine <- MCEngine
    MaxFaults = 1
SYMMETRY Symmetry
INVARIANTS
    TypeOK SealedContentsPinned EffectsMatchRecords LimitsRespected
PROPERTIES OpenAnswersLinear
