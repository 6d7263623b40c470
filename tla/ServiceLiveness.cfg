SPECIFICATION FairSpec
CONSTANTS
    c1 = c1  v1 = v1  v2 = v2  x1 = x1  e1 = e1
    t1 = t1  t2 = t2  i1 = i1  i2 = i2  i3 = i3  s1 = s1  r2 = r2  r3 = r3
    NoTime = NoTime  Absent = Absent  Null = Null
    Fingerprints = {c1, v1}
    Times = {t1}
    Kind <- MCKind  Entries <- MCEntries  Size <- MCSize  Parse <- MCParse
    MaxBatchObjects = 3  MaxBatchBytes = 5
    MaxCertificates = 1  MaxRevocationEvidence = 1  MaxRevocationEntries = 2
    Instances = {a, b}
    Threads = {th}
    RequestIds = {r1, r2, r3}
    SetIds = {s1}
    Labels = {none}
    Batches = {}
    Inputs = {i2, i3}
    Results <- MCResults
    Engine <- MCEngine
    MaxFaults = 1
PROPERTIES AdjudicationSettles
