CONSTANTS
    Nominal = 1
    TotalShards = 3
    Replicas = {0, 2, NoReplicas}
    NoReplicas = NoReplicas
    NumStores = 2
    GzipEnabled = TRUE
    Scrapers = {s1}
    MaxChanges = 0
SPECIFICATION Spec
INVARIANT GzippedWhenLabelled
