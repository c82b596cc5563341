CONSTANTS
    Nominal = 0
    TotalShards = 3
    Replicas = {0, 2, NoReplicas}
    NoReplicas = NoReplicas
    NumStores = 2
    GzipEnabled = FALSE
    Scrapers = {s1, s2}
    MaxChanges = 2
SPECIFICATION FairSpec
INVARIANTS TypeOK PageOfOneGeneration OnlyCurrentGenerationLives
PROPERTIES EventuallyConfigured ScrapesEnd
