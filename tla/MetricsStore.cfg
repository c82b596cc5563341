\* One reflector, as in the deployment, and two scrapes that contend with it for
\* the lock and with each other.
SPECIFICATION FairSpec
CONSTANTS
    UIDs = {a, b}
    Contents = {1}
    NumFamilies = 2
    Writers = {w1}
    Readers = {r1, r2}
    Malformed = {bad}
    MaxList = 2
INVARIANTS
    TypeOK
    PageNotTorn
    ReplaceShowsPrefix
PROPERTIES
    ImplementsAtomicStore
    CallsReturn
    ScrapesEnd
