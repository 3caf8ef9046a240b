CONSTANTS
    Tables = {t1}
    TempTable = temp
    PageIds = {0, 1}
    NumPages = 2
    MaxAnonymous = 1
    Handles = {h1, h2, h3}
    Values = {a, b}
    Junk = junk
    NoPage = noPage
    WriteFaults = FALSE
SYMMETRY Symmetry
SPECIFICATION Spec
INVARIANT TypeOK Structure CleanMatchesDisk PinnedIsReferenced
PROPERTY PageStoreSpec PinnedStaysPut
