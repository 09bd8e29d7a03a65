\* Seven subsystems that judge, one at a time.
CONSTANTS
    Focuses = {"evidence", "measurement", "diagnosis", "order", "reading", "import", "requirements", "suite"}
    good = good
    vague = vague
    wrong = wrong
    operator1 = operator1
    operator2 = operator2
    MaxTurns = 2
    MaxCalls = 3
    RetryLimit = 3
    MaxEvents = 20
    Keys = 2
    Granted = 9
    Catalogued <- TheVariants
    Entry <- TheEntries
    Ghost = "ghost"
    Budget = 2
    Wanted = 1
    MaxQuantity = 1
    Lines <- Quotable
    Selections <- TheSelections
    NoSelection <- Nothing
    Priors <- Earlier
    MaxQuotes = 2
    MaxPayments = 2
    RunLength = 2
    Verdicts <- TheVerdicts
    Missing <- TheMissing
    Unreadable <- TheUnreadable
    Pairs = 2
    Length = 1
    Operators <- TheOperators
    MaxRuns = 4
    Pins <- ThePins
    Endings <- TheEnds
    Normal <- Texts
    MaxMembers = 50
    Shelf <- TheShelf
    Catalogs <- TheCatalogs
    Later <- Restocked
    Briefs <- TheBriefs
    Mandates <- TheMandates
    SearchLimit = 100
    MaxMoves = 1
    Requests <- TheRequests
    MaxPages = 3
    ByteBudget = 3
    PageBytes = 2
    MaxRedirects = 3
    MaxVariants = 3
    MaxPerProduct = 2
    MaxPrice = 1000
    Subunits <- TheSubunits
    Candidate <- TheCandidates
    Sources <- TheSources
    Configurations <- TheConfigurations
    Groups <- TheGroups
    Facts <- TheFacts
    Provenance <- TheProvenance
    MaxLines = 3
    MultiUnit = 2
    MaxShortage = 6
    MaxPerFamily = 3
SPECIFICATION DecisionsSpec
SYMMETRY Operators2
CONSTRAINT Bounds
INVARIANTS
    EvidenceIsWhole
    MerchantMeetsOneBuyer
    VerdictIsRight
    FiguresAreHonest
    DiagnosisIsSound
    BoughtAsStated
    ReadersAgree
    SamplesInOrder
    ConclusionIsEarned
    SuiteIsTrue
    ImportIsSound
CHECK_DEADLOCK FALSE
