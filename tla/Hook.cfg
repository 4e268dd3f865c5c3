SPECIFICATION Spec
CONSTANTS
    Directories <- MCDirectories
    Links <- MCLinks
    Roots <- MCRoots
    Repository <- MCRepository
    MainCheckouts <- MCMain
    Branches = {b1, b2, main}
    NoBranch = NoBranch
    Repositories = {one, other}
    Agents = {me}
    NoAgent = NoAgent
    Scopes <- MCScopes
    Calls <- MCCalls
    NoCheckout = NoCheckout
    NoPath = NoPath
    MaxMoves = 1
    one = one
    other = other
    me = me
    b1 = b1
    b2 = b2
    main = main
    Lines <- MCLines
    MaxLines = 5
    Scripts <- MCScripts
    Flags <- MCFlags
    ValueOptions <- MCValueOptions
    AbsoluteTexts <- MCAbsolute
    Cwd <- MCCwd
INVARIANTS
    NamedPathsAreWritten
    PatchFitsOneState
    InnermostCheckoutJudges
    RescopedPathIsWritable
CHECK_DEADLOCK FALSE
