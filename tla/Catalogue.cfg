SPECIFICATION Spec
CONSTANTS
    geth = geth
    other = other
    main = main
    test = test
    own = own
    Default <- OneService
    Extension <- UpToTwo
    OS = "linux"
    Name = {geth, other}
    Version = {1, 2}
    Env = {main, test, own}
    MaxStarts = 2
    None = None
INVARIANTS TypeOK DefaultsKept RunsOwnVersion ListsAnswer InstalledIsRecorded
PROPERTIES ExtensionTaken
CHECK_DEADLOCK FALSE
