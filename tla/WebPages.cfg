SPECIFICATION FairSpec
CONSTANTS
    me = me
    deep = deep
    other = other
    Blocks = {"b1"}
    Statuses = {"ready", "pending"}
    AppVersions = {"v1", "v2"}
    Types = {"server", "database"}
    Frameworks <- FrameworksOf
    DefaultPort <- PortOf
    Ports = {0, 1, 2}
    FirstType = "server"
    FirstPort = 1
    Sagas = {1, 2}
    MaxChanges = 1
    MaxFaults = 1
    FileBlocks = {me, deep, other}
    Me = me
    Extending = {me, deep}
    FileNames = {"p", "q"}
    Vars = {"x"}
    Mounts = {"m"}
    FirstFiles <- FilesOf
    Uploads = {{"q"}}
    Calls = {1, 2}
    MaxFileEvents = 4
    Parts = {"a", "b", "c", "root", "constructor"}
    RootName = "root"
    Inherited = {"constructor"}
    Paths <- PathsOf
    MaxPaths = 3
    Emails = {"e1", "e2"}
    Tokens = {"t1", "t2", "t3", "t4"}
    CliTokens = {"c1", "c2", "c3"}
    MaxAccountEvents = 4
    TypedNames = {"", "Shop", "shop!", "?!", "Blog"}
    NameOf <- NameOfTyped
    FirstApps = {"shop"}
    MaxDashboardEvents = 3
    Windows = {"w1", "w2"}
    Valid = {"v1", "v2"}
    FirstVersion = "v1"
    Tier = 1
    MaxVersionEvents = 3
INVARIANTS
    TypeOK
    
    ViewCurrent
    
    TreeCorrect
    AccountsSound
    SessionShown
    CreatedChecked
    DashboardCurrent
    VersionsKept
PROPERTIES
    OverlaysEnd
\* The bounds on what the user does end every behaviour.
CHECK_DEADLOCK FALSE
