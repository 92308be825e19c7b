SPECIFICATION Spec
CONSTANTS
    Bang = 3
    Wide = 4
    Slash = 5
    Configs <- MCConfigs
    JobRequests <- MCJobRequests
    RawRequests <- MCRawRequests
    Env <- MCEnv
    Files = {1}
    Contents <- MCContents
    MaxChanges = 1
INVARIANTS TypeOK SelectionFollowsGlobs FreshCredentials StartupCheckHolds
