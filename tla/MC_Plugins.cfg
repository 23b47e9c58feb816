\* vmemd (qfind and listing), the ldrmodules line tables and the SID
\* conversions, the handle configuration options, the PFN map, the
\* thread plugin and the process information call.
CONSTANTS
    Kinds = {"qfind", "list", "ldr", "sid", "config", "pfn", "thread", "pinfo"}
    MaxEntries = 33
    EntrySizes = {1, 40}
    DWORD = 65536
    AMod = 16
    PageSize = 4
    ReqSizes = {1, 3, 6}
    LineLenEAT = 3
    LineLenIAT = 4
    LineLenDirectories = 2
    LineLenSections = 3
    NDirectories = 16
    LdrMaxLines = 3
    LdrReqSizes = {1, 4, 7}
    SidChars = {"-", "0", "1", "x"}
    SidMaxLen = 7
    SidLongFields = {14, 15, 16, 17}
    SidDwordMod = 65536
    SidAuthMod = 1048576
    CfgDwordMod = 16
    CfgValues = {0, 3, 16}
    VMM_FLAG_NOPAGING = 16
    CfgCallsMax = 2
    PfnDwordMod = 65536
    PfnHdrSize = 2
    PfnEntrySize = 3
    PfnValues = {1, 2, 3}
    PfnMaxCount = 3
    PfnBufSizes = {0, 4, 5, 10, 11}
    ThrQwordMod = 1073741824
    ThrDwordMod = 65536
    ThrStackVas = {0, 4096, 12288, 73728}
    ThrTebVas = {0, 8192}
    ThrTids = {7}
    ThrPathTids = {0, 7, 9}
    ThrEthreadSize = 1088
    PinfoPids = {1, 2}
    PinfoSystems = {"x64", "x86", "linux"}
    PinfoZeroed = {"magic"}
    PinfoMaxCalls = 1
INIT PluginsInit
NEXT Next
INVARIANTS
    QFindIsExactMatch
    ListedPtesOutsideVads
    LdrReadMatchesTable
    SidRoundTrip
    ConfigRoundTrip
    PfnSizeProtocol
    ThreadListAgrees
    PinfoProcessInfoRight
