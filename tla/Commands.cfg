INIT Init
NEXT Next
CONSTANTS
    WsServers = {"httpd", "webconsole"}
    WsNames <- MCWsNames
    WsTargets <- MCWsTargets
    USH_PATH_MAX = 16
    REQ_MAX = 20
    WsSizes = {0, 2}
    LOG_PAGE_SIZE = 1
    WsLogMax = 2
    max_requests = 2
    DnsPrograms = {"wget", "nslookup"}
    DnsHosts <- MCDnsHosts
    DnsAddrs = {101, 102}
    DNS_DEPTH = 6
    DNS_PACKET_MAX = 20
    DnsMaxTick = 1
    DnsMaxNet = 2
    HcClients = {"wget", "httpget", "browser"}
    HcBodies <- MCHcBodies
    HcStatus = {200, 302, 404}
    HEADER_MAX = 6
    HTML_CAP = 20
    HANDSHAKE = 2
    BrPages <- MCBrPages
    BrSetCookies <- MCBrSetCookies
    BrStart <- MCBrStart
    BrTyped <- MCBrTyped
    BrValues <- MCBrValues
    BrPrefixes = {}
    BrSubdomains = {}
    HISTORY_MAX = 1
    COOKIE_MAX = 2
    COOKIE_HEADER_MAX = 2
    BODY_MAX = 16
    SEG_MAX = 2
    SOURCE_MAX = 10
    BpDocs <- MCBpDocs
    BpSheets <- MCBpSheets
    TEXT_CAP = 40
    LINK_MAX = 2
    FORM_MAX = 2
    FIELD_MAX = 2
    RULE_MAX = 2
    TABLE_COLS = 2
    CELL_MIN = 1
    CELL_MAX = 2
    OUTPUT_COLS = 5
    TextChars <- MCTextChars
    TextMax = 5
    USH_SORT_MAX_LINES = 3
    CharCode <- MCCharCode
    RtChars = {"9", ".", "/", " ", "S"}
    RtMax = 4
    RtCwds <- MCRtCwds
    PATH_MAX = 6
    ARG_MAX = 3
    USH_COPY_MAX = 3
    RtInputs = {0, 2, 3, 5}
    U64_MAX = 255
    CalcKeys = {"2", "x", "-", "/", "^", "(", ")", "abs"}
    PlotKeys = {" ", "2", "x"}
    CALC_EXPR_MAX = 12
    CalcMax = 4
    CalcLimit = 1000
    CalcScale = 10
    CalcEdge = 2
    ULONG_MAX = 31
    LONG_MAX = 15
    LibChars = {"0", "1", "x", "a", "-", " "}
    LibMax = 4
    LibDays <- MCLibDays
\* The programs end, and a text or an expression may be as long as it gets.
CHECK_DEADLOCK FALSE
INVARIANTS
    FetchSound
    CommandsSound
PROPERTIES
    ServersSound
    BrowserSound
