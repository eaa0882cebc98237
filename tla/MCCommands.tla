----------------------------- MODULE MCCommands -----------------------------
(***************************************************************************)
(* The commands that compute or talk to the network, for TLC: the text       *)
(* commands, the argument handling of every command, the calculator, the C   *)
(* library; httpd and webconsole, the name lookups, the HTTP clients with    *)
(* TLS, the browser's session and the rendering of its pages.  They share no *)
(* state, and the network is part of each that uses it, so a behaviour is    *)
(* one of a single component, chosen by Init, with the others at their       *)
(* start.                                                                    *)
(***************************************************************************)
EXTENDS Integers, Sequences, TLC

CONSTANTS
    WsServers, WsNames, WsTargets, USH_PATH_MAX, REQ_MAX, WsSizes, LOG_PAGE_SIZE, WsLogMax, max_requests,
    DnsPrograms, DnsHosts, DnsAddrs, DNS_DEPTH, DNS_PACKET_MAX, DnsMaxTick, DnsMaxNet,
    HcClients, HcBodies, HcStatus, HEADER_MAX, HTML_CAP, HANDSHAKE,
    BrPages, BrSetCookies, BrStart, BrTyped, BrValues, BrPrefixes, BrSubdomains,
    HISTORY_MAX, COOKIE_MAX, COOKIE_HEADER_MAX, BODY_MAX, SEG_MAX, SOURCE_MAX,
    BpDocs, BpSheets, TEXT_CAP, LINK_MAX, FORM_MAX, FIELD_MAX, RULE_MAX, TABLE_COLS,
    CELL_MIN, CELL_MAX, OUTPUT_COLS,
    TextChars, TextMax, USH_SORT_MAX_LINES, CharCode,
    RtChars, RtMax, RtCwds, PATH_MAX, ARG_MAX, USH_COPY_MAX, RtInputs, U64_MAX,
    CalcKeys, PlotKeys, CALC_EXPR_MAX, CalcMax, CalcLimit, CalcScale, CalcEdge,
    ULONG_MAX, LONG_MAX, LibChars, LibMax, LibDays

VARIABLES
    active,     \* the component of this behaviour
    wsKind, wsPhase, wsServed, wsWire, wsReq, wsReply, wsFiles, wsFd, wsLog, wsClicked,
    dnsLook, dnsNet, dnsTick, dnsGot,
    hcClient, hcReply, hcWire, hc, hcConn, hcFile,
    brAt, brSource, brHist, brView, brOnce, brPend, brPage, brForms, brCookies, brToken, brReq,
    bpDoc, bpSheet, bp, bpLines,
    text, piped,
    rtArg, rtCwd, rtDirs, rtInput, rtSent, rtBuf, rtTruncated, rtPc, rtFailed,
    calcLine, calcRendered, calcRow, calcOut, calcSeg,
    libText, libDay

Ws == INSTANCE WebServer
Dns == INSTANCE Dns
Hc == INSTANCE HttpClient
Br == INSTANCE Browser
Bp == INSTANCE BrowserPage
Tf == INSTANCE TextFilters
Rt == INSTANCE CmdRuntime
Calc == INSTANCE Calc
Lib == INSTANCE CLib

web == <<wsKind, wsPhase, wsServed, wsWire, wsReq, wsReply, wsFiles, wsFd, wsLog, wsClicked>>
dnsLookup == <<dnsLook, dnsNet, dnsTick, dnsGot>>
client == <<hcClient, hcReply, hcWire, hc, hcConn, hcFile>>
browser == <<brAt, brSource, brHist, brView, brOnce, brPend, brPage, brForms, brCookies, brToken, brReq>>
page == <<bpDoc, bpSheet, bp, bpLines>>
filters == <<text, piped>>
runtime == <<rtArg, rtCwd, rtDirs, rtInput, rtSent, rtBuf, rtTruncated, rtPc, rtFailed>>
calculator == <<calcLine, calcRendered, calcRow, calcOut, calcSeg>>
lib == <<libText, libDay>>
computing == <<filters, runtime, calculator, lib>>

-----------------------------------------------------------------------------
(* Web servers: a name that looks like the code of another, and requests.   *)

MCWsNames == {<<"%">>, <<"%", "2", "5">>, <<"index">>}
FilesView(action, path) == <<"/", "?", "view=", "files", "&", "action=", action, "&", "path=">> \o path
LogsView(search, number) == <<"/", "?", "view=", "logs">> \o search \o number
MCWsTargets ==
    {<<"/">>, <<"/", "?", "x">>, <<"/", "..">>, <<"/", "%">>, <<"x">>, <<"/", "?", "view=", "files">>,
     FilesView("download", <<"/", "index">>), FilesView("delete", <<"/", "..">>)}
    \cup {LogsView(q, p) : q \in {<<>>, <<"&", "q=", "m">>}, p \in {<<>>, <<"&", "page=", "1">>, <<"&", "page=", "2">>}}

(* Hosts: one is the end of another, one has an empty label.                *)
MCDnsHosts == {<<1>>, <<2, 1>>, <<1, 0>>}

(* Bodies: one that looks like the end of a chunk.                          *)
MCHcBodies == {<<>>, <<"x">>, <<"x", "1", "\r">>, <<"\r", "\n", "0">>}

-----------------------------------------------------------------------------
(* Two pages, one with a link and a POST form, one with a GET form.         *)

Relative(p) == [type |-> "rel", path |-> p, query |-> <<>>]
FromRoot(p) == [type |-> "root", path |-> p, query |-> <<>>]
Field(name, value) == [name |-> <<name>>, value |-> value, successful |-> TRUE]
PostPage == [links |-> <<Relative(<<"..", "b">>)>>, post |-> TRUE, action |-> [type |-> "frag"],
             fields |-> <<Field("n", <<>>), Field("m", <<"x">>)>>]
GetPage == [links |-> <<>>, post |-> FALSE, action |-> Relative(<<"s">>), fields |-> <<Field("n", <<"&">>)>>]
MCBrPages == {PostPage, GetPage}

Cookie(value, secure, path) == [name |-> "c", value |-> value, domain |-> "", path |-> path, secure |-> secure]
MCBrSetCookies == {<<>>, <<Cookie("1", FALSE, <<"default">>), Cookie("2", TRUE, <<>>)>>}

Source(http, host, path) == [http |-> http, tls |-> FALSE, host |-> host, path |-> path, slash |-> FALSE, query |-> <<>>]
HomePage == Source(FALSE, "", <<"f">>)
MCBrStart == {Source(TRUE, "h", <<"a">>), HomePage}
MCBrTyped == {FromRoot(<<"f">>)}
MCBrValues == {<<"&", "=">>}

-----------------------------------------------------------------------------
(* Documents of one or two elements in an element, and tables.              *)

Plain == [set |-> {}, clear |-> {}]
Text(s) == [tag |-> "#text", text |-> s, cls |-> "", inline |-> Plain, name |-> "", kids |-> <<>>]
Element(tag, cls, style, name, kids) ==
    [tag |-> tag, text |-> <<>>, cls |-> cls, inline |-> style, name |-> name, kids |-> kids]
Within(tag, kids) == Element(tag, "", Plain, "", kids)
Void(tag, name) == Element(tag, "", Plain, name, <<>>)
Leaves ==
    {Text(<<"x">>), Text(<<" ", "y", " ">>), Text(<<"\n", "z", "&", " ", " ">>), Void("input", "n"),
     Void("hr", ""), Void("br", ""), Void("img", ""), Void("textarea", "m")}
Styles == {Plain, [set |-> {"under"}, clear |-> {"bold"}], [set |-> {"none"}, clear |-> {}]}
Pairs ==
    {Element(tag, "c", style, "u", <<a, b>>) :
        tag \in {"div", "dd", "b", "a", "pre", "form", "q", "script", "td"}, style \in Styles, a \in Leaves, b \in Leaves}
Row(a, b) == Within("tr", <<Within("td", <<a>>), Within("td", <<b>>)>>)
Tables == {Within("table", <<Row(a, b), Row(b, c)>>) : a \in Leaves, b \in Leaves, c \in Leaves} \cup {Within("table", <<>>)}
FormAnd(d) == Within("div", <<Within("form", <<Void("input", "n")>>), d>>)
MCBpDocs ==
    {Element(tag, "", Plain, "v", <<a, Text(<<"y">>)>>) : tag \in {"div", "b", "form"}, a \in Pairs}
    \cup {FormAnd(d) : d \in Tables \cup {Within("form", <<leaf>>) : leaf \in Leaves}}

Selectors(tag, cls) == <<[tag |-> "z", cls |-> ""], [tag |-> tag, cls |-> cls]>>
MCBpSheets ==
    {<<>>,
     <<[sels |-> <<Selectors("", "c")>>, delta |-> [set |-> {"bold"}, clear |-> {"under"}]],
       [sels |-> <<Selectors("b", ""), Selectors("div", "")>>, delta |-> [set |-> {}, clear |-> {"bold", "none"}]]>>}

-----------------------------------------------------------------------------
(* Texts, working directories and days.                                    *)

MCTextChars == {"a", "b", ",", "\n"}
MCCharCode == [c \in MCTextChars |-> CASE c = "\n" -> 1 [] c = "," -> 2 [] c = "a" -> 3 [] OTHER -> 4]

MCRtCwds == {<<"/">>, <<"/", "S">>, <<"/", "a", "/", "S">>}

\* Two years from 1970, the year before, the end of February 2000 and the end
\* of 2099 and February 2100.
MCLibDays == (0..800) \cup (-370..-1) \cup (11000..11020) \cup (47530..47550) \cup (47840..47860)

-----------------------------------------------------------------------------

CommandParts == {"web", "dns", "client", "browser", "page", "filters", "runtime", "calc", "lib"}

\* A component that does not run has one of its initial states.
Init ==
    /\ active \in CommandParts
    /\ active # "page" => bpDoc = FormAnd(Within("table", <<>>)) /\ bpSheet = <<>>
    /\ Bp!BpInit
    /\ active # "web" => wsKind = "httpd" /\ wsFiles = [n \in WsNames |-> 0]
    /\ Ws!WsInit
    /\ Dns!DnsInit
    /\ active # "client" =>
         /\ hcClient = [program |-> "wget", transport |-> "tcp"]
         /\ hcReply = [status |-> 200, framing |-> "length", body |-> <<>>]
    /\ Hc!HcInit
    /\ active # "browser" => brSource = HomePage /\ brView = FALSE
    /\ Br!BrInit
    /\ active # "filters" => text = <<>>
    /\ Tf!TextInit
    /\ active # "runtime" => rtArg = <<>> /\ rtCwd = <<"/">> /\ rtDirs = {} /\ rtSent = <<>>
    /\ Rt!RtInit
    /\ active # "calc" => calcSeg = <<>>
    /\ Calc!CalcInit
    /\ active # "lib" => libDay = 0
    /\ Lib!LibInit

Next ==
    \/ active = "web" /\ Ws!WsNext /\ UNCHANGED <<active, dnsLookup, client, browser, page, computing>>
    \/ active = "dns" /\ Dns!DnsNext /\ UNCHANGED <<active, web, client, browser, page, computing>>
    \/ active = "client" /\ Hc!HcNext /\ UNCHANGED <<active, web, dnsLookup, browser, page, computing>>
    \/ active = "browser" /\ Br!BrNext /\ UNCHANGED <<active, web, dnsLookup, client, page, computing>>
    \/ active = "page" /\ Bp!BpNext /\ UNCHANGED <<active, web, dnsLookup, client, browser, computing>>
    \/ active = "filters" /\ Tf!TextNext /\ UNCHANGED <<active, web, dnsLookup, client, browser, page, runtime, calculator, lib>>
    \/ active = "runtime" /\ Rt!RtNext /\ UNCHANGED <<active, web, dnsLookup, client, browser, page, filters, calculator, lib>>
    \/ active = "calc" /\ Calc!CalcNext /\ UNCHANGED <<active, web, dnsLookup, client, browser, page, filters, runtime, lib>>
    \/ active = "lib" /\ Lib!LibNext /\ UNCHANGED <<active, web, dnsLookup, client, browser, page, filters, runtime, calculator>>

-----------------------------------------------------------------------------

\* httpd and webconsole: a complete reply has the length it announced, a page
\* of the log is the slice it is numbered for, and the console deletes the file
\* whose link was followed, whatever its name and the changes in between.
ServersSound == []Ws!WebRepliesWhole /\ Ws!ConsoleDeletesWhatWasClicked

\* wget, httpget and the browser fetch what was asked for: the address is one
\* of a reply to the query, the document is the body that was sent, whole, and
\* no connection stays open.
FetchSound == Dns!DnsFindsAddress /\ Hc!DocumentIsBody /\ Hc!ConnectionsEnd

\* The browser: links and fields are those of the page that is shown, a form is
\* posted once, a body is sent for a submission or after a refused one, a cookie
\* is held once; and a page is read as it is written.
BrowserSound ==
    /\ [](active = "browser" => Br!LinksAreOfShownPage /\ Br!PostedOnce /\ Br!CookiesUnique)
    /\ [][Br!BodiesAreAskedFor]_browser
    /\ [](active = "page" => Bp!StyleIsOwn /\ Bp!FieldNumbersAgree /\ Bp!SpaceIsJoined /\ Bp!WrapKeepsText)

\* The commands' own computations: head and tail agree on lines, sort and uniq
\* on order, paths resolve to one spelling, arguments are cut the same way
\* everywhere, calc gives the value of its grammar.  And those of the C library:
\* numbers saturate, printf and strtol agree, strtok and memmove do what their
\* names say, and dates and days are the same both ways.
CommandsSound ==
    /\ active = "filters" => Tf!HeadTailPartition /\ Tf!SortUniqAgree
    /\ active = "runtime" => Rt!RuntimeIsRight
    /\ active = "calc" => Calc!CalcIsRight
    /\ active = "lib" =>
         /\ Lib!NumbersSaturate /\ Lib!FormatRoundTrip
         /\ Lib!TokensAndMoves /\ Lib!CalendarRoundTrip

=============================================================================
