------------------------------ MODULE WebServer ------------------------------
(***************************************************************************)
(* The two HTTP servers: httpd, which serves files under a root, and        *)
(* webconsole, whose pages list, show and delete files, page through the    *)
(* log, run pkg actions and commands.  Both serve one client at a time,     *)
(* read a request until its blank line or until the client falls silent,    *)
(* answer and close.  Other programs change files and the log meanwhile.    *)
(*                                                                         *)
(* A request arrives as tokens: "GET", "POST", " ", one per character of    *)
(* the target ("view=" and the other keys are one token), "hdr" for a       *)
(* header line and "blank" for the blank line.                             *)
(***************************************************************************)
EXTENDS Integers, Sequences, FiniteSets, SequencesExt

CONSTANTS
    WsServers,       \* a subset of {"httpd", "webconsole"}
    WsNames,         \* names of the files in the served directory: sequences of characters
    WsTargets,       \* targets a client types, sequences of tokens
    USH_PATH_MAX,    \* longest target, in tokens
    REQ_MAX,         \* HTTPD_REQ_MAX, WEBCONSOLE_REQ_MAX, in tokens
    WsSizes,         \* sizes of a file, in chunks of HTTPD_FILE_CHUNK
    LOG_PAGE_SIZE,   \* WEBCONSOLE_LOG_PAGE_SIZE
    WsLogMax,        \* lines the journal keeps; bound: one more is written
    max_requests     \* the option -n

VARIABLES
    wsKind,      \* which server this is
    wsPhase,     \* "accept", "recv", "log", "file", "close" or "stopped"
    wsServed,    \* requests served so far
    wsWire,      \* tokens the client sent and the server has not read
    wsReq,       \* tokens in req_buf
    wsReply,     \* the reply so far: code, announced length, chunks sent, page
    wsFiles,     \* the files of the directory: name -> size in chunks, 0 for none
    wsFd,        \* the file being sent: chunks left, whether it changed since its stat,
                 \* and whether a send or a read of it failed
    wsLog,       \* the journal: <<number, is it a match for the search?>>, oldest first
    wsClicked    \* what the link the client follows was shown for
wsVars == <<wsKind, wsPhase, wsServed, wsWire, wsReq, wsReply, wsFiles, wsFd, wsLog, wsClicked>>

NoFd == [name |-> <<>>, left |-> 0, changed |-> FALSE, cut |-> FALSE]
NoPage == [links |-> {}, q |-> <<>>, lines |-> <<>>, at |-> 0, of |-> 0, total |-> 0, oldest |-> 0]
NoReply == [code |-> 0, length |-> 0, sent |-> 0, page |-> NoPage]

-----------------------------------------------------------------------------
(* URL coding.                                                             *)

Special == {"%", "+", "&", " "}
HexOf(c) == CASE c = "%" -> <<"2", "5">> [] c = "+" -> <<"2", "B">> [] c = "&" -> <<"2", "6">> [] OTHER -> <<"2", "0">>
wc_hex_value(c) == c \in {"2", "5", "6", "B", "0"}

\* Mutant: "%" is left as it is.
UrlencKeepsPercent(text) == FoldLeft(LAMBDA out, c : out \o IF c \in Special \ {"%"} THEN <<"%">> \o HexOf(c) ELSE <<c>>, <<>>, text)

wc_urlenc(text) == FoldLeft(LAMBDA out, c : out \o IF c \in Special THEN <<"%">> \o HexOf(c) ELSE <<c>>, <<>>, text)

RECURSIVE wc_url_decode(_)
wc_url_decode(src) ==
    IF src = <<>> THEN <<>>
    ELSE IF src[1] = "%" /\ Len(src) >= 3 /\ wc_hex_value(src[2]) /\ wc_hex_value(src[3])
         THEN LET hits == {c \in Special : HexOf(c) = <<src[2], src[3]>>}
              IN  <<IF hits = {} THEN "?" ELSE CHOOSE c \in hits : TRUE>> \o wc_url_decode(SubSeq(src, 4, Len(src)))
         ELSE <<IF src[1] = "+" THEN " " ELSE src[1]>> \o wc_url_decode(Tail(src))

\* The first "key=" at the start of the query or after a "&", up to the next "&".
wc_query_value(query, key) ==
    LET at == {i \in 1 .. Len(query) : query[i] = key /\ (i = 1 \/ query[i - 1] = "&")}
        from == (CHOOSE i \in at : \A j \in at : i <= j) + 1
        ends == {i \in from .. Len(query) : query[i] = "&"} \cup {Len(query) + 1}
    IN  IF at = {} THEN <<>>
        ELSE wc_url_decode(SubSeq(query, from, (CHOOSE i \in ends : \A j \in ends : i <= j) - 1))

OrElse(value, fallback) == IF value = <<>> THEN fallback ELSE value

\* The part of the target after its "?", and before it.
QueryOf(target) == LET at == {i \in DOMAIN target : target[i] = "?"}
                   IN  IF at = {} THEN <<>> ELSE SubSeq(target, (CHOOSE i \in at : \A j \in at : i <= j) + 1, Len(target))
httpd_strip_query(target) == LET at == {i \in DOMAIN target : target[i] = "?"}
                             IN  IF at = {} THEN target ELSE SubSeq(target, 1, (CHOOSE i \in at : \A j \in at : i <= j) - 1)

wc_parse_u64_default(text, fallback) == IF text = <<"1">> THEN 1 ELSE IF text = <<"2">> THEN 2 ELSE fallback

wc_parse_query(target) ==
    LET query == QueryOf(target)
    IN  [view |-> OrElse(wc_query_value(query, "view="), <<"status">>),
         action |-> wc_query_value(query, "action="),
         path |-> OrElse(wc_query_value(query, "path="), <<"/">>),
         q |-> wc_query_value(query, "q="),
         page |-> wc_parse_u64_default(wc_query_value(query, "page="), 0)]

-----------------------------------------------------------------------------
(* Requests and paths.                                                     *)

\* httpd_parse_request_path and wc_parse_request_path: what stands between
\* "GET " and the next blank; <<>> when there is none.
httpd_parse_request_path(req) ==
    LET ends == {i \in 3 .. Len(req) : req[i] = " "}
    IN  IF Len(req) < 2 \/ req[1] # "GET" \/ req[2] # " " \/ ends = {} THEN <<>>
        ELSE LET target == SubSeq(req, 3, (CHOOSE i \in ends : \A j \in ends : i <= j) - 1)
             IN  IF Len(target) >= USH_PATH_MAX THEN <<>> ELSE target

httpd_safe_path(path) ==
    path # <<>> /\ path[1] = "/" /\ \A i \in DOMAIN path : path[i] # "\\" /\ path[i] # ".."

\* The file a target stands for: "/" is the index, which is a name of its own.
httpd_build_file_path(path) == IF path = <<"/">> THEN <<"index">> ELSE Tail(path)

wc_join_path(name) == <<"/">> \o name
wc_parent_path(path) == <<"/">>

Exists(path) == Tail(path) \in WsNames /\ wsFiles[Tail(path)] > 0

-----------------------------------------------------------------------------
(* Pages of webconsole.                                                    *)

Matching(log, q) == SelectSeq(log, LAMBDA line : q = <<>> \/ line[2])

\* The pages of the log for a search, the page shown when page p is asked for,
\* and its first line.
LogPages(log, q) == LET n == (Len(Matching(log, q)) + LOG_PAGE_SIZE - 1) \div LOG_PAGE_SIZE IN IF n = 0 THEN 1 ELSE n
LogPage(pages, p) == IF p >= pages THEN pages - 1 ELSE p

\* Mutant: a page starts one line late.
LogLinesLate(log, q, page) == SubSeq(Matching(log, q), page * LOG_PAGE_SIZE + 2, (page + 1) * LOG_PAGE_SIZE)

LogLines(log, q, page) ==
    LET match == Matching(log, q) last == (page + 1) * LOG_PAGE_SIZE
    IN  SubSeq(match, page * LOG_PAGE_SIZE + 1, IF last > Len(match) THEN Len(match) ELSE last)

Link(action, path) == <<"/", "?", "view=", "files">> \o (IF action = "" THEN <<>> ELSE <<"&", "action=", action>>)
                      \o <<"&", "path=">> \o wc_urlenc(path)

\* wc_render_files: an optional deletion, then the listing with its links.
FileLinks(files) ==
    {[target |-> Link(a, wc_join_path(n)), action |-> a, path |-> wc_join_path(n)] :
        a \in {"view", "download", "delete"}, n \in {m \in WsNames : files[m] > 0}}

-----------------------------------------------------------------------------
(* The server's loop.                                                      *)

Answer(code, length, page) ==
    /\ wsReply' = [code |-> code, length |-> length, sent |-> length, page |-> page]
    /\ wsPhase' = "close"

httpd_send_text_response(code) == Answer(code, 1, NoPage) /\ UNCHANGED <<wsFiles, wsFd, wsLog>>

\* Another program changes a file, and the kernel writes the log.
FileChanges(n, size) ==
    /\ wsPhase \in {"recv", "file"}
    /\ wsFiles[n] # size
    /\ wsFiles' = [wsFiles EXCEPT ![n] = size]
    /\ wsFd' = IF wsPhase = "file" /\ wsFd.name = n
               THEN [wsFd EXCEPT !.changed = TRUE, !.left = IF size > wsReply.sent THEN size - wsReply.sent ELSE 0]
               ELSE wsFd
    /\ UNCHANGED <<wsKind, wsPhase, wsServed, wsWire, wsReq, wsReply, wsLog, wsClicked>>

\* A full journal loses its oldest line.
Oldest(log) == IF log = <<>> THEN 1 ELSE log[1][1]
LogGrows(hit) ==
    /\ wsPhase \in {"recv", "log"} /\ wsKind = "webconsole"
    /\ LET next == Oldest(wsLog) + Len(wsLog)
       IN  /\ next <= WsLogMax + 1
           /\ wsLog' = Append(IF Len(wsLog) = WsLogMax THEN Tail(wsLog) ELSE wsLog, <<next, hit>>)
    /\ UNCHANGED <<wsKind, wsPhase, wsServed, wsWire, wsReq, wsReply, wsFiles, wsFd, wsClicked>>

\* A client connects: it types a target or follows a link of the page it has,
\* with headers that may make the request too long.
Connect(target, method, headers, clicked) ==
    /\ wsPhase = "accept"
    /\ wsWire' = <<method, " ">> \o target \o <<" ">> \o [i \in 1 .. headers |-> "hdr"] \o <<"blank">>
    /\ wsPhase' = "recv" /\ wsReq' = <<>>
    /\ wsReply' = NoReply /\ wsClicked' = clicked
    /\ UNCHANGED <<wsKind, wsServed, wsFiles, wsFd, wsLog>>

Browse == \E target \in WsTargets, method \in {"GET", "POST"}, headers \in {0, REQ_MAX} :
    Connect(target, method, headers, [action |-> "", path |-> <<>>])

FollowLink ==
    /\ \E link \in wsReply.page.links : Connect(link.target, "GET", 0, [action |-> link.action, path |-> link.path])

\* wsReq grows by what one recv returns.
Receive ==
    /\ wsPhase = "recv" /\ wsWire # <<>> /\ Len(wsReq) < REQ_MAX /\ "blank" \notin Range(wsReq)
    /\ \E n \in {1, Len(wsWire)} : LET take == IF n > REQ_MAX - Len(wsReq) THEN REQ_MAX - Len(wsReq) ELSE n
           IN  wsReq' = wsReq \o SubSeq(wsWire, 1, take) /\ wsWire' = SubSeq(wsWire, take + 1, Len(wsWire))
    /\ UNCHANGED <<wsKind, wsPhase, wsServed, wsReply, wsFiles, wsFd, wsLog, wsClicked>>

\* The request is read: its blank line came, or the client fell silent.
RequestRead == wsPhase = "recv" /\ (("blank" \in Range(wsReq)) \/ (Len(wsReq) < REQ_MAX))

RequestTooLong ==
    /\ wsPhase = "recv" /\ Len(wsReq) >= REQ_MAX /\ "blank" \notin Range(wsReq)
    /\ httpd_send_text_response(413)

\* Nothing came at all: the connection is closed without an answer.
NothingCame == RequestRead /\ wsReq = <<>> /\ wsPhase' = "close" /\ UNCHANGED <<wsReply, wsFiles, wsFd, wsLog>>

\* httpd_send_file and wc_send_file_download up to the header: the length is
\* the size stat gave, the chunks come from the descriptor opened next.
SendFile(n) ==
    IF n \in WsNames /\ wsFiles[n] > 0
    THEN \/ /\ wsReply' = [code |-> 200, length |-> wsFiles[n], sent |-> 0, page |-> NoPage]
            /\ wsFd' = [name |-> n, left |-> wsFiles[n], changed |-> FALSE, cut |-> FALSE]
            /\ wsPhase' = "file"
            /\ UNCHANGED <<wsFiles, wsLog>>
         \/ httpd_send_text_response(403)
    ELSE httpd_send_text_response(404)

httpd_handle_client ==
    /\ RequestRead /\ wsKind = "httpd" /\ wsReq # <<>>
    /\ LET target == httpd_parse_request_path(wsReq) path == httpd_strip_query(target)
       IN  IF target = <<>> THEN httpd_send_text_response(405)
           ELSE IF ~httpd_safe_path(path) THEN httpd_send_text_response(400)
           ELSE SendFile(httpd_build_file_path(path))

\* One chunk; the end of the file ends the reply whatever the header said.
SendChunk ==
    /\ wsPhase = "file" /\ wsFd.left > 0
    /\ wsReply' = [wsReply EXCEPT !.sent = @ + 1]
    /\ wsFd' = [wsFd EXCEPT !.left = @ - 1]
    /\ UNCHANGED <<wsKind, wsPhase, wsServed, wsWire, wsReq, wsFiles, wsLog, wsClicked>>

\* Mutant: a file of one chunk is taken for an empty one.
FileEndsEarly ==
    /\ wsPhase = "file" /\ wsFd.left <= 1
    /\ wsPhase' = "close"
    /\ UNCHANGED <<wsKind, wsServed, wsWire, wsReq, wsReply, wsFd, wsFiles, wsLog, wsClicked>>

FileEnds ==
    /\ wsPhase = "file" /\ wsFd.left = 0
    /\ wsPhase' = "close"
    /\ UNCHANGED <<wsKind, wsServed, wsWire, wsReq, wsReply, wsFd, wsFiles, wsLog, wsClicked>>

\* A send fails, the client being gone, or a read of the file does: the rest is
\* dropped, and a client that is there has a reply shorter than announced.
SendFails ==
    /\ wsPhase = "file"
    /\ wsPhase' = "close" /\ wsFd' = [wsFd EXCEPT !.cut = TRUE]
    /\ UNCHANGED <<wsKind, wsServed, wsWire, wsReq, wsReply, wsFiles, wsLog, wsClicked>>

\* The file, directory and package pages; a link's action happens before the
\* listing is made, and a removal may fail.
RenderFiles(query) ==
    LET deletes == query.action = <<"delete">> /\ query.path # <<"/">>
        removed == IF deletes /\ Exists(query.path) THEN [wsFiles EXCEPT ![Tail(query.path)] = 0] ELSE wsFiles
    IN  IF ~httpd_safe_path(query.path) THEN Answer(200, 1, NoPage) /\ UNCHANGED <<wsFiles, wsFd, wsLog>>
        ELSE \E left \in {removed, wsFiles} :
             /\ wsFiles' = left
             /\ Answer(200, 1, IF deletes \/ query.path = <<"/">> \/ (query.action = <<"view">> /\ Exists(query.path))
                               THEN [NoPage EXCEPT !.links = FileLinks(left)]
                               ELSE NoPage)
             /\ UNCHANGED <<wsFd, wsLog>>

\* The log is read twice: to count, and to show.
RenderLogsCount(query) ==
    /\ wsPhase' = "log"
    /\ wsReply' = [NoReply EXCEPT !.page = [NoPage EXCEPT !.of = LogPages(wsLog, query.q), !.q = query.q, !.total = Len(wsLog),
                                             !.oldest = Oldest(wsLog),
                                             !.at = LogPage(LogPages(wsLog, query.q), query.page)]]
    /\ UNCHANGED <<wsFiles, wsFd, wsLog>>

\* The second pass stops at the number of lines the first one began with.  Each
\* pass is one step: lines are read by their place, so that nothing but the loss
\* of the oldest could be seen in the middle of one.
RenderLogsShow ==
    /\ wsPhase = "log"
    /\ LET page == wsReply.page
       IN  Answer(200, 1, [page EXCEPT !.lines = LogLines(SubSeq(wsLog, 1, page.total), page.q, page.at)])
    /\ UNCHANGED <<wsKind, wsServed, wsWire, wsReq, wsFiles, wsFd, wsLog, wsClicked>>

wc_handle_client ==
    /\ RequestRead /\ wsKind = "webconsole" /\ wsReq # <<>>
    /\ LET target == httpd_parse_request_path(wsReq) query == wc_parse_query(target)
       IN  IF target = <<>> \/ target[1] # "/" THEN httpd_send_text_response(405)
           ELSE IF query.view = <<"files">> /\ query.action = <<"download">>
                THEN IF httpd_safe_path(query.path) THEN SendFile(Tail(query.path)) ELSE httpd_send_text_response(404)
           ELSE IF query.view = <<"files">> THEN RenderFiles(query)
           ELSE IF query.view = <<"logs">> THEN RenderLogsCount(query)
           ELSE Answer(200, 1, NoPage) /\ UNCHANGED <<wsFiles, wsFd, wsLog>>

Handle == (RequestTooLong \/ NothingCame \/ httpd_handle_client \/ wc_handle_client)
          /\ UNCHANGED <<wsKind, wsServed, wsWire, wsReq, wsClicked>>

\* tcp_close, and the loop's end with -n.
Close ==
    /\ wsPhase = "close"
    /\ wsServed' = IF max_requests = 0 THEN wsServed ELSE wsServed + 1
    /\ wsPhase' = IF max_requests # 0 /\ wsServed + 1 >= max_requests THEN "stopped" ELSE "accept"
    /\ wsWire' = <<>> /\ wsReq' = <<>> /\ wsFd' = NoFd
    /\ UNCHANGED <<wsKind, wsReply, wsFiles, wsLog, wsClicked>>

WsInit ==
    /\ wsKind \in WsServers /\ wsPhase = "accept" /\ wsServed = 0
    /\ wsWire = <<>> /\ wsReq = <<>> /\ wsReply = NoReply
    /\ wsFiles \in [WsNames -> WsSizes] /\ wsFd = NoFd /\ wsLog = <<>>
    /\ wsClicked = [action |-> "", path |-> <<>>]

WsNext ==
    \/ Browse \/ FollowLink \/ Receive \/ Handle
    \/ SendChunk \/ FileEnds \/ SendFails \/ RenderLogsShow \/ Close
    \/ \E n \in WsNames, size \in WsSizes : FileChanges(n, size)
    \/ \E hit \in BOOLEAN : LogGrows(hit)

-----------------------------------------------------------------------------
\* A reply has the length its header announced unless the file changed while it
\* was sent or a send or a read failed, and a page of the log is the slice of the
\* matching lines it is numbered for, of the lines the log had when the page was
\* counted, unless a full journal lost its oldest line between the two passes.
WebRepliesWhole ==
    wsPhase = "close" =>
        /\ ~wsFd.changed /\ ~wsFd.cut => wsReply.sent = wsReply.length
        /\ wsReply.page.of > 0 /\ Oldest(wsLog) = wsReply.page.oldest =>
              /\ wsReply.page.at < wsReply.page.of
              /\ \A i \in 1 .. wsReply.page.total : LET line == wsLog[i] IN
                    (wsReply.page.q = <<>> \/ line[2]) =>
                    (line \in Range(wsReply.page.lines)) =
                      (Cardinality({j \in 1 .. i - 1 : wsReply.page.q = <<>> \/ wsLog[j][2]}) \div LOG_PAGE_SIZE = wsReply.page.at)

\* A file that webconsole removes for a client who followed a link is the one
\* the link was shown for, whatever characters its name has.
ConsoleDeletesWhatWasClicked == [][
    \A n \in WsNames :
        (wsClicked.path # <<>> /\ wsPhase = "recv" /\ wsPhase' = "close" /\ wsFiles[n] > 0 /\ wsFiles'[n] = 0)
            => wsClicked = [action |-> "delete", path |-> <<"/">> \o n]]_wsVars
==============================================================================
