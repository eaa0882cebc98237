----------------------------- MODULE HttpClient ------------------------------
(***************************************************************************)
(* Fetching a document: wget, which saves it to a file, httpget, which      *)
(* prints what it receives, and the browser's fetch, over TCP or over the   *)
(* TLS layer (apps/tls).  The reply comes in pieces cut anywhere; the       *)
(* server may fall silent, close or fail at any point.  wget decodes a      *)
(* chunked body while it comes, the browser once it believes to have all.   *)
(*                                                                         *)
(* A reply is a sequence of tokens: "head" for the status line and the      *)
(* headers up to the blank line (what they say is in hcReply), then bytes.  *)
(* A byte of a body may look like anything the chunk syntax uses.           *)
(***************************************************************************)
EXTENDS Integers, Sequences, FiniteSets, SequencesExt

CONSTANTS
    HcClients,     \* a subset of {"wget", "httpget", "browser"}
    HcBodies,      \* bodies a server sends: sequences of bytes
    HcStatus,      \* status codes
    HEADER_MAX,    \* USH_WGET_HEADER_MAX, in tokens
    HTML_CAP,      \* USH_BROWSER_HTML_BUF_CAP, in tokens
    HANDSHAKE      \* CLEONOS_TLS_HANDSHAKE_LOOPS

CR == "\r"
LF == "\n"

VARIABLES
    hcClient,   \* which program, over which transport
    hcReply,    \* the reply: status, framing, body and the bytes that encode it
    hcWire,     \* tokens not received yet
    hc,         \* the client: where it is, what it holds, what it saved
    hcConn,     \* the connection: TCP open, TLS context, handshake rounds
    hcFile      \* the file wget writes: "old", or the tokens saved
hcVars == <<hcClient, hcReply, hcWire, hc, hcConn, hcFile>>

Tls == hcClient.transport = "tls"

-----------------------------------------------------------------------------
(* The server: a body in chunks of one or two bytes, or with its length, or *)
(* ended by the end of the connection; "gzip" is a body that is compressed.*)

Digit(n) == CASE n = 0 -> "0" [] n = 1 -> "1" [] n = 2 -> "2"
Value(c) == CASE c = "0" -> 0 [] c = "1" -> 1 [] c = "2" -> 2
IsDigit(c) == c \in {"0", "1", "2"}

RECURSIVE Chunks(_, _)
Chunks(body, size) ==
    IF body = <<>> THEN <<"0", CR, LF, CR, LF>>
    ELSE LET n == IF size > Len(body) THEN Len(body) ELSE size
         IN  <<Digit(n)>> \o (IF n = 2 THEN <<";", "e">> ELSE <<>>) \o <<CR, LF>> \o SubSeq(body, 1, n) \o <<CR, LF>>
             \o Chunks(SubSeq(body, n + 1, Len(body)), size)

Encoded(framing, body) ==
    CASE framing = "chunk1" -> Chunks(body, 1) [] framing = "chunk2" -> Chunks(body, 2) [] OTHER -> body

Chunked == hcReply.framing \in {"chunk1", "chunk2"}
HasLength == hcReply.framing = "length"

-----------------------------------------------------------------------------
(* wget's chunk decoder: a state machine fed with whatever has come.       *)

ChunkStart == [state |-> "size", acc |-> 0, digit |-> FALSE, ext |-> FALSE, remaining |-> 0, trailer |-> 0,
               done |-> FALSE, bad |-> FALSE, out |-> <<>>]

Bad(c) == [c EXCEPT !.bad = TRUE]

ush_wget_chunk_finish_size_line(c) ==
    IF ~c.digit THEN Bad(c)
    ELSE [c EXCEPT !.remaining = c.acc, !.acc = 0, !.digit = FALSE, !.ext = FALSE,
                   !.trailer = IF c.acc = 0 THEN 0 ELSE @, !.state = IF c.acc = 0 THEN "trailer" ELSE "data"]

TrailerLine(c) == IF c.trailer = 0 THEN [c EXCEPT !.done = TRUE] ELSE [c EXCEPT !.trailer = 0, !.state = "trailer"]

SizeByte(c, b) ==
    CASE b = CR -> [c EXCEPT !.state = "size_lf"]
      [] b = LF -> ush_wget_chunk_finish_size_line(c)
      [] b = ";" -> IF c.digit THEN [c EXCEPT !.ext = TRUE] ELSE Bad(c)
      [] c.ext \/ b = " " -> c
      [] IsDigit(b) /\ ~c.ext -> [c EXCEPT !.acc = @ * 16 + Value(b), !.digit = TRUE]
      [] OTHER -> Bad(c)

DataByte(c, b) == [c EXCEPT !.out = Append(@, b), !.remaining = @ - 1, !.state = IF c.remaining = 1 THEN "data_lf" ELSE @]

ush_wget_chunked_write_feed(c, b) ==
    IF c.done \/ c.bad THEN c
    ELSE CASE c.state = "data" -> DataByte(c, b)
           [] c.state = "size" -> SizeByte(c, b)
           [] c.state = "size_lf" -> IF b = LF THEN ush_wget_chunk_finish_size_line(c) ELSE Bad(c)
           [] c.state = "data_lf" -> IF b = CR THEN c ELSE IF b = LF THEN [c EXCEPT !.state = "size"] ELSE Bad(c)
           [] c.state = "trailer" -> (CASE b = CR -> [c EXCEPT !.state = "trailer_lf"]
                                        [] b = LF -> TrailerLine(c)
                                        [] OTHER -> [c EXCEPT !.trailer = @ + 1])
           [] OTHER -> IF b = LF THEN TrailerLine(c) ELSE Bad(c)

Feed(c, bytes) == FoldLeft(LAMBDA d, b : ush_wget_chunked_write_feed(d, b), c, bytes)

-----------------------------------------------------------------------------
(* The browser's decoder works on the whole body.                          *)

\* The first CR LF at or after position at; 0 when there is none.
LineEnd(body, at) ==
    LET ends == {i \in at .. Len(body) - 1 : body[i] = CR /\ body[i + 1] = LF}
    IN  IF ends = {} THEN 0 ELSE CHOOSE i \in ends : \A j \in ends : i <= j

\* The size on a line: digits up to a ";" or another end; -1 for none.
SizeOn(body, at, end) ==
    LET stop == {i \in at .. end : i = end \/ body[i] = ";"}
        last == CHOOSE i \in stop : \A j \in stop : i <= j
        digits == SubSeq(body, at, last - 1)
    IN  IF digits = <<>> \/ \E i \in DOMAIN digits : ~IsDigit(digits[i]) THEN -1
        ELSE FoldLeft(LAMBDA n, d : n * 16 + Value(d), 0, digits)

\* 1 complete, 0 incomplete, -1 invalid.
RECURSIVE CompleteFrom(_, _)
CompleteFrom(body, at) ==
    LET end == LineEnd(body, at) size == SizeOn(body, at, end)
    IN  IF at > Len(body) \/ end = 0 THEN 0
        ELSE IF size < 0 THEN -1
        ELSE IF size = 0 THEN (IF LineEnd(body, end + 2) = 0 THEN 0 ELSE 1)
        ELSE IF end + 1 + size + 2 > Len(body) THEN 0
        ELSE IF body[end + 2 + size] # CR \/ body[end + 3 + size] # LF THEN -1
        ELSE CompleteFrom(body, end + size + 4)
ush_browser_is_chunked_body_complete(body) == CompleteFrom(body, 1)

\* What there is of a chunk is taken, and decoding stops where it ends.
RECURSIVE DecodeFrom(_, _)
DecodeFrom(body, at) ==
    LET end == LineEnd(body, at) size == SizeOn(body, at, end)
        there == IF end + 1 + size > Len(body) THEN Len(body) - end - 1 ELSE size
        next == end + 2 + there
    IN  IF at > Len(body) \/ end = 0 THEN <<>>
        ELSE IF size <= 0 \/ there <= 0 THEN <<>>
        ELSE SubSeq(body, end + 2, end + 1 + there) \o
             (IF next + 1 > Len(body) THEN <<>>
              ELSE IF body[next] # CR \/ body[next + 1] # LF THEN <<>> ELSE DecodeFrom(body, next + 2))
ush_browser_decode_chunked_body(body) == DecodeFrom(body, 1)

-----------------------------------------------------------------------------
(* The connection.                                                         *)

NoConn == [tcp |-> FALSE, ctx |-> FALSE, active |-> FALSE, eof |-> FALSE, rounds |-> 0]
Done(result) == hc' = [hc EXCEPT !.at = "done", !.result = result]
Start == [at |-> "start", result |-> "", raw |-> <<>>, head |-> FALSE, chunk |-> ChunkStart, saved |-> <<>>, ends |-> FALSE]

\* tcp_connect, with the contexts of cleonos_tls_init already made for TLS.
ConnectTo(ok) ==
    /\ hcConn' = IF ok THEN [NoConn EXCEPT !.tcp = TRUE, !.ctx = Tls] ELSE NoConn
    /\ IF ok THEN hc' = [hc EXCEPT !.at = IF Tls THEN "handshake" ELSE "send"] ELSE Done("failed")
    /\ UNCHANGED <<hcClient, hcReply, hcWire, hcFile>>

\* wget opens its output, and so empties it, before it connects.
WgetOpensOutput ==
    /\ hcClient.program = "wget" /\ hc.at = "start"
    /\ hcFile' = "new"
    /\ hc' = [hc EXCEPT !.at = "connect"]
    /\ UNCHANGED <<hcClient, hcReply, hcWire, hcConn>>

WgetConnects(ok) == hcClient.program = "wget" /\ hc.at = "connect" /\ ConnectTo(ok)
HttpgetConnects(ok) == hcClient.program = "httpget" /\ hc.at = "start" /\ ConnectTo(ok)
BrowserConnects(ok) == hcClient.program = "browser" /\ hc.at = "start" /\ ConnectTo(ok)

\* cleonos_tls_abort_connect: the connection is closed and the contexts freed,
\* so that the caller, who sees no open connection, need not.
cleonos_tls_abort_connect ==
    /\ hc.at = "handshake"
    /\ hcConn' = NoConn
    /\ Done("failed")
    /\ UNCHANGED <<hcClient, hcReply, hcWire, hcFile>>

\* One round of the handshake: it wants more, or is done; the last round, or
\* the deadline, aborts.
cleonos_tls_connect_deadline(ok) ==
    /\ hc.at = "handshake" /\ hcConn.rounds < HANDSHAKE
    /\ hcConn' = [hcConn EXCEPT !.rounds = @ + 1, !.active = ok]
    /\ hc' = IF ok THEN [hc EXCEPT !.at = "send"] ELSE hc
    /\ UNCHANGED <<hcClient, hcReply, hcWire, hcFile>>

\* The request is sent whole, or the client gives up.
SendRequest(ok) ==
    /\ hc.at = "send"
    /\ IF ok THEN hc' = [hc EXCEPT !.at = "recv"] ELSE hc' = [hc EXCEPT !.at = "close", !.result = "failed"]
    /\ UNCHANGED <<hcClient, hcReply, hcWire, hcConn, hcFile>>

WgetSends(ok) == hcClient.program = "wget" /\ SendRequest(ok)
HttpgetSends(ok) == hcClient.program = "httpget" /\ SendRequest(ok)
BrowserSends(ok) == hcClient.program = "browser" /\ SendRequest(ok)

-----------------------------------------------------------------------------
(* Receiving.                                                              *)

Finish(c, result) == [c EXCEPT !.at = "close", !.result = result]

\* wget: bytes of the body.
WgetBody(c, bytes) ==
    IF Chunked
    THEN LET fed == Feed(c.chunk, bytes) grown == [c EXCEPT !.chunk = fed, !.saved = fed.out]
         IN  IF fed.bad THEN Finish(grown, "failed") ELSE IF fed.done THEN Finish(grown, "ok") ELSE grown
    ELSE IF HasLength
    THEN LET room == Len(hcReply.body) - Len(c.saved)
             take == IF Len(bytes) > room THEN room ELSE Len(bytes)
             grown == [c EXCEPT !.saved = @ \o SubSeq(bytes, 1, take)]
         IN  IF Len(grown.saved) >= Len(hcReply.body) /\ (bytes # <<>>) THEN Finish(grown, "ok") ELSE grown
    ELSE [c EXCEPT !.saved = @ \o bytes]

\* The header is collected until its blank line, what follows it is body.
WgetReceives(piece) ==
    IF hc.head THEN WgetBody(hc, piece)
    ELSE IF Len(hc.raw) + Len(piece) > HEADER_MAX THEN Finish(hc, "failed")
    ELSE LET all == hc.raw \o piece
         IN  IF "head" \notin Range(all) THEN [hc EXCEPT !.raw = all]
             ELSE IF hcReply.status >= 400 THEN Finish([hc EXCEPT !.head = TRUE], "failed")
             ELSE LET after == SubSeq(all, (CHOOSE i \in DOMAIN all : all[i] = "head") + 1, Len(all))
                      read == [hc EXCEPT !.head = TRUE, !.raw = all]
                  IN  IF after = <<>> THEN read ELSE WgetBody(read, after)

\* The browser: the buffer's end cuts the reply.
BodyOf(raw) == LET at == CHOOSE i \in DOMAIN raw : raw[i] = "head" IN SubSeq(raw, at + 1, Len(raw))
BrowserComplete(raw) ==
    \/ HasLength /\ Len(BodyOf(raw)) >= Len(hcReply.body)
    \/ Chunked /\ ush_browser_is_chunked_body_complete(BodyOf(raw)) > 0

BrowserDocument(raw) ==
    IF Chunked THEN ush_browser_decode_chunked_body(BodyOf(raw))
    ELSE IF HasLength /\ Len(BodyOf(raw)) > Len(hcReply.body) THEN hcReply.body ELSE BodyOf(raw)

\* After the loop: no header and an empty document are failures; a document
\* that is shorter than it should be is not.  A redirection without a body
\* becomes a page with a link.
BrowserEnds(c) ==
    IF "head" \notin Range(c.raw) THEN Finish(c, "failed")
    ELSE IF hcReply.status = 302 /\ (BodyOf(c.raw) = <<>> \/ (HasLength /\ hcReply.body = <<>>))
    THEN Finish([c EXCEPT !.saved = <<"redirect">>], "ok")
    ELSE LET doc == BrowserDocument(c.raw)
         IN  IF doc = <<>> THEN Finish(c, "failed") ELSE Finish([c EXCEPT !.saved = doc], "ok")

BrowserReceives(piece) ==
    LET room == HTML_CAP - 1 - Len(hc.raw)
        got == [hc EXCEPT !.raw = @ \o SubSeq(piece, 1, IF Len(piece) > room THEN room ELSE Len(piece))]
    IN  IF "head" \notin Range(got.raw) THEN (IF Len(got.raw) + 1 >= HTML_CAP THEN BrowserEnds(got) ELSE got)
        ELSE IF hcReply.framing = "gzip" \/ (Chunked /\ ush_browser_is_chunked_body_complete(BodyOf(got.raw)) < 0) THEN Finish(got, "failed")
        ELSE IF BrowserComplete(got.raw) \/ Len(got.raw) + 1 >= HTML_CAP THEN BrowserEnds(got)
        ELSE got

\* httpget prints all that comes, the headers too.
HttpgetReceives(piece) == [hc EXCEPT !.raw = @ \o piece]

\* A piece of the reply.
Receive(n) ==
    /\ hc.at = "recv" /\ n \in 1 .. Len(hcWire)
    /\ LET piece == SubSeq(hcWire, 1, n)
       IN  hc' = CASE hcClient.program = "wget" -> WgetReceives(piece)
                   [] hcClient.program = "browser" -> BrowserReceives(piece)
                   [] OTHER -> HttpgetReceives(piece)
    /\ hcWire' = SubSeq(hcWire, n + 1, Len(hcWire))
    /\ UNCHANGED <<hcClient, hcReply, hcConn, hcFile>>

WgetComplete == hc.head /\ ((HasLength /\ Len(hc.saved) >= Len(hcReply.body)) \/ (Chunked /\ hc.chunk.done))

\* Mutant: silence ends any download that has begun.
SilenceEndsAll == hc.head

\* What is taken for the end when nothing more comes in time.
SilenceEnds == hc.head /\ (WgetComplete \/ (hc.saved # <<>> /\ ~HasLength /\ ~Chunked))

\* Nothing came until the deadline, or for so many rounds.
Silence ==
    /\ hc.at = "recv"
    /\ hc' = CASE hcClient.program = "wget" -> Finish(hc, IF SilenceEnds THEN "ok" ELSE "failed")
               [] hcClient.program = "browser" -> BrowserEnds(hc)
               [] OTHER -> Finish(hc, "ok")
    /\ UNCHANGED <<hcClient, hcReply, hcWire, hcConn, hcFile>>

\* TLS: the server's close_notify ends the loop wherever the body is.
CloseNotify ==
    /\ hc.at = "recv" /\ Tls
    /\ hcConn' = [hcConn EXCEPT !.eof = TRUE]
    /\ hc' = CASE hcClient.program = "wget" -> Finish(hc, IF hc.head THEN "ok" ELSE "failed")
               [] hcClient.program = "browser" -> BrowserEnds(hc)
               [] OTHER -> Finish(hc, "ok")
    /\ UNCHANGED <<hcClient, hcReply, hcWire, hcFile>>

\* A read error, and for wget and httpget a write error.
ReceiveFails ==
    /\ hc.at = "recv"
    /\ hc' = Finish(hc, "failed")
    /\ UNCHANGED <<hcClient, hcReply, hcWire, hcConn, hcFile>>

\* Mutant: only the TCP connection of a TLS client is closed.
CloseForgets ==
    /\ hc.at = "close"
    /\ hcConn' = [hcConn EXCEPT !.tcp = FALSE, !.active = FALSE]
    /\ Done(hc.result)
    /\ UNCHANGED <<hcClient, hcReply, hcWire, hcFile>>

\* cleonos_tls_close or tcp_close, and the output.
Close ==
    /\ hc.at = "close"
    /\ hcConn' = NoConn
    /\ Done(hc.result)
    /\ UNCHANGED <<hcClient, hcReply, hcWire, hcFile>>

-----------------------------------------------------------------------------
HcInit ==
    /\ hcClient \in [program : HcClients, transport : {"tcp", "tls"}]
    /\ \E s \in HcStatus, f \in {"length", "chunk1", "chunk2", "none", "gzip"}, b \in HcBodies :
         /\ hcReply = [status |-> s, framing |-> f, body |-> b]
         /\ hcWire = <<"line", "head">> \o Encoded(f, b)
    /\ hc = Start /\ hcConn = NoConn /\ hcFile = "old"

HcNext ==
    \/ WgetOpensOutput
    \/ \E ok \in BOOLEAN :
         \/ WgetConnects(ok) \/ HttpgetConnects(ok) \/ BrowserConnects(ok)
         \/ cleonos_tls_connect_deadline(ok)
         \/ WgetSends(ok) \/ HttpgetSends(ok) \/ BrowserSends(ok)
    \/ cleonos_tls_abort_connect
    \/ \E n \in 1 .. Len(hcWire) : Receive(n)
    \/ Silence \/ CloseNotify \/ ReceiveFails \/ Close

-----------------------------------------------------------------------------
\* Whatever pieces a reply comes in, what wget saved and what the browser
\* shows is a beginning of the body the server sent, without a byte of the
\* chunk syntax; and a wget over TCP that reports success for a body whose end
\* is known has all of it.
DocumentIsBody ==
    hc.head \/ hc.result = "ok" =>
        /\ (hcClient.program \in {"wget", "browser"} /\ hc.saved # <<"redirect">>) => IsPrefix(hc.saved, hcReply.body)
        /\ (hcClient.program = "wget" /\ ~Tls /\ hc.result = "ok" /\ hcReply.framing \notin {"none", "gzip"}) => hc.saved = hcReply.body

\* A client that is done has closed its connection and freed the TLS contexts,
\* whichever step failed.
ConnectionsEnd == hc.at = "done" => hcConn = NoConn
==============================================================================
