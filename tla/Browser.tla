------------------------------ MODULE Browser -------------------------------
(***************************************************************************)
(* The browser's session (apps/browser): the page shown and the history,   *)
(* relative links, forms and what a submission sends, cookies and the       *)
(* bearer token.  How the bytes of a reply are received is in HttpClient,   *)
(* how a page is laid out in BrowserPage.                                  *)
(*                                                                         *)
(* A source is an http or https address or a local path; its path is a     *)
(* sequence of names with a flag for a slash at the end.  A host stands for *)
(* host and port.  A query holds no slash.                                 *)
(***************************************************************************)
EXTENDS Integers, Sequences, SequencesExt

CONSTANTS
    BrPages,        \* pages a load may bring: [links, post, action, fields]
    BrSetCookies,   \* the Set-Cookie lines a reply may have: sequences
    BrStart,        \* sources given on the command line
    BrTyped,        \* what is typed at the prompt as a target: hrefs
    BrValues,       \* values typed for a field: sequences of characters
    BrPrefixes,     \* <<a, b>>: the name a is a beginning of the name b
    BrSubdomains,   \* <<h, d>>: the host h is below the domain d
    HISTORY_MAX,    \* USH_BROWSER_HISTORY_MAX
    COOKIE_MAX,     \* USH_BROWSER_COOKIE_MAX
    COOKIE_HEADER_MAX,  \* cookies that fit USH_BROWSER_COOKIE_HEADER_MAX
    BODY_MAX,       \* USH_BROWSER_FORM_BODY_MAX
    SEG_MAX,        \* USH_BROWSER_SEG_MAX
    SOURCE_MAX      \* USH_BROWSER_SOURCE_MAX, for the address of a form's answer

VARIABLES
    brAt,       \* "load", "prompt" or "done"
    brSource,   \* current_source
    brHist,     \* history
    brView,     \* source_mode
    brOnce,     \* loaded_once
    brPend,     \* pending_post, pending_body, pending_body_len
    brPage,     \* the page loaded last
    brForms,    \* the page whose links and forms are listed, with the values typed
    brCookies,  \* ush_browser_cookies, up to ush_browser_cookie_count
    brToken,    \* ush_browser_bearer_token
    brReq       \* the request sent last, and the command that led to it
brVars == <<brAt, brSource, brHist, brView, brOnce, brPend, brPage, brForms, brCookies, brToken, brReq>>

-----------------------------------------------------------------------------
(* Links (browser_url.c).  A resolution is a set: empty when it fails.      *)

\* "." goes, ".." takes the name before it; the slash at the end is lost.
ush_browser_normalize_slash_path(path) ==
    LET step(acc, seg) ==
            IF seg = "." \/ acc = {} THEN acc
            ELSE LET p == CHOOSE q \in acc : TRUE
                 IN  IF seg = ".." THEN {IF p = <<>> THEN p ELSE Front(p)}
                     ELSE IF Len(p) >= SEG_MAX THEN {} ELSE {Append(p, seg)}
    IN  FoldLeft(step, {<<>>}, path)

\* The directory of a path: what stands before its last slash.
DirOf(path, slash) == IF slash \/ path = <<>> THEN path ELSE Front(path)

ush_browser_join_relative_path(path, slash, rel) == ush_browser_normalize_slash_path(DirOf(path, slash) \o rel)

ush_browser_resolve_http_href(base, h) ==
    CASE h.type = "frag" -> {base}
      [] h.type = "net" -> {[base EXCEPT !.host = h.host, !.path = h.path, !.slash = h.slash, !.query = h.query]}
      [] h.type = "query" -> {[base EXCEPT !.query = h.query]}
      [] h.type = "root" -> {[base EXCEPT !.path = p, !.slash = FALSE, !.query = h.query] :
                                p \in ush_browser_normalize_slash_path(h.path)}
      [] OTHER -> {[base EXCEPT !.path = p, !.slash = FALSE, !.query = h.query] :
                      p \in ush_browser_join_relative_path(base.path, base.slash, h.path)}

File(path, query) == [http |-> FALSE, tls |-> FALSE, host |-> "", path |-> path, slash |-> FALSE, query |-> query]

ush_browser_resolve_local_href(base, h) ==
    LET abs == LET n == ush_browser_normalize_slash_path(base.path) IN IF n = {} THEN base.path ELSE CHOOSE p \in n : TRUE
    IN  CASE h.type = "frag" -> {base}
          [] h.type \in {"root", "net"} -> {File(p, h.query) : p \in ush_browser_normalize_slash_path(h.path)}
          [] h.type = "query" -> {File(abs, <<>>)}
          [] OTHER -> {File(p, h.query) : p \in ush_browser_join_relative_path(abs, FALSE, h.path)}

ush_browser_resolve_href(base, h) ==
    IF h.type = "abs" THEN {h.source}
    ELSE IF base.http THEN ush_browser_resolve_http_href(base, h) ELSE ush_browser_resolve_local_href(base, h)

-----------------------------------------------------------------------------
(* Forms (browser_form.c).                                                 *)

\* Mutant: a character that divides the fields is left as it is.
IsUnreservedWide(c) == c \notin {"%", "+", " "}

ush_browser_form_is_unreserved(c) == c \notin {"&", "=", "%", "+", " "}

\* One unit of an encoded text: a character, "+" for a space, or an escape.
Escape(c) == IF ush_browser_form_is_unreserved(c) THEN [w |-> 1, u |-> c]
             ELSE IF c = " " THEN [w |-> 1, u |-> "+"] ELSE [w |-> 3, u |-> <<"%", c>>]
Plain(c) == [w |-> 1, u |-> c]
ush_browser_form_urlenc_append(text) == [i \in DOMAIN text |-> Escape(text[i])]

Sends(f) == f.successful /\ f.name # <<>>
FieldText(f) == ush_browser_form_urlenc_append(f.name) \o <<Plain("=")>> \o ush_browser_form_urlenc_append(f.value)
Width(units) == FoldLeft(LAMBDA n, x : n + x.w, 0, units)

\* The body as far as it fits, and whether all of it did.
ush_browser_form_build_body(fields) ==
    LET sent == SelectSeq(fields, Sends)
        whole == FoldLeft(LAMBDA acc, f : (IF acc = <<>> THEN acc ELSE Append(acc, Plain("&"))) \o FieldText(f), <<>>, sent)
        fit == {n \in 0 .. Len(whole) : Width(SubSeq(whole, 1, n)) < BODY_MAX}
    IN  [ok |-> Len(whole) \in fit,
         units |-> SubSeq(whole, 1, CHOOSE n \in fit : \A m \in fit : m <= n)]

\* A form that is not posted: its fields go behind the query there is, when the
\* address then fits.
AddressWidth(s) == Len(s.path) + FoldLeft(LAMBDA n, units : n + 1 + Width(units), 0, s.query)
ush_browser_form_join_get_url(target, units) ==
    IF AddressWidth(target) + Width(units) + 2 > SOURCE_MAX THEN {}
    ELSE {[target EXCEPT !.query = IF units = <<>> THEN @ ELSE @ \o <<units>>]}

\* What a server makes of a body: name and value of each field.
Unescape(x) == IF x.w = 3 THEN x.u[2] ELSE IF x.u = "+" THEN " " ELSE x.u
RECURSIVE DecodeBody(_)
DecodeBody(units) ==
    IF units = <<>> THEN <<>>
    ELSE LET
             amps == {i \in DOMAIN units : units[i] = Plain("&")} \cup {Len(units) + 1}
             end == CHOOSE i \in amps : \A j \in amps : i <= j
             eqs == {i \in 1 .. end - 1 : units[i] = Plain("=")}
             eq == IF eqs = {} THEN end ELSE CHOOSE i \in eqs : \A j \in eqs : i <= j
             text(a, b) == [i \in 1 .. (IF b < a THEN 0 ELSE b - a + 1) |-> Unescape(units[a + i - 1])]
         IN  <<[name |-> text(1, eq - 1), value |-> text(eq + 1, end - 1)]>> \o DecodeBody(SubSeq(units, end + 1, Len(units)))

Sent(fields) == LET s == SelectSeq(fields, Sends) IN [i \in DOMAIN s |-> [name |-> s[i].name, value |-> s[i].value]]

-----------------------------------------------------------------------------
(* Cookies (browser_cookie.c).                                             *)

ush_browser_cookie_domain_matches(host, domain) == host = domain \/ <<host, domain>> \in BrSubdomains

\* The text of the cookie's path is a beginning of that of the request.
ush_browser_cookie_path_matches(path, cpath) ==
    \/ cpath = <<>>
    \/ /\ Len(path) >= Len(cpath)
       /\ SubSeq(path, 1, Len(cpath) - 1) = Front(cpath)
       /\ path[Len(cpath)] = Last(cpath) \/ <<Last(cpath), path[Len(cpath)]>> \in BrPrefixes

SameCookie(a, b) == a.name = b.name /\ a.domain = b.domain /\ a.path = b.path

\* Mutant: a cookie that is there already gets a second slot.
FindSlotNew(jar, c) == IF Len(jar) < COOKIE_MAX THEN Len(jar) + 1 ELSE COOKIE_MAX

ush_browser_cookie_find_slot(jar, c) ==
    LET same == {i \in DOMAIN jar : SameCookie(jar[i], c)}
    IN  IF same # {} THEN CHOOSE i \in same : \A j \in same : i <= j
        ELSE IF Len(jar) < COOKIE_MAX THEN Len(jar) + 1 ELSE COOKIE_MAX

\* The request's directory, unless the line names a path; the request's host,
\* unless it names a domain.
ush_browser_cookie_store_one(jar, url, set) ==
    LET c == [name |-> set.name, value |-> set.value, secure |-> set.secure,
              domain |-> IF set.domain = "" THEN url.host ELSE set.domain,
              path |-> IF set.path = <<"default">> THEN DirOf(url.path, url.slash) ELSE set.path]
        i == ush_browser_cookie_find_slot(jar, c)
    IN  IF i > Len(jar) THEN Append(jar, c) ELSE [jar EXCEPT ![i] = c]

ush_browser_cookie_store_from_response(jar, url, sets) ==
    FoldLeft(LAMBDA j, s : ush_browser_cookie_store_one(j, url, s), jar, sets)

\* Those that match, in the order of the jar, as many as fit.
ush_browser_cookie_build_header(url) ==
    LET fits(c) == /\ c.value # "" /\ (c.secure => url.tls)
                   /\ ush_browser_cookie_domain_matches(url.host, c.domain)
                   /\ ush_browser_cookie_path_matches(url.path, c.path)
        match == SelectSeq(brCookies, fits)
    IN  IF Len(match) > COOKIE_HEADER_MAX THEN SubSeq(match, 1, COOKIE_HEADER_MAX) ELSE match

-----------------------------------------------------------------------------
(* History and loading (browser_session.c, browser_source.c).              *)

ush_browser_push_history(hist, s) ==
    IF hist # <<>> /\ Last(hist) = s THEN hist
    ELSE Append(IF Len(hist) >= HISTORY_MAX THEN Tail(hist) ELSE hist, s)

NothingPending == [post |-> FALSE, units |-> <<>>, len |-> 0, of |-> <<>>]
NoPage == [links |-> <<>>, post |-> FALSE, action |-> [type |-> "frag"], fields |-> <<>>]

\* A submission that was refused has left its length, and no request to post.
Refused == ~brPend.post /\ brPend.len > 0

\* The bytes sent after the headers: the pending body, or as many bytes as a
\* refused one had, of whatever the buffer holds: an end of text, then what an
\* earlier posted body left behind its first byte, or what the stack held.
BodySent == IF brPend.post THEN [units |-> brPend.units, stale |-> 0] ELSE [units |-> <<>>, stale |-> brPend.len]

\* A load or a rendering that failed: back to the previous page, or the end.
GoBackOrEnd ==
    /\ IF ~brOnce \/ brHist = <<>>
       THEN brAt' = "done" /\ UNCHANGED <<brSource, brHist>>
       ELSE brAt' = "load" /\ brSource' = Last(brHist) /\ brHist' = Front(brHist)
    /\ UNCHANGED <<brView, brOnce, brToken>>

\* A network address is asked for; a local file cannot be posted to.
Ask(sets) ==
    /\ brReq' = [source |-> brSource, post |-> brPend.post, body |-> BodySent, of |-> brPend.of, token |-> brToken,
                 cookies |-> ush_browser_cookie_build_header(brSource), n |-> 1]
    /\ brCookies' = ush_browser_cookie_store_from_response(brCookies, brSource, sets)

LoadFails ==
    /\ brAt = "load"
    /\ \/ brSource.http /\ \E sets \in BrSetCookies : Ask(sets)
       \/ UNCHANGED <<brReq, brCookies>>
    /\ brPend' = NothingPending
    /\ GoBackOrEnd
    /\ UNCHANGED <<brPage, brForms>>

\* Mutant: the pending submission is only cleared when its load failed.
LoadKeepsPending(page) ==
    /\ brAt = "load"
    /\ IF brSource.http THEN \E sets \in BrSetCookies : Ask(sets) ELSE ~brPend.post /\ UNCHANGED <<brReq, brCookies>>
    /\ brPage' = page
    /\ brForms' = IF brView THEN brForms ELSE page
    /\ brOnce' = TRUE /\ brAt' = "prompt"
    /\ UNCHANGED <<brSource, brHist, brView, brToken, brPend>>

\* The links and forms are those of the last page that was rendered.
Load(page) ==
    /\ brAt = "load"
    /\ IF brSource.http THEN \E sets \in BrSetCookies : Ask(sets) ELSE ~brPend.post /\ UNCHANGED <<brReq, brCookies>>
    /\ brPage' = page
    /\ brForms' = IF brView THEN brForms ELSE page
    /\ brOnce' = TRUE /\ brAt' = "prompt"
    /\ brPend' = NothingPending
    /\ UNCHANGED <<brSource, brHist, brView, brToken>>

RenderFails(page) ==
    /\ brAt = "load" /\ ~brView
    /\ IF brSource.http THEN \E sets \in BrSetCookies : Ask(sets) ELSE ~brPend.post /\ UNCHANGED <<brReq, brCookies>>
    /\ brPage' = page /\ brForms' = NoPage
    /\ brPend' = NothingPending
    /\ GoBackOrEnd

-----------------------------------------------------------------------------
(* The prompt.                                                             *)

Quit == brAt = "prompt" /\ brAt' = "done"
        /\ UNCHANGED <<brSource, brHist, brView, brOnce, brPend, brPage, brForms, brCookies, brToken, brReq>>

Reload ==
    /\ brAt = "prompt" /\ brAt' = "load"
    /\ brPend' = NothingPending
    /\ UNCHANGED <<brSource, brHist, brView, brOnce, brPage, brForms, brCookies, brToken, brReq>>

\* Mutant: the view changes without the page being loaded again.
ViewOnly(source) ==
    /\ brAt = "prompt"
    /\ brView' = source
    /\ UNCHANGED <<brAt, brSource, brHist, brOnce, brPend, brPage, brForms, brCookies, brToken, brReq>>

\* "v" and "render" load the page again; the length a refused submission left
\* stays pending.
View(source) ==
    /\ brAt = "prompt" /\ brAt' = "load"
    /\ brView' = source
    /\ UNCHANGED <<brSource, brHist, brOnce, brPend, brPage, brForms, brCookies, brToken, brReq>>

Back ==
    /\ brAt = "prompt" /\ brHist # <<>>
    /\ brAt' = "load" /\ brSource' = Last(brHist) /\ brHist' = Front(brHist)
    /\ brPend' = NothingPending
    /\ UNCHANGED <<brView, brOnce, brPage, brForms, brCookies, brToken, brReq>>

CookieClear ==
    /\ brAt = "prompt" /\ brCookies' = <<>>
    /\ UNCHANGED <<brAt, brSource, brHist, brView, brOnce, brPend, brPage, brForms, brToken, brReq>>

Token(t) ==
    /\ brAt = "prompt" /\ brToken' = t
    /\ UNCHANGED <<brAt, brSource, brHist, brView, brOnce, brPend, brPage, brForms, brCookies, brReq>>

ush_browser_form_set_value(i, v) ==
    /\ brAt = "prompt" /\ ~brView
    /\ i \in DOMAIN brForms.fields /\ Sends(brForms.fields[i])
    /\ brForms' = [brForms EXCEPT !.fields[i].value = v]
    /\ UNCHANGED <<brAt, brSource, brHist, brView, brOnce, brPend, brPage, brCookies, brToken, brReq>>

\* Any navigation from the prompt: the page left goes to the history.
Go(target, pend) ==
    /\ brHist' = ush_browser_push_history(brHist, brSource)
    /\ brSource' = target /\ brView' = FALSE /\ brPend' = pend /\ brAt' = "load"
    /\ UNCHANGED <<brOnce, brPage, brForms, brCookies, brToken, brReq>>

\* A submission whose body or whose address does not fit is refused, and leaves
\* the length of what was built of the body.
ush_browser_form_submit ==
    /\ brAt = "prompt" /\ ~brView /\ brForms # NoPage
    /\ LET body == ush_browser_form_build_body(brForms.fields)
           targets == ush_browser_resolve_href(brSource, brForms.action)
           sources == IF brForms.post THEN targets
                      ELSE UNION {ush_browser_form_join_get_url(t, body.units) : t \in targets}
       IN  IF ~body.ok \/ sources = {}
           THEN /\ brPend' = [brPend EXCEPT !.len = IF targets = {} THEN 0 ELSE Width(body.units)]
                /\ UNCHANGED <<brAt, brSource, brHist, brView, brOnce, brPage, brForms, brCookies, brToken, brReq>>
           ELSE \E t \in sources :
                  Go(t, IF brForms.post
                        THEN [post |-> TRUE, units |-> body.units, len |-> Width(body.units), of |-> Sent(brForms.fields)]
                        ELSE NothingPending)

\* A link by its number.
FollowLink(i) ==
    /\ brAt = "prompt" /\ ~brView /\ i \in DOMAIN brForms.links
    /\ \E t \in ush_browser_resolve_href(brSource, brForms.links[i]) : t # brSource /\ Go(t, NothingPending)

\* A target that is typed: an address or a path from the root is taken as it
\* is, anything else relative to the page.
Open(h) ==
    /\ brAt = "prompt"
    /\ LET rel == ush_browser_resolve_href(brSource, h)
           t == IF h.type = "abs" THEN h.source
                ELSE IF h.type \in {"root", "net"} THEN File(h.path, h.query)
                ELSE IF rel # {} THEN CHOOSE s \in rel : TRUE ELSE File(h.path, h.query)
       IN  t # brSource /\ Go(t, NothingPending)

-----------------------------------------------------------------------------
BrInit ==
    /\ brAt = "load" /\ brSource \in BrStart /\ brHist = <<>> /\ brView \in BOOLEAN /\ brOnce = FALSE
    /\ brPend = NothingPending /\ brPage = NoPage /\ brForms = NoPage /\ brCookies = <<>> /\ brToken = ""
    /\ brReq = [n |-> 0]

BrNext ==
    \/ LoadFails
    \/ \E p \in BrPages : Load(p) \/ RenderFails(p)
    \/ Quit \/ Reload \/ Back \/ CookieClear
    \/ View(~brView) \/ (brView /\ View(FALSE))
    \/ \E t \in {"", "t"} : Token(t)
    \/ \E i \in DOMAIN brForms.fields, v \in BrValues : ush_browser_form_set_value(i, v)
    \/ ush_browser_form_submit
    \/ \E i \in DOMAIN brForms.links : FollowLink(i)
    \/ \E h \in BrTyped : Open(h)

-----------------------------------------------------------------------------
\* When links are followed and forms filled in by number, the numbers are those
\* of the page that is shown: whatever was loaded, failed or viewed as source
\* in between, the rendered view lists the page loaded last.
LinksAreOfShownPage ==
    brAt = "prompt" /\ ~brView => brForms.links = brPage.links /\ brForms.action = brPage.action

\* A form is posted by the load that follows its submission and by no other: at
\* the prompt nothing waits to be posted, whether that load succeeded, failed or
\* returned to the page before, and a server reads from the body exactly the
\* fields that were filled in.
PostedOnce ==
    /\ brAt = "prompt" => ~brPend.post
    /\ brReq.n = 1 /\ brReq.post => DecodeBody(brReq.body.units) = brReq.of

\* A request that posts nothing carries no body, with one exception of the code:
\* after a submission was refused for its length, "v" or "render" sends as many
\* bytes of the buffer as were counted (browser_session.c:437, 291).  Only a
\* refusal arms this, and the next load, whatever it is, disarms it.
BodiesAreAskedFor ==
    /\ brAt = "load" /\ brReq' # brReq /\ ~brPend.post =>
          brReq'.body = [units |-> <<>>, stale |-> IF Refused THEN brPend.len ELSE 0]
    /\ brAt = "load" => ~Refused'
    /\ ~Refused /\ Refused' =>
          /\ brAt = "prompt" /\ brAt' = "prompt" /\ ~brView
          /\ \/ ~ush_browser_form_build_body(brForms.fields).ok
             \/ ~brForms.post

\* A cookie is in the jar once: the value sent for a name, domain and path is
\* the one set last, also when the jar is full.
CookiesUnique == \A i, j \in DOMAIN brCookies : SameCookie(brCookies[i], brCookies[j]) => i = j
==============================================================================
