--------------------------------- MODULE Dns ---------------------------------
(***************************************************************************)
(* Looking a host up, as wget, httpget, the browser and nslookup each do    *)
(* with their own copy of the same code: one UDP query to the server the    *)
(* kernel names, then datagrams are read until one answers or the time is   *)
(* over.  Datagrams are lost, doubled, late or from elsewhere, cut to the    *)
(* buffer, and their names are compressed as the server likes.              *)
(*                                                                         *)
(* A message is its header fields and a sequence of cells: a label is its   *)
(* length and that many cells, Ptr and an offset a compression pointer, 0   *)
(* the end of a name; the fixed part of a record is its type and its data's *)
(* length, that of a question its type.                                    *)
(***************************************************************************)
EXTENDS Integers, Sequences, FiniteSets

CONSTANTS
    DnsPrograms,     \* a subset of {"wget", "httpget", "browser", "nslookup"}
    DnsHosts,        \* host names: sequences of labels, a label its length
    DnsAddrs,        \* addresses
    DNS_DEPTH,       \* labels and pointers a name may take, 32 in the code
    DNS_PACKET_MAX,  \* cells the buffer holds
    DnsMaxTick,      \* bound: timer ticks
    DnsMaxNet        \* bound: datagrams on their way

Ptr == 192
A == 1
CNAME == 5
NoAddr == -1

VARIABLES
    dnsLook,    \* the lookup under way: program, host, txid
    dnsNet,     \* datagrams on their way, each with the reply it carries
    dnsTick,    \* the kernel's timer
    dnsGot      \* what the last lookup gave, and for which host
dnsVars == <<dnsLook, dnsNet, dnsTick, dnsGot>>

NoLook == [on |-> FALSE]

-----------------------------------------------------------------------------
(* Names.                                                                  *)

RECURSIVE EncodeLabels(_)
EncodeLabels(labels) ==
    IF labels = <<>> THEN <<0>> ELSE <<Head(labels)>> \o [i \in 1 .. Head(labels) |-> 9] \o EncodeLabels(Tail(labels))

\* An empty label, and one of more than 63 characters, is refused.
ush_dns_encode_qname(host) == IF host = <<>> \/ \E i \in DOMAIN host : host[i] = 0 THEN <<>> ELSE EncodeLabels(host)

\* The offset after the name at off, or -1.  Offsets count from 0.
RECURSIVE SkipFrom(_, _, _, _, _)
SkipFrom(msg, pos, off, jumped, depth) ==
    LET cell == msg[pos + 1]
    IN  IF depth >= DNS_DEPTH \/ pos >= Len(msg) THEN -1
        ELSE IF cell = 0 THEN (IF jumped THEN off ELSE pos + 1)
        ELSE IF cell = Ptr
        THEN IF pos + 1 >= Len(msg) THEN -1
             ELSE IF msg[pos + 2] >= Len(msg) THEN -1
             ELSE SkipFrom(msg, msg[pos + 2], IF jumped THEN off ELSE pos + 2, TRUE, depth + 1)
        ELSE IF pos + 1 + cell > Len(msg) THEN -1
        ELSE SkipFrom(msg, pos + 1 + cell, IF jumped THEN off ELSE pos + 1 + cell, jumped, depth + 1)

\* Mutant: the name is taken to end where its pointer leads.
SkipNameFollows(msg, off) == IF off >= Len(msg) THEN -1 ELSE
    LET after == SkipFrom(msg, off, off, FALSE, 0)
    IN  IF after > 0 /\ after >= 2 /\ msg[after - 1] = Ptr THEN SkipFrom(msg, msg[after], msg[after], FALSE, 0) ELSE after

ush_dns_skip_name(msg, off) == IF off >= Len(msg) THEN -1 ELSE SkipFrom(msg, off, off, FALSE, 0)

-----------------------------------------------------------------------------
(* Replies.                                                                *)

\* The addresses of the records from off on, in order; those before a record
\* that does not fit are kept.
RECURSIVE Records(_, _, _)
Records(msg, off, count) ==
    LET at == ush_dns_skip_name(msg, off)
    IN  IF count = 0 \/ at < 0 THEN <<>>
        ELSE IF at + 2 > Len(msg) THEN <<>>
        ELSE IF at + 2 + msg[at + 2] > Len(msg) THEN <<>>
        ELSE (IF msg[at + 1] = A /\ msg[at + 2] = 1 THEN <<msg[at + 3]>> ELSE <<>>)
             \o Records(msg, at + 2 + msg[at + 2], count - 1)

\* What a reply gives: nothing for another query's, a query's own echo, or an
\* error code.
ush_dns_parse_response(m, id) ==
    LET body == ush_dns_skip_name(m.cells, 0)
    IN  IF m.id # id \/ ~m.response \/ m.rcode # 0 \/ body < 0 THEN <<>>
        ELSE IF body + 1 > Len(m.cells) THEN <<>>
        ELSE Records(m.cells, body + 1, m.ancount)

\* wget, httpget and the browser take the first address.
ush_wget_dns_parse_first_a(m, id) ==
    LET all == ush_dns_parse_response(m, id) IN IF all = <<>> THEN NoAddr ELSE all[1]
ush_httpget_dns_parse_first_a(m, id) == ush_wget_dns_parse_first_a(m, id)
ush_browser_dns_parse_first_a(m, id) == ush_wget_dns_parse_first_a(m, id)

Parsed(program, m, id) ==
    CASE program = "wget" -> ush_wget_dns_parse_first_a(m, id)
      [] program = "httpget" -> ush_httpget_dns_parse_first_a(m, id)
      [] program = "browser" -> ush_browser_dns_parse_first_a(m, id)
      [] OTHER -> LET all == ush_dns_parse_response(m, id) IN IF all = <<>> THEN NoAddr ELSE all[1]

-----------------------------------------------------------------------------
(* The server and the net.                                                 *)

\* A record for a name, which is spelled out or points at the question.
Record(host, plain, r) ==
    (IF plain THEN EncodeLabels(host) ELSE <<Ptr, 0>>)
    \o (IF r = CNAME THEN <<CNAME, 2, Ptr, 0>> ELSE <<A, 1, r>>)

\* Replies to a query: an alias first or not, one or two addresses, or an error.
Replies(id, host) ==
    LET q == EncodeLabels(host) \o <<A>>
        Msg(rcode, cells, n) == [id |-> id, response |-> TRUE, rcode |-> rcode, ancount |-> n, cells |-> cells]
    IN  {Msg(3, q, 0)}
        \cup {Msg(0, q \o Record(host, p, CNAME) \o Record(host, p, a) \o Record(host, ~p, b), 3) :
                p \in BOOLEAN, <<a, b>> \in {ab \in DnsAddrs \X DnsAddrs : ab[1] # ab[2]}}
        \cup {Msg(0, q \o Record(host, FALSE, a), 1) : a \in DnsAddrs}
        \cup {Msg(0, <<Ptr, 0, A>>, 1)}

\* The first address a reply really holds, read off its records.
FirstAddress(m) ==
    LET at == {i \in 1 .. Len(m.cells) - 2 : m.cells[i] = A /\ m.cells[i + 1] = 1 /\ m.cells[i + 2] \in DnsAddrs}
    IN  IF at = {} THEN NoAddr ELSE m.cells[(CHOOSE i \in at : \A j \in at : i <= j) + 2]

\* udp_send: the id is made of the timer, and of a constant of the program's.
Query(program, host, m, lost) ==
    /\ ~dnsLook.on /\ ush_dns_encode_qname(host) # <<>>
    /\ Cardinality(dnsNet) < DnsMaxNet
    /\ dnsLook' = [on |-> TRUE, program |-> program, host |-> host, id |-> <<program, dnsTick>>]
    /\ dnsNet' = IF lost THEN dnsNet ELSE dnsNet \cup {[to |-> host, from |-> "server", m |-> m]}
    /\ dnsGot' = [host |-> <<>>, addr |-> NoAddr, of |-> <<>>, id |-> <<>>]
    /\ UNCHANGED dnsTick

\* udp_recv: a datagram from the server, which may arrive again later, is cut
\* to the buffer and parsed; one from elsewhere, and one that answers nothing,
\* is skipped.
ush_wget_dns_resolve_ipv4(d, again) ==
    /\ dnsLook.on
    /\ dnsNet' = IF again THEN dnsNet ELSE dnsNet \ {d}
    /\ LET cut == [d.m EXCEPT !.cells = SubSeq(@, 1, IF Len(@) > DNS_PACKET_MAX THEN DNS_PACKET_MAX ELSE Len(@))]
           addr == IF d.from = "server" THEN Parsed(dnsLook.program, cut, dnsLook.id) ELSE NoAddr
       IN  IF addr = NoAddr THEN UNCHANGED <<dnsLook, dnsGot>>
           ELSE dnsLook' = NoLook /\ dnsGot' = [host |-> dnsLook.host, addr |-> addr, of |-> d, id |-> dnsLook.id]
    /\ UNCHANGED dnsTick

\* A datagram of somebody else's, with an id that happens to fit.
Stray(a) ==
    /\ dnsLook.on /\ Cardinality(dnsNet) < DnsMaxNet /\ ~ \E d \in dnsNet : d.from # "server"
    /\ dnsNet' = dnsNet \cup {[to |-> dnsLook.host, from |-> "other",
            m |-> [id |-> dnsLook.id, response |-> TRUE, rcode |-> 0, ancount |-> 1,
                   cells |-> EncodeLabels(dnsLook.host) \o <<A>> \o Record(dnsLook.host, FALSE, a)]]}
    /\ UNCHANGED <<dnsLook, dnsTick, dnsGot>>

\* A datagram nobody reads is dropped by the kernel.
Dropped(d) == dnsNet' = dnsNet \ {d} /\ UNCHANGED <<dnsLook, dnsTick, dnsGot>>

TickPasses == dnsTick < DnsMaxTick /\ ~dnsLook.on /\ dnsTick' = dnsTick + 1 /\ UNCHANGED <<dnsLook, dnsNet, dnsGot>>

\* The deadline, or the number of rounds, is over.
DnsTimeout == dnsLook.on /\ dnsLook' = NoLook /\ UNCHANGED <<dnsNet, dnsTick, dnsGot>>

DnsInit ==
    /\ dnsLook = NoLook /\ dnsNet = {} /\ dnsTick = 0
    /\ dnsGot = [host |-> <<>>, addr |-> NoAddr, of |-> <<>>, id |-> <<>>]

DnsNext ==
    \/ \E p \in DnsPrograms, h \in DnsHosts, lost \in BOOLEAN :
         \E m \in Replies(<<p, dnsTick>>, h) : Query(p, h, m, lost)
    \/ \E d \in dnsNet, again \in BOOLEAN : ush_wget_dns_resolve_ipv4(d, again)
    \/ \E d \in dnsNet : Dropped(d)
    \/ \E a \in DnsAddrs : Stray(a)
    \/ TickPasses \/ DnsTimeout

-----------------------------------------------------------------------------
\* The address a lookup gives is the first one of a reply of the server to a
\* query with this id, never a stray's; and every whole reply to the lookup is
\* read right, with aliases skipped and names compressed in any way.
DnsFindsAddress ==
    /\ dnsGot.addr # NoAddr =>
         /\ dnsGot.of.from = "server" /\ dnsGot.of.m.id = dnsGot.id
         /\ dnsGot.addr = FirstAddress(dnsGot.of.m)
    /\ \A d \in dnsNet :
         (dnsLook.on /\ d.m.id = dnsLook.id /\ Len(d.m.cells) <= DNS_PACKET_MAX) =>
            Parsed(dnsLook.program, d.m, dnsLook.id) = FirstAddress(d.m)
==============================================================================
