-------------------------------- MODULE Name --------------------------------
(***************************************************************************)
(* From options to addresses: name.c, the resolver of common-utils.c       *)
(* (lz_resolve_ip6) and the options' numbers, as socket_connect,           *)
(* socket_listen and socket_server_event_handler use them.                 *)
(*                                                                         *)
(* The program first sets and reads options; then a client and a server    *)
(* with these options connect and listen.  Each call is one step, so the   *)
(* resolver's cache of a transport is used by one thread at a time.  The   *)
(* calls of the C library and the kernel have every outcome they document. *)
(***************************************************************************)
EXTENDS Numbers, Sequences, FiniteSetsExt

CONSTANTS
    Texts,       \* texts of numeric options
    Options,     \* the options of a run
    Ids,         \* host addresses
    Me,          \* the client's own
    MaxAddrs,    \* bound: addresses of a host
    DEFAULT_SOCKET_LISTEN_PORT,
    CLIENT_PORT_CEILING,
    NULL, Junk

ASSUME TextAssumption == \A t \in Texts : IsText(t)

ASSUME PortAssumption ==
    /\ DEFAULT_SOCKET_LISTEN_PORT \in Values(FALSE, 16)
    /\ CLIENT_PORT_CEILING \in 2 .. MaxOf(FALSE, 16)

ASSUME AddrsAssumption == MaxAddrs \in Nat \ {0}

VARIABLES
    options,     \* globals_ctx->options, once the transports use them
    text,        \* an option that holds a number ...
    value,       \* ghost: ... and the number it was set to
    got,         \* what the program last read from it
    cache,       \* this->dnscache of the client
    offered,     \* ghost: addresses returned since getaddrinfo was last called
    client,      \* the client transport
    server,      \* the listening transport
    accepted     \* the transport of the client's connection at the server

vars == <<options, text, value, got, cache, offered, client, server, accepted>>

Idle == [at |-> "idle"]
Fail == [ok |-> FALSE]

Address(fam, id, port) == [fam |-> fam, mapped |-> FALSE, id |-> id, port |-> port]
UnixAddress(path) == Address("UNIX", path, 0)

\* A set of outcomes, plus failure.
OrFail(S) == S \cup {Fail}

-----------------------------------------------------------------------------
(* Options that hold numbers.                                               *)

StringReaders ==
    [fn : {"intN"}, signed : {TRUE}, w : Widths]
    \cup [fn : {"uintN", "uintN_base10"}, signed : {FALSE}, w : Widths]
    \cup [fn : {"long", "longlong", "str_to_long_long"}, signed : {TRUE}, w : {64}]
    \cup [fn : {"ulong", "ulonglong", "ulong_base10", "bytesize"}, signed : {FALSE}, w : {64}]
    \cup [fn : {"int"}, signed : {TRUE}, w : {32}]
    \cup [fn : {"uint", "uint_base10", "time", "percent"}, signed : {FALSE}, w : {32}]

DictTypes == [signed : {TRUE}, w : Widths] \cup [signed : {FALSE}, w : Widths \ {8}]
DictReaders == {[fn |-> f, signed |-> ty.signed, w |-> ty.w] :
                    f \in {"dict_get", "data_to"}, ty \in DictTypes}

ReadText(r, t) ==
    CASE r.fn = "intN" -> string2intN(t, r.w)
      [] r.fn = "uintN" -> string2uintN(t, r.w)
      [] r.fn = "uintN_base10" -> string2uintN_base10(t, r.w)
      [] r.fn = "long" -> string2long(t, 0)
      [] r.fn = "ulong" -> string2ulong(t, 0)
      [] r.fn = "ulong_base10" -> string2ulong(t, 10)
      [] r.fn = "longlong" -> string2longlong(t, 0)
      [] r.fn = "ulonglong" -> string2ulonglong(t, 0)
      [] r.fn = "int" -> string2int(t)
      [] r.fn = "uint" -> string2uint(t, 0)
      [] r.fn = "uint_base10" -> string2uint(t, 10)
      [] r.fn = "time" -> string2time(t)
      [] r.fn = "percent" -> string2percent(t)
      [] r.fn = "bytesize" -> string2bytesize(t)
      [] r.fn = "str_to_long_long" -> str_to_long_long(t)
      [] r.fn = "dict_get" -> data_to_checked(r.signed, r.w, t)
      [] r.fn = "data_to" -> Accepted(data_to(r.signed, r.w, t))

\* dict_set_int8 ... dict_set_uint64
dict_set_number(ty, v) ==
    /\ options = NULL
    /\ text' = data_from(v)
    /\ value' = v
    /\ got' = NULL
    /\ UNCHANGED <<options, cache, offered, client, server, accepted>>

\* The option comes from a file or a command line.
set_text(t) ==
    /\ options = NULL
    /\ text' = t
    /\ value' = NULL
    /\ got' = NULL
    /\ UNCHANGED <<options, cache, offered, client, server, accepted>>

read_number(r) ==
    /\ options = NULL /\ text # NULL
    /\ got' = [reader |-> r, result |-> ReadText(r, text)]
    /\ UNCHANGED <<options, text, value, cache, offered, client, server, accepted>>

-----------------------------------------------------------------------------
(* lz_resolve_ip6: one address of the host for each call.                   *)

NoList == [first |-> <<>>, next |-> 0]

\* What getaddrinfo may find for a family: different addresses, in any order.
Lists(fam, port) ==
    LET found == {Address(f, id, port) : f \in IF fam = "UNSPEC" THEN {"INET", "INET6"} ELSE {fam},
                                         id \in Ids}
    IN  {l \in UNION {[1 .. n -> found] : n \in 1 .. MaxAddrs} :
            \A i, j \in DOMAIN l : l[i] = l[j] => i = j}

\* A mutant: the list is flushed whenever there is one.
FlushedAlways(c) == NoList

\* A list that is used up is freed.
Flushed(c) == IF c = NULL \/ c.next = 0 THEN NoList ELSE c

\* The outcomes of a call; the cache is freed with its list when getaddrinfo
\* fails, or getnameinfo for this address or for the next.
Resolved(fam, port) ==
    LET c == Flushed(cache)
        probing == c.first = <<>>
        lists == IF probing THEN {[first |-> l, next |-> 1] : l \in Lists(fam, port)} ELSE {c}
        Returned(d) ==
            [ok |-> TRUE, addr |-> d.first[d.next],
             offered |-> Append(IF probing THEN <<>> ELSE offered, d.first[d.next]),
             cache |-> [d EXCEPT !.next = IF d.next = Len(d.first) THEN 0 ELSE d.next + 1]]
        Freed == [ok |-> FALSE, cache |-> NULL, offered |-> <<>>]
        NoService == [ok |-> FALSE, cache |-> c, offered |-> <<>>]
    IN  {Returned(d) : d \in lists} \cup {Freed} \cup IF probing THEN {NoService} ELSE {}

-----------------------------------------------------------------------------
(* The client's address.                                                    *)

FamilyNames == [unix |-> "UNIX", inet |-> "INET", inet6 |-> "INET6",
                inet_sdp |-> "INET_SDP", inet_inet6 |-> "UNSPEC"]
FamilyNamed(name) == IF name \in DOMAIN FamilyNames THEN FamilyNames[name] ELSE NULL

client_fill_address_family ==
    LET path == options.connect_path # NULL
    IN  IF options.family # NULL THEN FamilyNamed(options.family)
        ELSE IF options.remote_host = path THEN NULL
        ELSE IF path THEN "UNIX" ELSE "UNSPEC"

PortOf(t) == IF t = NULL THEN DEFAULT_SOCKET_LISTEN_PORT ELSE data_to(FALSE, 16, t)

\* (uint16_t) -1
NoPort == MaxOf(FALSE, 16)

\* A mutant: every port is good.
AnyRemotePort(fam) ==
    IF options.remote_host THEN Resolved(fam, PortOf(options.remote_port))
    ELSE {[ok |-> FALSE, cache |-> cache, offered |-> offered]}

af_inet_client_get_remote_sockaddr(fam) ==
    IF options.remote_host /\ PortOf(options.remote_port) # NoPort
    THEN Resolved(fam, PortOf(options.remote_port))
    ELSE {[ok |-> FALSE, cache |-> cache, offered |-> offered]}

af_unix_client_get_remote_sockaddr ==
    [ok |-> options.connect_path = "fits", addr |-> UnixAddress("path"),
     cache |-> cache, offered |-> offered]

\* A mutant: the family that the name resolved to is forgotten.
SocketFamilyAsAsked(fam, sockaddr) == fam

\* The family for socket(): the option's, or the address's when it asks for any.
SocketFamily(fam, sockaddr) == IF fam = "UNSPEC" THEN sockaddr.fam ELSE fam

InetFamily(fam) == IF fam = "INET_SDP" THEN "INET" ELSE fam

socket_client_get_remote_sockaddr ==
    /\ options # NULL /\ client.at = "idle"
    /\ LET fam == client_fill_address_family
       IN  \E r \in IF fam = NULL THEN {[ok |-> FALSE, cache |-> cache, offered |-> offered]}
                    ELSE IF fam = "UNIX" THEN {af_unix_client_get_remote_sockaddr}
                    ELSE af_inet_client_get_remote_sockaddr(InetFamily(fam)) :
               /\ cache' = r.cache
               /\ offered' = r.offered
               /\ client' = IF r.ok THEN [at |-> "resolved", peer |-> r.addr,
                                          family |-> SocketFamily(fam, r.addr)]
                            ELSE client
    /\ UNCHANGED <<options, text, value, got, server, accepted>>

\* From the ceiling downwards, up to the first port that bind does not find
\* in use: bound there, or not at all (0) when bind says EACCES.
af_inet_bind_to_port_lt_ceiling(ports) ==
    LET tried == {p \in DOMAIN ports : ports[p] # "EADDRINUSE"}
    IN  IF tried # {} /\ ports[Max(tried)] = "ok" THEN Max(tried) ELSE 0

af_unix_client_bind ==
    IF options.bind_path = "fits" THEN OrFail({[ok |-> TRUE, name |-> UnixAddress("bound")]})
    ELSE {[ok |-> TRUE, name |-> UnixAddress("")]}

\* The name that the socket has when it connects.  An inet socket that got no
\* port below the ceiling connects from a port that the kernel chooses.
client_bind(fam) ==
    IF fam = "UNIX" THEN af_unix_client_bind
    ELSE {[ok |-> TRUE, name |-> Address(fam, Me, IF p = 0 THEN CLIENT_PORT_CEILING ELSE p)] :
              p \in {af_inet_bind_to_port_lt_ceiling(ports) :
                        ports \in [1 .. CLIENT_PORT_CEILING - 1 -> {"ok", "EADDRINUSE", "EACCES"}]}}

\* The rest of socket_connect: socket, client_bind, connect.
ClientConnect ==
    /\ client.at = "resolved"
    /\ \E b \in OrFail(client_bind(client.peer.fam)) :
           client' = IF b.ok THEN [at |-> "connecting", family |-> client.family,
                                   peer |-> client.peer, mine |-> b.name]
                     ELSE Idle
    /\ UNCHANGED <<options, text, value, got, cache, offered, server, accepted>>

-----------------------------------------------------------------------------
(* The server's address.                                                    *)

server_fill_address_family ==
    IF options.family = NULL THEN "UNSPEC" ELSE FamilyNamed(options.family)

ListenPort(t) ==
    IF PortOf(t) = NoPort THEN DEFAULT_SOCKET_LISTEN_PORT ELSE PortOf(t)

af_inet_server_get_local_sockaddr(fam) ==
    LET port == ListenPort(options.listen_port)
        hosts == IF options.bind_address THEN Ids ELSE {"ANY"}
        fams == IF fam = "UNSPEC" THEN {"INET", "INET6"} ELSE {fam}
        found == {[ok |-> TRUE, addr |-> Address(f, id, port)] : f \in fams, id \in hosts}
    IN  IF fam # "UNSPEC" /\ ~options.bind_address THEN found ELSE OrFail(found)

af_unix_server_get_local_sockaddr ==
    IF options.listen_path = "fits" THEN {[ok |-> TRUE, addr |-> UnixAddress("path")]} ELSE {Fail}

socket_server_get_local_sockaddr ==
    LET fam == server_fill_address_family
    IN  {IF r.ok THEN [ok |-> TRUE, addr |-> r.addr, family |-> SocketFamily(fam, r.addr)] ELSE Fail :
            r \in IF fam = NULL THEN {Fail}
                  ELSE IF fam = "UNIX" THEN af_unix_server_get_local_sockaddr
                  ELSE af_inet_server_get_local_sockaddr(InetFamily(fam))}

\* socket_listen; the socket, its bind or its listen may fail.
ServerListen ==
    /\ options # NULL /\ server.at = "idle"
    /\ \E r \in OrFail(socket_server_get_local_sockaddr) :
           server' = IF r.ok THEN [at |-> "listening", family |-> r.family, addr |-> r.addr]
                     ELSE Idle
    /\ UNCHANGED <<options, text, value, got, cache, offered, client, accepted>>

-----------------------------------------------------------------------------
(* Identifiers: the printed names of a connection's two ends.               *)

\* A mutant: IPv4 addresses in an IPv6 address are printed as such.
UnmappedAsIs(a) == a

\* An IPv4 address in an IPv6 address is printed as the IPv4 address it is.
Unmapped(a) == IF a.mapped THEN Address("INET", a.id, a.port) ELSE a

\* What is printed when getnameinfo fails is whatever the buffers hold.
fill_inet6_inet_identifiers(a) == {Unmapped(a), Junk}

\* Both families become SDP again, whichever the peer's was.
get_transport_identifiers(mine, peer) ==
    LET sdp == mine.fam = "INET_SDP"
        m == IF sdp THEN [mine EXCEPT !.fam = "INET"] ELSE mine
        p == IF sdp THEN [peer EXCEPT !.fam = "INET"] ELSE peer
        prints(a) == IF mine.fam = "UNIX" THEN {a} ELSE fill_inet6_inet_identifiers(a)
    IN  {[mine |-> mine, peer |-> IF sdp THEN [peer EXCEPT !.fam = "INET_SDP"] ELSE peer,
          myid |-> i, peerid |-> j] : i \in prints(m), j \in prints(p)}

\* getsockname and accept on a socket of a family: SDP sockets may say so.
NamesOf(fam, a) == {a} \cup IF fam = "INET_SDP" THEN {[a EXCEPT !.fam = "INET_SDP"]} ELSE {}

\* socket_connect_finish of a connection that is established.
ClientFinish ==
    /\ client.at = "connecting"
    /\ \E mine \in NamesOf(client.family, client.mine) :
           \E c \in get_transport_identifiers(mine, client.peer) :
               client' = [at |-> "connected", family |-> client.family, mine |-> c.mine,
                          peer |-> c.peer, myid |-> c.myid, peerid |-> c.peerid]
    /\ UNCHANGED <<options, text, value, got, cache, offered, server, accepted>>

\* How the server's kernel names an address of the client's.
SeenBy(fam, a) ==
    IF fam = "INET6" /\ a.fam = "INET" THEN [a EXCEPT !.fam = "INET6", !.mapped = TRUE] ELSE a

Reaches ==
    /\ \/ client.family = server.family
       \/ client.family = "INET" /\ server.family = "INET6"
    /\ client.peer.port = server.addr.port
    /\ server.addr.id \in {"ANY", client.peer.id}

\* socket_server_event_handler accepts the client's connection.
Accept ==
    /\ client.at = "connected" /\ server.at = "listening" /\ accepted = NULL
    /\ Reaches
    /\ LET Inet(a) == [a EXCEPT !.fam = InetFamily(@)]
       IN  \E peer \in NamesOf(server.family, SeenBy(server.family, Inet(client.mine))) :
           \E mine \in NamesOf(server.family, SeenBy(server.family, Inet(client.peer))) :
               /\ mine.fam = peer.fam
               /\ accepted' \in get_transport_identifiers(mine, peer)
    /\ UNCHANGED <<options, text, value, got, cache, offered, client, server>>

\* The connection fails or is closed.
ClientCloses ==
    /\ client.at \in {"connecting", "connected"}
    /\ client' = Idle
    /\ accepted' = NULL
    /\ UNCHANGED <<options, text, value, got, cache, offered, server>>

-----------------------------------------------------------------------------
Start ==
    /\ options = NULL
    /\ options' \in Options
    /\ text' = NULL /\ value' = NULL /\ got' = NULL
    /\ UNCHANGED <<cache, offered, client, server, accepted>>

Init ==
    /\ options = NULL
    /\ text = NULL /\ value = NULL /\ got = NULL
    /\ cache = NULL /\ offered = <<>>
    /\ client = Idle /\ server = Idle /\ accepted = NULL

Next ==
    \/ \E ty \in DictTypes : \E v \in Values(ty.signed, ty.w) : dict_set_number(ty, v)
    \/ \E t \in Texts : set_text(t)
    \/ \E r \in StringReaders \cup DictReaders : read_number(r)
    \/ Start
    \/ socket_client_get_remote_sockaddr \/ ClientConnect \/ ClientFinish \/ ClientCloses
    \/ ServerListen \/ Accept

Spec == Init /\ [][Next]_vars

-----------------------------------------------------------------------------
\* The functions of common-utils.c that refuse what their type does not hold,
\* and those that read with strtol; the base in which a function reads.
Exact == {"intN", "uintN", "uintN_base10", "long", "ulong", "ulong_base10", "longlong", "ulonglong"}
ReadSigned == {"intN", "long", "longlong", "int", "time", "percent", "str_to_long_long"}
BaseOf(r) ==
    IF r.fn \in {"uintN_base10", "ulong_base10", "uint_base10", "bytesize"} THEN 10 ELSE 0

\* Whether a function knows what follows the text's digits and its sign.
Suffixes(r) ==
    CASE r.fn = "time" -> {"", "s", "sec"}
      [] r.fn = "percent" -> {"", "%"}
      [] r.fn = "bytesize" -> {""} \cup DOMAIN Unit
      [] OTHER -> {""}
Known(r, t) ==
    \/ r.fn = "str_to_long_long"
    \/ t.tail[BaseOf(r)] \in Suffixes(r) /\ (r.signed \/ ~t.minus)

\* The factor that the text's unit stands for, and the number with its unit.
Factor(r, t) ==
    LET unit == IF r.fn = "str_to_long_long" THEN t.lead
                ELSE IF r.fn = "bytesize" THEN t.tail[10]
                ELSE ""
    IN  IF unit \in DOMAIN Unit THEN Unit[unit] ELSE 1
Meaning(r, t) == Number(t, BaseOf(r)) * Factor(r, t)

\* The 64-bit integer nearest to a number.
Nearest(signed, n) ==
    IF n > MaxOf(signed, 64) THEN MaxOf(signed, 64)
    ELSE IF n < MinOf(signed, 64) THEN MinOf(signed, 64)
    ELSE n

\* What the functions of common-utils.c make of a text.  Each reads a number
\* that its type holds as that number.  The sized ones and those for a long
\* refuse every other.  The rest refuse what they do not know and numbers of
\* more than 64 bits, and cut down to their type whatever the product with the
\* unit is; lz_str_to_long_long replaces instead of refusing.
StringConverted(r, t, result) ==
    LET known == Known(r, t)
        n == Meaning(r, t)
        long == Number(t, BaseOf(r)) \in Values(r.fn \in ReadSigned, 64)
    IN  /\ known /\ n \in Values(r.signed, r.w) => result = Accepted(n)
        /\ r.fn \in Exact /\ ~(known /\ n \in Values(r.signed, r.w)) => result = Refused
        /\ r.fn \notin Exact \cup {"str_to_long_long"} =>
               result = IF known /\ long THEN Accepted(Cast(r.signed, r.w, n)) ELSE Refused
        /\ r.fn = "str_to_long_long" =>
               result = Accepted(Cast(TRUE, 64, Nearest(TRUE, Number(t, 0)) * Factor(r, t)))

\* What the getters of a dict make of any text, written by a setter or not:
\* its number is cut down to their type.  dict_get_int8 and the others refuse a
\* number of more than 64 bits, data_to_int8 and the others cut down the
\* nearest one that has 64 bits, of an unsigned long for data_to_int32 and
\* data_to_int64 and of a signed one for data_to_uint16 and the wider ones.
\* What follows the number is ignored.
DictConverted(r, t, result) ==
    LET n == Number(t, 0)
        signed == IF r.fn = "dict_get" THEN r.signed ELSE ~r.signed \/ r.w < 32
        read == IF signed THEN n ELSE t.num[0]
        long == read \in Values(signed, 64)
    IN  /\ long => result = Accepted(Cast(r.signed, r.w, n))
        /\ ~long /\ r.fn = "dict_get" => result.ret = -1
        /\ ~long /\ r.fn = "data_to" => result = Accepted(Cast(r.signed, r.w, Nearest(signed, read)))

\* A number that a program stores in a dict with a setter of any type is read
\* back unchanged by a getter of every type that holds it.  data_to_uint64
\* reads a signed number, and gives the largest one for what is beyond it.
StoredNumberRead ==
    got # NULL /\ got.reader \in DictReaders /\ value # NULL =>
        LET r == got.reader
        IN  value \in Values(r.signed, r.w) =>
                got.result = Accepted(
                    IF r.fn = "data_to" /\ ~r.signed /\ r.w = 64 /\ value > MaxOf(TRUE, 64)
                    THEN MaxOf(TRUE, 64) ELSE value)

\* What a program reads from an option: a number that the type it reads holds
\* arrives as it was written or set, but for data_to_uint64; any other one is
\* refused, or silently replaced in the ways that StringConverted and
\* DictConverted list, and in no other way.
NumbersConverted ==
    /\ got # NULL /\ got.reader \in StringReaders => StringConverted(got.reader, text, got.result)
    /\ got # NULL /\ got.reader \in DictReaders => DictConverted(got.reader, text, got.result)
    /\ StoredNumberRead

\* A socket is made for the family of the address it connects or binds to
\* (an SDP socket uses IPv4 addresses), whatever the options leave open.
AddressFitsSocket ==
    LET Fits(family, a) == a.fam = InetFamily(family) \/ a.fam = family
    IN  /\ client.at # "idle" => Fits(client.family, client.peer)
        /\ client.at \in {"connecting", "connected"} => Fits(client.family, client.mine)
        /\ server.at = "listening" => Fits(server.family, server.addr)

\* A client and a server that are given the same port text use the same port:
\* a text the server does not listen to as it stands (65535, -1) is one that
\* the client refuses.
SamePort ==
    client.at # "idle" /\ server.at = "listening"
    /\ client.family # "UNIX" /\ server.family # "UNIX"
    /\ options.remote_port = options.listen_port
        => client.peer.port = server.addr.port

\* The two ends of a connection print the same names for it, although the
\* server may see the client's IPv4 address inside an IPv6 one.
IdentifiersMatch ==
    accepted # NULL =>
        /\ Junk \notin {accepted.peerid, client.myid} => accepted.peerid = client.myid
        /\ Junk \notin {accepted.myid, client.peerid} => accepted.myid = client.peerid

\* Attempts to connect go through all the addresses of the host before the
\* name is resolved again, and through none of them twice, as long as the
\* resolver keeps its list: one that lz_resolve_ip6 throws away because
\* getnameinfo fails for the next address (common-utils.c:133) is forgotten,
\* and its remaining addresses are never tried.
AddressesInTurn ==
    [][offered' # offered /\ offered' # <<>> =>
          \/ /\ offered' = Append(offered, client'.peer)
             /\ \A i \in DOMAIN offered : offered[i] # client'.peer
          \/ /\ Len(offered') = 1
             /\ cache # NULL => offered = cache.first]_vars

=============================================================================
