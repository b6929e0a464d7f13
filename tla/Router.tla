------------------------------- MODULE Router -------------------------------
(***************************************************************************)
(* How one request finds its way: the script that pac of core/proxy.go     *)
(* gives the browser, and router.dial behind the SOCKS and HTTP proxies.   *)
(*                                                                         *)
(* The same question, whether a destination belongs to the VPN, is         *)
(* answered twice: by the script, in the browser, from the system's DNS,   *)
(* and by dial, from the VPN's DNS and within one deadline for both        *)
(* lookups.  Requests share nothing but the router, which never changes,   *)
(* so one request at a time is all there is to model.                      *)
(***************************************************************************)
EXTENDS Naturals, Sequences

CONSTANTS
  Plain,   \* host names without a dot
  Dotted,  \* host names with one
  Suffix,  \* DNS suffixes as a gateway may write them
  Tidy,    \* those in lower case, without a dot at either end
  Under,   \* which name is, or lies under, which suffix once that is tidied
  Addr4,   \* IPv4 addresses
  Addr6,   \* other addresses
  Answer   \* what a DNS server may say of a name: a list of addresses

Addr == Addr4 \cup Addr6

ASSUME NameAssumption ==
  /\ Tidy \subseteq Suffix
  /\ Under \subseteq Dotted \X Suffix
  /\ Plain \cap Dotted = {}
  /\ Addr4 \cap Addr6 = {}

ASSUME AnswerAssumption == Answer \subseteq Seq(Addr) /\ <<>> \in Answer

VARIABLES
  suffixes, routes, \* of the router; routes is the set of addresses they hold
  dest,    \* the host a client asks for
  dns,     \* what the two DNS servers say of it while the request lasts
  pc,      \* where the request is
  rule,    \* why it came to the proxy: "name", "route", or "app" without script
  expired, \* dial: has lctx expired?
  ips,     \* dial: the addresses found
  asked,   \* history: the DNS servers that were asked
  source,  \* history: which of them the addresses are from
  conn     \* the connection made, if any

config == <<suffixes, routes>>
vars == <<config, dest, dns, pc, rule, expired, ips, asked, source, conn>>

\* A host name may end in a dot.
HostName == [name : Plain \cup Dotted, rooted : BOOLEAN]
IsName   == dest \notin Addr

NoConn     == [via |-> "none"]
Conn       == {NoConn} \cup [via : {"tunnel", "direct", "browser"}, addr : Addr]
AddrsOf(a) == {a[i] : i \in DOMAIN a}

Go(from, to) == pc = from /\ pc' = to

-----------------------------------------------------------------------------
(* The script, in the browser.                                             *)

Init ==
  /\ suffixes \in SUBSET Suffix /\ routes \in SUBSET Addr4
  /\ dest \in HostName /\ dns = [vpn |-> <<>>, public |-> <<>>]
  /\ pc = "idle" /\ rule = "app"
  /\ expired = FALSE /\ ips = <<>> /\ asked = {}
  /\ source = "none" /\ conn = NoConn

\* A browser asks the script first; programs that are told to use the SOCKS or
\* HTTP proxy ask nobody.  The resolver of vstack asks for IPv4 addresses only.
RequestOf(vpn) ==
  /\ \E start \in {"script", "dial"} : Go("idle", start)
  /\ dest' \in HostName \cup Addr
  /\ dns' \in [vpn : vpn, public : Answer]
  /\ rule' = "app"
  /\ UNCHANGED <<config, expired, ips, asked, source, conn>>

\* Mutant: it asks for addresses of any kind.
RequestAny == RequestOf(Answer)

Request == RequestOf({a \in Answer : AddrsOf(a) \subseteq Addr4})

\* dnsResolve gives one IPv4 address, of those the system's DNS knows.
Resolved == (IF IsName THEN AddrsOf(dns.public) ELSE {dest}) \cap Addr4

\* isPlainHostName and the loop over S: pac tidies the suffixes, but a dot at
\* the end of the host stays.  Browsers differ on an IPv6 literal.
\* Mutant: the routes before the names.
ScriptNameAfterRoutes ==
  /\ IsName /\ ~dest.rooted /\ Resolved \cap routes = {}
  /\ dest.name \in Plain \/ \E s \in suffixes : <<dest.name, s>> \in Under

ScriptName ==
  \/ /\ IsName /\ ~dest.rooted
     /\ dest.name \in Plain \/ \E s \in suffixes : <<dest.name, s>> \in Under
  \/ dest \in Addr6

ByName ==
  /\ Go("script", "dial") /\ ScriptName
  /\ rule' = "name"
  /\ UNCHANGED <<config, dest, dns, expired, ips, asked, source, conn>>

AskSystem == asked' = IF IsName THEN asked \cup {"public"} ELSE asked

\* The loop over R.
ByRoute ==
  /\ ~ScriptName \/ dest \in Addr6
  /\ \/ /\ Go("script", "dial") /\ rule' = "route"
        /\ \E ip \in Resolved : ip \in routes
     \/ /\ Go("script", "browser") /\ UNCHANGED rule
        /\ Resolved = {} \/ \E ip \in Resolved : ip \notin routes
  /\ AskSystem
  /\ UNCHANGED <<config, dest, dns, expired, ips, source, conn>>

\* "PROXY ...; DIRECT": nobody listens any more, the browser goes by itself.
ProxyGone ==
  /\ Go("dial", "browser") /\ rule # "app"
  /\ UNCHANGED <<config, dest, dns, rule, expired, ips, asked, source, conn>>

-----------------------------------------------------------------------------
(* router.dial.                                                            *)

\* internalName compares with the suffixes as the gateway wrote them.
\* Mutant: no case for a bare name.
InternalNameByDot ==
  suffixes = {} \/ \E s \in suffixes \cap Tidy : <<dest.name, s>> \in Under

InternalName ==
  \/ suffixes = {} \/ dest.name \in Plain
  \/ \E s \in suffixes \cap Tidy : <<dest.name, s>> \in Under

DialTo(server) ==
  /\ IF IsName THEN Go("dial", server) /\ UNCHANGED ips
               ELSE Go("dial", "pick") /\ ips' = <<dest>>
  /\ UNCHANGED <<config, dest, dns, rule, expired, asked, source, conn>>

\* Mutant: every name is resolved by the VPN's DNS first.
DialVpnFirst == DialTo("vpn")

Dial == DialTo(IF InternalName THEN "vpn" ELSE "system")

\* The VPN's servers answer, know nothing or fail, or use up the time of lctx.
AskVpn ==
  /\ \/ /\ Go("vpn", "pick") /\ dns.vpn # <<>>
        /\ ips' = dns.vpn /\ source' = "vpn" /\ UNCHANGED expired
     \/ Go("vpn", "system") /\ expired' \in BOOLEAN /\ UNCHANGED <<ips, source>>
  /\ asked' = asked \cup {"vpn"}
  /\ UNCHANGED <<config, dest, dns, rule, conn>>

\* The second lookup runs under the same lctx.
AskPublic ==
  /\ Go("system", "pick")
  /\ \/ ~expired /\ ips' = dns.public /\ source' = "public"
     \/ UNCHANGED <<ips, source>>
  /\ asked' = IF expired THEN asked ELSE asked \cup {"public"}
  /\ UNCHANGED <<config, dest, dns, rule, expired, conn>>

\* viaVPN, of each address in turn.  Mutant: of the first one only.
RoutedFirst(i) == i = 1 /\ ips[i] \in routes
Routed(i) == ips[i] \in routes

\* The first address inside a route decides.
Pick ==
  /\ \/ /\ Go("pick", "done")
        /\ \E i \in DOMAIN ips :
             /\ Routed(i) /\ \A j \in 1 .. i - 1 : ~Routed(j)
             /\ conn' \in {NoConn, [via |-> "tunnel", addr |-> ips[i]]}
     \/ /\ Go("pick", "direct") /\ UNCHANGED conn
        /\ \A i \in DOMAIN ips : ~Routed(i)
  /\ UNCHANGED <<config, dest, dns, rule, expired, ips, asked, source>>

\* direct.DialContext is given the name again, not the addresses found.
\* A browser left to itself does the same.
Direct ==
  /\ \E via \in {"direct", "browser"} :
       /\ Go(via, "done")
       /\ conn' \in {NoConn} \cup [via : {via},
            addr : IF IsName THEN AddrsOf(dns.public) ELSE {dest}]
  /\ AskSystem
  /\ UNCHANGED <<config, dest, dns, rule, expired, ips, source>>

\* pipe has ended, or the client got its error.
Done ==
  /\ Go("done", "idle")
  /\ expired' = FALSE /\ ips' = <<>> /\ asked' = {} /\ source' = "none" /\ conn' = NoConn
  /\ dns' = [vpn |-> <<>>, public |-> <<>>] /\ rule' = "app"
  /\ UNCHANGED <<config, dest>>

Next == \/ Request \/ ByName \/ ByRoute \/ ProxyGone
        \/ Dial \/ AskVpn \/ AskPublic \/ Pick \/ Direct \/ Done

Spec == Init /\ [][Next]_vars

-----------------------------------------------------------------------------
(* Properties.                                                             *)

\* Types; what comes from the VPN's servers are IPv4 addresses ("ip4").
TypeOK ==
  /\ suffixes \subseteq Suffix /\ routes \subseteq Addr4
  /\ dest \in HostName \cup Addr
  /\ dns \in [vpn : Answer, public : Answer]
  /\ pc \in {"idle", "script", "browser", "dial", "vpn", "system", "pick",
             "direct", "done"}
  /\ rule \in {"name", "route", "app"}
  /\ expired \in BOOLEAN
  /\ ips \in Seq(Addr) /\ (source = "vpn" => AddrsOf(ips) \subseteq Addr4)
  /\ asked \subseteq {"vpn", "public"} /\ source \in {"none", "vpn", "public"}
  /\ conn \in Conn

\* A gateway that names its domains never hears of a name outside of them.
\* ("so the VPN operator doesn't see every hostname you visit")
UnderAny(names) == \E s \in names : <<dest.name, s>> \in Under

PublicNamesStayPublic ==
  "vpn" \in asked => suffixes = {} \/ dest.name \in Plain \/ UnderAny(suffixes)

\* The script and dial agree on names: what the script sends to the proxy for its
\* name is looked up by the VPN's DNS, but for a suffix that pac had to tidy.
NamesAgree ==
  rule = "name" /\ IsName /\ pc \in {"system", "pick", "direct"}
    => "vpn" \in asked \/ UnderAny(suffixes \ Tidy)

\* And on routes: what the script sends there for its address goes through the
\* tunnel, unless the VPN's DNS tells another address or no address is found.
RoutesAgree ==
  rule = "route" /\ ips # <<>> /\ conn.via = "direct" => "vpn" \in asked

\* An internal name that the VPN's DNS places inside the routes is heard of by no
\* other server, from the script to the connection.
InternalNamesStayInside ==
  /\ IsName /\ ~dest.rooted /\ (dest.name \in Plain \/ UnderAny(suffixes \cap Tidy))
  /\ source = "vpn" /\ conn.via = "tunnel"
  => asked = {"vpn"}

\* Expected to fail: dial sends what lies inside the routes into the tunnel, at
\* least if all servers agree that it does.  ("dial sends destinations inside the
\* gateway's routes into the tunnel".)  When the first lookup has used up lctx the
\* second one finds nothing, and direct, under its own deadline, resolves the name
\* once more and connects to the address outside of the tunnel.
RoutedIsTunnelled ==
  LET known == AddrsOf(dns.vpn) \cup AddrsOf(dns.public)
  IN  IsName /\ expired /\ conn.via = "direct" => ~(known \subseteq routes)
=============================================================================
