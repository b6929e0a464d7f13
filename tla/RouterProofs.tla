---------------------------- MODULE RouterProofs ----------------------------
(***************************************************************************)
(* Proofs about Router, for any names, suffixes, routes and answers.       *)
(***************************************************************************)
EXTENDS Router, TLAPS

\* A name that the script and internalName both take for an internal one.
Inside ==
  /\ IsName /\ ~dest.rooted
  /\ dest.name \in Plain \/ UnderAny(suffixes \cap Tidy)

\* Nothing is left of the request before.
Fresh ==
  /\ pc \in {"idle", "script"} => asked = {}
  /\ pc \in {"idle", "script", "browser", "dial", "vpn", "system"} =>
       source = "none" /\ ips = <<>>
  /\ pc # "done" => conn = NoConn

\* What the script's verdict says of the destination.
Verdict ==
  /\ rule = "name" /\ IsName =>
       ~dest.rooted /\ (dest.name \in Plain \/ UnderAny(suffixes))
  /\ rule = "route" => ~Inside /\ \E ip \in Resolved : ip \in routes
  /\ pc \in {"idle", "script"} => rule = "app"

\* Which servers are asked for which name.
Servers ==
  /\ pc = "vpn" \/ "vpn" \in asked => IsName /\ InternalName
  /\ pc = "system" => IsName /\ (InternalName => "vpn" \in asked)
  /\ pc \in {"pick", "direct"} /\ IsName /\ InternalName => "vpn" \in asked
  /\ pc \in {"dial", "vpn"} /\ rule # "route" => asked = {}

\* Where the addresses are from, and what became of the routed ones.
Sources ==
  /\ source = "vpn" => ips = dns.vpn /\ "vpn" \in asked /\ pc \in {"pick", "direct", "done"}
  /\ source = "public" => ips = dns.public /\ IsName
  /\ source = "none" => ips = <<>> \/ (~IsName /\ ips = <<dest>>)
  /\ source = "vpn" /\ rule # "route" =>
       asked = {"vpn"} \/ (pc = "done" /\ conn.via # "tunnel")
  /\ pc = "direct" \/ conn.via = "direct" => \A i \in DOMAIN ips : ips[i] \notin routes
  /\ pc = "direct" => conn = NoConn

\* Types.
Types ==
  /\ suffixes \subseteq Suffix /\ routes \subseteq Addr4
  /\ dest \in HostName \cup Addr
  /\ dns \in [vpn : {a \in Answer : AddrsOf(a) \subseteq Addr4}, public : Answer]
  /\ pc \in {"idle", "script", "browser", "dial", "vpn", "system", "pick",
             "direct", "done"}
  /\ rule \in {"name", "route", "app"}
  /\ expired \in BOOLEAN
  /\ ips \in Seq(Addr)
  /\ asked \subseteq {"vpn", "public"} /\ source \in {"none", "vpn", "public"}
  /\ conn \in Conn

IInv == Types /\ Fresh /\ Verdict /\ Servers /\ Sources

-----------------------------------------------------------------------------

\* The empty answer holds no address.
LEMMA EmptyAnswer == <<>> \in {a \in Answer : AddrsOf(a) \subseteq Addr4}
BY AnswerAssumption DEF AddrsOf

\* What an answer holds are addresses.
LEMMA AnswerAddrs ==
  ASSUME NEW a \in Answer PROVE a \in Seq(Addr) /\ AddrsOf(a) \subseteq Addr
BY AnswerAssumption DEF AddrsOf

LEMMA InitInv == Init => IInv
<1> SUFFICES ASSUME Init PROVE IInv
  OBVIOUS
<1> USE DEF Init
<1>1. dns \in [vpn : {a \in Answer : AddrsOf(a) \subseteq Addr4}, public : Answer]
  BY EmptyAnswer, AnswerAssumption
<1>2. Types
  <2>1. expired \in BOOLEAN
    BY Zenon
  <2> QED
    BY <1>1, <2>1 DEF Types, Conn
<1>3. Fresh /\ Verdict /\ Servers /\ Sources
  BY DEF Fresh, Verdict, Servers, Sources, NoConn
<1> QED
  BY <1>2, <1>3 DEF IInv

-----------------------------------------------------------------------------
(* One lemma for each action.                                              *)

LEMMA RequestInv == IInv /\ Request => IInv'
<1> SUFFICES ASSUME IInv, Request PROVE IInv'
  OBVIOUS
<1> USE DEF IInv, Request, RequestOf, Go, config
<1>1. Types'
  BY DEF Types
<1>2. Fresh' /\ Verdict' /\ Servers' /\ Sources'
  BY DEF Types, Fresh, Verdict, Servers, Sources, NoConn
<1> QED
  BY <1>1, <1>2

LEMMA ByNameInv == IInv /\ ByName => IInv'
<1> SUFFICES ASSUME IInv, ByName PROVE IInv'
  OBVIOUS
<1> USE DEF IInv, ByName, Go, config
<1>1. Types'
  BY DEF Types
<1>2. Fresh' /\ Servers' /\ Sources'
  BY DEF Types, Fresh, Verdict, Servers, Sources, NoConn, IsName, InternalName
<1>3. Verdict'
  BY DEF Verdict, ScriptName, IsName, Inside, UnderAny, Addr
<1> QED
  BY <1>1, <1>2, <1>3

LEMMA ByRouteInv == IInv /\ ByRoute => IInv'
<1> SUFFICES ASSUME IInv, ByRoute PROVE IInv'
  OBVIOUS
<1> USE DEF IInv, ByRoute, AskSystem, Go, config
<1>1. Types'
  BY DEF Types
<1>2. Fresh' /\ Servers' /\ Sources'
  BY DEF Types, Fresh, Verdict, Servers, Sources, NoConn, IsName, InternalName
<1>3. ~Inside
  BY NameAssumption DEF ScriptName, Inside, IsName, UnderAny, Addr
<1>4. Verdict'
  BY <1>3 DEF Fresh, Verdict, Inside, IsName, UnderAny, Resolved, AddrsOf
<1> QED
  BY <1>1, <1>2, <1>4

LEMMA ProxyGoneInv == IInv /\ ProxyGone => IInv'
<1> SUFFICES ASSUME IInv, ProxyGone PROVE IInv'
  OBVIOUS
<1> USE DEF IInv, ProxyGone, Go, config
<1>1. Types'
  BY DEF Types
<1>2. Fresh' /\ Servers' /\ Sources'
  BY DEF Fresh, Servers, Sources, NoConn, IsName, InternalName
<1>3. Verdict'
  BY DEF Verdict, Inside, IsName, UnderAny, Resolved, AddrsOf
<1> QED
  BY <1>1, <1>2, <1>3

LEMMA DialInv == IInv /\ Dial => IInv'
<1> SUFFICES ASSUME IInv, Dial PROVE IInv'
  OBVIOUS
<1>1. /\ pc = "dial"
      /\ UNCHANGED <<config, dest, dns, rule, expired, asked, source, conn>>
      /\ \/ IsName /\ InternalName /\ pc' = "vpn" /\ ips' = ips
         \/ IsName /\ ~InternalName /\ pc' = "system" /\ ips' = ips
         \/ ~IsName /\ pc' = "pick" /\ ips' = <<dest>>
  BY DEF Dial, DialTo, Go
<1> USE DEF IInv, config
<1>2. Types'
  <2>1. ips' \in Seq(Addr)
    <3>1. ASSUME NEW a \in Addr PROVE <<a>> \in Seq(Addr)
      OBVIOUS
    <3>2. ips \in Seq(Addr) /\ (~IsName => dest \in Addr)
      BY DEF Types, IsName
    <3> QED
      BY <1>1, <3>1, <3>2
  <2>2. pc' \in {"vpn", "system", "pick"}
    BY <1>1
  <2>3. UNCHANGED <<suffixes, routes, dest, dns, rule, expired, asked, source, conn>>
    BY <1>1
  <2> QED
    BY <2>1, <2>2, <2>3 DEF Types
<1>3. (IsName' <=> IsName) /\ (InternalName' <=> InternalName)
  BY <1>1 DEF IsName, InternalName
<1>4. Fresh' /\ Servers'
  <2>1. Fresh'
    BY <1>1 DEF Fresh, NoConn
  <2>2. Servers'
    BY <1>1, <1>3 DEF Servers
  <2> QED
    BY <2>1, <2>2
<1>5. Sources'
  BY <1>1, <1>3 DEF Fresh, Sources, NoConn
<1>6. Verdict'
  BY <1>1 DEF Verdict, Inside, IsName, UnderAny, Resolved, AddrsOf
<1> QED
  BY <1>2, <1>4, <1>5, <1>6

LEMMA AskVpnInv == IInv /\ AskVpn => IInv'
<1> SUFFICES ASSUME IInv, AskVpn PROVE IInv'
  OBVIOUS
<1>1. /\ pc = "vpn" /\ asked' = asked \cup {"vpn"}
      /\ UNCHANGED <<config, dest, dns, rule, conn>>
      /\ \/ /\ pc' = "pick"
            /\ ips' = dns.vpn /\ source' = "vpn" /\ expired' = expired
         \/ pc' = "system" /\ expired' \in BOOLEAN /\ UNCHANGED <<ips, source>>
  BY DEF AskVpn, Go
<1> USE DEF IInv, config
<1>2. Types'
  BY <1>1, AnswerAddrs DEF Types
<1>3. Fresh'
  BY <1>1 DEF Fresh, NoConn
<1>4. Servers'
  BY <1>1 DEF Servers, IsName, InternalName
<1>5. Sources'
  BY <1>1 DEF Fresh, Servers, Sources, NoConn
<1>6. Verdict'
  BY <1>1 DEF Verdict, Inside, IsName, UnderAny, Resolved, AddrsOf
<1> QED
  BY <1>2, <1>3, <1>4, <1>5, <1>6

LEMMA AskPublicInv == IInv /\ AskPublic => IInv'
<1> SUFFICES ASSUME IInv, AskPublic PROVE IInv'
  OBVIOUS
<1> USE DEF IInv, AskPublic, Go, config
<1>1. Types'
  BY AnswerAddrs DEF Types
<1>2. Fresh' /\ Servers' /\ Sources'
  BY DEF Fresh, Servers, Sources, NoConn, IsName, InternalName
<1>3. Verdict'
  BY DEF Verdict, Inside, IsName, UnderAny, Resolved, AddrsOf
<1> QED
  BY <1>1, <1>2, <1>3

LEMMA PickInv == IInv /\ Pick => IInv'
<1> SUFFICES ASSUME IInv, Pick PROVE IInv'
  OBVIOUS
<1> USE DEF IInv, Pick, Go, config, Routed
<1>1. ASSUME NEW i \in DOMAIN ips PROVE ips[i] \in Addr
  BY <1>1 DEF Types
<1>2. Types'
  <2>1. conn' \in Conn
    BY <1>1 DEF Types, Conn
  <2> QED
    BY <2>1 DEF Types
<1>3. conn' = NoConn \/ conn'.via = "tunnel"
  BY DEF Fresh
<1>4. Fresh' /\ Servers' /\ Sources'
  BY <1>3 DEF Fresh, Servers, Sources, NoConn, IsName, InternalName
<1>5. Verdict'
  BY DEF Verdict, Inside, IsName, UnderAny, Resolved, AddrsOf
<1> QED
  BY <1>2, <1>4, <1>5

LEMMA DirectInv == IInv /\ Direct => IInv'
<1> SUFFICES ASSUME IInv, Direct PROVE IInv'
  OBVIOUS
<1>1. PICK via \in {"direct", "browser"} :
        /\ Go(via, "done")
        /\ conn' \in {NoConn} \cup [via : {via},
             addr : IF IsName THEN AddrsOf(dns.public) ELSE {dest}]
  BY DEF Direct
<1> USE DEF IInv, Direct, Go, config
<1>2. (IF IsName THEN AddrsOf(dns.public) ELSE {dest}) \subseteq Addr
  BY AnswerAddrs DEF Types, IsName
<1>3. conn' \in Conn /\ (conn' = NoConn \/ conn'.via = via)
  BY <1>1, <1>2 DEF Conn
<1>4. Types'
  BY <1>1, <1>3 DEF Types, AskSystem
<1>5. Fresh' /\ Verdict'
  BY <1>1 DEF Fresh, Verdict, Inside, IsName, UnderAny, Resolved, AddrsOf
<1>6. Servers'
  BY <1>1 DEF Servers, AskSystem, IsName, InternalName
<1>7. Sources'
  BY <1>1, <1>3 DEF Types, Fresh, Sources, AskSystem, NoConn, IsName
<1> QED
  BY <1>4, <1>5, <1>6, <1>7

LEMMA DoneInv == IInv /\ Done => IInv'
<1> SUFFICES ASSUME IInv, Done PROVE IInv'
  OBVIOUS
<1> USE DEF IInv, Done, Go, config
<1>1. Types'
  BY EmptyAnswer, AnswerAssumption, Zenon DEF Types, Conn
<1>2. Fresh' /\ Verdict' /\ Servers' /\ Sources'
  BY DEF Fresh, Verdict, Servers, Sources, NoConn
<1> QED
  BY <1>1, <1>2

\* A step that changes nothing.
LEMMA StutterInv == IInv /\ UNCHANGED vars => IInv'
BY DEF IInv, Types, Fresh, Verdict, Servers, Sources, Inside, IsName, UnderAny,
       Resolved, AddrsOf, InternalName, vars, config

\* The inductive invariant holds of every behaviour, for all constants.
THEOREM RouterInvariance == Spec => []IInv
<1>1. IInv /\ [Next]_vars => IInv'
  BY RequestInv, ByNameInv, ByRouteInv, ProxyGoneInv, DialInv, AskVpnInv,
     AskPublicInv, PickInv, DirectInv, DoneInv, StutterInv DEF Next
<1> QED
  BY InitInv, <1>1, PTL DEF Spec

-----------------------------------------------------------------------------

\* Types, and that only IPv4 addresses come from the VPN's DNS.
THEOREM RouterTypeCorrect == Spec => []TypeOK
<1>1. IInv => TypeOK
  BY DEF IInv, Types, Sources, TypeOK
<1> QED
  BY <1>1, RouterInvariance, PTL

\* A gateway that names its domains never hears of a name outside of them.
THEOREM PublicNamesStayPublicHolds == Spec => []PublicNamesStayPublic
<1>1. IInv => PublicNamesStayPublic
  BY DEF IInv, Servers, InternalName, PublicNamesStayPublic, UnderAny
<1> QED
  BY <1>1, RouterInvariance, PTL

\* The script and internalName agree on names, but for suffixes pac had to tidy.
THEOREM NamesAgreeHolds == Spec => []NamesAgree
<1>1. ASSUME IInv PROVE NamesAgree
  <2> SUFFICES ASSUME rule = "name", IsName, pc \in {"system", "pick", "direct"},
                      "vpn" \notin asked
               PROVE  UnderAny(suffixes \ Tidy)
    BY DEF NamesAgree
  <2>1. ~InternalName
    BY <1>1 DEF IInv, Servers
  <2>2. UnderAny(suffixes)
    BY <1>1, <2>1 DEF IInv, Verdict, InternalName
  <2> QED
    BY <2>1, <2>2 DEF UnderAny, InternalName
<1> QED
  BY <1>1, RouterInvariance, PTL

\* They agree on routes, whenever dial finds the addresses the script has seen.
THEOREM RoutesAgreeHolds == Spec => []RoutesAgree
<1>1. ASSUME IInv PROVE RoutesAgree
  <2> SUFFICES ASSUME rule = "route", ips # <<>>, conn.via = "direct" PROVE "vpn" \in asked
    BY DEF RoutesAgree
  <2> USE <1>1 DEF IInv
  <2>1. PICK ip \in Resolved : ip \in routes
    BY DEF Verdict
  <2>2. \A i \in DOMAIN ips : ips[i] \notin routes
    BY DEF Sources
  <2>3. CASE source = "none"
    <3>1. ~IsName /\ ips = <<dest>>
      BY <2>3 DEF Sources
    <3>2. ip = dest
      BY <3>1, <2>1 DEF Resolved
    <3>3. 1 \in DOMAIN ips /\ ips[1] = dest
      BY <3>1
    <3> QED
      BY <2>1, <2>2, <3>2, <3>3
  <2>4. CASE source = "public"
    BY <2>1, <2>2, <2>4 DEF Sources, Resolved, AddrsOf
  <2>5. CASE source = "vpn"
    BY <2>5 DEF Sources
  <2> QED
    BY <2>3, <2>4, <2>5 DEF Types
<1> QED
  BY <1>1, RouterInvariance, PTL

\* No other server hears of an internal name that is reached through the tunnel.
THEOREM InternalNamesStayInsideHolds == Spec => []InternalNamesStayInside
<1>1. ASSUME IInv PROVE InternalNamesStayInside
  BY <1>1 DEF IInv, Verdict, Sources, Inside, InternalNamesStayInside
<1> QED
  BY <1>1, RouterInvariance, PTL

-----------------------------------------------------------------------------
(* Where a connection goes.                                                *)

\* What goes into the tunnel goes to an address inside the routes, the one a
\* client asked for or one of those a lookup found.  What goes past it goes to no
\* such address, unless it was named and dial found no address for the name, or
\* had another answer from the VPN's DNS.  RoutedIsTunnelled fails in the first of
\* these cases.
WhereItGoes ==
  /\ conn.via = "tunnel" =>
       /\ conn.addr \in routes \cap AddrsOf(ips)
       /\ IsName => source # "none"
       /\ ~IsName => conn.addr = dest
  /\ conn.via = "direct" /\ conn.addr \in routes
       => IsName /\ (ips = <<>> \/ source = "vpn")

\* Whose address the connection has.
Target ==
  /\ conn.via = "tunnel" => conn.addr \in routes \cap AddrsOf(ips)
  /\ conn.via = "direct" => conn.addr \in IF IsName THEN AddrsOf(dns.public) ELSE {dest}
  /\ source # "none" => IsName
  /\ ~IsName /\ (pc \in {"pick", "direct"} \/ conn.via = "direct") => ips # <<>>

\* Only Dial, the two lookups, Pick, Direct and Done write what Target speaks of.
LEMMA TargetStep == IInv /\ Target /\ [Next]_vars => Target'
<1> SUFFICES ASSUME IInv, Target, [Next]_vars PROVE Target'
  OBVIOUS
<1> USE DEF Target, Go, config
<1>1. CASE Request \/ ByName \/ ByRoute \/ ProxyGone
  BY <1>1 DEF IInv, Fresh, NoConn, Request, RequestOf, ByName, ByRoute, AskSystem, ProxyGone,
     IsName, AddrsOf
<1>2. CASE Dial \/ AskVpn \/ AskPublic
  <2>1. conn = NoConn /\ conn' = conn /\ dest' = dest
    BY <1>2 DEF IInv, Fresh, Dial, DialTo, AskVpn, AskPublic
  <2>2. source' # "none" => IsName
    BY <1>2 DEF IInv, Servers, Dial, DialTo, AskVpn, AskPublic
  <2>3. ~IsName /\ pc' \in {"pick", "direct"} => ips' # <<>>
    BY <1>2 DEF IInv, Servers, Dial, DialTo, AskVpn, AskPublic
  <2> QED
    BY <2>1, <2>2, <2>3 DEF NoConn, IsName
<1>3. CASE Pick
  <2>1. UNCHANGED <<routes, dest, ips, source>> /\ conn = NoConn /\ pc = "pick"
    BY <1>3 DEF IInv, Fresh, Pick
  <2>2. \/ conn' = NoConn
        \/ \E i \in DOMAIN ips :
             ips[i] \in routes /\ conn' = [via |-> "tunnel", addr |-> ips[i]]
    BY <1>3, <2>1 DEF Pick, Routed
  <2> QED
    BY <2>1, <2>2 DEF NoConn, IsName, AddrsOf
<1>4. CASE Direct
  <2>1. UNCHANGED <<routes, dest, dns, ips, source>> /\ pc' = "done"
    BY <1>4 DEF Direct
  <2>2. PICK via \in {"direct", "browser"} :
          /\ pc = via
          /\ conn' \in {NoConn} \cup [via : {via},
             addr : IF IsName THEN AddrsOf(dns.public) ELSE {dest}]
    BY <1>4 DEF Direct
  <2> QED
    BY <2>1, <2>2 DEF NoConn, IsName
<1>5. CASE Done
  BY <1>5 DEF Done, NoConn
<1>6. CASE UNCHANGED vars
  BY <1>6 DEF vars, IsName, AddrsOf
<1> QED
  BY <1>1, <1>2, <1>3, <1>4, <1>5, <1>6 DEF Next

\* The tunnel is for what lies inside the routes; the way past it is taken with
\* such an address in two cases only.
THEOREM WhereItGoesHolds == Spec => []WhereItGoes
<1>1. Init => Target
  BY DEF Init, Target, NoConn
<1>2. IInv /\ Target => WhereItGoes
  <2> SUFFICES ASSUME IInv, Target PROVE WhereItGoes
    OBVIOUS
  <2>1. ASSUME conn.via = "tunnel"
        PROVE  /\ conn.addr \in routes \cap AddrsOf(ips)
               /\ IsName => source # "none"
               /\ ~IsName => conn.addr = dest
    <3>1. PICK i \in DOMAIN ips : conn.addr = ips[i]
      BY <2>1 DEF Target, AddrsOf
    <3>2. source = "none" => ~IsName /\ ips = <<dest>>
      BY <3>1 DEF IInv, Sources
    <3>3. ~IsName => conn.addr = dest
      BY <3>1, <3>2 DEF Target
    <3> QED
      BY <2>1, <3>2, <3>3 DEF Target
  <2>2. ASSUME conn.via = "direct", conn.addr \in routes
        PROVE  IsName /\ (ips = <<>> \/ source = "vpn")
    <3>1. \A i \in DOMAIN ips : ips[i] \notin routes
      BY <2>2 DEF IInv, Sources
    <3>2. CASE source = "public"
      BY <2>2, <3>1, <3>2 DEF IInv, Sources, Target, AddrsOf
    <3>3. CASE source = "none"
      <4>1. ips # <<>> => ~IsName /\ ips = <<dest>>
        BY <3>3 DEF IInv, Sources
      <4>2. ASSUME ~IsName PROVE FALSE
        <5>1. conn.addr = dest
          BY <2>2, <4>2 DEF Target
        <5>2. ips # <<>>
          BY <4>2, <2>2 DEF Target
        <5> QED
          BY <2>2, <3>1, <4>1, <5>1, <5>2
      <4> QED
        BY <4>1, <4>2
    <3> QED
      BY <3>2, <3>3 DEF IInv, Types, Target
  <2> QED
    BY <2>1, <2>2 DEF WhereItGoes
<1> QED
  BY <1>1, <1>2, TargetStep, RouterInvariance, PTL DEF Spec
=============================================================================
