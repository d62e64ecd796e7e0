---------------------------- MODULE FirewallPlan ----------------------------
(***************************************************************************)
(* Which ports a node needs open and which it redirects: the port ranges   *)
(* of internal/portset and the plans of internal/firewall/plan.go.  A rule *)
(* names a family (4 or 6), an address ("" for any), a protocol, a range   *)
(* of ports and, for a redirect, the listening port it leads to.           *)
(***************************************************************************)
EXTENDS Integers, FiniteSets

CONSTANT MaxPort   \* bound: 65535 in the code

Ports(r) == r.from .. r.to
ValidRange(r) == r.from > 0 /\ r.from <= r.to /\ r.to <= MaxPort
ErrorRange == [from |-> 0, to |-> 0]
\* A target of 0 redirects nowhere; only UDP is redirected.
Rules ==
  {r \in [family : {4, 6}, address : STRING, protocol : {"tcp", "udp"}, from : 1..MaxPort, to : 1..MaxPort,
          target : 0..MaxPort] : ValidRange(r) /\ (r.target # 0 => r.protocol = "udp")}
Plans == [listeners : SUBSET Rules, redirects : SUBSET Rules]
ContainsPort(r, port) == r.from <= port /\ port <= r.to
Overlaps(r, s) == r.from <= s.to /\ s.from <= r.to

\* The ranges of a set joined where they overlap or touch: what PortMerge computes.  A joined range starts
\* where no earlier one reaches, and ends where none goes on.
Starts(ranges) == {r \in ranges : \A s \in ranges : s.from < r.from => s.to + 1 < r.from}
Ends(ranges, r) == {e \in {s.to : s \in ranges} : r.to <= e /\ \A s \in ranges : s.from <= e + 1 => s.to <= e}
Merge(ranges) ==
  {[r EXCEPT !.to = CHOOSE e \in Ends(ranges, r) : \A d \in Ends(ranges, r) : e <= d] : r \in Starts(ranges)}

\* A list of ports and ranges as an operator writes it: one bad item and the
\* whole list is refused.
ParseRanges(items) == IF \A r \in items : ValidRange(r) THEN Merge(items) ELSE {ErrorRange}

\* The ranges without the listening port, which must not redirect to itself.
Without(ranges, port) ==
  {r \in ranges : ~ContainsPort(r, port)}
    \cup {s \in UNION {{[r EXCEPT !.to = port - 1], [r EXCEPT !.from = port + 1]}
                         : r \in {r \in ranges : ContainsPort(r, port)}} : s.from <= s.to}

(***************************************************************************)
(* The plan of a node.  A node has its own listener, or that of the relay  *)
(* it lands; "error" stands for a plan the code refuses.                   *)
(***************************************************************************)
ErrorPlan == [error |-> TRUE]

ListenerAddresses(listen) ==
  CASE listen = "" -> {[family |-> 4, address |-> ""], [family |-> 6, address |-> ""]}
    [] listen = "0.0.0.0" -> {[family |-> 4, address |-> ""]}
    [] OTHER -> {[family |-> 4, address |-> listen]}

ListenerProtocols(node, kernelType) ==
  CASE node.protocol \in {"hysteria", "tuic"} -> {"udp"}
    [] node.protocol \in {"shadowsocks", "naive"} -> {"tcp", "udp"}
    [] node.protocol = "socks" -> IF kernelType = "xray" THEN {"tcp", "udp"} ELSE {"tcp"}
    [] node.protocol \in {"http", "anytls"} -> {"tcp"}
    [] node.protocol = "mieru" -> IF node.network = "UDP" THEN {"udp"} ELSE {"tcp"}
    [] node.protocol \in {"vmess", "vless", "trojan"} ->
         IF node.network \in {"kcp", "mkcp", "quic", "hysteria"} THEN {"udp"} ELSE {"tcp"}
    [] OTHER -> {}

AsRule(address, protocol, range, target) ==
  [family |-> address.family, address |-> address.address, protocol |-> protocol,
   from |-> range.from, to |-> range.to, target |-> target]

\* What listens for a node: the node itself, or the relay it lands.
Listener(node) ==
  IF node.landing.protocol = "" THEN node
  ELSE [node EXCEPT !.protocol = node.landing.protocol,
          !.port = IF node.landing.port # 0 THEN node.landing.port ELSE @]

Unplannable(node, kernelType) ==
  LET listening == Listener(node)
  IN \/ ~ValidRange([from |-> listening.port, to |-> listening.port])
     \/ ListenerProtocols(listening, kernelType) = {}
     \/ /\ node.hopping # {}
        /\ listening.protocol # "hysteria" \/ node.version # 2 \/ node.landing.protocol # ""
     \/ ErrorRange \in ParseRanges(node.hopping)

PlanForNode(node, kernelType) ==
  LET port == Listener(node).port
      own == [from |-> port, to |-> port]
      addresses == ListenerAddresses(node.listen)
      protocols == ListenerProtocols(Listener(node), kernelType)
      hops == Without(ParseRanges(node.hopping), port)
  IN IF Unplannable(node, kernelType) THEN ErrorPlan
     ELSE [listeners |-> {AsRule(a, p, own, 0) : a \in addresses, p \in protocols},
           redirects |-> {AsRule(a, "udp", h, port) : a \in addresses, h \in hops}]

(***************************************************************************)
(* The union of the plans of all nodes of the process.                     *)
(***************************************************************************)
Untargeted(rules) == {[r EXCEPT !.target = 0] : r \in rules}

\* The UDP ports a plan claims, and the port each claim leads to.
Claims(plan) ==
  {[r EXCEPT !.target = r.from] : r \in {r \in plan.listeners : r.protocol = "udp"}}
    \cup plan.redirects

Conflict(r, s) ==
  /\ r.family = s.family
  /\ r.address = "" \/ s.address = "" \/ r.address = s.address
  /\ Overlaps(r, s)
  /\ r.target # s.target

MergeRules(rules) ==
  LET like(r) == {s \in rules : \A f \in {"family", "address", "protocol", "target"} : s[f] = r[f]}
  IN UNION {Merge(like(r)) : r \in rules}

Conflicting(plans) ==
  \E r, s \in UNION {Claims(plans[o]) : o \in DOMAIN plans} : Conflict(r, s)

Allows(plans) ==
  MergeRules(UNION {plans[o].listeners \cup Untargeted(plans[o].redirects) : o \in DOMAIN plans})

Redirects(plans) == MergeRules(UNION {plans[o].redirects : o \in DOMAIN plans})
=============================================================================
