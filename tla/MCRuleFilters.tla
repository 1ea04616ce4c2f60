--------------------------- MODULE MCRuleFilters ---------------------------
(* One application, two-bit addresses, two profiles besides "global". *)
EXTENDS RuleFilters

V4(n) == [family |-> "v4", bits |-> n]
V6(n) == [family |-> "v6", bits |-> n]
NoTarget == [kind |-> "none", text |-> "empty", addr |-> Nobody, prefix |-> 0,
             port |-> AnyPort]
CidrTarget(a, n) == [NoTarget EXCEPT !.kind = "cidr", !.text = "plain", !.addr = a,
                     !.prefix = n]
IpTarget(a, p) == [NoTarget EXCEPT !.kind = "ip", !.text = "plain", !.addr = a,
                   !.port = p]

AppRule(decision, proto, prof) ==
  [path |-> "demo", id |-> "id", decision |-> decision, proto |-> proto,
   dir |-> "outbound", target |-> NoTarget, expires |-> "never",
   profile |-> prof, updated |-> 0]
On(r, t) == [r EXCEPT !.target = t]

BlockUdp  == AppRule("block", "udp", "global")
BlockNet  == On(AppRule("block", "all", "home"), CidrTarget(V4(3), 1))
BlockFamily == On(AppRule("block", "tcp", "work"), CidrTarget(V6(2), 0))
BlockHost == On(AppRule("quarantine", "all", "work"), IpTarget(V6(1), 53))
ForAWhile == [AppRule("allow", "udp", "home") EXCEPT !.expires = "later"]
AllowTcp  == AppRule("allow", "tcp", "work")
BlockAll  == AppRule("block", "all", "home")
Padded    == [BlockNet EXCEPT !.target.text = "padded"]
Unknown   == [BlockAll EXCEPT !.id = Nobody]
Beyond    == [On(BlockAll, [CidrTarget(V4(1), Width) EXCEPT !.text = "beyond"])
                EXCEPT !.profile = "work"]
Domain    == On(BlockAll, [NoTarget EXCEPT !.kind = "domain", !.text = "plain"])

SomeForms   == {BlockUdp, BlockNet, AllowTcp, Unknown}
SomeImports ==
  {[rules |-> {BlockHost, BlockFamily, Beyond, ForAWhile}, profile |-> "work"],
   [rules |-> {[BlockAll EXCEPT !.expires = "due"], [BlockUdp EXCEPT !.expires = "due"]},
    profile |-> "home"],
   [rules |-> {Padded, Domain, AppRule("block", "tcp", "home")}, profile |-> "home"]}

To(proto, remote, port) ==
  [path |-> "demo", id |-> "id", proto |-> proto, remote |-> remote, port |-> port]
SomeTried == {To("tcp", V4(2), 443), To("udp", V6(1), 53)}
SomeConnections ==
  SomeTried \cup {To("tcp", V4(1), 443), To("tcp", V6(1), 443), To("udp", V6(2), 53)}
=============================================================================
