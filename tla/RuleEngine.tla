----------------------------- MODULE RuleEngine -----------------------------
(***************************************************************************)
(* The rules of the application (src-tauri/src/main.rs, 266-603): which    *)
(* connections a rule is about, which rule decides, and what becomes of it *)
(* in WFP (src-tauri/src/wfp/windows_impl.rs) and in the boot service      *)
(* (service/src/lib.rs).  Operators only; RuleFilters runs them.           *)
(*                                                                         *)
(* An address has a family and Width bits.  The text of a target is "plain"*)
(* as Rust prints the address, another spelling of it ("variant"), one     *)
(* with blanks around it ("padded"), a network with a longer prefix than   *)
(* its address ("beyond"), something that is no address, or empty.         *)
(***************************************************************************)
EXTENDS Integers, FiniteSets

CONSTANTS Paths,     \* executables, by app_key of their path
          Ids,       \* app ids or package SIDs
          Profiles,  \* profile ids other than "global"
          Ports, AnyPort,
          Width,     \* bits of an address
          Nobody     \* no rule, no address

Families == {"v4", "v6"}
Address  == [family : Families, bits : 0 .. 2 ^ Width - 1]
Target   ==
  {t \in [kind : {"none", "any", "ip", "cidr", "domain", "other"},
           text : {"empty", "plain", "variant", "padded", "beyond", "invalid"},
           addr : Address \cup {Nobody}, prefix : 0 .. Width,
           port : Ports \cup {AnyPort}] :
     /\ t.kind \in {"ip", "cidr"} /\ t.text \notin {"empty", "invalid"} => t.addr \in Address
     /\ t.text = "beyond" => t.kind = "cidr" /\ t.prefix = Width}
Rule == [path : Paths, id : Ids \cup {Nobody}, decision : {"allow", "block", "quarantine"},
         proto : {"all", "tcp", "udp"}, dir : {"outbound", "inbound", "both"},
         target : Target, expires : {"never", "later", "due"},
         profile : Profiles \cup {"global"}, updated : Nat]
Conn == [path : Paths, id : Ids, proto : {"tcp", "udp"}, remote : Address,
         port : Ports]

ASSUME RuleAssumption ==
  /\ Width \in Nat /\ "global" \notin Profiles /\ AnyPort \notin Ports
  /\ Nobody \notin Ids \cup Address \cup Rule

IsBlocking(r) == r.decision \in {"block", "quarantine"}

\* target_is_specific: "none" stands for no target at all.
IsSpecific(t) ==
  t.kind # "none" /\ (t.kind # "any" \/ t.text # "empty" \/ t.port # AnyPort)

\* rule_storage_key and runtime_block_key: a block on the whole application is
\* recorded under its path alone.
StorageKey(r) == <<r.profile, r.path, r.proto, r.dir, r.target>>
BlockKey(r) == IF IsSpecific(r.target) THEN StorageKey(r) ELSE <<r.path>>

-----------------------------------------------------------------------------
(* Matching. *)

AppMatches(r, c) == r.path = c.path \/ r.id = c.id
ProtocolMatches(r, c) == r.proto = "all" \/ r.proto = c.proto
DirectionMatches(r) == r.dir \in {"outbound", "both"}  \* observed: outbound

\* ip_in_cidr: equal under the mask of the prefix, within a family.
SameNetwork(a, b, prefix) ==
  /\ a.family = b.family
  /\ a.bits \div 2 ^ (Width - prefix) = b.bits \div 2 ^ (Width - prefix)

IsAddress(t) == t.text \in {"plain", "variant", "padded"}

\* target_matches: an "ip" is compared as text, a "cidr" as what it denotes.
TargetMatches(t, c) ==
  /\ t.port \in {AnyPort, c.port}
  /\ \/ t.kind \in {"none", "any"}
     \/ t.kind = "ip" /\ t.text \in {"plain", "padded"} /\ t.addr = c.remote
     \/ t.kind = "cidr" /\ IsAddress(t) /\ SameNetwork(c.remote, t.addr, t.prefix)
     \/ t.kind = "other" /\ t.text = "empty"

Matches(r, c) ==
  /\ AppMatches(r, c) /\ ProtocolMatches(r, c) /\ DirectionMatches(r)
  /\ TargetMatches(r.target, c)

-----------------------------------------------------------------------------
(* Precedence. *)

IsActive(r) == r.expires # "due"

\* rule_score; 0 stands for None.
Precedence(r, profile, isSession) ==
  IF isSession \/ r.expires # "never" THEN 1
  ELSE IF r.profile = profile THEN IF IsSpecific(r.target) THEN 2 ELSE 3
  ELSE IF r.profile = "global" THEN IF IsSpecific(r.target) THEN 4 ELSE 5
  ELSE IF IsSpecific(r.target) THEN 0 ELSE 6
TargetRank(r) == IF IsSpecific(r.target) THEN 0 ELSE 1

\* Seeded fault: of two equal rules the older one is taken.
IsBetterOlder(r, best, profile, isSession) ==
  LET p == Precedence(r, profile, isSession)
      q == Precedence(best, profile, isSession)
  IN \/ p < q
     \/ p = q /\ TargetRank(r) < TargetRank(best)
     \/ p = q /\ TargetRank(r) = TargetRank(best) /\ r.updated < best.updated

\* is_better
IsBetter(r, best, profile, isSession) ==
  LET p == Precedence(r, profile, isSession)
      q == Precedence(best, profile, isSession)
  IN \/ p < q
     \/ p = q /\ TargetRank(r) < TargetRank(best)
     \/ p = q /\ TargetRank(r) = TargetRank(best) /\ r.updated > best.updated

\* Whether find_rule_in considers a rule at all.
Fits(r, c, profile, isSession) ==
  Matches(r, c) /\ IsActive(r) /\ Precedence(r, profile, isSession) > 0

\* One round of find_rule_in, for a rule that fits; it steps over the others.
Round(r, best, profile, isSession) ==
  IF best = Nobody \/ IsBetter(r, best, profile, isSession) THEN r ELSE best

\* find_rule_in: what it may return, the hash map giving the rules in any order.
Found(rs, c, profile, isSession) ==
  LET fit == {r \in rs : Fits(r, c, profile, isSession)}
      after[seen \in SUBSET fit] ==
        IF seen = {} THEN {Nobody}
        ELSE UNION {{Round(r, best, profile, isSession) : best \in after[seen \ {r}]} :
                      r \in seen}
  IN after[fit]

\* What the rules are meant to say, in words of their own: of the rules about a
\* connection, a timed one, or else one of the active profile, or else a global
\* one, or else one of any profile that is about the whole application; of those,
\* one about a single target first; of those, the one changed last.
Intended(rs, c, profile) ==
  LET about  == {r \in rs : Matches(r, c) /\ IsActive(r)}
      timed  == {r \in about : r.expires # "never"}
      mine   == {r \in about : r.profile = profile}
      global == {r \in about : r.profile = "global"}
      legacy == {r \in about : ~ IsSpecific(r.target)}
      class  == CASE timed # {}  -> timed
                  [] timed = {} /\ mine # {}  -> mine
                  [] timed = {} /\ mine = {} /\ global # {} -> global
                  [] OTHER -> legacy
      narrow == {r \in class : IsSpecific(r.target)}
      sharp  == IF narrow # {} THEN narrow ELSE class
  IN IF class = {} THEN {Nobody}
     ELSE {r \in sharp : \A q \in sharp : q.updated <= r.updated}

-----------------------------------------------------------------------------
(* Filters. *)

\* remote_match_from_target of the application: whether there is one, and whether
\* it fails.
HasRemote(t) == t.kind \in {"ip", "cidr"}
Fails(t) == HasRemote(t) /\ t.text \notin {"plain", "variant"}

\* Seeded fault: a prefix of 0 shifts by the whole width, which leaves the mask.
NetworkPartAtZero(a, prefix) ==
  a.bits - (IF prefix = 0 THEN 0 ELSE a.bits % 2 ^ (Width - prefix))

\* ipv4_prefix_mask, and the prefix of an IPv6 condition: the part of an address
\* that WFP compares.
NetworkPart(a, prefix) ==
  a.bits - (IF prefix = 0 THEN a.bits ELSE a.bits % 2 ^ (Width - prefix))

\* target_matches_layer
LayersOf(r) == IF HasRemote(r.target) THEN {r.target.addr.family} ELSE Families

\* What a filter made of a rule matches (add_identity_block_filter); all are
\* outbound, whatever the rule says.
FilterMatches(r, layer, c) ==
  /\ layer = c.remote.family
  /\ r.id = c.id /\ ProtocolMatches(r, c)
  /\ r.target.port \in {AnyPort, c.port}
  /\ r.target.kind = "ip" => r.target.addr = c.remote
  /\ r.target.kind = "cidr" => 
       NetworkPart(c.remote, r.target.prefix) = NetworkPart(r.target.addr, r.target.prefix)

\* The rules the page makes: outbound, and if about an address, about one that
\* is spelled as Rust prints it.
IsPlain(r) ==
  /\ r.dir = "outbound"
  /\ \/ r.target.kind \in {"none", "any"} /\ r.target.text = "empty"
     \/ r.target.kind \in {"ip", "cidr"} /\ r.target.text = "plain"

-----------------------------------------------------------------------------
(* The service. *)

\* Seeded fault: the rules for every profile are forgotten.
InScopeOfProfile(r, profile) == r.profile = profile

\* rule_in_active_scope
InScope(r, profile) == r.profile \in {"global", profile}

\* The service's remote_match_from_target does not look at the length of a prefix:
\* ipv4_prefix_mask takes one beyond the address for a whole one, and WFP refuses
\* such a prefix of an IPv6 address.
ServiceConverts(t) == Fails(t) => t.text = "beyond" /\ t.addr.family = "v4"

\* What apply adds, unless one of them fails and ends it.
ServiceRules(rs, profile) ==
  {r \in rs : IsActive(r) /\ InScope(r, profile) /\ DirectionMatches(r)}
ServiceFails(rs, profile) ==
  \E r \in ServiceRules(rs, profile) : ~ ServiceConverts(r.target)

\* For a rule without an id the service asks WFP for that of the path.
ServiceFilterMatches(r, c) ==
  LET known == IF r.id = Nobody /\ r.path = c.path THEN [r EXCEPT !.id = c.id] ELSE r
  IN \E layer \in LayersOf(r) : FilterMatches(known, layer, c)

\* What the filters say: a block outranks a permit.
ServiceSays(rs, profile, c) ==
  LET hits == {r \in ServiceRules(rs, profile) : ServiceFilterMatches(r, c)}
  IN IF \E r \in hits : IsBlocking(r) THEN "block"
     ELSE IF hits # {} THEN "permit" ELSE "nothing"
=============================================================================
