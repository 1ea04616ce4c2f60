-------------------------- MODULE DetectionEngine --------------------------
(***************************************************************************)
(* The detection engine of the core crate (core/src/detect): a table of    *)
(* temporary blocks in front of two detectors, a sliding-window rate       *)
(* limiter and a port-scan detector, each with one log of recent attempts  *)
(* per source address.                                                     *)
(*                                                                         *)
(* The engine is one object behind one mutex, so each of its methods is    *)
(* one action.  `inspect' is split into the disjuncts of its early         *)
(* returns.  Time reaches the engine twice: `inspect' uses the stamp the   *)
(* capture callback put on the event, `tick' the wall clock at the time of *)
(* the call.  Lagging says whether events may be inspected later than they *)
(* were stamped, and in another order: the callback runs on several worker *)
(* threads.  StepsBack says whether the wall clock may be set back.        *)
(*                                                                         *)
(* `attempts' is a history variable: no action reads it.                   *)
(***************************************************************************)
EXTENDS Naturals, Sequences, FiniteSets

CONSTANTS IPs,          \* remote addresses
          Ports,        \* local ports
          DdosConfigs,  \* the flood settings a user may choose
          ScanConfigs,  \* the scan settings a user may choose
          ManualBlock,  \* how long a manual block lasts
          U64,          \* 2^64: block ends are u64 sums, which wrap
          MaxTime,      \* bound: last instant of the wall clock
          MaxAttempts,  \* bound: attempts the detectors look at
          MaxCommands,  \* bound: calls made for the user
          Lagging, StepsBack

DdosConfig == [enabled : BOOLEAN, window : Nat, max : Nat, block : Nat,
               globalMax : Nat]
ScanConfig == [enabled : BOOLEAN, window : Nat, ports : Nat, block : Nat]

ASSUME ConfigAssumption ==
  DdosConfigs \subseteq DdosConfig /\ ScanConfigs \subseteq ScanConfig

ASSUME TimeAssumption ==
  /\ ManualBlock \in Nat /\ U64 \in Nat \ {0}
  /\ MaxTime \in Nat /\ MaxAttempts \in Nat /\ MaxCommands \in Nat
  /\ Lagging \in BOOLEAN /\ StepsBack \in BOOLEAN

VARIABLES now,        \* wall clock
          newest,     \* the latest instant the clock has shown
          ddos, scan, \* current settings
          perIp,      \* RateLimiter.per_ip: stamps, oldest first
          global,     \* RateLimiter.global
          probes,     \* ScanDetector.per_ip: stamps with the port probed
          blocked,    \* Engine.blocked
          whitelist,  \* Engine.whitelist
          last,       \* the last event inspected and the verdict on it
          attempts,   \* history: every attempt the detectors looked at
          commands    \* calls made for the user so far

settings == <<ddos, scan>>
logs     == <<perIp, global, probes>>
clocks   == <<now, newest>>
vars == <<now, newest, ddos, scan, perIp, global, probes, blocked,
          whitelist, last, attempts, commands>>

Reasons  == {"none", "RateLimit", "PortScan", "Manual"}
Block    == [until : Nat, reason : Reasons]
NoBlock  == [until |-> 0, reason |-> "none"]
Probe    == [ts : Nat, port : Ports]
Attempt  == [ip : IPs, port : Ports, ts : Nat,
             flood : BOOLEAN, glob : BOOLEAN, swept : BOOLEAN]
Verdict  == [ts : Nat, until : Nat, block : BOOLEAN]
Pass(ts) == [ts |-> ts, until |-> 0, block |-> FALSE]
Refuse(ts, until) == [ts |-> ts, until |-> until, block |-> TRUE]

TypeOK ==
  /\ now \in Nat /\ newest \in Nat
  /\ ddos \in DdosConfig /\ scan \in ScanConfig
  /\ perIp \in [IPs -> Seq(Nat)]
  /\ global \in Seq(Nat)
  /\ probes \in [IPs -> Seq(Probe)]
  /\ blocked \in [IPs -> Block]
  /\ whitelist \subseteq IPs
  /\ last \in Verdict
  /\ attempts \in Seq(Attempt)
  /\ commands \in 0 .. MaxCommands

-----------------------------------------------------------------------------
(* The sliding window. *)

\* Seeded fault: the window is half open.
StaleAtEdge(ts, t, w) == ts + w <= t

\* `ts' is out of the window of length w that ends at t.  The code subtracts
\* with saturation: a stamp later than t is never out of the window.
Stale(ts, t, w) == ts + w < t

\* Where the part worth keeping begins: the code drops stale stamps from the
\* front and stops at the first that is not.
FirstFresh(stamps, t, w) ==
  CHOOSE k \in 1 .. Len(stamps) + 1 :
    /\ \A i \in 1 .. k - 1 : Stale(stamps[i], t, w)
    /\ k <= Len(stamps) => ~ Stale(stamps[k], t, w)

Trim(q, t, w) == SubSeq(q, FirstFresh(q, t, w), Len(q))

StampsOf(q) == [i \in 1 .. Len(q) |-> q[i].ts]
TrimProbes(q, t, w) == SubSeq(q, FirstFresh(StampsOf(q), t, w), Len(q))

\* Seeded fault: only the ticker trims.
FloodLogUntrimmed(ip, ts) ==
  IF ddos.enabled THEN Append(perIp[ip], ts) ELSE perIp[ip]

\* RateLimiter::check: what it leaves in its logs, and what it answers.
FloodLog(ip, ts) ==
  IF ddos.enabled THEN Trim(Append(perIp[ip], ts), ts, ddos.window)
                  ELSE perIp[ip]
GlobalCounts == ddos.enabled /\ ddos.globalMax > 0
GlobalLog(ts) ==
  IF GlobalCounts THEN Trim(Append(global, ts), ts, ddos.window) ELSE global
Floods(ip, ts) ==
  \/ ddos.enabled /\ Len(FloodLog(ip, ts)) > ddos.max
  \/ GlobalCounts /\ Len(GlobalLog(ts)) > ddos.globalMax

\* Seeded fault: only the ticker trims.
ProbeLogUntrimmed(ip, port, ts) ==
  IF scan.enabled THEN Append(probes[ip], [ts |-> ts, port |-> port]) ELSE probes[ip]

\* ScanDetector::check.
ProbeLog(ip, port, ts) ==
  IF scan.enabled
  THEN TrimProbes(Append(probes[ip], [ts |-> ts, port |-> port]), ts, scan.window)
  ELSE probes[ip]
PortsIn(q) == {q[i].port : i \in DOMAIN q}
Sweeps(ip, port, ts) ==
  scan.enabled /\ Cardinality(PortsIn(ProbeLog(ip, port, ts))) > scan.ports

-----------------------------------------------------------------------------
Init ==
  /\ now = 0 /\ newest = 0
  /\ ddos \in DdosConfigs /\ scan \in ScanConfigs
  /\ perIp = [ip \in IPs |-> <<>>]
  /\ global = <<>>
  /\ probes = [ip \in IPs |-> <<>>]
  /\ blocked = [ip \in IPs |-> NoBlock]
  /\ whitelist = {}
  /\ last = Pass(0)
  /\ attempts = <<>>
  /\ commands = 0

\* A worker thread of the callback stamps an event and then sends it: what the
\* consumer takes from the channel may bear any instant the clock has shown, in
\* any order.  A consumer in step with the callback sees only the present.
Stamps == IF Lagging THEN 0 .. newest ELSE {now}

\* Seeded faults: an entry counts until it is swept; a block ends an instant
\* early.
ActiveUntilSwept(ip, ts) == blocked[ip].until > 0
ActiveButLast(ip, ts) == ts + 1 < blocked[ip].until

\* The event's block entry is active at the event's own time.
Active(ip, ts) == ts < blocked[ip].until

\* inspect, first return: trusted sources pass, and nothing is counted.
PassTrusted(ip, ts) ==
  /\ ip \in whitelist
  /\ last' = Pass(ts)
  /\ UNCHANGED <<clocks, settings, logs, blocked, whitelist, attempts, commands>>

\* inspect, second return: under an active block nothing is counted either.
RefuseBlocked(ip, ts) ==
  /\ ip \notin whitelist /\ Active(ip, ts)
  /\ last' = Refuse(ts, blocked[ip].until)
  /\ UNCHANGED <<clocks, settings, logs, blocked, whitelist, attempts, commands>>

\* inspect of an outbound event, or of one that opens no connection.
PassUncounted(ip, ts) ==
  /\ ip \notin whitelist /\ ~ Active(ip, ts)
  /\ last' = Pass(ts)
  /\ UNCHANGED <<clocks, settings, logs, blocked, whitelist, attempts, commands>>

\* inspect of a new inbound connection that reaches the rate limiter.
Reaches(ip, port, ts) ==
  /\ ip \notin whitelist /\ ~ Active(ip, ts)
  /\ Len(attempts) < MaxAttempts
  /\ perIp' = [perIp EXCEPT ![ip] = FloodLog(ip, ts)]
  /\ global' = GlobalLog(ts)
  /\ attempts' = Append(attempts,
       [ip |-> ip, port |-> port, ts |-> ts,
        flood |-> ddos.enabled, glob |-> GlobalCounts,
        swept |-> scan.enabled /\ ~ Floods(ip, ts)])
  /\ UNCHANGED <<clocks, settings, whitelist, commands>>

\* Seeded fault: the length is subtracted.
BlockUntilBefore(ts, length) == ts - length

\* When a block set at ts ends, in u64 arithmetic that wraps.
BlockUntil(ts, length) == (ts + length) % U64

\* The rate limiter trips: the scan detector does not see the event.
FloodTrip(ip, port, ts) ==
  LET until == BlockUntil(ts, ddos.block) IN
  /\ Reaches(ip, port, ts) /\ Floods(ip, ts)
  /\ blocked' = [blocked EXCEPT ![ip] = [until |-> until, reason |-> "RateLimit"]]
  /\ last' = Refuse(ts, until)
  /\ UNCHANGED probes

ScanTrip(ip, port, ts) ==
  LET until == BlockUntil(ts, scan.block) IN
  /\ Reaches(ip, port, ts) /\ ~ Floods(ip, ts) /\ Sweeps(ip, port, ts)
  /\ probes' = [probes EXCEPT ![ip] = ProbeLog(ip, port, ts)]
  /\ blocked' = [blocked EXCEPT ![ip] = [until |-> until, reason |-> "PortScan"]]
  /\ last' = Refuse(ts, until)

PassCounted(ip, port, ts) ==
  /\ Reaches(ip, port, ts) /\ ~ Floods(ip, ts) /\ ~ Sweeps(ip, port, ts)
  /\ probes' = [probes EXCEPT ![ip] = ProbeLog(ip, port, ts)]
  /\ last' = Pass(ts)
  /\ UNCHANGED blocked

Inspect ==
  \E ip \in IPs, ts \in Stamps :
    \/ PassTrusted(ip, ts)
    \/ RefuseBlocked(ip, ts)
    \/ PassUncounted(ip, ts)
    \/ \E port \in Ports : \/ FloodTrip(ip, port, ts)
                           \/ ScanTrip(ip, port, ts)
                           \/ PassCounted(ip, port, ts)

\* tick: forget expired blocks and stale stamps, by the wall clock.
Tick ==
  /\ blocked' = [ip \in IPs |-> IF now < blocked[ip].until THEN blocked[ip]
                                                           ELSE NoBlock]
  /\ perIp' = [ip \in IPs |-> Trim(perIp[ip], now, ddos.window)]
  /\ global' = Trim(global, now, ddos.window)
  /\ probes' = [ip \in IPs |-> TrimProbes(probes[ip], now, scan.window)]
  /\ UNCHANGED <<clocks, settings, whitelist, last, attempts, commands>>

Command ==
  /\ commands < MaxCommands /\ commands' = commands + 1
  /\ UNCHANGED <<clocks, logs, last, attempts>>

\* set_config; the logs stay as they are.
SetConfig ==
  /\ Command
  /\ ddos' \in DdosConfigs /\ scan' \in ScanConfigs
  /\ UNCHANGED <<blocked, whitelist>>

\* set_ddos_enabled and set_scan_enabled.
SetEnabled ==
  /\ Command
  /\ \/ \E on \in BOOLEAN : ddos' = [ddos EXCEPT !.enabled = on] /\ scan' = scan
     \/ \E on \in BOOLEAN : scan' = [scan EXCEPT !.enabled = on] /\ ddos' = ddos
  /\ UNCHANGED <<blocked, whitelist>>

WhitelistAdd(ip) ==
  /\ Command
  /\ whitelist' = whitelist \cup {ip}
  /\ UNCHANGED <<settings, blocked>>

WhitelistRemove(ip) ==
  /\ Command
  /\ whitelist' = whitelist \ {ip}
  /\ UNCHANGED <<settings, blocked>>

\* block_manual, with the end the command computes from the wall clock.
BlockManual(ip) ==
  /\ Command
  /\ blocked' = [blocked EXCEPT ![ip] = [until |-> now + ManualBlock,
                                         reason |-> "Manual"]]
  /\ UNCHANGED <<settings, whitelist>>

\* unblock; the detectors keep what they have logged.
Unblock(ip) ==
  /\ Command
  /\ blocked' = [blocked EXCEPT ![ip] = NoBlock]
  /\ UNCHANGED <<settings, whitelist>>

\* The environment's clock.
Advance ==
  /\ now < MaxTime /\ now' = now + 1
  /\ newest' = IF now < newest THEN newest ELSE now + 1
  /\ UNCHANGED <<settings, logs, blocked, whitelist, last, attempts, commands>>

StepBack ==
  /\ StepsBack
  /\ now' \in 0 .. now
  /\ UNCHANGED <<newest, settings, logs, blocked, whitelist, last, attempts, commands>>

Next ==
  \/ Inspect
  \/ Tick
  \/ SetConfig
  \/ SetEnabled
  \/ \E ip \in IPs : \/ WhitelistAdd(ip) \/ WhitelistRemove(ip)
                     \/ BlockManual(ip) \/ Unblock(ip)
  \/ Advance
  \/ StepBack

Spec == Init /\ [][Next]_vars

-----------------------------------------------------------------------------
(* Properties. *)

\* The attempts of a log that were made no earlier than one which is still in
\* the window.  With stamps in order, these are the attempts in the window.
Since(h, log, t, w) ==
  {i \in log : \E j \in log : j <= i /\ ~ Stale(h[j].ts, t, w)}

FloodAttempts(h, ip)  == {i \in DOMAIN h : h[i].ip = ip /\ h[i].flood}
GlobalAttempts(h)     == {i \in DOMAIN h : h[i].glob}
SweepAttempts(h, ip)  == {i \in DOMAIN h : h[i].ip = ip /\ h[i].swept}

FloodEvidence(h, ip, t) ==
  ddos.enabled /\ Cardinality(Since(h, FloodAttempts(h, ip), t, ddos.window)) > ddos.max

GlobalEvidence(h, t) ==
  GlobalCounts /\ Cardinality(Since(h, GlobalAttempts(h), t, ddos.window)) > ddos.globalMax

SweepEvidence(h, ip, t) ==
  LET own == Since(h, SweepAttempts(h, ip), t, scan.window)
  IN scan.enabled /\ Cardinality({h[i].port : i \in own}) > scan.ports

NewBlock(ip, reason) ==
  blocked'[ip] # blocked[ip] /\ blocked'[ip].reason = reason

\* The rate limiter blocks a source only on what was really attempted: more
\* than max attempts of that source, or more than globalMax of all of them, since
\* one that is still in the window, however the logs were trimmed, in whatever
\* order the stamps came and whatever the settings were before.
FloodBlockJustified ==
  [][\A ip \in IPs : NewBlock(ip, "RateLimit") =>
       \/ FloodEvidence(attempts', ip, last'.ts)
       \/ GlobalEvidence(attempts', last'.ts)]_vars

\* The same, counting no attempt that is out of the window itself.
InWindow(h, log, t, w) == {i \in log : ~ Stale(h[i].ts, t, w) /\ h[i].ts <= t}
FloodInWindow ==
  [][\A ip \in IPs : NewBlock(ip, "RateLimit") =>
       \/ Cardinality(InWindow(attempts', FloodAttempts(attempts', ip),
                               last'.ts, ddos.window)) > ddos.max
       \/ GlobalEvidence(attempts', last'.ts)]_vars

\* The scan detector blocks a source only if that source touched more than
\* the threshold of distinct ports since a probe still in the scan window.
ScanBlockJustified ==
  [][\A ip \in IPs : NewBlock(ip, "PortScan") =>
       SweepEvidence(attempts', ip, last'.ts)]_vars

\* An attempt passes the rate limiter only if its source has not opened more
\* than max connections in the window: what DdosConfig says of
\* max_conns_per_window.
NoMissedFlood ==
  [][attempts' # attempts /\ ~ last'.block =>
       LET new == attempts'[Len(attempts')]
       IN ~ FloodEvidence(attempts', new.ip, new.ts)]_vars

\* A block ends or changes only once it has run out, or by the user's hand:
\* neither traffic nor new settings nor housekeeping touches an active one.
BlockChangesOnlyWhenOver ==
  [][\A ip \in IPs : blocked'[ip] # blocked[ip] =>
       \/ blocked[ip].until <= now
       \/ blocked[ip].until <= last'.ts
       \/ BlockManual(ip) \/ Unblock(ip)]_vars

\* A Block verdict announces a block that is in force at the event's time, as
\* "how long (ms) to keep a tripped IP blocked" promises.
BlockTakesEffect == last.block => last.ts < last.until

-----------------------------------------------------------------------------
(* Refinement. *)

\* The block table as the policy sees it: entries that have run out are gone.
InForce == [ip \in IPs |-> IF now < blocked[ip].until THEN blocked[ip] ELSE NoBlock]

Policy == INSTANCE SlidingWindowPolicy WITH blocks <- InForce

\* The logs, their trimming and the ticks decide as a policy that remembers
\* every attempt would (Engine::inspect with RateLimiter and ScanDetector).
ImplementsPolicy == Policy!Spec
=============================================================================
