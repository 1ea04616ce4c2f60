----------------------- MODULE DetectionEngine_proofs -----------------------
(***************************************************************************)
(* Proofs about DetectionEngine, for any sources, ports, settings, word    *)
(* width and bounds.  With a clock that may go back and events that lag:   *)
(* the types are right, an active block is left alone, and a detector      *)
(* blocks only on what was attempted.  With block lengths that fit in the  *)
(* word, a refusal is in force.  In step with the callback, the engine     *)
(* implements SlidingWindowPolicy.                                         *)
(*                                                                         *)
(* The invariant behind the last three is LogsFollow: one entry after the  *)
(* other, each log shows attempts of the history, in order, and, while the *)
(* windows only move on, misses none that is in the window.                *)
(***************************************************************************)
EXTENDS DetectionEngine, WellFoundedInduction, SequenceTheorems, FiniteSetTheorems, TLAPS

\* A set of naturals that is not empty has a least element.
LEMMA LeastElement ==
  ASSUME NEW T, T \subseteq Nat, T # {}
  PROVE  \E m \in T : \A k \in T : m <= k
<1>1. \E m \in T : \A k \in T : ~ (<<k, m>> \in OpToRel(<, Nat))
  BY WFMin, NatLessThanWellFounded, Zenon
<1>2. \A k, m \in Nat : k < m => <<k, m>> \in OpToRel(<, Nat)
  BY Zenon DEF OpToRel
<1>3. \A k, m \in Nat : ~ (k < m) => m <= k
  OBVIOUS
<1>. QED BY <1>1, <1>2, <1>3, Zenon

\* Trimming always finds where to stop, and stops where it should.
LEMMA FirstFreshProperties ==
  ASSUME NEW q \in Seq(Nat), NEW t \in Nat, NEW w \in Nat
  PROVE  LET k == FirstFresh(q, t, w) IN
         /\ k \in 1 .. Len(q) + 1
         /\ \A i \in 1 .. k - 1 : Stale(q[i], t, w)
         /\ k <= Len(q) => ~ Stale(q[k], t, w)
<1>. DEFINE F(k) == /\ \A i \in 1 .. k - 1 : Stale(q[i], t, w)
                    /\ k <= Len(q) => ~ Stale(q[k], t, w)
            T == {k \in 1 .. Len(q) + 1 : k <= Len(q) => ~ Stale(q[k], t, w)}
<1>1. Len(q) + 1 \in T /\ T \subseteq Nat
  OBVIOUS
<1>2. PICK m \in T : \A k \in T : m <= k
  <2>. HIDE DEF T
  <2>. QED BY <1>1, LeastElement
<1>3. \E k \in 1 .. Len(q) + 1 : F(k)
  <2>1. ASSUME NEW i \in 1 .. m - 1 PROVE Stale(q[i], t, w)
    BY <1>2
  <2>. QED BY <2>1, <1>2
<1>. QED BY <1>3 DEF FirstFresh

\* RateLimiter::trim leaves a log of stamps.
LEMMA TrimType ==
  ASSUME NEW q \in Seq(Nat), NEW t \in Nat, NEW w \in Nat
  PROVE  Trim(q, t, w) \in Seq(Nat)
<1>1. FirstFresh(q, t, w) \in 1 .. Len(q) + 1
  BY FirstFreshProperties
<1>. QED BY <1>1, SubSeqProperties DEF Trim

\* The scan detector's trimming leaves a log of probes.
LEMMA TrimProbesType ==
  ASSUME NEW q \in Seq(Probe), NEW t \in Nat, NEW w \in Nat
  PROVE  TrimProbes(q, t, w) \in Seq(Probe)
<1>. DEFINE n == Len(q)
<1>1. StampsOf(q) \in Seq(Nat) /\ Len(StampsOf(q)) = n
  <2>1. n \in Nat /\ \A i \in 1 .. n : q[i] \in Probe
    OBVIOUS
  <2>2. \A i \in 1 .. n : q[i].ts \in Nat
    BY <2>1 DEF Probe
  <2>3. StampsOf(q) \in [1 .. n -> Nat]
    BY <2>2 DEF StampsOf
  <2>. QED BY <2>1, <2>3
<1>2. FirstFresh(StampsOf(q), t, w) \in 1 .. Len(q) + 1
  BY <1>1, FirstFreshProperties
<1>. QED BY <1>2, SubSeqProperties DEF TrimProbes

-----------------------------------------------------------------------------
\* What the detectors leave in their logs is well typed.
LEMMA LogTypes ==
  ASSUME TypeOK, NEW ip \in IPs, NEW port \in Ports, NEW ts \in Nat
  PROVE  /\ FloodLog(ip, ts) \in Seq(Nat)
         /\ GlobalLog(ts) \in Seq(Nat)
         /\ ProbeLog(ip, port, ts) \in Seq(Probe)
<1>1. /\ perIp[ip] \in Seq(Nat) /\ global \in Seq(Nat) /\ probes[ip] \in Seq(Probe)
      /\ ddos.window \in Nat /\ scan.window \in Nat
  BY DEF TypeOK, DdosConfig, ScanConfig
<1>2. FloodLog(ip, ts) \in Seq(Nat)
  <2>1. Append(perIp[ip], ts) \in Seq(Nat)  BY <1>1
  <2>. QED BY <1>1, <2>1, TrimType DEF FloodLog
<1>3. GlobalLog(ts) \in Seq(Nat)
  <2>1. Append(global, ts) \in Seq(Nat)  BY <1>1
  <2>. QED BY <1>1, <2>1, TrimType DEF GlobalLog
<1>4. ProbeLog(ip, port, ts) \in Seq(Probe)
  <2>1. [ts |-> ts, port |-> port] \in Probe  BY DEF Probe
  <2>2. Append(probes[ip], [ts |-> ts, port |-> port]) \in Seq(Probe)  BY <1>1, <2>1
  <2>. QED BY <1>1, <2>2, TrimProbesType DEF ProbeLog
<1>. QED BY <1>2, <1>3, <1>4

\* The end of a block, wrapped or not, is an instant.
LEMMA BlockUntilType ==
  ASSUME NEW ts \in Nat, NEW length \in Nat
  PROVE  BlockUntil(ts, length) \in Nat
BY TimeAssumption DEF BlockUntil

\* An event's stamp is an instant.
LEMMA StampsType ==
  ASSUME TypeOK, NEW ts \in Stamps
  PROVE  ts \in Nat
BY DEF TypeOK, Stamps

\* An event that reaches the detectors is remembered as an attempt.
LEMMA ReachesType ==
  ASSUME TypeOK, NEW ip \in IPs, NEW port \in Ports, NEW ts \in Nat,
         Reaches(ip, port, ts)
  PROVE  /\ newest' \in Nat /\ now' \in Nat
         /\ perIp' \in [IPs -> Seq(Nat)] /\ global' \in Seq(Nat)
         /\ attempts' \in Seq(Attempt)
         /\ whitelist' \subseteq IPs
         /\ commands' \in 0 .. MaxCommands
         /\ ddos' = ddos /\ scan' = scan
<1>1. perIp' \in [IPs -> Seq(Nat)] /\ global' \in Seq(Nat)
  BY LogTypes DEF TypeOK, Reaches
<1>2. attempts' \in Seq(Attempt)
  <2>. DEFINE a == [ip |-> ip, port |-> port, ts |-> ts,
                    flood |-> ddos.enabled, glob |-> GlobalCounts,
                    swept |-> scan.enabled /\ ~ Floods(ip, ts)]
  <2>1. ddos.enabled \in BOOLEAN  BY DEF TypeOK, DdosConfig
  <2>2. GlobalCounts \in BOOLEAN  BY <2>1 DEF GlobalCounts
  <2>3. (scan.enabled /\ ~ Floods(ip, ts)) \in BOOLEAN  OBVIOUS
  <2>4. a \in Attempt
    BY <2>1, <2>2, <2>3, Zenon DEF Attempt
  <2>5. attempts' = Append(attempts, a)  BY DEF Reaches
  <2>. HIDE DEF a
  <2>. QED BY <2>4, <2>5 DEF TypeOK
<1>. QED BY <1>1, <1>2 DEF TypeOK, Reaches, clocks, settings

\* What inspect answers is a verdict.
LEMMA VerdictType ==
  ASSUME NEW ts \in Nat, NEW until \in Nat
  PROVE  Pass(ts) \in Verdict /\ Refuse(ts, until) \in Verdict
BY DEF Pass, Refuse, Verdict

\* A block that is entered in the table is one.
LEMMA BlockType ==
  ASSUME NEW until \in Nat, NEW reason \in Reasons
  PROVE  [until |-> until, reason |-> reason] \in Block /\ NoBlock \in Block
BY DEF Block, NoBlock, Reasons

\* The variables start within their types (Engine::new).
LEMMA TypeInit == Init => TypeOK
<1>. SUFFICES ASSUME Init PROVE TypeOK
  OBVIOUS
<1>1. Pass(0) \in Verdict /\ NoBlock \in Block
  BY VerdictType, BlockType DEF Reasons
<1>. QED BY <1>1, ConfigAssumption, TimeAssumption DEF Init, TypeOK

\* Engine::inspect keeps the types, whichever of its ways out it takes.
LEMMA TypeInspect == TypeOK /\ Inspect => TypeOK'
<1>. SUFFICES ASSUME TypeOK, NEW ip \in IPs, NEW ts \in Stamps,
                     \/ PassTrusted(ip, ts)
                     \/ RefuseBlocked(ip, ts)
                     \/ PassUncounted(ip, ts)
                     \/ \E port \in Ports : \/ FloodTrip(ip, port, ts)
                                            \/ ScanTrip(ip, port, ts)
                                            \/ PassCounted(ip, port, ts)
              PROVE  TypeOK'
  BY DEF Inspect
<1>. ts \in Nat
  BY StampsType
<1>1. CASE PassTrusted(ip, ts)
  BY <1>1, VerdictType DEF TypeOK, PassTrusted, clocks, settings, logs
<1>2. CASE RefuseBlocked(ip, ts)
  <2>1. blocked[ip].until \in Nat  BY DEF TypeOK, Block
  <2>. QED BY <1>2, <2>1, VerdictType DEF TypeOK, RefuseBlocked, clocks, settings, logs
<1>3. CASE PassUncounted(ip, ts)
  BY <1>3, VerdictType DEF TypeOK, PassUncounted, clocks, settings, logs
<1>4. ASSUME NEW port \in Ports, FloodTrip(ip, port, ts) PROVE TypeOK'
  <2>. DEFINE until == BlockUntil(ts, ddos.block)
  <2>1. until \in Nat  BY BlockUntilType DEF TypeOK, DdosConfig, ScanConfig
  <2>2. [until |-> until, reason |-> "RateLimit"] \in Block
    BY <2>1, BlockType DEF Reasons
  <2>3. blocked' \in [IPs -> Block]
    BY <1>4, <2>2 DEF TypeOK, FloodTrip
  <2>4. last' \in Verdict
    BY <1>4, <2>1, VerdictType DEF FloodTrip
  <2>5. Reaches(ip, port, ts) /\ probes' = probes
    BY <1>4 DEF FloodTrip
  <2>. QED BY <2>3, <2>4, <2>5, ReachesType DEF TypeOK
<1>5. ASSUME NEW port \in Ports, ScanTrip(ip, port, ts) PROVE TypeOK'
  <2>. DEFINE until == BlockUntil(ts, scan.block)
  <2>1. until \in Nat  BY BlockUntilType DEF TypeOK, DdosConfig, ScanConfig
  <2>2. [until |-> until, reason |-> "PortScan"] \in Block
    BY <2>1, BlockType DEF Reasons
  <2>3. blocked' \in [IPs -> Block]
    BY <1>5, <2>2 DEF TypeOK, ScanTrip
  <2>4. last' \in Verdict
    BY <1>5, <2>1, VerdictType DEF ScanTrip
  <2>5. Reaches(ip, port, ts) /\ probes' \in [IPs -> Seq(Probe)]
    BY <1>5, LogTypes DEF ScanTrip, TypeOK
  <2>. QED BY <2>3, <2>4, <2>5, ReachesType DEF TypeOK
<1>6. ASSUME NEW port \in Ports, PassCounted(ip, port, ts) PROVE TypeOK'
  <2>1. Reaches(ip, port, ts) /\ probes' \in [IPs -> Seq(Probe)]
    BY <1>6, LogTypes DEF PassCounted, TypeOK
  <2>2. blocked' = blocked /\ last' \in Verdict
    BY <1>6, VerdictType DEF PassCounted
  <2>. QED BY <2>1, <2>2, ReachesType DEF TypeOK
<1>. QED BY <1>1, <1>2, <1>3, <1>4, <1>5, <1>6

\* Engine::tick keeps the types.
LEMMA TypeTick == TypeOK /\ Tick => TypeOK'
<1>. SUFFICES ASSUME TypeOK, Tick PROVE TypeOK'
  OBVIOUS
<1>1. /\ now \in Nat /\ ddos.window \in Nat /\ scan.window \in Nat
  BY DEF TypeOK, DdosConfig, ScanConfig
<1>2. perIp' \in [IPs -> Seq(Nat)]
  BY <1>1, TrimType DEF TypeOK, Tick
<1>3. global' \in Seq(Nat)
  BY <1>1, TrimType DEF TypeOK, Tick
<1>4. probes' \in [IPs -> Seq(Probe)]
  BY <1>1, TrimProbesType DEF TypeOK, Tick
<1>5. blocked' \in [IPs -> Block]
  BY BlockType DEF TypeOK, Tick, Reasons
<1>. QED BY <1>2, <1>3, <1>4, <1>5 DEF TypeOK, Tick, clocks, settings

\* What every call made for the user leaves alone.
LEMMA CommandType ==
  ASSUME TypeOK, Command
  PROVE  /\ now' \in Nat /\ newest' \in Nat
         /\ perIp' \in [IPs -> Seq(Nat)] /\ global' \in Seq(Nat)
         /\ probes' \in [IPs -> Seq(Probe)]
         /\ last' \in Verdict /\ attempts' \in Seq(Attempt)
         /\ commands' \in 0 .. MaxCommands
BY TimeAssumption DEF TypeOK, Command, clocks, logs

\* The user's commands keep the types.
LEMMA TypeCommands ==
  ASSUME TypeOK,
         \/ SetConfig \/ SetEnabled
         \/ \E ip \in IPs : \/ WhitelistAdd(ip) \/ WhitelistRemove(ip)
                            \/ BlockManual(ip) \/ Unblock(ip)
  PROVE  TypeOK'
<1>1. CASE SetConfig
  <2>1. ddos' \in DdosConfig /\ scan' \in ScanConfig
    BY <1>1, ConfigAssumption DEF SetConfig
  <2>2. whitelist' \subseteq IPs /\ blocked' \in [IPs -> Block]
    BY <1>1 DEF SetConfig, TypeOK
  <2>3. Command  BY <1>1 DEF SetConfig
  <2>. QED BY <2>1, <2>2, <2>3, CommandType DEF TypeOK
<1>2. CASE SetEnabled
  <2>1. ddos' \in DdosConfig /\ scan' \in ScanConfig
    BY <1>2 DEF SetEnabled, TypeOK, DdosConfig, ScanConfig
  <2>2. whitelist' \subseteq IPs /\ blocked' \in [IPs -> Block]
    BY <1>2 DEF SetEnabled, TypeOK
  <2>3. Command  BY <1>2 DEF SetEnabled
  <2>. QED BY <2>1, <2>2, <2>3, CommandType DEF TypeOK
<1>3. ASSUME NEW ip \in IPs, WhitelistAdd(ip) \/ WhitelistRemove(ip) PROVE TypeOK'
  <2>1. whitelist' \subseteq IPs /\ Command
    BY <1>3 DEF WhitelistAdd, WhitelistRemove, TypeOK
  <2>2. /\ blocked' \in [IPs -> Block]
        /\ ddos' \in DdosConfig /\ scan' \in ScanConfig
    BY <1>3 DEF WhitelistAdd, WhitelistRemove, TypeOK, settings
  <2>. QED BY <2>1, <2>2, CommandType DEF TypeOK
<1>4. ASSUME NEW ip \in IPs, BlockManual(ip) \/ Unblock(ip) PROVE TypeOK'
  <2>1. now + ManualBlock \in Nat
    BY TimeAssumption DEF TypeOK
  <2>2. /\ [until |-> now + ManualBlock, reason |-> "Manual"] \in Block
        /\ NoBlock \in Block
    BY <2>1, BlockType DEF Reasons
  <2>3. blocked' \in [IPs -> Block] /\ Command
    BY <1>4, <2>2 DEF BlockManual, Unblock, TypeOK
  <2>4. whitelist' \subseteq IPs /\ ddos' \in DdosConfig /\ scan' \in ScanConfig
    BY <1>4 DEF BlockManual, Unblock, TypeOK, settings
  <2>. QED BY <2>3, <2>4, CommandType DEF TypeOK
<1>. QED BY <1>1, <1>2, <1>3, <1>4

\* Every step keeps the types.
LEMMA TypeNext == TypeOK /\ [Next]_vars => TypeOK'
<1>. SUFFICES ASSUME TypeOK, [Next]_vars PROVE TypeOK'
  OBVIOUS
<1>1. CASE Inspect  BY <1>1, TypeInspect
<1>2. CASE Tick     BY <1>2, TypeTick
<1>3. CASE \/ SetConfig \/ SetEnabled
           \/ \E ip \in IPs : \/ WhitelistAdd(ip) \/ WhitelistRemove(ip)
                              \/ BlockManual(ip) \/ Unblock(ip)
  BY <1>3, TypeCommands
<1>4. CASE Advance
  BY <1>4 DEF TypeOK, Advance, settings, logs
<1>5. CASE StepBack
  BY <1>5 DEF TypeOK, StepBack, settings, logs
<1>6. CASE UNCHANGED vars
  BY <1>6 DEF TypeOK, vars
<1>. QED BY <1>1, <1>2, <1>3, <1>4, <1>5, <1>6 DEF Next

\* The engine's tables and logs keep their types whatever the settings, the
\* clock and the traffic do: Engine's methods never store a malformed entry.
THEOREM TypeCorrect == Spec => []TypeOK
BY TypeInit, TypeNext, PTL DEF Spec

\* No traffic, no new setting and no housekeeping ends, shortens or extends a
\* block in force (Engine::inspect's early return, Engine::tick's retain): it
\* takes the user, or time.
THEOREM BlocksHold == Spec => BlockChangesOnlyWhenOver
<1>. DEFINE Over(ip) == \/ blocked[ip].until <= now
                        \/ blocked[ip].until <= last'.ts
                        \/ BlockManual(ip) \/ Unblock(ip)
            Holds == \A ip \in IPs : blocked'[ip] # blocked[ip] => Over(ip)
<1>1. TypeOK /\ [Next]_vars => [Holds]_vars
  <2>. SUFFICES ASSUME TypeOK, Next, NEW ip \in IPs, blocked'[ip] # blocked[ip]
                PROVE  Over(ip)
    BY DEF vars
  <2>. blocked[ip].until \in Nat /\ now \in Nat /\ blocked \in [IPs -> Block]
    BY DEF TypeOK, Block
  <2>1. CASE Inspect
    <3>1. PICK j \in IPs, ts \in Stamps :
            \/ PassTrusted(j, ts) \/ RefuseBlocked(j, ts) \/ PassUncounted(j, ts)
            \/ \E port \in Ports : \/ FloodTrip(j, port, ts)
                                   \/ ScanTrip(j, port, ts)
                                   \/ PassCounted(j, port, ts)
      BY <2>1 DEF Inspect
    <3>2. PICK port \in Ports : FloodTrip(j, port, ts) \/ ScanTrip(j, port, ts)
      BY <3>1 DEF PassTrusted, RefuseBlocked, PassUncounted, PassCounted
    <3>3. j = ip /\ ~ Active(ip, ts) /\ last'.ts = ts
      BY <3>2 DEF FloodTrip, ScanTrip, Reaches, Refuse
    <3>4. ts \in Nat
      BY StampsType
    <3>. QED BY <3>3, <3>4 DEF Active
  <2>2. CASE Tick
    BY <2>2 DEF Tick
  <2>3. CASE \/ SetConfig \/ SetEnabled \/ Advance \/ StepBack
    BY <2>3 DEF SetConfig, SetEnabled, Advance, StepBack
  <2>4. ASSUME NEW j \in IPs,
               \/ WhitelistAdd(j) \/ WhitelistRemove(j)
               \/ BlockManual(j) \/ Unblock(j)
        PROVE  Over(ip)
    <3>1. BlockManual(j) \/ Unblock(j)
      BY <2>4 DEF WhitelistAdd, WhitelistRemove
    <3>2. j = ip
      BY <3>1 DEF BlockManual, Unblock
    <3>. QED BY <3>1, <3>2
  <2>. QED BY <2>1, <2>2, <2>3, <2>4 DEF Next
<1>. QED BY <1>1, TypeCorrect, PTL DEF Spec, BlockChangesOnlyWhenOver

-----------------------------------------------------------------------------
(* What the logs remember. *)

\* One entry after the other, a log shows attempts: those at the indices e, all
\* of S, seen through view, in the order in which they were made, and all of must.
Shows(e, log, view, S, must) ==
  /\ e \in [1 .. Len(log) -> S]
  /\ \A k \in 1 .. Len(log) : log[k] = view[e[k]]
  /\ \A j, k \in 1 .. Len(log) : j < k => e[j] < e[k]
  /\ \A i \in must : \E k \in 1 .. Len(log) : e[k] = i

Follows(log, view, S, must) == \E e : Shows(e, log, view, S, must)

\* A log follows a longer history, and need not show what it has shown.
LEMMA FollowsMore ==
  ASSUME NEW log, NEW view, NEW S, NEW must, Follows(log, view, S, must),
         NEW other, NEW T, NEW few, S \subseteq T, few \subseteq must,
         \A i \in S : other[i] = view[i]
  PROVE  Follows(log, other, T, few)
<1>1. PICK e : Shows(e, log, view, S, must)
  BY DEF Follows
<1>. DEFINE n == 1 .. Len(log)
<1>2. /\ e \in [n -> S] /\ \A k \in n : log[k] = view[e[k]]
      /\ \A j, k \in n : j < k => e[j] < e[k]
      /\ \A i \in must : \E k \in n : e[k] = i
  BY <1>1 DEF Shows
<1>. HIDE DEF n
<1>3. /\ e \in [n -> T] /\ \A k \in n : log[k] = other[e[k]]
      /\ \A i \in few : \E k \in n : e[k] = i
  BY <1>2
<1>4. Shows(e, log, other, T, few)
  BY <1>2, <1>3 DEF Shows, n
<1>. QED BY <1>4 DEF Follows

\* The latest attempt is appended to the log.
LEMMA FollowsAppend ==
  ASSUME NEW V, NEW log \in Seq(V), NEW view, NEW S, S \subseteq Nat, NEW must,
         Follows(log, view, S, must),
         NEW n \in Nat, \A i \in S : i < n, view[n] \in V
  PROVE  Follows(Append(log, view[n]), view, S \cup {n}, must \cup {n})
<1>1. PICK e : Shows(e, log, view, S, must)
  BY DEF Follows
<1>. DEFINE len == Len(log)
            more == Append(log, view[n])
            d == [k \in 1 .. len + 1 |-> IF k = len + 1 THEN n ELSE e[k]]
<1>2. /\ Len(more) = len + 1 /\ len \in Nat /\ more[len + 1] = view[n]
      /\ \A k \in 1 .. len : more[k] = log[k]
  BY AppendProperties, LenProperties
<1>. HIDE DEF more
<1>3. /\ e \in [1 .. len -> S] /\ \A k \in 1 .. len : log[k] = view[e[k]]
      /\ \A j, k \in 1 .. len : j < k => e[j] < e[k]
      /\ \A i \in must : \E k \in 1 .. len : e[k] = i
  BY <1>1 DEF Shows
<1>. HIDE DEF len
<1>4. d \in [1 .. len + 1 -> S \cup {n}]
  BY <1>2, <1>3
<1>5. \A k \in 1 .. len + 1 : more[k] = view[d[k]]
  <2>. SUFFICES ASSUME NEW k \in 1 .. len + 1 PROVE more[k] = view[d[k]]
    OBVIOUS
  <2>1. CASE k = len + 1
    BY <1>2, <2>1
  <2>2. CASE k # len + 1
    <3>1. k \in 1 .. len
      BY <1>2, <2>2
    <3>. QED BY <1>2, <1>3, <2>2, <3>1
  <2>. QED BY <2>1, <2>2
<1>6. ASSUME NEW j \in 1 .. len + 1, NEW k \in 1 .. len + 1, j < k PROVE d[j] < d[k]
  <2>0. j \in 1 .. len
    BY <1>2, <1>6
  <2>1. j \in 1 .. len /\ d[j] = e[j] /\ e[j] \in S
    BY <1>2, <1>3, <2>0
  <2>2. CASE k = len + 1
    BY <2>1, <2>2
  <2>3. CASE k # len + 1
    <3>1. k \in 1 .. len /\ d[k] = e[k]
      BY <1>2, <2>3
    <3>. QED BY <1>3, <1>6, <2>1, <3>1
  <2>. QED BY <2>2, <2>3
<1>7. ASSUME NEW i \in must \cup {n} PROVE \E k \in 1 .. len + 1 : d[k] = i
  <2>1. CASE i = n
    <3>1. len + 1 \in 1 .. len + 1 /\ d[len + 1] = n
      BY <1>2
    <3>. QED BY <2>1, <3>1
  <2>2. CASE i # n
    <3>1. PICK k \in 1 .. len : e[k] = i
      BY <1>3, <2>2
    <3>2. k \in 1 .. len + 1 /\ d[k] = i
      BY <1>2, <3>1
    <3>. QED BY <3>2
  <2>. QED BY <2>1, <2>2
<1>. HIDE DEF d
<1>8. Shows(d, more, view, S \cup {n}, must \cup {n})
  BY <1>2, <1>4, <1>5, <1>6, <1>7 DEF Shows
<1>. QED BY <1>8 DEF Follows, more

\* Entries are dropped from the front that need not be shown.
LEMMA FollowsTail ==
  ASSUME NEW V, NEW log \in Seq(V), NEW view, NEW S, S \subseteq Nat, NEW must,
         Follows(log, view, S, must), NEW first \in 1 .. Len(log) + 1,
         NEW few, few \subseteq must,
         \A i \in few : \A k \in 1 .. first - 1 : view[i] # log[k]
  PROVE  /\ Follows(SubSeq(log, first, Len(log)), view, S, few)
         /\ SubSeq(log, first, Len(log)) \in Seq(V)
         /\ \A k \in 1 .. Len(SubSeq(log, first, Len(log))) :
              /\ first + k - 1 \in 1 .. Len(log)
              /\ SubSeq(log, first, Len(log))[k] = log[first + k - 1]
<1>1. PICK e : Shows(e, log, view, S, must)
  BY DEF Follows
<1>. DEFINE len == Len(log)
            tail == SubSeq(log, first, len)
            m == len - first + 1
            d == [k \in 1 .. m |-> e[first + k - 1]]
<1>2. /\ len \in Nat /\ \A k \in 1 .. len : log[k] \in V
      /\ first \in Int /\ \A k \in first .. len : log[k] \in V
  BY LenProperties
<1>3. /\ tail \in Seq(V) /\ Len(tail) = m
      /\ \A k \in 1 .. m : tail[k] = log[first + k - 1]
  <2>1. /\ tail \in Seq(V) /\ Len(tail) = (IF first <= len THEN m ELSE 0)
        /\ \A k \in 1 .. m : tail[k] = log[first + k - 1]
    <3>. HIDE DEF len
    <3>. QED BY <1>2, SubSeqProperties
  <2>2. m = IF first <= len THEN m ELSE 0
    BY <1>2
  <2>. QED BY <2>1, <2>2
<1>4. /\ e \in [1 .. len -> S] /\ \A k \in 1 .. len : log[k] = view[e[k]]
      /\ \A j, k \in 1 .. len : j < k => e[j] < e[k]
      /\ \A i \in must : \E k \in 1 .. len : e[k] = i
  BY <1>1 DEF Shows
<1>5. first \in 1 .. len + 1
  OBVIOUS
<1>. HIDE DEF tail, len
<1>6. \A k \in 1 .. m : first + k - 1 \in 1 .. len
  BY <1>2, <1>5
<1>7. /\ d \in [1 .. m -> S] /\ \A k \in 1 .. m : d[k] = e[first + k - 1]
  BY <1>4, <1>6
<1>. HIDE DEF d
<1>8. \A k \in 1 .. m : tail[k] = view[d[k]]
  BY <1>3, <1>4, <1>6, <1>7
<1>9. ASSUME NEW j \in 1 .. m, NEW k \in 1 .. m, j < k PROVE d[j] < d[k]
  <2>1. first + j - 1 < first + k - 1
    BY <1>2, <1>9
  <2>. QED BY <1>4, <1>6, <1>7, <2>1
<1>10. ASSUME NEW i \in few PROVE \E k \in 1 .. m : d[k] = i
  <2>1. PICK k \in 1 .. len : e[k] = i
    BY <1>4
  <2>2. view[i] = log[k]
    BY <1>4, <2>1
  <2>3. k \notin 1 .. first - 1
    BY <2>2
  <2>4. k - first + 1 \in 1 .. m /\ first + (k - first + 1) - 1 = k
    BY <1>2, <1>5, <2>3
  <2>5. d[k - first + 1] = i
    BY <1>7, <2>1, <2>4
  <2>. QED BY <2>4, <2>5
<1>11. Shows(d, tail, view, S, few)
  BY <1>3, <1>7, <1>8, <1>9, <1>10 DEF Shows
<1>. QED BY <1>3, <1>6, <1>11 DEF Follows, tail, len

\* The log shows nothing but the attempts of T, and all of them.
ShowsOnly(log, view, T) == \A k \in 1 .. Len(log) : \E i \in T : view[i] = log[k]
ShowsAll(log, view, T)  == \A i \in T : \E k \in 1 .. Len(log) : view[i] = log[k]

\* A log is no longer than the history from the attempt its first entry shows,
\* and shows nothing else.
LEMMA FollowsCount ==
  ASSUME NEW V, NEW log \in Seq(V), NEW view, NEW S, S \subseteq Nat, NEW must,
         Follows(log, view, S, must),
         NEW T, IsFiniteSet(T), T \subseteq S,
         \A i, j \in S : j <= i /\ view[j] = log[1] => i \in T
  PROVE  /\ Len(log) <= Cardinality(T) /\ Cardinality(T) \in Nat
         /\ ShowsOnly(log, view, T)
<1>1. PICK e : Shows(e, log, view, S, must)
  BY DEF Follows
<1>. DEFINE len == Len(log)
<1>2. len \in Nat
  BY LenProperties
<1>3. /\ e \in [1 .. len -> S] /\ \A k \in 1 .. len : log[k] = view[e[k]]
      /\ \A j, k \in 1 .. len : j < k => e[j] < e[k]
  BY <1>1 DEF Shows
<1>. HIDE DEF len
<1>4. ASSUME NEW k \in 1 .. len PROVE e[k] \in T
  <2>1. 1 \in 1 .. len /\ (k = 1 \/ 1 < k)
    BY <1>2
  <2>2. e[1] \in Nat /\ e[k] \in Nat /\ e[1] \in S /\ e[k] \in S
    BY <1>3, <2>1
  <2>3. e[1] <= e[k]
    BY <1>3, <2>1, <2>2
  <2>4. view[e[1]] = log[1]
    BY <1>3, <2>1
  <2>. QED BY <2>2, <2>3, <2>4
<1>5. \A j, k \in 1 .. len : e[j] = e[k] => j = k
  <2>. SUFFICES ASSUME NEW j \in 1 .. len, NEW k \in 1 .. len, e[j] = e[k] PROVE j = k
    OBVIOUS
  <2>1. e[j] \in Nat
    BY <1>3
  <2>2. ~ (j < k) /\ ~ (k < j)
    BY <1>3, <2>1
  <2>. QED BY <1>2, <2>2
<1>6. e \in Injection(1 .. len, T)
  BY <1>3, <1>4, <1>5 DEF Injection, IsInjective
<1>7. Cardinality(1 .. len) = len
  BY <1>2, FS_Interval
<1>8. len <= Cardinality(T) /\ Cardinality(T) \in Nat
  BY <1>6, <1>7, FS_Injection, FS_CardinalityType
<1>. QED BY <1>3, <1>4, <1>8 DEF len, ShowsOnly

\* A log that must show T and shows nothing else is as long as T.
LEMMA FollowsExactly ==
  ASSUME NEW V, NEW log \in Seq(V), NEW view, NEW S, S \subseteq Nat, NEW T,
         Follows(log, view, S, T), IsFiniteSet(T), T \subseteq S,
         \A i \in S : \A k \in 1 .. Len(log) : view[i] = log[k] => i \in T
  PROVE  /\ Len(log) = Cardinality(T)
         /\ ShowsOnly(log, view, T) /\ ShowsAll(log, view, T)
<1>1. PICK e : Shows(e, log, view, S, T)
  BY DEF Follows
<1>. DEFINE len == Len(log)
<1>2. len \in Nat
  BY LenProperties
<1>3. /\ e \in [1 .. len -> S] /\ \A k \in 1 .. len : log[k] = view[e[k]]
      /\ \A j, k \in 1 .. len : j < k => e[j] < e[k]
      /\ \A i \in T : \E k \in 1 .. len : e[k] = i
  BY <1>1 DEF Shows
<1>4. \A k \in 1 .. len : e[k] \in T
  BY <1>3
<1>. HIDE DEF len
<1>5. \A j, k \in 1 .. len : e[j] = e[k] => j = k
  <2>. SUFFICES ASSUME NEW j \in 1 .. len, NEW k \in 1 .. len, e[j] = e[k] PROVE j = k
    OBVIOUS
  <2>1. e[j] \in Nat
    BY <1>3
  <2>2. ~ (j < k) /\ ~ (k < j)
    BY <1>3, <2>1
  <2>. QED BY <1>2, <2>2
<1>6. e \in Bijection(1 .. len, T)
  BY <1>3, <1>4, <1>5 DEF Bijection, Injection, IsInjective, Surjection
<1>7. IsFiniteSet(1 .. len) /\ Cardinality(1 .. len) = len
  BY <1>2, FS_Interval
<1>8. len = Cardinality(T)
  BY <1>6, <1>7, FS_Bijection DEF ExistsBijection
<1>9. \A i \in T : \E k \in 1 .. len : view[i] = log[k]
  BY <1>3
<1>. QED BY <1>3, <1>4, <1>8, <1>9 DEF len, ShowsOnly, ShowsAll

\* The attempts as RateLimiter and ScanDetector log them.
Stamped(h) == [i \in DOMAIN h |-> h[i].ts]
Probed(h)  == [i \in DOMAIN h |-> [ts |-> h[i].ts, port |-> h[i].port]]

\* What trimming leaves still shows what is in the window, and begins with
\* something that is.
LEMMA TrimFollows ==
  ASSUME NEW log \in Seq(Nat), NEW view, NEW S, S \subseteq Nat, NEW must,
         Follows(log, view, S, must), NEW t \in Nat, NEW w \in Nat,
         NEW few, few \subseteq must, \A i \in few : ~ Stale(view[i], t, w)
  PROVE  Follows(Trim(log, t, w), view, S, few)
<1>. DEFINE first == FirstFresh(log, t, w)
<1>1. first \in 1 .. Len(log) + 1 /\ \A k \in 1 .. first - 1 : Stale(log[k], t, w)
  BY FirstFreshProperties
<1>. HIDE DEF first
<1>2. \A i \in few : \A k \in 1 .. first - 1 : view[i] # log[k]
  BY <1>1
<1>3. Follows(SubSeq(log, first, Len(log)), view, S, few)
  BY <1>1, <1>2, FollowsTail
<1>. QED BY <1>3 DEF Trim, first

\* The first entry that trimming leaves is in the window.
LEMMA TrimFresh ==
  ASSUME NEW log \in Seq(Nat), NEW t \in Nat, NEW w \in Nat, Trim(log, t, w) # <<>>
  PROVE  ~ Stale(Trim(log, t, w)[1], t, w)
<1>. DEFINE first == FirstFresh(log, t, w)
            len == Len(log)
<1>1. first \in 1 .. len + 1 /\ (first <= len => ~ Stale(log[first], t, w))
  BY FirstFreshProperties
<1>2. len \in Nat /\ \A k \in first .. len : log[k] \in Nat
  BY <1>1, LenProperties
<1>3. Trim(log, t, w) = SubSeq(log, first, len)
  BY DEF Trim
<1>. HIDE DEF first, len
<1>4. first <= len
  BY <1>1, <1>2, <1>3, SubSeqEmpty
<1>5. SubSeq(log, first, len)[1] = log[first]
  <2>1. 1 \in 1 .. len - first + 1 /\ first + 1 - 1 = first
    BY <1>1, <1>2, <1>4
  <2>. QED BY <1>1, <1>2, <2>1, SubSeqProperties
<1>. QED BY <1>1, <1>3, <1>4, <1>5

\* The stamps of a log of probes.
LEMMA StampsOfProbes ==
  ASSUME NEW log \in Seq(Probe)
  PROVE  /\ StampsOf(log) \in Seq(Nat) /\ Len(StampsOf(log)) = Len(log)
         /\ \A k \in 1 .. Len(log) : StampsOf(log)[k] = log[k].ts
<1>1. Len(log) \in Nat /\ \A k \in 1 .. Len(log) : log[k].ts \in Nat
  <2>1. Len(log) \in Nat /\ \A k \in 1 .. Len(log) : log[k] \in Probe
    BY LenProperties
  <2>. QED BY <2>1 DEF Probe
<1>2. StampsOf(log) \in [1 .. Len(log) -> Nat]
  BY <1>1 DEF StampsOf
<1>. QED BY <1>1, <1>2 DEF StampsOf

\* The same for the scan detector's trimming.
LEMMA TrimProbesFollows ==
  ASSUME NEW log \in Seq(Probe), NEW view, NEW S, S \subseteq Nat, NEW must,
         Follows(log, view, S, must), NEW t \in Nat, NEW w \in Nat,
         NEW few, few \subseteq must, \A i \in few : ~ Stale(view[i].ts, t, w)
  PROVE  Follows(TrimProbes(log, t, w), view, S, few)
<1>. DEFINE stamps == StampsOf(log)
            first == FirstFresh(stamps, t, w)
<1>1. stamps \in Seq(Nat) /\ Len(stamps) = Len(log) /\ \A k \in 1 .. Len(log) : stamps[k] = log[k].ts
  BY StampsOfProbes
<1>. HIDE DEF stamps
<1>2. first \in 1 .. Len(log) + 1 /\ \A k \in 1 .. first - 1 : Stale(stamps[k], t, w)
  BY <1>1, FirstFreshProperties
<1>. HIDE DEF first
<1>3. Len(log) \in Nat
  BY LenProperties
<1>4. \A i \in few : \A k \in 1 .. first - 1 : view[i] # log[k]
  BY <1>1, <1>2, <1>3
<1>5. Follows(SubSeq(log, first, Len(log)), view, S, few)
  BY <1>2, <1>4, FollowsTail
<1>. QED BY <1>5 DEF TrimProbes, first, stamps

\* The first probe that trimming leaves is in the window.
LEMMA TrimProbesFresh ==
  ASSUME NEW log \in Seq(Probe), NEW t \in Nat, NEW w \in Nat, TrimProbes(log, t, w) # <<>>
  PROVE  ~ Stale(TrimProbes(log, t, w)[1].ts, t, w)
<1>. DEFINE stamps == StampsOf(log)
            first == FirstFresh(stamps, t, w)
            len == Len(log)
<1>1. stamps \in Seq(Nat) /\ Len(stamps) = len /\ \A k \in 1 .. len : stamps[k] = log[k].ts
  BY StampsOfProbes
<1>2. TrimProbes(log, t, w) = SubSeq(log, first, len)
  BY DEF TrimProbes
<1>. HIDE DEF stamps
<1>3. first \in 1 .. len + 1 /\ (first <= len => ~ Stale(stamps[first], t, w))
  BY <1>1, FirstFreshProperties
<1>4. len \in Nat /\ \A k \in first .. len : log[k] \in Probe
  BY <1>3, LenProperties
<1>. HIDE DEF first, len
<1>5. first <= len
  BY <1>2, <1>3, <1>4, SubSeqEmpty
<1>6. SubSeq(log, first, len)[1] = log[first]
  <2>1. 1 \in 1 .. len - first + 1 /\ first + 1 - 1 = first
    BY <1>3, <1>4, <1>5
  <2>. QED BY <1>3, <1>4, <2>1, SubSeqProperties
<1>. QED BY <1>1, <1>2, <1>3, <1>4, <1>5, <1>6

\* A log to which the latest attempt is added, and which is trimmed.
LEMMA LogGrows ==
  ASSUME NEW log \in Seq(Nat), NEW view, NEW S, S \subseteq Nat, NEW must,
         Follows(log, view, S, must), NEW n \in Nat, \A i \in S : i < n,
         NEW other, \A i \in S : other[i] = view[i],
         NEW ts \in Nat, other[n] = ts, NEW w \in Nat,
         NEW few, few \subseteq must \cup {n}, \A i \in few : ~ Stale(other[i], ts, w)
  PROVE  Follows(Trim(Append(log, ts), ts, w), other, S \cup {n}, few)
<1>1. Follows(log, other, S, must)
  BY FollowsMore
<1>2. Follows(Append(log, other[n]), other, S \cup {n}, must \cup {n})
  BY <1>1, FollowsAppend
<1>3. Append(log, ts) \in Seq(Nat) /\ S \cup {n} \subseteq Nat
  BY AppendProperties
<1>. DEFINE more == Append(log, ts)
            T == S \cup {n}
            all == must \cup {n}
<1>4. Follows(more, other, T, all) /\ more \in Seq(Nat) /\ T \subseteq Nat /\ few \subseteq all
  BY <1>2, <1>3
<1>. HIDE DEF more, T, all
<1>5. Follows(Trim(more, ts, w), other, T, few)
  BY <1>4, TrimFollows
<1>. QED BY <1>5 DEF more, T

\* The same for the log of probes.
LEMMA ProbesGrow ==
  ASSUME NEW log \in Seq(Probe), NEW view, NEW S, S \subseteq Nat, NEW must,
         Follows(log, view, S, must), NEW n \in Nat, \A i \in S : i < n,
         NEW other, \A i \in S : other[i] = view[i],
         NEW probe \in Probe, other[n] = probe, NEW w \in Nat,
         NEW few, few \subseteq must \cup {n}, \A i \in few : ~ Stale(other[i].ts, probe.ts, w)
  PROVE  Follows(TrimProbes(Append(log, probe), probe.ts, w), other, S \cup {n}, few)
<1>1. Follows(log, other, S, must)
  BY FollowsMore
<1>2. Follows(Append(log, other[n]), other, S \cup {n}, must \cup {n})
  BY <1>1, FollowsAppend
<1>3. Append(log, probe) \in Seq(Probe) /\ S \cup {n} \subseteq Nat
  BY AppendProperties
<1>. DEFINE more == Append(log, probe)
            T == S \cup {n}
            all == must \cup {n}
            t == probe.ts
<1>4. /\ Follows(more, other, T, all) /\ more \in Seq(Probe) /\ T \subseteq Nat
      /\ few \subseteq all /\ t \in Nat /\ \A i \in few : ~ Stale(other[i].ts, t, w)
  BY <1>2, <1>3 DEF Probe
<1>. HIDE DEF more, T, all, t
<1>5. Follows(TrimProbes(more, t, w), other, T, few)
  BY <1>4, TrimProbesFollows
<1>. QED BY <1>5 DEF more, T, t

\* A history grows by the attempt a, at n.
Grows(h, more, n, a) ==
  /\ n \in Nat /\ n \notin DOMAIN h /\ DOMAIN more = DOMAIN h \cup {n}
  /\ DOMAIN h \subseteq Nat /\ \A i \in DOMAIN h : i < n /\ more[i] = h[i]
  /\ more[n] = a
  /\ \A i \in DOMAIN h : /\ Stamped(more)[i] = Stamped(h)[i]
                         /\ Probed(more)[i] = Probed(h)[i]
  /\ Stamped(more)[n] = a.ts
  /\ Probed(more)[n] = [ts |-> a.ts, port |-> a.port]

\* Appending is growing.
LEMMA OneMore ==
  ASSUME NEW h \in Seq(Attempt), NEW a \in Attempt
  PROVE  Grows(h, Append(h, a), Len(h) + 1, a)
<1>. PICK more : more = Append(h, a)
  OBVIOUS
<1>. PICK n : n = Len(h) + 1
  OBVIOUS
<1>. DEFINE len == Len(h)
<1>1. /\ len \in Nat /\ DOMAIN h = 1 .. len /\ more \in Seq(Attempt) /\ Len(more) = len + 1
      /\ more[len + 1] = a /\ \A i \in 1 .. len : more[i] = h[i]
  BY AppendProperties, LenProperties
<1>2. DOMAIN more = 1 .. len + 1 /\ n = len + 1
  BY <1>1, LenProperties
<1>. HIDE DEF len
<1>3. /\ n \in Nat /\ n \notin DOMAIN h /\ DOMAIN more = DOMAIN h \cup {n}
      /\ DOMAIN h \subseteq Nat /\ \A i \in DOMAIN h : i < n /\ more[i] = h[i]
      /\ more[n] = a
  BY <1>1, <1>2
<1>4. \A i \in DOMAIN h : /\ Stamped(more)[i] = Stamped(h)[i]
                          /\ Probed(more)[i] = Probed(h)[i]
  BY <1>3 DEF Stamped, Probed
<1>5. Stamped(more)[n] = a.ts /\ Probed(more)[n] = [ts |-> a.ts, port |-> a.port]
  BY <1>3 DEF Stamped, Probed
<1>. QED BY <1>3, <1>4, <1>5 DEF Grows

-----------------------------------------------------------------------------
(* The logs through the steps of the engine. *)

\* The attempts of S in the window of length w that ends at t.
Recent(S, h, t, w) == {i \in S : ~ Stale(h[i].ts, t, w)}

\* Every log shows attempts of its kind, and of those in the window all that are
\* in `all'.
LogsFollow(all) ==
  /\ \A ip \in IPs :
       Follows(perIp[ip], Stamped(attempts), FloodAttempts(attempts, ip),
               Recent(FloodAttempts(attempts, ip), attempts, now, ddos.window) \cap all)
  /\ Follows(global, Stamped(attempts), GlobalAttempts(attempts),
             Recent(GlobalAttempts(attempts), attempts, now, ddos.window) \cap all)
  /\ \A ip \in IPs :
       Follows(probes[ip], Probed(attempts), SweepAttempts(attempts, ip),
               Recent(SweepAttempts(attempts, ip), attempts, now, scan.window) \cap all)

\* A step at which the windows only move on: events come in the instant of their
\* stamp, the clock does not go back, the lengths stay.
MovesOn ==
  /\ now' >= now /\ Stamps = {now}
  /\ ddos'.window = ddos.window /\ scan'.window = scan.window

\* What is in the windows.
LEMMA Windows ==
  ASSUME TypeOK
  PROVE  /\ now \in Nat /\ ddos.window \in Nat /\ scan.window \in Nat
         /\ \A i \in DOMAIN attempts : attempts[i] \in Attempt /\ attempts[i].ts \in Nat
         /\ DOMAIN attempts \subseteq Nat
<1>1. now \in Nat /\ ddos.window \in Nat /\ scan.window \in Nat
  BY DEF TypeOK, DdosConfig, ScanConfig
<1>2. attempts \in Seq(Attempt)
  BY DEF TypeOK
<1>3. /\ Len(attempts) \in Nat /\ DOMAIN attempts = 1 .. Len(attempts)
      /\ \A i \in 1 .. Len(attempts) : attempts[i] \in Attempt
  BY <1>2, LenProperties, ElementOfSeq
<1>. QED BY <1>1, <1>3 DEF Attempt

\* What the detectors look at is added to the history, at n.
HistoryGrows(n, ip, port, ts) ==
  /\ n \in Nat /\ n \notin DOMAIN attempts
  /\ DOMAIN attempts' = DOMAIN attempts \cup {n}
  /\ DOMAIN attempts \subseteq Nat
  /\ \A i \in DOMAIN attempts : i < n /\ attempts'[i] = attempts[i]
  /\ attempts'[n].ts = ts /\ attempts'[n].port = port
  /\ \A i \in DOMAIN attempts : /\ Stamped(attempts')[i] = Stamped(attempts)[i]
                                /\ Probed(attempts')[i] = Probed(attempts)[i]
  /\ Stamped(attempts')[n] = ts
  /\ Probed(attempts')[n] = [ts |-> ts, port |-> port]
  /\ GlobalAttempts(attempts') =
       GlobalAttempts(attempts) \cup (IF GlobalCounts THEN {n} ELSE {})
  /\ \A other :
       /\ FloodAttempts(attempts', other) =
            FloodAttempts(attempts, other) \cup (IF other = ip /\ ddos.enabled THEN {n} ELSE {})
       /\ SweepAttempts(attempts', other) =
            SweepAttempts(attempts, other)
              \cup (IF other = ip /\ scan.enabled /\ ~ Floods(ip, ts) THEN {n} ELSE {})

\* It is when the event reaches them.
LEMMA ReachesGrows ==
  ASSUME TypeOK, NEW ip \in IPs, NEW port \in Ports, NEW ts \in Nat, Reaches(ip, port, ts)
  PROVE  HistoryGrows(Len(attempts) + 1, ip, port, ts)
<1>. PICK n : n = Len(attempts) + 1
  OBVIOUS
<1>. DEFINE a == [ip |-> ip, port |-> port, ts |-> ts, flood |-> ddos.enabled, glob |-> GlobalCounts,
                  swept |-> scan.enabled /\ ~ Floods(ip, ts)]
<1>1. attempts' = Append(attempts, a)
  BY DEF Reaches
<1>2. a \in Attempt
  <2>1. ddos.enabled \in BOOLEAN  BY DEF TypeOK, DdosConfig
  <2>2. GlobalCounts \in BOOLEAN  BY <2>1 DEF GlobalCounts
  <2>3. (scan.enabled /\ ~ Floods(ip, ts)) \in BOOLEAN  OBVIOUS
  <2>. QED BY <2>1, <2>2, <2>3, Zenon DEF Attempt
<1>3. /\ a.ts = ts /\ a.port = port /\ a.ip = ip
      /\ a.flood <=> ddos.enabled
      /\ a.glob <=> GlobalCounts
      /\ a.swept <=> scan.enabled /\ ~ Floods(ip, ts)
  BY Zenon
<1>. HIDE DEF a
<1>4. attempts \in Seq(Attempt)
  BY DEF TypeOK
<1>5. Grows(attempts, attempts', n, a)
  BY <1>1, <1>2, <1>4, OneMore
<1>6. \A other : FloodAttempts(attempts', other) =
        FloodAttempts(attempts, other) \cup (IF other = ip /\ ddos.enabled THEN {n} ELSE {})
  BY <1>3, <1>5 DEF Grows, FloodAttempts
<1>7. GlobalAttempts(attempts') = GlobalAttempts(attempts) \cup (IF GlobalCounts THEN {n} ELSE {})
  BY <1>3, <1>5 DEF Grows, GlobalAttempts
<1>8. \A other : SweepAttempts(attempts', other) =
        SweepAttempts(attempts, other)
          \cup (IF other = ip /\ scan.enabled /\ ~ Floods(ip, ts) THEN {n} ELSE {})
  BY <1>3, <1>5 DEF Grows, SweepAttempts
<1>. QED BY <1>3, <1>5, <1>6, <1>7, <1>8 DEF Grows, HistoryGrows

\* Logs through an event that reaches the detectors.
LEMMA ReachesFollows ==
  ASSUME TypeOK, NEW all, LogsFollow(all), NEW ip \in IPs, NEW port \in Ports,
         NEW ts \in Stamps, Reaches(ip, port, ts), all = {} \/ MovesOn,
         probes' = IF Floods(ip, ts) THEN probes ELSE [probes EXCEPT ![ip] = ProbeLog(ip, port, ts)]
  PROVE  LogsFollow(all)'
<1>. PICK n : n = Len(attempts) + 1
  OBVIOUS
<1>. DEFINE h == attempts'
<1>0. ts \in Nat
  BY StampsType
<1>1. HistoryGrows(n, ip, port, ts)
  BY <1>0, ReachesGrows
<1>3. /\ now' = now /\ ddos' = ddos /\ scan' = scan
      /\ now \in Nat /\ ddos.window \in Nat /\ scan.window \in Nat
      /\ \A i \in DOMAIN attempts : attempts[i].ts \in Nat
  BY Windows DEF Reaches, clocks, settings
<1>4. ASSUME NEW S, S \subseteq DOMAIN attempts, NEW T, NEW w, T = S \cup {n} \/ T = S
      PROVE  /\ S \subseteq Nat /\ \A i \in S : i < n
             /\ Recent(T, attempts', now, w) \cap all \subseteq (Recent(S, attempts, now, w) \cap all) \cup {n}
             /\ T = S => Recent(T, attempts', now, w) \cap all \subseteq Recent(S, attempts, now, w) \cap all
             /\ \A i \in Recent(T, attempts', now, w) \cap all : ~ Stale(attempts'[i].ts, ts, w)
  <2>1. S \subseteq Nat /\ \A i \in S : i < n /\ i # n /\ attempts'[i] = attempts[i]
    BY <1>1, <1>4 DEF HistoryGrows
  <2>3. all # {} => ts = now
    BY DEF MovesOn
  <2>. QED BY <1>4, <2>1, <2>3 DEF Recent
<1>5. ASSUME NEW other \in IPs
      PROVE  Follows(perIp'[other], Stamped(h), FloodAttempts(h, other),
                     Recent(FloodAttempts(h, other), h, now, ddos.window) \cap all)
  <2>. DEFINE S == FloodAttempts(attempts, other)
              T == FloodAttempts(h, other)
              must == Recent(S, attempts, now, ddos.window) \cap all
              few == Recent(T, h, now, ddos.window) \cap all
              log == perIp[other]
              w == ddos.window
              view == Stamped(attempts)
              seen == Stamped(h)
  <2>1. Follows(log, view, S, must) /\ log \in Seq(Nat)
    BY DEF LogsFollow, TypeOK
  <2>2. S \subseteq DOMAIN attempts
    BY DEF FloodAttempts
  <2>3. T = S \cup (IF other = ip /\ ddos.enabled THEN {n} ELSE {})
    BY <1>1 DEF HistoryGrows
  <2>4. perIp'[other] = IF other = ip /\ ddos.enabled THEN Trim(Append(log, ts), ts, w) ELSE log
    BY DEF Reaches, FloodLog, TypeOK
  <2>5. /\ \A i \in S : seen[i] = view[i]
        /\ seen[n] = ts /\ w \in Nat
    BY <1>1, <1>3, <2>2 DEF HistoryGrows
  <2>. HIDE DEF S, T
  <2>6. /\ S \subseteq Nat /\ \A i \in S : i < n
        /\ few \subseteq must \cup {n}
        /\ T = S => few \subseteq must
        /\ \A i \in few : ~ Stale(attempts'[i].ts, ts, w)
    <3>1. T = S \cup {n} \/ T = S
      BY <2>3
    <3>. QED BY <1>4, <2>2, <3>1
  <2>7. few \subseteq T
    BY DEF Recent
  <2>8. \A i \in few : seen[i] = attempts'[i].ts
    <3>1. \A i \in DOMAIN attempts' : Stamped(attempts')[i] = attempts'[i].ts
      BY DEF Stamped
    <3>2. T \subseteq DOMAIN attempts'
      BY DEF T, FloodAttempts
    <3>. QED BY <2>7, <3>1, <3>2
  <2>. HIDE DEF must, few, log, view, seen, w
  <2>9. CASE other = ip /\ ddos.enabled
    <3>1. T = S \cup {n} /\ perIp'[other] = Trim(Append(log, ts), ts, w)
      BY <2>3, <2>4, <2>9
    <3>3. \A i \in few : ~ Stale(seen[i], ts, w) /\ n \in Nat
      BY <1>1, <2>6, <2>8 DEF HistoryGrows
    <3>4. /\ log \in Seq(Nat) /\ S \subseteq Nat /\ Follows(log, view, S, must) /\ n \in Nat
          /\ \A i \in S : i < n
          /\ \A i \in S : seen[i] = view[i]
          /\ ts \in Nat /\ seen[n] = ts /\ w \in Nat
          /\ few \subseteq must \cup {n}
          /\ \A i \in few : ~ Stale(seen[i], ts, w)
      BY <1>0, <2>1, <2>5, <2>6, <3>3
    <3>2. Follows(Trim(Append(log, ts), ts, w), seen, S \cup {n}, few)
      BY <3>4, LogGrows
    <3>. QED BY <3>1, <3>2 DEF few, seen, T, w
  <2>10. CASE ~ (other = ip /\ ddos.enabled)
    <3>1. T = S /\ perIp'[other] = log
      BY <2>3, <2>4, <2>10
    <3>3. few \subseteq must /\ S \subseteq T /\ \A i \in S : seen[i] = view[i]
      BY <2>5, <2>6, <3>1
    <3>2. Follows(log, seen, T, few)
      BY <2>1, <3>3, FollowsMore
    <3>. QED BY <3>1, <3>2 DEF few, seen, T, w
  <2>. QED BY <2>9, <2>10
<1>6. Follows(global', Stamped(h), GlobalAttempts(h),
              Recent(GlobalAttempts(h), h, now, ddos.window) \cap all)
  <2>. DEFINE S == GlobalAttempts(attempts)
              T == GlobalAttempts(h)
              must == Recent(S, attempts, now, ddos.window) \cap all
              few == Recent(T, h, now, ddos.window) \cap all
              w == ddos.window
              view == Stamped(attempts)
              seen == Stamped(h)
  <2>1. Follows(global, view, S, must) /\ global \in Seq(Nat)
    BY DEF LogsFollow, TypeOK
  <2>2. S \subseteq DOMAIN attempts
    BY DEF GlobalAttempts
  <2>3. T = S \cup (IF GlobalCounts THEN {n} ELSE {})
    BY <1>1 DEF HistoryGrows
  <2>4. global' = IF GlobalCounts THEN Trim(Append(global, ts), ts, w) ELSE global
    BY DEF Reaches, GlobalLog
  <2>5. /\ \A i \in S : seen[i] = view[i]
        /\ seen[n] = ts /\ w \in Nat
    BY <1>1, <1>3, <2>2 DEF HistoryGrows
  <2>. HIDE DEF S, T
  <2>6. /\ S \subseteq Nat /\ \A i \in S : i < n
        /\ few \subseteq must \cup {n}
        /\ T = S => few \subseteq must
        /\ \A i \in few : ~ Stale(attempts'[i].ts, ts, w)
    <3>1. T = S \cup {n} \/ T = S
      BY <2>3
    <3>. QED BY <1>4, <2>2, <3>1
  <2>7. few \subseteq T
    BY DEF Recent
  <2>8. \A i \in few : seen[i] = attempts'[i].ts
    <3>1. \A i \in DOMAIN attempts' : Stamped(attempts')[i] = attempts'[i].ts
      BY DEF Stamped
    <3>2. T \subseteq DOMAIN attempts'
      BY DEF T, GlobalAttempts
    <3>. QED BY <2>7, <3>1, <3>2
  <2>. HIDE DEF must, few, view, seen, w
  <2>9. CASE GlobalCounts
    <3>1. T = S \cup {n} /\ global' = Trim(Append(global, ts), ts, w)
      BY <2>3, <2>4, <2>9
    <3>3. \A i \in few : ~ Stale(seen[i], ts, w) /\ n \in Nat
      BY <1>1, <2>6, <2>8 DEF HistoryGrows
    <3>4. /\ global \in Seq(Nat) /\ S \subseteq Nat /\ Follows(global, view, S, must) /\ n \in Nat
          /\ \A i \in S : i < n
          /\ \A i \in S : seen[i] = view[i]
          /\ ts \in Nat /\ seen[n] = ts /\ w \in Nat
          /\ few \subseteq must \cup {n}
          /\ \A i \in few : ~ Stale(seen[i], ts, w)
      BY <1>0, <2>1, <2>5, <2>6, <3>3
    <3>2. Follows(Trim(Append(global, ts), ts, w), seen, S \cup {n}, few)
      BY <3>4, LogGrows
    <3>. QED BY <3>1, <3>2 DEF few, seen, T, w
  <2>10. CASE ~ GlobalCounts
    <3>1. T = S /\ global' = global
      BY <2>3, <2>4, <2>10
    <3>2. Follows(global, seen, T, few)
      BY <2>1, <2>5, <2>6, <3>1, FollowsMore
    <3>. QED BY <3>1, <3>2 DEF few, seen, T, w
  <2>. QED BY <2>9, <2>10
<1>7. ASSUME NEW other \in IPs
      PROVE  Follows(probes'[other], Probed(h), SweepAttempts(h, other),
                     Recent(SweepAttempts(h, other), h, now, scan.window) \cap all)
  <2>. DEFINE S == SweepAttempts(attempts, other)
              T == SweepAttempts(h, other)
              must == Recent(S, attempts, now, scan.window) \cap all
              few == Recent(T, h, now, scan.window) \cap all
              log == probes[other]
              w == scan.window
              view == Probed(attempts)
              seen == Probed(h)
              probe == [ts |-> ts, port |-> port]
              Looks == other = ip /\ scan.enabled /\ ~ Floods(ip, ts)
  <2>1. Follows(log, view, S, must) /\ log \in Seq(Probe)
    BY DEF LogsFollow, TypeOK
  <2>2. S \subseteq DOMAIN attempts
    BY DEF SweepAttempts
  <2>3. T = S \cup (IF Looks THEN {n} ELSE {})
    BY <1>1 DEF HistoryGrows
  <2>4. probes'[other] = IF Looks THEN TrimProbes(Append(log, probe), ts, w) ELSE log
    BY DEF ProbeLog, TypeOK
  <2>5. /\ \A i \in S : seen[i] = view[i]
        /\ seen[n] = probe /\ w \in Nat /\ probe \in Probe /\ probe.ts = ts
    BY <1>0, <1>1, <1>3, <2>2 DEF HistoryGrows, Probe
  <2>. HIDE DEF S, T
  <2>6. /\ S \subseteq Nat /\ \A i \in S : i < n
        /\ few \subseteq must \cup {n}
        /\ T = S => few \subseteq must
        /\ \A i \in few : ~ Stale(attempts'[i].ts, ts, w)
    <3>1. T = S \cup {n} \/ T = S
      BY <2>3
    <3>. QED BY <1>4, <2>2, <3>1
  <2>7. few \subseteq T
    BY DEF Recent
  <2>8. \A i \in few : seen[i].ts = attempts'[i].ts
    <3>1. \A i \in DOMAIN attempts' : Probed(attempts')[i].ts = attempts'[i].ts
      BY DEF Probed
    <3>2. T \subseteq DOMAIN attempts'
      BY DEF T, SweepAttempts
    <3>. QED BY <2>7, <3>1, <3>2
  <2>. HIDE DEF must, few, log, view, seen, w, probe, Looks
  <2>9. CASE Looks
    <3>1. T = S \cup {n} /\ probes'[other] = TrimProbes(Append(log, probe), probe.ts, w)
      BY <2>3, <2>4, <2>5, <2>9
    <3>3. \A i \in few : ~ Stale(seen[i].ts, probe.ts, w) /\ n \in Nat
      BY <1>1, <2>6, <2>8, <2>5 DEF HistoryGrows
    <3>4. /\ log \in Seq(Probe) /\ S \subseteq Nat /\ Follows(log, view, S, must) /\ n \in Nat
          /\ \A i \in S : i < n
          /\ \A i \in S : seen[i] = view[i]
          /\ probe \in Probe /\ seen[n] = probe /\ w \in Nat
          /\ few \subseteq must \cup {n}
          /\ \A i \in few : ~ Stale(seen[i].ts, probe.ts, w)
      BY <2>1, <2>5, <2>6, <3>3
    <3>2. Follows(TrimProbes(Append(log, probe), probe.ts, w), seen, S \cup {n}, few)
      BY <3>4, ProbesGrow
    <3>. QED BY <3>1, <3>2 DEF few, seen, T, w
  <2>10. CASE ~ Looks
    <3>1. T = S /\ probes'[other] = log
      BY <2>3, <2>4, <2>10
    <3>3. few \subseteq must /\ S \subseteq T /\ \A i \in S : seen[i] = view[i]
      BY <2>5, <2>6, <3>1
    <3>2. Follows(log, seen, T, few)
      BY <2>1, <3>3, FollowsMore
    <3>. QED BY <3>1, <3>2 DEF few, seen, T, w
  <2>. QED BY <2>9, <2>10
<1>. QED BY <1>3, <1>5, <1>6, <1>7 DEF LogsFollow

\* As time goes on, attempts leave the window, and none comes back.
LEMMA RecentMoves ==
  ASSUME TypeOK, NEW S, S \subseteq DOMAIN attempts, NEW u \in Nat, u >= now, NEW w \in Nat
  PROVE  Recent(S, attempts, u, w) \subseteq Recent(S, attempts, now, w)
<1>1. now \in Nat /\ \A i \in S : attempts[i].ts \in Nat
  BY Windows
<1>. QED BY <1>1 DEF Recent, Stale

\* Logs through a step that leaves them and the history alone.
LEMMA StillFollow ==
  ASSUME TypeOK, TypeOK', NEW all, LogsFollow(all), UNCHANGED <<logs, attempts>>,
         all = {} \/ MovesOn
  PROVE  LogsFollow(all)'
<1>0. /\ perIp' = perIp /\ global' = global /\ probes' = probes /\ attempts' = attempts
      /\ now' \in Nat /\ ddos.window \in Nat /\ scan.window \in Nat
  BY DEF logs, TypeOK, DdosConfig, ScanConfig
<1>1. ASSUME NEW S, S \subseteq DOMAIN attempts
      PROVE  /\ Recent(S, attempts, now', ddos'.window) \cap all
                  \subseteq Recent(S, attempts, now, ddos.window) \cap all
             /\ Recent(S, attempts, now', scan'.window) \cap all
                  \subseteq Recent(S, attempts, now, scan.window) \cap all
  <2>1. CASE all = {}
    BY <2>1
  <2>2. CASE MovesOn
    <3>1. now' >= now /\ ddos'.window = ddos.window /\ scan'.window = scan.window
      BY <2>2 DEF MovesOn
    <3>2. /\ Recent(S, attempts, now', ddos.window) \subseteq Recent(S, attempts, now, ddos.window)
          /\ Recent(S, attempts, now', scan.window) \subseteq Recent(S, attempts, now, scan.window)
      BY <1>0, <1>1, <3>1, RecentMoves
    <3>. QED BY <3>1, <3>2
  <2>. QED BY <2>1, <2>2
<1>2. ASSUME NEW log, NEW view, NEW S, NEW must, NEW few,
             Follows(log, view, S, must), few \subseteq must
      PROVE  Follows(log, view, S, few)
  BY <1>2, FollowsMore
<1>3. ASSUME NEW ip \in IPs
      PROVE  Follows(perIp[ip], Stamped(attempts), FloodAttempts(attempts, ip),
                     Recent(FloodAttempts(attempts, ip), attempts, now', ddos'.window) \cap all)
  <2>1. FloodAttempts(attempts, ip) \subseteq DOMAIN attempts
    BY DEF FloodAttempts
  <2>. QED BY <1>1, <1>2, <2>1 DEF LogsFollow
<1>4. Follows(global, Stamped(attempts), GlobalAttempts(attempts),
              Recent(GlobalAttempts(attempts), attempts, now', ddos'.window) \cap all)
  <2>1. GlobalAttempts(attempts) \subseteq DOMAIN attempts
    BY DEF GlobalAttempts
  <2>. QED BY <1>1, <1>2, <2>1 DEF LogsFollow
<1>5. ASSUME NEW ip \in IPs
      PROVE  Follows(probes[ip], Probed(attempts), SweepAttempts(attempts, ip),
                     Recent(SweepAttempts(attempts, ip), attempts, now', scan'.window) \cap all)
  <2>1. SweepAttempts(attempts, ip) \subseteq DOMAIN attempts
    BY DEF SweepAttempts
  <2>. QED BY <1>1, <1>2, <2>1 DEF LogsFollow
<1>. QED BY <1>0, <1>3, <1>4, <1>5 DEF LogsFollow

\* Logs through housekeeping.
LEMMA TickFollows ==
  ASSUME TypeOK, NEW all, LogsFollow(all), Tick
  PROVE  LogsFollow(all)'
<1>1. /\ now' = now /\ ddos' = ddos /\ scan' = scan /\ attempts' = attempts
      /\ \A ip \in IPs : perIp'[ip] = Trim(perIp[ip], now, ddos.window)
      /\ global' = Trim(global, now, ddos.window)
      /\ \A ip \in IPs : probes'[ip] = TrimProbes(probes[ip], now, scan.window)
  BY DEF Tick, clocks, settings
<1>2. /\ now \in Nat /\ ddos.window \in Nat /\ scan.window \in Nat
      /\ DOMAIN attempts \subseteq Nat
      /\ global \in Seq(Nat) /\ \A ip \in IPs : perIp[ip] \in Seq(Nat) /\ probes[ip] \in Seq(Probe)
  BY Windows DEF TypeOK
<1>3. ASSUME NEW S, S \subseteq DOMAIN attempts, NEW w
      PROVE  /\ S \subseteq Nat
             /\ \A i \in Recent(S, attempts, now, w) \cap all :
                  /\ ~ Stale(Stamped(attempts)[i], now, w)
                  /\ ~ Stale(Probed(attempts)[i].ts, now, w)
  BY <1>2, <1>3 DEF Recent, Stamped, Probed
<1>4. ASSUME NEW ip \in IPs
      PROVE  Follows(perIp'[ip], Stamped(attempts), FloodAttempts(attempts, ip),
                     Recent(FloodAttempts(attempts, ip), attempts, now, ddos.window) \cap all)
  <2>. DEFINE S == FloodAttempts(attempts, ip)
              few == Recent(S, attempts, now, ddos.window) \cap all
              log == perIp[ip]
              view == Stamped(attempts)
              w == ddos.window
  <2>1. S \subseteq DOMAIN attempts /\ Follows(log, view, S, few)
    BY DEF FloodAttempts, LogsFollow
  <2>. HIDE DEF S
  <2>2. S \subseteq Nat /\ \A i \in few : ~ Stale(view[i], now, w)
    BY <1>3, <2>1
  <2>. HIDE DEF few, log, view, w
  <2>3. log \in Seq(Nat) /\ now \in Nat /\ w \in Nat /\ perIp'[ip] = Trim(log, now, w)
    BY <1>1, <1>2 DEF log, w
  <2>4. Follows(Trim(log, now, w), view, S, few)
    BY <2>1, <2>2, <2>3, TrimFollows
  <2>. QED BY <2>3, <2>4 DEF S, few, view, w
<1>5. Follows(global', Stamped(attempts), GlobalAttempts(attempts),
              Recent(GlobalAttempts(attempts), attempts, now, ddos.window) \cap all)
  <2>. DEFINE S == GlobalAttempts(attempts)
              few == Recent(S, attempts, now, ddos.window) \cap all
              view == Stamped(attempts)
              w == ddos.window
  <2>1. S \subseteq DOMAIN attempts /\ Follows(global, view, S, few)
    BY DEF GlobalAttempts, LogsFollow
  <2>. HIDE DEF S
  <2>2. S \subseteq Nat /\ \A i \in few : ~ Stale(view[i], now, w)
    BY <1>3, <2>1
  <2>. HIDE DEF few, view, w
  <2>3. global \in Seq(Nat) /\ now \in Nat /\ w \in Nat /\ global' = Trim(global, now, w)
    BY <1>1, <1>2 DEF w
  <2>4. Follows(Trim(global, now, w), view, S, few)
    BY <2>1, <2>2, <2>3, TrimFollows
  <2>. QED BY <2>3, <2>4 DEF S, few, view, w
<1>6. ASSUME NEW ip \in IPs
      PROVE  Follows(probes'[ip], Probed(attempts), SweepAttempts(attempts, ip),
                     Recent(SweepAttempts(attempts, ip), attempts, now, scan.window) \cap all)
  <2>. DEFINE S == SweepAttempts(attempts, ip)
              few == Recent(S, attempts, now, scan.window) \cap all
              log == probes[ip]
              view == Probed(attempts)
              w == scan.window
  <2>1. S \subseteq DOMAIN attempts /\ Follows(log, view, S, few)
    BY DEF SweepAttempts, LogsFollow
  <2>. HIDE DEF S
  <2>2. S \subseteq Nat /\ \A i \in few : ~ Stale(view[i].ts, now, w)
    BY <1>3, <2>1
  <2>. HIDE DEF few, log, view, w
  <2>3. log \in Seq(Probe) /\ now \in Nat /\ w \in Nat /\ probes'[ip] = TrimProbes(log, now, w)
    BY <1>1, <1>2 DEF log, w
  <2>4. Follows(TrimProbes(log, now, w), view, S, few)
    BY <2>1, <2>2, <2>3, TrimProbesFollows
  <2>. QED BY <2>3, <2>4 DEF S, few, view, w
<1>. QED BY <1>1, <1>4, <1>5, <1>6 DEF LogsFollow

\* At the start there is nothing to show.
LEMMA LogsInit == ASSUME NEW all, Init PROVE LogsFollow(all)
<1>1. \A view, S : Follows(<<>>, view, S, {})
  <2>1. \A view, S : Shows([k \in 1 .. 0 |-> 0], <<>>, view, S, {})
    BY DEF Shows
  <2>. QED BY <2>1 DEF Follows
<1>2. DOMAIN attempts = {}
  BY DEF Init
<1>3. /\ GlobalAttempts(attempts) = {}
      /\ \A ip : FloodAttempts(attempts, ip) = {} /\ SweepAttempts(attempts, ip) = {}
  BY <1>2 DEF GlobalAttempts, FloodAttempts, SweepAttempts
<1>4. \A w : Recent({}, attempts, now, w) \cap all = {}
  BY DEF Recent
<1>. QED BY <1>1, <1>3, <1>4 DEF Init, LogsFollow

\* The logs through every step.
LEMMA LogsNext ==
  ASSUME TypeOK, NEW all, LogsFollow(all), [Next]_vars, all = {} \/ MovesOn
  PROVE  LogsFollow(all)'
<1>0. TypeOK'
  BY TypeNext
<1>1. ASSUME NEW ip \in IPs, NEW ts \in Stamps, NEW port \in Ports,
             FloodTrip(ip, port, ts) \/ ScanTrip(ip, port, ts) \/ PassCounted(ip, port, ts)
      PROVE  LogsFollow(all)'
  <2>1. /\ Reaches(ip, port, ts)
        /\ probes' = IF Floods(ip, ts) THEN probes
                     ELSE [probes EXCEPT ![ip] = ProbeLog(ip, port, ts)]
    BY <1>1 DEF FloodTrip, ScanTrip, PassCounted
  <2>. QED BY <2>1, ReachesFollows
<1>2. CASE Tick
  BY <1>2, TickFollows
<1>3. CASE UNCHANGED <<logs, attempts>>
  BY <1>0, <1>3, StillFollow
<1>4. ASSUME NEW ip \in IPs, NEW ts \in Stamps,
             PassTrusted(ip, ts) \/ RefuseBlocked(ip, ts) \/ PassUncounted(ip, ts)
      PROVE  UNCHANGED <<logs, attempts>>
  BY <1>4 DEF PassTrusted, RefuseBlocked, PassUncounted, logs
<1>5. ASSUME \/ SetConfig \/ SetEnabled \/ Advance \/ StepBack
             \/ \E ip \in IPs : \/ WhitelistAdd(ip) \/ WhitelistRemove(ip)
                                \/ BlockManual(ip) \/ Unblock(ip)
      PROVE  UNCHANGED <<logs, attempts>>
  BY <1>5 DEF SetConfig, SetEnabled, Advance, StepBack, WhitelistAdd, WhitelistRemove,
              BlockManual, Unblock, Command, logs
<1>6. CASE Inspect
  BY <1>1, <1>3, <1>4, <1>6 DEF Inspect
<1>7. CASE Next
  BY <1>2, <1>3, <1>5, <1>6, <1>7 DEF Next
<1>8. CASE UNCHANGED vars
  <2>1. UNCHANGED <<logs, attempts>>
    BY <1>8 DEF vars, logs
  <2>. QED BY <1>3, <2>1
<1>. QED BY <1>7, <1>8

-----------------------------------------------------------------------------
(* Blocks are justified. *)

\* A log that follows a history and begins in the window is no longer than the
\* history since an attempt in the window.
LEMMA CountedSince ==
  ASSUME NEW log \in Seq(Nat), NEW h, NEW S, S \subseteq Nat, S \subseteq DOMAIN h,
         IsFiniteSet(S), NEW must, Follows(log, Stamped(h), S, must),
         NEW t, NEW w, log # <<>> => ~ Stale(log[1], t, w)
  PROVE  /\ Len(log) <= Cardinality(Since(h, S, t, w))
         /\ Cardinality(Since(h, S, t, w)) \in Nat
<1>. DEFINE T == Since(h, S, t, w)
            view == Stamped(h)
<1>1. T \subseteq S /\ IsFiniteSet(T)
  <2>1. T \subseteq S
    BY DEF Since
  <2>. HIDE DEF T
  <2>. QED BY <2>1, FS_Subset
<1>2. Cardinality(T) \in Nat
  BY <1>1, FS_CardinalityType
<1>3. CASE log = <<>>
  <2>1. Len(log) = 0
    BY <1>3
  <2>. HIDE DEF T
  <2>. QED BY <1>2, <2>1 DEF T
<1>4. CASE log # <<>>
  <2>1. \A i, j \in S : j <= i /\ view[j] = log[1] => i \in T
    BY <1>4 DEF Since, Stamped
  <2>. HIDE DEF T, view
  <2>2. Follows(log, view, S, must)
    BY DEF view
  <2>3. Len(log) <= Cardinality(T)
    BY <1>1, <2>1, <2>2, FollowsCount
  <2>. QED BY <1>2, <2>3 DEF T
<1>. QED BY <1>3, <1>4

\* A finite set has a finite image.
LEMMA FiniteImage ==
  ASSUME NEW T, IsFiniteSet(T), NEW f
  PROVE  IsFiniteSet({f[i] : i \in T})
<1>. DEFINE U == {f[i] : i \in T}
            g == [i \in T |-> f[i]]
<1>1. g \in Surjection(T, U)
  BY DEF Surjection
<1>. HIDE DEF U, g
<1>2. IsFiniteSet(U)
  BY <1>1, FS_Surjection
<1>. QED BY <1>2 DEF U

\* The ports of such a log are ports touched since then.
LEMMA PortsSince ==
  ASSUME NEW log \in Seq(Probe), NEW h, NEW S, S \subseteq Nat, S \subseteq DOMAIN h,
         IsFiniteSet(S), NEW must, Follows(log, Probed(h), S, must),
         NEW t, NEW w, log # <<>> => ~ Stale(log[1].ts, t, w)
  PROVE  LET touched == {h[i].port : i \in Since(h, S, t, w)}
         IN  /\ Cardinality(PortsIn(log)) <= Cardinality(touched)
             /\ Cardinality(PortsIn(log)) \in Nat /\ Cardinality(touched) \in Nat
<1>. DEFINE T == Since(h, S, t, w)
            view == Probed(h)
            touched == {h[i].port : i \in T}
            ports == PortsIn(log)
<1>1. T \subseteq S /\ IsFiniteSet(T)
  <2>1. T \subseteq S
    BY DEF Since
  <2>. HIDE DEF T
  <2>. QED BY <2>1, FS_Subset
<1>2. IsFiniteSet(touched)
  <2>. DEFINE f == [i \in DOMAIN h |-> h[i].port]
  <2>1. touched = {f[i] : i \in T}
    BY <1>1
  <2>. HIDE DEF f, T, touched
  <2>. QED BY <1>1, <2>1, FiniteImage
<1>3. ports \subseteq touched
  <2>1. CASE log = <<>>
    BY <2>1 DEF PortsIn
  <2>2. CASE log # <<>>
    <3>1. \A i, j \in S : j <= i /\ view[j] = log[1] => i \in T
      BY <2>2 DEF Since, Probed
    <3>2. \A i \in S : view[i].port = h[i].port
      BY DEF Probed
    <3>3. Follows(log, view, S, must)
      OBVIOUS
    <3>. HIDE DEF T, view
    <3>4. ShowsOnly(log, view, T)
      <4>1. /\ log \in Seq(Probe) /\ S \subseteq Nat /\ Follows(log, view, S, must)
            /\ IsFiniteSet(T) /\ T \subseteq S
            /\ \A i, j \in S : j <= i /\ view[j] = log[1] => i \in T
        BY <1>1, <3>1, <3>3
      <4>. QED BY ONLY <4>1, FollowsCount
    <3>5. DOMAIN log = 1 .. Len(log)
      BY LenProperties
    <3>. QED BY <1>1, <3>2, <3>4, <3>5 DEF PortsIn, ShowsOnly
  <2>. QED BY <2>1, <2>2
<1>. HIDE DEF touched, ports
<1>4. Cardinality(ports) <= Cardinality(touched) /\ IsFiniteSet(ports)
  BY <1>2, <1>3, FS_Subset
<1>5. Cardinality(ports) \in Nat /\ Cardinality(touched) \in Nat
  BY <1>2, <1>4, FS_CardinalityType
<1>. QED BY <1>4, <1>5 DEF touched, ports, T

\* The attempts of each kind are a finite part of the history.
LEMMA Kinds ==
  ASSUME NEW h \in Seq(Attempt)
  PROVE  /\ DOMAIN h \subseteq Nat /\ IsFiniteSet(DOMAIN h)
         /\ \A ip : /\ FloodAttempts(h, ip) \subseteq DOMAIN h
                    /\ IsFiniteSet(FloodAttempts(h, ip))
                    /\ SweepAttempts(h, ip) \subseteq DOMAIN h
                    /\ IsFiniteSet(SweepAttempts(h, ip))
         /\ GlobalAttempts(h) \subseteq DOMAIN h /\ IsFiniteSet(GlobalAttempts(h))
<1>1. Len(h) \in Nat /\ DOMAIN h = 1 .. Len(h)
  BY LenProperties
<1>2. IsFiniteSet(DOMAIN h) /\ DOMAIN h \subseteq Nat
  BY <1>1, FS_Interval
<1>3. \A ip : FloodAttempts(h, ip) \subseteq DOMAIN h /\ SweepAttempts(h, ip) \subseteq DOMAIN h
  BY DEF FloodAttempts, SweepAttempts
<1>4. GlobalAttempts(h) \subseteq DOMAIN h
  BY DEF GlobalAttempts
<1>. QED BY <1>2, <1>3, <1>4, FS_Subset

\* Whoever trips the rate limiter has made the attempts.
LEMMA FloodTripJustified ==
  ASSUME TypeOK, TypeOK', LogsFollow({})', NEW ip \in IPs, NEW port \in Ports,
         NEW ts \in Stamps, FloodTrip(ip, port, ts)
  PROVE  FloodEvidence(attempts', ip, ts) \/ GlobalEvidence(attempts', ts)
<1>1. PICK h : h = attempts'
  OBVIOUS
<1>2. /\ ts \in Nat /\ ddos.window \in Nat /\ ddos.max \in Nat /\ ddos.globalMax \in Nat
      /\ perIp[ip] \in Seq(Nat) /\ global \in Seq(Nat) /\ h \in Seq(Attempt)
      /\ FloodLog(ip, ts) \in Seq(Nat) /\ GlobalLog(ts) \in Seq(Nat)
  <2>1. Reaches(ip, port, ts)
    BY DEF FloodTrip
  <2>2. perIp'[ip] = FloodLog(ip, ts) /\ global' = GlobalLog(ts)
    BY <2>1 DEF Reaches, TypeOK
  <2>. QED BY <1>1, <2>2, StampsType DEF TypeOK, DdosConfig
<1>3. /\ Follows(FloodLog(ip, ts), Stamped(h), FloodAttempts(h, ip), {})
      /\ Follows(GlobalLog(ts), Stamped(h), GlobalAttempts(h), {})
  <2>1. Reaches(ip, port, ts)
    BY DEF FloodTrip
  <2>2. perIp'[ip] = FloodLog(ip, ts) /\ global' = GlobalLog(ts)
    BY <2>1 DEF Reaches, TypeOK
  <2>3. \A S : S \cap {} = {}
    OBVIOUS
  <2>. QED BY <1>1, <2>2, <2>3 DEF LogsFollow
<1>4. Floods(ip, ts)
  BY DEF FloodTrip
<1>5. CASE ddos.enabled /\ Len(FloodLog(ip, ts)) > ddos.max
  <2>. DEFINE log == FloodLog(ip, ts)
              w == ddos.window
              S == FloodAttempts(h, ip)
              more == Append(perIp[ip], ts)
  <2>1. log = Trim(more, ts, w)
    BY <1>5 DEF FloodLog
  <2>2. more \in Seq(Nat)
    BY <1>2, AppendProperties
  <2>. HIDE DEF more
  <2>3. log # <<>> => ~ Stale(log[1], ts, w)
    BY <1>2, <2>1, <2>2, TrimFresh
  <2>4. S \subseteq Nat /\ S \subseteq DOMAIN h /\ IsFiniteSet(S)
    BY <1>2, Kinds
  <2>5. log \in Seq(Nat) /\ Follows(log, Stamped(h), S, {})
    BY <1>2, <1>3
  <2>6. Len(log) > ddos.max /\ Len(log) \in Nat
    BY <1>5, <2>5, LenProperties
  <2>. HIDE DEF log, w, S
  <2>7. /\ Len(log) <= Cardinality(Since(h, S, ts, w))
        /\ Cardinality(Since(h, S, ts, w)) \in Nat
    BY <2>3, <2>4, <2>5, CountedSince
  <2>8. Cardinality(Since(h, S, ts, w)) > ddos.max
    BY <1>2, <2>6, <2>7
  <2>9. FloodEvidence(h, ip, ts)
    BY <1>5, <2>8 DEF FloodEvidence, S, w
  <2>. QED BY <1>1, <2>9
<1>6. CASE GlobalCounts /\ Len(GlobalLog(ts)) > ddos.globalMax
  <2>. DEFINE log == GlobalLog(ts)
              w == ddos.window
              S == GlobalAttempts(h)
              more == Append(global, ts)
  <2>1. log = Trim(more, ts, w)
    BY <1>6 DEF GlobalLog
  <2>2. more \in Seq(Nat)
    BY <1>2, AppendProperties
  <2>. HIDE DEF more
  <2>3. log # <<>> => ~ Stale(log[1], ts, w)
    BY <1>2, <2>1, <2>2, TrimFresh
  <2>4. S \subseteq Nat /\ S \subseteq DOMAIN h /\ IsFiniteSet(S)
    BY <1>2, Kinds
  <2>5. log \in Seq(Nat) /\ Follows(log, Stamped(h), S, {})
    BY <1>2, <1>3
  <2>6. Len(log) > ddos.globalMax /\ Len(log) \in Nat
    BY <1>6, <2>5, LenProperties
  <2>. HIDE DEF log, w, S
  <2>7. /\ Len(log) <= Cardinality(Since(h, S, ts, w))
        /\ Cardinality(Since(h, S, ts, w)) \in Nat
    BY <2>3, <2>4, <2>5, CountedSince
  <2>8. Cardinality(Since(h, S, ts, w)) > ddos.globalMax
    BY <1>2, <2>6, <2>7
  <2>9. GlobalEvidence(h, ts)
    BY <1>6, <2>8 DEF GlobalEvidence, S, w
  <2>. QED BY <1>1, <2>9
<1>. QED BY <1>4, <1>5, <1>6 DEF Floods

\* Whoever trips the scan detector has touched the ports.
LEMMA ScanTripJustified ==
  ASSUME TypeOK, TypeOK', LogsFollow({})', NEW ip \in IPs, NEW port \in Ports,
         NEW ts \in Stamps, ScanTrip(ip, port, ts)
  PROVE  SweepEvidence(attempts', ip, ts)
<1>1. PICK h : h = attempts'
  OBVIOUS
<1>. DEFINE log == ProbeLog(ip, port, ts)
            w == scan.window
            S == SweepAttempts(h, ip)
            more == Append(probes[ip], [ts |-> ts, port |-> port])
<1>2. scan.enabled /\ Cardinality(PortsIn(log)) > scan.ports
  BY DEF ScanTrip, Sweeps
<1>3. /\ ts \in Nat /\ w \in Nat /\ scan.ports \in Nat /\ h \in Seq(Attempt)
      /\ probes[ip] \in Seq(Probe) /\ probes'[ip] = log
  <2>1. probes'[ip] = log
    BY DEF ScanTrip, TypeOK
  <2>. QED BY <1>1, <2>1, StampsType DEF TypeOK, ScanConfig
<1>4. log \in Seq(Probe)
  BY <1>3 DEF TypeOK
<1>5. Follows(log, Probed(h), S, {})
  <2>1. \A T : T \cap {} = {}
    OBVIOUS
  <2>. QED BY <1>1, <1>3, <2>1 DEF LogsFollow
<1>6. log = TrimProbes(more, ts, w)
  BY <1>2 DEF ProbeLog
<1>7. more \in Seq(Probe)
  <2>1. [ts |-> ts, port |-> port] \in Probe
    BY <1>3 DEF Probe
  <2>. QED BY <1>3, <2>1, AppendProperties
<1>8. S \subseteq Nat /\ S \subseteq DOMAIN h /\ IsFiniteSet(S)
  BY <1>3, Kinds
<1>. HIDE DEF more, log, w, S
<1>9. log # <<>> => ~ Stale(log[1].ts, ts, w)
  BY <1>3, <1>6, <1>7, TrimProbesFresh
<1>. DEFINE touched == {h[i].port : i \in Since(h, S, ts, w)}
<1>10. /\ Cardinality(PortsIn(log)) <= Cardinality(touched)
       /\ Cardinality(PortsIn(log)) \in Nat /\ Cardinality(touched) \in Nat
  BY <1>4, <1>5, <1>8, <1>9, PortsSince
<1>11. Cardinality(touched) > scan.ports
  <2>. HIDE DEF touched
  <2>. QED BY <1>2, <1>3, <1>10
<1>12. SweepEvidence(h, ip, ts)
  BY <1>2, <1>11 DEF SweepEvidence, S, w
<1>. QED BY <1>1, <1>12

\* Which step sets a block of which kind.
LEMMA WhoBlocks ==
  ASSUME TypeOK, [Next]_vars, NEW ip \in IPs, NEW reason \in {"RateLimit", "PortScan"},
         NewBlock(ip, reason)
  PROVE  \E port \in Ports, ts \in Stamps :
           /\ last'.ts = ts
           /\ \/ reason = "RateLimit" /\ FloodTrip(ip, port, ts)
              \/ reason = "PortScan" /\ ScanTrip(ip, port, ts)
<1>0. blocked'[ip] # blocked[ip] /\ blocked'[ip].reason = reason /\ blocked \in [IPs -> Block]
  BY DEF NewBlock, TypeOK
<1>1. CASE Inspect
  <2>1. PICK j \in IPs, ts \in Stamps :
          \/ PassTrusted(j, ts) \/ RefuseBlocked(j, ts) \/ PassUncounted(j, ts)
          \/ \E port \in Ports : \/ FloodTrip(j, port, ts)
                                 \/ ScanTrip(j, port, ts)
                                 \/ PassCounted(j, port, ts)
    BY <1>1 DEF Inspect
  <2>2. PICK port \in Ports : FloodTrip(j, port, ts) \/ ScanTrip(j, port, ts)
    BY <1>0, <2>1 DEF PassTrusted, RefuseBlocked, PassUncounted, PassCounted
  <2>3. j = ip /\ last'.ts = ts
    BY <1>0, <2>2 DEF FloodTrip, ScanTrip, Refuse
  <2>4. CASE FloodTrip(ip, port, ts)
    <3>1. blocked'[ip].reason = "RateLimit"
      BY <1>0, <2>4 DEF FloodTrip
    <3>. QED BY <1>0, <2>3, <2>4, <3>1
  <2>5. CASE ScanTrip(ip, port, ts)
    <3>1. blocked'[ip].reason = "PortScan"
      BY <1>0, <2>5 DEF ScanTrip
    <3>. QED BY <1>0, <2>3, <2>5, <3>1
  <2>. QED BY <2>2, <2>3, <2>4, <2>5
<1>2. CASE Tick
  BY <1>0, <1>2 DEF Tick, NoBlock
<1>3. CASE \/ SetConfig \/ SetEnabled \/ Advance \/ StepBack \/ UNCHANGED vars
  BY <1>0, <1>3 DEF SetConfig, SetEnabled, Advance, StepBack, vars
<1>4. ASSUME NEW j \in IPs,
             \/ WhitelistAdd(j) \/ WhitelistRemove(j)
             \/ BlockManual(j) \/ Unblock(j)
      PROVE  FALSE
  <2>1. BlockManual(j) \/ Unblock(j)
    BY <1>0, <1>4 DEF WhitelistAdd, WhitelistRemove
  <2>. QED BY <1>0, <2>1 DEF BlockManual, Unblock, NoBlock
<1>. QED BY <1>1, <1>2, <1>3, <1>4 DEF Next

\* What the logs show, along every behaviour.
LEMMA LogsCorrect == Spec => [](TypeOK /\ LogsFollow({}))
<1>. DEFINE I == LogsFollow({})
<1>1. Init => TypeOK /\ I
  BY TypeInit, LogsInit
<1>2. TypeOK /\ I /\ [Next]_vars => TypeOK' /\ I'
  BY TypeNext, LogsNext
<1>. HIDE DEF I
<1>3. Spec => [](TypeOK /\ I)
  BY <1>1, <1>2, PTL DEF Spec
<1>. QED BY <1>3 DEF I

\* The rate limiter (RateLimiter::check and trim, core/src/detect/ratelimit.rs) blocks
\* only on attempts that were made since one still in the window.
THEOREM FloodsWereMade == Spec => FloodBlockJustified
<1>. DEFINE I == LogsFollow({})
            Fair == \A ip \in IPs : NewBlock(ip, "RateLimit") =>
                      \/ FloodEvidence(attempts', ip, last'.ts)
                      \/ GlobalEvidence(attempts', last'.ts)
<1>1. TypeOK /\ I /\ TypeOK' /\ I' /\ [Next]_vars => Fair
  <2>. SUFFICES ASSUME TypeOK, TypeOK', I', [Next]_vars, NEW ip \in IPs, NewBlock(ip, "RateLimit")
                PROVE  FloodEvidence(attempts', ip, last'.ts) \/ GlobalEvidence(attempts', last'.ts)
    OBVIOUS
  <2>1. PICK port \in Ports, ts \in Stamps : last'.ts = ts /\ FloodTrip(ip, port, ts)
    BY WhoBlocks
  <2>. QED BY <2>1, FloodTripJustified
<1>2. Spec => [](TypeOK /\ I)
  BY LogsCorrect
<1>. HIDE DEF I, Fair
<1>3. Spec => [][Fair]_vars
  BY <1>1, <1>2, PTL DEF Spec
<1>. QED BY <1>3 DEF FloodBlockJustified, Fair

\* The scan detector (ScanDetector::check, core/src/detect/scan.rs) blocks only a
\* source that touched the ports since a probe still in the window.
THEOREM ScansWereMade == Spec => ScanBlockJustified
<1>. DEFINE I == LogsFollow({})
            Fair == \A ip \in IPs : NewBlock(ip, "PortScan") => SweepEvidence(attempts', ip, last'.ts)
<1>1. TypeOK /\ I /\ TypeOK' /\ I' /\ [Next]_vars => Fair
  <2>. SUFFICES ASSUME TypeOK, TypeOK', I', [Next]_vars, NEW ip \in IPs, NewBlock(ip, "PortScan")
                PROVE  SweepEvidence(attempts', ip, last'.ts)
    OBVIOUS
  <2>1. PICK port \in Ports, ts \in Stamps : last'.ts = ts /\ ScanTrip(ip, port, ts)
    BY WhoBlocks
  <2>. QED BY <2>1, ScanTripJustified
<1>2. Spec => [](TypeOK /\ I)
  BY LogsCorrect
<1>. HIDE DEF I, Fair
<1>3. Spec => [][Fair]_vars
  BY <1>1, <1>2, PTL DEF Spec
<1>. QED BY <1>3 DEF ScanBlockJustified, Fair

-----------------------------------------------------------------------------
(* Blocks take effect. *)

\* Blocks set by the detectors are neither empty nor past the end of the word.
LengthsFit(s) == s.block > 0 /\ MaxTime + s.block < U64

EffectInv ==
  /\ TypeOK /\ now <= MaxTime /\ newest <= MaxTime
  /\ LengthsFit(ddos) /\ LengthsFit(scan)
  /\ BlockTakesEffect

\* A sum that fits in the word is the sum.
LEMMA NoWrap ==
  ASSUME NEW t \in Nat, NEW length \in Nat, t <= MaxTime, MaxTime + length < U64
  PROVE  BlockUntil(t, length) = t + length
BY TimeAssumption DEF BlockUntil

\* An event bears an instant the clock has shown.
LEMMA StampsBounded ==
  ASSUME TypeOK, now <= MaxTime, newest <= MaxTime, NEW ts \in Stamps
  PROVE  ts \in Nat /\ ts <= MaxTime
BY TimeAssumption DEF Stamps, TypeOK

\* Every step keeps that.
LEMMA EffectNext ==
  ASSUME \A c \in DdosConfigs \cup ScanConfigs : LengthsFit(c), EffectInv, [Next]_vars
  PROVE  EffectInv'
<1>. USE DEF EffectInv
<1>1. TypeOK'
  BY TypeNext
<1>2. CASE Inspect
  <2>1. PICK ip \in IPs, ts \in Stamps :
          \/ PassTrusted(ip, ts) \/ RefuseBlocked(ip, ts) \/ PassUncounted(ip, ts)
          \/ \E port \in Ports : \/ FloodTrip(ip, port, ts)
                                 \/ ScanTrip(ip, port, ts)
                                 \/ PassCounted(ip, port, ts)
    BY <1>2 DEF Inspect
  <2>2. ts \in Nat /\ ts <= MaxTime
    BY StampsBounded
  <2>3. now' = now /\ newest' = newest /\ ddos' = ddos /\ scan' = scan
    BY <2>1 DEF PassTrusted, RefuseBlocked, PassUncounted, FloodTrip, ScanTrip, PassCounted,
                Reaches, clocks, settings
  <2>4. CASE \/ PassTrusted(ip, ts) \/ PassUncounted(ip, ts)
             \/ \E port \in Ports : PassCounted(ip, port, ts)
    <3>1. last' = Pass(ts)
      BY <2>4 DEF PassTrusted, PassUncounted, PassCounted
    <3>. QED BY <1>1, <2>3, <3>1 DEF Pass, BlockTakesEffect, LengthsFit
  <2>5. CASE RefuseBlocked(ip, ts)
    <3>1. last'.ts = ts /\ last'.until = blocked[ip].until /\ ts < blocked[ip].until
      BY <2>5 DEF RefuseBlocked, Refuse, Active
    <3>. QED BY <1>1, <2>3, <3>1 DEF BlockTakesEffect, LengthsFit
  <2>6. ASSUME NEW port \in Ports, FloodTrip(ip, port, ts) \/ ScanTrip(ip, port, ts)
        PROVE  EffectInv'
    <3>1. PICK length \in {ddos.block, scan.block} :
            last'.ts = ts /\ last'.until = BlockUntil(ts, length)
      BY <2>6 DEF FloodTrip, ScanTrip, Refuse
    <3>2. length \in Nat /\ length > 0 /\ MaxTime + length < U64
      BY DEF TypeOK, DdosConfig, ScanConfig, LengthsFit
    <3>3. last'.ts < last'.until
      BY <2>2, <3>1, <3>2, NoWrap
    <3>. QED BY <1>1, <2>3, <3>3 DEF BlockTakesEffect, LengthsFit
  <2>. QED BY <2>1, <2>4, <2>5, <2>6
<1>3. CASE SetConfig
  <2>1. /\ ddos' \in DdosConfigs /\ scan' \in ScanConfigs
        /\ now' = now /\ newest' = newest /\ last' = last
    BY <1>3 DEF SetConfig, Command, clocks
  <2>. QED BY <1>1, <2>1 DEF BlockTakesEffect, LengthsFit
<1>4. CASE SetEnabled
  <2>1. ddos'.block = ddos.block /\ scan'.block = scan.block
    BY <1>4 DEF SetEnabled, TypeOK, DdosConfig, ScanConfig
  <2>2. now' = now /\ newest' = newest /\ last' = last
    BY <1>4 DEF SetEnabled, Command, clocks
  <2>. QED BY <1>1, <2>1, <2>2 DEF BlockTakesEffect, LengthsFit
<1>5. CASE Advance \/ StepBack
  <2>1. ddos' = ddos /\ scan' = scan /\ last' = last
    BY <1>5 DEF Advance, StepBack, settings
  <2>2. now' <= MaxTime /\ newest' <= MaxTime
    BY <1>5, TimeAssumption DEF Advance, StepBack, TypeOK
  <2>. QED BY <1>1, <2>1, <2>2 DEF BlockTakesEffect, LengthsFit
<1>6. ASSUME \/ Tick
             \/ \E ip \in IPs : \/ WhitelistAdd(ip) \/ WhitelistRemove(ip)
                                \/ BlockManual(ip) \/ Unblock(ip)
             \/ UNCHANGED vars
      PROVE  EffectInv'
  <2>1. /\ now' = now /\ newest' = newest /\ ddos' = ddos /\ scan' = scan
        /\ last' = last
    BY <1>6 DEF Tick, WhitelistAdd, WhitelistRemove, BlockManual, Unblock, Command,
                clocks, settings, vars
  <2>. QED BY <1>1, <2>1 DEF BlockTakesEffect, LengthsFit
<1>. QED BY <1>2, <1>3, <1>4, <1>5, <1>6 DEF Next

\* With block lengths that are not zero and fit in the word (Engine::inspect,
\* core/src/detect/mod.rs, adds without looking), whoever is refused is refused
\* for a block that is in force.
THEOREM RefusalsAreInForce ==
  ASSUME \A c \in DdosConfigs \cup ScanConfigs : LengthsFit(c)
  PROVE  Spec => []BlockTakesEffect
<1>1. Init => EffectInv
  BY TypeInit, TimeAssumption DEF Init, EffectInv, BlockTakesEffect, Pass
<1>2. EffectInv /\ [Next]_vars => EffectInv'
  BY EffectNext
<1>3. EffectInv => BlockTakesEffect
  BY DEF EffectInv
<1>. QED BY <1>1, <1>2, <1>3, PTL DEF Spec

-----------------------------------------------------------------------------
(* The engine implements the policy. *)

\* A log of which nothing in the window may be missing, of attempts in the order
\* of their stamps, is as long as the window is full.
LEMMA CountedExactly ==
  ASSUME NEW log \in Seq(Nat), NEW h, NEW S, S \subseteq Nat, S \subseteq DOMAIN h,
         IsFiniteSet(S), \A i \in S : h[i].ts \in Nat,
         \A i, j \in S : j <= i => h[j].ts <= h[i].ts,
         NEW t \in Nat, NEW w \in Nat, Follows(log, Stamped(h), S, Recent(S, h, t, w)),
         log # <<>> => ~ Stale(log[1], t, w)
  PROVE  Len(log) = Cardinality(Recent(S, h, t, w))
<1>. DEFINE T == Recent(S, h, t, w)
            view == Stamped(h)
<1>1. T \subseteq S /\ IsFiniteSet(T)
  <2>1. T \subseteq S
    BY DEF Recent
  <2>. HIDE DEF T
  <2>. QED BY <2>1, FS_Subset
<1>2. \A i \in S : view[i] = h[i].ts /\ view[i] \in Nat
  BY DEF Stamped
<1>3. \A i \in S : i \in T <=> ~ Stale(view[i], t, w)
  BY <1>2 DEF Recent
<1>4. Follows(log, view, S, T)
  OBVIOUS
<1>. HIDE DEF T, view
<1>5. ASSUME NEW k \in 1 .. Len(log) PROVE ~ Stale(log[k], t, w)
  <2>1. PICK e : Shows(e, log, view, S, T)
    BY <1>4 DEF Follows
  <2>2. /\ 1 \in 1 .. Len(log) /\ Len(log) \in Nat /\ log # <<>>
        /\ (k = 1 \/ 1 < k)
    BY <1>5, LenProperties
  <2>3. /\ e[1] \in S /\ e[k] \in S /\ log[1] = view[e[1]] /\ log[k] = view[e[k]]
        /\ e[1] \in Nat /\ e[k] \in Nat
    BY <2>1, <2>2 DEF Shows
  <2>4. e[1] <= e[k]
    <3>1. 1 < k => e[1] < e[k]
      BY <2>1, <2>2 DEF Shows
    <3>. QED BY <2>2, <2>3, <3>1
  <2>5. view[e[1]] <= view[e[k]]
    BY <1>2, <2>3, <2>4
  <2>6. ~ Stale(view[e[1]], t, w)
    BY <2>2, <2>3
  <2>7. log[k] = view[e[k]] /\ view[e[1]] \in Nat /\ view[e[k]] \in Nat
    BY <1>2, <2>3
  <2>. QED BY <2>5, <2>6, <2>7 DEF Stale
<1>6. \A i \in S : \A k \in 1 .. Len(log) : view[i] = log[k] => i \in T
  BY <1>3, <1>5
<1>7. Len(log) = Cardinality(T)
  <2>1. /\ log \in Seq(Nat) /\ S \subseteq Nat /\ Follows(log, view, S, T)
        /\ IsFiniteSet(T) /\ T \subseteq S
        /\ \A i \in S : \A k \in 1 .. Len(log) : view[i] = log[k] => i \in T
    BY <1>1, <1>4, <1>6
  <2>. QED BY ONLY <2>1, FollowsExactly
<1>. QED BY <1>7 DEF T

\* And a log of probes shows the ports of the window.
LEMMA PortsExactly ==
  ASSUME NEW log \in Seq(Probe), NEW h, NEW S, S \subseteq Nat, S \subseteq DOMAIN h,
         IsFiniteSet(S), \A i \in S : h[i].ts \in Nat,
         \A i, j \in S : j <= i => h[j].ts <= h[i].ts,
         NEW t \in Nat, NEW w \in Nat, Follows(log, Probed(h), S, Recent(S, h, t, w)),
         log # <<>> => ~ Stale(log[1].ts, t, w)
  PROVE  PortsIn(log) = {h[i].port : i \in Recent(S, h, t, w)}
<1>. DEFINE T == Recent(S, h, t, w)
            view == Probed(h)
<1>1. T \subseteq S /\ IsFiniteSet(T)
  <2>1. T \subseteq S
    BY DEF Recent
  <2>. HIDE DEF T
  <2>. QED BY <2>1, FS_Subset
<1>2. \A i \in S : view[i].ts = h[i].ts /\ view[i].port = h[i].port /\ view[i].ts \in Nat
  BY DEF Probed
<1>3. \A i \in S : i \in T <=> ~ Stale(view[i].ts, t, w)
  BY <1>2 DEF Recent
<1>4. Follows(log, view, S, T)
  OBVIOUS
<1>. HIDE DEF T, view
<1>5. ASSUME NEW k \in 1 .. Len(log) PROVE ~ Stale(log[k].ts, t, w)
  <2>1. PICK e : Shows(e, log, view, S, T)
    BY <1>4 DEF Follows
  <2>2. /\ 1 \in 1 .. Len(log) /\ Len(log) \in Nat /\ log # <<>>
        /\ (k = 1 \/ 1 < k)
    BY <1>5, LenProperties
  <2>3. /\ e[1] \in S /\ e[k] \in S /\ log[1] = view[e[1]] /\ log[k] = view[e[k]]
        /\ e[1] \in Nat /\ e[k] \in Nat
    BY <2>1, <2>2 DEF Shows
  <2>4. e[1] <= e[k]
    <3>1. 1 < k => e[1] < e[k]
      BY <2>1, <2>2 DEF Shows
    <3>. QED BY <2>2, <2>3, <3>1
  <2>5. view[e[1]].ts <= view[e[k]].ts
    BY <1>2, <2>3, <2>4
  <2>6. ~ Stale(view[e[1]].ts, t, w)
    BY <2>2, <2>3
  <2>7. log[k].ts = view[e[k]].ts /\ view[e[1]].ts \in Nat /\ view[e[k]].ts \in Nat
    BY <1>2, <2>3
  <2>. QED BY <2>5, <2>6, <2>7 DEF Stale
<1>6. \A i \in S : \A k \in 1 .. Len(log) : view[i] = log[k] => i \in T
  BY <1>3, <1>5
<1>7. ShowsOnly(log, view, T) /\ ShowsAll(log, view, T)
  <2>1. /\ log \in Seq(Probe) /\ S \subseteq Nat /\ Follows(log, view, S, T)
        /\ IsFiniteSet(T) /\ T \subseteq S
        /\ \A i \in S : \A k \in 1 .. Len(log) : view[i] = log[k] => i \in T
    BY <1>1, <1>4, <1>6
  <2>. QED BY ONLY <2>1, FollowsExactly
<1>9. DOMAIN log = 1 .. Len(log)
  BY LenProperties
<1>10. ASSUME NEW k \in 1 .. Len(log) PROVE \E i \in T : h[i].port = log[k].port
  BY <1>1, <1>2, <1>7 DEF ShowsOnly
<1>11. ASSUME NEW i \in T PROVE \E k \in 1 .. Len(log) : log[k].port = h[i].port
  BY <1>1, <1>2, <1>7 DEF ShowsAll
<1>12. PortsIn(log) = {h[i].port : i \in T}
  BY <1>9, <1>10, <1>11 DEF PortsIn
<1>. QED BY <1>12 DEF T

\* Attempts are logged in the order of their stamps, none from the future.
InOrder ==
  /\ \A i \in DOMAIN attempts : attempts[i].ts <= now
  /\ \A i, j \in DOMAIN attempts : j <= i => attempts[j].ts <= attempts[i].ts

\* The settings in force have the window lengths of the choices, and block
\* lengths that fit in the word.
Fits(s) == MaxTime + s.block < U64
Chosen ==
  /\ \A c \in DdosConfigs : c.window = ddos.window
  /\ \A c \in ScanConfigs : c.window = scan.window
  /\ Fits(ddos) /\ Fits(scan)

\* In which circumstances the engine implements the policy: its consumer is in
\* step with the callback, the clock runs forward, the choices agree on the
\* lengths of the windows, and no block would end past the end of the word.
InStep ==
  /\ ~ Lagging /\ ~ StepsBack
  /\ \A c, d \in DdosConfigs : c.window = d.window
  /\ \A c, d \in ScanConfigs : c.window = d.window
  /\ \A c \in DdosConfigs \cup ScanConfigs : Fits(c)

StepInv ==
  /\ TypeOK /\ now <= MaxTime
  /\ LogsFollow(Nat) /\ InOrder /\ Chosen

LEMMA StepInit == InStep /\ Init => StepInv
<1>. SUFFICES ASSUME InStep, Init PROVE StepInv
  OBVIOUS
<1>1. TypeOK /\ LogsFollow(Nat)
  BY TypeInit, LogsInit
<1>2. Chosen
  BY DEF InStep, Init, Chosen
<1>3. InOrder /\ now <= MaxTime
  BY TimeAssumption DEF Init, InOrder
<1>. QED BY <1>1, <1>2, <1>3 DEF StepInv

\* An event changes neither clock nor settings, and makes history only when it
\* reaches the detectors.
LEMMA InspectLeaves ==
  ASSUME Inspect
  PROVE  /\ now' = now /\ ddos' = ddos /\ scan' = scan
         /\ \/ attempts' = attempts
            \/ \E ip \in IPs, ts \in Stamps, port \in Ports : Reaches(ip, port, ts)
<1>1. PICK ip \in IPs, ts \in Stamps :
        \/ PassTrusted(ip, ts) \/ RefuseBlocked(ip, ts) \/ PassUncounted(ip, ts)
        \/ \E port \in Ports : \/ FloodTrip(ip, port, ts)
                               \/ ScanTrip(ip, port, ts)
                               \/ PassCounted(ip, port, ts)
  BY DEF Inspect
<1>2. CASE PassTrusted(ip, ts) \/ RefuseBlocked(ip, ts) \/ PassUncounted(ip, ts)
  BY <1>2 DEF PassTrusted, RefuseBlocked, PassUncounted, clocks, settings
<1>3. ASSUME NEW port \in Ports,
             FloodTrip(ip, port, ts) \/ ScanTrip(ip, port, ts) \/ PassCounted(ip, port, ts)
      PROVE  Reaches(ip, port, ts) /\ now' = now /\ ddos' = ddos /\ scan' = scan
  BY <1>3 DEF FloodTrip, ScanTrip, PassCounted, Reaches, clocks, settings
<1>. QED BY <1>1, <1>2, <1>3

\* Windows only move on.
LEMMA StepMovesOn ==
  ASSUME InStep, StepInv, [Next]_vars
  PROVE  MovesOn /\ Chosen' /\ now' <= MaxTime
<1>1. Stamps = {now}
  BY DEF InStep, Stamps
<1>2. now' >= now /\ now' <= MaxTime
  <2>1. CASE Advance
    BY <2>1, TimeAssumption DEF Advance, StepInv, TypeOK
  <2>2. CASE ~ Advance
    <3>1. Inspect => now' = now
      BY InspectLeaves
    <3>2. ~ Inspect => now' = now
      BY <2>2 DEF InStep, Next, Tick, SetConfig, SetEnabled, WhitelistAdd, WhitelistRemove,
                  BlockManual, Unblock, Command, StepBack, clocks, vars
    <3>. QED BY <3>1, <3>2 DEF StepInv, TypeOK
  <2>. QED BY <2>1, <2>2
<1>3. ddos'.window = ddos.window /\ scan'.window = scan.window /\ Chosen'
  <2>1. CASE SetConfig
    <3>1. ddos' \in DdosConfigs /\ scan' \in ScanConfigs
      BY <2>1 DEF SetConfig
    <3>. QED BY <3>1 DEF StepInv, Chosen, InStep
  <2>2. CASE SetEnabled
    <3>1. /\ ddos'.window = ddos.window /\ ddos'.block = ddos.block
          /\ scan'.window = scan.window /\ scan'.block = scan.block
      BY <2>2 DEF SetEnabled, StepInv, TypeOK, DdosConfig, ScanConfig
    <3>. QED BY <3>1 DEF StepInv, Chosen, Fits
  <2>3. CASE ~ SetConfig /\ ~ SetEnabled
    <3>1. ddos' = ddos /\ scan' = scan
      BY <2>3, InspectLeaves DEF Next, Tick, WhitelistAdd, WhitelistRemove, BlockManual,
                                 Unblock, Advance, StepBack, settings, vars
    <3>. QED BY <3>1 DEF StepInv, Chosen, Fits
  <2>. QED BY <2>1, <2>2, <2>3
<1>. QED BY <1>1, <1>2, <1>3 DEF MovesOn

\* Only an event that reaches the detectors makes history.
LEMMA WhoRemembers ==
  ASSUME [Next]_vars, Stamps = {now}
  PROVE  \/ attempts' = attempts
         \/ \E ip \in IPs, port \in Ports : Reaches(ip, port, now) /\ now' = now
<1>1. CASE Inspect
  BY <1>1, InspectLeaves
<1>2. CASE ~ Inspect
  BY <1>2 DEF Next, Tick, SetConfig, SetEnabled, WhitelistAdd, WhitelistRemove, BlockManual,
              Unblock, Command, Advance, StepBack, vars
<1>. QED BY <1>1, <1>2

LEMMA StepNext == InStep /\ StepInv /\ [Next]_vars => StepInv'
<1>. SUFFICES ASSUME InStep, StepInv, [Next]_vars PROVE StepInv'
  OBVIOUS
<1>1. TypeOK /\ TypeOK' /\ LogsFollow(Nat) /\ InOrder
  BY TypeNext DEF StepInv
<1>2. MovesOn /\ Chosen' /\ now' <= MaxTime
  BY StepMovesOn
<1>3. LogsFollow(Nat)'
  BY <1>1, <1>2, LogsNext
<1>4. InOrder'
  <2>1. now \in Nat /\ now' \in Nat /\ now <= now' /\ Stamps = {now}
    BY <1>1, <1>2 DEF TypeOK, MovesOn
  <2>2. DOMAIN attempts \subseteq Nat /\ \A i \in DOMAIN attempts : attempts[i].ts \in Nat
    BY <1>1, Windows
  <2>3. CASE attempts' = attempts
    BY <1>1, <2>1, <2>2, <2>3 DEF InOrder
  <2>4. ASSUME NEW ip \in IPs, NEW port \in Ports, Reaches(ip, port, now), now' = now
        PROVE  InOrder'
    <3>1. HistoryGrows(Len(attempts) + 1, ip, port, now)
      BY <1>1, <2>1, <2>4, ReachesGrows
    <3>2. PICK n \in Nat : HistoryGrows(n, ip, port, now)
      BY <3>1 DEF HistoryGrows
    <3>3. /\ DOMAIN attempts' = DOMAIN attempts \cup {n}
          /\ \A i \in DOMAIN attempts : i < n /\ attempts'[i] = attempts[i]
          /\ attempts'[n].ts = now
      BY <3>2 DEF HistoryGrows
    <3>4. \A i \in DOMAIN attempts' : attempts'[i].ts <= now'
      BY <1>1, <2>1, <2>4, <3>3 DEF InOrder
    <3>5. \A i, j \in DOMAIN attempts' : j <= i => attempts'[j].ts <= attempts'[i].ts
      <4>. SUFFICES ASSUME NEW i \in DOMAIN attempts', NEW j \in DOMAIN attempts', j <= i
                    PROVE  attempts'[j].ts <= attempts'[i].ts
        OBVIOUS
      <4>1. CASE i = n
        BY <2>4, <3>3, <3>4, <4>1
      <4>2. CASE i # n
        <5>1. i \in DOMAIN attempts /\ j \in DOMAIN attempts
          BY <2>2, <3>3, <4>2
        <5>. QED BY <1>1, <3>3, <5>1 DEF InOrder
      <4>. QED BY <4>1, <4>2
    <3>. QED BY <3>4, <3>5 DEF InOrder
  <2>. QED BY <2>1, <2>3, <2>4, WhoRemembers
<1>. QED BY <1>1, <1>2, <1>3, <1>4 DEF StepInv

\* The kinds of attempts that are in the window, as the policy sees them.
LEMMA SameWindow ==
  ASSUME NEW h, \A i \in DOMAIN h : h[i].ts \in Nat, now \in Nat, NEW w \in Nat, NEW ip
  PROVE  /\ Recent(FloodAttempts(h, ip), h, now, w)
              = {i \in Policy!InWindow(h, w) : h[i].ip = ip /\ h[i].flood}
         /\ Recent(GlobalAttempts(h), h, now, w) = {i \in Policy!InWindow(h, w) : h[i].glob}
         /\ Recent(SweepAttempts(h, ip), h, now, w)
              = {i \in Policy!InWindow(h, w) : h[i].ip = ip /\ h[i].swept}
<1>1. \A i \in DOMAIN h : ~ Stale(h[i].ts, now, w) <=> h[i].ts + w >= now
  BY DEF Stale
<1>. QED BY <1>1 DEF Recent, FloodAttempts, GlobalAttempts, SweepAttempts, Policy!InWindow

\* The policy counts as the engine does.
LEMMA SameCount == ASSUME NEW S PROVE Policy!Cardinality(S) = Cardinality(S)
BY DEF Policy!Cardinality, Cardinality

\* What is known of the history once an event has reached the detectors.
Judged(h, ip) ==
  /\ h \in Seq(Attempt) /\ now \in Nat /\ ddos.window \in Nat /\ scan.window \in Nat
  /\ \A i \in DOMAIN h : h[i].ts \in Nat
  /\ \A i, j \in DOMAIN h : j <= i => h[j].ts <= h[i].ts
  /\ DOMAIN h \subseteq Nat
  /\ LET S == FloodAttempts(h, ip)
     IN  Follows(FloodLog(ip, now), Stamped(h), S, Recent(S, h, now, ddos.window))
  /\ LET S == GlobalAttempts(h)
     IN  Follows(GlobalLog(now), Stamped(h), S, Recent(S, h, now, ddos.window))
  /\ perIp[ip] \in Seq(Nat) /\ global \in Seq(Nat) /\ probes[ip] \in Seq(Probe)
  /\ FloodLog(ip, now) \in Seq(Nat) /\ GlobalLog(now) \in Seq(Nat)

LEMMA ReachesJudged ==
  ASSUME StepInv, StepInv', NEW ip \in IPs, NEW port \in Ports, Reaches(ip, port, now)
  PROVE  /\ Judged(attempts', ip)
         /\ \A S : S \subseteq DOMAIN attempts' =>
              Recent(S, attempts', now, scan.window) \cap Nat
                = Recent(S, attempts', now, scan.window)
<1>1. PICK h : h = attempts'
  OBVIOUS
<1>2. TypeOK /\ TypeOK' /\ LogsFollow(Nat)' /\ InOrder'
  BY DEF StepInv
<1>3. /\ now' = now /\ ddos' = ddos
      /\ perIp'[ip] = FloodLog(ip, now) /\ global' = GlobalLog(now)
  BY <1>2 DEF Reaches, clocks, settings, TypeOK
<1>4. /\ h \in Seq(Attempt) /\ now \in Nat /\ ddos.window \in Nat /\ scan.window \in Nat
      /\ perIp[ip] \in Seq(Nat) /\ global \in Seq(Nat) /\ probes[ip] \in Seq(Probe)
      /\ FloodLog(ip, now) \in Seq(Nat) /\ GlobalLog(now) \in Seq(Nat)
  BY <1>1, <1>2, <1>3 DEF TypeOK, DdosConfig, ScanConfig
<1>5. /\ Len(h) \in Nat /\ DOMAIN h = 1 .. Len(h)
      /\ \A i \in 1 .. Len(h) : h[i] \in Attempt
  BY <1>4, LenProperties, ElementOfSeq
<1>6. DOMAIN h \subseteq Nat /\ \A i \in DOMAIN h : h[i].ts \in Nat
  BY <1>5 DEF Attempt
<1>7. \A i, j \in DOMAIN h : j <= i => h[j].ts <= h[i].ts
  BY <1>1, <1>2 DEF InOrder
<1>8. ASSUME NEW S, S \subseteq DOMAIN h, NEW w
      PROVE  Recent(S, h, now, w) \cap Nat = Recent(S, h, now, w)
  BY <1>6, <1>8 DEF Recent
<1>9. LET S == FloodAttempts(h, ip)
      IN  Follows(FloodLog(ip, now), Stamped(h), S, Recent(S, h, now, ddos.window))
  <2>1. FloodAttempts(h, ip) \subseteq DOMAIN h
    BY <1>4, Kinds
  <2>. QED BY <1>1, <1>2, <1>3, <1>8, <2>1 DEF LogsFollow
<1>10. LET S == GlobalAttempts(h)
       IN  Follows(GlobalLog(now), Stamped(h), S, Recent(S, h, now, ddos.window))
  <2>1. GlobalAttempts(h) \subseteq DOMAIN h
    BY <1>4, Kinds
  <2>. QED BY <1>1, <1>2, <1>3, <1>8, <2>1 DEF LogsFollow
<1>11. Judged(h, ip)
  BY <1>4, <1>6, <1>7, <1>9, <1>10 DEF Judged
<1>. QED BY <1>1, <1>8, <1>11

\* The rate limiter trips exactly when the policy sees a flood.
LEMMA FloodsAgree ==
  ASSUME NEW h, NEW ip \in IPs, Judged(h, ip)
  PROVE  Floods(ip, now) <=> Policy!Flooding(h, ip)
<1>. DEFINE w == ddos.window
            own == FloodAttempts(h, ip)
            every == GlobalAttempts(h)
<1>1. /\ h \in Seq(Attempt) /\ now \in Nat /\ w \in Nat
      /\ \A i \in DOMAIN h : h[i].ts \in Nat
      /\ \A i, j \in DOMAIN h : j <= i => h[j].ts <= h[i].ts
      /\ DOMAIN h \subseteq Nat
      /\ perIp[ip] \in Seq(Nat) /\ global \in Seq(Nat)
      /\ FloodLog(ip, now) \in Seq(Nat) /\ GlobalLog(now) \in Seq(Nat)
  BY DEF Judged
<1>2. /\ Follows(FloodLog(ip, now), Stamped(h), own, Recent(own, h, now, w))
      /\ Follows(GlobalLog(now), Stamped(h), every, Recent(every, h, now, w))
  BY DEF Judged
<1>3. /\ own \subseteq DOMAIN h /\ IsFiniteSet(own)
      /\ every \subseteq DOMAIN h /\ IsFiniteSet(every)
  BY <1>1, Kinds
<1>. DEFINE inOwn == {i \in Policy!InWindow(h, w) : h[i].ip = ip /\ h[i].flood}
            inAll == {i \in Policy!InWindow(h, w) : h[i].glob}
<1>4. Recent(own, h, now, w) = inOwn /\ Recent(every, h, now, w) = inAll
  <2>1. /\ h \in Seq(Attempt) /\ now \in Nat /\ w \in Nat
        /\ \A i \in DOMAIN h : h[i].ts \in Nat
    BY <1>1
  <2>2. Recent(own, h, now, w) = inOwn
    BY ONLY <2>1, SameWindow
  <2>3. Recent(every, h, now, w) = inAll
    BY ONLY <2>1, SameWindow
  <2>. QED BY <2>2, <2>3
<1>5. ASSUME ddos.enabled
      PROVE  Len(FloodLog(ip, now)) = Cardinality(Recent(own, h, now, w))
  <2>. DEFINE more == Append(perIp[ip], now)
              log == FloodLog(ip, now)
  <2>1. log = Trim(more, now, w)
    BY <1>5 DEF FloodLog
  <2>2. more \in Seq(Nat)
    BY <1>1, AppendProperties
  <2>. HIDE DEF more, log
  <2>3. log # <<>> => ~ Stale(log[1], now, w)
    BY <1>1, <2>1, <2>2, TrimFresh
  <2>4. log \in Seq(Nat) /\ Follows(log, Stamped(h), own, Recent(own, h, now, w))
    BY <1>1, <1>2 DEF log
  <2>. HIDE DEF w, own
  <2>5. /\ own \subseteq Nat /\ own \subseteq DOMAIN h /\ IsFiniteSet(own)
        /\ \A i \in own : h[i].ts \in Nat
        /\ \A i, j \in own : j <= i => h[j].ts <= h[i].ts
        /\ now \in Nat /\ w \in Nat
    BY <1>1, <1>3
  <2>6. Len(log) = Cardinality(Recent(own, h, now, w))
    BY ONLY <2>3, <2>4, <2>5, CountedExactly
  <2>. QED BY <2>6 DEF log
<1>6. ASSUME GlobalCounts
      PROVE  Len(GlobalLog(now)) = Cardinality(Recent(every, h, now, w))
  <2>. DEFINE more == Append(global, now)
              log == GlobalLog(now)
  <2>1. log = Trim(more, now, w)
    BY <1>6 DEF GlobalLog
  <2>2. more \in Seq(Nat)
    BY <1>1, AppendProperties
  <2>. HIDE DEF more, log
  <2>3. log # <<>> => ~ Stale(log[1], now, w)
    BY <1>1, <2>1, <2>2, TrimFresh
  <2>4. log \in Seq(Nat) /\ Follows(log, Stamped(h), every, Recent(every, h, now, w))
    BY <1>1, <1>2 DEF log
  <2>. HIDE DEF w, every
  <2>5. /\ every \subseteq Nat /\ every \subseteq DOMAIN h /\ IsFiniteSet(every)
        /\ \A i \in every : h[i].ts \in Nat
        /\ \A i, j \in every : j <= i => h[j].ts <= h[i].ts
        /\ now \in Nat /\ w \in Nat
    BY <1>1, <1>3
  <2>6. Len(log) = Cardinality(Recent(every, h, now, w))
    BY ONLY <2>3, <2>4, <2>5, CountedExactly
  <2>. QED BY <2>6 DEF log
<1>7. Policy!Flooding(h, ip) <=>
        /\ ddos.enabled
        /\ \/ Cardinality(inOwn) > ddos.max
           \/ ddos.globalMax > 0 /\ Cardinality(inAll) > ddos.globalMax
  BY SameCount DEF Policy!Flooding
<1>8. Floods(ip, now) <=>
        \/ ddos.enabled /\ Cardinality(inOwn) > ddos.max
        \/ GlobalCounts /\ Cardinality(inAll) > ddos.globalMax
  BY <1>4, <1>5, <1>6 DEF Floods
<1>. HIDE DEF inOwn, inAll
<1>. QED BY <1>7, <1>8 DEF GlobalCounts

\* The scan detector trips exactly when the policy sees a sweep.
LEMMA SweepsAgree ==
  ASSUME NEW h, NEW ip \in IPs, NEW port \in Ports, Judged(h, ip),
         ProbeLog(ip, port, now) \in Seq(Probe),
         LET S == SweepAttempts(h, ip)
         IN  Follows(ProbeLog(ip, port, now), Probed(h), S, Recent(S, h, now, scan.window))
  PROVE  Sweeps(ip, port, now) <=> Policy!Sweeping(h, ip)
<1>. DEFINE w == scan.window
            own == SweepAttempts(h, ip)
            log == ProbeLog(ip, port, now)
<1>1. /\ h \in Seq(Attempt) /\ now \in Nat /\ w \in Nat
      /\ \A i \in DOMAIN h : h[i].ts \in Nat
      /\ \A i, j \in DOMAIN h : j <= i => h[j].ts <= h[i].ts
      /\ DOMAIN h \subseteq Nat
      /\ probes[ip] \in Seq(Probe)
  BY DEF Judged
<1>2. Follows(log, Probed(h), own, Recent(own, h, now, w)) /\ log \in Seq(Probe)
  OBVIOUS
<1>3. own \subseteq DOMAIN h /\ IsFiniteSet(own)
  BY <1>1, Kinds
<1>4. Recent(own, h, now, w) = {i \in Policy!InWindow(h, w) : h[i].ip = ip /\ h[i].swept}
  BY <1>1, SameWindow
<1>5. ASSUME scan.enabled
      PROVE  PortsIn(log) = {h[i].port : i \in Recent(own, h, now, w)}
  <2>. DEFINE more == Append(probes[ip], [ts |-> now, port |-> port])
  <2>1. log = TrimProbes(more, now, w)
    BY <1>5 DEF ProbeLog
  <2>2. more \in Seq(Probe)
    <3>1. [ts |-> now, port |-> port] \in Probe
      BY <1>1 DEF Probe
    <3>. QED BY <1>1, <3>1, AppendProperties
  <2>. HIDE DEF more, log
  <2>3. log # <<>> => ~ Stale(log[1].ts, now, w)
    BY <1>1, <2>1, <2>2, TrimProbesFresh
  <2>. HIDE DEF w, own
  <2>4. /\ own \subseteq Nat /\ own \subseteq DOMAIN h /\ IsFiniteSet(own)
        /\ \A i \in own : h[i].ts \in Nat
        /\ \A i, j \in own : j <= i => h[j].ts <= h[i].ts
        /\ now \in Nat /\ w \in Nat
    BY <1>1, <1>3
  <2>. QED BY ONLY <1>2, <2>3, <2>4, PortsExactly
<1>6. Policy!Sweeping(h, ip) <=>
        /\ scan.enabled
        /\ Cardinality({h[i].port : i \in Recent(own, h, now, w)}) > scan.ports
  BY <1>4, SameCount DEF Policy!Sweeping
<1>. QED BY <1>5, <1>6 DEF Sweeps

\* The initial states are the policy's.
LEMMA PolicyInit == Init => Policy!Init
<1>. SUFFICES ASSUME Init PROVE Policy!Init
  OBVIOUS
<1>1. now = 0 /\ \A ip \in IPs : blocked[ip] = NoBlock
  BY DEF Init
<1>2. InForce = [ip \in IPs |-> NoBlock]
  BY <1>1 DEF InForce, NoBlock
<1>. QED BY <1>2 DEF Init, Policy!Init, Pass, NoBlock, Policy!NoBlock

\* What the policy sees of one entry.
LEMMA InForceAt ==
  /\ InForce = [ip \in IPs |-> InForce[ip]]
  /\ \A ip \in IPs : InForce[ip] = IF now < blocked[ip].until THEN blocked[ip] ELSE NoBlock
BY DEF InForce

\* An event whose source is exempt, or which opens no connection.
LEMMA ExemptStep ==
  ASSUME NEW ip \in IPs, PassTrusted(ip, now) \/ PassUncounted(ip, now)
  PROVE  Policy!Exempt(ip)
<1>1. /\ now' = now /\ ddos' = ddos /\ scan' = scan /\ blocked' = blocked
      /\ whitelist' = whitelist /\ attempts' = attempts /\ last' = Pass(now)
  BY DEF PassTrusted, PassUncounted, clocks, settings
<1>2. InForce' = InForce
  BY <1>1 DEF InForce
<1>. QED BY <1>1, <1>2 DEF Policy!Exempt, Pass

\* An event under a block.
LEMMA RefuseStep ==
  ASSUME TypeOK, NEW ip \in IPs, RefuseBlocked(ip, now)
  PROVE  Policy!Refuse(ip)
<1>1. /\ now' = now /\ ddos' = ddos /\ scan' = scan /\ blocked' = blocked
      /\ whitelist' = whitelist /\ attempts' = attempts
      /\ last' = Refuse(now, blocked[ip].until)
      /\ ip \notin whitelist /\ now < blocked[ip].until
  BY DEF RefuseBlocked, Active, clocks, settings
<1>2. InForce' = InForce
  BY <1>1 DEF InForce
<1>3. InForce[ip] = blocked[ip] /\ InForce[ip] # Policy!NoBlock
  <2>1. InForce[ip] = blocked[ip]
    BY <1>1, InForceAt
  <2>2. now \in Nat
    BY DEF TypeOK
  <2>3. blocked[ip].until # 0
    BY <1>1, <2>2
  <2>4. Policy!NoBlock.until = 0
    BY DEF Policy!NoBlock
  <2>. QED BY <2>1, <2>3, <2>4
<1>. QED BY <1>1, <1>2, <1>3 DEF Policy!Refuse, Refuse

\* What the policy decides on an event that reaches the detectors.
Outcome(ip, h, flood) ==
  LET reason == IF flood THEN "RateLimit"
                ELSE IF Policy!Sweeping(h, ip) THEN "PortScan" ELSE "none"
      until  == now + IF flood THEN ddos.block ELSE scan.block
  IN  IF reason = "none"
      THEN /\ last' = [ts |-> now, until |-> 0, block |-> FALSE]
           /\ InForce' = InForce
      ELSE /\ last' = [ts |-> now, until |-> until, block |-> TRUE]
           /\ InForce' = [InForce EXCEPT ![ip] = Policy!Standing(until, reason, now)]

\* A new entry, as the policy sees it.
LEMMA NewEntry ==
  ASSUME TypeOK, now' = now, NEW ip \in IPs, NEW until, NEW reason,
         blocked' = [blocked EXCEPT ![ip] = [until |-> until, reason |-> reason]]
  PROVE  InForce' = [InForce EXCEPT ![ip] = Policy!Standing(until, reason, now)]
<1>1. /\ blocked'[ip] = [until |-> until, reason |-> reason]
      /\ \A j \in IPs : j # ip => blocked'[j] = blocked[j]
  BY DEF TypeOK
<1>2. InForce'[ip] = Policy!Standing(until, reason, now)
  BY <1>1 DEF InForce, Policy!Standing, NoBlock, Policy!NoBlock
<1>3. \A j \in IPs : j # ip => InForce'[j] = InForce[j]
  BY <1>1 DEF InForce
<1>4. InForce' = [j \in IPs |-> InForce'[j]]
  BY DEF InForce
<1>. QED BY <1>2, <1>3, <1>4, InForceAt

\* An event that reaches the detectors.
LEMMA JudgeStep ==
  ASSUME InStep, StepInv, StepInv', NEW ip \in IPs, NEW port \in Ports,
         FloodTrip(ip, port, now) \/ ScanTrip(ip, port, now) \/ PassCounted(ip, port, now)
  PROVE  Policy!Judge(ip, port)
<1>1. Reaches(ip, port, now)
  BY DEF FloodTrip, ScanTrip, PassCounted
<1>2. /\ now' = now /\ ddos' = ddos /\ scan' = scan /\ whitelist' = whitelist
      /\ ip \notin whitelist /\ ~ (now < blocked[ip].until) /\ Len(attempts) < MaxAttempts
  BY <1>1 DEF Reaches, Active, clocks, settings
<1>3. InForce[ip] = Policy!NoBlock
  BY <1>2, InForceAt DEF NoBlock, Policy!NoBlock
<1>4. PICK h : h = attempts'
  OBVIOUS
<1>5. Judged(h, ip)
  BY <1>1, <1>4, ReachesJudged
<1>6. Floods(ip, now) <=> Policy!Flooding(h, ip)
  BY <1>5, FloodsAgree
<1>7. ASSUME ~ Floods(ip, now)
      PROVE  Sweeps(ip, port, now) <=> Policy!Sweeping(h, ip)
  <2>. DEFINE S == SweepAttempts(h, ip)
              log == ProbeLog(ip, port, now)
  <2>1. probes'[ip] = log
    BY <1>7 DEF FloodTrip, ScanTrip, PassCounted, StepInv, TypeOK
  <2>2. log \in Seq(Probe)
    BY <2>1 DEF StepInv, TypeOK
  <2>3. S \subseteq DOMAIN attempts'
    BY <1>4 DEF SweepAttempts
  <2>4. Recent(S, h, now, scan.window) \cap Nat = Recent(S, h, now, scan.window)
    <3>. HIDE DEF S
    <3>. QED BY <1>1, <1>4, <2>3, ReachesJudged
  <2>5. Follows(log, Probed(h), S, Recent(S, h, now, scan.window))
    <3>1. Follows(log, Probed(h), S, Recent(S, h, now, scan.window) \cap Nat)
      BY <1>2, <1>4, <2>1 DEF StepInv, LogsFollow
    <3>. QED BY <2>4, <3>1
  <2>. QED BY <1>5, <2>2, <2>5, SweepsAgree
<1>8. /\ ddos.block \in Nat /\ scan.block \in Nat
      /\ BlockUntil(now, ddos.block) = now + ddos.block
      /\ BlockUntil(now, scan.block) = now + scan.block
  BY NoWrap DEF StepInv, TypeOK, DdosConfig, ScanConfig, Chosen, Fits
<1>9. Floods(ip, now) \in BOOLEAN /\ Floods(ip, now) = Policy!Flooding(h, ip)
  <2>1. Floods(ip, now) \in BOOLEAN
    BY Zenon DEF Floods
  <2>2. Policy!Flooding(h, ip) \in BOOLEAN
    BY Zenon DEF Policy!Flooding
  <2>. QED BY <1>6, <2>1, <2>2, Zenon
<1>10. PICK flood \in BOOLEAN : flood = Floods(ip, now)
  BY <1>9
<1>11. Outcome(ip, h, flood)
  <2>1. CASE FloodTrip(ip, port, now)
    <3>1. /\ Floods(ip, now) /\ last' = Refuse(now, now + ddos.block)
          /\ blocked' = [blocked EXCEPT ![ip] = [until |-> now + ddos.block,
                                                 reason |-> "RateLimit"]]
      BY <1>8, <2>1 DEF FloodTrip
    <3>2. InForce' = [InForce EXCEPT ![ip] = Policy!Standing(now + ddos.block, "RateLimit", now)]
      BY <1>2, <3>1, NewEntry DEF StepInv
    <3>. QED BY <1>10, <3>1, <3>2 DEF Outcome, Refuse
  <2>2. CASE ScanTrip(ip, port, now)
    <3>1. /\ ~ Floods(ip, now) /\ Sweeps(ip, port, now) /\ last' = Refuse(now, now + scan.block)
          /\ blocked' = [blocked EXCEPT ![ip] = [until |-> now + scan.block,
                                                 reason |-> "PortScan"]]
      BY <1>8, <2>2 DEF ScanTrip
    <3>2. InForce' = [InForce EXCEPT ![ip] = Policy!Standing(now + scan.block, "PortScan", now)]
      BY <1>2, <3>1, NewEntry DEF StepInv
    <3>. QED BY <1>7, <1>10, <3>1, <3>2 DEF Outcome, Refuse
  <2>3. CASE PassCounted(ip, port, now)
    <3>1. /\ ~ Floods(ip, now) /\ ~ Sweeps(ip, port, now) /\ last' = Pass(now)
          /\ blocked' = blocked
      BY <2>3 DEF PassCounted
    <3>2. InForce' = InForce
      BY <1>2, <3>1 DEF InForce
    <3>. QED BY <1>7, <1>10, <3>1, <3>2 DEF Outcome, Pass
  <2>. QED BY <2>1, <2>2, <2>3
<1>12. h = Append(attempts,
              [ip |-> ip, port |-> port, ts |-> now, flood |-> ddos.enabled,
               glob |-> ddos.enabled /\ ddos.globalMax > 0,
               swept |-> scan.enabled /\ ~ Floods(ip, now)])
  BY <1>1, <1>4, Zenon DEF Reaches, GlobalCounts
<1>13. /\ flood = Policy!Flooding(h, ip) /\ Outcome(ip, h, flood)
       /\ h = Append(attempts,
               [ip |-> ip, port |-> port, ts |-> now, flood |-> ddos.enabled,
                glob |-> ddos.enabled /\ ddos.globalMax > 0,
                swept |-> scan.enabled /\ ~ flood])
  BY <1>9, <1>10, <1>11, <1>12, Zenon
<1>. QED BY <1>2, <1>3, <1>4, <1>13, Zenon DEF Policy!Judge, Outcome

\* Housekeeping is invisible: what it forgets has run out.
LEMMA TickStutters ==
  ASSUME TypeOK, Tick
  PROVE  UNCHANGED <<now, ddos, scan, InForce, whitelist, last, attempts>>
<1>1. /\ now' = now /\ ddos' = ddos /\ scan' = scan /\ whitelist' = whitelist
      /\ last' = last /\ attempts' = attempts /\ now \in Nat
      /\ \A ip \in IPs : blocked'[ip] = IF now < blocked[ip].until THEN blocked[ip] ELSE NoBlock
  BY DEF Tick, clocks, settings, TypeOK
<1>2. InForce' = InForce
  BY <1>1 DEF InForce, NoBlock
<1>. QED BY <1>1, <1>2

\* The clock.
LEMMA AdvanceStep ==
  ASSUME TypeOK, Advance
  PROVE  Policy!Advance
<1>1. /\ now' = now + 1 /\ ddos' = ddos /\ scan' = scan /\ whitelist' = whitelist
      /\ last' = last /\ attempts' = attempts /\ blocked' = blocked
  BY DEF Advance, settings
<1>2. ASSUME NEW ip \in IPs
      PROVE  InForce'[ip] = Policy!Standing(InForce[ip].until, InForce[ip].reason, now')
  <2>1. blocked[ip] = [until |-> blocked[ip].until, reason |-> blocked[ip].reason]
    BY DEF TypeOK, Block
  <2>2. now \in Nat /\ blocked[ip].until \in Nat
    BY DEF TypeOK, Block
  <2>3. InForce'[ip] = IF now + 1 < blocked[ip].until THEN blocked[ip] ELSE NoBlock
    BY <1>1 DEF InForce
  <2>4. CASE now < blocked[ip].until
    <3>1. InForce[ip] = blocked[ip]
      BY <2>4, InForceAt
    <3>. QED BY <1>1, <2>1, <2>3, <3>1 DEF Policy!Standing, NoBlock, Policy!NoBlock
  <2>5. CASE ~ (now < blocked[ip].until)
    <3>1. InForce[ip] = NoBlock /\ ~ (now + 1 < blocked[ip].until)
      BY <2>2, <2>5, InForceAt
    <3>. QED BY <1>1, <2>2, <2>3, <3>1 DEF Policy!Standing, NoBlock, Policy!NoBlock
  <2>. QED BY <2>4, <2>5
<1>3. InForce' = [ip \in IPs |-> InForce'[ip]]
  BY DEF InForce
<1>. QED BY <1>1, <1>2, <1>3 DEF Policy!Advance

\* What is done for the user.
LEMMA CommandStep ==
  ASSUME TypeOK,
         \/ SetConfig \/ SetEnabled
         \/ \E ip \in IPs : \/ WhitelistAdd(ip) \/ WhitelistRemove(ip)
                            \/ BlockManual(ip) \/ Unblock(ip)
  PROVE  Policy!Command
<1>1. now' = now /\ last' = last /\ attempts' = attempts
  BY DEF SetConfig, SetEnabled, WhitelistAdd, WhitelistRemove, BlockManual, Unblock, Command, clocks
<1>2. ASSUME blocked' = blocked PROVE InForce' = InForce
  BY <1>1, <1>2 DEF InForce
<1>3. CASE SetConfig
  BY <1>1, <1>2, <1>3 DEF SetConfig, Policy!Command
<1>4. CASE SetEnabled
  BY <1>1, <1>2, <1>4 DEF SetEnabled, Policy!Command
<1>5. ASSUME NEW ip \in IPs, WhitelistAdd(ip) \/ WhitelistRemove(ip)
      PROVE  Policy!Command
  BY <1>1, <1>2, <1>5 DEF WhitelistAdd, WhitelistRemove, settings, Policy!Command
<1>6. ASSUME NEW ip \in IPs, BlockManual(ip) PROVE Policy!Command
  <2>1. /\ blocked' = [blocked EXCEPT ![ip] = [until |-> now + ManualBlock, reason |-> "Manual"]]
        /\ ddos' = ddos /\ scan' = scan /\ whitelist' = whitelist
    BY <1>6 DEF BlockManual, settings
  <2>2. InForce' = [InForce EXCEPT ![ip] = Policy!Standing(now + ManualBlock, "Manual", now)]
    BY <1>1, <2>1, NewEntry
  <2>. QED BY <1>1, <2>1, <2>2 DEF Policy!Command
<1>7. ASSUME NEW ip \in IPs, Unblock(ip) PROVE Policy!Command
  <2>1. /\ blocked' = [blocked EXCEPT ![ip] = [until |-> 0, reason |-> "none"]]
        /\ ddos' = ddos /\ scan' = scan /\ whitelist' = whitelist
    BY <1>7 DEF Unblock, settings, NoBlock
  <2>2. InForce' = [InForce EXCEPT ![ip] = Policy!Standing(0, "none", now)]
    BY <1>1, <2>1, NewEntry
  <2>3. Policy!Standing(0, "none", now) = Policy!NoBlock
    BY DEF Policy!Standing, Policy!NoBlock
  <2>. QED BY <1>1, <2>1, <2>2, <2>3 DEF Policy!Command
<1>. QED BY <1>3, <1>4, <1>5, <1>6, <1>7

\* Every step of the engine is a step of the policy, or none.
LEMMA PolicyNext ==
  ASSUME InStep, StepInv, StepInv', [Next]_vars
  PROVE  [Policy!Next]_(Policy!vars)
<1>1. TypeOK /\ Stamps = {now}
  BY StepMovesOn DEF StepInv, MovesOn
<1>2. CASE Inspect
  <2>1. PICK ip \in IPs :
          \/ PassTrusted(ip, now) \/ RefuseBlocked(ip, now) \/ PassUncounted(ip, now)
          \/ \E port \in Ports : \/ FloodTrip(ip, port, now)
                                 \/ ScanTrip(ip, port, now)
                                 \/ PassCounted(ip, port, now)
    BY <1>1, <1>2 DEF Inspect
  <2>2. \/ Policy!Exempt(ip) \/ Policy!Refuse(ip)
        \/ \E port \in Ports : Policy!Judge(ip, port)
    BY <1>1, <2>1, ExemptStep, RefuseStep, JudgeStep
  <2>. QED BY <2>2 DEF Policy!Next
<1>3. CASE Tick
  <2>1. UNCHANGED Policy!vars
    BY <1>1, <1>3, TickStutters DEF Policy!vars
  <2>. QED BY <2>1
<1>4. CASE \/ SetConfig \/ SetEnabled
           \/ \E ip \in IPs : \/ WhitelistAdd(ip) \/ WhitelistRemove(ip)
                              \/ BlockManual(ip) \/ Unblock(ip)
  <2>1. Policy!Command
    BY <1>1, <1>4, CommandStep
  <2>. QED BY <2>1 DEF Policy!Next
<1>5. CASE Advance
  <2>1. Policy!Advance
    BY <1>1, <1>5, AdvanceStep
  <2>. QED BY <2>1 DEF Policy!Next
<1>6. CASE StepBack
  BY <1>6 DEF InStep, StepBack
<1>7. CASE UNCHANGED vars
  <2>1. UNCHANGED Policy!vars
    BY <1>7 DEF vars, Policy!vars, InForce
  <2>. QED BY <2>1
<1>. QED BY <1>2, <1>3, <1>4, <1>5, <1>6, <1>7 DEF Next

\* In step with the callback, the engine decides as a policy that remembers every
\* attempt would: logs that are trimmed at every check and by the ticker, and a
\* table whose entries linger until they are swept (Engine::inspect and tick).
THEOREM EngineImplementsPolicy ==
  ASSUME InStep
  PROVE  Spec => ImplementsPolicy
<1>1. Spec => []StepInv
  <2>1. Init => StepInv
    BY StepInit
  <2>2. StepInv /\ [Next]_vars => StepInv'
    BY StepNext
  <2>. QED BY <2>1, <2>2, PTL DEF Spec
<1>2. Init => Policy!Init
  BY PolicyInit
<1>3. StepInv /\ StepInv' /\ [Next]_vars => [Policy!Next]_(Policy!vars)
  BY PolicyNext
<1>4. Spec => Policy!Spec
  BY <1>1, <1>2, <1>3, PTL DEF Spec, Policy!Spec
<1>. QED BY <1>4 DEF ImplementsPolicy
=============================================================================
