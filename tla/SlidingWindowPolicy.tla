------------------------ MODULE SlidingWindowPolicy ------------------------
(***************************************************************************)
(* What the detection engine promises, without its logs: a policy that     *)
(* remembers every attempt and decides on those inside the window.  A      *)
(* block simply ends when its time comes; nobody sweeps.                   *)
(* DetectionEngine implements it while events are inspected in the instant *)
(* of their stamp, the clock runs forward and window lengths stay put.     *)
(***************************************************************************)
EXTENDS Naturals, Sequences, FiniteSets

CONSTANTS IPs, Ports, DdosConfigs, ScanConfigs, ManualBlock, MaxTime, MaxAttempts

VARIABLES now, ddos, scan, blocks, whitelist, last, attempts

vars == <<now, ddos, scan, blocks, whitelist, last, attempts>>

NoBlock == [until |-> 0, reason |-> "none"]

\* A block that is not in force is no block.
Standing(until, reason, t) ==
  IF t < until THEN [until |-> until, reason |-> reason] ELSE NoBlock

InWindow(h, w) == {i \in DOMAIN h : h[i].ts + w >= now}

Flooding(h, ip) ==
  /\ ddos.enabled
  /\ LET recent == InWindow(h, ddos.window) IN
     \/ Cardinality({i \in recent : h[i].ip = ip /\ h[i].flood}) > ddos.max
     \/ /\ ddos.globalMax > 0
        /\ Cardinality({i \in recent : h[i].glob}) > ddos.globalMax

Sweeping(h, ip) ==
  /\ scan.enabled
  /\ LET own == {i \in InWindow(h, scan.window) : h[i].ip = ip /\ h[i].swept}
     IN Cardinality({h[i].port : i \in own}) > scan.ports

Init ==
  /\ now = 0 /\ ddos \in DdosConfigs /\ scan \in ScanConfigs
  /\ blocks = [ip \in IPs |-> NoBlock]
  /\ whitelist = {} /\ attempts = <<>>
  /\ last = [ts |-> 0, until |-> 0, block |-> FALSE]

Exempt(ip) ==
  /\ last' = [ts |-> now, until |-> 0, block |-> FALSE]
  /\ UNCHANGED <<now, ddos, scan, blocks, whitelist, attempts>>

Refuse(ip) ==
  /\ ip \notin whitelist /\ blocks[ip] # NoBlock
  /\ last' = [ts |-> now, until |-> blocks[ip].until, block |-> TRUE]
  /\ UNCHANGED <<now, ddos, scan, blocks, whitelist, attempts>>

Judge(ip, port) ==
  /\ ip \notin whitelist /\ blocks[ip] = NoBlock
  /\ Len(attempts) < MaxAttempts
  /\ \E flood \in BOOLEAN :
       LET h == Append(attempts,
                  [ip |-> ip, port |-> port, ts |-> now, flood |-> ddos.enabled,
                   glob |-> ddos.enabled /\ ddos.globalMax > 0,
                   swept |-> scan.enabled /\ ~ flood])
           reason == IF flood THEN "RateLimit"
                     ELSE IF Sweeping(h, ip) THEN "PortScan" ELSE "none"
           until == now + IF flood THEN ddos.block ELSE scan.block
       IN /\ flood = Flooding(h, ip)
          /\ attempts' = h
          /\ IF reason = "none"
             THEN /\ last' = [ts |-> now, until |-> 0, block |-> FALSE]
                  /\ UNCHANGED blocks
             ELSE /\ last' = [ts |-> now, until |-> until, block |-> TRUE]
                  /\ blocks' = [blocks EXCEPT ![ip] = Standing(until, reason, now)]
  /\ UNCHANGED <<now, ddos, scan, whitelist>>

Advance ==
  /\ now' = now + 1
  /\ blocks' = [ip \in IPs |-> Standing(blocks[ip].until, blocks[ip].reason, now')]
  /\ UNCHANGED <<ddos, scan, whitelist, last, attempts>>

Command ==
  /\ \/ /\ ddos' \in DdosConfigs /\ scan' \in ScanConfigs
        /\ UNCHANGED <<blocks, whitelist>>
     \/ \E on \in BOOLEAN :
          /\ \/ ddos' = [ddos EXCEPT !.enabled = on] /\ UNCHANGED scan
             \/ scan' = [scan EXCEPT !.enabled = on] /\ UNCHANGED ddos
          /\ UNCHANGED <<blocks, whitelist>>
     \/ \E ip \in IPs :
          /\ blocks' = [blocks EXCEPT ![ip] = Standing(now + ManualBlock, "Manual", now)]
          /\ UNCHANGED <<ddos, scan, whitelist>>
     \/ \E ip \in IPs :
          /\ blocks' = [blocks EXCEPT ![ip] = NoBlock]
          /\ UNCHANGED <<ddos, scan, whitelist>>
     \/ \E ip \in IPs :
          /\ whitelist' \in {whitelist \cup {ip}, whitelist \ {ip}}
          /\ UNCHANGED <<ddos, scan, blocks>>
  /\ UNCHANGED <<now, last, attempts>>

Next ==
  \/ \E ip \in IPs : \/ Exempt(ip)
                     \/ Refuse(ip)
                     \/ \E port \in Ports : Judge(ip, port)
  \/ Advance
  \/ Command

Spec == Init /\ [][Next]_vars
=============================================================================
