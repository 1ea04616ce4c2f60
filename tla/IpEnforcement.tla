--------------------------- MODULE IpEnforcement ---------------------------
(***************************************************************************)
(* Blocked addresses in the application (src-tauri/src/main.rs): the       *)
(* engine's block table, the kernel filters that enforce it, and the map   *)
(* `enforced' from address to filter, worked on by three threads:          *)
(*   - the consumer inspects captured events, then enforces the verdict;   *)
(*   - the ticker sweeps expired filters, then expired blocks;             *)
(*   - the UI thread runs block_remote_ip, unblock_ip and whitelist_add.   *)
(* A critical section is one action; between two of them anyone may run.   *)
(* When the detectors trip is DetectionEngine's business, here any event   *)
(* of an untrusted address may trip them.                                  *)
(*                                                                         *)
(* Time is relative: `left' is the number of ticks until an entry's end,   *)
(* negative (down to -MaxLag) when it lies in the past.                    *)
(***************************************************************************)
EXTENDS Integers, FiniteSets

CONSTANTS IPs,
          Handles,      \* bound: filters that may exist at a time
          NoIP, NoHandle,
          DetectBlock,  \* length of a block set by the detectors
          ManualBlock,  \* length of a block set by the user
          MaxLag,       \* how long an event may wait for the consumer
          MaxCommands,  \* bound: commands the user gives
          MaxRefusals   \* bound: filters WFP refuses to delete

ASSUME EnforcementAssumption ==
  /\ NoIP \notin IPs /\ NoHandle \notin Handles
  /\ DetectBlock \in Nat /\ ManualBlock \in Nat \ {0}
  /\ MaxLag \in Nat /\ MaxCommands \in Nat /\ MaxRefusals \in Nat

VARIABLES blocked,   \* Engine.blocked
          trusted,   \* Engine.whitelist
          enforced,  \* Shared.enforced
          filters,   \* kernel filters, by handle: the address each blocks
          consumer,  \* the verdict the consumer is about to enforce
          ticker,    \* what the ticker does next
          ui,        \* where the UI thread is inside a command
          commands,  \* commands given so far
          lifted,    \* history: unblocked, and not heard of since
          refused    \* history: forgotten, though WFP refused to delete the filter

vars == <<blocked, trusted, enforced, filters, consumer, ticker, ui,
          commands, lifted, refused>>

Lefts    == -MaxLag .. (DetectBlock + ManualBlock)
Entry    == [held : BOOLEAN, left : Lefts]
Absent   == [held |-> FALSE, left |-> 0]
Record   == [handle : Handles \cup {NoHandle}, left : Lefts]
Vacant   == [handle |-> NoHandle, left |-> 0]
NoVerdict == [ip |-> NoIP, left |-> 0]
UiIdle   == [at |-> "idle", ip |-> NoIP, handle |-> NoHandle, left |-> 0]

TypeOK ==
  /\ blocked \in [IPs -> Entry]
  /\ trusted \subseteq IPs
  /\ enforced \in [IPs -> Record]
  /\ filters \in [Handles -> IPs \cup {NoIP}]
  /\ consumer \in [ip : IPs \cup {NoIP}, left : Lefts]
  /\ ticker \in {"filters", "blocks"}
  /\ ui \in [at : {"idle", "record", "table", "lift"}, ip : IPs \cup {NoIP},
             handle : Handles \cup {NoHandle}, left : Lefts]
  /\ consumer # NoVerdict => consumer.ip \in IPs
  /\ ui.at # "idle" => ui.ip \in IPs
  /\ commands \in 0 .. MaxCommands
  /\ lifted \subseteq IPs
  /\ refused \subseteq Handles

Filtered(ip) == \E h \in Handles : filters[h] = ip

\* A handle is never given out twice; one whose filter is gone and that
\* nobody holds stands for a new one.
Free(h) == filters[h] = NoIP /\ \A ip \in IPs : enforced[ip].handle # h

\* The filters on record for some addresses.
HandlesOf(ips) == {enforced[ip].handle : ip \in ips} \ {NoHandle}

\* unblock of windows_impl.rs forgets the handle before it deletes, and all its
\* callers drop the error: of what WFP refuses to delete nobody has a handle.
UnblockRecorded(ips) ==
  \E kept \in SUBSET HandlesOf(ips) :
    /\ Cardinality(refused \cup kept) <= MaxRefusals
    /\ refused' = refused \cup kept
    /\ filters' = [h \in Handles |-> IF h \in HandlesOf(ips) \ kept THEN NoIP
                                                                  ELSE filters[h]]

-----------------------------------------------------------------------------
Init ==
  /\ blocked = [ip \in IPs |-> Absent]
  /\ trusted = {}
  /\ enforced = [ip \in IPs |-> Vacant]
  /\ filters = [h \in Handles |-> NoIP]
  /\ consumer = NoVerdict
  /\ ticker = "filters"
  /\ ui = UiIdle
  /\ commands = 0
  /\ lifted = {}
  /\ refused = {}

\* Active at the stamp of an event that waited for lag ticks.
Active(ip, lag) == blocked[ip].held /\ blocked[ip].left + lag > 0

\* consumer: an event of an address under an active block.
Refuse(ip) ==
  /\ consumer = NoVerdict /\ ip \notin trusted
  /\ \E lag \in 0 .. MaxLag : Active(ip, lag)
  /\ consumer' = [ip |-> ip, left |-> blocked[ip].left]
  /\ lifted' = lifted \ {ip}
  /\ UNCHANGED <<blocked, trusted, enforced, filters, ticker, ui, commands, refused>>

\* Seeded fault: the whitelist is not looked at.
TripTrusted(ip) ==
  /\ consumer = NoVerdict
  /\ \E lag \in 0 .. MaxLag :
       LET left == DetectBlock - lag IN
       /\ ~ Active(ip, lag)
       /\ blocked' = [blocked EXCEPT ![ip] = [held |-> TRUE, left |-> left]]
       /\ consumer' = [ip |-> ip, left |-> left]
  /\ lifted' = lifted \ {ip}
  /\ UNCHANGED <<trusted, enforced, filters, ticker, ui, commands, refused>>

\* consumer: an event that trips a detector; the block counts from its stamp.
Trip(ip) ==
  /\ consumer = NoVerdict /\ ip \notin trusted
  /\ \E lag \in 0 .. MaxLag :
       LET left == DetectBlock - lag IN
       /\ ~ Active(ip, lag)
       /\ blocked' = [blocked EXCEPT ![ip] = [held |-> TRUE, left |-> left]]
       /\ consumer' = [ip |-> ip, left |-> left]
  /\ lifted' = lifted \ {ip}
  /\ UNCHANGED <<trusted, enforced, filters, ticker, ui, commands, refused>>

\* consumer, under the lock of `enforced': nothing if the address has an entry,
\* else a filter; an error of the firewall is only logged.
Enforce ==
  LET ip == consumer.ip IN
  /\ consumer # NoVerdict
  /\ \/ /\ enforced[ip] = Vacant
        /\ \E h \in Handles :
             /\ Free(h)
             /\ filters' = [filters EXCEPT ![h] = ip]
             /\ enforced' = [enforced EXCEPT ![ip] =
                               [handle |-> h, left |-> consumer.left]]
     \/ UNCHANGED <<enforced, filters>>   \* occupied, or block_ip failed
  /\ consumer' = NoVerdict
  /\ UNCHANGED <<blocked, trusted, ticker, ui, commands, lifted, refused>>

\* Seeded fault: the record goes, the filter stays.
SweepRecordsOnly ==
  /\ ticker = "filters" /\ ticker' = "blocks"
  /\ enforced' = [ip \in IPs |-> IF enforced[ip].left <= 0 THEN Vacant
                                                          ELSE enforced[ip]]
  /\ UNCHANGED <<blocked, trusted, filters, consumer, ui, commands, lifted, refused>>

\* ticker, under the lock of `enforced': remove the filters that are due.
SweepFilters ==
  LET due == {ip \in IPs : enforced[ip] # Vacant /\ enforced[ip].left <= 0} IN
  /\ ticker = "filters" /\ ticker' = "blocks"
  /\ enforced' = [ip \in IPs |-> IF ip \in due THEN Vacant ELSE enforced[ip]]
  /\ UnblockRecorded(due)
  /\ UNCHANGED <<blocked, trusted, consumer, ui, commands, lifted>>

\* ticker: Engine::tick.
SweepBlocks ==
  /\ ticker = "blocks" /\ ticker' = "filters"
  /\ blocked' = [ip \in IPs |-> IF blocked[ip].left > 0 THEN blocked[ip]
                                                         ELSE Absent]
  /\ UNCHANGED <<trusted, enforced, filters, consumer, ui, commands, lifted, refused>>

Command ==
  /\ ui = UiIdle
  /\ commands < MaxCommands /\ commands' = commands + 1

\* block_remote_ip: a filter first; when the firewall fails, nothing else.
UiBlock(ip) ==
  /\ Command
  /\ \/ \E h \in Handles :
          /\ Free(h)
          /\ filters' = [filters EXCEPT ![h] = ip]
          /\ ui' = [at |-> "record", ip |-> ip, handle |-> h, left |-> ManualBlock]
     \/ UNCHANGED <<filters, ui>>
  /\ lifted' = lifted \ {ip}
  /\ UNCHANGED <<blocked, trusted, enforced, consumer, ticker, refused>>

\* Seeded fault: the filter recorded before is forgotten.
UiRecordOver ==
  /\ ui.at = "record"
  /\ enforced' = [enforced EXCEPT ![ui.ip] = [handle |-> ui.handle, left |-> ui.left]]
  /\ ui' = [ui EXCEPT !.at = "table", !.handle = NoHandle]
  /\ UNCHANGED <<blocked, trusted, filters, consumer, ticker, commands, lifted, refused>>

\* ... its record replaces the one there was, whose filter is removed ...
UiRecord ==
  /\ ui.at = "record"
  /\ enforced' = [enforced EXCEPT ![ui.ip] = [handle |-> ui.handle, left |-> ui.left]]
  /\ UnblockRecorded({ui.ip})
  /\ ui' = [ui EXCEPT !.at = "table", !.handle = NoHandle]
  /\ UNCHANGED <<blocked, trusted, consumer, ticker, commands, lifted>>

\* Seeded fault: a second block is added to the first.
UiTableLonger ==
  /\ ui.at = "table"
  /\ blocked' = [blocked EXCEPT ![ui.ip] = [held |-> TRUE, left |-> @.left + ui.left]]
  /\ ui' = UiIdle
  /\ UNCHANGED <<trusted, enforced, filters, consumer, ticker, commands, lifted, refused>>

\* ... and the engine hears of the block last (Engine::block_manual).
UiTable ==
  /\ ui.at = "table"
  /\ blocked' = [blocked EXCEPT ![ui.ip] = [held |-> TRUE, left |-> ui.left]]
  /\ ui' = UiIdle
  /\ UNCHANGED <<trusted, enforced, filters, consumer, ticker, commands, lifted, refused>>

\* unblock_ip: the engine first, then the filter.
UiUnblock(ip) ==
  /\ Command
  /\ blocked' = [blocked EXCEPT ![ip] = Absent]
  /\ ui' = [UiIdle EXCEPT !.at = "lift", !.ip = ip]
  /\ UNCHANGED <<trusted, enforced, filters, consumer, ticker, lifted, refused>>

UiLift ==
  /\ ui.at = "lift"
  /\ enforced' = [enforced EXCEPT ![ui.ip] = Vacant]
  /\ UnblockRecorded({ui.ip})
  /\ ui' = UiIdle
  /\ lifted' = IF blocked[ui.ip].held THEN lifted ELSE lifted \cup {ui.ip}
  /\ UNCHANGED <<blocked, trusted, consumer, ticker, commands>>

\* whitelist_add: the engine's set only.
UiTrust(ip) ==
  /\ Command
  /\ trusted' = trusted \cup {ip}
  /\ UNCHANGED <<blocked, enforced, filters, consumer, ticker, ui, lifted, refused>>

Ui == \/ \E ip \in IPs : UiBlock(ip) \/ UiUnblock(ip) \/ UiTrust(ip)
      \/ UiRecord \/ UiTable \/ UiLift

\* One tick of the clock: every end comes nearer.
Older(left) == IF left > -MaxLag THEN left - 1 ELSE left

Second ==
  /\ blocked' = [ip \in IPs |-> IF blocked[ip].held
                   THEN [blocked[ip] EXCEPT !.left = Older(@)] ELSE Absent]
  /\ enforced' = [ip \in IPs |-> IF enforced[ip] # Vacant
                   THEN [enforced[ip] EXCEPT !.left = Older(@)] ELSE Vacant]
  /\ consumer' = IF consumer # NoVerdict
                 THEN [consumer EXCEPT !.left = Older(@)] ELSE NoVerdict
  /\ ui' = IF ui.at \in {"record", "table"}
           THEN [ui EXCEPT !.left = Older(@)] ELSE ui
  /\ UNCHANGED <<trusted, filters, ticker, commands, lifted, refused>>

Next ==
  \/ \E ip \in IPs : Refuse(ip) \/ Trip(ip)
  \/ Enforce
  \/ SweepFilters \/ SweepBlocks
  \/ Ui
  \/ Second

\* The threads run and the clock does; nobody has to send traffic or commands.
Fairness ==
  /\ WF_vars(Enforce)
  /\ WF_vars(SweepFilters) /\ WF_vars(SweepBlocks)
  /\ WF_vars(UiRecord) /\ WF_vars(UiTable) /\ WF_vars(UiLift)
  /\ WF_vars(Second)

Spec == Init /\ [][Next]_vars
FairSpec == Spec /\ Fairness

-----------------------------------------------------------------------------
(* Properties. *)

\* Every kernel filter is accounted for, and every account is of a live filter
\* on that very address: but for filters WFP refused to delete, no thread drops
\* or overwrites the only handle of a filter, or removes another's (consumer,
\* ticker, block_remote_ip and unblock_ip all move handles in and out of
\* `enforced').
FiltersAccounted ==
  /\ \A h \in Handles : filters[h] # NoIP =>
       \/ \E ip \in IPs : enforced[ip].handle = h
       \/ ui.at = "record" /\ ui.handle = h
       \/ h \in refused
  /\ \A ip \in IPs : enforced[ip] # Vacant => filters[enforced[ip].handle] = ip
  /\ ui.at = "record" => filters[ui.handle] = ui.ip

\* Every filter is taken away again, by the ticker, a replacement or the user,
\* unless WFP refuses just that deletion: nobody asks for it a second time.
EveryFilterLifted ==
  \A h \in Handles : filters[h] # NoIP ~> filters[h] = NoIP \/ h \in refused

\* A trusted address is in the end left alone for good, though whitelist_add
\* itself removes neither its block nor its filter, but for the filters on it
\* that WFP refused to delete.
TrustedInTheEndFree ==
  \A ip \in IPs : ip \in trusted ~> [] \A h \in Handles \ refused : filters[h] # ip

\* The same without the exemption.
FiltersExpire ==
  \A h \in Handles : filters[h] # NoIP ~> filters[h] = NoIP

\* "Trusted sources always pass" (core/src/detect/mod.rs), "whitelisted never
\* blocked" (core/src/lib.rs): with no command and no verdict under way, no
\* filter blocks a whitelisted address.
TrustedNeverFiltered ==
  ui = UiIdle /\ consumer = NoVerdict =>
    \A ip \in trusted : ~ Filtered(ip)

\* A manual block is liftable (the test manual_block_is_enforced_and_liftable):
\* once unblock_ip has returned, the address has no filter until an event
\* inspected since, or the user, gives it a new one.
LiftSticks == \A ip \in lifted : ~ Filtered(ip)
=============================================================================
