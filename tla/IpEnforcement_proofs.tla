------------------------ MODULE IpEnforcement_proofs ------------------------
(***************************************************************************)
(* Proofs about IpEnforcement, for any addresses, any supply of handles    *)
(* and any block lengths: the types are right, and no filter of the kernel *)
(* is ever lost from the books, but for those WFP refused to delete, or     *)
(* removed for another.                                                    *)
(***************************************************************************)
EXTENDS IpEnforcement, TLAPS

\* What FiltersAccounted needs to be inductive: a record without a handle is
\* no record, the handle block_remote_ip holds is in nobody's record yet, and a
\* handle whose filter WFP refused to delete has that filter still and will never
\* be anybody's again.
Bookkeeping ==
  /\ \A ip \in IPs : enforced[ip].handle = NoHandle => enforced[ip] = Vacant
  /\ ui.at = "record" =>
       ui.handle \in Handles /\ \A ip \in IPs : enforced[ip].handle # ui.handle
  /\ \A h \in refused :
       /\ filters[h] # NoIP /\ \A ip \in IPs : enforced[ip].handle # h
       /\ ui.at = "record" => ui.handle # h

IInv == TypeOK /\ FiltersAccounted /\ Bookkeeping

-----------------------------------------------------------------------------
(* Types. *)

\* The past saturates at -MaxLag: an older end is still an end of the range.
LEMMA OlderType == ASSUME NEW left \in Lefts PROVE Older(left) \in Lefts
  BY EnforcementAssumption DEF Older, Lefts

\* The lengths the code gives a block are within the range.
LEMMA LeftsType ==
  /\ 0 \in Lefts /\ ManualBlock \in Lefts
  /\ \A lag \in 0 .. MaxLag : DetectBlock - lag \in Lefts
  BY EnforcementAssumption DEF Lefts

\* The variables start within their types.
LEMMA TypeInit == Init => TypeOK
  BY LeftsType, EnforcementAssumption DEF Init, TypeOK, Entry, Absent, Record, Vacant,
     NoVerdict, UiIdle

\* The consumer keeps the types.
LEMMA TypeConsumer ==
  ASSUME TypeOK,
         Enforce \/ \E ip \in IPs : Refuse(ip) \/ Trip(ip)
  PROVE  TypeOK'
<1> USE LeftsType
<1>1. CASE \E ip \in IPs : Refuse(ip)
  BY <1>1 DEF TypeOK, Refuse, Entry, NoVerdict
<1>2. CASE \E ip \in IPs : Trip(ip)
  BY <1>2 DEF TypeOK, Trip, Entry, NoVerdict
<1>3. ASSUME Enforce PROVE TypeOK'
  <2>1. consumer' \in [ip : IPs \cup {NoIP}, left : Lefts]
    BY <1>3 DEF Enforce, NoVerdict
  <2>2. enforced' \in [IPs -> Record] /\ filters' \in [Handles -> IPs \cup {NoIP}]
    BY <1>3 DEF Enforce, TypeOK, Record
  <2> QED BY <1>3, <2>1, <2>2 DEF Enforce, TypeOK
<1> QED BY <1>1, <1>2, <1>3

\* Unblocking what is on record for some addresses takes each of those filters
\* away or leaves it as it is, refused, and touches no other.
LEMMA Unblocking ==
  ASSUME TypeOK, NEW ips \in SUBSET IPs, UnblockRecorded(ips)
  PROVE  /\ filters' \in [Handles -> IPs \cup {NoIP}] /\ refused' \subseteq Handles
         /\ \A h \in Handles :
              filters'[h] = filters[h] \/ (h \in HandlesOf(ips) /\ filters'[h] = NoIP)
         /\ \A h \in HandlesOf(ips) : filters'[h] = NoIP \/ h \in refused'
         /\ refused \subseteq refused' /\ refused' \ refused \subseteq HandlesOf(ips)
         /\ \A h \in refused' \ refused : filters'[h] = filters[h]
<1>1. HandlesOf(ips) \subseteq Handles
  BY DEF HandlesOf, TypeOK, Record
<1>2. PICK kept \in SUBSET HandlesOf(ips) :
        /\ refused' = refused \cup kept
        /\ filters' = [h \in Handles |-> IF h \in HandlesOf(ips) \ kept THEN NoIP
                                                                      ELSE filters[h]]
  BY DEF UnblockRecorded
<1> QED BY <1>1, <1>2 DEF TypeOK

\* The ticker keeps the types.
LEMMA TypeTicker ==
  ASSUME TypeOK, SweepFilters \/ SweepBlocks PROVE TypeOK'
<1>1. ASSUME SweepFilters PROVE TypeOK'
  <2>1. enforced' \in [IPs -> Record]
    BY <1>1, LeftsType DEF SweepFilters, TypeOK, Record, Vacant
  <2>2. filters' \in [Handles -> IPs \cup {NoIP}] /\ refused' \subseteq Handles
    BY <1>1, Unblocking, {ip \in IPs : enforced[ip] # Vacant /\ enforced[ip].left <= 0} \in SUBSET IPs
       DEF SweepFilters
  <2> QED BY <1>1, <2>1, <2>2 DEF SweepFilters, TypeOK
<1>2. ASSUME SweepBlocks PROVE TypeOK'
  BY <1>2, LeftsType DEF SweepBlocks, TypeOK, Entry, Absent
<1> QED BY <1>1, <1>2

\* The user's commands keep the types.
LEMMA TypeUi ==
  ASSUME TypeOK, Ui PROVE TypeOK'
<1> USE LeftsType, EnforcementAssumption
<1>1. ASSUME NEW ip \in IPs, UiBlock(ip) PROVE TypeOK'
  <2>1. commands' \in 0 .. MaxCommands
    BY <1>1 DEF UiBlock, Command, TypeOK
  <2>2. /\ filters' \in [Handles -> IPs \cup {NoIP}]
        /\ ui' \in [at : {"idle", "record", "table", "lift"}, ip : IPs \cup {NoIP},
                    handle : Handles \cup {NoHandle}, left : Lefts]
    BY <1>1 DEF UiBlock, TypeOK
  <2> QED BY <1>1, <2>1, <2>2 DEF UiBlock, TypeOK
<1>2. ASSUME NEW ip \in IPs, UiUnblock(ip) PROVE TypeOK'
  <2>1. blocked' \in [IPs -> Entry]
    BY <1>2 DEF UiUnblock, TypeOK, Entry, Absent
  <2>2. ui' = [at |-> "lift", ip |-> ip, handle |-> NoHandle, left |-> 0]
    BY <1>2 DEF UiUnblock, UiIdle
  <2>3. commands' \in 0 .. MaxCommands
    BY <1>2 DEF UiUnblock, Command, TypeOK
  <2> QED BY <1>2, <2>1, <2>2, <2>3 DEF UiUnblock, TypeOK
<1>3. ASSUME NEW ip \in IPs, UiTrust(ip) PROVE TypeOK'
  BY <1>3 DEF UiTrust, Command, TypeOK
<1>4. ASSUME UiRecord PROVE TypeOK'
  <2>1. enforced' \in [IPs -> Record]
    BY <1>4 DEF UiRecord, TypeOK, Record
  <2>2. filters' \in [Handles -> IPs \cup {NoIP}] /\ refused' \subseteq Handles
    BY <1>4, Unblocking, {ui.ip} \in SUBSET IPs DEF UiRecord, TypeOK
  <2>3. ui' \in [at : {"idle", "record", "table", "lift"}, ip : IPs \cup {NoIP},
                 handle : Handles \cup {NoHandle}, left : Lefts] /\ ui'.ip = ui.ip
    BY <1>4 DEF UiRecord, TypeOK
  <2> QED BY <1>4, <2>1, <2>2, <2>3 DEF UiRecord, TypeOK
<1>5. ASSUME UiTable PROVE TypeOK'
  BY <1>5 DEF UiTable, TypeOK, Entry, UiIdle
<1>6. ASSUME UiLift PROVE TypeOK'
  <2>1. enforced' \in [IPs -> Record]
    BY <1>6 DEF UiLift, TypeOK, Record, Vacant
  <2>2. filters' \in [Handles -> IPs \cup {NoIP}] /\ refused' \subseteq Handles
    BY <1>6, Unblocking, {ui.ip} \in SUBSET IPs DEF UiLift, TypeOK
  <2>3. lifted' \subseteq IPs
    BY <1>6 DEF UiLift, TypeOK
  <2> QED BY <1>6, <2>1, <2>2, <2>3 DEF UiLift, TypeOK, UiIdle
<1> QED BY <1>1, <1>2, <1>3, <1>4, <1>5, <1>6 DEF Ui

\* The clock keeps the types.
LEMMA TypeSecond == ASSUME TypeOK, Second PROVE TypeOK'
<1>1. blocked' \in [IPs -> Entry]
  BY LeftsType, OlderType DEF Second, TypeOK, Entry, Absent
<1>2. enforced' \in [IPs -> Record]
  BY LeftsType, OlderType DEF Second, TypeOK, Record, Vacant
<1>3. consumer' \in [ip : IPs \cup {NoIP}, left : Lefts]
  BY LeftsType, OlderType DEF Second, TypeOK, NoVerdict
<1>4. ui' \in [at : {"idle", "record", "table", "lift"}, ip : IPs \cup {NoIP},
               handle : Handles \cup {NoHandle}, left : Lefts]
  BY OlderType DEF Second, TypeOK
<1> QED BY <1>1, <1>2, <1>3, <1>4 DEF Second, TypeOK

\* Every step keeps the types.
LEMMA TypeNext == TypeOK /\ [Next]_vars => TypeOK'
<1> SUFFICES ASSUME TypeOK, [Next]_vars PROVE TypeOK'
  OBVIOUS
<1>1. CASE UNCHANGED vars
  BY <1>1 DEF vars, TypeOK
<1>2. CASE Next
  BY <1>2, TypeConsumer, TypeTicker, TypeUi, TypeSecond DEF Next
<1> QED BY <1>1, <1>2

-----------------------------------------------------------------------------
(* The books. *)

\* The books start empty.
LEMMA BooksInit == Init => FiltersAccounted /\ Bookkeeping
  BY EnforcementAssumption DEF Init, FiltersAccounted, Bookkeeping, Vacant, NoVerdict,
     UiIdle

\* A handle that is free is in no record and not in block_remote_ip's hands.
LEMMA FreeIsFresh ==
  ASSUME IInv, NEW h \in Handles, Free(h)
  PROVE  /\ filters[h] = NoIP
         /\ \A ip \in IPs : enforced[ip].handle # h
         /\ ui.at = "record" => ui.handle # h
         /\ h \notin refused
  BY EnforcementAssumption DEF IInv, TypeOK, FiltersAccounted, Bookkeeping, Free

\* The consumer books the filter it installs in the step that installs it.
LEMMA BooksEnforce ==
  ASSUME IInv, Enforce PROVE FiltersAccounted' /\ Bookkeeping'
<1> DEFINE ip == consumer.ip
<1>1. ip \in IPs
  BY DEF IInv, TypeOK, Enforce
<1>2. CASE UNCHANGED <<enforced, filters>>
  BY <1>2 DEF IInv, FiltersAccounted, Bookkeeping, Enforce
<1>3. ASSUME enforced[ip] = Vacant, NEW h \in Handles, Free(h),
             filters' = [filters EXCEPT ![h] = ip],
             enforced' = [enforced EXCEPT ![ip] = [handle |-> h, left |-> consumer.left]]
      PROVE  FiltersAccounted' /\ Bookkeeping'
  <2>1. /\ \A i \in IPs \ {ip} : enforced'[i] = enforced[i]
        /\ enforced'[ip].handle = h /\ h # NoHandle
        /\ \A g \in Handles \ {h} : filters'[g] = filters[g]
        /\ filters'[h] = ip
    BY <1>1, <1>3, EnforcementAssumption DEF IInv, TypeOK
  <2>2. UNCHANGED <<ui, refused>> /\ consumer' = NoVerdict
    BY DEF Enforce
  <2>3. FiltersAccounted'
    <3>1. ASSUME NEW g \in Handles, filters'[g] # NoIP
          PROVE  \/ \E i \in IPs : enforced'[i].handle = g
                 \/ ui'.at = "record" /\ ui'.handle = g
                 \/ g \in refused'
      <4>1. CASE g = h
        BY <4>1, <1>1, <2>1
      <4>2. CASE g # h
        BY <4>2, <3>1, <1>3, <2>1, <2>2, EnforcementAssumption
           DEF IInv, FiltersAccounted, Vacant
      <4> QED BY <4>1, <4>2
    <3>2. ASSUME NEW i \in IPs, enforced'[i] # Vacant
          PROVE  filters'[enforced'[i].handle] = i
      <4>1. CASE i = ip
        BY <4>1, <2>1
      <4>2. CASE i # ip
        BY <4>2, <3>2, <2>1, <1>3, FreeIsFresh DEF IInv, FiltersAccounted, Bookkeeping,
           TypeOK, Record
      <4> QED BY <4>1, <4>2
    <3>3. ui'.at = "record" => filters'[ui'.handle] = ui'.ip
      BY <1>3, <2>1, <2>2, FreeIsFresh DEF IInv, FiltersAccounted, Bookkeeping
    <3> QED BY <3>1, <3>2, <3>3 DEF FiltersAccounted
  <2>4. Bookkeeping'
    BY <1>3, <2>1, <2>2, FreeIsFresh DEF IInv, Bookkeeping
  <2> QED BY <2>3, <2>4
<1> QED BY <1>2, <1>3 DEF Enforce

\* What is unblocked goes off the records in the same step; block_remote_ip puts
\* the handle it holds in the place of the one that goes.
LEMMA BooksUnblock ==
  ASSUME IInv, NEW ips \in SUBSET IPs, UnblockRecorded(ips),
         \A i \in IPs \ ips : enforced'[i] = enforced[i],
         \A i \in ips :
           \/ enforced'[i] = Vacant
           \/ ui.at = "record" /\ i = ui.ip /\ enforced'[i].handle = ui.handle,
         \/ UNCHANGED ui /\ \A i \in ips : enforced'[i] = Vacant
         \/ /\ ui'.at # "record"
            /\ ui.at = "record" => ui.ip \in ips /\ enforced'[ui.ip].handle = ui.handle
  PROVE  FiltersAccounted' /\ Bookkeeping'
<1>1. /\ \A h \in Handles :
           filters'[h] = filters[h] \/ (h \in HandlesOf(ips) /\ filters'[h] = NoIP)
      /\ \A h \in HandlesOf(ips) : filters'[h] = NoIP \/ h \in refused'
      /\ refused' \subseteq Handles
      /\ refused \subseteq refused' /\ refused' \ refused \subseteq HandlesOf(ips)
      /\ \A h \in refused' \ refused : filters'[h] = filters[h]
  BY Unblocking DEF IInv
<1>2. \A i \in IPs : enforced[i] # Vacant =>
        /\ enforced[i].handle \in Handles /\ filters[enforced[i].handle] = i
        /\ enforced[i].handle \in HandlesOf(ips) => i \in ips
  BY DEF IInv, TypeOK, Record, FiltersAccounted, Bookkeeping, HandlesOf, Vacant
<1>3. \A h \in HandlesOf(ips) :
        /\ h \in Handles \ refused /\ filters[h] # NoIP
        /\ ui.at = "record" => ui.handle # h
        /\ \A i \in IPs \ ips : enforced[i].handle # h
        /\ \A i \in ips : enforced'[i].handle # h
  <2>1. \A h \in HandlesOf(ips) :
          \E i \in ips : enforced[i].handle = h /\ h # NoHandle /\ enforced[i] # Vacant
    BY DEF HandlesOf, Vacant
  <2>2. Vacant.handle = NoHandle
    BY DEF Vacant
  <2>3. \A h \in HandlesOf(ips) :
          /\ h \in Handles \ refused /\ filters[h] # NoIP
          /\ ui.at = "record" => ui.handle # h
    BY <1>2, <2>1, EnforcementAssumption DEF IInv, Bookkeeping
  <2>4. \A h \in HandlesOf(ips) : \A i \in IPs \ ips : enforced[i].handle # h
    BY <1>2, <2>1, <2>2
  <2> QED BY <2>1, <2>2, <2>3, <2>4
<1>4. ASSUME NEW h \in Handles, filters'[h] # NoIP
      PROVE  \/ \E i \in IPs : enforced'[i].handle = h
             \/ ui'.at = "record" /\ ui'.handle = h
             \/ h \in refused'
  <2>1. CASE h \in HandlesOf(ips)
    BY <1>1, <1>4, <2>1
  <2>2. CASE h \notin HandlesOf(ips)
    <3>1. filters[h] # NoIP
      BY <1>1, <1>4, <2>2
    <3>2. CASE \E i \in IPs : enforced[i].handle = h
      BY <2>2, <3>2, <1>4, <1>1, EnforcementAssumption DEF HandlesOf
    <3>3. CASE ui.at = "record" /\ ui.handle = h
      BY <3>3 DEF IInv, TypeOK
    <3> QED BY <1>1, <3>1, <3>2, <3>3 DEF IInv, FiltersAccounted
  <2> QED BY <2>1, <2>2
<1>5. ASSUME NEW i \in IPs, enforced'[i] # Vacant
      PROVE  filters'[enforced'[i].handle] = i
  <2>1. CASE i \in ips
    BY <2>1, <1>1, <1>3, <1>5 DEF IInv, FiltersAccounted, Bookkeeping
  <2>2. CASE i \notin ips
    BY <2>2, <1>1, <1>2, <1>5
  <2> QED BY <2>1, <2>2
<1>6. ui'.at = "record" => filters'[ui'.handle] = ui'.ip
  BY <1>1, <1>3 DEF IInv, FiltersAccounted, Bookkeeping
<1>7. Bookkeeping'
  <2>1. \A i \in IPs : enforced'[i].handle = NoHandle => enforced'[i] = Vacant
    BY EnforcementAssumption DEF IInv, Bookkeeping
  <2>2. ui'.at = "record" =>
          ui'.handle \in Handles /\ \A i \in IPs : enforced'[i].handle # ui'.handle
    BY EnforcementAssumption DEF IInv, Bookkeeping, Vacant
  <2>3. ASSUME NEW h \in refused'
        PROVE  /\ filters'[h] # NoIP /\ \A i \in IPs : enforced'[i].handle # h
               /\ ui'.at = "record" => ui'.handle # h
    <3>1. CASE h \in refused
      BY <3>1, <1>1, <1>3, EnforcementAssumption DEF IInv, TypeOK, Bookkeeping, Vacant
    <3>2. CASE h \notin refused
      BY <3>2, <1>1, <1>3
    <3> QED BY <3>1, <3>2
  <2> QED BY <2>1, <2>2, <2>3 DEF Bookkeeping
<1> QED BY <1>4, <1>5, <1>6, <1>7 DEF FiltersAccounted

\* The ticker takes a filter away together with its record.
LEMMA BooksSweep ==
  ASSUME IInv, SweepFilters PROVE FiltersAccounted' /\ Bookkeeping'
<1> DEFINE due == {ip \in IPs : enforced[ip] # Vacant /\ enforced[ip].left <= 0}
<1>1. /\ due \in SUBSET IPs /\ UnblockRecorded(due) /\ UNCHANGED ui
      /\ \A ip \in IPs \ due : enforced'[ip] = enforced[ip]
      /\ \A ip \in due : enforced'[ip] = Vacant
  BY DEF SweepFilters
<1> HIDE DEF due
<1> QED BY <1>1, BooksUnblock

\* block_remote_ip holds its new filter until it has a record for it.
LEMMA BooksBlock ==
  ASSUME IInv, NEW ip \in IPs, UiBlock(ip) PROVE FiltersAccounted' /\ Bookkeeping'
<1>1. CASE UNCHANGED <<filters, ui>>
  BY <1>1 DEF IInv, FiltersAccounted, Bookkeeping, UiBlock
<1>2. ASSUME NEW h \in Handles, Free(h), filters' = [filters EXCEPT ![h] = ip],
             ui' = [at |-> "record", ip |-> ip, handle |-> h, left |-> ManualBlock]
      PROVE  FiltersAccounted' /\ Bookkeeping'
  <2>1. /\ filters'[h] = ip
        /\ \A g \in Handles \ {h} : filters'[g] = filters[g]
        /\ ui'.at = "record" /\ ui'.handle = h /\ ui'.ip = ip
        /\ UNCHANGED <<enforced, refused>> /\ ui.at = "idle"
    BY <1>2 DEF IInv, TypeOK, UiBlock, Command, UiIdle
  <2>2. FiltersAccounted'
    BY <1>2, <2>1, FreeIsFresh DEF IInv, TypeOK, Record, FiltersAccounted, Bookkeeping
  <2>3. Bookkeeping'
    BY <1>2, <2>1, FreeIsFresh DEF IInv, Bookkeeping, Vacant
  <2> QED BY <2>2, <2>3
<1> QED BY <1>1, <1>2 DEF UiBlock

\* The record it makes frees the filter recorded for the address before.
LEMMA BooksRecord ==
  ASSUME IInv, UiRecord PROVE FiltersAccounted' /\ Bookkeeping'
<1>1. /\ {ui.ip} \in SUBSET IPs /\ UnblockRecorded({ui.ip})
      /\ \A i \in IPs \ {ui.ip} : enforced'[i] = enforced[i]
      /\ enforced'[ui.ip].handle = ui.handle
      /\ ui.at = "record" /\ ui'.at # "record"
  BY DEF IInv, TypeOK, UiRecord
<1> QED BY <1>1, BooksUnblock

\* unblock_ip takes the filter away together with its record.
LEMMA BooksLift ==
  ASSUME IInv, UiLift PROVE FiltersAccounted' /\ Bookkeeping'
<1>1. /\ {ui.ip} \in SUBSET IPs /\ UnblockRecorded({ui.ip})
      /\ \A i \in IPs \ {ui.ip} : enforced'[i] = enforced[i]
      /\ enforced'[ui.ip] = Vacant
      /\ ui.at # "record" /\ ui'.at # "record"
  BY DEF IInv, TypeOK, UiLift, UiIdle
<1> QED BY <1>1, BooksUnblock

\* The clock changes no handle.
LEMMA BooksSecond ==
  ASSUME IInv, Second PROVE FiltersAccounted' /\ Bookkeeping'
<1>1. \A ip \in IPs : /\ enforced'[ip].handle = enforced[ip].handle
                      /\ enforced[ip] = Vacant => enforced'[ip] = Vacant
  BY DEF IInv, TypeOK, Record, Second
<1>2. ui'.at = ui.at /\ ui'.ip = ui.ip /\ ui'.handle = ui.handle
  BY DEF IInv, TypeOK, Second
<1>3. UNCHANGED <<filters, refused>>
  BY DEF Second
<1> QED BY <1>1, <1>2, <1>3 DEF IInv, FiltersAccounted, Bookkeeping

\* The inductive step.
LEMMA InvNext == IInv /\ [Next]_vars => IInv'
<1> SUFFICES ASSUME IInv, [Next]_vars PROVE FiltersAccounted' /\ Bookkeeping'
  BY TypeNext DEF IInv
<1>1. CASE UNCHANGED vars
  BY <1>1 DEF vars, IInv, FiltersAccounted, Bookkeeping
<1>2. CASE \E ip \in IPs : Refuse(ip) \/ Trip(ip)
  BY <1>2 DEF Refuse, Trip, IInv, FiltersAccounted, Bookkeeping
<1>3. CASE SweepBlocks
  BY <1>3 DEF SweepBlocks, IInv, FiltersAccounted, Bookkeeping
<1>4. CASE Ui
  <2>1. CASE UiTable \/ \E ip \in IPs : UiUnblock(ip)
    <3>1. ui'.at # "record" /\ UNCHANGED <<enforced, filters, refused>> /\ ui.at # "record"
      <4>1. CASE UiTable
        BY <4>1 DEF UiTable, UiIdle
      <4>2. ASSUME NEW ip \in IPs, UiUnblock(ip)
            PROVE  ui'.at # "record" /\ UNCHANGED <<enforced, filters, refused>> /\ ui.at # "record"
        <5>1. ui' = [at |-> "lift", ip |-> ip, handle |-> NoHandle, left |-> 0]
          BY <4>2 DEF UiUnblock, UiIdle
        <5>2. ui.at = "idle"
          BY <4>2 DEF UiUnblock, Command, UiIdle
        <5> QED BY <4>2, <5>1, <5>2 DEF UiUnblock
      <4> QED BY <2>1, <4>1, <4>2
    <3> QED BY <3>1 DEF IInv, FiltersAccounted, Bookkeeping
  <2>2. CASE \E ip \in IPs : UiTrust(ip)
    BY <2>2 DEF UiTrust, IInv, FiltersAccounted, Bookkeeping
  <2> QED BY <1>4, <2>1, <2>2, BooksBlock, BooksRecord, BooksLift DEF Ui
<1> QED BY <1>1, <1>2, <1>3, <1>4, BooksEnforce, BooksSweep, BooksSecond DEF Next

\* The types are right in every reachable state.
THEOREM TypeCorrect == Spec => []TypeOK
<1> QED BY TypeInit, TypeNext, PTL DEF Spec

\* Every kernel filter for an address is on record, under its own address,
\* whatever the consumer, the ticker and the UI thread do between each other's
\* steps: the handle of a filter is never dropped or overwritten, and no thread
\* removes a filter that another relies on.
THEOREM AccountsKept == Spec => []FiltersAccounted
<1>1. Init => IInv
  BY TypeInit, BooksInit DEF IInv
<1>2. IInv /\ [Next]_vars => IInv'
  BY InvNext
<1>3. IInv => FiltersAccounted
  BY DEF IInv
<1> QED BY <1>1, <1>2, <1>3, PTL DEF Spec
=============================================================================
