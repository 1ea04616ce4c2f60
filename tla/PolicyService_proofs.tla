----------------------- MODULE PolicyService_proofs -----------------------
(***************************************************************************)
(* Proofs about the boot service, for every set of rules, profiles and     *)
(* states of the file, and any number of failures: its state is well       *)
(* typed, what it has in force comes from one state but for the filters    *)
(* WFP refused to delete, and default deny is in force with all permits    *)
(* except while the service clears.                                        *)
(***************************************************************************)
EXTENDS PolicyService, FiniteSetTheorems, TLAPS

\* The applied rules, those still to be added left out, have their filters.
Added(left) ==
  \A r \in Active(loaded, TRUE) : r \notin left => FiltersOf(r) \subseteq filters

NoDeny == \A l \in Layers : <<DefaultDeny, l>> \notin filters

\* Default deny comes only when all permits are there, and no step but those of
\* `clear' takes one of them away.
DenyLast ==
  /\ at = "rules" => Added(todo) /\ NoDeny
  /\ at = "deny" => Added({}) /\ NoDeny
  /\ at \notin {"clear", "stop"} /\ ~ NoDeny => Added({})

\* The moment at which the rules were looked at settles which of them there are,
\* those that are still to be added among them.
OneMoment ==
  /\ filters # {} => loaded # Missing /\ filters \subseteq PolicyOf(loaded, moment)
  /\ at = "rules" => todo \subseteq Active(loaded, moment)

\* A filter is left over only when its deletion was refused.
FewLeft == IsFiniteSet(leftover) /\ Cardinality(leftover) <= refused

IInv == TypeOK /\ DenyLast /\ OneMoment /\ FewLeft

\* What AddRule does with one rule.
RuleStep(r) ==
  \/ r \notin Broken /\ Add(FiltersOf(r), "rules")
  \/ r \in Broken /\ at' = "poll" /\ UNCHANGED <<filters, gaveUp, failures>>

-----------------------------------------------------------------------------
(* Types. *)

\* The filters a content stands for are filters of rules or of default deny.
LEMMA PolicyType ==
  ASSUME NEW c \in Contents, NEW over \in BOOLEAN
  PROVE  /\ Active(c, over) \subseteq Rules
         /\ \A r \in Rules : FiltersOf(r) \subseteq Filter
         /\ DenyFilters \subseteq Filter
<1>1. c \in Content
  BY ServiceAssumption
<1>2. Active(c, over) \subseteq Rules
  BY <1>1 DEF Active, Content
<1>3. ASSUME NEW r \in Rules PROVE FiltersOf(r) \subseteq Filter
  <2>1. r.layers \subseteq Layers
    BY ServiceAssumption DEF Rule
  <2> QED BY <2>1 DEF FiltersOf, Filter
<1> QED BY <1>2, <1>3 DEF DenyFilters, Filter

\* A failure counted is a failure within the bound.
LEMMA FailureType ==
  ASSUME TypeOK, UNCHANGED failures \/ MayFail PROVE failures' \in 0 .. MaxFailures
  BY ServiceAssumption DEF TypeOK, MayFail

\* The variables start within their types.
LEMMA TypeInit == Init => TypeOK
<1> SUFFICES ASSUME Init PROVE TypeOK
  OBVIOUS
<1>1. file \in [body : Contents \cup {Torn, Missing}, stamp : 0 .. MaxStamp]
  <2>1. CASE file = [body |-> Missing, stamp |-> 0]
    BY <2>1, ServiceAssumption
  <2>2. ASSUME NEW c \in Contents, file = [body |-> c, stamp |-> 1] 
        PROVE  file \in [body : Contents \cup {Torn, Missing}, stamp : 0 .. MaxStamp]
    BY <2>2, ServiceAssumption
  <2> QED BY <2>1, <2>2 DEF Init
<1>2. lastModified \in 0 .. MaxStamp /\ failures \in 0 .. MaxFailures
  BY ServiceAssumption DEF Init
<1> QED BY <1>1, <1>2 DEF Init, TypeOK


\* Opening the engine keeps the types of what it touches.
LEMMA OpenType ==
  ASSUME TypeOK, Open
  PROVE  engine' \in BOOLEAN /\ gaveUp' \in BOOLEAN /\ failures' \in 0 .. MaxFailures
<1>1. failures' \in 0 .. MaxFailures
  BY FailureType DEF Open
<1> QED BY <1>1 DEF Open, TypeOK

\* Adding filters keeps the types of what it touches.
LEMMA AddType ==
  ASSUME TypeOK, NEW wanted \in SUBSET Filter, NEW next \in {"rules", "poll"},
         Add(wanted, next)
  PROVE  /\ filters' \subseteq Filter /\ at' \in {next, "poll"}
         /\ gaveUp' \in BOOLEAN /\ failures' \in 0 .. MaxFailures
<1>1. failures' \in 0 .. MaxFailures
  BY FailureType DEF Add
<1> QED BY <1>1 DEF Add, TypeOK

\* The steps of the service keep the types, its start and its end included.
LEMMA TypeService ==
  ASSUME TypeOK, Start \/ ServiceStep \/ Stop \/ Die PROVE TypeOK'
<1>1. ASSUME Start PROVE TypeOK'
  <2>1. lastModified' \in 0 .. MaxStamp
    BY <1>1, ServiceAssumption DEF Start
  <2>2. filters' = {} /\ leftover' = {}
    BY <1>1 DEF Start, TypeOK
  <2> QED BY <1>1, <2>1, <2>2, OpenType DEF Start, TypeOK
<1>2. ASSUME Poll PROVE TypeOK'
  <2>1. lastModified' \in 0 .. MaxStamp
    BY <1>2 DEF Poll, TypeOK
  <2>2. CASE engine /\ at' = "load" /\ UNCHANGED <<engine, gaveUp, failures>>
    BY <1>2, <2>1, <2>2 DEF Poll, TypeOK
  <2>3. CASE ~ engine /\ Open /\ UNCHANGED at
    <3>1. filters' = {} /\ leftover' = {}
      BY <1>2, <2>3 DEF Poll, TypeOK
    <3> QED BY <1>2, <2>1, <2>3, <3>1, OpenType DEF Poll, TypeOK
  <2> QED BY <1>2, <2>2, <2>3 DEF Poll
<1>3. ASSUME Load PROVE TypeOK'
  BY <1>3, ServiceAssumption DEF Load, TypeOK
<1>4. ASSUME AddRule PROVE TypeOK'
  <2>1. PICK r \in todo : RuleStep(r) /\ todo' = todo \ {r}
    BY <1>4 DEF AddRule, RuleStep
  <2>2. loaded \in Contents
    BY <1>4 DEF AddRule, TypeOK
  <2>3. FiltersOf(r) \subseteq Filter
    BY <2>2, PolicyType DEF TypeOK
  <2>4. /\ filters' \subseteq Filter /\ at' \in {"rules", "poll"}
        /\ gaveUp' \in BOOLEAN /\ failures' \in 0 .. MaxFailures
    BY <2>1, <2>3, AddType DEF RuleStep, TypeOK
  <2> QED BY <1>4, <2>1, <2>4 DEF AddRule, TypeOK
<1>5. ASSUME RulesDone PROVE TypeOK'
  BY <1>5 DEF RulesDone, TypeOK
<1>6. ASSUME AddDeny PROVE TypeOK'
  <2>1. DenyFilters \subseteq Filter
    BY DEF DenyFilters, Filter
  <2> QED BY <1>6, <2>1, AddType DEF AddDeny, TypeOK
<1>7. ASSUME Delete PROVE TypeOK'
  <2>1. failures' \in 0 .. MaxFailures
    BY <1>7, FailureType DEF Delete
  <2>2. /\ filters' \subseteq Filter /\ leftover' \subseteq Filter /\ refused' \in Nat
        /\ engine
    BY <1>7 DEF Delete, Oldest, TypeOK
  <2> QED BY <1>7, <2>1, <2>2 DEF Delete, TypeOK
<1>8. ASSUME Cleared PROVE TypeOK'
  <2>1. state \in Contents /\ todo' = Active(state, ended) /\ ended \in BOOLEAN
    BY <1>8 DEF Cleared, TypeOK
  <2>2. todo' \subseteq Rules
    BY <2>1, PolicyType
  <2> QED BY <1>8, <2>1, <2>2, ServiceAssumption DEF Cleared, TypeOK
<1>9. ASSUME Stop PROVE TypeOK'
  BY <1>9 DEF Stop, TypeOK
<1>10. ASSUME Stopped \/ Die PROVE TypeOK'
  <2>1. EndSession
    BY <1>10 DEF Stopped, Die
  <2> QED BY <2>1 DEF EndSession, TypeOK
<1> QED BY <1>1, <1>2, <1>3, <1>4, <1>5, <1>6, <1>7, <1>8, <1>9, <1>10 DEF ServiceStep

\* The application and the clock keep the types.
LEMMA TypeSurroundings ==
  ASSUME TypeOK, AppStart \/ SaveBegin \/ SaveEnd \/ AppEnd \/ Expire PROVE TypeOK'
<1>1. ASSUME SaveBegin PROVE TypeOK'
  <2>1. PICK stamp \in Later(file.stamp) : file' = [body |-> Torn, stamp |-> stamp]
    BY <1>1 DEF SaveBegin
  <2>2. stamp \in 0 .. MaxStamp /\ stamp < MaxStamp
    BY <1>1, ServiceAssumption DEF SaveBegin, TypeOK, Later
  <2>3. /\ file' \in [body : Contents \cup {Torn, Missing}, stamp : 0 .. MaxStamp]
        /\ file'.stamp < MaxStamp
    BY <2>1, <2>2
  <2> QED BY <1>1, <2>3 DEF SaveBegin, service, TypeOK
<1>2. ASSUME SaveEnd PROVE TypeOK'
  <2>1. PICK stamp \in Later(file.stamp) : file' = [body |-> writer, stamp |-> stamp]
    BY <1>2 DEF SaveEnd
  <2>2. stamp \in 0 .. MaxStamp /\ writer \in Contents
    BY <1>2, ServiceAssumption DEF SaveEnd, TypeOK, Later
  <2>3. file' \in [body : Contents \cup {Torn, Missing}, stamp : 0 .. MaxStamp]
    BY <2>1, <2>2
  <2> QED BY <1>2, <2>3 DEF SaveEnd, service, TypeOK
<1>3. ASSUME AppStart PROVE TypeOK'
  BY <1>3 DEF AppStart, service, TypeOK
<1>4. ASSUME AppEnd PROVE TypeOK'
  BY <1>4 DEF AppEnd, service, TypeOK
<1>5. ASSUME Expire PROVE TypeOK'
  BY <1>5 DEF Expire, service, TypeOK
<1> QED BY <1>1, <1>2, <1>3, <1>4, <1>5

\* Every step keeps the types.
LEMMA TypeStep == TypeOK /\ [Next]_vars => TypeOK'
<1> SUFFICES ASSUME TypeOK, [Next]_vars PROVE TypeOK'
  OBVIOUS
<1>1. CASE UNCHANGED vars
  BY <1>1 DEF vars, service, TypeOK
<1> QED BY <1>1, TypeService, TypeSurroundings DEF Next

\* Every reachable state of the service, the file and the application is well
\* typed (PolicyEngine, run_policy_loop, settings::save).
THEOREM TypeCorrect == Spec => []TypeOK
  BY TypeInit, TypeStep, PTL DEF Spec

-----------------------------------------------------------------------------
(* What is in force. *)

\* A permit that holds for good holds whether or not time is up.
LEMMA ActiveShrinks ==
  ASSUME NEW c, NEW over \in BOOLEAN PROVE Active(c, TRUE) \subseteq Active(c, over)
  BY DEF Active, Applies

\* No filter of a rule is one of default deny.
LEMMA RuleIsNoDeny ==
  ASSUME NEW r \in Rules PROVE \A l \in Layers : <<DefaultDeny, l>> \notin FiltersOf(r)
  BY ServiceAssumption DEF FiltersOf

\* Default deny still comes last after one step of the service.
LEMMA DenyLastService ==
  ASSUME TypeOK, DenyLast, Start \/ ServiceStep \/ Stop \/ Die PROVE DenyLast'
<1>1. ASSUME Start PROVE DenyLast'
  BY <1>1 DEF Start, DenyLast, Added, NoDeny
<1>2. ASSUME Poll PROVE DenyLast'
  BY <1>2 DEF Poll, DenyLast, Added, NoDeny
<1>3. ASSUME Load PROVE DenyLast'
  BY <1>3 DEF Load, DenyLast, Added, NoDeny
<1>4. ASSUME AddRule PROVE DenyLast'
  <2>1. PICK r \in todo : RuleStep(r) /\ todo' = todo \ {r}
    BY <1>4 DEF AddRule, RuleStep
  <2>2. filters' \subseteq filters \cup FiltersOf(r)
    BY <2>1 DEF RuleStep, Add
  <2>3. NoDeny'
    BY <1>4, <2>2, RuleIsNoDeny DEF AddRule, DenyLast, NoDeny, TypeOK
  <2>4. CASE at' = "rules"
    <3>1. filters' = filters \cup FiltersOf(r)
      BY <2>1, <2>4 DEF RuleStep, Add
    <3>2. Added(todo)'
      BY <1>4, <2>1, <3>1 DEF AddRule, DenyLast, Added
    <3> QED BY <2>3, <2>4, <3>2 DEF DenyLast
  <2>5. CASE at' = "poll"
    BY <2>3, <2>5 DEF DenyLast
  <2> QED BY <2>1, <2>4, <2>5 DEF RuleStep, Add
<1>5. ASSUME RulesDone PROVE DenyLast'
  BY <1>5 DEF RulesDone, DenyLast, Added, NoDeny
<1>6. ASSUME AddDeny PROVE DenyLast'
  <2>1. filters \subseteq filters' /\ at' = "poll"
    BY <1>6 DEF AddDeny, Add
  <2>2. Added({})'
    BY <1>6, <2>1 DEF AddDeny, DenyLast, Added
  <2> QED BY <2>1, <2>2 DEF DenyLast
<1>7. ASSUME Cleared PROVE DenyLast'
  <2>1. Active(loaded, TRUE)' \subseteq todo'
    <3>1. Active(state, TRUE) \subseteq Active(state, ended)
      BY ActiveShrinks DEF TypeOK
    <3> QED BY <1>7, <3>1 DEF Cleared, Active
  <2> QED BY <1>7, <2>1 DEF Cleared, DenyLast, Added, NoDeny
<1>8. ASSUME Delete \/ Stop PROVE DenyLast'
  <2>1. at' \in {"clear", "stop"}
    BY <1>8 DEF Delete, Stop
  <2> QED BY <2>1 DEF DenyLast
<1>9. ASSUME Stopped \/ Die PROVE DenyLast'
  BY <1>9 DEF Stopped, Die, EndSession, DenyLast, NoDeny
<1> QED BY <1>1, <1>2, <1>3, <1>4, <1>5, <1>6, <1>7, <1>8, <1>9 DEF ServiceStep

\* What the service knows to be in force, and what is to come, is still of one
\* moment after one of its steps.
LEMMA OneMomentService ==
  ASSUME TypeOK, OneMoment, Start \/ ServiceStep \/ Stop \/ Die PROVE OneMoment'
<1>1. ASSUME Start \/ Stop \/ Stopped \/ Die PROVE OneMoment'
  BY <1>1 DEF Start, Stop, Stopped, Die, EndSession, OneMoment, TypeOK, PolicyOf, Active
<1>2. ASSUME Poll \/ Load \/ RulesDone PROVE OneMoment'
  BY <1>2 DEF Poll, Load, RulesDone, OneMoment, PolicyOf, Active
<1>3. ASSUME Delete PROVE OneMoment'
  <2>1. filters' \subseteq filters /\ UNCHANGED <<loaded, moment>> /\ at' # "rules"
    BY <1>3 DEF Delete
  <2> QED BY <2>1 DEF OneMoment, PolicyOf, Active
<1>4. ASSUME Cleared PROVE OneMoment'
  BY <1>4 DEF Cleared, OneMoment, Active
<1>5. ASSUME AddRule PROVE OneMoment'
  <2>1. PICK r \in todo : RuleStep(r) /\ todo' = todo \ {r}
    BY <1>5 DEF AddRule, RuleStep
  <2>2. FiltersOf(r) \subseteq PolicyOf(loaded, moment)
    BY <1>5 DEF AddRule, OneMoment, PolicyOf
  <2>3. filters' \subseteq filters \cup FiltersOf(r)
    BY <2>1 DEF RuleStep, Add
  <2>4. /\ filters' \subseteq PolicyOf(loaded, moment) /\ loaded # Missing
        /\ UNCHANGED <<loaded, moment>> /\ todo' \subseteq Active(loaded, moment)
    BY <1>5, <2>1, <2>2, <2>3 DEF AddRule, OneMoment, TypeOK
  <2> QED BY <2>4 DEF OneMoment, PolicyOf, Active
<1>6. ASSUME AddDeny PROVE OneMoment'
  <2>1. filters' \subseteq PolicyOf(loaded, moment) /\ loaded # Missing
    <3>1. CASE Denies(loaded)
      <4>1. DenyFilters \subseteq PolicyOf(loaded, moment)
        BY <3>1 DEF PolicyOf
      <4>2. filters' \subseteq filters \cup DenyFilters
        BY <1>6, <3>1 DEF AddDeny, Add
      <4> QED BY <1>6, <4>1, <4>2 DEF AddDeny, OneMoment, TypeOK
    <3>2. CASE ~ Denies(loaded)
      BY <1>6, <3>2 DEF AddDeny, Add, OneMoment, TypeOK
    <3> QED BY <3>1, <3>2
  <2>2. UNCHANGED <<loaded, moment>> /\ at' = "poll"
    BY <1>6 DEF AddDeny, Add
  <2> QED BY <2>1, <2>2 DEF OneMoment, PolicyOf, Active
<1> QED BY <1>1, <1>2, <1>3, <1>4, <1>5, <1>6 DEF ServiceStep

\* A filter is left over only by a deletion that was refused, and all of them go
\* with the session.
LEMMA FewLeftService ==
  ASSUME TypeOK, FewLeft, Start \/ ServiceStep \/ Stop \/ Die PROVE FewLeft'
<1>1. CASE UNCHANGED <<leftover, refused>>
  BY <1>1 DEF FewLeft
<1>2. CASE leftover' = {} /\ refused' = 0
  BY <1>2, FS_EmptySet DEF FewLeft
<1>3. ASSUME NEW f, refused' = refused + 1, leftover' = leftover \cup {f} PROVE FewLeft'
  <2>1. /\ IsFiniteSet(leftover')
        /\ Cardinality(leftover') = Cardinality(leftover)
             \/ Cardinality(leftover') = Cardinality(leftover) + 1
    BY <1>3, FS_AddElement DEF FewLeft
  <2>2. Cardinality(leftover) \in Nat
    BY FS_CardinalityType DEF FewLeft
  <2> QED BY <1>3, <2>1, <2>2 DEF FewLeft, TypeOK
<1>4. CASE Stopped \/ Die
  BY <1>2, <1>4 DEF Stopped, Die, EndSession
<1>5. CASE Delete
  BY <1>1, <1>3, <1>5 DEF Delete
<1>6. CASE Start \/ Stop \/ Poll \/ Load \/ Cleared \/ AddRule \/ RulesDone \/ AddDeny
  BY <1>1, <1>6 DEF Start, Stop, Poll, Load, Cleared, AddRule, RulesDone, AddDeny
<1> QED BY <1>4, <1>5, <1>6 DEF ServiceStep

\* The invariant holds at first, and every step keeps it.
LEMMA InvInit == Init => IInv
  BY TypeInit, FS_EmptySet DEF Init, IInv, DenyLast, NoDeny, OneMoment, FewLeft

\* Of the steps of others, none touches what the invariant speaks of.
LEMMA InvStep == IInv /\ [Next]_vars => IInv'
<1> SUFFICES ASSUME IInv, [Next]_vars PROVE IInv'
  OBVIOUS
<1>1. TypeOK'
  BY TypeStep DEF IInv
<1>2. CASE Start \/ ServiceStep \/ Stop \/ Die
  BY <1>1, <1>2, DenyLastService, OneMomentService, FewLeftService DEF IInv
<1>3. CASE UNCHANGED vars \/ AppStart \/ SaveBegin \/ SaveEnd \/ AppEnd \/ Expire
  <2>1. UNCHANGED <<at, loaded, moment, todo, filters, leftover, refused>>
    BY <1>3 DEF vars, service, AppStart, SaveBegin, SaveEnd, AppEnd, Expire
  <2>2. DenyLast'
    BY <2>1 DEF IInv, DenyLast, Added, NoDeny, Active
  <2>3. OneMoment' /\ FewLeft'
    BY <2>1 DEF IInv, OneMoment, FewLeft, PolicyOf, Active
  <2> QED BY <1>1, <2>2, <2>3 DEF IInv
<1> QED BY <1>2, <1>3 DEF Next

\* The invariant contains both promises.
LEMMA InvPromises == IInv => OneState /\ DenyKeepsAllowed
<1>1. ASSUME IInv PROVE OneState
  <2> DEFINE others == IF loaded = Missing THEN InForce
                                           ELSE InForce \ PolicyOf(loaded, moment)
  <2>1. others \subseteq leftover
    BY <1>1 DEF IInv, OneMoment, InForce
  <2>2. Cardinality(others) <= Cardinality(leftover) /\ Cardinality(others) \in Nat
    BY <1>1, <2>1, FS_Subset, FS_CardinalityType DEF IInv, FewLeft
  <2>3. Cardinality(leftover) \in Nat /\ Cardinality(leftover) <= refused /\ refused \in Nat
    BY <1>1, FS_CardinalityType DEF IInv, FewLeft, TypeOK
  <2> HIDE DEF others
  <2>4. Cardinality(others) <= refused
    BY <2>2, <2>3
  <2> QED BY <2>4 DEF OneState, others
<1>2. ASSUME IInv PROVE DenyKeepsAllowed
  <2> SUFFICES ASSUME at \notin {"clear", "stop"},
                      NEW l \in Layers, <<DefaultDeny, l>> \in filters,
                      NEW r \in Active(loaded, TRUE), l \in r.layers
               PROVE  <<r, l>> \in filters
    BY DEF DenyKeepsAllowed
  <2>1. FiltersOf(r) \subseteq filters
    BY <1>2 DEF IInv, DenyLast, NoDeny, Added
  <2> QED BY <2>1 DEF FiltersOf
<1> QED BY <1>1, <1>2

\* Whatever is in force comes from one state of the file at one moment, but for as
\* many filters as WFP refused to delete in this session, for any failures and any
\* saves meanwhile (PolicyEngine::apply and clear).
THEOREM OneStateKept == Spec => []OneState
  BY InvInit, InvStep, InvPromises, PTL DEF Spec

\* Where default deny has been added, so are the filters of every rule that has not
\* run out, for any rules and in whatever order they are added, until the service
\* clears (PolicyEngine::apply, add_default_deny last).
THEOREM AllowedKept == Spec => []DenyKeepsAllowed
  BY InvInit, InvStep, InvPromises, PTL DEF Spec
=============================================================================
