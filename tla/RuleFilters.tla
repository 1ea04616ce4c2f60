---------------------------- MODULE RuleFilters ----------------------------
(***************************************************************************)
(* From the remembered rules to the filters in the kernel                  *)
(* (src-tauri/src/main.rs and src-tauri/src/wfp/windows_impl.rs): the      *)
(* commands of the rules page, of the profiles and of the import, the      *)
(* restart, the observer that looks a connection up and installs a missing *)
(* block, and the ticker that removes what is due.  A block is one or two  *)
(* filters, one for each layer, behind one handle.                         *)
(*                                                                         *)
(* Session rules, prompts and rules that run out are in AppQuarantine, the *)
(* file in StatePersistence; here time stands still, nothing prompts, and  *)
(* a restart finds the rules the commands have left.                       *)
(***************************************************************************)
EXTENDS RuleEngine

CONSTANTS Forms,        \* rules the user may save
          Imports,      \* rules and active profile, to import or to start with
          Connections,  \* connections the rules may be about
          Tried,        \* those that are tried
          Observers,    \* consumer, snapshotter
          Handles,      \* bound: handles in use at a time
          MaxCommands,  \* bound: commands and restarts
          MaxFailures   \* bound: calls of the firewall that go wrong

ASSUME FiltersAssumption ==
  /\ Forms \subseteq Rule
  /\ Connections \subseteq Conn /\ Tried \subseteq Connections
  /\ \A i \in Imports :
       /\ IsFiniteSet(i.rules) /\ i.rules \subseteq Rule /\ i.profile \in Profiles
       /\ \A q, r \in i.rules : StorageKey(q) = StorageKey(r) => q = r
  /\ Handles \subseteq Nat /\ MaxCommands \in Nat /\ MaxFailures \in Nat
  /\ {"ui", "ticker"} \cap Observers = {}

Threads == {"ui", "ticker"} \cup Observers

VARIABLES rules,      \* program_rules
          profile,    \* active_profile_id
          blocks,     \* app_blocks
          registered, \* handles in WfpFirewall.filters
          kernel,     \* what WFP holds
          thread,     \* what each thread is doing
          commands, failures,
          undeleted   \* history: handles whose deletion failed

vars == <<rules, profile, blocks, registered, kernel, thread, commands,
          failures, undeleted>>
remembered == <<rules, profile>>
wfp == <<registered, kernel, failures, undeleted>>

\* at: where the thread is; rule and handle: what it is installing; left: rules
\* still to restore or imported, or blocks still to remove, by their key and that
\* of the rule they go with; next: what is to be done when the firewall is as the
\* rule wants it.
Doing(at, rule, left, next) ==
  [at |-> at, rule |-> rule, handle |-> 0, left |-> left, next |-> next]
Idle == Doing("idle", Nobody, {}, "rest")

\* The rules that ever are anywhere, with the time of their last change.
Versions == {[r EXCEPT !.updated = n] : r \in Forms, n \in 0 .. MaxCommands}
              \cup (UNION {i.rules : i \in Imports})

TypeOK ==
  /\ rules \subseteq Versions
  /\ \A q, r \in rules : StorageKey(q) = StorageKey(r) => q = r
  /\ profile \in Profiles
  /\ \A b \in blocks : b.handle \in Handles /\ b.rule \in Versions
                         /\ b.key = BlockKey(b.rule)
  /\ \A b, d \in blocks : b.key = d.key => b = d
  /\ registered \subseteq Handles /\ undeleted \subseteq Handles
  /\ \A f \in kernel :
       f.handle \in Handles /\ f.layer \in Families /\ f.rule \in Versions
  /\ \A t \in Threads :
       /\ thread[t].at \in {"idle", "check", "install", "record", "remove",
                            "store", "restore", "import"}
       /\ thread[t].rule \in Versions \cup {Nobody}
       /\ thread[t].handle \in Handles \cup {0}
       /\ thread[t].next \in {"rest", "store", "restore"}
  /\ commands \in 0 .. MaxCommands /\ failures \in 0 .. MaxFailures

-----------------------------------------------------------------------------
(* The firewall. *)

\* Seeded fault: the list of rules is only appended to.
PutAnother(rs, r) == rs \cup {r}

\* HashMap::insert
Put(rs, r) == {q \in rs : StorageKey(q) # StorageKey(r)} \cup {r}

InUse == registered \cup {f.handle : f \in kernel} \cup {b.handle : b \in blocks}
           \cup {thread[t].handle : t \in Threads}
Free == {h \in Handles \ InUse : \A g \in Handles \ InUse : h <= g}

FiltersOn(h, r, layers) == {[handle |-> h, layer |-> l, rule |-> r] : l \in layers}

\* Seeded fault: it goes unnoticed that the second filter could not be added.
AddSome(h, r) ==
  /\ \E layers \in {LayersOf(r), LayersOf(r) \ {"v6"}} :
       kernel' = kernel \cup FiltersOn(h, r, layers)
  /\ registered' = registered \cup {h}
  /\ UNCHANGED <<failures, undeleted>>

\* block_app_target and block_package_target, when all goes well.
AddAll(h, r) ==
  /\ kernel' = kernel \cup FiltersOn(h, r, LayersOf(r))
  /\ registered' = registered \cup {h}
  /\ UNCHANGED <<failures, undeleted>>

\* One filter cannot be added.  If it is the second, the first is taken back;
\* whether that works is not looked at.
AddFails(h, r) ==
  /\ failures < MaxFailures /\ failures' = failures + 1
  /\ \/ UNCHANGED <<kernel, undeleted>>
     \/ /\ LayersOf(r) = Families
        /\ kernel' = kernel \cup FiltersOn(h, r, {"v4"})
        /\ undeleted' = undeleted \cup {h}
  /\ UNCHANGED registered

\* unblock: the handle is forgotten whether or not its filters can be deleted,
\* and its callers ignore the error.
Lift(h) ==
  LET mine == {f \in kernel : f.handle = h}
  IN /\ registered' = registered \ {h}
     /\ \/ kernel' = kernel \ mine /\ UNCHANGED <<failures, undeleted>>
        \/ \E stay \in (SUBSET mine) \ {{}} :
             /\ failures < MaxFailures /\ failures' = failures + 1
             /\ kernel' = (kernel \ mine) \cup stay
             /\ undeleted' = undeleted \cup {h}

-----------------------------------------------------------------------------
\* Before anything else the program restores the blocks of all rules it has
\* loaded, of whatever profile, due or not.
StartWith(rs) ==
  LET todo == {r \in rs : IsBlocking(r)}
  IN [[t \in Threads |-> Idle] EXCEPT !["ui"] =
        IF todo = {} THEN Idle ELSE Doing("restore", Nobody, todo, "restore")]

Init ==
  /\ \E i \in Imports : rules = i.rules /\ profile = i.profile
  /\ blocks = {} /\ registered = {} /\ kernel = {} /\ undeleted = {}
  /\ thread = StartWith(rules)
  /\ commands = 0 /\ failures = 0

\* The other threads are started after the blocks have been restored.
Restoring == thread["ui"].next = "restore"

At(t, where) == thread[t].at = where /\ (t = "ui" \/ ~ Restoring)
Goes(t, d) == thread' = [thread EXCEPT ![t] = d]
KeysOf(path) ==
  {<<b.key, StorageKey(b.rule)>> : b \in {b \in blocks : b.rule.path = path}}

(* install_block_for_rule *)

\* What follows: the next rule to restore, the rule stored unless there was an
\* error, or nothing.
Afterwards(t, ok) ==
  LET d == thread[t]
  IN CASE d.next = "restore" /\ d.left # {} ->
            Doing("restore", Nobody, d.left, "restore")
       [] d.next = "store" /\ ok -> Doing("store", d.rule, {}, "store")
       [] OTHER -> Idle

\* No filter for a domain; an error without an id, with a target that is no
\* address, or from WFP.
Install(t) ==
  /\ At(t, "install")
  /\ LET r == thread[t].rule
         d == thread[t]
     IN \/ /\ r.id = Nobody \/ r.target.kind = "domain" \/ Fails(r.target)
           /\ Goes(t, Afterwards(t, r.id # Nobody /\ r.target.kind = "domain"))
           /\ UNCHANGED wfp
        \/ /\ r.id # Nobody /\ r.target.kind # "domain" /\ ~ Fails(r.target)
           /\ \E h \in Free :
                \/ AddAll(h, r) /\ Goes(t, [at |-> "record", rule |-> r, handle |-> h,
                                           left |-> d.left, next |-> d.next])
                \/ AddFails(h, r) /\ Goes(t, Afterwards(t, FALSE))
  /\ UNCHANGED <<remembered, blocks, commands>>

\* Seeded fault: the handle of the block that is replaced is dropped.
RecordOver(t) ==
  /\ At(t, "record")
  /\ LET r == thread[t].rule
         b == [key |-> BlockKey(r), handle |-> thread[t].handle, rule |-> r]
     IN blocks' = {d \in blocks : d.key # b.key} \cup {b}
  /\ Goes(t, Afterwards(t, TRUE))
  /\ UNCHANGED <<remembered, wfp, commands>>

\* The block is recorded and the one it replaces lifted, under one guard.
Record(t) ==
  /\ At(t, "record")
  /\ LET r == thread[t].rule
         b == [key |-> BlockKey(r), handle |-> thread[t].handle, rule |-> r]
         old == {d \in blocks : d.key = b.key}
     IN /\ blocks' = (blocks \ old) \cup {b}
        /\ \/ old = {} /\ UNCHANGED wfp
           \/ \E d \in old : Lift(d.handle)
  /\ Goes(t, Afterwards(t, TRUE))
  /\ UNCHANGED <<remembered, commands>>

(* remove_runtime_blocks_for_app, and the same loop in prune_expired_rules *)
Remove(t) ==
  /\ At(t, "remove")
  /\ \/ \E gone \in thread[t].left :
          LET key == gone[1] IN
          /\ Goes(t, Doing("remove", thread[t].rule, thread[t].left \ {gone}, thread[t].next))
          /\ blocks' = {b \in blocks : b.key # key}
          /\ \/ key \notin {b.key : b \in blocks} /\ UNCHANGED wfp
             \/ \E b \in {b \in blocks : b.key = key} : Lift(b.handle)
     \/ /\ thread[t].left = {}
        /\ Goes(t, Afterwards(t, TRUE))
        /\ UNCHANGED <<blocks, wfp>>
  /\ UNCHANGED <<remembered, commands>>

-----------------------------------------------------------------------------
(* The UI thread. *)

Command == commands < MaxCommands /\ At("ui", "idle") /\ commands' = commands + 1

\* upsert_rule; normalize_rule stamps it.
Upsert(form) ==
  LET r == [form EXCEPT !.updated = commands']
  IN /\ Command
     /\ Goes("ui",
          CASE IsBlocking(r) /\ r.id # Nobody -> Doing("install", r, {}, "store")
            [] IsBlocking(r) /\ r.id = Nobody -> Doing("store", r, {}, "store")
            [] OTHER -> Doing("remove", r, KeysOf(r.path), "store"))
     /\ UNCHANGED <<remembered, blocks, wfp>>

Store ==
  /\ At("ui", "store")
  /\ rules' = Put(rules, thread["ui"].rule)
  /\ Goes("ui", Idle)
  /\ UNCHANGED <<profile, blocks, wfp, commands>>

\* remove_rule: all the blocks of its path go with it.
RemoveRule(r) ==
  /\ Command
  /\ rules' = rules \ {r}
  /\ Goes("ui", Doing("remove", r, KeysOf(r.path), "rest"))
  /\ UNCHANGED <<profile, blocks, wfp>>

\* set_active_profile: no filter changes.
SetActiveProfile(p) ==
  /\ Command /\ p # profile
  /\ profile' = p
  /\ UNCHANGED <<rules, blocks, wfp, thread>>

\* import_state: the settings, then the rules; no filter changes.
Import(i) ==
  /\ Command
  /\ profile' = i.profile
  /\ Goes("ui", Doing("import", Nobody, i.rules, "rest"))
  /\ UNCHANGED <<rules, blocks, wfp>>

ImportRules ==
  /\ At("ui", "import")
  /\ rules' = thread["ui"].left
  /\ Goes("ui", Idle)
  /\ UNCHANGED <<profile, blocks, wfp, commands>>

\* The program ends, and with its dynamic session all its filters.
Restart ==
  /\ commands < MaxCommands /\ commands' = commands + 1
  /\ thread' = StartWith(rules)
  /\ blocks' = {} /\ registered' = {} /\ kernel' = {} /\ undeleted' = {}
  /\ UNCHANGED <<remembered, failures>>

\* The rules come in the order of the hash map.
Restore ==
  /\ At("ui", "restore")
  /\ \E r \in thread["ui"].left :
       Goes("ui", Doing("install", r, thread["ui"].left \ {r}, "restore"))
  /\ UNCHANGED <<remembered, blocks, wfp, commands>>

-----------------------------------------------------------------------------
(* The observers and the ticker. *)

\* inspect_program: the rule is looked up.
Lookup(o, c) ==
  /\ At(o, "idle")
  /\ \E r \in rules :
       /\ r \in Found(rules, c, profile, FALSE) /\ IsBlocking(r)
       /\ Goes(o, Doing("check", r, {}, "rest"))
  /\ UNCHANGED <<remembered, blocks, wfp, commands>>

\* Seeded fault: any block of the application will do.
CheckPath(o) ==
  /\ At(o, "check")
  /\ Goes(o, IF KeysOf(thread[o].rule.path) # {} THEN Idle
             ELSE Doing("install", thread[o].rule, {}, "rest"))
  /\ UNCHANGED <<remembered, blocks, wfp, commands>>

\* A block recorded under the rule's key is taken to be the rule's.
Check(o) ==
  /\ At(o, "check")
  /\ Goes(o, IF BlockKey(thread[o].rule) \in {b.key : b \in blocks} THEN Idle
             ELSE Doing("install", thread[o].rule, {}, "rest"))
  /\ UNCHANGED <<remembered, blocks, wfp, commands>>

\* prune_expired_rules: the rules go first, then, for each of them, what is
\* recorded under its key by then.
Prune ==
  /\ At("ticker", "idle")
  /\ LET due == {r \in rules : ~ IsActive(r)}
     IN /\ due # {}
        /\ rules' = rules \ due
        /\ Goes("ticker", Doing("remove", Nobody,
                              {<<BlockKey(r), StorageKey(r)>> : r \in due}, "rest"))
  /\ UNCHANGED <<profile, blocks, wfp, commands>>

-----------------------------------------------------------------------------
Work(t) == Install(t) \/ Record(t) \/ Remove(t)
UiStep == Work("ui") \/ Store \/ Restore \/ ImportRules
ObserverStep(o) == Check(o) \/ Work(o)
TickerStep == Prune \/ Work("ticker")

Next ==
  \/ \E form \in Forms : Upsert(form)
  \/ \E r \in rules : RemoveRule(r)
  \/ \E p \in Profiles : SetActiveProfile(p)
  \/ \E i \in Imports : Import(i)
  \/ Restart
  \/ UiStep \/ TickerStep
  \/ \E o \in Observers, c \in Tried : Lookup(o, c)
  \/ \E o \in Observers : ObserverStep(o)

Spec == Init /\ [][Next]_vars

\* Threads go on, and a connection that is tried again and again is inspected.
FairSpec ==
  /\ Spec /\ WF_vars(UiStep) /\ WF_vars(TickerStep)
  /\ \A o \in Observers : WF_vars(ObserverStep(o))
  /\ \A c \in Tried : SF_vars(\E o \in Observers : Lookup(o, c))

-----------------------------------------------------------------------------
(* Properties. *)

\* The rule find_rule_in decides on, whatever the order in which the hash map
\* hands the rules out, is one the rules are meant to give: by class, then by
\* target, then by age.
LookupIsBest ==
  \A c \in Connections : Found(rules, c, profile, FALSE) = Intended(rules, c, profile)

FiltersUnder(h) == {f \in kernel : f.handle = h}

\* What is recorded in app_blocks is in the kernel whole: a filter for each layer
\* the rule's target has, and nothing else, under a handle WfpFirewall knows,
\* whatever calls failed before and whichever thread frees what.
BlocksWhole ==
  \A b \in blocks :
    /\ b.handle \in registered
    /\ FiltersUnder(b.handle) = FiltersOn(b.handle, b.rule, LayersOf(b.rule))

\* What is recorded for a plain rule stops exactly those connections of its
\* application that the lookup finds the rule to be about: the matching in Rust
\* and the conditions given to WFP agree, on networks, families and ports.
BlocksExact ==
  \A b \in blocks : IsPlain(b.rule) =>
    \A c \in Connections : c.id = b.rule.id =>
      ((\E f \in FiltersUnder(b.handle) : FilterMatches(f.rule, f.layer, c))
         <=> Matches(b.rule, c))

\* No filter is lost from the books: every filter and every handle belongs to
\* a recorded block or to one about to be recorded, unless WFP refused to delete
\* it (the errors of unblock are ignored).
FiltersKnown ==
  LET known == {b.handle : b \in blocks} \cup {thread[t].handle : t \in Threads}
  IN /\ registered \subseteq known
     /\ {f.handle : f \in kernel} \subseteq known \cup undeleted

\* The rules a lookup of c may decide on that block c and that the rules page
\* can make.
Blocking(c) ==
  {r \in Found(rules, c, profile, FALSE) \ {Nobody} :
     IsBlocking(r) /\ IsPlain(r) /\ r.id = c.id}

\* The boot service and the application agree on what they block: where the
\* application finds a plain blocking rule for the active profile or for all,
\* the service's filters say block too, permits notwithstanding; unless some
\* rule in scope does not convert and has ended the service's rebuild.
ServiceAgrees ==
  ServiceFails(rules, profile) \/ \A c \in Connections :
    (\E r \in Blocking(c) : r.profile \in {"global", profile}) =>
      ServiceSays(rules, profile, c) = "block"

Stopped(c) == \E f \in kernel : FilterMatches(f.rule, f.layer, c)

\* The block recorded under the key of a rule is another rule's.
Hidden(r) == \E b \in blocks : b.key = BlockKey(r) /\ StorageKey(b.rule) # StorageKey(r)

\* A rule that blocks a connection has it blocked in the end if the connection
\* is tried again, after failures, restarts, imports and changes of profile;
\* unless another rule's block is recorded under the rule's key.
RuleTakesEffect ==
  \A c \in Tried :
    Blocking(c) # {} ~>
      (Blocking(c) = {} \/ Stopped(c) \/ \E r \in Blocking(c) : Hidden(r))
=============================================================================
