--------------------------- MODULE PolicyService ---------------------------
(***************************************************************************)
(* The boot service (service/src/lib.rs) beside the application.           *)
(*                                                                         *)
(* The service polls the state file the application writes; when its time  *)
(* of modification has changed, it loads the file and rebuilds all of its  *)
(* filters.  The two share the file, and in the kernel a sublayer: both    *)
(* sessions register the same key, and only one of them can have it.       *)
(*                                                                         *)
(* The application is here what it is to the service: it starts, saves its *)
(* state in place, and exits or dies.  A rule stands for one that names an *)
(* executable; which layers its filters go to depends on its target.       *)
(***************************************************************************)
EXTENDS Naturals, FiniteSets

CONSTANTS Rules,       \* what the user may have made rules about
          Broken,      \* those with a target that is no address
          CoarseClock, \* whether two writes may be given the same time
          Profiles, DenyProfiles,  \* profiles, those that deny by default
          Contents,    \* what the application saves
          DefaultDeny, \* names the filters of default deny
          Torn,        \* a file cut short by a save that is under way, or was
          Missing,     \* no file
          NoSave,
          MaxStamp,    \* bound: times the file is modified
          MaxFailures  \* bound: calls to WFP that fail for no visible reason

Layers  == {"v4", "v6"}
Rule    == [decision : {"allow", "block"}, profile : Profiles \cup {"global"},
            layers : SUBSET Layers, outbound : BOOLEAN, timed : BOOLEAN]
Content == [rules : SUBSET Rules, profile : Profiles, deny : BOOLEAN]
Filter  == (Rules \cup {DefaultDeny}) \X Layers

ASSUME ServiceAssumption ==
  /\ Rules \subseteq Rule /\ Contents \subseteq Content
  /\ CoarseClock \in BOOLEAN
  /\ DenyProfiles \subseteq Profiles
  /\ DefaultDeny \notin Rules /\ {Torn, Missing, NoSave} \cap Contents = {}
  /\ MaxStamp \in Nat \ {0} /\ MaxFailures \in Nat

VARIABLES file,         \* the state file
          writer,       \* what the application is about to write
          app,          \* the application, and whether WFP let it in
          at,           \* where the service is in run_policy_loop
          engine,       \* whether its PolicyEngine is open
          lastModified, \* last_modified
          state,        \* the state it is about to apply
          loaded,       \* the state it applied last, or is applying
          moment,       \* the time it takes rules to run out by, as `ended'
          todo,         \* rules that are still to be added
          filters,      \* filter_ids, the filters it knows of
          leftover,     \* filters of its session that WFP refused to delete
          refused,      \* history: deletions WFP refused in this session
          gaveUp,       \* history: WFP failed it, and nothing was loaded since
          ended,        \* whether the end of timed rules has come
          failures      \* calls to WFP that failed

service == <<at, engine, lastModified, state, loaded, moment, todo, filters,
             leftover, refused, gaveUp>>
vars == <<service, file, writer, app, ended, failures>>

\* A save leaves room for its second write; work on filters needs an open
\* session, and without one there are none.
TypeOK ==
  /\ file \in [body : Contents \cup {Torn, Missing}, stamp : 0 .. MaxStamp]
  /\ writer \in Contents \cup {NoSave}
  /\ writer # NoSave => file.stamp < MaxStamp
  /\ app \in {"off", "enforcing", "disabled"}
  /\ at \in {"off", "poll", "load", "clear", "rules", "deny", "stop"}
  /\ engine \in BOOLEAN
  /\ lastModified \in 0 .. MaxStamp
  /\ state \in Contents \cup {Missing} /\ loaded \in Contents \cup {Missing}
  /\ moment \in BOOLEAN
  /\ todo \subseteq Rules
  /\ filters \subseteq Filter /\ leftover \subseteq Filter
  /\ refused \in Nat
  /\ gaveUp \in BOOLEAN /\ ended \in BOOLEAN
  /\ failures \in 0 .. MaxFailures
  /\ at \in {"load", "clear", "rules", "deny"} => engine
  /\ at = "off" => ~ engine
  /\ filters \cup leftover # {} => engine
  /\ at = "clear" <=> state # Missing
  /\ at \in {"rules", "deny"} => loaded # Missing

-----------------------------------------------------------------------------
(* The policy a state stands for. *)

\* default_deny_enabled
Denies(c) == c.deny \/ c.profile \in DenyProfiles

\* rule_is_active, rule_in_active_scope and direction_matches_outbound
Applies(r, c, over) ==
  /\ ~ (r.timed /\ over)
  /\ r.profile \in {"global", c.profile}
  /\ r.outbound

FiltersOf(r)    == {r} \X r.layers
DenyFilters     == {DefaultDeny} \X Layers
Active(c, over) == {r \in c.rules : Applies(r, c, over)}
PolicyOf(c, over) ==
  (UNION {FiltersOf(r) : r \in Active(c, over)})
    \cup (IF Denies(c) THEN DenyFilters ELSE {})

-----------------------------------------------------------------------------
Init ==
  /\ file \in {[body |-> Missing, stamp |-> 0]}
                \cup {[body |-> c, stamp |-> 1] : c \in Contents}
  /\ writer = NoSave /\ app = "off"
  /\ at = "off" /\ engine = FALSE
  /\ lastModified = 0
  /\ state = Missing /\ loaded = Missing /\ moment = FALSE
  /\ todo = {} /\ filters = {} /\ leftover = {} /\ refused = 0
  /\ gaveUp = FALSE /\ ended = FALSE /\ failures = 0

(* The service. *)

MayFail == failures < MaxFailures /\ failures' = failures + 1

\* PolicyEngine::open, which registers the sublayer.
Open ==
  \/ /\ app # "enforcing"
     /\ engine' = TRUE
     /\ UNCHANGED <<gaveUp, failures>>
  \/ /\ \/ app = "enforcing" /\ UNCHANGED failures
        \/ MayFail
     /\ gaveUp' = TRUE
     /\ UNCHANGED engine

Start ==
  /\ at = "off" /\ at' = "poll"
  /\ Open
  /\ lastModified' = 0
  /\ UNCHANGED <<file, writer, app, state, loaded, moment, todo, filters, leftover,
                 refused, ended>>

\* The file has changed: load it, or open the engine if there is none.
Poll ==
  /\ at = "poll" /\ file.stamp # lastModified
  /\ lastModified' = file.stamp
  /\ \/ engine /\ at' = "load" /\ UNCHANGED <<engine, gaveUp, failures>>
     \/ ~ engine /\ Open /\ UNCHANGED at
  /\ UNCHANGED <<file, writer, app, state, loaded, moment, todo, filters, leftover,
                 refused, ended>>

\* load_state; a file that does not parse changes nothing.
Load ==
  /\ at = "load"
  /\ IF file.body \in Contents THEN state' = file.body /\ at' = "clear"
                              ELSE at' = "poll" /\ UNCHANGED state
  /\ UNCHANGED <<file, writer, app, engine, lastModified, loaded, moment, todo,
                 filters, leftover, refused, gaveUp, ended, failures>>

\* The filters `clear' may come to next: it goes by the order they were added in,
\* that is IPv4 before IPv6 for each rule, and default deny last.
Oldest ==
  {f \in filters : /\ f[1] = DefaultDeny => filters \subseteq DenyFilters
                   /\ f[2] = "v6" => <<f[1], "v4">> \notin filters}

\* Seeded fault: `clear' ends at the first filter it cannot delete.
DeleteUntilRefused ==
  /\ at \in {"clear", "stop"}
  /\ \E f \in Oldest :
       \/ filters' = filters \ {f} /\ UNCHANGED <<at, state, refused, failures>>
       \/ /\ MayFail /\ refused' = refused + 1
          /\ at' = "poll" /\ state' = Missing
          /\ UNCHANGED filters
  /\ UNCHANGED <<file, writer, app, engine, lastModified, loaded, moment, todo,
                 leftover, gaveUp, ended>>

\* `clear' forgets each filter whether or not WFP deletes it.
Delete ==
  /\ at \in {"clear", "stop"}
  /\ \E f \in Oldest :
       /\ filters' = filters \ {f}
       /\ \/ UNCHANGED <<leftover, refused, failures>>
          \/ MayFail /\ refused' = refused + 1 /\ leftover' = leftover \cup {f}
  /\ UNCHANGED <<file, writer, app, at, engine, lastModified, state, loaded, moment,
                 todo, gaveUp, ended>>

\* Seeded faults: the old filters stay; default deny goes in first.
ClearNothing ==
  /\ at = "clear"
  /\ loaded' = state /\ moment' = ended /\ todo' = Active(state, ended)
  /\ gaveUp' = FALSE /\ at' = "rules" /\ state' = Missing
  /\ UNCHANGED <<file, writer, app, engine, lastModified, filters, leftover, refused,
                 ended, failures>>
ClearedDenyFirst ==
  /\ at = "clear" /\ filters = {}
  /\ loaded' = state /\ moment' = ended /\ todo' = Active(state, ended)
  /\ filters' = IF Denies(state) THEN DenyFilters ELSE {}
  /\ gaveUp' = FALSE /\ at' = "rules" /\ state' = Missing
  /\ UNCHANGED <<file, writer, app, engine, lastModified, leftover, refused, ended,
                 failures>>

\* `apply' after its `clear': it looks at the clock once.
Cleared ==
  /\ at = "clear" /\ filters = {}
  /\ loaded' = state /\ moment' = ended /\ todo' = Active(state, ended)
  /\ gaveUp' = FALSE /\ at' = "rules" /\ state' = Missing
  /\ UNCHANGED <<file, writer, app, engine, lastModified, filters, leftover, refused,
                 ended, failures>>

\* The filters wanted, one call each, IPv4 first.  The first call that fails
\* ends `apply'; what was added by then stays.
Add(wanted, next) ==
  \/ /\ filters' = filters \cup wanted
     /\ at' = next
     /\ UNCHANGED <<gaveUp, failures>>
  \/ /\ wanted # {} /\ MayFail
     /\ \E done \in SUBSET wanted :
          /\ done # wanted /\ \A f \in done : f[2] = "v4"
          /\ filters' = filters \cup done
     /\ gaveUp' = TRUE /\ at' = "poll"

\* add_rule_filters, for the rules in the order of a hash map.  A target that
\* is no address ends `apply' as a failure of WFP does.
AddRule ==
  /\ at = "rules"
  /\ \E r \in todo :
       /\ todo' = todo \ {r}
       /\ \/ r \notin Broken /\ Add(FiltersOf(r), "rules")
          \/ r \in Broken /\ at' = "poll" /\ UNCHANGED <<filters, gaveUp, failures>>
  /\ UNCHANGED <<file, writer, app, engine, lastModified, state, loaded, moment,
                 leftover, refused, ended>>

RulesDone ==
  /\ at = "rules" /\ todo = {}
  /\ at' = "deny"
  /\ UNCHANGED <<file, writer, app, engine, lastModified, state, loaded, moment,
                 todo, filters, leftover, refused, gaveUp, ended, failures>>

\* Seeded fault: the time of modification is taken when all is done.
AddDenyLate ==
  /\ at = "deny"
  /\ Add(IF Denies(loaded) THEN DenyFilters ELSE {}, "poll")
  /\ lastModified' = file.stamp
  /\ UNCHANGED <<file, writer, app, engine, state, loaded, moment, todo, leftover,
                 refused, ended>>

\* add_default_deny comes last.
AddDeny ==
  /\ at = "deny"
  /\ Add(IF Denies(loaded) THEN DenyFilters ELSE {}, "poll")
  /\ UNCHANGED <<file, writer, app, engine, lastModified, state, loaded, moment,
                 todo, leftover, refused, ended>>

\* STOP is looked at between two polls; `clear' comes before the end.
Stop ==
  /\ at = "poll" /\ at' = "stop"
  /\ UNCHANGED <<engine, lastModified, state, loaded, moment, todo, filters, leftover,
                 refused, gaveUp, file, writer, app, ended, failures>>

\* The session is dynamic: what is left of it goes when it ends.
EndSession ==
  /\ at' = "off" /\ engine' = FALSE
  /\ state' = Missing /\ todo' = {} /\ gaveUp' = FALSE
  /\ filters' = {} /\ leftover' = {} /\ refused' = 0
  /\ UNCHANGED <<file, writer, app, lastModified, loaded, moment, ended, failures>>

\* Seeded fault: the filters outlive their session.
StoppedOnly ==
  /\ at = "stop" /\ filters = {}
  /\ at' = "off" /\ engine' = FALSE /\ todo' = {} /\ gaveUp' = FALSE
  /\ UNCHANGED <<file, writer, app, lastModified, state, loaded, moment, filters,
                 leftover, refused, ended, failures>>

Stopped == at = "stop" /\ filters = {} /\ EndSession

Die == at # "off" /\ EndSession

ServiceStep ==
  Poll \/ Load \/ Delete \/ Cleared \/ AddRule \/ RulesDone \/ AddDeny \/ Stopped

-----------------------------------------------------------------------------
(* The application and the clock. *)

\* WfpFirewall::start; when the sublayer is taken, a DisabledFirewall.
AppStart ==
  /\ app = "off"
  /\ app' = IF engine THEN "disabled" ELSE "enforcing"
  /\ UNCHANGED <<service, file, writer, ended, failures>>

\* The time a write is given; there is no file at time 0.
Later(stamp) == IF CoarseClock /\ stamp > 0 THEN {stamp, stamp + 1} ELSE {stamp + 1}

\* settings::save truncates the file and then fills it.
SaveBegin ==
  /\ app # "off" /\ writer = NoSave
  /\ file.stamp < MaxStamp - 1
  /\ writer' \in Contents
  /\ \E stamp \in Later(file.stamp) : file' = [body |-> Torn, stamp |-> stamp]
  /\ UNCHANGED <<service, app, ended, failures>>

SaveEnd ==
  /\ writer # NoSave
  /\ \E stamp \in Later(file.stamp) : file' = [body |-> writer, stamp |-> stamp]
  /\ writer' = NoSave
  /\ UNCHANGED <<service, app, ended, failures>>

AppEnd ==
  /\ app # "off" /\ app' = "off"
  /\ writer' = NoSave
  /\ UNCHANGED <<service, file, ended, failures>>

Expire ==
  /\ ~ ended /\ ended' = TRUE
  /\ UNCHANGED <<service, file, writer, app, failures>>

Next ==
  \/ Start \/ ServiceStep \/ Stop \/ Die
  \/ AppStart \/ SaveBegin \/ SaveEnd \/ AppEnd
  \/ Expire

Spec == Init /\ [][Next]_vars

\* The service, once started, runs.
FairSpec == Spec /\ WF_vars(ServiceStep)

-----------------------------------------------------------------------------
(* Properties. *)

InForce == filters \cup leftover

\* Whatever the service has in force comes from one state of the file, with the
\* rules that had not run out at one moment, also while it clears and after a
\* rebuild that failed half-way: except for a filter for each deletion that WFP
\* refused, which stays until the session ends.
OneState ==
  Cardinality(IF loaded = Missing THEN InForce ELSE InForce \ PolicyOf(loaded, moment))
    <= refused

\* Default deny does not cut off what the user has allowed: where a rebuild has
\* put it in force, the filters of every rule that has not run out are in force
\* too, also when WFP failed in the middle.  While the service clears, it does cut
\* it off (see CutOffEnds), and so may one that WFP refused to delete.
DenyKeepsAllowed ==
  at \notin {"clear", "stop"} =>
    \A l \in Layers :
      <<DefaultDeny, l>> \in filters =>
        \A r \in Active(loaded, TRUE) : l \in r.layers => <<r, l>> \in filters

\* Default deny in force, and a rule that should make an exception to it not.
CutOff ==
  loaded # Missing /\ \E l \in Layers :
    /\ <<DefaultDeny, l>> \in InForce
    /\ \E r \in Active(loaded, TRUE) :
         r.decision = "allow" /\ l \in r.layers /\ <<r, l>> \notin InForce

\* Each rebuild and each stop deletes the permits first and default deny last, and
\* in between cuts off what the user has allowed; but not for good, unless it is
\* a default deny that WFP refuses to delete.
CutOffEnds == CutOff ~> ~ CutOff \/ DenyFilters \cap leftover # {}

\* The same as DenyKeepsAllowed at every moment.
NeverCutOff == ~ CutOff

Enforces(c) == InForce = PolicyOf(c, moment)
Settled(c)  == at \notin {"off", "stop"} /\ file.body = c
Spoilt(c)   == \E over \in BOOLEAN : Active(c, over) \cap Broken # {}

\* "reloads `state.json', applies allow/block rules, and installs default-deny
\* outbound filters" (README.md): once a state stays in the file, it is in the
\* end what the service enforces, though saves race with loads and loads with
\* torn files, and whatever was in the file before; unless WFP failed the service
\* meanwhile, or one of its rules is broken.
PolicyCatchesUp ==
  \A c \in Contents :
    <>[] Settled(c) => <>[] (Enforces(c) \/ gaveUp \/ leftover # {} \/ Spoilt(c))

\* The same as PolicyCatchesUp without exceptions: failures are overcome.
PolicyEnforced ==
  \A c \in Contents : <>[] Settled(c) => <>[] Enforces(c)
=============================================================================
