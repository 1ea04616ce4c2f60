--------------------------- MODULE AppQuarantine ---------------------------
(***************************************************************************)
(* Prompts, rules and filters for applications (src-tauri/src/main.rs).    *)
(*                                                                         *)
(* Two observers, the consumer of captured events and the snapshotter of   *)
(* the connection table, run inspect_program; the ticker prunes timed      *)
(* rules; the UI thread runs one command at a time.  They share the rule   *)
(* maps, the pending prompts and app_blocks, each under a mutex of its     *)
(* own: a critical section is one action, with the firewall calls next to  *)
(* it where no other thread can tell, and between two of them anyone runs. *)
(*                                                                         *)
(* A rule's WFP identity is a function of its path.  Profiles and rule     *)
(* directions are left to the rule engine: here all rules are global and   *)
(* outbound.  A rule map is a sequence with one rule per storage key, the  *)
(* most recently updated last.                                             *)
(***************************************************************************)
EXTENDS Naturals, Sequences, FiniteSets

CONSTANTS Paths,      \* spellings of executables
          Apps,       \* executables, as WFP identifies them
          IdOf,       \* the app id of a path; two paths may share one
          Observers,  \* the threads that run inspect_program
          Sees,       \* how each spells what it sees, and by which protocols
          Targets,    \* remote addresses the user makes rules about
          Handles,    \* bound: filters that may exist at a time
          Commands,   \* the commands there are
          Seen,       \* the protocols of observed connections
          Schedules,  \* what may happen in a behaviour
          Nothing

Scopes    == {"all", "tcp", "udp"}
Decisions == {"allow", "quarantine"}
Rule   == [path : Paths, decision : Decisions, proto : Scopes,
           target : Targets \cup {"any"}, expires : {"never", "later", "due"}]
Filter == [app : Apps, proto : Scopes, target : Targets \cup {"any"}]

\* What a behaviour has of all this: whether nobody starts while another is at
\* work, the commands the user gives and how many (a bound), the scopes the
\* user picks, the protocols that are observed, and whether the firewall may
\* refuse to add a filter or to delete one.
Schedule == [serial : BOOLEAN, commands : SUBSET Commands, max : Nat,
             protocols : SUBSET Scopes, seen : SUBSET Seen,
             fwMayFail : BOOLEAN]

ASSUME QuarantineAssumption ==
  /\ IdOf \in [Paths -> Apps]
  /\ Seen \subseteq {"tcp", "udp"}
  /\ Sees \in [Observers -> SUBSET (Paths \X Seen)]
  /\ Schedules \subseteq Schedule
  /\ "unfiltered" \notin Handles
  /\ Nothing \notin Handles \cup {"unfiltered"} \cup Filter \cup Rule

VARIABLES programRules, \* Shared.program_rules
          sessionRules, \* Shared.session_program_rules
          pending,      \* Shared.pending_programs, by path: the filter each has
          appBlocks,    \* Shared.app_blocks, by runtime block key
          known,        \* Shared.known_apps
          filters,      \* kernel filters, by handle
          refused,      \* the filters that WFP would not delete (history)
          worker,       \* where each observer is in inspect_program
          ticker,       \* where the ticker is in prune_expired_rules
          ui,           \* where the UI thread is in a command
          schedule,     \* chosen at the start, never changed
          given,        \* commands given so far
          answered      \* the paths of the prompts that were answered (history)

commands == <<schedule, given, answered>>
rules == <<programRules, sessionRules>>
kernel == <<filters, refused>>
vars == <<programRules, sessionRules, pending, appBlocks, known, filters,
          refused, worker, ticker, ui, schedule, given, answered>>

Handle == Handles \cup {Nothing}

BlockKeys == {<<p>> : p \in Paths}
               \cup {<<p, s, t>> : p \in Paths, s \in Scopes, t \in Targets}

Idle   == [at |-> "idle", path |-> Nothing, rule |-> Nothing, handle |-> Nothing]
UiIdle == [at |-> "idle", cmd |-> "none", path |-> Nothing, rule |-> Nothing,
           keys |-> {}]
TickerIdle == [at |-> "idle", expired |-> {}]

TypeOK ==
  /\ programRules \in Seq(Rule) /\ sessionRules \in Seq(Rule)
  /\ pending \in [Paths -> Handle \cup {"unfiltered"}]
  /\ appBlocks \in [BlockKeys -> Handle]
  /\ known \subseteq Paths
  /\ filters \in [Handles -> Filter \cup {Nothing}]
  /\ refused \subseteq Handles
  /\ worker \in [Observers ->
       [at : {"idle", "matched", "install", "record", "ask", "blocked?",
              "filter", "prompt"},
        path : Paths \cup {Nothing}, rule : Rule \cup {Nothing}, handle : Handle]]
  /\ ticker \in [at : {"idle", "session", "unblock"},
                 expired : SUBSET (Rule \X BOOLEAN)]
  /\ ui \in [at : {"idle", "quarantine", "enforce", "session", "program",
                   "unblock", "free", "prompts"},
             cmd : {"none", "remember", "decide", "upsert", "remove", "import"},
             path : Paths \cup {Nothing}, rule : Rule \cup {Nothing},
             keys : SUBSET BlockKeys]
  /\ schedule \in Schedules /\ given \in 0 .. schedule.max
  /\ answered \subseteq Paths

-----------------------------------------------------------------------------
(* Rules. *)

BlockKey(r) == IF r.target = "any" THEN <<r.path>> ELSE <<r.path, r.proto, r.target>>
StorageKey(r) == <<r.path, r.proto, r.target>>
SameApp(p, q) == IdOf[p] = IdOf[q]

\* An observed connection: a path, a protocol ("all" asks for any) and a
\* remote address (Nothing when the lookup names none).
Matches(r, p, proto, remote) ==
  /\ SameApp(r.path, p)
  /\ r.proto = "all" \/ proto = "all" \/ r.proto = proto
  /\ r.target \in {"any", remote}
  /\ r.expires # "due"

\* rule_score: session and timed rules first, then rules about one target.
Precedence(r, isSession) ==
  IF isSession \/ r.expires # "never" THEN 1 ELSE IF r.target # "any" THEN 2 ELSE 3
TargetRank(r) == IF r.target # "any" THEN 0 ELSE 1

Better(q, i, j, isSession) ==
  LET pi == Precedence(q[i], isSession)  pj == Precedence(q[j], isSession)
      ti == TargetRank(q[i])             tj == TargetRank(q[j])
  IN \/ pi < pj
     \/ pi = pj /\ ti < tj
     \/ pi = pj /\ ti = tj /\ i > j

FindIn(q, p, proto, remote, isSession) ==
  LET fit == {i \in DOMAIN q : Matches(q[i], p, proto, remote)} IN
  IF fit = {} THEN Nothing
  ELSE q[CHOOSE i \in fit : \A j \in fit \ {i} : Better(q, i, j, isSession)]

\* find_program_rule_for: any session rule before any remembered one.
Find(p, proto, remote) ==
  LET session == FindIn(sessionRules, p, proto, remote, TRUE) IN
  IF session # Nothing THEN session
  ELSE FindIn(programRules, p, proto, remote, FALSE)

\* A map less some of its rules, the others in the order they had.
Without(q, gone) ==
  LET rest[i \in 0 .. Len(q)] ==
        IF i = 0 THEN <<>>
        ELSE IF q[i] \in gone THEN rest[i - 1] ELSE Append(rest[i - 1], q[i])
  IN rest[Len(q)]

\* HashMap::insert under the storage key, and the two ways to weed a map.
SameKey(r) == {other \in Rule : StorageKey(other) = StorageKey(r)}
Insert(q, r) == Append(Without(q, SameKey(r)), r)
WithoutIdentity(q, p) == Without(q, {r \in Rule : SameApp(r.path, p)})
WithoutPath(q, p)     == Without(q, {r \in Rule : r.path = p})

-----------------------------------------------------------------------------
(* The firewall. *)

Referenced(h) ==
  \/ \E k \in BlockKeys : appBlocks[k] = h
  \/ \E p \in Paths : pending[p] = h
  \/ \E w \in Observers : worker[w].handle = h

\* Handles are never reused; one that is neither live nor held by anybody
\* stands for a new one.
Free(h) == filters[h] = Nothing /\ ~ Referenced(h)
FilterForPath(r) == [app |-> r.path, proto |-> r.proto, target |-> r.target]  \* seeded fault
FilterFor(r) == [app |-> IdOf[r.path], proto |-> r.proto, target |-> r.target]
FwFails == schedule.fwMayFail \/ \A h \in Handles : ~ Free(h)

Removed(fs, h) == [g \in Handles |-> IF g = h THEN Nothing ELSE fs[g]]

\* WfpBackend::unblock, of a handle if h is one.  The backend forgets the
\* handle before WFP deletes the filter, and no caller looks at the outcome.
Deleted(fs, h) ==
  \/ filters' = Removed(fs, h) /\ UNCHANGED refused
  \/ /\ schedule.fwMayFail /\ h \in Handles
     /\ filters' = fs /\ refused' = refused \cup {h}

-----------------------------------------------------------------------------
Init ==
  /\ programRules = <<>> /\ sessionRules = <<>>
  /\ pending = [p \in Paths |-> Nothing]
  /\ appBlocks = [k \in BlockKeys |-> Nothing]
  /\ known = {}
  /\ filters = [h \in Handles |-> Nothing]
  /\ refused = {}
  /\ worker = [w \in Observers |-> Idle]
  /\ ticker = TickerIdle
  /\ ui = UiIdle
  /\ schedule \in Schedules /\ given = 0 /\ answered = {}

AllIdle == ui = UiIdle /\ ticker = TickerIdle /\ \A w \in Observers : worker[w] = Idle
MayStart == schedule.serial => AllIdle

(* inspect_program, by an observer. *)

\* remember_known_app, then the rule lookup.
Observe(w, p, proto, remote) ==
  LET r == Find(p, proto, remote) IN
  /\ worker[w] = Idle /\ MayStart
  /\ known' = known \cup {p}
  /\ worker' = [worker EXCEPT ![w] =
       IF r = Nothing THEN [Idle EXCEPT !.at = "ask", !.path = p]
       ELSE IF r.decision = "quarantine"
            THEN [Idle EXCEPT !.at = "matched", !.path = p, !.rule = r]
            ELSE Idle]
  /\ UNCHANGED <<rules, pending, appBlocks, kernel, ticker, ui, commands>>

\* A blocking rule applies: is its block in place?
CheckBlock(w) ==
  /\ worker[w].at = "matched"
  /\ worker' = [worker EXCEPT ![w] =
       IF appBlocks[BlockKey(worker[w].rule)] # Nothing
       THEN Idle ELSE [@ EXCEPT !.at = "install"]]
  /\ UNCHANGED <<rules, pending, appBlocks, known, kernel, ticker, ui, commands>>

\* The worker goes on with the filter it has made.
Holds(w, place, h) ==
  worker' = [worker EXCEPT ![w] =
    [at |-> place, path |-> worker[w].path, rule |-> worker[w].rule, handle |-> h]]

\* install_block_for_rule: the filter ...
InstallFilter(w) ==
  /\ worker[w].at = "install"
  /\ \/ \E h \in Handles :
          /\ Free(h)
          /\ filters' = [filters EXCEPT ![h] = FilterFor(worker[w].rule)]
          /\ Holds(w, "record", h)
     \/ /\ FwFails
        /\ worker' = [worker EXCEPT ![w] = Idle]
        /\ UNCHANGED filters
  /\ UNCHANGED <<rules, pending, appBlocks, known, refused, ticker, ui, commands>>

\* ... and its record, which frees the filter recorded there before.
RecordBlock(w) ==
  LET key == BlockKey(worker[w].rule) IN
  /\ worker[w].at = "record"
  /\ appBlocks' = [appBlocks EXCEPT ![key] = worker[w].handle]
  /\ Deleted(filters, appBlocks[key])
  /\ worker' = [worker EXCEPT ![w] = Idle]
  /\ UNCHANGED <<rules, pending, known, ticker, ui, commands>>

\* No rule: ask, unless the app is already asked about ...
CheckPending(w) ==
  /\ worker[w].at = "ask"
  /\ worker' = [worker EXCEPT ![w] =
       IF \E p \in Paths : SameApp(p, @.path) /\ pending[p] # Nothing
       THEN Idle ELSE [@ EXCEPT !.at = "blocked?"]]
  /\ UNCHANGED <<rules, pending, appBlocks, known, kernel, ticker, ui, commands>>

\* ... or blocked under this path.
CheckBlocked(w) ==
  /\ worker[w].at = "blocked?"
  /\ worker' = [worker EXCEPT ![w] =
       IF appBlocks[<<@.path>>] # Nothing THEN Idle ELSE [@ EXCEPT !.at = "filter"]]
  /\ UNCHANGED <<rules, pending, appBlocks, known, kernel, ticker, ui, commands>>

\* The temporary filter; a firewall error leaves the prompt without one.
TemporaryFilter(w) ==
  /\ worker[w].at = "filter"
  /\ \/ \E h \in Handles :
          /\ Free(h)
          /\ filters' = [filters EXCEPT ![h] =
               [app |-> IdOf[worker[w].path], proto |-> "all", target |-> "any"]]
          /\ Holds(w, "prompt", h)
     \/ /\ FwFails
        /\ Holds(w, "prompt", Nothing)
        /\ UNCHANGED filters
  /\ UNCHANGED <<rules, pending, appBlocks, known, refused, ticker, ui, commands>>

\* The prompt goes in whatever is there by now.
Prompt(w) ==
  LET h == worker[w].handle IN
  /\ worker[w].at = "prompt"
  /\ pending' = [pending EXCEPT ![worker[w].path] =
                   IF h = Nothing THEN "unfiltered" ELSE h]
  /\ worker' = [worker EXCEPT ![w] = Idle]
  /\ UNCHANGED <<rules, appBlocks, known, kernel, ticker, ui, commands>>

WorkerStep(w) ==
  \/ CheckBlock(w) \/ InstallFilter(w) \/ RecordBlock(w)
  \/ CheckPending(w) \/ CheckBlocked(w) \/ TemporaryFilter(w) \/ Prompt(w)

-----------------------------------------------------------------------------
(* Commands.  ui.cmd says how the rule in ui.rule is to be stored. *)

Command(c) ==
  /\ c \in schedule.commands
  /\ ui = UiIdle /\ MayStart
  /\ given < schedule.max /\ given' = given + 1
  /\ UNCHANGED schedule
Otherwise(c) == Command(c) /\ UNCHANGED answered

RuleOf(p, decision, proto, target, expires) ==
  [path |-> p, decision |-> decision, proto |-> proto, target |-> target,
   expires |-> expires]

\* Seeded fault: the temporary filter stays.
DecideOnly(p, decision, proto, cmd, expires) ==
  /\ Command("decide") /\ pending[p] # Nothing
  /\ cmd = "remember" => expires = "never"
  /\ pending' = [pending EXCEPT ![p] = Nothing] /\ answered' = answered \cup {p}
  /\ ui' = [UiIdle EXCEPT !.at = IF decision = "quarantine" THEN "quarantine" ELSE "session",
                          !.cmd = cmd, !.path = p,
                          !.rule = RuleOf(p, decision, proto, "any", expires)]
  /\ UNCHANGED <<rules, appBlocks, known, kernel, worker, ticker>>

\* decide_program, the answer to a prompt: the prompt and its filter go first.
\* The UI remembers a decision for good, or keeps it for the session, timed
\* or not.
Decide(p, decision, proto, cmd, expires) ==
  /\ Command("decide") /\ pending[p] # Nothing
  /\ cmd = "remember" => expires = "never"
  /\ pending' = [pending EXCEPT ![p] = Nothing] /\ answered' = answered \cup {p}
  /\ Deleted(filters, pending[p])
  /\ ui' = [UiIdle EXCEPT !.at = IF decision = "quarantine" THEN "quarantine" ELSE "session",
                          !.cmd = cmd, !.path = p,
                          !.rule = RuleOf(p, decision, proto, "any", expires)]
  /\ UNCHANGED <<rules, appBlocks, known, worker, ticker>>

\* The lasting filter; a record that was there is dropped with its handle.
DecideQuarantine ==
  /\ ui.at = "quarantine"
  /\ \/ \E h \in Handles :
          /\ Free(h)
          /\ filters' = [filters EXCEPT ![h] = FilterFor(ui.rule)]
          /\ appBlocks' = [appBlocks EXCEPT ![<<ui.path>>] = h]
          /\ ui' = [ui EXCEPT !.at = "session"]
     \/ /\ FwFails
        /\ ui' = UiIdle
        /\ UNCHANGED <<filters, appBlocks>>
  /\ UNCHANGED <<rules, pending, known, refused, worker, ticker, commands>>

\* The commands that set a rule enforce it before they store it.
Setting(p, cmd, r) ==
  ui' = [at |-> IF r.decision = "allow" THEN "unblock" ELSE "enforce",
         cmd |-> cmd, path |-> p, rule |-> r, keys |-> {}]

\* set_program_rule_decision, from the rule in force or a new one.
SetDecision(p, decision) ==
  LET found == Find(p, "all", Nothing) IN
  /\ Otherwise("set") /\ p \in known
  /\ Setting(p, "remember",
             IF found = Nothing THEN RuleOf(p, decision, "all", "any", "never")
             ELSE [found EXCEPT !.decision = decision, !.proto = "all"])
  /\ UNCHANGED <<rules, pending, appBlocks, known, kernel, worker, ticker>>

\* upsert_rule, which the UI uses to allow or block one remote address.
Upsert(p, decision, t) ==
  /\ Otherwise(IF decision = "allow" THEN "allowTarget" ELSE "blockTarget")
  /\ p \in known
  /\ Setting(p, "upsert", RuleOf(p, decision, "all", t, "never"))
  /\ UNCHANGED <<rules, pending, appBlocks, known, kernel, worker, ticker>>

Store == IF ui.cmd = "upsert" THEN "program" ELSE "session"

\* install_block_for_rule, by a command; when the firewall fails it stops.
Enforce ==
  LET key == BlockKey(ui.rule) IN
  /\ ui.at = "enforce"
  /\ \/ /\ \E h \in Handles :
             /\ Free(h)
             /\ Deleted([filters EXCEPT ![h] = FilterFor(ui.rule)], appBlocks[key])
             /\ appBlocks' = [appBlocks EXCEPT ![key] = h]
        /\ ui' = [ui EXCEPT !.at = Store]
     \/ /\ FwFails
        /\ ui' = UiIdle
        /\ UNCHANGED <<kernel, appBlocks>>
  /\ UNCHANGED <<rules, pending, known, worker, ticker, commands>>

\* remove_runtime_blocks_for_app: the keys recorded under this very path ...
FindBlocks ==
  /\ ui.at = "unblock"
  /\ ui' = [ui EXCEPT !.at = "free",
                      !.keys = {k \in BlockKeys : k[1] = ui.path /\ appBlocks[k] # Nothing}]
  /\ UNCHANGED <<rules, pending, appBlocks, known, kernel, worker, ticker, commands>>

\* Seeded faults: the record goes without its filter, the filter without its
\* record.
ForgetBlock ==
  /\ ui.at = "free"
  /\ \/ \E k \in ui.keys :
          /\ appBlocks' = [appBlocks EXCEPT ![k] = Nothing]
          /\ ui' = [ui EXCEPT !.keys = @ \ {k}]
     \/ /\ ui.keys = {}
        /\ ui' = IF ui.cmd = "remove" THEN UiIdle ELSE [ui EXCEPT !.at = Store]
        /\ UNCHANGED appBlocks
  /\ UNCHANGED <<rules, pending, known, kernel, worker, ticker, commands>>
UnfilterBlock ==
  /\ ui.at = "free"
  /\ \/ \E k \in ui.keys :
          /\ Deleted(filters, appBlocks[k])
          /\ ui' = [ui EXCEPT !.keys = @ \ {k}]
     \/ /\ ui.keys = {}
        /\ ui' = IF ui.cmd = "remove" THEN UiIdle ELSE [ui EXCEPT !.at = Store]
        /\ UNCHANGED kernel
  /\ UNCHANGED <<rules, pending, appBlocks, known, worker, ticker, commands>>

\* ... and, one by one, whatever is recorded under each by then.
FreeBlock ==
  /\ ui.at = "free"
  /\ \/ \E k \in ui.keys :
          /\ appBlocks' = [appBlocks EXCEPT ![k] = Nothing]
          /\ Deleted(filters, appBlocks[k])
          /\ ui' = [ui EXCEPT !.keys = @ \ {k}]
     \/ /\ ui.keys = {}
        /\ ui' = IF ui.cmd = "remove" THEN UiIdle ELSE [ui EXCEPT !.at = Store]
        /\ UNCHANGED <<kernel, appBlocks>>
  /\ UNCHANGED <<rules, pending, known, worker, ticker, commands>>

\* The session map forgets the app; a session decision is stored here.
StoreSession ==
  LET rest == WithoutIdentity(sessionRules, ui.rule.path) IN
  /\ ui.at = "session"
  /\ IF ui.cmd = "remember"
     THEN sessionRules' = rest /\ ui' = [ui EXCEPT !.at = "program"]
     ELSE sessionRules' = Insert(rest, ui.rule) /\ ui' = UiIdle
  /\ UNCHANGED <<programRules, pending, appBlocks, known, kernel, worker,
                 ticker, commands>>

StoreProgram ==
  /\ ui.at = "program"
  /\ programRules' = Insert(IF ui.cmd = "remember"
                            THEN WithoutIdentity(programRules, ui.rule.path)
                            ELSE programRules, ui.rule)
  /\ ui' = UiIdle
  /\ UNCHANGED <<sessionRules, pending, appBlocks, known, kernel, worker,
                 ticker, commands>>

\* set_timed_decision, which the UI uses to allow for a while.
AllowForAWhile(p) ==
  /\ Otherwise("timed") /\ p \in known
  /\ sessionRules' = Insert(sessionRules, RuleOf(p, "allow", "all", "any", "later"))
  /\ UNCHANGED <<programRules, pending, appBlocks, known, kernel, worker,
                 ticker, ui>>

\* remove_program_rule, which the UI offers for what has a rule or a block:
\* both maps, then the blocks.
RemoveApp(p) ==
  /\ Otherwise("remove")
  /\ \/ \E q \in {programRules, sessionRules} : \E i \in DOMAIN q : q[i].path = p
     \/ \E k \in BlockKeys : k[1] = p /\ appBlocks[k] # Nothing
  /\ programRules' = WithoutPath(programRules, p)
  /\ ui' = [UiIdle EXCEPT !.at = "session", !.cmd = "remove", !.path = p]
  /\ UNCHANGED <<sessionRules, pending, appBlocks, known, kernel, worker, ticker>>

RemoveAppSession ==
  /\ ui.at = "session" /\ ui.cmd = "remove"
  /\ sessionRules' = WithoutPath(sessionRules, ui.path)
  /\ ui' = [ui EXCEPT !.at = "unblock"]
  /\ UNCHANGED <<programRules, pending, appBlocks, known, kernel, worker,
                 ticker, commands>>

\* remove_rule: the rule by its key, remembered rather than session, then
\* every block of its path.
RemoveRule(r) ==
  LET inProgram == \E i \in DOMAIN programRules : programRules[i] \in SameKey(r) IN
  /\ Otherwise("removeRule")
  /\ IF inProgram
     THEN programRules' = Without(programRules, SameKey(r)) /\ UNCHANGED sessionRules
     ELSE sessionRules' = Without(sessionRules, SameKey(r)) /\ UNCHANGED programRules
  /\ ui' = [UiIdle EXCEPT !.at = "unblock", !.cmd = "remove", !.path = r.path]
  /\ UNCHANGED <<pending, appBlocks, known, kernel, worker, ticker>>

\* import_state, of a file with at most one remembered rule: new rules, then no
\* session rules, then no prompts; filters and blocks stay as they are.
Import(imported) ==
  /\ Otherwise("import")
  /\ programRules' = imported
  /\ ui' = [UiIdle EXCEPT !.at = "session", !.cmd = "import"]
  /\ UNCHANGED <<sessionRules, pending, appBlocks, known, kernel, worker, ticker>>

ImportSession ==
  /\ ui.at = "session" /\ ui.cmd = "import"
  /\ sessionRules' = <<>>
  /\ ui' = [ui EXCEPT !.at = "prompts"]
  /\ UNCHANGED <<programRules, pending, appBlocks, known, kernel, worker,
                 ticker, commands>>

ImportPrompts ==
  /\ ui.at = "prompts"
  /\ pending' = [p \in Paths |-> Nothing]
  /\ ui' = UiIdle
  /\ UNCHANGED <<rules, appBlocks, known, kernel, worker, ticker, commands>>

StartCommand ==
  \E p \in Paths :
    \/ \E d \in Decisions, s \in schedule.protocols, c \in {"remember", "decide"},
          e \in {"never", "later"} : Decide(p, d, s, c, e)
    \/ \E d \in Decisions : SetDecision(p, d) \/ \E t \in Targets : Upsert(p, d, t)
    \/ AllowForAWhile(p)
    \/ RemoveApp(p)
    \/ \E q \in {programRules, sessionRules} : \E i \in DOMAIN q : RemoveRule(q[i])
    \/ \E q \in {<<>>} \cup {<<RuleOf(p, d, "all", "any", "never")>> : d \in Decisions} :
          Import(q)

StoreDecision == ui.cmd \notin {"remove", "import"} /\ StoreSession

UiStep ==
  \/ DecideQuarantine \/ Enforce \/ FindBlocks \/ FreeBlock
  \/ StoreDecision \/ StoreProgram \/ RemoveAppSession
  \/ ImportSession \/ ImportPrompts

-----------------------------------------------------------------------------
(* The ticker. *)

\* The rules that are due, with the map they were in.
Due(q, isSession) ==
  {<<q[i], isSession>> : i \in {j \in DOMAIN q : q[j].expires = "due"}}
NotDue(q) == Without(q, {r \in Rule : r.expires = "due"})
NoneDue   == Due(programRules, FALSE) \cup Due(sessionRules, TRUE) = {}

\* prune_expired_rules: the remembered rules ...
PruneProgram ==
  /\ ticker = TickerIdle /\ MayStart
  /\ ~ NoneDue
  /\ programRules' = NotDue(programRules)
  /\ ticker' = [at |-> "session", expired |-> Due(programRules, FALSE)]
  /\ UNCHANGED <<sessionRules, pending, appBlocks, known, kernel, worker, ui,
                 commands>>

\* ... the session rules ...
PruneSession ==
  /\ ticker.at = "session"
  /\ sessionRules' = NotDue(sessionRules)
  /\ ticker' = [at |-> "unblock", expired |-> ticker.expired \cup Due(sessionRules, TRUE)]
  /\ UNCHANGED <<programRules, pending, appBlocks, known, kernel, worker, ui,
                 commands>>

\* Seeded fault: the record of a block outlives it.
PruneFilter ==
  /\ ticker.at = "unblock"
  /\ \/ \E e \in ticker.expired :
          /\ Deleted(filters, appBlocks[BlockKey(e[1])])
          /\ ticker' = [ticker EXCEPT !.expired = @ \ {e}]
     \/ /\ ticker.expired = {}
        /\ ticker' = TickerIdle
        /\ UNCHANGED kernel
  /\ UNCHANGED <<rules, pending, appBlocks, known, worker, ui, commands>>

\* ... and, one by one, the block recorded under the key of each.
PruneBlock ==
  /\ ticker.at = "unblock"
  /\ \/ \E e \in ticker.expired :
          LET key == BlockKey(e[1]) IN
          /\ appBlocks' = [appBlocks EXCEPT ![key] = Nothing]
          /\ Deleted(filters, appBlocks[key])
          /\ ticker' = [ticker EXCEPT !.expired = @ \ {e}]
     \/ /\ ticker.expired = {}
        /\ ticker' = TickerIdle
        /\ UNCHANGED <<appBlocks, kernel>>
  /\ UNCHANGED <<rules, pending, known, worker, ui, commands>>

TickerStep == PruneProgram \/ PruneSession \/ PruneBlock

\* Time passes: the end of a timed rule comes.  The ticker goes by the time
\* it read first, so what ends while it is in the maps waits for its next turn.
Expire ==
  LET Ended(q, i) == [q EXCEPT ![i].expires = "due"] IN
  /\ ticker.at # "session"
  /\ \/ \E i \in DOMAIN programRules :
          /\ programRules[i].expires = "later"
          /\ programRules' = Ended(programRules, i) /\ UNCHANGED sessionRules
     \/ \E i \in DOMAIN sessionRules :
          /\ sessionRules[i].expires = "later"
          /\ sessionRules' = Ended(sessionRules, i) /\ UNCHANGED programRules
  /\ UNCHANGED <<pending, appBlocks, known, kernel, worker, ticker, ui, commands>>

SomeObservation(w) ==
  \E seen \in Sees[w], t \in Targets \cup {Nothing} :
    seen[2] \in schedule.seen /\ Observe(w, seen[1], seen[2], t)

Next ==
  \/ \E w \in Observers : SomeObservation(w) \/ WorkerStep(w)
  \/ StartCommand
  \/ UiStep
  \/ TickerStep
  \/ Expire

Spec == Init /\ [][Next]_vars

\* The threads run; the user need not act, but an application goes on trying.
Fairness ==
  /\ \A w \in Observers : WF_vars(WorkerStep(w))
  /\ \A w \in Observers, p \in Paths, s \in Seen, t \in Targets \cup {Nothing} :
       SF_vars(<<p, s>> \in Sees[w] /\ s \in schedule.seen /\ Observe(w, p, s, t))
  /\ WF_vars(UiStep) /\ SF_vars(PruneProgram) /\ WF_vars(PruneSession \/ PruneBlock)

FairSpec == Spec /\ Fairness

-----------------------------------------------------------------------------
(* Properties. *)

Covers(f, p, proto, remote) ==
  /\ f # Nothing
  /\ f.app = IdOf[p] /\ f.proto \in {"all", proto} /\ f.target \in {"any", remote}
Blocked(p, proto, remote) == \E h \in Handles : Covers(filters[h], p, proto, remote)
BelongsToPrompt(h) == \E q \in Paths : pending[q] = h
RuleSays(p, proto, remote, decision) ==
  LET r == Find(p, proto, remote) IN r # Nothing /\ r.decision = decision

\* Every record is of a live filter on its own app, and no filter is on record
\* twice: no thread ever removes a filter that another relies on.
RecordsLive ==
  /\ \A k \in BlockKeys : appBlocks[k] # Nothing =>
       filters[appBlocks[k]] # Nothing /\ filters[appBlocks[k]].app = IdOf[k[1]]
  /\ \A p \in Paths : pending[p] \in Handles =>
       filters[pending[p]] # Nothing /\ filters[pending[p]].app = IdOf[p]
  /\ \A k, l \in BlockKeys : appBlocks[k] = appBlocks[l] => k = l \/ appBlocks[k] = Nothing
  /\ \A p \in Paths, k \in BlockKeys : pending[p] = appBlocks[k] => pending[p] = Nothing

\* No filter outlives its record while activities follow one another, but one
\* that WFP would not delete: whoever blocked an app, the blocks on record and
\* the prompts are all there is to undo (decide_program,
\* remove_runtime_blocks_for_app, prune_expired_rules).
NoStrayFilter ==
  schedule.serial => \A h \in Handles \ refused : filters[h] # Nothing => Referenced(h)

\* "Allow: let it connect" (README.md): when all is quiet, no filter blocks a
\* connection that the rule in force allows, but for that of an open prompt.
AllowedConnects ==
  AllIdle /\ NoneDue =>
    \A p \in Paths, s \in schedule.seen, t \in Targets \cup {Nothing}, h \in Handles :
      RuleSays(p, s, t, "allow") /\ Covers(filters[h], p, s, t) => BelongsToPrompt(h)

\* The same while activities follow one another, for an app whose prompts were
\* answered under one spelling, but for what WFP would not delete: decide_program,
\* remove_rule and remove_program_rule undo together what was blocked before.
\* Blocks are freed by path, while rules are found and weeded by identity, so that
\* an answer under another spelling leaves a block behind.
AnsweredAsOne(p) == \A q, r \in answered : SameApp(q, p) /\ SameApp(r, p) => q = r
AllowedConnectsSerially ==
  schedule.serial /\ AllIdle /\ NoneDue =>
    \A p \in Paths, s \in schedule.seen, t \in Targets \cup {Nothing},
       h \in Handles \ refused :
      AnsweredAsOne(p) /\ RuleSays(p, s, t, "allow") /\ Covers(filters[h], p, s, t) =>
        BelongsToPrompt(h)

\* A connection that the rule in force quarantines is blocked sooner or later,
\* if the app goes on trying and the rule stays.
QuarantineEnforced ==
  \A p \in Paths, s \in Seen, t \in Targets \cup {Nothing} :
    s \in schedule.seen /\ RuleSays(p, s, t, "quarantine") ~>
      Blocked(p, s, t) \/ ~ RuleSays(p, s, t, "quarantine")
=============================================================================
