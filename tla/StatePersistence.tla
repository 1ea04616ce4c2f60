-------------------------- MODULE StatePersistence --------------------------
(***************************************************************************)
(* The state file (src-tauri/src/settings.rs) and the threads that save to *)
(* it (Shared::save and its callers in src-tauri/src/main.rs).             *)
(*                                                                         *)
(* The UI thread, the ticker and the observers change what is in memory    *)
(* and save it, each as a sequence of steps: a critical section, or one of *)
(* the three parts of a save.  A save copies the four maps under all their *)
(* mutexes at once, but it truncates and writes the file under none.  The  *)
(* program may end at any point; the next one loads what is there.         *)
(*                                                                         *)
(* Of a rule only its presence is kept, of the notifications how many      *)
(* there have been.                                                        *)
(***************************************************************************)
EXTENDS Naturals, Sequences, FiniteSets

CONSTANTS Rules,       \* rules that may be remembered
          Timed,       \* those with an end
          Home,        \* DEFAULT_PROFILE_ID
          Profiles, DefaultProfiles,
          Imports,     \* states the user may import
          Observers,   \* threads that only record notifications
          Empty, Torn, Missing,  \* a file without a state in it
          MaxJobs,     \* bound: activities begun
          MaxFailures, \* bound: saves that fail
          MaxRestarts  \* bound: ends of the program

Content == [rules : SUBSET Rules, profile : Profiles,
            profiles : SUBSET Profiles, notes : Nat]
NoState == {Empty, Torn, Missing}

ASSUME PersistenceAssumption ==
  /\ IsFiniteSet(Rules) /\ Timed \subseteq Rules
  /\ Home \in DefaultProfiles /\ DefaultProfiles \subseteq Profiles
  /\ Imports \subseteq Content
  /\ NoState \cap Content = {} /\ {"ui", "ticker"} \cap Observers = {}
  /\ MaxJobs \in Nat /\ MaxFailures \in Nat /\ MaxRestarts \in Nat

Threads == {"ui", "ticker"} \cup Observers

VARIABLES mem,      \* program_rules, active_profile_id, profiles, notifications
          file,     \* state.json
          todo,     \* what each thread has still to do
          at,       \* where it is in a save
          copy,     \* the state it is saving
          solo,     \* history: no other save has met the one last begun
          fileIs,   \* history: what the last save left (see below)
          kept,     \* history: rules the user was told are remembered
          gone,     \* history: rules the user was told are removed
          jobs, failures, restarts

vars == <<mem, file, todo, at, copy, solo, fileIs, kept, gone, jobs, failures,
          restarts>>
told == <<kept, gone>>

\* A step of a thread.
Step(op, arg) == [op |-> op, arg |-> arg]
Changes == {"put", "drop", "note", "profile", "rules", "profiles", "notes"}
\* "must" is a save whose error ends the command, "save" one whose error is
\* ignored; "kept" and "gone" are the command's answer to the user.
Steps ==
  [op : {"put", "drop", "rules", "kept", "gone"}, arg : SUBSET Rules]
    \cup [op : {"profile"}, arg : Profiles]
    \cup [op : {"profiles"}, arg : SUBSET Profiles]
    \cup [op : {"notes"}, arg : Nat]
    \cup [op : {"note", "must", "save"}, arg : {0}]

TypeOK ==
  /\ mem \in Content
  /\ file \in Content \cup NoState
  /\ todo \in [Threads -> Seq(Steps)]
  /\ at \in [Threads -> {"run", "open", "write"}]
  /\ copy \in [Threads -> Content]
  /\ solo \in BOOLEAN
  /\ fileIs \in {"whole", "stale", "unsure"}
  /\ kept \subseteq Rules /\ gone \subseteq Rules
  /\ jobs \in 0 .. MaxJobs /\ failures \in 0 .. MaxFailures
  /\ restarts \in 0 .. MaxRestarts

-----------------------------------------------------------------------------
(* Loading. *)

DefaultState == [rules |-> {}, profile |-> Home, profiles |-> DefaultProfiles,
                 notes |-> 0]

\* normalize_state, of what is modelled here.
Normal(c) ==
  LET ps == IF c.profiles = {} THEN DefaultProfiles ELSE c.profiles
  IN [c EXCEPT !.profiles = ps, !.profile = IF @ \in ps THEN @ ELSE Home]

\* Seeded faults: a file that cannot be read is handed on; the profile of the
\* file is taken as it is.
LoadAsIs(f) == IF f \in NoState THEN f ELSE Normal(f)
LoadUnchecked(f) == IF f \in NoState THEN DefaultState ELSE f

\* load: a file that does not parse counts for nothing.
Load(f) == Normal(IF f \in NoState THEN DefaultState ELSE f)

-----------------------------------------------------------------------------
Init ==
  /\ file = Missing /\ mem = DefaultState
  /\ todo = [t \in Threads |-> <<>>]
  /\ at = [t \in Threads |-> "run"]
  /\ copy = [t \in Threads |-> DefaultState]
  /\ solo = TRUE /\ fileIs = "whole"
  /\ kept = {} /\ gone = {}
  /\ jobs = 0 /\ failures = 0 /\ restarts = 0

\* What a step leaves in memory.
Effect(s, m) ==
  CASE s.op = "put"      -> [m EXCEPT !.rules = @ \cup s.arg]
    [] s.op = "drop"     -> [m EXCEPT !.rules = @ \ s.arg]
    [] s.op = "rules"    -> [m EXCEPT !.rules = s.arg]
    [] s.op = "profile"  -> [m EXCEPT !.profile = s.arg]
    [] s.op = "profiles" -> [m EXCEPT !.profiles = s.arg]
    [] s.op = "notes"    -> [m EXCEPT !.notes = s.arg]
    [] s.op = "note"     -> [m EXCEPT !.notes = @ + 1]

\* A rule that is in memory no more is not promised any longer, nor is the
\* absence of one that is there again.
Make(s) ==
  /\ mem' = Effect(s, mem)
  /\ kept' = kept \cap mem'.rules /\ gone' = gone \ mem'.rules

\* A thread with nothing to do begins: its first critical section, and what
\* follows.
Begin(t, first, rest) ==
  /\ todo[t] = <<>> /\ jobs < MaxJobs
  /\ jobs' = jobs + 1
  /\ Make(first)
  /\ todo' = [todo EXCEPT ![t] = rest]
  /\ UNCHANGED <<file, at, copy, solo, fileIs, failures, restarts>>

Note == Step("note", 0)
Must == Step("must", 0)
Save == Step("save", 0)

\* push_notification
NoteOnly == <<Note>>       \* seeded fault: it does not save
Push == <<Note, Save>>
Pushes(n) == [i \in 1 .. n * Len(Push) |-> Push[((i - 1) % Len(Push)) + 1]]

\* Seeded fault: the answer does not wait for the save.
StoreAnswerFirst(answer, push) == <<answer, Must>> \o push
Store(answer, push) == <<Must>> \o push \o <<answer>>

(* The commands, on the UI thread. *)

\* decide_program and upsert_rule record a notification when they have saved,
\* set_program_rule_decision does not.
Remember(r) ==
  \E push \in {Push, <<>>} :
    Begin("ui", Step("put", {r}), Store(Step("kept", {r}), push))

\* remove_rule, of a rule that is there, and remove_program_rule.
RemoveRule(r) ==
  /\ r \in mem.rules
  /\ Begin("ui", Step("drop", {r}), Store(Step("gone", {r}), Push))
RemoveProgramRule(r) ==
  Begin("ui", Step("drop", {r}), Store(Step("gone", {r}), <<>>))

\* set_active_profile, of a profile that exists, and set_app_settings, for
\* which the page takes the profile from the list it shows.
SetActiveProfile(p) ==
  /\ p \in mem.profiles
  /\ \E push \in {Push, <<>>} : Begin("ui", Step("profile", p), <<Must>> \o push)

\* import_state: four maps, one after the other.
ImportState(imported) ==
  LET c == Normal(imported) IN
  Begin("ui", Step("profile", c.profile),
        <<Step("rules", c.rules), Step("profiles", c.profiles), Step("notes", c.notes)>>
          \o Store(Step("kept", c.rules), Push))

\* install_service and start_service save before they act.
SaveForService ==
  Begin("ui", Step("put", {}), <<Must>> \o Push)

(* The other threads. *)

\* prune_expired_rules: the remembered rules that are due go together, and so
\* may one of the session; each has its notification; then it saves once more.
Prune(due, session) ==
  /\ due \subseteq mem.rules \cap Timed
  /\ \/ due # {} \/ session
  /\ Begin("ticker", Step("drop", due),
           Pushes(Cardinality(due) + (IF session THEN 1 ELSE 0)) \o <<Save>>)

\* inspect_program shows a prompt; commands that change nothing that is saved.
Notify(t) == t # "ticker" /\ Begin(t, Note, <<Save>>)

-----------------------------------------------------------------------------
(* The steps. *)

Next1(t) == Head(todo[t])
Ready(t, ops) == /\ todo[t] # <<>> /\ Next1(t).op \in ops
                 /\ at[t] = "run"
Done(t) == todo' = [todo EXCEPT ![t] = Tail(@)]

Change(t) ==
  /\ Ready(t, Changes)
  /\ Make(Next1(t))
  /\ Done(t)
  /\ UNCHANGED <<file, at, copy, solo, fileIs, jobs, failures, restarts>>

\* A command returns, and the page shows what it was asked for.
Answer(t) ==
  /\ Ready(t, {"kept", "gone"})
  /\ IF Next1(t).op = "kept"
     THEN kept' = kept \cup (Next1(t).arg \cap mem.rules) /\ UNCHANGED gone
     ELSE gone' = gone \cup (Next1(t).arg \ mem.rules) /\ UNCHANGED kept
  /\ Done(t)
  /\ UNCHANGED <<mem, file, at, copy, solo, fileIs, jobs, failures, restarts>>

\* Shared::save: all four guards live to the end of the statement that copies.
Copy(t) ==
  /\ Ready(t, {"must", "save"})
  /\ copy' = [copy EXCEPT ![t] = mem]
  /\ at' = [at EXCEPT ![t] = "open"]
  /\ solo' = (\A u \in Threads : at[u] = "run")
  /\ UNCHANGED <<mem, file, todo, fileIs, told, jobs, failures, restarts>>

\* An error ends a command that has not answered yet, or is ignored.
Fail(t) ==
  /\ failures < MaxFailures /\ failures' = failures + 1
  /\ at' = [at EXCEPT ![t] = "run"]
  /\ todo' = [todo EXCEPT ![t] = IF Next1(t).op = "must" THEN <<>> ELSE Tail(@)]

\* fs::write opens and truncates ...
Open(t) ==
  /\ at[t] = "open"
  /\ \/ /\ file' = Empty /\ fileIs' = "unsure"
        /\ at' = [at EXCEPT ![t] = "write"]
        /\ UNCHANGED <<todo, failures>>
     \/ /\ Fail(t)
        /\ fileIs' = IF fileIs = "unsure" THEN fileIs ELSE "stale"
        /\ UNCHANGED file
  /\ UNCHANGED <<mem, copy, solo, told, jobs, restarts>>

\* ... and writes from the start.  Over a text that another save has put there
\* meanwhile, a shorter one leaves the end of the longer.
Overlay(f, c) == IF f \in {Empty, c} THEN {c} ELSE {c, Torn}

Write(t) ==
  /\ at[t] = "write"
  /\ \/ /\ file' \in Overlay(file, copy[t])
        /\ fileIs' = IF solo THEN "whole" ELSE "unsure"
        /\ at' = [at EXCEPT ![t] = "run"]
        /\ Done(t)
        /\ UNCHANGED failures
     \/ /\ Fail(t)
        /\ file' \in {file, Torn}
        /\ fileIs' = "unsure"
  /\ UNCHANGED <<mem, copy, solo, told, jobs, restarts>>

\* The program ends, wherever its threads are, and is started again.  What the
\* user was told counts no more after an end that left the file in doubt.
Restart ==
  /\ restarts < MaxRestarts /\ restarts' = restarts + 1
  /\ mem' = Load(file)
  /\ todo' = [t \in Threads |-> <<>>]
  /\ at' = [t \in Threads |-> "run"]
  /\ solo' = TRUE /\ fileIs' = "whole"
  /\ IF fileIs = "unsure" THEN kept' = {} /\ gone' = {} ELSE UNCHANGED told
  /\ UNCHANGED <<file, copy, jobs, failures>>

Command ==
  \/ \E r \in Rules : Remember(r) \/ RemoveRule(r) \/ RemoveProgramRule(r)
  \/ \E p \in Profiles : SetActiveProfile(p)
  \/ \E c \in Imports : ImportState(c)
  \/ SaveForService

Next ==
  \/ Command
  \/ \E due \in SUBSET Timed, session \in BOOLEAN : Prune(due, session)
  \/ \E t \in Threads : \/ Notify(t) \/ Change(t) \/ Answer(t)
                        \/ Copy(t) \/ Open(t) \/ Write(t)
  \/ Restart

Spec == Init /\ [][Next]_vars

-----------------------------------------------------------------------------
(* Properties. *)

\* The history of the file: "whole" when the save that was last to finish met
\* no other between its copy and its write, "stale" when later ones could not
\* open the file, "unsure" while one writes, after one has failed to, and
\* after saves that met.

Quiet == \A t \in Threads : todo[t] = <<>>

\* When nobody has anything left to do, the file holds what is in memory:
\* whoever changes the rules, the profile or the notifications saves after the
\* change, and what a start makes of the file agrees with the file
\* (Shared::save and all its callers).
SavedWhenQuiet == Quiet /\ fileIs = "whole" => Load(file) = mem

\* What the user was told lasts: a rule whose command returned is found by the
\* next start, and one whose removal returned is not, until the user or the
\* ticker changes it again, also after saves that could not open the file.
ToldSurvives ==
  fileIs # "unsure" =>
    kept \subseteq Load(file).rules /\ gone \cap Load(file).rules = {}

\* What the code does not promise: the same of every save, and of every end.
FileFollows  == Quiet => Load(file) = mem
NothingLost  == kept \subseteq Load(file).rules

\* But for the middle of an import, the active profile is one that exists or the
\* one every fallback names, also after a start from a file that was saved in the
\* middle of an import: inspect_program looks the active profile up to decide
\* about default deny.
Importing == \E i \in DOMAIN todo["ui"] : todo["ui"][i].op = "profiles"
ActiveKnown == ~ Importing => mem.profile \in mem.profiles \cup {Home}

\* What the code does not promise: normalize_state falls back to the profile
\* "home" without a look at whether the list has it.
ActiveExists == ~ Importing => mem.profile \in mem.profiles
=============================================================================
