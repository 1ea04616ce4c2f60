---------------------------- MODULE SharedLocks ----------------------------
(***************************************************************************)
(* Who holds which mutex of Shared while asking for which other            *)
(* (src-tauri/src/main.rs).  Four threads take the mutexes: the consumer   *)
(* of captured events, the snapshotter, the ticker and the UI thread.      *)
(*                                                                         *)
(* A task is a stretch of code that starts and ends with no mutex held; a  *)
(* thread does one task after another, in any order.  In a task, `use' is  *)
(* a critical section that asks for nothing more, hence one step; `lock'   *)
(* and `unlock' enclose what happens under a mutex held for longer.  A     *)
(* guard that is a temporary lives until the end of its statement, or of   *)
(* the whole `if let', as Rust 2021 has it.                                *)
(***************************************************************************)
EXTENDS Naturals, Sequences

CONSTANTS Threads,      \* the threads that run
          RemovesRules  \* whether the user calls remove_rule

ASSUME LocksAssumption ==
  /\ Threads \subseteq {"consumer", "snapshotter", "ticker", "ui"}
  /\ RemovesRules \in BOOLEAN

VARIABLES owner,  \* the thread that holds each mutex, or "nobody"
          todo    \* what is left of each thread's task

vars == <<owner, todo>>

Mutexes == {"engine", "metrics", "talkers", "enforced", "settings", "program",
            "session", "profiles", "notifications", "pending", "blocks", "known",
            "handles", "filters"}     \* the last two are WindowsFirewall's

Op == [do : {"use", "lock", "unlock"}, mutex : Mutexes]

\* A mutex that is held will be let go of by its holder's own task.
TypeOK ==
  /\ owner \in [Mutexes -> Threads \cup {"nobody"}]
  /\ todo \in [Threads -> Seq(Op)]
  /\ \A m \in Mutexes : owner[m] # "nobody" =>
       \E i \in DOMAIN todo[owner[m]] :
          todo[owner[m]][i] = [do |-> "unlock", mutex |-> m]

Use(m) == <<[do |-> "use", mutex |-> m]>>
HoldForGood(m, inner) == <<[do |-> "lock", mutex |-> m]>> \o inner  \* seeded fault
Hold(m, inner) == <<[do |-> "lock", mutex |-> m]>> \o inner
                    \o <<[do |-> "unlock", mutex |-> m]>>

-----------------------------------------------------------------------------
(* The tasks. *)

\* Shared::save and export_state: one expression, four guards.
Save == Hold("settings", Hold("program", Hold("profiles", Use("notifications"))))

\* Seeded fault: saved under the guard of the history.
PushUnderGuard == Hold("notifications", Save)

\* push_notification: the history is let go of before it is saved.
PushNotification == Use("notifications") \o Save

\* find_program_rule_for: `or_else' runs under the guard of the session rules.
Find == Use("settings") \o Hold("session", Use("program"))

\* WindowsFirewall's block_* and unblock.
FwAdd    == Hold("handles", Use("filters"))
FwRemove == Use("filters")

\* install_block_for_rule; remove_runtime_blocks_for_app and the ticker free a
\* block in the same way: the firewall is called under the guard of app_blocks.
FreeBlock    == Hold("blocks", FwRemove)
InstallBlock == FwAdd \o FreeBlock

\* quarantine_snapshot and state_snapshot, all of it under the engine's mutex.
QuarantineSnapshot == Hold("blocks", Use("program")) \o Use("pending")
StateSnapshot ==
  Hold("engine", Use("pending") \o Use("program") \o Use("session")
                   \o Use("settings") \o Use("profiles") \o Use("settings")
                   \o QuarantineSnapshot \o Use("notifications"))

\* remove_rule: `or_else' runs under the guard of the remembered rules.
RemoveRule == Hold("program", Use("session"))

InspectProgram == {Use("known"), Find, Use("blocks"), InstallBlock,
                   Use("settings"), Use("profiles"), Use("pending"), FwAdd,
                   PushNotification}
Consumer == InspectProgram
  \cup {Use("engine"), Hold("enforced", FwAdd), Use("metrics"), Use("talkers"),
        Use("program")}
Snapshotter == InspectProgram \cup {Use("program"), Use("session")}

\* prune_expired_rules goes through both maps, one guard at a time.
Prune == Use("program") \o Use("session")

\* Seeded fault: the metrics locked once more by the time the tick is built.
BuildTickTwice == Use("engine") \o Hold("metrics", Use("talkers") \o Use("metrics"))
BuildTick == Hold("engine", Hold("metrics", Use("talkers")))

Ticker == {Prune, FreeBlock, PushNotification, Save, Hold("enforced", FwRemove),
           BuildTick}

Ui == {StateSnapshot, Find, InstallBlock, FreeBlock, FwAdd, FwRemove,
       Hold("enforced", FwRemove), PushNotification, Save}
        \cup {Use(m) : m \in {"engine", "settings", "program", "session",
                              "profiles", "notifications", "pending", "blocks",
                              "known"}}
        \cup (IF RemovesRules THEN {RemoveRule} ELSE {})

Tasks == [consumer |-> Consumer, snapshotter |-> Snapshotter,
          ticker |-> Ticker, ui |-> Ui]

-----------------------------------------------------------------------------
Init == /\ owner = [m \in Mutexes |-> "nobody"]
        /\ todo = [t \in Threads |-> <<>>]

Begin(t) ==
  /\ todo[t] = <<>>
  /\ \E task \in Tasks[t] : todo' = [todo EXCEPT ![t] = task]
  /\ UNCHANGED owner

Done(t) == todo' = [todo EXCEPT ![t] = Tail(@)]
Next1(t, do) == todo[t] # <<>> /\ Head(todo[t]).do = do

UseMutex(t) ==
  /\ Next1(t, "use") /\ owner[Head(todo[t]).mutex] = "nobody"
  /\ Done(t)
  /\ UNCHANGED owner

LockMutex(t) ==
  /\ Next1(t, "lock") /\ owner[Head(todo[t]).mutex] = "nobody"
  /\ owner' = [owner EXCEPT ![Head(todo[t]).mutex] = t]
  /\ Done(t)

UnlockMutex(t) ==
  /\ Next1(t, "unlock")
  /\ owner' = [owner EXCEPT ![Head(todo[t]).mutex] = "nobody"]
  /\ Done(t)

Step(t) == UseMutex(t) \/ LockMutex(t) \/ UnlockMutex(t)

Next == \E t \in Threads : Begin(t) \/ Step(t)

Spec == Init /\ [][Next]_vars

\* A thread that is given a mutex again and again in the end gets it.
FairSpec == Spec /\ \A t \in Threads : SF_vars(Step(t))

-----------------------------------------------------------------------------
(* Properties. *)

WaitsFor(t) == IF Next1(t, "use") \/ Next1(t, "lock")
               THEN owner[Head(todo[t]).mutex] ELSE "nobody"

\* No threads wait for each other in a circle, and none for itself: wherever
\* one mutex is held while another is asked for, all agree on their order.
NoCircularWait ==
  \A S \in (SUBSET Threads) \ {{}} : \E t \in S : WaitsFor(t) \notin S

\* "Timed rules are pruned automatically when they expire" (README.md): the
\* ticker gets through whatever it has begun.
TickerGoesOn == todo["ticker"] # <<>> ~> todo["ticker"] = <<>>
=============================================================================
