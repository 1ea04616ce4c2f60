# m0untain, specified

m0untain is a Windows firewall in user space. It captures connection events
from the Windows Filtering Platform (WFP), blocks remote addresses that flood or
scan, asks the user about applications it has not seen, and keeps the answers as
rules. A second program, a boot service, enforces the rules while the first is
not running.

This directory holds TLA+ specifications of it, the TLC configurations that check
them on small instances, and proofs that TLAPS checks for every instance. Paths
below are relative to the repository; `main.rs` is `src-tauri/src/main.rs`,
`windows_impl.rs` is `src-tauri/src/wfp/windows_impl.rs`.

1. [The system](#1-the-system)
2. [The modules](#2-the-modules)
3. [The runs](#3-the-runs)
4. [What the code does otherwise](#4-what-the-code-does-otherwise)
5. [The proofs](#5-the-proofs)
6. [What is left out](#6-what-is-left-out)
7. [The plan](#7-the-plan)

## 1. The system

One process, four threads after start-up, and a second process:

| Thread | Code | Does |
|---|---|---|
| consumer | `main.rs` 2319-2349 | takes captured events from a channel, one at a time: `inspect_program`, then `Engine::inspect`, then enforces the verdict |
| snapshotter | `main.rs` 2384-2422 | every second lists the connections of the system: `inspect_program` for each |
| ticker | `main.rs` 2351-2382 | prunes timed rules, lifts address filters whose time is up, `Engine::tick`, builds the tick for display |
| UI thread | `main.rs` 1405-1890 | the commands of the page; synchronous Tauri commands run on the main thread, one after another |
| service | `service/src/lib.rs` | a process of its own: polls the state file and rebuilds its filters |

The threads share `Shared` (`main.rs` 152-168): a dozen maps, each behind a mutex
of its own, and the firewall. There is no lock around a whole operation, so that
an operation is a sequence of critical sections, and others run in between.

### Components

**Detection engine** (`core/src/detect`). State: a table of blocks with their
ends, the whitelist, the settings, a log of stamps per source and one for all
(rate limiter), a log of stamps and ports per source (scan detector). Operations:
`inspect`, `tick`, `set_config`, `set_ddos_enabled`, `set_scan_enabled`,
`whitelist_add`, `whitelist_remove`, `block_manual`, `unblock`. Hard: two clocks
(the stamp of an event, the time of a tick), logs trimmed by either, settings that
change under logs trimmed with the old ones, u64 sums. Correct when a block has
its reason in the window, takes effect, and is left alone while it lasts.

**Enforcement of address blocks** (`main.rs` 2324-2336, 2357-2379, 1631-1678).
State: `Shared.enforced` (address, handle, end), next to the engine's table and
the filters of the kernel. Operations: the consumer's enforcement of a verdict,
the two sweeps of the ticker, `block_remote_ip`, `unblock_ip`, `whitelist_add`.
Hard: the verdict is enforced after the engine's mutex has been released, and the
engine and `enforced` are brought up to date one after the other. Correct when
no filter is lost or removed by mistake, and each is lifted in the end.

**Application prompts, rules and quarantine** (`main.rs` 301-712, 1437-1890,
2168-2317). State: remembered rules, session rules, pending prompts with their
temporary filters, `app_blocks`, known applications, the filters of the kernel.
Operations: `inspect_program`, `decide_program`, `set_program_rule_decision`,
`upsert_rule`, `set_timed_decision`, `remove_program_rule`, `remove_rule`,
`import_state`, `prune_expired_rules`. Hard: two threads observe, a third prunes
and a fourth gives commands over five maps; copies of rules are used after their
mutex is released; the firewall may refuse; the map of blocks is keyed by path
while rules match by application id. Correct when an allowed application
connects, a quarantined one does not, and no filter is left that nobody knows.

**Mutexes of the shared state** (`Shared`, `WfpFirewall`). Fourteen mutexes, taken
in nests of up to four. Correct when no threads wait for one another in a circle.

**Rule precedence and profiles** (`main.rs` 263-603, 1681-1778, 2488-2493). State:
the remembered rules by storage key, the active profile. Operations: `find_rule_in`
with `rule_score`; `upsert_rule`, `remove_rule`, `set_active_profile`,
`import_state`, the restoring of blocks at start-up. A rule has an application, a
decision, a protocol, a direction, a target (address, network, domain, port), an
expiry and a profile. Hard: the rules come in the order of a hash map; the same
target is read by the lookup, by the conversion for WFP and by the service, each
with code of its own. Correct when the rule that decides is the one meant, and the
three readings agree.

**WFP backend** (`src-tauri/src/wfp`). A handle stands for up to two filters of a
dynamic session, one for each layer the target has; when the session cannot be
opened, a `DisabledFirewall` refuses everything. Its session registers a sublayer.
Hard: the second filter may fail, and so may a deletion. Correct when a handle that
was given out stands for all its filters, and nothing else does.

**Policy service** (`service/src/lib.rs`). State: the session with its sublayer
and filters, the time of modification it saw last. Operation: every two seconds,
if the state file has another time of modification, clear all filters and add
those of the rules in scope, then default deny. Hard: the file is written in
place by another process that may die half-way; the first error ends a rebuild;
the sublayer key is the application's. Correct when what is in force is of one
state, default deny does not cut off what is allowed, and the file is followed.

**Persistent state** (`settings.rs`, `Shared::save`). State: one JSON file, and the
four maps that go into it. Operations: `save` by the UI thread, the ticker and the
observers, `load` with `normalize_state` at start-up, `import_state`. Hard: a save
copies under mutexes and writes without; the program may end anywhere. Correct
when what the user was told lasts, and what is loaded is a state the program
can work with.

**Metrics, talkers and ticks**, **connection snapshots**, **notifications**,
**start-up**, **user interface**, **service control**, **simulator backend**: see
PROJECT.json for what is modelled of each.

## 2. The modules

| Module | Models | Its actions are |
|---|---|---|
| `DetectionEngine` | `Engine`, `RateLimiter`, `ScanDetector` | the methods; `inspect` is split into the ways out of it |
| `SlidingWindowPolicy` | what the engine promises, without logs or sweeps; `DetectionEngine` ends with the refinement mapping | exempt, refuse, judge, the clock, a command |
| `IpEnforcement` | verdict, enforcement and lifting of address blocks | the critical sections of consumer, ticker and three commands |
| `AppQuarantine` | prompts, rules, quarantine | the critical sections of `inspect_program`, the commands and `prune_expired_rules` |
| `SharedLocks` | the nestings of all mutexes | use, lock, unlock |
| `RuleEngine` | which rule is about a connection, which decides, what filters it becomes, here and in the service | (operators only) |
| `RuleFilters` | from the rules to the filters of the kernel | the critical sections of five commands, the restart, `install_block_for_rule`, the lookup, the pruning; each call of WFP may fail |
| `StatePersistence` | the state file and the threads that save to it | a thread begins, changes, copies, truncates, writes, answers; the program ends |
| `PolicyService` | the service, the file, the sublayer | steps of `run_policy_loop`, calls to WFP, start, save and end of the application |
| `MC...` | instances for TLC | |
| `..._proofs` | proofs about the module they extend | |

Each module stands for a set of mutexes or a process, and says in its variables'
comments which field of the code a variable is. `Engine` is one object behind one
mutex: each method is an action. `IpEnforcement` abstracts the engine to its block
table (an event is refused, or trips) and keeps the calls around it apart; it
composes engine, `enforced` and kernel. `AppQuarantine` composes observers,
ticker and UI. `RuleFilters` does so again at another scale: `AppQuarantine` has
prompts, session rules and time with the simplest rules, `RuleFilters` has the rules
in full, the two filters behind a handle and the restart, without prompts and with
the clock standing still. `StatePersistence` has the threads again as sequences of
changes and saves. `PolicyService` composes two processes, their file and WFP;
what the filters of the service say of a connection is in `RuleEngine`.

Choices that are the same everywhere:

* A critical section is one action. A call to the firewall is part of the
  neighbouring section when no other thread can tell the difference: a handle
  nobody else knows yet, or one already taken off the books.
* The UI thread runs one command at a time (the commands are synchronous).
* Time. `DetectionEngine` has instants; when `Lagging`, an event has any stamp up
  to the clock, in any order, since WFP calls `net_event_callback` on worker threads
  of its own.
  `IpEnforcement` keeps what is *left* of each block, which makes a clock without
  bound finite. `AppQuarantine` and `PolicyService` only know whether the end of a
  timed rule has come.
* A deletion that WFP refuses. Both `WfpFirewall::unblock` (`windows_impl.rs` 575) and
  the service's `clear` (`lib.rs` 310) forget a filter before they ask WFP to delete
  it, and no caller looks at the error. So the record goes whether or not the filter
  does; `IpEnforcement`, `AppQuarantine`, `RuleFilters` and `PolicyService` each have
  this outcome, and keep what is left behind in a variable (`refused`, in the service
  `leftover`).
* History variables (`attempts`, `last`, `lifted`, `gaveUp`, `answered`, `refused`,
  counters of commands) are written and never read by a guard, but for the bounds.
* "Seeded fault" marks an operator that no action uses. It is a plausible mistake
  in the operator it stands next to (a missing trim, a filter kept, a wrong key);
  putting it in that operator's place makes TLC refute the property PROJECT.json
  names with it, which shows that the property looks at that code.

Choices of single modules:

* `DetectionEngine`: an event is an address, a port and a stamp. Outbound events
  and such as open no connection are one case (`PassUncounted`).
* `IpEnforcement`: `ManualBlock` and `DetectBlock` are lengths in seconds; a
  verdict may be up to `MaxLag` old when it is enforced. Handles run out
  when `Handles` is used up, which stands for a firewall that refuses. `MaxRefusals`
  bounds the deletions WFP refuses.
* `AppQuarantine`: prompting is on; an observation while it is off, of an application
  without a rule, changes nothing but the known applications. A behaviour has a *schedule*, chosen at the start: whether
  activities follow one another or overlap, the commands and how many, the protocol
  scopes, whether the firewall may refuse. It lets one run hold several questions. Rules are global and outbound and their
  targets are `any` or one address. `remove_runtime_blocks_for_app` collects the keys
  of a path under the guard of `app_blocks` (`FindBlocks`) and then frees what is
  recorded under each, one critical section per key (`FreeBlock`).
  `set_program_rule_decision` is taken for applications that are known (the page
  offers no others). Each observer has its own spelling of an executable and its own
  protocols (`Sees`): the consumer the device path of an event, of TCP and UDP; the
  snapshotter the drive path of a process, of TCP only. The two spellings are two keys
  of `pending_programs` and of `app_blocks` and one WFP identity.
* `SharedLocks`: a thread does its tasks in any order, which allows more than the
  code does. Temporaries live to the end of their statement, and of the whole
  `if let`, as Rust 2021 has it. The snapshotter's nestings are among the consumer's and
  are left out of the instance.
* `RuleEngine`: an address has a family and `Width` bits; the text of a target is what
  the comparisons tell apart (as Rust prints it, another spelling, padded with
  blanks, no address, a network whose prefix is longer than an address). `ip_in_cidr` and WFP's masks are written down each in its own
  form, since whether they agree is one of the questions.
* `RuleFilters`: handles are reused when nobody knows them, so that a bound on those in
  use at a time is enough; the code counts up in 64 bits. A restart finds the rules
  the commands have left (`StatePersistence` says how far that is so). An import replaces
  the settings, then the rules. Pruning frees a block per rule that is due, one after the
  other. Ports,
  directions and profiles are the code's; packaged applications are as others.
* `StatePersistence`: a thread has a list of steps to do. A save is three of them: the
  copy of four maps under all their mutexes, `fs::write` opening and truncating, and
  its writing. A text written over another that was put there meanwhile leaves the
  end of the longer one, which does not parse. `SetActiveProfile` stands for
  `set_app_settings` too, which does not check that the profile exists; the page offers
  only those that do. Errors of the two file operations end
  a command that saves with `?` and are ignored by the others, as in the code. The
  histories `fileIs`, `kept` and `gone` say what can be expected of the file and what
  the user was told.
* `PolicyService`: `fs::write` truncates and then writes; between the two the file
  does not parse, and a process that dies there leaves it so. A rule names an
  executable or a package and a target; the target says which layers its filters go
  to, or is `Broken` (no address) and ends the rebuild. `clear` deletes the filters one
  call at a time in the order they were added, before a rebuild and when the service is
  stopped; those WFP does not delete are `leftover`, in force until the session ends. With `CoarseClock` two writes may have the same time of
  modification; the runs give each a new one. Filters of a rule
  go in one step, which no other actor can tell, except where a call fails.

## 3. The runs

Twelve runs; every configuration carries the name of its run. Deadlock is checked
in all but `LockCycle` and `OneSublayer`, which are there to show what goes wrong,
and `SavesRace` and `RulesInKernel`: there the program is at rest when every thread
has done what it had to do and the bounds allow no more commands.

| Run | Distinct states | Shows |
|---|---|---|
| `DetectorsLag` | 592 000 | `FloodBlockJustified`, `ScanBlockJustified`, `BlockTakesEffect`, `BlockChangesOnlyWhenOver` with lag, ticks, changes of settings and a clock that may go back |
| `InStep` | 455 000 | `ImplementsPolicy` |
| `IpFilters` | 189 000 | `FiltersAccounted`, `EveryFilterLifted`, `TrustedInTheEndFree` |
| `QuarantineRaces` | 1 790 000 | `RecordsLive` in all interleavings, with two spellings and a firewall that may refuse; `NoStrayFilter`, `AllowedConnectsSerially` when one activity runs at a time |
| `QuarantineHeals` | 271 000 | `QuarantineEnforced` |
| `RulesInKernel` | 90 000 | `LookupIsBest`, `BlocksWhole`, `BlocksExact`, `FiltersKnown`, `ServiceAgrees`, `RuleTakesEffect` |
| `SavesRace` | 2 261 000 | `SavedWhenQuiet`, `ToldSurvives`, `ActiveKnown` |
| `LockOrder` | 31 000 | `NoCircularWait`, `TickerGoesOn` without `remove_rule` |
| `ServiceFollows` | 286 000 | `OneState`, `DenyKeepsAllowed`, `CutOffEnds`, `PolicyCatchesUp` |
| `OtherSpelling` | | refutes `AllowedConnects` with two spellings of one executable |
| `LockCycle` | | refutes `TickerGoesOn` with `remove_rule` |
| `OneSublayer` | | refutes `PolicyEnforced` |

### Detection

`DetectorsLag` asks whether the detectors ever block an innocent source. Their
logs are cut by stamps and by ticks, stamps come in any order, the clock may be
set back, and settings change under the logs; the property
compares a new block with the history of all attempts. Two sources and two ports
are needed for the global cap and for a scan; three attempts exceed every limit of
the two flood settings (one attempt in a window of one, two in a window of two
with a global cap of two) and of the scan setting (one port); three instants let
the shorter windows slide past an attempt. One command is one change of
settings; more of them add nothing that the choice of initial settings does not.
Sources, and ports, are interchangeable, and no property is about liveness,
so that the symmetry is sound. What counts as in the window is the attempts since one
that is still in it: with stamps out of order the logs may hold older ones behind a newer one,
and `FloodInWindow`, which does not count those, is refuted (section 4).

The promises about the table of blocks do
not depend on time running forward: a block entered takes effect at the stamp of
its event, and is left alone until it has run out by one of the clocks.

`InStep` shows that the engine is what it wants to be: under the refinement mapping
that forgets entries which have run out, it implements `SlidingWindowPolicy`, which
keeps every attempt, counts those in the window and has no ticks. Two conditions
are needed: events are inspected in the instant of their stamp, and window
lengths stay (a log that was cut with a short window cannot be right for a longer
one). They are the constants of the run; section 4 says what happens without the
first.

### Address blocks

`IpFilters` interleaves every critical section of three threads for two addresses
and two handles. A detected block lasts one second, a manual one two, a
verdict may be one second late: that is enough for each thread's end to come
before, with and after each other's, and for a manual block to replace a detected
one and the other way round. With two commands there is a command under way
after any other. WFP refuses one deletion, anywhere: the filter stays, its record and
its handle are gone, and nobody asks again (`main.rs` 2365-2367). The properties
except that filter (`refused`) and no other; `FiltersExpire`, without the exception, is
refuted (section 4). The liveness properties need weak fairness of the ticker's
sweeps, of the steps of a command or an enforcement that has begun, and of the clock: the
threads loop without a condition (`main.rs` 2351, 2319), and sleep for bounded
times. No fairness is assumed of traffic or of the user.

`TrustedInTheEndFree` is what remains of "Trusted sources always pass" for an
address that was blocked first: it becomes free when its block ends, unless WFP refuses
to delete the filter.

### Applications

`QuarantineRaces` has one executable with the two spellings of its two observers, and three
schedules. In the first everything overlaps: the observers, the ticker, all commands but
`import_state`, one address as target, and a firewall that may refuse to add a filter or to
delete one. `RecordsLive` says that what
is on record is a live filter of the application it is recorded for, and on record
only once: no thread removes a filter on which another relies. Two commands are the shortest
history in which one undoes the other; three handles are the filters that
two observers and a command may be about to record.

In the others each activity is finished before the next: do the commands undo what
they should when nothing interferes? In one (`Scopewise`) prompts are answered in each
protocol scope and the rules of an application removed; in the other (`Appwise`) single
rules are removed too, but every decision is about all protocols. Four commands are two
decisions, each undone. `NoStrayFilter` says that every filter is on record but those WFP
refused to delete; `AllowedConnectsSerially` looks at the states where all
is quiet: no filter blocks what the rule in force allows, save that of an open
prompt and those refused. It is about applications whose prompts were answered under one of
their spellings (`AnsweredAsOne`): the other observer then acts on the rule, under
its own path and all the same. With answers under both, a block recorded under one outlives
the allowing under the other. The properties hold of
these commands only; section 4 lists the commands and interleavings that break them.

`OtherSpelling` is the command the connections page gives, for two rows of one application,
one activity after another: quarantine in the one row, allow in the other.

`QuarantineHeals` is the other direction: whatever was removed by mistake, a
quarantined application that goes on trying is blocked again. Fairness: each thread
goes on with what it has begun; an observation happens again and again (strong
fairness, since another activity of the same thread disables it for a while),
which is the application's trying; and pruning is strongly fair, since the ticker
loops. Its decisions are about all protocols: section 4 says what a narrower one does. It has one
observer with one spelling, and a firewall that does not refuse, without which nothing can
be promised.

### Rules

`RulesInKernel` takes rules from the page (an application, a network, a rule without
an application id), imports and restarts, and one call of WFP that goes wrong anywhere, with an
observer that tries two connections and the ticker. The rules of an import stand for
what a file may hold: a domain, a host with a port, a family as a whole (prefix 0),
a padded address, a prefix longer than an address, a timed rule and two that are due and share
the key of their blocks. Addresses of two bits are enough
for a prefix to be empty, partial or whole. Two commands are one that installs or
imports and one that replaces, removes or restarts.

The properties relate the readings of a rule. `LookupIsBest`: `find_rule_in` keeps
the best seen so far, in any order of the map, and the result is always one the
rules are meant to give, which `Intended` says without scores. `BlocksWhole`: a
recorded block has a filter on each layer its target has. `BlocksExact`: those filters
match what the lookup takes the rule to be about, by WFP's masks here and
`ip_in_cidr` there. `ServiceAgrees`: what the application would block, the service
blocks, unless a rule ended its rebuild; what the two refuse to convert differs by the
prefixes out of range. `FiltersKnown`: no filter is lost. `RuleTakesEffect`: a rule that blocks has
its block installed in the end if the connection is tried again. Fairness: each
thread goes on with what it has begun (weak), and a connection that is tried
is inspected again and again (strong, since another inspection by the same
thread disables it for a while).

### The file

`SavesRace` has the UI thread, the ticker and an observer begin three activities in
all, each with its saves, one save that fails, and one end of the program at any
point. Three threads with one save each is the smallest race in which a save meets
two others. `SavedWhenQuiet` is about every caller of `save`: none changes what
is saved without saving afterwards. `ToldSurvives` is about durability: a command
that returned is on the file, unless the file is in doubt, that is while a
save writes, after one failed to, and after two met. `ActiveKnown`: a file saved in
the middle of an import names a profile that is not in it yet; `normalize_state`
puts that right at the next start, with the fallback `home`. It does not look whether the list has
`home`, and a file may be imported that has not: so the property says that the active profile
exists or is `home`, and `ActiveExists`, without the second, is refuted (section 4).

### Mutexes

`LockOrder` goes through every nesting of the consumer, the ticker and the UI thread
but `remove_rule`'s. Strong fairness of each thread is the assumption that a mutex
is in the end given to each thread that waits; Windows' SRW locks do not promise it,
but starvation through endless bad luck is not what the run is about. Three threads
are enough: a circle of waiting in this code is between two nestings, and the
snapshotter's nestings are the consumer's.

### The service

`ServiceFollows` has an application that starts, saves, dies between truncating and
writing, and ends at any time, and a service that is started and stopped. The four
contents differ in their rules, profile and default deny, and one has a rule whose
target is no address; five modifications are
two complete saves after the initial file, so that a save can fall anywhere into the
rebuild for the one before. One failure of WFP may hit any call, deletions
included. Fairness: a
started service runs.

`OneState` counts everything in force, also what WFP refused to delete: apart from one filter
per refusal it is of one state of the file at one moment, while clearing, while adding and after
a rebuild that broke off. `DenyKeepsAllowed` is about what a rebuild puts in force.
Clearing goes the other way round: the permits were added first and are deleted first, so that
on each rebuild and each stop default deny is for a while in force without them
(`NeverCutOff` is refuted, section 4); `CutOffEnds` says that this ends, also when the rebuild
fails, unless what stays is a default deny that WFP would not delete.

`PolicyCatchesUp` says that a state which stays in the file is
in the end what is enforced, with three exceptions: WFP failed the
service and nothing was loaded since, filters could not be deleted, or a rule of
the state is broken. The exceptions are the code's (`let _ = engine.apply(..)`,
`.ok()`, `let _ = FwpmFilterDeleteById0(..)`, `?`), not the model's:
`PolicyEnforced`, without them, is refuted.

## 4. What the code does otherwise

Three disagreements between code and documentation are runs of their own:

* `OtherSpelling` - the consumer has the device path of an event (`windows_impl.rs` 677-690),
  the snapshotter the drive path of a process (`active_connections.rs` 61-83, `main.rs`
  883-899): the page lists one executable twice. Rules are found by its WFP identity
  (460-464), and storing one removes those of the same identity (681-700); its blocks are
  freed by path (`remove_runtime_blocks_for_app`, 438). Quarantined in one row and allowed in the
  other, the application has a rule that allows it and a filter that blocks it, for as long as
  m0untain runs. README.md:119: "**Allow**: let it connect."
* `LockCycle` - `remove_rule` (1770) calls `or_else` while the guard of
  `program_rules` still lives, and asks for `session_program_rules` under it;
  `find_program_rule_for` (641-668) does the opposite. Both wait for good, and
  the ticker behind them. README.md:160: "Timed rules are pruned automatically".
* `OneSublayer` - both processes register the same sublayer key. If the application
  runs when the service starts, `PolicyEngine::open` fails; the time of
  modification is noted all the same, so the file that is there is never applied,
  also after the application has left. README.md:138: "reloads `state.json`,
  applies allow/block rules, and installs default-deny outbound filters".

TLC refutes other formulas of the modules under other constants. They are no runs
of their own; each line says how to see it. What a line on `AllowedConnects` does
not mention is `Paths` `{p1}` and `Observers` `{consumer}`, the rest as in `OtherSpelling`:
protocol scope `all`, tcp and udp seen, no targets, three handles, a firewall that does not
refuse, and a schedule of two commands; with `{"set"}` alone and `serial` it passes.

| Formula | Module, constants | Why |
|---|---|---|
| `FloodInWindow` | `MCDetectionEngine`; one source, `PairDdosConfig`, `NoScanConfigs`, `MaxTime` 4, 3 attempts, 0 commands, `StepsBack` without `Lagging` | stamps from before the clock was set back lie in the future, never become stale (`ratelimit.rs` 31, saturating) and count long after |
| `FloodInWindow` | the same, `Lagging` without `StepsBack` | stamps in the wrong order: the log is cut at the first stamp that is not stale (`ratelimit.rs` 29), so that a later one protects the stale ones behind it |
| `NoMissedFlood` | `MCDetectionEngine`; one source, `PairDdosConfig`, `NoScanConfigs`, `Lagging` or `StepsBack` | `tick` (`detect/mod.rs` 170) trims by the wall clock what events still in the channel would have counted |
| `BlockTakesEffect` | `MCDetectionEngine`; `HugeDdosConfigs`, `U64` 16; or a block length of 0 | `ev.ts_ms + block_duration_ms` (`detect/mod.rs` 135) is not checked, and settings come from the page as any u64; `block_remote_ip` saturates |
| `ImplementsPolicy` | `InStep` with `MCDdosConfigs`, which has two window lengths | a log that was cut with the short window cannot be right for the longer one |
| `TrustedNeverFiltered` | `MCIpEnforcement`; one address, `MaxLag` 0, 1 command | `whitelist_add` (`main.rs` 1664) leaves the filter of an address that is blocked already |
| `FiltersExpire` | `MCIpEnforcement`, the constants of `IpFilters` | a deletion that WFP refuses is not asked for again: the handle is forgotten first (`windows_impl.rs` 575), the record gone and the error dropped (`main.rs` 1648, 1675, 2365-2367) |
| `LiftSticks` | `MCIpEnforcement`; one address, `MaxLag` 0, 1 command | the consumer enforces a verdict (2326) after `unblock_ip` has returned |
| `AllowedConnects` | `MCAppQuarantine`; `serial` FALSE, `{"set"}` | an observer installs the block of a rule it looked up (2241) before the user allowed the application |
| `AllowedConnects` | `serial` TRUE, `{"decide", "timed"}` | `set_timed_decision` (1826) stores a timed allow and leaves the block of the quarantine in place |
| `AllowedConnects` | `serial` TRUE, `{"import"}` | `import_state` (1871-1878) replaces rules and clears prompts without removing a filter |
| `AllowedConnects` | `serial` TRUE, `{"decide", "set"}` | quarantined on the connections page while the prompt is open, then allowed in the prompt (1455-1475): the block stays |
| `AllowedConnects` | `serial` TRUE, both paths and observers, `{"decide"}` | the same as `OtherSpelling`, of answers to prompts: the answer under one path does not free the block recorded under the other |
| `AllowedConnects` | `serial` TRUE, `Targets` of one, `{"set", "allowTarget"}` | an address allowed for a quarantined application: the lookup says allow (1740), the filter on the whole application blocks all the same |
| `AllowedConnects`, `NoStrayFilter` | `serial` TRUE, `{"decide", "removeRule"}`, all three protocol scopes, `seen` tcp and udp, four commands | of a remembered allow for UDP and a quarantine for TCP until exit, `remove_rule` takes the first, and `remove_runtime_blocks_for_app` (432) the block of the second with it; an observer asks anew, and `decide_program` puts its block over the one recorded there by then (1464) without freeing it |
| `QuarantineEnforced` | `Healing` with all three protocol scopes | `runtime_block_key` (321) is the path's for every protocol: a block on UDP, decided in a prompt that was open when a quarantine for all protocols was imported, is taken for the block of that rule, which the observer then never installs |
| `FileFollows` | `MCStatePersistence` | an older copy is written last, two texts mix, or the save failed (`main.rs` 192, `settings.rs` 243) |
| `NothingLost` | `MCStatePersistence` | the program ends between truncating and writing: the next start has no rules |
| `ActiveExists` | `MCStatePersistence`, the constants of `SavesRace` | a file with profiles but without `home` is imported: `normalize_state` (`settings.rs` 205-211) falls back to `home` unchecked |
| `NeverCutOff` | `MCPolicyService`, the constants of `ServiceFollows` | `clear` (`lib.rs` 308-314) deletes in the order of adding, permits first and default deny last |
| `PolicyCatchesUp` | `MCPolicyService`, `CoarseClock` | the service reads a half-written file; the rest has the same time of modification, so that it is not read again |

The following are formulas about `RuleFilters` with the constants of
`RulesInKernel`, in words:

* *Blocks of rules about a target are of the active profile or global.* Saving a rule of
  another profile (`upsert_rule`, 1737) and start-up (2488) install its block, and
  switching the profile (1681) removes none.
* *The kernel stops a connection only if the lookup says block.* The filters that a switch or an
  import leaves in place go on blocking what the lookup now allows.
* *What the lookup allows, the service does not block.* The service gives every block
  more weight than every permit (15 and 14), the application goes by class and
  target: an allowed address of a blocked application connects or not according to
  which of the two decides.
* *`RuleTakesEffect` without `Hidden`.* Blocks on a whole application share the key of
  its path (321): with a block on UDP recorded, the observer takes the rule for TCP to be installed.
* *`RuleTakesEffect` for an address with blanks around it.* The lookup trims it (500), the
  conversion for WFP does not parse it (346).
* *A blocking rule that has been saved is in the kernel.* The ticker removes the
  block under the key of a rule that is due (2205), which may be the block just
  recorded for the new rule; the next inspection puts it back.

Without being formulas: two observers that ask about one application at once make two
prompts, one under each spelling and each with its temporary filter, since the look at the
pending prompts (`main.rs` 2268) and the insertion (2297) are apart; an answer to one
leaves the application blocked until the other is answered. A rule for a domain becomes one for every destination in
the service (and no filter in the application); rules for inbound connections become
outbound filters in the application; a blocking rule without an application id is
remembered and never installed. And, for display only, `Metrics.buckets` is "ordered
oldest -> newest" (`core/src/metrics.rs` 59) while stamps come in order: a late event
opens a bucket for its earlier second at the end.

## 5. The proofs

TLAPS checks these for every value of the constants that meets the modules'
assumptions: any sets of addresses, ports, threads, handles, rules, imports and states of the
file, any limits, lengths, word width and bounds. Together they are every invariant and
every action property of the runs, and the refinement; what is left to TLC alone is
liveness.

| Module | Theorem | States | If |
|---|---|---|---|
| `DetectionEngine_proofs` | `TypeCorrect` | `[]TypeOK` | |
| | `BlocksHold` | `BlockChangesOnlyWhenOver` | |
| | `FloodsWereMade` | `FloodBlockJustified` | |
| | `ScansWereMade` | `ScanBlockJustified` | |
| | `RefusalsAreInForce` | `[]BlockTakesEffect` | block lengths are not zero and `MaxTime` plus any of them is below `U64` |
| | `EngineImplementsPolicy` | `ImplementsPolicy` | `InStep` |
| `IpEnforcement_proofs` | `TypeCorrect` | `[]TypeOK` | |
| | `AccountsKept` | `[]FiltersAccounted` | |
| `AppQuarantine_proofs` | `TypesHold` | `[]TypeOK` | |
| | `RecordsStayLive` | `[]RecordsLive` | |
| | `NoFilterIsStray` | `[]NoStrayFilter` | serial schedules are `Undoing` |
| | `AllowedConnectionsConnect` | `[]AllowedConnectsSerially` | the same |
| `SharedLocks_proofs` | `HeldIsLetGo` | `[]TypeOK` | |
| | `NobodyWaitsInCircles` | `[]NoCircularWait` | `~ RemovesRules` |
| `StatePersistence_proofs` | `TypesHold` | `[]TypeOK` | |
| | `QuietIsSaved` | `[]SavedWhenQuiet` | |
| | `WhatWasToldSurvives` | `[]ToldSurvives` | |
| | `ProfileIsKnown` | `[]ActiveKnown` | |
| `RuleEngine_proofs` | `LookupIsIntended` | `Found = Intended` for any finite set of rules | |
| `RuleFilters_proofs` | `TypeCorrect` | `[]TypeOK` | |
| | `BlocksStayWhole` | `[]BlocksWhole` | |
| | `FiltersStayKnown` | `[]FiltersKnown` | |
| | `LookupFindsTheBest` | `[]LookupIsBest` | |
| | `BlocksStopTheRight` | `[]BlocksExact` | |
| | `ServiceBlocksToo` | `[]ServiceAgrees` | |
| `PolicyService_proofs` | `TypeCorrect` | `[]TypeOK` | |
| | `OneStateKept` | `[]OneState` | |
| | `AllowedKept` | `[]DenyKeepsAllowed` | |

*Assumptions.* They are the named `ASSUME`s of the modules: that constants are of
the kind their comments say, lengths and bounds are natural numbers, rules and imports are
finitely many, the names for "nothing" are
no handles, addresses or rules. TLC evaluates them in every run. The last column has
what a theorem needs beyond them. None of it is for the sake of the proof: each condition is
one without which TLC refutes the property (section 4, and the run `LockCycle`), and each
holds of the constants of the run that checks it.

*The engine.* Types need a fact about trimming: the logs are cut at the first stamp
that is not stale, and `CHOOSE` finds that place because a set of naturals has a least
element (`FirstFreshProperties`). `BlocksHold` is an action property and needs the
types only: a trip happens under `~ Active`, hence when the block has run out by the
event's stamp; a tick removes what has run out by the clock.

The logs do not say whose attempts they hold, so that no invariant over them alone gives
a block its reason. `LogsFollow(all)` ties them to the history: there is an increasing map
from the entries of a log to attempts of its kind with the same stamp (and port),
and it reaches every attempt of the set `all` that is in the window. With `all` empty this
survives any order of stamps, ticks, clocks set back and changed
settings, since trimming only ever takes a log's beginning away (`FollowsTail`).
A log that has just been trimmed begins with a stamp in the window; so all its entries show
attempts since one in the window, different ones, and it is no longer than their
number (`FollowsCount`). With `all` everything, it survives as long as windows only move on
(`MovesOn`): then the map is onto what is in the window, lengths are counts, and the engine
decides as `SlidingWindowPolicy` does. `InStep` says when that is: no lag, no clock set back,
window lengths that all choices of settings share, and ends of blocks that fit in the word.

*Address filters.* `FiltersAccounted` is not inductive. `unblock_ip` frees the handle
on record; if the record of another address, or `block_remote_ip` between
installing its filter and recording it, could hold the same handle, the other
would be left with a dead one. `Bookkeeping` adds what excludes it: a record
without a handle is no record, a handle that is being recorded is in no
record, and a handle whose filter WFP refused to delete has that filter still and is
nobody's again. That two records share no handle follows: a recorded handle's filter
is on the record's address. `InvNext` goes through the actions one lemma each.

*Applications.* `RecordsLive` needs what is in the hands of the threads: the handle a worker is
about to record or to put into a prompt, and the one `decide_program` has taken from a
prompt, is a live filter of its application and in no record (`HandsLive`,
`PromptsApart`). It holds in all interleavings, for any paths and spellings.

`NoFilterIsStray` is about the bare order of commands, and its invariant `SerialInv` says what a
finished activity leaves: at most one activity is at work (`OneAtWork`); there is at most one
rule of a path in the session's map, and none if a remembered one quarantines it (`RulesApart`);
a path with a rule that quarantines has its block (`RulesBlock`), and one with an open prompt has
none (`PromptsUnblocked`); what a thread looked up is still so, as nobody else is at work
(`WorkersMeanIt`, `CommandsMeanIt`, `TickerMeansIt`). Then no record is
overwritten that is in use, and `AllReferenced` follows. `Undoing` is the limit of this: with
`remove_rule` and narrower scopes a block may go while its rule stays
(section 4). A path's blocks go key by key: until the last one has, `ui.keys` says which
are to come. `AllReferenced` is about the filters not in `refused`; a refused one has lost its record
in the same step.

`AllowedConnectionsConnect` adds that a remembered rule that quarantines is the
only remembered one of its path (`Alone`), the converse of `RulesBlock`, that every block stands
for a rule that quarantines or is about to be freed (`BlocksHaveRules`, `BeingFreed`), and that
every rule comes from an answer (`RulesAnswered`). The second is where spellings matter: storing a rule
weeds the others of its identity, blocks of another path stay. So it is claimed of applications
answered under one spelling, and `RulesAnswered` says that their rules are all under that
one, whatever the other observer calls them.

*Mutexes.* `Rank` is an order of the fourteen mutexes in which every nesting of the code goes
up, `remove_rule`'s excepted. `InOrder` says of what a thread has left to do that it
lets go of each mutex it holds, and until then asks only for higher ones. In a circle of
waiting threads the one that waits for the highest mutex waits for a thread that asks
for a higher one still.

*The file.* `SavedWhenQuiet` needs to know what is still to come: whoever has changed something
has a save to do after it (`Shape`), and while no two saves have met, the last copy taken is
of memory or another save follows (`Followed`). `ToldSurvives` is the harder one: a rule the
user was told of is in memory, in the file, and in the copy of every save
under way (`Lasts`); to reach that, it must be so for what a command is about to tell
as soon as it has saved (`WillLast`, `Includes`). A crash only forgets the threads; that a file
made in the middle of an import loads as a state whose active profile exists or is `home`
is `NormalFacts`; nothing is assumed of imports.

*The lookup.* `Found` goes through the rules in the order of a `CHOOSE`, with a function defined
by recursion over sets of rules. The library's induction theorems are out of the provers' reach, but a
least counterexample is not: among the sets on which the function is not what it should be, one
has the least cardinality (`LeastNat`), and it cannot exist. So `MergeExists` and `FoundUnfolds`
give the function its equation, `FoundIsBest` the best of the set by score, and
`SharpIsBest` identifies that with `Intended`, which has no scores.

*Rules and filters.* `BlocksWhole` says that what is recorded is in the kernel; a step
of another thread that frees a handle could spoil it, and so could a record made of
a handle whose filters are gone. The inductive invariant is about *owners*: a handle
belongs to one record, or is in the hands of one thread that is about to record it,
and never to both or to two (`Ownership`); whatever has an owner is whole, and every
handle and every filter has one, or is noted as one that WFP refused to
delete (`Accounted`). Freeing takes the handle from its only owner, so nothing else
changes; a new handle is one that nobody owns and no filter carries, also not one that was left behind.
`BlocksWhole` and `FiltersKnown` are then two readings of the same invariant. Types
need that a rule in a thread's hands is one that is ever anywhere (`Proper`), and
that the map holds one rule for a key.

`BlocksExact` is `Ownership` (a recorded block has exactly the filters of its rule) and a lemma
about rules (`FiltersAreMatches`): whether an address is in a network is decided
alike by the bits `ip_in_cidr` compares and by WFP's mask (`MaskIsNetwork`, on
`TwoToThe`), for any width and prefix. `ServiceAgrees` is the same lemma with the service's
filters.

*The service.* `DenyLast`: while rules are being added there is no default deny, and all rules but those
still to be added have their filters; hence when default deny comes, all permits
are there, and nothing is removed until the service clears, which is what
`DenyKeepsAllowed` leaves out. A
failed call only makes the loop stop early. Rules whose time was not up when they
were looked at include those whose time is never up (`ActiveShrinks`), which ties
the moment of the rebuild to `DenyKeepsAllowed`. `OneMoment`: the filters the service knows
are among those of the state it loaded last, at the moment it loaded it, also when `clear` has taken
some of them away; `FewLeft`: what it does not know any more but is in force is at most a filter for
each refusal. Together they are `OneState`.

*Model-checked only.* Liveness (`EveryFilterLifted`, `TrustedInTheEndFree`,
`QuarantineEnforced`, `RuleTakesEffect`, `TickerGoesOn`, `CutOffEnds`, `PolicyCatchesUp`), which is
out of this prover's reach, as `ENABLED` and fairness are.

## 6. What is left out

* Conversion of rules, addresses and paths to WFP structures, the capture
  callback, the listing of connections, the service control manager, the page
  itself, icons, risk labels: I/O and display.
* The file's text: of a rule that is saved only its presence is kept in
  `StatePersistence`, of the notifications how many there have been. The defaults
  `normalize_state` gives to empty fields of a rule are left out.
* The limit of 400 notifications, metrics and talkers: nothing is decided on them.
* Which connections a domain stands for: the application resolves none.
* The end of timed rules in `RuleFilters` (the clock stands still; a rule is due from
  the start or not at all) and, in `AppQuarantine`, profiles, directions and networks.
* Packaged applications apart from others: they differ in the identity they are
  matched by, not in what is done.
* Rules and prompts while the firewall is a `DisabledFirewall`, beyond a firewall that
  may refuse every call.

## 7. The plan

Done: the order was by what the program is for. First the decision (detection engine
and its policy), then its enforcement (address filters), then applications,
which is the larger half of the code, then what all of them share (mutexes) and
who enforces in their absence (service); then what they stand on: the file
(`StatePersistence`), the rules in full (`RuleEngine`) and the filters behind a handle
(`RuleFilters`).

The proofs followed the same order. Every invariant, every action property and the
refinement of the engine are proved.

Next:

1. What the liveness properties rest on that is safety: that a filter whose time is up
   stays on the ticker's list until it is lifted (`EveryFilterLifted`), that a thread which
   holds a mutex has nothing but higher ones before it (done, `InOrder`), that the service
   in force with the file has nothing left to do (`PolicyCatchesUp`).
2. That `RuleEngine`'s precedence, restricted to rules without profile or direction, is the one
   `AppQuarantine` has, so that the two accounts of the lookup are one.
3. An abstract specification of the quarantine (an application is allowed, blocked or asked
   about), which `AppQuarantine` implements under the schedules of `NoFilterIsStray`.
