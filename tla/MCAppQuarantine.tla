-------------------------- MODULE MCAppQuarantine --------------------------
(***************************************************************************)
(* Instances of AppQuarantine for TLC: one executable, what its two        *)
(* observers call it, and what may happen to it.                           *)
(***************************************************************************)
EXTENDS AppQuarantine, TLC
CONSTANTS p1, p2, a1, consumer, snapshotter
OneApp == [p \in Paths |-> a1]

\* The consumer has the device path of an event, of either protocol; the
\* snapshotter has the drive path of a row of the TCP table.
OwnSpelling == [w \in Observers |->
  IF w = consumer THEN {p1} \X Seen ELSE {<<p2, "tcp">>}]

AllCommands == {"decide", "set", "allowTarget", "blockTarget", "timed", "remove",
                "removeRule", "import"}

\* Everything at once but an import, with a firewall that may refuse.
Racing == [serial |-> FALSE, commands |-> AllCommands \ {"import"}, max |-> 2,
           protocols |-> {"all"}, seen |-> {"tcp"}, fwMayFail |-> TRUE]

\* One activity after another: decisions in every protocol scope and the removal
\* of an app's rules; or decisions on all its traffic and the removal of a rule.
Scopewise == [serial |-> TRUE, commands |-> {"decide", "remove"}, max |-> 4,
              protocols |-> {"all", "tcp", "udp"}, seen |-> {"tcp", "udp"},
              fwMayFail |-> TRUE]
Appwise == [Scopewise EXCEPT !.commands = @ \cup {"removeRule"}, !.protocols = {"all"}]

RacingOrSerial == {Racing, Scopewise, Appwise}

\* One decision after another, from the list of applications.
Settings == {[Appwise EXCEPT !.commands = {"set"}, !.fwMayFail = FALSE]}
\* Decisions are about all protocols: a narrower block hides the rule's own, since
\* runtime_block_key is the path's for each of them.
Healing == {[Racing EXCEPT !.commands = AllCommands \ {"allowTarget", "blockTarget"},
                           !.fwMayFail = FALSE, !.max = 3]}

Interchangeable == Permutations(Handles)
=============================================================================
