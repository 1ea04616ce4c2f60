-------------------------- MODULE MCPolicyService --------------------------
(***************************************************************************)
(* An instance of PolicyService for TLC: one rule of each kind, and the    *)
(* states the application saves: default deny by the settings, by the      *)
(* profile, not at all, and by the profile with a broken rule in scope.    *)
(***************************************************************************)
EXTENDS PolicyService

Allowed == [decision |-> "allow", profile |-> "global", layers |-> Layers,
            outbound |-> TRUE, timed |-> FALSE]
Blocked == [decision |-> "block", profile |-> "home", layers |-> {"v4"},
            outbound |-> TRUE, timed |-> FALSE]
ForAWhile == [decision |-> "allow", profile |-> "global", layers |-> {"v6"},
              outbound |-> TRUE, timed |-> TRUE]
Inbound == [decision |-> "allow", profile |-> "global", layers |-> Layers,
            outbound |-> FALSE, timed |-> FALSE]
Mistyped == [decision |-> "allow", profile |-> "lockdown", layers |-> {},
             outbound |-> TRUE, timed |-> FALSE]

MCRules == {Allowed, Blocked, ForAWhile, Inbound, Mistyped}
MCBroken == {Mistyped}
MCContents ==
  {[rules |-> MCRules, profile |-> "home", deny |-> TRUE],
   [rules |-> {Allowed, Blocked}, profile |-> "lockdown", deny |-> FALSE],
   [rules |-> {Allowed, Mistyped}, profile |-> "lockdown", deny |-> FALSE],
   [rules |-> {ForAWhile, Blocked}, profile |-> "home", deny |-> FALSE]}
=============================================================================
