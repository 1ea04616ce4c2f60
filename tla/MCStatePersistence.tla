------------------------- MODULE MCStatePersistence -------------------------
(***************************************************************************)
(* An instance of StatePersistence for TLC: a rule for good and a timed    *)
(* one, and two imports: one with a profile that only it has, and one      *)
(* whose list lacks both the profile it names and the one to fall back to. *)
(***************************************************************************)
EXTENDS StatePersistence
CONSTANTS always, timed

MCImports ==
  {[rules |-> {always}, profile |-> "work", profiles |-> {"home", "work"}, notes |-> 0],
   [rules |-> {}, profile |-> "game", profiles |-> {"work"}, notes |-> 0]}
=============================================================================
