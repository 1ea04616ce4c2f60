--------------------------- MODULE MCSharedLocks ---------------------------
(***************************************************************************)
(* Instances of SharedLocks for TLC.  The snapshotter's tasks are some of  *)
(* the consumer's, and a look at the session rules the ticker also takes,  *)
(* so that three threads show every nesting.                               *)
(***************************************************************************)
EXTENDS SharedLocks

ThreeThreads == {"consumer", "ticker", "ui"}
=============================================================================
