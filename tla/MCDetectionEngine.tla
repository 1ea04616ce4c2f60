------------------------- MODULE MCDetectionEngine -------------------------
(***************************************************************************)
(* Instances of DetectionEngine for TLC.  Instants are small numbers; the  *)
(* windows are short enough to slide over the attempts of a run, the block *)
(* lengths longer than the windows, as in the defaults of config.rs.       *)
(***************************************************************************)
EXTENDS DetectionEngine, TLC

Flood(window, max, block, globalMax) ==
  [enabled |-> TRUE, window |-> window, max |-> max, block |-> block,
   globalMax |-> globalMax]
Scan(window, ports, block) ==
  [enabled |-> TRUE, window |-> window, ports |-> ports, block |-> block]
NoFlood == [Flood(1, 1, 2, 0) EXCEPT !.enabled = FALSE]
NoScan  == [Scan(1, 1, 2) EXCEPT !.enabled = FALSE]

\* Two flood settings, one with a global cap and a longer window.
MCDdosConfigs == {Flood(1, 1, 2, 0), Flood(2, 2, 3, 2)}
MCScanConfigs == {Scan(2, 1, 3)}
ShortScanConfigs == {Scan(1, 1, 3)}

\* One window length each, so that a log never needs what it has dropped.
SteadyDdosConfigs == {Flood(1, 1, 2, 0), Flood(1, 2, 3, 2)}

\* A block length near the end of the word.
HugeDdosConfigs == {Flood(1, 1, 15, 0)}
NoScanConfigs   == {NoScan}
OneDdosConfig   == {Flood(1, 1, 2, 0)}
PairDdosConfig  == {Flood(1, 2, 2, 0)}

\* The properties of runs that name no source or port hold for all alike.
Interchangeable == Permutations(IPs) \cup Permutations(Ports)
=============================================================================
