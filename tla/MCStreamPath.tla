---------------------------- MODULE MCStreamPath ----------------------------
(* The loads StreamPath is model-checked with.  The window is two chunks:    *)
(* three chunks exhaust the credit of a leg, and four of them fill the       *)
(* relay's buffer so that it leaves in parts.                                *)
EXTENDS StreamPath

Load(r, reorder, up, down, faults) ==
  [route |-> r, reorder |-> reorder, up |-> up, down |-> down,
   faults |-> faults]

Loads ==
  { Load("hub",  FALSE, 3, 1, {"target", "loss", "client", "timeout"}),
    Load("hub",  TRUE,  0, 3, {"target", "loss"}),
    Load("node", FALSE, 4, 0, {"relay"}),
    Load("node", FALSE, 0, 3, {"relay"}),
    Load("node", FALSE, 1, 1, {"relay"}),
    Load("node", FALSE, 1, 0, {"relay", "target", "loss"}),
    Load("node", TRUE,  0, 1, {"relay"}) }

\* One record of a relayed upload is lost.
RecordLost == { Load("node", FALSE, 2, 0, {"relay", "loss"}) }
=============================================================================
