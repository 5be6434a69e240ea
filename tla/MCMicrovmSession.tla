-------------------------- MODULE MCMicrovmSession --------------------------
(* Small instances of MicrovmSession for TLC. *)
EXTENDS MicrovmSession

CONSTANTS a, b, old, new

\* Every create() asks for the same image and options, and everything may fail
\* but the termination that a delete() orders.
AllFaults == [config |-> [h \in Handles |-> old],
              faults |-> FaultKinds \ {"survive"}]

\* The second create() comes from a deployment with other options.
Redeployed == [config |-> [h \in Handles |-> IF h = a THEN old ELSE new],
               faults |-> {"crash", "answer"}]

LaunchWorlds == {AllFaults, Redeployed}

\* What it takes for a handle to work on beside its successor.
CommitWorlds == {[config |-> [h \in Handles |-> old], faults |-> {"survive", "commit"}]}

\* Nothing fails.
StopWorlds == {[config |-> [h \in Handles |-> old], faults |-> {}]}
=============================================================================
