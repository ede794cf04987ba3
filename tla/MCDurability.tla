---------------------------- MODULE MCDurability ----------------------------
(* Deployments of Durability for TLC. *)
EXTENDS Durability

\* Deployments and faults under which acknowledged commands survive: fsync per record against
\* power loss, either policy against the death of the process, I/O errors that stop the process.
SafeSettings ==
    {[app |-> "live", group |-> 1, faults |-> {"PowerLoss"}],
     [app |-> "live", group |-> 2, faults |-> {"Kill", "IoError"}],
     [app |-> "gateway", group |-> 1, faults |-> {"PowerLoss"}]}

\* A kill followed by a power loss before the page cache is written back.
KillThenPowerLoss == {[app |-> "live", group |-> 1, faults |-> {"Kill", "PowerLoss"}]}

\* The gateway's handling of a durability failure.
GatewayIoError == {[app |-> "gateway", group |-> 1, faults |-> {"IoError", "Kill"}]}
=============================================================================
