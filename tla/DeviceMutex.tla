---------------------------- MODULE DeviceMutex ----------------------------
(***************************************************************************)
(* What every execution path promises about devices, whatever lock it      *)
(* uses: a device is worked on by one client at a time, and a client works *)
(* on one device at a time.  JobExecution implements it with rows of the   *)
(* device_locks table, FileLabState with lock files.                       *)
(***************************************************************************)
CONSTANTS Clients, Devices

VARIABLE holders  \* holders[d]: the clients that work on device d

Init == holders = [d \in Devices |-> {}]

Enter(c, d) ==
    /\ holders[d] = {}
    /\ \A e \in Devices : c \notin holders[e]
    /\ holders' = [holders EXCEPT ![d] = {c}]

Leave(c, d) ==
    /\ c \in holders[d]
    /\ holders' = [holders EXCEPT ![d] = @ \ {c}]

Next == \E c \in Clients, d \in Devices : Enter(c, d) \/ Leave(c, d)

Spec == Init /\ [][Next]_holders
=============================================================================
