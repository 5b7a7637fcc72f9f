---------------------------- MODULE FileLabState ----------------------------
(***************************************************************************)
(* FileLabState: the JSON files and the lock files of the lab tools, used  *)
(* by several processes (command lines and threads of the local web        *)
(* server) without any lock around a file.  Every write of a JSON file     *)
(* replaces it with what the process has read before, changed: os.replace  *)
(* makes the write atomic, and a write between the read and the write of   *)
(* another process is lost.                                                *)
(*                                                                         *)
(* The model follows one operation with one public command plan; Plans are *)
(* its variants that differ in their secrets, which only the private hash  *)
(* of a dry-run record tells apart.                                        *)
(*                                                                         *)
(* A process that is killed takes no further step, as does one in which    *)
(* release_locks raises an error: no fairness is assumed anywhere.         *)
(***************************************************************************)
CONSTANTS
    Procs,    \* processes and threads; each one runs one command
    Devices,  \* rows of the inventory workbook
    Plans,    \* command plans that differ in their secrets
    None      \* no plan, nothing read

ASSUME FileLabStateAssumption == None \notin Plans

\* The contents of the files, as far as they matter: devices with a reserved
\* row in locks.json, the dry-run record of a device, the plan for which its
\* latest evaluation lets it be certified, devices with an approved lab
\* validation, and devices with a sanitized backup.
Disk == [locks       : SUBSET Devices,
         dryRuns     : [Devices -> Plans \cup {None}],
         evaluations : [Devices -> Plans \cup {None}],
         validations : SUBSET Devices,
         backups     : SUBSET Devices]

VARIABLES
    disk,   \* the JSON files
    guards, \* devices whose lock file exists
    copy,   \* copy[p]: the content that p has read in order to write it back
    dev,    \* dev[p]: the device of the command of p
    pc      \* pc[p]: where process p is

Goto(p, label) == pc' = [pc EXCEPT ![p] = label]

\* read_*: the content of a file.
ReadFile(p, content, label) ==
    /\ copy' = [copy EXCEPT ![p] = content]
    /\ Goto(p, label)
    /\ UNCHANGED <<disk, guards>>

\* _write_json
WriteFile(p, file, content, label) ==
    /\ disk' = [disk EXCEPT ![file] = content]
    /\ copy' = [copy EXCEPT ![p] = None]
    /\ Goto(p, label)

-----------------------------------------------------------------------------
(* reserve_lock                                                            *)

\* Mutant: the lock file is opened without O_EXCL.
CreateGuardShared(p) ==
    /\ pc[p] = "guard"
    /\ guards' = guards \cup {dev[p]}
    /\ Goto(p, "active")
    /\ UNCHANGED <<disk, copy>>

\* os.open(guard, O_CREAT | O_EXCL): FileExistsError refuses the reservation.
CreateGuard(p) ==
    /\ pc[p] = "guard"
    /\ \/ /\ dev[p] \notin guards
          /\ guards' = guards \cup {dev[p]}
          /\ Goto(p, "active")
       \/ /\ dev[p] \in guards
          /\ Goto(p, "done")
          /\ UNCHANGED guards
    /\ UNCHANGED <<disk, copy>>

\* The except branch: the own lock file is removed and the command fails.
GiveUpGuard(p) ==
    /\ guards' = guards \ {dev[p]}
    /\ copy' = [copy EXCEPT ![p] = None]
    /\ Goto(p, "done")
    /\ UNCHANGED disk

\* has_active_lock under the guard: a reserved row refuses as well.
CheckActiveLock(p) ==
    /\ pc[p] = "active"
    /\ \/ /\ dev[p] \notin disk.locks
          /\ Goto(p, "readLocks")
          /\ UNCHANGED <<disk, guards, copy>>
       \/ /\ dev[p] \in disk.locks
          /\ GiveUpGuard(p)

ReserveRead(p) == pc[p] = "readLocks" /\ ReadFile(p, disk.locks, "writeLocks")

ReserveWrite(p) ==
    /\ pc[p] = "writeLocks"
    /\ WriteFile(p, "locks", copy[p] \cup {dev[p]}, "session")
    /\ UNCHANGED guards

\* Reading or writing a file raises an error.
ReserveFails(p) ==
    /\ pc[p] \in {"active", "readLocks", "writeLocks"}
    /\ GiveUpGuard(p)

-----------------------------------------------------------------------------
(* release_locks                                                           *)

ReleaseRead(p) == pc[p] = "release" /\ ReadFile(p, disk.locks, "writeReleased")

ReleaseWrite(p) ==
    /\ pc[p] = "writeReleased"
    /\ WriteFile(p, "locks", copy[p] \ {dev[p]}, "unlink")
    /\ UNCHANGED guards

Unlink(p) ==
    /\ pc[p] = "unlink"
    /\ guards' = guards \ {dev[p]}
    /\ Goto(p, "done")
    /\ UNCHANGED <<disk, copy>>

-----------------------------------------------------------------------------
(* The lock of a device belongs to the process that has created its file,  *)
(* until it removes the file.                                              *)

Holding(p) == pc[p] \in {"active", "readLocks", "writeLocks", "session", "release",
                         "writeReleased", "unlink"}
=============================================================================
