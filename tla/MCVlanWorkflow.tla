--------------------------- MODULE MCVlanWorkflow ---------------------------
(***************************************************************************)
(* Instances of VlanWorkflow for TLC.                                      *)
(***************************************************************************)
EXTENDS VlanWorkflow, TLC

\* Every device is rendered as Cisco IOS.
AllCisco == [d \in Devices |-> "cisco"]

\* The former access VLAN of the port is found in the snapshot, or is not.
AccessConfigs == [name : {NoName}, mode : {"access"}, access : {30}, trunk : {FALSE},
                  text : [name : {NoName}, access : {NoVlan, 30}]]

DeviceSymmetry == Permutations(Devices)
=============================================================================
