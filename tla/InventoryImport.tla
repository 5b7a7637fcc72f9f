--------------------------- MODULE InventoryImport ---------------------------
(***************************************************************************)
(* What the import of a device list does to the table of devices           *)
(* (InventoryValidationService.import_inventory): the rows are processed   *)
(* in order, in one transaction, each against what the rows before it left.*)
(* A row counts by its address, its hostname, and whether the credential   *)
(* that it names is known.                                                 *)
(***************************************************************************)
EXTENDS Naturals, Sequences

CONSTANTS
    Addresses,   \* management addresses
    BadAddress,  \* what normalize_inventory_record refuses as one
    NoDevice,    \* no device with the address
    NoHostname   \* no hostname given

Rows(hostnames) == [address : Addresses \cup {BadAddress},
                    name : hostnames \cup {NoHostname},
                    credential : {"missing", "assigned"}]

\* The device has the name of the row, and another address.
Namesake(table, row, a) ==
    /\ table[a] # NoDevice /\ table[a].name = row.name
    /\ a # row.address

\* Mutant: only a device that is new must not take the name of another.
HeldByOtherIfNew(table, row) ==
    /\ row.name # NoHostname
    /\ table[row.address] = NoDevice
    /\ \E a \in DOMAIN table : Namesake(table, row, a)

HeldElsewhere(table, row) ==
    /\ row.name # NoHostname
    /\ \E a \in DOMAIN table : Namesake(table, row, a)

\* The status that _process_row gives to a row.
Outcome(table, row, strict, dryRun) ==
    IF \/ row.address = BadAddress
       \/ HeldElsewhere(table, row)
       \/ strict /\ row.credential = "missing" THEN "invalid"
    ELSE IF dryRun THEN "valid"
    ELSE IF table[row.address] = NoDevice THEN "created" ELSE "updated"

\* upsert_device: an empty hostname leaves the one there is. Each import of a
\* row with a known credential adds an assignment.
Upserted(device, row) ==
    [name        |-> IF row.name = NoHostname /\ device # NoDevice THEN device.name ELSE row.name,
     credential  |-> row.credential,
     assignments |-> (IF device = NoDevice THEN 0 ELSE device.assignments)
                        + (IF row.credential = "assigned" THEN 1 ELSE 0)]

ProcessRow(result, row, strict, dryRun) ==
    LET outcome == Outcome(result.table, row, strict, dryRun) IN
    [table    |-> IF outcome \in {"created", "updated"}
                  THEN [result.table EXCEPT ![row.address] = Upserted(@, row)]
                  ELSE result.table,
     statuses |-> Append(result.statuses, outcome)]

\* The table after the import, and the status of every row, from which
\* finish_batch counts what it reports.
Import(table, rows, strict, dryRun) ==
    LET after[n \in 0 .. Len(rows)] ==
            IF n = 0 THEN [table |-> table, statuses |-> <<>>]
            ELSE ProcessRow(after[n - 1], rows[n], strict, dryRun)
    IN  after[Len(rows)]
=============================================================================
