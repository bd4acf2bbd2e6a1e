----------------------------- MODULE DeviceTable -----------------------------
(***************************************************************************)
(* The `devices` table of the gateway's SQLite database, as a function     *)
(* from row ids to rows, and the statements the gateway runs against it.   *)
(* The table is passed to each operator, so that every module that keeps a *)
(* `devices` variable shares one reading of the schema:                    *)
(*   - `id INTEGER PRIMARY KEY` without AUTOINCREMENT, so that SQLite gives *)
(*     a new row the id one above the largest id in use, and the id of the *)
(*     newest row is given out again once that row is deleted;             *)
(*   - `zid TEXT NOT NULL UNIQUE`, across all organisations.               *)
(* `reg` is not a column: it numbers the registrations, so that a property *)
(* can tell a device from a later one that was given the same row id.      *)
(***************************************************************************)
EXTENDS Naturals

CONSTANTS
  Zids,        \* Zenoh ids of the agents
  Orgs,        \* organisations (tenants)
  MaxDeviceId, \* bound on the row ids in use at once
  NoDevice     \* "no row with this id"

ASSUME MaxDeviceIdAssumption == MaxDeviceId \in Nat

DeviceIds == 1 .. MaxDeviceId

Device == [zid : Zids, org : Orgs, reg : Nat]

ASSUME NoDeviceAssumption == NoDevice \notin Device

Table == [DeviceIds -> Device \cup {NoDevice}]

EmptyTable == [id \in DeviceIds |-> NoDevice]

(* `SELECT ... WHERE id = ?1` finds a row. *)
Exists(table, id) == id \in DeviceIds /\ table[id] # NoDevice

(* get_in_org: the row exists and belongs to the caller's organisation. *)
InOrg(table, org, id) == Exists(table, id) /\ table[id].org = org

(* The UNIQUE constraint lets a row with this zid in. *)
ZidFree(table, zid) == \A id \in DeviceIds : Exists(table, id) => table[id].zid # zid

(* The row id SQLite gives to the next INSERT. *)
IsNextId(table, id) ==
  /\ \A i \in DeviceIds : i >= id => ~ Exists(table, i)
  /\ id > 1 => Exists(table, id - 1)

Inserted(table, id, zid, org, reg) ==
  [table EXCEPT ![id] = [zid |-> zid, org |-> org, reg |-> reg]]

Removed(table, id) == [table EXCEPT ![id] = NoDevice]
=============================================================================
