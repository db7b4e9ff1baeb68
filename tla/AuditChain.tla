----------------------------- MODULE AuditChain -----------------------------
(***************************************************************************)
(* The audit log of services/quant-gateway: record appends a row that      *)
(* carries the hash of the row before it, verify_chain follows the hashes  *)
(* through the rows that are left.                                         *)
(*                                                                         *)
(* record reads the end of the chain and inserts its row in one            *)
(* transaction that holds the write lock, so one call is one step of the   *)
(* log.  The hash is ideal: it is what is hashed.  Rows written before the *)
(* log had hashes, which verify_chain passes over, are left out.           *)
(***************************************************************************)
EXTENDS Integers, Sequences

GENESIS_HASH == "0"

\* _entry_hash
EntryHash(prev, row) == [prev |-> prev, row |-> row]

Entry(prev, row) == [row |-> row, prev_hash |-> prev, entry_hash |-> EntryHash(prev, row)]

\* The hash that the next row carries.
TailHash(log) == IF log = <<>> THEN GENESIS_HASH ELSE log[Len(log)].entry_hash

\* record
Recorded(log, row) == Append(log, Entry(TailHash(log), row))

\* verify_chain is ok: the first row is believed, every other must carry the hash
\* of the one before it, and each its own.
Verifies(rows) ==
    \A i \in 1..Len(rows) :
      /\ i > 1 => rows[i].prev_hash = rows[i - 1].entry_hash
      /\ rows[i].entry_hash = EntryHash(rows[i].prev_hash, rows[i].row)

-----------------------------------------------------------------------------
\* Each row has an audit_id of its own.
DistinctRows(log) == \A i, j \in 1..Len(log) : log[i].row = log[j].row => i = j

\* What is left of a log when only the rows at some positions are kept.
Kept(log, positions) == [j \in 1..Len(positions) |-> log[positions[j]]]

Increasing(positions) ==
    \A i, j \in 1..Len(positions) : i < j => positions[i] < positions[j]
=============================================================================
