------------------------------ MODULE Archive ------------------------------
(***************************************************************************)
(* What the Parquet archive of raw trades promises to the batch jobs that  *)
(* read it, whoever writes it: files come into place one after another,    *)
(* with rows that passed validation, perhaps rows it has already; and no   *)
(* file ever goes.                                                         *)
(*                                                                         *)
(* A row stands for its event_id.  Backfill implements this specification; *)
(* Batch is built on it.                                                   *)
(***************************************************************************)
EXTENDS Integers

CONSTANTS
    Row,        \* the rows there can be, by event_id
    Archivable, \* those of valid trades
    MaxCopies   \* bound: copies of a row that are told apart

ASSUME ArchiveAssumption == Archivable \subseteq Row /\ MaxCopies \in Nat \ {0}

VARIABLE raw    \* [Row -> copies]

Rows   == [Row -> 0..MaxCopies]
NoRows == [r \in Row |-> 0]

Held(b) == {r \in Row : b[r] > 0}

\* mode("append"): one more copy of each row of S.
Appended(b, S) ==
    [r \in Row |-> IF r \in S /\ b[r] < MaxCopies THEN b[r] + 1 ELSE b[r]]

ArchiveInit == raw = NoRows

AppendFile(S) == raw' = Appended(raw, S)

ArchiveNext == \E S \in SUBSET Archivable : AppendFile(S)

ArchiveSpec == ArchiveInit /\ [][ArchiveNext]_raw
=============================================================================
