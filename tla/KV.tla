--------------------------------- MODULE KV ---------------------------------
(***************************************************************************)
(* A database partition (database/src/database/partition.rs) as a function *)
(* from the keys that are present to their values.  A partition that only  *)
(* stores keys (PartitionKeyOnly, value ()) is a set and needs none of      *)
(* these operators.                                                        *)
(***************************************************************************)

\* A partition with no entry.
NoEntries == [k \in {} |-> k]

\* insert_wtx: add the entry, or overwrite the value already stored.
Put(m, key, value) ==
    [k \in DOMAIN m \cup {key} |-> IF k = key THEN value ELSE m[k]]

\* insert_wtx of one value under every key of a set.
PutAll(m, keys, value) ==
    [k \in DOMAIN m \cup keys |-> IF k \in keys THEN value ELSE m[k]]

\* remove_wtx for every key of a set; absent keys are ignored.
DelAll(m, keys) == [k \in DOMAIN m \ keys |-> m[k]]

\* remove_wtx.
Del(m, key) == DelAll(m, {key})
=============================================================================
