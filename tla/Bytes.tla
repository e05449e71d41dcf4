-------------------------------- MODULE Bytes ---------------------------------
(***************************************************************************)
(* Byte strings, as keys of database/src/database/partition.rs: u64 numbers *)
(* big-endian, and the order in which the store keeps keys.                *)
(***************************************************************************)
EXTENDS Naturals, SequencesExt

CONSTANTS Base,         \* values of a byte: 256
          Width         \* bytes of a u64: 8

ASSUME BytesAssumption == Base \in Nat \ {0, 1} /\ Width \in Nat \ {0}

\* A number shifted right by 0, 1, ... bytes.
Shifted(n) ==
    LET rest[k \in 0..Width] == IF k = 0 THEN n ELSE rest[k - 1] \div Base
    IN  rest

\* to_be_bytes
U64(n) == [i \in 1..Width |-> Shifted(n)[Width - i] % Base]

\* from_be_bytes
FromBytes(bytes) ==
    LET read[i \in 0..Len(bytes)] == IF i = 0 THEN 0 ELSE read[i - 1] * Base + bytes[i]
    IN  read[Len(bytes)]

MaxU64 == FromBytes([i \in 1..Width |-> Base - 1])

\* u64::MAX - n
Reversed(n) == U64(MaxU64 - n)

\* The n-th u64 from the end of a key.
Tail64(key, n) == FromBytes(SubSeq(key, Len(key) - n * Width + 1, Len(key) - (n - 1) * Width))
-----------------------------------------------------------------------------
(* Reading a partition whose keys are a set of byte strings.               *)

\* A key is smaller at the first byte that differs, or when it is a prefix.
Smaller(a, b) ==
    \/ IsStrictPrefix(a, b)
    \/ \E i \in 1..Len(a) \cap 1..Len(b) :
          a[i] < b[i] /\ \A j \in 1..(i - 1) : a[j] = b[j]

\* tx.prefix, and tx.range with an open end or an excluded one.
Prefixed(keys, prefix) == {k \in keys : IsPrefix(prefix, k)}
From(keys, start) == {k \in keys : ~ Smaller(k, start)}
Between(keys, start, end) == {k \in From(keys, start) : Smaller(k, end)}

\* next, and next_back or last_key_value, as a set with at most one key.
Least(keys) == {k \in keys : \A other \in keys : ~ Smaller(other, k)}
Greatest(keys) == {k \in keys : \A other \in keys : ~ Smaller(k, other)}
=============================================================================
