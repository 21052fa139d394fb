------------------------------ MODULE KVStore ------------------------------
(***************************************************************************)
(* What the trait Store of crates/storage promises: a map from keys to     *)
(* byte strings.  An operation that returns Ok has taken effect for good;  *)
(* an operation that returns an error, or that a crash cuts short, leaves  *)
(* its own key at the old or at the new value and touches no other key.    *)
(***************************************************************************)
CONSTANTS Keys, Values, None

VARIABLES
    kv,    \* what get returns for each key
    may    \* the values get is still allowed to return for each key

kvVars == <<kv, may>>

Contents == Values \cup {None}

KVTypeOK == /\ kv \in [Keys -> Contents]
            /\ may \in [Keys -> SUBSET Contents]

KVInit == /\ kv = [k \in Keys |-> None]
          /\ may = [k \in Keys |-> {None}]

\* put (x a value) or delete (x = None) returned Ok.
Write(k, x) == /\ kv' = [kv EXCEPT ![k] = x]
               /\ may' = [may EXCEPT ![k] = {x}]

\* The same operation returned an error or never returned.
WriteInDoubt(k, x) == /\ may' = [may EXCEPT ![k] = @ \cup {x}]
                      /\ \/ kv' = [kv EXCEPT ![k] = x]
                         \/ kv' = kv

\* A restart settles every key in doubt one way or the other.
Settle == /\ kv' \in [Keys -> Contents]
          /\ \A k \in Keys : kv'[k] \in may[k]
          /\ UNCHANGED may

KVNext == \/ \E k \in Keys, x \in Contents : Write(k, x) \/ WriteInDoubt(k, x)
          \/ Settle

KVSpec == KVInit /\ [][KVNext]_kvVars
=============================================================================
