------------------------------ MODULE TeeStore ------------------------------
(***************************************************************************)
(* The write-through combinator of crates/storage (tee.rs): every write    *)
(* goes to the primary and then to the cache; reads prefer the primary.    *)
(* Each side keeps the promise of KVStore, errors and restarts included;   *)
(* the question is what the two together keep of it, also when a fresh     *)
(* container finds the primary empty.                                      *)
(***************************************************************************)
EXTENDS Naturals, FiniteSets

CONSTANTS Keys, Values, None

VARIABLES
    primary, primaryMay, cache, cacheMay,   \* the two sides, as KVStores
    may     \* history: the values get may return after the calls so far

vars == <<primary, primaryMay, cache, cacheMay, may>>

P == INSTANCE KVStore WITH kv <- primary, may <- primaryMay
C == INSTANCE KVStore WITH kv <- cache, may <- cacheMay

Init == P!KVInit /\ C!KVInit /\ may = [k \in Keys |-> {None}]

\* get
Get(k) == IF primary[k] # None THEN primary[k] ELSE cache[k]

\* Mutant: deletes are not mirrored.
MirrorPutsOnly(k, x) == IF x = None THEN UNCHANGED <<cache, cacheMay>> ELSE C!Write(k, x)

\* The second half of put and delete (x = None).
Mirror(k, x) == C!Write(k, x)

\* put and delete, when both sides succeed.
Write(k, x) == /\ P!Write(k, x) /\ Mirror(k, x)
               /\ may' = [may EXCEPT ![k] = {x}]

\* The error of the primary ends the call; the cache has not been asked.
PrimaryFails(k, x) == /\ P!WriteInDoubt(k, x) /\ UNCHANGED <<cache, cacheMay>>
                      /\ may' = [may EXCEPT ![k] = @ \cup {x}]

\* The error of the cache comes after the primary took the write.
CacheFails(k, x) == /\ P!Write(k, x) /\ C!WriteInDoubt(k, x)
                    /\ may' = [may EXCEPT ![k] = @ \cup {x}]

\* Both sides are opened again.
Reopen == P!Settle /\ C!Settle /\ UNCHANGED may

\* A fresh container: the primary is empty, the local cache is still there.
LosePrimary == /\ primary' = [k \in Keys |-> None] /\ primaryMay' = [k \in Keys |-> {None}]
               /\ C!Settle /\ UNCHANGED may

Contents == Values \cup {None}
Next == \/ \E k \in Keys, x \in Contents : Write(k, x) \/ PrimaryFails(k, x) \/ CacheFails(k, x)
        \/ Reopen
        \/ LosePrimary

Spec == Init /\ [][Next]_vars
-----------------------------------------------------------------------------
\* What get returns is what the last successful call on the key left, or what one of the
\* failed calls after it was to write, also when the primary is lost between two calls and
\* the cache takes over.  (It is weaker than KVStore in one case: after two failed calls, the
\* second a delete, the fallback may show the value from before both.)
ReadsInDoubt == \A k \in Keys : Get(k) \in may[k]

\* The local copy is complete by itself: it holds the last value of every key whose last
\* call succeeded, so the log can be recovered from it alone.
CacheComplete == \A k \in Keys : \A x \in Contents : may[k] = {x} => cache[k] = x
=============================================================================
