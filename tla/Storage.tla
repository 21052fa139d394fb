------------------------------ MODULE Storage -------------------------------
(***************************************************************************)
(* The three parts of crates/storage side by side: a behaviour is one of   *)
(* LogStore, of TeeStore or of Bitfield, as part says.                     *)
(***************************************************************************)
EXTENDS LogStore

CONSTANTS WordBits, PageWords, Indices                    \* Bitfield

VARIABLES part,
          primary, primaryMay, cache, cacheMay, teeMay,   \* TeeStore
          pages, bits                                     \* Bitfield

Tee == INSTANCE TeeStore WITH may <- teeMay
Bits == INSTANCE Bitfield

teeVars == <<primary, primaryMay, cache, cacheMay, teeMay>>
bitVars == <<pages, bits>>
storageVars == <<part, vars, teeVars, bitVars>>

StorageInit == part \in {"log", "tee", "bits"} /\ Init /\ Tee!Init /\ Bits!Init

StorageNext ==
    /\ UNCHANGED part
    /\ \/ part = "log" /\ Next /\ UNCHANGED <<teeVars, bitVars>>
       \/ part = "tee" /\ Tee!Next /\ UNCHANGED <<vars, bitVars>>
       \/ part = "bits" /\ Bits!Next /\ UNCHANGED <<vars, teeVars>>

StorageSpec == StorageInit /\ [][StorageNext]_storageVars

\* TeeStore answers as its two sides allow: what get returns is what the last successful call
\* on the key left, or what a failed call after it was to write, also when the primary is lost
\* and the cache takes over; and the cache by itself holds the last value of every key whose
\* last call succeeded (TeeStore::put, get, delete; CachedFactory::open).
TeeKeeps == part = "tee" => Tee!ReadsInDoubt /\ Tee!CacheComplete

\* The paged words of a presence map answer get, count, find_first and find_last as the plain
\* set of the indices last set to true does (Bitfield).
QueriesAgree == part = "bits" => Bits!QueriesAgree
=============================================================================
