--------------------------- MODULE StorageProofs ---------------------------
(***************************************************************************)
(* What the two sides of a TeeStore keep together, for every set of keys   *)
(* and values, and that the composed storage runs the log-structured store *)
(* as LogStore has it.                                                     *)
(***************************************************************************)
EXTENDS Storage, TLAPS

\* The cache may only hold what the calls allow; the primary may besides be empty, which
\* sends the reader to the cache.
TeeInv ==
    /\ primary \in [Keys -> Tee!Contents] /\ primaryMay \in [Keys -> SUBSET Tee!Contents]
    /\ cache \in [Keys -> Tee!Contents] /\ cacheMay \in [Keys -> SUBSET Tee!Contents]
    /\ teeMay \in [Keys -> SUBSET Tee!Contents]
    /\ \A k \in Keys :
         /\ primary[k] \in primaryMay[k] /\ primaryMay[k] \subseteq teeMay[k] \cup {None}
         /\ cache[k] \in cacheMay[k] /\ cacheMay[k] \subseteq teeMay[k]

\* Every call, error and restart keeps it.
LEMMA TeeStep ==
    ASSUME TeeInv, Tee!Next \/ UNCHANGED teeVars
    PROVE  TeeInv'
<1> USE DEF TeeInv, Tee!Contents, Tee!P!Contents, Tee!C!Contents
<1>1. ASSUME NEW k \in Keys, NEW x \in Tee!Contents, Tee!Write(k, x)
      PROVE  TeeInv'
  BY <1>1 DEF Tee!Write, Tee!Mirror, Tee!P!Write, Tee!C!Write
<1>2. ASSUME NEW k \in Keys, NEW x \in Tee!Contents, Tee!PrimaryFails(k, x)
      PROVE  TeeInv'
  BY <1>2 DEF Tee!PrimaryFails, Tee!P!WriteInDoubt
<1>3. ASSUME NEW k \in Keys, NEW x \in Tee!Contents, Tee!CacheFails(k, x)
      PROVE  TeeInv'
  BY <1>3 DEF Tee!CacheFails, Tee!P!Write, Tee!C!WriteInDoubt
<1>4. CASE Tee!Reopen
  BY <1>4 DEF Tee!Reopen, Tee!P!Settle, Tee!C!Settle
<1>5. CASE Tee!LosePrimary
  BY <1>5 DEF Tee!LosePrimary, Tee!C!Settle
<1>6. CASE UNCHANGED teeVars
  BY <1>6 DEF teeVars
<1> QED
  BY <1>1, <1>2, <1>3, <1>4, <1>5, <1>6 DEF Tee!Next

\* A read returns what the last successful call left or a later failed one was to write,
\* also when the primary is lost, and the cache alone has the last value of every key that
\* is not in doubt (TeeStore::get, put, delete).
THEOREM TeeKeepsWrites == StorageSpec => []TeeKeeps
<1>1. StorageInit => TeeInv
  BY DEF StorageInit, Tee!Init, Tee!P!KVInit, Tee!C!KVInit, TeeInv, Tee!Contents
<1>2. TeeInv /\ [StorageNext]_storageVars => TeeInv'
  <2>1. [StorageNext]_storageVars => Tee!Next \/ UNCHANGED teeVars
    BY DEF StorageNext, storageVars
  <2> QED
    BY <2>1, TeeStep
<1>3. TeeInv => TeeKeeps
  BY DEF TeeInv, TeeKeeps, Tee!ReadsInDoubt, Tee!CacheComplete, Tee!Get, Tee!Contents
<1> QED
  BY <1>1, <1>2, <1>3, PTL DEF StorageSpec

\* Each behaviour of the composed storage is one of the log-structured store.
THEOREM StorageRunsLogStore == StorageSpec => Spec
<1>1. StorageInit => Init
  BY DEF StorageInit
<1>2. [StorageNext]_storageVars => [Next]_vars
  BY DEF StorageNext, storageVars
<1> QED
  BY <1>1, <1>2, PTL DEF StorageSpec, Spec
=============================================================================
