------------------------------ MODULE LogStore ------------------------------
(***************************************************************************)
(* The log-structured store of crates/storage/src/log.rs.  The file is a   *)
(* sequence of cells: a record is one header cell (key, kind and length)   *)
(* followed by the symbols of its value.  Offsets and sizes count cells,   *)
(* so that a write may stop half way through a record.                     *)
(***************************************************************************)
EXTENDS Naturals, Sequences, FiniteSets, Enumeration

CONSTANTS
    Keys,        \* a finite set of numbers: BTreeMap iterates in key order
    Symbols,     \* what the bytes of a value are made of
    Values,      \* the values put is called with: sequences of symbols
    None,
    MinCompact,  \* MIN_COMPACT, in cells
    MaxFile,     \* bound on the file, in cells
    MaxFaults    \* bound on the number of failed operations and crashes

ASSUME KeysAssumption == 0 \in Keys /\ Keys \subseteq Nat /\ IsFiniteSet(Keys)
ASSUME ValuesAssumption == Values \subseteq Seq(Symbols)

VARIABLES
    file,    \* the cells of the backing file, as a read sees them
    synced,  \* how many leading cells the last successful flush covers
    index,   \* key -> [off, len] of its live value, or None
    end,     \* where the next record goes
    dead,    \* cells of superseded records and tombstones
    up,      \* the process runs
    may,     \* history: per key, the values a later get may return
    faults   \* history: failures so far

vars == <<file, synced, index, end, dead, up, may, faults>>
memory == <<index, end, dead>>

Headers == [key : Keys, kind : {"put", "del"}, len : Nat]
ASSUME CellsAssumption == /\ \A c \in Symbols : c \notin Headers
                          /\ None \notin [off : Nat, len : Nat]

Header(key, kind, len) == [key |-> key, kind |-> kind, len |-> len]
IsHeader(c) == c \notin Symbols

\* A cell of a hole: zero bytes read as the header of an empty value of key 0.
Zero == Header(0, "put", 0)

\* encode_record
Record(key, kind, value) == <<Header(key, kind, Len(value))>> \o value

\* SyncFile::write_at; a write past the end leaves a hole.
WriteAt(f, off, cells) ==
    LET last == IF off + Len(cells) > Len(f) THEN off + Len(cells) ELSE Len(f) IN
    [i \in 1 .. last |-> CASE i > off /\ i <= off + Len(cells) -> cells[i - off]
                           [] i <= Len(f) /\ (i <= off \/ i > off + Len(cells)) -> f[i]
                           [] OTHER -> Zero]

\* What a live entry occupies in the file.
RecordCells(old) == IF old = None THEN 0 ELSE 1 + old.len

-----------------------------------------------------------------------------
\* Mutant: open takes a record whose value is cut short.
CompleteUnchecked(f, p) == p < Len(f) /\ IsHeader(f[p + 1])

\* A whole record starts after cell p: the loop of open stops where this fails.
Complete(f, p) == /\ p < Len(f)
                  /\ IsHeader(f[p + 1])
                  /\ p + 1 + f[p + 1].len <= Len(f)

\* One turn of the loop of open, at a whole record.
ReplayRecord(f, s) ==
    LET h == f[s.pos + 1] IN
    [index |-> [s.index EXCEPT ![h.key] = IF h.kind = "put"
                                          THEN [off |-> s.pos + 1, len |-> h.len]
                                          ELSE None],
     pos   |-> s.pos + 1 + h.len,
     dead  |-> s.dead + RecordCells(s.index[h.key]) + (IF h.kind = "del" THEN 1 ELSE 0)]

\* The loop's variables: the index, the position and the dead space.
ReplayStates == [index : [Keys -> [off : Nat, len : Nat] \cup {None}], pos : Nat, dead : Nat]
ReplayStart == [index |-> [k \in Keys |-> None], pos |-> 0, dead |-> 0]
ReplayTurn(f) == [s \in ReplayStates |-> IF Complete(f, s.pos) THEN ReplayRecord(f, s) ELSE s]

\* Their values after each turn.
Turns(f) ==
    LET turn[n \in Nat] ==
            IF n = 0 THEN ReplayStart ELSE ReplayTurn(f)[turn[n - 1]]
    IN turn

\* What the loop of open computes.  A record has a cell at least, so that it takes no more
\* turns than the file has cells.
Replay(f) == Turns(f)[Len(f)]

\* get: None, the value, or cells of something else when the index is wrong.
Get(f, idx, k) ==
    IF idx[k] = None THEN None
    ELSE [i \in 1 .. idx[k].len |-> IF idx[k].off + i <= Len(f) THEN f[idx[k].off + i] ELSE Zero]

\* What the open store answers; while it is closed, what open would answer.
View == IF up THEN [k \in Keys |-> Get(file, index, k)]
        ELSE [k \in Keys |-> Get(file, Replay(file).index, k)]

-----------------------------------------------------------------------------
\* Mutant: delete counts its tombstone only.
LoggedOldUncounted(k, kind, value) ==
    LET rec == Record(k, kind, value) IN
    [file  |-> WriteAt(file, end, rec),
     index |-> [index EXCEPT ![k] = IF kind = "put"
                                    THEN [off |-> end + 1, len |-> Len(value)]
                                    ELSE None],
     end   |-> end + Len(rec),
     dead  |-> dead + (IF kind = "del" THEN 1 ELSE RecordCells(index[k]))]

Logged(k, kind, value) ==
    LET rec == Record(k, kind, value) IN
    [file  |-> WriteAt(file, end, rec),
     index |-> [index EXCEPT ![k] = IF kind = "put"
                                    THEN [off |-> end + 1, len |-> Len(value)]
                                    ELSE None],
     end   |-> end + Len(rec),
     dead  |-> dead + RecordCells(index[k]) + (IF kind = "del" THEN 1 ELSE 0)]

\* One turn of the loop of compact, for a live key.
Rewrite(s, fresh, k) ==
    LET v == Get(s.file, s.index, k) IN
    [file  |-> fresh.file \o Record(k, "put", v),
     index |-> [fresh.index EXCEPT ![k] = [off |-> Len(fresh.file) + 1, len |-> Len(v)]]]

\* The rewrite compact prepares, key after key in order: the records and the index over them.
LiveKeys(s) == {k \in Keys : s.index[k] # None}
Rewrites(s) ==
    LET live == Ascending(LiveKeys(s))
        done[n \in 0 .. Cardinality(LiveKeys(s))] ==
            IF n = 0 THEN [file |-> <<>>, index |-> [k \in Keys |-> None]]
            ELSE Rewrite(s, done[n - 1], live[n])
    IN done
Fresh(s) == Rewrites(s)[Cardinality(LiveKeys(s))]

\* compact
Compacted(s) ==
    LET fresh == Fresh(s) IN
    [file |-> fresh.file, index |-> fresh.index, end |-> Len(fresh.file), dead |-> 0]

\* maybe_compact
MaybeCompacted(s) ==
    IF s.end > MinCompact /\ 2 * s.dead > s.end THEN Compacted(s) ELSE s

Become(s) == /\ file' = s.file
             /\ index' = s.index
             /\ end' = s.end
             /\ dead' = s.dead

Settled(k, x) == may' = [may EXCEPT ![k] = {x}]
InDoubt(k, x) == may' = [may EXCEPT ![k] = @ \cup {x}]
CountFault == faults < MaxFaults /\ faults' = faults + 1

-----------------------------------------------------------------------------
Init == /\ file = <<>> /\ synced = 0
        /\ index = [k \in Keys |-> None]
        /\ end = 0 /\ dead = 0
        /\ up = TRUE
        /\ may = [k \in Keys |-> {None}]
        /\ faults = 0

Put(k, v) ==
    /\ up /\ end + 1 + Len(v) <= MaxFile
    /\ Become(MaybeCompacted(Logged(k, "put", v)))
    /\ synced' = Len(file')
    /\ Settled(k, v)
    /\ UNCHANGED <<up, faults>>

Delete(k) ==
    /\ up /\ end + 1 <= MaxFile
    /\ IF index[k] = None
       THEN UNCHANGED <<file, synced, memory>>
       ELSE /\ Become(MaybeCompacted(Logged(k, "del", <<>>)))
            /\ synced' = Len(file')
    /\ Settled(k, None)
    /\ UNCHANGED <<up, faults>>

Compact ==
    /\ up
    /\ Become(Compacted([file |-> file, index |-> index, end |-> end, dead |-> dead]))
    /\ synced' = Len(file')
    /\ UNCHANGED <<up, may, faults>>

\* The record was written, but flush returned an error.
PutFlushFails(k, v) ==
    /\ up /\ end + 1 + Len(v) <= MaxFile /\ CountFault
    /\ Become(Logged(k, "put", v))
    /\ InDoubt(k, v)
    /\ UNCHANGED <<synced, up>>

\* write_at stopped after n cells and returned an error: nothing else ran.
PutWriteFails(k, v, n) ==
    /\ up /\ end + 1 + Len(v) <= MaxFile /\ CountFault
    /\ file' = WriteAt(file, end, SubSeq(Record(k, "put", v), 1, n))
    /\ InDoubt(k, v)
    /\ UNCHANGED <<synced, memory, up>>

\* The index entry is gone before the tombstone is written.
DeleteWriteFails(k, n) ==
    /\ up /\ index[k] # None /\ end + 1 <= MaxFile /\ CountFault
    /\ file' = WriteAt(file, end, SubSeq(Record(k, "del", <<>>), 1, n))
    /\ index' = [index EXCEPT ![k] = None]
    /\ InDoubt(k, None)
    /\ UNCHANGED <<synced, end, dead, up>>

\* The tombstone was written, but flush returned an error.
DeleteFlushFails(k) ==
    /\ up /\ index[k] # None /\ end + 1 <= MaxFile /\ CountFault
    /\ Become(Logged(k, "del", <<>>))
    /\ InDoubt(k, None)
    /\ UNCHANGED <<synced, up>>

Stop == /\ up' = FALSE
        /\ index' = [k \in Keys |-> None] /\ end' = 0 /\ dead' = 0

\* The process stops between two operations: cells past the last flush may be lost.
Crash ==
    /\ up /\ CountFault /\ Stop
    /\ \E n \in synced .. Len(file) : file' = SubSeq(file, 1, n)
    /\ synced' = Len(file')
    /\ UNCHANGED may

\* The process stops while put or delete writes its record: n of its cells are on disk.
CrashWriting(k, kind, v, n) ==
    /\ up /\ end + 1 + Len(v) <= MaxFile /\ CountFault /\ Stop
    /\ kind = "del" => index[k] # None
    /\ file' = WriteAt(file, end, SubSeq(Record(k, kind, v), 1, n))
    /\ synced' = Len(file')
    /\ InDoubt(k, IF kind = "put" THEN v ELSE None)

\* The process stops inside compact, after truncate(0) and n cells of the rewrite.
CrashCompacting(n) ==
    /\ up /\ CountFault /\ Stop
    /\ LET fresh == Fresh([file |-> file, index |-> index]).file
       IN file' = SubSeq(fresh, 1, IF n > Len(fresh) THEN Len(fresh) ELSE n)
    /\ synced' = Len(file')
    /\ UNCHANGED may

\* compact stopped with an error after truncate(0) and n cells, or in flush: the
\* index still describes the old file.
CompactFails(n) ==
    /\ up /\ CountFault
    /\ LET fresh == Fresh([file |-> file, index |-> index]).file
       IN file' = SubSeq(fresh, 1, IF n > Len(fresh) THEN Len(fresh) ELSE n)
    /\ synced' = 0
    /\ UNCHANGED <<memory, up, may>>

\* open: replay, then cut the file after the last complete record.
Open ==
    /\ ~up
    /\ LET r == Replay(file) IN
       /\ index' = r.index /\ end' = r.pos /\ dead' = r.dead
       /\ file' = SubSeq(file, 1, r.pos)
    /\ synced' = Len(file')
    /\ up' = TRUE
    /\ UNCHANGED <<may, faults>>

-----------------------------------------------------------------------------
Kinds == {<<"put", v>> : v \in Values} \cup {<<"del", <<>>>>}
PartOf(kv) == 0 .. 1 + Len(kv[2])

\* Operations, flush errors and crashes, a crash inside a record write included.
Next == \/ \E k \in Keys, v \in Values : Put(k, v) \/ PutFlushFails(k, v)
        \/ \E k \in Keys : Delete(k)
        \/ Compact
        \/ Crash
        \/ \E k \in Keys, kv \in Kinds : \E n \in PartOf(kv) :
               CrashWriting(k, kv[1], kv[2], n)
        \/ Open

Spec == Init /\ [][Next]_vars

\* The store with everything that can go wrong in it: writes that stop half way and
\* return an error, and compactions that fail or are cut short.
NextFaults == \/ Next
              \/ \E k \in Keys : DeleteWriteFails(k, 0) \/ DeleteFlushFails(k)
              \/ \E k \in Keys, v \in Values : \E n \in 0 .. Len(v) : PutWriteFails(k, v, n)
              \/ \E n \in 0 .. MaxFile : CrashCompacting(n) \/ CompactFails(n)

SpecFaults == Init /\ [][NextFaults]_vars

-----------------------------------------------------------------------------
\* A get of the running store, or of the store as open would rebuild it, returns the
\* value of the last put or delete that returned Ok, or of a later one that failed
\* (LogStore::put, delete, get, open).
ReadsAcked == \A k \in Keys : View[k] \in may[k]

\* The in-memory index, the append position and the dead-space counter that put,
\* delete and compact keep up to date are those open would compute from the file.
ReplayAgrees == up => LET r == Replay(file) IN
                      /\ r.index = index
                      /\ r.pos = end
                      /\ r.dead = dead

\* The store implements the map Store promises, crashes inside a record included.
KV == INSTANCE KVStore WITH kv <- View
Implements == KV!KVSpec
=============================================================================
