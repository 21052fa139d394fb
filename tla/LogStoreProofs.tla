--------------------------- MODULE LogStoreProofs ---------------------------
(***************************************************************************)
(* The log-structured store keeps the promise of KVStore, for every set of *)
(* keys and values and whatever the bounds.  First what the loop of open   *)
(* computes from a file, then what the loop of compact writes, then the    *)
(* inductive invariant, the steps and the theorems.                        *)
(***************************************************************************)
EXTENDS LogStore, NaturalLemmas

Cells == Symbols \cup Headers
Files == Seq(Cells)

\* Two files have their first e cells in common.
Shares(f, g, e) == e \in Nat /\ e <= Len(f) /\ e <= Len(g) /\ \A i \in 1 .. e : f[i] = g[i]

\* g is f followed by the cells c.
Joins(f, c, g) == /\ g \in Files /\ Len(g) = Len(f) + Len(c) /\ Shares(f, g, Len(f))
                  /\ \A i \in 1 .. Len(c) : g[Len(f) + i] = c[i]

\* A turn of the loop of open takes loop variables to loop variables.
LEMMA TurnType ==
    ASSUME NEW f \in Files
    PROVE  ReplayTurn(f) \in [ReplayStates -> ReplayStates]
<1> SUFFICES ASSUME NEW s \in ReplayStates, Complete(f, s.pos)
             PROVE  ReplayRecord(f, s) \in ReplayStates
  BY DEF ReplayTurn
<1> DEFINE h == f[s.pos + 1]
<1>1. s.pos \in Nat /\ s.dead \in Nat /\ s.index \in [Keys -> [off : Nat, len : Nat] \cup {None}]
  BY DEF ReplayStates
<1>2. h \in Headers
  <2>1. s.pos + 1 \in 1 .. Len(f)
    BY <1>1 DEF Complete, Files
  <2>2. h \in Cells
    BY <2>1 DEF Files
  <2> QED
    BY <2>2 DEF Complete, IsHeader, Cells
<1>3. h.key \in Keys /\ h.len \in Nat
  BY <1>2 DEF Headers
<1> HIDE DEF h
<1>4. RecordCells(s.index[h.key]) \in Nat
  BY <1>1, <1>3 DEF RecordCells
<1>5. [s.index EXCEPT ![h.key] = IF h.kind = "put" THEN [off |-> s.pos + 1, len |-> h.len] ELSE None]
          \in [Keys -> [off : Nat, len : Nat] \cup {None}]
  <2>1. [off |-> s.pos + 1, len |-> h.len] \in [off : Nat, len : Nat]
    BY <1>1, <1>3
  <2> QED
    BY <1>1, <1>3, <2>1
<1>6. s.pos + 1 + h.len \in Nat
  BY <1>1, <1>3
<1>7. s.dead + RecordCells(s.index[h.key]) + (IF h.kind = "del" THEN 1 ELSE 0) \in Nat
  BY <1>1, <1>4
<1> QED
  BY <1>5, <1>6, <1>7 DEF ReplayRecord, ReplayStates, h

\* The loop of open starts with nothing and takes a turn at a time.
LEMMA TurnsRecursion ==
    ASSUME NEW f \in Files
    PROVE  /\ Turns(f) \in [Nat -> ReplayStates] /\ Turns(f)[0] = ReplayStart
           /\ \A n \in Nat : Turns(f)[n + 1] = ReplayTurn(f)[Turns(f)[n]]
<1> DEFINE g == [x \in Nat \X ReplayStates |-> ReplayTurn(f)[x[2]]]
           t == Turns(f)
<1>1. ReplayStart \in ReplayStates
  BY DEF ReplayStart, ReplayStates
<1>2. StaysIn(g, ReplayStates)
  BY TurnType DEF StaysIn
<1>3. \A n \in Nat, s \in ReplayStates : g[<<n, s>>] = ReplayTurn(f)[s]
  OBVIOUS
<1> HIDE DEF g
<1>4. PICK h : Follows(h, ReplayStates, ReplayStart, g)
  BY <1>1, <1>2, Recursion
<1>5. h = [n \in Nat |-> IF n = 0 THEN ReplayStart ELSE ReplayTurn(f)[h[n - 1]]]
  <2>1. ASSUME NEW n \in Nat, n # 0 PROVE h[n] = ReplayTurn(f)[h[n - 1]]
    <3>1. n - 1 \in Nat /\ (n - 1) + 1 = n
      BY <2>1
    <3> QED
      BY Zenon, <1>3, <1>4, <3>1 DEF Follows
  <2> QED
    BY <1>4, <2>1 DEF Follows
<1>6. t = [n \in Nat |-> IF n = 0 THEN ReplayStart ELSE ReplayTurn(f)[t[n - 1]]]
  BY <1>5 DEF Turns
<1> HIDE DEF t
<1>7. t[0] = ReplayStart /\ \A n \in Nat : t[n + 1] = ReplayTurn(f)[t[n]]
  <2>1. ASSUME NEW n \in Nat PROVE t[n + 1] = ReplayTurn(f)[t[n]]
    <3>1. n + 1 \in Nat /\ n + 1 # 0 /\ (n + 1) - 1 = n
      OBVIOUS
    <3> QED
      BY <1>6, <3>1
  <2> QED
    BY <1>6, <2>1
<1>8. \A n \in Nat : t[n] \in ReplayStates
  <2> DEFINE S == {n \in Nat : t[n] \in ReplayStates}
  <2>1. 0 \in S
    BY <1>1, <1>7
  <2>2. \A n \in Nat : n \in S => n + 1 \in S
    BY <1>7, TurnType
  <2>3. \A n \in Nat : n \in S
    <3> HIDE DEF S
    <3> QED
      BY <2>1, <2>2, Induction
  <2> QED
    BY <2>3
<1> QED
  BY <1>6, <1>7, <1>8 DEF t

\* The loop of open over f has its variables at s after some turn.
Reached(f, s) == \E n \in Nat : Turns(f)[n] = s

\* What holds at the start and is kept by every record holds after every turn.
LEMMA ReachInduction ==
    ASSUME NEW f \in Files, NEW S, ReplayStart \in S,
           \A s \in S : s \in ReplayStates /\ Complete(f, s.pos) => ReplayRecord(f, s) \in S
    PROVE  \A s : Reached(f, s) => s \in S
<1> DEFINE t == Turns(f)
           N == {n \in Nat : t[n] \in S}
<1>1. /\ t \in [Nat -> ReplayStates] /\ t[0] = ReplayStart
      /\ \A n \in Nat : t[n + 1] = ReplayTurn(f)[t[n]]
  BY TurnsRecursion
<1> HIDE DEF t
<1>2. 0 \in N
  BY <1>1
<1>3. ASSUME NEW n \in Nat, n \in N PROVE n + 1 \in N
  <2>1. t[n] \in ReplayStates /\ t[n] \in S
    BY <1>1, <1>3
  <2>2. t[n + 1] = IF Complete(f, t[n].pos) THEN ReplayRecord(f, t[n]) ELSE t[n]
    BY Zenon, <1>1, <2>1 DEF ReplayTurn
  <2> QED
    BY <2>1, <2>2
<1>4. \A n \in Nat : n \in N
  <2> HIDE DEF N
  <2> QED
    BY <1>2, <1>3, Induction
<1> QED
  BY <1>4 DEF Reached, t

\* The start is reached, and from a whole record the next turn.
LEMMA ReachSteps ==
    ASSUME NEW f \in Files
    PROVE  /\ Reached(f, ReplayStart)
           /\ \A s : Reached(f, s) => s \in ReplayStates
           /\ \A s : Reached(f, s) /\ Complete(f, s.pos) => Reached(f, ReplayRecord(f, s))
<1>1. /\ Turns(f) \in [Nat -> ReplayStates] /\ Turns(f)[0] = ReplayStart
      /\ \A n \in Nat : Turns(f)[n + 1] = ReplayTurn(f)[Turns(f)[n]]
  BY TurnsRecursion
<1>2. Reached(f, ReplayStart)
  BY <1>1 DEF Reached
<1>3. \A s : Reached(f, s) => s \in ReplayStates
  BY <1>1 DEF Reached
<1>4. ASSUME NEW s, Reached(f, s), Complete(f, s.pos) PROVE Reached(f, ReplayRecord(f, s))
  <2>1. PICK n \in Nat : Turns(f)[n] = s
    BY <1>4 DEF Reached
  <2>2. Turns(f)[n + 1] = ReplayTurn(f)[s] /\ n + 1 \in Nat
    BY <1>1, <2>1
  <2>3. ReplayTurn(f)[s] = ReplayRecord(f, s)
    BY <1>3, <1>4 DEF ReplayTurn
  <2> QED
    BY <2>2, <2>3 DEF Reached
<1> QED
  BY <1>2, <1>3, <1>4

\* The loop stays inside the file.
LEMMA ReachInside ==
    ASSUME NEW f \in Files, NEW s, Reached(f, s)
    PROVE  s.pos \in Nat /\ s.pos <= Len(f)
<1> DEFINE S == {r \in ReplayStates : r.pos <= Len(f)}
<1>1. Len(f) \in Nat
  BY DEF Files
<1>2. ReplayStart \in S
  BY <1>1, ReachSteps DEF ReplayStart
<1>3. ASSUME NEW r \in S, Complete(f, r.pos) PROVE ReplayRecord(f, r) \in S
  <2>1. ReplayRecord(f, r) \in ReplayStates
    BY <1>3, TurnType DEF ReplayTurn
  <2>2. ReplayRecord(f, r).pos <= Len(f)
    BY <1>3 DEF ReplayRecord, Complete
  <2> QED
    BY <2>1, <2>2
<1>4. s \in S
  <2> HIDE DEF S
  <2> QED
    BY <1>2, <1>3, ReachInduction
<1> QED
  BY <1>4 DEF ReplayStates

\* Once the loop has stopped it stays where it is.
LEMMA TurnsStay ==
    ASSUME NEW f \in Files, NEW n \in Nat, ~Complete(f, Turns(f)[n].pos), NEW m \in Nat, m >= n
    PROVE  Turns(f)[m] = Turns(f)[n]
<1> DEFINE t == Turns(f)
           N == {i \in Nat : t[n + i] = t[n]}
<1>1. /\ t \in [Nat -> ReplayStates]
      /\ \A i \in Nat : t[i + 1] = ReplayTurn(f)[t[i]]
  BY TurnsRecursion
<1>2. ~Complete(f, t[n].pos)
  OBVIOUS
<1> HIDE DEF t
<1>3. 0 \in N
  OBVIOUS
<1>4. ASSUME NEW i \in Nat, i \in N PROVE i + 1 \in N
  <2>1. n + i \in Nat /\ (n + i) + 1 = n + (i + 1) /\ t[n + i] = t[n]
    BY <1>4
  <2>2. t[n + (i + 1)] = ReplayTurn(f)[t[n]] /\ t[n] \in ReplayStates
    BY <1>1, <2>1
  <2> QED
    BY <1>2, <2>2 DEF ReplayTurn
<1>5. \A i \in Nat : i \in N
  <2> HIDE DEF N
  <2> QED
    BY <1>3, <1>4, Induction
<1>6. m - n \in Nat /\ n + (m - n) = m
  OBVIOUS
<1> QED
  BY <1>5, <1>6 DEF t

\* As many turns as the file has cells are enough: open ends where no whole record starts.
LEMMA ReplayStops ==
    ASSUME NEW f \in Files
    PROVE  Reached(f, Replay(f)) /\ ~Complete(f, Replay(f).pos)
<1> DEFINE t == Turns(f)
           N == {n \in Nat : t[n].pos >= n \/ ~Complete(f, t[n].pos)}
<1>1. /\ t \in [Nat -> ReplayStates] /\ t[0] = ReplayStart
      /\ \A n \in Nat : t[n + 1] = ReplayTurn(f)[t[n]]
  BY TurnsRecursion
<1>2. \A n \in Nat : t[n].pos \in Nat
  BY <1>1 DEF ReplayStates
<1>3. Len(f) \in Nat
  BY DEF Files
<1>4. \A s \in ReplayStates : Complete(f, s.pos) => ReplayRecord(f, s).pos >= s.pos + 1
  <2> SUFFICES ASSUME NEW s \in ReplayStates, Complete(f, s.pos)
               PROVE  s.pos + 1 + f[s.pos + 1].len >= s.pos + 1
    BY DEF ReplayRecord
  <2>1. s.pos \in Nat /\ s.pos + 1 \in 1 .. Len(f)
    BY <1>3 DEF ReplayStates, Complete
  <2>2. f[s.pos + 1] \in Headers
    BY <2>1 DEF Complete, IsHeader, Files, Cells
  <2>3. f[s.pos + 1].len \in Nat
    BY <2>2 DEF Headers
  <2> QED
    BY <2>1, <2>3
<1> HIDE DEF t
<1>5. 0 \in N
  BY <1>2
<1>6. ASSUME NEW n \in Nat, n \in N PROVE n + 1 \in N
  <2>1. t[n + 1] = IF Complete(f, t[n].pos) THEN ReplayRecord(f, t[n]) ELSE t[n]
    BY Zenon, <1>1 DEF ReplayTurn
  <2>2. CASE Complete(f, t[n].pos)
    <3>1. t[n].pos >= n /\ t[n + 1].pos >= t[n].pos + 1
      BY <1>1, <1>4, <1>6, <2>1, <2>2
    <3>2. t[n].pos \in Nat /\ t[n + 1].pos \in Nat
      BY <1>2
    <3> QED
      BY <3>1, <3>2
  <2>3. CASE ~Complete(f, t[n].pos)
    BY <2>1, <2>3
  <2> QED
    BY <2>2, <2>3
<1>7. \A n \in Nat : n \in N
  <2> HIDE DEF N
  <2> QED
    BY <1>5, <1>6, Induction
<1>8. t[Len(f)].pos >= Len(f) \/ ~Complete(f, t[Len(f)].pos)
  BY <1>3, <1>7
<1>9. ~Complete(f, t[Len(f)].pos)
  BY <1>2, <1>3, <1>8 DEF Complete
<1> QED
  BY <1>3, <1>9 DEF Replay, Reached, t

\* Where the loop is reached and no whole record starts is where open ends.
LEMMA ReachStop ==
    ASSUME NEW f \in Files, NEW s, Reached(f, s), ~Complete(f, s.pos)
    PROVE  Replay(f) = s
<1>1. PICK n \in Nat : Turns(f)[n] = s
  BY DEF Reached
<1>2. Len(f) \in Nat
  BY DEF Files
<1>3. CASE Len(f) >= n
  BY <1>1, <1>2, <1>3, TurnsStay DEF Replay
<1>4. CASE n >= Len(f)
  <2>1. ~Complete(f, Turns(f)[Len(f)].pos)
    BY ReplayStops DEF Replay
  <2> QED
    BY <1>1, <1>2, <1>4, <2>1, TurnsStay DEF Replay
<1> QED
  BY <1>2, <1>3, <1>4

\* What the loop does up to a position depends on the cells before it only.
LEMMA ReachPrefix ==
    ASSUME NEW f \in Files, NEW g \in Files, NEW e, Shares(f, g, e),
           NEW s, Reached(f, s), s.pos <= e
    PROVE  Reached(g, s)
<1> DEFINE S == {r \in ReplayStates : r.pos <= e => Reached(g, r)}
<1>1. ReplayStart \in S
  BY ReachSteps
<1>2. ASSUME NEW r \in S, Complete(f, r.pos) PROVE ReplayRecord(f, r) \in S
  <2>1. ReplayRecord(f, r) \in ReplayStates
    BY <1>2, TurnType DEF ReplayTurn
  <2> SUFFICES ASSUME ReplayRecord(f, r).pos <= e
               PROVE  Reached(g, ReplayRecord(f, r))
    BY <2>1
  <2> DEFINE h == f[r.pos + 1]
  <2>2. /\ r.pos \in Nat /\ r.pos + 1 \in 1 .. Len(f) /\ Len(f) \in Nat /\ Len(g) \in Nat
        /\ e \in Nat /\ e <= Len(g)
    BY <1>2 DEF ReplayStates, Complete, Files, Shares
  <2>3. h \in Headers
    BY <1>2, <2>2 DEF Complete, IsHeader, Files, Cells
  <2>4. h.len \in Nat /\ r.pos + 1 + h.len <= e
    BY <2>3 DEF Headers, ReplayRecord
  <2>5. r.pos <= e /\ g[r.pos + 1] = h
    <3> HIDE DEF h
    <3>1. r.pos + 1 \in 1 .. e
      BY <2>2, <2>4
    <3> QED
      BY <2>2, <3>1 DEF h, Shares
  <2>6. Reached(g, r) /\ Complete(g, r.pos)
    BY <1>2, <2>2, <2>4, <2>5 DEF Complete
  <2>7. ReplayRecord(g, r) = ReplayRecord(f, r)
    BY <2>5 DEF ReplayRecord
  <2> QED
    BY <2>6, <2>7, ReachSteps
<1>3. s \in S
  <2> HIDE DEF S
  <2> QED
    BY <1>1, <1>2, ReachInduction
<1> QED
  BY <1>3

-----------------------------------------------------------------------------
\* The loop's variables after one more record, of a value of len cells.
After(s, k, kind, len) ==
    [index |-> [s.index EXCEPT ![k] = IF kind = "put" THEN [off |-> s.pos + 1, len |-> len] ELSE None],
     pos   |-> s.pos + 1 + len,
     dead  |-> s.dead + RecordCells(s.index[k]) + (IF kind = "del" THEN 1 ELSE 0)]

\* A record written after the last one is replayed after the others.
LEMMA ReplayWhole ==
    ASSUME NEW f \in Files, NEW g \in Files, Replay(f).pos = Len(f),
           NEW k \in Keys, NEW kind \in {"put", "del"}, NEW n \in Nat,
           Len(g) = Len(f) + 1 + n, Shares(f, g, Len(f)),
           g[Len(f) + 1] = Header(k, kind, n)
    PROVE  Replay(g) = After(Replay(f), k, kind, n)
<1> DEFINE r == Replay(f)
           h == Header(k, kind, n)
<1>1. Len(f) \in Nat /\ Len(g) \in Nat
  BY DEF Files
<1>2. Reached(f, r) /\ r \in ReplayStates
  BY ReplayStops, ReachSteps
<1>3. Reached(g, r)
  BY <1>1, <1>2, ReachPrefix
<1>4. h \in Headers /\ h.key = k /\ h.kind = kind /\ h.len = n
  BY DEF Header, Headers
<1>5. IsHeader(h)
  BY <1>4, CellsAssumption DEF IsHeader
<1> HIDE DEF r, h
<1>6. r.pos = Len(f) /\ g[r.pos + 1] = h
  BY DEF r, h
<1>7. Complete(g, r.pos)
  BY <1>1, <1>4, <1>5, <1>6 DEF Complete
<1>8. Reached(g, ReplayRecord(g, r))
  BY <1>3, <1>7, ReachSteps
<1>9. ReplayRecord(g, r) = After(r, k, kind, n)
  BY Zenon, <1>4, <1>6 DEF ReplayRecord, After
<1>10. ~Complete(g, ReplayRecord(g, r).pos)
  BY <1>1, <1>6, <1>9 DEF Complete, After
<1>11. Replay(g) = ReplayRecord(g, r)
  BY <1>8, <1>10, ReachStop
<1> QED
  BY <1>9, <1>11 DEF r

\* A record that is not all there is as good as none.
LEMMA ReplayPart ==
    ASSUME NEW f \in Files, NEW g \in Files, Replay(f).pos = Len(f),
           NEW k, NEW kind, NEW n \in Nat,
           Len(g) < Len(f) + 1 + n, Shares(f, g, Len(f)),
           Len(g) > Len(f) => g[Len(f) + 1] = Header(k, kind, n)
    PROVE  Replay(g) = Replay(f)
<1> DEFINE r == Replay(f)
<1>1. Len(f) \in Nat /\ Len(g) \in Nat
  BY DEF Files
<1>2. Reached(f, r)
  BY ReplayStops
<1>3. Reached(g, r)
  BY <1>1, <1>2, ReachPrefix
<1>4. ~Complete(g, Len(f))
  <2>1. CASE Len(g) = Len(f)
    BY <1>1, <2>1 DEF Complete
  <2>2. CASE Len(g) # Len(f)
    <3>1. g[Len(f) + 1].len = n
      BY <1>1, <2>2 DEF Header, Shares
    <3> QED
      BY <1>1, <3>1 DEF Complete
  <2> QED
    BY <2>1, <2>2
<1> QED
  BY <1>3, <1>4, ReachStop

\* Cutting a file at a position the loop of open ends at, or anywhere before the end of the
\* record that follows it, changes nothing of what it computes.
LEMMA ReplayCut ==
    ASSUME NEW f \in Files, NEW g \in Files, Len(g) = Replay(f).pos, Shares(f, g, Len(g))
    PROVE  Replay(g) = Replay(f)
<1> DEFINE r == Replay(f)
<1>1. Len(f) \in Nat /\ Len(g) \in Nat
  BY DEF Files
<1>2. Reached(f, r)
  BY ReplayStops
<1>3. Reached(g, r)
  BY <1>1, <1>2, ReachPrefix
<1>4. ~Complete(g, r.pos)
  BY <1>1 DEF Complete
<1> QED
  BY <1>3, <1>4, ReachStop

\* The values of the index lie before the position, and behind their headers.
Inside(s) == \A k \in Keys : s.index[k] # None =>
                 s.index[k].off \in Nat /\ s.index[k].len \in Nat /\ s.index[k].off + s.index[k].len <= s.pos

LEMMA ReplayInside ==
    ASSUME NEW f \in Files
    PROVE  Replay(f) \in ReplayStates /\ Inside(Replay(f)) /\ Replay(f).pos <= Len(f)
<1> DEFINE S == {s \in ReplayStates : Inside(s)}
<1>1. ReplayStart \in S
  BY ReachSteps DEF ReplayStart, Inside
<1>2. ASSUME NEW s \in S, Complete(f, s.pos) PROVE ReplayRecord(f, s) \in S
  <2> DEFINE h == f[s.pos + 1]
             r == ReplayRecord(f, s)
  <2>1. r \in ReplayStates
    BY <1>2, TurnType DEF ReplayTurn
  <2>2. s.pos \in Nat /\ s.pos + 1 \in 1 .. Len(f) /\ s.index \in [Keys -> [off : Nat, len : Nat] \cup {None}]
    BY <1>2 DEF ReplayStates, Complete, Files
  <2>3. h \in Headers
    BY <1>2, <2>2 DEF Complete, IsHeader, Files, Cells
  <2>4. h.len \in Nat /\ h.key \in Keys
    BY <2>3 DEF Headers
  <2>5. /\ r.pos = s.pos + 1 + h.len
        /\ r.index = [s.index EXCEPT ![h.key] = IF h.kind = "put" THEN [off |-> s.pos + 1, len |-> h.len] ELSE None]
    BY DEF ReplayRecord
  <2> HIDE DEF h, r
  <2>6. ASSUME NEW k \in Keys, r.index[k] # None
        PROVE  /\ r.index[k].off \in Nat /\ r.index[k].len \in Nat
               /\ r.index[k].off + r.index[k].len <= r.pos
    <3>1. CASE k = h.key
      <4>1. r.index[k] = [off |-> s.pos + 1, len |-> h.len]
        BY <2>2, <2>4, <2>5, <2>6, <3>1
      <4> QED
        BY <2>2, <2>4, <2>5, <4>1
    <3>2. CASE k # h.key
      <4>1. r.index[k] = s.index[k]
        BY <2>2, <2>5, <3>2
      <4>2. s.index[k].off \in Nat /\ s.index[k].len \in Nat /\ s.index[k].off + s.index[k].len <= s.pos
        BY <1>2, <2>6, <4>1 DEF Inside
      <4>3. s.pos \in Nat /\ r.pos \in Nat /\ s.pos <= r.pos
        BY <2>2, <2>4, <2>5
      <4> QED
        BY <4>1, <4>2, <4>3
    <3> QED
      BY <3>1, <3>2
  <2> QED
    BY <2>1, <2>6 DEF Inside, r
<1>3. Replay(f) \in S
  <2> HIDE DEF S
  <2> QED
    BY <1>1, <1>2, ReachInduction, ReplayStops
<1> QED
  BY <1>3, ReplayStops, ReachInside

-----------------------------------------------------------------------------
\* What get answers for a key over a file as open indexes it.
Lookup(f, k) == Get(f, Replay(f).index, k)

\* The cells of two files one after the other.
LEMMA Joined ==
    ASSUME NEW f \in Files, NEW c \in Files
    PROVE  Joins(f, c, f \o c) /\ Len(f) \in Nat /\ Len(c) \in Nat
BY DEF Files, Joins, Shares

\* A write at the end of a file appends.
LEMMA WriteAtEnd ==
    ASSUME NEW f \in Files, NEW c \in Files
    PROVE  Joins(f, c, WriteAt(f, Len(f), c))
<1> DEFINE w == WriteAt(f, Len(f), c)
           at(i) == CASE i > Len(f) /\ i <= Len(f) + Len(c) -> c[i - Len(f)]
                      [] i <= Len(f) /\ (i <= Len(f) \/ i > Len(f) + Len(c)) -> f[i]
                      [] OTHER -> Zero
<1>1. Len(f) \in Nat /\ Len(c) \in Nat
  BY DEF Files
<1>2. w = [i \in 1 .. Len(f) + Len(c) |-> at(i)]
  <2>1. (IF Len(f) + Len(c) > Len(f) THEN Len(f) + Len(c) ELSE Len(f)) = Len(f) + Len(c)
    BY <1>1
  <2> QED
    BY <2>1 DEF WriteAt
<1>3. ASSUME NEW i \in 1 .. Len(f) PROVE at(i) = f[i] /\ f[i] \in Cells
  BY <1>1 DEF Files
<1>4. ASSUME NEW i \in 1 .. Len(c) PROVE at(Len(f) + i) = c[i] /\ c[i] \in Cells
  <2>1. Len(f) + i > Len(f) /\ Len(f) + i <= Len(f) + Len(c) /\ (Len(f) + i) - Len(f) = i
    BY <1>1
  <2>2. at(Len(f) + i) = c[(Len(f) + i) - Len(f)]
    BY <2>1
  <2> QED
    BY <2>1, <2>2 DEF Files
<1> HIDE DEF at
<1>5. ASSUME NEW i \in 1 .. Len(f) + Len(c) PROVE at(i) \in Cells
  <2>1. CASE i <= Len(f)
    BY <1>1, <1>3, <2>1
  <2>2. CASE i > Len(f)
    <3>1. i - Len(f) \in 1 .. Len(c) /\ Len(f) + (i - Len(f)) = i
      BY <1>1, <2>2
    <3> QED
      BY Zenon, <1>4, <3>1
  <2> QED
    BY <1>1, <2>1, <2>2
<1>6. w \in Files /\ Len(w) = Len(f) + Len(c)
  <2>1. Len(f) + Len(c) \in Nat
    BY <1>1
  <2> QED
    BY <1>2, <1>5, <2>1 DEF Files
<1> HIDE DEF w
<1>7. ASSUME NEW i \in 1 .. Len(f) PROVE f[i] = w[i]
  BY <1>1, <1>2, <1>3
<1>8. ASSUME NEW i \in 1 .. Len(c) PROVE w[Len(f) + i] = c[i]
  <2>1. Len(f) + i \in 1 .. Len(f) + Len(c)
    BY <1>1
  <2> QED
    BY <1>2, <1>4, <2>1
<1>9. Shares(f, w, Len(f))
  BY <1>1, <1>6, <1>7 DEF Shares
<1> QED
  BY <1>6, <1>8, <1>9 DEF Joins, w

\* A read inside the cells two files share gives the same value.
LEMMA GetShared ==
    ASSUME NEW f \in Files, NEW g \in Files, NEW e, Shares(f, g, e), NEW idx, NEW k,
           idx[k] # None =>
               idx[k].off \in Nat /\ idx[k].len \in Nat /\ idx[k].off + idx[k].len <= e
    PROVE  Get(g, idx, k) = Get(f, idx, k)
<1>1. CASE idx[k] = None
  BY <1>1 DEF Get
<1>2. CASE idx[k] # None
  <2> DEFINE o == idx[k].off
             l == idx[k].len
  <2>1. /\ o \in Nat /\ l \in Nat /\ o + l <= e /\ Len(f) \in Nat /\ Len(g) \in Nat
        /\ e \in Nat /\ e <= Len(f) /\ e <= Len(g)
    BY <1>2 DEF Files, Shares
  <2>2. /\ Get(f, idx, k) = [i \in 1 .. l |-> IF o + i <= Len(f) THEN f[o + i] ELSE Zero]
        /\ Get(g, idx, k) = [i \in 1 .. l |-> IF o + i <= Len(g) THEN g[o + i] ELSE Zero]
    BY <1>2 DEF Get
  <2> HIDE DEF o, l
  <2>3. ASSUME NEW i \in 1 .. l
        PROVE  (IF o + i <= Len(f) THEN f[o + i] ELSE Zero) = (IF o + i <= Len(g) THEN g[o + i] ELSE Zero)
    <3>1. o + i \in 1 .. e /\ o + i <= Len(f) /\ o + i <= Len(g)
      BY <2>1
    <3> QED
      BY <3>1 DEF Shares
  <2> QED
    BY <2>2, <2>3
<1> QED
  BY <1>1, <1>2

\* A record is a header and the cells of its value.
LEMMA RecordCellsOf ==
    ASSUME NEW k \in Keys, NEW kind \in {"put", "del"}, NEW v \in Files
    PROVE  /\ Record(k, kind, v) \in Files /\ Len(Record(k, kind, v)) = 1 + Len(v)
           /\ Len(v) \in Nat
           /\ Record(k, kind, v)[1] = Header(k, kind, Len(v))
           /\ \A i \in 1 .. Len(v) : Record(k, kind, v)[1 + i] = v[i]
<1>1. Len(v) \in Nat
  BY DEF Files
<1>2. Header(k, kind, Len(v)) \in Cells
  BY <1>1 DEF Header, Headers, Cells
<1> DEFINE h == Header(k, kind, Len(v))
<1> HIDE DEF h
<1>3. <<h>> \in Files /\ Len(<<h>>) = 1 /\ <<h>>[1] = h
  BY <1>2 DEF Files, h
<1>4. Record(k, kind, v) = <<h>> \o v
  BY DEF Record, h
<1>5. /\ <<h>> \o v \in Files /\ Len(<<h>> \o v) = 1 + Len(v) /\ <<h>>[1] = (<<h>> \o v)[1]
      /\ \A i \in 1 .. Len(v) : (<<h>> \o v)[1 + i] = v[i]
  <2>1. Joins(<<h>>, v, <<h>> \o v)
    BY <1>3, Joined
  <2> QED
    BY <1>1, <1>3, <2>1 DEF Joins, Shares
<1> QED
  BY <1>1, <1>3, <1>4, <1>5 DEF h

\* After a whole record its key has its value, or none after a tombstone, and every other key
\* the value it had.
LEMMA LookupWhole ==
    ASSUME NEW f \in Files, Replay(f).pos = Len(f),
           NEW k \in Keys, NEW kind \in {"put", "del"}, NEW v \in Files,
           NEW g, Joins(f, Record(k, kind, v), g)
    PROVE  /\ g \in Files /\ Len(g) = Len(f) + 1 + Len(v)
           /\ Replay(g) = After(Replay(f), k, kind, Len(v)) /\ Replay(g).pos = Len(g)
           /\ Lookup(g, k) = IF kind = "put" THEN v ELSE None
           /\ \A j \in Keys \ {k} : Lookup(g, j) = Lookup(f, j)
<1> DEFINE rec == Record(k, kind, v)
           n == Len(v)
<1>1. /\ rec \in Files /\ Len(rec) = 1 + n /\ n \in Nat /\ rec[1] = Header(k, kind, n)
      /\ \A i \in 1 .. n : rec[1 + i] = v[i]
  BY Zenon, RecordCellsOf
<1> HIDE DEF rec
<1>2. /\ g \in Files /\ Len(g) = Len(f) + 1 + n /\ Len(f) \in Nat /\ Shares(f, g, Len(f))
      /\ \A i \in 1 .. 1 + n : g[Len(f) + i] = rec[i]
  <2>1. Joins(f, rec, g) /\ Len(f) \in Nat
    BY DEF rec, Files
  <2>2. g \in Files /\ Len(g) = Len(f) + Len(rec) /\ Shares(f, g, Len(f))
        /\ \A i \in 1 .. Len(rec) : g[Len(f) + i] = rec[i]
    BY <2>1 DEF Joins
  <2>3. Len(f) + Len(rec) = Len(f) + 1 + n
    BY <1>1, <2>1
  <2> QED
    BY <1>1, <2>1, <2>2, <2>3
<1>3. g[Len(f) + 1] = Header(k, kind, n)
  BY <1>1, <1>2
<1> DEFINE entry == IF kind = "put" THEN [off |-> Len(f) + 1, len |-> n] ELSE None
<1>4. Replay(g) = After(Replay(f), k, kind, n)
  <2>1. n \in Nat /\ g \in Files /\ Len(g) = Len(f) + 1 + n /\ Shares(f, g, Len(f))
    BY <1>1, <1>2
  <2> HIDE DEF n
  <2> QED
    BY <1>3, <2>1, ReplayWhole
<1>5. Replay(f) \in ReplayStates /\ Inside(Replay(f))
  BY ReplayInside
<1> DEFINE old == Replay(f).index
           new == Replay(g).index
<1>6. old \in [Keys -> [off : Nat, len : Nat] \cup {None}] /\ new = [old EXCEPT ![k] = entry]
  BY <1>4, <1>5 DEF ReplayStates, After
<1>7. \A j \in Keys : old[j] # None => old[j].off \in Nat /\ old[j].len \in Nat /\ old[j].off + old[j].len <= Len(f)
  BY <1>5 DEF Inside
<1> HIDE DEF old, new
<1>8. ASSUME NEW j \in Keys \ {k} PROVE Lookup(g, j) = Lookup(f, j)
  <2>1. new[j] = old[j]
    BY <1>6
  <2>2. Get(g, old, j) = Get(f, old, j)
    BY <1>1, <1>2, <1>7, GetShared
  <2>3. Get(g, new, j) = Get(g, old, j)
    BY <2>1 DEF Get
  <2> QED
    BY <2>2, <2>3 DEF Lookup, old, new
<1>9. Lookup(g, k) = IF kind = "put" THEN v ELSE None
  <2>1. new[k] = entry
    BY <1>6
  <2>2. CASE kind = "put"
    <3>1. new[k] = [off |-> Len(f) + 1, len |-> n]
      BY <2>1, <2>2
    <3>2. [off |-> Len(f) + 1, len |-> n] # None
      BY <1>1, <1>2, CellsAssumption
    <3>3. new[k] # None /\ new[k].off = Len(f) + 1 /\ new[k].len = n
      BY <3>1, <3>2
    <3> DEFINE o == new[k].off
               l == new[k].len
    <3>4. Get(g, new, k) = [i \in 1 .. l |-> IF o + i <= Len(g) THEN g[o + i] ELSE Zero]
      BY <3>3 DEF Get
    <3>5. o = Len(f) + 1 /\ l = n
      BY <3>3
    <3> HIDE DEF o, l
    <3>6. ASSUME NEW i \in 1 .. l
          PROVE  (IF o + i <= Len(g) THEN g[o + i] ELSE Zero) = v[i]
      <4>1. i \in 1 .. n /\ 1 + i \in 1 .. 1 + n /\ o + i = Len(f) + (1 + i) /\ o + i <= Len(g)
        BY <1>1, <1>2, <3>5
      <4>2. g[Len(f) + (1 + i)] = rec[1 + i] /\ rec[1 + i] = v[i]
        BY <1>1, <1>2, <4>1
      <4> QED
        BY <4>1, <4>2
    <3>7. v = [i \in 1 .. l |-> v[i]]
      <4>1. v = [i \in 1 .. Len(v) |-> v[i]]
        BY DEF Files
      <4> QED
        BY <3>5, <4>1
    <3>8. Get(g, new, k) = v
      BY <3>4, <3>6, <3>7
    <3> QED
      BY <2>2, <3>8 DEF Lookup, new
  <2>3. CASE kind # "put"
    BY <2>1, <2>3 DEF Lookup, new, Get
  <2> QED
    BY <2>2, <2>3
<1>10. Replay(g).pos = Len(g)
  BY <1>2, <1>4 DEF After
<1> QED
  BY <1>2, <1>4, <1>8, <1>9, <1>10

\* A record that is not all there changes no answer.
LEMMA LookupPart ==
    ASSUME NEW f \in Files, Replay(f).pos = Len(f),
           NEW k \in Keys, NEW kind \in {"put", "del"}, NEW v \in Files, NEW n \in 0 .. Len(v),
           NEW g, Joins(f, SubSeq(Record(k, kind, v), 1, n), g)
    PROVE  /\ g \in Files /\ Len(g) = Len(f) + n /\ Shares(f, g, Len(f))
           /\ Replay(g) = Replay(f)
           /\ \A j \in Keys : Lookup(g, j) = Lookup(f, j)
<1> DEFINE rec == Record(k, kind, v)
           c == SubSeq(rec, 1, n)
<1>1. /\ rec \in Files /\ Len(rec) = 1 + Len(v) /\ Len(v) \in Nat
      /\ rec[1] = Header(k, kind, Len(v))
  BY RecordCellsOf
<1> HIDE DEF rec
<1>2. c \in Files /\ Len(c) = n /\ \A i \in 1 .. n : c[i] = rec[i]
  BY <1>1 DEF Files
<1>3. Joins(f, c, g) /\ Len(f) \in Nat
  BY DEF rec, Files
<1> HIDE DEF c
<1>4. g \in Files /\ Len(g) = Len(f) + n /\ Shares(f, g, Len(f))
  BY <1>2, <1>3 DEF Joins
<1>5. Len(g) > Len(f) => g[Len(f) + 1] = Header(k, kind, Len(v))
  <2> SUFFICES ASSUME Len(g) > Len(f) PROVE g[Len(f) + 1] = Header(k, kind, Len(v))
    OBVIOUS
  <2>1. 1 \in 1 .. n /\ 1 \in 1 .. Len(c)
    BY <1>2, <1>3, <1>4
  <2> QED
    BY <1>1, <1>2, <1>3, <2>1 DEF Joins
<1>6. Len(g) < Len(f) + 1 + Len(v)
  BY <1>1, <1>3, <1>4
<1>7. Replay(g) = Replay(f)
  BY <1>1, <1>4, <1>5, <1>6, ReplayPart
<1>8. ASSUME NEW j \in Keys PROVE Lookup(g, j) = Lookup(f, j)
  <2>1. Inside(Replay(f))
    BY ReplayInside
  <2>2. Replay(f).index[j] # None =>
            /\ Replay(f).index[j].off \in Nat /\ Replay(f).index[j].len \in Nat
            /\ Replay(f).index[j].off + Replay(f).index[j].len <= Len(f)
    BY <2>1 DEF Inside
  <2>3. Get(g, Replay(f).index, j) = Get(f, Replay(f).index, j)
    BY <1>4, <2>2, GetShared
  <2> QED
    BY <1>7, <2>3 DEF Lookup
<1> QED
  BY <1>4, <1>7, <1>8

\* A file cut after cell e has the first e cells.
LEMMA CutShares ==
    ASSUME NEW f \in Files, NEW e \in 0 .. Len(f)
    PROVE  SubSeq(f, 1, e) \in Files /\ Len(SubSeq(f, 1, e)) = e /\ Shares(f, SubSeq(f, 1, e), e)
<1>1. Len(f) \in Nat /\ e \in Nat /\ e <= Len(f)
  BY DEF Files
<1>2. SubSeq(f, 1, e) \in Files /\ Len(SubSeq(f, 1, e)) = e
  BY <1>1 DEF Files
<1>3. ASSUME NEW i \in 1 .. e PROVE f[i] = SubSeq(f, 1, e)[i]
  BY <1>1 DEF Files
<1> QED
  BY <1>1, <1>2, <1>3 DEF Shares

\* Cutting what follows the last whole record changes no answer.
LEMMA LookupCut ==
    ASSUME NEW f \in Files, NEW g \in Files, Len(g) = Replay(f).pos, Shares(f, g, Len(g))
    PROVE  /\ Replay(g) = Replay(f)
           /\ \A j \in Keys : Lookup(g, j) = Lookup(f, j)
<1>1. Replay(g) = Replay(f)
  BY ReplayCut
<1>2. ASSUME NEW j \in Keys PROVE Lookup(g, j) = Lookup(f, j)
  <2>1. Inside(Replay(f))
    BY ReplayInside
  <2>2. Replay(f).index[j] # None =>
            /\ Replay(f).index[j].off \in Nat /\ Replay(f).index[j].len \in Nat
            /\ Replay(f).index[j].off + Replay(f).index[j].len <= Len(g)
    BY <2>1 DEF Inside
  <2>3. Get(g, Replay(f).index, j) = Get(f, Replay(f).index, j)
    BY <2>2, GetShared
  <2> QED
    BY <1>1, <2>3 DEF Lookup
<1> QED
  BY <1>1, <1>2

-----------------------------------------------------------------------------
\* What a record of kind and v gives its key.
Written(kind, v) == IF kind = "put" THEN v ELSE None

\* The answers over every prefix of a file that has grown by a record or by a part of it.
LEMMA LookupPrefix ==
    ASSUME NEW f \in Files, Replay(f).pos = Len(f),
           NEW k \in Keys, NEW kind \in {"put", "del"}, NEW v \in Files, NEW m \in 0 .. 1 + Len(v),
           NEW g, Joins(f, SubSeq(Record(k, kind, v), 1, m), g),
           NEW n \in 0 .. Len(g), NEW j \in Keys
    PROVE  /\ n <= Len(f) => SubSeq(g, 1, n) = SubSeq(f, 1, n)
           /\ n >= Len(f) /\ n < Len(f) + 1 + Len(v) => Lookup(SubSeq(g, 1, n), j) = Lookup(f, j)
           /\ n = Len(f) + 1 + Len(v) =>
                  Lookup(SubSeq(g, 1, n), j) = IF j = k THEN Written(kind, v) ELSE Lookup(f, j)
<1> DEFINE rec == Record(k, kind, v)
           c == SubSeq(rec, 1, m)
           p == SubSeq(g, 1, n)
<1>1. rec \in Files /\ Len(rec) = 1 + Len(v) /\ Len(v) \in Nat
  BY Zenon, RecordCellsOf
<1> HIDE DEF rec
<1>2. c \in Files /\ Len(c) = m /\ \A i \in 1 .. m : c[i] = rec[i]
  BY <1>1 DEF Files
<1>3. /\ g \in Files /\ Len(g) = Len(f) + m /\ Shares(f, g, Len(f)) /\ Len(f) \in Nat /\ Len(g) \in Nat
      /\ \A i \in 1 .. m : g[Len(f) + i] = rec[i]
  <2>1. Joins(f, c, g)
    BY DEF rec
  <2> HIDE DEF c
  <2>2. g \in Files /\ Len(g) = Len(f) + m /\ Shares(f, g, Len(f)) /\ \A i \in 1 .. m : g[Len(f) + i] = c[i]
    BY <1>2, <2>1 DEF Joins
  <2> QED
    BY <1>2, <2>2 DEF Files
<1> HIDE DEF c
<1>4. p \in Files /\ Len(p) = n /\ Shares(g, p, n)
  BY <1>3, CutShares
<1>5. ASSUME n <= Len(f) PROVE SubSeq(g, 1, n) = SubSeq(f, 1, n)
  <2>1. \A i \in 1 .. n : g[i] = f[i]
    BY <1>3, <1>5 DEF Shares
  <2> QED
    BY <1>3, <1>5, <2>1 DEF Files
<1>6. ASSUME n >= Len(f) PROVE Joins(f, SubSeq(rec, 1, n - Len(f)), p)
  <2> DEFINE l == n - Len(f)
             q == SubSeq(rec, 1, l)
  <2>1. l \in 0 .. m /\ l \in 0 .. Len(rec) /\ n = Len(f) + l
    BY <1>1, <1>3, <1>6
  <2> HIDE DEF l
  <2>2. q \in Files /\ Len(q) = l /\ Shares(rec, q, l)
    BY <1>1, <2>1, CutShares
  <2>3. ASSUME NEW i \in 1 .. Len(f) PROVE f[i] = p[i]
    <3>1. i \in 1 .. n /\ i \in 1 .. Len(f)
      BY <1>3, <2>1
    <3> HIDE DEF p
    <3> QED
      BY <1>3, <1>4, <3>1 DEF Shares
  <2>4. ASSUME NEW i \in 1 .. l PROVE p[Len(f) + i] = q[i]
    <3>1. Len(f) + i \in 1 .. n /\ i \in 1 .. m
      BY <1>3, <2>1
    <3>2. g[Len(f) + i] = p[Len(f) + i] /\ rec[i] = q[i] /\ g[Len(f) + i] = rec[i]
      <4> HIDE DEF p, q
      <4> QED
        BY <1>3, <1>4, <2>2, <3>1 DEF Shares
    <3> HIDE DEF p, q
    <3> QED
      BY <3>2
  <2>5. Joins(f, q, p)
    <3> HIDE DEF p, q
    <3>1. Shares(f, p, Len(f))
      BY <1>3, <1>4, <2>1, <2>3 DEF Shares
    <3> QED
      BY <1>4, <2>1, <2>2, <2>4, <3>1 DEF Joins
  <2> QED
    BY <2>5 DEF l
<1> HIDE DEF p
<1>7. ASSUME n >= Len(f), n < Len(f) + 1 + Len(v) PROVE Lookup(p, j) = Lookup(f, j)
  <2>1. n - Len(f) \in 0 .. Len(v)
    BY <1>1, <1>3, <1>7
  <2>2. Joins(f, SubSeq(Record(k, kind, v), 1, n - Len(f)), p)
    BY <1>6, <1>7 DEF rec
  <2> QED
    BY <2>1, <2>2, LookupPart
<1>8. ASSUME n = Len(f) + 1 + Len(v)
      PROVE  Lookup(p, j) = IF j = k THEN Written(kind, v) ELSE Lookup(f, j)
  <2>1. n - Len(f) = Len(rec) /\ n >= Len(f)
    BY <1>1, <1>3, <1>8
  <2>2. SubSeq(rec, 1, Len(rec)) = rec
    BY <1>1 DEF Files
  <2>3. Joins(f, Record(k, kind, v), p)
    BY Zenon, <1>6, <2>1, <2>2 DEF rec
  <2> QED
    BY <2>3, LookupWhole DEF Written
<1> QED
  BY <1>5, <1>7, <1>8 DEF p

-----------------------------------------------------------------------------
\* The rewrite of compact: its file and its index.
Indexes == [Keys -> [off : Nat, len : Nat] \cup {None}]
Drafts == [file : Files, index : Indexes]
EmptyDraft == [file |-> <<>>, index |-> [k \in Keys |-> None]]

\* What get reads for a live key is a string of cells.
LEMMA GetType ==
    ASSUME NEW f \in Files, NEW idx \in Indexes, NEW k \in Keys, idx[k] # None
    PROVE  Get(f, idx, k) \in Files /\ Len(Get(f, idx, k)) = idx[k].len /\ idx[k].len \in Nat
<1> DEFINE o == idx[k].off
           l == idx[k].len
<1>1. o \in Nat /\ l \in Nat
  BY DEF Indexes
<1>2. Get(f, idx, k) = [i \in 1 .. l |-> IF o + i <= Len(f) THEN f[o + i] ELSE Zero]
  BY DEF Get
<1> HIDE DEF o, l
<1>3. ASSUME NEW i \in 1 .. l PROVE (IF o + i <= Len(f) THEN f[o + i] ELSE Zero) \in Cells
  <2>1. CASE o + i <= Len(f)
    <3>1. o + i \in 1 .. Len(f)
      BY <1>1, <2>1 DEF Files
    <3> QED
      BY <2>1, <3>1 DEF Files
  <2>2. CASE ~(o + i <= Len(f))
    BY <2>2, KeysAssumption DEF Cells, Zero, Header, Headers
  <2> QED
    BY <2>1, <2>2
<1>4. Get(f, idx, k) \in Files /\ Len(Get(f, idx, k)) = l
  BY <1>1, <1>2, <1>3 DEF Files
<1> QED
  BY <1>1, <1>4 DEF l

\* A turn of the loop of compact takes a draft to a draft.
LEMMA RewriteType ==
    ASSUME NEW s, s.file \in Files, s.index \in Indexes, NEW d \in Drafts, NEW k \in LiveKeys(s)
    PROVE  Rewrite(s, d, k) \in Drafts
<1> DEFINE v == Get(s.file, s.index, k)
<1>1. k \in Keys /\ s.index[k] # None
  BY DEF LiveKeys
<1>2. v \in Files /\ Len(v) \in Nat
  BY <1>1, GetType DEF Files
<1> HIDE DEF v
<1>3. Record(k, "put", v) \in Files
  BY <1>1, <1>2, RecordCellsOf
<1>4. d.file \in Files /\ d.index \in Indexes
  BY DEF Drafts
<1>5. Joins(d.file, Record(k, "put", v), d.file \o Record(k, "put", v)) /\ Len(d.file) \in Nat
  BY <1>3, <1>4, Joined
<1>6. d.file \o Record(k, "put", v) \in Files
  BY <1>5 DEF Joins
<1> DEFINE e == [off |-> Len(d.file) + 1, len |-> Len(v)]
<1>7. e \in [off : Nat, len : Nat]
  BY <1>2, <1>5
<1> HIDE DEF e
<1>8. [d.index EXCEPT ![k] = e] \in Indexes
  BY Zenon, <1>4, <1>7 DEF Indexes
<1>9. Rewrite(s, d, k) = [file |-> d.file \o Record(k, "put", v), index |-> [d.index EXCEPT ![k] = e]]
  BY DEF Rewrite, v, e
<1> QED
  BY <1>6, <1>8, <1>9 DEF Drafts

\* The live keys are finitely many and compact goes through them one by one.
LEMMA LiveList ==
    ASSUME NEW s
    PROVE  LET N == Cardinality(LiveKeys(s))
               live == Ascending(LiveKeys(s))
           IN  /\ N \in Nat /\ live \in [1 .. N -> LiveKeys(s)]
               /\ \A i, j \in 1 .. N : i < j => live[i] # live[j]
               /\ \A k \in LiveKeys(s) : \E i \in 1 .. N : live[i] = k
<1> DEFINE S == LiveKeys(s)
           N == Cardinality(S)
           live == Ascending(S)
<1>1. S \in SUBSET Nat /\ IsFiniteSet(S)
  BY Zenon, KeysAssumption, FS_Subset DEF LiveKeys
<1>2. /\ N \in Nat /\ live \in [1 .. N -> S]
      /\ \A i, j \in 1 .. N : i < j => live[i] < live[j]
  BY <1>1, AscendingList
<1> HIDE DEF live, S, N
<1>3. ASSUME NEW i \in 1 .. N, NEW j \in 1 .. N, i < j PROVE live[i] # live[j]
  <2>1. live[i] < live[j] /\ live[i] \in Nat
    BY Zenon, <1>1, <1>2, <1>3
  <2> QED
    BY <2>1
<1>4. \A k \in S : \E i \in 1 .. N : live[i] = k
  <2>1. live \in Injection(1 .. N, S)
    <3>1. ASSUME NEW i \in 1 .. N, NEW j \in 1 .. N, live[i] = live[j] PROVE i = j
      <4>1. i \in Nat /\ j \in Nat /\ ~(i < j) /\ ~(j < i)
        BY <1>3, <3>1
      <4> QED
        BY <4>1
    <3> QED
      BY <1>2, <3>1 DEF Injection, IsInjective
  <2>2. IsFiniteSet(1 .. N) /\ Cardinality(1 .. N) = N
    BY <1>2, FS_Interval
  <2>3. live \in Surjection(1 .. N, S)
    BY <1>1, <2>1, <2>2, FS_Injection DEF N
  <2> QED
    BY <2>3 DEF Surjection
<1> QED
  BY <1>2, <1>3, <1>4 DEF S, live, N

\* compact starts with an empty draft and writes a record at a time.
LEMMA RewritesRecursion ==
    ASSUME NEW s, s.file \in Files, s.index \in Indexes,
           NEW N, N = Cardinality(LiveKeys(s)), NEW live, live = Ascending(LiveKeys(s))
    PROVE  /\ Rewrites(s)[0] = EmptyDraft
           /\ \A n \in 0 .. N : Rewrites(s)[n] \in Drafts
           /\ \A n \in 0 .. N - 1 : Rewrites(s)[n + 1] = Rewrite(s, Rewrites(s)[n], live[n + 1])
<1> DEFINE g == [x \in Nat \X Drafts |-> IF x[1] < N THEN Rewrite(s, x[2], live[x[1] + 1]) ELSE x[2]]
           t == Rewrites(s)
<1>1. N \in Nat /\ live \in [1 .. N -> LiveKeys(s)]
  BY LiveList
<1>2. EmptyDraft \in Drafts
  BY DEF EmptyDraft, Drafts, Indexes, Files
<1>3. \A n \in Nat, d \in Drafts : g[<<n, d>>] = IF n < N THEN Rewrite(s, d, live[n + 1]) ELSE d
  OBVIOUS
<1> HIDE DEF g
<1>4. ASSUME NEW n \in 0 .. N - 1 PROVE n \in Nat /\ n < N /\ n + 1 \in 1 .. N /\ live[n + 1] \in LiveKeys(s)
  BY <1>1
<1>5. StaysIn(g, Drafts)
  <2> SUFFICES ASSUME NEW n \in Nat, NEW d \in Drafts PROVE g[<<n, d>>] \in Drafts
    BY Zenon DEF StaysIn
  <2>1. CASE n < N
    <3>1. n \in 0 .. N - 1
      BY <1>1, <2>1
    <3>2. live[n + 1] \in LiveKeys(s)
      BY <1>4, <3>1
    <3>3. Rewrite(s, d, live[n + 1]) \in Drafts
      BY <3>2, RewriteType
    <3> QED
      BY <1>3, <2>1, <3>3
  <2>2. CASE ~(n < N)
    BY <1>3, <2>2
  <2> QED
    BY <2>1, <2>2
<1>6. PICK h : Follows(h, Drafts, EmptyDraft, g)
  BY <1>2, <1>5, Recursion
<1>7. \A n \in Nat : h[n] \in Drafts
  BY <1>6 DEF Follows
<1>8. h[0] = EmptyDraft
  BY <1>6 DEF Follows
<1>9. ASSUME NEW n \in 0 .. N - 1 PROVE h[n + 1] = Rewrite(s, h[n], live[n + 1])
  BY Zenon, <1>3, <1>4, <1>6, <1>7 DEF Follows
<1> DEFINE w == [n \in 0 .. N |-> h[n]]
<1>10. w = [n \in 0 .. N |-> IF n = 0 THEN EmptyDraft ELSE Rewrite(s, w[n - 1], live[n])]
  <2>1. ASSUME NEW n \in 0 .. N, n # 0 PROVE h[n] = Rewrite(s, w[n - 1], live[n])
    <3>1. n - 1 \in 0 .. N - 1 /\ (n - 1) + 1 = n /\ n - 1 \in 0 .. N
      BY <1>1, <2>1
    <3>2. w[n - 1] = h[n - 1]
      BY <3>1
    <3> HIDE DEF w
    <3> QED
      BY <1>9, <3>1, <3>2
  <2>2. ASSUME NEW n \in 0 .. N
        PROVE  h[n] = IF n = 0 THEN EmptyDraft ELSE Rewrite(s, w[n - 1], live[n])
    BY <1>8, <2>1
  <2> QED
    BY <2>2
<1> HIDE DEF w
<1>11. t = [n \in 0 .. N |-> IF n = 0 THEN EmptyDraft ELSE Rewrite(s, t[n - 1], live[n])]
  BY Zenon, <1>10 DEF Rewrites, EmptyDraft
<1> HIDE DEF t
<1>12. t[0] = EmptyDraft
  BY <1>1, <1>11
<1>13. ASSUME NEW n \in 0 .. N - 1 PROVE t[n + 1] = Rewrite(s, t[n], live[n + 1])
  <2>1. n + 1 \in 0 .. N /\ n + 1 # 0 /\ (n + 1) - 1 = n
    BY <1>1
  <2> QED
    BY Zenon, <1>11, <2>1
<1>14. \A n \in 0 .. N : t[n] \in Drafts
  <2> DEFINE S == {n \in Nat : n <= N => t[n] \in Drafts}
  <2>1. 0 \in S
    BY <1>2, <1>12
  <2>2. ASSUME NEW n \in Nat, n \in S PROVE n + 1 \in S
    <3> SUFFICES ASSUME n + 1 <= N PROVE t[n + 1] \in Drafts
      OBVIOUS
    <3>1. n \in 0 .. N - 1 /\ t[n] \in Drafts
      BY <1>1, <2>2
    <3> HIDE DEF S
    <3> QED
      BY <1>4, <1>13, <3>1, RewriteType
  <2>3. \A n \in Nat : n \in S
    <3> HIDE DEF S
    <3> QED
      BY <2>1, <2>2, Induction
  <2> QED
    BY <1>1, <2>3
<1> QED
  BY <1>12, <1>13, <1>14 DEF t

\* The draft d is what open would read back from its file, without dead space, and answers for
\* the keys in W what s answers.
Copies(s, d, W) ==
    /\ d \in Drafts
    /\ Replay(d.file) = [index |-> d.index, pos |-> Len(d.file), dead |-> 0]
    /\ \A k \in Keys : IF k \in W THEN Lookup(d.file, k) = Get(s.file, s.index, k) ELSE d.index[k] = None

\* The empty file has no records.
LEMMA ReplayEmpty == <<>> \in Files /\ Len(<<>>) = 0 /\ Replay(<<>>) = ReplayStart
<1>1. <<>> \in Files /\ Len(<<>>) = 0
  BY DEF Files
<1>2. Turns(<<>>)[0] = ReplayStart
  BY <1>1, TurnsRecursion
<1> QED
  BY <1>1, <1>2 DEF Replay

\* A turn of the loop of compact copies one more key.
LEMMA CopiesGrow ==
    ASSUME NEW s, s.file \in Files, s.index \in Indexes, NEW d, NEW W, Copies(s, d, W),
           NEW k \in LiveKeys(s), k \notin W
    PROVE  Copies(s, Rewrite(s, d, k), W \cup {k})
<1> DEFINE v == Get(s.file, s.index, k)
           f == d.file
           g == f \o Record(k, "put", v)
           e == Rewrite(s, d, k)
<1>1. k \in Keys /\ s.index[k] # None
  BY DEF LiveKeys
<1>2. v \in Files
  BY <1>1, GetType
<1>3. /\ f \in Files /\ d.index \in Indexes /\ Len(f) \in Nat
      /\ Replay(f) = [index |-> d.index, pos |-> Len(f), dead |-> 0]
  BY DEF Copies, Drafts, Files
<1>4. e \in Drafts
  BY RewriteType DEF Copies
<1>5. e.file = g /\ e.index = [d.index EXCEPT ![k] = [off |-> Len(f) + 1, len |-> Len(v)]]
  BY Zenon DEF Rewrite
<1>6. Joins(f, Record(k, "put", v), g)
  <2> HIDE DEF v, f
  <2>1. Record(k, "put", v) \in Files
    BY <1>1, <1>2, RecordCellsOf
  <2> QED
    BY <1>3, <2>1, Joined
<1>7. Replay(f).pos = Len(f)
  BY <1>3
<1>8. /\ g \in Files /\ Replay(g) = After(Replay(f), k, "put", Len(v)) /\ Replay(g).pos = Len(g)
      /\ Lookup(g, k) = v
      /\ \A j \in Keys \ {k} : Lookup(g, j) = Lookup(f, j)
  <2> HIDE DEF v, f, g
  <2> QED
    BY <1>1, <1>2, <1>3, <1>6, <1>7, LookupWhole
<1>9. Replay(e.file) = [index |-> e.index, pos |-> Len(e.file), dead |-> 0]
  <2>1. d.index[k] = None
    BY <1>1 DEF Copies
  <2> HIDE DEF v, f, g, e
  <2>2. Replay(g).index = e.index /\ Replay(g).dead = 0
    BY <1>3, <1>5, <1>8, <2>1 DEF After, RecordCells
  <2>3. Replay(g) \in ReplayStates
    BY <1>8, ReplayInside
  <2>4. Replay(g) = [index |-> e.index, pos |-> Len(g), dead |-> 0]
    BY <1>8, <2>2, <2>3 DEF ReplayStates
  <2> QED
    BY <1>5, <2>4
<1>10. ASSUME NEW j \in Keys
       PROVE  IF j \in W \cup {k} THEN Lookup(e.file, j) = Get(s.file, s.index, j) ELSE e.index[j] = None
  <2>1. CASE j = k
    <3>1. Lookup(e.file, k) = Get(s.file, s.index, k)
      <4>1. Lookup(g, k) = v
        BY <1>8
      <4> HIDE DEF e, g
      <4> QED
        BY <1>5, <4>1
    <3> HIDE DEF e
    <3> QED
      BY <2>1, <3>1
  <2>2. CASE j # k /\ j \in W
    <3>1. Lookup(f, j) = Get(s.file, s.index, j)
      BY <2>2 DEF Copies
    <3>2. Lookup(e.file, j) = Lookup(f, j)
      <4>1. Lookup(g, j) = Lookup(f, j)
        BY <1>8, <2>2
      <4> HIDE DEF e, g
      <4> QED
        BY <1>5, <4>1
    <3> HIDE DEF e, f
    <3> QED
      BY <2>2, <3>1, <3>2
  <2>3. CASE j # k /\ j \notin W
    <3>1. d.index[j] = None
      BY <2>3 DEF Copies
    <3> QED
      BY <1>3, <1>5, <2>3, <3>1 DEF Indexes
  <2> QED
    BY <2>1, <2>2, <2>3
<1> HIDE DEF e
<1>11. Copies(s, e, W \cup {k})
  BY <1>4, <1>9, <1>10 DEF Copies
<1> QED
  BY <1>11 DEF e

\* When compact is done its file answers what the old one did.
LEMMA FreshCopies ==
    ASSUME NEW s, s.file \in Files, s.index \in Indexes
    PROVE  Copies(s, Fresh(s), LiveKeys(s))
<1> DEFINE N == Cardinality(LiveKeys(s))
           live == Ascending(LiveKeys(s))
           t == Rewrites(s)
           W(n) == {live[i] : i \in 1 .. n}
           S == {n \in Nat : n <= N => Copies(s, t[n], W(n))}
<1>1. /\ N \in Nat /\ live \in [1 .. N -> LiveKeys(s)]
      /\ \A i, j \in 1 .. N : i < j => live[i] # live[j]
      /\ \A k \in LiveKeys(s) : \E i \in 1 .. N : live[i] = k
  BY LiveList
<1>2. /\ t[0] = EmptyDraft
      /\ \A n \in 0 .. N : t[n] \in Drafts
      /\ \A n \in 0 .. N - 1 : t[n + 1] = Rewrite(s, t[n], live[n + 1])
  BY RewritesRecursion
<1> HIDE DEF N, live, t
<1>3. 0 \in S
  <2>1. t[0] \in Drafts /\ W(0) = {}
    BY <1>1, <1>2
  <2>2. EmptyDraft.file = <<>> /\ EmptyDraft.index = [k \in Keys |-> None]
    BY DEF EmptyDraft
  <2>3. Replay(<<>>) = [index |-> [k \in Keys |-> None], pos |-> Len(<<>>), dead |-> 0]
    BY ReplayEmpty DEF ReplayStart
  <2>4. Copies(s, t[0], W(0))
    BY <1>2, <2>1, <2>2, <2>3 DEF Copies
  <2> QED
    BY <2>4
<1>4. ASSUME NEW n \in Nat, n \in S PROVE n + 1 \in S
  <2> SUFFICES ASSUME n + 1 <= N PROVE Copies(s, t[n + 1], W(n + 1))
    OBVIOUS
  <2> DEFINE k == live[n + 1]
  <2>1. n \in 0 .. N - 1 /\ n + 1 \in 1 .. N /\ Copies(s, t[n], W(n))
    BY <1>1, <1>4
  <2>2. k \in LiveKeys(s) /\ t[n + 1] = Rewrite(s, t[n], k)
    BY <1>1, <1>2, <2>1
  <2>3. k \notin W(n)
    <3>1. ASSUME NEW i \in 1 .. n PROVE live[i] # k
      BY <1>1, <2>1
    <3> QED
      BY <3>1
  <2>4. W(n + 1) = W(n) \cup {k}
    <3>1. 1 .. n + 1 = (1 .. n) \cup {n + 1}
      OBVIOUS
    <3> QED
      BY <3>1
  <2> HIDE DEF k, W
  <2>5. Copies(s, Rewrite(s, t[n], k), W(n) \cup {k})
    BY <2>1, <2>2, <2>3, CopiesGrow
  <2> QED
    BY Zenon, <2>2, <2>4, <2>5
<1>5. \A n \in Nat : n \in S
  <2> HIDE DEF S
  <2> QED
    BY <1>3, <1>4, Induction
<1>6. Copies(s, t[N], W(N))
  <2>1. N \in S
    <3> HIDE DEF S
    <3> QED
      BY <1>1, <1>5
  <2>2. N <= N
    BY <1>1
  <2> HIDE DEF W
  <2> QED
    BY <2>1, <2>2
<1>7. W(N) = LiveKeys(s)
  BY <1>1
<1> HIDE DEF W
<1>8. Fresh(s) = t[N]
  BY DEF Fresh, t, N
<1> QED
  BY <1>6, <1>7, <1>8

-----------------------------------------------------------------------------
\* An open store remembers of its file what open would compute from it, all of it records.
Faithful(s) == /\ s.file \in Files /\ s.end = Len(s.file)
               /\ Replay(s.file) = [index |-> s.index, pos |-> s.end, dead |-> s.dead]

Answers(f) == [k \in Keys |-> Lookup(f, k)]

\* compact leaves a faithful store with the same answers.
LEMMA CompactedKeeps ==
    ASSUME NEW s, Faithful(s)
    PROVE  Faithful(Compacted(s)) /\ Answers(Compacted(s).file) = Answers(s.file)
<1> DEFINE d == Fresh(s)
<1>1. s.file \in Files /\ s.index \in Indexes /\ Replay(s.file).index = s.index
  <2>1. s.file \in Files /\ Replay(s.file).index = s.index
    BY DEF Faithful
  <2>2. Replay(s.file) \in ReplayStates
    BY <2>1, ReplayInside
  <2> QED
    BY <2>1, <2>2 DEF ReplayStates, Indexes
<1>2. Copies(s, d, LiveKeys(s))
  BY <1>1, FreshCopies
<1>3. Compacted(s) = [file |-> d.file, index |-> d.index, end |-> Len(d.file), dead |-> 0]
  BY DEF Compacted
<1> HIDE DEF d
<1>4. d.file \in Files /\ Replay(d.file) = [index |-> d.index, pos |-> Len(d.file), dead |-> 0]
  BY <1>2 DEF Copies, Drafts
<1>5. Faithful(Compacted(s))
  BY <1>3, <1>4 DEF Faithful
<1>6. ASSUME NEW k \in Keys PROVE Lookup(d.file, k) = Lookup(s.file, k)
  <2>1. CASE s.index[k] # None
    <3>1. Lookup(d.file, k) = Get(s.file, s.index, k)
      BY <1>2, <2>1 DEF Copies, LiveKeys
    <3> QED
      BY <1>1, <3>1 DEF Lookup
  <2>2. CASE s.index[k] = None
    <3>1. d.index[k] = None /\ Replay(d.file).index = d.index
      BY <1>2, <1>4, <2>2 DEF Copies, LiveKeys
    <3> QED
      BY <1>1, <2>2, <3>1 DEF Lookup, Get
  <2> QED
    BY <2>1, <2>2
<1>7. Compacted(s).file = d.file
  BY <1>3
<1> QED
  BY <1>5, <1>6, <1>7 DEF Answers

\* So does compacting when there is enough dead space.
LEMMA MaybeCompactedKeeps ==
    ASSUME NEW s, Faithful(s)
    PROVE  Faithful(MaybeCompacted(s)) /\ Answers(MaybeCompacted(s).file) = Answers(s.file)
BY CompactedKeeps DEF MaybeCompacted

\* The store as it is.
Now == [file |-> file, index |-> index, end |-> end, dead |-> dead]

\* What that means for the store's variables.
LEMMA NowFaithful ==
    ASSUME Faithful(Now)
    PROVE  /\ file \in Files /\ end = Len(file) /\ index \in Indexes
           /\ Replay(file) = [index |-> index, pos |-> end, dead |-> dead]
           /\ Replay(file).index = index /\ Replay(file).pos = end /\ Replay(file).dead = dead
           /\ Replay(file).pos = Len(file)
<1>1. /\ file \in Files /\ end = Len(file)
      /\ Replay(file) = [index |-> index, pos |-> end, dead |-> dead]
  BY DEF Faithful, Now
<1>2. Replay(file).index = index /\ Replay(file).pos = end /\ Replay(file).dead = dead
  BY <1>1
<1>3. index \in Indexes
  BY <1>1, <1>2, ReplayInside DEF ReplayStates, Indexes
<1> QED
  BY <1>1, <1>2, <1>3

\* A record appended to a faithful store leaves it faithful and gives its key its value.
LEMMA LoggedKeeps ==
    ASSUME Faithful(Now), NEW k \in Keys, NEW kind \in {"put", "del"}, NEW v \in Files
    PROVE  LET s == Logged(k, kind, v) IN
           /\ Joins(file, Record(k, kind, v), s.file) /\ Faithful(s)
           /\ Answers(s.file) = [Answers(file) EXCEPT ![k] = Written(kind, v)]
<1> DEFINE rec == Record(k, kind, v)
           s == Logged(k, kind, v)
           g == WriteAt(file, end, rec)
<1>1. /\ file \in Files /\ end = Len(file)
      /\ Replay(file) = [index |-> index, pos |-> end, dead |-> dead]
  BY NowFaithful
<1>2. rec \in Files /\ Len(rec) = 1 + Len(v) /\ Len(v) \in Nat /\ Len(file) \in Nat
  BY <1>1, RecordCellsOf DEF Files
<1>3. Joins(file, rec, g)
  <2> HIDE DEF rec
  <2> QED
    BY <1>1, <1>2, WriteAtEnd
<1>4. s.file = g /\ s.end = end + Len(rec) /\ s.dead = dead + RecordCells(index[k]) + (IF kind = "del" THEN 1 ELSE 0)
  BY DEF Logged
<1>5. s.index = [index EXCEPT ![k] = IF kind = "put" THEN [off |-> end + 1, len |-> Len(v)] ELSE None]
  BY DEF Logged
<1>6. Replay(file).pos = Len(file)
  BY <1>1
<1>7. /\ g \in Files /\ Replay(g) = After(Replay(file), k, kind, Len(v)) /\ Replay(g).pos = Len(g)
      /\ Lookup(g, k) = Written(kind, v)
      /\ \A j \in Keys \ {k} : Lookup(g, j) = Lookup(file, j)
  <2>1. Joins(file, Record(k, kind, v), g)
    BY <1>3
  <2> HIDE DEF g
  <2> QED
    BY <1>1, <1>6, <2>1, LookupWhole DEF Written
<1> HIDE DEF g
<1>8. Replay(g) = [index |-> s.index, pos |-> s.end, dead |-> s.dead]
  <2>1. Replay(file).index = index /\ Replay(file).pos = end /\ Replay(file).dead = dead
    BY <1>1
  <2>2. end + 1 + Len(v) = end + Len(rec)
    BY <1>1, <1>2
  <2>3. /\ After(Replay(file), k, kind, Len(v)).index = s.index
        /\ After(Replay(file), k, kind, Len(v)).pos = s.end
        /\ After(Replay(file), k, kind, Len(v)).dead = s.dead
    BY <1>4, <1>5, <2>1, <2>2 DEF After
  <2> HIDE DEF s
  <2>4. Replay(g) \in ReplayStates
    BY <1>7, ReplayInside
  <2> QED
    BY <1>7, <2>3, <2>4 DEF ReplayStates
<1> HIDE DEF s
<1>9. Faithful(s)
  BY <1>4, <1>7, <1>8 DEF Faithful
<1>10. Answers(g) = [Answers(file) EXCEPT ![k] = Written(kind, v)]
  BY Zenon, <1>7 DEF Answers
<1> QED
  BY <1>3, <1>4, <1>9, <1>10 DEF s

-----------------------------------------------------------------------------
\* A crash may cut the file anywhere after its synced cells, so every such prefix answers what
\* the calls allow; a key the running store does not hold is in none of them, which is why
\* delete may return without a tombstone.
Survives ==
    \A n \in synced .. Len(file), k \in Keys :
        /\ Lookup(SubSeq(file, 1, n), k) \in may[k]
        /\ up /\ index[k] = None => Lookup(SubSeq(file, 1, n), k) = None

\* The inductive invariant.
LogInv ==
    /\ file \in Files /\ synced \in 0 .. Len(file) /\ up \in BOOLEAN
    /\ may \in [Keys -> SUBSET KV!Contents]
    /\ up => Faithful(Now)
    /\ Survives

\* The values are strings of cells, and so is the empty value of a tombstone.
LEMMA ValueCells == <<>> \in Files /\ \A v \in Values : v \in Files
<1>1. \A v \in Values : v \in Seq(Symbols)
  BY ValuesAssumption
<1>2. Symbols \subseteq Cells
  BY DEF Cells
<1>3. ASSUME NEW v \in Seq(Symbols) PROVE v \in Seq(Cells)
  BY <1>2
<1> QED
  BY <1>1, <1>3 DEF Files

\* The whole file is its longest prefix.
LEMMA WholePrefix ==
    ASSUME NEW f \in Files
    PROVE  Len(f) \in Nat /\ SubSeq(f, 1, Len(f)) = f
BY DEF Files

\* What the store answers is what open would answer from the file, whether the store is open or
\* not, and it is allowed.
LEMMA ViewIsAnswers ==
    ASSUME LogInv
    PROVE  View = Answers(file) /\ \A k \in Keys : Answers(file)[k] = Lookup(file, k)
                                                   /\ Lookup(file, k) \in may[k]
                                                   /\ may[k] \subseteq KV!Contents
                                                   /\ (up /\ index[k] = None => Lookup(file, k) = None)
<1>1. View = Answers(file)
  <2>1. CASE up
    <3>1. Replay(file).index = index
      BY <2>1, NowFaithful DEF LogInv
    <3> QED
      BY <2>1, <3>1 DEF View, Answers, Lookup
  <2>2. CASE ~up
    BY <2>2 DEF View, Answers, Lookup
  <2> QED
    BY <2>1, <2>2
<1>2. Len(file) \in synced .. Len(file) /\ SubSeq(file, 1, Len(file)) = file
  BY WholePrefix DEF LogInv
<1>3. ASSUME NEW k \in Keys
      PROVE  /\ Lookup(file, k) \in may[k] /\ may[k] \subseteq KV!Contents
             /\ (up /\ index[k] = None => Lookup(file, k) = None)
  <2>1. may[k] \subseteq KV!Contents /\ Survives
    BY DEF LogInv
  <2> QED
    BY Zenon, <1>2, <2>1 DEF Survives
<1> QED
  BY <1>1, <1>3 DEF Answers

\* A step after which the whole file is on disk keeps the invariant when its file answers what
\* the calls allow.
LEMMA SyncedKeeps ==
    ASSUME file' \in Files, synced' = Len(file'), up' \in BOOLEAN,
           may' \in [Keys -> SUBSET KV!Contents], up' => Faithful(Now'),
           \A k \in Keys : Lookup(file', k) \in may'[k]
    PROVE  LogInv'
<1>1. Len(file') \in Nat /\ SubSeq(file', 1, Len(file')) = file'
  BY WholePrefix
<1>2. synced' \in 0 .. Len(file')
  BY <1>1
<1>3. ASSUME NEW n \in synced' .. Len(file'), NEW k \in Keys
      PROVE  /\ Lookup(SubSeq(file', 1, n), k) \in may'[k]
             /\ up' /\ index'[k] = None => Lookup(SubSeq(file', 1, n), k) = None
  <2>1. n = Len(file')
    BY <1>1
  <2>2. SubSeq(file', 1, n) = file'
    BY <1>1, <2>1
  <2>3. ASSUME up', index'[k] = None PROVE Lookup(file', k) = None
    <3>1. Replay(file').index = index'
      BY <2>3 DEF Faithful, Now
    <3> QED
      BY <2>3, <3>1 DEF Lookup, Get
  <2>4. Lookup(file', k) \in may'[k]
    OBVIOUS
  <2> QED
    BY Zenon, <2>2, <2>3, <2>4
<1>4. Survives'
  BY <1>3 DEF Survives
<1> QED
  BY <1>2, <1>4 DEF LogInv

-----------------------------------------------------------------------------
\* The new value of a key in the history variable is a set of contents.
LEMMA MayType ==
    ASSUME may \in [Keys -> SUBSET KV!Contents], NEW k \in Keys, NEW x \in KV!Contents
    PROVE  /\ [may EXCEPT ![k] = {x}] \in [Keys -> SUBSET KV!Contents]
           /\ [may EXCEPT ![k] = @ \cup {x}] \in [Keys -> SUBSET KV!Contents]
OBVIOUS

\* An acknowledged put, or a delete of a key that is there: the record, the compaction it may
\* start and the flush.
LEMMA AckedKeeps ==
    ASSUME LogInv, up, up', NEW k \in Keys, NEW kind \in {"put", "del"}, NEW v \in Files,
           NEW x \in KV!Contents, x = Written(kind, v),
           Become(MaybeCompacted(Logged(k, kind, v))), synced' = Len(file'), Settled(k, x)
    PROVE  LogInv' /\ Answers(file') = [Answers(file) EXCEPT ![k] = x]
<1> DEFINE s == Logged(k, kind, v)
           c == MaybeCompacted(s)
<1>1. Faithful(Now)
  BY DEF LogInv
<1>2. Faithful(s) /\ Answers(s.file) = [Answers(file) EXCEPT ![k] = x]
  BY <1>1, LoggedKeeps
<1> HIDE DEF s
<1>3. Faithful(c) /\ Answers(c.file) = [Answers(file) EXCEPT ![k] = x]
  BY <1>2, MaybeCompactedKeeps
<1>4. file' = c.file /\ index' = c.index /\ end' = c.end /\ dead' = c.dead
  BY DEF Become, s
<1> HIDE DEF c
<1>5. file' \in Files /\ Faithful(Now') /\ Answers(file') = [Answers(file) EXCEPT ![k] = x]
  BY <1>3, <1>4 DEF Faithful, Now
<1>6. may' \in [Keys -> SUBSET KV!Contents] /\ may' = [may EXCEPT ![k] = {x}]
  BY MayType DEF LogInv, Settled
<1>7. ASSUME NEW j \in Keys PROVE Lookup(file', j) \in may'[j]
  <2>1. Lookup(file', j) = Answers(file')[j] /\ Lookup(file, j) = Answers(file)[j]
    BY DEF Answers
  <2>2. Lookup(file, j) \in may[j]
    BY ViewIsAnswers
  <2>3. CASE j = k
    <3>1. Answers(file')[k] = x
      BY <1>5 DEF Answers
    <3>2. may'[k] = {x}
      BY <1>6 DEF LogInv
    <3> QED
      BY <2>1, <2>3, <3>1, <3>2
  <2>4. CASE j # k
    <3>1. Answers(file')[j] = Answers(file)[j]
      BY Zenon, <1>5, <2>4 DEF Answers
    <3>2. may'[j] = may[j]
      BY <1>6, <2>4 DEF LogInv
    <3> QED
      BY <2>1, <2>2, <3>1, <3>2
  <2> QED
    BY <2>3, <2>4
<1>8. LogInv'
  BY <1>5, <1>6, <1>7, SyncedKeeps
<1> QED
  BY <1>5, <1>8

\* A delete of a key that is not there: nothing is written.
LEMMA AbsentKeeps ==
    ASSUME LogInv, up, up', NEW k \in Keys, index[k] = None,
           UNCHANGED <<file, synced, memory>>, Settled(k, None)
    PROVE  LogInv' /\ Answers(file') = [Answers(file) EXCEPT ![k] = None]
<1>1. None \in KV!Contents
  BY DEF KV!Contents
<1>2. /\ may' \in [Keys -> SUBSET KV!Contents] /\ may' = [may EXCEPT ![k] = {None}]
      /\ may \in [Keys -> SUBSET KV!Contents]
  BY <1>1, MayType DEF LogInv, Settled
<1>3. file' = file /\ synced' = synced /\ index' = index /\ end' = end /\ dead' = dead
  BY DEF memory
<1>4. Now' = Now
  BY <1>3 DEF Now
<1>5. ASSUME NEW n \in synced .. Len(file), NEW j \in Keys
      PROVE  /\ Lookup(SubSeq(file, 1, n), j) \in may'[j]
             /\ index[j] = None => Lookup(SubSeq(file, 1, n), j) = None
  <2>1. /\ Lookup(SubSeq(file, 1, n), j) \in may[j]
        /\ index[j] = None => Lookup(SubSeq(file, 1, n), j) = None
    BY DEF LogInv, Survives
  <2>2. CASE j = k
    <3>1. may'[k] = {None}
      BY <1>2
    <3> QED
      BY <2>1, <2>2, <3>1
  <2>3. CASE j # k
    <3>1. may'[j] = may[j]
      BY <1>2, <2>3
    <3> QED
      BY <2>1, <3>1
  <2> QED
    BY <2>2, <2>3
<1>6. LogInv'
  <2>1. file \in Files /\ synced \in 0 .. Len(file) /\ Faithful(Now')
    BY <1>4 DEF LogInv
  <2>2. Survives'
    BY <1>3, <1>5 DEF Survives
  <2> QED
    BY <1>2, <1>3, <2>1, <2>2 DEF LogInv
<1>7. Lookup(file, k) = None
  BY ViewIsAnswers
<1>8. Answers(file) = [Answers(file) EXCEPT ![k] = None]
  BY <1>7 DEF Answers
<1> QED
  BY <1>3, <1>6, <1>8

\* A put whose flush failed: the record may or may not survive a crash.
LEMMA UnflushedKeeps ==
    ASSUME LogInv, up, up', NEW k \in Keys, NEW v \in Values,
           Become(Logged(k, "put", v)), synced' = synced, InDoubt(k, v)
    PROVE  LogInv' /\ Answers(file') = [Answers(file) EXCEPT ![k] = v]
<1> DEFINE s == Logged(k, "put", v)
<1>1. Faithful(Now) /\ file \in Files /\ Len(file) \in Nat /\ synced \in 0 .. Len(file)
  BY DEF LogInv, Files
<1>2. v \in Files /\ v \in KV!Contents /\ Len(v) \in Nat
  BY ValueCells DEF KV!Contents, Files
<1>3. /\ Joins(file, Record(k, "put", v), s.file) /\ Faithful(s)
      /\ Answers(s.file) = [Answers(file) EXCEPT ![k] = v]
  BY Zenon, <1>1, <1>2, LoggedKeeps DEF Written
<1>4. file' = s.file /\ index' = s.index /\ end' = s.end /\ dead' = s.dead
  BY DEF Become
<1>5. index' = [index EXCEPT ![k] = [off |-> end + 1, len |-> Len(v)]]
  <2>1. s.index = [index EXCEPT ![k] = [off |-> end + 1, len |-> Len(v)]]
    BY DEF Logged
  <2> HIDE DEF s
  <2> QED
    BY <1>4, <2>1
<1> HIDE DEF s
<1>6. /\ file' \in Files /\ Faithful(Now') /\ Answers(file') = [Answers(file) EXCEPT ![k] = v]
      /\ Joins(file, Record(k, "put", v), file')
  BY <1>3, <1>4 DEF Faithful, Now
<1>7. /\ may' \in [Keys -> SUBSET KV!Contents] /\ may' = [may EXCEPT ![k] = @ \cup {v}]
      /\ may \in [Keys -> SUBSET KV!Contents]
  BY <1>2, MayType DEF LogInv, InDoubt
<1>8. Len(file') = Len(file) + 1 + Len(v) /\ SubSeq(Record(k, "put", v), 1, 1 + Len(v)) = Record(k, "put", v)
  <2>1. Record(k, "put", v) \in Files /\ Len(Record(k, "put", v)) = 1 + Len(v)
    BY <1>2, RecordCellsOf
  <2>2. Len(file') = Len(file) + Len(Record(k, "put", v))
    BY <1>6 DEF Joins
  <2>3. Len(file') = Len(file) + 1 + Len(v)
    BY <1>1, <1>2, <2>1, <2>2
  <2> QED
    BY <2>1, <2>3, WholePrefix
<1>9. Replay(file).pos = Len(file) /\ Replay(file).index = index /\ end = Len(file) /\ index \in Indexes
  BY <1>1, NowFaithful
<1>10. ASSUME NEW n \in synced .. Len(file'), NEW j \in Keys
       PROVE  \/ /\ Lookup(SubSeq(file', 1, n), j) \in may[j]
                 /\ index[j] = None => Lookup(SubSeq(file', 1, n), j) = None
              \/ j = k /\ Lookup(SubSeq(file', 1, n), j) = v
  <2>1. n \in Nat /\ n \in 0 .. Len(file') /\ synced \in Nat
    BY <1>1, <1>2, <1>8
  <2>2. 1 + Len(v) \in 0 .. 1 + Len(v)
    BY <1>2
  <2>3. Joins(file, SubSeq(Record(k, "put", v), 1, 1 + Len(v)), file')
    BY Zenon, <1>6, <1>8
  <2>4. /\ n <= Len(file) => SubSeq(file', 1, n) = SubSeq(file, 1, n)
        /\ n >= Len(file) /\ n < Len(file) + 1 + Len(v) => Lookup(SubSeq(file', 1, n), j) = Lookup(file, j)
        /\ n = Len(file) + 1 + Len(v) =>
               Lookup(SubSeq(file', 1, n), j) = IF j = k THEN v ELSE Lookup(file, j)
    <3> DEFINE f == file
               g == file'
               m == 1 + Len(v)
               kind == "put"
    <3>1. /\ f \in Files /\ Replay(f).pos = Len(f) /\ v \in Files /\ m \in 0 .. 1 + Len(v)
          /\ n \in 0 .. Len(g) /\ Joins(f, SubSeq(Record(k, kind, v), 1, m), g)
          /\ kind \in {"put", "del"} /\ Written(kind, v) = v
      BY <1>1, <1>2, <1>9, <2>1, <2>2, <2>3 DEF Written
    <3> HIDE DEF f, g, m, kind
    <3>2. /\ n <= Len(f) => SubSeq(g, 1, n) = SubSeq(f, 1, n)
          /\ n >= Len(f) /\ n < Len(f) + 1 + Len(v) => Lookup(SubSeq(g, 1, n), j) = Lookup(f, j)
          /\ n = Len(f) + 1 + Len(v) =>
                 Lookup(SubSeq(g, 1, n), j) = IF j = k THEN Written(kind, v) ELSE Lookup(f, j)
      BY <3>1, LookupPrefix
    <3> QED
      BY <3>1, <3>2 DEF f, g
  <2>5. Lookup(file, j) \in may[j] /\ (index[j] = None => Lookup(file, j) = None)
    BY ViewIsAnswers
  <2>6. CASE n <= Len(file)
    <3>1. n \in synced .. Len(file)
      BY <1>1, <2>1, <2>6
    <3>2. /\ Lookup(SubSeq(file, 1, n), j) \in may[j]
          /\ index[j] = None => Lookup(SubSeq(file, 1, n), j) = None
      BY <3>1 DEF LogInv, Survives
    <3>3. SubSeq(file', 1, n) = SubSeq(file, 1, n)
      BY <2>4, <2>6
    <3> QED
      BY Zenon, <3>2, <3>3
  <2>7. CASE n > Len(file) /\ n < Len(file) + 1 + Len(v)
    BY <1>1, <2>1, <2>4, <2>5, <2>7
  <2>8. CASE n = Len(file) + 1 + Len(v)
    BY <2>4, <2>5, <2>8
  <2>9. n <= Len(file) \/ (n > Len(file) /\ n < Len(file) + 1 + Len(v)) \/ n = Len(file) + 1 + Len(v)
    BY <1>1, <1>2, <1>8, <2>1
  <2> QED
    BY <2>6, <2>7, <2>8, <2>9
<1>11. ASSUME NEW n \in synced' .. Len(file'), NEW j \in Keys
       PROVE  /\ Lookup(SubSeq(file', 1, n), j) \in may'[j]
              /\ up' /\ index'[j] = None => Lookup(SubSeq(file', 1, n), j) = None
  <2>1. n \in synced .. Len(file')
    OBVIOUS
  <2>2. CASE j = k
    <3>1. may'[k] = may[k] \cup {v}
      BY <1>7
    <3>2. index'[k] # None
      <4>1. [off |-> end + 1, len |-> Len(v)] \in [off : Nat, len : Nat]
        BY <1>1, <1>2, <1>9
      <4> QED
        BY <1>5, <1>9, <4>1, CellsAssumption DEF Indexes
    <3> QED
      BY <1>10, <2>1, <2>2, <3>1, <3>2
  <2>3. CASE j # k
    <3>1. may'[j] = may[j]
      BY <1>7, <2>3
    <3>2. index'[j] = index[j]
      BY <1>5, <1>9, <2>3 DEF Indexes
    <3> QED
      BY <1>10, <2>1, <2>3, <3>1, <3>2
  <2> QED
    BY <2>2, <2>3
<1>12. synced' \in 0 .. Len(file')
  BY <1>1, <1>2, <1>8
<1>13. LogInv'
  <2>1. Survives'
    BY Zenon, <1>11 DEF Survives
  <2> QED
    BY <1>6, <1>7, <1>12, <2>1 DEF LogInv
<1> QED
  BY <1>6, <1>13

\* compact called by itself.
LEMMA CompactKeeps ==
    ASSUME LogInv, Compact
    PROVE  LogInv' /\ Answers(file') = Answers(file)
<1> DEFINE c == Compacted(Now)
<1>1. Faithful(Now) /\ up /\ up' /\ may' = may /\ synced' = Len(file')
  BY DEF LogInv, Compact
<1>2. Faithful(c) /\ Answers(c.file) = Answers(file)
  BY <1>1, CompactedKeeps DEF Now
<1>3. file' = c.file /\ index' = c.index /\ end' = c.end /\ dead' = c.dead
  BY DEF Compact, Become, Now
<1> HIDE DEF c
<1>4. file' \in Files /\ Faithful(Now') /\ Answers(file') = Answers(file)
  BY <1>2, <1>3 DEF Faithful, Now
<1>5. ASSUME NEW j \in Keys PROVE Lookup(file', j) \in may'[j]
  <2>1. Lookup(file', j) = Lookup(file, j)
    BY <1>4 DEF Answers
  <2> QED
    BY <1>1, <2>1, ViewIsAnswers
<1>6. may' \in [Keys -> SUBSET KV!Contents]
  BY <1>1 DEF LogInv
<1>7. LogInv'
  BY <1>1, <1>4, <1>5, <1>6, SyncedKeeps
<1> QED
  BY <1>4, <1>7

\* A crash between two operations.
LEMMA CrashKeeps ==
    ASSUME LogInv, Crash
    PROVE  LogInv' /\ may' = may
<1>1. PICK n \in synced .. Len(file) : file' = SubSeq(file, 1, n)
  BY DEF Crash
<1>2. file \in Files /\ synced \in 0 .. Len(file) /\ n \in 0 .. Len(file)
  BY <1>1 DEF LogInv, Files
<1>3. file' \in Files
  BY <1>1, <1>2, CutShares
<1>4. up' = FALSE /\ synced' = Len(file') /\ may' = may
  BY DEF Crash, Stop
<1>5. \A j \in Keys : Lookup(file', j) \in may'[j]
  BY <1>1, <1>4 DEF LogInv, Survives
<1>6. may' \in [Keys -> SUBSET KV!Contents]
  BY <1>4 DEF LogInv
<1> QED
  BY Zenon, <1>3, <1>4, <1>5, <1>6, SyncedKeeps

\* A crash inside the write of a record.
LEMMA CrashWritingKeeps ==
    ASSUME LogInv, NEW k \in Keys, NEW kind \in {"put", "del"}, NEW v \in Files,
           NEW m \in 0 .. 1 + Len(v), NEW x \in KV!Contents, x = Written(kind, v),
           CrashWriting(k, kind, v, m)
    PROVE  /\ LogInv'
           /\ \/ Answers(file') = Answers(file)
              \/ Answers(file') = [Answers(file) EXCEPT ![k] = x]
<1> DEFINE rec == Record(k, kind, v)
           c == SubSeq(rec, 1, m)
<1>1. file \in Files /\ Len(file) \in Nat /\ end = Len(file) /\ Replay(file).pos = Len(file)
  <2>1. Faithful(Now)
    BY DEF LogInv, CrashWriting
  <2> QED
    BY <2>1, NowFaithful DEF Files
<1>2. rec \in Files /\ Len(rec) = 1 + Len(v) /\ Len(v) \in Nat
  BY RecordCellsOf
<1> HIDE DEF rec
<1>3. c \in Files /\ Len(c) = m
  BY <1>2, CutShares
<1>4. file' = WriteAt(file, end, c)
  BY DEF CrashWriting, rec
<1> HIDE DEF c
<1>5. Joins(file, c, file')
  BY <1>1, <1>3, <1>4, WriteAtEnd
<1>6. file' \in Files /\ Len(file') = Len(file) + m /\ Len(file') \in Nat
  BY <1>1, <1>2, <1>3, <1>5 DEF Joins
<1>7. /\ up' = FALSE /\ synced' = Len(file') /\ may' = [may EXCEPT ![k] = @ \cup {x}]
      /\ may \in [Keys -> SUBSET KV!Contents] /\ may' \in [Keys -> SUBSET KV!Contents]
  <2>1. up' = FALSE /\ synced' = Len(file') /\ may' = [may EXCEPT ![k] = @ \cup {x}]
    BY DEF CrashWriting, Stop, InDoubt, Written
  <2> QED
    BY <2>1, MayType DEF LogInv
<1>8. ASSUME NEW j \in Keys
      PROVE  IF m = 1 + Len(v) /\ j = k THEN Lookup(file', j) = x ELSE Lookup(file', j) = Lookup(file, j)
  <2> DEFINE f == file
             g == file'
             n == Len(g)
  <2>1. /\ f \in Files /\ Replay(f).pos = Len(f) /\ n \in 0 .. Len(g)
        /\ Joins(f, SubSeq(Record(k, kind, v), 1, m), g) /\ SubSeq(g, 1, n) = g
        /\ n = Len(f) + m /\ Len(f) \in Nat
    BY <1>1, <1>5, <1>6, WholePrefix DEF c, rec
  <2> HIDE DEF f, g, n
  <2>2. /\ n >= Len(f) /\ n < Len(f) + 1 + Len(v) => Lookup(SubSeq(g, 1, n), j) = Lookup(f, j)
        /\ n = Len(f) + 1 + Len(v) =>
               Lookup(SubSeq(g, 1, n), j) = IF j = k THEN Written(kind, v) ELSE Lookup(f, j)
    BY <2>1, LookupPrefix
  <2>3. CASE m = 1 + Len(v)
    <3>1. n = Len(f) + 1 + Len(v)
      BY <1>2, <2>1, <2>3
    <3>2. Lookup(SubSeq(g, 1, n), j) = IF j = k THEN x ELSE Lookup(f, j)
      BY <2>2, <3>1
    <3>3. SubSeq(g, 1, n) = g
      BY <2>1
    <3>4. Lookup(g, j) = IF j = k THEN x ELSE Lookup(f, j)
      BY Zenon, <3>2, <3>3
    <3> QED
      BY <2>3, <3>4 DEF f, g
  <2>4. CASE m # 1 + Len(v)
    <3>1. n >= Len(f) /\ n < Len(f) + 1 + Len(v)
      BY <1>2, <2>1, <2>4
    <3>2. Lookup(g, j) = Lookup(f, j)
      BY Zenon, <2>1, <2>2, <3>1
    <3> QED
      BY <2>4, <3>2 DEF f, g
  <2> QED
    BY <2>3, <2>4
<1>9. ASSUME NEW j \in Keys PROVE Lookup(file', j) \in may'[j]
  <2>1. Lookup(file, j) \in may[j]
    BY ViewIsAnswers
  <2>2. j = k => may'[j] = may[j] \cup {x}
    BY <1>7
  <2>3. j # k => may'[j] = may[j]
    BY <1>7
  <2> QED
    BY <1>8, <2>1, <2>2, <2>3
<1>10. LogInv'
  BY Zenon, <1>6, <1>7, <1>9, SyncedKeeps
<1>11. CASE m = 1 + Len(v)
  BY Zenon, <1>8, <1>10, <1>11 DEF Answers
<1>12. CASE m # 1 + Len(v)
  BY <1>8, <1>10, <1>12 DEF Answers
<1> QED
  BY <1>11, <1>12

\* open.
LEMMA OpenKeeps ==
    ASSUME LogInv, Open
    PROVE  LogInv' /\ Answers(file') = Answers(file)
<1> DEFINE r == Replay(file)
<1>1. /\ up' /\ synced' = Len(file') /\ may' = may
      /\ index' = r.index /\ end' = r.pos /\ dead' = r.dead /\ file' = SubSeq(file, 1, r.pos)
  BY DEF Open
<1>2. file \in Files /\ may \in [Keys -> SUBSET KV!Contents]
  BY DEF LogInv
<1>3. r \in ReplayStates /\ r.pos \in 0 .. Len(file)
  <2>1. r \in ReplayStates /\ r.pos <= Len(file)
    BY <1>2, ReplayInside
  <2>2. r.pos \in Nat /\ Len(file) \in Nat
    BY <1>2, <2>1 DEF ReplayStates, Files
  <2> QED
    BY <2>1, <2>2
<1> HIDE DEF r
<1>4. file' \in Files /\ Len(file') = r.pos /\ Shares(file, file', r.pos)
  BY <1>1, <1>2, <1>3, CutShares
<1>5. Replay(file') = r /\ \A j \in Keys : Lookup(file', j) = Lookup(file, j)
  BY <1>2, <1>4, LookupCut DEF r
<1>6. Faithful(Now')
  BY <1>1, <1>3, <1>4, <1>5 DEF Faithful, Now, ReplayStates
<1>7. \A j \in Keys : Lookup(file', j) \in may'[j]
  BY <1>1, <1>5, ViewIsAnswers
<1>8. LogInv'
  BY <1>1, <1>2, <1>4, <1>6, <1>7, SyncedKeeps
<1> QED
  BY <1>5, <1>8 DEF Answers

-----------------------------------------------------------------------------
\* Every step keeps the invariant, and is a step of the map or changes nothing of it: a call
\* that returns writes its key, a call cut short or not flushed leaves its key in doubt, a crash
\* settles the keys in doubt, compact and open leave the map as it is.
LEMMA LogStep ==
    ASSUME LogInv, [Next]_vars
    PROVE  LogInv' /\ [KV!KVNext]_(KV!kvVars)
<1>1. View = Answers(file)
  BY ViewIsAnswers
<1>2. LogInv' => View' = Answers(file')
  <2> SUFFICES ASSUME LogInv' PROVE View' = Answers(file')
    OBVIOUS
  <2>1. CASE up'
    <3>1. Replay(file').index = index'
      <4>1. Faithful(Now')
        BY <2>1 DEF LogInv
      <4> QED
        BY <4>1 DEF Faithful, Now
    <3> QED
      BY <2>1, <3>1 DEF View, Answers, Lookup
  <2>2. CASE ~up'
    BY <2>2 DEF View, Answers, Lookup
  <2> QED
    BY <2>1, <2>2
<1>3. ASSUME NEW k \in Keys, NEW x \in KV!Contents, LogInv',
             Answers(file') = [Answers(file) EXCEPT ![k] = x], may' = [may EXCEPT ![k] = {x}]
      PROVE  KV!KVNext
  <2>1. KV!Write(k, x)
    BY <1>1, <1>2, <1>3 DEF KV!Write
  <2> QED
    BY <2>1 DEF KV!KVNext
<1>4. ASSUME NEW k \in Keys, NEW x \in KV!Contents, LogInv',
             Answers(file') = Answers(file) \/ Answers(file') = [Answers(file) EXCEPT ![k] = x],
             may' = [may EXCEPT ![k] = @ \cup {x}]
      PROVE  KV!KVNext
  <2>1. KV!WriteInDoubt(k, x)
    BY <1>1, <1>2, <1>4 DEF KV!WriteInDoubt
  <2> QED
    BY <2>1 DEF KV!KVNext
<1>5. ASSUME LogInv', Answers(file') = Answers(file), may' = may
      PROVE  UNCHANGED KV!kvVars
  BY <1>1, <1>2, <1>5 DEF KV!kvVars
<1>6. None \in KV!Contents /\ \A v \in Values : v \in KV!Contents
  BY DEF KV!Contents
<1>7. ASSUME NEW k \in Keys, NEW v \in Values, Put(k, v)
      PROVE  LogInv' /\ KV!KVNext
  <2>1. v \in Files /\ v = Written("put", v)
    BY ValueCells DEF Written
  <2>2. LogInv' /\ Answers(file') = [Answers(file) EXCEPT ![k] = v]
    BY <1>6, <1>7, <2>1, AckedKeeps DEF Put
  <2>3. may' = [may EXCEPT ![k] = {v}]
    BY <1>7 DEF Put, Settled
  <2> QED
    BY Zenon, <1>3, <1>6, <2>2, <2>3
<1>8. ASSUME NEW k \in Keys, NEW v \in Values, PutFlushFails(k, v)
      PROVE  LogInv' /\ KV!KVNext
  <2>1. LogInv' /\ Answers(file') = [Answers(file) EXCEPT ![k] = v]
    BY <1>8, UnflushedKeeps DEF PutFlushFails
  <2>2. may' = [may EXCEPT ![k] = @ \cup {v}]
    BY <1>8 DEF PutFlushFails, InDoubt
  <2> QED
    BY Zenon, <1>4, <1>6, <2>1, <2>2
<1>9. ASSUME NEW k \in Keys, Delete(k)
      PROVE  LogInv' /\ KV!KVNext
  <2>1. LogInv' /\ Answers(file') = [Answers(file) EXCEPT ![k] = None]
    <3>1. CASE index[k] = None
      BY <1>9, <3>1, AbsentKeeps DEF Delete
    <3>2. CASE index[k] # None
      <4>1. <<>> \in Files /\ None = Written("del", <<>>)
        BY ValueCells DEF Written
      <4> QED
        BY <1>6, <1>9, <3>2, <4>1, AckedKeeps DEF Delete
    <3> QED
      BY <3>1, <3>2
  <2>2. may' = [may EXCEPT ![k] = {None}]
    BY <1>9 DEF Delete, Settled
  <2> QED
    BY Zenon, <1>3, <1>6, <2>1, <2>2
<1>10. CASE Compact
  BY <1>5, <1>10, CompactKeeps DEF Compact
<1>11. CASE Crash
  <2>1. LogInv' /\ may' = may
    BY <1>11, CrashKeeps
  <2>2. ASSUME NEW k \in Keys PROVE View'[k] \in may[k] /\ View'[k] \in KV!Contents
    <3>1. View'[k] = Lookup(file', k)
      BY <1>2, <2>1 DEF Answers
    <3>2. up' = FALSE /\ synced' = Len(file') /\ file' \in Files
      BY <1>11, <2>1 DEF Crash, Stop, LogInv
    <3>3. SubSeq(file', 1, Len(file')) = file' /\ Len(file') \in synced' .. Len(file')
      BY <3>2, WholePrefix
    <3>4. Lookup(file', k) \in may'[k]
      BY Zenon, <2>1, <3>3 DEF LogInv, Survives
    <3>5. may[k] \subseteq KV!Contents
      BY DEF LogInv
    <3> QED
      BY <2>1, <3>1, <3>4, <3>5
  <2>3. View' \in [Keys -> KV!Contents]
    BY <1>2, <2>1, <2>2 DEF Answers
  <2>4. KV!Settle
    BY <2>1, <2>2, <2>3 DEF KV!Settle
  <2> QED
    BY <2>1, <2>4 DEF KV!KVNext
<1>12. ASSUME NEW k \in Keys, NEW kv \in Kinds, NEW m \in PartOf(kv), CrashWriting(k, kv[1], kv[2], m)
       PROVE  LogInv' /\ KV!KVNext
  <2> DEFINE kind == kv[1]
             v == kv[2]
             x == Written(kind, v)
  <2>1. kind \in {"put", "del"} /\ v \in Files /\ x \in KV!Contents
    BY <1>6, ValueCells DEF Kinds, Written
  <2>2. m \in 0 .. 1 + Len(v) /\ CrashWriting(k, kind, v, m)
    BY <1>12 DEF PartOf
  <2> HIDE DEF kind, v
  <2>3. may' = [may EXCEPT ![k] = @ \cup {x}]
    BY <2>2 DEF CrashWriting, InDoubt, Written
  <2>4. x = Written(kind, v)
    OBVIOUS
  <2> HIDE DEF x
  <2>5. /\ LogInv'
        /\ Answers(file') = Answers(file) \/ Answers(file') = [Answers(file) EXCEPT ![k] = x]
    BY <2>1, <2>2, <2>4, CrashWritingKeeps
  <2> QED
    BY Zenon, <1>4, <2>1, <2>3, <2>5
<1>13. CASE Open
  BY <1>5, <1>13, OpenKeeps DEF Open
<1>14. CASE UNCHANGED vars
  <2>1. /\ file' = file /\ synced' = synced /\ index' = index /\ end' = end /\ dead' = dead
        /\ up' = up /\ may' = may
    BY <1>14 DEF vars
  <2>2. LogInv'
    BY <2>1 DEF LogInv, Now, Survives
  <2> QED
    BY <1>5, <2>1, <2>2
<1> QED
  BY <1>7, <1>8, <1>9, <1>10, <1>11, <1>12, <1>13, <1>14 DEF Next

\* An empty store satisfies the invariant and is the empty map.
LEMMA LogStart ==
    ASSUME Init
    PROVE  LogInv /\ KV!KVInit
<1>1. <<>> \in Files /\ Len(<<>>) = 0 /\ Replay(<<>>) = ReplayStart
  BY ReplayEmpty
<1>2. SubSeq(<<>>, 1, 0) = <<>>
  BY <1>1, WholePrefix
<1>3. \A k \in Keys : Lookup(<<>>, k) = None
  BY <1>1 DEF Lookup, Get, ReplayStart
<1>4. /\ file = <<>> /\ synced = 0 /\ up = TRUE /\ end = 0 /\ dead = 0
      /\ index = [k \in Keys |-> None] /\ may = [k \in Keys |-> {None}]
  BY DEF Init
<1>5. Faithful(Now)
  BY <1>1, <1>4 DEF Faithful, Now, ReplayStart
<1>6. may \in [Keys -> SUBSET KV!Contents]
  BY <1>4 DEF KV!Contents
<1>7. ASSUME NEW n \in synced .. Len(file), NEW k \in Keys
      PROVE  /\ Lookup(SubSeq(file, 1, n), k) \in may[k]
             /\ Lookup(SubSeq(file, 1, n), k) = None
  <2>1. n = 0
    BY <1>1, <1>4
  <2> QED
    BY Zenon, <1>2, <1>3, <1>4, <2>1
<1>8. LogInv
  <2>1. file \in Files /\ synced \in 0 .. Len(file) /\ up \in BOOLEAN
    BY <1>1, <1>4
  <2> QED
    BY <1>5, <1>6, <1>7, <2>1 DEF LogInv, Survives
<1>9. View = [k \in Keys |-> None]
  BY <1>3, <1>4, <1>8, ViewIsAnswers DEF Answers
<1> QED
  BY <1>4, <1>8, <1>9 DEF KV!KVInit

\* The index, the append position and the dead-space counter of an open store are always those
\* open would compute from its file (LogStore::put, delete, compact against LogStore::open).
THEOREM IndexIsReplay == Spec => []ReplayAgrees
<1>1. Init => LogInv
  BY LogStart
<1>2. LogInv /\ [Next]_vars => LogInv'
  BY LogStep
<1>3. LogInv => ReplayAgrees
  <2> SUFFICES ASSUME LogInv, up PROVE ReplayAgrees
    BY DEF ReplayAgrees
  <2> QED
    BY NowFaithful DEF LogInv, ReplayAgrees
<1> QED
  BY <1>1, <1>2, <1>3, PTL DEF Spec

\* A get returns the value of the last acknowledged put or delete of its key, or of a later one
\* that failed, before and after every crash between operations or inside a record.
THEOREM ReadsAreAcked == Spec => []ReadsAcked
<1>1. Init => LogInv
  BY LogStart
<1>2. LogInv /\ [Next]_vars => LogInv'
  BY LogStep
<1>3. LogInv => ReadsAcked
  BY ViewIsAnswers DEF ReadsAcked
<1> QED
  BY <1>1, <1>2, <1>3, PTL DEF Spec

\* The log-structured store implements the map the trait Store promises.
THEOREM LogStoreImplementsMap == Spec => Implements
<1>1. Init => LogInv /\ KV!KVInit
  BY LogStart
<1>2. LogInv /\ [Next]_vars => LogInv' /\ [KV!KVNext]_(KV!kvVars)
  BY LogStep
<1> QED
  BY <1>1, <1>2, PTL DEF Spec, Implements, KV!KVSpec
=============================================================================
