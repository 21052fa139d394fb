-------------------------- MODULE HypercoreProofs --------------------------
(***************************************************************************)
(* The safety properties of a running hypercore, for every set of values,  *)
(* every set of prologues and every bound.                                 *)
(***************************************************************************)
EXTENDS Hypercore, TLAPS

\* A prefix of a log is a log, and keeps the blocks it covers.
LEMMA PrefixFacts ==
    ASSUME NEW s \in Seq(Values), NEW n \in 0 .. Len(s)
    PROVE  /\ Prefix(s, n) \in Seq(Values)
           /\ Len(Prefix(s, n)) = n
           /\ \A i \in 1 .. n : Prefix(s, n)[i] = s[i]
  BY DEF Prefix

\* Appending blocks to a log gives a log that starts with the old one.
LEMMA ConcatFacts ==
    ASSUME NEW s \in Seq(Values), NEW t \in Seq(Values)
    PROVE  /\ s \o t \in Seq(Values)
           /\ Len(s \o t) = Len(s) + Len(t)
           /\ \A i \in 1 .. Len(s) : (s \o t)[i] = s[i]
           /\ \A i \in 1 .. Len(t) : (s \o t)[Len(s) + i] = t[i]
  OBVIOUS

\* Writing blocks to the store keeps its type.
LEMMA WrittenType ==
    ASSUME NEW s \in [Positions -> Values \cup {None}], NEW n \in Nat, NEW b \in Seq(Values)
    PROVE  Written(s, n, b) \in [Positions -> Values \cup {None}]
  BY BoundsAssumption DEF Written, Positions

\* Deleting blocks from the store keeps its type.
LEMMA ErasedType ==
    ASSUME NEW s \in [Positions -> Values \cup {None}], NEW g
    PROVE  Erased(s, g) \in [Positions -> Values \cup {None}]
  BY DEF Erased

\* A failed write keeps the type of the store.
LEMMA FailedWriteType ==
    ASSUME NEW s \in [Positions -> Values \cup {None}], NEW i, NEW x \in Values \cup {None},
           NEW t \in FailedWrite(s, i, x)
    PROVE  t \in [Positions -> Values \cup {None}]
  BY DEF FailedWrite
-----------------------------------------------------------------------------
\* Every step of a running core keeps the type of every variable.
LEMMA TypeStep == TypeOK /\ [Running]_vars => TypeOK'
<1> SUFFICES ASSUME TypeOK, [Running]_vars PROVE TypeOK'
  OBVIOUS
<1> USE BoundsAssumption
<1>1. ASSUME NEW v \in Values, AppendBlock(v) PROVE TypeOK'
  <2>1. /\ tree \in Seq(Values) /\ Len(tree) + 1 \in Positions
        /\ tree \o <<v>> \in Seq(Values) /\ Len(tree \o <<v>>) = Len(tree) + 1
    BY <1>1 DEF TypeOK, AppendBlock, Logs, Positions
  <2>2. tree' \in Logs
    BY <1>1, <2>1 DEF AppendBlock, Logs, Positions
  <2>3. presence' \subseteq Positions /\ store' \in [Positions -> Values \cup {None}]
    BY <1>1, <2>1 DEF TypeOK, AppendBlock
  <2>4. [fork |-> fork, root |-> tree'] \in Heads
    BY <2>2 DEF TypeOK, Heads
  <2>. QED  BY <1>1, <2>2, <2>3, <2>4 DEF TypeOK, AppendBlock, Resign, HeadOrNone
<1>2. ASSUME NEW v \in Values, AppendFails(v) PROVE TypeOK'
  <2>1. store' \in [Positions -> Values \cup {None}]
    BY <1>2, FailedWriteType DEF TypeOK, AppendFails
  <2>. QED  BY <1>2, <2>1 DEF TypeOK, AppendFails, logical
<1>3. ASSUME NEW n \in 0 .. MaxLen, Truncate(n) PROVE TypeOK'
  <2>1. tree \in Seq(Values) /\ n \in 0 .. Len(tree)
    BY <1>3 DEF TypeOK, Truncate, Logs
  <2>2. tree' \in Logs
    BY <1>3, <2>1, PrefixFacts DEF Truncate, Logs
  <2>3. fork' \in 0 .. MaxFork /\ presence' \subseteq Positions
    BY <1>3 DEF TypeOK, Truncate, RewoundPresence, NextFork
  <2>4. [fork |-> fork', root |-> tree'] \in Heads
    BY <2>2, <2>3 DEF Heads
  <2>. QED  BY <1>3, <2>2, <2>3, <2>4 DEF TypeOK, Truncate, Resign, HeadOrNone, durable
<1>4. ASSUME NEW n \in 0 .. MaxLen, CopyPrologue(n) PROVE TypeOK'
  <2>1. prologue \in Seq(Values) /\ n \in 0 .. Len(prologue)
    BY <1>4, ProloguesAssumption DEF TypeOK, CopyPrologue
  <2>2. Prefix(prologue, n) \in Seq(Values) /\ Len(Prefix(prologue, n)) = n
    BY <2>1, PrefixFacts
  <2>3. tree' \in Logs /\ presence' \subseteq Positions
    <3>1. presence \subseteq Positions /\ presence' = presence \cup (1 .. n)
      BY <1>4 DEF TypeOK, CopyPrologue
    <3>. QED  BY <1>4, <2>1, <2>2, <3>1 DEF CopyPrologue, Logs, Positions
  <2>4. Written(store, 0, Prefix(prologue, n)) \in [Positions -> Values \cup {None}]
    BY <2>2, WrittenType DEF TypeOK
  <2>5. store' \in [Positions -> Values \cup {None}]
    <3>1. CASE n = Len(prologue)
      BY <1>4, <2>4, <3>1 DEF CopyPrologue
    <3>2. CASE n # Len(prologue)
      <4>1. prologue[n + 1] \in Values
        BY <2>1, <3>2
      <4>. QED  BY <1>4, <2>4, <3>2, <4>1, FailedWriteType DEF CopyPrologue
    <3>. QED  BY <3>1, <3>2
  <2>6. [fork |-> fork, root |-> tree'] \in Heads
    BY <2>3 DEF TypeOK, Heads
  <2>7. head' \in HeadOrNone /\ signed' \subseteq Heads
    BY <1>4, <2>6 DEF TypeOK, CopyPrologue, Resign, HeadOrNone
  <2>. QED  BY <1>4, <2>3, <2>5, <2>7 DEF TypeOK, CopyPrologue
<1>5. ASSUME OpenBatch PROVE TypeOK'
  <2>1. <<>> \in Logs /\ Len(<<>>) = 0 /\ Len(tree) \in 0 .. MaxLen
    BY DEF TypeOK, Logs
  <2>2. batch' \in [base : 0 .. MaxLen, encoded : Logs]
        /\ batch'.base + Len(batch'.encoded) <= MaxLen
    BY <1>5, <2>1 DEF TypeOK, OpenBatch
  <2>. QED  BY <1>5, <2>2 DEF TypeOK, OpenBatch, durable, logical
<1>6. ASSUME NEW v \in Values, Stage(v) PROVE TypeOK'
  <2>1. /\ batch \in [base : 0 .. MaxLen, encoded : Logs]
        /\ batch' = [batch EXCEPT !.encoded = Append(@, v)]
        /\ batch.base + Len(batch.encoded) < MaxLen
    BY <1>6 DEF TypeOK, Stage
  <2>2. batch.encoded \in Seq(Values) /\ batch.base \in 0 .. MaxLen
    BY <2>1 DEF Logs
  <2>3. /\ Append(batch.encoded, v) \in Seq(Values)
        /\ Len(Append(batch.encoded, v)) = Len(batch.encoded) + 1
    BY <2>2
  <2>4. Append(batch.encoded, v) \in Logs
    BY <2>1, <2>2, <2>3 DEF Logs
  <2>5. /\ batch' \in [base : 0 .. MaxLen, encoded : Logs]
        /\ batch'.base = batch.base /\ batch'.encoded = Append(batch.encoded, v)
    BY <2>1, <2>4
  <2>6. batch'.base + Len(batch'.encoded) <= MaxLen
    BY <2>1, <2>2, <2>3, <2>5
  <2>. QED  BY <1>6, <2>5, <2>6 DEF TypeOK, Stage, durable, logical
<1>7. ASSUME CommitNothing PROVE TypeOK'
  BY <1>7 DEF TypeOK, CommitNothing, durable, logical
<1>8. ASSUME Commit PROVE TypeOK'
  <2>1. /\ batch.encoded \in Seq(Values) /\ tree \in Seq(Values)
        /\ Len(tree) + Len(batch.encoded) <= MaxLen
    BY <1>8 DEF TypeOK, Commit, Logs
  <2>2. tree' \in Logs
    BY <1>8, <2>1, ConcatFacts DEF Commit, Logs
  <2>3. store' \in [Positions -> Values \cup {None}]
    BY <1>8, <2>1, WrittenType DEF TypeOK, Commit
  <2>4. presence' \subseteq Positions
    <3>1. /\ presence \subseteq Positions
          /\ presence' = presence \cup (Len(tree) + 1 .. Len(tree) + Len(batch.encoded))
      BY <1>8 DEF TypeOK, Commit
    <3>2. Len(tree) \in Nat /\ Len(batch.encoded) \in Nat
      BY <2>1
    <3>3. Len(tree) + 1 .. Len(tree) + Len(batch.encoded) \subseteq Positions
      BY <2>1, <3>2 DEF Positions
    <3>. QED  BY <3>1, <3>3
  <2>5. [fork |-> fork, root |-> tree'] \in Heads
    BY <2>2 DEF TypeOK, Heads
  <2>. QED  BY <1>8, <2>2, <2>3, <2>4, <2>5 DEF TypeOK, Commit, Resign, HeadOrNone
<1>9. ASSUME NEW j \in Positions, CommitFails(j) PROVE TypeOK'
  <2>1. /\ batch.encoded \in Seq(Values) /\ tree \in Seq(Values)
        /\ j \in 1 .. Len(batch.encoded)
    BY <1>9 DEF TypeOK, CommitFails, Logs
  <2>2. Prefix(batch.encoded, j - 1) \in Seq(Values) /\ batch.encoded[j] \in Values
    BY <2>1, PrefixFacts
  <2>3. Written(store, Len(tree), Prefix(batch.encoded, j - 1)) \in [Positions -> Values \cup {None}]
    BY <2>1, <2>2, WrittenType DEF TypeOK
  <2>4. PICK undone :
          store' \in FailedWrite(Erased(Written(store, Len(tree), Prefix(batch.encoded, j - 1)), undone),
                                Len(tree) + j, batch.encoded[j])
    BY <1>9 DEF CommitFails
  <2>5. store' \in [Positions -> Values \cup {None}]
    BY <2>2, <2>3, <2>4, ErasedType, FailedWriteType
  <2>. QED  BY <1>9, <2>5 DEF TypeOK, CommitFails, logical
<1>10. ASSUME NEW from \in Positions, NEW to \in from .. MaxLen, Clear(from, to) PROVE TypeOK'
  <2>1. store' \in [Positions -> Values \cup {None}]
    BY <1>10, ErasedType DEF TypeOK, Clear
  <2>. QED  BY <1>10, <2>1 DEF TypeOK, Clear
<1>11. ASSUME NEW from \in Positions, NEW to \in from .. MaxLen, ClearFails(from, to) PROVE TypeOK'
  <2>1. store' \in [Positions -> Values \cup {None}]
    BY <1>11, ErasedType, FailedWriteType DEF TypeOK, ClearFails
  <2>. QED  BY <1>11, <2>1 DEF TypeOK, ClearFails
<1>12. ASSUME NEW keep \in SUBSET Positions, Sweep(keep) PROVE TypeOK'
  <2>1. store' \in [Positions -> Values \cup {None}]
    BY <1>12, ErasedType DEF TypeOK, Sweep
  <2>. QED  BY <1>12, <2>1 DEF TypeOK, Sweep
<1>13. ASSUME Persist PROVE TypeOK'
  BY <1>13 DEF TypeOK, Persist, Meta, Metas, logical
<1>14. ASSUME NEW k \in 1 .. 2, PersistFails(k) PROVE TypeOK'
  BY <1>14 DEF TypeOK, PersistFails, logical
<1>15. ASSUME NEW h \in signed, RecoverSignedSuffix(h) PROVE TypeOK'
  <2>1. h \in Heads /\ h.root \in Logs /\ h.root \in Seq(Values) /\ AllBlocks(h.root) \subseteq Positions
    BY DEF TypeOK, Heads, Logs, AllBlocks, Positions
  <2>2. store' \in [Positions -> Values \cup {None}]
    BY <1>15, <2>1, WrittenType DEF TypeOK, RecoverSignedSuffix
  <2>. QED  BY <1>15, <2>1, <2>2 DEF TypeOK, RecoverSignedSuffix, Meta, Metas, HeadOrNone
<1>16. ASSUME NEW h \in signed, NEW n \in 0 .. MaxLen, NEW k \in 0 .. 2, RecoverFails(h, n, k)
       PROVE  TypeOK'
  <2>1. h.root \in Logs /\ h.root \in Seq(Values) /\ AllBlocks(h.root) \subseteq Positions
    BY DEF TypeOK, Heads, Logs, AllBlocks, Positions
  <2>2. Prefix(h.root, n) \in Seq(Values)
    BY <1>16, <2>1, PrefixFacts DEF RecoverFails, TypeOK, Logs
  <2>3. store' \in [Positions -> Values \cup {None}]
    BY <1>16, <2>2, WrittenType DEF TypeOK, RecoverFails
  <2>. QED  BY <1>16, <2>1, <2>3 DEF TypeOK, RecoverFails, logical
<1>17. CASE UNCHANGED vars
  BY <1>17 DEF TypeOK, vars, durable, logical
<1>. QED
  BY <1>1, <1>2, <1>3, <1>4, <1>5, <1>6, <1>7, <1>8, <1>9, <1>10, <1>11, <1>12, <1>13, <1>14,
     <1>15, <1>16, <1>17 DEF Running, Logging, Batching

\* Every variable keeps its type in every behaviour of a running core.
THEOREM TypeCorrect == Spec => []TypeOK
<1>1. Init => TypeOK
  BY BoundsAssumption DEF Init, TypeOK, Fresh, Positions, Logs, HeadOrNone
<1>. QED  BY <1>1, TypeStep, PTL DEF Spec

-----------------------------------------------------------------------------
\* A log is a prefix of itself and of its extensions, and prefixes are transitive.
LEMMA PrefixOrder ==
    ASSUME NEW s \in Seq(Values), NEW t \in Seq(Values), NEW u \in Seq(Values)
    PROVE  /\ IsPrefixOf(s, s)
           /\ IsPrefixOf(s, s \o t)
           /\ IsPrefixOf(s, t) /\ IsPrefixOf(t, u) => IsPrefixOf(s, u)
  BY ConcatFacts DEF IsPrefixOf

\* How one step of a running core moves the log: it stays, it grows and its new head is
\* signed at the same fork, or it is rewound and signed at the next fork.
Moves ==
    \/ UNCHANGED <<tree, fork, signed>>
    \/ /\ IsPrefixOf(tree, tree') /\ fork' = fork
       /\ signed' \in {signed, signed \cup {[fork |-> fork, root |-> tree']}}
    \/ /\ fork' = fork + 1
       /\ signed' = signed \cup {[fork |-> fork', root |-> tree']}

\* A signed head of the current fork that is at least as long as the log is the log.
LEMMA HeadIsTree ==
    ASSUME TypeOK, SignedHeadsHold, NEW h \in signed, Recoverable(h)
    PROVE  IsPrefixOf(tree, h.root) /\ Len(h.root) = Len(tree)
<1>1. h.root \in Seq(Values) /\ tree \in Seq(Values)
  BY DEF TypeOK, Heads, Logs
<1>2. IsPrefixOf(h.root, tree) /\ Len(h.root) >= Len(tree)
  BY DEF SignedHeadsHold, Recoverable
<1>. QED  BY <1>1, <1>2 DEF IsPrefixOf

\* Every step of a running core is one of the three moves.
LEMMA StepMoves ==
    ASSUME TypeOK, SignedHeadsHold, [Running]_vars
    PROVE  Moves
<1> USE BoundsAssumption
<1>1. ASSUME NEW v \in Values, AppendBlock(v) PROVE Moves
  <2>1. tree \in Seq(Values) /\ <<v>> \in Seq(Values)
    BY DEF TypeOK, Logs
  <2>2. IsPrefixOf(tree, tree \o <<v>>)
    BY <2>1, PrefixOrder
  <2>. QED  BY <1>1, <2>2 DEF AppendBlock, Resign, Moves
<1>2. ASSUME NEW n \in 0 .. MaxLen, Truncate(n) PROVE Moves
  BY <1>2 DEF Truncate, Resign, NextFork, Moves
<1>3. ASSUME NEW n \in 0 .. MaxLen, CopyPrologue(n) PROVE Moves
  <2>1. IsPrefixOf(tree, tree')
    BY <1>3 DEF CopyPrologue, IsPrefixOf, TypeOK, Logs
  <2>. QED  BY <1>3, <2>1 DEF CopyPrologue, Resign, Moves
<1>4. ASSUME Commit PROVE Moves
  <2>1. tree \in Seq(Values) /\ batch.encoded \in Seq(Values)
    BY <1>4 DEF TypeOK, Commit, Logs
  <2>2. IsPrefixOf(tree, tree \o batch.encoded)
    BY <2>1, PrefixOrder
  <2>. QED  BY <1>4, <2>2 DEF Commit, Resign, Moves
<1>5. ASSUME NEW h \in signed, RecoverSignedSuffix(h) PROVE Moves
  <2>1. Recoverable(h) /\ tree' = h.root /\ UNCHANGED <<fork, signed>>
    BY <1>5 DEF RecoverSignedSuffix
  <2>2. IsPrefixOf(tree, tree')
    BY <2>1, HeadIsTree
  <2>. QED  BY <2>1, <2>2 DEF Moves
<1>6. ASSUME \/ \E v \in Values : AppendFails(v) \/ Stage(v)
             \/ OpenBatch \/ CommitNothing \/ \E j \in Positions : CommitFails(j)
             \/ \E from, to \in Positions : Clear(from, to) \/ ClearFails(from, to)
             \/ \E keep \in SUBSET Positions : Sweep(keep)
             \/ Persist \/ \E k \in 1 .. 2 : PersistFails(k)
             \/ \E h \in signed, n \in 0 .. MaxLen, k \in 0 .. 2 : RecoverFails(h, n, k)
             \/ UNCHANGED vars
      PROVE  UNCHANGED <<tree, fork, signed>>
  BY <1>6 DEF AppendFails, Stage, OpenBatch, CommitNothing, CommitFails, Clear, ClearFails, Sweep,
              Persist, PersistFails, RecoverFails, vars, logical
<1>. QED
  BY <1>1, <1>2, <1>3, <1>4, <1>5, <1>6
  DEF Running, Logging, Batching, Moves, Positions

\* The inductive invariant behind the properties of signed heads.
HeadsInv == TypeOK /\ SignedHeadsHold /\ NoEquivocation

\* A move keeps every head of the current fork a prefix of the log.
LEMMA MovesKeepHeads ==
    ASSUME HeadsInv, TypeOK', Moves
    PROVE  SignedHeadsHold' /\ NoEquivocation'
<1> USE DEF HeadsInv
<1>1. /\ tree \in Seq(Values) /\ tree' \in Seq(Values)
      /\ fork \in Nat /\ fork' \in Nat
      /\ \A h \in signed : h.root \in Seq(Values) /\ h.fork \in Nat
  BY BoundsAssumption DEF TypeOK, Logs, Heads
<1>2. CASE UNCHANGED <<tree, fork, signed>>
  BY <1>2 DEF SignedHeadsHold, NoEquivocation
<1>3. CASE /\ IsPrefixOf(tree, tree') /\ fork' = fork
           /\ signed' \in {signed, signed \cup {[fork |-> fork, root |-> tree']}}
  <2>1. \A h \in signed : h.fork = fork => IsPrefixOf(h.root, tree')
    BY <1>1, <1>3, PrefixOrder DEF SignedHeadsHold
  <2>2. IsPrefixOf(tree', tree')
    BY <1>1, PrefixOrder
  <2>3. SignedHeadsHold'
    BY <1>1, <1>3, <2>1, <2>2 DEF SignedHeadsHold
  <2>4. ASSUME NEW g \in signed', NEW h \in signed', g.fork = h.fork
        PROVE  IsPrefixOf(g.root, h.root) \/ IsPrefixOf(h.root, g.root)
    <3>1. CASE g \in signed /\ h \in signed
      BY <2>4, <3>1 DEF NoEquivocation
    <3>2. CASE g = [fork |-> fork, root |-> tree']
      BY <1>1, <1>3, <2>1, <2>2, <2>4, <3>2
    <3>3. CASE h = [fork |-> fork, root |-> tree']
      BY <1>1, <1>3, <2>1, <2>2, <2>4, <3>3
    <3>. QED  BY <1>3, <3>1, <3>2, <3>3
  <2>. QED  BY <2>3, <2>4 DEF NoEquivocation
<1>4. CASE /\ fork' = fork + 1
           /\ signed' = signed \cup {[fork |-> fork', root |-> tree']}
  <2>1. \A h \in signed : h.fork < fork'
    BY <1>1, <1>4 DEF SignedHeadsHold
  <2>2. IsPrefixOf(tree', tree')
    BY <1>1, PrefixOrder
  <2>3. SignedHeadsHold'
    BY <1>1, <1>4, <2>1, <2>2 DEF SignedHeadsHold
  <2>4. ASSUME NEW g \in signed', NEW h \in signed', g.fork = h.fork
        PROVE  IsPrefixOf(g.root, h.root) \/ IsPrefixOf(h.root, g.root)
    <3>1. CASE g \in signed /\ h \in signed
      BY <2>4, <3>1 DEF NoEquivocation
    <3>2. CASE g \notin signed \/ h \notin signed
      BY <1>1, <1>4, <2>1, <2>2, <2>4, <3>2
    <3>. QED  BY <3>1, <3>2
  <2>. QED  BY <2>3, <2>4 DEF NoEquivocation
<1>. QED  BY <1>2, <1>3, <1>4 DEF Moves

\* HeadsInv is inductive, hence an invariant of every running core.
LEMMA HeadsInvHolds == Spec => []HeadsInv
<1>1. Init => HeadsInv
  <2>1. Init => TypeOK
    BY BoundsAssumption DEF Init, TypeOK, Fresh, Positions, Logs, HeadOrNone
  <2>. QED  BY <2>1 DEF Init, HeadsInv, SignedHeadsHold, NoEquivocation
<1>2. HeadsInv /\ [Running]_vars => HeadsInv'
  <2> SUFFICES ASSUME HeadsInv, [Running]_vars PROVE HeadsInv'
    OBVIOUS
  <2>1. TypeOK'
    BY TypeStep DEF HeadsInv
  <2>2. Moves
    BY StepMoves DEF HeadsInv
  <2>. QED  BY <2>1, <2>2, MovesKeepHeads DEF HeadsInv
<1>. QED  BY <1>1, <1>2, PTL DEF Spec

\* A running writer never equivocates: whatever it appends, commits, fails to commit,
\* truncates or recovers, any two heads it signed at one fork agree.
THEOREM WriterNeverEquivocates == Spec => []NoEquivocation
<1>1. HeadsInv => NoEquivocation
  BY DEF HeadsInv
<1>. QED  BY <1>1, HeadsInvHolds, PTL

\* Every head signed at the current fork is still about the log the core holds.
THEOREM HeadsStayValid == Spec => []SignedHeadsHold
<1>1. HeadsInv => SignedHeadsHold
  BY DEF HeadsInv
<1>. QED  BY <1>1, HeadsInvHolds, PTL

\* No step shortens or rewrites the log without bumping the fork counter.
THEOREM ReorgsAreMarked == Spec => ReorgBumpsFork
<1>1. HeadsInv /\ [Running]_vars => [IsPrefixOf(tree, tree') \/ fork' > fork]_vars
  <2> SUFFICES ASSUME HeadsInv, [Running]_vars
               PROVE  IsPrefixOf(tree, tree') \/ fork' > fork
    OBVIOUS
  <2>1. tree \in Seq(Values) /\ fork \in Nat
    BY BoundsAssumption DEF HeadsInv, TypeOK, Logs
  <2>2. Moves
    BY StepMoves DEF HeadsInv
  <2>3. IsPrefixOf(tree, tree)
    BY <2>1, PrefixOrder
  <2>. QED  BY <2>1, <2>2, <2>3 DEF Moves
<1>. QED  BY <1>1, HeadsInvHolds, PTL DEF Spec, ReorgBumpsFork

-----------------------------------------------------------------------------
\* The store below position n is not touched by blocks written after it.
LEMMA WrittenBelow ==
    ASSUME NEW s, NEW n \in Nat, NEW b \in Seq(Values), NEW i \in Positions, i <= n
    PROVE  Written(s, n, b)[i] = s[i]
  BY BoundsAssumption DEF Written, Positions

\* The blocks written after position n are found there.
LEMMA WrittenAbove ==
    ASSUME NEW s, NEW n \in Nat, NEW b \in Seq(Values), n + Len(b) <= MaxLen,
           NEW j \in 1 .. Len(b)
    PROVE  Written(s, n, b)[n + j] = b[j]
<1>1. n + j \in Positions /\ n + j > n /\ n + j <= n + Len(b) /\ (n + j) - n = j
  BY BoundsAssumption DEF Positions
<1>. QED  BY <1>1 DEF Written

\* The blocks written from the start of the store are found there.
LEMMA WrittenFromStart ==
    ASSUME NEW s, NEW b \in Seq(Values), Len(b) <= MaxLen, NEW j \in 1 .. Len(b)
    PROVE  Written(s, 0, b)[j] = b[j]
<1>1. j \in Positions /\ j > 0 /\ j <= 0 + Len(b) /\ j - 0 = j
  BY BoundsAssumption DEF Positions
<1>. QED  BY <1>1 DEF Written

\* A failed write at position i touches no other position.
LEMMA FailedWriteFacts ==
    ASSUME NEW s \in [Positions -> Values \cup {None}], NEW i, NEW x,
           NEW t \in FailedWrite(s, i, x), NEW j \in Positions, j # i
    PROVE  t[j] = s[j]
  BY DEF FailedWrite

\* Every step of a running core keeps the present blocks readable.
LEMMA PresentStep ==
    ASSUME TypeOK, PresentReadable, [Running]_vars
    PROVE  PresentReadable'
<1> USE BoundsAssumption
<1> DEFINE StoreType == [Positions -> Values \cup {None}]
<1>0. /\ tree \in Seq(Values) /\ Len(tree) \in Nat
      /\ store \in StoreType /\ presence \subseteq Positions
  BY DEF TypeOK, Logs
<1>1. ASSUME NEW v \in Values, AppendBlock(v) PROVE PresentReadable'
  <2>1. tree' = tree \o <<v>> /\ Len(tree') = Len(tree) + 1 /\ tree'[Len(tree) + 1] = v
        /\ \A i \in 1 .. Len(tree) : tree'[i] = tree[i]
    BY <1>0, <1>1, ConcatFacts DEF AppendBlock
  <2>2. mode = "up" /\ Len(tree) + 1 \in Positions
    BY <1>0, <1>1 DEF AppendBlock, Positions
  <2>. QED  BY <1>0, <1>1, <2>1, <2>2 DEF AppendBlock, PresentReadable, Positions
<1>2. ASSUME NEW v \in Values, AppendFails(v) PROVE PresentReadable'
  <2>1. mode = "up" /\ store' \in FailedWrite(store, Len(tree) + 1, v)
    BY <1>2 DEF AppendFails
  <2>2. \A i \in presence : i <= Len(tree) /\ store'[i] = store[i]
    BY <1>0, <2>1, FailedWriteFacts DEF PresentReadable, Positions
  <2>. QED  BY <1>2, <2>1, <2>2 DEF AppendFails, logical, PresentReadable
<1>3. ASSUME NEW n \in 0 .. MaxLen, Truncate(n) PROVE PresentReadable'
  <2>1. Len(tree') = n /\ \A i \in 1 .. n : tree'[i] = tree[i]
    BY <1>0, <1>3, PrefixFacts DEF Truncate
  <2>. QED  BY <1>0, <1>3, <2>1
            DEF Truncate, durable, RewoundPresence, PresentReadable, Positions
<1>4. ASSUME NEW n \in 0 .. MaxLen, CopyPrologue(n) PROVE PresentReadable'
  <2>1. prologue \in Seq(Values) /\ n \in 0 .. Len(prologue) /\ n <= MaxLen
    BY <1>4, ProloguesAssumption DEF TypeOK, CopyPrologue
  <2> DEFINE p == Prefix(prologue, n)
             w == Written(store, 0, p)
  <2>2. p \in Seq(Values) /\ Len(p) = n
    BY <2>1, PrefixFacts
  <2>3. w \in StoreType /\ \A i \in 1 .. n : i \in Positions /\ w[i] = p[i]
    <3>1. w \in StoreType
      BY <1>0, <2>2, WrittenType
    <3>2. ASSUME NEW i \in 1 .. n PROVE i \in Positions /\ w[i] = p[i]
      <4>1. w[i] = p[i]
        BY <2>1, <2>2, WrittenFromStart
      <4>. QED  BY <2>1, <4>1 DEF Positions
    <3>. QED  BY <3>1, <3>2
  <2>4. \A i \in 1 .. n : store'[i] = p[i]
    <3>1. CASE n = Len(prologue)
      BY <1>4, <2>3, <3>1 DEF CopyPrologue
    <3>2. CASE n # Len(prologue)
      <4>1. store' \in FailedWrite(w, n + 1, prologue[n + 1])
        BY <1>4, <3>2 DEF CopyPrologue
      <4>. QED  BY <2>1, <2>3, <4>1, FailedWriteFacts
    <3>. QED  BY <3>1, <3>2
  <2>5. tree' = p /\ presence' = 1 .. n
    <3>1. presence = {}
      BY <1>0, <1>4 DEF CopyPrologue, PresentReadable, Positions
    <3>. QED  BY <1>4, <3>1 DEF CopyPrologue
  <2>. QED  BY <2>2, <2>4, <2>5 DEF PresentReadable
<1>5. ASSUME Commit PROVE PresentReadable'
  <2>1. /\ batch.encoded \in Seq(Values) /\ mode = "up"
        /\ Len(tree) + Len(batch.encoded) <= MaxLen
    BY <1>5 DEF TypeOK, Commit, Logs
  <2>2. /\ Len(tree') = Len(tree) + Len(batch.encoded)
        /\ \A i \in 1 .. Len(tree) : tree'[i] = tree[i]
        /\ \A i \in 1 .. Len(batch.encoded) : tree'[Len(tree) + i] = batch.encoded[i]
    BY <1>0, <1>5, <2>1, ConcatFacts DEF Commit
  <2>3. ASSUME NEW i \in presence' PROVE i <= Len(tree') /\ store'[i] = tree'[i]
    <3>1. CASE i \in presence
      <4>1. i \in Positions /\ i <= Len(tree) /\ store[i] = tree[i]
        BY <1>0, <2>1, <3>1 DEF PresentReadable
      <4>2. store'[i] = store[i]
        BY <1>0, <1>5, <2>1, <4>1, WrittenBelow DEF Commit
      <4>. QED  BY <1>0, <2>1, <2>2, <4>1, <4>2 DEF Positions
    <3>2. CASE i \in Len(tree) + 1 .. Len(tree) + Len(batch.encoded)
      <4>1. i \in Positions /\ i - Len(tree) \in 1 .. Len(batch.encoded)
        BY <1>0, <2>1, <3>2 DEF Positions
      <4>2. store'[Len(tree) + (i - Len(tree))] = batch.encoded[i - Len(tree)]
        BY <1>0, <1>5, <2>1, <4>1, WrittenAbove DEF Commit
      <4>3. tree'[Len(tree) + (i - Len(tree))] = batch.encoded[i - Len(tree)]
        BY <2>2, <4>1
      <4>4. Len(tree) + (i - Len(tree)) = i /\ i <= Len(tree')
        BY <1>0, <2>1, <2>2, <3>2
      <4>. QED  BY <4>2, <4>3, <4>4
    <3>. QED  BY <1>5, <3>1, <3>2 DEF Commit
  <2>. QED  BY <2>3 DEF PresentReadable
<1>6. ASSUME NEW j \in Positions, CommitFails(j) PROVE PresentReadable'
  <2>1. /\ batch.encoded \in Seq(Values) /\ j \in 1 .. Len(batch.encoded) /\ mode = "up"
    BY <1>6 DEF TypeOK, CommitFails, Logs
  <2> DEFINE w == Written(store, Len(tree), Prefix(batch.encoded, j - 1))
  <2>2. PICK undone \in SUBSET (Len(tree) + 1 .. Len(tree) + j - 1) :
          store' \in FailedWrite(Erased(w, undone), Len(tree) + j, batch.encoded[j])
    BY <1>6 DEF CommitFails
  <2>3. Prefix(batch.encoded, j - 1) \in Seq(Values)
    BY <2>1, PrefixFacts
  <2>4. w \in StoreType /\ Erased(w, undone) \in StoreType
    BY <1>0, <2>3, WrittenType, ErasedType
  <2>5. ASSUME NEW i \in presence PROVE store'[i] = store[i]
    <3>1. i \in Positions /\ i <= Len(tree)
      BY <1>0, <2>1 DEF PresentReadable
    <3>2. w[i] = store[i]
      BY <1>0, <2>3, <3>1, WrittenBelow
    <3>3. i # Len(tree) + j /\ i \notin undone
      BY <1>0, <2>1, <3>1 DEF Positions
    <3>4. Erased(w, undone)[i] = w[i]
      BY <3>1, <3>3 DEF Erased
    <3>5. store'[i] = Erased(w, undone)[i]
      BY <2>2, <2>4, <3>1, <3>3, FailedWriteFacts
    <3>. QED  BY <3>2, <3>4, <3>5
  <2>. QED  BY <1>6, <2>1, <2>5 DEF CommitFails, logical, PresentReadable
<1>7. ASSUME NEW from \in Positions, NEW to \in from .. MaxLen, Clear(from, to) PROVE PresentReadable'
  BY <1>0, <1>7 DEF Clear, Erased, PresentReadable
<1>8. ASSUME NEW from \in Positions, NEW to \in from .. MaxLen, ClearFails(from, to)
      PROVE  PresentReadable'
  <2> DEFINE w == Erased(store, presence \cap (from .. to - 1))
  <2>1. w \in StoreType /\ mode = "up"
    BY <1>0, <1>8, ErasedType DEF ClearFails
  <2>2. ASSUME NEW i \in presence' PROVE store'[i] = store[i]
    <3>1. i \in Positions /\ i \notin from .. to
      BY <1>0, <1>8 DEF ClearFails
    <3>2. i # to /\ i \notin from .. to - 1
      BY <3>1 DEF Positions
    <3>3. w[i] = store[i]
      BY <3>1, <3>2 DEF Erased
    <3>. QED  BY <1>8, <2>1, <3>1, <3>2, <3>3, FailedWriteFacts DEF ClearFails
  <2>. QED  BY <1>8, <2>1, <2>2 DEF ClearFails, PresentReadable
<1>9. ASSUME NEW keep \in SUBSET Positions, Sweep(keep) PROVE PresentReadable'
  BY <1>0, <1>9 DEF Sweep, Erased, PresentReadable
<1>10. ASSUME NEW h \in signed, RecoverSignedSuffix(h) PROVE PresentReadable'
  <2>1. h.root \in Seq(Values) /\ Len(h.root) <= MaxLen
    BY DEF TypeOK, Heads, Logs
  <2>2. \A i \in 1 .. Len(h.root) : Written(store, 0, h.root)[i] = h.root[i]
    BY <2>1, WrittenFromStart
  <2>. QED  BY <1>10, <2>1, <2>2 DEF RecoverSignedSuffix, AllBlocks, PresentReadable
<1>11. ASSUME NEW h \in signed, NEW n \in 0 .. MaxLen, NEW k \in 0 .. 2, RecoverFails(h, n, k)
       PROVE  PresentReadable'
  <2>1. /\ h.root \in Seq(Values) /\ Len(h.root) <= MaxLen
        /\ n \in Len(tree) .. Len(h.root) /\ n \in 0 .. Len(h.root) /\ Recoverable(h)
    BY <1>0, <1>11 DEF TypeOK, Heads, Logs, RecoverFails
  <2>2. /\ Prefix(h.root, n) \in Seq(Values) /\ Len(Prefix(h.root, n)) = n
        /\ \A i \in 1 .. n : Prefix(h.root, n)[i] = h.root[i]
    BY <2>1, PrefixFacts
  <2>3. ASSUME NEW i \in presence PROVE store'[i] = store[i]
    <3>1. i \in Positions /\ i \in 1 .. Len(tree)
      BY <1>0, <2>1 DEF PresentReadable, Recoverable, Positions
    <3>2. Written(store, 0, Prefix(h.root, n))[i] = Prefix(h.root, n)[i]
      <4>1. i \in 1 .. Len(Prefix(h.root, n)) /\ Len(Prefix(h.root, n)) <= MaxLen
        BY <1>0, <2>1, <2>2, <3>1
      <4>. QED  BY <2>2, <4>1, WrittenFromStart
    <3>3. store'[i] = h.root[i]
      BY <1>0, <1>11, <2>1, <2>2, <3>1, <3>2 DEF RecoverFails
    <3>. QED  BY <2>1, <3>1, <3>3 DEF Recoverable
  <2>. QED  BY <1>11, <2>1, <2>3 DEF RecoverFails, logical, Recoverable, PresentReadable
<1>12. ASSUME \/ \E v \in Values : Stage(v)
              \/ OpenBatch \/ CommitNothing
              \/ Persist \/ \E k \in 1 .. 2 : PersistFails(k)
              \/ UNCHANGED vars
       PROVE  PresentReadable'
  BY <1>12 DEF Stage, OpenBatch, CommitNothing, Persist, PersistFails, vars, durable, logical,
               PresentReadable
<1>. QED
  BY <1>1, <1>2, <1>3, <1>4, <1>5, <1>6, <1>7, <1>8, <1>9, <1>10, <1>11, <1>12
  DEF Running, Logging, Batching

\* Whatever puts and deletes fail, a block a running core lists as present can be read
\* and has the bytes its Merkle tree commits to.
THEOREM PresentBlocksReadable == Spec => []PresentReadable
<1>1. Init => PresentReadable
  BY DEF Init, Fresh, PresentReadable
<1>2. TypeOK /\ PresentReadable /\ [Running]_vars => PresentReadable'
  BY PresentStep
<1>. QED  BY <1>1, <1>2, TypeCorrect, PTL DEF Spec

-----------------------------------------------------------------------------
\* A running core stays up and bound to the prologue it was created with.
LEMMA ModeAndPrologue ==
    ASSUME [Running]_vars
    PROVE  UNCHANGED <<mode, prologue>>
  BY DEF Running, Logging, Batching, AppendBlock, AppendFails, Truncate, CopyPrologue, OpenBatch,
         Stage, CommitNothing, Commit, CommitFails, Clear, ClearFails, Sweep, Persist, PersistFails,
         RecoverSignedSuffix, RecoverFails, vars, logical

\* No operation of a running core gives up the prefix its prologue commits to.
THEOREM PrologueStays == Spec => PrologueKept
<1>1. ASSUME HeadsInv, [Running]_vars, VerifyPrologue(prologue, tree)
      PROVE  VerifyPrologue(prologue', tree')
  <2>1. /\ tree \in Seq(Values) /\ tree' \in Seq(Values) /\ prologue' = prologue
        /\ prologue \in Seq(Values) \cup {None} /\ fork \in Nat
    <3>1. TypeOK /\ TypeOK'
      BY <1>1, TypeStep DEF HeadsInv
    <3>2. /\ tree \in Seq(Values) /\ tree' \in Seq(Values) /\ fork \in Nat
          /\ prologue \in Prologues \cup {None}
      BY <3>1, BoundsAssumption DEF TypeOK, Logs
    <3>. QED  BY <1>1, <3>2, ModeAndPrologue, ProloguesAssumption
  <2>2. SUFFICES ASSUME prologue # None PROVE IsPrefixOf(prologue, tree')
    BY <2>1 DEF VerifyPrologue
  <2>3. prologue \in Seq(Values) /\ IsPrefixOf(prologue, tree)
    BY <1>1, <2>1, <2>2 DEF VerifyPrologue
  <2>4. CASE IsPrefixOf(tree, tree')
    BY <2>1, <2>3, <2>4, PrefixOrder
  <2>5. CASE ~IsPrefixOf(tree, tree')
    <3>1. PICK n \in 0 .. MaxLen : Truncate(n)
      <4>1. Moves /\ fork' # fork
        BY <1>1, <2>1, <2>5, StepMoves, PrefixOrder DEF HeadsInv, Moves
      <4>. QED  BY <1>1, <4>1
           DEF Running, Logging, Batching, AppendBlock, AppendFails, CopyPrologue, OpenBatch,
               Stage, CommitNothing, Commit, CommitFails, Clear, ClearFails, Sweep, Persist,
               PersistFails, RecoverSignedSuffix, RecoverFails, vars, logical
    <3>2. n \in 0 .. Len(tree) /\ Len(prologue) <= n /\ tree' = Prefix(tree, n)
      BY <2>1, <2>2, <3>1 DEF Truncate, TruncateFloor
    <3>. QED  BY <2>1, <2>3, <3>2, PrefixFacts DEF IsPrefixOf
  <2>. QED  BY <2>4, <2>5
<1>2. HeadsInv /\ [Running]_vars
        => [(mode = "up" /\ mode' = "up" /\ VerifyPrologue(prologue, tree))
              => VerifyPrologue(prologue', tree')]_vars
  BY <1>1
<1>. QED  BY <1>2, HeadsInvHolds, PTL DEF Spec, PrologueKept

\* A core without a head has signed nothing and is at fork 0; a core with a head is not
\* empty below its prologue.
HeadInv ==
    /\ head = None => fork = 0 /\ signed = {} /\ (tree = <<>> \/ prologue # None)
    /\ head # None => head.fork = fork /\ head.root = tree
    /\ head # None /\ prologue # None /\ tree = <<>> => prologue = <<>>

\* Signing the log a step leaves behind restores the invariant.
LEMMA ResignKeepsHeadInv ==
    ASSUME TypeOK', Resign(tree', fork'), prologue' = prologue,
           prologue # None /\ tree' = <<>> => prologue = <<>>
    PROVE  HeadInv'
<1>1. head' = [fork |-> fork', root |-> tree'] /\ head' \in [fork : Nat, root : Seq(Values)]
  BY BoundsAssumption DEF Resign, TypeOK, Logs
<1>2. head' # None
  BY <1>1, NoneIsNoHead
<1>. QED  BY <1>1, <1>2 DEF HeadInv

\* Every step of a running core keeps its head in agreement with its log.
LEMMA HeadStep ==
    ASSUME TypeOK, TypeOK', HeadInv, [Running]_vars
    PROVE  HeadInv'
<1>0. /\ tree \in Seq(Values) /\ prologue' = prologue
      /\ prologue # None => prologue \in Seq(Values)
  BY ModeAndPrologue, ProloguesAssumption DEF TypeOK, Logs
<1>1. ASSUME NEW v \in Values, AppendBlock(v) PROVE HeadInv'
  <2>1. tree' # <<>>
    BY <1>0, <1>1, ConcatFacts DEF AppendBlock
  <2>2. Resign(tree', fork')
    BY <1>1 DEF AppendBlock, Resign
  <2>. QED  BY <1>0, <2>1, <2>2, ResignKeepsHeadInv
<1>2. ASSUME NEW n \in 0 .. MaxLen, Truncate(n) PROVE HeadInv'
  <2>1. n \in 0 .. Len(tree) /\ Resign(tree', fork') /\ Len(tree') = n
    BY <1>0, <1>2, PrefixFacts DEF Truncate
  <2>2. prologue # None /\ tree' = <<>> => prologue = <<>>
    BY <1>0, <1>2, <2>1 DEF Truncate, TruncateFloor
  <2>. QED  BY <1>0, <2>1, <2>2, ResignKeepsHeadInv
<1>3. ASSUME Commit PROVE HeadInv'
  <2>1. batch.encoded \in Seq(Values) /\ batch.encoded # <<>> /\ tree' = tree \o batch.encoded
    BY <1>3 DEF Commit, TypeOK, Logs
  <2>2. Len(batch.encoded) > 0 /\ Len(tree') > 0
    BY <1>0, <2>1, ConcatFacts
  <2>3. tree' # <<>>
    BY <2>2
  <2>4. Resign(tree', fork')
    BY <1>3 DEF Commit, Resign
  <2>. QED  BY <1>0, <2>3, <2>4, ResignKeepsHeadInv
<1>4. ASSUME NEW n \in 0 .. MaxLen, CopyPrologue(n) PROVE HeadInv'
  <2>1. prologue \in Seq(Values) /\ tree = <<>> /\ n \in 0 .. Len(prologue) /\ fork' = fork
    BY <1>0, <1>4 DEF CopyPrologue
  <2>2. CASE n = Len(prologue)
    <3>1. Resign(tree', fork') /\ Len(tree') = Len(prologue)
      BY <1>4, <2>1, <2>2, PrefixFacts DEF CopyPrologue, Resign
    <3>2. tree' = <<>> => prologue = <<>>
      BY <2>1, <3>1
    <3>. QED  BY <1>0, <3>1, <3>2, ResignKeepsHeadInv
  <2>3. CASE n # Len(prologue)
    <3>1. UNCHANGED <<head, signed, fork>> /\ prologue # <<>> /\ prologue # None
      BY <1>4, <2>1, <2>3 DEF CopyPrologue
    <3>2. head = None
      BY <2>1, <3>1 DEF HeadInv
    <3>. QED  BY <1>0, <3>1, <3>2 DEF HeadInv
  <2>. QED  BY <2>2, <2>3
<1>5. ASSUME NEW h \in signed, RecoverSignedSuffix(h) PROVE HeadInv'
  <2>1. /\ head' = h /\ tree' = h.root /\ h.fork = fork /\ UNCHANGED <<fork, signed>>
        /\ Len(h.root) >= Len(tree)
    BY <1>5 DEF RecoverSignedSuffix, Recoverable
  <2>2. h \in [fork : Nat, root : Seq(Values)] /\ h.root \in Seq(Values)
    BY BoundsAssumption DEF TypeOK, Heads, Logs
  <2>3. h # None /\ head # None
    BY <2>2, NoneIsNoHead DEF HeadInv
  <2>4. h.root = <<>> => tree = <<>>
    BY <1>0, <2>1, <2>2
  <2>. QED  BY <1>0, <2>1, <2>3, <2>4 DEF HeadInv
<1>6. ASSUME \/ \E v \in Values : AppendFails(v) \/ Stage(v)
             \/ OpenBatch \/ CommitNothing \/ \E j \in Positions : CommitFails(j)
             \/ \E from, to \in Positions : Clear(from, to) \/ ClearFails(from, to)
             \/ \E keep \in SUBSET Positions : Sweep(keep)
             \/ Persist \/ \E k \in 1 .. 2 : PersistFails(k)
             \/ \E h \in signed, n \in 0 .. MaxLen, k \in 0 .. 2 : RecoverFails(h, n, k)
             \/ UNCHANGED vars
      PROVE  HeadInv'
  <2>1. UNCHANGED <<tree, fork, head, prologue, signed>>
    BY <1>6 DEF AppendFails, Stage, OpenBatch, CommitNothing, CommitFails, Clear, ClearFails,
                Sweep, Persist, PersistFails, RecoverFails, vars, logical
  <2>. QED  BY <2>1 DEF HeadInv
<1>. QED
  BY <1>1, <1>2, <1>3, <1>4, <1>5, <1>6, BoundsAssumption
  DEF Running, Logging, Batching, Positions

\* The head a running core shows always verifies against its tree and its fork.
THEOREM HeadAlwaysAuthentic == Spec => []HeadAuthentic
<1>1. Init => HeadInv
  BY DEF Init, Fresh, HeadInv
<1>2. TypeOK /\ TypeOK' /\ HeadInv /\ [Running]_vars => HeadInv'
  BY HeadStep
<1>3. HeadInv => HeadAuthentic
  BY DEF HeadInv, HeadAuthentic, VerifyHead
<1>. QED  BY <1>1, <1>2, <1>3, TypeCorrect, PTL DEF Spec
-----------------------------------------------------------------------------
\* A sequence of known length is one of the batches SignedLog grows by.
LEMMA BatchesOfValues ==
    ASSUME NEW s \in Seq(Values), Len(s) <= MaxLen
    PROVE  \E n \in 0 .. MaxLen : s \in [1 .. n -> Values]
<1>1. Len(s) \in 0 .. MaxLen /\ s \in [1 .. Len(s) -> Values]
  BY BoundsAssumption
<1>. QED  BY <1>1

\* A step that adds blocks to the log, and signs it or not, is a step of SignedLog.
LEMMA GrowStep ==
    ASSUME tree \in Seq(Values), NEW s \in Seq(Values), Len(tree) + Len(s) <= MaxLen,
           tree' = tree \o s, fork' = fork,
           SL!Sign(tree', fork) \/ signed' = signed
    PROVE  SL!SignedLogNext
<1>1. Len(s) <= MaxLen
  BY BoundsAssumption
<1>2. PICK n \in 0 .. MaxLen : s \in [1 .. n -> Values]
  BY <1>1, BatchesOfValues
<1>3. SL!Grow(s)
  BY DEF SL!Grow
<1>. QED  BY <1>2, <1>3 DEF SL!SignedLogNext

\* Every step of a running core is a step of SignedLog or changes nothing it sees.
LEMMA RefinementStep ==
    ASSUME TypeOK, SignedHeadsHold, [Running]_vars
    PROVE  [SL!SignedLogNext]_<<tree, fork, signed>>
<1> USE BoundsAssumption
<1>0. tree \in Seq(Values) /\ Len(tree) <= MaxLen
  BY DEF TypeOK, Logs
<1>1. ASSUME NEW v \in Values, AppendBlock(v) PROVE SL!SignedLogNext
  <2>1. <<v>> \in Seq(Values) /\ Len(tree) + Len(<<v>>) <= MaxLen
    BY <1>0, <1>1 DEF AppendBlock
  <2>2. tree' = tree \o <<v>> /\ fork' = fork /\ SL!Sign(tree', fork)
    BY <1>1 DEF AppendBlock, Resign, SL!Sign
  <2>. QED  BY <1>0, <2>1, <2>2, GrowStep
<1>2. ASSUME NEW n \in 0 .. MaxLen, Truncate(n) PROVE SL!SignedLogNext
  <2>1. SL!Rewind(n)
    BY <1>2 DEF Truncate, Resign, NextFork, Prefix, SL!Rewind, SL!Sign
  <2>. QED  BY <2>1 DEF SL!SignedLogNext
<1>3. ASSUME NEW n \in 0 .. MaxLen, CopyPrologue(n) PROVE SL!SignedLogNext
  <2>1. prologue \in Seq(Values) /\ n \in 0 .. Len(prologue)
    BY <1>3, ProloguesAssumption DEF CopyPrologue, TypeOK
  <2>2. Prefix(prologue, n) \in Seq(Values) /\ Len(Prefix(prologue, n)) = n
    BY <2>1, PrefixFacts
  <2>3. tree = <<>> /\ tree' = Prefix(prologue, n) /\ fork' = fork
    BY <1>3 DEF CopyPrologue
  <2>4. tree' = tree \o Prefix(prologue, n) /\ Len(tree) + Len(Prefix(prologue, n)) <= MaxLen
    BY <2>2, <2>3
  <2>5. SL!Sign(tree', fork) \/ signed' = signed
    BY <1>3 DEF CopyPrologue, Resign, SL!Sign
  <2>. QED  BY <1>0, <2>2, <2>3, <2>4, <2>5, GrowStep
<1>4. ASSUME Commit PROVE SL!SignedLogNext
  <2>1. batch.encoded \in Seq(Values) /\ Len(tree) + Len(batch.encoded) <= MaxLen
    BY <1>4 DEF TypeOK, Commit, Logs
  <2>2. tree' = tree \o batch.encoded /\ fork' = fork /\ SL!Sign(tree', fork)
    BY <1>4 DEF Commit, Resign, SL!Sign
  <2>. QED  BY <1>0, <2>1, <2>2, GrowStep
<1>5. ASSUME NEW h \in signed, RecoverSignedSuffix(h) PROVE UNCHANGED <<tree, fork, signed>>
  <2>1. Recoverable(h) /\ tree' = h.root /\ UNCHANGED <<fork, signed>>
    BY <1>5 DEF RecoverSignedSuffix
  <2>2. IsPrefixOf(tree, h.root) /\ Len(h.root) = Len(tree) /\ h.root \in Seq(Values)
    BY <2>1, HeadIsTree DEF TypeOK, Heads, Logs
  <2>3. h.root = tree
    BY <1>0, <2>2 DEF IsPrefixOf
  <2>. QED  BY <2>1, <2>3
<1>6. ASSUME \/ \E v \in Values : AppendFails(v) \/ Stage(v)
             \/ OpenBatch \/ CommitNothing \/ \E j \in Positions : CommitFails(j)
             \/ \E from, to \in Positions : Clear(from, to) \/ ClearFails(from, to)
             \/ \E keep \in SUBSET Positions : Sweep(keep)
             \/ Persist \/ \E k \in 1 .. 2 : PersistFails(k)
             \/ \E h \in signed, n \in 0 .. MaxLen, k \in 0 .. 2 : RecoverFails(h, n, k)
             \/ UNCHANGED vars
      PROVE  UNCHANGED <<tree, fork, signed>>
  BY <1>6 DEF AppendFails, Stage, OpenBatch, CommitNothing, CommitFails, Clear, ClearFails, Sweep,
              Persist, PersistFails, RecoverFails, vars, logical
<1>. QED
  BY <1>1, <1>2, <1>3, <1>4, <1>5, <1>6 DEF Running, Logging, Batching, Positions

\* A running core implements SignedLog: whatever the store does, its readers see a log
\* that only grows or is cut back under the next fork, and heads signed for it.
THEOREM CoreImplementsSignedLog == Spec => Implements
<1>1. Init => SL!SignedLogInit
  BY DEF Init, Fresh, SL!SignedLogInit
<1>2. HeadsInv /\ [Running]_vars => [SL!SignedLogNext]_(SL!logVars)
  BY RefinementStep DEF HeadsInv, SL!logVars
<1>. QED  BY <1>1, <1>2, HeadsInvHolds, PTL DEF Spec, Implements, SL!SignedLogSpec
-----------------------------------------------------------------------------
\* No prologue is empty.  A core with an empty one signs a head of the empty log, which a later
\* core with a longer prologue may recover and keep while it copies a part of its own.
NoEmptyPrologue == <<>> \notin Prologues

\* What a running core that may have crashed keeps of HeadInv.  The heads it signed in an
\* earlier life are still around for a recovery; one at fork 0 is not of the empty log.
UpInv ==
    /\ mode = "up" =>
         /\ head = None => fork = 0 /\ (tree = <<>> \/ prologue # None)
         /\ head # None => head.fork = fork /\ head.root = tree
         /\ head # None /\ prologue # None => tree # <<>>
    /\ \A h \in signed : h.fork = 0 => h.root # <<>>

\* KEY_META is that of the last complete persist, the other two keys are there as well, and
\* what was saved satisfied UpInv.  A persist of an unfinished prologue is followed by no
\* empty tree: truncate does not rewind below a prologue.
SavedInv ==
    /\ dMeta = IF saved = None THEN None ELSE saved.meta
    /\ saved # None =>
         /\ dTree # None /\ dPresence # None
         /\ saved.meta.head # None =>
              /\ saved.meta.head.fork = saved.meta.fork /\ saved.meta.head.root = saved.tree
              /\ saved.meta.prologue # None => saved.tree # <<>>
         /\ saved.meta.head = None =>
              /\ saved.meta.fork = 0
              /\ saved.tree # <<>> => /\ saved.meta.prologue # None /\ dTree # <<>>
                                      /\ mode = "up" => tree # <<>>
         /\ mode = "up" => prologue = saved.meta.prologue
    /\ RefusesOnlyTorn

\* The steps of a core that is purged, crashes and opens again keep the types as well.
LEMMA TypeStepCrash == TypeOK /\ [Next]_vars => TypeOK'
<1> SUFFICES ASSUME TypeOK, [Next]_vars PROVE TypeOK'
  OBVIOUS
<1> USE BoundsAssumption
<1>1. ASSUME [Running]_vars PROVE TypeOK'
  BY <1>1, TypeStep
<1>2. ASSUME NEW keep \in SUBSET Positions, NEW i \in Positions, SweepFails(keep, i) PROVE TypeOK'
  <2>1. store' \in [Positions -> Values \cup {None}]
    BY <1>2, FailedWriteType, ErasedType DEF TypeOK, SweepFails
  <2>. QED  BY <1>2, <2>1 DEF TypeOK, SweepFails
<1>3. ASSUME Purge PROVE TypeOK'
  <2>1. store' \in [Positions -> Values \cup {None}]
    BY <1>3, ErasedType DEF TypeOK, Purge
  <2>2. tree' \in Logs
    BY <1>3 DEF Purge, Logs
  <2>. QED  BY <1>3, <2>1, <2>2 DEF TypeOK, Purge, HeadOrNone
<1>4. ASSUME NEW n \in 0 .. MaxLen, NEW k \in 0 .. 3, PurgeFails(n, k) PROVE TypeOK'
  <2>1. store' \in [Positions -> Values \cup {None}]
    BY <1>4, ErasedType DEF TypeOK, PurgeFails
  <2>. QED  BY <1>4, <2>1 DEF TypeOK, PurgeFails, logical
<1>5. ASSUME Crash PROVE TypeOK'
  BY <1>5 DEF TypeOK, Crash, durable, logical
<1>6. ASSUME NEW p \in Prologues, OpenNotPersisted(p) PROVE TypeOK'
  <2>1. tree' \in Logs
    BY <1>6 DEF OpenNotPersisted, Logs
  <2>. QED  BY <1>6, <2>1 DEF TypeOK, OpenNotPersisted, durable, HeadOrNone
<1>7. ASSUME Open PROVE TypeOK'
  BY <1>7 DEF TypeOK, Open, NotPersisted, durable, logical, Metas
<1>. QED
  BY <1>1, <1>2, <1>3, <1>4, <1>5, <1>6, <1>7 DEF Next

\* Signing the log a step leaves behind restores what a running core keeps.
LEMMA ResignKeepsUpInv ==
    ASSUME TypeOK, TypeOK', UpInv, Resign(tree', fork'),
           prologue' # None \/ fork' = 0 => tree' # <<>>
    PROVE  UpInv'
<1>1. head' = [fork |-> fork', root |-> tree'] /\ head' \in [fork : Nat, root : Seq(Values)]
  BY BoundsAssumption DEF Resign, TypeOK, Logs
<1>2. head' # None /\ head'.fork = fork' /\ head'.root = tree'
  BY <1>1, NoneIsNoHead
<1>3. \A h \in signed' : h.fork = 0 => h.root # <<>>
  BY <1>1, <1>2 DEF Resign, UpInv
<1>. QED  BY <1>2, <1>3 DEF UpInv

\* A step that signs a new log and touches no saved key keeps what is known of them.
LEMMA ResignKeepsSavedInv ==
    ASSUME SavedInv, mode = "up", UNCHANGED <<dTree, dPresence, dMeta, mode, prologue, saved>>,
           tree' # <<>> \/ (saved # None /\ saved.meta.head = None => saved.tree = <<>>)
    PROVE  SavedInv'
  BY DEF SavedInv, RefusesOnlyTorn

\* What is saved includes metadata.
LEMMA SavedMeta == TypeOK /\ saved # None => saved.meta # None
  BY NoneIsNoState DEF TypeOK

\* What a successful open leaves: the state of the last complete persist.
OpenedAsSaved ==
    /\ saved # None /\ tree' = saved.tree /\ tree' = dTree
    /\ Meta(fork', head', prologue') = saved.meta
    /\ fork' = saved.meta.fork /\ head' = saved.meta.head /\ prologue' = saved.meta.prologue

\* The head binds the tree that open loads to the one that was saved with it.
LEMMA OpenGivesSaved ==
    ASSUME TypeOK, SavedInv, Open, OpenAccepts
    PROVE  OpenedAsSaved
<1>1. saved # None /\ dMeta = saved.meta /\ dMeta \in Metas
  BY DEF Open, NotPersisted, SavedInv, TypeOK
<1>2. tree' = dTree /\ fork' = dMeta.fork /\ head' = dMeta.head /\ prologue' = dMeta.prologue
  BY DEF Open
<1>3. Meta(fork', head', prologue') = dMeta
  BY <1>1, <1>2 DEF Meta, Metas
<1>4. dTree = saved.tree
  BY <1>1 DEF OpenAccepts, VerifyHead, SavedInv
<1>. QED  BY <1>1, <1>2, <1>3, <1>4 DEF OpenedAsSaved

\* Every block of a signed log has a position.
LEMMA AllBlocksFacts ==
    ASSUME TypeOK, NEW h \in signed
    PROVE  AllBlocks(h.root) \in SUBSET Positions
  BY BoundsAssumption DEF TypeOK, Heads, Logs, AllBlocks, Positions

\* Every step keeps the agreement of a core with its head, and of the store with the last
\* complete persist.
LEMMA CrashStep ==
    ASSUME NoEmptyPrologue, TypeOK, TypeOK', UpInv, SavedInv, [Next]_vars
    PROVE  UpInv' /\ SavedInv'
<1>0. /\ tree \in Seq(Values) /\ fork \in Nat /\ None \notin Seq(Values)
      /\ prologue # None => prologue \in Seq(Values) /\ prologue # <<>> /\ Len(prologue) > 0
  BY ProloguesAssumption, NoneAssumption, BoundsAssumption DEF TypeOK, Logs, NoEmptyPrologue
<1>1. ASSUME NEW v \in Values, AppendBlock(v) PROVE UpInv' /\ SavedInv'
  <2>1. tree' # <<>> /\ Resign(tree', fork')
    BY <1>0, <1>1, ConcatFacts DEF AppendBlock, Resign
  <2>2. mode = "up" /\ UNCHANGED <<dTree, dPresence, dMeta, mode, prologue, saved>>
    BY <1>1 DEF AppendBlock
  <2>. QED  BY <2>1, <2>2, ResignKeepsUpInv, ResignKeepsSavedInv
<1>2. ASSUME Commit PROVE UpInv' /\ SavedInv'
  <2>1. batch.encoded \in Seq(Values) /\ batch.encoded # <<>> /\ tree' = tree \o batch.encoded
    BY <1>2 DEF Commit, TypeOK, Logs
  <2>2. Len(batch.encoded) > 0 /\ Len(tree') > 0
    BY <1>0, <2>1, ConcatFacts
  <2>3. tree' # <<>> /\ Resign(tree', fork')
    <3>1. Resign(tree', fork')
      BY <1>2 DEF Commit, Resign
    <3>. QED  BY <2>2, <3>1
  <2>4. mode = "up" /\ UNCHANGED <<dTree, dPresence, dMeta, mode, prologue, saved>>
    BY <1>2 DEF Commit
  <2>. QED  BY <2>3, <2>4, ResignKeepsUpInv, ResignKeepsSavedInv
<1>3. ASSUME NEW n \in 0 .. MaxLen, Truncate(n) PROVE UpInv' /\ SavedInv'
  <2>1. /\ n \in 0 .. Len(tree) /\ Resign(tree', fork') /\ Len(tree') = n
        /\ mode = "up" /\ UNCHANGED <<dTree, dPresence, dMeta, mode, prologue, saved>>
    BY <1>0, <1>3, PrefixFacts DEF Truncate, durable
  <2>2. prologue # None => tree' # <<>>
    BY <1>0, <1>3, <2>1 DEF Truncate, TruncateFloor
  <2>3. fork' # 0
    BY <1>0, <1>3 DEF Truncate, NextFork
  <2>4. tree' # <<>> \/ (saved # None /\ saved.meta.head = None => saved.tree = <<>>)
    BY <2>1, <2>2 DEF SavedInv
  <2>. QED  BY <2>1, <2>2, <2>3, <2>4, ResignKeepsUpInv, ResignKeepsSavedInv
<1>4. ASSUME NEW n \in 0 .. MaxLen, CopyPrologue(n) PROVE UpInv' /\ SavedInv'
  <2>1. /\ prologue \in Seq(Values) /\ prologue # None /\ tree = <<>> /\ n \in 0 .. Len(prologue)
        /\ mode = "up" /\ UNCHANGED <<dTree, dPresence, dMeta, mode, prologue, saved, fork>>
    BY <1>0, <1>4 DEF CopyPrologue
  <2>2. saved # None /\ saved.meta.head = None => saved.tree = <<>>
    BY <2>1 DEF SavedInv
  <2>3. SavedInv'
    BY <2>1, <2>2, ResignKeepsSavedInv
  <2>4. CASE n = Len(prologue)
    <3>1. Resign(tree', fork') /\ Len(tree') = Len(prologue)
      BY <1>4, <2>1, <2>4, PrefixFacts DEF CopyPrologue, Resign
    <3>2. tree' # <<>>
      BY <1>0, <2>1, <3>1
    <3>. QED  BY <2>3, <3>1, <3>2, ResignKeepsUpInv
  <2>5. CASE n # Len(prologue)
    <3>1. UNCHANGED <<head, signed>>
      BY <1>4, <2>5 DEF CopyPrologue
    <3>2. head = None
      BY <2>1 DEF UpInv
    <3>. QED  BY <2>1, <2>3, <3>1, <3>2 DEF UpInv
  <2>. QED  BY <2>4, <2>5
<1>5. ASSUME NEW h \in signed, RecoverSignedSuffix(h) PROVE UpInv' /\ SavedInv'
  <2>1. /\ head' = h /\ tree' = h.root /\ h.fork = fork /\ UNCHANGED <<fork, signed, mode, prologue>>
        /\ Len(h.root) >= Len(tree) /\ mode = "up"
    BY <1>5 DEF RecoverSignedSuffix, Recoverable
  <2>2. h \in [fork : Nat, root : Seq(Values)] /\ h.root \in Seq(Values) /\ h.root \in Logs
    BY BoundsAssumption DEF TypeOK, Heads, Logs
  <2>3. h # None /\ h.root # None
    BY <1>0, <2>2, NoneIsNoHead
  <2>4. prologue # None => h.root # <<>>
    BY <1>0, <2>1, <2>2 DEF UpInv
  <2>5. UpInv'
    BY <2>1, <2>3, <2>4 DEF UpInv
  <2>6. /\ dTree' = h.root /\ dPresence' = AllBlocks(h.root) /\ dMeta' = Meta(fork, h, prologue)
        /\ saved' = [tree |-> h.root, meta |-> dMeta']
    BY <1>5 DEF RecoverSignedSuffix
  <2>7. saved' # None /\ dPresence' # None
    <3>1. dMeta' \in Metas
      BY <2>1, <2>6 DEF TypeOK, Metas, Meta, HeadOrNone
    <3>2. saved' \in [tree : Logs, meta : Metas]
      BY <2>2, <2>6, <3>1
    <3>. QED  BY <2>6, <3>2, NoneIsNoState, AllBlocksFacts
  <2>. QED  BY <2>1, <2>3, <2>4, <2>5, <2>6, <2>7 DEF SavedInv, RefusesOnlyTorn, Meta
<1>6. ASSUME NEW h \in signed, NEW n \in 0 .. MaxLen, NEW k \in 0 .. 2, RecoverFails(h, n, k)
      PROVE  UpInv' /\ SavedInv'
  <2>1. /\ UNCHANGED <<dMeta, mode, tree, fork, head, prologue, signed, saved>>
        /\ Len(h.root) >= Len(tree) /\ mode = "up"
        /\ dTree' = dTree \/ dTree' = h.root
        /\ dPresence' = dPresence \/ dPresence' = AllBlocks(h.root)
    BY <1>6 DEF RecoverFails, Recoverable, logical
  <2>2. h.root \in Seq(Values) /\ AllBlocks(h.root) \subseteq Positions
    BY BoundsAssumption DEF TypeOK, Heads, Logs, AllBlocks, Positions
  <2>3. h.root # None /\ AllBlocks(h.root) # None /\ (tree # <<>> => h.root # <<>>)
    BY <1>0, <2>1, <2>2, NoneIsNoState
  <2>. QED  BY <2>1, <2>3 DEF UpInv, SavedInv, RefusesOnlyTorn
<1>7. ASSUME Persist PROVE UpInv' /\ SavedInv'
  <2>1. /\ mode = "up" /\ UNCHANGED <<mode, tree, fork, head, prologue, signed>>
        /\ dTree' = tree /\ dPresence' = presence /\ dMeta' = Meta(fork, head, prologue)
        /\ saved' = [tree |-> tree, meta |-> dMeta']
    BY <1>7 DEF Persist, logical
  <2>2. tree # None /\ presence # None /\ saved' # None
    <3>1. tree \in Logs /\ presence \in SUBSET Positions /\ dMeta' \in Metas
      BY <2>1 DEF TypeOK, Meta, Metas
    <3>2. saved' \in [tree : Logs, meta : Metas]
      BY <2>1, <3>1
    <3>. QED  BY <1>0, <3>1, <3>2, NoneIsNoState DEF Logs
  <2>3. saved'.tree = tree /\ saved'.meta = dMeta'
    BY <2>1
  <2>. QED  BY <2>1, <2>2, <2>3 DEF UpInv, SavedInv, RefusesOnlyTorn, Meta
<1>8. ASSUME NEW k \in 1 .. 2, PersistFails(k) PROVE UpInv' /\ SavedInv'
  <2>1. /\ mode = "up" /\ UNCHANGED <<dMeta, mode, tree, fork, head, prologue, signed, saved>>
        /\ dTree' = tree /\ dPresence' \in {presence, dPresence}
    BY <1>8 DEF PersistFails, logical
  <2>2. tree # None /\ presence # None
    BY <1>0, NoneIsNoState DEF TypeOK
  <2>. QED  BY <2>1, <2>2 DEF UpInv, SavedInv, RefusesOnlyTorn
<1>9. ASSUME Purge PROVE UpInv' /\ SavedInv'
  BY <1>9 DEF Purge, UpInv, SavedInv, RefusesOnlyTorn
<1>10. ASSUME NEW n \in 0 .. MaxLen, NEW k \in 0 .. 3, PurgeFails(n, k) PROVE UpInv' /\ SavedInv'
  BY <1>10 DEF PurgeFails, logical, UpInv, SavedInv, RefusesOnlyTorn
<1>11. ASSUME Crash PROVE UpInv' /\ SavedInv'
  BY <1>11 DEF Crash, durable, logical, UpInv, SavedInv, RefusesOnlyTorn
<1>12. ASSUME NEW p \in Prologues, OpenNotPersisted(p) PROVE UpInv' /\ SavedInv'
  <2>1. saved = None
    BY <1>12, SavedMeta DEF OpenNotPersisted, NotPersisted, SavedInv
  <2>. QED  BY <1>12, <2>1 DEF OpenNotPersisted, durable, UpInv, SavedInv, RefusesOnlyTorn
<1>13. ASSUME Open PROVE UpInv' /\ SavedInv'
  <2>1. saved # None /\ dMeta = saved.meta /\ UNCHANGED <<dTree, dPresence, dMeta, signed, saved>>
    BY <1>13 DEF Open, NotPersisted, SavedInv, durable
  <2>2. CASE OpenAccepts
    <3>1. OpenedAsSaved
      BY <1>13, <2>1, <2>2, OpenGivesSaved
    <3>. QED  BY <1>13, <2>1, <2>2, <3>1 DEF Open, UpInv, SavedInv, RefusesOnlyTorn, OpenedAsSaved
  <2>3. CASE ~OpenAccepts
    <3>1. mode' = "corrupt"
      BY <1>13, <2>3 DEF Open
    <3>2. dTree # saved.tree \/ saved.meta.head = None
      BY <2>1, <2>3 DEF OpenAccepts, VerifyHead, SavedInv
    <3>. QED  BY <2>1, <3>1, <3>2 DEF UpInv, SavedInv, RefusesOnlyTorn
  <2>. QED  BY <2>2, <2>3
<1>14. ASSUME \/ \E v \in Values : AppendFails(v) \/ Stage(v)
              \/ OpenBatch \/ CommitNothing \/ \E j \in Positions : CommitFails(j)
              \/ \E from, to \in Positions : Clear(from, to) \/ ClearFails(from, to)
              \/ \E keep \in SUBSET Positions : Sweep(keep)
              \/ \E keep \in SUBSET Positions, i \in Positions : SweepFails(keep, i)
              \/ UNCHANGED vars
       PROVE  UpInv' /\ SavedInv'
  <2>1. UNCHANGED <<dTree, dPresence, dMeta, mode, tree, fork, head, prologue, signed, saved>>
    BY <1>14 DEF AppendFails, Stage, OpenBatch, CommitNothing, CommitFails, Clear, ClearFails,
                 Sweep, SweepFails, vars, logical, durable
  <2>. QED  BY <2>1 DEF UpInv, SavedInv, RefusesOnlyTorn
<1>. QED
  BY <1>1, <1>2, <1>3, <1>4, <1>5, <1>6, <1>7, <1>8, <1>9, <1>10, <1>11, <1>12, <1>13, <1>14,
     BoundsAssumption DEF Next, Running, Logging, Batching, Positions

\* A core that crashes and opens again stays within both invariants.
LEMMA CrashInvHolds ==
    ASSUME NoEmptyPrologue PROVE SpecCrash => [](TypeOK /\ UpInv /\ SavedInv)
<1>1. Init => TypeOK
  BY BoundsAssumption DEF Init, TypeOK, Fresh, Positions, Logs, HeadOrNone
<1>2. Init => UpInv /\ SavedInv
  BY DEF Init, Fresh, UpInv, SavedInv, RefusesOnlyTorn
<1>3. TypeOK /\ UpInv /\ SavedInv /\ [Next]_vars => (TypeOK /\ UpInv /\ SavedInv)'
  BY TypeStepCrash, CrashStep
<1>. QED  BY <1>1, <1>2, <1>3, PTL DEF SpecCrash

\* open refuses a store only when KEY_TREE is not that of the last complete persist, or when
\* that persist saved an unfinished prologue: whatever crashes, failed persists, recoveries
\* and purges came before, for every log and fork (open, verify_head).
THEOREM OpenRefusesOnlyTorn ==
    ASSUME NoEmptyPrologue PROVE SpecCrash => []RefusesOnlyTorn
<1>1. SavedInv => RefusesOnlyTorn
  BY DEF SavedInv
<1>2. SpecCrash => [](TypeOK /\ UpInv /\ SavedInv)
  BY CrashInvHolds
<1>. QED  BY <1>1, <1>2, PTL

\* An open that succeeds gives back the log, fork, head and prologue of the last complete
\* persist, never those of one that was cut short (persist, open).
THEOREM OpenGivesBackSaved ==
    ASSUME NoEmptyPrologue PROVE SpecCrash => OpenRestoresSaved
<1>1. ASSUME TypeOK, UpInv, SavedInv, [Next]_vars, mode = "down", mode' = "up"
      PROVE  IF saved = None THEN tree' = <<>> /\ fork' = 0 /\ head' = None
             ELSE tree' = saved.tree /\ Meta(fork', head', prologue') = saved.meta
  <2>1. Open \/ \E p \in Prologues : OpenNotPersisted(p)
    BY <1>1 DEF Next, Running, Logging, Batching, AppendBlock, AppendFails, Truncate, CopyPrologue,
                OpenBatch, Stage, CommitNothing, Commit, CommitFails, Clear, ClearFails, Sweep,
                Persist, PersistFails, RecoverSignedSuffix, RecoverFails, Recoverable, SweepFails,
                Purge, PurgeFails, Crash, vars
  <2>2. CASE Open
    <3>1. OpenAccepts
      BY <1>1, <2>2 DEF Open
    <3>2. OpenedAsSaved
      BY <1>1, <2>2, <3>1, OpenGivesSaved
    <3>. QED  BY <3>2 DEF OpenedAsSaved
  <2>3. CASE \E p \in Prologues : OpenNotPersisted(p)
    BY <1>1, <2>3, SavedMeta DEF OpenNotPersisted, NotPersisted, SavedInv
  <2>. QED  BY <2>1, <2>2, <2>3
<1>2. TypeOK /\ UpInv /\ SavedInv /\ [Next]_vars
        => [(mode = "down" /\ mode' = "up")
              => IF saved = None THEN tree' = <<>> /\ fork' = 0 /\ head' = None
                 ELSE tree' = saved.tree /\ Meta(fork', head', prologue') = saved.meta]_vars
  BY <1>1
<1>3. SpecCrash => [](TypeOK /\ UpInv /\ SavedInv)
  BY CrashInvHolds
<1>. QED  BY <1>2, <1>3, PTL DEF SpecCrash, OpenRestoresSaved
=============================================================================
