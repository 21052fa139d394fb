--------------------------- MODULE ReplicaProofs ---------------------------
(***************************************************************************)
(* The safety of a replica that crashes, loses writes and reads any heads  *)
(* in any order, for every set of values and every bound.                  *)
(***************************************************************************)
EXTENDS Replica, TLAPS

\* A prefix of a log is a log, and keeps the blocks it covers.
LEMMA PrefixFacts ==
    ASSUME NEW s \in Logs, NEW n \in 0 .. Len(s)
    PROVE  /\ Prefix(s, n) \in Logs
           /\ Len(Prefix(s, n)) = n
           /\ \A i \in 1 .. n : Prefix(s, n)[i] = s[i]
  BY ReplicaBounds DEF Prefix, Logs

\* The next block of a log goes behind those already there.
LEMMA AppendFacts ==
    ASSUME NEW s \in Logs, NEW t \in Logs, Len(s) < Len(t)
    PROVE  /\ t[Len(s) + 1] \in Values /\ Len(s) + 1 \in Positions
           /\ Append(s, t[Len(s) + 1]) \in Logs
           /\ Len(Append(s, t[Len(s) + 1])) = Len(s) + 1
           /\ \A i \in 1 .. Len(s) : Append(s, t[Len(s) + 1])[i] = s[i]
           /\ Append(s, t[Len(s) + 1])[Len(s) + 1] = t[Len(s) + 1]
  BY ReplicaBounds DEF Logs, Positions

\* Logs of one length with the same blocks are equal.
LEMMA SameBlocks ==
    ASSUME NEW s \in Logs, NEW t \in Logs, Len(s) = Len(t), \A i \in 1 .. Len(s) : s[i] = t[i]
    PROVE  s = t
  BY DEF Logs

\* Being a prefix is reflexive and transitive.
LEMMA PrefixReflexive ==
    ASSUME NEW s \in Logs
    PROVE  IsPrefixOf(s, s)
  BY DEF IsPrefixOf, Logs

\* A prefix of a prefix is a prefix.
LEMMA PrefixTransitive ==
    ASSUME NEW s \in Logs, NEW t \in Logs, NEW u \in Logs, IsPrefixOf(s, t), IsPrefixOf(t, u)
    PROVE  IsPrefixOf(s, u)
  BY DEF IsPrefixOf, Logs

\* The empty log is a prefix of all.
LEMMA EmptyPrefix ==
    /\ <<>> \in Logs /\ Len(<<>>) = 0
    /\ \A t \in Logs : IsPrefixOf(<<>>, t) /\ (Len(t) = 0 => t = <<>>)
  BY ReplicaBounds DEF IsPrefixOf, Logs

\* A tree that starts with what a head commits to is loaded as exactly that (Replica::open).
LEMMA LoadedRoot ==
    ASSUME NEW t \in Logs, NEW h \in Heads, IsPrefixOf(h.root, t)
    PROVE  Loaded(t, h) = h.root
<1>1. h # None
  BY ReplicaNoneIsNoHead, ReplicaBounds DEF Heads, Logs
<1>2. h.root \in Logs /\ Len(h.root) \in 0 .. Len(t) /\ Len(t) \in Nat
  BY DEF Heads, IsPrefixOf, Logs
<1>3. CASE Len(t) > Len(h.root)
  <2> DEFINE n == Len(h.root)
  <2>1. Prefix(t, n) \in Logs /\ Len(Prefix(t, n)) = n /\ \A i \in 1 .. n : Prefix(t, n)[i] = t[i]
    BY <1>2, PrefixFacts
  <2>2. \A i \in 1 .. n : h.root[i] = t[i]
    BY DEF IsPrefixOf
  <2>3. Prefix(t, n) = h.root
    BY <1>2, <2>1, <2>2, SameBlocks
  <2> QED
    BY <1>1, <1>3, <2>3 DEF Loaded
<1>4. CASE ~(Len(t) > Len(h.root))
  BY <1>2, <1>4, SameBlocks DEF IsPrefixOf, Loaded
<1> QED
  BY <1>3, <1>4

\* What open loads is always a log.
LEMMA LoadedType ==
    ASSUME NEW t \in Logs, NEW h \in Heads \cup {None}
    PROVE  Loaded(t, h) \in Logs
<1>1. CASE h # None /\ Len(t) > Len(h.root)
  <2>1. Len(h.root) \in 0 .. Len(t)
    BY <1>1 DEF Heads, Logs
  <2> QED
    BY <1>1, <2>1, PrefixFacts DEF Loaded
<1> QED
  BY <1>1 DEF Loaded
-----------------------------------------------------------------------------
\* The writer's side signs logs only, and takes back no head.
LEMMA WriteType ==
    ASSUME TypeOK, SignedLogNext
    PROVE  log' \in Logs /\ fork' \in 0 .. MaxFork /\ signed' \subseteq Heads /\ signed \subseteq signed'
<1> USE ReplicaBounds DEF TypeOK
<1>1. ASSUME NEW n \in 0 .. MaxLen, NEW blocks \in [1 .. n -> Values], Grow(blocks)
      PROVE  log' \in Logs /\ fork' = fork /\ signed \subseteq signed'
             /\ signed' \subseteq signed \cup {[fork |-> fork, root |-> log']}
  <2>1. blocks \in Seq(Values) /\ Len(blocks) = n
    OBVIOUS
  <2> QED
    BY <1>1, <2>1 DEF Grow, Sign, Logs
<1>2. ASSUME NEW n \in 0 .. MaxLen, Rewind(n)
      PROVE  log' \in Logs /\ fork' \in 0 .. MaxFork /\ signed \subseteq signed'
             /\ signed' \subseteq signed \cup {[fork |-> fork', root |-> log']}
  <2>1. n \in 0 .. Len(log)
    BY <1>2 DEF Rewind, Logs
  <2>2. log' \in Logs
    BY <1>2, <2>1, PrefixFacts DEF Rewind, Prefix
  <2> QED
    BY <1>2, <2>2 DEF Rewind, Sign
<1> QED
  BY <1>1, <1>2 DEF SignedLogNext, Heads

\* None is not a head, nor what persist writes in place of one.
LEMMA NoneFacts == None \notin Heads /\ None \notin Logs
<1>1. Heads \subseteq [fork : Nat, root : Seq(Values)] /\ Logs \subseteq Seq(Values)
  BY ReplicaBounds DEF Heads, Logs
<1> QED
  BY <1>1, ReplicaNoneIsNoHead, ReplicaNone

\* The block a caller adds is the next one of a head the writer signed; a gated caller adds
\* those of the head that passed the gate (Replica::add_block).
Adding(h) == h \in signed /\ (gated => h = target)

\* Where the next block of a head goes.
LEMMA AddFacts ==
    ASSUME TypeOK, NEW h \in signed, Len(tree) < Len(h.root)
    PROVE  LET t == Append(tree, h.root[Len(tree) + 1]) IN
           /\ h.root \in Logs /\ h \in Heads /\ Len(tree) \in Nat
           /\ h.root[Len(tree) + 1] \in Values /\ Len(tree) + 1 \in Positions
           /\ t \in Logs /\ Len(t) = Len(tree) + 1
           /\ \A i \in 1 .. Len(tree) : t[i] = tree[i]
           /\ t[Len(tree) + 1] = h.root[Len(tree) + 1]
<1>1. h \in Heads /\ h.root \in Logs /\ tree \in Logs /\ Len(tree) \in Nat
  BY DEF TypeOK, Heads, Logs
<1> QED
  BY <1>1, AppendFacts

\* Every step keeps the type of every variable.
LEMMA TypeStep ==
    ASSUME TypeOK, [Next]_vars
    PROVE  TypeOK'
<1> USE ReplicaBounds
<1>1. CASE Write
  BY <1>1, WriteType DEF TypeOK, Write, replica, durable
<1>2. ASSUME NEW h \in signed, AddBlock(h) PROVE TypeOK'
  <2>1. Len(tree) < Len(h.root)
    BY <1>2 DEF AddBlock
  <2>2. tree' \in Logs /\ store' \in [Positions -> Values \cup {None}]
    BY <1>2, <2>1, AddFacts DEF AddBlock, TypeOK
  <2>3. head' \in Heads \cup {None}
    BY <1>2, <2>1, AddFacts DEF AddBlock, Matched, TypeOK
  <2> QED
    BY <1>2, <2>2, <2>3 DEF AddBlock, TypeOK, logVars, history
<1>3. ASSUME NEW h \in signed, AddBlockFails(h) PROVE TypeOK'
  <2>1. store' \in [Positions -> Values \cup {None}]
    BY <1>3, AddFacts DEF AddBlockFails, TypeOK
  <2> QED
    BY <1>3, <2>1 DEF AddBlockFails, TypeOK, logVars, history
<1>4. ASSUME NEW h \in signed, Fetch(h) PROVE TypeOK'
  BY <1>4 DEF Fetch, TypeOK, logVars, durable, history
<1>5. ASSUME NEW h \in signed, NEW n \in 0 .. MaxLen, Reorg(h, n) PROVE TypeOK'
  <2>1. n \in 0 .. Len(tree) /\ tree \in Logs
    BY <1>5 DEF Reorg, VerifyReorg, TypeOK, Logs
  <2>2. tree' \in Logs /\ head' \in Heads \cup {None}
    BY <1>5, <2>1, PrefixFacts DEF Reorg, TypeOK
  <2> QED
    BY <1>5, <2>2 DEF Reorg, TypeOK, logVars, durable, history
<1>6. CASE Persist
  BY <1>6 DEF Persist, TypeOK, logVars, history
<1>7. CASE PersistFails
  BY <1>7 DEF PersistFails, TypeOK, logVars
<1>8. CASE Crash
  BY <1>8 DEF Crash, TypeOK, logVars, durable
<1>9. CASE OpenNotPersisted
  BY <1>9, EmptyPrefix DEF OpenNotPersisted, TypeOK, logVars, durable, history
<1>10. CASE Open
  <2>1. dTree \in Logs /\ dMeta \in [head : Heads \cup {None}]
    BY <1>10 DEF Open, NotPersisted, TypeOK
  <2>2. Loaded(dTree, dMeta.head) \in Logs /\ dMeta.head \in Heads \cup {None}
    BY <2>1, LoadedType
  <2>3. tree' \in Logs /\ head' \in Heads \cup {None} /\ mode' \in {"up", "corrupt"}
    BY <1>10, <2>2 DEF Open, TypeOK
  <2> QED
    BY <1>10, <2>3 DEF Open, TypeOK, logVars, durable, history
<1>11. CASE UNCHANGED vars
  BY <1>11 DEF vars, replica, durable, logVars, TypeOK
<1> QED
  BY <1>1, <1>2, <1>3, <1>4, <1>5, <1>6, <1>7, <1>8, <1>9, <1>10, <1>11
     DEF Next, AddAny, AddTarget, Storing, TypeOK
-----------------------------------------------------------------------------
\* t is the start of a log the writer signed.
AuthoredLog(t) == t = <<>> \/ \E h \in signed : IsPrefixOf(t, h.root)

\* The running replica: its head and its target are signed, its tree starts with what the
\* head commits to, and while a target is fetched the tree is a start of it.
RunInv ==
    /\ head # None => head \in signed /\ IsPrefixOf(head.root, tree)
    /\ target # None => gated /\ mode = "up" /\ IsPrefixOf(tree, target.root)
    /\ gated => AuthoredLog(tree)

\* What the store holds for the next open: a tree under the head persisted with it, unless a
\* persist of a reorg was torn.
SavedInv ==
    /\ dMeta # None => dTree # None /\ (dMeta.head # None => dMeta.head \in signed)
    /\ gated /\ dTree # None => AuthoredLog(dTree)
    /\ dMeta # None /\ dMeta.head # None /\ ~(gated /\ torn) => IsPrefixOf(dMeta.head.root, dTree)
    /\ ~gated /\ mode = "up" /\ dMeta # None => IsPrefixOf(Loaded(dTree, dMeta.head), tree)
    /\ NeverCorrupt

ReplicaInv == TypeOK /\ RunInv /\ SavedInv

\* The writer's steps, for the reader: more heads to read.
LEMMA WriteKeeps ==
    ASSUME ReplicaInv, Write
    PROVE  RunInv' /\ SavedInv'
<1>1. signed \subseteq signed' /\ UNCHANGED <<dTree, dMeta, mode, tree, head, gated, target, torn>>
  BY WriteType DEF ReplicaInv, Write, replica, durable
<1>2. RunInv'
  BY <1>1 DEF ReplicaInv, RunInv, AuthoredLog
<1>3. SavedInv'
  BY <1>1 DEF ReplicaInv, SavedInv, AuthoredLog, NeverCorrupt, Loaded
<1> QED
  BY <1>2, <1>3

\* A block that is added extends the tree; the head moves only to a head the tree equals.
LEMMA AddKeeps ==
    ASSUME ReplicaInv, NEW h, Adding(h), AddBlock(h)
    PROVE  RunInv' /\ SavedInv' /\ IsPrefixOf(tree, tree')
<1>1. /\ h \in signed /\ mode = "up" /\ Len(tree) < Len(h.root)
      /\ tree' = Append(tree, h.root[Len(tree) + 1])
      /\ head' = Matched(tree', h)
      /\ UNCHANGED <<signed, dTree, dMeta, mode, target, gated, torn>>
  BY DEF Adding, AddBlock, logVars, history
<1>2. /\ h.root \in Logs /\ h \in Heads /\ Len(tree) \in Nat
      /\ tree' \in Logs /\ Len(tree') = Len(tree) + 1
      /\ \A i \in 1 .. Len(tree) : tree'[i] = tree[i]
      /\ tree'[Len(tree) + 1] = h.root[Len(tree) + 1]
  BY <1>1, AddFacts DEF ReplicaInv
<1>3. IsPrefixOf(tree, tree') /\ tree \in Logs
  BY <1>2 DEF IsPrefixOf, ReplicaInv, TypeOK
<1>4. ASSUME gated
      PROVE  IsPrefixOf(tree', h.root)
  <2>1. h = target /\ target # None
    BY <1>2, <1>4, NoneFacts DEF Adding
  <2>2. IsPrefixOf(tree, h.root)
    BY <2>1 DEF ReplicaInv, RunInv
  <2>3. Len(tree') <= Len(h.root) /\ Len(h.root) \in Nat
    BY <1>1, <1>2 DEF Logs
  <2>4. \A i \in 1 .. Len(tree') : i \in 1 .. Len(tree) \/ i = Len(tree) + 1
    BY <1>2
  <2> QED
    BY <1>2, <2>2, <2>3, <2>4 DEF IsPrefixOf
<1>5. head' # None => head' \in signed /\ IsPrefixOf(head'.root, tree')
  <2>1. CASE tree' = h.root
    BY <1>1, <1>2, <2>1, PrefixReflexive DEF Matched
  <2>2. CASE tree' # h.root
    <3>1. head' = head
      BY <1>1, <2>2 DEF Matched
    <3>2. head # None => head \in signed /\ head.root \in Logs /\ IsPrefixOf(head.root, tree)
      BY DEF ReplicaInv, RunInv, TypeOK, Heads
    <3> QED
      BY <1>2, <1>3, <3>1, <3>2, PrefixTransitive
  <2> QED
    BY <2>1, <2>2
<1>6. RunInv'
  <2>1. target # None => gated /\ h = target
    BY DEF Adding, ReplicaInv, RunInv
  <2>2. gated => AuthoredLog(tree)'
    BY <1>1, <1>4 DEF AuthoredLog
  <2> QED
    BY <1>1, <1>4, <1>5, <2>1, <2>2 DEF ReplicaInv, RunInv
<1>7. SavedInv'
  <2>1. ASSUME ~gated, dMeta # None
        PROVE  IsPrefixOf(Loaded(dTree, dMeta.head), tree')
    <3>1. IsPrefixOf(Loaded(dTree, dMeta.head), tree)
      BY <1>1, <2>1 DEF ReplicaInv, SavedInv
    <3>2. Loaded(dTree, dMeta.head) \in Logs
      BY <2>1, LoadedType DEF ReplicaInv, SavedInv, TypeOK
    <3> QED
      BY <1>2, <1>3, <3>1, <3>2, PrefixTransitive
  <2>2. AuthoredLog(dTree)' <=> AuthoredLog(dTree)
    BY <1>1 DEF AuthoredLog
  <2>3. Loaded(dTree, dMeta.head)' = Loaded(dTree, dMeta.head)
    BY <1>1 DEF Loaded
  <2> QED
    BY <1>1, <2>1, <2>2, <2>3 DEF ReplicaInv, SavedInv, NeverCorrupt
<1> QED
  BY <1>3, <1>6, <1>7

\* A head that passes verify_upgrade extends the tree.
LEMMA FetchKeeps ==
    ASSUME ReplicaInv, NEW h \in signed, gated, Fetch(h)
    PROVE  RunInv' /\ SavedInv'
<1>1. /\ mode = "up" /\ target' = h /\ (tree = <<>> \/ VerifyUpgrade(h))
      /\ UNCHANGED <<signed, dTree, dMeta, mode, tree, head, gated, torn>>
  BY DEF Fetch, logVars, durable, history
<1>2. tree \in Logs /\ h.root \in Logs /\ Len(tree) \in Nat /\ Len(h.root) \in Nat
  BY DEF ReplicaInv, TypeOK, Heads, Logs
<1>3. IsPrefixOf(tree, h.root)
  <2>1. CASE tree = <<>>
    BY <1>2, <2>1, EmptyPrefix
  <2>2. CASE VerifyUpgrade(h)
    <3>1. Len(tree) \in 0 .. Len(h.root) /\ Prefix(h.root, Len(tree)) = tree
      BY <1>2, <2>2 DEF VerifyUpgrade
    <3>2. \A i \in 1 .. Len(tree) : Prefix(h.root, Len(tree))[i] = h.root[i]
      BY <1>2, <3>1, PrefixFacts
    <3> QED
      BY <3>1, <3>2 DEF IsPrefixOf
  <2> QED
    BY <1>1, <2>1, <2>2
<1>4. RunInv'
  BY <1>1, <1>3 DEF ReplicaInv, RunInv, AuthoredLog
<1>5. SavedInv'
  BY <1>1 DEF ReplicaInv, SavedInv, AuthoredLog, NeverCorrupt, Loaded
<1> QED
  BY <1>4, <1>5

\* reorg leaves the part of the tree that verify_reorg found in the new head.
LEMMA ReorgKeeps ==
    ASSUME ReplicaInv, NEW h \in signed, NEW n \in 0 .. MaxLen, gated, Reorg(h, n)
    PROVE  RunInv' /\ SavedInv' /\ IsPrefixOf(tree', h.root)
<1>1. /\ mode = "up" /\ VerifyReorg(h, n) /\ tree' = Prefix(tree, n) /\ target' = h
      /\ head' = (IF tree' = h.root THEN h ELSE None)
      /\ UNCHANGED <<signed, dTree, dMeta, mode, gated, torn>>
  BY DEF Reorg, logVars, durable, history
<1>2. /\ tree \in Logs /\ h.root \in Logs /\ Len(tree) \in Nat /\ Len(h.root) \in Nat
      /\ n \in 0 .. Len(tree) /\ n \in 0 .. Len(h.root)
  BY <1>1 DEF ReplicaInv, TypeOK, Heads, Logs, VerifyReorg
<1>3. tree' \in Logs /\ Len(tree') = n
  BY <1>1, <1>2, PrefixFacts
<1>4. IsPrefixOf(tree', h.root)
  <2>1. CASE tree' = h.root
    BY <1>2, <2>1, PrefixReflexive
  <2>2. CASE n = 0
    BY <1>2, <1>3, <2>2, EmptyPrefix
  <2>3. CASE tree' = Prefix(h.root, n)
    <3>1. \A i \in 1 .. n : Prefix(h.root, n)[i] = h.root[i]
      BY <1>2, PrefixFacts
    <3> QED
      BY <1>2, <1>3, <2>3, <3>1 DEF IsPrefixOf
  <2> QED
    BY <1>1, <2>1, <2>2, <2>3 DEF VerifyReorg
<1>5. RunInv'
  <2>1. head' # None => head' \in signed' /\ IsPrefixOf(head'.root, tree')
    BY <1>1, <1>2, PrefixReflexive
  <2>2. AuthoredLog(tree)'
    BY <1>1, <1>4 DEF AuthoredLog
  <2> QED
    BY <1>1, <1>4, <2>1, <2>2 DEF RunInv
<1>6. SavedInv'
  BY <1>1 DEF ReplicaInv, SavedInv, AuthoredLog, NeverCorrupt, Loaded
<1> QED
  BY <1>4, <1>5, <1>6

\* persist saves a tree together with the head it starts with.
LEMMA PersistKeeps ==
    ASSUME ReplicaInv, Persist
    PROVE  RunInv' /\ SavedInv'
<1>1. /\ mode = "up" /\ dTree' = tree /\ dMeta' = [head |-> head]
      /\ UNCHANGED <<signed, mode, tree, head, gated, target, torn>>
  BY DEF Persist, logVars, history
<1>2. dMeta'.head = head /\ tree \in Logs /\ tree # None /\ head \in Heads \cup {None}
  BY <1>1, NoneFacts DEF ReplicaInv, TypeOK
<1>3. RunInv'
  BY <1>1 DEF ReplicaInv, RunInv, AuthoredLog
<1>4. IsPrefixOf(Loaded(tree, head), tree)
  <2>1. CASE head = None
    BY <1>2, <2>1, PrefixReflexive DEF Loaded
  <2>2. CASE head # None
    BY <1>2, <2>2, LoadedRoot DEF ReplicaInv, RunInv
  <2> QED
    BY <2>1, <2>2
<1>5. Loaded(dTree, dMeta.head)' = Loaded(tree, head)
  BY <1>1, <1>2 DEF Loaded
<1>6. gated => AuthoredLog(dTree)'
  BY <1>1 DEF ReplicaInv, RunInv, AuthoredLog
<1>7. SavedInv'
  BY <1>1, <1>2, <1>4, <1>5, <1>6 DEF ReplicaInv, RunInv, SavedInv, NeverCorrupt
<1> QED
  BY <1>3, <1>7

\* A torn persist leaves an older head behind; a tree that only grew still starts with what
\* that head commits to.
LEMMA PersistFailsKeeps ==
    ASSUME ReplicaInv, PersistFails
    PROVE  RunInv' /\ SavedInv'
<1>1. /\ mode = "up" /\ dTree' = tree /\ torn' = TRUE
      /\ UNCHANGED <<signed, dMeta, mode, tree, head, gated, target>>
  BY DEF PersistFails, logVars
<1>2. tree \in Logs /\ tree # None
  BY NoneFacts DEF ReplicaInv, TypeOK
<1>3. RunInv'
  BY <1>1 DEF ReplicaInv, RunInv, AuthoredLog
<1>4. ASSUME ~gated, dMeta # None
      PROVE  /\ dMeta.head # None => IsPrefixOf(dMeta.head.root, tree)
             /\ IsPrefixOf(Loaded(tree, dMeta.head), tree)
  <2>1. /\ dTree \in Logs /\ dMeta.head \in Heads \cup {None}
        /\ IsPrefixOf(Loaded(dTree, dMeta.head), tree)
        /\ dMeta.head # None => IsPrefixOf(dMeta.head.root, dTree)
    BY <1>1, <1>4 DEF ReplicaInv, SavedInv, TypeOK
  <2>2. CASE dMeta.head = None
    BY <1>2, <2>2, PrefixReflexive DEF Loaded
  <2>3. CASE dMeta.head # None
    <3>1. Loaded(dTree, dMeta.head) = dMeta.head.root
      BY <2>1, <2>3, LoadedRoot
    <3>2. Loaded(tree, dMeta.head) = dMeta.head.root
      BY <1>2, <2>1, <2>3, <3>1, LoadedRoot
    <3> QED
      BY <2>1, <3>1, <3>2
  <2> QED
    BY <2>2, <2>3
<1>5. Loaded(dTree, dMeta.head)' = Loaded(tree, dMeta.head)
  BY <1>1 DEF Loaded
<1>6. gated => AuthoredLog(dTree)'
  BY <1>1 DEF ReplicaInv, RunInv, AuthoredLog
<1>7. SavedInv'
  BY <1>1, <1>2, <1>4, <1>5, <1>6 DEF ReplicaInv, SavedInv, NeverCorrupt
<1> QED
  BY <1>3, <1>7

\* A failed put and a crash leave the tree, the head and what was persisted.
LEMMA FailureKeeps ==
    ASSUME ReplicaInv, (\E h : AddBlockFails(h)) \/ Crash \/ UNCHANGED vars
    PROVE  RunInv' /\ SavedInv'
<1>1. /\ UNCHANGED <<signed, dTree, dMeta, tree, head, gated, torn>>
      /\ UNCHANGED <<mode, target>> \/ (mode' = "down" /\ target' = None)
  BY DEF AddBlockFails, Crash, vars, replica, durable, logVars, history
<1>2. RunInv'
  BY <1>1 DEF ReplicaInv, RunInv, AuthoredLog
<1>3. SavedInv'
  BY <1>1 DEF ReplicaInv, SavedInv, AuthoredLog, NeverCorrupt, Loaded
<1> QED
  BY <1>2, <1>3

\* A replica that was never persisted whole starts anew.
LEMMA OpenNotPersistedKeeps ==
    ASSUME ReplicaInv, OpenNotPersisted
    PROVE  RunInv' /\ SavedInv'
<1>1. /\ mode = "down" /\ mode' = "up" /\ tree' = <<>> /\ head' = None /\ NotPersisted
      /\ UNCHANGED <<signed, dTree, dMeta, target, gated, torn>>
  BY DEF OpenNotPersisted, logVars, durable, history
<1>2. target = None /\ dMeta = None
  BY <1>1 DEF ReplicaInv, RunInv, SavedInv, NotPersisted
<1>3. RunInv'
  BY <1>1, <1>2 DEF RunInv, AuthoredLog
<1>4. SavedInv'
  BY <1>1, <1>2 DEF ReplicaInv, SavedInv, AuthoredLog, NeverCorrupt
<1> QED
  BY <1>3, <1>4

\* Opening a persisted replica resumes exactly what its head vouches for, and fails only
\* after a torn persist of a reorg (Replica::open).
LEMMA OpenKeeps ==
    ASSUME ReplicaInv, Open
    PROVE  RunInv' /\ SavedInv'
<1> DEFINE h == dMeta.head
           t == Loaded(dTree, h)
<1>1. /\ mode = "down" /\ dTree # None /\ dMeta # None
      /\ UNCHANGED <<signed, dTree, dMeta, target, gated, torn>>
      /\ \/ (h = None \/ t = h.root) /\ mode' = "up" /\ tree' = t /\ head' = h
         \/ h # None /\ t # h.root /\ mode' = "corrupt" /\ UNCHANGED <<tree, head>>
  BY DEF Open, NotPersisted, logVars, durable, history
<1>2. /\ dTree \in Logs /\ h \in Heads \cup {None} /\ target = None
      /\ h # None => h \in signed /\ h.root \in Logs
  BY <1>1 DEF ReplicaInv, RunInv, SavedInv, TypeOK, Heads
<1>3. h # None /\ ~(gated /\ torn) => t = h.root
  BY <1>1, <1>2, LoadedRoot DEF ReplicaInv, SavedInv
<1>4. t \in Logs /\ IsPrefixOf(t, t) /\ t' = t
  BY <1>1, <1>2, LoadedType, PrefixReflexive DEF Loaded
<1>5. gated /\ (h = None \/ t = h.root) => AuthoredLog(t)
  <2>1. h = None => t = dTree
    BY DEF Loaded
  <2>2. h # None /\ t = h.root => AuthoredLog(t)
    BY <1>2, <1>4 DEF AuthoredLog
  <2> QED
    BY <1>1, <2>1, <2>2 DEF ReplicaInv, SavedInv
<1>6. RunInv'
  <2>1. CASE mode' = "up"
    <3>1. tree' = t /\ head' = h /\ (h = None \/ t = h.root)
      BY <1>1, <2>1
    <3>2. gated => AuthoredLog(tree)'
      BY <1>1, <1>5, <3>1 DEF AuthoredLog
    <3>3. head' # None => head' \in signed' /\ IsPrefixOf(head'.root, tree')
      BY <1>1, <1>2, <1>4, <3>1
    <3> QED
      BY <1>1, <1>2, <3>2, <3>3 DEF RunInv
  <2>2. CASE mode' # "up"
    <3>1. UNCHANGED <<tree, head, signed, gated, target>>
      BY <1>1, <2>2
    <3> QED
      BY <1>2, <3>1 DEF ReplicaInv, RunInv, AuthoredLog
  <2> QED
    BY <2>1, <2>2
<1>7. SavedInv'
  <2>1. mode' = "corrupt" => gated /\ torn
    BY <1>1, <1>3
  <2>2. mode' = "up" => IsPrefixOf(t, tree')
    BY <1>1, <1>4
  <2>3. AuthoredLog(dTree)' <=> AuthoredLog(dTree)
    BY <1>1 DEF AuthoredLog
  <2>4. Loaded(dTree, dMeta.head)' = t
    BY <1>4
  <2> QED
    BY <1>1, <2>1, <2>2, <2>3, <2>4 DEF ReplicaInv, SavedInv, NeverCorrupt
<1> QED
  BY <1>6, <1>7

\* A caller only adds blocks of heads it may.
LEMMA AddsAreAdding ==
    ASSUME ReplicaInv, AddAny \/ AddTarget
    PROVE  \E h \in signed : Adding(h) /\ AddBlock(h)
  BY DEF ReplicaInv, TypeOK, AddAny, AddTarget, Adding

\* Every step keeps the invariant.
LEMMA ReplicaStep ==
    ASSUME ReplicaInv, [Next]_vars
    PROVE  ReplicaInv'
<1>1. TypeOK'
  BY TypeStep DEF ReplicaInv
<1>2. CASE Write
  BY <1>1, <1>2, WriteKeeps DEF ReplicaInv
<1>3. CASE AddAny \/ AddTarget
  BY <1>1, <1>3, AddsAreAdding, AddKeeps DEF ReplicaInv
<1>4. CASE gated /\ \E h \in signed : Fetch(h)
  BY <1>1, <1>4, FetchKeeps DEF ReplicaInv
<1>5. CASE gated /\ \E h \in signed, n \in 0 .. MaxLen : Reorg(h, n)
  BY <1>1, <1>5, ReorgKeeps DEF ReplicaInv
<1>6. CASE Persist \/ PersistFails
  BY <1>1, <1>6, PersistKeeps, PersistFailsKeeps DEF ReplicaInv
<1>7. CASE OpenNotPersisted \/ Open
  BY <1>1, <1>7, OpenNotPersistedKeeps, OpenKeeps DEF ReplicaInv
<1>8. CASE (\E h : AddBlockFails(h)) \/ Crash \/ UNCHANGED vars
  BY <1>1, <1>8, FailureKeeps DEF ReplicaInv
<1> QED
  BY <1>2, <1>3, <1>4, <1>5, <1>6, <1>7, <1>8 DEF Next, Storing

\* The invariant holds when the replica is created.
LEMMA ReplicaStart == Init => ReplicaInv
<1> SUFFICES ASSUME Init PROVE ReplicaInv
  OBVIOUS
<1>1. TypeOK
  <2>1. log \in Logs /\ tree \in Logs /\ fork \in 0 .. MaxFork /\ crashes \in 0 .. MaxCrashes
    BY EmptyPrefix, ReplicaBounds DEF Init, SignedLogInit
  <2>2. store \in [Positions -> Values \cup {None}] /\ signed \subseteq Heads
    BY DEF Init, SignedLogInit
  <2>3. gated \in BOOLEAN /\ torn \in BOOLEAN /\ mode = "up"
    BY DEF Init
  <2>4. dTree = None /\ dMeta = None /\ head = None /\ target = None
    BY DEF Init
  <2> QED
    BY <2>1, <2>2, <2>3, <2>4 DEF TypeOK
<1>2. RunInv /\ SavedInv
  BY DEF Init, RunInv, SavedInv, NeverCorrupt, AuthoredLog
<1> QED
  BY <1>1, <1>2 DEF ReplicaInv

\* The verified head is signed and held whole, and a gated replica never mixes two histories,
\* for every set of values and every number of blocks, forks and crashes (Replica::add_block,
\* reorg, open).
THEOREM TreeStaysAuthored == Spec => []TreeAuthored
<1>1. ReplicaInv /\ [Next]_vars => ReplicaInv'
  BY ReplicaStep
<1>2. ReplicaInv => TreeAuthored
  BY DEF ReplicaInv, RunInv, AuthoredLog, TreeAuthored
<1> QED
  BY <1>1, <1>2, ReplicaStart, PTL DEF Spec

\* open refuses what was persisted only after a torn persist of a replica that follows
\* reorgs (Replica::persist, open).
THEOREM OpenNeverCorrupt == Spec => []NeverCorrupt
<1>1. ReplicaInv /\ [Next]_vars => ReplicaInv'
  BY ReplicaStep
<1>2. ReplicaInv => NeverCorrupt
  BY DEF ReplicaInv, SavedInv
<1> QED
  BY <1>1, <1>2, ReplicaStart, PTL DEF Spec

\* What a gated replica verified stays until it follows a signed head of a higher fork
\* (Replica::verify_reorg).
THEOREM VerifiedBlocksKept == Spec => VerifiedKept
<1> DEFINE Kept == gated /\ mode = "up" /\ mode' = "up" /\ head # None
                     => \/ IsPrefixOf(head.root, tree')
                        \/ \E h \in signed : h.fork > head.fork /\ IsPrefixOf(tree', h.root)
<1>1. ASSUME ReplicaInv, [Next]_vars
      PROVE  Kept
  <2> SUFFICES ASSUME gated, mode = "up", head # None
               PROVE  \/ IsPrefixOf(head.root, tree')
                      \/ \E h \in signed : h.fork > head.fork /\ IsPrefixOf(tree', h.root)
    OBVIOUS
  <2>1. head.root \in Logs /\ tree \in Logs /\ tree' \in Logs /\ IsPrefixOf(head.root, tree)
    BY <1>1, TypeStep DEF ReplicaInv, RunInv, TypeOK, Heads
  <2>2. CASE AddAny \/ AddTarget
    <3>1. IsPrefixOf(tree, tree')
      BY <1>1, <2>2, AddsAreAdding, AddKeeps
    <3> QED
      BY <2>1, <3>1, PrefixTransitive
  <2>3. CASE \E h \in signed, n \in 0 .. MaxLen : Reorg(h, n)
    <3>1. PICK h \in signed, n \in 0 .. MaxLen : Reorg(h, n)
      BY <2>3
    <3>2. h.fork > head.fork
      BY <3>1 DEF Reorg, VerifyReorg
    <3>3. IsPrefixOf(tree', h.root)
      BY <1>1, <3>1, ReorgKeeps
    <3> QED
      BY <3>2, <3>3
  <2>4. CASE UNCHANGED tree
    BY <2>1, <2>4
  <2>5. ~OpenNotPersisted /\ ~Open
    BY DEF OpenNotPersisted, Open
  <2>6. Write \/ Persist \/ PersistFails \/ Crash \/ UNCHANGED vars
        \/ (\E h : AddBlockFails(h) \/ Fetch(h)) => UNCHANGED tree
    BY DEF Write, Persist, PersistFails, Crash, AddBlockFails, Fetch, vars, replica
  <2> QED
    BY <1>1, <2>2, <2>3, <2>4, <2>5, <2>6 DEF Next, Storing
<1>2. ReplicaInv /\ [Next]_vars => ReplicaInv'
  BY ReplicaStep
<1>3. ReplicaInv /\ [Next]_vars => [Kept]_vars
  BY <1>1
<1> QED
  BY <1>2, <1>3, ReplicaStart, PTL DEF Spec, VerifiedKept
-----------------------------------------------------------------------------
\* The store has the blocks of t.
Holds(t) == \A i \in 1 .. Len(t) : store[i] = t[i]

\* The bytes of the tree are stored; without reorgs so are those of the tree that open would
\* resume from, whatever ran ahead of it before a crash.
BytesInv ==
    /\ mode # "up" => crashes > 0
    /\ BytesVerified
    /\ ~gated /\ dMeta # None => Holds(Loaded(dTree, dMeta.head))

\* A put of the next block leaves the bytes of the tree, also when it fails.
LEMMA PutBeyond ==
    ASSUME TypeOK, NEW h \in signed, Len(tree) < Len(h.root),
           store' = [store EXCEPT ![Len(tree) + 1] = h.root[Len(tree) + 1]]
    PROVE  /\ store'[Len(tree) + 1] = h.root[Len(tree) + 1]
           /\ \A i \in 1 .. Len(tree) : store'[i] = store[i]
<1>1. Len(tree) + 1 \in Positions /\ Len(tree) \in Nat
  BY AddFacts
<1> QED
  BY <1>1 DEF TypeOK

\* Putting a block, with or without success, keeps the bytes.
LEMMA PutKeeps ==
    ASSUME ReplicaInv, BytesInv, NEW h \in signed, AddBlock(h) \/ AddBlockFails(h)
    PROVE  BytesInv'
<1>1. /\ mode = "up" /\ Len(tree) < Len(h.root)
      /\ store' = [store EXCEPT ![Len(tree) + 1] = h.root[Len(tree) + 1]]
      /\ UNCHANGED <<dTree, dMeta, mode, gated, crashes>>
      /\ tree' = tree \/ tree' = Append(tree, h.root[Len(tree) + 1])
  BY DEF AddBlock, AddBlockFails, history
<1>2. /\ store'[Len(tree) + 1] = h.root[Len(tree) + 1]
      /\ \A i \in 1 .. Len(tree) : store'[i] = store[i]
  BY <1>1, PutBeyond DEF ReplicaInv
<1>3. ASSUME gated => crashes = 0
      PROVE  \A i \in 1 .. Len(tree') : store'[i] = tree'[i]
  <2>1. \A i \in 1 .. Len(tree) : store[i] = tree[i]
    BY <1>1, <1>3 DEF BytesInv, BytesVerified
  <2>2. CASE tree' = tree
    BY <1>2, <2>1, <2>2
  <2>3. CASE tree' = Append(tree, h.root[Len(tree) + 1])
    <3>1. /\ Len(tree) \in Nat /\ Len(tree') = Len(tree) + 1
          /\ \A i \in 1 .. Len(tree) : tree'[i] = tree[i]
          /\ tree'[Len(tree) + 1] = h.root[Len(tree) + 1]
      BY <1>1, <2>3, AddFacts DEF ReplicaInv
    <3> QED
      BY <1>2, <2>1, <3>1
  <2> QED
    BY <1>1, <2>2, <2>3
<1>4. ASSUME ~gated, dMeta # None
      PROVE  \A i \in 1 .. Len(Loaded(dTree, dMeta.head)) : store'[i] = Loaded(dTree, dMeta.head)[i]
  <2>1. Loaded(dTree, dMeta.head) \in Logs /\ tree \in Logs
    BY <1>4, LoadedType DEF ReplicaInv, SavedInv, TypeOK
  <2>2. Len(Loaded(dTree, dMeta.head)) <= Len(tree)
    BY <1>1, <1>4 DEF ReplicaInv, SavedInv, IsPrefixOf
  <2>3. \A i \in 1 .. Len(Loaded(dTree, dMeta.head)) : i \in 1 .. Len(tree)
    BY <2>1, <2>2 DEF Logs
  <2> QED
    BY <1>2, <1>4, <2>3 DEF BytesInv, Holds
<1>5. Loaded(dTree, dMeta.head)' = Loaded(dTree, dMeta.head)
  BY <1>1 DEF Loaded
<1> QED
  BY <1>1, <1>3, <1>4, <1>5 DEF BytesInv, BytesVerified, Holds

\* A shorter log whose blocks a stored log has is stored.
LEMMA HoldsPrefix ==
    ASSUME NEW s \in Logs, NEW t \in Logs, IsPrefixOf(s, t), Holds(t)
    PROVE  Holds(s)
<1>1. \A i \in 1 .. Len(s) : i \in 1 .. Len(t)
  BY DEF IsPrefixOf, Logs
<1> QED
  BY <1>1 DEF IsPrefixOf, Holds

\* persist, whole or torn, saves what is stored.
LEMMA PersistBytes ==
    ASSUME ReplicaInv, ReplicaInv', BytesInv, Persist \/ PersistFails
    PROVE  BytesInv'
<1>1. mode = "up" /\ UNCHANGED <<store, mode, tree, gated, crashes>>
  BY DEF Persist, PersistFails, history
<1>2. ASSUME ~gated, dMeta' # None
      PROVE  Holds(Loaded(dTree, dMeta.head))'
  <2> DEFINE s == Loaded(dTree, dMeta.head)'
  <2>1. IsPrefixOf(Loaded(dTree, dMeta.head), tree)'
    BY <1>1, <1>2 DEF ReplicaInv, SavedInv
  <2>2. dTree' \in Logs /\ dMeta'.head \in Heads \cup {None} /\ tree \in Logs
    BY <1>2 DEF ReplicaInv, SavedInv, TypeOK
  <2>3. s \in Logs
    BY <2>2, LoadedType DEF Loaded
  <2>4. Len(s) <= Len(tree) /\ \A i \in 1 .. Len(s) : s[i] = tree[i]
    BY <1>1, <2>1 DEF IsPrefixOf
  <2>5. IsPrefixOf(s, tree)
    BY <2>4 DEF IsPrefixOf
  <2>6. Holds(tree)
    BY <1>1, <1>2 DEF BytesInv, BytesVerified, Holds
  <2>7. Holds(s)
    BY <2>2, <2>3, <2>5, <2>6, HoldsPrefix
  <2> QED
    BY <1>1, <2>7 DEF Holds
<1> QED
  BY <1>1, <1>2 DEF BytesInv, BytesVerified

\* Every step keeps the bytes.
LEMMA BytesStep ==
    ASSUME ReplicaInv, BytesInv, [Next]_vars
    PROVE  BytesInv'
<1>1. CASE AddAny \/ AddTarget \/ (\E h \in signed : AddBlockFails(h))
           \/ (target # None /\ AddBlockFails(target))
  BY <1>1, PutKeeps DEF AddAny, AddTarget, ReplicaInv, TypeOK
<1>2. CASE Write \/ (\E h : Fetch(h)) \/ UNCHANGED vars
  <2>1. UNCHANGED <<store, dTree, dMeta, mode, tree, gated, crashes>>
    BY <1>2 DEF Write, Fetch, vars, replica, durable, history
  <2> QED
    BY <2>1 DEF BytesInv, BytesVerified, Holds, Loaded
<1>3. CASE gated /\ \E h \in signed, n \in 0 .. MaxLen : Reorg(h, n)
  <2>1. PICK h \in signed, n \in 0 .. MaxLen : Reorg(h, n)
    BY <1>3
  <2>2. /\ mode = "up" /\ tree' = Prefix(tree, n) /\ n \in 0 .. Len(tree) /\ tree \in Logs
        /\ UNCHANGED <<store, dTree, dMeta, mode, gated, crashes>>
    BY <2>1 DEF Reorg, VerifyReorg, durable, history, ReplicaInv, TypeOK, Logs
  <2>3. Len(tree') = n /\ (\A i \in 1 .. n : tree'[i] = tree[i] /\ i \in 1 .. Len(tree))
    BY <2>2, PrefixFacts
  <2>4. BytesVerified'
    BY <2>2, <2>3 DEF BytesInv, BytesVerified
  <2> QED
    BY <1>3, <2>2, <2>4 DEF BytesInv
<1>4. CASE Persist \/ PersistFails
  BY <1>4, PersistBytes, ReplicaStep
<1>5. CASE Crash
  <2>1. /\ crashes \in Nat /\ crashes' = crashes + 1 /\ mode' = "down"
        /\ UNCHANGED <<store, dTree, dMeta, gated>>
    BY <1>5, ReplicaBounds DEF Crash, durable, ReplicaInv, TypeOK
  <2> QED
    BY <2>1 DEF BytesInv, BytesVerified, Holds, Loaded
<1>6. CASE OpenNotPersisted
  <2>1. mode' = "up" /\ tree' = <<>> /\ UNCHANGED <<store, dTree, dMeta, gated, crashes>>
    BY <1>6 DEF OpenNotPersisted, durable, history
  <2>2. BytesVerified'
    BY <2>1, EmptyPrefix DEF BytesVerified
  <2> QED
    BY <2>1, <2>2 DEF BytesInv, Holds, Loaded
<1>7. CASE Open
  <2>1. /\ mode = "down" /\ dMeta # None /\ UNCHANGED <<store, dTree, dMeta, gated, crashes>>
        /\ mode' = "up" => tree' = Loaded(dTree, dMeta.head)
    BY <1>7 DEF Open, NotPersisted, durable, history
  <2>2. crashes > 0 /\ crashes # 0
    BY <2>1, ReplicaBounds DEF BytesInv, ReplicaInv, TypeOK
  <2>3. BytesVerified'
    BY <2>1, <2>2 DEF BytesInv, BytesVerified, Holds
  <2> QED
    BY <2>1, <2>2, <2>3 DEF BytesInv, Holds, Loaded
<1> QED
  BY <1>1, <1>2, <1>3, <1>4, <1>5, <1>6, <1>7 DEF Next, Storing

\* What get and block return is what the verified tree commits to, through failed puts, torn
\* persists and, without reorgs, any number of crashes (Replica::add_block, persist, open).
THEOREM BytesStayVerified == Spec => []BytesVerified
<1>1. Init => ReplicaInv /\ BytesInv
  BY ReplicaStart, EmptyPrefix DEF Init, BytesInv, BytesVerified
<1>2. ReplicaInv /\ BytesInv /\ [Next]_vars => (ReplicaInv /\ BytesInv)'
  BY ReplicaStep, BytesStep
<1>3. ReplicaInv /\ BytesInv => BytesVerified
  BY DEF BytesInv
<1> QED
  BY <1>1, <1>2, <1>3, PTL DEF Spec
=============================================================================
