------------------------ MODULE CanonicalWriteProofs ------------------------
(***************************************************************************)
(* The safety of the dual write for any number of consumers and chunks,    *)
(* files of any length, any batch size and any interleaving of             *)
(* transactions, rollbacks and redeliveries.                               *)
(*                                                                         *)
(* First the pure part: what _group_hot makes of a batch of any length, by *)
(* induction over the file.  The library's induction principles take the   *)
(* induction hypothesis as an operator; NatSetInduction and NatRecursion   *)
(* take it as a set and as a function.  Then the transactions: a row that  *)
(* a consumer has written is locked by it, so nobody else moves it         *)
(* (DirtyInv), and the locks it holds are below the keys it has still to   *)
(* merge (LockInv).                                                        *)
(***************************************************************************)
EXTENDS CanonicalWrite, WellFoundedInduction, FiniteSetTheorems, TLAPS

\* A set of naturals that is not empty has a least element, and Min is it.
LEMMA NatMin ==
    ASSUME NEW S, S \subseteq Nat, S # {}
    PROVE  Min(S) \in S /\ \A y \in S : Min(S) <= y
<1>1. PICK x \in S : \A y \in S : ~ (<<y, x>> \in OpToRel(<, Nat))
  BY WFMin, NatLessThanWellFounded, Zenon
<1>2. ASSUME NEW y \in S
      PROVE  x <= y
  <2>1. y < x => <<y, x>> \in OpToRel(<, Nat)
    BY Zenon DEF OpToRel
  <2>2. ~ (y < x)
    BY <1>1, <2>1, Zenon
  <2> QED
    BY <2>2
<1> QED
  BY <1>2 DEF Min

\* Induction over the naturals, for the set of those that have the property.
LEMMA NatSetInduction ==
    ASSUME NEW S, 0 \in S, \A n \in Nat : n \in S => n + 1 \in S
    PROVE  Nat \subseteq S
<1> SUFFICES ASSUME Nat \ S # {}
             PROVE  FALSE
  OBVIOUS
<1> DEFINE m == Min(Nat \ S)
<1>1. m \in Nat \ S /\ \A y \in Nat \ S : m <= y
  BY NatMin
<1> HIDE DEF m
<1>2. m - 1 \in Nat
  BY <1>1
<1>3. m - 1 \in S
  BY <1>1, <1>2
<1> QED
  BY <1>1, <1>2, <1>3

\* A finite set of naturals that is not empty has a greatest element.
LEMMA FiniteMax ==
    ASSUME NEW S, S \subseteq Nat, IsFiniteSet(S), S # {}
    PROVE  Max(S) \in S /\ \A y \in S : Max(S) >= y
<1> DEFINE Topped(T) == \E x \in T : \A y \in T : x >= y
           Good == {n \in Nat : \A T \in SUBSET Nat :
                        IsFiniteSet(T) /\ Cardinality(T) = n /\ T # {} => Topped(T)}
<1>1. 0 \in Good
  BY FS_EmptySet
<1>2. ASSUME NEW n \in Nat, n \in Good
      PROVE  n + 1 \in Good
  <2> SUFFICES ASSUME NEW T \in SUBSET Nat, IsFiniteSet(T), Cardinality(T) = n + 1, T # {}
               PROVE  Topped(T)
    OBVIOUS
  <2>1. PICK t \in T : TRUE
    OBVIOUS
  <2>2. IsFiniteSet(T \ {t}) /\ Cardinality(T \ {t}) = n
    <3>1. IsFiniteSet(T \ {t}) /\ Cardinality(T \ {t}) = Cardinality(T) - 1
      BY FS_RemoveElement, Zenon
    <3> QED
      BY <3>1
  <2>3. CASE T \ {t} = {}
    BY <2>3
  <2>4. CASE T \ {t} # {}
    <3>1. PICK u \in T \ {t} : \A y \in T \ {t} : u >= y
      BY <1>2, <2>2, <2>4
    <3>2. CASE u >= t
      BY <3>1, <3>2
    <3>3. CASE t >= u
      BY <3>1, <3>3
    <3> QED
      BY <3>2, <3>3
  <2> QED
    BY <2>3, <2>4
<1>3. Nat \subseteq Good
  <2> HIDE DEF Good
  <2> QED
    BY <1>1, <1>2, NatSetInduction
<1>4. Topped(S)
  BY <1>3, FS_CardinalityType
<1> QED
  BY <1>4 DEF Max

\* b and the step function st stay in X.
StepsIn(X, b, st) == b \in X /\ \A n \in Nat : \A x \in X : st[<<n, x>>] \in X

\* F starts at b and goes on by st.
Follows(F, X, b, st) ==
    /\ F \in [Nat -> X]
    /\ F[0] = b
    /\ \A n \in Nat : F[n + 1] = st[<<n, F[n]>>]

\* A function on the naturals may be defined from each value to the next.
LEMMA NatRecursion ==
    ASSUME NEW X, NEW b, NEW st, StepsIn(X, b, st)
    PROVE  \E F : Follows(F, X, b, st)
<1> USE DEF StepsIn
<1> DEFINE Upto(n, f) == /\ f \in [0 .. n -> X]
                         /\ f[0] = b
                         /\ \A i \in 0 .. n - 1 : f[i + 1] = st[<<i, f[i]>>]
           Good == {n \in Nat : \E f : Upto(n, f)}
<1>1. 0 \in Good
  <2>1. Upto(0, [i \in 0 .. 0 |-> b])
    OBVIOUS
  <2> QED
    BY <2>1
<1>2. ASSUME NEW n \in Nat, n \in Good
      PROVE  n + 1 \in Good
  <2>1. PICK f : Upto(n, f)
    BY <1>2
  <2> DEFINE g == [i \in 0 .. n + 1 |-> IF i <= n THEN f[i] ELSE st[<<n, f[n]>>]]
  <2>2. Upto(n + 1, g)
    <3>1. \A i \in 0 .. n : f[i] \in X
      BY <2>1
    <3>2. st[<<n, f[n]>>] \in X
      BY <3>1
    <3>3. g \in [0 .. n + 1 -> X]
      BY <3>1, <3>2
    <3>4. ASSUME NEW i \in 0 .. (n + 1) - 1
          PROVE  g[i + 1] = st[<<i, g[i]>>]
      <4>1. CASE i = n
        BY <4>1
      <4>2. CASE i \in 0 .. n - 1
        BY <2>1, <4>2
      <4> QED
        BY <4>1, <4>2
    <3>5. g[0] = b
      BY <2>1
    <3> QED
      BY <3>3, <3>4, <3>5
  <2> HIDE DEF Upto, g
  <2> QED
    BY <2>2
<1>3. Nat \subseteq Good
  <2> HIDE DEF Good
  <2> QED
    BY <1>1, <1>2, NatSetInduction
<1>4. ASSUME NEW m \in Nat, NEW f, NEW g, Upto(m, f), Upto(m + 1, g)
      PROVE  f[m] = g[m]
  <2> DEFINE Same == {i \in Nat : i <= m => f[i] = g[i]}
  <2>1. 0 \in Same
    BY <1>4
  <2>2. ASSUME NEW i \in Nat, i \in Same, i + 1 <= m
        PROVE  f[i + 1] = g[i + 1]
    <3>1. i \in 0 .. m - 1 /\ i \in 0 .. (m + 1) - 1 /\ f[i] = g[i]
      BY <2>2
    <3> QED
      BY <1>4, <3>1
  <2>3. Nat \subseteq Same
    <3>1. \A i \in Nat : i \in Same => i + 1 \in Same
      BY <2>2
    <3> HIDE DEF Same
    <3> QED
      BY <2>1, <3>1, NatSetInduction
  <2> QED
    BY <2>3
<1> DEFINE A == [n \in Nat |-> CHOOSE f : Upto(n, f)]
           F == [n \in Nat |-> A[n][n]]
<1>5. \A n \in Nat : Upto(n, A[n])
  BY <1>3
<1> HIDE DEF A
<1>6. F \in [Nat -> X] /\ F[0] = b
  BY <1>5
<1>7. ASSUME NEW n \in Nat
      PROVE  F[n + 1] = st[<<n, F[n]>>]
  <2>1. A[n][n] = A[n + 1][n]
    <3>1. Upto(n, A[n]) /\ Upto(n + 1, A[n + 1])
      BY <1>5
    <3> HIDE DEF Upto
    <3> QED
      BY <1>4, <3>1
  <2>2. A[n + 1][n + 1] = st[<<n, A[n + 1][n]>>]
    BY <1>5
  <2> QED
    BY <2>1, <2>2
<1>8. Follows(F, X, b, st)
  BY <1>6, <1>7 DEF Follows
<1> HIDE DEF F
<1> QED
  BY <1>8

----------------------------------------------------------------------------
(***************************************************************************)
(* The groups of a batch.                                                  *)
(***************************************************************************)

\* Row r is the contribution of the last row of batch n of chunk ch, by event time
\* and then file order, among those of key s.
ComesFrom(r, ch, n, s) ==
    \E k \in BatchRows(ch, n) :
        /\ Rows[ch][k].sku = s
        /\ r.by = <<ch, k>> /\ r.ts = Rows[ch][k].ts
        /\ \A i \in BatchRows(ch, n) :
              Rows[ch][i].sku = s =>
                  \/ Rows[ch][i].ts < Rows[ch][k].ts
                  \/ Rows[ch][i].ts = Rows[ch][k].ts /\ i <= k

\* A row of a chunk has its fields.
LEMMA RowType ==
    ASSUME NEW ch \in Chunks
    PROVE  /\ Len(Rows[ch]) \in Nat
           /\ DOMAIN Rows[ch] = 1 .. Len(Rows[ch])
           /\ \A i \in DOMAIN Rows[ch] :
                Rows[ch][i] \in [sku : Skus, ts : Nat, key : Nat,
                                 cols : [Columns -> Nat \cup {None}]]
<1> DEFINE R == [sku : Skus, ts : Nat, key : Nat, cols : [Columns -> Nat \cup {None}]]
<1>1. Rows[ch] \in Seq(R)
  BY ConstantsAssumption
<1> HIDE DEF R
<1>2. /\ Len(Rows[ch]) \in Nat
      /\ DOMAIN Rows[ch] = 1 .. Len(Rows[ch])
      /\ \A i \in DOMAIN Rows[ch] : Rows[ch][i] \in R
  BY <1>1
<1> QED
  BY <1>2 DEF R

\* A batch has rows of its chunk only, and a row is in the batch its place says.
LEMMA BatchRowsType ==
    ASSUME NEW ch \in Chunks, NEW n \in Nat, NEW k \in BatchRows(ch, n)
    PROVE  /\ k \in DOMAIN Rows[ch] /\ k \in Nat
           /\ (k - 1) \div BatchSize + 1 = n
<1>1. k \in DOMAIN Rows[ch] /\ (k - 1) \div BatchSize = n - 1
  BY DEF BatchRows
<1>2. k \in Nat
  BY <1>1, RowType
<1> QED
  BY <1>1, <1>2

\* The batches cover the file: the place of a row is a batch, and the last batch is
\* not before it.
LEMMA LastBatchCovers ==
    ASSUME NEW ch \in Chunks, NEW i \in DOMAIN Rows[ch]
    PROVE  /\ (i - 1) \div BatchSize \in Nat /\ LastBatch(ch) \in Nat
           /\ (i - 1) \div BatchSize + 1 <= LastBatch(ch)
<1> DEFINE B == BatchSize
           m == Len(Rows[ch])
<1>1. B \in Nat \ {0} /\ i - 1 \in Nat /\ m \in Nat /\ m - 1 \in Nat /\ i - 1 <= m - 1
  BY ConstantsAssumption, RowType
<1> HIDE DEF B, m
<1>2. (i - 1) \div B \in Nat
  BY <1>1
<1>3. (i - 1) \div B <= (m - 1) \div B
  BY <1>1
<1>4. ((m - 1) + B) \div B = (m - 1) \div B + 1 /\ (m - 1) \div B \in Nat
  BY <1>1
<1>5. (m + B - 1) \div B = (m - 1) \div B + 1
  <2>1. m + B - 1 = (m - 1) + B
    BY <1>1
  <2> QED
    BY <1>4, <2>1
<1> QED
  BY <1>2, <1>3, <1>4, <1>5 DEF LastBatch, B, m

\* The keys of a batch are natural keys.
LEMMA BatchSkusType ==
    ASSUME NEW ch \in Chunks, NEW n \in Nat
    PROVE  BatchSkus(ch, n) \subseteq Skus
BY RowType DEF BatchSkus, BatchRows

\* Joining a group keeps its type.
LEMMA JoinType ==
    ASSUME NEW ch \in Chunks, NEW i \in DOMAIN Rows[ch], NEW g \in HotRow
    PROVE  JoinGroup(ch, i, g) \in HotRow
<1> DEFINE r == Rows[ch][i]
<1>1. r.ts \in Nat /\ r.cols \in [Columns -> Nat \cup {None}] /\ i \in Nat
  BY RowType
<1>2. g.cols \in [Columns -> Nat \cup {None}]
  BY DEF HotRow
<1> HIDE DEF r
<1>3. /\ Over(r.cols, g.cols) \in [Columns -> Nat \cup {None}]
      /\ Over(g.cols, r.cols) \in [Columns -> Nat \cup {None}]
  BY <1>1, <1>2 DEF Over
<1>4. [by |-> <<ch, i>>, ts |-> r.ts, cols |-> Over(r.cols, g.cols)] \in HotRow
  BY <1>1, <1>3 DEF HotRow
<1>5. [g EXCEPT !.cols = Over(g.cols, r.cols)] \in HotRow
  BY <1>3 DEF HotRow
<1> QED
  BY <1>4, <1>5 DEF JoinGroup, r

\* _group_hot over a batch of any length: the group of a key of the batch is that
\* of the last of its rows.
LEMMA GroupIsLatest ==
    ASSUME NEW ch \in Chunks, NEW n \in Nat, NEW s \in BatchSkus(ch, n)
    PROVE  Group(ch, n, s) \in HotRow /\ ComesFrom(Group(ch, n, s), ch, n, s)
<1> DEFINE joins == {i \in BatchRows(ch, n) : Rows[ch][i].sku = s}
           Turn(k, g) == IF k \in joins THEN JoinGroup(ch, k, g) ELSE g
           Loop(f) == [k \in Nat |-> IF k = 0 THEN NoRow
                                     ELSE IF k \in joins THEN JoinGroup(ch, k, f[k - 1])
                                     ELSE f[k - 1]]
           upTo == CHOOSE f : f = Loop(f)
<1>1. joins \subseteq DOMAIN Rows[ch] /\ joins \subseteq Nat
  BY BatchRowsType
<1>2. NoRow \in HotRow
  BY DEF NoRow, HotRow
<1>3. \A k \in Nat : \A g \in HotRow : Turn(k, g) \in HotRow
  BY <1>1, JoinType
<1>4. upTo = Loop(upTo)
  <2> HIDE DEF Turn
  <2> DEFINE st == [p \in Nat \X HotRow |-> Turn(p[1] + 1, p[2])]
  <2>1. \A k \in Nat : \A g \in HotRow : st[<<k, g>>] = Turn(k + 1, g)
    OBVIOUS
  <2>2. \A k \in Nat : \A g \in HotRow : st[<<k, g>>] \in HotRow
    <3> HIDE DEF st
    <3>1. \A k \in Nat : k + 1 \in Nat
      OBVIOUS
    <3> QED
      BY <1>3, <2>1, <3>1
  <2> HIDE DEF st
  <2>3. PICK F : Follows(F, HotRow, NoRow, st)
    <3>1. StepsIn(HotRow, NoRow, st)
      BY <1>2, <2>2 DEF StepsIn
    <3> QED
      BY <3>1, NatRecursion
  <2>4. ASSUME NEW k \in Nat, k # 0
        PROVE  F[k] = Turn(k, F[k - 1])
    <3>1. k - 1 \in Nat /\ (k - 1) + 1 = k
      BY <2>4
    <3> QED
      BY <2>1, <2>3, <3>1 DEF Follows
  <2>5. F = Loop(F)
    BY <2>3, <2>4 DEF Turn, Follows
  <2> HIDE DEF Loop
  <2> QED
    BY <2>5
<1> HIDE DEF upTo
<1>5. upTo[0] = NoRow /\ \A k \in Nat : upTo[k + 1] = Turn(k + 1, upTo[k])
  BY <1>4
<1> DEFINE Latest(m, g) ==
             \E k \in joins : /\ k <= m
                              /\ g.by = <<ch, k>> /\ g.ts = Rows[ch][k].ts
                              /\ \A i \in joins : i <= m =>
                                    \/ Rows[ch][i].ts < Rows[ch][k].ts
                                    \/ Rows[ch][i].ts = Rows[ch][k].ts /\ i <= k
           None0(m, g) == g = NoRow /\ \A i \in joins : i > m
           Good == {m \in Nat : /\ upTo[m] \in HotRow
                                /\ None0(m, upTo[m]) \/ Latest(m, upTo[m])}
<1>6. 0 \in Good
  BY <1>1, <1>2, <1>5, RowType
<1>7. ASSUME NEW m \in Nat, m \in Good
      PROVE  m + 1 \in Good
  <2> DEFINE g == upTo[m]
             h == upTo[m + 1]
             t(i) == Rows[ch][i].ts
  <2>1. \A i \in joins : i \in Nat /\ t(i) \in Nat
    BY <1>1, RowType
  <2>2. /\ g \in HotRow /\ h \in HotRow
        /\ None0(m, g) \/ Latest(m, g)
    <3>1. g \in HotRow /\ (None0(m, g) \/ Latest(m, g))
      BY <1>7
    <3> HIDE DEF Turn
    <3> QED
      BY <1>3, <1>5, <3>1
  <2>3. CASE m + 1 \notin joins
    <3>1. h = g
      BY <1>5, <2>3
    <3> QED
      BY <1>7, <2>1, <2>2, <2>3, <3>1
  <2>4. CASE m + 1 \in joins
    <3>1. h = JoinGroup(ch, m + 1, g)
      BY <1>5, <2>4
    <3>2. CASE t(m + 1) >= g.ts
      <4>1. h.by = <<ch, m + 1>> /\ h.ts = t(m + 1)
        BY <3>1, <3>2 DEF JoinGroup
      <4>2. \A i \in joins : i <= m => t(i) <= g.ts
        BY <1>7, <2>1
      <4>3. \A i \in joins : i <= m + 1 => t(i) < t(m + 1) \/ (t(i) = t(m + 1) /\ i <= m + 1)
        BY <2>1, <2>2, <2>4, <3>2, <4>2 DEF HotRow
      <4> QED
        BY <2>2, <2>4, <4>1, <4>3
    <3>3. CASE ~(t(m + 1) >= g.ts)
      <4>1. h.by = g.by /\ h.ts = g.ts
        BY <2>2, <3>1, <3>3 DEF JoinGroup, HotRow
      <4>2. ~None0(m, g)
        BY <2>1, <2>4, <3>3 DEF NoRow
      <4>0. Latest(m, g)
        BY <2>2, <4>2
      <4>3. PICK k \in joins : /\ k <= m
                               /\ g.by = <<ch, k>> /\ g.ts = t(k)
                               /\ \A i \in joins : i <= m =>
                                     t(i) < t(k) \/ (t(i) = t(k) /\ i <= k)
        BY <4>0
      <4>4. ASSUME NEW i \in joins, i <= m + 1
            PROVE  t(i) < t(k) \/ (t(i) = t(k) /\ i <= k)
        <5>1. CASE i = m + 1
          <6>1. t(m + 1) \in Nat /\ t(k) \in Nat /\ g.ts = t(k)
            BY <2>1, <2>4, <4>3
          <6>2. t(m + 1) < t(k)
            BY <3>3, <6>1
          <6> QED
            BY <5>1, <6>2
        <5>2. CASE i <= m
          BY <4>3, <5>2
        <5> QED
          BY <2>1, <4>4, <5>1, <5>2
      <4>5. Latest(m + 1, h)
        BY <2>1, <4>1, <4>3, <4>4
      <4> QED
        BY <2>2, <4>5
    <3> QED
      BY <3>2, <3>3
  <2> QED
    BY <2>3, <2>4
<1>8. Nat \subseteq Good
  <2> HIDE DEF Good
  <2> QED
    BY <1>6, <1>7, NatSetInduction
<1> DEFINE last == Len(Rows[ch])
<1>9. last \in Nat /\ \A i \in joins : i <= last
  BY <1>1, RowType
<1>10. joins # {}
  BY DEF BatchSkus
<1>11. upTo[last] \in HotRow /\ Latest(last, upTo[last])
  BY <1>1, <1>8, <1>9, <1>10
<1>12. ComesFrom(upTo[last], ch, n, s)
  BY <1>9, <1>11 DEF ComesFrom
<1>13. Group(ch, n, s) = upTo[last]
  BY DEF Group, upTo
<1> QED
  BY <1>11, <1>12, <1>13

----------------------------------------------------------------------------
(***************************************************************************)
(* The inductive invariant.                                                *)
(***************************************************************************)

\* Inside a batch transaction that has begun its merges.
Merging(c) == pc[c] \in {"merge", "blocked", "exists"}

\* What a row of the chunk needs before the message may go.
RowKept(ch, i) ==
    /\ ch \in EventChunks => <<ch, i>> \in events
    /\ IsRow(hot[Rows[ch][i].sku])

\* The transaction of each consumer.
TxInv ==
    \A c \in Consumers :
        /\ pc[c] # "idle" => job[c] \in Chunks
        /\ ~Merging(c) => /\ todo[c] = {}
                          /\ dirty[c] = Clean /\ outcome[c] = NoOutcome
        /\ Merging(c) => todo[c] \subseteq BatchSkus(job[c], batch[c])
        /\ pc[c] \in {"blocked", "exists"} => todo[c] # {}

\* Locks are held by a transaction, below the keys it has still to merge.
LockInv ==
    \A c \in Consumers, s \in Skus :
        lock[s] = c => /\ Merging(c)
                       /\ \A u \in todo[c] : s < u \/ (s = u /\ pc[c] = "exists")

\* An uncommitted row is locked, not older than the committed one, and the group
\* of its batch.
DirtyInv ==
    \A c \in Consumers, s \in Skus :
        IsRow(dirty[c][s]) =>
            /\ lock[s] = c
            /\ IsRow(hot[s]) => dirty[c][s].ts >= hot[s].ts
            /\ ComesFrom(dirty[c][s], job[c], batch[c], s)

\* A merged key has its position, unless it is going to be reported missing.
OutcomeInv ==
    \A c \in Consumers : Merging(c) =>
        \A s \in BatchSkus(job[c], batch[c]) \ todo[c] :
            outcome[c][s] = "missing" \/ IsRow(View(c, s))

\* A position is the group of a committed batch.
HotInv ==
    \A s \in Skus : IsRow(hot[s]) =>
        \E ch \in Chunks, n \in Nat :
            /\ ComesFrom(hot[s], ch, n, s)
            /\ ch \in EventChunks => \A i \in BatchRows(ch, n) : <<ch, i>> \in events

\* The batches behind a consumer are written.
ProgressInv ==
    \A c \in Consumers : pc[c] # "idle" =>
        \A i \in DOMAIN Rows[job[c]] :
            pc[c] = "done" \/ (i - 1) \div BatchSize + 1 < batch[c] => RowKept(job[c], i)

\* The inductive invariant.
IInv ==
    /\ TypeOK
    /\ TxInv
    /\ LockInv
    /\ DirtyInv
    /\ OutcomeInv
    /\ HotInv
    /\ ProgressInv
    /\ AckedIsWritten

\* Initially there is no row, no lock and no transaction.
LEMMA InitIInv == Init => IInv
<1> SUFFICES ASSUME Init
             PROVE  IInv
  OBVIOUS
<1> USE DEF Init
<1>1. NoRow \in HotRow
  BY DEF NoRow, HotRow
<1>2. TypeOK
  BY <1>1 DEF TypeOK, Clean, NoOutcome, Outcomes
<1>3. TxInv /\ LockInv /\ OutcomeInv
  BY ConstantsAssumption DEF TxInv, LockInv, OutcomeInv, Merging
<1>4. DirtyInv /\ HotInv
  BY DEF DirtyInv, HotInv, Clean, IsRow
<1>5. ProgressInv /\ AckedIsWritten
  BY DEF ProgressInv, AckedIsWritten
<1> QED
  BY <1>2, <1>3, <1>4, <1>5 DEF IInv

\* The next key is the least one to do.
LEMMA NextSkuIsLeast ==
    ASSUME IInv, NEW c \in Consumers, todo[c] # {}
    PROVE  /\ NextSku(c) \in todo[c] /\ NextSku(c) \in Skus /\ NextSku(c) \in Nat
           /\ \A u \in todo[c] : NextSku(c) <= u
<1>1. todo[c] \subseteq Skus /\ Skus \subseteq Nat
  BY ConstantsAssumption DEF IInv, TypeOK
<1> QED
  BY <1>1, NatMin DEF NextSku

\* The broker brings a message again.
LEMMA RedeliverStep ==
    ASSUME IInv, NEW ch \in Chunks, Redeliver(ch)
    PROVE  IInv'
<1>1. UNCHANGED <<hot, events, lock, pc, job, batch, todo, dirty, outcome, hits, dups,
                  parked, merged>>
  BY DEF Redeliver, localVars, auditVars
<1>2. TypeOK'
  BY <1>1 DEF IInv, TypeOK, Redeliver
<1>3. TxInv' /\ LockInv' /\ DirtyInv' /\ OutcomeInv' /\ HotInv' /\ ProgressInv'
  BY <1>1 DEF IInv, TxInv, LockInv, DirtyInv, OutcomeInv, HotInv, ProgressInv, Merging,
              RowKept, View
<1>4. AckedIsWritten'
  BY <1>1 DEF IInv, TypeOK, AckedIsWritten, Redeliver
<1> QED
  BY <1>2, <1>3, <1>4 DEF IInv

\* A consumer takes a message.
LEMMA ReceiveStep ==
    ASSUME IInv, NEW c \in Consumers, NEW ch \in Chunks, Receive(c, ch)
    PROVE  IInv'
<1>1. UNCHANGED <<hot, events, lock, todo, dirty, outcome, hits, dups, parked, merged>>
  BY DEF Receive, auditVars
<1>2. /\ pc[c] = "idle" /\ pc'[c] = "begin" /\ job'[c] = ch /\ batch'[c] = 1
      /\ \A d \in Consumers : d # c =>
            pc'[d] = pc[d] /\ job'[d] = job[d] /\ batch'[d] = batch[d]
  BY DEF Receive, IInv, TypeOK
<1>3. TypeOK'
  BY <1>1 DEF IInv, TypeOK, Receive
<1>4. TxInv'
  BY <1>1, <1>2 DEF IInv, TxInv, Merging
<1>5. LockInv' /\ OutcomeInv'
  BY <1>1, <1>2 DEF IInv, LockInv, OutcomeInv, Merging, View
<1>6. \A s \in Skus : ~IsRow(dirty[c][s])
  BY <1>2 DEF IInv, TxInv, Merging, Clean, IsRow
<1>7. DirtyInv'
  BY <1>1, <1>2, <1>6 DEF IInv, DirtyInv, IsRow, ComesFrom
<1>8. HotInv'
  BY <1>1 DEF IInv, HotInv
<1>9. \A i \in DOMAIN Rows[ch] : ~((i - 1) \div BatchSize + 1 < 1)
  BY LastBatchCovers
<1>10. ProgressInv'
  BY <1>1, <1>2, <1>9 DEF IInv, ProgressInv, RowKept
<1>11. AckedIsWritten'
  BY <1>1 DEF IInv, TypeOK, AckedIsWritten, Receive
<1> QED
  BY <1>3, <1>4, <1>5, <1>7, <1>8, <1>10, <1>11 DEF IInv

\* Duplicate detection finds rows of the event tables.
LEMMA HitsType ==
    ASSUME IInv, NEW ch \in Chunks, NEW n \in Nat, NEW found, NEW prior \in [found -> events],
           found \subseteq {Rows[ch][i].key : i \in BatchRows(ch, n)}
    PROVE  HitsOf(ch, n, prior) \subseteq Hit
<1> DEFINE keys == {Rows[ch][i].key : i \in BatchRows(ch, n)}
           keyOf == [i \in BatchRows(ch, n) |-> Rows[ch][i].key]
<1>1. IsFiniteSet(BatchRows(ch, n))
  <2>1. Len(Rows[ch]) \in Nat /\ BatchRows(ch, n) \in SUBSET (1 .. Len(Rows[ch]))
    BY RowType DEF BatchRows
  <2>2. IsFiniteSet(1 .. Len(Rows[ch]))
    BY <2>1, FS_Interval
  <2> QED
    BY <2>1, <2>2, FS_Subset
<1>2. IsFiniteSet(keys)
  <2>1. keyOf \in Surjection(BatchRows(ch, n), keys)
    BY DEF Surjection
  <2> QED
    BY <1>1, <2>1, FS_Surjection
<1>3. found \in SUBSET keys
  OBVIOUS
<1>4. keys \subseteq Nat
  BY RowType DEF BatchRows
<1> HIDE DEF keys, keyOf
<1>5. IsFiniteSet(found) /\ found \subseteq Nat
  BY <1>2, <1>3, <1>4, FS_Subset
<1>6. ASSUME NEW k \in found
      PROVE  prior[Max(found)][1] \in Chunks
  <2>1. Max(found) \in found
    BY <1>5, <1>6, FiniteMax
  <2>2. prior[Max(found)] \in EventChunks \X Nat
    BY <2>1 DEF IInv, TypeOK
  <2> QED
    BY <2>2, ConstantsAssumption
<1>7. DOMAIN prior = found
  OBVIOUS
<1>8. \A i \in BatchRows(ch, n) : i \in Nat
  BY BatchRowsType
<1> QED
  BY <1>6, <1>7, <1>8 DEF HitsOf, Hit

\* The batch begins.
LEMMA BeginStep ==
    ASSUME IInv, NEW c \in Consumers, Begin(c)
    PROVE  IInv'
<1> DEFINE ch == job[c]
           n == batch[c]
<1>1. /\ UNCHANGED <<msg, hot, events, lock, job, batch, dirty, outcome, dups, parked, merged>>
      /\ pc[c] = "begin" /\ ch \in Chunks /\ n \in Nat
  BY DEF Begin, auditVars, IInv, TypeOK, TxInv
<1>2. /\ pc' = [pc EXCEPT ![c] = "merge"]
      /\ todo' = [todo EXCEPT ![c] = BatchSkus(ch, n)]
  BY DEF Begin
<1>3. /\ pc'[c] = "merge" /\ todo'[c] = BatchSkus(ch, n)
      /\ \A d \in Consumers : d # c => pc'[d] = pc[d] /\ todo'[d] = todo[d]
  BY <1>2 DEF IInv, TypeOK
<1>4. hits' \in [Consumers -> SUBSET Hit]
  <2>1. CASE UNCHANGED hits
    BY <2>1 DEF IInv, TypeOK
  <2>2. CASE ~UNCHANGED hits
    <3> DEFINE keys == {Rows[ch][i].key : i \in BatchRows(ch, n)}
               found == {k \in keys : LatestPrior(k) # {}}
    <3>1. PICK prior \in [found -> events] :
                 /\ found \subseteq keys
                 /\ hits' = [hits EXCEPT ![c] = @ \cup HitsOf(ch, n, prior)]
      BY <2>2 DEF Begin
    <3>2. HitsOf(ch, n, prior) \subseteq Hit
      BY <1>1, <3>1, HitsType
    <3> QED
      BY <3>1, <3>2 DEF IInv, TypeOK
  <2> QED
    BY <2>1, <2>2
<1>5. TypeOK'
  BY <1>1, <1>2, <1>4, BatchSkusType DEF IInv, TypeOK
<1>6. \A s \in Skus : lock[s] # c
  BY <1>1 DEF IInv, LockInv, Merging
<1>7. TxInv'
  BY <1>1, <1>3 DEF IInv, TxInv, Merging
<1>8. LockInv'
  BY <1>1, <1>3, <1>6 DEF IInv, LockInv, Merging
<1>9. DirtyInv' /\ HotInv'
  BY <1>1 DEF IInv, DirtyInv, HotInv
<1>10. OutcomeInv'
  BY <1>1, <1>3 DEF IInv, OutcomeInv, Merging, View
<1>11. ProgressInv' /\ AckedIsWritten'
  BY <1>1, <1>3 DEF IInv, ProgressInv, AckedIsWritten, RowKept
<1> QED
  BY <1>5, <1>7, <1>8, <1>9, <1>10, <1>11 DEF IInv

\* A transaction has not written a row before its turn.
LEMMA NextIsClean ==
    ASSUME IInv, NEW c \in Consumers, pc[c] \in {"merge", "blocked"}, todo[c] # {}
    PROVE  lock[NextSku(c)] # c /\ ~IsRow(dirty[c][NextSku(c)])
<1>1. NextSku(c) \in todo[c] /\ NextSku(c) \in Skus /\ NextSku(c) \in Nat
  BY NextSkuIsLeast
<1>2. lock[NextSku(c)] # c
  BY <1>1 DEF IInv, LockInv
<1> QED
  BY <1>1, <1>2 DEF IInv, DirtyInv

\* A step of one transaction that touches only its own rows, for one key that is
\* free, leaves the rest of the invariant alone.
LEMMA ApplyStep ==
    ASSUME IInv, NEW c \in Consumers, pc[c] \in {"merge", "blocked"}, todo[c] # {},
           NEW s, s = NextSku(c), lock[s] \in {None, c},
           Apply(c, s, Group(job[c], batch[c], s)),
           UNCHANGED <<msg, hot, events, job, batch, hits, auditVars>>
    PROVE  IInv'
<1> DEFINE g == Group(job[c], batch[c], s)
<1>1. /\ s \in todo[c] /\ s \in Skus /\ s \in Nat /\ \A u \in todo[c] : s <= u
      /\ ~IsRow(dirty[c][s]) /\ lock[s] = None
  BY NextSkuIsLeast, NextIsClean
<1>2. job[c] \in Chunks /\ batch[c] \in Nat /\ s \in BatchSkus(job[c], batch[c])
  BY <1>1 DEF IInv, TypeOK, TxInv, Merging
<1>3. g \in HotRow /\ ComesFrom(g, job[c], batch[c], s)
  BY <1>2, GroupIsLatest
<1>4. View(c, s) = hot[s]
  BY <1>1 DEF View
<1> DEFINE m == Merged(g, hot[s])
<1>5. m \in HotRow /\ m.by = g.by /\ m.ts = g.ts
  <2>1. hot[s].cols \in [Columns -> Nat \cup {None}] /\ g.cols \in [Columns -> Nat \cup {None}]
    BY <1>1, <1>3 DEF IInv, TypeOK, HotRow
  <2>2. Over(g.cols, hot[s].cols) \in [Columns -> Nat \cup {None}]
    BY <2>1 DEF Over
  <2> QED
    BY <1>3, <2>2 DEF Merged, HotRow
<1>6. IsRow(m) /\ ComesFrom(m, job[c], batch[c], s)
  <2>1. ComesFrom(m, job[c], batch[c], s)
    BY <1>3, <1>5 DEF ComesFrom
  <2>2. m.by[1] \in Chunks
    BY <1>2, <2>1 DEF ComesFrom
  <2> QED
    BY <2>1, <2>2, ConstantsAssumption DEF IsRow, NoRow
<1> HIDE DEF g, m
<1>7. lock' = [lock EXCEPT ![s] = c]
  BY DEF Apply
<1>8. \/ /\ dirty' = [dirty EXCEPT ![c][s] = m]
         /\ IsRow(hot[s]) => m.ts >= hot[s].ts
         /\ Finish(c, s, "written")
      \/ /\ UNCHANGED dirty /\ IsRow(hot[s])
         /\ Finish(c, s, "written")
      \/ /\ UNCHANGED <<dirty, todo, outcome>>
         /\ pc' = [pc EXCEPT ![c] = "exists"]
  BY <1>4, <1>5 DEF Apply, EventTimeWins, g, m
<1>9. UNCHANGED <<msg, hot, events, job, batch, hits, dups, parked, merged>>
  BY DEF auditVars
<1>10. TypeOK'
  <2>1. lock' \in [Skus -> Consumers \cup {None}]
    BY <1>1, <1>7 DEF IInv, TypeOK
  <2>2. dirty' \in [Consumers -> [Skus -> HotRow]]
    <3>1. dirty \in [Consumers -> [Skus -> HotRow]]
      BY DEF IInv, TypeOK
    <3>2. [dirty EXCEPT ![c][s] = m] \in [Consumers -> [Skus -> HotRow]]
      BY <1>1, <1>5, <3>1
    <3> QED
      BY <1>8, <3>1, <3>2
  <2>3. outcome' \in [Consumers -> [Skus -> Outcomes]]
    <3>1. outcome \in [Consumers -> [Skus -> Outcomes]]
      BY DEF IInv, TypeOK
    <3>2. [outcome EXCEPT ![c][s] = "written"] \in [Consumers -> [Skus -> Outcomes]]
      BY <1>1, <3>1 DEF Outcomes
    <3> QED
      BY <1>8, <3>1, <3>2 DEF Finish
  <2>4. todo' \in [Consumers -> SUBSET Skus]
    BY <1>8 DEF IInv, TypeOK, Finish
  <2>5. pc' \in [Consumers -> {"idle", "begin", "merge", "blocked", "exists", "done"}]
    BY <1>8 DEF IInv, TypeOK, Finish
  <2> QED
    BY <1>9, <2>1, <2>2, <2>3, <2>4, <2>5 DEF IInv, TypeOK
<1>11. /\ \A d \in Consumers : d # c => /\ pc'[d] = pc[d] /\ todo'[d] = todo[d]
                                        /\ dirty'[d] = dirty[d] /\ outcome'[d] = outcome[d]
       /\ \/ pc'[c] = "merge" /\ todo'[c] = todo[c] \ {s}
          \/ pc'[c] = "exists" /\ todo'[c] = todo[c]
       /\ \A u \in Skus : u # s => /\ dirty'[c][u] = dirty[c][u]
                                   /\ outcome'[c][u] = outcome[c][u]
                                   /\ lock'[u] = lock[u]
       /\ lock'[s] = c
       /\ \/ dirty'[c][s] = m /\ (IsRow(hot[s]) => m.ts >= hot[s].ts)
          \/ dirty'[c][s] = dirty[c][s] /\ (s \notin todo'[c] => IsRow(hot[s]))
  BY <1>1, <1>7, <1>8 DEF IInv, TypeOK, Finish
<1>12. TxInv'
  BY <1>1, <1>9, <1>11 DEF IInv, TxInv, Merging
<1>13. LockInv'
  <2>0. todo[c] \subseteq Nat
    BY ConstantsAssumption DEF IInv, TypeOK
  <2>1. \A u \in todo'[c] : u \in Nat /\ (s < u \/ (s = u /\ pc'[c] = "exists"))
    BY <1>1, <1>11, <2>0
  <2>2. \A u \in Skus : u # s /\ lock[u] = c => \A v \in todo'[c] : u < v
    BY <1>1, <1>11, ConstantsAssumption DEF IInv, LockInv
  <2>3. ASSUME NEW d \in Consumers, NEW u \in Skus, lock'[u] = d, d # c
        PROVE  Merging(d)' /\ \A v \in todo'[d] : u < v \/ (u = v /\ pc'[d] = "exists")
    <3>1. lock[u] = d
      BY <1>1, <1>11, <2>3
    <3> QED
      BY <1>11, <2>3, <3>1 DEF IInv, LockInv, Merging
  <2>4. ASSUME NEW u \in Skus, lock'[u] = c
        PROVE  Merging(c)' /\ \A v \in todo'[c] : u < v \/ (u = v /\ pc'[c] = "exists")
    <3>1. Merging(c)'
      BY <1>11 DEF Merging
    <3>2. u # s => lock[u] = c
      BY <1>11, <2>4
    <3> QED
      BY <2>1, <2>2, <3>1, <3>2
  <2> QED
    BY <2>3, <2>4 DEF LockInv
<1>14. DirtyInv'
  <2>1. \A u \in Skus : IsRow(dirty[c][u]) => u # s /\ lock'[u] = c
    BY <1>1, <1>11 DEF IInv, DirtyInv
  <2>2. \A d \in Consumers, u \in Skus : d # c /\ IsRow(dirty[d][u]) => lock'[u] = d
    BY <1>1, <1>11, ConstantsAssumption DEF IInv, DirtyInv
  <2> QED
    BY <1>1, <1>6, <1>9, <1>11, <2>1, <2>2 DEF IInv, DirtyInv
<1>15. OutcomeInv'
  <2>1. \A u \in Skus : u # s => View(c, u)' = View(c, u)
    BY <1>9, <1>11 DEF View
  <2>2. s \notin todo'[c] => IsRow(View(c, s))'
    <3>1. CASE dirty'[c][s] = m
      BY <1>6, <3>1 DEF View, IsRow
    <3>2. CASE dirty'[c][s] = dirty[c][s] /\ (s \notin todo'[c] => IsRow(hot[s]))
      BY <1>1, <1>9, <3>2 DEF View, IsRow
    <3> QED
      BY <1>11, <3>1, <3>2
  <2>3. \A d \in Consumers : d # c => \A u \in Skus : View(d, u)' = View(d, u)
    BY <1>9, <1>11 DEF View
  <2>4. ASSUME NEW d \in Consumers, Merging(d)', d # c
        PROVE  \A u \in BatchSkus(job[d], batch[d]) \ todo'[d] :
                  outcome'[d][u] = "missing" \/ IsRow(View(d, u))'
    <3>1. BatchSkus(job[d], batch[d]) \subseteq Skus
      BY <1>11, <2>4, BatchSkusType DEF IInv, TypeOK, TxInv, Merging
    <3> QED
      BY <1>11, <2>3, <2>4, <3>1 DEF IInv, OutcomeInv, Merging, IsRow
  <2>5. \A u \in BatchSkus(job[c], batch[c]) \ todo'[c] :
            outcome'[c][u] = "missing" \/ IsRow(View(c, u))'
    <3>1. BatchSkus(job[c], batch[c]) \subseteq Skus
      BY <1>2, BatchSkusType
    <3>2. ASSUME NEW u \in BatchSkus(job[c], batch[c]) \ todo'[c], u # s
          PROVE  outcome'[c][u] = "missing" \/ IsRow(View(c, u))'
      <4>1. u \notin todo[c] /\ outcome'[c][u] = outcome[c][u]
        BY <1>11, <3>1, <3>2
      <4>2. outcome[c][u] = "missing" \/ IsRow(View(c, u))
        BY <4>1 DEF IInv, OutcomeInv, Merging
      <4> QED
        BY <2>1, <3>1, <3>2, <4>1, <4>2 DEF IsRow
    <3> QED
      BY <2>2, <3>2
  <2> QED
    BY <1>9, <2>4, <2>5 DEF OutcomeInv, BatchSkus, BatchRows
<1>16. HotInv' /\ AckedIsWritten'
  BY <1>9 DEF IInv, HotInv, AckedIsWritten
<1>17. ProgressInv'
  BY <1>9, <1>11 DEF IInv, ProgressInv, RowKept
<1> QED
  BY <1>10, <1>12, <1>13, <1>14, <1>15, <1>16, <1>17 DEF IInv

\* The statement waits for a lock, or goes on to the existence check.
LEMMA WaitStep ==
    ASSUME IInv, NEW c \in Consumers, pc[c] = "merge", todo[c] # {},
           NEW p \in {"blocked", "exists"}, pc' = [pc EXCEPT ![c] = p],
           UNCHANGED <<msg, hot, events, lock, job, batch, todo, dirty, outcome, hits, auditVars>>
    PROVE  IInv'
<1>1. UNCHANGED <<msg, hot, events, lock, job, batch, todo, dirty, outcome, hits, dups,
                  parked, merged>>
  BY DEF auditVars
<1>2. pc'[c] = p /\ \A d \in Consumers : d # c => pc'[d] = pc[d]
  BY DEF IInv, TypeOK
<1>3. TypeOK'
  BY <1>1 DEF IInv, TypeOK
<1>4. TxInv' /\ LockInv'
  BY <1>1, <1>2 DEF IInv, TxInv, LockInv, Merging
<1>5. DirtyInv' /\ HotInv' /\ AckedIsWritten'
  BY <1>1 DEF IInv, DirtyInv, HotInv, AckedIsWritten
<1>6. OutcomeInv' /\ ProgressInv'
  BY <1>1, <1>2 DEF IInv, OutcomeInv, ProgressInv, Merging, View, RowKept
<1> QED
  BY <1>3, <1>4, <1>5, <1>6 DEF IInv

\* One hot merge.
LEMMA UpsertStep ==
    ASSUME IInv, NEW c \in Consumers, UpsertHot(c) \/ LockGranted(c)
    PROVE  IInv'
<1>1. PICK s : s = NextSku(c)
  OBVIOUS
<1> DEFINE g == Group(job[c], batch[c], s)
<1>2. /\ pc[c] \in {"merge", "blocked"} /\ todo[c] # {}
      /\ UNCHANGED <<msg, hot, events, job, batch, hits, auditVars>>
  BY DEF UpsertHot, LockGranted, IInv, TxInv
<1>3. CASE lock[s] \in {None, c} /\ Apply(c, s, g)
  BY <1>1, <1>2, <1>3, ApplyStep
<1>4. CASE /\ pc[c] = "merge" /\ UNCHANGED <<lock, todo, dirty, outcome>>
           /\ \E p \in {"blocked", "exists"} : pc' = [pc EXCEPT ![c] = p]
  BY <1>2, <1>4, WaitStep
<1> QED
  BY <1>1, <1>3, <1>4 DEF UpsertHot, LockGranted

\* The answer of the existence check.
LEMMA ExistsStep ==
    ASSUME IInv, NEW c \in Consumers, ExistenceCheck(c)
    PROVE  IInv'
<1>1. PICK s : s = NextSku(c)
  OBVIOUS
<1>2. /\ pc[c] = "exists" /\ todo[c] # {}
      /\ UNCHANGED <<msg, hot, events, lock, job, batch, dirty, hits, dups, parked, merged>>
  BY DEF ExistenceCheck, auditVars, IInv, TxInv
<1>3. /\ s \in todo[c] /\ s \in Skus /\ s \in Nat /\ \A u \in todo[c] : s <= u
  BY <1>1, <1>2, NextSkuIsLeast
<1>4. PICK result \in {"noop_older", "missing"} :
          Finish(c, s, result) /\ (result = "missing" \/ IsRow(View(c, s)))
  BY <1>1 DEF ExistenceCheck
<1>5. TypeOK'
  <2>1. outcome' \in [Consumers -> [Skus -> Outcomes]]
    <3>1. outcome \in [Consumers -> [Skus -> Outcomes]] /\ result \in Outcomes
      BY DEF IInv, TypeOK, Outcomes
    <3>2. [outcome EXCEPT ![c][s] = result] \in [Consumers -> [Skus -> Outcomes]]
      BY <1>3, <3>1
    <3> QED
      BY <1>4, <3>2 DEF Finish
  <2>2. /\ todo' \in [Consumers -> SUBSET Skus]
        /\ pc' \in [Consumers -> {"idle", "begin", "merge", "blocked", "exists", "done"}]
    BY <1>4 DEF IInv, TypeOK, Finish
  <2> QED
    BY <1>2, <2>1, <2>2 DEF IInv, TypeOK
<1>6. /\ pc'[c] = "merge" /\ todo'[c] = todo[c] \ {s} /\ outcome'[c][s] = result
      /\ \A u \in Skus : u # s => outcome'[c][u] = outcome[c][u]
      /\ \A d \in Consumers : d # c => /\ pc'[d] = pc[d] /\ todo'[d] = todo[d]
                                       /\ outcome'[d] = outcome[d]
  BY <1>3, <1>4 DEF IInv, TypeOK, Finish
<1>7. TxInv'
  BY <1>2, <1>6 DEF IInv, TxInv, Merging
<1>8. LockInv'
  <2>1. ASSUME NEW u \in Skus, lock[u] = c, NEW v \in todo[c] \ {s}
        PROVE  u < v
    <3>1. u \in Nat /\ v \in Nat
      BY ConstantsAssumption DEF IInv, TypeOK
    <3>2. (u < v \/ u = v) /\ (u < s \/ u = s) /\ s <= v
      BY <1>3, <2>1 DEF IInv, LockInv
    <3> QED
      BY <1>3, <3>1, <3>2
  <2> QED
    BY <1>2, <1>6, <2>1 DEF IInv, LockInv, Merging
<1>9. DirtyInv' /\ HotInv' /\ AckedIsWritten'
  BY <1>2 DEF IInv, DirtyInv, HotInv, AckedIsWritten
<1>10. OutcomeInv'
  <2>1. \A d, u : View(d, u)' = View(d, u)
    BY <1>2 DEF View
  <2>2. ASSUME NEW d \in Consumers, Merging(d)',
               NEW u \in BatchSkus(job[d], batch[d]) \ todo'[d]
        PROVE  outcome'[d][u] = "missing" \/ IsRow(View(d, u))'
    <3>1. BatchSkus(job[d], batch[d]) \subseteq Skus
      BY <1>2, <1>6, <2>2, BatchSkusType DEF IInv, TypeOK, TxInv, Merging
    <3>2. CASE d = c /\ u = s
      BY <1>4, <1>6, <2>1, <3>2 DEF IsRow
    <3>3. CASE ~(d = c /\ u = s)
      <4>1. Merging(d) /\ u \notin todo[d] /\ outcome'[d][u] = outcome[d][u]
        BY <1>2, <1>6, <2>2, <3>1, <3>3 DEF Merging
      <4> QED
        BY <2>1, <4>1 DEF IInv, OutcomeInv, IsRow
    <3> QED
      BY <3>2, <3>3
  <2> QED
    BY <1>2, <2>2 DEF OutcomeInv, BatchSkus, BatchRows
<1>11. ProgressInv'
  BY <1>2, <1>6 DEF IInv, ProgressInv, RowKept
<1> QED
  BY <1>5, <1>7, <1>8, <1>9, <1>10, <1>11 DEF IInv

\* The consumer that stops is idle, the others go on.
LEMMA RestFacts ==
    ASSUME IInv, NEW c \in Consumers, Rest(c)
    PROVE  /\ pc' \in [Consumers -> {"idle", "begin", "merge", "blocked", "exists", "done"}]
           /\ job' \in [Consumers -> Chunks \cup {None}]
           /\ batch' \in [Consumers -> Nat]
           /\ hits' \in [Consumers -> SUBSET Hit]
           /\ pc'[c] = "idle"
           /\ \A d \in Consumers : d # c =>
                 pc'[d] = pc[d] /\ job'[d] = job[d] /\ batch'[d] = batch[d]
BY DEF Rest, IInv, TypeOK

\* A nack acknowledges nothing.
LEMMA NackFacts ==
    ASSUME IInv, NEW ch \in Chunks, Nack(ch)
    PROVE  /\ msg' \in [Chunks -> {"ready", "leased", "acked"}]
           /\ \A k \in Chunks : msg'[k] = "acked" => msg[k] = "acked"
BY DEF Nack, IInv, TypeOK

\* The locks of the others stay.
LEMMA ReleaseFacts ==
    ASSUME IInv, NEW c \in Consumers, Release(c)
    PROVE  /\ lock' \in [Skus -> Consumers \cup {None}]
           /\ \A s \in Skus : /\ lock'[s] # c
                              /\ \A d \in Consumers : d # c => (lock'[s] = d <=> lock[s] = d)
BY ConstantsAssumption DEF Release, IInv, TypeOK

\* The message is acknowledged: every batch is behind the consumer.
LEMMA AcknowledgeStep ==
    ASSUME IInv, NEW c \in Consumers, Acknowledge(c)
    PROVE  IInv'
<1>1. /\ pc[c] = "done" /\ job[c] \in Chunks
      /\ UNCHANGED <<hot, events, lock, todo, dirty, outcome, dups, parked, merged>>
      /\ Rest(c)
  BY DEF Acknowledge, auditVars, IInv, TxInv
<1>2. msg' \in [Chunks -> {"ready", "leased", "acked"}]
  BY <1>1 DEF Acknowledge, IInv, TypeOK
<1>3. TypeOK'
  BY <1>1, <1>2, RestFacts DEF IInv, TypeOK
<1>4. /\ pc'[c] = "idle"
      /\ \A d \in Consumers : d # c =>
            pc'[d] = pc[d] /\ job'[d] = job[d] /\ batch'[d] = batch[d]
  BY <1>1, RestFacts
<1>5. TxInv' /\ LockInv'
  BY <1>1, <1>4 DEF IInv, TxInv, LockInv, Merging
<1>6. \A s \in Skus : ~IsRow(dirty[c][s])
  BY <1>1 DEF IInv, TxInv, Merging, Clean, IsRow
<1>7. DirtyInv'
  BY <1>1, <1>4, <1>6 DEF IInv, DirtyInv, IsRow
<1>8. OutcomeInv' /\ HotInv' /\ ProgressInv'
  BY <1>1, <1>4 DEF IInv, OutcomeInv, HotInv, ProgressInv, Merging, View, RowKept
<1>9. \A i \in DOMAIN Rows[job[c]] : RowKept(job[c], i)
  BY <1>1 DEF IInv, ProgressInv
<1>10. AckedIsWritten'
  <2>1. \A ch \in Chunks : msg'[ch] = "acked" => msg[ch] = "acked" \/ ch = job[c]
    BY DEF Acknowledge, IInv, TypeOK
  <2> QED
    BY <1>1, <1>9, <2>1 DEF IInv, AckedIsWritten, RowKept
<1> QED
  BY <1>3, <1>5, <1>7, <1>8, <1>10 DEF IInv

\* The batch is rolled back.
LEMMA FailStep ==
    ASSUME IInv, NEW c \in Consumers, Fail(c)
    PROVE  IInv'
<1>1. /\ job[c] \in Chunks /\ Release(c) /\ Nack(job[c]) /\ Rest(c)
      /\ UNCHANGED <<hot, events, dups, parked, merged>>
      /\ dirty' = [dirty EXCEPT ![c] = Clean]
      /\ outcome' = [outcome EXCEPT ![c] = NoOutcome]
      /\ todo' = [todo EXCEPT ![c] = {}]
  BY DEF Fail, auditVars, IInv, TxInv
<1>2. Clean \in [Skus -> HotRow] /\ NoOutcome \in [Skus -> Outcomes]
  BY DEF Clean, NoOutcome, NoRow, HotRow, Outcomes
<1>3. TypeOK'
  BY <1>1, <1>2, RestFacts, NackFacts, ReleaseFacts DEF IInv, TypeOK
<1>4. /\ pc'[c] = "idle" /\ dirty'[c] = Clean /\ outcome'[c] = NoOutcome /\ todo'[c] = {}
      /\ \A d \in Consumers : d # c =>
            /\ pc'[d] = pc[d] /\ job'[d] = job[d] /\ batch'[d] = batch[d]
            /\ dirty'[d] = dirty[d] /\ outcome'[d] = outcome[d] /\ todo'[d] = todo[d]
  BY <1>1, RestFacts DEF IInv, TypeOK
<1>5. TxInv' /\ LockInv'
  BY <1>1, <1>4, ReleaseFacts DEF IInv, TxInv, LockInv, Merging
<1>6. DirtyInv'
  <2>1. \A s \in Skus : ~IsRow(dirty'[c][s])
    BY <1>4 DEF Clean, IsRow
  <2>2. \A d \in Consumers, s \in Skus : d # c /\ lock[s] = d => lock'[s] = d
    BY <1>1, ReleaseFacts
  <2> QED
    BY <1>1, <1>4, <2>1, <2>2 DEF IInv, DirtyInv, IsRow
<1>7. OutcomeInv' /\ HotInv' /\ ProgressInv'
  BY <1>1, <1>4 DEF IInv, OutcomeInv, HotInv, ProgressInv, Merging, View, RowKept
<1>8. AckedIsWritten'
  BY <1>1, NackFacts DEF IInv, AckedIsWritten
<1> QED
  BY <1>3, <1>5, <1>6, <1>7, <1>8 DEF IInv

\* A commit moves no position back: what it overwrites it has locked.
LEMMA CommitGrows ==
    ASSUME IInv, NEW c \in Consumers, Commit(c)
    PROVE  /\ \A s \in Skus : IsRow(hot[s]) => IsRow(hot'[s]) /\ hot'[s].ts >= hot[s].ts
           /\ \A s \in Skus : IsRow(dirty[c][s]) => hot'[s] = dirty[c][s]
           /\ \A s \in Skus : ~IsRow(dirty[c][s]) => hot'[s] = hot[s]
           /\ events \subseteq events'
<1>1. \A s \in Skus : hot'[s] = IF IsRow(dirty[c][s]) THEN dirty[c][s] ELSE hot[s]
  BY DEF Commit, View
<1>2. \A s \in Skus : hot[s].ts \in Nat
  BY DEF IInv, TypeOK, HotRow
<1>3. events \subseteq events'
  BY DEF Commit
<1> QED
  BY <1>1, <1>2, <1>3 DEF IInv, DirtyInv

\* The transaction commits.
LEMMA CommitStep ==
    ASSUME IInv, NEW c \in Consumers, Commit(c), NEW ch, ch = job[c], NEW n, n = batch[c]
    PROVE  IInv'
<1>1. /\ pc[c] = "merge" /\ todo[c] = {} /\ UNCHANGED todo
      /\ ch \in Chunks /\ n \in Nat /\ Release(c)
      /\ dirty' = [dirty EXCEPT ![c] = Clean]
      /\ outcome' = [outcome EXCEPT ![c] = NoOutcome]
      /\ events' = IF ch \in EventChunks THEN events \cup Inserted(c) ELSE events
  BY DEF Commit, IInv, TypeOK, TxInv
<1>2. \/ Nack(ch) /\ Rest(c)
      \/ /\ ~HasMisses(c) /\ UNCHANGED <<msg, job, hits>>
         /\ pc' = [pc EXCEPT ![c] = "begin"] /\ batch' = [batch EXCEPT ![c] = @ + 1]
      \/ /\ ~HasMisses(c) /\ UNCHANGED <<msg, job, batch, hits>>
         /\ pc' = [pc EXCEPT ![c] = "done"] /\ n >= LastBatch(ch)
  BY DEF Commit
<1>3. Clean \in [Skus -> HotRow] /\ NoOutcome \in [Skus -> Outcomes]
  BY DEF Clean, NoOutcome, NoRow, HotRow, Outcomes
<1>4. TypeOK'
  <2>1. /\ msg' \in [Chunks -> {"ready", "leased", "acked"}]
        /\ pc' \in [Consumers -> {"idle", "begin", "merge", "blocked", "exists", "done"}]
        /\ job' \in [Consumers -> Chunks \cup {None}]
        /\ batch' \in [Consumers -> Nat]
        /\ hits' \in [Consumers -> SUBSET Hit]
    <3>1. CASE Nack(ch) /\ Rest(c)
      BY <1>1, <3>1, RestFacts, NackFacts
    <3>2. CASE UNCHANGED <<msg, job, hits>> /\ pc' = [pc EXCEPT ![c] = "begin"]
               /\ batch' = [batch EXCEPT ![c] = @ + 1]
      BY <1>1, <3>2 DEF IInv, TypeOK
    <3>3. CASE UNCHANGED <<msg, job, batch, hits>> /\ pc' = [pc EXCEPT ![c] = "done"]
      BY <1>1, <3>3 DEF IInv, TypeOK
    <3> QED
      BY <1>2, <3>1, <3>2, <3>3
  <2>2. hot' \in [Skus -> HotRow]
    BY DEF Commit, View, IInv, TypeOK
  <2>3. events' \subseteq (EventChunks \X Nat)
    BY <1>1, BatchRowsType DEF Inserted, IInv, TypeOK
  <2>4. /\ dirty' \in [Consumers -> [Skus -> HotRow]]
        /\ outcome' \in [Consumers -> [Skus -> Outcomes]]
    BY <1>1, <1>3 DEF IInv, TypeOK
  <2>5. dups' \subseteq Hit
    BY DEF Commit, IInv, TypeOK
  <2>6. parked' \subseteq Chunks \X Skus /\ merged' \subseteq Chunks \X Skus
    BY <1>1 DEF Commit, With, IInv, TypeOK
  <2> QED
    BY <1>1, <2>1, <2>2, <2>3, <2>4, <2>5, <2>6, ReleaseFacts DEF IInv, TypeOK
<1>5. /\ pc'[c] \in {"idle", "begin", "done"}
      /\ pc'[c] # "idle" => job'[c] = ch /\ ~HasMisses(c)
      /\ pc'[c] = "begin" => batch'[c] = n + 1
      /\ pc'[c] = "done" => n >= LastBatch(ch)
      /\ dirty'[c] = Clean /\ outcome'[c] = NoOutcome
      /\ \A d \in Consumers : d # c =>
            /\ pc'[d] = pc[d] /\ job'[d] = job[d] /\ batch'[d] = batch[d]
            /\ dirty'[d] = dirty[d] /\ outcome'[d] = outcome[d]
  <2>1. CASE Nack(ch) /\ Rest(c)
    BY <1>1, <2>1, RestFacts DEF IInv, TypeOK
  <2>2. CASE ~(Nack(ch) /\ Rest(c))
    BY <1>1, <1>2, <2>2 DEF IInv, TypeOK
  <2> QED
    BY <2>1, <2>2
<1>6. TxInv'
  BY <1>1, <1>5 DEF IInv, TxInv, Merging
<1>7. \A s \in Skus : /\ lock'[s] # c
                      /\ \A d \in Consumers : d # c => (lock'[s] = d <=> lock[s] = d)
  BY <1>1, ReleaseFacts
<1>8. LockInv'
  BY <1>1, <1>5, <1>7 DEF IInv, LockInv, Merging
<1>9. DirtyInv'
  <2>1. \A s \in Skus : ~IsRow(dirty'[c][s])
    BY <1>5 DEF Clean, IsRow
  <2>2. ASSUME NEW d \in Consumers, d # c, NEW s \in Skus, IsRow(dirty[d][s])
        PROVE  lock[s] = d /\ lock'[s] = d /\ hot'[s] = hot[s]
    BY <1>7, <2>2, CommitGrows DEF IInv, DirtyInv
  <2> QED
    BY <1>5, <2>1, <2>2 DEF IInv, DirtyInv, IsRow
<1>10. OutcomeInv'
  <2>1. ASSUME NEW d \in Consumers, d # c, NEW s \in Skus, IsRow(View(d, s))
        PROVE  IsRow(View(d, s))'
    BY <1>5, <2>1, CommitGrows DEF View, IsRow
  <2>2. ASSUME NEW d \in Consumers, Merging(d)'
        PROVE  /\ d # c /\ Merging(d) /\ todo'[d] = todo[d] /\ outcome'[d] = outcome[d]
               /\ job'[d] = job[d] /\ batch'[d] = batch[d]
               /\ BatchSkus(job[d], batch[d]) \subseteq Skus
    <3>1. d # c /\ Merging(d) /\ todo'[d] = todo[d] /\ outcome'[d] = outcome[d]
          /\ job'[d] = job[d] /\ batch'[d] = batch[d]
      BY <1>1, <1>5, <2>2 DEF Merging
    <3>2. job[d] \in Chunks /\ batch[d] \in Nat
      BY <3>1 DEF IInv, TypeOK, TxInv, Merging
    <3> QED
      BY <3>1, <3>2, BatchSkusType
  <2>3. ASSUME NEW d \in Consumers, Merging(d)',
               NEW s \in BatchSkus(job'[d], batch'[d]) \ todo'[d]
        PROVE  outcome'[d][s] = "missing" \/ IsRow(View(d, s))'
    <3>1. s \in Skus /\ s \in BatchSkus(job[d], batch[d]) \ todo[d] /\ d # c /\ Merging(d)
      BY <2>2, <2>3
    <3>2. outcome[d][s] = "missing" \/ IsRow(View(d, s))
      BY <3>1 DEF IInv, OutcomeInv
    <3> QED
      BY <2>1, <2>2, <2>3, <3>1, <3>2
  <2> QED
    BY <2>3 DEF OutcomeInv
<1>11. ch \in EventChunks => \A i \in BatchRows(ch, n) : <<ch, i>> \in events'
  BY <1>1 DEF Inserted
<1>12. HotInv'
  <2>1. ASSUME NEW s \in Skus, IsRow(dirty[c][s])
        PROVE  /\ ComesFrom(hot'[s], ch, n, s)
               /\ ch \in EventChunks => \A i \in BatchRows(ch, n) : <<ch, i>> \in events'
    BY <1>11, <2>1, CommitGrows DEF IInv, DirtyInv
  <2>2. ASSUME NEW s \in Skus, ~IsRow(dirty[c][s]), IsRow(hot'[s])
        PROVE  \E k \in Chunks, m \in Nat :
                  /\ ComesFrom(hot'[s], k, m, s)
                  /\ k \in EventChunks => \A i \in BatchRows(k, m) : <<k, i>> \in events'
    <3>1. hot'[s] = hot[s] /\ events \subseteq events'
      BY <2>2, CommitGrows
    <3>2. PICK k \in Chunks, m \in Nat :
                 /\ ComesFrom(hot[s], k, m, s)
                 /\ k \in EventChunks => \A i \in BatchRows(k, m) : <<k, i>> \in events
      BY <2>2, <3>1 DEF IInv, HotInv
    <3> QED
      BY <3>1, <3>2
  <2> QED
    BY <1>1, <2>1, <2>2 DEF HotInv
<1>13. \A k \in Chunks : \A i \in DOMAIN Rows[k] : RowKept(k, i) => RowKept(k, i)'
  <2>1. \A k \in Chunks : \A i \in DOMAIN Rows[k] : Rows[k][i].sku \in Skus
    BY RowType
  <2> QED
    BY <2>1, CommitGrows DEF RowKept, IsRow
<1>14. ASSUME ~HasMisses(c), NEW i \in BatchRows(ch, n)
       PROVE  RowKept(ch, i)'
  <2>1. Rows[ch][i].sku \in BatchSkus(ch, n) /\ Rows[ch][i].sku \in Skus
    BY <1>1, RowType, BatchRowsType DEF BatchSkus
  <2>2. IsRow(View(c, Rows[ch][i].sku))
    BY <1>1, <1>14, <2>1 DEF HasMisses, With, IInv, OutcomeInv, Merging
  <2>3. IsRow(hot'[Rows[ch][i].sku])
    BY <2>1, <2>2 DEF Commit
  <2>4. ch \in EventChunks => <<ch, i>> \in events'
    BY <1>11
  <2> QED
    BY <2>3, <2>4 DEF RowKept, IsRow
<1>15. ProgressInv'
  <2>1. ASSUME NEW d \in Consumers, d # c, pc'[d] # "idle",
               NEW i \in DOMAIN Rows[job'[d]],
               pc'[d] = "done" \/ (i - 1) \div BatchSize + 1 < batch'[d]
        PROVE  RowKept(job[d], i)'
    <3>1. PICK k \in Chunks : k = job[d] /\ k = job'[d]
      BY <1>5, <2>1 DEF IInv, TxInv
    <3>2. RowKept(k, i)
      BY <1>5, <2>1, <3>1 DEF IInv, ProgressInv
    <3>3. RowKept(k, i)'
      BY <1>13, <2>1, <3>1, <3>2
    <3> QED
      BY <3>1, <3>3 DEF RowKept
  <2>2. ASSUME pc'[c] # "idle", NEW i \in DOMAIN Rows[ch],
               pc'[c] = "done" \/ (i - 1) \div BatchSize + 1 < batch'[c]
        PROVE  RowKept(ch, i)'
    <3> DEFINE q == (i - 1) \div BatchSize
    <3>1. q \in Nat /\ q + 1 <= LastBatch(ch) /\ LastBatch(ch) \in Nat
      BY <1>1, LastBatchCovers
    <3>2. ~HasMisses(c) /\ q + 1 <= n
      <4>1. pc'[c] = "begin" => batch'[c] = n + 1
        BY <1>5
      <4>2. pc'[c] = "done" => n >= LastBatch(ch)
        BY <1>5
      <4> HIDE DEF q
      <4>3. CASE pc'[c] = "done"
        BY <1>1, <1>5, <3>1, <4>2, <4>3
      <4>4. CASE pc'[c] = "begin"
        BY <1>1, <1>5, <2>2, <3>1, <4>1, <4>4 DEF q
      <4> QED
        BY <1>5, <2>2, <4>3, <4>4
    <3>3. CASE q + 1 < n
      <4>1. RowKept(ch, i)
        BY <1>1, <2>2, <3>3 DEF IInv, ProgressInv
      <4> QED
        BY <1>1, <1>13, <4>1
    <3>4. CASE q + 1 = n
      <4>1. i \in BatchRows(ch, n)
        BY <3>1, <3>4 DEF BatchRows
      <4> QED
        BY <1>14, <3>2, <4>1
    <3> HIDE DEF q
    <3> QED
      BY <1>1, <3>1, <3>2, <3>3, <3>4
  <2>3. pc'[c] # "idle" => job'[c] = ch
    BY <1>5
  <2> QED
    BY <2>1, <2>2, <2>3 DEF ProgressInv, RowKept
<1>16. AckedIsWritten'
  <2>1. \A k \in Chunks : msg'[k] = "acked" => msg[k] = "acked"
    BY <1>1, <1>2, NackFacts
  <2> QED
    BY <1>13, <2>1 DEF IInv, AckedIsWritten, RowKept
<1> QED
  BY <1>4, <1>6, <1>8, <1>9, <1>10, <1>12, <1>15, <1>16 DEF IInv

\* Every step keeps the invariant.
LEMMA NextIInv == IInv /\ [Next]_vars => IInv'
<1> SUFFICES ASSUME IInv, [Next]_vars
             PROVE  IInv'
  OBVIOUS
<1>1. ASSUME NEW c \in Consumers, Write(c)
      PROVE  IInv'
  BY <1>1, BeginStep, UpsertStep, ExistsStep, CommitStep, AcknowledgeStep DEF Write
<1>2. CASE Next
  BY <1>1, <1>2, RedeliverStep, ReceiveStep, FailStep DEF Next
<1>3. CASE UNCHANGED vars
  BY <1>3 DEF vars, IInv, TypeOK, TxInv, LockInv, DirtyInv, OutcomeInv, HotInv, ProgressInv,
              AckedIsWritten, Merging, View, RowKept
<1> QED
  BY <1>2, <1>3

\* The invariant holds in every reachable state.
LEMMA Invariance == Spec => []IInv
BY InitIInv, NextIInv, PTL DEF Spec

----------------------------------------------------------------------------
\* Every variable keeps its type.
THEOREM TypeCorrect == Spec => []TypeOK
<1>1. IInv => TypeOK
  BY DEF IInv
<1> QED
  BY <1>1, Invariance, PTL

\* D64: no step of any consumer takes a position away or its event time back.
THEOREM EventTimeNeverGoesBack == Spec => HotTimeMonotone
<1> DEFINE Forward == \A s \in Skus : IsRow(hot[s]) => IsRow(hot'[s]) /\ hot'[s].ts >= hot[s].ts
<1>1. IInv /\ [Next]_vars => [Forward]_vars
  <2> SUFFICES ASSUME IInv, Next
               PROVE  Forward
    OBVIOUS
  <2>1. CASE \E c \in Consumers : Commit(c)
    BY <2>1, CommitGrows
  <2>2. CASE ~ \E c \in Consumers : Commit(c)
    <3>1. UNCHANGED hot
      BY <2>2 DEF Next, Write, Redeliver, Receive, Begin, UpsertHot, LockGranted,
                  ExistenceCheck, Acknowledge, Fail
    <3> QED
      BY <3>1 DEF IInv, TypeOK, HotRow
  <2> QED
    BY <2>1, <2>2
<1> QED
  BY <1>1, Invariance, PTL DEF Spec, HotTimeMonotone

\* D30: a position never stands without its events.
THEOREM EitherOrNeither == Spec => []HotHasItsEvents
<1>1. ASSUME IInv, NEW s \in Skus, hot[s].by[1] \in EventChunks
      PROVE  \A i \in BatchRows(hot[s].by[1], (hot[s].by[2] - 1) \div BatchSize + 1) :
                <<hot[s].by[1], i>> \in events
  <2>1. IsRow(hot[s])
    BY <1>1, ConstantsAssumption DEF IsRow, NoRow
  <2>2. PICK ch \in Chunks, n \in Nat :
               /\ ComesFrom(hot[s], ch, n, s)
               /\ ch \in EventChunks => \A i \in BatchRows(ch, n) : <<ch, i>> \in events
    BY <1>1, <2>1 DEF IInv, HotInv
  <2>3. PICK k \in BatchRows(ch, n) : hot[s].by = <<ch, k>>
    BY <2>2 DEF ComesFrom
  <2>4. hot[s].by[1] = ch /\ (hot[s].by[2] - 1) \div BatchSize + 1 = n
    BY <2>3, BatchRowsType
  <2> QED
    BY <1>1, <2>2, <2>4
<1>2. IInv => HotHasItsEvents
  BY <1>1 DEF HotHasItsEvents
<1> QED
  BY <1>2, Invariance, PTL

\* _group_hot and the merges: a position comes from the last row of its batch, by
\* event time and then file order, for batches of any length.
THEOREM LatestOfBatchWins == Spec => []HotIsLatestOfBatch
<1>1. ASSUME IInv, NEW s \in Skus, IsRow(hot[s])
      PROVE  LET ch == hot[s].by[1]
                 k == hot[s].by[2]
                 n == (k - 1) \div BatchSize + 1
             IN  \A i \in BatchRows(ch, n) :
                     Rows[ch][i].sku = s =>
                         \/ Rows[ch][i].ts < Rows[ch][k].ts
                         \/ Rows[ch][i].ts = Rows[ch][k].ts /\ i <= k
  <2>1. PICK ch \in Chunks, n \in Nat : ComesFrom(hot[s], ch, n, s)
    BY <1>1 DEF IInv, HotInv
  <2>2. PICK k \in BatchRows(ch, n) :
               /\ hot[s].by = <<ch, k>>
               /\ \A i \in BatchRows(ch, n) :
                     Rows[ch][i].sku = s =>
                         \/ Rows[ch][i].ts < Rows[ch][k].ts
                         \/ Rows[ch][i].ts = Rows[ch][k].ts /\ i <= k
    BY <2>1 DEF ComesFrom
  <2>3. hot[s].by[1] = ch /\ hot[s].by[2] = k /\ (k - 1) \div BatchSize + 1 = n
    BY <2>2, BatchRowsType
  <2> QED
    BY <2>2, <2>3
<1>2. IInv => HotIsLatestOfBatch
  BY <1>1 DEF HotIsLatestOfBatch
<1> QED
  BY <1>2, Invariance, PTL

\* No chunk is acknowledged before every row of it is in the event table and every
\* key of it in the hot table.
THEOREM NoAckAndLose == Spec => []AckedIsWritten
<1>1. IInv => AckedIsWritten
  BY DEF IInv
<1> QED
  BY <1>1, Invariance, PTL

\* The sorted merge order: along a chain of consumers that wait for each other's
\* locks the keys ascend, so no chain of any length closes.
WaitsAscend ==
    \A c, d \in Consumers :
        pc[c] = "blocked" /\ pc[d] = "blocked" /\ lock[NextSku(c)] = d
            => NextSku(c) < NextSku(d)

\* Waiting chains ascend, for any number of consumers and keys.
THEOREM WaitingChainsAscend == Spec => []WaitsAscend
<1>1. ASSUME IInv, NEW c \in Consumers, NEW d \in Consumers,
             pc[c] = "blocked", pc[d] = "blocked", lock[NextSku(c)] = d
      PROVE  NextSku(c) < NextSku(d)
  <2>1. todo[c] # {} /\ todo[d] # {}
    BY <1>1 DEF IInv, TxInv
  <2>2. NextSku(c) \in Skus /\ NextSku(d) \in todo[d]
    BY <1>1, <2>1, NextSkuIsLeast
  <2> QED
    BY <1>1, <2>2 DEF IInv, LockInv
<1>2. IInv => WaitsAscend
  BY <1>1 DEF WaitsAscend
<1> QED
  BY <1>2, Invariance, PTL

\* The sorted merge order: no two transactions wait for each other.
THEOREM NoMutualWait == Spec => []NoLockCycle
<1>1. ASSUME TypeOK, WaitsAscend, NEW c \in Consumers, NEW d \in Consumers,
             pc[c] = "blocked", lock[NextSku(c)] = d,
             pc[d] = "blocked", lock[NextSku(d)] = c,
             NextSku(c) \in Nat, NextSku(d) \in Nat
      PROVE  FALSE
  BY <1>1 DEF WaitsAscend
<1>2. ASSUME IInv, NEW c \in Consumers, pc[c] = "blocked"
      PROVE  NextSku(c) \in Nat
  BY <1>2, NextSkuIsLeast DEF IInv, TxInv
<1>3. IInv /\ WaitsAscend => NoLockCycle
  BY <1>1, <1>2 DEF IInv, NoLockCycle
<1> QED
  BY <1>3, Invariance, WaitingChainsAscend, PTL
=============================================================================
