---------------------------- MODULE ReclaimProofs ---------------------------
(***************************************************************************)
(* Proof that reclaim_size never claims a byte twice (db.rs, batch.rs,     *)
(* merge.rs).  It is about sums over finite sets of keys, threads and      *)
(* files.  A sum is counted: a term n stands for n units, and the sum is   *)
(* the number of units.  That this is what MapThenSumSet computes follows  *)
(* from a smallest set for which it would not be.                          *)
(***************************************************************************)
EXTENDS MergeProofs

(* The element with which a sum over a set begins.                         *)
Pick(s) == CHOOSE x \in s : TRUE

(* The units of the terms of g over a set.                                 *)
Units(g, s) == {u \in s \X Nat : u[2] \in 1..g[u[1]]}

(* Among some subsets of a finite set there is one that has none of the    *)
(* others with one element less.                                           *)
LEMMA SmallestSubset ==
  ASSUME NEW S, IsFiniteSet(S), NEW Q \in SUBSET SUBSET S, Q # {}
  PROVE  \E s \in Q : \A x \in s : s \ {x} \notin Q
<1> DEFINE R == StrictSubsetOrdering(S)
<1>1. IsWellFoundedOn(R, FiniteSubsetsOf(S))
  BY FS_StrictSubsetOrderingWellFounded
<1>2. Q \subseteq FiniteSubsetsOf(S)
  BY FS_Subset DEF FiniteSubsetsOf
<1>3. ASSUME NEW s \in Q, NEW x \in s PROVE <<s \ {x}, s>> \in R
  BY DEF StrictSubsetOrdering
<1> HIDE DEF R
<1>4. PICK s \in Q : \A y \in Q : <<y, s>> \notin R
  BY <1>1, <1>2, WFMin
<1> QED
  BY <1>3, <1>4, Zenon

(* One more element adds the units of its term.                            *)
LEMMA UnitsAdd ==
  ASSUME NEW g, NEW s, NEW x \in s, g[x] \in Nat, IsFiniteSet(Units(g, s \ {x}))
  PROVE  /\ IsFiniteSet(Units(g, s))
         /\ Cardinality(Units(g, s)) = g[x] + Cardinality(Units(g, s \ {x}))
<1> DEFINE A == Units(g, s \ {x})
           B == {x} \X (1..g[x])
<1>1. Units(g, s) = A \cup B /\ A \cap B = {}
  BY DEF Units
<1>2. IsFiniteSet(B) /\ Cardinality(B) = g[x]
  <2>1. IsFiniteSet(1..g[x]) /\ Cardinality(1..g[x]) = g[x]
    BY FS_Interval
  <2> DEFINE h == [i \in 1..g[x] |-> <<x, i>>]
  <2>2. h \in [1..g[x] -> B]
    OBVIOUS
  <2>3. \A i, j \in 1..g[x] : h[i] = h[j] => i = j
    OBVIOUS
  <2>4. ASSUME NEW b \in B PROVE \E i \in 1..g[x] : h[i] = b
    <3>1. b[2] \in 1..g[x] /\ h[b[2]] = b
      OBVIOUS
    <3> QED
      BY <3>1
  <2> HIDE DEF h, B
  <2>5. h \in Bijection(1..g[x], B)
    BY <2>2, <2>3, <2>4 DEF Bijection, Injection, Surjection, IsInjective
  <2> QED
    BY <2>1, <2>5, FS_Bijection DEF ExistsBijection
<1>3. IsFiniteSet(A) /\ Cardinality(A) \in Nat
  BY FS_CardinalityType
<1>4. Units(g, s) = A \cup B /\ A \cap B = {} /\ A = Units(g, s \ {x})
  BY <1>1
<1> HIDE DEF A, B
<1>5. /\ IsFiniteSet(A \cup B)
      /\ Cardinality(A \cup B) = Cardinality(A) + Cardinality(B) - Cardinality(A \cap B)
  BY <1>2, <1>3, FS_Union
<1>6. Cardinality(A \cap B) = 0
  BY <1>4, FS_EmptySet
<1>7. Cardinality(A \cup B) = Cardinality(A) + g[x]
  BY <1>2, <1>3, <1>5, <1>6
<1> QED
  BY <1>3, <1>4, <1>5, <1>7

(* Finitely many terms have finitely many units.                           *)
LEMMA UnitsFinite ==
  ASSUME NEW S, IsFiniteSet(S), NEW g \in [S -> Nat]
  PROVE  \A s \in SUBSET S : IsFiniteSet(Units(g, s)) /\ Cardinality(Units(g, s)) \in Nat
<1> DEFINE Q == {s \in SUBSET S : ~IsFiniteSet(Units(g, s))}
<1>1. SUFFICES ASSUME Q # {} PROVE FALSE
  BY FS_CardinalityType
<1>2. PICK s \in Q : \A x \in s : s \ {x} \notin Q
  BY <1>1, SmallestSubset
<1>3. CASE s = {}
  <2>1. Units(g, s) = {}
    BY <1>3 DEF Units
  <2> QED
    BY <2>1, FS_EmptySet
<1>4. ASSUME NEW x \in s PROVE FALSE
  <2>1. IsFiniteSet(Units(g, s \ {x}))
    BY <1>2
  <2> QED
    BY <2>1, UnitsAdd
<1> QED
  BY <1>3, <1>4

(* The equation by which MapThenSumSet defines a sum.                      *)
Sums(F, g, S) ==
  F = [s \in SUBSET S |-> IF s = {} THEN 0 ELSE g[Pick(s)] + F[s \ {Pick(s)}]]

(* Counting units solves the equation,                                     *)
LEMMA SumExists ==
  ASSUME NEW S, IsFiniteSet(S), NEW g \in [S -> Nat]
  PROVE  \E F : Sums(F, g, S)
<1> DEFINE F == [s \in SUBSET S |-> Cardinality(Units(g, s))]
<1>1. ASSUME NEW s \in SUBSET S
      PROVE  F[s] = IF s = {} THEN 0 ELSE g[Pick(s)] + F[s \ {Pick(s)}]
  <2>1. CASE s = {}
    <3>1. Units(g, s) = {}
      BY <2>1 DEF Units
    <3> QED
      BY <2>1, <3>1, FS_EmptySet
  <2>2. CASE s # {}
    <3>1. Pick(s) \in s
      BY <2>2 DEF Pick
    <3>2. IsFiniteSet(Units(g, s \ {Pick(s)}))
      BY UnitsFinite
    <3>3. Cardinality(Units(g, s)) = g[Pick(s)] + Cardinality(Units(g, s \ {Pick(s)}))
      BY <3>1, <3>2, UnitsAdd
    <3> QED
      BY <2>2, <3>3
  <2> QED
    BY <2>1, <2>2
<1>2. F = [s \in SUBSET S |-> F[s]]
  OBVIOUS
<1> HIDE DEF F
<1>3. Sums(F, g, S)
  BY <1>1, <1>2 DEF Sums
<1> QED
  BY <1>3

(* and so does nothing else.                                               *)
LEMMA SumCounts ==
  ASSUME NEW S, IsFiniteSet(S), NEW g \in [S -> Nat], NEW F, Sums(F, g, S)
  PROVE  F[S] = Cardinality(Units(g, S))
<1> DEFINE Q == {s \in SUBSET S : F[s] # Cardinality(Units(g, s))}
<1>1. SUFFICES ASSUME Q # {} PROVE FALSE
  OBVIOUS
<1>2. PICK s \in Q : \A x \in s : s \ {x} \notin Q
  BY <1>1, SmallestSubset
<1>3. F[s] = IF s = {} THEN 0 ELSE g[Pick(s)] + F[s \ {Pick(s)}]
  BY DEF Sums
<1>4. CASE s = {}
  <2>1. Units(g, s) = {}
    BY <1>4 DEF Units
  <2> QED
    BY <1>3, <1>4, <2>1, FS_EmptySet
<1>5. CASE s # {}
  <2>1. Pick(s) \in s
    BY <1>5 DEF Pick
  <2>2. F[s \ {Pick(s)}] = Cardinality(Units(g, s \ {Pick(s)}))
    BY <1>2, <2>1
  <2>3. IsFiniteSet(Units(g, s \ {Pick(s)}))
    BY UnitsFinite
  <2>4. Cardinality(Units(g, s)) = g[Pick(s)] + Cardinality(Units(g, s \ {Pick(s)}))
    BY <2>1, <2>3, UnitsAdd
  <2> QED
    BY <1>3, <1>5, <2>2, <2>4
<1> QED
  BY <1>4, <1>5

(* A sum of the values of a function, and a sum of sizes, is a number of   *)
(* units.                                                                  *)
LEMMA SumIs ==
  ASSUME NEW S, IsFiniteSet(S), NEW g \in [S -> Nat]
  PROVE  MapThenSumSet(LAMBDA x : g[x], S) = Cardinality(Units(g, S))
<1> DEFINE F == CHOOSE f : Sums(f, g, S)
<1>1. MapThenSumSet(LAMBDA x : g[x], S) = F[S]
  BY DEF MapThenSumSet, MapThenFoldSet, Pick, Sums
<1>2. Sums(F, g, S)
  BY SumExists
<1> HIDE DEF F
<1> QED
  BY <1>1, <1>2, SumCounts

LEMMA SizesSumIs ==
  ASSUME NEW S, IsFiniteSet(S), NEW h, NEW g \in [S -> Nat], \A x \in S : g[x] = h[x].size
  PROVE  MapThenSumSet(LAMBDA x : h[x].size, S) = Cardinality(Units(g, S))
<1> DEFINE Eq(f) == f = [s \in SUBSET S |-> IF s = {} THEN 0 ELSE h[Pick(s)].size + f[s \ {Pick(s)}]]
           F == CHOOSE f : Eq(f)
<1>1. MapThenSumSet(LAMBDA x : h[x].size, S) = F[S]
  BY DEF MapThenSumSet, MapThenFoldSet, Pick
<1>2. \A f : Eq(f) <=> Sums(f, g, S)
  <2>1. \A s \in SUBSET S : s # {} => h[Pick(s)].size = g[Pick(s)]
    BY DEF Pick
  <2> QED
    BY <2>1 DEF Sums
<1>3. \E f : Eq(f)
  BY <1>2, SumExists
<1>4. Eq(F)
  BY <1>3
<1>5. Sums(F, g, S)
  BY <1>2, <1>4
<1> HIDE DEF F, Eq
<1> QED
  BY <1>1, <1>5, SumCounts

-----------------------------------------------------------------------------
Total(g, S) == Cardinality(Units(g, S))

LEMMA TotalTyped ==
  ASSUME NEW S, IsFiniteSet(S), NEW g \in [S -> Nat]
  PROVE  Total(g, S) \in Nat
BY UnitsFinite DEF Total

(* Smaller terms, a smaller sum.                                           *)
LEMMA TotalShrinks ==
  ASSUME NEW S, IsFiniteSet(S), NEW g \in [S -> Nat], NEW h \in [S -> Nat],
         NEW s \in SUBSET S, \A y \in s : g[y] <= h[y]
  PROVE  Cardinality(Units(g, s)) <= Cardinality(Units(h, s))
<1>1. IsFiniteSet(Units(h, s))
  BY UnitsFinite
<1>2. Units(g, s) \subseteq Units(h, s)
  <2> SUFFICES ASSUME NEW u \in Units(g, s) PROVE u \in Units(h, s)
    OBVIOUS
  <2>1. u \in s \X Nat /\ u[2] \in 1..g[u[1]] /\ u[1] \in s /\ u[2] \in Nat
    BY DEF Units
  <2>2. g[u[1]] <= h[u[1]] /\ g[u[1]] \in Nat /\ h[u[1]] \in Nat
    BY <2>1
  <2>3. u[2] \in 1..h[u[1]]
    BY <2>1, <2>2
  <2> QED
    BY <2>1, <2>3 DEF Units
<1> QED
  BY <1>1, <1>2, FS_Subset

(* When one term changes and the others do not grow, the sum grows at most *)
(* as much as that term.                                                   *)
LEMMA TotalMoves ==
  ASSUME NEW S, IsFiniteSet(S), NEW g \in [S -> Nat], NEW h \in [S -> Nat],
         NEW x \in S, \A y \in S \ {x} : g[y] <= h[y]
  PROVE  Total(g, S) + h[x] <= Total(h, S) + g[x]
<1> DEFINE s == S \ {x}
           m == Cardinality(Units(g, s))
           n == Cardinality(Units(h, s))
<1>1. m <= n
  BY TotalShrinks
<1>2. /\ IsFiniteSet(Units(g, s)) /\ m \in Nat
      /\ IsFiniteSet(Units(h, s)) /\ n \in Nat
  BY UnitsFinite
<1>3. g[x] \in Nat /\ h[x] \in Nat
  OBVIOUS
<1>4. Total(g, S) = g[x] + m
  BY <1>2, <1>3, UnitsAdd DEF Total
<1>5. Total(h, S) = h[x] + n
  BY <1>2, <1>3, UnitsAdd DEF Total
<1> HIDE DEF m, n
<1> QED
  BY <1>1, <1>2, <1>3, <1>4, <1>5

-----------------------------------------------------------------------------
AppendedPCs == {"put.index", "put.insert", "del.index"}

LiveSize == [k \in Keys |-> index[k].size]
AppendedSize == [t \in Threads |-> IF pc[t] \in AppendedPCs THEN pos[t].size ELSE 0]

(* The bytes that are claimed, needed or on their way.                     *)
OwedBytes ==
  reclaim + Total(LiveSize, Keys) + Total(AppendedSize, Threads) + Total(WaitingSize, Keys)

LEMMA PositionSize ==
  ASSUME NEW p \in MaybePositions
  PROVE  p.size \in Nat
BY DEF MaybePositions, Positions, NoPos, Pos

LEMMA FilesFinite == IsFiniteSet(FileIds)
BY FS_Interval, DataFileAssumption DEF FileIds

LEMMA BytesTyped ==
  ASSUME CoreTypeOK, BatchShape
  PROVE  /\ LiveSize \in [Keys -> Nat]
         /\ AppendedSize \in [Threads -> Nat]
         /\ WaitingSize \in [Keys -> Nat]
<1>1. LiveSize \in [Keys -> Nat]
  BY PositionSize DEF LiveSize, CoreTypeOK
<1>2. AppendedSize \in [Threads -> Nat]
  BY PositionSize DEF AppendedSize, CoreTypeOK
<1>3. ASSUME NEW k \in Keys, batchLock # NoThread PROVE batchPos[batchLock][k].size \in Nat
  <2>1. batchPos[batchLock][k] \in MaybePositions
    BY <1>3 DEF BatchShape
  <2> QED
    BY <2>1, PositionSize
<1>4. WaitingSize \in [Keys -> Nat]
  BY <1>3 DEF WaitingSize
<1> QED
  BY <1>1, <1>2, <1>4

(* The sums of the model, counted.                                         *)
LEMMA LiveCounted ==
  ASSUME NEW h \in [Keys -> MaybePositions]
  PROVE  MapThenSumSet(LAMBDA k : h[k].size, Keys) = Total([k \in Keys |-> h[k].size], Keys)
<1> DEFINE g == [k \in Keys |-> h[k].size]
<1>1. g \in [Keys -> Nat] /\ \A k \in Keys : g[k] = h[k].size
  BY PositionSize
<1> HIDE DEF g
<1>2. MapThenSumSet(LAMBDA k : h[k].size, Keys) = Cardinality(Units(g, Keys))
  BY <1>1, FiniteAssumption, SizesSumIs
<1> QED
  BY <1>2 DEF Total, g

LEMMA AppendedCounted ==
  ASSUME NEW h \in [Threads -> MaybePositions], NEW T \in SUBSET Threads
  PROVE  MapThenSumSet(LAMBDA t : h[t].size, T)
           = Total([t \in Threads |-> IF t \in T THEN h[t].size ELSE 0], Threads)
<1> DEFINE g == [t \in T |-> h[t].size]
           f == [t \in Threads |-> IF t \in T THEN h[t].size ELSE 0]
<1>1. g \in [T -> Nat] /\ \A t \in T : g[t] = h[t].size
  BY PositionSize
<1>2. IsFiniteSet(T)
  BY FiniteAssumption, FS_Subset
<1>3. Units(g, T) = Units(f, Threads)
  <2>1. ASSUME NEW u \in Units(g, T) PROVE u \in Units(f, Threads)
    BY <2>1 DEF Units
  <2>2. ASSUME NEW u \in Units(f, Threads) PROVE u \in Units(g, T)
    <3>1. u[1] \in Threads /\ u \in Threads \X Nat /\ u[2] \in 1..f[u[1]]
      BY <2>2 DEF Units
    <3>2. u[1] \in T
      BY <3>1
    <3> QED
      BY <3>1, <3>2 DEF Units
  <2> QED
    BY <2>1, <2>2
<1> HIDE DEF g
<1>4. MapThenSumSet(LAMBDA t : h[t].size, T) = Cardinality(Units(g, T))
  BY <1>1, <1>2, SizesSumIs
<1> QED
  BY <1>3, <1>4 DEF Total

LEMMA BytesCounted ==
  ASSUME CoreTypeOK, BatchShape
  PROVE  /\ LiveBytes = Total(LiveSize, Keys)
         /\ AppendedBytes = Total(AppendedSize, Threads)
         /\ WaitingBytes = Total(WaitingSize, Keys)
         /\ SizeOf(flen, FileIds) = Total(flen, FileIds)
<1>1. LiveBytes = Total(LiveSize, Keys)
  BY LiveCounted DEF LiveBytes, LiveSize, CoreTypeOK
<1>2. AppendedBytes = Total(AppendedSize, Threads)
  <2> DEFINE T == {t \in Threads : pc[t] \in AppendedPCs}
             g == [t \in Threads |-> IF t \in T THEN pos[t].size ELSE 0]
  <2>1. pos \in [Threads -> MaybePositions] /\ T \in SUBSET Threads
    BY DEF CoreTypeOK
  <2>2. g = AppendedSize
    BY DEF AppendedSize
  <2>3. AppendedBytes = MapThenSumSet(LAMBDA t : pos[t].size, T)
    BY DEF AppendedBytes, AppendedPCs
  <2> HIDE DEF T
  <2>4. MapThenSumSet(LAMBDA t : pos[t].size, T) = Total(g, Threads)
    BY <2>1, AppendedCounted
  <2> QED
    BY <2>2, <2>3, <2>4
<1>3. WaitingBytes = Total(WaitingSize, Keys)
  BY BytesTyped, FiniteAssumption, SumIs DEF WaitingBytes, Total
<1>4. SizeOf(flen, FileIds) = Total(flen, FileIds)
  BY FilesFinite, SumIs DEF SizeOf, Total, CoreTypeOK
<1> QED
  BY <1>1, <1>2, <1>3, <1>4

-----------------------------------------------------------------------------
(* ReclaimInv with its sums counted.                                       *)
Owed ==
  /\ \A t \in Threads : pc[t] # "put.insert"
  /\ \A t \in Threads : pc[t] \notin BatchPCs => batchPos[t] = NoPositions
  /\ OwedBytes <= Total(flen, FileIds)

LEMMA TotalsTyped ==
  ASSUME CoreTypeOK, BatchShape
  PROVE  /\ reclaim \in Nat
         /\ Total(LiveSize, Keys) \in Nat
         /\ Total(AppendedSize, Threads) \in Nat
         /\ Total(WaitingSize, Keys) \in Nat
         /\ Total(flen, FileIds) \in Nat
BY BytesTyped, TotalTyped, FiniteAssumption, FilesFinite DEF CoreTypeOK

LEMMA TypedNext ==
  ASSUME CoreTypeOK', BatchShape'
  PROVE  /\ LiveSize' \in [Keys -> Nat]
         /\ AppendedSize' \in [Threads -> Nat]
         /\ WaitingSize' \in [Keys -> Nat]
         /\ flen' \in [FileIds -> Nat]
         /\ reclaim' \in Nat
<1>1. LiveSize' \in [Keys -> Nat]
  BY PositionSize DEF LiveSize, CoreTypeOK
<1>2. AppendedSize' \in [Threads -> Nat]
  BY PositionSize DEF AppendedSize, CoreTypeOK
<1>3. ASSUME NEW k \in Keys, batchLock' # NoThread PROVE batchPos'[batchLock'][k].size \in Nat
  <2>1. batchPos'[batchLock'][k] \in MaybePositions
    BY <1>3 DEF BatchShape
  <2> QED
    BY <2>1, PositionSize
<1>4. WaitingSize' \in [Keys -> Nat]
  BY <1>3 DEF WaitingSize
<1> QED
  BY <1>1, <1>2, <1>4 DEF CoreTypeOK

(* A step that claims, enters and appends nothing keeps the balance, and   *)
(* so does one that writes more than it is going to use.                   *)
LEMMA QuietBalance ==
  ASSUME CoreTypeOK, BatchShape, CoreTypeOK', BatchShape',
         OwedBytes <= Total(flen, FileIds),
         reclaim' = reclaim,
         \A k \in Keys : LiveSize'[k] <= LiveSize[k],
         \A t \in Threads : AppendedSize'[t] <= AppendedSize[t],
         \A k \in Keys : WaitingSize'[k] <= WaitingSize[k],
         \A f \in FileIds : flen[f] <= flen'[f]
  PROVE  (OwedBytes <= Total(flen, FileIds))'
<1>1. /\ LiveSize \in [Keys -> Nat] /\ LiveSize' \in [Keys -> Nat]
      /\ AppendedSize \in [Threads -> Nat] /\ AppendedSize' \in [Threads -> Nat]
      /\ WaitingSize \in [Keys -> Nat] /\ WaitingSize' \in [Keys -> Nat]
      /\ flen \in [FileIds -> Nat] /\ flen' \in [FileIds -> Nat]
  BY BytesTyped, TypedNext DEF CoreTypeOK
<1>2. /\ IsFiniteSet(Keys) /\ Keys \in SUBSET Keys
      /\ IsFiniteSet(Threads) /\ Threads \in SUBSET Threads
      /\ IsFiniteSet(FileIds) /\ FileIds \in SUBSET FileIds
  BY FiniteAssumption, FilesFinite
<1>3. Total(LiveSize', Keys) <= Total(LiveSize, Keys)
  BY <1>1, <1>2, TotalShrinks DEF Total
<1>4. Total(AppendedSize', Threads) <= Total(AppendedSize, Threads)
  BY <1>1, <1>2, TotalShrinks DEF Total
<1>5. Total(WaitingSize', Keys) <= Total(WaitingSize, Keys)
  BY <1>1, <1>2, TotalShrinks DEF Total
<1>6. Total(flen, FileIds) <= Total(flen', FileIds)
  BY <1>1, <1>2, TotalShrinks DEF Total
<1>7. /\ Total(LiveSize', Keys) \in Nat /\ Total(AppendedSize', Threads) \in Nat
      /\ Total(WaitingSize', Keys) \in Nat /\ Total(flen', FileIds) \in Nat
  BY <1>1, <1>2, TotalTyped
<1>8. OwedBytes' = reclaim' + Total(LiveSize', Keys) + Total(AppendedSize', Threads)
                     + Total(WaitingSize', Keys)
  BY DEF OwedBytes
<1> QED
  BY <1>3, <1>4, <1>5, <1>6, <1>7, <1>8, TotalsTyped DEF OwedBytes

(* A step that changes one entry of each keeps the balance when these four *)
(* entries and reclaim_size balance.                                       *)
LEMMA StepBalance ==
  ASSUME CoreTypeOK, BatchShape, CoreTypeOK', BatchShape',
         OwedBytes <= Total(flen, FileIds),
         NEW k \in Keys, NEW t \in Threads, NEW f \in FileIds,
         \A j \in Keys \ {k} : LiveSize'[j] <= LiveSize[j],
         \A u \in Threads \ {t} : AppendedSize'[u] <= AppendedSize[u],
         \A j \in Keys \ {k} : WaitingSize'[j] <= WaitingSize[j],
         \A g \in FileIds \ {f} : flen[g] <= flen'[g],
         reclaim' + LiveSize'[k] + AppendedSize'[t] + WaitingSize'[k] + flen[f]
           <= reclaim + LiveSize[k] + AppendedSize[t] + WaitingSize[k] + flen'[f]
  PROVE  (OwedBytes <= Total(flen, FileIds))'
<1>1. /\ LiveSize \in [Keys -> Nat] /\ LiveSize' \in [Keys -> Nat]
      /\ AppendedSize \in [Threads -> Nat] /\ AppendedSize' \in [Threads -> Nat]
      /\ WaitingSize \in [Keys -> Nat] /\ WaitingSize' \in [Keys -> Nat]
      /\ flen \in [FileIds -> Nat] /\ flen' \in [FileIds -> Nat]
      /\ reclaim' \in Nat
  BY BytesTyped, TypedNext DEF CoreTypeOK
<1>2. IsFiniteSet(Keys) /\ IsFiniteSet(Threads) /\ IsFiniteSet(FileIds)
  BY FiniteAssumption, FilesFinite
<1>3. Total(LiveSize', Keys) + LiveSize[k] <= Total(LiveSize, Keys) + LiveSize'[k]
  BY <1>1, <1>2, TotalMoves
<1>4. Total(AppendedSize', Threads) + AppendedSize[t]
        <= Total(AppendedSize, Threads) + AppendedSize'[t]
  BY <1>1, <1>2, TotalMoves
<1>5. Total(WaitingSize', Keys) + WaitingSize[k] <= Total(WaitingSize, Keys) + WaitingSize'[k]
  BY <1>1, <1>2, TotalMoves
<1>6. Total(flen, FileIds) + flen'[f] <= Total(flen', FileIds) + flen[f]
  BY <1>1, <1>2, TotalMoves
<1>7. /\ Total(LiveSize', Keys) \in Nat /\ Total(AppendedSize', Threads) \in Nat
      /\ Total(WaitingSize', Keys) \in Nat /\ Total(flen', FileIds) \in Nat
  BY <1>1, <1>2, TotalTyped
<1>8. OwedBytes' = reclaim' + Total(LiveSize', Keys) + Total(AppendedSize', Threads)
                     + Total(WaitingSize', Keys)
  BY DEF OwedBytes
<1>9. /\ LiveSize[k] \in Nat /\ LiveSize'[k] \in Nat
      /\ AppendedSize[t] \in Nat /\ AppendedSize'[t] \in Nat
      /\ WaitingSize[k] \in Nat /\ WaitingSize'[k] \in Nat
      /\ flen[f] \in Nat /\ flen'[f] \in Nat
  BY <1>1
<1> QED
  BY <1>1, <1>3, <1>4, <1>5, <1>6, <1>7, <1>8, <1>9, TotalsTyped DEF OwedBytes

-----------------------------------------------------------------------------
(* append_log_record never shortens a file, and when it succeeds the file  *)
(* has grown by the size of the position it returns.                       *)
LEMMA AppendAddsBytes ==
  ASSUME CoreTypeOK, NEW t \in Threads, NEW r \in LogRecord,
         NEW out \in Outcomes, AppendLogRecord(t, r, out)
  PROVE  /\ \A f \in FileIds : flen[f] <= flen'[f]
         /\ \A u \in Threads : u # t => pos'[u] = pos[u]
         /\ out # "ok" => pos'[t] = NoPos
         /\ out = "ok" => \E f \in FileIds : flen'[f] = flen[f] + pos'[t].size
<1> DEFINE size == EncodedLength(r)
           fid == TargetFile(size)
<1>1. size \in Nat
  BY RecordNotEmpty
<1>2. fid \in FileIds \/ out = "rotate"
  BY <1>1, DataFileAssumption DEF AppendLogRecord, TargetFile, FileIds, CoreTypeOK
<1>3. /\ flen \in [FileIds -> Nat]
      /\ \/ out \in {"ok", "sync"} /\ flen' = [flen EXCEPT ![fid] = @ + size]
         \/ out # "ok" /\ flen' = flen
  BY DEF AppendLogRecord, CoreTypeOK
<1>4. \A f \in FileIds : flen[f] <= flen'[f]
  BY <1>1, <1>2, <1>3
<1>5. /\ out = "ok" => pos'[t].size = size
      /\ out # "ok" => pos'[t] = NoPos
      /\ \A u \in Threads : u # t => pos'[u] = pos[u]
  BY DEF AppendLogRecord, CoreTypeOK, Pos
<1>6. out = "ok" => fid \in FileIds /\ flen'[fid] = flen[fid] + size
  BY <1>1, <1>2, <1>3
<1> QED
  BY <1>4, <1>5, <1>6

(* What a step outside commit leaves of the bytes that wait in one.        *)
LEMMA WaitingUndisturbed ==
  ASSUME BatchShape, UNCHANGED <<batchLock, order, item, batchPos>>,
         \A u \in Threads : pc[u] = "batch.index" <=> pc'[u] = "batch.index"
  PROVE  WaitingSize' = WaitingSize
<1>1. ASSUME NEW k \in Keys, batchLock # NoThread
      PROVE  Unindexed(batchLock, k)' <=> Unindexed(batchLock, k)
  BY <1>1 DEF Unindexed, BatchShape
<1> QED
  BY <1>1 DEF WaitingSize

(* What a step of one thread leaves of the bytes the others have appended. *)
LEMMA AppendedByOthers ==
  ASSUME CoreTypeOK, BatchShape, NEW t \in Threads,
         \A u \in Threads : u # t => pc'[u] = pc[u] /\ pos'[u] = pos[u]
  PROVE  \A u \in Threads \ {t} : AppendedSize'[u] <= AppendedSize[u]
<1>1. ASSUME NEW u \in Threads \ {t} PROVE AppendedSize'[u] = AppendedSize[u]
  BY DEF AppendedSize
<1> QED
  BY <1>1, BytesTyped

(* Steps of put, delete, get and sync keep the balance: a record that is   *)
(* appended is owed to the index, which hands the entry it replaces over   *)
(* to reclaim_size.                                                        *)
LEMMA EngineStepsBalance ==
  ASSUME BatchCore, BatchCore', Owed, NEW t \in Threads,
         EngineCall(t) \/ EngineStep(t), UNCHANGED batchVars
  PROVE  Owed'
<1> DEFINE Bound == OwedBytes <= Total(flen, FileIds)
<1>1. /\ CoreTypeOK /\ CoreTypeOK' /\ BatchShape /\ BatchShape'
      /\ LogWellFormed /\ InFlightSound /\ Bound
      /\ CoreInv
  BY DEF BatchCore, CoreInv, Owed
<1>2. /\ pc[t] \in EnginePCs /\ pc'[t] \in EnginePCs
      /\ \A u \in Threads : u # t => pc'[u] = pc[u] /\ pos'[u] = pos[u]
  BY <1>1, EngineStepPC, EngineStepKeepsPositions
<1>3. /\ \A u \in Threads \ {t} : AppendedSize'[u] <= AppendedSize[u]
      /\ AppendedSize[t] = (IF pc[t] \in AppendedPCs THEN pos[t].size ELSE 0)
      /\ AppendedSize'[t] = (IF pc'[t] \in AppendedPCs THEN pos'[t].size ELSE 0)
      /\ AppendedSize[t] \in Nat /\ AppendedSize'[t] \in Nat
  BY <1>1, <1>2, AppendedByOthers, BytesTyped, TypedNext DEF AppendedSize
<1>4. WaitingSize' = WaitingSize
  <2>1. pc[t] # "batch.index" /\ pc'[t] # "batch.index"
    BY <1>2 DEF EnginePCs
  <2> QED
    BY <1>1, <1>2, <2>1, WaitingUndisturbed DEF batchVars
<1>5. /\ \A k \in Keys : LiveSize[k] = index[k].size /\ LiveSize[k] \in Nat
      /\ \A k \in Keys : LiveSize'[k] = index'[k].size /\ LiveSize'[k] \in Nat
      /\ \A k \in Keys : WaitingSize[k] \in Nat /\ WaitingSize'[k] <= WaitingSize[k]
      /\ \A f \in FileIds : flen[f] \in Nat /\ flen'[f] \in Nat
      /\ reclaim \in Nat /\ reclaim' \in Nat
  <2>1. WaitingSize \in [Keys -> Nat] /\ LiveSize \in [Keys -> Nat] /\ LiveSize' \in [Keys -> Nat]
    BY <1>1, BytesTyped, TypedNext
  <2> QED
    BY <1>1, <1>4, <2>1 DEF CoreTypeOK, LiveSize
<1> HIDE DEF Bound
<1>6. ASSUME NEW out \in Outcomes, PutWrite(t, out) \/ DeleteWrite(t, out)
      PROVE  Bound' /\ pc'[t] # "put.insert"
  <2>1. /\ AppendLogRecord(t, rec[t], out) /\ rec[t] \in LogRecord
        /\ pc[t] \in {"put.write", "del.write"}
        /\ pc'[t] \in (IF out = "ok" THEN {"put.index", "del.index"} ELSE {"idle"})
        /\ index' = index /\ reclaim' = reclaim
    BY <1>1, <1>6 DEF PutWrite, DeleteWrite, Goto, indexVars, CoreTypeOK
  <2>2. /\ \A f \in FileIds : flen[f] <= flen'[f]
        /\ out = "ok" => \E f \in FileIds : flen'[f] = flen[f] + pos'[t].size
    BY <1>1, <2>1, AppendAddsBytes
  <2>3. AppendedSize[t] = 0 /\ \A k \in Keys : LiveSize'[k] <= LiveSize[k]
    BY <1>3, <1>5, <2>1 DEF AppendedPCs
  <2>4. CASE out = "ok"
    <3>1. PICK f \in FileIds : flen'[f] = flen[f] + pos'[t].size
      BY <2>2, <2>4
    <3>2. AppendedSize'[t] = pos'[t].size
      BY <1>3, <2>1, <2>4 DEF AppendedPCs
    <3>3. PICK k \in Keys : k = rec[t].key
      BY <1>1, <2>1 DEF InFlightSound
    <3>4. LiveSize'[k] = LiveSize[k]
      BY <1>5, <2>1
    <3>5. reclaim' + LiveSize'[k] + AppendedSize'[t] + WaitingSize'[k] + flen[f]
            <= reclaim + LiveSize[k] + AppendedSize[t] + WaitingSize[k] + flen'[f]
      BY <1>3, <1>4, <1>5, <2>1, <2>3, <3>1, <3>2, <3>4
    <3> QED
      BY <1>1, <1>3, <1>5, <2>1, <2>2, <2>3, <2>4, <3>5, StepBalance DEF Bound
  <2>5. CASE out # "ok"
    <3>1. AppendedSize'[t] <= AppendedSize[t]
      BY <1>3, <2>1, <2>3, <2>5 DEF AppendedPCs
    <3> QED
      BY <1>1, <1>3, <1>5, <2>1, <2>2, <2>3, <2>5, <3>1, QuietBalance DEF Bound
  <2> QED
    BY <2>4, <2>5
<1>7. ASSUME TreePut(t) \/ DeleteIndex(t)
      PROVE  Bound' /\ pc'[t] # "put.insert"
  <2> DEFINE k == rec[t].key
             p == IF pc[t] = "put.index" THEN pos[t] ELSE NoPos
             tombstone == IF pc[t] = "put.index" THEN 0 ELSE pos[t].size
  <2>1. /\ pc[t] \in {"put.index", "del.index"} /\ pc'[t] = "idle"
        /\ index' = [index EXCEPT ![k] = p]
        /\ reclaim' = reclaim + tombstone + index[k].size
        /\ flen' = flen
    <3>1. CASE TreePut(t)
      <4>1. /\ pc[t] = "put.index" /\ pc'[t] = "idle" /\ flen' = flen
            /\ IndexPut(k, pos[t])
        BY <1>1, <3>1 DEF TreePut, Goto, diskVars, CoreTypeOK
      <4> QED
        BY <1>5, <4>1 DEF IndexPut
    <3>2. CASE DeleteIndex(t)
      <4>1. /\ pc[t] = "del.index" /\ pc'[t] = "idle" /\ flen' = flen
            /\ IndexDelete(k, pos[t].size)
        BY <1>1, <3>2 DEF DeleteIndex, Goto, diskVars, CoreTypeOK
      <4> QED
        BY <4>1 DEF IndexDelete
    <3> QED
      BY <1>7, <3>1, <3>2
  <2>2. k \in Keys /\ pos[t].size \in Nat
    BY <1>1, <2>1, PositionSize DEF InFlightSound, CoreTypeOK
  <2>3. AppendedSize[t] = pos[t].size /\ AppendedSize'[t] = 0
    BY <1>3, <2>1 DEF AppendedPCs
  <2>4. /\ \A j \in Keys \ {k} : LiveSize'[j] <= LiveSize[j]
        /\ LiveSize'[k] = p.size
    <3>1. index'[k] = p /\ \A j \in Keys \ {k} : index'[j] = index[j]
      BY <1>1, <2>1, <2>2 DEF CoreTypeOK
    <3> QED
      BY <1>5, <2>2, <3>1
  <2>5. p.size + tombstone = pos[t].size /\ p.size \in Nat /\ tombstone \in Nat
    BY <2>2 DEF NoPos, Pos
  <2>6. reclaim' = reclaim + tombstone + LiveSize[k]
    BY <1>5, <2>1, <2>2, <2>5
  <2> HIDE DEF k, p, tombstone
  <2>7. PICK f \in FileIds : flen'[f] = flen[f]
    BY <1>1, <2>1 DEF CoreTypeOK
  <2>8. reclaim' + LiveSize'[k] + AppendedSize'[t] + WaitingSize'[k] + flen[f]
          <= reclaim + LiveSize[k] + AppendedSize[t] + WaitingSize[k] + flen'[f]
    BY <1>4, <1>5, <2>2, <2>3, <2>4, <2>5, <2>6, <2>7
  <2>9. \A g \in FileIds : flen[g] <= flen'[g]
    BY <1>5, <2>1
  <2> QED
    BY <1>1, <1>3, <1>5, <2>1, <2>2, <2>4, <2>8, <2>9, StepBalance DEF Bound
<1>8. ASSUME UNCHANGED <<flen, indexVars>>, pc[t] \notin AppendedPCs, pc'[t] \notin AppendedPCs
      PROVE  Bound' /\ pc'[t] # "put.insert"
  <2>1. /\ \A u \in Threads : AppendedSize'[u] <= AppendedSize[u]
        /\ \A k \in Keys : LiveSize'[k] <= LiveSize[k]
        /\ \A f \in FileIds : flen[f] <= flen'[f]
        /\ reclaim' = reclaim
    BY <1>3, <1>5, <1>8 DEF indexVars
  <2> QED
    BY <1>1, <1>5, <1>8, <2>1, QuietBalance DEF Bound, AppendedPCs
<1>9. \/ \E out \in Outcomes : PutWrite(t, out) \/ DeleteWrite(t, out)
      \/ TreePut(t) \/ DeleteIndex(t)
      \/ UNCHANGED <<flen, indexVars>> /\ pc[t] \notin AppendedPCs /\ pc'[t] \notin AppendedPCs
  <2>1. ~SkipListInsert(t) /\ ~SkipListRemove(t)
    BY DEF Owed, SkipListInsert, SkipListRemove, Goto
  <2>2. PutIndex(t) => TreePut(t)
    BY WriteBatchAssumption DEF PutIndex
  <2>3. ASSUME NEW from \in EnginePCs \ AppendedPCs, NEW to \in EnginePCs \ AppendedPCs,
               Goto(t, from, to)
        PROVE  pc[t] \notin AppendedPCs /\ pc'[t] \notin AppendedPCs
    BY <1>1, <2>3, PCMoves DEF Goto
  <2>4. CASE \/ PutLock(t) \/ DeleteLock(t) \/ GetLock(t) \/ GetReturn(t)
           \/ \E out \in ReadOutcomes : GetRead(t, out)
    BY <2>3, <2>4 DEF PutLock, DeleteLock, GetLock, GetRead, GetReturn, diskVars,
                      EnginePCs, AppendedPCs
  <2>5. CASE EngineCall(t)
    <3>1. \/ \E from, to \in EnginePCs \ AppendedPCs : Goto(t, from, to)
          \/ pc[t] = "idle" /\ pc' = pc
      BY <2>5 DEF EngineCall, PutStart, DeleteStart, GetStart, Sync, EnginePCs, AppendedPCs
    <3>2. UNCHANGED <<flen, indexVars>>
      BY <2>5 DEF EngineCall, PutStart, DeleteStart, GetStart, Sync, diskVars
    <3> QED
      BY <2>3, <3>1, <3>2 DEF AppendedPCs
  <2> QED
    BY <2>1, <2>2, <2>4, <2>5 DEF EngineStep
<1>10. Bound' /\ pc'[t] # "put.insert"
  BY <1>6, <1>7, <1>8, <1>9
<1>11. \A u \in Threads : pc'[u] # "put.insert"
  BY <1>2, <1>10 DEF Owed
<1>12. \A u \in Threads : pc'[u] \notin BatchPCs => batchPos'[u] = NoPositions
  BY <1>2 DEF Owed, batchVars, EnginePCs, BatchPCs
<1> QED
  BY <1>10, <1>11, <1>12 DEF Owed, Bound

(* A step of a batch or a commit leaves the bytes of puts and deletes      *)
(* alone.                                                                  *)
LEMMA BatchStepsLeaveAppended ==
  ASSUME BatchCore, BatchCore', NEW t \in Threads, BatchCall(t) \/ BatchStep(t)
  PROVE  /\ \A u \in Threads : AppendedSize'[u] <= AppendedSize[u]
         /\ AppendedSize[t] = 0 /\ AppendedSize'[t] = 0
         /\ \A u \in Threads : pc'[u] = "put.insert" => pc[u] = "put.insert"
<1>1. CoreTypeOK /\ CoreTypeOK' /\ BatchShape /\ BatchShape'
  BY DEF BatchCore, CoreInv
<1>2. /\ pc[t] \in {"idle"} \cup BatchPCs /\ pc'[t] \in {"idle"} \cup BatchPCs
      /\ \A u \in Threads : u # t => pc'[u] = pc[u]
  BY <1>1, BatchStepPC
<1>3. \A u \in Threads : u # t => pos'[u] = pos[u]
  <2>1. ASSUME NEW out \in Outcomes, BatchWrite(t, out)
        PROVE  \A u \in Threads : u # t => pos'[u] = pos[u]
    BY <1>1, <2>1 DEF BatchWrite, AppendLogRecord, CoreTypeOK
  <2>2. \/ \E out \in Outcomes : BatchWrite(t, out)
        \/ pos' = pos
        \/ pos' = [pos EXCEPT ![t] = NoPos]
    BY DEF BatchCall, BatchStep, BatchPut, BatchDelete, CommitStart, BatchLock, BatchSync,
           BatchIndex, EndCommit, threadVars
  <2> QED
    BY <1>1, <2>1, <2>2 DEF CoreTypeOK
<1>4. pc[t] \notin AppendedPCs /\ pc'[t] \notin AppendedPCs
  BY <1>2 DEF BatchPCs, AppendedPCs
<1>5. AppendedSize[t] = 0 /\ AppendedSize'[t] = 0
  BY <1>4 DEF AppendedSize
<1>6. \A u \in Threads \ {t} : AppendedSize'[u] <= AppendedSize[u]
  BY <1>1, <1>2, <1>3, AppendedByOthers
<1> QED
  BY <1>2, <1>4, <1>5, <1>6 DEF AppendedPCs

(* Leaving commit, nothing waits any more.                                 *)
LEMMA EndCommitWaits ==
  ASSUME BatchShape, NEW t \in Threads, EndCommit(t)
  PROVE  /\ \A k \in Keys : WaitingSize'[k] = 0
         /\ batchPos'[t] = NoPositions
         /\ \A u \in Threads : u # t => batchPos'[u] = batchPos[u]
<1>1. batchLock' = NoThread /\ batchPos' = [batchPos EXCEPT ![t] = NoPositions]
  BY DEF EndCommit
<1> QED
  BY <1>1 DEF WaitingSize, BatchShape

(* A thread that holds batch_commit_lock is the one whose bytes wait.      *)
LEMMA WaitingOf ==
  ASSUME BatchCore, NEW t \in Threads, pc[t] \in BatchPCs, NEW k \in Keys
  PROVE  WaitingSize[k] = IF Unindexed(t, k) THEN batchPos[t][k].size ELSE 0
<1>1. batchLock = t /\ t # NoThread
  BY OneCommit, EngineAssumption DEF BatchCore
<1> QED
  BY <1>1 DEF WaitingSize

LEMMA WaitingOfNext ==
  ASSUME NEW t \in Threads, batchLock' = t, NEW k \in Keys
  PROVE  WaitingSize'[k] = IF Unindexed(t, k)' THEN batchPos'[t][k].size ELSE 0
BY EngineAssumption DEF WaitingSize, Unindexed

(* A step of a batch that enters nothing into the index keeps the balance  *)
(* when no more waits after it.                                            *)
LEMMA QuietBatchBalance ==
  ASSUME BatchCore, BatchCore', Owed, NEW t \in Threads, BatchCall(t) \/ BatchStep(t),
         UNCHANGED indexVars,
         \A k \in Keys : WaitingSize'[k] <= WaitingSize[k],
         \A f \in FileIds : flen[f] <= flen'[f]
  PROVE  (OwedBytes <= Total(flen, FileIds))'
<1>1. CoreTypeOK /\ CoreTypeOK' /\ BatchShape /\ BatchShape'
  BY DEF BatchCore, CoreInv
<1>2. \A u \in Threads : AppendedSize'[u] <= AppendedSize[u]
  BY BatchStepsLeaveAppended
<1>3. \A k \in Keys : LiveSize'[k] <= LiveSize[k]
  <2>1. LiveSize' = LiveSize
    BY DEF LiveSize, indexVars
  <2> QED
    BY <1>1, <2>1, BytesTyped
<1> QED
  BY <1>1, <1>2, <1>3, QuietBalance DEF Owed, indexVars

(* The steps of a batch before and after the loops of commit.              *)
LEMMA BatchCallsBalance ==
  ASSUME BatchCore, BatchCore', Owed, NEW t \in Threads,
         BatchCall(t) \/ BatchLock(t)
         \/ \E out \in Outcomes \cap {"ok", "sync"} : BatchSync(t, out)
  PROVE  Owed'
<1>1. /\ CoreTypeOK /\ CoreTypeOK' /\ BatchShape /\ BatchShape'
      /\ BatchCall(t) \/ BatchStep(t)
  BY DEF BatchCore, CoreInv, BatchStep
<1>2. WaitingSize \in [Keys -> Nat] /\ flen \in [FileIds -> Nat]
  BY <1>1, BytesTyped DEF CoreTypeOK
<1>3. /\ \A u \in Threads : pc'[u] = "put.insert" => pc[u] = "put.insert"
      /\ \A u \in Threads : u # t => pc'[u] = pc[u]
  BY <1>1, BatchStepsLeaveAppended, BatchStepPC
<1>4. ASSUME UNCHANGED <<flen, indexVars>>,
             \A k \in Keys : WaitingSize'[k] <= WaitingSize[k],
             \A u \in Threads : pc'[u] \notin BatchPCs => batchPos'[u] = NoPositions
      PROVE  Owed'
  <2>1. \A f \in FileIds : flen[f] <= flen'[f]
    BY <1>2, <1>4
  <2>2. (OwedBytes <= Total(flen, FileIds))'
    BY <1>1, <1>4, <2>1, QuietBatchBalance
  <2> QED
    BY <1>3, <1>4, <2>2 DEF Owed
<1>5. CASE \/ \E k \in Keys, v \in Values : BatchPut(t, k, v)
           \/ \E k \in Keys, out \in ReadOutcomes : BatchDelete(t, k, out)
  <2>1. UNCHANGED <<flen, indexVars, pc, batchLock, order, item, batchPos>>
    BY <1>5 DEF BatchPut, BatchDelete, diskVars, commitVars
  <2>2. WaitingSize' = WaitingSize
    BY <1>1, <2>1, WaitingUndisturbed
  <2> QED
    BY <1>2, <1>4, <2>1, <2>2 DEF Owed
<1>6. CASE CommitStart(t)
  <2>1. /\ UNCHANGED <<flen, indexVars, batchPos>>
        /\ pc[t] = "idle" /\ batchLock' = t
    BY <1>6 DEF CommitStart, Goto, diskVars
  <2>2. batchPos[t] = NoPositions /\ \A k \in Keys : batchPos[t][k].size = 0
    BY <2>1 DEF Owed, BatchPCs, NoPositions, NoPos, Pos
  <2>3. \A k \in Keys : WaitingSize'[k] = 0
    BY <2>1, <2>2, WaitingOfNext
  <2>4. \A u \in Threads : pc'[u] \notin BatchPCs => batchPos'[u] = NoPositions
    BY <1>3, <2>1, <2>2 DEF Owed
  <2> QED
    BY <1>2, <1>4, <2>1, <2>3, <2>4
<1>7. CASE BatchLock(t)
  <2>1. /\ UNCHANGED <<flen, indexVars, batchVars>>
        /\ pc[t] = "batch.lock" /\ pc'[t] = "batch.write"
    BY <1>1, <1>7 DEF BatchLock, Goto, diskVars, CoreTypeOK
  <2>2. WaitingSize' = WaitingSize
    BY <1>1, <1>3, <2>1, WaitingUndisturbed DEF batchVars
  <2>3. \A u \in Threads : pc'[u] \notin BatchPCs => batchPos'[u] = NoPositions
    BY <1>3, <2>1 DEF Owed, batchVars, BatchPCs
  <2> QED
    BY <1>2, <1>4, <2>1, <2>2, <2>3
<1>8. ASSUME NEW out \in Outcomes \cap {"ok", "sync"}, BatchSync(t, out)
      PROVE  Owed'
  <2>1. /\ UNCHANGED <<flen, indexVars>>
        /\ pc[t] = "batch.sync" /\ pc[t] \in BatchPCs
        /\ out = "ok" => UNCHANGED <<batchLock, commitVars>> /\ pc'[t] = "batch.index"
        /\ out # "ok" => EndCommit(t) /\ pc'[t] = "idle"
    BY <1>1, <1>8 DEF BatchSync, Goto, CoreTypeOK, BatchPCs
  <2>2. CASE out = "ok"
    <3>1. ASSUME NEW k \in Keys PROVE WaitingSize'[k] <= WaitingSize[k]
      <4>1. batchLock' = t /\ batchPos' = batchPos
        BY <2>1, <2>2, OneCommit DEF BatchCore, commitVars
      <4>2. WaitingSize[k] = batchPos[t][k].size
        BY <2>1, WaitingOf DEF Unindexed
      <4>3. WaitingSize'[k] \in {batchPos[t][k].size, 0}
        BY <4>1, WaitingOfNext
      <4> QED
        BY <1>2, <4>2, <4>3
    <3>2. \A u \in Threads : pc'[u] \notin BatchPCs => batchPos'[u] = NoPositions
      BY <1>3, <2>1, <2>2 DEF Owed, commitVars, BatchPCs
    <3> QED
      BY <1>4, <2>1, <3>1, <3>2
  <2>3. CASE out # "ok"
    <3>1. /\ \A k \in Keys : WaitingSize'[k] = 0
          /\ \A u \in Threads : pc'[u] \notin BatchPCs => batchPos'[u] = NoPositions
      BY <1>1, <1>3, <2>1, <2>3, EndCommitWaits DEF Owed
    <3> QED
      BY <1>2, <1>4, <2>1, <3>1
  <2> QED
    BY <2>2, <2>3
<1> QED
  BY <1>5, <1>6, <1>7, <1>8 DEF BatchCall

(* The loop that appends the records of a batch: a record that is written  *)
(* waits for the loop over the index, the seal is owed to nobody, and a    *)
(* commit that fails gives up what it has written.                         *)
LEMMA BatchWriteBalances ==
  ASSUME BatchCore, BatchCore', Owed, NEW t \in Threads,
         NEW out \in Outcomes, BatchWrite(t, out)
  PROVE  Owed'
<1>1. /\ CoreTypeOK /\ CoreTypeOK' /\ BatchShape /\ BatchShape'
      /\ BatchCall(t) \/ BatchStep(t)
  BY DEF BatchCore, CoreInv, BatchStep
<1>2. WaitingSize \in [Keys -> Nat] /\ WaitingSize' \in [Keys -> Nat] /\ flen \in [FileIds -> Nat]
  BY <1>1, BytesTyped, TypedNext DEF CoreTypeOK
<1>3. /\ \A u \in Threads : pc'[u] = "put.insert" => pc[u] = "put.insert"
      /\ \A u \in Threads : u # t => pc'[u] = pc[u]
  BY <1>1, BatchStepsLeaveAppended, BatchStepPC
<1>4. /\ pc[t] = "batch.write" /\ pc[t] \in BatchPCs /\ UNCHANGED indexVars
      /\ AppendLogRecord(t, BatchRecord(t), out)
  BY DEF BatchWrite, Goto, BatchPCs
<1>5. BatchRecord(t) \in LogRecord
  BY <1>4, BatchRecordTyped
<1>6. /\ \A f \in FileIds : flen[f] <= flen'[f]
      /\ out = "ok" => \E f \in FileIds : flen'[f] = flen[f] + pos'[t].size
  BY <1>1, <1>4, <1>5, AppendAddsBytes
<1>7. \A k \in Keys : WaitingSize[k] = batchPos[t][k].size
  BY <1>4, WaitingOf DEF Unindexed
<1>8. CASE out # "ok"
  <2>1. EndCommit(t)
    BY <1>8 DEF BatchWrite
  <2>2. /\ \A k \in Keys : WaitingSize'[k] <= WaitingSize[k]
        /\ \A u \in Threads : pc'[u] \notin BatchPCs => batchPos'[u] = NoPositions
    BY <1>1, <1>2, <1>3, <2>1, EndCommitWaits DEF Owed
  <2> QED
    BY <1>1, <1>3, <1>4, <1>6, <2>2, QuietBatchBalance DEF Owed
<1>9. CASE out = "ok" /\ ~MoreItems(t)
  <2>1. /\ pc'[t] \in {"batch.sync", "batch.index"}
        /\ item' = [item EXCEPT ![t] = 1]
        /\ UNCHANGED <<batchPos, batchLock>>
    BY <1>1, <1>9 DEF BatchWrite, Goto, AfterSeal, CoreTypeOK
  <2>2. item'[t] = 1 /\ batchLock' = t
    BY <1>1, <1>4, <2>1, OneCommit DEF BatchCore, BatchShape
  <2>3. \A k \in Keys : WaitingSize'[k] <= WaitingSize[k]
    BY <1>2, <1>7, <2>1, <2>2, WaitingOfNext DEF Unindexed
  <2>4. \A u \in Threads : pc'[u] \notin BatchPCs => batchPos'[u] = NoPositions
    BY <1>3, <2>1 DEF Owed, BatchPCs
  <2> QED
    BY <1>1, <1>3, <1>4, <1>6, <2>3, <2>4, QuietBatchBalance DEF Owed
<1>10. CASE out = "ok" /\ MoreItems(t)
  <2> DEFINE k == ItemKey(t)
  <2>1. /\ pc'[t] = "batch.lock" /\ batchLock' = t
        /\ batchPos' = [batchPos EXCEPT ![t][k] = pos'[t]]
    BY <1>1, <1>4, <1>10, OneCommit DEF BatchWrite, Goto, CoreTypeOK, BatchCore
  <2>2. k \in Keys
    BY <1>4, <1>10, BatchRecordTyped DEF PendingKeys
  <2> HIDE DEF k
  <2>3. /\ batchPos'[t][k] = pos'[t]
        /\ \A j \in Keys \ {k} : batchPos'[t][j] = batchPos[t][j]
        /\ \A u \in Threads : u # t => batchPos'[u] = batchPos[u]
    BY <1>1, <2>1, <2>2 DEF BatchShape
  <2>4. \A j \in Keys : WaitingSize'[j] = batchPos'[t][j].size
    BY <2>1, WaitingOfNext DEF Unindexed
  <2>5. \A j \in Keys \ {k} : WaitingSize'[j] <= WaitingSize[j]
    BY <1>2, <1>7, <2>3, <2>4
  <2>6. WaitingSize'[k] = pos'[t].size
    BY <2>2, <2>3, <2>4
  <2>7. PICK f \in FileIds : flen'[f] = flen[f] + pos'[t].size
    BY <1>6, <1>10
  <2>8. /\ \A u \in Threads : AppendedSize'[u] <= AppendedSize[u]
        /\ AppendedSize[t] = 0 /\ AppendedSize'[t] = 0
    BY <1>1, BatchStepsLeaveAppended
  <2>9. LiveSize' = LiveSize /\ LiveSize \in [Keys -> Nat] /\ reclaim' = reclaim /\ reclaim \in Nat
    BY <1>1, <1>4, BytesTyped DEF LiveSize, indexVars, CoreTypeOK
  <2>10. reclaim' + LiveSize'[k] + AppendedSize'[t] + WaitingSize'[k] + flen[f]
           <= reclaim + LiveSize[k] + AppendedSize[t] + WaitingSize[k] + flen'[f]
    <3>1. /\ flen[f] \in Nat /\ WaitingSize[k] \in Nat /\ WaitingSize'[k] \in Nat
          /\ LiveSize[k] \in Nat
      BY <1>2, <2>2, <2>9
    <3> QED
      BY <2>6, <2>7, <2>8, <2>9, <3>1
  <2>11. \A j \in Keys : LiveSize'[j] <= LiveSize[j]
    BY <2>9
  <2>12. (OwedBytes <= Total(flen, FileIds))'
    BY <1>1, <1>6, <2>2, <2>5, <2>8, <2>10, <2>11, StepBalance DEF Owed
  <2>13. \A u \in Threads : pc'[u] \notin BatchPCs => batchPos'[u] = NoPositions
    BY <1>3, <2>1, <2>3 DEF Owed, BatchPCs
  <2> QED
    BY <1>3, <2>12, <2>13 DEF Owed
<1> QED
  BY <1>8, <1>9, <1>10

(* The loop over the index: each record of the batch is entered or, a      *)
(* tombstone, forgotten; the entry it replaces goes to reclaim_size.       *)
LEMMA BatchIndexBalances ==
  ASSUME BatchCore, BatchCore', Owed, NEW t \in Threads, BatchIndex(t)
  PROVE  Owed'
<1>1. PICK k \in Keys : k = ItemKey(t)
  BY ItemInLog DEF BatchIndex, Goto
<1> DEFINE n == Cardinality(PendingKeys(t))
           last == item[t] = n
           p == IF pending[t][k].type = "Normal" THEN batchPos[t][k] ELSE NoPos
<1>2. /\ CoreTypeOK /\ CoreTypeOK' /\ BatchShape /\ BatchShape'
      /\ BatchCall(t) \/ BatchStep(t)
  BY DEF BatchCore, CoreInv, BatchStep
<1>3. /\ WaitingSize \in [Keys -> Nat] /\ WaitingSize' \in [Keys -> Nat]
      /\ LiveSize \in [Keys -> Nat] /\ LiveSize' \in [Keys -> Nat]
      /\ flen \in [FileIds -> Nat]
      /\ reclaim \in Nat
  BY <1>2, BytesTyped, TypedNext DEF CoreTypeOK
<1>4. /\ \A u \in Threads : pc'[u] = "put.insert" => pc[u] = "put.insert"
      /\ \A u \in Threads : u # t => pc'[u] = pc[u]
      /\ \A u \in Threads : AppendedSize'[u] <= AppendedSize[u]
      /\ AppendedSize[t] = 0 /\ AppendedSize'[t] = 0
  BY <1>2, BatchStepsLeaveAppended, BatchStepPC
<1>5. /\ pc[t] = "batch.index" /\ pc[t] \in BatchPCs /\ flen' = flen
      /\ IF last THEN EndCommit(t)
                 ELSE /\ pc'[t] = "batch.index"
                      /\ item' = [item EXCEPT ![t] = @ + 1]
                      /\ UNCHANGED <<batchLock, order, batchPos>>
  BY <1>2 DEF BatchIndex, Goto, BatchPCs, diskVars, CoreTypeOK
<1>6. index' = [index EXCEPT ![k] = p] /\ reclaim' = reclaim + index[k].size
  <2>1. /\ pending[t][k].type = "Normal" => IndexPut(k, batchPos[t][k])
        /\ pending[t][k].type # "Normal" => IndexDelete(k, 0)
    BY <1>1 DEF BatchIndex
  <2> QED
    BY <1>3, <2>1 DEF IndexPut, IndexDelete
<1>7. /\ n \in Nat /\ item[t] \in 1..n /\ k = order[t][item[t]]
      /\ order[t] \in Bijection(1..n, PendingKeys(t))
  <2>1. CommitSound(t) /\ PendingSound
    BY <1>5 DEF BatchCore
  <2> QED
    BY <1>1, <1>5, <2>1, PendingCount DEF CommitSound, ItemKey
<1> HIDE DEF n
<1>8. WaitingSize[k] = batchPos[t][k].size
  <2>1. Unindexed(t, k)
    <3> SUFFICES ASSUME NEW i \in 1..item[t] - 1, order[t][i] = k PROVE FALSE
      BY DEF Unindexed
    <3>1. i \in 1..n /\ i # item[t]
      BY <1>7
    <3>2. \A a, b \in 1..n : order[t][a] = order[t][b] => a = b
      BY <1>7, OrderFacts
    <3> QED
      BY <1>7, <3>1, <3>2
  <2> QED
    BY <1>5, <2>1, WaitingOf
<1>9. WaitingSize'[k] = 0 /\ \A j \in Keys : WaitingSize'[j] <= WaitingSize[j]
  <2>1. CASE last
    BY <1>2, <1>3, <1>5, <2>1, EndCommitWaits
  <2>2. CASE ~last
    <3>1. /\ item'[t] = item[t] + 1 /\ batchLock' = t
          /\ order' = order /\ batchPos' = batchPos /\ pc'[t] = "batch.index"
      BY <1>2, <1>5, <2>2, OneCommit DEF BatchCore, BatchShape
    <3>2. item[t] \in Nat /\ item[t] >= 1
      BY <1>7
    <3>3. ~Unindexed(t, k)'
      <4>1. item[t] \in 1..item'[t] - 1
        BY <3>1, <3>2
      <4> QED
        BY <1>7, <3>1, <4>1 DEF Unindexed
    <3>4. ASSUME NEW j \in Keys PROVE WaitingSize'[j] <= WaitingSize[j]
      <4>1. Unindexed(t, j)' => Unindexed(t, j)
        BY <3>1, <3>2 DEF Unindexed
      <4>2. WaitingSize'[j] = IF Unindexed(t, j)' THEN batchPos[t][j].size ELSE 0
        BY <3>1, WaitingOfNext
      <4>3. WaitingSize[j] = IF Unindexed(t, j) THEN batchPos[t][j].size ELSE 0
        BY <1>5, WaitingOf
      <4> QED
        BY <1>3, <4>1, <4>2, <4>3
    <3> QED
      BY <3>1, <3>3, <3>4, WaitingOfNext
  <2> QED
    BY <2>1, <2>2
<1>10. /\ LiveSize'[k] = p.size /\ reclaim' = reclaim + LiveSize[k]
       /\ \A j \in Keys \ {k} : LiveSize'[j] <= LiveSize[j]
  <2>1. index'[k] = p /\ \A j \in Keys \ {k} : index'[j] = index[j]
    BY <1>2, <1>6 DEF CoreTypeOK
  <2>2. /\ \A j \in Keys : LiveSize'[j] = index'[j].size /\ LiveSize[j] = index[j].size
        /\ \A j \in Keys : LiveSize[j] \in Nat
    BY <1>3 DEF LiveSize
  <2> HIDE DEF p
  <2> QED
    BY <1>6, <2>1, <2>2
<1>11. p.size \in Nat /\ p.size <= batchPos[t][k].size
  <2>1. batchPos[t][k] \in MaybePositions
    BY <1>2 DEF BatchShape
  <2> QED
    BY <2>1, PositionSize DEF NoPos, Pos
<1>12. PICK f \in FileIds : flen[f] \in Nat /\ flen'[f] = flen[f]
  BY <1>2, <1>5 DEF CoreTypeOK
<1>13. reclaim' + LiveSize'[k] + AppendedSize'[t] + WaitingSize'[k] + flen[f]
         <= reclaim + LiveSize[k] + AppendedSize[t] + WaitingSize[k] + flen'[f]
  <2>1. LiveSize[k] \in Nat /\ WaitingSize[k] \in Nat
    BY <1>3
  <2> HIDE DEF p
  <2> QED
    BY <1>3, <1>4, <1>8, <1>9, <1>10, <1>11, <1>12, <2>1
<1>14. \A g \in FileIds : flen[g] <= flen'[g]
  BY <1>3, <1>5
<1>15. (OwedBytes <= Total(flen, FileIds))'
  BY <1>2, <1>4, <1>9, <1>10, <1>13, <1>14, StepBalance DEF Owed
<1>16. \A u \in Threads : pc'[u] \notin BatchPCs => batchPos'[u] = NoPositions
  BY <1>2, <1>4, <1>5, EndCommitWaits DEF Owed
<1> QED
  BY <1>4, <1>15, <1>16 DEF Owed

(* A merge appends nothing to the files of the engine and leaves its index *)
(* and reclaim_size alone.                                                 *)
LEMMA MergeStepsBalance ==
  ASSUME BatchCore, BatchCore', Owed, NEW t \in Threads, MergeStart(t) \/ MergeStep(t)
  PROVE  Owed'
<1>1. CoreTypeOK /\ CoreTypeOK' /\ BatchShape /\ BatchShape'
  BY DEF BatchCore, CoreInv
<1>2. UNCHANGED <<flen, indexVars, threadVars, batchVars>>
  BY DEF MergeStart, MergeStep, MergeLockOlder, MergeRotate, MergeScan, MergeSync,
         MergeCreateFin, MergeWriteFin, diskVars
<1>3. \/ \E from, to \in {"idle"} \cup MergePCs : Goto(t, from, to)
      \/ pc[t] \in MergePCs /\ pc' = pc
  <2>1. CASE \E out \in ScanOutcomes : MergeScan(t, out)
    BY <2>1 DEF MergeScan, Goto, MergePCs
  <2>2. CASE ~\E out \in ScanOutcomes : MergeScan(t, out)
    BY <2>2 DEF MergeStart, MergeStep, MergeLockOlder, MergeRotate, MergeSync,
                MergeCreateFin, MergeWriteFin, MergePCs
  <2> QED
    BY <2>1, <2>2
<1>4. /\ \A u \in Threads : u # t => pc'[u] = pc[u]
      /\ pc[t] \in {"idle"} \cup MergePCs /\ pc'[t] \in {"idle"} \cup MergePCs
  BY <1>1, <1>3, PCMoves DEF Goto
<1>5. \A u \in Threads : pc'[u] = pc[u] \/ {pc[u], pc'[u]} \subseteq {"idle"} \cup MergePCs
  BY <1>4
<1>6. /\ LiveSize' = LiveSize /\ WaitingSize' = WaitingSize /\ AppendedSize' = AppendedSize
      /\ flen' = flen /\ reclaim' = reclaim
  <2>1. LiveSize' = LiveSize /\ flen' = flen /\ reclaim' = reclaim /\ pos' = pos
    BY <1>2 DEF LiveSize, indexVars, threadVars
  <2>2. WaitingSize' = WaitingSize
    <3>1. \A u \in Threads : pc[u] = "batch.index" <=> pc'[u] = "batch.index"
      BY <1>5, MergePCsApart DEF BatchPCs
    <3> QED
      BY <1>1, <1>2, <3>1, WaitingUndisturbed DEF batchVars
  <2>3. \A u \in Threads : pc[u] \in AppendedPCs <=> pc'[u] \in AppendedPCs
    BY <1>5 DEF AppendedPCs, MergePCs
  <2> QED
    BY <2>1, <2>2, <2>3 DEF AppendedSize
<1>7. (OwedBytes <= Total(flen, FileIds))'
  BY <1>6 DEF Owed, OwedBytes
<1>8. \A u \in Threads : pc'[u] # "put.insert"
  BY <1>5, MergePCsApart DEF Owed, EnginePCs
<1>9. \A u \in Threads : pc'[u] \notin BatchPCs => batchPos'[u] = NoPositions
  BY <1>2, <1>5, MergePCsApart DEF Owed, batchVars
<1> QED
  BY <1>7, <1>8, <1>9 DEF Owed

LEMMA StutterBalances ==
  ASSUME Owed, UNCHANGED <<engineVars, batchVars>>
  PROVE  Owed'
BY DEF Owed, OwedBytes, LiveSize, AppendedSize, WaitingSize, Unindexed, engineVars, diskVars,
       indexVars, threadVars, batchVars

LEMMA OwedNext ==
  ASSUME MergeInv, MergeInv', Owed, [MergeNext]_<<engineVars, batchVars, mergeVars>>
  PROVE  Owed'
<1>1. BatchCore /\ BatchCore'
  BY DEF MergeInv
<1>2. ASSUME NEW t \in Threads, BatchStep(t) PROVE Owed'
  BY <1>1, <1>2, BatchCallsBalance, BatchWriteBalances, BatchIndexBalances DEF BatchStep
<1> QED
  BY <1>1, <1>2, EngineStepsBalance, BatchCallsBalance, MergeStepsBalance, StutterBalances
  DEF MergeNext, BatchNext, EngineNext

(* An empty engine owes nothing.                                           *)
LEMMA OwedInit == EngineInit /\ BatchInit => Owed
<1> SUFFICES ASSUME EngineInit, BatchInit PROVE Owed
  OBVIOUS
<1>1. CoreTypeOK /\ BatchShape
  BY BatchInitSatisfies DEF BatchInv, BatchCore, CoreInv
<1>2. /\ \A k \in Keys : LiveSize[k] = 0 /\ WaitingSize[k] = 0
      /\ \A t \in Threads : AppendedSize[t] = 0
  BY DEF EngineInit, BatchInit, LiveSize, WaitingSize, AppendedSize, AppendedPCs, NoPos, Pos
<1>3. ASSUME NEW S, NEW g, \A x \in S : g[x] = 0 PROVE Total(g, S) = 0
  <2>1. Units(g, S) = {}
    BY <1>3 DEF Units
  <2> QED
    BY <2>1, FS_EmptySet DEF Total
<1>4. OwedBytes = 0
  BY <1>2, <1>3 DEF OwedBytes, EngineInit
<1>5. OwedBytes <= Total(flen, FileIds)
  BY <1>1, <1>4, TotalsTyped
<1> QED
  BY <1>5 DEF Owed, EngineInit, BatchInit

-----------------------------------------------------------------------------
(* The inductive invariant of the byte counts, through puts, deletes,      *)
(* commits that fail at any call or succeed, and merges that may fail at   *)
(* any call but the opening of the file that was active.                   *)
THEOREM ReclaimInvariant ==
  ASSUME OldFileReopens
  PROVE  MergeSpec => []ReclaimInv
<1>1. MergeInv /\ Owed => ReclaimInv
  <2> SUFFICES ASSUME MergeInv, Owed PROVE ReclaimInv
    OBVIOUS
  <2>1. CoreTypeOK /\ BatchShape
    BY DEF MergeInv, BatchCore, CoreInv
  <2> QED
    BY <2>1, BytesCounted DEF Owed, OwedBytes, ReclaimInv
<1>2. EngineInit /\ BatchInit /\ MergeInit => Owed
  BY OwedInit
<1>3. MergeInv /\ MergeInv' /\ Owed /\ [MergeNext]_<<engineVars, batchVars, mergeVars>> => Owed'
  BY OwedNext
<1> QED
  BY <1>1, <1>2, <1>3, MergeInvariant, PTL DEF MergeSpec

(* reclaim_size, with what the index needs and what is about to be entered *)
(* or reclaimed, stays within the bytes of the files, so that the          *)
(* subtraction by which merge decides whether to run cannot underflow.     *)
THEOREM BytesNeverClaimedTwice ==
  ASSUME OldFileReopens
  PROVE  MergeSpec => []ReclaimAccounting
<1>1. MergeInv /\ ReclaimInv => ReclaimAccounting
  <2> SUFFICES ASSUME MergeInv, ReclaimInv PROVE ReclaimAccounting
    OBVIOUS
  <2>1. CoreTypeOK /\ BatchShape
    BY DEF MergeInv, BatchCore, CoreInv
  <2> QED
    BY <2>1, BytesCounted, TotalsTyped DEF ReclaimInv, ReclaimAccounting
<1> QED
  BY <1>1, MergeInvariant, ReclaimInvariant, PTL
=============================================================================
