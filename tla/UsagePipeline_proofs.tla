------------------------ MODULE UsagePipeline_proofs ------------------------
(***************************************************************************)
(* Proofs about UsagePipeline, for any number of nodes, users, bytes and   *)
(* charging jobs and any multipliers: no byte enters the history twice,    *)
(* the history is the ledger of UsageLedger, users are charged once, and   *)
(* the reset of the traffic is alone with the queues it has drained.       *)
(***************************************************************************)
EXTENDS UsagePipeline, FiniteSetTheorems, WellFoundedInduction, TLAPS

-----------------------------------------------------------------------------
(* Sums of natural numbers over a finite set.  The steps of an induction on  *)
(* the subsets are taken by looking at the least one that fails.             *)

\* Every set of natural numbers has a least member.
LEMMA LeastNatural ==
    ASSUME NEW T \in SUBSET Nat, T # {}
    PROVE  \E m \in T : \A k \in T : m <= k
<1>1. PICK m \in T : \A k \in T : ~(<<k, m>> \in OpToRel(<, Nat))
  BY NatLessThanWellFounded, WFMin
<1>2. \A k \in T : ~(k < m)
  BY <1>1 DEF OpToRel
<1> QED BY <1>2

\* The member that a sum takes first, and what the sums over the subsets of S are
\* when they take one member after the other.
First(s) == CHOOSE x \in s : TRUE

Sums(f, S, g) ==
    g = [s \in SUBSET S |-> IF s = {} THEN 0 ELSE f[First(s)] + g[s \ {First(s)}]]

\* The same for the subsets of at most n members.
Small(S, n) == {s \in SUBSET S : Cardinality(s) <= n}

SumsUpTo(f, S, n, g) ==
    /\ g \in [Small(S, n) -> Nat]
    /\ \A s \in Small(S, n) :
          g[s] = IF s = {} THEN 0 ELSE f[First(s)] + g[s \ {First(s)}]

\* A set without its first member is smaller by one.
LEMMA OneLess ==
    ASSUME NEW S, IsFiniteSet(S), NEW s \in SUBSET S, s # {}
    PROVE  /\ First(s) \in s /\ s \ {First(s)} \in SUBSET S
           /\ Cardinality(s) \in Nat /\ Cardinality(s) > 0
           /\ Cardinality(s \ {First(s)}) = Cardinality(s) - 1
<1>1. First(s) \in s
  BY DEF First
<1>2. IsFiniteSet(s) /\ Cardinality(s) \in Nat
  BY FS_Subset, FS_CardinalityType
<1>3. Cardinality(s) # 0
  BY <1>2, FS_EmptySet
<1>4. Cardinality(s \ {First(s)}) = Cardinality(s) - 1
  BY <1>1, <1>2, FS_RemoveElement
<1> QED BY <1>1, <1>2, <1>3, <1>4

\* Sums over small sets give those over sets with one member more, so that there
\* are sums over all subsets, and the fold is one of them.
LEMMA LargerSums ==
    ASSUME NEW S, IsFiniteSet(S), NEW f \in [S -> Nat], NEW n \in Nat,
           NEW g, SumsUpTo(f, S, n, g)
    PROVE  \E h : SumsUpTo(f, S, n + 1, h)
<1> DEFINE h == [s \in Small(S, n + 1) |->
                   IF s = {} THEN 0 ELSE f[First(s)] + g[s \ {First(s)}]]
<1>1. ASSUME NEW s \in Small(S, n + 1), s # {}
      PROVE  f[First(s)] \in Nat /\ s \ {First(s)} \in Small(S, n)
  BY <1>1, OneLess DEF Small
<1>2. h \in [Small(S, n + 1) -> Nat]
  BY <1>1 DEF SumsUpTo
<1>3. \A s \in Small(S, n) : s \in Small(S, n + 1) /\ h[s] = g[s]
  <2>1. \A s \in Small(S, n) : s \in Small(S, n + 1)
    BY FS_Subset, FS_CardinalityType DEF Small
  <2> QED BY <2>1 DEF SumsUpTo
<1>4. ASSUME NEW s \in Small(S, n + 1)
      PROVE  h[s] = IF s = {} THEN 0 ELSE f[First(s)] + h[s \ {First(s)}]
  BY <1>1, <1>3
<1>5. SumsUpTo(f, S, n + 1, h)
  BY <1>2, <1>4 DEF SumsUpTo
<1> QED BY <1>5

LEMMA SmallSumsExist ==
    ASSUME NEW S, IsFiniteSet(S), NEW f \in [S -> Nat]
    PROVE  \A n \in Nat : \E g : SumsUpTo(f, S, n, g)
<1> DEFINE Bad == {n \in Nat : ~ \E g : SumsUpTo(f, S, n, g)}
<1>1. \E g : SumsUpTo(f, S, 0, g)
  <2> DEFINE g == [s \in Small(S, 0) |-> 0]
  <2>1. \A s \in Small(S, 0) : s = {}
    <3> SUFFICES ASSUME NEW s \in SUBSET S, s # {}, Cardinality(s) <= 0 PROVE FALSE
      BY DEF Small
    <3>1. Cardinality(s) \in Nat /\ Cardinality(s) > 0
      BY OneLess
    <3> QED BY <3>1
  <2>2. SumsUpTo(f, S, 0, g)
    BY <2>1 DEF SumsUpTo
  <2> QED BY <2>2
<1>2. SUFFICES ASSUME Bad # {} PROVE FALSE
  OBVIOUS
<1>3. PICK m \in Bad : \A k \in Bad : m <= k
  BY <1>2, LeastNatural
<1>4. m # 0 /\ m - 1 \in Nat /\ m - 1 \notin Bad /\ (m - 1) + 1 = m
  BY <1>1, <1>3
<1>5. PICK g : SumsUpTo(f, S, m - 1, g)
  BY <1>4
<1>6. \E h : SumsUpTo(f, S, m, h)
  BY <1>4, <1>5, LargerSums
<1> QED BY <1>6

LEMMA SumsExist ==
    ASSUME NEW S, IsFiniteSet(S), NEW f \in [S -> Nat]
    PROVE  \E g : Sums(f, S, g) /\ g \in [SUBSET S -> Nat]
<1>1. Cardinality(S) \in Nat
  BY FS_CardinalityType
<1>2. PICK g : SumsUpTo(f, S, Cardinality(S), g)
  BY <1>1, SmallSumsExist
<1>3. Small(S, Cardinality(S)) = SUBSET S
  BY FS_Subset DEF Small
<1>4. g \in [SUBSET S -> Nat] /\ \A s \in SUBSET S :
          g[s] = IF s = {} THEN 0 ELSE f[First(s)] + g[s \ {First(s)}]
  BY <1>2, <1>3 DEF SumsUpTo
<1>5. Sums(f, S, g)
  BY <1>4 DEF Sums
<1> QED BY <1>4, <1>5

\* What holds of the empty set and of a set when it holds without its first member
\* holds of every subset of S.
LEMMA SetInduction ==
    ASSUME NEW S, IsFiniteSet(S), NEW Good \in SUBSET SUBSET S,
           {} \in Good,
           \A s \in SUBSET S : s # {} /\ s \ {First(s)} \in Good => s \in Good
    PROVE  Good = SUBSET S
<1> DEFINE Bad == {Cardinality(s) : s \in (SUBSET S) \ Good}
<1>1. SUFFICES ASSUME (SUBSET S) \ Good # {} PROVE FALSE
  OBVIOUS
<1>2. Bad \in SUBSET Nat /\ Bad # {}
  BY <1>1, FS_Subset, FS_CardinalityType
<1>3. PICK m \in Bad : \A k \in Bad : m <= k
  BY <1>2, LeastNatural
<1>4. PICK s \in (SUBSET S) \ Good : m = Cardinality(s)
  BY <1>3
<1>5. s # {}
  BY <1>4
<1>6. s \ {First(s)} \in (SUBSET S) \ Good
  BY <1>5, <1>4
<1>7. Cardinality(s \ {First(s)}) \in Bad
  BY <1>6
<1>8. Cardinality(s) \in Nat /\ Cardinality(s \ {First(s)}) = Cardinality(s) - 1
  BY <1>5, OneLess
<1> HIDE DEF Bad
<1>9. Cardinality(s) <= Cardinality(s \ {First(s)})
  BY <1>3, <1>4, <1>7
<1> QED BY <1>8, <1>9

LEMMA SumFunctionIsSum ==
    ASSUME NEW S, IsFiniteSet(S), NEW f \in [S -> Nat]
    PROVE  \E g : Sums(f, S, g) /\ g \in [SUBSET S -> Nat] /\ SumFunction(f) = g[S]
<1> DEFINE it == CHOOSE g : Sums(f, S, g)
<1>1. DOMAIN f = S
  OBVIOUS
<1>2. SumFunction(f) = it[S]
  BY <1>1 DEF SumFunction, SumFunctionOnSet, FoldFunctionOnSet, MapThenFoldSet, Sums, First
<1>3. Sums(f, S, it)
  BY SumsExist
<1> HIDE DEF it
<1>4. \A s \in SUBSET S : it[s] = IF s = {} THEN 0 ELSE f[First(s)] + it[s \ {First(s)}]
  BY <1>3 DEF Sums
<1>5. {s \in SUBSET S : it[s] \in Nat} = SUBSET S
  <2> DEFINE Good == {s \in SUBSET S : it[s] \in Nat}
  <2>1. {} \in Good
    <3>1. it[{}] = 0
      BY <1>4
    <3> QED BY <3>1
  <2>2. ASSUME NEW s \in SUBSET S, s # {}, s \ {First(s)} \in Good
        PROVE  s \in Good
    <3>1. First(s) \in S
      BY <2>2, OneLess
    <3>2. it[s] = f[First(s)] + it[s \ {First(s)}]
      BY <1>4, <2>2
    <3>3. f[First(s)] \in Nat /\ it[s \ {First(s)}] \in Nat
      BY <2>2, <3>1
    <3> QED BY <3>2, <3>3
  <2> HIDE DEF Good
  <2>3. Good \in SUBSET SUBSET S
    BY DEF Good
  <2>4. Good = SUBSET S
    BY <2>1, <2>2, <2>3, SetInduction
  <2> QED BY <2>4 DEF Good
<1>6. it \in [SUBSET S -> Nat]
  BY <1>3, <1>5 DEF Sums
<1> QED BY <1>2, <1>3, <1>6

\* A sum of natural numbers is one.
LEMMA SumType ==
    ASSUME NEW S, IsFiniteSet(S), NEW f \in [S -> Nat]
    PROVE  SumFunction(f) \in Nat
<1>1. PICK g : Sums(f, S, g) /\ g \in [SUBSET S -> Nat] /\ SumFunction(f) = g[S]
  BY SumFunctionIsSum
<1> QED BY <1>1

\* A sum is changed by what one of its summands changes.
LEMMA SumChange ==
    ASSUME NEW S, IsFiniteSet(S), NEW f \in [S -> Nat], NEW h \in [S -> Nat],
           NEW x \in S, \A y \in S \ {x} : h[y] = f[y]
    PROVE  SumFunction(h) + f[x] = SumFunction(f) + h[x]
<1>1. PICK F : Sums(f, S, F) /\ F \in [SUBSET S -> Nat] /\ SumFunction(f) = F[S]
  BY SumFunctionIsSum
<1>2. PICK H : Sums(h, S, H) /\ H \in [SUBSET S -> Nat] /\ SumFunction(h) = H[S]
  BY SumFunctionIsSum
<1>3. \A s \in SUBSET S : F[s] = IF s = {} THEN 0 ELSE f[First(s)] + F[s \ {First(s)}]
  BY <1>1 DEF Sums
<1>4. \A s \in SUBSET S : H[s] = IF s = {} THEN 0 ELSE h[First(s)] + H[s \ {First(s)}]
  BY <1>2 DEF Sums
<1> DEFINE Good == {s \in SUBSET S : IF x \in s THEN H[s] + f[x] = F[s] + h[x]
                                                ELSE H[s] = F[s]}
<1>5. {} \in Good
  BY <1>3, <1>4
<1>6. ASSUME NEW s \in SUBSET S, s # {}, s \ {First(s)} \in Good
      PROVE  s \in Good
  <2> DEFINE y == First(s)
             r == s \ {First(s)}
  <2>1. y \in s /\ y \in S /\ r \in SUBSET S
    BY <1>6, OneLess
  <2>2. F[s] = f[y] + F[r] /\ H[s] = h[y] + H[r]
    BY <1>3, <1>4, <1>6
  <2>3. F[r] \in Nat /\ H[r] \in Nat /\ f[x] \in Nat /\ h[x] \in Nat /\ f[y] \in Nat /\ h[y] \in Nat
    BY <1>1, <1>2, <2>1
  <2>4. x \in r <=> x \in s /\ x # y
    OBVIOUS
  <2>5. IF x \in r THEN H[r] + f[x] = F[r] + h[x] ELSE H[r] = F[r]
    BY <1>6
  <2>6. x # y => h[y] = f[y]
    BY <2>1
  <2> HIDE DEF y, r
  <2>7. IF x \in s THEN H[s] + f[x] = F[s] + h[x] ELSE H[s] = F[s]
    <3>1. CASE x = y
      BY <2>1, <2>2, <2>3, <2>4, <2>5, <3>1
    <3>2. CASE x # y
      BY <2>1, <2>2, <2>3, <2>4, <2>5, <2>6, <3>2
    <3> QED BY <3>1, <3>2
  <2> QED BY <2>7
<1> HIDE DEF Good
<1>7. Good \in SUBSET SUBSET S
  BY DEF Good
<1>8. Good = SUBSET S
  BY <1>5, <1>6, <1>7, SetInduction
<1>9. S \in Good
  BY <1>8
<1> QED BY <1>1, <1>2, <1>9 DEF Good

\* A sum of zeros.
LEMMA SumZero ==
    ASSUME NEW S, IsFiniteSet(S), NEW f \in [S -> Nat], \A x \in S : f[x] = 0
    PROVE  SumFunction(f) = 0
<1>1. PICK F : Sums(f, S, F) /\ F \in [SUBSET S -> Nat] /\ SumFunction(f) = F[S]
  BY SumFunctionIsSum
<1>3. \A s \in SUBSET S : F[s] = IF s = {} THEN 0 ELSE f[First(s)] + F[s \ {First(s)}]
  BY <1>1 DEF Sums
<1> DEFINE Good == {s \in SUBSET S : F[s] = 0}
<1>5. {} \in Good
  BY <1>3
<1>6. ASSUME NEW s \in SUBSET S, s # {}, s \ {First(s)} \in Good
      PROVE  s \in Good
  <2>1. First(s) \in S
    BY <1>6, OneLess
  <2>2. F[s] = f[First(s)] + F[s \ {First(s)}]
    BY <1>3, <1>6
  <2> QED BY <1>6, <2>1, <2>2
<1> HIDE DEF Good
<1>7. Good \in SUBSET SUBSET S
  BY DEF Good
<1>8. Good = SUBSET S
  BY <1>5, <1>6, <1>7, SetInduction
<1> QED BY <1>1, <1>8 DEF Good
-----------------------------------------------------------------------------
(* Types.                                                                    *)

\* A renamed hash is there only while it is moved.
PushClean == \A n \in Nodes : push[n].pc # "moving" => push[n].bytes = Zero

LEMMA BytesTypes ==
    /\ Zero \in Bytes
    /\ \A a, b \in Bytes : Plus(a, b) \in Bytes
    /\ \A b \in Bytes : Counted(b) \in Bytes
    /\ \A b \in Bytes, n \in Nodes : Charged(n, b) \in Bytes
    /\ \A b \in Bytes : \A S \in SUBSET Users :
          [u \in Users |-> IF u \in S THEN 0 ELSE b[u]] \in Bytes
    /\ \A a, b \in Bytes : \A S \in SUBSET Users :
          [u \in Users |-> IF u \in S THEN a[u] + b[u] ELSE a[u]] \in Bytes
<1>1. \A b \in Bytes, n \in Nodes, u \in Users : b[u] * Multiplier[n] \in Nat
  BY BoundsAssumption DEF Bytes
<1> QED BY <1>1 DEF Bytes, Zero, Plus, Counted, Charged

LEMMA JobTypes ==
    /\ NoRecord \in RecordJob /\ NoPush \in PushJob /\ NoCharge \in ChargeJob
    /\ NoReset \in ResetJob
    /\ \A b \in Bytes : \A pc \in {"read", "hashed", "billed"} :
          [pc |-> pc, bytes |-> b] \in RecordJob
    /\ \A b \in Bytes : \A p \in PushJob : \A pc \in {"none", "waiting", "moving"} :
          [p EXCEPT !.pc = pc, !.bytes = b] \in PushJob /\ [p EXCEPT !.bytes = b] \in PushJob
    /\ \A p \in PushJob : p.bytes \in Bytes
    /\ \A r \in RecordJob : r.bytes \in Bytes
    /\ \A c \in ChargeJob : c.bytes \in Bytes
    /\ \A c \in ChargeJob : \A b \in BOOLEAN :
          /\ [c EXCEPT !.pc = "active"] \in ChargeJob
          /\ [c EXCEPT !.pc = "applied", !.applied = TRUE] \in ChargeJob
          /\ [c EXCEPT !.pc = "waiting", !.stalled = TRUE] \in ChargeJob
BY BytesTypes DEF RecordJob, PushJob, ChargeJob, ResetJob, NoRecord, NoPush, NoCharge, NoReset

LEMMA RecordingType ==
    ASSUME TypeOK, NEW n \in Nodes,
           \/ CountersLost(n) \/ ReadStats(n) \/ AddToHash(n) \/ AddPush(n) \/ RecordEnds(n)
           \/ \E j \in Jobs : AddCharge(n, j)
    PROVE  TypeOK'
<1> USE BytesTypes, JobTypes DEF TypeOK, charging, upkeep
<1>1. CASE CountersLost(n)
  BY <1>1 DEF CountersLost, Of, Active
<1>2. CASE ReadStats(n)
  BY <1>2 DEF ReadStats
<1>3. CASE AddToHash(n)
  BY <1>3 DEF AddToHash, Of
<1>4. CASE AddPush(n)
  <2>1. [NoPush EXCEPT !.pc = "waiting"] \in PushJob
    BY DEF NoPush, PushJob
  <2> QED BY <1>4, <2>1 DEF AddPush
<1>5. CASE RecordEnds(n)
  BY <1>5 DEF RecordEnds, Of, Active
<1>6. ASSUME NEW j \in Jobs, AddCharge(n, j)
      PROVE  TypeOK'
  <2>1. Charged(n, record[n].bytes) \in Bytes
    OBVIOUS
  <2>2. [NoCharge EXCEPT !.pc = "waiting", !.bytes = Charged(n, record[n].bytes)] \in ChargeJob
    BY <2>1 DEF NoCharge, ChargeJob
  <2> QED BY <1>6, <2>2 DEF AddCharge
<1> QED BY <1>1, <1>2, <1>3, <1>4, <1>5, <1>6

LEMMA MovingType ==
    ASSUME TypeOK, NEW n \in Nodes,
           \/ PushStart(n) \/ RenameFails(n) \/ PushDone(n) \/ PushAborts(n) \/ Expire(n)
           \/ \E S \in SUBSET Users : PushBatch(n, S)
    PROVE  TypeOK'
<1> USE BytesTypes, JobTypes DEF TypeOK, charging, upkeep
<1>1. CASE PushStart(n)
  <2>1. push' \in [Nodes -> PushJob]
    <3>1. [push[n] EXCEPT !.pc = "moving", !.bytes = hash[n]] \in PushJob
      OBVIOUS
    <3> QED BY <1>1, <3>1 DEF PushStart
  <2> QED BY <1>1, <2>1 DEF PushStart
<1>2. CASE RenameFails(n)
  BY <1>2 DEF RenameFails
<1>3. CASE PushDone(n)
  BY <1>3 DEF PushDone
<1>4. CASE PushAborts(n)
  <2>1. [pc |-> "waiting", bytes |-> Zero, stalled |-> TRUE] \in PushJob
    BY DEF PushJob
  <2>2. push' \in [Nodes -> PushJob]
    BY <1>4, <2>1 DEF PushAborts
  <2>3. lost' \subseteq Nodes \X Users /\ stranded' \subseteq Nodes
    BY <1>4 DEF PushAborts, Of, Active
  <2> QED BY <1>4, <2>2, <2>3 DEF PushAborts
<1>5. CASE Expire(n)
  BY <1>5 DEF Expire, Of, Active
<1>6. ASSUME NEW S \in SUBSET Users, PushBatch(n, S)
      PROVE  TypeOK'
  <2>0. history[n] \in Bytes /\ push[n].bytes \in Bytes
    OBVIOUS
  <2>1. push' = [push EXCEPT ![n].bytes = [u \in Users |-> IF u \in S THEN 0 ELSE @[u]]]
    BY <1>6 DEF PushBatch
  <2>2. [u \in Users |-> IF u \in S THEN 0 ELSE push[n].bytes[u]] \in Bytes
    BY ONLY <2>0, BytesTypes
  <2>3. push' \in [Nodes -> PushJob]
    BY <2>1, <2>2
  <2>4. [u \in Users |-> IF u \in S THEN history[n][u] + push[n].bytes[u] ELSE history[n][u]]
           \in Bytes
    BY ONLY <2>0, BytesTypes
  <2>5. history' \in [Nodes -> Bytes]
    <3>1. \/ history' = history
          \/ history' = [history EXCEPT ![n] =
                [u \in Users |-> IF u \in S THEN history[n][u] + push[n].bytes[u]
                                            ELSE history[n][u]]]
      BY <1>6 DEF PushBatch
    <3> QED BY <2>4, <3>1
  <2>6. lost' \subseteq Nodes \X Users
    BY <1>6, ZenonT(60) DEF PushBatch, Of
  <2> QED BY <1>6, <2>3, <2>5, <2>6 DEF PushBatch
<1> QED BY <1>1, <1>2, <1>3, <1>4, <1>5, <1>6

LEMMA ChargingType ==
    ASSUME TypeOK, NEW j \in Jobs,
           \/ ChargeStart(j) \/ IncrementUsedTraffic(j) \/ IncrementFails(j)
           \/ ChargeDone(j) \/ ChargeCrash(j)
    PROVE  TypeOK'
<1> USE BytesTypes, JobTypes DEF TypeOK, pipeline, upkeep
<1>1. CASE ChargeStart(j)
  BY <1>1 DEF ChargeStart
<1>2. CASE IncrementUsedTraffic(j)
  <2>1. used' \in [Users -> Nat]
    BY <1>2 DEF IncrementUsedTraffic, Bytes
  <2>2. charge' \in [Jobs -> ChargeJob]
    BY <1>2 DEF IncrementUsedTraffic
  <2>3. doubled' \subseteq Users
    BY <1>2 DEF IncrementUsedTraffic, Active
  <2> QED BY <1>2, <2>1, <2>2, <2>3 DEF IncrementUsedTraffic
<1>3. CASE IncrementFails(j)
  BY <1>3 DEF IncrementFails, Active
<1>4. CASE ChargeDone(j)
  BY <1>4 DEF ChargeDone
<1>5. CASE ChargeCrash(j)
  <2>1. charge' \in [Jobs -> ChargeJob]
    <3>1. [charge EXCEPT ![j].pc = "waiting", ![j].stalled = TRUE] \in [Jobs -> ChargeJob]
      <4>1. [charge[j] EXCEPT !.pc = "waiting", !.stalled = TRUE] \in ChargeJob
        OBVIOUS
      <4>2. [charge EXCEPT ![j].pc = "waiting", ![j].stalled = TRUE]
              = [charge EXCEPT ![j] = [charge[j] EXCEPT !.pc = "waiting", !.stalled = TRUE]]
        OBVIOUS
      <4> QED BY ONLY TypeOK, <4>1, <4>2 DEF TypeOK
    <3>2. [charge EXCEPT ![j] = NoCharge] \in [Jobs -> ChargeJob]
      OBVIOUS
    <3> QED BY <1>5, <3>1, <3>2 DEF ChargeCrash
  <2>2. unbilled' \subseteq Users
    BY <1>5 DEF ChargeCrash, Active
  <2> QED BY <1>5, <2>1, <2>2 DEF ChargeCrash
<1> QED BY <1>1, <1>2, <1>3, <1>4, <1>5

LEMMA UpkeepType ==
    ASSUME TypeOK,
           \/ ResetStart \/ ResetDrained \/ ResetGivesUp \/ ResetDone \/ ResetAborts
           \/ CleanStart \/ CleanTruncate \/ CleanDone \/ CleanCrash
    PROVE  TypeOK'
<1> USE BytesTypes, JobTypes DEF TypeOK, pipeline, charging
<1>1. CASE ResetStart \/ ResetDrained \/ ResetGivesUp \/ ResetDone \/ ResetAborts
  <2>1. reset' \in ResetJob /\ paused' \subseteq Queues
    BY <1>1 DEF ResetStart, ResetDrained, ResetGivesUp, ResetDone, ResetAborts, NoReset, ResetJob
  <2> QED BY <1>1, <2>1 DEF ResetStart, ResetDrained, ResetGivesUp, ResetDone, ResetAborts
<1>2. CASE CleanTruncate
  BY <1>2 DEF CleanTruncate
<1>3. CASE CleanStart \/ CleanDone \/ CleanCrash
  BY <1>3 DEF CleanStart, CleanDone, CleanCrash, Queues, ResetJob
<1> QED BY <1>1, <1>2, <1>3

LEMMA TrafficType ==
    ASSUME TypeOK, NEW n \in Nodes, NEW u \in Users, Traffic(n, u)
    PROVE  TypeOK'
<1>1. counter' \in [Nodes -> Bytes] /\ total' \in [Nodes -> Bytes]
  BY DEF Traffic, TypeOK, Bytes
<1> QED BY <1>1 DEF Traffic, TypeOK, charging, upkeep

LEMMA InitType == Init => TypeOK /\ PushClean
<1>1. Init => TypeOK
  <2>1. Zero \in [Users -> Nat]
    BY DEF Zero
  <2>2. ASSUME Init
        PROVE  /\ counter \in [Nodes -> Bytes] /\ hash \in [Nodes -> Bytes]
               /\ history \in [Nodes -> Bytes] /\ total \in [Nodes -> Bytes]
               /\ truncated \in [Nodes -> Bytes]
    BY <2>2, BytesTypes DEF Init
  <2>3. ASSUME Init
        PROVE  /\ record \in [Nodes -> RecordJob] /\ push \in [Nodes -> PushJob]
               /\ charge \in [Jobs -> ChargeJob] /\ reset \in ResetJob
    BY <2>3, JobTypes DEF Init
  <2> QED BY <2>1, <2>2, <2>3 DEF Init, TypeOK
<1>2. Init => PushClean
  BY DEF Init, PushClean, NoPush
<1> QED BY <1>1, <1>2

-----------------------------------------------------------------------------
(* The history as a ledger.                                                  *)

LEMMA Amounts ==
    ASSUME TypeOK, NEW n \in Nodes, NEW u \in Users
    PROVE  /\ counter[n][u] \in Nat /\ record[n].bytes[u] \in Nat /\ hash[n][u] \in Nat
           /\ push[n].bytes[u] \in Nat /\ history[n][u] \in Nat
           /\ truncated[n][u] \in Nat /\ total[n][u] \in Nat /\ UnderWay(n, u) \in Nat
<1>1. /\ counter[n] \in Bytes /\ record[n].bytes \in Bytes /\ hash[n] \in Bytes
      /\ push[n].bytes \in Bytes /\ history[n] \in Bytes /\ truncated[n] \in Bytes
      /\ total[n] \in Bytes
  BY DEF TypeOK, RecordJob, PushJob
<1>2. \A b \in Bytes : b[u] \in Nat
  BY DEF Bytes
<1> QED BY <1>1, <1>2 DEF UnderWay

LEMMA AmountsAfter ==
    ASSUME TypeOK', NEW n \in Nodes, NEW u \in Users
    PROVE  history'[n][u] \in Nat /\ UnderWay(n, u)' \in Nat
<1>1. /\ counter'[n] \in Bytes /\ record'[n].bytes \in Bytes /\ hash'[n] \in Bytes
      /\ push'[n].bytes \in Bytes /\ history'[n] \in Bytes
  BY DEF TypeOK, RecordJob, PushJob
<1>2. \A b \in Bytes : b[u] \in Nat
  BY DEF Bytes
<1> QED BY <1>1, <1>2 DEF UnderWay

\* What a step does to the bytes of one user of one node: some are moved on, and
\* only those of a user in lost may disappear.
MovedOn(n, u) ==
    /\ UnderWay(n, u)' <= UnderWay(n, u)
    /\ history'[n][u] >= history[n][u]
    /\ history'[n][u] + UnderWay(n, u)' <= history[n][u] + UnderWay(n, u)
    /\ <<n, u>> \notin lost' =>
          history'[n][u] + UnderWay(n, u)' = history[n][u] + UnderWay(n, u)

Carries ==
    /\ lost \subseteq lost'
    /\ \A n \in Nodes, u \in Users : MovedOn(n, u)
    /\ UNCHANGED <<total, truncated>>

\* A step at one node moves on what is of other nodes by leaving it where it is.
Elsewhere(n) ==
    \A m \in Nodes \ {n} :
       /\ counter'[m] = counter[m] /\ record'[m] = record[m] /\ hash'[m] = hash[m]
       /\ push'[m] = push[m] /\ history'[m] = history[m]

LEMMA CarriesAtOneNode ==
    ASSUME TypeOK, NEW n \in Nodes, Elsewhere(n), lost \subseteq lost',
           \A u \in Users : MovedOn(n, u), UNCHANGED <<total, truncated>>
    PROVE  Carries
<1>1. ASSUME NEW m \in Nodes \ {n}, NEW u \in Users
      PROVE  MovedOn(m, u)
  <2>1. UnderWay(m, u)' = UnderWay(m, u) /\ history'[m][u] = history[m][u]
    BY DEF Elsewhere, UnderWay
  <2>2. UnderWay(m, u) \in Nat /\ history[m][u] \in Nat
    BY Amounts
  <2> QED BY <2>1, <2>2 DEF MovedOn
<1> QED BY <1>1 DEF Carries

LEMMA RecordingCarries ==
    ASSUME TypeOK, NEW n \in Nodes,
           \/ CountersLost(n) \/ ReadStats(n) \/ AddToHash(n) \/ AddPush(n) \/ RecordEnds(n)
           \/ \E j \in Jobs : AddCharge(n, j)
    PROVE  PushClean => Carries /\ PushClean'
<1> SUFFICES ASSUME PushClean PROVE Carries /\ PushClean'
  OBVIOUS
<1>0. /\ counter \in [Nodes -> Bytes] /\ record \in [Nodes -> RecordJob]
      /\ hash \in [Nodes -> Bytes] /\ push \in [Nodes -> PushJob]
  BY DEF TypeOK
<1>a. ASSUME NEW u \in Users
      PROVE  /\ counter[n][u] \in Nat /\ record[n].bytes[u] \in Nat /\ hash[n][u] \in Nat
             /\ push[n].bytes[u] \in Nat /\ history[n][u] \in Nat
  BY Amounts
<1> USE DEF charging, upkeep
<1>1. CASE CountersLost(n)
  <2>1. Elsewhere(n) /\ lost \subseteq lost' /\ UNCHANGED <<push, total, truncated>>
    BY <1>0, <1>1 DEF CountersLost, Elsewhere
  <2>2. ASSUME NEW u \in Users
        PROVE  MovedOn(n, u)
    <3>1. /\ counter'[n][u] = 0 /\ UNCHANGED <<record, hash, push, history>>
          /\ <<n, u>> \notin lost' => counter[n][u] = 0
      BY <1>0, <1>1, <1>a DEF CountersLost, Zero, Of, Active
    <3> QED BY <1>a, <3>1 DEF MovedOn, UnderWay
  <2> QED BY <2>1, <2>2, CarriesAtOneNode DEF PushClean
<1>2. CASE ReadStats(n)
  <2>1. Elsewhere(n) /\ lost' = lost /\ UNCHANGED <<push, total, truncated>>
    BY <1>0, <1>2 DEF ReadStats, Elsewhere
  <2>2. ASSUME NEW u \in Users
        PROVE  MovedOn(n, u)
    <3>1. /\ counter'[n][u] = 0 /\ UNCHANGED <<hash, push, history>>
          /\ record[n].pc = "idle" /\ record'[n].pc = "read" /\ record'[n].bytes[u] = counter[n][u]
      BY <1>0, <1>2 DEF ReadStats, Zero
    <3> QED BY <1>a, <3>1 DEF MovedOn, UnderWay
  <2> QED BY <2>1, <2>2, CarriesAtOneNode DEF PushClean
<1>3. CASE AddToHash(n)
  <2>1. Elsewhere(n) /\ lost \subseteq lost' /\ UNCHANGED <<push, total, truncated>>
    BY <1>0, <1>3 DEF AddToHash, Elsewhere
  <2>2. ASSUME NEW u \in Users
        PROVE  MovedOn(n, u)
    <3> DEFINE kept == Counted(record[n].bytes)[u]
    <3>1. kept \in Nat /\ kept <= record[n].bytes[u]
      BY <1>a DEF Counted
    <3>2. hash'[n][u] = hash[n][u] + kept
      BY <1>0, <1>3 DEF AddToHash, Plus
    <3>3. record[n].pc = "read" /\ record'[n].pc = "hashed" /\ UNCHANGED <<counter, push, history>>
      BY <1>0, <1>3 DEF AddToHash
    <3>4. <<n, u>> \notin lost' => ~(kept < record[n].bytes[u])
      BY <1>3 DEF AddToHash, Of
    <3> QED BY <1>a, <3>1, <3>2, <3>3, <3>4 DEF MovedOn, UnderWay
  <2> QED BY <2>1, <2>2, CarriesAtOneNode DEF PushClean
<1>4. CASE AddPush(n)
  <2>1. Elsewhere(n) /\ lost' = lost /\ UNCHANGED <<total, truncated>>
    BY <1>0, <1>4 DEF AddPush, Elsewhere
  <2>2. push'[n].bytes = push[n].bytes /\ PushClean'
    BY <1>0, <1>4 DEF AddPush, PushClean, NoPush
  <2>3. ASSUME NEW u \in Users
        PROVE  MovedOn(n, u)
    <3>1. record[n].pc = "billed" /\ record'[n].pc = "idle" /\ UNCHANGED <<counter, hash, history>>
      BY <1>0, <1>4 DEF AddPush, NoRecord
    <3> QED BY <1>a, <2>2, <3>1 DEF MovedOn, UnderWay
  <2> QED BY <2>1, <2>2, <2>3, CarriesAtOneNode
<1>5. CASE RecordEnds(n)
  <2>1. Elsewhere(n) /\ lost \subseteq lost' /\ UNCHANGED <<push, total, truncated>>
    BY <1>0, <1>5 DEF RecordEnds, Elsewhere
  <2>2. ASSUME NEW u \in Users
        PROVE  MovedOn(n, u)
    <3>1. record'[n].pc = "idle" /\ UNCHANGED <<counter, hash, push, history>>
      BY <1>0, <1>5 DEF RecordEnds, NoRecord
    <3>2. record[n].pc = "read" /\ <<n, u>> \notin lost' => record[n].bytes[u] = 0
      BY <1>5, <1>a DEF RecordEnds, Of, Active
    <3> QED BY <1>a, <3>1, <3>2 DEF MovedOn, UnderWay
  <2> QED BY <2>1, <2>2, CarriesAtOneNode DEF PushClean
<1>6. ASSUME NEW j \in Jobs, AddCharge(n, j)
      PROVE  Carries /\ PushClean'
  <2>1. Elsewhere(n) /\ lost' = lost /\ UNCHANGED <<push, total, truncated>>
    BY <1>0, <1>6 DEF AddCharge, Elsewhere
  <2>2. ASSUME NEW u \in Users
        PROVE  MovedOn(n, u)
    <3>1. /\ record[n].pc = "hashed" /\ record'[n].pc = "billed"
          /\ UNCHANGED <<counter, hash, push, history>>
      BY <1>0, <1>6 DEF AddCharge
    <3> QED BY <1>a, <3>1 DEF MovedOn, UnderWay
  <2> QED BY <2>1, <2>2, CarriesAtOneNode DEF PushClean
<1> QED BY <1>1, <1>2, <1>3, <1>4, <1>5, <1>6

LEMMA MovingCarries ==
    ASSUME TypeOK, NEW n \in Nodes,
           \/ PushStart(n) \/ RenameFails(n) \/ PushDone(n) \/ PushAborts(n) \/ Expire(n)
           \/ \E S \in SUBSET Users : PushBatch(n, S)
    PROVE  PushClean => Carries /\ PushClean'
<1> SUFFICES ASSUME PushClean PROVE Carries /\ PushClean'
  OBVIOUS
<1>0. /\ counter \in [Nodes -> Bytes] /\ record \in [Nodes -> RecordJob]
      /\ hash \in [Nodes -> Bytes] /\ push \in [Nodes -> PushJob]
      /\ history \in [Nodes -> Bytes]
  BY DEF TypeOK
<1>a. ASSUME NEW u \in Users
      PROVE  /\ counter[n][u] \in Nat /\ record[n].bytes[u] \in Nat /\ hash[n][u] \in Nat
             /\ push[n].bytes[u] \in Nat /\ history[n][u] \in Nat
  BY Amounts
<1>b. push[n].pc # "moving" => \A u \in Users : push[n].bytes[u] = 0
  BY DEF PushClean, Zero
<1> USE DEF charging, upkeep
<1>1. CASE PushStart(n)
  <2>1. Elsewhere(n) /\ lost' = lost /\ UNCHANGED <<total, truncated>>
    BY <1>0, <1>1 DEF PushStart, Elsewhere
  <2>2. PushClean'
    BY <1>0, <1>1 DEF PushStart, PushClean, NoPush, PushJob
  <2>3. ASSUME NEW u \in Users
        PROVE  MovedOn(n, u)
    <3>1. push[n].bytes[u] = 0 /\ hash'[n][u] = 0 /\ UNCHANGED <<counter, record, history>>
      BY <1>0, <1>1, <1>b DEF PushStart, Zero
    <3>2. push'[n].bytes = hash[n]
      BY <1>0, <1>1 DEF PushStart, NoPush, PushJob
    <3> QED BY <1>a, <3>1, <3>2 DEF MovedOn, UnderWay
  <2> QED BY <2>1, <2>2, <2>3, CarriesAtOneNode
<1>2. CASE RenameFails(n) \/ PushDone(n)
  <2>1. Elsewhere(n) /\ lost' = lost /\ UNCHANGED <<total, truncated>>
    BY <1>0, <1>2 DEF RenameFails, PushDone, Elsewhere
  <2>2. push'[n].bytes = push[n].bytes /\ PushClean'
    BY <1>0, <1>2 DEF RenameFails, PushDone, PushClean, NoPush
  <2>3. ASSUME NEW u \in Users
        PROVE  MovedOn(n, u)
    <3>1. UNCHANGED <<counter, record, hash, history>>
      BY <1>2 DEF RenameFails, PushDone
    <3> QED BY <1>a, <2>2, <3>1 DEF MovedOn, UnderWay
  <2> QED BY <2>1, <2>2, <2>3, CarriesAtOneNode
<1>3. CASE PushAborts(n)
  <2>1. Elsewhere(n) /\ lost \subseteq lost' /\ UNCHANGED <<total, truncated>>
    BY <1>0, <1>3 DEF PushAborts, Elsewhere
  <2>2. push'[n].bytes = Zero /\ PushClean'
    BY <1>0, <1>3 DEF PushAborts, PushClean, NoPush
  <2>3. ASSUME NEW u \in Users
        PROVE  MovedOn(n, u)
    <3>1. UNCHANGED <<counter, record, hash, history>> /\ push'[n].bytes[u] = 0
      BY <1>3, <2>2 DEF PushAborts, Zero
    <3>2. <<n, u>> \notin lost' => push[n].bytes[u] = 0
      BY <1>3, <1>a DEF PushAborts, Of, Active
    <3> QED BY <1>a, <3>1, <3>2 DEF MovedOn, UnderWay
  <2> QED BY <2>1, <2>2, <2>3, CarriesAtOneNode
<1>4. CASE Expire(n)
  <2>1. Elsewhere(n) /\ lost \subseteq lost' /\ UNCHANGED <<push, total, truncated>>
    BY <1>0, <1>4 DEF Expire, Elsewhere
  <2>2. ASSUME NEW u \in Users
        PROVE  MovedOn(n, u)
    <3>1. UNCHANGED <<counter, record, push, history>> /\ hash'[n][u] = 0
      BY <1>0, <1>4 DEF Expire, Zero
    <3>2. <<n, u>> \notin lost' => hash[n][u] = 0
      BY <1>4, <1>a DEF Expire, Of, Active
    <3> QED BY <1>a, <3>1, <3>2 DEF MovedOn, UnderWay
  <2> QED BY <2>1, <2>2, CarriesAtOneNode DEF PushClean
<1>5. ASSUME NEW S \in SUBSET Users, PushBatch(n, S)
      PROVE  Carries /\ PushClean'
  <2>1. Elsewhere(n) /\ lost \subseteq lost' /\ UNCHANGED <<total, truncated>>
    BY <1>0, <1>5 DEF PushBatch, Elsewhere
  <2>2. PushClean'
    BY <1>0, <1>5 DEF PushBatch, PushClean, PushJob
  <2>3. ASSUME NEW u \in Users
        PROVE  MovedOn(n, u)
    <3>1. /\ UNCHANGED <<counter, record, hash>>
          /\ push'[n].bytes[u] = IF u \in S THEN 0 ELSE push[n].bytes[u]
      BY <1>0, <1>5 DEF PushBatch, PushJob
    <3>2. \/ history'[n][u] = IF u \in S THEN history[n][u] + push[n].bytes[u] ELSE history[n][u]
          \/ history' = history /\ (<<n, u>> \notin lost' => u \notin S)
      BY <1>0, <1>5 DEF PushBatch, Of
    <3> QED BY <1>a, <3>1, <3>2 DEF MovedOn, UnderWay
  <2> QED BY <2>1, <2>2, <2>3, CarriesAtOneNode
<1> QED BY <1>1, <1>2, <1>3, <1>4, <1>5

\* Every other step leaves the pipeline alone, but for the traffic itself and the
\* truncation.
LEMMA OthersCarry ==
    ASSUME TypeOK, PushClean,
           \/ \E j \in Jobs : \/ ChargeStart(j) \/ IncrementUsedTraffic(j) \/ IncrementFails(j)
                              \/ ChargeDone(j) \/ ChargeCrash(j)
           \/ ResetStart \/ ResetDrained \/ ResetGivesUp \/ ResetDone \/ ResetAborts
           \/ CleanStart \/ CleanDone \/ CleanCrash
           \/ UNCHANGED vars
    PROVE  Carries /\ PushClean'
<1>1. UNCHANGED <<pipeline, total, truncated>>
  BY DEF ChargeStart, IncrementUsedTraffic, IncrementFails, ChargeDone, ChargeCrash,
         ResetStart, ResetDrained, ResetGivesUp, ResetDone, ResetAborts,
         CleanStart, CleanDone, CleanCrash, vars
<1>2. ASSUME NEW n \in Nodes, NEW u \in Users
      PROVE  MovedOn(n, u)
  <2>1. UnderWay(n, u)' = UnderWay(n, u) /\ history' = history
    BY <1>1 DEF pipeline, UnderWay
  <2> QED BY <2>1, Amounts DEF MovedOn
<1> QED BY <1>1, <1>2 DEF Carries, PushClean, pipeline

LEMMA TrafficCounts ==
    ASSUME TypeOK, NEW n \in Nodes, NEW u \in Users, Traffic(n, u)
    PROVE  /\ UNCHANGED <<push, history, truncated, lost>>
           /\ \A m \in Nodes, v \in Users :
                 IF <<m, v>> = <<n, u>>
                 THEN total'[m][v] = total[m][v] + 1 /\ UnderWay(m, v)' = UnderWay(m, v) + 1
                 ELSE total'[m][v] = total[m][v] /\ UnderWay(m, v)' = UnderWay(m, v)
<1>1. UNCHANGED <<record, hash, push, history, truncated, lost>>
  BY DEF Traffic
<1>2. ASSUME NEW m \in Nodes, NEW v \in Users
      PROVE  /\ total'[m][v] = IF m = n /\ v = u THEN total[m][v] + 1 ELSE total[m][v]
             /\ counter'[m][v] = IF m = n /\ v = u THEN counter[m][v] + 1 ELSE counter[m][v]
  BY DEF Traffic, TypeOK, Bytes
<1>3. ASSUME NEW m \in Nodes, NEW v \in Users
      PROVE  IF m = n /\ v = u THEN UnderWay(m, v)' = UnderWay(m, v) + 1
             ELSE UnderWay(m, v)' = UnderWay(m, v)
  BY <1>1, <1>2, Amounts DEF UnderWay
<1> QED BY <1>1, <1>2, <1>3

LEMMA TruncateCounts ==
    ASSUME TypeOK, CleanTruncate, NEW n \in Nodes, NEW u \in Users
    PROVE  /\ UNCHANGED <<push, total, lost>> /\ UnderWay(n, u)' = UnderWay(n, u)
           /\ history'[n][u] = 0 /\ truncated'[n][u] = truncated[n][u] + history[n][u]
BY DEF CleanTruncate, UnderWay, Plus, Zero

\* The account of each user balances after a step that moves bytes on.
LEMMA BalanceKept ==
    ASSUME TypeOK, TypeOK', HistoryExact, Carries
    PROVE  HistoryExact'
<1> SUFFICES ASSUME NEW n \in Nodes, NEW u \in Users
             PROVE  /\ history'[n][u] + truncated'[n][u] + UnderWay(n, u)' <= total'[n][u]
                    /\ <<n, u>> \notin lost' =>
                          history'[n][u] + truncated'[n][u] + UnderWay(n, u)' = total'[n][u]
  BY DEF HistoryExact
<1>1. MovedOn(n, u) /\ lost \subseteq lost' /\ UNCHANGED <<total, truncated>>
  BY DEF Carries
<1>2. /\ history[n][u] + truncated[n][u] + UnderWay(n, u) <= total[n][u]
      /\ <<n, u>> \notin lost =>
            history[n][u] + truncated[n][u] + UnderWay(n, u) = total[n][u]
  BY DEF HistoryExact
<1>3. /\ history[n][u] \in Nat /\ truncated[n][u] \in Nat /\ UnderWay(n, u) \in Nat
      /\ total[n][u] \in Nat
  BY Amounts
<1>4. history'[n][u] \in Nat /\ UnderWay(n, u)' \in Nat
  BY AmountsAfter
<1> QED BY <1>1, <1>2, <1>3, <1>4 DEF MovedOn

\* Initially, and after any step, the account balances.
LEMMA ExactNext ==
    ASSUME TypeOK, TypeOK', PushClean, HistoryExact, [Next]_vars
    PROVE  PushClean' /\ HistoryExact'
<1>1. ASSUME NEW n \in Nodes, NEW u \in Users, Traffic(n, u)
      PROVE  PushClean' /\ HistoryExact'
  <2>1. PushClean'
    BY <1>1, TrafficCounts DEF PushClean
  <2>2. ASSUME NEW m \in Nodes, NEW v \in Users
        PROVE  /\ history'[m][v] + truncated'[m][v] + UnderWay(m, v)' <= total'[m][v]
               /\ <<m, v>> \notin lost' =>
                     history'[m][v] + truncated'[m][v] + UnderWay(m, v)' = total'[m][v]
    <3>1. /\ history[m][v] \in Nat /\ truncated[m][v] \in Nat /\ UnderWay(m, v) \in Nat
          /\ total[m][v] \in Nat
      BY Amounts
    <3>2. /\ UNCHANGED <<history, truncated, lost>>
          /\ \/ total'[m][v] = total[m][v] + 1 /\ UnderWay(m, v)' = UnderWay(m, v) + 1
             \/ total'[m][v] = total[m][v] /\ UnderWay(m, v)' = UnderWay(m, v)
      BY <1>1, TrafficCounts
    <3> QED BY <3>1, <3>2 DEF HistoryExact
  <2> QED BY <2>1, <2>2 DEF HistoryExact
<1>2. CASE CleanTruncate
  <2>1. PushClean'
    BY <1>2 DEF CleanTruncate, PushClean
  <2>2. ASSUME NEW m \in Nodes, NEW v \in Users
        PROVE  /\ history'[m][v] + truncated'[m][v] + UnderWay(m, v)' <= total'[m][v]
               /\ <<m, v>> \notin lost' =>
                     history'[m][v] + truncated'[m][v] + UnderWay(m, v)' = total'[m][v]
    <3>1. /\ history[m][v] \in Nat /\ truncated[m][v] \in Nat /\ UnderWay(m, v) \in Nat
          /\ total[m][v] \in Nat
      BY Amounts
    <3>2. /\ UNCHANGED <<total, lost>> /\ UnderWay(m, v)' = UnderWay(m, v)
          /\ history'[m][v] = 0 /\ truncated'[m][v] = truncated[m][v] + history[m][v]
      BY <1>2, TruncateCounts
    <3> QED BY <3>1, <3>2 DEF HistoryExact
  <2> QED BY <2>1, <2>2 DEF HistoryExact
<1>3. CASE Carries /\ PushClean'
  BY <1>3, BalanceKept
<1> QED BY <1>1, <1>2, <1>3, RecordingCarries, MovingCarries, OthersCarry DEF Next

LEMMA NextType ==
    ASSUME TypeOK, [Next]_vars
    PROVE  TypeOK'
<1>1. CASE UNCHANGED vars
  BY <1>1 DEF TypeOK, vars, pipeline, charging, upkeep
<1>2. CASE Next
  BY <1>2, TrafficType, RecordingType, MovingType, ChargingType, UpkeepType DEF Next
<1> QED BY <1>1, <1>2

LEMMA InitExact == Init => HistoryExact
BY DEF Init, HistoryExact, UnderWay, NoRecord, NoPush, Zero

\* The bytes that are under way, and those of the history, as UsageLedger names them.
HistoryInv == TypeOK /\ PushClean /\ HistoryExact

LEMMA HistoryInvariant == Spec => []HistoryInv
<1>1. Init => HistoryInv
  BY InitType, InitExact DEF HistoryInv
<1>2. HistoryInv /\ [Next]_vars => HistoryInv'
  BY NextType, ExactNext DEF HistoryInv
<1> QED BY <1>1, <1>2, PTL DEF Spec

\* The state of the pipeline is always well formed.
THEOREM TypeCorrect == Spec => []TypeOK
<1>1. HistoryInv => TypeOK
  BY DEF HistoryInv
<1> QED BY <1>1, HistoryInvariant, PTL

\* However recording, moving, failures, re-runs, expiry and the truncation
\* interleave, the history, what was truncated and what is under way add up to
\* what was used, and to less only for a user whose bytes may be lost.
THEOREM HistoryCorrect == Spec => []HistoryExact
<1>1. HistoryInv => HistoryExact
  BY DEF HistoryInv
<1> QED BY <1>1, HistoryInvariant, PTL

-----------------------------------------------------------------------------
(* The refinement: each step of the pipeline is a step of the ledger.        *)

LEMMA LedgerInit == Init => HistoryLedger!Init
BY DEF Init, HistoryLedger!Init, UnderWay, NoRecord, NoPush, Zero

LEMMA CarriesRecords ==
    ASSUME TypeOK, TypeOK', Carries
    PROVE  HistoryLedger!Record
<1>1. ASSUME NEW k \in Nodes \X Users
      PROVE  /\ UnderWay(k[1], k[2])' <= UnderWay(k[1], k[2])
             /\ history'[k[1]][k[2]] >= history[k[1]][k[2]]
             /\ UnderWay(k[1], k[2])' + history'[k[1]][k[2]]
                  <= UnderWay(k[1], k[2]) + history[k[1]][k[2]]
             /\ k \notin lost' => UnderWay(k[1], k[2])' + history'[k[1]][k[2]]
                                    = UnderWay(k[1], k[2]) + history[k[1]][k[2]]
  <2>1. k[1] \in Nodes /\ k[2] \in Users /\ k = <<k[1], k[2]>>
    OBVIOUS
  <2>2. /\ UnderWay(k[1], k[2]) \in Nat /\ history[k[1]][k[2]] \in Nat
        /\ UnderWay(k[1], k[2])' \in Nat /\ history'[k[1]][k[2]] \in Nat
    BY <2>1, Amounts, AmountsAfter
  <2>3. MovedOn(k[1], k[2])
    BY <2>1 DEF Carries
  <2> QED BY <2>1, <2>2, <2>3 DEF MovedOn
<1> QED BY <1>1 DEF Carries, HistoryLedger!Record

LEMMA LedgerNext ==
    ASSUME TypeOK, PushClean, [Next]_vars
    PROVE  [HistoryLedger!Next]_(HistoryLedger!ledger)
<1>1. ASSUME NEW n \in Nodes, NEW u \in Users, Traffic(n, u)
      PROVE  HistoryLedger!Use(<<n, u>>)
  <2>1. UNCHANGED <<history, lost>>
    BY <1>1, TrafficCounts
  <2>2. UnderWay(n, u)' > UnderWay(n, u)
    BY <1>1, TrafficCounts, Amounts
  <2>3. ASSUME NEW k \in (Nodes \X Users) \ {<<n, u>>}
        PROVE  UnderWay(k[1], k[2])' = UnderWay(k[1], k[2])
    <3>1. <<k[1], k[2]>> # <<n, u>> /\ k[1] \in Nodes /\ k[2] \in Users
      OBVIOUS
    <3> QED BY <1>1, <3>1, TrafficCounts
  <2> QED BY <2>1, <2>2, <2>3 DEF HistoryLedger!Use
<1>2. ASSUME CleanTruncate
      PROVE  HistoryLedger!Truncate
  <2>1. ASSUME NEW k \in Nodes \X Users
        PROVE  history'[k[1]][k[2]] = 0 /\ UnderWay(k[1], k[2])' = UnderWay(k[1], k[2])
    BY <1>2, TruncateCounts
  <2>2. lost' = lost
    BY <1>2 DEF CleanTruncate
  <2> QED BY <2>1, <2>2 DEF HistoryLedger!Truncate
<1>3. CASE Carries /\ PushClean'
  BY <1>3, NextType, CarriesRecords DEF HistoryLedger!Next
<1> QED BY <1>1, <1>2, <1>3, RecordingCarries, MovingCarries, OthersCarry
        DEF Next, HistoryLedger!Next

\* The way of the bytes from the nodes to the history table is an implementation of
\* the ledger: used once, recorded at most once, lost only where it is known.
THEOREM LedgerImplemented == Spec => HistoryLedgerSpec
<1>1. HistoryInv /\ [Next]_vars => [HistoryLedger!Next]_(HistoryLedger!ledger)
  BY LedgerNext DEF HistoryInv
<1> QED BY <1>1, LedgerInit, HistoryInvariant, PTL
        DEF Spec, HistoryLedgerSpec, HistoryLedger!Spec

-----------------------------------------------------------------------------
(* Charging.                                                                 *)

\* A job whose statement was carried out knows it.
AppliedKnown == \A j \in Jobs : charge[j].pc = "applied" => charge[j].applied

NodeSum(u) == SumFunction([n \in Nodes |-> OnNode(n, u)])
JobSum(u)  == SumFunction([j \in Jobs |-> InJob(j, u)])

\* Bytes of a user that a node or its recording job still has.
Read(n, u) ==
    counter[n][u] + IF record[n].pc \in {"read", "hashed"} THEN record[n].bytes[u] ELSE 0

LEMMA Products ==
    /\ \A a, b \in Nat : a * b \in Nat
    /\ \A a, b \in Nat : a * (b + 1) = a * b + a
    /\ \A a, b, c \in Nat : b <= c => a * b <= a * c
    /\ \A a, b, c \in Nat : a * (b + c) = a * b + c * a
<1>1. \A a, b \in Nat : a * b \in Nat
  OBVIOUS
<1>2. \A a, b \in Nat : a * (b + 1) = a * b + a
  OBVIOUS
<1>3. ASSUME NEW a \in Nat, NEW b \in Nat, NEW c \in Nat, b <= c
      PROVE  a * b <= a * c
  <2>1. PICK d \in Nat : c = b + d
    <3>1. c - b \in Nat /\ c = b + (c - b)
      BY <1>3
    <3> QED BY <3>1
  <2>2. a * c = a * b + a * d /\ a * d \in Nat /\ a * b \in Nat
    BY <2>1
  <2> QED BY <2>2
<1>4. \A a, b, c \in Nat : a * (b + c) = a * b + c * a
  OBVIOUS
<1> QED BY <1>1, <1>2, <1>3, <1>4

LEMMA ReadType ==
    ASSUME TypeOK, NEW n \in Nodes, NEW u \in Users
    PROVE  Read(n, u) \in Nat /\ OnNode(n, u) = Multiplier[n] * Read(n, u) /\ OnNode(n, u) \in Nat
<1>1. Read(n, u) \in Nat
  BY Amounts DEF Read
<1>2. OnNode(n, u) = Multiplier[n] * Read(n, u)
  BY DEF OnNode, Read
<1>3. Multiplier[n] \in Nat
  BY BoundsAssumption
<1> HIDE DEF Read
<1> QED BY <1>1, <1>2, <1>3, Products

LEMMA ReadTypeAfter ==
    ASSUME TypeOK', NEW n \in Nodes, NEW u \in Users
    PROVE  Read(n, u)' \in Nat /\ OnNode(n, u)' = Multiplier[n] * Read(n, u)' /\ OnNode(n, u)' \in Nat
<1>1. Read(n, u)' \in Nat
  <2>1. counter'[n] \in Bytes /\ record'[n].bytes \in Bytes
    BY DEF TypeOK, RecordJob
  <2>2. \A b \in Bytes : b[u] \in Nat
    BY DEF Bytes
  <2> QED BY <2>1, <2>2 DEF Read
<1>2. OnNode(n, u)' = Multiplier[n] * Read(n, u)'
  BY DEF OnNode, Read
<1>3. Multiplier[n] \in Nat
  BY BoundsAssumption
<1> HIDE DEF Read
<1> QED BY <1>1, <1>2, <1>3, Products

LEMMA JobType ==
    ASSUME TypeOK, NEW j \in Jobs, NEW u \in Users
    PROVE  charge[j].bytes[u] \in Nat /\ InJob(j, u) \in Nat
<1>1. charge[j].bytes \in Bytes
  BY DEF TypeOK, ChargeJob
<1> QED BY <1>1 DEF InJob, Bytes

LEMMA JobTypeAfter ==
    ASSUME TypeOK', NEW j \in Jobs, NEW u \in Users
    PROVE  InJob(j, u)' \in Nat
<1>1. charge'[j].bytes \in Bytes
  BY DEF TypeOK, ChargeJob
<1> QED BY <1>1 DEF InJob, Bytes

LEMMA SumTypes ==
    ASSUME TypeOK, NEW u \in Users
    PROVE  /\ [n \in Nodes |-> OnNode(n, u)] \in [Nodes -> Nat] /\ NodeSum(u) \in Nat
           /\ [j \in Jobs |-> InJob(j, u)] \in [Jobs -> Nat] /\ JobSum(u) \in Nat
           /\ [n \in Nodes |-> Multiplier[n] * total[n][u]] \in [Nodes -> Nat] /\ Owed(u) \in Nat
<1>1. [n \in Nodes |-> OnNode(n, u)] \in [Nodes -> Nat]
  BY ReadType
<1>2. [j \in Jobs |-> InJob(j, u)] \in [Jobs -> Nat]
  BY JobType
<1>3. [n \in Nodes |-> Multiplier[n] * total[n][u]] \in [Nodes -> Nat]
  BY Amounts, Products, BoundsAssumption
<1> QED BY <1>1, <1>2, <1>3, SumType, FiniteAssumption DEF NodeSum, JobSum, Owed

LEMMA SumTypesAfter ==
    ASSUME TypeOK', NEW u \in Users
    PROVE  /\ [n \in Nodes |-> OnNode(n, u)'] \in [Nodes -> Nat] /\ NodeSum(u)' \in Nat
           /\ [j \in Jobs |-> InJob(j, u)'] \in [Jobs -> Nat] /\ JobSum(u)' \in Nat
<1>1. [n \in Nodes |-> OnNode(n, u)'] \in [Nodes -> Nat]
  BY ReadTypeAfter
<1>2. [j \in Jobs |-> InJob(j, u)'] \in [Jobs -> Nat]
  BY JobTypeAfter
<1> QED BY <1>1, <1>2, SumType, FiniteAssumption DEF NodeSum, JobSum

LEMMA OwedTypeAfter ==
    ASSUME TypeOK', NEW u \in Users
    PROVE  Owed(u)' \in Nat
<1>1. \A n \in Nodes : total'[n][u] \in Nat /\ Multiplier[n] \in Nat
  BY BoundsAssumption DEF TypeOK, Bytes
<1>2. [n \in Nodes |-> Multiplier[n] * total'[n][u]] \in [Nodes -> Nat]
  BY <1>1, Products
<1> QED BY <1>2, SumType, FiniteAssumption DEF Owed

\* When one node, or one job, changes, the sum changes by as much.
LEMMA NodeSumChange ==
    ASSUME TypeOK, TypeOK', NEW n \in Nodes, NEW u \in Users,
           \A m \in Nodes \ {n} : OnNode(m, u)' = OnNode(m, u)
    PROVE  NodeSum(u)' + OnNode(n, u) = NodeSum(u) + OnNode(n, u)'
<1> DEFINE f == [m \in Nodes |-> OnNode(m, u)]
           h == [m \in Nodes |-> OnNode(m, u)']
<1>1. f \in [Nodes -> Nat] /\ h \in [Nodes -> Nat]
  BY SumTypes, SumTypesAfter
<1>2. \A m \in Nodes \ {n} : h[m] = f[m]
  OBVIOUS
<1>3. h[n] = OnNode(n, u)' /\ f[n] = OnNode(n, u)
  OBVIOUS
<1>4. NodeSum(u)' = SumFunction(h) /\ NodeSum(u) = SumFunction(f)
  BY DEF NodeSum
<1> HIDE DEF f, h
<1>5. SumFunction(h) + f[n] = SumFunction(f) + h[n]
  BY <1>1, <1>2, SumChange, FiniteAssumption
<1> QED BY <1>3, <1>4, <1>5

LEMMA JobSumChange ==
    ASSUME TypeOK, TypeOK', NEW i \in Jobs, NEW u \in Users,
           \A j \in Jobs \ {i} : InJob(j, u)' = InJob(j, u)
    PROVE  JobSum(u)' + InJob(i, u) = JobSum(u) + InJob(i, u)'
<1> DEFINE f == [j \in Jobs |-> InJob(j, u)]
           h == [j \in Jobs |-> InJob(j, u)']
<1>1. f \in [Jobs -> Nat] /\ h \in [Jobs -> Nat]
  BY SumTypes, SumTypesAfter
<1>2. \A j \in Jobs \ {i} : h[j] = f[j]
  OBVIOUS
<1>3. h[i] = InJob(i, u)' /\ f[i] = InJob(i, u)
  OBVIOUS
<1>4. JobSum(u)' = SumFunction(h) /\ JobSum(u) = SumFunction(f)
  BY DEF JobSum
<1> HIDE DEF f, h
<1>5. SumFunction(h) + f[i] = SumFunction(f) + h[i]
  BY <1>1, <1>2, SumChange, FiniteAssumption
<1> QED BY <1>3, <1>4, <1>5

\* A step that charges users, or moves their bytes towards the charge: users get
\* what they owe, and less only if they are in unbilled.
Bills ==
    /\ unbilled \subseteq unbilled' /\ doubled \subseteq doubled' /\ UNCHANGED total
    /\ \A u \in Users \ doubled' :
          /\ used'[u] + NodeSum(u)' + JobSum(u)' <= used[u] + NodeSum(u) + JobSum(u)
          /\ u \notin unbilled' =>
                used'[u] + NodeSum(u)' + JobSum(u)' = used[u] + NodeSum(u) + JobSum(u)

LEMMA UsedType ==
    ASSUME TypeOK, NEW u \in Users
    PROVE  used[u] \in Nat
BY DEF TypeOK

\* Steps at one node that leave the charging jobs alone.
LEMMA NodeBills ==
    ASSUME TypeOK, TypeOK', NEW n \in Nodes, UNCHANGED <<charge, used, doubled, total>>,
           unbilled \subseteq unbilled',
           \A m \in Nodes \ {n} : counter'[m] = counter[m] /\ record'[m] = record[m],
           \A u \in Users : /\ Read(n, u)' <= Read(n, u)
                            /\ u \notin unbilled' => Read(n, u)' = Read(n, u)
    PROVE  Bills
<1> SUFFICES ASSUME NEW u \in Users
             PROVE  /\ used'[u] + NodeSum(u)' + JobSum(u)' <= used[u] + NodeSum(u) + JobSum(u)
                    /\ u \notin unbilled' =>
                         used'[u] + NodeSum(u)' + JobSum(u)' = used[u] + NodeSum(u) + JobSum(u)
  BY DEF Bills
<1>1. JobSum(u)' = JobSum(u) /\ used' = used
  BY DEF JobSum, InJob
<1>2. NodeSum(u)' + OnNode(n, u) = NodeSum(u) + OnNode(n, u)'
  <2>1. \A m \in Nodes \ {n} : OnNode(m, u)' = OnNode(m, u)
    BY DEF OnNode
  <2> QED BY <2>1, NodeSumChange
<1>3. /\ OnNode(n, u) \in Nat /\ OnNode(n, u) = Multiplier[n] * Read(n, u)
      /\ OnNode(n, u)' \in Nat /\ OnNode(n, u)' = Multiplier[n] * Read(n, u)'
      /\ Read(n, u) \in Nat /\ Read(n, u)' \in Nat /\ Multiplier[n] \in Nat
  BY ReadType, ReadTypeAfter, BoundsAssumption
<1>4. OnNode(n, u)' <= OnNode(n, u)
  BY <1>3, Products
<1>5. u \notin unbilled' => OnNode(n, u)' = OnNode(n, u)
  BY <1>3
<1>6. /\ NodeSum(u) \in Nat /\ NodeSum(u)' \in Nat /\ JobSum(u) \in Nat /\ used[u] \in Nat
  BY SumTypes, SumTypesAfter, UsedType
<1> HIDE DEF Read
<1> QED BY <1>1, <1>2, <1>3, <1>4, <1>5, <1>6

LEMMA RecordingBills ==
    ASSUME TypeOK, TypeOK', NEW n \in Nodes,
           CountersLost(n) \/ ReadStats(n) \/ AddToHash(n) \/ AddPush(n) \/ RecordEnds(n)
    PROVE  Bills
<1>0. /\ counter \in [Nodes -> Bytes] /\ record \in [Nodes -> RecordJob]
  BY DEF TypeOK
<1>a. ASSUME NEW u \in Users
      PROVE  counter[n][u] \in Nat /\ record[n].bytes[u] \in Nat
  BY Amounts
<1> USE DEF charging, upkeep
<1>1. /\ UNCHANGED <<charge, used, doubled, total>> /\ unbilled \subseteq unbilled'
      /\ \A m \in Nodes \ {n} : counter'[m] = counter[m] /\ record'[m] = record[m]
  BY <1>0 DEF CountersLost, ReadStats, AddToHash, AddPush, RecordEnds
<1>2. ASSUME NEW u \in Users
      PROVE  Read(n, u)' <= Read(n, u) /\ (u \notin unbilled' => Read(n, u)' = Read(n, u))
  <2>1. CASE CountersLost(n)
    <3>1. /\ counter'[n][u] = 0 /\ record' = record
          /\ u \notin unbilled' => counter[n][u] = 0
      BY <1>0, <1>a, <2>1 DEF CountersLost, Zero, Active
    <3> QED BY <1>a, <3>1 DEF Read
  <2>2. CASE ReadStats(n)
    <3>1. /\ counter'[n][u] = 0 /\ record[n].pc = "idle" /\ record'[n].pc = "read"
          /\ record'[n].bytes[u] = counter[n][u]
      BY <1>0, <2>2 DEF ReadStats, Zero
    <3> QED BY <1>a, <3>1 DEF Read
  <2>3. CASE AddToHash(n)
    <3> DEFINE kept == Counted(record[n].bytes)[u]
    <3>1. kept \in Nat /\ kept <= record[n].bytes[u]
      BY <1>a DEF Counted
    <3>2. /\ record[n].pc = "read" /\ record'[n].pc = "hashed" /\ counter' = counter
          /\ record'[n].bytes[u] = kept
          /\ u \notin unbilled' => ~(kept < record[n].bytes[u])
      BY <1>0, <2>3 DEF AddToHash
    <3> QED BY <1>a, <3>1, <3>2 DEF Read
  <2>4. CASE AddPush(n)
    <3>1. record[n].pc = "billed" /\ record'[n].pc = "idle" /\ counter' = counter
      BY <1>0, <2>4 DEF AddPush, NoRecord
    <3> QED BY <1>a, <3>1 DEF Read
  <2>5. CASE RecordEnds(n)
    <3>1. /\ record'[n].pc = "idle" /\ counter' = counter
          /\ u \notin unbilled' => record[n].bytes[u] = 0
      BY <1>0, <1>a, <2>5 DEF RecordEnds, NoRecord, Active
    <3> QED BY <1>a, <3>1 DEF Read
  <2> QED BY <2>1, <2>2, <2>3, <2>4, <2>5
<1> QED BY <1>1, <1>2, NodeBills

\* The charge is handed from the recording job to a charging job.
LEMMA AddChargeBills ==
    ASSUME TypeOK, TypeOK', NEW n \in Nodes, NEW j \in Jobs, AddCharge(n, j)
    PROVE  Bills
<1>1. /\ UNCHANGED <<counter, used, unbilled, doubled, total>>
      /\ \A m \in Nodes \ {n} : record'[m] = record[m]
      /\ \A i \in Jobs \ {j} : charge'[i] = charge[i]
  BY DEF AddCharge, TypeOK
<1> SUFFICES ASSUME NEW u \in Users
             PROVE  NodeSum(u)' + JobSum(u)' = NodeSum(u) + JobSum(u)
  BY <1>1, SumTypes, SumTypesAfter, UsedType DEF Bills
<1>2. NodeSum(u)' + OnNode(n, u) = NodeSum(u) + OnNode(n, u)'
  <2>1. \A m \in Nodes \ {n} : OnNode(m, u)' = OnNode(m, u)
    BY <1>1 DEF OnNode
  <2> QED BY <2>1, NodeSumChange
<1>3. JobSum(u)' + InJob(j, u) = JobSum(u) + InJob(j, u)'
  <2>1. \A i \in Jobs \ {j} : InJob(i, u)' = InJob(i, u)
    BY <1>1 DEF InJob
  <2> QED BY <2>1, JobSumChange
<1>4. InJob(j, u) = 0
  BY DEF AddCharge, InJob, NoCharge, Zero
<1>5. InJob(j, u)' = record[n].bytes[u] * Multiplier[n]
  BY DEF AddCharge, InJob, NoCharge, Charged, TypeOK
<1>6. /\ Read(n, u) = counter[n][u] + record[n].bytes[u]
      /\ Read(n, u)' = counter[n][u]
  BY <1>1, Amounts DEF AddCharge, Read, TypeOK
<1>7. /\ OnNode(n, u) = Multiplier[n] * Read(n, u) /\ OnNode(n, u)' = Multiplier[n] * Read(n, u)'
      /\ OnNode(n, u) \in Nat /\ OnNode(n, u)' \in Nat /\ InJob(j, u)' \in Nat
      /\ Multiplier[n] \in Nat
  BY ReadType, ReadTypeAfter, JobTypeAfter, BoundsAssumption
<1>8. OnNode(n, u) = OnNode(n, u)' + InJob(j, u)'
  BY <1>5, <1>6, <1>7, Amounts, Products
<1>9. NodeSum(u) \in Nat /\ NodeSum(u)' \in Nat /\ JobSum(u) \in Nat /\ JobSum(u)' \in Nat
  BY SumTypes, SumTypesAfter
<1> QED BY <1>2, <1>3, <1>4, <1>7, <1>8, <1>9

LEMMA ChargingBills ==
    ASSUME TypeOK, TypeOK', AppliedKnown, NEW j \in Jobs,
           \/ ChargeStart(j) \/ IncrementUsedTraffic(j) \/ IncrementFails(j)
           \/ ChargeDone(j) \/ ChargeCrash(j)
    PROVE  Bills /\ AppliedKnown'
<1>0. charge \in [Jobs -> ChargeJob]
  BY DEF TypeOK
<1>1. /\ UNCHANGED <<counter, record, total>>
      /\ unbilled \subseteq unbilled' /\ doubled \subseteq doubled'
      /\ \A i \in Jobs \ {j} : charge'[i] = charge[i]
  BY <1>0 DEF ChargeStart, IncrementUsedTraffic, IncrementFails, ChargeDone, ChargeCrash, pipeline
<1>2. AppliedKnown'
  BY <1>0 DEF AppliedKnown, ChargeStart, IncrementUsedTraffic, IncrementFails, ChargeDone,
              ChargeCrash, NoCharge, ChargeJob
<1>3. ASSUME NEW u \in Users \ doubled'
      PROVE  /\ used'[u] + InJob(j, u)' <= used[u] + InJob(j, u)
             /\ u \notin unbilled' => used'[u] + InJob(j, u)' = used[u] + InJob(j, u)
  <2>1. used[u] \in Nat /\ charge[j].bytes[u] \in Nat /\ InJob(j, u) \in Nat
    BY UsedType, JobType
  <2>2. CASE ChargeStart(j)
    <3>1. used' = used /\ charge'[j].bytes = charge[j].bytes /\ charge'[j].applied = charge[j].applied
      BY <1>0, <2>2 DEF ChargeStart, ChargeJob
    <3> QED BY <2>1, <3>1 DEF InJob
  <2>3. CASE IncrementUsedTraffic(j)
    <3>1. /\ used'[u] = used[u] + charge[j].bytes[u] /\ charge'[j].applied = TRUE
          /\ charge[j].applied => charge[j].bytes[u] = 0
      BY <1>0, <2>1, <2>3 DEF IncrementUsedTraffic, ChargeJob, Plus, Active
    <3> QED BY <2>1, <3>1 DEF InJob
  <2>4. CASE IncrementFails(j)
    <3>1. /\ used' = used /\ charge'[j] = NoCharge
          /\ u \notin unbilled' => charge[j].applied \/ charge[j].bytes[u] = 0
      BY <1>0, <2>1, <2>4 DEF IncrementFails, Active
    <3> QED BY <2>1, <3>1 DEF InJob, NoCharge, Zero
  <2>5. CASE ChargeDone(j)
    <3>1. used' = used /\ charge'[j] = NoCharge /\ charge[j].applied
      BY <1>0, <2>5 DEF ChargeDone, AppliedKnown
    <3> QED BY <2>1, <3>1 DEF InJob, NoCharge, Zero
  <2>6. CASE ChargeCrash(j) /\ charge[j].stalled
    <3>1. /\ used' = used /\ charge'[j] = NoCharge
          /\ u \notin unbilled' => charge[j].applied \/ charge[j].bytes[u] = 0
      BY <1>0, <2>1, <2>6 DEF ChargeCrash, Active
    <3> QED BY <2>1, <3>1 DEF InJob, NoCharge, Zero
  <2>7. CASE ChargeCrash(j) /\ ~charge[j].stalled
    <3>1. used' = used /\ charge'[j].bytes = charge[j].bytes /\ charge'[j].applied = charge[j].applied
      BY <1>0, <2>7 DEF ChargeCrash, ChargeJob
    <3> QED BY <2>1, <3>1 DEF InJob
  <2> QED BY <2>2, <2>3, <2>4, <2>5, <2>6, <2>7
<1>4. ASSUME NEW u \in Users \ doubled'
      PROVE  /\ used'[u] + NodeSum(u)' + JobSum(u)' <= used[u] + NodeSum(u) + JobSum(u)
             /\ u \notin unbilled' =>
                  used'[u] + NodeSum(u)' + JobSum(u)' = used[u] + NodeSum(u) + JobSum(u)
  <2>1. NodeSum(u)' = NodeSum(u)
    BY <1>1 DEF NodeSum, OnNode
  <2>2. JobSum(u)' + InJob(j, u) = JobSum(u) + InJob(j, u)'
    <3>1. \A i \in Jobs \ {j} : InJob(i, u)' = InJob(i, u)
      BY <1>1 DEF InJob
    <3> QED BY <3>1, JobSumChange
  <2>3. /\ NodeSum(u) \in Nat /\ JobSum(u) \in Nat /\ JobSum(u)' \in Nat
        /\ InJob(j, u) \in Nat /\ InJob(j, u)' \in Nat /\ used[u] \in Nat /\ used'[u] \in Nat
    BY SumTypes, SumTypesAfter, JobType, JobTypeAfter, UsedType DEF TypeOK
  <2> QED BY <1>3, <2>1, <2>2, <2>3
<1> QED BY <1>1, <1>2, <1>4 DEF Bills

LEMMA OthersBill ==
    ASSUME TypeOK, AppliedKnown,
           \/ \E n \in Nodes :
                 \/ PushStart(n) \/ RenameFails(n) \/ PushDone(n) \/ PushAborts(n) \/ Expire(n)
                 \/ \E S \in SUBSET Users : PushBatch(n, S)
           \/ ResetStart \/ ResetDrained \/ ResetGivesUp \/ ResetDone \/ ResetAborts
           \/ CleanStart \/ CleanTruncate \/ CleanDone \/ CleanCrash
           \/ UNCHANGED vars
    PROVE  Bills /\ AppliedKnown'
<1>1. UNCHANGED <<counter, record, charging, total>>
  BY DEF PushStart, RenameFails, PushDone, PushAborts, Expire, PushBatch,
         ResetStart, ResetDrained, ResetGivesUp, ResetDone, ResetAborts,
         CleanStart, CleanTruncate, CleanDone, CleanCrash, vars, pipeline, charging
<1>2. ASSUME NEW u \in Users
      PROVE  NodeSum(u)' = NodeSum(u) /\ JobSum(u)' = JobSum(u)
  BY <1>1 DEF NodeSum, JobSum, OnNode, InJob, charging
<1> QED BY <1>1, <1>2, SumTypes, UsedType DEF Bills, AppliedKnown, charging

\* A byte that is used is owed, and is to be read.
LEMMA TrafficOwed ==
    ASSUME TypeOK, TypeOK', NEW n \in Nodes, NEW v \in Users, Traffic(n, v), NEW u \in Users
    PROVE  /\ UNCHANGED <<charge, used, unbilled, doubled>>
           /\ NodeSum(u)' + JobSum(u)' + Owed(u) = NodeSum(u) + JobSum(u) + Owed(u)'
<1>1. UNCHANGED <<charge, used, unbilled, doubled, record>>
  BY DEF Traffic, charging
<1>2. ASSUME NEW m \in Nodes
      PROVE  /\ total'[m][u] = IF m = n /\ u = v THEN total[m][u] + 1 ELSE total[m][u]
             /\ counter'[m][u] = IF m = n /\ u = v THEN counter[m][u] + 1 ELSE counter[m][u]
  BY DEF Traffic, TypeOK, Bytes
<1>3. JobSum(u)' = JobSum(u)
  BY <1>1 DEF JobSum, InJob
<1>4. NodeSum(u)' + OnNode(n, u) = NodeSum(u) + OnNode(n, u)'
  <2>1. \A m \in Nodes \ {n} : OnNode(m, u)' = OnNode(m, u)
    BY <1>1, <1>2 DEF OnNode
  <2> QED BY <2>1, NodeSumChange
<1> DEFINE f == [m \in Nodes |-> Multiplier[m] * total[m][u]]
           h == [m \in Nodes |-> Multiplier[m] * total'[m][u]]
<1>5. f \in [Nodes -> Nat] /\ h \in [Nodes -> Nat]
  <2>1. \A m \in Nodes : total[m][u] \in Nat /\ total'[m][u] \in Nat /\ Multiplier[m] \in Nat
    BY <1>2, Amounts, BoundsAssumption
  <2> QED BY <2>1, Products
<1>6. \A m \in Nodes \ {n} : h[m] = f[m]
  BY <1>2
<1>7. Owed(u) = SumFunction(f) /\ Owed(u)' = SumFunction(h)
  BY DEF Owed
<1>8. f[n] = Multiplier[n] * total[n][u] /\ h[n] = Multiplier[n] * total'[n][u]
  OBVIOUS
<1> HIDE DEF f, h
<1>9. Owed(u)' + f[n] = Owed(u) + h[n]
  BY <1>5, <1>6, <1>7, SumChange, FiniteAssumption
<1>10. OnNode(n, u)' + f[n] = OnNode(n, u) + h[n]
  <2>1. /\ Multiplier[n] \in Nat /\ total[n][u] \in Nat /\ Read(n, u) \in Nat
        /\ OnNode(n, u) = Multiplier[n] * Read(n, u) /\ OnNode(n, u)' = Multiplier[n] * Read(n, u)'
    BY Amounts, ReadType, ReadTypeAfter, BoundsAssumption
  <2>2. CASE u = v
    <3>1. total'[n][u] = total[n][u] + 1 /\ Read(n, u)' = Read(n, u) + 1
      BY <1>1, <1>2, <2>2, Amounts, SMTT(30) DEF Read
    <3>2. h[n] = f[n] + Multiplier[n] /\ OnNode(n, u)' = OnNode(n, u) + Multiplier[n]
      BY <1>8, <2>1, <3>1, Products
    <3>3. f[n] \in Nat /\ OnNode(n, u) \in Nat
      BY <1>5, ReadType
    <3> QED BY <2>1, <3>2, <3>3
  <2>3. CASE u # v
    BY <1>1, <1>2, <1>8, <2>3 DEF OnNode
  <2> QED BY <2>2, <2>3
<1>11. /\ NodeSum(u) \in Nat /\ NodeSum(u)' \in Nat /\ JobSum(u) \in Nat /\ f[n] \in Nat /\ h[n] \in Nat
       /\ OnNode(n, u) \in Nat /\ OnNode(n, u)' \in Nat /\ Owed(u) \in Nat /\ Owed(u)' \in Nat
  BY <1>5, <1>7, SumTypes, SumTypesAfter, SumType, ReadType, ReadTypeAfter, FiniteAssumption
<1> QED BY <1>1, <1>3, <1>4, <1>9, <1>10, <1>11

LEMMA ChargedNext ==
    ASSUME TypeOK, TypeOK', AppliedKnown, ChargedOnce, [Next]_vars
    PROVE  AppliedKnown' /\ ChargedOnce'
<1>1. CASE Bills /\ AppliedKnown'
  <2> SUFFICES ASSUME NEW u \in Users \ doubled'
               PROVE  /\ used'[u] + Uncharged(u)' <= Owed(u)'
                      /\ u \notin unbilled' => used'[u] + Uncharged(u)' = Owed(u)'
    BY <1>1 DEF ChargedOnce
  <2>1. Owed(u)' = Owed(u)
    BY <1>1 DEF Owed, Bills
  <2>2. /\ used[u] + NodeSum(u) + JobSum(u) <= Owed(u)
        /\ u \notin unbilled => used[u] + NodeSum(u) + JobSum(u) = Owed(u)
    <3>1. u \notin doubled
      BY <1>1 DEF Bills
    <3>2. Uncharged(u) = NodeSum(u) + JobSum(u)
      BY DEF Uncharged, NodeSum, JobSum
    <3> QED BY <3>1, <3>2, SumTypes, UsedType DEF ChargedOnce
  <2>3. Uncharged(u)' = NodeSum(u)' + JobSum(u)'
    BY DEF Uncharged, NodeSum, JobSum
  <2>4. /\ used'[u] + NodeSum(u)' + JobSum(u)' <= used[u] + NodeSum(u) + JobSum(u)
        /\ u \notin unbilled' =>
              used'[u] + NodeSum(u)' + JobSum(u)' = used[u] + NodeSum(u) + JobSum(u)
        /\ u \notin unbilled' => u \notin unbilled
    BY <1>1 DEF Bills
  <2>5. /\ used[u] \in Nat /\ used'[u] \in Nat /\ NodeSum(u) \in Nat /\ NodeSum(u)' \in Nat
        /\ JobSum(u) \in Nat /\ JobSum(u)' \in Nat /\ Owed(u) \in Nat
    BY SumTypes, SumTypesAfter, UsedType DEF TypeOK
  <2> QED BY <2>1, <2>2, <2>3, <2>4, <2>5
<1>2. ASSUME NEW n \in Nodes, NEW v \in Users, Traffic(n, v)
      PROVE  AppliedKnown' /\ ChargedOnce'
  <2>1. AppliedKnown'
    BY <1>2 DEF AppliedKnown, Traffic, charging
  <2>2. ASSUME NEW u \in Users \ doubled'
        PROVE  /\ used'[u] + Uncharged(u)' <= Owed(u)'
               /\ u \notin unbilled' => used'[u] + Uncharged(u)' = Owed(u)'
    <3>1. /\ UNCHANGED <<charge, used, unbilled, doubled>>
          /\ NodeSum(u)' + JobSum(u)' + Owed(u) = NodeSum(u) + JobSum(u) + Owed(u)'
      BY <1>2, TrafficOwed
    <3>2. Uncharged(u) = NodeSum(u) + JobSum(u) /\ Uncharged(u)' = NodeSum(u)' + JobSum(u)'
      BY DEF Uncharged, NodeSum, JobSum
    <3>3. /\ used[u] + Uncharged(u) <= Owed(u)
          /\ u \notin unbilled => used[u] + Uncharged(u) = Owed(u)
      BY <3>1 DEF ChargedOnce
    <3>4. /\ used[u] \in Nat /\ NodeSum(u) \in Nat /\ NodeSum(u)' \in Nat
          /\ JobSum(u) \in Nat /\ JobSum(u)' \in Nat /\ Owed(u) \in Nat /\ Owed(u)' \in Nat
      <4>1. Owed(u)' \in Nat
        BY OwedTypeAfter
      <4> QED BY <4>1, SumTypes, SumTypesAfter, UsedType
    <3> QED BY <3>1, <3>2, <3>3, <3>4
  <2> QED BY <2>1, <2>2 DEF ChargedOnce
<1>3. ASSUME NEW n \in Nodes, NEW j \in Jobs, AddCharge(n, j)
      PROVE  AppliedKnown'
  BY <1>3 DEF AppliedKnown, AddCharge, NoCharge, TypeOK
<1>4. ASSUME NEW n \in Nodes,
             CountersLost(n) \/ ReadStats(n) \/ AddToHash(n) \/ AddPush(n) \/ RecordEnds(n)
      PROVE  AppliedKnown'
  BY <1>4 DEF AppliedKnown, CountersLost, ReadStats, AddToHash, AddPush, RecordEnds, charging
<1> QED BY <1>1, <1>2, <1>3, <1>4, RecordingBills, AddChargeBills, ChargingBills, OthersBill
        DEF Next

LEMMA InitCharged == Init => AppliedKnown /\ ChargedOnce
<1> SUFFICES ASSUME Init PROVE AppliedKnown /\ ChargedOnce
  OBVIOUS
<1>1. TypeOK
  BY InitType
<1>2. ASSUME NEW u \in Users
      PROVE  used[u] = 0 /\ NodeSum(u) = 0 /\ JobSum(u) = 0 /\ Owed(u) = 0
  <2>1. \A n \in Nodes : OnNode(n, u) = 0 /\ Multiplier[n] * total[n][u] = 0
    BY BoundsAssumption DEF Init, OnNode, NoRecord, Zero
  <2>2. \A j \in Jobs : InJob(j, u) = 0
    BY DEF Init, InJob, NoCharge, Zero
  <2>3. used[u] = 0
    BY DEF Init, Zero
  <2> QED BY <1>1, <2>1, <2>2, <2>3, SumTypes, SumZero, FiniteAssumption
          DEF NodeSum, JobSum, Owed
<1>3. AppliedKnown
  BY DEF Init, AppliedKnown, NoCharge
<1>4. ASSUME NEW u \in Users
      PROVE  used[u] + Uncharged(u) = Owed(u)
  BY <1>2 DEF Uncharged, NodeSum, JobSum
<1>5. ASSUME NEW u \in Users
      PROVE  Owed(u) <= Owed(u)
  BY <1>2
<1> QED BY <1>3, <1>4, <1>5 DEF ChargedOnce

ChargeInv == TypeOK /\ AppliedKnown /\ ChargedOnce

\* A user's lifetime traffic is what the nodes counted times their multipliers, for
\* any number of nodes and of charging jobs that run at the same time.
THEOREM ChargeCorrect == Spec => []ChargedOnce
<1>1. Init => ChargeInv
  BY InitType, InitCharged DEF ChargeInv
<1>2. ChargeInv /\ [Next]_vars => ChargeInv'
  BY NextType, ChargedNext DEF ChargeInv
<1>3. ChargeInv => ChargedOnce
  BY DEF ChargeInv
<1> QED BY <1>1, <1>2, <1>3, PTL DEF Spec

-----------------------------------------------------------------------------
(* The reset of the traffic.                                                 *)

\* Both queues are paused during a reset, unless the truncation has resumed one,
\* and while it waits they have not been found drained.
ResetPauses ==
    /\ reset.pc # "off" /\ ~reset.intruded => paused = Queues
    /\ reset.pc = "throttle" => ~reset.drained

AloneInv == TypeOK /\ ResetPauses /\ ResetAlone

LEMMA NobodyStarts ==
    ASSUME TypeOK, [Next]_vars, paused = Queues, ~Busy
    PROVE  ~Busy'
<1>1. /\ \A j \in Jobs : charge[j].pc \notin {"active", "applied"}
      /\ \A n \in Nodes : push[n].pc # "moving"
  BY DEF Busy
<1>2. \A j \in Jobs : charge'[j].pc \notin {"active", "applied"}
  <2>1. ASSUME NEW n \in Nodes, NEW j \in Jobs, AddCharge(n, j)
        PROVE  \A i \in Jobs : charge'[i].pc \notin {"active", "applied"}
    BY <1>1, <2>1 DEF AddCharge, NoCharge, TypeOK
  <2>2. ASSUME NEW j \in Jobs,
               \/ ChargeStart(j) \/ IncrementUsedTraffic(j) \/ IncrementFails(j)
               \/ ChargeDone(j) \/ ChargeCrash(j)
        PROVE  FALSE
    BY <1>1, <2>2 DEF ChargeStart, IncrementUsedTraffic, IncrementFails, ChargeDone, ChargeCrash, Queues
  <2>3. CASE charge' = charge
    BY <1>1, <2>3
  <2>4. charge' = charge \/ (\E n \in Nodes, j \in Jobs : AddCharge(n, j))
          \/ (\E j \in Jobs : \/ ChargeStart(j) \/ IncrementUsedTraffic(j) \/ IncrementFails(j)
                              \/ ChargeDone(j) \/ ChargeCrash(j))
    BY DEF Next, vars, charging, Traffic, CountersLost, ReadStats, AddToHash, AddPush, RecordEnds,
           PushStart, RenameFails, PushDone, PushAborts, Expire, PushBatch, ResetStart, ResetDrained,
           ResetGivesUp, ResetDone, ResetAborts, CleanStart, CleanTruncate, CleanDone, CleanCrash
  <2> QED BY <2>1, <2>2, <2>3, <2>4
<1>3. \A n \in Nodes : push'[n].pc # "moving"
  <2>1. ASSUME NEW n \in Nodes, AddPush(n) \/ RenameFails(n)
        PROVE  \A m \in Nodes : push'[m].pc # "moving"
    BY <1>1, <2>1 DEF AddPush, RenameFails, NoPush, TypeOK
  <2>2. ASSUME NEW n \in Nodes,
               \/ PushStart(n) \/ PushDone(n) \/ PushAborts(n)
               \/ \E S \in SUBSET Users : PushBatch(n, S)
        PROVE  FALSE
    BY <1>1, <2>2 DEF PushStart, PushDone, PushAborts, PushBatch, Queues
  <2>3. CASE push' = push
    BY <1>1, <2>3
  <2>4. push' = push \/ (\E n \in Nodes : AddPush(n) \/ RenameFails(n))
          \/ (\E n \in Nodes : \/ PushStart(n) \/ PushDone(n) \/ PushAborts(n)
                               \/ \E S \in SUBSET Users : PushBatch(n, S))
    BY DEF Next, vars, pipeline, Traffic, CountersLost, ReadStats, AddToHash, AddCharge, RecordEnds,
           Expire, ChargeStart, IncrementUsedTraffic, IncrementFails, ChargeDone, ChargeCrash,
           ResetStart, ResetDrained, ResetGivesUp, ResetDone, ResetAborts,
           CleanStart, CleanTruncate, CleanDone, CleanCrash
  <2> QED BY <2>1, <2>2, <2>3, <2>4
<1> QED BY <1>2, <1>3 DEF Busy

LEMMA AloneNext ==
    ASSUME AloneInv, [Next]_vars
    PROVE  ResetPauses' /\ ResetAlone'
<1>1. TypeOK /\ ResetPauses /\ ResetAlone
  BY DEF AloneInv
<1>2. CASE ResetStart \/ ResetDone \/ ResetAborts
  BY <1>2 DEF ResetStart, ResetDone, ResetAborts, NoReset, ResetPauses, ResetAlone
<1>3. CASE ResetDrained
  <2>1. Busy' <=> Busy
    BY <1>3 DEF ResetDrained, Busy, pipeline, charging
  <2> QED BY <1>1, <1>3, <2>1 DEF ResetDrained, ResetPauses, ResetAlone, TypeOK, ResetJob
<1>4. CASE ResetGivesUp
  <2>1. Busy' <=> Busy
    BY <1>4 DEF ResetGivesUp, Busy, pipeline, charging
  <2>2. reset'.intruded = reset.intruded /\ reset'.pc = "run" /\ reset'.drained = reset.drained
    BY <1>1, <1>4 DEF ResetGivesUp, TypeOK, ResetJob
  <2> QED BY <1>1, <1>4, <2>1, <2>2 DEF ResetGivesUp, ResetPauses, ResetAlone, TypeOK, ResetJob
<1>5. CASE CleanDone
  BY <1>1, <1>5 DEF CleanDone, ResetPauses, ResetAlone, TypeOK, ResetJob
<1>6. CASE CleanStart
  <2>1. Busy' <=> Busy
    BY <1>6 DEF CleanStart, Busy, pipeline, charging
  <2> QED BY <1>1, <1>6, <2>1 DEF CleanStart, ResetPauses, ResetAlone, Queues
<1>7. CASE UNCHANGED <<paused, reset>>
  <2>1. ResetPauses'
    BY <1>1, <1>7 DEF ResetPauses
  <2>2. ResetAlone'
    BY <1>1, <1>7, NobodyStarts DEF ResetPauses, ResetAlone
  <2> QED BY <2>1, <2>2
<1>8. \/ UNCHANGED <<paused, reset>> \/ ResetStart \/ ResetDone \/ ResetAborts
      \/ ResetDrained \/ ResetGivesUp \/ CleanDone \/ CleanStart
  BY ZenonT(60)
     DEF Next, vars, upkeep, Traffic, CountersLost, ReadStats, AddToHash, AddPush, AddCharge,
         RecordEnds, PushStart, RenameFails, PushDone, PushAborts, Expire, PushBatch,
         ChargeStart, IncrementUsedTraffic, IncrementFails, ChargeDone, ChargeCrash,
         CleanTruncate, CleanCrash
<1> QED BY <1>2, <1>3, <1>4, <1>5, <1>6, <1>7, <1>8

\* A reset that has drained the queues has them to itself, however jobs, failures
\* and other resets interleave, unless the truncation resumed one.
THEOREM ResetCorrect == Spec => []ResetAlone
<1>1. Init => AloneInv
  BY InitType DEF Init, AloneInv, ResetPauses, ResetAlone, NoReset
<1>2. AloneInv /\ [Next]_vars => AloneInv'
  BY NextType, AloneNext DEF AloneInv
<1>3. AloneInv => ResetAlone
  BY DEF AloneInv
<1> QED BY <1>1, <1>2, <1>3, PTL DEF Spec

=============================================================================
