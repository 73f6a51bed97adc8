---------------------------- MODULE StorageProofs ----------------------------
(***************************************************************************)
(* What holds of Storage for every set of requests and policies and every  *)
(* number of Assets: its types, that no two policies are in force at once, *)
(* that one key makes one upload, and that what is stored and promised     *)
(* stays within the limits.  The last speaks of a sum over the Assets; the *)
(* facts on sums that it takes come first, each by its least               *)
(* counterexample.                                                         *)
(***************************************************************************)
EXTENDS Storage, WellFoundedInduction, FiniteSetTheorems, TLAPS

-----------------------------------------------------------------------------
(* Induction over numbers, as the least counterexample *)

LEMMA LeastNatural ==
  ASSUME NEW T \in SUBSET Nat, T # {}
  PROVE  \E n \in T : \A m \in T : n <= m
<1> DEFINE R == OpToRel(<, Nat)
<1>1. IsWellFoundedOn(R, Nat)
  BY NatLessThanWellFounded, Zenon
<1>2. \A m, n \in Nat : <<m, n>> \in R <=> m < n
  BY DEF OpToRel
<1> HIDE DEF R
<1>3. PICK n \in T : \A m \in T : ~ (<<m, n>> \in R)
  BY <1>1, WFMin, Zenon
<1>4. \A m \in T : ~ (m < n)
  BY <1>2, <1>3
<1>5. \A m \in T : n <= m
  BY <1>4
<1> QED
  BY <1>5

(* A set of numbers that holds 0, and n + 1 with every n, is all of them.   *)
LEMMA AllNaturals ==
  ASSUME NEW T \in SUBSET Nat, 0 \in T,
         \A n \in T : n + 1 \in T
  PROVE  T = Nat
<1> SUFFICES ASSUME Nat \ T # {}
             PROVE  FALSE
  OBVIOUS
<1>1. PICK n \in Nat \ T : \A m \in Nat \ T : n <= m
  BY LeastNatural
<1>2. n # 0 /\ n - 1 \in Nat
  BY <1>1
<1>3. n - 1 \in T
  BY <1>1, <1>2
<1> QED
  BY <1>1, <1>2, <1>3

-----------------------------------------------------------------------------
(* Sums over the subsets of a finite set *)

IsSum(w, S, f) ==
  f = [s \in SUBSET S |->
         IF s = {} THEN 0
         ELSE LET x == CHOOSE x \in s : TRUE IN w[x] + f[s \ {x}]]

Total(w, S) == (CHOOSE f : IsSum(w, S, f))[S]

(* What an Asset's row counts with. *)
Room(r) == r.bytes + (IF r.reserved THEN r.size ELSE 0)
Rooms == [a \in Assets |-> Room(asset[a])]

LEMMA CountedIsTotal == Counted = Total(Rooms, Assets)
BY DEF Counted, MapThenSumSet, MapThenFoldSet, IsSum, Total, Rooms, Room

(* The subsets of up to n elements, and a function that sums w over them.   *)
Upto(S, n) == {s \in SUBSET S : Cardinality(s) <= n}
SumsUpto(w, S, n, f) ==
  /\ f \in [Upto(S, n) -> Nat]
  /\ \A s \in Upto(S, n) :
       f[s] = IF s = {} THEN 0
              ELSE w[CHOOSE x \in s : TRUE] + f[s \ {CHOOSE x \in s : TRUE}]

(* A set that is not empty is one smaller without the element it is taken   *)
(* apart at.                                                                *)
LEMMA OneLess ==
  ASSUME NEW S, IsFiniteSet(S), NEW s \in SUBSET S, s # {}
  PROVE  /\ (CHOOSE x \in s : TRUE) \in s
         /\ s \ {CHOOSE x \in s : TRUE} \in SUBSET S
         /\ Cardinality(s) \in Nat \ {0}
         /\ Cardinality(s \ {CHOOSE x \in s : TRUE}) = Cardinality(s) - 1
<1>1. IsFiniteSet(s)
  BY FS_Subset
<1>2. (CHOOSE x \in s : TRUE) \in s
  OBVIOUS
<1>3. Cardinality(s \ {CHOOSE x \in s : TRUE}) = Cardinality(s) - 1
  BY <1>1, <1>2, FS_RemoveElement
<1>4. Cardinality(s) \in Nat /\ Cardinality(s) # 0
  BY <1>1, FS_CardinalityType, FS_EmptySet
<1> QED
  BY <1>2, <1>3, <1>4

LEMMA NoneUptoZero ==
  ASSUME NEW S, IsFiniteSet(S), NEW s \in Upto(S, 0)
  PROVE  s = {}
<1> SUFFICES ASSUME s # {}
             PROVE  FALSE
  OBVIOUS
<1>1. s \in SUBSET S /\ Cardinality(s) <= 0
  BY DEF Upto
<1>2. Cardinality(s) \in Nat \ {0}
  BY <1>1, OneLess
<1> QED
  BY <1>1, <1>2

LEMMA SumsUptoExist ==
  ASSUME NEW S, IsFiniteSet(S), NEW w \in [S -> Nat]
  PROVE  \A n \in Nat : \E f : SumsUpto(w, S, n, f)
<1> DEFINE T == {n \in Nat : \E f : SumsUpto(w, S, n, f)}
<1>1. 0 \in T
  <2> DEFINE f == [s \in Upto(S, 0) |-> 0]
  <2>1. \A s \in Upto(S, 0) : s = {}
    BY NoneUptoZero
  <2>2. SumsUpto(w, S, 0, f)
    BY <2>1 DEF SumsUpto
  <2> QED
    BY <2>2
<1>2. ASSUME NEW n \in T
      PROVE  n + 1 \in T
  <2>1. PICK f : SumsUpto(w, S, n, f)
    OBVIOUS
  <2> DEFINE g == [s \in Upto(S, n + 1) |->
                     IF s = {} THEN 0
                     ELSE w[CHOOSE x \in s : TRUE]
                          + f[s \ {CHOOSE x \in s : TRUE}]]
  <2>2. \A s \in Upto(S, n + 1) :
          s # {} => /\ (CHOOSE x \in s : TRUE) \in S
                    /\ s \ {CHOOSE x \in s : TRUE} \in Upto(S, n)
                    /\ s \ {CHOOSE x \in s : TRUE} \in Upto(S, n + 1)
    <3> SUFFICES ASSUME NEW s \in Upto(S, n + 1), s # {}
                 PROVE  /\ (CHOOSE x \in s : TRUE) \in S
                        /\ s \ {CHOOSE x \in s : TRUE} \in Upto(S, n)
                        /\ s \ {CHOOSE x \in s : TRUE} \in Upto(S, n + 1)
      OBVIOUS
    <3>1. s \in SUBSET S /\ Cardinality(s) <= n + 1
      BY DEF Upto
    <3> QED
      BY <3>1, OneLess DEF Upto
  <2>3. \A s \in Upto(S, n) : g[s] = f[s]
    <3> SUFFICES ASSUME NEW s \in Upto(S, n)
                 PROVE  g[s] = f[s]
      OBVIOUS
    <3>1. s \in Upto(S, n + 1)
      <4>1. s \in SUBSET S /\ Cardinality(s) \in Nat /\ Cardinality(s) <= n
        BY FS_Subset, FS_CardinalityType DEF Upto
      <4> QED
        BY <4>1 DEF Upto
    <3> QED
      BY <2>1, <3>1 DEF SumsUpto
  <2>4. g \in [Upto(S, n + 1) -> Nat]
    BY <2>1, <2>2 DEF SumsUpto
  <2>5. \A s \in Upto(S, n + 1) :
          g[s] = IF s = {} THEN 0
                 ELSE w[CHOOSE x \in s : TRUE] + g[s \ {CHOOSE x \in s : TRUE}]
    <3> SUFFICES ASSUME NEW s \in Upto(S, n + 1), s # {}
                 PROVE  g[s] = w[CHOOSE x \in s : TRUE]
                               + g[s \ {CHOOSE x \in s : TRUE}]
      OBVIOUS
    <3>1. g[s] = w[CHOOSE x \in s : TRUE]
                 + f[s \ {CHOOSE x \in s : TRUE}]
      OBVIOUS
    <3>2. s \ {CHOOSE x \in s : TRUE} \in Upto(S, n)
      BY <2>2
    <3> HIDE DEF g
    <3>3. g[s \ {CHOOSE x \in s : TRUE}] = f[s \ {CHOOSE x \in s : TRUE}]
      BY <2>3, <3>2
    <3> QED
      BY <3>1, <3>3
  <2> HIDE DEF g
  <2>6. SumsUpto(w, S, n + 1, g)
    BY <2>4, <2>5 DEF SumsUpto
  <2> QED
    BY <2>6
<1>3. T = Nat
  <2> HIDE DEF T
  <2>1. T \in SUBSET Nat
    BY DEF T
  <2> QED
    BY <1>1, <1>2, <2>1, AllNaturals
<1> QED
  BY <1>3

(* The sum of a finite set is what its recursive equation says.             *)
Sums(w, S, f) ==
  /\ f \in [SUBSET S -> Nat]
  /\ Total(w, S) = f[S]
  /\ \A s \in SUBSET S :
       f[s] = IF s = {} THEN 0
              ELSE w[CHOOSE x \in s : TRUE] + f[s \ {CHOOSE x \in s : TRUE}]

LEMMA SumExists ==
  ASSUME NEW S, IsFiniteSet(S), NEW w \in [S -> Nat]
  PROVE  \E f : Sums(w, S, f)
<1> DEFINE n == Cardinality(S)
<1>1. n \in Nat
  BY FS_CardinalityType
<1>2. Upto(S, n) = SUBSET S
  BY FS_Subset DEF Upto
<1>3. PICK g : SumsUpto(w, S, n, g)
  BY <1>1, SumsUptoExist
<1>4. IsSum(w, S, g)
  BY <1>2, <1>3 DEF SumsUpto, IsSum
<1> DEFINE f == CHOOSE h : IsSum(w, S, h)
<1>5. IsSum(w, S, f)
  BY <1>4
<1>6. Total(w, S) = f[S]
  BY DEF Total
<1> HIDE DEF f
<1>7. /\ f = [s \in SUBSET S |-> f[s]]
      /\ \A s \in SUBSET S :
           f[s] = IF s = {} THEN 0
                  ELSE w[CHOOSE x \in s : TRUE]
                       + f[s \ {CHOOSE x \in s : TRUE}]
  BY <1>5 DEF IsSum
<1>8. \A k \in Nat : \A s \in Upto(S, k) : f[s] \in Nat
  <2> DEFINE T == {k \in Nat : \A s \in Upto(S, k) : f[s] \in Nat}
  <2>1. 0 \in T
    <3>1. {} \in SUBSET S /\ f[{}] = 0
      BY <1>7
    <3>2. \A s \in Upto(S, 0) : f[s] \in Nat
      BY NoneUptoZero, <3>1
    <3> QED
      BY <3>2
  <2>2. ASSUME NEW k \in T
        PROVE  k + 1 \in T
    <3> SUFFICES ASSUME NEW s \in Upto(S, k + 1)
                 PROVE  f[s] \in Nat
      OBVIOUS
    <3>0. s \in SUBSET S /\ Cardinality(s) <= k + 1
      BY DEF Upto
    <3>1. CASE s = {}
      <4>1. f[s] = 0
        BY <1>7, <3>0, <3>1
      <4> QED
        BY <4>1
    <3>2. CASE s # {}
      <4>1. /\ (CHOOSE x \in s : TRUE) \in S
            /\ s \ {CHOOSE x \in s : TRUE} \in Upto(S, k)
        BY <3>0, <3>2, OneLess DEF Upto
      <4>2. f[s] = w[CHOOSE x \in s : TRUE]
                   + f[s \ {CHOOSE x \in s : TRUE}]
        BY <1>7, <3>0, <3>2
      <4>3. f[s \ {CHOOSE x \in s : TRUE}] \in Nat
        BY <4>1
      <4>4. w[CHOOSE x \in s : TRUE] \in Nat
        BY <4>1
      <4> QED
        BY <4>2, <4>3, <4>4
    <3> QED
      BY <3>1, <3>2
  <2>3. T = Nat
    <3> HIDE DEF T
    <3>1. T \in SUBSET Nat
      BY DEF T
    <3> QED
      BY <2>1, <2>2, <3>1, AllNaturals
  <2> QED
    BY <2>3
<1>9. f \in [SUBSET S -> Nat]
  BY <1>1, <1>2, <1>7, <1>8
<1> QED
  BY <1>6, <1>7, <1>9 DEF Sums

(* Where two functions differ in one place, their sums differ by as much.   *)
LEMMA ChangeOfOne ==
  ASSUME NEW S, IsFiniteSet(S), NEW a \in S,
         NEW w \in [S -> Nat], NEW v \in [S -> Nat],
         \A x \in S : x # a => w[x] = v[x]
  PROVE  /\ Total(w, S) \in Nat /\ Total(v, S) \in Nat
         /\ Total(w, S) + v[a] = Total(v, S) + w[a]
<1>1. PICK f : Sums(w, S, f)
  BY SumExists
<1>2. PICK g : Sums(v, S, g)
  BY SumExists
<1> DEFINE Agree(s) == /\ a \in s => f[s] + v[a] = g[s] + w[a]
                       /\ a \notin s => f[s] = g[s]
           T == {k \in Nat : \A s \in Upto(S, k) : Agree(s)}
<1>3. 0 \in T
  <2>1. {} \in SUBSET S /\ f[{}] = 0 /\ g[{}] = 0
    BY <1>1, <1>2 DEF Sums
  <2>2. \A s \in Upto(S, 0) : Agree(s)
    BY NoneUptoZero, <2>1
  <2> QED
    BY <2>2
<1>4. ASSUME NEW k \in T
      PROVE  k + 1 \in T
  <2> SUFFICES ASSUME NEW s \in Upto(S, k + 1)
               PROVE  Agree(s)
    OBVIOUS
  <2>1. s \in SUBSET S /\ Cardinality(s) <= k + 1
    BY DEF Upto
  <2>2. CASE s = {}
    BY <1>1, <1>2, <2>1, <2>2 DEF Sums
  <2>3. CASE s # {}
    <3> DEFINE x == CHOOSE x \in s : TRUE
               r == s \ {x}
    <3>1. x \in s /\ x \in S /\ r \in Upto(S, k) /\ r \in SUBSET S
      BY <2>1, <2>3, OneLess DEF Upto
    <3>2. Agree(r)
      BY <3>1
    <3>3. f[s] = w[x] + f[r] /\ g[s] = v[x] + g[r]
      BY <1>1, <1>2, <2>1, <2>3 DEF Sums
    <3>4. a \in s <=> a = x \/ a \in r
      BY <3>1
    <3>5. x \notin r
      OBVIOUS
    <3>6. /\ f[s] \in Nat /\ f[r] \in Nat /\ g[s] \in Nat /\ g[r] \in Nat
          /\ w[x] \in Nat /\ v[x] \in Nat /\ w[a] \in Nat /\ v[a] \in Nat
      BY <1>1, <1>2, <2>1, <3>1 DEF Sums
    <3>7. x # a => w[x] = v[x]
      BY <3>1
    <3> HIDE DEF x, r
    <3> QED
      BY <3>2, <3>3, <3>4, <3>5, <3>6, <3>7
  <2> QED
    BY <2>2, <2>3
<1>5. T = Nat
  <2> HIDE DEF T
  <2>1. T \in SUBSET Nat
    BY DEF T
  <2> QED
    BY <1>3, <1>4, <2>1, AllNaturals
<1>6. Agree(S)
  <2>1. Cardinality(S) \in Nat /\ S \in Upto(S, Cardinality(S))
    BY FS_CardinalityType DEF Upto
  <2> QED
    BY <1>5, <2>1
<1> QED
  BY <1>1, <1>2, <1>6 DEF Sums

(* Where nothing counts, the sum is 0. *)
LEMMA NothingCounts ==
  ASSUME NEW S, IsFiniteSet(S), NEW w \in [S -> Nat], \A x \in S : w[x] = 0
  PROVE  Total(w, S) = 0
<1>1. PICK f : Sums(w, S, f)
  BY SumExists
<1> DEFINE T == {k \in Nat : \A s \in Upto(S, k) : f[s] = 0}
<1>2. 0 \in T
  <2>1. {} \in SUBSET S /\ f[{}] = 0
    BY <1>1 DEF Sums
  <2>2. \A s \in Upto(S, 0) : f[s] = 0
    BY NoneUptoZero, <2>1
  <2> QED
    BY <2>2
<1>3. ASSUME NEW k \in T
      PROVE  k + 1 \in T
  <2> SUFFICES ASSUME NEW s \in Upto(S, k + 1), s # {}
               PROVE  f[s] = 0
    BY <1>1 DEF Upto, Sums
  <2>1. s \in SUBSET S /\ Cardinality(s) <= k + 1
    BY DEF Upto
  <2>2. /\ (CHOOSE x \in s : TRUE) \in S
        /\ s \ {CHOOSE x \in s : TRUE} \in Upto(S, k)
    BY <2>1, OneLess DEF Upto
  <2>3. f[s] = w[CHOOSE x \in s : TRUE] + f[s \ {CHOOSE x \in s : TRUE}]
    BY <1>1, <2>1 DEF Sums
  <2> QED
    BY <2>2, <2>3
<1>4. T = Nat
  <2> HIDE DEF T
  <2>1. T \in SUBSET Nat
    BY DEF T
  <2> QED
    BY <1>2, <1>3, <2>1, AllNaturals
<1>5. Cardinality(S) \in Nat /\ S \in Upto(S, Cardinality(S))
  BY FS_CardinalityType DEF Upto
<1> QED
  BY <1>1, <1>4, <1>5 DEF Sums

-----------------------------------------------------------------------------
(* Types, and what is always so of the rows *)

AssetRows ==
  [key : Keys \cup {NoKey}, size : Nat,
   ingestion : {"none", "pending", "processing", "ready", "failed"},
   deleted : BOOLEAN, bytes : Nat,
   upload : {"none", "open", "verifying", "completed", "rejected", "aborted",
             "expired"},
   reserved : BOOLEAN]

CallRows ==
  [op : {"none", "initialize", "retry"}, key : Keys \cup {NoKey},
   asset : Assets \cup {0}, at : Nat, fresh : BOOLEAN]

TypeOK ==
  /\ now \in 0..MaxNow
  /\ policies \subseteq Candidates
  /\ asset \in [Assets -> AssetRows]
  /\ record \in [Keys -> Assets \cup {0}]
  /\ call \in [Calls -> CallRows]
  /\ highest \in Nat

(* A call knows its key or its Asset, and its time is not in the future.    *)
CallsMakeSense ==
  \A c \in Calls :
    /\ call[c].op = "initialize" => call[c].key \in Keys
    /\ call[c].op = "retry" => call[c].asset \in Assets
    /\ call[c].at <= now

(* Room is promised to pending Assets only, and an Asset that is none has   *)
(* used nothing.                                                            *)
RoomIsForPending ==
  \A a \in Assets :
    /\ asset[a].reserved => asset[a].ingestion = "pending"
    /\ asset[a].ingestion = "none" => asset[a] = NoAsset

(* A key's record is the Asset it made. *)
RecordsTell ==
  \A a \in Assets :
    Exists(a) => asset[a].key \in Keys /\ record[asset[a].key] = a

(* What the trigger asks of every insertion holds of all pairs of rows. *)
Apart(rows) == \A p, q \in rows : p # q => ~Overlaps(p, q)

(* No time up to now has had a limit above the highest.                     *)
HighestIsReached ==
  \A t \in 0..now : Resolved(policies, "project", t) <= highest

StorageInv ==
  /\ CallsMakeSense /\ RoomIsForPending /\ RecordsTell
  /\ Apart(policies) /\ HighestIsReached /\ StorageWithinLimits

-----------------------------------------------------------------------------
(* At most one policy of a scope is in force, so that a limit is a number   *)

LEMMA OneInForce ==
  ASSUME NEW rows \in SUBSET Candidates, Apart(rows),
         NEW scope \in {"system", "user"}, NEW t \in Nat,
         NEW p \in InForce(rows, scope, t), NEW q \in InForce(rows, scope, t)
  PROVE  p = q
BY StorageAssumption DEF Apart, Overlaps, SameScope, InForce

LEMMA LatestInForce ==
  ASSUME NEW rows \in SUBSET Candidates, Apart(rows),
         NEW scope \in {"system", "user"}, NEW t \in Nat,
         InForce(rows, scope, t) # {}
  PROVE  Latest(InForce(rows, scope, t)) \in rows
<1>1. PICK p : p \in InForce(rows, scope, t)
  OBVIOUS
<1>2. p \in rows /\ p.from \in Nat
  BY <1>1, StorageAssumption DEF InForce
<1>3. \A q \in InForce(rows, scope, t) : q.from <= p.from
  BY <1>1, <1>2, OneInForce
<1>4. Latest(InForce(rows, scope, t)) \in InForce(rows, scope, t)
  BY <1>1, <1>3 DEF Latest
<1> QED
  BY <1>4 DEF InForce

LEMMA ResolvedIsNumber ==
  ASSUME NEW rows \in SUBSET Candidates, Apart(rows),
         NEW limit \in Limits, NEW t \in Nat
  PROVE  Resolved(rows, limit, t) \in Nat
BY LatestInForce, StorageAssumption DEF Resolved, Names

LEMMA MaxUpto ==
  ASSUME NEW h \in Nat, NEW F \in [Nat -> Nat]
  PROVE  \A n \in Nat : \E m \in {h} \cup {F[t] : t \in 0..n} :
           \A y \in {h} \cup {F[t] : t \in 0..n} : m >= y
<1> DEFINE V(n) == {h} \cup {F[t] : t \in 0..n}
           T == {n \in Nat : \E m \in V(n) : \A y \in V(n) : m >= y}
<1>1. 0 \in T
  <2>1. V(0) = {h, F[0]} /\ F[0] \in Nat
    OBVIOUS
  <2>2. \E m \in {h, F[0]} : m >= h /\ m >= F[0]
    BY <2>1
  <2> QED
    BY <2>1, <2>2
<1>2. ASSUME NEW n \in T
      PROVE  n + 1 \in T
  <2>1. PICK m \in V(n) : \A y \in V(n) : m >= y
    OBVIOUS
  <2>2. V(n + 1) = V(n) \cup {F[n + 1]}
    OBVIOUS
  <2>3. F[n + 1] \in Nat /\ V(n) \subseteq Nat
    OBVIOUS
  <2> HIDE DEF V
  <2>4. \E k \in V(n + 1) : \A y \in V(n + 1) : k >= y
    <3>1. CASE m >= F[n + 1]
      BY <2>1, <2>2, <3>1
    <3>2. CASE F[n + 1] >= m
      BY <2>1, <2>2, <2>3, <3>2
    <3> QED
      BY <2>3, <3>1, <3>2
  <2> QED
    BY <2>4
<1>3. T = Nat
  <2> HIDE DEF T
  <2>1. T \in SUBSET Nat
    BY DEF T
  <2> QED
    BY <1>1, <1>2, <2>1, AllNaturals
<1> QED
  BY <1>3

(* The highest limit does not fall, and no limit up to now is above it.     *)
LEMMA RisesReaches ==
  ASSUME highest \in Nat, Rises,
         policies' \in SUBSET Candidates, Apart(policies'), now' \in Nat
  PROVE  /\ highest' \in Nat /\ highest <= highest'
         /\ \A t \in 0..now' : Resolved(policies', "project", t) <= highest'
<1> DEFINE F == [t \in Nat |-> Resolved(policies', "project", t)]
           V == {highest} \cup {F[t] : t \in 0..now'}
<1>1. F \in [Nat -> Nat]
  BY ResolvedIsNumber DEF Limits
<1>2. V = {highest} \cup {Resolved(policies', "project", t) : t \in 0..now'}
  OBVIOUS
<1>3. highest' = Max(V)
  BY <1>2 DEF Rises
<1>4. \A t \in 0..now' : F[t] = Resolved(policies', "project", t)
  OBVIOUS
<1> HIDE DEF F
<1>5. \E m \in V : \A y \in V : m >= y
  BY <1>1, MaxUpto
<1>6. highest' \in V /\ \A y \in V : highest' >= y
  BY <1>3, <1>5 DEF Max
<1>7. V \subseteq Nat
  BY <1>1
<1> QED
  BY <1>1, <1>4, <1>6, <1>7

-----------------------------------------------------------------------------
(* What a step can do to an Asset: a row that counts with no more and stays *)
(* with its key, or an upload that is opened in the room that is left.      *)

Settles(a, r) ==
  /\ Exists(a) /\ r.ingestion # "none" /\ r.key = asset[a].key
  /\ r.reserved => r.ingestion = "pending"
  /\ Room(r) <= Room(asset[a])
  /\ record' = record

Opens(a, r) ==
  /\ Room(r) = Room(asset[a]) + r.size
  /\ r.ingestion = "pending"
  /\ \E t \in 0..now : Fits(r.size, t)
  /\ \/ Exists(a) /\ r.key = asset[a].key /\ record' = record
     \/ /\ ~Exists(a) /\ r.key \in Keys /\ record[r.key] = 0
        /\ record' = [record EXCEPT ![r.key] = a]

Moves(a, r) ==
  /\ asset' = [asset EXCEPT ![a] = r]
  /\ UNCHANGED <<now, policies, highest>>
  /\ Settles(a, r) \/ Opens(a, r)

AssetsStay == UNCHANGED <<asset, record>>

LEMMA SettlesSo ==
  ASSUME TypeOK, NEW a \in Assets, NEW r \in AssetRows,
         Exists(a), r.ingestion # "none", r.key = asset[a].key,
         r.size = asset[a].size,
         \/ r.bytes = asset[a].bytes /\ (r.reserved => asset[a].reserved)
         \/ r.bytes = asset[a].size /\ asset[a].reserved /\ ~r.reserved,
         r.reserved => r.ingestion = "pending",
         record' = record
  PROVE  Settles(a, r)
<1>1. /\ asset[a].bytes \in Nat /\ asset[a].size \in Nat
      /\ asset[a].reserved \in BOOLEAN
      /\ r.bytes \in Nat /\ r.size \in Nat /\ r.reserved \in BOOLEAN
  BY DEF TypeOK, AssetRows
<1>2. Room(r) <= Room(asset[a])
  BY <1>1 DEF Room
<1> QED
  BY <1>2 DEF Settles

LEMMA LiveMoves ==
  ASSUME TypeOK, RoomIsForPending, NEW a \in Assets, Live(a)
  PROVE  /\ \E r \in AssetRows : Moves(a, r)
         /\ call' \in [Calls -> CallRows]
         /\ \A c \in Calls : /\ call'[c].op = call[c].op
                             /\ call'[c].key = call[c].key
                             /\ call'[c].asset = call[c].asset
                             /\ call'[c].at = call[c].at
<1>0. asset[a] \in AssetRows
  BY DEF TypeOK
<1> DEFINE Same ==
      /\ call' \in [Calls -> CallRows]
      /\ \A c \in Calls : /\ call'[c].op = call[c].op
                          /\ call'[c].key = call[c].key
                          /\ call'[c].asset = call[c].asset
                          /\ call'[c].at = call[c].at
<1>a. ASSUME UNCHANGED call
      PROVE  Same
  BY <1>a DEF TypeOK
<1>b. ASSUME NEW r, Changes(a, r)
      PROVE  Same
  <2>1. \A c \in Calls : call[c] \in CallRows
    BY DEF TypeOK
  <2>2. \A c \in Calls : call'[c] = call[c]
                         \/ call'[c] = [call[c] EXCEPT !.fresh = FALSE]
    BY <1>b DEF Changes
  <2>3. call' = [c \in Calls |-> call'[c]]
    BY <1>b DEF Changes
  <2>4. \A c \in Calls : /\ call'[c] \in CallRows
                         /\ call'[c].op = call[c].op
                         /\ call'[c].key = call[c].key
                         /\ call'[c].asset = call[c].asset
                         /\ call'[c].at = call[c].at
    BY <2>1, <2>2 DEF CallRows
  <2> QED
    BY <2>3, <2>4
<1> HIDE DEF Same
<1>1. CASE Verify(a)
  <2> DEFINE r == [asset[a] EXCEPT !.upload = "verifying"]
  <2>1. asset' = [asset EXCEPT ![a] = r]
    BY <1>1 DEF Verify
  <2>2. /\ r \in AssetRows
        /\ r.key = asset[a].key /\ r.size = asset[a].size
        /\ r.ingestion = asset[a].ingestion /\ r.bytes = asset[a].bytes
        /\ r.reserved = asset[a].reserved
    BY <1>0 DEF AssetRows
  <2>3. Exists(a) /\ record' = record
    BY <1>1 DEF Verify, Fixed, Exists, RoomIsForPending, NoAsset
  <2> HIDE DEF r
  <2>4. Settles(a, r)
    BY <1>1, <2>2, <2>3, SettlesSo DEF Verify, Exists, RoomIsForPending
  <2> QED
    BY <1>1, <1>a, <2>1, <2>2, <2>4 DEF Verify, Fixed, Moves, Same
<1>2. CASE Reopen(a)
  <2> DEFINE r == [asset[a] EXCEPT !.upload = "open"]
  <2>1. asset' = [asset EXCEPT ![a] = r]
    BY <1>2 DEF Reopen
  <2>2. /\ r \in AssetRows
        /\ r.key = asset[a].key /\ r.size = asset[a].size
        /\ r.ingestion = asset[a].ingestion /\ r.bytes = asset[a].bytes
        /\ r.reserved = asset[a].reserved
    BY <1>0 DEF AssetRows
  <2>3. Exists(a) /\ record' = record
    BY <1>2 DEF Reopen, Fixed, Exists, RoomIsForPending, NoAsset
  <2> HIDE DEF r
  <2>4. Settles(a, r)
    BY <1>2, <2>2, <2>3, SettlesSo DEF Reopen, Exists, RoomIsForPending
  <2> QED
    BY <1>2, <1>a, <2>1, <2>2, <2>4 DEF Reopen, Fixed, Moves, Same
<1>3. CASE CommitUpload(a)
  <2> DEFINE r == [asset[a] EXCEPT !.upload = "completed",
                                   !.ingestion = "processing",
                                   !.bytes = asset[a].size,
                                   !.reserved = FALSE]
  <2>1. Changes(a, r) /\ asset' = [asset EXCEPT ![a] = r]
    BY <1>3 DEF CommitUpload, Changes
  <2>2. /\ r \in AssetRows
        /\ r.key = asset[a].key /\ r.size = asset[a].size
        /\ r.ingestion = "processing" /\ r.bytes = asset[a].size
        /\ r.reserved = FALSE
    BY <1>0 DEF AssetRows
  <2>3. Exists(a) /\ record' = record
    BY <1>3 DEF CommitUpload, Fixed, Exists, RoomIsForPending, NoAsset
  <2> HIDE DEF r
  <2>4. Settles(a, r)
    BY <1>3, <2>2, <2>3, SettlesSo DEF CommitUpload, Exists, RoomIsForPending
  <2> QED
    BY <1>3, <1>b, <2>1, <2>2, <2>4 DEF CommitUpload, Fixed, Moves, Same
<1>4. CASE RejectUpload(a)
  <2> DEFINE r == [asset[a] EXCEPT !.upload = "rejected",
                                   !.ingestion = "failed",
                                   !.reserved = FALSE]
  <2>1. Changes(a, r) /\ asset' = [asset EXCEPT ![a] = r]
    BY <1>4 DEF RejectUpload, Changes
  <2>2. /\ r \in AssetRows
        /\ r.key = asset[a].key /\ r.size = asset[a].size
        /\ r.ingestion = "failed" /\ r.bytes = asset[a].bytes
        /\ r.reserved = FALSE
    BY <1>0 DEF AssetRows
  <2>3. Exists(a) /\ record' = record
    BY <1>4 DEF RejectUpload, Fixed, Exists, RoomIsForPending, NoAsset
  <2> HIDE DEF r
  <2>4. Settles(a, r)
    BY <1>4, <2>2, <2>3, SettlesSo DEF RejectUpload, Exists, RoomIsForPending
  <2> QED
    BY <1>4, <1>b, <2>1, <2>2, <2>4 DEF RejectUpload, Fixed, Moves, Same
<1>5. CASE AbortUpload(a)
  <2> DEFINE r == [asset[a] EXCEPT
                     !.upload = IF asset[a].upload = "open" THEN "aborted"
                                ELSE asset[a].upload,
                     !.reserved = FALSE]
  <2>1. asset' = [asset EXCEPT ![a] = r]
    BY <1>5 DEF AbortUpload
  <2>2. /\ r \in AssetRows
        /\ r.key = asset[a].key /\ r.size = asset[a].size
        /\ r.ingestion = asset[a].ingestion /\ r.bytes = asset[a].bytes
        /\ r.reserved = FALSE
    BY <1>0 DEF AssetRows
  <2>3. Exists(a) /\ record' = record
    BY <1>5 DEF AbortUpload, Fixed, Exists, RoomIsForPending, NoAsset
  <2> HIDE DEF r
  <2>4. Settles(a, r)
    BY <1>5, <2>2, <2>3, SettlesSo DEF AbortUpload, Exists, RoomIsForPending
  <2> QED
    BY <1>5, <1>a, <2>1, <2>2, <2>4 DEF AbortUpload, Fixed, Moves, Same
<1>6. CASE Expire(a)
  <2> DEFINE r == [asset[a] EXCEPT !.upload = "expired", !.reserved = FALSE]
  <2>1. asset' = [asset EXCEPT ![a] = r]
    BY <1>6 DEF Expire
  <2>2. /\ r \in AssetRows
        /\ r.key = asset[a].key /\ r.size = asset[a].size
        /\ r.ingestion = asset[a].ingestion /\ r.bytes = asset[a].bytes
        /\ r.reserved = FALSE
    BY <1>0 DEF AssetRows
  <2>3. Exists(a) /\ record' = record
    BY <1>6 DEF Expire, Fixed, Exists, RoomIsForPending, NoAsset
  <2> HIDE DEF r
  <2>4. Settles(a, r)
    BY <1>6, <2>2, <2>3, SettlesSo DEF Expire, Exists, RoomIsForPending
  <2> QED
    BY <1>6, <1>a, <2>1, <2>2, <2>4 DEF Expire, Fixed, Moves, Same
<1>7. CASE Ingested(a)
  <2>0. PICK result \in {"ready", "failed"} :
          Changes(a, [asset[a] EXCEPT !.ingestion = result])
    BY <1>7 DEF Ingested
  <2> DEFINE r == [asset[a] EXCEPT !.ingestion = result]
  <2>1. Changes(a, r) /\ asset' = [asset EXCEPT ![a] = r]
    BY <2>0 DEF Changes
  <2>2. /\ r \in AssetRows
        /\ r.key = asset[a].key /\ r.size = asset[a].size
        /\ r.ingestion = result /\ r.bytes = asset[a].bytes
        /\ r.reserved = asset[a].reserved
    BY <1>0, <2>0 DEF AssetRows
  <2>3. Exists(a) /\ record' = record
    BY <1>7 DEF Ingested, Fixed, Exists, RoomIsForPending, NoAsset
  <2> HIDE DEF r
  <2>4. Settles(a, r)
    BY <1>7, <2>2, <2>3, SettlesSo DEF Ingested, Exists, RoomIsForPending
  <2> QED
    BY <1>7, <1>b, <2>1, <2>2, <2>4 DEF Ingested, Fixed, Moves, Same
<1>8. CASE SoftDelete(a)
  <2> DEFINE r == [asset[a] EXCEPT !.deleted = TRUE]
  <2>1. Changes(a, r) /\ asset' = [asset EXCEPT ![a] = r]
    BY <1>8 DEF SoftDelete, Changes
  <2>2. /\ r \in AssetRows
        /\ r.key = asset[a].key /\ r.size = asset[a].size
        /\ r.ingestion = asset[a].ingestion /\ r.bytes = asset[a].bytes
        /\ r.reserved = asset[a].reserved
    BY <1>0 DEF AssetRows
  <2>3. Exists(a) /\ record' = record
    BY <1>8 DEF SoftDelete, Fixed, Exists, RoomIsForPending, NoAsset
  <2> HIDE DEF r
  <2>4. Settles(a, r)
    BY <1>8, <2>2, <2>3, SettlesSo DEF SoftDelete, Exists, RoomIsForPending
  <2> QED
    BY <1>8, <1>b, <2>1, <2>2, <2>4 DEF SoftDelete, Fixed, Moves, Same
<1>9. CASE Restore(a)
  <2> DEFINE r == [asset[a] EXCEPT !.deleted = FALSE]
  <2>1. Changes(a, r) /\ asset' = [asset EXCEPT ![a] = r]
    BY <1>9 DEF Restore, Changes
  <2>2. /\ r \in AssetRows
        /\ r.key = asset[a].key /\ r.size = asset[a].size
        /\ r.ingestion = asset[a].ingestion /\ r.bytes = asset[a].bytes
        /\ r.reserved = asset[a].reserved
    BY <1>0 DEF AssetRows
  <2>3. Exists(a) /\ record' = record
    BY <1>9 DEF Restore, Fixed, Exists, RoomIsForPending, NoAsset
  <2> HIDE DEF r
  <2>4. Settles(a, r)
    BY <1>9, <2>2, <2>3, SettlesSo DEF Restore, Exists, RoomIsForPending
  <2> QED
    BY <1>9, <1>b, <2>1, <2>2, <2>4 DEF Restore, Fixed, Moves, Same
<1> QED
  BY <1>1, <1>2, <1>3, <1>4, <1>5, <1>6, <1>7, <1>8, <1>9 DEF Live

(* The calls after a step: of their types, and sensible. *)
CallsStand ==
  /\ call' \in [Calls -> CallRows]
  /\ \A c \in Calls :
       /\ call'[c].op = "initialize" => call'[c].key \in Keys
       /\ call'[c].op = "retry" => call'[c].asset \in Assets
       /\ call'[c].at <= now

LEMMA CallsStandBy ==
  ASSUME TypeOK, CallsMakeSense, NEW c \in Calls, NEW d \in CallRows,
         call' = [call EXCEPT ![c] = d],
         d.op = "initialize" => d.key \in Keys,
         d.op = "retry" => d.asset \in Assets,
         d.at <= now
  PROVE  CallsStand
BY DEF TypeOK, CallsMakeSense, CallsStand

LEMMA IdleIsACall ==
  /\ Idle \in CallRows /\ Idle.op = "none" /\ Idle.at = 0
BY DEF Idle, CallRows

LEMMA MinIsOne ==
  ASSUME NEW V \in SUBSET Nat, V # {}
  PROVE  Min(V) \in V
BY LeastNatural DEF Min

LEMMA AdmitInitializeMoves ==
  ASSUME TypeOK, CallsMakeSense, RoomIsForPending, NEW c \in Calls,
         AdmitInitialize(c)
  PROVE  AssetsStay \/ \E a \in Assets, r \in AssetRows : Moves(a, r)
<1> DEFINE key == call[c].key
           size == SizeOf[key]
           free == {a \in Assets : ~Exists(a)}
           a == Min(free)
           r == Opened(size, [NoAsset EXCEPT !.key = key])
<1>1. key \in Keys /\ size \in Nat /\ call[c].at \in 0..now
  BY StorageAssumption DEF TypeOK, CallRows, CallsMakeSense, AdmitInitialize
<1>2. CASE ~ (Begun(key) /\ SizeFits(size, call[c].at)
              /\ Fits(size, call[c].at))
  BY <1>2 DEF AdmitInitialize, AssetsStay
<1>3. CASE Begun(key) /\ SizeFits(size, call[c].at)
           /\ Fits(size, call[c].at)
  <2>1. /\ free # {}
        /\ asset' = [asset EXCEPT ![a] = r]
        /\ record' = [record EXCEPT ![key] = a]
        /\ UNCHANGED <<now, policies, highest>>
    BY <1>3 DEF AdmitInitialize
  <2>2. a \in Assets /\ ~Exists(a)
    <3>1. free \in SUBSET Nat
      BY StorageAssumption DEF Assets
    <3>2. a \in free
      BY <2>1, <3>1, MinIsOne
    <3> QED
      BY <3>2
  <2>3. /\ r \in AssetRows /\ r.key = key /\ r.size = size
        /\ r.ingestion = "pending" /\ r.bytes = 0 /\ r.reserved = TRUE
    BY <1>1 DEF Opened, NoAsset, AssetRows
  <2>4. asset[a] = NoAsset
    BY <2>2 DEF Exists, RoomIsForPending
  <2> HIDE DEF r, a, free, size
  <2>5. Room(r) = Room(asset[a]) + r.size
    BY <1>1, <2>3, <2>4 DEF Room, NoAsset
  <2>6. \E t \in 0..now : Fits(r.size, t)
    BY <1>1, <1>3, <2>3
  <2>7. record[r.key] = 0
    BY <1>3, <2>3 DEF Begun
  <2> HIDE DEF key
  <2>8. Opens(a, r)
    BY <1>1, <2>1, <2>2, <2>3, <2>5, <2>6, <2>7 DEF Opens
  <2> QED
    BY <2>1, <2>2, <2>3, <2>8 DEF Moves
<1> QED
  BY <1>2, <1>3

LEMMA AdmitRetryMoves ==
  ASSUME TypeOK, CallsMakeSense, RoomIsForPending, NEW c \in Calls,
         AdmitRetry(c)
  PROVE  AssetsStay \/ \E a \in Assets, r \in AssetRows : Moves(a, r)
<1> DEFINE a == call[c].asset
           size == asset[a].size
           r == Opened(size, asset[a])
<1>1. a \in Assets /\ call[c].at \in 0..now
  BY DEF TypeOK, CallRows, CallsMakeSense, AdmitRetry
<1>2. CASE ~ (Retryable(c) /\ SizeFits(size, call[c].at)
              /\ Fits(size, call[c].at))
  BY <1>2 DEF AdmitRetry, AssetsStay
<1>3. CASE Retryable(c) /\ SizeFits(size, call[c].at)
           /\ Fits(size, call[c].at)
  <2>1. /\ asset' = [asset EXCEPT ![a] = r]
        /\ record' = record
        /\ UNCHANGED <<now, policies, highest>>
    BY <1>3 DEF AdmitRetry
  <2>2. asset[a] \in AssetRows
    BY <1>1 DEF TypeOK
  <2>3. asset[a].ingestion = "failed" /\ ~asset[a].reserved
    BY <1>1, <1>3 DEF Retryable, Failed, RoomIsForPending
  <2>4. /\ r \in AssetRows /\ r.key = asset[a].key /\ r.size = asset[a].size
        /\ r.ingestion = "pending" /\ r.bytes = asset[a].bytes
        /\ r.reserved = TRUE
    BY <2>2 DEF Opened, AssetRows
  <2>5. Exists(a)
    BY <2>3 DEF Exists
  <2>6. \E t \in 0..now : Fits(r.size, t)
    BY <1>1, <1>3, <2>4
  <2> HIDE DEF r, a
  <2>7. Room(r) = Room(asset[a]) + r.size
    BY <2>2, <2>3, <2>4 DEF Room, AssetRows
  <2>8. Opens(a, r)
    BY <2>1, <2>4, <2>5, <2>6, <2>7 DEF Opens
  <2> QED
    BY <1>1, <2>1, <2>4, <2>8 DEF Moves
<1> QED
  BY <1>2, <1>3

LEMMA HandleMoves ==
  ASSUME TypeOK, CallsMakeSense, RoomIsForPending, NEW c \in Calls, Handle(c)
  PROVE  /\ AssetsStay \/ \E a \in Assets, r \in AssetRows : Moves(a, r)
         /\ CallsStand
         /\ UNCHANGED <<now, policies, highest>>
<1>1. now \in Nat
  BY StorageAssumption DEF TypeOK
<1>2. ASSUME NEW key \in Keys, Initialize(c, key)
      PROVE  AssetsStay /\ CallsStand
  <2> DEFINE d == [Idle EXCEPT !.op = "initialize", !.key = key, !.at = now]
  <2>1. /\ d \in CallRows /\ d.op = "initialize" /\ d.key = key
        /\ d.at = now
    BY <1>1 DEF Idle, CallRows
  <2>2. call' = [call EXCEPT ![c] = d]
    BY <1>2 DEF Initialize
  <2> HIDE DEF d
  <2> QED
    <3>1. d.op # "retry" /\ d.key \in Keys /\ d.at <= now
      BY <1>1, <1>2, <2>1
    <3>2. CallsStand
      BY <2>1, <2>2, <3>1, CallsStandBy
    <3> QED
      BY <1>2, <3>2 DEF Initialize, AssetsStay
<1>3. ASSUME NEW a \in Assets, Retry(c, a)
      PROVE  AssetsStay /\ CallsStand
  <2> DEFINE d == [Idle EXCEPT !.op = "retry", !.asset = a, !.at = now,
                               !.fresh = TRUE]
  <2>1. /\ d \in CallRows /\ d.op = "retry" /\ d.asset = a /\ d.at = now
    BY <1>1 DEF Idle, CallRows
  <2>2. call' = [call EXCEPT ![c] = d]
    BY <1>3 DEF Retry
  <2> HIDE DEF d
  <2> QED
    <3>1. d.op # "initialize" /\ d.asset \in Assets /\ d.at <= now
      BY <1>1, <1>3, <2>1
    <3>2. CallsStand
      BY <2>1, <2>2, <3>1, CallsStandBy
    <3> QED
      BY <1>3, <3>2 DEF Retry, AssetsStay
<1>4. ASSUME call' = [call EXCEPT ![c] = Idle]
      PROVE  CallsStand
  <2>1. Idle.op # "initialize" /\ Idle.op # "retry" /\ Idle.at <= now
    BY <1>1, IdleIsACall
  <2> QED
    BY <1>4, <2>1, IdleIsACall, CallsStandBy
<1>5. CASE AdmitInitialize(c)
  BY <1>4, <1>5, AdmitInitializeMoves DEF AdmitInitialize
<1>6. CASE AdmitRetry(c)
  <2> DEFINE a == call[c].asset
  <2>1. CASE call' = [call EXCEPT ![c] = Idle]
    BY <1>4, <1>6, <2>1, AdmitRetryMoves DEF AdmitRetry
  <2>2. CASE call' = [d \in Calls |->
                        IF d = c THEN Idle
                        ELSE [call[d] EXCEPT
                                !.fresh = @ /\ call[d].asset # a]]
    <3>1. \A d \in Calls : call[d] \in CallRows
      BY DEF TypeOK
    <3>2. \A d \in Calls : d # c => /\ call'[d] \in CallRows
                                   /\ call'[d].op = call[d].op
                                   /\ call'[d].key = call[d].key
                                   /\ call'[d].asset = call[d].asset
                                   /\ call'[d].at = call[d].at
      BY <2>2, <3>1 DEF CallRows
    <3>3. call'[c] = Idle
      BY <2>2
    <3>4. call' = [d \in Calls |-> call'[d]]
      BY <2>2
    <3>5. CallsStand
      BY <1>1, <3>2, <3>3, <3>4, IdleIsACall DEF CallsStand, CallsMakeSense
    <3> QED
      BY <1>6, <3>5, AdmitRetryMoves DEF AdmitRetry
  <2> QED
    BY <1>6, <2>1, <2>2 DEF AdmitRetry
<1>7. CASE GiveUp(c)
  BY <1>4, <1>7 DEF GiveUp, AssetsStay
<1> QED
  BY <1>2, <1>3, <1>5, <1>6, <1>7
     DEF Handle, Initialize, Retry, AdmitInitialize, AdmitRetry, GiveUp

-----------------------------------------------------------------------------
(* What each move keeps *)

LEMMA AssetsFinite == IsFiniteSet(Assets)
BY StorageAssumption, FS_Interval DEF Assets

LEMMA MovesCount ==
  ASSUME TypeOK, NEW a \in Assets, NEW r \in AssetRows,
         asset' = [asset EXCEPT ![a] = r]
  PROVE  /\ Counted \in Nat /\ Counted' \in Nat
         /\ Counted' + Room(asset[a]) = Counted + Room(r)
<1>1. \A x \in AssetRows : Room(x) \in Nat
  BY DEF Room, AssetRows
<1>2. /\ \A x \in Assets : asset[x] \in AssetRows /\ asset'[x] \in AssetRows
      /\ asset'[a] = r
      /\ \A x \in Assets : x # a => asset'[x] = asset[x]
  BY DEF TypeOK
<1> DEFINE w == [x \in Assets |-> Room(asset'[x])]
<1>3. Counted = Total(Rooms, Assets)
  BY CountedIsTotal
<1>4. Counted' = Total(w, Assets)
  BY DEF Counted, MapThenSumSet, MapThenFoldSet, IsSum, Total, Room
<1>5. Rooms \in [Assets -> Nat] /\ w \in [Assets -> Nat]
  BY <1>1, <1>2 DEF Rooms
<1>6. /\ \A x \in Assets : x # a => Rooms[x] = w[x]
      /\ Rooms[a] = Room(asset[a]) /\ w[a] = Room(r)
  BY <1>2 DEF Rooms
<1> HIDE DEF w
<1>7. /\ Total(Rooms, Assets) \in Nat /\ Total(w, Assets) \in Nat
      /\ Total(Rooms, Assets) + w[a] = Total(w, Assets) + Rooms[a]
  BY <1>5, <1>6, AssetsFinite, ChangeOfOne
<1> QED
  BY <1>3, <1>4, <1>6, <1>7

LEMMA MovesKeepLimits ==
  ASSUME TypeOK, StorageInv, NEW a \in Assets, NEW r \in AssetRows,
         Moves(a, r)
  PROVE  StorageWithinLimits'
<1>1. /\ Counted \in Nat /\ Counted' \in Nat
      /\ Counted' + Room(asset[a]) = Counted + Room(r)
  BY MovesCount DEF Moves
<1>2. /\ Room(asset[a]) \in Nat /\ Room(r) \in Nat /\ r.size \in Nat
      /\ highest \in Nat /\ highest' = highest /\ Counted <= highest
  BY DEF TypeOK, AssetRows, Room, Moves, StorageInv, StorageWithinLimits
<1>3. CASE Settles(a, r)
  BY <1>1, <1>2, <1>3 DEF Settles, StorageWithinLimits
<1>4. CASE Opens(a, r)
  <2>1. PICK t \in 0..now : Fits(r.size, t)
    BY <1>4 DEF Opens
  <2>2. t \in Nat /\ Resolved(policies, "project", t) <= highest
    BY StorageAssumption DEF TypeOK, StorageInv, HighestIsReached
  <2>3. Resolved(policies, "project", t) \in Nat
    BY <2>2, ResolvedIsNumber DEF TypeOK, StorageInv, Limits
  <2>4. Counted + r.size <= highest
    BY <1>1, <1>2, <2>1, <2>2, <2>3 DEF Fits
  <2>5. Room(r) = Room(asset[a]) + r.size
    BY <1>4 DEF Opens
  <2> QED
    BY <1>1, <1>2, <2>4, <2>5 DEF StorageWithinLimits
<1> QED
  BY <1>3, <1>4 DEF Moves

LEMMA MovesKeepRows ==
  ASSUME TypeOK, RoomIsForPending, RecordsTell,
         NEW a \in Assets, NEW r \in AssetRows, Moves(a, r)
  PROVE  /\ asset' \in [Assets -> AssetRows]
         /\ record' \in [Keys -> Assets \cup {0}]
         /\ RoomIsForPending' /\ RecordsTell'
<1>1. /\ \A x \in Assets : asset[x] \in AssetRows
      /\ asset'[a] = r
      /\ \A x \in Assets : x # a => asset'[x] = asset[x]
      /\ asset' \in [Assets -> AssetRows]
  BY DEF TypeOK, Moves
<1>2. 0 \notin Assets
  BY DEF Assets
<1>3. CASE Settles(a, r)
  <2>1. /\ r.ingestion # "none" /\ (r.reserved => r.ingestion = "pending")
        /\ record' = record
    BY <1>3 DEF Settles
  <2>2. r.key \in Keys /\ record[r.key] = a
    BY <1>3 DEF Settles, RecordsTell
  <2>3. RoomIsForPending'
    BY <1>1, <2>1 DEF RoomIsForPending
  <2>4. RecordsTell'
    BY <1>1, <2>1, <2>2 DEF RecordsTell, Exists
  <2> QED
    BY <1>1, <2>1, <2>3, <2>4 DEF TypeOK
<1>4. CASE Opens(a, r)
  <2>1. RoomIsForPending'
    BY <1>1, <1>4 DEF RoomIsForPending, Opens
  <2>2. CASE Exists(a) /\ r.key = asset[a].key /\ record' = record
    <3>1. r.key \in Keys /\ record[r.key] = a
      BY <2>2 DEF RecordsTell
    <3>2. RecordsTell'
      BY <1>1, <2>2, <3>1 DEF RecordsTell, Exists
    <3> QED
      BY <1>1, <2>1, <2>2, <3>2 DEF TypeOK
  <2>3. CASE /\ ~Exists(a) /\ r.key \in Keys /\ record[r.key] = 0
             /\ record' = [record EXCEPT ![r.key] = a]
    <3>1. record' \in [Keys -> Assets \cup {0}] /\ record'[r.key] = a
      BY <2>3 DEF TypeOK
    <3>2. \A k \in Keys : k # r.key => record'[k] = record[k]
      BY <2>3 DEF TypeOK
    <3>3. \A b \in Assets : b # a /\ Exists(b) =>
            asset[b].key \in Keys /\ record[asset[b].key] = b
                                 /\ asset[b].key # r.key
      BY <1>2, <2>3 DEF RecordsTell
    <3>4. RecordsTell'
      BY <1>1, <2>3, <3>1, <3>2, <3>3 DEF RecordsTell, Exists
    <3> QED
      BY <1>1, <2>1, <3>1, <3>4
  <2> QED
    BY <1>4, <2>2, <2>3 DEF Opens
<1> QED
  BY <1>3, <1>4 DEF Moves

LEMMA MovesKeep ==
  ASSUME TypeOK, StorageInv, CallsStand, NEW a \in Assets,
         NEW r \in AssetRows, Moves(a, r)
  PROVE  TypeOK' /\ StorageInv'
<1>1. /\ asset' \in [Assets -> AssetRows]
      /\ record' \in [Keys -> Assets \cup {0}]
      /\ RoomIsForPending' /\ RecordsTell'
  BY MovesKeepRows DEF StorageInv
<1>2. StorageWithinLimits'
  BY MovesKeepLimits
<1>3. now' = now /\ policies' = policies /\ highest' = highest
  BY DEF Moves
<1>4. TypeOK'
  BY <1>1, <1>3 DEF TypeOK, CallsStand
<1>5. CallsMakeSense'
  BY <1>3 DEF CallsStand, CallsMakeSense
<1>6. Apart(policies') /\ HighestIsReached'
  BY <1>3 DEF StorageInv, HighestIsReached
<1> QED
  BY <1>1, <1>2, <1>4, <1>5, <1>6 DEF StorageInv

(* A step that leaves the Assets alone, and the policies and the clock, or  *)
(* tells the highest limit of them.                                         *)
LEMMA CountedStays ==
  ASSUME asset' = asset
  PROVE  Counted' = Counted
BY DEF Counted, MapThenSumSet, MapThenFoldSet

LEMMA AssetsStayKeeps ==
  ASSUME TypeOK, StorageInv, CallsStand, AssetsStay,
         UNCHANGED <<now, policies, highest>>
  PROVE  TypeOK' /\ StorageInv'
<1>1. Counted' = Counted
  BY CountedStays DEF AssetsStay
<1>2. TypeOK'
  BY DEF TypeOK, CallsStand, AssetsStay
<1>3. CallsMakeSense' /\ RoomIsForPending' /\ RecordsTell'
  BY DEF CallsStand, AssetsStay, StorageInv, CallsMakeSense, RoomIsForPending,
         RecordsTell, Exists
<1>4. Apart(policies') /\ HighestIsReached' /\ StorageWithinLimits'
  BY <1>1 DEF StorageInv, HighestIsReached, StorageWithinLimits
<1> QED
  BY <1>2, <1>3, <1>4 DEF StorageInv

LEMMA RisesKeeps ==
  ASSUME TypeOK, StorageInv, AssetsStay, UNCHANGED call,
         now' \in 0..MaxNow, now <= now',
         policies' \in SUBSET Candidates, Apart(policies'), Rises
  PROVE  TypeOK' /\ StorageInv'
<1>1. now \in Nat /\ now' \in Nat
  BY StorageAssumption DEF TypeOK
<1>2. /\ highest' \in Nat /\ highest <= highest'
      /\ \A t \in 0..now' : Resolved(policies', "project", t) <= highest'
  BY <1>1, RisesReaches DEF TypeOK
<1>3. Counted' = Counted /\ Counted \in Nat
  <2>1. Rooms \in [Assets -> Nat]
    BY DEF TypeOK, Rooms, Room, AssetRows
  <2>2. Total(Rooms, Assets) \in Nat
    <3>1. PICK f : Sums(Rooms, Assets, f)
      BY <2>1, AssetsFinite, SumExists
    <3> QED
      BY <3>1 DEF Sums
  <2> QED
    BY <2>2, CountedIsTotal, CountedStays DEF AssetsStay
<1>4. TypeOK'
  BY <1>2 DEF TypeOK, AssetsStay
<1>5. CallsMakeSense'
  <2>1. \A c \in Calls : call[c].at \in Nat /\ call[c].at <= now
    BY DEF TypeOK, CallRows, StorageInv, CallsMakeSense
  <2>2. \A c \in Calls : call[c].at <= now'
    BY <1>1, <2>1
  <2> QED
    BY <2>2 DEF StorageInv, CallsMakeSense
<1>6. RoomIsForPending' /\ RecordsTell'
  BY DEF AssetsStay, StorageInv, RoomIsForPending, RecordsTell, Exists
<1>7. HighestIsReached'
  BY <1>2 DEF HighestIsReached
<1>8. StorageWithinLimits'
  BY <1>2, <1>3 DEF StorageInv, StorageWithinLimits, TypeOK
<1> QED
  BY <1>4, <1>5, <1>6, <1>7, <1>8 DEF StorageInv

LEMMA StepKeeps ==
  TypeOK /\ StorageInv /\ [Next]_vars => TypeOK' /\ StorageInv'
<1> SUFFICES ASSUME TypeOK, StorageInv, [Next]_vars
             PROVE  TypeOK' /\ StorageInv'
  OBVIOUS
<1>1. CASE Tick
  BY <1>1, RisesKeeps, StorageAssumption
     DEF Tick, TypeOK, StorageInv, AssetsStay
<1>2. ASSUME NEW row \in Candidates, CreatePolicy(row)
      PROVE  TypeOK' /\ StorageInv'
  <2>1. policies' \in SUBSET Candidates
    BY <1>2 DEF CreatePolicy, TypeOK
  <2>2. Apart(policies')
    BY <1>2 DEF CreatePolicy, StorageInv, Apart, Overlaps, SameScope
  <2>3. AssetsStay /\ UNCHANGED call /\ Rises /\ now' = now
    BY <1>2 DEF CreatePolicy, AssetsStay
  <2>4. now' \in 0..MaxNow /\ now <= now'
    BY <2>3, StorageAssumption DEF TypeOK
  <2> QED
    BY <2>1, <2>2, <2>3, <2>4, RisesKeeps
<1>3. ASSUME NEW c \in Calls, Handle(c)
      PROVE  TypeOK' /\ StorageInv'
  <2>1. /\ AssetsStay \/ \E a \in Assets, r \in AssetRows : Moves(a, r)
        /\ CallsStand
        /\ UNCHANGED <<now, policies, highest>>
    BY <1>3, HandleMoves DEF StorageInv
  <2> QED
    BY <2>1, MovesKeep, AssetsStayKeeps
<1>4. ASSUME NEW a \in Assets, Live(a)
      PROVE  TypeOK' /\ StorageInv'
  <2>1. /\ \E r \in AssetRows : Moves(a, r)
        /\ call' \in [Calls -> CallRows]
        /\ \A c \in Calls : /\ call'[c].op = call[c].op
                            /\ call'[c].key = call[c].key
                            /\ call'[c].asset = call[c].asset
                            /\ call'[c].at = call[c].at
    BY <1>4, LiveMoves DEF StorageInv
  <2>2. CallsStand
    BY <2>1 DEF CallsStand, StorageInv, CallsMakeSense
  <2> QED
    BY <2>1, <2>2, MovesKeep
<1>5. CASE UNCHANGED vars
  <2>1. CallsStand
    BY <1>5 DEF vars, CallsStand, TypeOK, StorageInv, CallsMakeSense
  <2> QED
    BY <1>5, <2>1, AssetsStayKeeps DEF vars, AssetsStay
<1> QED
  BY <1>1, <1>2, <1>3, <1>4, <1>5 DEF Next

LEMMA InitHolds == Init => TypeOK /\ StorageInv
<1> SUFFICES ASSUME Init
             PROVE  TypeOK /\ StorageInv
  OBVIOUS
<1>1. NoAsset \in AssetRows /\ Room(NoAsset) = 0 /\ ~NoAsset.reserved
      /\ NoAsset.ingestion = "none"
  BY DEF NoAsset, AssetRows, Room
<1>2. highest \in Nat
  BY StorageAssumption DEF Init, Limits
<1>3. TypeOK
  BY <1>1, <1>2, IdleIsACall, StorageAssumption DEF Init, TypeOK
<1>4. CallsMakeSense
  BY IdleIsACall DEF Init, CallsMakeSense
<1>5. RoomIsForPending /\ RecordsTell /\ Apart(policies)
  BY <1>1 DEF Init, RoomIsForPending, RecordsTell, Exists, Apart
<1>6. HighestIsReached
  BY <1>2 DEF Init, HighestIsReached, Resolved, Names, InForce
<1>7. Counted = 0
  <2>1. Rooms \in [Assets -> Nat] /\ \A a \in Assets : Rooms[a] = 0
    BY <1>1 DEF Init, Rooms
  <2> QED
    BY <2>1, AssetsFinite, NothingCounts, CountedIsTotal
<1>8. StorageWithinLimits
  BY <1>2, <1>7 DEF StorageWithinLimits
<1> QED
  BY <1>3, <1>4, <1>5, <1>6, <1>8 DEF StorageInv

LEMMA AlwaysHolds == Spec => [](TypeOK /\ StorageInv)
BY InitHolds, StepKeeps, PTL DEF Spec

-----------------------------------------------------------------------------
(* Every variable stays in its type, whatever requests, policies and Assets *)
(* there are.                                                               *)
THEOREM TypeCorrect == Spec => []TypeOK
BY AlwaysHolds, PTL

(* What a Project stores and what it has promised room for never exceed the *)
(* highest limit that was in force so far, though each request is admitted  *)
(* by the limits of the time it took before its staging file was made.      *)
THEOREM StorageStaysWithinLimits == Spec => []StorageWithinLimits
<1>1. StorageInv => StorageWithinLimits
  BY DEF StorageInv
<1> QED
  BY <1>1, AlwaysHolds, PTL

(* No policy shadows another: the trigger's comparison of half-open         *)
(* intervals leaves at most one policy of a scope in force at any time.     *)
THEOREM PoliciesNeverShadow == Spec => []OnePolicyInForce
<1>1. TypeOK /\ StorageInv => OnePolicyInForce
  <2> SUFFICES ASSUME TypeOK, StorageInv,
                      NEW scope \in {"system", "user"}, NEW t \in 0..MaxNow
               PROVE  Cardinality(InForce(policies, scope, t)) <= 1
    BY DEF OnePolicyInForce
  <2>1. t \in Nat
    BY StorageAssumption
  <2>2. \A p, q \in InForce(policies, scope, t) : p = q
    BY <2>1, OneInForce DEF TypeOK, StorageInv
  <2>3. CASE InForce(policies, scope, t) = {}
    BY <2>3, FS_EmptySet
  <2>4. CASE InForce(policies, scope, t) # {}
    <3>1. PICK p : InForce(policies, scope, t) = {p}
      BY <2>2, <2>4
    <3> QED
      BY <3>1, FS_Singleton
  <2> QED
    BY <2>3, <2>4
<1> QED
  BY <1>1, AlwaysHolds, PTL

(* Requests that repeat one initialization make one Asset and reserve its   *)
(* capacity once, however many of them are under way.                       *)
THEOREM KeysMakeOneUpload == Spec => []OneUploadPerKey
<1>1. RecordsTell /\ RoomIsForPending => OneUploadPerKey
  BY StorageAssumption
     DEF RecordsTell, RoomIsForPending, OneUploadPerKey, Exists, NoAsset
<1> QED
  BY <1>1, AlwaysHolds, PTL DEF StorageInv
=============================================================================
