----------------------------- MODULE StakingProofs -----------------------------
(* Proofs about Staking, for every finite set of stakers, every rate, scale and     *)
(* length of the run: stakes and ether add up, and rewards are covered in spite of   *)
(* the rounding of every division.                                                   *)
EXTENDS Staking, FiniteSetTheorems, NaturalsInduction, WellFoundedInduction, TLAPS

USE ZenonT(2), SMTT(60), ZenonT(60)

-----------------------------------------------------------------------------
(* The inductive invariant. *)

Staker == [staked: Nat, debt: Nat, earned: Nat, unstake: Nat]

StakingTypes ==
    /\ now \in Nat /\ now >= 1
    /\ stakers \in [Users -> Staker]
    /\ totalStaked \in Nat /\ accruing \in Nat /\ fees \in Nat /\ ether \in Nat
    /\ lastUpdate \in Nat /\ perToken \in Nat /\ pending \in Nat
    /\ feePercent \in 0..FeePrecision /\ cooldown \in Nat
    /\ tokens \in Nat /\ given \in Nat /\ paid \in Nat
    /\ short \in BOOLEAN /\ withdrawn \in BOOLEAN

\* What of a stake earns.
Earns(s) == IF s.unstake = 0 THEN s.staked ELSE 0

\* What a staker is owed before any division, in units of 1/Precision: the reward earned up
\* to their last update, and what their stake accrued since, at p per token.
Due(s, p) ==
    Precision * s.earned + (IF s.unstake = 0 THEN s.staked * (p - s.debt) ELSE 0)

Stakes == [u \in Users |-> stakers[u].staked]
Earning == [u \in Users |-> Earns(stakers[u])]
Owed == [u \in Users |-> Due(stakers[u], perToken)]

\* The time for which rewards can have been accrued at t.
ElapsedAt(t) == IF t >= Launch THEN t - Launch ELSE 0

StakingInv ==
    /\ StakingTypes
    /\ totalStaked = SumFunction(Stakes) /\ accruing = SumFunction(Earning)
    /\ ether = totalStaked + fees
    /\ \A u \in Users : stakers[u].debt <= perToken
    /\ lastUpdate <= LastApplicableTime
    /\ accruing > 0 => lastUpdate >= Launch
    /\ SumFunction(Owed) <= pending
    /\ withdrawn => now > Closure /\ lastUpdate = Closure /\ pending < Precision * (Free + 1)
    /\ ~short => Precision * paid + pending <= Precision * (Rate * ElapsedAt(lastUpdate))

-----------------------------------------------------------------------------
(* Induction, over sets of values instead of predicates. *)

\* A set of naturals that is not empty has a least member.
LEMMA LeastNatural ==
  ASSUME NEW T \in SUBSET Nat, T # {}
  PROVE  \E n \in T : \A m \in T : n <= m
<1>1. PICK n \in T : \A m \in T : ~(<<m, n>> \in OpToRel(<, Nat))
  BY WFMin, NatLessThanWellFounded, ZenonT(30)
<1>2. \A m \in T : ~(m < n)
  BY <1>1, ZenonT(30) DEF OpToRel
<1>3. \A m \in T : m \in Nat /\ n \in Nat
  OBVIOUS
<1> QED
  BY <1>2, <1>3, SMTT(60)

\* A set with 0, and with each natural the next one, has all of them.
LEMMA Counting ==
  ASSUME NEW Good, 0 \in Good, \A n \in Nat : n \in Good => n + 1 \in Good
  PROVE  Nat \subseteq Good
<1> DEFINE Bad == {n \in Nat : n \notin Good}
<1> SUFFICES ASSUME Bad # {} PROVE FALSE
  OBVIOUS
<1>1. PICK n \in Bad : \A m \in Bad : n <= m
  BY LeastNatural, ZenonT(30)
<1>2. n # 0 /\ n \in Nat
  OBVIOUS
<1>3. n - 1 \in Nat /\ n - 1 \notin Bad
  BY <1>1, <1>2
<1>4. n - 1 + 1 = n
  BY <1>2
<1> QED
  BY <1>3, <1>4

\* A set of users is finite, and one smaller without one of them.
LEMMA UsersAreFinite ==
  ASSUME NEW T \in SUBSET Users
  PROVE  /\ IsFiniteSet(T) /\ Cardinality(T) \in Nat
         /\ \A x \in T : Cardinality(T \ {x}) = Cardinality(T) - 1
         /\ Cardinality(T) = 0 <=> T = {}
<1>1. IsFiniteSet(T)
  BY FS_Subset, StakingConstants
<1> QED
  BY <1>1, FS_CardinalityType, FS_RemoveElement, FS_EmptySet

\* What holds of no user, and of a set of users when it does without any one of them, holds
\* of every set of users.
LEMMA UserByUser ==
  ASSUME NEW Good, {} \in Good,
         \A T \in SUBSET Users : T # {} /\ (\A x \in T : T \ {x} \in Good) => T \in Good
  PROVE  SUBSET Users \subseteq Good
<1> DEFINE Size(n) == {T \in SUBSET Users : Cardinality(T) = n}
           Done == {n \in Nat : Size(n) \subseteq Good}
<1>1. 0 \in Done
  BY UsersAreFinite, ZenonT(30)
<1>2. ASSUME NEW n \in Nat, n \in Done PROVE n + 1 \in Done
  <2> SUFFICES ASSUME NEW T \in SUBSET Users, Cardinality(T) = n + 1 PROVE T \in Good
    BY SMTT(60)
  <2>1. T # {}
    BY UsersAreFinite, SMTT(60)
  <2>2. ASSUME NEW x \in T PROVE T \ {x} \in Good
    <3>1. T \ {x} \in SUBSET Users /\ Cardinality(T \ {x}) = n
      BY UsersAreFinite, SMTT(60)
    <3> QED
      BY <1>2, <3>1
  <2> QED
    BY <2>1, <2>2
<1>3. Nat \subseteq Done
  <2> HIDE DEF Done
  <2> QED
    BY <1>1, <1>2, Counting
<1> SUFFICES ASSUME NEW T \in SUBSET Users PROVE T \in Good
  OBVIOUS
<1>4. Cardinality(T) \in Done /\ T \in Size(Cardinality(T))
  BY <1>3, UsersAreFinite
<1> QED
  BY <1>4

-----------------------------------------------------------------------------
(* Sums over the stakers. *)

Pick(s) == CHOOSE x \in s : TRUE

\* The function that SumFunction computes with, from the empty set of indices up.
Adds(S, f, g) ==
    g = [s \in SUBSET S |-> IF s = {} THEN 0 ELSE f[Pick(s)] + g[s \ {Pick(s)}]]
Adder(S, f) == CHOOSE g : Adds(S, f, g)

\* The sum over some of the stakers.
Total(f, T) == Adder(Users, f)[T]

\* The fold picks a member.
LEMMA PickIsMember == ASSUME NEW s, s # {} PROVE Pick(s) \in s
BY DEF Pick

\* The sum over the users is the total over all of them.
LEMMA SumIsTotal ==
  ASSUME NEW f, DOMAIN f = Users PROVE SumFunction(f) = Total(f, Users)
<1>1. SumFunction(f) = Adder(DOMAIN f, f)[DOMAIN f]
  BY DEF SumFunction, SumFunctionOnSet, FoldFunctionOnSet, MapThenFoldSet, Adder, Adds, Pick
<1> QED
  BY <1>1 DEF Total

\* The recursion has a solution: built for the sets of at most n users, for each n.
LEMMA AdderExists ==
  ASSUME NEW f \in [Users -> Int] PROVE Adds(Users, f, Adder(Users, f))
<1> DEFINE Upto(n) == {s \in SUBSET Users : Cardinality(s) <= n}
           Next1(g, s) == IF s = {} THEN 0 ELSE f[Pick(s)] + g[s \ {Pick(s)}]
           Solves(n, g) == \A s \in Upto(n) : g[s] = Next1(g, s)
           Good == {n \in Nat : \E g \in [Upto(n) -> Int] : Solves(n, g)}
<1>1. 0 \in Good
  <2> DEFINE g == [s \in Upto(0) |-> 0]
  <2>1. \A s \in Upto(0) : s = {}
    BY UsersAreFinite, SMTT(60)
  <2>2. g \in [Upto(0) -> Int] /\ Solves(0, g)
    BY <2>1, SMTT(60)
  <2> HIDE DEF g
  <2> QED
    BY <2>2, ZenonT(30)
<1>2. ASSUME NEW n \in Nat, n \in Good PROVE n + 1 \in Good
  <2>1. PICK g \in [Upto(n) -> Int] : Solves(n, g)
    BY <1>2, ZenonT(30)
  <2> DEFINE h == [s \in Upto(n + 1) |-> Next1(g, s)]
  <2>2. ASSUME NEW s \in Upto(n + 1), s # {}
        PROVE  s \ {Pick(s)} \in Upto(n) /\ Pick(s) \in Users
    BY <2>2, PickIsMember, UsersAreFinite, SMTT(60)
  <2>3. h \in [Upto(n + 1) -> Int]
    BY <2>2, SMTT(60)
  <2>4. \A s \in Upto(n) : s \in Upto(n + 1) /\ h[s] = g[s]
    BY <2>1, UsersAreFinite, SMTT(60)
  <2>5. Solves(n + 1, h)
    BY <2>2, <2>4, ZenonT(30)
  <2>6. \E k \in [Upto(n + 1) -> Int] : Solves(n + 1, k)
    <3> HIDE DEF h, Solves, Upto
    <3> QED
      BY <2>3, <2>5
  <2> HIDE DEF h, Solves, Upto
  <2> QED
    BY <2>6, SMTT(60)
<1>3. Cardinality(Users) \in Good
  <2> HIDE DEF Good
  <2> QED
    BY <1>1, <1>2, Counting, UsersAreFinite
<1>4. Upto(Cardinality(Users)) = SUBSET Users
  BY FS_Subset, StakingConstants
<1>5. PICK g \in [SUBSET Users -> Int] : \A s \in SUBSET Users : g[s] = Next1(g, s)
  BY <1>3, <1>4, ZenonT(30)
<1>6. Adds(Users, f, g)
  BY <1>5 DEF Adds
<1> QED
  BY <1>6 DEF Adder

\* A total is the term that is picked and the total of the rest.
LEMMA TotalStep ==
  ASSUME NEW f \in [Users -> Int]
  PROVE  /\ Total(f, {}) = 0
         /\ \A s \in SUBSET Users : s # {} => Total(f, s) = f[Pick(s)] + Total(f, s \ {Pick(s)})
BY AdderExists, ZenonT(30) DEF Adds, Total

\* A total of integers is an integer.
LEMMA TotalType ==
  ASSUME NEW f \in [Users -> Int], NEW S \in SUBSET Users PROVE Total(f, S) \in Int
<1> DEFINE Good == {T \in SUBSET Users : Total(f, T) \in Int}
<1>1. {} \in Good
  BY TotalStep, SMTT(60)
<1>2. ASSUME NEW T \in SUBSET Users, T # {}, \A x \in T : T \ {x} \in Good PROVE T \in Good
  <2>1. Pick(T) \in T /\ Total(f, T) = f[Pick(T)] + Total(f, T \ {Pick(T)})
    BY <1>2, PickIsMember, TotalStep
  <2>2. f[Pick(T)] \in Int /\ Total(f, T \ {Pick(T)}) \in Int
    BY <1>2, <2>1
  <2> QED
    BY <2>1, <2>2, SMTT(60)
<1> HIDE DEF Good
<1>3. SUBSET Users \subseteq Good
  BY <1>1, <1>2, UserByUser, ZenonT(30)
<1> QED
  BY <1>3 DEF Good

\* The sum does not depend on the order in which the fold picks the stakers.
LEMMA TotalRemove ==
  ASSUME NEW f \in [Users -> Int], NEW S \in SUBSET Users, NEW u \in S
  PROVE  Total(f, S) = f[u] + Total(f, S \ {u})
<1> DEFINE Good == {T \in SUBSET Users : \A x \in T : Total(f, T) = f[x] + Total(f, T \ {x})}
<1>1. {} \in Good
  OBVIOUS
<1>2. ASSUME NEW T \in SUBSET Users, T # {}, \A x \in T : T \ {x} \in Good PROVE T \in Good
  <2> DEFINE p == Pick(T)
  <2>1. p \in T /\ Total(f, T) = f[p] + Total(f, T \ {p})
    BY <1>2, PickIsMember, TotalStep
  <2> HIDE DEF p
  <2> SUFFICES ASSUME NEW x \in T, x # p PROVE Total(f, T) = f[x] + Total(f, T \ {x})
    BY <2>1
  <2> DEFINE R == (T \ {x}) \ {p}
  <2>2. R = (T \ {p}) \ {x}
    OBVIOUS
  <2>3. Total(f, T \ {p}) = f[x] + Total(f, R)
    BY <1>2, <2>1, <2>2, ZenonT(60)
  <2>4. Total(f, T \ {x}) = f[p] + Total(f, R)
    BY <1>2, <2>1
  <2>5. f[x] \in Int /\ f[p] \in Int /\ Total(f, R) \in Int
    BY <2>1, TotalType
  <2> HIDE DEF R
  <2>6. Total(f, T) = f[p] + (f[x] + Total(f, R))
    BY <2>1, <2>3
  <2>7. f[p] + (f[x] + Total(f, R)) = f[x] + (f[p] + Total(f, R))
    BY <2>5
  <2> QED
    BY <2>4, <2>6, <2>7
<1> HIDE DEF Good
<1>3. SUBSET Users \subseteq Good
  BY <1>1, <1>2, UserByUser, ZenonT(30)
<1> QED
  BY <1>3 DEF Good

\* A sum of larger terms is larger.
LEMMA TotalMonotonic ==
  ASSUME NEW f \in [Users -> Int], NEW g \in [Users -> Int], NEW S \in SUBSET Users,
         \A u \in S : f[u] <= g[u]
  PROVE  Total(f, S) <= Total(g, S)
<1> DEFINE Good == {T \in SUBSET Users : T \subseteq S => Total(f, T) <= Total(g, T)}
<1>1. {} \in Good
  BY TotalStep, SMTT(60)
<1>2. ASSUME NEW T \in SUBSET Users, T # {}, \A x \in T : T \ {x} \in Good PROVE T \in Good
  <2> SUFFICES ASSUME T \subseteq S PROVE Total(f, T) <= Total(g, T)
    OBVIOUS
  <2>1. PICK x \in T : TRUE
    BY <1>2
  <2>2. Total(f, T) = f[x] + Total(f, T \ {x}) /\ Total(g, T) = g[x] + Total(g, T \ {x})
    BY TotalRemove, SMTT(60)
  <2>3. Total(f, T \ {x}) <= Total(g, T \ {x}) /\ f[x] <= g[x]
    BY <1>2
  <2>4. /\ f[x] \in Int /\ g[x] \in Int
        /\ Total(f, T \ {x}) \in Int /\ Total(g, T \ {x}) \in Int
    BY TotalType
  <2> QED
    BY <2>2, <2>3, <2>4
<1> HIDE DEF Good
<1>3. SUBSET Users \subseteq Good
  BY <1>1, <1>2, UserByUser, ZenonT(30)
<1> QED
  BY <1>3 DEF Good

\* A total of zeros is zero.
LEMMA TotalZero ==
  ASSUME NEW f \in [Users -> Int], \A u \in Users : f[u] = 0, NEW S \in SUBSET Users
  PROVE  Total(f, S) = 0
<1> DEFINE Good == {T \in SUBSET Users : Total(f, T) = 0}
<1>1. {} \in Good
  BY TotalStep
<1>2. ASSUME NEW T \in SUBSET Users, T # {}, \A x \in T : T \ {x} \in Good PROVE T \in Good
  <2>1. PICK x \in T : TRUE
    BY <1>2
  <2>2. Total(f, T) = f[x] + Total(f, T \ {x}) /\ Total(f, T \ {x}) = 0 /\ f[x] = 0
    BY <1>2, TotalRemove, ZenonT(60)
  <2> QED
    BY <2>2, SMTT(60)
<1> HIDE DEF Good
<1>3. SUBSET Users \subseteq Good
  BY <1>1, <1>2, UserByUser, ZenonT(30)
<1> QED
  BY <1>3 DEF Good

\* Sums are linear.
LEMMA TotalAdd ==
  ASSUME NEW f \in [Users -> Int], NEW g \in [Users -> Int], NEW h \in [Users -> Int],
         \A u \in Users : h[u] = f[u] + g[u], NEW S \in SUBSET Users
  PROVE  Total(h, S) = Total(f, S) + Total(g, S)
<1> DEFINE Good == {T \in SUBSET Users : Total(h, T) = Total(f, T) + Total(g, T)}
<1>1. {} \in Good
  BY TotalStep, SMTT(60)
<1>2. ASSUME NEW T \in SUBSET Users, T # {}, \A x \in T : T \ {x} \in Good PROVE T \in Good
  <2>1. PICK x \in T : TRUE
    BY <1>2
  <2> DEFINE F == Total(f, T \ {x})
             G == Total(g, T \ {x})
             H == Total(h, T \ {x})
  <2>2. Total(f, T) = f[x] + F /\ Total(g, T) = g[x] + G /\ Total(h, T) = h[x] + H
    BY TotalRemove, SMTT(60)
  <2>3. H = F + G /\ h[x] = f[x] + g[x]
    BY <1>2
  <2>4. f[x] \in Int /\ g[x] \in Int /\ F \in Int /\ G \in Int
    BY TotalType
  <2> HIDE DEF F, G, H
  <2>5. h[x] + H = (f[x] + F) + (g[x] + G)
    BY <2>3, <2>4
  <2> QED
    BY <2>2, <2>5
<1> HIDE DEF Good
<1>3. SUBSET Users \subseteq Good
  BY <1>1, <1>2, UserByUser, ZenonT(30)
<1> QED
  BY <1>3 DEF Good

\* A total of multiples is the multiple of the total.
LEMMA TotalScale ==
  ASSUME NEW g \in [Users -> Int], NEW h \in [Users -> Int], NEW a \in Int,
         \A u \in Users : h[u] = a * g[u], NEW S \in SUBSET Users
  PROVE  Total(h, S) = a * Total(g, S)
<1> DEFINE Good == {T \in SUBSET Users : Total(h, T) = a * Total(g, T)}
<1>1. {} \in Good
  BY TotalStep, SMTT(60)
<1>2. ASSUME NEW T \in SUBSET Users, T # {}, \A x \in T : T \ {x} \in Good PROVE T \in Good
  <2>1. PICK x \in T : TRUE
    BY <1>2
  <2> DEFINE G == Total(g, T \ {x})
             H == Total(h, T \ {x})
  <2>2. Total(g, T) = g[x] + G /\ Total(h, T) = h[x] + H
    BY TotalRemove, SMTT(60)
  <2>3. H = a * G /\ h[x] = a * g[x]
    BY <1>2
  <2>4. g[x] \in Int /\ G \in Int
    BY TotalType
  <2> HIDE DEF G, H
  <2>5. h[x] + H = a * (g[x] + G)
    BY <2>3, <2>4
  <2> QED
    BY <2>2, <2>5
<1> HIDE DEF Good
<1>3. SUBSET Users \subseteq Good
  BY <1>1, <1>2, UserByUser, ZenonT(30)
<1> QED
  BY <1>3 DEF Good

\* The same of the sum over the users: it is an integer,
LEMMA SumType == ASSUME NEW f \in [Users -> Int] PROVE SumFunction(f) \in Int
BY SumIsTotal, TotalType

\* of zeros it is zero,
LEMMA SumZero ==
  ASSUME NEW f \in [Users -> Int], \A u \in Users : f[u] = 0 PROVE SumFunction(f) = 0
BY SumIsTotal, TotalZero

\* of larger terms it is larger,
LEMMA SumMonotonic ==
  ASSUME NEW f \in [Users -> Int], NEW g \in [Users -> Int], \A u \in Users : f[u] <= g[u]
  PROVE  SumFunction(f) <= SumFunction(g)
BY SumIsTotal, TotalMonotonic

\* of sums it is the sum of the sums,
LEMMA SumAdd ==
  ASSUME NEW f \in [Users -> Int], NEW g \in [Users -> Int], NEW h \in [Users -> Int],
         \A u \in Users : h[u] = f[u] + g[u]
  PROVE  SumFunction(h) = SumFunction(f) + SumFunction(g)
BY SumIsTotal, TotalAdd, SMTT(60)

\* and of multiples it is the multiple.
LEMMA SumScale ==
  ASSUME NEW g \in [Users -> Int], NEW h \in [Users -> Int], NEW a \in Int,
         \A u \in Users : h[u] = a * g[u]
  PROVE  SumFunction(h) = a * SumFunction(g)
<1>1. Total(h, Users) = a * Total(g, Users)
  BY TotalScale, SMTT(60)
<1> QED
  BY <1>1, SumIsTotal

\* A step of one staker changes the sum by as much as it changes their term.
LEMMA SumUpdate ==
  ASSUME NEW f \in [Users -> Int], NEW g \in [Users -> Int], NEW u \in Users,
         \A v \in Users : v # u => g[v] = f[v]
  PROVE  SumFunction(g) = SumFunction(f) + (g[u] - f[u])
<1> DEFINE R == Users \ {u}
<1>1. Total(f, Users) = f[u] + Total(f, R) /\ Total(g, Users) = g[u] + Total(g, R)
  BY TotalRemove, SMTT(60)
<1>2. Total(f, R) <= Total(g, R) /\ Total(g, R) <= Total(f, R)
  <2>1. \A v \in R : f[v] <= g[v] /\ g[v] <= f[v]
    OBVIOUS
  <2> QED
    BY <2>1, TotalMonotonic
<1>3. Total(f, R) \in Int /\ Total(g, R) \in Int /\ f[u] \in Int /\ g[u] \in Int
  BY TotalType
<1> HIDE DEF R
<1> QED
  BY <1>1, <1>2, <1>3, SumIsTotal

\* Without negative terms no term is larger than the sum.
LEMMA TermOfSum ==
  ASSUME NEW f \in [Users -> Nat], NEW u \in Users
  PROVE  SumFunction(f) \in Nat /\ f[u] <= SumFunction(f)
<1> DEFINE z == [v \in Users |-> 0]
           R == Users \ {u}
<1>1. f \in [Users -> Int] /\ z \in [Users -> Int] /\ \A v \in Users : z[v] <= f[v]
  OBVIOUS
<1>2. \A v \in Users : z[v] = 0
  OBVIOUS
<1> HIDE DEF z
<1>4. Total(z, R) = 0
  BY <1>1, <1>2, TotalZero
<1>5. Total(z, R) <= Total(f, R) /\ Total(f, R) \in Int
  BY <1>1, TotalMonotonic, TotalType
<1>6. Total(f, Users) = f[u] + Total(f, R)
  BY <1>1, TotalRemove, SMTT(60)
<1> HIDE DEF R
<1>7. f[u] \in Nat /\ SumFunction(f) = Total(f, Users)
  BY <1>1, SumIsTotal
<1> QED
  BY <1>4, <1>5, <1>6, <1>7, SMTT(60)

-----------------------------------------------------------------------------
(* Arithmetic. *)

\* Division rounds down.
LEMMA Division ==
  ASSUME NEW x \in Nat, NEW d \in Nat \ {0}
  PROVE  /\ x \div d \in Nat /\ x % d \in Nat
         /\ x - (x % d) = d * (x \div d)
         /\ d * (x \div d) <= x /\ x < d * (x \div d) + d
         /\ x = 0 => x \div d = 0
OBVIOUS

\* Products commute and distribute.
LEMMA Products ==
  ASSUME NEW a \in Int, NEW b \in Int, NEW c \in Int
  PROVE  /\ a * b \in Int /\ a * b = b * a /\ 0 * a = 0 /\ a * 0 = 0
         /\ a * (b + c) = a * b + a * c /\ a * (b - c) = a * b - a * c
OBVIOUS

\* A product of naturals is a natural.
LEMMA NaturalProduct == ASSUME NEW a \in Nat, NEW b \in Nat PROVE a * b \in Nat
OBVIOUS

\* A positive factor keeps the order.
LEMMA Cancel ==
  ASSUME NEW a \in Int, NEW b \in Int, NEW d \in Nat \ {0}
  PROVE  /\ d * a <= d * b => a <= b
         /\ d * a < d * b => a < b
         /\ a <= b => d * a <= d * b
OBVIOUS

-----------------------------------------------------------------------------
(* What updateReward adds. *)

\* The rewardPerToken a call adds.
Gain == IF accruing = 0 THEN 0 ELSE FullPendingRewards \div accruing

\* What calculatePendingRewards and rewardPerToken add: each stake that earns, the same.
LEMMA Accrual ==
  ASSUME StakingInv
  PROVE  /\ LastApplicableTime \in Nat /\ Gain \in Nat
         /\ RewardPerToken = perToken + Gain
         /\ CalculatePendingRewards = pending + accruing * Gain
         /\ accruing * Gain \in Nat
         /\ withdrawn => Gain = 0 /\ LastApplicableTime = Closure
         /\ Precision * (Rate * ElapsedAt(lastUpdate)) + accruing * Gain
               <= Precision * (Rate * ElapsedAt(LastApplicableTime))
         /\ accruing > 0 => LastApplicableTime >= Launch
<1> DEFINE t == LastApplicableTime
           d == t - lastUpdate
           full == FullPendingRewards
<1>0. /\ now \in Nat /\ lastUpdate \in Nat /\ accruing \in Nat /\ pending \in Nat /\ perToken \in Nat
      /\ Launch \in Nat /\ Closure \in Nat /\ Rate \in Nat /\ Precision \in Nat \ {0}
      /\ lastUpdate <= LastApplicableTime
      /\ accruing > 0 => lastUpdate >= Launch
      /\ withdrawn => now > Closure /\ lastUpdate = Closure
  BY StakingConstants DEF StakingInv, StakingTypes
<1>1. t \in Nat /\ d \in Nat /\ lastUpdate <= t /\ (now > Closure => t = Closure)
  BY <1>0 DEF LastApplicableTime
<1>2. full = (d * Rate) * Precision /\ d * Rate \in Nat /\ full \in Nat
  BY <1>0, <1>1, NaturalProduct DEF FullPendingRewards
<1> HIDE DEF t, d, full
<1>3. accruing # 0 => /\ full \div accruing \in Nat
                      /\ full - (full % accruing) = accruing * (full \div accruing)
                      /\ accruing * (full \div accruing) <= full
                      /\ full % accruing \in Nat
                      /\ full = 0 => full \div accruing = 0
  BY <1>0, <1>2, Division, ZenonT(30)
<1>4. Gain \in Nat /\ accruing * Gain \in Nat /\ (accruing # 0 => accruing * Gain <= full)
  BY <1>0, <1>3, NaturalProduct DEF Gain, full
<1>5. RewardPerToken = perToken + Gain
  BY <1>0 DEF RewardPerToken, Gain
<1>6. CalculatePendingRewards = pending + accruing * Gain
  <2>1. CASE accruing = 0
    BY <1>0, <1>4, <2>1 DEF CalculatePendingRewards, Gain
  <2>2. CASE accruing # 0
    <3>1. CalculatePendingRewards = pending + full - (full % accruing)
      BY <2>2 DEF CalculatePendingRewards, full
    <3>2. full - (full % accruing) = accruing * Gain
      BY <1>3, <2>2 DEF Gain, full
    <3> QED
      BY <1>0, <1>2, <1>3, <1>4, <2>2, <3>1, <3>2
  <2> QED
    BY <2>1, <2>2
<1>7. withdrawn => Gain = 0 /\ LastApplicableTime = Closure
  <2> SUFFICES ASSUME withdrawn PROVE Gain = 0 /\ LastApplicableTime = Closure
    OBVIOUS
  <2>1. t = Closure /\ d = 0
    BY <1>0, <1>1 DEF d
  <2>2. full = 0
    BY <1>0, <1>2, <2>1
  <2> QED
    BY <1>3, <2>1, <2>2 DEF Gain, full, t
<1>8. Precision * (Rate * ElapsedAt(lastUpdate)) + accruing * Gain <= Precision * (Rate * ElapsedAt(t))
  <2> DEFINE e == ElapsedAt(lastUpdate)
             e2 == ElapsedAt(t)
  <2>1. e \in Nat /\ e2 \in Nat /\ e <= e2 /\ (lastUpdate >= Launch => e2 = e + d)
    BY <1>0, <1>1 DEF ElapsedAt, d
  <2> HIDE DEF e, e2
  <2>2. Rate * e \in Nat /\ Rate * e2 \in Nat /\ Rate * e <= Rate * e2
    BY <1>0, <2>1
  <2>3. Precision * (Rate * e) \in Nat /\ Precision * (Rate * e) <= Precision * (Rate * e2)
    BY <1>0, <2>2
  <2>4. CASE accruing = 0
    <3>1. accruing * Gain = 0
      BY <1>4, <2>4
    <3> QED
      BY <2>3, <3>1 DEF e, e2
  <2>5. CASE accruing # 0
    <3>1. e2 = e + d
      BY <1>0, <2>1, <2>5
    <3>2. Rate * e2 = Rate * e + d * Rate
      BY <1>0, <1>1, <2>1, <3>1
    <3>3. Precision * (Rate * e2) = Precision * (Rate * e) + full
      BY <1>0, <1>2, <2>2, <3>2
    <3> QED
      BY <1>2, <1>4, <2>3, <2>5, <3>3 DEF e, e2
  <2> QED
    BY <2>4, <2>5
<1>9. accruing > 0 => t >= Launch
  BY <1>0, <1>1
<1> QED
  BY <1>1, <1>4, <1>5, <1>6, <1>7, <1>8, <1>9 DEF t

\* What is owed once updateReward has moved rewardPerToken on.
OwedNow == [u \in Users |-> Due(stakers[u], RewardPerToken)]

\* The terms of the sums are naturals.
LEMMA Ledgers ==
  ASSUME StakingInv
  PROVE  /\ Stakes \in [Users -> Nat] /\ Earning \in [Users -> Nat]
         /\ Owed \in [Users -> Nat] /\ OwedNow \in [Users -> Nat]
         /\ \A u \in Users : OwedNow[u] = Owed[u] + Gain * Earning[u]
<1> SUFFICES ASSUME NEW u \in Users
             PROVE  /\ stakers[u].staked \in Nat /\ Earns(stakers[u]) \in Nat
                    /\ Due(stakers[u], perToken) \in Nat /\ Due(stakers[u], RewardPerToken) \in Nat
                    /\ Due(stakers[u], RewardPerToken)
                          = Due(stakers[u], perToken) + Gain * Earns(stakers[u])
  BY DEF Stakes, Earning, Owed, OwedNow
<1> DEFINE s == stakers[u]
<1>1. /\ s.staked \in Nat /\ s.debt \in Nat /\ s.earned \in Nat /\ s.unstake \in Nat
      /\ s.debt <= perToken /\ perToken \in Nat /\ Precision \in Nat
  BY StakingConstants DEF StakingInv, StakingTypes, Staker
<1>2. Gain \in Nat /\ RewardPerToken = perToken + Gain
  BY Accrual
<1> HIDE DEF s
<1>3. perToken - s.debt \in Nat /\ RewardPerToken - s.debt = (perToken - s.debt) + Gain
  BY <1>1, <1>2
<1>4. /\ s.staked * (perToken - s.debt) \in Nat /\ Precision * s.earned \in Nat
      /\ s.staked * Gain \in Nat /\ s.staked * Gain = Gain * s.staked /\ Gain * 0 = 0
      /\ s.staked * (RewardPerToken - s.debt) = s.staked * (perToken - s.debt) + s.staked * Gain
  BY <1>1, <1>2, <1>3, NaturalProduct, Products, SMTT(60)
<1>5. CASE s.unstake = 0
  BY <1>1, <1>4, <1>5 DEF Due, Earns, s
<1>6. CASE s.unstake # 0
  BY <1>1, <1>4, <1>6 DEF Due, Earns, s
<1> QED
  BY <1>5, <1>6

\* The pending rewards grow with what is owed: the same for each stake that earns.
LEMMA OwedNowIsPending ==
  ASSUME StakingInv
  PROVE  /\ SumFunction(OwedNow) \in Nat
         /\ SumFunction(OwedNow) <= CalculatePendingRewards
         /\ CalculatePendingRewards \in Nat
         /\ \A u \in Users : OwedNow[u] <= CalculatePendingRewards
<1> DEFINE G == [u \in Users |-> Gain * Earning[u]]
<1>0. /\ Gain \in Nat /\ accruing \in Nat /\ accruing = SumFunction(Earning)
      /\ SumFunction(Owed) <= pending /\ pending \in Nat
      /\ CalculatePendingRewards = pending + accruing * Gain /\ accruing * Gain \in Nat
  BY Accrual DEF StakingInv, StakingTypes
<1>1. /\ Earning \in [Users -> Int] /\ Owed \in [Users -> Int] /\ OwedNow \in [Users -> Int]
      /\ OwedNow \in [Users -> Nat] /\ Owed \in [Users -> Nat]
      /\ \A u \in Users : OwedNow[u] = Owed[u] + Gain * Earning[u]
      /\ \A u \in Users : Gain * Earning[u] \in Int
  BY <1>0, Ledgers, NaturalProduct, SMTT(60)
<1>2. G \in [Users -> Int] /\ \A u \in Users : G[u] = Gain * Earning[u]
  BY <1>1
<1>3. \A u \in Users : OwedNow[u] = Owed[u] + G[u]
  BY <1>1, <1>2
<1> HIDE DEF G
<1>4. SumFunction(G) = Gain * accruing
  <2>1. SumFunction(G) = Gain * SumFunction(Earning)
    BY <1>0, <1>1, <1>2, SumScale, SMTT(60)
  <2> QED
    BY <1>0, <2>1
<1>5. SumFunction(OwedNow) = SumFunction(Owed) + SumFunction(G)
  BY <1>1, <1>2, <1>3, SumAdd
<1>6. SumFunction(Owed) \in Int
  BY <1>1, SumType
<1>7. SumFunction(OwedNow) <= CalculatePendingRewards
  BY <1>0, <1>4, <1>5, <1>6
<1>8. SumFunction(OwedNow) \in Nat
  <2>1. CASE Users = {}
    <3>1. \A u \in Users : OwedNow[u] = 0
      BY <2>1
    <3> QED
      BY <1>1, <3>1, SumZero, SMTT(60)
  <2>2. CASE Users # {}
    BY <1>1, <2>2, TermOfSum
  <2> QED
    BY <2>1, <2>2
<1>9. \A u \in Users : OwedNow[u] <= SumFunction(OwedNow) /\ OwedNow[u] \in Nat
  BY <1>1, TermOfSum
<1> QED
  BY <1>0, <1>7, <1>8, <1>9

\* updateReward for a staker: the division drops a fraction, never in their favour.
LEMMA UpdatedFacts ==
  ASSUME StakingInv, NEW u \in Users
  PROVE  /\ Updated(u) \in Staker
         /\ Updated(u).staked = stakers[u].staked /\ Updated(u).unstake = stakers[u].unstake
         /\ Updated(u).earned = CalculateEarnedRewards(u)
         /\ Updated(u).debt <= RewardPerToken
         /\ stakers[u].unstake = 0 => Updated(u).debt = RewardPerToken
         /\ stakers[u].unstake # 0 => Updated(u) = stakers[u]
         /\ Precision * CalculateEarnedRewards(u) <= OwedNow[u]
<1> DEFINE s == stakers[u]
           a == s.staked * (RewardPerToken - s.debt)
<1>1. /\ s \in Staker /\ s.staked \in Nat /\ s.debt \in Nat /\ s.earned \in Nat /\ s.unstake \in Nat
      /\ s.debt <= perToken /\ perToken \in Nat /\ Precision \in Nat \ {0}
  BY StakingConstants DEF StakingInv, StakingTypes, Staker
<1>2. Gain \in Nat /\ RewardPerToken = perToken + Gain
  BY Accrual
<1>3. OwedNow[u] = Due(s, RewardPerToken)
  BY DEF OwedNow
<1> HIDE DEF s
<1>4. CASE s.unstake # 0
  <2>1. Updated(u) = s /\ CalculateEarnedRewards(u) = s.earned
    BY <1>4 DEF Updated, CalculateEarnedRewards, s
  <2>2. Precision * s.earned = Due(s, RewardPerToken)
    BY <1>1, <1>4, NaturalProduct, SMTT(60) DEF Due
  <2>3. s.debt <= RewardPerToken /\ Precision * s.earned \in Nat
    BY <1>1, <1>2, NaturalProduct, SMTT(60)
  <2> QED
    BY <1>1, <1>3, <1>4, <2>1, <2>2, <2>3 DEF s
<1>5. CASE s.unstake = 0
  <2>1. RewardPerToken - s.debt \in Nat /\ RewardPerToken \in Nat
    BY <1>1, <1>2
  <2>2. a \in Nat
    BY <1>1, <2>1, NaturalProduct
  <2>3. CalculateEarnedRewards(u) = (a \div Precision) + s.earned
    BY <1>5 DEF CalculateEarnedRewards, s
  <2>4. Due(s, RewardPerToken) = Precision * s.earned + a
    BY <1>5 DEF Due
  <2> HIDE DEF a
  <2>5. a \div Precision \in Nat /\ Precision * (a \div Precision) <= a
    BY <1>1, <2>2, Division, ZenonT(30)
  <2> DEFINE q == a \div Precision
  <2> HIDE DEF q
  <2>6. /\ Precision * (q + s.earned) = Precision * q + Precision * s.earned
        /\ Precision * q \in Int /\ Precision * s.earned \in Int
    BY <1>1, <2>5, Products, SMTT(60) DEF q
  <2>7. Precision * CalculateEarnedRewards(u) <= OwedNow[u]
    BY <1>3, <2>2, <2>3, <2>4, <2>5, <2>6 DEF q
  <2>8. Updated(u) = [s EXCEPT !.earned = CalculateEarnedRewards(u), !.debt = RewardPerToken]
    BY <1>5 DEF Updated, s
  <2>9. CalculateEarnedRewards(u) \in Nat
    BY <1>1, <2>3, <2>5
  <2>10. /\ Updated(u) \in Staker
         /\ Updated(u).staked = s.staked /\ Updated(u).unstake = s.unstake
         /\ Updated(u).earned = CalculateEarnedRewards(u)
         /\ Updated(u).debt = RewardPerToken
    <3> DEFINE w == Updated(u)
    <3>1. \E c \in Nat, p \in Nat : /\ w = [s EXCEPT !.earned = c, !.debt = p]
                                    /\ c = CalculateEarnedRewards(u) /\ p = RewardPerToken
      BY <2>1, <2>8, <2>9, ZenonT(30)
    <3> HIDE DEF w
    <3>2. PICK c \in Nat, p \in Nat : /\ w = [s EXCEPT !.earned = c, !.debt = p]
                                      /\ c = CalculateEarnedRewards(u) /\ p = RewardPerToken
      BY <3>1, ZenonT(30)
    <3>3. /\ w \in Staker /\ w.staked = s.staked /\ w.unstake = s.unstake
          /\ w.earned = c /\ w.debt = p
      <4>1. s \in Staker
        BY <1>1
      <4>2. \A r \in Staker : \A v : v = [r EXCEPT !.earned = c, !.debt = p] =>
               /\ v \in Staker /\ v.staked = r.staked /\ v.unstake = r.unstake
               /\ v.earned = c /\ v.debt = p
        BY ZenonT(30) DEF Staker
      <4> QED
        BY <3>2, <4>1, <4>2, Zenon
    <3> QED
      BY <3>2, <3>3 DEF w
  <2>11. RewardPerToken <= RewardPerToken
    BY <2>1
  <2> QED
    BY <1>5, <2>7, <2>10, <2>11 DEF s
<1> QED
  BY <1>4, <1>5

\* A call that updates the rewards and one staker: the sums change by that staker's terms.
LEMMA OneStaker ==
  ASSUME StakingInv, NEW u \in Users, NEW x \in Staker,
         stakers' = [stakers EXCEPT ![u] = x], perToken' = RewardPerToken,
         x.debt <= RewardPerToken
  PROVE  /\ stakers' \in [Users -> Staker]
         /\ \A v \in Users : stakers'[v].debt <= perToken'
         /\ SumFunction(Stakes') = totalStaked + (x.staked - stakers[u].staked)
         /\ SumFunction(Earning') = accruing + (Earns(x) - Earns(stakers[u]))
         /\ SumFunction(Owed') = SumFunction(OwedNow) + (Due(x, RewardPerToken) - OwedNow[u])
<1>1. /\ stakers \in [Users -> Staker] /\ perToken \in Nat
      /\ \A v \in Users : stakers[v].debt \in Nat /\ stakers[v].debt <= perToken
      /\ totalStaked = SumFunction(Stakes) /\ accruing = SumFunction(Earning)
  BY DEF StakingInv, StakingTypes, Staker
<1>2. /\ Stakes \in [Users -> Int] /\ Earning \in [Users -> Int] /\ OwedNow \in [Users -> Int]
      /\ Gain \in Nat /\ RewardPerToken = perToken + Gain
  BY Ledgers, Accrual, SMTT(60)
<1>3. \A v \in Users : stakers'[v] = IF v = u THEN x ELSE stakers[v]
  BY <1>1
<1>4. \A v \in Users : stakers'[v].debt <= perToken'
  BY <1>1, <1>2, <1>3, SMTT(60)
<1>5. Earns(x) \in Int /\ x.staked \in Int /\ Due(x, RewardPerToken) \in Int
  <2>1. x.staked \in Int /\ x.debt \in Int /\ x.earned \in Int /\ Precision \in Int
    BY StakingConstants DEF Staker
  <2>2. x.staked * (RewardPerToken - x.debt) \in Int /\ Precision * x.earned \in Int
    BY <1>1, <1>2, <2>1
  <2> QED
    BY <2>1, <2>2 DEF Earns, Due
<1>6. /\ Stakes' \in [Users -> Int] /\ Stakes'[u] = x.staked /\ Stakes[u] = stakers[u].staked
      /\ \A v \in Users : v # u => Stakes'[v] = Stakes[v]
  BY <1>2, <1>3, <1>5, SMTT(60) DEF Stakes
<1>7. /\ Earning' \in [Users -> Int] /\ Earning'[u] = Earns(x) /\ Earning[u] = Earns(stakers[u])
      /\ \A v \in Users : v # u => Earning'[v] = Earning[v]
  BY <1>2, <1>3, <1>5, SMTT(60) DEF Earning, Earns
<1>8. /\ Owed' \in [Users -> Int] /\ Owed'[u] = Due(x, RewardPerToken)
      /\ \A v \in Users : v # u => Owed'[v] = OwedNow[v]
  BY <1>2, <1>3, <1>5, SMTT(60) DEF Owed, OwedNow, Due
<1>9. SumFunction(Stakes') = SumFunction(Stakes) + (x.staked - stakers[u].staked)
  BY <1>2, <1>6, SumUpdate, SMTT(60)
<1>10. SumFunction(Earning') = SumFunction(Earning) + (Earns(x) - Earns(stakers[u]))
  BY <1>2, <1>7, SumUpdate, SMTT(60)
<1>11. SumFunction(Owed') = SumFunction(OwedNow) + (Due(x, RewardPerToken) - OwedNow[u])
  BY <1>2, <1>8, SumUpdate, SMTT(60)
<1> QED
  BY <1>1, <1>4, <1>9, <1>10, <1>11

-----------------------------------------------------------------------------
(* Each call preserves the invariant. *)

\* What updateReward leaves: the budget of the rate covers what is pending.
LEMMA Settled ==
  ASSUME StakingInv, lastUpdate' = LastApplicableTime, now' = now
  PROVE  /\ lastUpdate' \in Nat /\ lastUpdate' <= LastApplicableTime'
         /\ accruing > 0 => lastUpdate' >= Launch
         /\ ~short => Precision * paid + CalculatePendingRewards
                         <= Precision * (Rate * ElapsedAt(lastUpdate'))
         /\ withdrawn => /\ now' > Closure /\ lastUpdate' = Closure
                         /\ CalculatePendingRewards = pending
                         /\ pending < Precision * (Free + 1)
         /\ RewardPerToken \in Nat
<1>1. /\ LastApplicableTime \in Nat /\ Gain \in Nat
      /\ CalculatePendingRewards = pending + accruing * Gain
      /\ RewardPerToken = perToken + Gain
      /\ accruing * Gain \in Nat
      /\ withdrawn => Gain = 0 /\ LastApplicableTime = Closure
      /\ Precision * (Rate * ElapsedAt(lastUpdate)) + accruing * Gain
               <= Precision * (Rate * ElapsedAt(LastApplicableTime))
      /\ accruing > 0 => LastApplicableTime >= Launch
  BY Accrual
<1>2. /\ LastApplicableTime' = LastApplicableTime
      /\ perToken \in Nat /\ pending \in Nat /\ paid \in Nat /\ accruing \in Nat
      /\ Precision \in Nat /\ Rate \in Nat
      /\ withdrawn => now > Closure /\ pending < Precision * (Free + 1)
      /\ ~short => Precision * paid + pending <= Precision * (Rate * ElapsedAt(lastUpdate))
  BY StakingConstants DEF LastApplicableTime, StakingInv, StakingTypes
<1>3. /\ ElapsedAt(lastUpdate) \in Nat /\ ElapsedAt(LastApplicableTime) \in Nat
  BY <1>1, StakingConstants, SMTT(60) DEF ElapsedAt, StakingInv, StakingTypes
<1>4. /\ Precision * (Rate * ElapsedAt(lastUpdate)) \in Nat
      /\ Precision * (Rate * ElapsedAt(LastApplicableTime)) \in Nat
      /\ Precision * paid \in Nat
  BY <1>2, <1>3, NaturalProduct
<1>5. ~short => Precision * paid + CalculatePendingRewards
                   <= Precision * (Rate * ElapsedAt(LastApplicableTime))
  BY <1>1, <1>2, <1>4
<1>6. withdrawn => CalculatePendingRewards = pending
  BY <1>1, <1>2
<1> QED
  BY <1>1, <1>2, <1>5, <1>6

\* stake keeps the invariant.
LEMMA StakeStep ==
  ASSUME StakingInv, NEW u \in Users, NEW amount \in Amounts, Stake(u, amount)
  PROVE  StakingInv'
<1> DEFINE w == Updated(u)
           x == [w EXCEPT !.staked = @ + amount]
<1>1. /\ Launch <= now /\ now <= Closure /\ stakers[u].unstake = 0
      /\ perToken' = RewardPerToken /\ pending' = CalculatePendingRewards
      /\ lastUpdate' = LastApplicableTime
      /\ stakers' = [stakers EXCEPT ![u] = x]
      /\ totalStaked' = totalStaked + amount /\ accruing' = accruing + amount
      /\ ether' = ether + amount
      /\ UNCHANGED <<now, fees, feePercent, cooldown, tokens, given, paid, short, withdrawn>>
  BY DEF Stake, UpdateReward, config
<1>2. amount \in Nat /\ StakingTypes
  BY StakingConstants DEF StakingInv
<1>3. /\ w \in Staker /\ w.staked = stakers[u].staked /\ w.unstake = 0
      /\ w.debt = RewardPerToken /\ w.debt \in Nat /\ w.earned \in Nat /\ w.staked \in Nat
      /\ Precision * w.earned <= OwedNow[u]
  BY <1>1, UpdatedFacts DEF Staker
<1> HIDE DEF w
<1>4. /\ x \in Staker /\ x.staked = w.staked + amount /\ x.unstake = 0
      /\ x.debt = RewardPerToken /\ x.earned = w.earned
  BY <1>2, <1>3, SMTT(60) DEF Staker
<1> HIDE DEF x
<1>5. x.debt <= RewardPerToken
  BY <1>3, <1>4
<1>6. /\ stakers' \in [Users -> Staker]
      /\ \A v \in Users : stakers'[v].debt <= perToken'
      /\ SumFunction(Stakes') = totalStaked + (x.staked - stakers[u].staked)
      /\ SumFunction(Earning') = accruing + (Earns(x) - Earns(stakers[u]))
      /\ SumFunction(Owed') = SumFunction(OwedNow) + (Due(x, RewardPerToken) - OwedNow[u])
  BY <1>1, <1>4, <1>5, OneStaker, ZenonT(30)
<1>7. Earns(x) = x.staked /\ Earns(stakers[u]) = stakers[u].staked
  BY <1>1, <1>4 DEF Earns
<1>8. SumFunction(Stakes') = totalStaked' /\ SumFunction(Earning') = accruing'
  BY <1>1, <1>2, <1>3, <1>4, <1>6, <1>7, SMTT(60) DEF StakingTypes
<1>9. Due(x, RewardPerToken) = Precision * w.earned /\ Precision * w.earned \in Nat
  <2>1. x.staked * (RewardPerToken - x.debt) = 0 /\ Precision * w.earned \in Nat
    BY <1>2, <1>3, <1>4, StakingConstants, NaturalProduct, SMTT(60)
  <2> QED
    BY <1>4, <2>1 DEF Due
<1>10. /\ SumFunction(OwedNow) \in Nat /\ SumFunction(OwedNow) <= CalculatePendingRewards
       /\ CalculatePendingRewards \in Nat /\ OwedNow[u] \in Nat
  BY OwedNowIsPending, Ledgers
<1>11. SumFunction(Owed') <= pending'
  BY <1>1, <1>3, <1>6, <1>9, <1>10, SMTT(60)
<1>12. /\ lastUpdate' \in Nat /\ lastUpdate' <= LastApplicableTime' /\ RewardPerToken \in Nat
       /\ ~short => Precision * paid + CalculatePendingRewards
                         <= Precision * (Rate * ElapsedAt(lastUpdate'))
       /\ withdrawn => now' > Closure
  BY <1>1, Settled
<1>13. lastUpdate' >= Launch /\ ~withdrawn
  BY <1>1, <1>2, <1>12, StakingConstants, SMTT(60) DEF LastApplicableTime, StakingTypes
<1>14. StakingTypes'
  BY <1>1, <1>2, <1>6, <1>10, <1>12, SMTT(60) DEF StakingTypes
<1>15. ether' = totalStaked' + fees'
  BY <1>1, <1>2 DEF StakingInv, StakingTypes
<1> QED
  BY <1>1, <1>6, <1>8, <1>11, <1>12, <1>13, <1>14, <1>15 DEF StakingInv

\* claimReward keeps the invariant.
LEMMA ClaimStep ==
  ASSUME StakingInv, NEW u \in Users, ClaimReward(u)
  PROVE  StakingInv'
<1> DEFINE w == Updated(u)
           x == [w EXCEPT !.earned = 0]
<1>1. /\ w.earned > 0 /\ Free >= w.earned
      /\ perToken' = RewardPerToken /\ lastUpdate' = LastApplicableTime
      /\ CalculatePendingRewards >= w.earned * Precision
      /\ pending' = CalculatePendingRewards - w.earned * Precision
      /\ stakers' = [stakers EXCEPT ![u] = x]
      /\ tokens' = tokens - w.earned /\ paid' = paid + w.earned
      /\ UNCHANGED <<now, totalStaked, accruing, fees, feePercent, cooldown, ether, given,
                     short, withdrawn>>
  BY DEF ClaimReward, config
<1>2. StakingTypes /\ Precision \in Nat \ {0}
  BY StakingConstants DEF StakingInv
<1>3. /\ w \in Staker /\ w.staked = stakers[u].staked /\ w.unstake = stakers[u].unstake
      /\ w.debt <= RewardPerToken /\ w.debt \in Nat /\ w.earned \in Nat /\ w.staked \in Nat
      /\ stakers[u].unstake = 0 => w.debt = RewardPerToken
      /\ Precision * w.earned <= OwedNow[u]
  BY UpdatedFacts DEF Staker
<1> HIDE DEF w
<1>4. /\ x \in Staker /\ x.staked = w.staked /\ x.unstake = w.unstake
      /\ x.debt = w.debt /\ x.earned = 0
  BY <1>3 DEF Staker
<1> HIDE DEF x
<1>5. /\ stakers' \in [Users -> Staker]
      /\ \A v \in Users : stakers'[v].debt <= perToken'
      /\ SumFunction(Stakes') = totalStaked + (x.staked - stakers[u].staked)
      /\ SumFunction(Earning') = accruing + (Earns(x) - Earns(stakers[u]))
      /\ SumFunction(Owed') = SumFunction(OwedNow) + (Due(x, RewardPerToken) - OwedNow[u])
  BY <1>1, <1>3, <1>4, OneStaker, ZenonT(30)
<1>6. Earns(x) = Earns(stakers[u]) /\ Earns(x) \in Nat
  BY <1>3, <1>4 DEF Earns
<1>7. SumFunction(Stakes') = totalStaked' /\ SumFunction(Earning') = accruing'
  BY <1>1, <1>2, <1>3, <1>4, <1>5, <1>6, SMTT(60) DEF StakingTypes
<1>8. Due(x, RewardPerToken) = 0
  <2>1. Precision * 0 = 0 /\ (w.unstake = 0 => w.staked * (RewardPerToken - w.debt) = 0)
    BY <1>2, <1>3
  <2> QED
    BY <1>4, <2>1 DEF Due
<1> DEFINE R == Precision * w.earned
<1>9. R \in Nat /\ w.earned * Precision = R
  BY <1>2, <1>3, NaturalProduct, SMTT(60)
<1>10. /\ SumFunction(OwedNow) \in Nat /\ SumFunction(OwedNow) <= CalculatePendingRewards
       /\ CalculatePendingRewards \in Nat /\ OwedNow[u] \in Nat /\ R <= OwedNow[u]
  BY <1>3, OwedNowIsPending, Ledgers
<1>11. pending' = CalculatePendingRewards - R /\ pending' \in Nat
  BY <1>1, <1>9, <1>10
<1>12. SumFunction(Owed') <= pending'
  <2> HIDE DEF R
  <2> QED
    BY <1>5, <1>8, <1>9, <1>10, <1>11
<1>13. /\ lastUpdate' \in Nat /\ lastUpdate' <= LastApplicableTime' /\ RewardPerToken \in Nat
       /\ accruing > 0 => lastUpdate' >= Launch
       /\ ~short => Precision * paid + CalculatePendingRewards
                         <= Precision * (Rate * ElapsedAt(lastUpdate'))
       /\ withdrawn => /\ now' > Closure /\ lastUpdate' = Closure
                       /\ CalculatePendingRewards = pending
                       /\ pending < Precision * (Free + 1)
  BY <1>1, Settled, ZenonT(60)
<1>14. tokens' \in Nat /\ Free \in Int /\ Free' = Free - w.earned
  BY <1>1, <1>2, <1>3 DEF Free, StakingTypes
<1>15. Precision * paid' = Precision * paid + R /\ Precision * paid \in Nat
  BY <1>1, <1>2, <1>3, Products, NaturalProduct, SMTT(60) DEF StakingTypes
<1>16. ~short' => Precision * paid' + pending' <= Precision * (Rate * ElapsedAt(lastUpdate'))
  <2>1. Precision * paid' + pending' = Precision * paid + CalculatePendingRewards
    <3> HIDE DEF R
    <3> QED
      BY <1>9, <1>10, <1>11, <1>15
  <2> QED
    BY <1>1, <1>13, <2>1
<1>17. withdrawn' => now' > Closure /\ lastUpdate' = Closure /\ pending' < Precision * (Free' + 1)
  <2> SUFFICES ASSUME withdrawn PROVE pending' < Precision * (Free' + 1)
    BY <1>1, <1>13
  <2>1. (Free + 1) - w.earned = Free' + 1 /\ Free + 1 \in Int
    BY <1>3, <1>14
  <2>2. Precision * ((Free + 1) - w.earned) = Precision * (Free + 1) - R /\ Precision * (Free + 1) \in Int
    BY <1>2, <1>3, <2>1, Products, SMTT(60)
  <2>3. Precision * (Free' + 1) = Precision * (Free + 1) - R
    BY <2>1, <2>2
  <2> HIDE DEF R
  <2> QED
    BY <1>2, <1>9, <1>11, <1>13, <2>2, <2>3 DEF StakingTypes
<1>18. StakingTypes'
  BY <1>1, <1>2, <1>3, <1>5, <1>11, <1>13, <1>14, SMTT(60) DEF StakingTypes
<1>19. ether' = totalStaked' + fees'
  BY <1>1 DEF StakingInv
<1> QED
  BY <1>1, <1>5, <1>7, <1>12, <1>13, <1>16, <1>17, <1>18, <1>19, ZenonT(60) DEF StakingInv

\* commenceUnstaking keeps the invariant.
LEMMA CommenceStep ==
  ASSUME StakingInv, NEW u \in Users, CommenceUnstaking(u)
  PROVE  StakingInv'
<1> DEFINE w == Updated(u)
           x == [w EXCEPT !.unstake = now]
<1>1. /\ stakers[u].unstake = 0
      /\ perToken' = RewardPerToken /\ pending' = CalculatePendingRewards
      /\ lastUpdate' = LastApplicableTime
      /\ stakers' = [stakers EXCEPT ![u] = x]
      /\ accruing' = accruing - stakers[u].staked
      /\ UNCHANGED <<now, totalStaked, fees, feePercent, cooldown, ether, tokens, given, paid,
                     short, withdrawn>>
  BY DEF CommenceUnstaking, UpdateReward, config
<1>2. StakingTypes /\ Precision \in Nat \ {0}
  BY StakingConstants DEF StakingInv
<1>3. /\ w \in Staker /\ w.staked = stakers[u].staked
      /\ w.debt <= RewardPerToken /\ w.debt \in Nat /\ w.earned \in Nat /\ w.staked \in Nat
      /\ Precision * w.earned <= OwedNow[u]
  BY UpdatedFacts DEF Staker
<1> HIDE DEF w
<1>4. /\ x \in Staker /\ x.staked = w.staked /\ x.unstake = now /\ x.unstake # 0
      /\ x.debt = w.debt /\ x.earned = w.earned
  BY <1>2, <1>3, SMTT(60) DEF Staker, StakingTypes
<1> HIDE DEF x
<1>5. /\ stakers' \in [Users -> Staker]
      /\ \A v \in Users : stakers'[v].debt <= perToken'
      /\ SumFunction(Stakes') = totalStaked + (x.staked - stakers[u].staked)
      /\ SumFunction(Earning') = accruing + (Earns(x) - Earns(stakers[u]))
      /\ SumFunction(Owed') = SumFunction(OwedNow) + (Due(x, RewardPerToken) - OwedNow[u])
  BY <1>1, <1>3, <1>4, OneStaker, ZenonT(30)
<1>6. Earns(x) = 0 /\ Earns(stakers[u]) = stakers[u].staked
  BY <1>1, <1>4, ZenonT(30) DEF Earns
<1>7. SumFunction(Stakes') = totalStaked' /\ SumFunction(Earning') = accruing'
  BY <1>1, <1>2, <1>3, <1>4, <1>5, <1>6, SMTT(60) DEF StakingTypes
<1>8. Due(x, RewardPerToken) = Precision * w.earned /\ Precision * w.earned \in Nat
  <2>1. Precision * w.earned \in Nat
    BY <1>2, <1>3, NaturalProduct, ZenonT(60)
  <2> QED
    BY <1>4, <2>1 DEF Due
<1>9. /\ SumFunction(OwedNow) \in Nat /\ SumFunction(OwedNow) <= CalculatePendingRewards
      /\ CalculatePendingRewards \in Nat /\ OwedNow[u] \in Nat
  BY OwedNowIsPending, Ledgers
<1>10. SumFunction(Owed') <= pending'
  BY <1>1, <1>3, <1>5, <1>8, <1>9, SMTT(60)
<1>11. /\ lastUpdate' \in Nat /\ lastUpdate' <= LastApplicableTime' /\ RewardPerToken \in Nat
       /\ accruing > 0 => lastUpdate' >= Launch
       /\ ~short => Precision * paid + CalculatePendingRewards
                         <= Precision * (Rate * ElapsedAt(lastUpdate'))
       /\ withdrawn => /\ now' > Closure /\ lastUpdate' = Closure
                       /\ CalculatePendingRewards = pending
                       /\ pending < Precision * (Free + 1)
  BY <1>1, Settled
<1>12. Free' = Free
  BY <1>1 DEF Free
<1>13. accruing' \in Nat /\ accruing' <= accruing
  <2>1. Earning \in [Users -> Nat] /\ Earning[u] = stakers[u].staked /\ accruing = SumFunction(Earning)
    BY <1>6, Ledgers DEF Earning, StakingInv
  <2>2. stakers[u].staked <= accruing
    BY <2>1, TermOfSum
  <2> QED
    BY <1>1, <1>2, <1>3, <2>2 DEF StakingTypes
<1>14. StakingTypes'
  BY <1>1, <1>2, <1>5, <1>9, <1>11, <1>13, ZenonT(60) DEF StakingTypes
<1>15. accruing' > 0 => lastUpdate' >= Launch
  BY <1>2, <1>11, <1>13 DEF StakingTypes
<1>16. ether' = totalStaked' + fees'
  BY <1>1 DEF StakingInv
<1> QED
  BY <1>1, <1>5, <1>7, <1>10, <1>11, <1>12, <1>14, <1>15, <1>16, ZenonT(60) DEF StakingInv

\* The fee is part of the stake.
LEMMA FeeOfStake ==
  ASSUME NEW staked \in Nat, NEW percent \in 0..FeePrecision
  PROVE  (staked * percent) \div FeePrecision \in 0..staked
<1> DEFINE y == staked * percent
           fee == y \div FeePrecision
<1>1. FeePrecision \in Nat \ {0} /\ percent \in Nat /\ percent <= FeePrecision
  BY StakingConstants
<1>2. y \in Nat /\ y <= staked * FeePrecision /\ staked * FeePrecision = FeePrecision * staked
      /\ FeePrecision * staked \in Nat
  BY <1>1, NaturalProduct, SMTT(60)
<1> HIDE DEF y
<1>3. fee \in Nat /\ FeePrecision * fee <= y
  BY <1>1, <1>2, Division
<1> HIDE DEF fee
<1>4. FeePrecision * fee <= FeePrecision * staked /\ FeePrecision * fee \in Nat
  BY <1>1, <1>2, <1>3, NaturalProduct, SMTT(60)
<1>5. fee <= staked
  BY <1>1, <1>3, <1>4, Cancel, SMTT(60)
<1> QED
  BY <1>3, <1>5 DEF fee, y

\* withdrawStake keeps the invariant.
LEMMA WithdrawStakeStep ==
  ASSUME StakingInv, NEW u \in Users, WithdrawStake(u)
  PROVE  StakingInv'
<1> DEFINE s == stakers[u]
           fee == (s.staked * feePercent) \div FeePrecision
           covered == s.earned > 0 /\ Free >= s.earned
           owed == CalculatePendingRewards
           x == [staked |-> 0, debt |-> 0, unstake |-> 0,
                 earned |-> IF covered THEN 0 ELSE s.earned]
           R == Precision * s.earned
<1>1. /\ s.unstake > 0 /\ tokens >= s.earned
      /\ perToken' = RewardPerToken /\ lastUpdate' = LastApplicableTime
      /\ pending' = IF covered /\ owed >= s.earned * Precision
                    THEN owed - s.earned * Precision ELSE owed
      /\ stakers' = [stakers EXCEPT ![u] = x]
      /\ fees' = fees + fee /\ totalStaked' = totalStaked - s.staked
      /\ tokens' = tokens - s.earned /\ ether' = ether - (s.staked - fee)
      /\ paid' = paid + s.earned
      /\ short' = (short \/ (s.earned > 0 /\ ~covered))
      /\ UNCHANGED <<now, accruing, feePercent, cooldown, given, withdrawn>>
  BY DEF WithdrawStake, config
<1>2. StakingTypes /\ Precision \in Nat \ {0} /\ ether = totalStaked + fees
  BY StakingConstants DEF StakingInv
<1>3. s.staked \in Nat /\ s.debt \in Nat /\ s.earned \in Nat /\ s.unstake \in Nat
  BY <1>2 DEF StakingTypes, Staker
<1>4. fee \in 0..s.staked
  BY <1>2, <1>3, FeeOfStake, ZenonT(30) DEF StakingTypes
<1>5. s.staked <= totalStaked
  <2>1. Stakes \in [Users -> Nat] /\ Stakes[u] = s.staked /\ totalStaked = SumFunction(Stakes)
    BY Ledgers DEF Stakes, StakingInv
  <2> QED
    BY <2>1, TermOfSum
<1>6. /\ SumFunction(OwedNow) \in Nat /\ SumFunction(OwedNow) <= owed
      /\ owed \in Nat /\ OwedNow[u] \in Nat /\ OwedNow[u] <= owed
  BY OwedNowIsPending, Ledgers
<1>7. R \in Nat /\ s.earned * Precision = R
  BY <1>2, <1>3, NaturalProduct, SMTT(60)
<1>8. OwedNow[u] = R
  <2>1. OwedNow[u] = Due(s, RewardPerToken)
    BY DEF OwedNow
  <2> QED
    BY <1>1, <1>3, <1>7, <2>1 DEF Due
<1>9. pending' = (IF covered THEN owed - R ELSE owed) /\ pending' \in Nat
  <2> HIDE DEF R, owed, covered
  <2> QED
    BY <1>1, <1>6, <1>7, <1>8
<1>10. Free \in Int /\ Free' = Free - s.earned + (s.staked - fee)
  BY <1>1, <1>2, <1>3, <1>4 DEF Free, StakingTypes
<1>11. /\ lastUpdate' \in Nat /\ lastUpdate' <= LastApplicableTime' /\ RewardPerToken \in Nat
       /\ accruing > 0 => lastUpdate' >= Launch
       /\ ~short => Precision * paid + owed <= Precision * (Rate * ElapsedAt(lastUpdate'))
       /\ withdrawn => /\ now' > Closure /\ lastUpdate' = Closure
                       /\ owed = pending /\ pending < Precision * (Free + 1)
  BY <1>1, Settled, ZenonT(60)
<1>12. /\ x \in Staker /\ x.staked = 0 /\ x.unstake = 0 /\ x.debt = 0
       /\ x.earned = IF covered THEN 0 ELSE s.earned
  <2> HIDE DEF covered
  <2> QED
    BY <1>3, ZenonT(30) DEF Staker
<1> HIDE DEF x
<1>13. /\ stakers' \in [Users -> Staker]
       /\ \A v \in Users : stakers'[v].debt <= perToken'
       /\ SumFunction(Stakes') = totalStaked + (x.staked - s.staked)
       /\ SumFunction(Earning') = accruing + (Earns(x) - Earns(s))
       /\ SumFunction(Owed') = SumFunction(OwedNow) + (Due(x, RewardPerToken) - OwedNow[u])
  <2>1. x.debt <= RewardPerToken /\ x \in Staker
    BY <1>11, <1>12
  <2>2. stakers' = [stakers EXCEPT ![u] = x] /\ perToken' = RewardPerToken
    BY <1>1 DEF x
  <2> QED
    BY <2>1, <2>2, OneStaker, ZenonT(30)
<1>14. Earns(x) = 0 /\ Earns(s) = 0
  BY <1>1, <1>3, <1>12 DEF Earns
<1>15. SumFunction(Stakes') = totalStaked' /\ SumFunction(Earning') = accruing'
  BY <1>1, <1>2, <1>3, <1>12, <1>13, <1>14, SMTT(60) DEF StakingTypes
<1>16. Due(x, RewardPerToken) = IF covered THEN 0 ELSE R
  <2>1. x.staked * (RewardPerToken - x.debt) = 0 /\ Precision * 0 = 0
    BY <1>2, <1>11, <1>12
  <2> QED
    BY <1>7, <1>12, <2>1 DEF Due
<1>17. SumFunction(Owed') <= pending'
  <2> HIDE DEF R, owed, covered
  <2> QED
    BY <1>6, <1>7, <1>8, <1>9, <1>13, <1>16, SMTT(60)
<1>18. ~short' => Precision * paid' + pending' <= Precision * (Rate * ElapsedAt(lastUpdate'))
  <2> SUFFICES ASSUME ~short' PROVE Precision * paid' + pending' = Precision * paid + owed
    BY <1>1, <1>11, ZenonT(30)
  <2>1. /\ Precision * paid' = Precision * paid + R /\ Precision * paid \in Nat
        /\ s.earned = 0 => R = 0
    BY <1>1, <1>2, <1>3, Products, NaturalProduct, SMTT(60) DEF StakingTypes
  <2>2. covered \/ s.earned = 0
    <3>1. ~(s.earned > 0 /\ ~covered)
      <4> HIDE DEF covered, s
      <4> QED
        BY <1>1, Zenon
    <3> QED
      BY <1>3, <3>1
  <2> HIDE DEF R, owed, covered
  <2> QED
    BY <1>6, <1>7, <1>9, <2>1, <2>2
<1>19. withdrawn' => now' > Closure /\ lastUpdate' = Closure /\ pending' < Precision * (Free' + 1)
  <2> SUFFICES ASSUME withdrawn PROVE pending' < Precision * (Free' + 1)
    BY <1>1, <1>11
  <2> DEFINE F == Free + 1
             E == F - s.earned
  <2>1. F \in Int /\ E \in Int /\ Free' + 1 \in Int /\ E <= Free' + 1
    <3> HIDE DEF s, fee
    <3> QED
      BY <1>3, <1>4, <1>10
  <2>2. owed < Precision * F
    BY <1>11
  <2>3. Precision * E = Precision * F - R /\ Precision * F \in Int /\ Precision * E \in Int
    <3> HIDE DEF s, F
    <3> QED
      BY <1>2, <1>3, <2>1, Products, SMTT(60)
  <2>4. Precision * E <= Precision * (Free' + 1) /\ Precision * (Free' + 1) \in Int
    BY <1>2, <2>1, Cancel, Products, SMTT(60)
  <2>5. CASE covered
    <3> HIDE DEF R, owed, covered, E, F
    <3> QED
      BY <1>6, <1>7, <1>9, <2>2, <2>3, <2>4, <2>5, SMTT(60)
  <2>6. CASE ~covered
    <3>1. s.earned < F
      <4>1. Precision * s.earned < Precision * F
        <5> HIDE DEF F, owed
        <5> QED
          BY <1>2, <1>3, <1>6, <1>7, <1>8, <2>2, <2>3
      <4> QED
        BY <1>2, <1>3, <2>1, <4>1, Cancel, SMTT(60)
    <3>2. s.earned = 0
      BY <1>3, <1>10, <2>6, <3>1, SMTT(60)
    <3>3. R = 0
      BY <1>2, <3>2, SMTT(60)
    <3> HIDE DEF R, owed, covered, E, F
    <3> QED
      BY <1>6, <1>9, <2>2, <2>3, <2>4, <2>6, <3>3
  <2> QED
    BY <2>5, <2>6
<1>20. /\ fees' \in Nat /\ totalStaked' \in Nat /\ tokens' \in Nat /\ ether' \in Nat
       /\ paid' \in Nat /\ short' \in BOOLEAN
       /\ ether' = totalStaked' + fees'
  <2> HIDE DEF fee, covered
  <2> QED
    BY <1>1, <1>2, <1>3, <1>4, <1>5, SMTT(60) DEF StakingTypes
<1>21. StakingTypes'
  BY <1>1, <1>2, <1>9, <1>11, <1>13, <1>20, ZenonT(60) DEF StakingTypes
<1> QED
  BY <1>1, <1>11, <1>13, <1>15, <1>17, <1>18, <1>19, <1>20, <1>21 DEF StakingInv

\* withdrawRemainingTokens keeps the invariant: it leaves what is pending.
LEMMA WithdrawRemainingStep ==
  ASSUME StakingInv, WithdrawRemainingTokens
  PROVE  StakingInv'
<1> DEFINE owed == CalculatePendingRewards
           q == owed \div Precision
<1>1. /\ perToken' = RewardPerToken /\ pending' = owed /\ lastUpdate' = LastApplicableTime
      /\ now > Closure /\ Free > q /\ tokens' = tokens - (Free - q) /\ withdrawn' = TRUE
      /\ UNCHANGED <<now, stakers, totalStaked, accruing, fees, feePercent, cooldown, ether,
                     given, paid, short>>
  BY DEF WithdrawRemainingTokens, UpdateReward, config
<1>2. StakingTypes /\ Precision \in Nat \ {0} /\ Closure \in Nat
  BY StakingConstants DEF StakingInv
<1>3. /\ SumFunction(OwedNow) <= owed /\ owed \in Nat /\ Gain \in Nat /\ RewardPerToken = perToken + Gain
      /\ \A u \in Users : stakers[u].debt \in Nat /\ stakers[u].debt <= perToken
  BY <1>2, OwedNowIsPending, Accrual DEF StakingInv, StakingTypes, Staker
<1> HIDE DEF owed
<1>4. q \in Nat /\ owed < Precision * q + Precision
  BY <1>2, <1>3, Division, ZenonT(30)
<1> HIDE DEF q
<1>5. Owed' = OwedNow /\ Stakes' = Stakes /\ Earning' = Earning
  BY <1>1 DEF Owed, OwedNow, Stakes, Earning, Due, Earns
<1>6. Free' = q /\ tokens' \in Nat
  BY <1>1, <1>2, <1>4, SMTT(60) DEF Free, StakingTypes
<1>7. /\ lastUpdate' \in Nat /\ lastUpdate' <= LastApplicableTime' /\ RewardPerToken \in Nat
      /\ accruing > 0 => lastUpdate' >= Launch
      /\ ~short => Precision * paid + owed <= Precision * (Rate * ElapsedAt(lastUpdate'))
  BY <1>1, Settled DEF owed
<1>8. lastUpdate' = Closure
  BY <1>1, <1>2 DEF LastApplicableTime, StakingTypes
<1>9. Precision * (Free' + 1) = Precision * q + Precision
  BY <1>2, <1>4, <1>6, Products, SMTT(60)
<1>10. \A u \in Users : stakers'[u].debt <= perToken'
  BY <1>1, <1>2, <1>3 DEF StakingTypes
<1>11. StakingTypes'
  BY <1>1, <1>2, <1>3, <1>6, <1>7 DEF StakingTypes
<1>12. SumFunction(Stakes') = totalStaked' /\ SumFunction(Earning') = accruing'
       /\ SumFunction(Owed') <= pending' /\ ether' = totalStaked' + fees'
  BY <1>1, <1>3, <1>5 DEF StakingInv
<1> QED
  BY <1>1, <1>4, <1>7, <1>8, <1>9, <1>10, <1>11, <1>12, ZenonT(60) DEF StakingInv

\* Calls that touch neither stakes nor rewards, and the passage of time.
LEMMA OtherStep ==
  ASSUME StakingInv,
         \/ \E fee \in 0..FeePrecision : SetUnstakeFeePercent(fee)
         \/ \E time \in Cooldowns : SetUnstakeTime(time)
         \/ GiveToken \/ Tick \/ UNCHANGED vars
  PROVE  StakingInv'
<1>1. /\ UNCHANGED <<stakers, totalStaked, accruing, lastUpdate, perToken, pending, fees, ether,
                     paid, short, withdrawn>>
      /\ now' = now \/ now' = now + 1
      /\ tokens' = tokens \/ tokens' = tokens + 1
      /\ given' = given \/ given' = given + 1
      /\ feePercent' = feePercent \/ feePercent' \in 0..FeePrecision
      /\ cooldown' = cooldown \/ cooldown' \in Cooldowns
  BY DEF SetUnstakeFeePercent, SetUnstakeTime, GiveToken, Tick, vars, rewards, config
<1>2. StakingTypes /\ Precision \in Nat \ {0} /\ Closure \in Nat /\ Cooldowns \subseteq Nat
  BY StakingConstants DEF StakingInv
<1>3. StakingTypes'
  <2>1. now' \in Nat /\ now' >= 1 /\ tokens' \in Nat /\ given' \in Nat
    BY <1>1, <1>2, SMTT(60) DEF StakingTypes
  <2>2. feePercent' \in 0..FeePrecision /\ cooldown' \in Nat
    <3> USE <1>1, <1>2 DEF StakingTypes
    <3>1. feePercent' \in 0..FeePrecision
      BY Zenon
    <3>2. cooldown' \in Nat
      BY Zenon
    <3> QED
      BY <3>1, <3>2
  <2> QED
    BY <1>1, <1>2, <2>1, <2>2, Zenon DEF StakingTypes
<1>4. Owed' = Owed /\ Stakes' = Stakes /\ Earning' = Earning
  BY <1>1 DEF Owed, Stakes, Earning, Due, Earns
<1>5. lastUpdate' <= LastApplicableTime' /\ (now > Closure => now' > Closure)
  BY <1>1, <1>2 DEF StakingInv, StakingTypes, LastApplicableTime
<1>6. Free \in Int /\ (Free' = Free \/ Free' = Free + 1)
  BY <1>1, <1>2 DEF Free, StakingTypes
<1>7. Precision * (Free + 1) <= Precision * (Free' + 1) /\ Precision * (Free + 1) \in Int
      /\ Precision * (Free' + 1) \in Int
  BY <1>2, <1>6
<1>8. withdrawn' => now' > Closure /\ lastUpdate' = Closure /\ pending' < Precision * (Free' + 1)
  BY <1>1, <1>2, <1>5, <1>7 DEF StakingInv, StakingTypes
<1> QED
  BY <1>1, <1>3, <1>4, <1>5, <1>8, ZenonT(60) DEF StakingInv

-----------------------------------------------------------------------------
(* The theorems. *)

\* The constructor establishes the invariant.
LEMMA StakingInit == Init => StakingInv
<1> SUFFICES ASSUME Init PROVE StakingInv
  OBVIOUS
<1>1. /\ now = 1 /\ totalStaked = 0 /\ accruing = 0 /\ lastUpdate = 0 /\ perToken = 0
      /\ pending = 0 /\ fees = 0 /\ feePercent = 0 /\ cooldown \in Nat /\ ether = 0
      /\ tokens = 0 /\ given = 0 /\ paid = 0 /\ short = FALSE /\ withdrawn = FALSE
  BY StakingConstants DEF Init
<1>2. \A u \in Users : /\ stakers[u] \in Staker /\ stakers[u].staked = 0 /\ stakers[u].debt = 0
                       /\ stakers[u].earned = 0 /\ stakers[u].unstake = 0
  BY DEF Init, Staker
<1>3. stakers \in [Users -> Staker]
  BY <1>2 DEF Init
<1>4. Precision \in Nat /\ Rate \in Nat /\ Launch \in Nat /\ Closure \in Nat /\ FeePrecision \in Nat
  BY StakingConstants
<1>5. \A u \in Users : Stakes[u] = 0 /\ Earning[u] = 0 /\ Owed[u] = 0
  BY <1>1, <1>2, <1>4 DEF Stakes, Earning, Owed, Earns, Due
<1>6. Stakes \in [Users -> Int] /\ Earning \in [Users -> Int] /\ Owed \in [Users -> Int]
  BY <1>5, SMTT(60) DEF Stakes, Earning, Owed
<1>7. SumFunction(Stakes) = 0 /\ SumFunction(Earning) = 0 /\ SumFunction(Owed) = 0
  BY <1>5, <1>6, SumZero
<1>8. StakingTypes
  <2>1. short \in BOOLEAN /\ withdrawn \in BOOLEAN
    BY <1>1, Zenon
  <2>2. /\ now \in Nat /\ now >= 1 /\ totalStaked \in Nat /\ accruing \in Nat /\ fees \in Nat
        /\ ether \in Nat /\ lastUpdate \in Nat /\ perToken \in Nat /\ pending \in Nat
        /\ feePercent \in 0..FeePrecision /\ tokens \in Nat /\ given \in Nat /\ paid \in Nat
    BY <1>1, <1>4
  <2> QED
    BY <1>1, <1>3, <2>1, <2>2, Zenon DEF StakingTypes
<1>9. lastUpdate <= LastApplicableTime
  BY <1>1, <1>4 DEF LastApplicableTime
<1>10. Precision * paid + pending <= Precision * (Rate * ElapsedAt(lastUpdate))
  <2>1. ElapsedAt(0) = 0
    BY <1>4 DEF ElapsedAt
  <2> QED
    BY <1>1, <1>4, <2>1
<1> QED
  BY <1>1, <1>2, <1>7, <1>8, <1>9, <1>10, SMTT(60) DEF StakingInv

\* The inductive invariant: the totals are the sums over the stakers, and what all are owed,
\* before any division, is at most what is pending.
THEOREM StakingInvariant == Spec => []StakingInv
<1>1. StakingInv /\ [Next]_vars => StakingInv'
  <2> SUFFICES ASSUME StakingInv, [Next]_vars PROVE StakingInv'
    OBVIOUS
  <2>1. ASSUME NEW u \in Users, NEW amount \in Amounts, Stake(u, amount) PROVE StakingInv'
    BY <2>1, StakeStep
  <2>2. ASSUME NEW u \in Users, ClaimReward(u) PROVE StakingInv'
    BY <2>2, ClaimStep
  <2>3. ASSUME NEW u \in Users, CommenceUnstaking(u) PROVE StakingInv'
    BY <2>3, CommenceStep
  <2>4. ASSUME NEW u \in Users, WithdrawStake(u) PROVE StakingInv'
    BY <2>4, WithdrawStakeStep
  <2>5. CASE WithdrawRemainingTokens
    BY <2>5, WithdrawRemainingStep
  <2>6. CASE \/ \E fee \in 0..FeePrecision : SetUnstakeFeePercent(fee)
             \/ \E time \in Cooldowns : SetUnstakeTime(time)
             \/ GiveToken \/ Tick \/ UNCHANGED vars
    BY <2>6, OtherStep
  <2> QED
    BY <2>1, <2>2, <2>3, <2>4, <2>5, <2>6 DEF Next
<1> QED
  BY StakingInit, <1>1, PTL DEF Spec

\* For any number of stakers: the contract holds the stakes and the fees in ether, and the
\* counters that stake, commenceUnstaking and withdrawStake keep are the sums they stand for.
THEOREM StakingAccounted == Spec => []Accounted
<1>1. StakingInv => Accounted
  BY DEF StakingInv, Accounted, Stakes, Earning, Earns
<1> QED
  BY <1>1, StakingInvariant, PTL

\* What the stakers earned, together, is at most what is pending.
LEMMA EarnedIsOwed ==
  ASSUME StakingInv
  PROVE  EarnedRewards \in Int /\ Precision * EarnedRewards <= CalculatePendingRewards
<1> DEFINE E == [u \in Users |-> CalculateEarnedRewards(u)]
           H == [u \in Users |-> Precision * CalculateEarnedRewards(u)]
<1>1. Precision \in Nat
  BY StakingConstants
<1>2. \A u \in Users : /\ CalculateEarnedRewards(u) \in Nat
                       /\ Precision * CalculateEarnedRewards(u) <= OwedNow[u]
                       /\ Precision * CalculateEarnedRewards(u) \in Int
  <2> SUFFICES ASSUME NEW u \in Users
               PROVE  /\ CalculateEarnedRewards(u) \in Nat
                      /\ Precision * CalculateEarnedRewards(u) <= OwedNow[u]
                      /\ Precision * CalculateEarnedRewards(u) \in Int
    OBVIOUS
  <2>1. /\ Updated(u) \in Staker /\ Updated(u).earned = CalculateEarnedRewards(u)
        /\ Precision * CalculateEarnedRewards(u) <= OwedNow[u]
    BY UpdatedFacts
  <2>2. CalculateEarnedRewards(u) \in Nat
    BY <2>1 DEF Staker
  <2> QED
    BY <1>1, <2>1, <2>2
<1>3. /\ E \in [Users -> Int] /\ H \in [Users -> Int]
      /\ \A u \in Users : H[u] = Precision * E[u] /\ H[u] <= OwedNow[u]
  BY <1>2
<1>4. EarnedRewards = SumFunction(E)
  BY DEF EarnedRewards
<1> HIDE DEF E, H
<1>5. SumFunction(H) = Precision * SumFunction(E)
  BY <1>1, <1>3, SumScale, SMTT(60)
<1>6. OwedNow \in [Users -> Int] /\ SumFunction(OwedNow) \in Int
      /\ SumFunction(OwedNow) <= CalculatePendingRewards /\ CalculatePendingRewards \in Int
  BY Ledgers, OwedNowIsPending
<1>7. SumFunction(H) <= SumFunction(OwedNow)
  BY <1>3, <1>6, SumMonotonic
<1>8. SumFunction(E) \in Int /\ SumFunction(H) \in Int
  BY <1>3, SumType, ZenonT(60)
<1> QED
  BY <1>4, <1>5, <1>6, <1>7, <1>8, SMTT(60)

\* For every rate, scale and set of stakers: rewardsPendingAccumulated, brought up to date,
\* covers what calculateEarnedRewards gives all stakers together.
THEOREM StakingRewardsAreBacked == Spec => []RewardsAreBacked
<1>1. StakingInv => RewardsAreBacked
  <2> SUFFICES ASSUME StakingInv PROVE RewardsAreBacked
    OBVIOUS
  <2>1. /\ EarnedRewards \in Int /\ Precision * EarnedRewards <= CalculatePendingRewards
        /\ CalculatePendingRewards \in Nat
    BY EarnedIsOwed, OwedNowIsPending
  <2>2. Precision * EarnedRewards \in Int
    BY <2>1, StakingConstants, SMTT(60)
  <2> QED
    BY <2>1, <2>2 DEF RewardsAreBacked
<1> QED
  BY <1>1, StakingInvariant, PTL

\* withdrawRemainingTokens leaves the tokens for the rewards of everyone, and no later call
\* takes them from a staker who has not claimed.
THEOREM StakingOwnerLeavesRewards == Spec => []OwnerLeavesRewards
<1>1. StakingInv => OwnerLeavesRewards
  <2> SUFFICES ASSUME StakingInv, withdrawn PROVE Free >= EarnedRewards
    BY DEF OwnerLeavesRewards
  <2>1. /\ EarnedRewards \in Int /\ Precision * EarnedRewards <= CalculatePendingRewards
        /\ CalculatePendingRewards = pending + accruing * Gain /\ Gain = 0
    BY EarnedIsOwed, Accrual
  <2>2. /\ pending \in Nat /\ accruing \in Nat /\ Free \in Int /\ Precision \in Nat \ {0}
        /\ pending < Precision * (Free + 1)
    BY StakingConstants, SMTT(60) DEF StakingInv, StakingTypes, Free
  <2>3. Precision * EarnedRewards < Precision * (Free + 1)
    <3>1. accruing * Gain = 0
      BY <2>1, <2>2
    <3>2. Precision * EarnedRewards \in Int /\ Precision * (Free + 1) \in Int
      BY <2>1, <2>2, Products, SMTT(60)
    <3> QED
      BY <2>1, <2>2, <3>1, <3>2
  <2>4. EarnedRewards < Free + 1
    BY <2>1, <2>2, <2>3, Cancel, SMTT(60)
  <2> QED
    BY <2>1, <2>2, <2>4
<1> QED
  BY <1>1, StakingInvariant, PTL

\* As long as every reward paid with a stake was free, the rewards paid and those still to be
\* claimed stay within what the rate gives for the time since the launch.
THEOREM StakingPaidIsEarned == Spec => []PaidIsEarned
<1>1. StakingInv => PaidIsEarned
  <2> SUFFICES ASSUME StakingInv, ~short, now >= Launch
               PROVE  paid + EarnedRewards <= Rate * (LastApplicableTime - Launch)
    BY DEF PaidIsEarned
  <2> DEFINE B == Rate * ElapsedAt(LastApplicableTime)
             A == Rate * ElapsedAt(lastUpdate)
  <2>1. /\ EarnedRewards \in Int /\ Precision * EarnedRewards <= CalculatePendingRewards
        /\ CalculatePendingRewards = pending + accruing * Gain /\ accruing * Gain \in Nat
        /\ Precision * A + accruing * Gain <= Precision * B
        /\ LastApplicableTime \in Nat
    BY EarnedIsOwed, Accrual
  <2>2. /\ pending \in Nat /\ paid \in Nat /\ Precision \in Nat \ {0} /\ Rate \in Nat
        /\ now \in Nat /\ lastUpdate \in Nat /\ Launch \in Nat /\ Closure \in Nat /\ Launch <= Closure
        /\ Precision * paid + pending <= Precision * A
    BY StakingConstants DEF StakingInv, StakingTypes
  <2>3. ElapsedAt(LastApplicableTime) = LastApplicableTime - Launch
    BY <2>2 DEF LastApplicableTime, ElapsedAt
  <2>4. ElapsedAt(LastApplicableTime) \in Nat /\ ElapsedAt(lastUpdate) \in Nat
    BY <2>1, <2>2 DEF ElapsedAt
  <2>5. A \in Nat /\ B \in Nat
    BY <2>2, <2>4, NaturalProduct, ZenonT(60)
  <2> HIDE DEF A, B
  <2>6. /\ Precision * (paid + EarnedRewards) = Precision * paid + Precision * EarnedRewards
        /\ Precision * paid \in Int /\ Precision * EarnedRewards \in Int
        /\ Precision * A \in Int /\ Precision * B \in Int
    BY <2>1, <2>2, <2>5, Products, SMTT(60)
  <2>7. Precision * (paid + EarnedRewards) <= Precision * B
    BY <2>1, <2>2, <2>6
  <2>8. paid + EarnedRewards <= B
    BY <2>1, <2>2, <2>5, <2>7, Cancel, SMTT(60)
  <2> QED
    BY <2>3, <2>8 DEF B
<1> QED
  BY <1>1, StakingInvariant, PTL
=============================================================================
