------------------------------ MODULE DataProofs ------------------------------
(***************************************************************************)
(* Proofs about the parts that keep the user's data, inside Parts.         *)
(*   CycleWatch: the plan's pointer stands behind exactly the steps that   *)
(* have ended, for every schedule and at every time.                       *)
(*   Calibration: what is saved undoes what the channels are off by, for   *)
(* every prime, number of samples and defect.                              *)
(*   LogTransfer: what leaves the Pi was copied whole, and a stop closes   *)
(* the session it began with, for every number of files, rows, sessions    *)
(* and stoppers, with copies that fail half-way and stops that run side by *)
(* side.                                                                   *)
(*   At the end, the types of all parts (PartsTypes): beyond bounds, that  *)
(* rows waiting for the writer are numbered as they were accepted, and     *)
(* that readings, means and corrections stay numbers of the field.         *)
(* Sums over a schedule and over samples need induction over numbers: it   *)
(* is proved for sets (Inductive, in FleetProofs), from the                *)
(* well-foundedness of the strict subset ordering.                         *)
(***************************************************************************)
EXTENDS PartsProofs, Integers

-----------------------------------------------------------------------------
(* Arithmetic.                                                              *)

(* A larger factor makes a larger product.                                 *)
LEMMA LargerFactor ==
  ASSUME NEW a \in Nat, NEW b \in Nat, NEW k \in Nat, a < b
  PROVE  a * k + k <= b * k /\ a * k \in Nat /\ b * k \in Nat
  OBVIOUS

(* Quotient and remainder.                                                  *)
LEMMA DivMod ==
  ASSUME NEW t \in Int, NEW d \in Nat \ {0}
  PROVE  t % d \in 0..d - 1 /\ t \div d \in Int /\ t = d * (t \div d) + (t % d)
  OBVIOUS

(* The same for natural numbers.                                            *)
LEMMA Divided ==
  ASSUME NEW t \in Nat, NEW d \in Nat \ {0}
  PROVE  /\ t \div d \in Nat /\ t % d \in Nat /\ t % d < d
         /\ (t \div d) * d \in Nat /\ t = (t \div d) * d + (t % d)
  <1>1. PICK q \in Int, r \in 0..d - 1 : q = t \div d /\ r = t % d /\ t = d * q + r
    BY DivMod
  <1>2. q >= 0
    <2> SUFFICES ASSUME q <= -1 PROVE FALSE
      OBVIOUS
    <2>1. d * q <= -d
      OBVIOUS
    <2> QED
      BY <1>1, <2>1
  <1>3. PICK p \in Nat : p = q * d /\ p = d * q
    BY <1>2
  <1>4. t = p + r
    BY <1>1, <1>3
  <1>5. (t \div d) * d = p
    BY <1>1, <1>3
  <1> QED
    BY <1>1, <1>2, <1>3, <1>4, <1>5

(* Quotient and remainder are unique.                                      *)
LEMMA DividedOnce ==
  ASSUME NEW d \in Nat \ {0}, NEW c \in Nat, NEW r \in Nat, r < d
  PROVE  (c * d + r) \div d = c /\ (c * d + r) % d = r
  <1> DEFINE t == c * d + r
             q == t \div d
             s == t % d
  <1>1. t \in Nat
    OBVIOUS
  <1>2. q \in Nat /\ s \in Nat /\ s < d /\ t = q * d + s
    BY <1>1, Divided
  <1> HIDE DEF q, s
  <1>3. ~(q < c)
    <2> SUFFICES ASSUME q < c PROVE FALSE
      OBVIOUS
    <2>1. q * d + d <= c * d /\ q * d \in Nat /\ c * d \in Nat
      BY <1>2, LargerFactor
    <2> QED
      BY <1>2, <2>1
  <1>4. ~(c < q)
    <2> SUFFICES ASSUME c < q PROVE FALSE
      OBVIOUS
    <2>1. c * d + d <= q * d /\ q * d \in Nat /\ c * d \in Nat
      BY <1>2, LargerFactor
    <2> QED
      BY <1>2, <2>1
  <1>5. q = c
    BY <1>2, <1>3, <1>4
  <1>6. s = r
    BY <1>2, <1>5
  <1> QED
    BY <1>5, <1>6 DEF q, s

(* Quotient and remainder of a number that is given by them.                *)
LEMMA DividedAs ==
  ASSUME NEW d \in Nat \ {0}, NEW c \in Nat, NEW r \in Nat, r < d, NEW t, t = c * d + r
  PROVE  t \div d = c /\ t % d = r
  BY DividedOnce

(* Quotient and remainder of a multiple.                                    *)
LEMMA DividedWhole ==
  ASSUME NEW d \in Nat \ {0}, NEW c \in Nat, NEW t, t = c * d
  PROVE  t \div d = c /\ t % d = 0
  <1> DEFINE P == {z \in Nat : z = 0}
  <1>1. \A z \in P : z < d /\ t = c * d + z
    OBVIOUS
  <1>2. 0 \in P /\ P \subseteq Nat /\ \A z \in P : z = 0
    OBVIOUS
  <1> HIDE DEF P
  <1>3. \A z \in P : t \div d = c /\ t % d = z
    BY <1>1, <1>2, DividedAs
  <1> QED
    BY <1>2, <1>3

(* A function that rises at every step rises.                              *)
LEMMA Rising ==
  ASSUME NEW n \in Nat, NEW f \in [0..n -> Nat], \A i \in 1..n : f[i - 1] < f[i]
  PROVE  \A i, j \in 0..n : i < j => f[i] < f[j]
  <1> DEFINE P == {k \in Nat : \A i, j \in 0..n : j = i + k + 1 => f[i] < f[j]}
  <1>1. 0 \in P
    <2> SUFFICES ASSUME NEW i \in 0..n, NEW j \in 0..n, j = i + 0 + 1 PROVE f[i] < f[j]
      OBVIOUS
    <2>1. j \in 1..n /\ j - 1 = i
      OBVIOUS
    <2> QED
      BY <2>1
  <1>2. ASSUME NEW k \in Nat, k \in P PROVE k + 1 \in P
    <2>1. ASSUME NEW i \in 0..n, NEW j \in 0..n, j = i + (k + 1) + 1 PROVE f[i] < f[j]
      <3>1. j \in 1..n /\ j - 1 \in 0..n /\ j - 1 = i + k + 1
        BY <2>1
      <3>2. f[i] < f[j - 1] /\ f[j - 1] < f[j]
        BY <1>2, <3>1
      <3> QED
        BY <3>1, <3>2
    <2> QED
      BY <2>1
  <1>3. Nat \subseteq P
    BY <1>1, <1>2, Inductive
  <1> QED
    <2> SUFFICES ASSUME NEW i \in 0..n, NEW j \in 0..n, i < j PROVE f[i] < f[j]
      OBVIOUS
    <2>1. (j - i) - 1 \in Nat /\ j = i + ((j - i) - 1) + 1
      OBVIOUS
    <2>2. (j - i) - 1 \in P
      BY <1>3, <2>1
    <2> QED
      BY <2>1, <2>2

-----------------------------------------------------------------------------
(* Sums.                                                                   *)
IsSum(f, d, n) ==
  /\ f \in [0..n -> Nat] /\ f[0] = 0
  /\ \A i \in 1..n : f[i] = f[i - 1] + d[i]

(* Every function on 1..n has a sum.                                        *)
LEMMA SumExists ==
  ASSUME NEW n \in Nat, NEW d \in [1..n -> Nat]
  PROVE  \E f : IsSum(f, d, n)
  <1> DEFINE P == {k \in Nat : k <= n => \E f : IsSum(f, d, k)}
  <1>1. 0 \in P
    <2>1. IsSum([i \in 0..0 |-> 0], d, 0)
      BY DEF IsSum
    <2> QED
      BY <2>1
  <1>2. \A k \in Nat : k \in P => k + 1 \in P
    <2> SUFFICES ASSUME NEW k \in Nat, k \in P, k + 1 <= n
                 PROVE  \E f : IsSum(f, d, k + 1)
      OBVIOUS
    <2>1. PICK f : IsSum(f, d, k)
      OBVIOUS
    <2> DEFINE g == [i \in 0..k + 1 |-> IF i = k + 1 THEN f[k] + d[k + 1] ELSE f[i]]
    <2>2. k \in 0..k /\ f[k] \in Nat /\ d[k + 1] \in Nat /\ \A i \in 0..k : f[i] \in Nat
      BY <2>1 DEF IsSum
    <2>3. g \in [0..k + 1 -> Nat] /\ g[0] = 0
      BY <2>1, <2>2 DEF IsSum
    <2>4. ASSUME NEW i \in 1..k + 1 PROVE g[i] = g[i - 1] + d[i]
      <3>1. CASE i = k + 1
        BY <3>1
      <3>2. CASE i # k + 1
        <4>1. i \in 1..k /\ i - 1 \in 0..k /\ i - 1 # k + 1
          BY <3>2
        <4> QED
          BY <2>1, <4>1 DEF IsSum
      <3> QED
        BY <3>1, <3>2
    <2>5. IsSum(g, d, k + 1)
      BY <2>3, <2>4 DEF IsSum
    <2> QED
      BY <2>5
  <1>3. Nat \subseteq P
    BY <1>1, <1>2, Inductive
  <1>4. n \in P /\ n <= n
    BY <1>3
  <1> QED
    BY <1>4

(* A function that is defined by the recursion is the sum.                 *)
LEMMA RecursionIsSum ==
  ASSUME NEW n \in Nat, NEW d \in [1..n -> Nat], NEW f,
         f = [i \in 0..n |-> IF i = 0 THEN 0 ELSE f[i - 1] + d[i]]
  PROVE  IsSum(f, d, n)
  <1>1. f[0] = 0 /\ \A i \in 1..n : f[i] = f[i - 1] + d[i]
    <2>1. 0 \in 0..n /\ \A i \in 1..n : i \in 0..n /\ i # 0
      OBVIOUS
    <2> QED
      BY <2>1
  <1> DEFINE P == {k \in Nat : k <= n => f[k] \in Nat}
  <1>2. 0 \in P
    BY <1>1
  <1>3. \A k \in Nat : k \in P => k + 1 \in P
    <2> SUFFICES ASSUME NEW k \in Nat, k \in P, k + 1 <= n PROVE f[k + 1] \in Nat
      OBVIOUS
    <2>1. k + 1 \in 1..n /\ (k + 1) - 1 = k /\ f[k] \in Nat
      OBVIOUS
    <2>2. f[k + 1] = f[k] + d[k + 1] /\ d[k + 1] \in Nat
      BY <1>1, <2>1
    <2> QED
      BY <2>1, <2>2
  <1>4. Nat \subseteq P
    BY <1>2, <1>3, Inductive
  <1>5. ASSUME NEW i \in 0..n PROVE f[i] \in Nat
    <2>1. i \in Nat /\ i <= n
      OBVIOUS
    <2>2. i \in P
      BY <1>4, <2>1
    <2> QED
      BY <2>1, <2>2
  <1>6. f \in [0..n -> Nat]
    <2>1. DOMAIN f = 0..n
      OBVIOUS
    <2>2. f = [i \in 0..n |-> f[i]]
      BY <2>1
    <2> QED
      BY <1>5, <2>2
  <1> QED
    BY <1>1, <1>6 DEF IsSum

(* The operator of the module is the sum.                                   *)
LEMMA SumOf ==
  ASSUME NEW n \in Nat, NEW d \in [1..n -> Nat]
  PROVE  IsSum(Watch!Sums(d, n), d, n)
  <1>1. PICK g : IsSum(g, d, n)
    BY SumExists
  <1>2. g = [i \in 0..n |-> IF i = 0 THEN 0 ELSE g[i - 1] + d[i]]
    <2>1. \A i \in 0..n : g[i] = IF i = 0 THEN 0 ELSE g[i - 1] + d[i]
      BY <1>1 DEF IsSum
    <2>2. g = [i \in 0..n |-> g[i]]
      BY <1>1 DEF IsSum
    <2> QED
      BY <2>1, <2>2
  <1> DEFINE f == Watch!Sums(d, n)
  <1>3. f = CHOOSE s : s = [i \in 0..n |-> IF i = 0 THEN 0 ELSE s[i - 1] + d[i]]
    BY DEF Watch!Sums
  <1>4. f = [i \in 0..n |-> IF i = 0 THEN 0 ELSE f[i - 1] + d[i]]
    BY <1>2, <1>3
  <1> HIDE DEF f
  <1>5. IsSum(f, d, n)
    BY <1>4, RecursionIsSum
  <1> QED
    BY <1>5 DEF f

-----------------------------------------------------------------------------
(* The schedule written out: d are the steps of a cycle, e when they end,   *)
(* g when the steps of "rounds" cycles end.                                 *)
WrittenOut(len, rounds, d, e, g) ==
  /\ len \in Nat \ {0} /\ rounds \in Nat /\ rounds * len \in Nat
  /\ d \in [1..len -> Nat \ {0}] /\ IsSum(e, d, len)
  /\ IsSum(g, [n \in 1..rounds * len |-> d[1 + ((n - 1) % len)]], rounds * len)

(* From one step of the written-out schedule to the next.                  *)
LEMMA NextEnds ==
  ASSUME NEW len, NEW rounds, NEW d, NEW e, NEW g, WrittenOut(len, rounds, d, e, g),
         NEW c \in Nat, NEW r \in Nat, r < len, NEW k \in Nat, k = c * len + r,
         k + 1 <= rounds * len
  PROVE  g[k + 1] = g[k] + d[r + 1]
  <1> DEFINE all == rounds * len
             x == [n \in 1..all |-> d[1 + ((n - 1) % len)]]
  <1>1. k % len = r
    BY DividedOnce DEF WrittenOut
  <1>2. k + 1 \in 1..all /\ (k + 1) - 1 = k
    BY DEF WrittenOut
  <1>3. x[k + 1] = d[1 + (k % len)]
    BY <1>2
  <1>4. g[k + 1] = g[(k + 1) - 1] + x[k + 1]
    BY <1>2 DEF WrittenOut, IsSum
  <1> HIDE DEF x
  <1>5. 1 + r = r + 1
    OBVIOUS
  <1> QED
    BY <1>1, <1>2, <1>3, <1>4, <1>5

(* A step of the written-out schedule ends so many whole cycles and a step *)
(* of a cycle after the beginning.                                         *)
LEMMA EndsInCycle ==
  ASSUME NEW len, NEW rounds, NEW d, NEW e, NEW g, WrittenOut(len, rounds, d, e, g),
         NEW D \in Nat, e[len] = D,
         NEW c \in Nat, NEW r \in Nat, r < len, NEW k \in Nat, k = c * len + r,
         k <= rounds * len
  PROVE  g[k] = c * D + e[r]
  <1> DEFINE all == rounds * len
             P == {n \in Nat : n <= all => g[n] = (n \div len) * D + e[n % len]}
  <1>1. /\ len \in Nat \ {0} /\ all \in Nat /\ e \in [0..len -> Nat] /\ g \in [0..all -> Nat]
        /\ e[0] = 0 /\ g[0] = 0 /\ \A i \in 1..len : e[i] = e[i - 1] + d[i]
        /\ \A i \in 1..len : d[i] \in Nat
    BY DEF WrittenOut, IsSum
  <1>2. 0 \in P
    <2>1. 0 * len + 0 = 0 /\ 0 < len /\ 0 * D = 0
      BY <1>1
    <2>2. 0 \div len = 0 /\ 0 % len = 0
      BY <1>1, <2>1, DividedOnce
    <2> QED
      BY <1>1, <2>1, <2>2
  <1>3. ASSUME NEW n \in Nat, n \in P PROVE n + 1 \in P
    <2> SUFFICES ASSUME n + 1 <= all
                 PROVE  g[n + 1] = ((n + 1) \div len) * D + e[(n + 1) % len]
      OBVIOUS
    <2>0. /\ n \div len \in Nat /\ n % len \in Nat /\ n % len < len
          /\ n = (n \div len) * len + (n % len)
      BY <1>1, Divided
    <2>1. PICK q \in Nat, i \in Nat : q = n \div len /\ i = n % len /\ i < len /\ n = q * len + i
      BY <2>0
    <2>2. g[n] = q * D + e[i]
      BY <1>1, <1>3, <2>1
    <2>3. g[n + 1] = g[n] + d[i + 1]
      BY <2>1, NextEnds
    <2>4. e[i + 1] = e[i] + d[i + 1] /\ e[i] \in Nat /\ d[i + 1] \in Nat
      <3>1. i + 1 \in 1..len /\ (i + 1) - 1 = i /\ i \in 0..len
        BY <1>1, <2>1
      <3> QED
        BY <1>1, <3>1
    <2>5. PICK u \in Nat : u = q * D /\ (q + 1) * D = u + D
      OBVIOUS
    <2>6. PICK p \in Nat : p = q * len /\ (q + 1) * len = p + len
      BY <1>1
    <2>7. g[n + 1] = u + e[i + 1]
      BY <2>2, <2>3, <2>4, <2>5
    <2>8. CASE i + 1 < len
      <3>1. n + 1 = q * len + (i + 1)
        BY <2>1, <2>6
      <3>2. PICK m \in Nat, j \in Nat : m = n + 1 /\ j = i + 1
        OBVIOUS
      <3>4. j < len /\ m = q * len + j
        BY <2>8, <3>1, <3>2
      <3>5. m \div len = q /\ m % len = j
        BY <1>1, <3>4, DividedAs
      <3>3. (n + 1) \div len = q /\ (n + 1) % len = i + 1
        BY <3>2, <3>5
      <3> QED
        BY <2>5, <2>7, <3>3
    <2>9. CASE i + 1 = len
      <3>5. PICK m \in Nat, c1 \in Nat : m = n + 1 /\ c1 = q + 1
        OBVIOUS
      <3>6. m = c1 * len
        BY <1>1, <2>1, <2>6, <2>9, <3>5
      <3>7. m \div len = c1 /\ m % len = 0
        BY <1>1, <3>6, DividedWhole
      <3>2. (n + 1) \div len = q + 1 /\ (n + 1) % len = 0
        BY <3>5, <3>7
      <3>3. g[n + 1] = u + D
        BY <2>7, <2>9
      <3>4. ((n + 1) \div len) * D = u + D
        BY <2>5, <3>2
      <3> QED
        BY <1>1, <3>2, <3>3, <3>4
    <2>10. i + 1 < len \/ i + 1 = len
      BY <1>1, <2>1
    <2> QED
      BY <2>8, <2>9, <2>10
  <1>4. Nat \subseteq P
    BY <1>2, <1>3, Inductive
  <1>5. g[k] = (k \div len) * D + e[k % len]
    BY <1>4
  <1>6. k \div len = c /\ k % len = r
    BY <1>1, DividedOnce
  <1> QED
    BY <1>5, <1>6

(* The steps that have ended are those up to the p-th, if p has and the     *)
(* next has not.                                                            *)
LEMMA EndedUpTo ==
  ASSUME NEW n \in Nat, NEW f \in [0..n -> Nat], \A i \in 1..n : f[i - 1] < f[i],
         NEW t \in Nat, NEW p \in 0..n, f[p] <= t, p < n => t < f[p + 1]
  PROVE  Cardinality({i \in 1..n : f[i] <= t}) = p
  <1>1. \A i, j \in 0..n : i < j => f[i] < f[j]
    BY Rising
  <1>2. ASSUME NEW i \in 1..n PROVE f[i] <= t <=> i <= p
    <2>1. i \in 0..n /\ f[i] \in Nat /\ f[p] \in Nat
      OBVIOUS
    <2>2. i < p => f[i] < f[p]
      BY <1>1, <2>1
    <2>3. i <= p => f[i] <= t
      BY <2>1, <2>2
    <2>4. ASSUME p < i PROVE t < f[i]
      <3>1. p < n /\ p + 1 \in 0..n /\ f[p + 1] \in Nat
        BY <2>4
      <3>2. p + 1 < i => f[p + 1] < f[i]
        BY <1>1, <2>1, <3>1
      <3> QED
        BY <2>1, <2>4, <3>1, <3>2
    <2> QED
      BY <2>1, <2>3, <2>4
  <1>3. {i \in 1..n : f[i] <= t} = 1..p
    BY <1>2
  <1>4. p \in Int /\ 1 \in Int /\ p - 1 + 1 = p /\ (1 > p => p = 0)
    OBVIOUS
  <1> QED
    BY <1>3, <1>4, FS_Interval

(* The first step of a cycle that has not ended yet.                       *)
LEMMA FirstIsThere ==
  ASSUME NEW len \in Nat \ {0}, NEW f \in [0..len -> Nat], NEW at \in Nat, at < f[len]
  PROVE  \E i \in 1..len : at < f[i] /\ \A j \in 1..i - 1 : f[j] <= at
  <1> DEFINE T == {i \in 1..len : at < f[i]}
  <1>1. T \subseteq Nat /\ len \in T
    OBVIOUS
  <1>2. PICK i \in T : \A k \in T : i <= k
    BY <1>1, Least
  <1>3. ASSUME NEW j \in 1..i - 1 PROVE f[j] <= at
    <2>1. j \in 1..len /\ ~(i <= j) /\ f[j] \in Nat
      BY <1>2
    <2>2. j \notin T
      BY <1>2, <2>1
    <2> QED
      BY <2>1, <2>2
  <1> QED
    BY <1>2, <1>3

(* The ends of a cycle and of the whole schedule rise.                     *)
LEMMA EndsRise ==
  ASSUME NEW len, NEW rounds, NEW d, NEW e, NEW g, WrittenOut(len, rounds, d, e, g)
  PROVE  /\ e \in [0..len -> Nat] /\ e[0] = 0 /\ g \in [0..rounds * len -> Nat]
         /\ \A i \in 1..len : e[i - 1] < e[i]
         /\ \A i \in 1..rounds * len : g[i - 1] < g[i]
         /\ e[len] \in Nat \ {0}
  <1> DEFINE all == rounds * len
             x == [n \in 1..all |-> d[1 + ((n - 1) % len)]]
  <1>1. e \in [0..len -> Nat] /\ e[0] = 0 /\ g \in [0..all -> Nat]
    BY DEF WrittenOut, IsSum
  <1>2. ASSUME NEW i \in 1..len PROVE e[i - 1] < e[i]
    <2>1. i - 1 \in 0..len /\ len \in Nat
      BY DEF WrittenOut
    <2>2. e[i] = e[i - 1] + d[i] /\ d[i] \in Nat \ {0} /\ e[i - 1] \in Nat
      BY <2>1, <1>1 DEF WrittenOut, IsSum
    <2> QED
      BY <2>2
  <1>3. ASSUME NEW i \in 1..all PROVE g[i - 1] < g[i]
    <2>1. i - 1 \in 0..all /\ i - 1 \in Nat /\ len \in Nat \ {0} /\ all \in Nat
      BY DEF WrittenOut
    <2>2. PICK k \in Nat : k = (i - 1) % len /\ k < len
      BY <2>1, Divided
    <2>3. 1 + k \in 1..len
      BY <2>1, <2>2
    <2>4. x[i] = d[1 + k] /\ d[1 + k] \in Nat \ {0}
      BY <2>2, <2>3 DEF WrittenOut
    <2>5. g[i] = g[i - 1] + x[i] /\ g[i - 1] \in Nat
      BY <1>1, <2>1 DEF WrittenOut, IsSum
    <2> QED
      BY <2>4, <2>5
  <1>4. e[len] \in Nat \ {0}
    <2>1. len \in 1..len /\ len \in 0..len /\ len - 1 \in 0..len
      BY DEF WrittenOut
    <2>2. e[len - 1] < e[len] /\ e[len - 1] \in Nat /\ e[len] \in Nat
      BY <1>1, <1>2, <2>1
    <2> QED
      BY <2>2
  <1> QED
    BY <1>1, <1>2, <1>3, <1>4

(* Everything has ended when the clock has passed the rounds.              *)
LEMMA AllEnded ==
  ASSUME NEW len, NEW rounds, NEW d, NEW e, NEW g, WrittenOut(len, rounds, d, e, g),
         NEW D \in Nat, e[len] = D, NEW t \in Nat, D * rounds <= t
  PROVE  Cardinality({n \in 1..rounds * len : g[n] <= t}) = rounds * len
  <1> DEFINE all == rounds * len
  <1>1. all \in Nat /\ 0 \in Nat /\ 0 < len /\ all = rounds * len + 0 /\ all <= all /\ rounds \in Nat
    BY DEF WrittenOut
  <1>2. g[all] = rounds * D + e[0]
    <2>1. PICK k \in Nat, z \in Nat : k = all /\ z = 0
      BY <1>1
    <2>2. k = rounds * len + z /\ z < len /\ k <= rounds * len
      BY <1>1, <2>1
    <2>3. g[k] = rounds * D + e[z]
      BY <1>1, <2>2, EndsInCycle
    <2> QED
      BY <2>1, <2>3
  <1>3. g[all] <= t
    <2>1. rounds * D = D * rounds /\ D * rounds \in Nat
      BY <1>1
    <2> QED
      BY <1>2, <2>1, EndsRise
  <1>4. all \in 0..all /\ ~(all < all)
    BY <1>1
  <1>5. g \in [0..all -> Nat] /\ \A i \in 1..all : g[i - 1] < g[i]
    BY EndsRise
  <1> HIDE DEF all
  <1>6. Cardinality({n \in 1..all : g[n] <= t}) = all
    BY <1>1, <1>3, <1>4, <1>5, EndedUpTo
  <1> QED
    BY <1>6 DEF all

(* Before that the pointer tells how many have ended.                      *)
LEMMA SomeEnded ==
  ASSUME NEW len, NEW rounds, NEW d, NEW e, NEW g, WrittenOut(len, rounds, d, e, g),
         NEW D \in Nat, e[len] = D, NEW t \in Nat, t < D * rounds,
         NEW s \in 1..len, t % D < e[s], \A j \in 1..s - 1 : e[j] <= t % D
  PROVE  LET ended == Cardinality({n \in 1..rounds * len : g[n] <= t})
         IN  ended < rounds * len /\ (t \div D) * len + s = ended + 1
  <1> DEFINE all == rounds * len
  <1>1. D \in Nat \ {0} /\ len \in Nat \ {0} /\ rounds \in Nat /\ all \in Nat
    BY EndsRise DEF WrittenOut
  <1>2. PICK c \in Nat, r \in Nat : c = t \div D /\ r = t % D /\ r < D /\ c * D \in Nat /\ t = c * D + r
    BY <1>1, Divided, SMTT(60)
  <1>3. c < rounds
    <2> SUFFICES ASSUME rounds <= c PROVE FALSE
      BY <1>1
    <2>1. rounds * D <= c * D
      BY <1>1, LargerFactor
    <2>2. rounds * D = D * rounds /\ rounds * D \in Nat
      BY <1>1
    <2> QED
      BY <1>2, <2>1, <2>2
  <1>4. PICK q \in Nat : q = c * len /\ q + len <= all
    BY <1>1, <1>3, LargerFactor
  <1>5. PICK i \in Nat, p \in Nat : i = s - 1 /\ p = q + i /\ i < len /\ i + 1 = s
    BY <1>1, <1>4
  <1>6. p < all /\ p \in 0..all /\ p = c * len + i /\ p <= rounds * len /\ p + 1 <= rounds * len
    BY <1>1, <1>4, <1>5
  <1>7. g[p] = c * D + e[i] /\ g[p + 1] = g[p] + d[i + 1]
    <2>1. g[p] = c * D + e[i]
      BY <1>5, <1>6, EndsInCycle
    <2>2. g[p + 1] = g[p] + d[i + 1]
      BY <1>5, <1>6, NextEnds
    <2> QED
      BY <2>1, <2>2
  <1>8. e[i] <= r
    <2>1. CASE i = 0
      BY <1>2, <2>1, EndsRise
    <2>2. CASE i # 0
      <3>1. i \in 1..s - 1
        BY <1>5, <2>2
      <3> QED
        BY <1>2, <3>1
    <2> QED
      BY <2>1, <2>2
  <1>9. e[i + 1] = e[i] + d[i + 1] /\ e[i + 1] > r /\ e[i] \in Nat /\ e[i + 1] \in Nat /\ d[i + 1] \in Nat
    <2>1. i + 1 \in 1..len /\ i + 1 = s /\ (i + 1) - 1 = i /\ i \in 0..len /\ i + 1 \in 0..len
      BY <1>1, <1>5
    <2>2. e[s] = e[i] + d[s] /\ d[s] \in Nat
      BY <2>1 DEF WrittenOut, IsSum
    <2>3. e \in [0..len -> Nat]
      BY EndsRise
    <2>4. e[i] \in Nat /\ e[i + 1] \in Nat
      BY <2>1, <2>3
    <2>5. r < e[s] /\ e[i + 1] = e[s] /\ d[i + 1] = d[s]
      BY <1>2, <2>1
    <2> QED
      BY <2>2, <2>4, <2>5
  <1>10. g[p] <= t /\ t < g[p + 1]
    BY <1>2, <1>7, <1>8, <1>9
  <1>11. Cardinality({n \in 1..all : g[n] <= t}) = p
    BY <1>1, <1>6, <1>10, EndsRise, EndedUpTo
  <1> HIDE DEF all
  <1>12. (t \div D) * len + s = p + 1
    BY <1>2, <1>4, <1>5
  <1> QED
    BY <1>6, <1>11, <1>12 DEF all

-----------------------------------------------------------------------------
(* The schedule that is followed, and the clock.                           *)
PlanInv ==
  /\ wElapsed \in Nat
  /\ wSchedule # None => wSchedule \in wFiles /\ Watch!Valid(wSchedule)

(* Only a valid schedule is ever followed.                                  *)
LEMMA PlanKept ==
  ASSUME PlanInv, [Watch!Next]_Watch!vars
  PROVE  PlanInv'
  <1>1. ASSUME NEW f \in wFiles, Watch!Load(f) PROVE PlanInv'
    BY <1>1 DEF PlanInv, Watch!Load
  <1>2. CASE Watch!Restart
    BY <1>2 DEF PlanInv, Watch!Restart
  <1>3. CASE Watch!Stop
    BY <1>3 DEF PlanInv, Watch!Stop
  <1>4. CASE Watch!Clock
    BY <1>4 DEF PlanInv, Watch!Clock
  <1>5. CASE Watch!Publish
    BY <1>5 DEF PlanInv, Watch!Publish
  <1>6. ASSUME NEW s \in wSamples, Watch!Feed(s) PROVE PlanInv'
    BY <1>6 DEF PlanInv, Watch!Feed
  <1>7. CASE UNCHANGED Watch!vars
    BY <1>7 DEF PlanInv, Watch!vars
  <1> QED
    BY <1>1, <1>2, <1>3, <1>4, <1>5, <1>6, <1>7 DEF Watch!Next

(* The monitor's module counts with the same definition.                   *)
LEMMA WatchCounts ==
  ASSUME NEW S
  PROVE  Watch!Cardinality(S) = Cardinality(S)
  BY DEF Watch!Cardinality, Cardinality

(* The plan of a schedule that is followed is right at every time.         *)
LEMMA PlanTrue ==
  ASSUME PlanInv, wSchedule # None, wRunning
  PROVE  Watch!PlanIsOnTime
  <1> DEFINE len == Len(wSchedule.steps)
             rounds == wSchedule.repeat
             all == rounds * len
             d == [i \in 1..len |-> wSchedule.steps[i].lasts]
             x == [n \in 1..all |-> wSchedule.steps[1 + ((n - 1) % len)].lasts]
             e == Watch!Sums(d, len)
             g == Watch!Sums(x, all)
             D == e[len]
             ended == Cardinality({n \in 1..all : g[n] <= wElapsed})
             counted == Watch!Cardinality({n \in 1..all : g[n] <= wElapsed})
             t == wElapsed
  <1>1. /\ len \in Nat \ {0} /\ rounds \in Nat \ {0} /\ t \in Nat
        /\ \A i \in 1..len : wSchedule.steps[i].lasts \in Nat \ {0}
    <2>1. wSchedule \in wFiles /\ Watch!Valid(wSchedule) /\ t \in Nat
      BY DEF PlanInv
    <2>2. wSchedule.repeat \in Nat /\ wSchedule.steps \in Seq([expect : STRING, lasts : Nat])
      BY <2>1, PartsAssumption DEF PartsAssumption, Watch!CycleWatchAssumption
    <2>3. wSchedule.steps # <<>> /\ rounds >= 1 /\ \A i \in DOMAIN wSchedule.steps : wSchedule.steps[i].lasts > 0
      BY <2>1 DEF Watch!Valid
    <2>4. len \in Nat /\ DOMAIN wSchedule.steps = 1..len /\ len # 0
      BY <2>2, <2>3
    <2>5. ASSUME NEW i \in 1..len PROVE wSchedule.steps[i].lasts \in Nat \ {0}
      <3>1. wSchedule.steps[i] \in [expect : STRING, lasts : Nat]
        BY <2>2, <2>4, ElementOfSeq
      <3> QED
        BY <2>3, <2>4, <3>1
    <2> QED
      BY <2>1, <2>2, <2>3, <2>4, <2>5
  <1>14. Watch!PlanIsOnTime <=>
          (wSchedule # None /\ wRunning =>
             IF counted = all THEN Watch!Plan.complete /\ Watch!Plan.step = len
             ELSE ~Watch!Plan.complete /\ Watch!Plan.cycle * len + Watch!Plan.step = counted + 1)
    BY Zenon DEF Watch!PlanIsOnTime, Watch!Length
  <1>0. Watch!PlanIsOnTime <=>
          (wSchedule # None /\ wRunning =>
             IF ended = all THEN Watch!Plan.complete /\ Watch!Plan.step = len
             ELSE ~Watch!Plan.complete /\ Watch!Plan.cycle * len + Watch!Plan.step = ended + 1)
    <2>1. counted = ended
      BY WatchCounts
    <2> HIDE DEF counted, ended
    <2> QED
      BY <1>14, <2>1
  <1>8. Watch!Length = len /\ Watch!EndOf = e /\ Watch!Duration = D
    BY Zenon DEF Watch!Length, Watch!EndOf, Watch!Duration
  <1>11. Watch!Plan = IF ~wRunning THEN [cycle |-> 0, step |-> 1, complete |-> FALSE]
                      ELSE IF t >= D * rounds
                             THEN [cycle |-> rounds - 1, step |-> len, complete |-> TRUE]
                      ELSE [cycle |-> t \div D, step |-> Watch!FirstUnfinished(t % D), complete |-> FALSE]
    BY <1>8 DEF Watch!Plan
  <1> HIDE DEF len, rounds
  <1>2. all \in Nat
    BY <1>1
  <1>3. d \in [1..len -> Nat \ {0}] /\ d \in [1..len -> Nat]
    BY <1>1
  <1>4. x \in [1..all -> Nat] /\ x = [n \in 1..all |-> d[1 + ((n - 1) % len)]]
    <2>1. ASSUME NEW n \in 1..all PROVE 1 + ((n - 1) % len) \in 1..len
      <3>1. n - 1 \in Nat
        BY <1>2
      <3>2. PICK k \in Nat : k = (n - 1) % len /\ k < len
        BY <1>1, <3>1, Divided
      <3> QED
        BY <1>1, <3>2
    <2> QED
      BY <1>1, <2>1
  <1> HIDE DEF d, x
  <1>5. IsSum(e, d, len) /\ IsSum(g, x, all)
    BY <1>1, <1>2, <1>3, <1>4, SumOf
  <1>6. WrittenOut(len, rounds, d, e, g)
    BY <1>1, <1>2, <1>3, <1>4, <1>5 DEF WrittenOut
  <1>7. D \in Nat \ {0} /\ e \in [0..len -> Nat] /\ e[0] = 0
    BY <1>6, EndsRise
  <1> HIDE DEF e, g
  <1>12. e[len] = D
    OBVIOUS
  <1> HIDE DEF D
  <1>13. D \in Nat /\ t \in Nat
    BY <1>1, <1>7
  <1>9. CASE D * rounds <= t
    <2>1. ended = all
      BY <1>6, <1>12, <1>13, <1>9, AllEnded
    <2>2. ~(t < D * rounds) /\ t >= D * rounds
      BY <1>1, <1>7, <1>9
    <2>3. Watch!Plan.complete /\ Watch!Plan.step = len
      BY <1>11, <2>2
    <2> QED
      BY <1>0, <2>1, <2>3
  <1>10. CASE t < D * rounds
    <2> DEFINE s == Watch!FirstUnfinished(t % D)
    <2>1. PICK r \in Nat : r = t % D /\ r < D
      BY <1>1, <1>7, Divided
    <2>2. \E i \in 1..len : r < e[i] /\ \A j \in 1..i - 1 : e[j] <= r
      BY <1>1, <1>7, <1>12, <2>1, FirstIsThere
    <2>3. s = CHOOSE k \in 1..len : r < e[k] /\ \A j \in 1..k - 1 : e[j] <= r
      BY <1>8, <2>1, Zenon DEF Watch!FirstUnfinished
    <2> HIDE DEF s
    <2>4. s \in 1..len /\ r < e[s] /\ \A j \in 1..s - 1 : e[j] <= r
      BY <2>2, <2>3, Zenon
    <2>5. t % D < e[s] /\ \A j \in 1..s - 1 : e[j] <= t % D
      BY <2>1, <2>4
    <2>6. ended < all /\ (t \div D) * len + s = ended + 1
      BY <1>6, <1>10, <1>12, <1>13, <2>4, <2>5, SomeEnded
    <2>7. ~(t >= D * rounds)
      BY <1>1, <1>7, <1>10
    <2>8. ~Watch!Plan.complete /\ Watch!Plan.cycle = t \div D /\ Watch!Plan.step = s
      BY <1>11, <2>7 DEF s
    <2> HIDE DEF ended
    <2>9. ended # all
      BY <1>2, <2>6 DEF ended
    <2>10. Watch!Plan.cycle * len + Watch!Plan.step = ended + 1
      BY <2>6, <2>8
    <2> QED
      BY <1>0, <2>8, <2>9, <2>10
  <1> QED
    BY <1>1, <1>7, <1>9, <1>10

(* For every schedule, however long, and however often it is loaded,       *)
(* stopped and restarted: the plan's pointer stands behind exactly the     *)
(* steps that have ended, counted over all cycles.                         *)
THEOREM PlanOnTime == PartsSpec => []PlanIsOnTime
  <1>1. Watch!Init => PlanInv
    BY DEF Watch!Init, PlanInv
  <1>2. PlanInv /\ [Watch!Next]_Watch!vars => PlanInv'
    BY PlanKept
  <1>3. PlanInv => PlanIsOnTime
    <2>1. CASE ~(wSchedule # None /\ wRunning)
      BY <2>1 DEF PlanIsOnTime, Watch!PlanIsOnTime
    <2>2. CASE wSchedule # None /\ wRunning
      BY <2>2, PlanTrue DEF PlanIsOnTime
    <2> QED
      BY <2>1, <2>2
  <1> QED
    BY <1>1, <1>2, <1>3, WatchMoves, PTL DEF Watch!Spec

-----------------------------------------------------------------------------
(* Sums and products of remainders.                                        *)
LEMMA RemainderOf ==
  ASSUME NEW d \in Nat \ {0}, NEW a \in Nat
  PROVE  a % d \in Nat /\ a % d \in 0..d - 1 /\ (a < d => a % d = a)
  <1>1. a % d \in Nat /\ a % d < d
    BY Divided
  <1>2. PICK c \in Nat : c = 0 /\ a = c * d + a
    OBVIOUS
  <1>3. a < d => a % d = a
    BY <1>2, DividedAs
  <1> QED
    BY <1>1, <1>3

(* A summand may be replaced by its remainder.                              *)
LEMMA RemainderOfSum ==
  ASSUME NEW d \in Nat \ {0}, NEW a \in Nat, NEW b \in Nat
  PROVE  ((a % d) + b) % d = (a + b) % d
  <1>1. PICK q \in Nat, r \in Nat, p \in Nat : q = a \div d /\ r = a % d /\ p = q * d /\ a = p + r
    BY Divided
  <1>2. PICK t \in Nat : t = r + b
    OBVIOUS
  <1>3. PICK v \in Nat, w \in Nat, o \in Nat :
          v = t \div d /\ w = t % d /\ w < d /\ o = v * d /\ t = o + w
    BY Divided
  <1>4. PICK s \in Nat, x \in Nat : s = q + v /\ x = a + b
    OBVIOUS
  <1>5. s * d = p + o
    BY <1>1, <1>3, <1>4
  <1>6. x = s * d + w
    BY <1>1, <1>2, <1>3, <1>4, <1>5
  <1>7. x % d = w
    <2>1. w < d
      BY <1>3
    <2> QED
      BY <1>6, <2>1, DividedAs
  <1> QED
    BY <1>1, <1>2, <1>3, <1>4, <1>7

(* So may a factor.                                                         *)
LEMMA RemainderOfProduct ==
  ASSUME NEW d \in Nat \ {0}, NEW a \in Nat, NEW b \in Nat
  PROVE  ((a % d) * b) % d = (a * b) % d
  <1>1. PICK q \in Nat, r \in Nat : q = a \div d /\ r = a % d /\ a = q * d + r
    BY Divided
  <1>2. PICK t \in Nat : t = r * b
    OBVIOUS
  <1>3. PICK v \in Nat, w \in Nat : v = t \div d /\ w = t % d /\ w < d /\ t = v * d + w
    BY Divided
  <1>4. PICK s \in Nat, x \in Nat : s = q * b + v /\ x = a * b
    OBVIOUS
  <1>5. x = q * d * b + r * b
    BY <1>1, <1>4
  <1>6. s * d = q * b * d + v * d
    BY <1>4
  <1>7. q * b * d = q * d * b
    OBVIOUS
  <1>8. x = s * d + w
    BY <1>2, <1>3, <1>5, <1>6, <1>7
  <1>9. x % d = w
    <2>1. w < d
      BY <1>3
    <2> QED
      BY <1>8, <2>1, DividedAs
  <1> QED
    BY <1>1, <1>2, <1>3, <1>4, <1>9

-----------------------------------------------------------------------------
(* The numbers of the calibration.                                         *)
F == Cal!Field

(* What the assumption says of the modulus.                                 *)
LEMMA PrimeIs ==
  /\ cPrime \in Nat \ {0, 1} /\ F = 0..cPrime - 1 /\ F \subseteq Nat
  /\ 0 \in F /\ 1 \in F /\ \A x \in F : x % cPrime = x /\ x < cPrime
  /\ \A x \in F \ {0} : \E y \in F : (x * y) % cPrime = 1
  <1>1. cPrime \in Nat \ {0, 1} /\ F = 0..cPrime - 1 /\ F \subseteq Nat
    BY PartsAssumption DEF PartsAssumption, Cal!CalibrationAssumption, F, Cal!Field
  <1>2. 0 \in F /\ 1 \in F
    BY <1>1
  <1>3. \A x \in F : x % cPrime = x /\ x < cPrime
    <2> SUFFICES ASSUME NEW x \in F PROVE x % cPrime = x /\ x < cPrime
      OBVIOUS
    <2>1. x \in Nat /\ x < cPrime
      BY <1>1
    <2> QED
      BY <1>1, <2>1, RemainderOf
  <1>4. F \ {0} = 1..cPrime - 1
    BY <1>1
  <1>5. \A x \in 1..cPrime - 1 : \E y \in 1..cPrime - 1 : (x * y) % cPrime = 1
    BY PartsAssumption DEF PartsAssumption, Cal!CalibrationAssumption
  <1> QED
    BY <1>1, <1>2, <1>3, <1>4, <1>5

(* The laws of sums.                                                       *)
LEMMA Summed ==
  /\ \A x, y \in F : Cal!Plus(x, y) \in F /\ Cal!Plus(x, y) = Cal!Plus(y, x)
  /\ \A x \in F : Cal!Plus(0, x) = x /\ Cal!Plus(x, 0) = x
  /\ \A x, y, z \in F : Cal!Plus(Cal!Plus(x, y), z) = Cal!Plus(x, Cal!Plus(y, z))
  <1>1. \A x, y \in F : Cal!Plus(x, y) \in F /\ Cal!Plus(x, y) = Cal!Plus(y, x)
    <2> SUFFICES ASSUME NEW x \in F, NEW y \in F
                 PROVE  Cal!Plus(x, y) \in F /\ Cal!Plus(x, y) = Cal!Plus(y, x)
      OBVIOUS
    <2>1. PICK s \in Nat : s = x + y /\ s = y + x
      BY PrimeIs
    <2>2. s % cPrime \in F
      BY PrimeIs, RemainderOf
    <2> QED
      BY <2>1, <2>2 DEF Cal!Plus
  <1>2. \A x \in F : Cal!Plus(0, x) = x /\ Cal!Plus(x, 0) = x
    <2> SUFFICES ASSUME NEW x \in F PROVE Cal!Plus(0, x) = x /\ Cal!Plus(x, 0) = x
      OBVIOUS
    <2>1. 0 + x = x /\ x + 0 = x
      BY PrimeIs
    <2> QED
      BY <2>1, PrimeIs DEF Cal!Plus
  <1>3. ASSUME NEW x \in F, NEW y \in F, NEW z \in F
        PROVE  Cal!Plus(Cal!Plus(x, y), z) = (x + y + z) % cPrime
    <2>1. x \in Nat /\ y \in Nat /\ z \in Nat /\ cPrime \in Nat \ {0}
      BY PrimeIs
    <2>2. PICK s \in Nat : s = x + y
      BY <2>1
    <2>3. ((s % cPrime) + z) % cPrime = (s + z) % cPrime
      BY <2>1, RemainderOfSum
    <2>4. s + z = x + y + z
      BY <2>1, <2>2
    <2> QED
      BY <2>2, <2>3, <2>4 DEF Cal!Plus
  <1>4. \A x, y, z \in F : Cal!Plus(Cal!Plus(x, y), z) = Cal!Plus(x, Cal!Plus(y, z))
    <2> SUFFICES ASSUME NEW x \in F, NEW y \in F, NEW z \in F
                 PROVE  Cal!Plus(Cal!Plus(x, y), z) = Cal!Plus(x, Cal!Plus(y, z))
      OBVIOUS
    <2>1. Cal!Plus(x, Cal!Plus(y, z)) = Cal!Plus(Cal!Plus(y, z), x)
      BY <1>1
    <2>2. x + y + z = y + z + x
      BY PrimeIs
    <2>3. Cal!Plus(Cal!Plus(x, y), z) = (x + y + z) % cPrime
      BY <1>3
    <2>4. Cal!Plus(Cal!Plus(y, z), x) = (y + z + x) % cPrime
      BY <1>3
    <2> QED
      BY <2>1, <2>2, <2>3, <2>4
  <1> QED
    BY <1>1, <1>2, <1>4

(* The laws of products.                                                   *)
LEMMA Multiplied ==
  /\ \A x, y \in F : Cal!Times(x, y) \in F /\ Cal!Times(x, y) = Cal!Times(y, x)
  /\ \A x \in F : Cal!Times(1, x) = x /\ Cal!Times(0, x) = 0
  /\ \A x, y, z \in F : Cal!Times(Cal!Times(x, y), z) = Cal!Times(x, Cal!Times(y, z))
  <1>1. \A x, y \in F : Cal!Times(x, y) \in F /\ Cal!Times(x, y) = Cal!Times(y, x)
    <2> SUFFICES ASSUME NEW x \in F, NEW y \in F
                 PROVE  Cal!Times(x, y) \in F /\ Cal!Times(x, y) = Cal!Times(y, x)
      OBVIOUS
    <2>1. PICK s \in Nat : s = x * y /\ s = y * x
      BY PrimeIs
    <2>2. s % cPrime \in F
      BY PrimeIs, RemainderOf
    <2> QED
      BY <2>1, <2>2 DEF Cal!Times
  <1>2. \A x \in F : Cal!Times(1, x) = x /\ Cal!Times(0, x) = 0
    <2> SUFFICES ASSUME NEW x \in F PROVE Cal!Times(1, x) = x /\ Cal!Times(0, x) = 0
      OBVIOUS
    <2>1. 1 * x = x /\ 0 * x = 0
      BY PrimeIs
    <2> QED
      BY <2>1, PrimeIs DEF Cal!Times
  <1>3. ASSUME NEW x \in F, NEW y \in F, NEW z \in F
        PROVE  Cal!Times(Cal!Times(x, y), z) = (x * y * z) % cPrime
    <2>1. x \in Nat /\ y \in Nat /\ z \in Nat /\ cPrime \in Nat \ {0}
      BY PrimeIs
    <2>2. PICK s \in Nat : s = x * y
      BY <2>1
    <2>3. ((s % cPrime) * z) % cPrime = (s * z) % cPrime
      BY <2>1, RemainderOfProduct
    <2>4. s * z = x * y * z
      BY <2>1, <2>2
    <2> QED
      BY <2>2, <2>3, <2>4 DEF Cal!Times
  <1>4. \A x, y, z \in F : Cal!Times(Cal!Times(x, y), z) = Cal!Times(x, Cal!Times(y, z))
    <2> SUFFICES ASSUME NEW x \in F, NEW y \in F, NEW z \in F
                 PROVE  Cal!Times(Cal!Times(x, y), z) = Cal!Times(x, Cal!Times(y, z))
      OBVIOUS
    <2>1. Cal!Times(x, Cal!Times(y, z)) = Cal!Times(Cal!Times(y, z), x)
      BY <1>1
    <2>2. x * y * z = y * z * x
      BY PrimeIs
    <2>3. Cal!Times(Cal!Times(x, y), z) = (x * y * z) % cPrime
      BY <1>3
    <2>4. Cal!Times(Cal!Times(y, z), x) = (y * z * x) % cPrime
      BY <1>3
    <2> QED
      BY <2>1, <2>2, <2>3, <2>4
  <1> QED
    BY <1>1, <1>2, <1>4

(* Products distribute over sums.                                           *)
LEMMA Distributes ==
  ASSUME NEW x \in F, NEW y \in F, NEW z \in F
  PROVE  Cal!Times(x, Cal!Plus(y, z)) = Cal!Plus(Cal!Times(x, y), Cal!Times(x, z))
  <1>1. x \in Nat /\ y \in Nat /\ z \in Nat /\ cPrime \in Nat \ {0}
    BY PrimeIs
  <1>2. PICK s \in Nat, p \in Nat, q \in Nat : s = y + z /\ p = x * y /\ q = x * z
    BY <1>1
  <1>3. ((s % cPrime) * x) % cPrime = (s * x) % cPrime
    BY <1>1, RemainderOfProduct
  <1>4. s * x = p + q
    BY <1>1, <1>2
  <1>5. PICK u \in Nat, v \in Nat : u = p % cPrime /\ v = q % cPrime
    BY <1>1, RemainderOf
  <1>6. (u + v) % cPrime = (p + v) % cPrime
    BY <1>1, <1>5, RemainderOfSum
  <1>7. (v + p) % cPrime = (q + p) % cPrime
    BY <1>1, <1>5, RemainderOfSum
  <1>8. v + p = p + v /\ q + p = p + q
    OBVIOUS
  <1>9. PICK w \in Nat : w = s % cPrime
    BY <1>1, RemainderOf
  <1>10. x * w = w * x
    BY <1>1
  <1> QED
    BY <1>10, <1>2, <1>3, <1>4, <1>5, <1>6, <1>7, <1>8, <1>9 DEF Cal!Plus, Cal!Times

(* Differences and quotients.                                              *)
LEMMA Subtracted ==
  ASSUME NEW x \in F, NEW y \in F
  PROVE  Cal!Minus(x, y) \in F /\ Cal!Plus(Cal!Minus(x, y), y) = x
  <1>1. x \in Nat /\ y \in Nat /\ y < cPrime /\ cPrime \in Nat \ {0}
    BY PrimeIs
  <1>2. PICK s \in Nat, t \in Nat : s = x + cPrime - y /\ t = s + y /\ t = x + cPrime
    BY <1>1
  <1>3. s % cPrime \in F
    BY <1>1, PrimeIs, RemainderOf
  <1>4. ((s % cPrime) + y) % cPrime = t % cPrime
    <2>1. ((s % cPrime) + y) % cPrime = (s + y) % cPrime
      BY <1>1, RemainderOfSum
    <2> QED
      BY <1>2, <2>1
  <1>5. PICK c \in Nat : c = 1 /\ t = c * cPrime + x
    BY <1>1, <1>2
  <1>6. t % cPrime = x
    <2>1. cPrime \in Nat \ {0} /\ x \in Nat /\ x < cPrime
      BY <1>1, PrimeIs
    <2> QED
      BY <1>5, <2>1, DividedAs
  <1> QED
    BY <1>2, <1>3, <1>4, <1>6 DEF Cal!Plus, Cal!Minus

(* A summand cancels.                                                       *)
LEMMA Cancels ==
  ASSUME NEW x \in F, NEW y \in F, NEW z \in F, Cal!Plus(x, z) = Cal!Plus(y, z)
  PROVE  x = y
  <1> DEFINE n == Cal!Minus(0, z)
  <1>1. n \in F /\ Cal!Plus(n, z) = 0 /\ Cal!Plus(z, n) = 0
    <2>1. 0 \in F
      BY PrimeIs
    <2>2. n \in F /\ Cal!Plus(n, z) = 0
      BY <2>1, Subtracted
    <2> QED
      BY <2>2, Summed
  <1>2. Cal!Plus(Cal!Plus(x, z), n) = x /\ Cal!Plus(Cal!Plus(y, z), n) = y
    BY <1>1, Summed
  <1> QED
    BY <1>2

(* Quotients exist, and are unique.                                         *)
LEMMA Divides ==
  ASSUME NEW x \in F, NEW y \in F \ {0}
  PROVE  /\ Cal!Over(x, y) \in F /\ Cal!Times(Cal!Over(x, y), y) = x
         /\ \A q \in F : Cal!Times(q, y) = x => q = Cal!Over(x, y)
  <1>1. PICK i \in F : Cal!Times(y, i) = 1 /\ Cal!Times(i, y) = 1
    <2>1. PICK i \in F : (y * i) % cPrime = 1
      BY PrimeIs
    <2>2. Cal!Times(y, i) = 1
      BY <2>1 DEF Cal!Times
    <2> QED
      BY <2>2, Multiplied
  <1>2. Cal!Times(x, i) \in F /\ Cal!Times(Cal!Times(x, i), y) = x
    BY <1>1, Multiplied
  <1>3. Cal!Over(x, y) \in F /\ Cal!Times(Cal!Over(x, y), y) = x
    BY <1>2 DEF Cal!Over, F
  <1>4. ASSUME NEW q \in F, Cal!Times(q, y) = x PROVE q = Cal!Times(x, i)
    <2>1. Cal!Times(Cal!Times(q, y), i) = q
      BY <1>1, Multiplied
    <2> QED
      BY <1>4, <2>1
  <1> QED
    BY <1>3, <1>4

-----------------------------------------------------------------------------
(* The mean of samples that are all the same.                              *)
LEMMA MeanOfSame ==
  ASSUME NEW x \in F
  PROVE  Cal!Mean([i \in 1..cSampleTarget |-> x]) = x
  <1> DEFINE n == cSampleTarget
             s == [i \in 1..n |-> x]
             f == CHOOSE h : h = [i \in 0..n |-> IF i = 0 THEN 0 ELSE Cal!Plus(h[i - 1], x)]
             g == [i \in 0..n |-> (i * x) % cPrime]
  <1>1. n \in Nat \ {0} /\ n % cPrime # 0 /\ cPrime \in Nat \ {0} /\ x \in Nat
    BY PartsAssumption, PrimeIs DEF PartsAssumption, Cal!CalibrationAssumption
  <1>2. n % cPrime \in F \ {0}
    BY <1>1, PrimeIs, RemainderOf
  <1>3. ASSUME NEW k \in Nat
        PROVE  Cal!Plus((k * x) % cPrime, x) = ((k + 1) * x) % cPrime
    <2>1. PICK p \in Nat, q \in Nat : p = k * x /\ q = (k + 1) * x /\ q = p + x
      BY <1>1
    <2>2. ((p % cPrime) + x) % cPrime = (p + x) % cPrime
      BY <1>1, RemainderOfSum
    <2> QED
      BY <2>1, <2>2 DEF Cal!Plus
  <1>4. 0 * x = 0 /\ 0 % cPrime = 0
    BY <1>1, PrimeIs
  <1>5. g = [i \in 0..n |-> IF i = 0 THEN 0 ELSE Cal!Plus(g[i - 1], x)]
    <2>1. ASSUME NEW i \in 0..n
          PROVE  g[i] = IF i = 0 THEN 0 ELSE Cal!Plus(g[i - 1], x)
      <3>1. CASE i = 0
        BY <1>4, <3>1
      <3>2. CASE i # 0
        <4>1. PICK k \in Nat : k = i - 1 /\ i = k + 1 /\ k \in 0..n
          BY <1>1, <3>2
        <4>2. g[k] = (k * x) % cPrime /\ g[i] = ((k + 1) * x) % cPrime
          BY <4>1
        <4> HIDE DEF g
        <4> QED
          BY <1>3, <3>2, <4>1, <4>2
      <3> QED
        BY <3>1, <3>2
    <2>2. g = [i \in 0..n |-> g[i]]
      OBVIOUS
    <2> HIDE DEF g
    <2> QED
      BY <2>1, <2>2
  <1>6. f = [i \in 0..n |-> IF i = 0 THEN 0 ELSE Cal!Plus(f[i - 1], x)]
    <2> HIDE DEF g
    <2> QED
      BY <1>5
  <1>7. Cal!Mean(s) = Cal!Over(f[n], n % cPrime)
    <2>1. Len(s) = n /\ \A i \in 1..n : s[i] = x
      BY <1>1
    <2>2. Cal!Mean(s) =
            Cal!Over((CHOOSE h : h = [i \in 0..Len(s) |->
                        IF i = 0 THEN 0 ELSE Cal!Plus(h[i - 1], s[i])])[Len(s)], n % cPrime)
      BY Zenon DEF Cal!Mean
    <2>3. \A h : [i \in 0..n |-> IF i = 0 THEN 0 ELSE Cal!Plus(h[i - 1], s[i])]
               = [i \in 0..n |-> IF i = 0 THEN 0 ELSE Cal!Plus(h[i - 1], x)]
      <3> SUFFICES ASSUME NEW h
                   PROVE  [i \in 0..n |-> IF i = 0 THEN 0 ELSE Cal!Plus(h[i - 1], s[i])]
                            = [i \in 0..n |-> IF i = 0 THEN 0 ELSE Cal!Plus(h[i - 1], x)]
        OBVIOUS
      <3>1. \A i \in 0..n : i # 0 => i \in 1..n
        BY <1>1
      <3> QED
        BY <2>1, <3>1
    <2> HIDE DEF s
    <2>4. f = CHOOSE h : h = [i \in 0..n |-> IF i = 0 THEN 0 ELSE Cal!Plus(h[i - 1], s[i])]
      BY <2>3, Zenon
    <2> QED
      BY <2>1, <2>2, <2>4
  <1> HIDE DEF f, s, g
  <1> DEFINE P == {k \in Nat : k <= n => f[k] = (k * x) % cPrime}
  <1>8. 0 \in P
    <2>1. 0 \in 0..n
      BY <1>1
    <2>2. f[0] = 0
      BY <1>6, <2>1
    <2> QED
      BY <1>4, <2>2
  <1>9. \A k \in Nat : k \in P => k + 1 \in P
    <2> SUFFICES ASSUME NEW k \in Nat, k \in P, k + 1 <= n
                 PROVE  f[k + 1] = ((k + 1) * x) % cPrime
      OBVIOUS
    <2>1. k + 1 \in 0..n /\ k + 1 # 0 /\ (k + 1) - 1 = k /\ k <= n
      BY <1>1
    <2>2. f[k + 1] = Cal!Plus(f[k], x)
      BY <1>6, <2>1
    <2>3. f[k] = (k * x) % cPrime
      BY <2>1
    <2> QED
      BY <1>3, <2>2, <2>3
  <1>10. n \in P
    BY <1>1, <1>8, <1>9, Inductive
  <1>11. f[n] = (n * x) % cPrime
    BY <1>1, <1>10
  <1>12. Cal!Times(x, n % cPrime) = (n * x) % cPrime
    <2>1. PICK r \in Nat : r = n % cPrime /\ x * r = r * x
      BY <1>2, <1>1, PrimeIs
    <2>2. ((n % cPrime) * x) % cPrime = (n * x) % cPrime
      BY <1>1, RemainderOfProduct
    <2> QED
      BY <2>1, <2>2 DEF Cal!Times
  <1>13. x = Cal!Over(f[n], n % cPrime)
    <2>1. f[n] \in F
      BY <1>2, <1>11, <1>12, Multiplied
    <2> QED
      BY <1>2, <1>11, <1>12, <2>1, Divides
  <1> QED
    BY <1>7, <1>13 DEF s

-----------------------------------------------------------------------------
(* The pair that is computed from two true points undoes the defect.       *)
LEMMA TwoPoints ==
  ASSUME NEW d1 \in F, NEW d2 \in F, NEW i1 \in F, NEW i2 \in F, NEW low, NEW high,
         low = Cal!Apply(<<d1, d2>>, i1), high = Cal!Apply(<<d1, d2>>, i2),
         Cal!Minus(high, low) # 0, NEW g, g = Cal!Over(Cal!Minus(i2, i1), Cal!Minus(high, low)),
         NEW o, o = Cal!Minus(i1, Cal!Times(g, low)), NEW i \in F
  PROVE  Cal!Apply(<<g, o>>, Cal!Apply(<<d1, d2>>, i)) = i
  <1> DEFINE a == Cal!Times(d1, i1)
             b == Cal!Times(d1, i2)
             m == Cal!Minus(i2, i1)
             delta == Cal!Minus(high, low)
             s == Cal!Times(g, d2)
             c == Cal!Times(d1, i)
  <1>1. a \in F /\ b \in F /\ c \in F /\ low = Cal!Plus(a, d2) /\ high = Cal!Plus(b, d2)
    BY Multiplied DEF Cal!Apply
  <1>2. low \in F /\ high \in F
    BY <1>1, Summed
  <1>3. delta \in F \ {0} /\ Cal!Plus(delta, low) = high
    BY <1>2, Subtracted
  <1>4. m \in F /\ Cal!Plus(m, i1) = i2
    BY Subtracted
  <1>5. g \in F /\ Cal!Times(g, delta) = m
    BY <1>3, <1>4, Divides
  <1> HIDE DEF m, delta
  <1>6. Cal!Plus(delta, a) = b
    <2>1. Cal!Plus(Cal!Plus(delta, a), d2) = Cal!Plus(b, d2)
      BY <1>1, <1>3, Summed
    <2>2. Cal!Plus(delta, a) \in F
      BY <1>1, <1>3, Summed
    <2> QED
      BY <1>1, <2>1, <2>2, Cancels
  <1>7. Cal!Times(d1, m) \in F /\ Cal!Plus(Cal!Times(d1, m), a) = b
    BY <1>4, Distributes, Multiplied
  <1>8. Cal!Times(d1, m) = delta
    BY <1>1, <1>3, <1>6, <1>7, Cancels
  <1>9. m # 0
    <2>1. Cal!Times(d1, 0) = 0
      BY Multiplied, PrimeIs
    <2> QED
      BY <1>3, <1>8, <2>1
  <1>10. Cal!Times(g, d1) = 1
    <2>1. Cal!Times(Cal!Times(g, d1), m) = m
      BY <1>4, <1>5, <1>8, Multiplied
    <2>2. Cal!Times(1, m) = m /\ 1 \in F /\ Cal!Times(g, d1) \in F
      BY <1>4, <1>5, Multiplied, PrimeIs
    <2> QED
      BY <1>4, <1>9, <2>1, <2>2, Divides
  <1>11. s \in F /\ Cal!Times(g, low) = Cal!Plus(i1, s)
    <2>1. Cal!Times(g, low) = Cal!Plus(Cal!Times(g, a), s)
      BY <1>1, <1>5, Distributes
    <2>2. Cal!Times(g, a) = i1
      BY <1>5, <1>10, Multiplied
    <2> QED
      BY <1>5, <2>1, <2>2, Multiplied
  <1>12. o \in F /\ Cal!Plus(o, Cal!Plus(i1, s)) = i1
    <2>1. Cal!Times(g, low) \in F
      BY <1>2, <1>5, Multiplied
    <2> QED
      BY <1>11, <2>1, Subtracted
  <1>13. Cal!Plus(s, o) = 0
    <2>1. Cal!Plus(o, Cal!Plus(s, i1)) = i1 /\ Cal!Plus(Cal!Plus(o, s), i1) = i1
      BY <1>11, <1>12, Summed
    <2>2. Cal!Plus(0, i1) = i1 /\ 0 \in F /\ Cal!Plus(o, s) \in F
      BY <1>11, <1>12, Summed, PrimeIs
    <2>3. Cal!Plus(o, s) = 0
      BY <2>1, <2>2, Cancels
    <2> QED
      BY <1>11, <1>12, <2>3, Summed
  <1>14. Cal!Apply(<<g, o>>, Cal!Apply(<<d1, d2>>, i))
           = Cal!Plus(Cal!Times(g, Cal!Plus(c, d2)), o)
    BY DEF Cal!Apply
  <1>15. Cal!Times(g, Cal!Plus(c, d2)) = Cal!Plus(i, s)
    <2>1. Cal!Times(g, Cal!Plus(c, d2)) = Cal!Plus(Cal!Times(g, c), s)
      BY <1>1, <1>5, Distributes
    <2>2. Cal!Times(g, c) = i
      BY <1>5, <1>10, Multiplied
    <2> QED
      BY <2>1, <2>2
  <1>16. Cal!Plus(Cal!Plus(i, s), o) = i
    BY <1>11, <1>12, <1>13, Summed
  <1> QED
    BY <1>14, <1>15, <1>16

-----------------------------------------------------------------------------
(* The wizard, as long as nothing is spoiled: the firmware corrects nothing *)
(* while it is open, the samples of a capture are what the channels measure *)
(* of the current that was entered, and so are the means of a point that   *)
(* was captured; the pairs that are computed, and those that are on their   *)
(* way, undo the defects.                                                  *)
Measured(i) == [ch \in Cal!Channels |-> Cal!Apply(cDefect[ch], i)]

Undoes(ch, pair) == \A i \in F : Cal!Apply(pair, Cal!Apply(cDefect[ch], i)) = i

Alike(n, v) == [k \in 1..n |-> v]

Capturing == cWizard.step \in {"low capture", "high capture"}

WizardTypes ==
  /\ DOMAIN cWizard = {"step", "low", "high", "lowRaw", "highRaw", "samples", "sink", "results"}
  /\ cWizard.step \in Cal!Steps /\ cWizard.sink \in BOOLEAN /\ (cWizard.sink <=> Capturing)
  /\ cDefect \in [Cal!Channels -> cDefects] /\ DOMAIN cS_cal = Cal!Channels /\ cAmps \in F
  /\ cSending # <<>> => cWizard.step = "closed"
  /\ cSaved => cWizard.step = "closed" /\ cSending = <<>>

Uncalibrated ==
  cWizard.step # "closed" => \A ch \in Cal!Channels : cS_cal[ch] = Cal!Identity

SamplesTrue ==
  Capturing => /\ \E n \in 0..cSampleTarget - 1 : cWizard.samples = Alike(n, Measured(cAmps))
               /\ cAmps = IF cWizard.step = "low capture" THEN cWizard.low ELSE cWizard.high

PointsTrue ==
  /\ cWizard.step \in {"high entry", "high capture", "compute"} =>
       cWizard.low \in F /\ cWizard.lowRaw = Measured(cWizard.low)
  /\ cWizard.step = "compute" => cWizard.high \in F /\ cWizard.highRaw = Measured(cWizard.high)

BothTrue(results) ==
  \E ga, oa, gb, ob : /\ results = <<<<"a", ga, oa>>, <<"b", gb, ob>>>>
                      /\ Undoes("a", <<ga, oa>>) /\ Undoes("b", <<gb, ob>>)

SecondTrue(results) ==
  \E gb, ob : results = <<<<"b", gb, ob>>>> /\ Undoes("b", <<gb, ob>>)

ResultsTrue ==
  /\ cWizard.step = "confirm" => cWizard.results = <<>> \/ BothTrue(cWizard.results)
  /\ \/ cSending = <<>> \/ BothTrue(cSending)
     \/ SecondTrue(cSending) /\ Undoes("a", cS_cal["a"])
  /\ cSaved => \A ch \in Cal!Channels : Undoes(ch, cS_cal[ch])

Unspoiled == Uncalibrated /\ SamplesTrue /\ PointsTrue /\ ResultsTrue

WizardInv == WizardTypes /\ (cSpoiled = {} => Unspoiled)

(* One more sample that is like the others.                                 *)
LEMMA OneMore ==
  ASSUME NEW n \in Nat, NEW v
  PROVE  Append(Alike(n, v), v) = Alike(n + 1, v)
  <1>1. Alike(n, v) \in Seq({v}) /\ Len(Alike(n, v)) = n
    BY DEF Alike
  <1>2. Append(Alike(n, v), v) \in Seq({v}) /\ Len(Append(Alike(n, v), v)) = n + 1
    BY <1>1
  <1>3. Alike(n + 1, v) \in Seq({v}) /\ Len(Alike(n + 1, v)) = n + 1
    BY DEF Alike
  <1>4. ASSUME NEW k \in 1..n + 1 PROVE Append(Alike(n, v), v)[k] = Alike(n + 1, v)[k]
    BY <1>1 DEF Alike
  <1> QED
    BY <1>2, <1>3, <1>4, SeqEqual

(* What the channels measure of a current.                                  *)
LEMMA MeasuredIs ==
  ASSUME WizardTypes, NEW i \in F
  PROVE  \A ch \in Cal!Channels :
           /\ cDefect[ch][1] \in F /\ cDefect[ch][2] \in F /\ cDefect[ch] = <<cDefect[ch][1], cDefect[ch][2]>>
           /\ Measured(i)[ch] \in F /\ Measured(i)[ch] = Cal!Apply(cDefect[ch], i)
  <1> SUFFICES ASSUME NEW ch \in Cal!Channels
               PROVE  /\ cDefect[ch][1] \in F /\ cDefect[ch][2] \in F
                      /\ cDefect[ch] = <<cDefect[ch][1], cDefect[ch][2]>>
                      /\ Measured(i)[ch] \in F /\ Measured(i)[ch] = Cal!Apply(cDefect[ch], i)
    OBVIOUS
  <1>1. cDefect[ch] \in (1..cPrime - 1) \X (0..cPrime - 1)
    BY PartsAssumption DEF PartsAssumption, Cal!CalibrationAssumption, WizardTypes
  <1>2. /\ cDefect[ch][1] \in F /\ cDefect[ch][2] \in F
        /\ cDefect[ch] = <<cDefect[ch][1], cDefect[ch][2]>>
    BY <1>1, PrimeIs
  <1>3. Measured(i)[ch] = Cal!Plus(Cal!Times(cDefect[ch][1], i), cDefect[ch][2])
    BY DEF Measured, Cal!Apply
  <1>4. Measured(i)[ch] \in F
    <2>1. PICK x \in F : x = Cal!Times(cDefect[ch][1], i)
      BY <1>2, Multiplied
    <2>2. PICK y \in F : y = cDefect[ch][2]
      BY <1>2
    <2>3. Cal!Plus(x, y) \in F
      BY Summed
    <2> QED
      BY <1>3, <2>1, <2>2, <2>3
  <1> QED
    BY <1>2, <1>4 DEF Measured

(* What is streamed while nothing is corrected.                            *)
LEMMA ReadingIs ==
  ASSUME WizardTypes, \A ch \in Cal!Channels : cS_cal[ch] = Cal!Identity
  PROVE  [ch \in Cal!Channels |-> Cal!Reading(ch)] = Measured(cAmps)
  <1>1. ASSUME NEW ch \in Cal!Channels PROVE Cal!Reading(ch) = Measured(cAmps)[ch]
    <2>1. cAmps \in F
      BY DEF WizardTypes
    <2>2. Measured(cAmps)[ch] \in F /\ Measured(cAmps)[ch] = Cal!Uncorrected(ch)
      BY <2>1, MeasuredIs DEF Cal!Uncorrected
    <2>3. Cal!Reading(ch) = Cal!Plus(Cal!Times(1, Measured(cAmps)[ch]), 0)
      BY <2>2 DEF Cal!Reading, Cal!Identity, Cal!Apply
    <2> QED
      BY <2>2, <2>3, Multiplied, Summed
  <1> QED
    BY <1>1 DEF Measured

(* All this holds before the wizard was ever opened,                        *)
LEMMA WizardBegins == Cal!Init => WizardInv
  <1> SUFFICES ASSUME Cal!Init PROVE WizardInv
    OBVIOUS
  <1>1. WizardTypes
    BY PrimeIs DEF Cal!Init, Cal!Closed, WizardTypes, Capturing, Cal!Steps
  <1>2. Unspoiled
    BY DEF Cal!Init, Cal!Closed, Unspoiled, Uncalibrated, SamplesTrue, PointsTrue, ResultsTrue, Capturing
  <1> QED
    BY <1>1, <1>2 DEF WizardInv

(* after it was opened, when nothing is corrected,                          *)
LEMMA OpenKeeps ==
  ASSUME WizardInv, Cal!Open
  PROVE  WizardInv'
  <1>1. WizardTypes'
    BY DEF WizardInv, WizardTypes, Capturing, Cal!Open, Cal!Closed, Cal!Steps
  <1>2. cSpoiled' = {} => Unspoiled'
    BY DEF WizardInv, WizardTypes, Cal!Open, Cal!Closed, Unspoiled, Uncalibrated, SamplesTrue,
           PointsTrue, ResultsTrue, Capturing
  <1> QED
    BY <1>1, <1>2 DEF WizardInv

(* (What is on its way stays what it was,)                                  *)
LEMMA ResultsKept ==
  ASSUME ResultsTrue, UNCHANGED <<cDefect, cS_cal, cSending, cSaved>>, 
         cWizard'.step = "confirm" => cWizard' = cWizard
  PROVE  ResultsTrue'
  <1>1. \A ch, p : Undoes(ch, p) => Undoes(ch, p)'
    BY DEF Undoes
  <1>2. cSaved' => (\A ch \in Cal!Channels : Undoes(ch, cS_cal[ch]))'
    <2>1. ASSUME cSaved, NEW ch \in Cal!Channels PROVE Undoes(ch, cS_cal[ch])'
      BY <1>1, <2>1 DEF ResultsTrue
    <2> QED
      BY <2>1
  <1>3. \/ cSending' = <<>> \/ BothTrue(cSending)'
        \/ SecondTrue(cSending)' /\ Undoes("a", cS_cal["a"])'
    <2>1. CASE cSending = <<>>
      BY <2>1
    <2>2. CASE BothTrue(cSending)
      BY <1>1, <2>2 DEF BothTrue
    <2>3. CASE SecondTrue(cSending) /\ Undoes("a", cS_cal["a"])
      BY <1>1, <2>3 DEF SecondTrue
    <2> QED
      BY <2>1, <2>2, <2>3 DEF ResultsTrue
  <1>4. cWizard'.step = "confirm" => cWizard'.results = <<>> \/ BothTrue(cWizard.results)'
    BY <1>1 DEF ResultsTrue, BothTrue
  <1> QED
    BY <1>2, <1>3, <1>4 DEF ResultsTrue

(* after a point was entered, when no sample is taken yet,                  *)
LEMMA EntryKeeps ==
  ASSUME WizardInv, Cal!Entry
  PROVE  WizardInv'
  <1>0. UNCHANGED <<cDefect, cS_cal, cAmps, cSending, cSpoiled, cSaved>>
    BY DEF Cal!Entry
  <1>1. /\ WizardTypes' /\ cWizard.step \in {"low entry", "high entry"} /\ cWizard'.samples = <<>>
        /\ cWizard'.lowRaw = cWizard.lowRaw
        /\ cWizard.step = "low entry" => cWizard'.step = "low capture" /\ cWizard'.low = cAmps
        /\ cWizard.step = "high entry" =>
             cWizard'.step = "high capture" /\ cWizard'.high = cAmps /\ cWizard'.low = cWizard.low
    BY DEF WizardInv, WizardTypes, Capturing, Cal!Entry, Cal!Steps
  <1>2. ASSUME cSpoiled' = {} PROVE Unspoiled'
    <2>1. Unspoiled
      BY <1>0, <1>2 DEF WizardInv
    <2>2. Uncalibrated'
      BY <1>0, <1>1, <2>1 DEF Unspoiled, Uncalibrated
    <2>3. SamplesTrue'
      <3>1. <<>> = Alike(0, Measured(cAmps)') /\ 0 \in 0..cSampleTarget - 1
        BY PartsAssumption DEF PartsAssumption, Cal!CalibrationAssumption, Alike
      <3>2. cWizard'.samples = Alike(0, Measured(cAmps)') /\ cAmps' = cAmps
        BY <1>0, <1>1, <3>1
      <3> QED
        BY <1>1, <3>1, <3>2 DEF SamplesTrue, Capturing
    <2>4. PointsTrue'
      BY <1>0, <1>1, <2>1 DEF Unspoiled, PointsTrue, Measured
    <2>5. ResultsTrue'
      BY <1>0, <1>1, <2>1, ResultsKept DEF Unspoiled
    <2> QED
      BY <2>2, <2>3, <2>4, <2>5 DEF Unspoiled
  <1> QED
    BY <1>1, <1>2 DEF WizardInv

(* after the current was set between the points,                            *)
LEMMA SetCurrentKeeps ==
  ASSUME WizardInv, Cal!SetCurrent
  PROVE  WizardInv'
  <1>0. /\ UNCHANGED <<cDefect, cS_cal, cWizard, cSending, cSaved>> /\ cAmps' \in F
        /\ cWizard.sink \/ cSpoiled' = cSpoiled
        /\ cWizard.step \in {"low entry", "high entry", "low capture", "high capture"}
        /\ cWizard.sink => cSpoiled' # {}
    BY DEF Cal!SetCurrent, F
  <1>1. WizardTypes'
    BY <1>0 DEF WizardInv, WizardTypes, Capturing
  <1>2. ASSUME cSpoiled' = {} PROVE Unspoiled'
    <2>1. Unspoiled /\ ~Capturing
      BY <1>0, <1>2 DEF WizardInv, WizardTypes
    <2>2. Uncalibrated' /\ SamplesTrue' /\ PointsTrue'
      BY <1>0, <2>1 DEF Unspoiled, Uncalibrated, SamplesTrue, PointsTrue, Measured, Capturing
    <2>3. ResultsTrue'
      BY <1>0, <2>1, ResultsKept DEF Unspoiled
    <2> QED
      BY <2>2, <2>3 DEF Unspoiled
  <1> QED
    BY <1>1, <1>2 DEF WizardInv

(* (the mean of samples that are alike, for both channels,)                 *)
LEMMA MeanIs ==
  ASSUME NEW v, v \in [Cal!Channels -> F]
  PROVE  [ch \in Cal!Channels |->
            Cal!Mean([i \in DOMAIN Alike(cSampleTarget, v) |-> Alike(cSampleTarget, v)[i][ch]])] = v
  <1>1. ASSUME NEW ch \in Cal!Channels
        PROVE  Cal!Mean([i \in DOMAIN Alike(cSampleTarget, v) |-> Alike(cSampleTarget, v)[i][ch]])
                 = v[ch]
    <2> DEFINE x == v[ch]
    <2>1. x \in F
      OBVIOUS
    <2>2. [i \in DOMAIN Alike(cSampleTarget, v) |-> Alike(cSampleTarget, v)[i][ch]]
            = [i \in 1..cSampleTarget |-> x]
      BY DEF Alike
    <2>3. Cal!Mean([i \in 1..cSampleTarget |-> x]) = x
      BY <2>1, MeanOfSame
    <2> QED
      BY <2>2, <2>3
  <1> QED
    BY <1>1

(* (the types of the wizard after a sample, true or not,)                   *)
LEMMA OneSample ==
  ASSUME WizardTypes, cWizard.sink, NEW v, Cal!OnSample(v),
         UNCHANGED <<cDefect, cS_cal, cAmps, cSending, cSaved>>
  PROVE  WizardTypes'
  <1>1. Capturing /\ cWizard.step # "closed"
    BY DEF WizardTypes, Capturing
  <1>2. /\ DOMAIN cWizard' = DOMAIN cWizard
        /\ \/ cWizard'.sink = FALSE /\ cWizard'.step \in {"high entry", "compute"}
           \/ cWizard'.sink = TRUE /\ cWizard'.step = cWizard.step
    BY DEF Cal!OnSample, WizardTypes
  <1> QED
    BY <1>1, <1>2 DEF WizardTypes, Capturing, Cal!Steps

(* after a sample, the last of a point or another,                          *)
LEMMA SampleKeeps ==
  ASSUME WizardInv, Cal!Sample
  PROVE  WizardInv'
  <1>0. UNCHANGED <<cDefect, cS_cal, cAmps, cSending, cSaved>> /\ cWizard.sink
    BY DEF Cal!Sample
  <1>1. WizardTypes'
    <2>1. PICK v : Cal!OnSample(v)
      BY DEF Cal!Sample
    <2> QED
      BY <1>0, <2>1, OneSample DEF WizardInv
  <1>2. ASSUME cSpoiled' = {} PROVE Unspoiled'
    <2>1. Cal!OnSample([ch \in Cal!Channels |-> Cal!Reading(ch)]) /\ cSpoiled = {}
      BY <1>2 DEF Cal!Sample
    <2>2. Unspoiled /\ WizardTypes /\ Capturing /\ cWizard.step # "closed" /\ cAmps \in F
      BY <1>0, <2>1 DEF WizardInv, WizardTypes, Capturing
    <2>3. [ch \in Cal!Channels |-> Cal!Reading(ch)] = Measured(cAmps)
      BY <2>2, ReadingIs DEF Unspoiled, Uncalibrated
    <2>4. PICK n \in 0..cSampleTarget - 1 : cWizard.samples = Alike(n, Measured(cAmps))
      BY <2>2 DEF Unspoiled, SamplesTrue
    <2> DEFINE v == Measured(cAmps)
               more == Append(cWizard.samples, v)
               mean == [ch \in Cal!Channels |-> Cal!Mean([i \in DOMAIN more |-> more[i][ch]])]
               full == Len(more) = cSampleTarget
    <2>5. cSampleTarget \in Nat \ {0} /\ n \in Nat /\ n + 1 \in Nat
      BY PartsAssumption DEF PartsAssumption, Cal!CalibrationAssumption
    <2>6. more = Alike(n + 1, v)
      BY <2>4, <2>5, OneMore
    <2>7. Len(more) = n + 1
      BY <2>5, <2>6 DEF Alike
    <2>8. v \in [Cal!Channels -> F]
      <3>1. \A ch \in Cal!Channels : Measured(cAmps)[ch] \in F
        BY <2>2, MeasuredIs
      <3> QED
        BY <3>1 DEF Measured
    <2>9. Cal!OnSample(v)
      BY <2>1, <2>3
    <2>10. cWizard' = [cWizard EXCEPT
              !.samples = more, !.sink = ~full,
              !.lowRaw  = IF full /\ cWizard.step = "low capture" THEN mean ELSE @,
              !.highRaw = IF full /\ cWizard.step # "low capture" THEN mean ELSE @,
              !.step    = IF ~full THEN @
                          ELSE IF cWizard.step = "low capture" THEN "high entry" ELSE "compute"]
      BY <2>9 DEF Cal!OnSample
    <2> HIDE DEF mean, more
    <2>11. /\ cWizard'.samples = more /\ cWizard'.low = cWizard.low /\ cWizard'.high = cWizard.high
           /\ cWizard'.lowRaw = (IF full /\ cWizard.step = "low capture" THEN mean ELSE cWizard.lowRaw)
           /\ cWizard'.highRaw = (IF full /\ cWizard.step # "low capture" THEN mean ELSE cWizard.highRaw)
           /\ cWizard'.step = IF ~full THEN cWizard.step
                              ELSE IF cWizard.step = "low capture" THEN "high entry" ELSE "compute"
      BY <2>2, <2>10 DEF WizardTypes
    <2>12. Measured(cAmps)' = v /\ \A i : Measured(i)' = Measured(i)
      BY <1>0 DEF Measured
    <2>13. Uncalibrated'
      BY <1>0, <2>2 DEF Unspoiled, Uncalibrated
    <2>14. ResultsTrue'
      <3>1. cWizard'.step # "confirm"
        BY <2>2, <2>11 DEF Capturing
      <3> QED
        BY <1>0, <2>2, <3>1, ResultsKept DEF Unspoiled
    <2>15. CASE ~full
      <3>1. n + 1 \in 0..cSampleTarget - 1
        BY <2>5, <2>7, <2>15
      <3>2. cWizard'.samples = Alike(n + 1, v)
        BY <2>6, <2>11
      <3>3. SamplesTrue'
        BY <1>0, <2>2, <2>11, <2>12, <2>15, <3>1, <3>2 DEF Unspoiled, SamplesTrue, Capturing
      <3>4. PointsTrue'
        BY <2>2, <2>11, <2>12, <2>15 DEF Unspoiled, PointsTrue, Capturing
      <3> QED
        BY <2>13, <2>14, <3>3, <3>4 DEF Unspoiled
    <2>16. CASE full
      <3>1. more = Alike(cSampleTarget, v)
        BY <2>6, <2>7, <2>16
      <3>2. mean = v
        BY <2>8, <3>1, MeanIs DEF mean
      <3>3. SamplesTrue'
        BY <2>11, <2>16 DEF SamplesTrue, Capturing
      <3>4. PointsTrue'
        <4>1. CASE cWizard.step = "low capture"
          BY <2>2, <2>11, <2>12, <2>16, <3>2, <4>1 DEF Unspoiled, SamplesTrue, PointsTrue, Capturing
        <4>2. CASE cWizard.step = "high capture"
          BY <2>2, <2>11, <2>12, <2>16, <3>2, <4>2 DEF Unspoiled, SamplesTrue, PointsTrue, Capturing
        <4> QED
          BY <2>2, <4>1, <4>2 DEF Capturing
      <3> QED
        BY <2>13, <2>14, <3>3, <3>4 DEF Unspoiled
    <2> QED
      BY <2>15, <2>16
  <1> QED
    BY <1>1, <1>2 DEF WizardInv

(* The results of two true points undo the defects,                        *)
LEMMA ComputeKeeps ==
  ASSUME WizardInv, Cal!ComputeAndShow
  PROVE  WizardInv'
  <1> DEFINE delta(ch) == Cal!Minus(cWizard.highRaw[ch], cWizard.lowRaw[ch])
             gain(ch) == Cal!Over(Cal!Minus(cWizard.high, cWizard.low), delta(ch))
             offset(ch) == Cal!Minus(cWizard.low, Cal!Times(gain(ch), cWizard.lowRaw[ch]))
             results == IF \E ch \in Cal!Channels : delta(ch) = 0 THEN <<>>
                        ELSE <<<<"a", gain("a"), offset("a")>>, <<"b", gain("b"), offset("b")>>>>
  <1>0. /\ UNCHANGED <<cDefect, cS_cal, cAmps, cSending, cSpoiled, cSaved>>
        /\ cWizard.step = "compute" /\ cWizard' = [cWizard EXCEPT !.step = "confirm", !.results = results]
    BY DEF Cal!ComputeAndShow
  <1> HIDE DEF results
  <1>1. WizardTypes' /\ cWizard'.step = "confirm" /\ cWizard'.results = results
    BY <1>0 DEF WizardInv, WizardTypes, Capturing, Cal!Steps
  <1>2. ASSUME cSpoiled' = {} PROVE Unspoiled'
    <2>1. Unspoiled /\ WizardTypes
      BY <1>0, <1>2 DEF WizardInv
    <2>2. /\ cWizard.low \in F /\ cWizard.lowRaw = Measured(cWizard.low)
          /\ cWizard.high \in F /\ cWizard.highRaw = Measured(cWizard.high)
      BY <1>0, <2>1 DEF Unspoiled, PointsTrue
    <2>3. ASSUME NEW ch \in Cal!Channels, delta(ch) # 0
          PROVE  Undoes(ch, <<gain(ch), offset(ch)>>)
      <3>1. PICK d1 \in F, d2 \in F : cDefect[ch] = <<d1, d2>>
        BY <2>1, <2>2, MeasuredIs
      <3>2. PICK low, high : low = cWizard.lowRaw[ch] /\ high = cWizard.highRaw[ch]
        OBVIOUS
      <3>3. low = Cal!Apply(<<d1, d2>>, cWizard.low) /\ high = Cal!Apply(<<d1, d2>>, cWizard.high)
        BY <2>1, <2>2, <3>1, <3>2, MeasuredIs
      <3>4. PICK i1 \in F, i2 \in F : i1 = cWizard.low /\ i2 = cWizard.high
        BY <2>2
      <3>5. PICK g, o : g = gain(ch) /\ o = offset(ch)
        OBVIOUS
      <3>6. /\ g = Cal!Over(Cal!Minus(i2, i1), Cal!Minus(high, low))
            /\ o = Cal!Minus(i1, Cal!Times(g, low)) /\ Cal!Minus(high, low) # 0
        BY <2>3, <3>2, <3>4, <3>5
      <3>7. ASSUME NEW i \in F PROVE Cal!Apply(<<g, o>>, Cal!Apply(<<d1, d2>>, i)) = i
        BY <3>3, <3>4, <3>6, TwoPoints
      <3> QED
        BY <3>1, <3>5, <3>7 DEF Undoes
    <2>4. results = <<>> \/ BothTrue(results)
      <3>1. CASE \E ch \in Cal!Channels : delta(ch) = 0
        BY <3>1 DEF results
      <3>2. CASE ~\E ch \in Cal!Channels : delta(ch) = 0
        <4>1. "a" \in Cal!Channels /\ "b" \in Cal!Channels
          BY DEF Cal!Channels
        <4>2. results = <<<<"a", gain("a"), offset("a")>>, <<"b", gain("b"), offset("b")>>>>
          BY <3>2 DEF results
        <4>3. Undoes("a", <<gain("a"), offset("a")>>) /\ Undoes("b", <<gain("b"), offset("b")>>)
          BY <2>3, <3>2, <4>1
        <4> HIDE DEF gain, offset
        <4> QED
          BY <4>2, <4>3, Zenon DEF BothTrue
      <3> QED
        BY <3>1, <3>2
    <2>5. ResultsTrue'
      <3>1. \A ch, p : Undoes(ch, p) => Undoes(ch, p)'
        BY <1>0 DEF Undoes
      <3>2. cSending' = <<>> /\ ~cSaved'
        BY <1>0, <2>1 DEF WizardTypes
      <3>3. PICK r : r = results
        OBVIOUS
      <3>5. r = <<>> \/ BothTrue(r)'
        BY <2>4, <3>1, <3>3 DEF BothTrue
      <3>4. cWizard'.results = <<>> \/ BothTrue(cWizard.results)'
        BY <1>1, <3>3, <3>5 DEF BothTrue
      <3> QED
        BY <3>2, <3>4 DEF ResultsTrue
    <2>6. Uncalibrated' /\ SamplesTrue' /\ PointsTrue'
      BY <1>0, <1>1, <2>1 DEF Unspoiled, Uncalibrated, SamplesTrue, PointsTrue, Capturing
    <2> QED
      BY <2>5, <2>6 DEF Unspoiled
  <1> QED
    BY <1>1, <1>2 DEF WizardInv

(* after they were confirmed,                                               *)
LEMMA ConfirmKeeps ==
  ASSUME WizardInv, Cal!Confirm
  PROVE  WizardInv'
  <1>0. /\ UNCHANGED <<cDefect, cS_cal, cAmps, cSpoiled, cSaved>> /\ cWizard.step = "confirm"
        /\ cWizard.results # <<>> /\ cSending' = cWizard.results /\ cWizard' = Cal!Closed
    BY DEF Cal!Confirm
  <1>1. WizardTypes' /\ cWizard'.step = "closed" /\ ~cSaved
    BY <1>0 DEF WizardInv, WizardTypes, Capturing, Cal!Closed, Cal!Steps
  <1>2. ASSUME cSpoiled' = {} PROVE Unspoiled'
    <2>1. Unspoiled
      BY <1>0, <1>2 DEF WizardInv
    <2>2. PICK r : r = cWizard.results
      OBVIOUS
    <2>3. BothTrue(r)
      BY <1>0, <2>1, <2>2 DEF Unspoiled, ResultsTrue
    <2>7. \A ch, p : Undoes(ch, p) => Undoes(ch, p)'
      BY <1>0 DEF Undoes
    <2>4. BothTrue(r)'
      BY <2>3, <2>7 DEF BothTrue
    <2>5. BothTrue(cSending)'
      BY <1>0, <2>2, <2>4 DEF BothTrue
    <2>6. ResultsTrue'
      BY <1>0, <1>1, <2>5 DEF ResultsTrue
    <2> QED
      BY <1>1, <2>6 DEF Unspoiled, Uncalibrated, SamplesTrue, PointsTrue, Capturing
  <1> QED
    BY <1>1, <1>2 DEF WizardInv

(* after the wizard was left,                                               *)
LEMMA CancelKeeps ==
  ASSUME WizardInv, Cal!Cancel
  PROVE  WizardInv'
  <1>0. /\ UNCHANGED <<cDefect, cS_cal, cAmps, cSending, cSpoiled, cSaved>>
        /\ cWizard' = Cal!Closed
    BY DEF Cal!Cancel
  <1>1. WizardTypes' /\ cWizard'.step = "closed"
    BY <1>0 DEF WizardInv, WizardTypes, Capturing, Cal!Closed, Cal!Steps
  <1>2. ASSUME cSpoiled' = {} PROVE Unspoiled'
    <2>1. Unspoiled
      BY <1>0, <1>2 DEF WizardInv
    <2>2. ResultsTrue'
      BY <1>0, <1>1, <2>1, ResultsKept DEF Unspoiled
    <2> QED
      BY <1>1, <2>2 DEF Unspoiled, Uncalibrated, SamplesTrue, PointsTrue, Capturing
  <1> QED
    BY <1>1, <1>2 DEF WizardInv

(* after the first pair was written, and after the second,                  *)
LEMMA SetCalibrationKeeps ==
  ASSUME WizardInv, Cal!SetCalibration
  PROVE  WizardInv'
  <1>0. /\ UNCHANGED <<cDefect, cAmps, cWizard>> /\ cSending # <<>> /\ cSending' = Tail(cSending)
        /\ cSaved' = (cSending' = <<>>) /\ cWizard.step = "closed"
        /\ \/ cS_cal' = [cS_cal EXCEPT ![Head(cSending)[1]] = Tail(Head(cSending))] /\ cSpoiled' = cSpoiled
           \/ cS_cal' = cS_cal /\ cSpoiled' # {}
    BY DEF Cal!SetCalibration, WizardInv, WizardTypes
  <1>1. WizardTypes'
    BY <1>0 DEF WizardInv, WizardTypes, Capturing
  <1>2. ASSUME cSpoiled' = {} PROVE Unspoiled'
    <2>1. Unspoiled /\ DOMAIN cS_cal = Cal!Channels
          /\ cS_cal' = [cS_cal EXCEPT ![Head(cSending)[1]] = Tail(Head(cSending))]
      BY <1>0, <1>2 DEF WizardInv, WizardTypes
    <2>2. \A ch, p : Undoes(ch, p) => Undoes(ch, p)'
      BY <1>0 DEF Undoes
    <2>3. ASSUME NEW ch, NEW g, NEW o, Undoes(ch, <<g, o>>), NEW p, p = Tail(<<ch, g, o>>)
          PROVE  Undoes(ch, p)
      <3>1. p[1] = g /\ p[2] = o
        BY <2>3
      <3> QED
        BY <2>3, <3>1 DEF Undoes, Cal!Apply
    <2>4. Cal!Channels = {"a", "b"}
      BY DEF Cal!Channels
    <2>5. ResultsTrue'
      <3>1. CASE BothTrue(cSending)
        <4>1. PICK ga, oa, gb, ob : /\ cSending = <<<<"a", ga, oa>>, <<"b", gb, ob>>>>
                                    /\ Undoes("a", <<ga, oa>>) /\ Undoes("b", <<gb, ob>>)
          BY <3>1 DEF BothTrue
        <4>2. Head(cSending) = <<"a", ga, oa>> /\ Head(cSending)[1] = "a" /\ cSending' = <<<<"b", gb, ob>>>>
          BY <1>0, <4>1
        <4>3. cS_cal'["a"] = Tail(<<"a", ga, oa>>)
          BY <2>1, <2>4, <4>2
        <4>4. PICK p : p = Tail(<<"a", ga, oa>>)
          OBVIOUS
        <4>5. Undoes("a", p)'
          BY <2>2, <2>3, <4>1, <4>4
        <4>6. Undoes("a", cS_cal["a"])'
          BY <4>3, <4>4, <4>5 DEF Undoes
        <4>7. SecondTrue(cSending)'
          BY <2>2, <4>1, <4>2 DEF SecondTrue
        <4>8. cSending' # <<>>
          BY <4>2
        <4> QED
          BY <1>0, <4>6, <4>7, <4>8 DEF ResultsTrue
      <3>2. CASE SecondTrue(cSending) /\ Undoes("a", cS_cal["a"])
        <4>1. PICK gb, ob : cSending = <<<<"b", gb, ob>>>> /\ Undoes("b", <<gb, ob>>)
          BY <3>2 DEF SecondTrue
        <4>2. Head(cSending) = <<"b", gb, ob>> /\ Head(cSending)[1] = "b" /\ cSending' = <<>>
          BY <1>0, <4>1
        <4>3. cS_cal'["b"] = Tail(<<"b", gb, ob>>) /\ cS_cal'["a"] = cS_cal["a"]
          BY <2>1, <2>4, <4>2
        <4>4. PICK p, q : p = Tail(<<"b", gb, ob>>) /\ q = cS_cal["a"]
          OBVIOUS
        <4>5. Undoes("b", p)' /\ Undoes("a", q)'
          BY <2>2, <2>3, <3>2, <4>1, <4>4
        <4>6. Undoes("b", cS_cal["b"])' /\ Undoes("a", cS_cal["a"])'
          BY <4>3, <4>4, <4>5 DEF Undoes
        <4>7. (\A ch \in Cal!Channels : Undoes(ch, cS_cal[ch]))'
          BY <2>4, <4>6
        <4> QED
          BY <1>0, <4>2, <4>7 DEF ResultsTrue
      <3> QED
        BY <1>0, <2>1, <3>1, <3>2 DEF Unspoiled, ResultsTrue
    <2> QED
      BY <1>0, <2>5 DEF Unspoiled, Uncalibrated, SamplesTrue, PointsTrue, Capturing
  <1> QED
    BY <1>1, <1>2 DEF WizardInv

(* and after the corrections were taken back.                               *)
LEMMA ResetKeeps ==
  ASSUME WizardInv, Cal!Reset
  PROVE  WizardInv'
  <1>0. /\ UNCHANGED <<cDefect, cAmps, cWizard, cSending>> /\ ~cSaved'
        /\ cS_cal' = [ch \in Cal!Channels |-> Cal!Identity]
        /\ cSpoiled' = {} => cWizard.step = "closed" /\ cSending = <<>>
    BY DEF Cal!Reset
  <1>1. WizardTypes'
    BY <1>0 DEF WizardInv, WizardTypes, Capturing
  <1>2. cSpoiled' = {} => Unspoiled'
    BY <1>0 DEF Unspoiled, Uncalibrated, SamplesTrue, PointsTrue, ResultsTrue, Capturing
  <1> QED
    BY <1>1, <1>2 DEF WizardInv

(* So every step keeps it.                                                  *)
LEMMA WizardKept ==
  ASSUME WizardInv, [Cal!Next]_Cal!vars
  PROVE  WizardInv'
  <1>1. CASE UNCHANGED Cal!vars
    <2>1. UNCHANGED <<cDefect, cS_cal, cAmps, cWizard, cSending, cSpoiled, cSaved>>
      BY <1>1 DEF Cal!vars
    <2>2. WizardTypes'
      BY <2>1 DEF WizardInv, WizardTypes, Capturing
    <2>3. ASSUME Unspoiled PROVE Unspoiled'
      <3>1. ResultsTrue'
        BY <2>1, <2>3, ResultsKept DEF Unspoiled
      <3>2. Uncalibrated' /\ SamplesTrue' /\ PointsTrue'
        BY <2>1, <2>3 DEF Unspoiled, Uncalibrated, SamplesTrue, PointsTrue, Capturing, Measured
      <3> QED
        BY <3>1, <3>2 DEF Unspoiled
    <2> QED
      BY <2>1, <2>2, <2>3 DEF WizardInv
  <1> QED
    BY <1>1, OpenKeeps, EntryKeeps, SetCurrentKeeps, SampleKeeps, ComputeKeeps, ConfirmKeeps,
       CancelKeeps, SetCalibrationKeeps, ResetKeeps DEF Cal!Next

(* When the parts move, the wizard moves as its module says.                *)
LEMMA WizardMoves == PartsSpec => Cal!Spec
  <1>1. PartsInit => Cal!Init
    BY DEF PartsInit
  <1>2. [PartsNext]_allVars => [Cal!Next]_Cal!vars
    BY DEF PartsNext, allVars, cVars, Cal!vars
  <1> QED
    BY <1>1, <1>2, PTL DEF PartsSpec, Cal!Spec

(* For every prime, number of samples and defect of the channels, however  *)
(* often the wizard is left and opened before: a calibration that was      *)
(* saved, and that nothing spoiled, makes both channels read what flows.   *)
THEOREM SavedIsTrueAlways == PartsSpec => []SavedIsTrue
  <1>1. WizardInv => SavedIsTrue
    BY DEF WizardInv, Unspoiled, ResultsTrue, Undoes, SavedIsTrue, Cal!SavedIsTrue, Cal!Corrects, F
  <1> QED
    BY <1>1, WizardBegins, WizardKept, WizardMoves, PTL DEF Cal!Spec

-----------------------------------------------------------------------------
(* The recordings of the terminal client.                                  *)

(* When the parts move, the recordings move as their module says.          *)
LEMMA LogMoves == PartsSpec => Log!Spec
  <1>1. PartsInit => Log!Init
    BY DEF PartsInit
  <1>2. [PartsNext]_allVars => [Log!Next]_Log!vars
    BY DEF PartsNext, allVars, lVars, Log!vars, Log!loggerVars, Log!macVars, Log!piVars, Log!copyVars
  <1> QED
    BY <1>1, <1>2, PTL DEF PartsSpec, Log!Spec

StopSteps == {"idle", "begin", "tell", "list", "copy", "remove", "join", "end"}

StopStates ==
  [at : StopSteps, session : lSessions \cup {None},
   file : lFiles \cup {None} \cup {Log!Max(S) : S \in SUBSET lFiles}]

FileTypes ==
  /\ lRows \in [lFiles -> Nat \cup {None}] /\ DOMAIN lLocal = lFiles /\ DOMAIN lLast = lFiles
  /\ lWriting # None => lWriting \in lFiles /\ lRows[lWriting] \in Nat
  /\ lRemote \subseteq {f \in lFiles : lRows[f] # None}
  /\ lSession \in lSessions \cup {None} /\ lStopper \in [Log!Stoppers -> StopStates]

(* A recording that was copied whole is not written any more, and one that *)
(* has left the Pi was copied whole, or counts as deleted carelessly.      *)
CopiedWhole ==
  \A f \in lFiles : lLast[f] = "whole" => lRows[f] # None /\ lLocal[f] = lRows[f] /\ lWriting # f

GoneWhole ==
  \A f \in lFiles \ lCareless : f \notin lRemote /\ lRows[f] # None => lLast[f] = "whole"

(* A stop that is about to remove a recording knows how its copy went.     *)
RemovesCopied ==
  \A k \in Log!Stoppers : lStopper[k].at = "remove" /\ lStopper[k].file \in lFiles =>
     lLast[lStopper[k].file] \in {"whole", "growing", "offload", "both"}

FileInv == FileTypes /\ CopiedWhole /\ GoneWhole /\ RemovesCopied

Idle == \A k \in Log!Stoppers : lStopper[k].at = "idle"

Recordings ==
  [queue : Seq({"row", "stop"}), file : Nat, accepted : Nat, writer : {"none", "runs", "done"},
   overlaps : BOOLEAN]

MacTypes ==
  /\ lMac \in [lSessions -> Recordings]
  /\ lBusy \in BOOLEAN /\ lLogger \in [tier : {None, "pi", "mac"}, pi : BOOLEAN, mac : BOOLEAN]
  /\ lLogger.mac => lSession \in lSessions /\ lMac[lSession].writer # "none"
  /\ lPutting # None => lPutting \in lSessions /\ lMac[lPutting].writer # "none"

(* The rows of a recording wait in the queue while it is open, the marker  *)
(* waits behind them when it is closed, and the writer ends with it.       *)
Open(m) == m.writer = "runs" /\ m.queue \in Seq({"row"}) /\ m.file + Len(m.queue) = m.accepted

Closing(m) ==
  /\ m.writer = "runs"
  /\ \E r \in Seq({"row"}) : m.queue = Append(r, "stop") /\ m.file + Len(r) = m.accepted

Closed(m) == m.writer = "done" /\ m.file = m.accepted

(* The one that is open is stopped by one thread, which finds no row on    *)
(* its way.                                                                *)
StoppedOnce ==
  /\ lLogger.tier = "mac" /\ ~lLogger.pi
  /\ \/ Idle /\ ~lBusy
     \/ /\ lBusy /\ lPutting = None
        /\ \E k \in Log!Stoppers : /\ lStopper[k].at = "begin"
                                   /\ \A j \in Log!Stoppers \ {k} : lStopper[j].at = "idle"

(* A recording that overlaps no stop is at one of these three stages, the  *)
(* first while the logger is at it.                                        *)
Unbegun ==
  \A s \in lSessions : lMac[s].writer = "none" =>
     lMac[s].queue = <<>> /\ lMac[s].file = 0 /\ lMac[s].accepted = 0

AtOpen ==
  \A s \in lSessions : lMac[s].writer # "none" /\ ~lMac[s].overlaps /\ lLogger.mac /\ lSession = s =>
     Open(lMac[s]) /\ StoppedOnce /\ (lPutting = s => Idle)

PastOpen ==
  \A s \in lSessions : lMac[s].writer # "none" /\ ~lMac[s].overlaps /\ ~(lLogger.mac /\ lSession = s) =>
     (Closing(lMac[s]) \/ Closed(lMac[s])) /\ lPutting # s

SessionInv == MacTypes /\ Unbegun /\ AtOpen /\ PastOpen

(* A stop that moves on, but not to the removal.                           *)
LEMMA StopMoves ==
  ASSUME lStopper \in [Log!Stoppers -> StopStates], NEW k \in Log!Stoppers, NEW r \in StopStates,
         r.at # "remove", lStopper' = [lStopper EXCEPT ![k] = r]
  PROVE  /\ lStopper' \in [Log!Stoppers -> StopStates]
         /\ \A j \in Log!Stoppers : lStopper'[j].at = "remove" => lStopper'[j] = lStopper[j]
  OBVIOUS

(* ... by its next step alone.                                             *)
LEMMA StopTurns ==
  ASSUME lStopper \in [Log!Stoppers -> StopStates], NEW k \in Log!Stoppers, NEW a \in StopSteps,
         lStopper' = [lStopper EXCEPT ![k].at = a]
  PROVE  /\ lStopper' \in [Log!Stoppers -> StopStates]
         /\ lStopper'[k].at = a /\ lStopper'[k].file = lStopper[k].file
         /\ \A j \in Log!Stoppers \ {k} : lStopper'[j] = lStopper[j]
  <1> DEFINE r == [lStopper[k] EXCEPT !.at = a]
  <1>1. lStopper[k] \in StopStates
    OBVIOUS
  <1>2. r \in StopStates /\ r.at = a /\ r.file = lStopper[k].file
    BY <1>1 DEF StopStates
  <1>3. lStopper' = [lStopper EXCEPT ![k] = r]
    OBVIOUS
  <1> HIDE DEF r
  <1> QED
    BY <1>2, <1>3

(* A stop is asked for.                                                    *)
LEMMA StopAsked ==
  ASSUME lStopper \in [Log!Stoppers -> StopStates], Log!AskStop
  PROVE  /\ lStopper' \in [Log!Stoppers -> StopStates]
         /\ \A j \in Log!Stoppers : lStopper'[j].at = "remove" => lStopper'[j] = lStopper[j]
  <1>1. CASE lBusy
    BY <1>1 DEF Log!AskStop
  <1>2. CASE ~lBusy
    <2>1. PICK k \in Log!Stoppers : lStopper' = [lStopper EXCEPT ![k].at = "begin"]
      BY <1>2 DEF Log!AskStop
    <2>2. "begin" \in StopSteps
      BY DEF StopSteps
    <2>3. /\ lStopper' \in [Log!Stoppers -> StopStates] /\ lStopper'[k].at = "begin"
          /\ \A j \in Log!Stoppers \ {k} : lStopper'[j] = lStopper[j]
      BY <2>1, <2>2, StopTurns
    <2> QED
      BY <2>3
  <1> QED
    BY <1>1, <1>2

(* What moves neither the Pi nor the copies keeps the files.               *)
LEMMA FilesAside ==
  ASSUME FileInv, UNCHANGED <<lRows, lWriting, lRemote, lLocal, lLast, lCareless>>,
         lSession' \in lSessions \cup {None}, lStopper' \in [Log!Stoppers -> StopStates],
         \A j \in Log!Stoppers : lStopper'[j].at = "remove" => lStopper'[j] = lStopper[j]
  PROVE  FileInv'
  BY DEF FileInv, FileTypes, CopiedWhole, GoneWhole, RemovesCopied

(* A recording begins on the Pi.                                           *)
LEMMA PiBeginsKeeps ==
  ASSUME FileInv, Log!PiBegins, None \notin Nat, UNCHANGED <<lLocal, lLast, lCareless>>,
         lSession' \in lSessions \cup {None}, lStopper' = lStopper
  PROVE  FileInv'
  <1>1. PICK f \in lFiles : /\ lRows[f] = None /\ lRows' = [lRows EXCEPT ![f] = 0]
                            /\ lRemote' = lRemote \cup {f} /\ lWriting' = f
    BY DEF Log!PiBegins
  <1>2. lRows' \in [lFiles -> Nat \cup {None}] /\ lRows'[f] = 0 /\ \A g \in lFiles \ {f} : lRows'[g] = lRows[g]
    BY <1>1 DEF FileInv, FileTypes
  <1>3. FileTypes'
    BY <1>1, <1>2 DEF FileInv, FileTypes
  <1>4. lLast[f] # "whole"
    BY <1>1 DEF FileInv, CopiedWhole
  <1>5. CopiedWhole' /\ GoneWhole' /\ RemovesCopied'
    BY <1>1, <1>2, <1>4 DEF FileInv, CopiedWhole, GoneWhole, RemovesCopied
  <1> QED
    BY <1>3, <1>5 DEF FileInv

(* A row is recorded on the Pi.                                            *)
LEMMA PiWritesKeeps ==
  ASSUME FileInv, Log!PiWrites, None \notin Nat
  PROVE  FileInv'
  <1>1. /\ lWriting # None /\ lRows' = [lRows EXCEPT ![lWriting] = @ + 1] /\ lWriting' \in {lWriting, None}
        /\ UNCHANGED <<lRemote, lLocal, lLast, lCareless, lSession, lStopper>>
    BY DEF Log!PiWrites, Log!loggerVars, Log!copyVars
  <1>2. lWriting \in lFiles /\ lRows[lWriting] \in Nat /\ lRows \in [lFiles -> Nat \cup {None}]
    BY <1>1 DEF FileInv, FileTypes
  <1>3. /\ lRows' \in [lFiles -> Nat \cup {None}] /\ lRows'[lWriting] \in Nat
        /\ \A g \in lFiles \ {lWriting} : lRows'[g] = lRows[g]
    BY <1>1, <1>2
  <1>4. FileTypes'
    BY <1>1, <1>2, <1>3 DEF FileInv, FileTypes
  <1>5. lLast[lWriting] # "whole" /\ lRows[lWriting] # None
    BY <1>2 DEF FileInv, CopiedWhole
  <1>9. None \notin lFiles
    BY PartsAssumption DEF PartsAssumption, Log!LogTransferAssumption
  <1>6. CopiedWhole'
    BY <1>1, <1>2, <1>3, <1>5, <1>9 DEF FileInv, CopiedWhole
  <1>7. GoneWhole'
    BY <1>1, <1>2, <1>3, <1>5 DEF FileInv, GoneWhole
  <1>8. RemovesCopied'
    BY <1>1 DEF FileInv, RemovesCopied
  <1> QED
    BY <1>4, <1>6, <1>7, <1>8 DEF FileInv

(* A recording that is on the Pi is copied.                                *)
LEMMA CopyWorks ==
  ASSUME FileInv, NEW f, Log!Copies(f), UNCHANGED <<lRows, lWriting, lRemote, lCareless>>
  PROVE  /\ f \in lFiles /\ lLast'[f] \in {"whole", "growing"} /\ DOMAIN lLocal' = lFiles /\ DOMAIN lLast' = lFiles
         /\ \A g \in lFiles \ {f} : lLast'[g] = lLast[g]
         /\ CopiedWhole' /\ GoneWhole'
  <1>1. f \in lFiles /\ lRows[f] # None /\ f \in lRemote
    BY DEF Log!Copies, FileInv, FileTypes
  <1>2. /\ lLocal' = [lLocal EXCEPT ![f] = lRows[f]]
        /\ lLast' = [lLast EXCEPT ![f] = IF f = lWriting THEN "growing" ELSE "whole"]
        /\ DOMAIN lLocal = lFiles /\ DOMAIN lLast = lFiles
    BY DEF Log!Copies, FileInv, FileTypes
  <1>3. /\ DOMAIN lLocal' = lFiles /\ DOMAIN lLast' = lFiles
        /\ lLocal'[f] = lRows[f] /\ lLast'[f] = IF f = lWriting THEN "growing" ELSE "whole"
        /\ \A g \in lFiles \ {f} : lLast'[g] = lLast[g] /\ lLocal'[g] = lLocal[g]
    BY <1>1, <1>2
  <1>4. CopiedWhole'
    BY <1>1, <1>3 DEF FileInv, CopiedWhole
  <1>5. GoneWhole'
    BY <1>1, <1>3 DEF FileInv, GoneWhole
  <1> QED
    BY <1>1, <1>3, <1>4, <1>5

(* ... or the copy fails.                                                  *)
LEMMA CopyBreaks ==
  ASSUME FileInv, NEW f, NEW who \in {"stop", "offload", "both"}, Log!CopyFails(f, who),
         UNCHANGED <<lRows, lWriting, lRemote, lCareless>>
  PROVE  /\ f \in lFiles /\ lLast'[f] = who /\ DOMAIN lLocal' = lFiles /\ DOMAIN lLast' = lFiles
         /\ \A g \in lFiles \ {f} : lLast'[g] = lLast[g]
         /\ CopiedWhole' /\ GoneWhole'
  <1>1. f \in lFiles /\ f \in lRemote /\ DOMAIN lLocal = lFiles /\ DOMAIN lLast = lFiles
    BY DEF Log!CopyFails, FileInv, FileTypes
  <1>2. lLast' = [lLast EXCEPT ![f] = who]
    BY DEF Log!CopyFails
  <1>3. DOMAIN lLocal' = lFiles /\ \A g \in lFiles \ {f} : lLocal'[g] = lLocal[g]
    <2>1. lLocal' = lLocal \/ \E n \in 0..lRows[f] : lLocal' = [lLocal EXCEPT ![f] = n]
      BY DEF Log!CopyFails
    <2> QED
      BY <1>1, <2>1
  <1>4. DOMAIN lLast' = lFiles /\ lLast'[f] = who /\ \A g \in lFiles \ {f} : lLast'[g] = lLast[g]
    BY <1>1, <1>2
  <1>5. CopiedWhole' /\ GoneWhole'
    BY <1>1, <1>3, <1>4 DEF FileInv, CopiedWhole, GoneWhole
  <1> QED
    BY <1>1, <1>3, <1>4, <1>5

(* A stop copies.                                                          *)
LEMMA StopCopiesKeeps ==
  ASSUME FileInv, NEW k \in Log!Stoppers, Log!StopCopies(k)
  PROVE  FileInv'
  <1> DEFINE f == lStopper[k].file
  <1>1. /\ UNCHANGED <<lRows, lWriting, lRemote, lCareless, lSession>>
        /\ \/ Log!Copies(f) /\ lStopper' = [lStopper EXCEPT ![k].at = "remove"]
           \/ /\ Log!CopyFails(f, Log!Blame(k)) \/ Log!Gone(f)
              /\ lStopper' = [lStopper EXCEPT ![k].at = "end"]
    BY DEF Log!StopCopies, Log!piVars
  <1>2. lStopper \in [Log!Stoppers -> StopStates] /\ "remove" \in StopSteps /\ "end" \in StopSteps
    BY DEF FileInv, FileTypes, StopSteps
  <1> HIDE DEF f
  <1>3. CASE Log!Copies(f) /\ lStopper' = [lStopper EXCEPT ![k].at = "remove"]
    <2>1. /\ f \in lFiles /\ lLast'[f] \in {"whole", "growing"} /\ DOMAIN lLocal' = lFiles /\ DOMAIN lLast' = lFiles
          /\ \A g \in lFiles \ {f} : lLast'[g] = lLast[g]
          /\ CopiedWhole' /\ GoneWhole'
      BY <1>1, <1>3, CopyWorks
    <2>2. /\ lStopper' \in [Log!Stoppers -> StopStates] /\ lStopper'[k].file = f
          /\ \A j \in Log!Stoppers \ {k} : lStopper'[j] = lStopper[j]
      BY <1>2, <1>3, StopTurns DEF f
    <2>3. RemovesCopied'
      BY <2>1, <2>2 DEF FileInv, RemovesCopied
    <2>4. FileTypes'
      BY <1>1, <2>1, <2>2 DEF FileInv, FileTypes
    <2> QED
      BY <2>1, <2>3, <2>4 DEF FileInv
  <1>4. CASE Log!CopyFails(f, Log!Blame(k)) /\ lStopper' = [lStopper EXCEPT ![k].at = "end"]
    <2>1. /\ lStopper' \in [Log!Stoppers -> StopStates] /\ lStopper'[k].at = "end"
          /\ \A j \in Log!Stoppers \ {k} : lStopper'[j] = lStopper[j]
      BY <1>2, <1>4, StopTurns
    <2>2. Log!Blame(k) \in {"stop", "offload", "both"}
      BY DEF Log!Blame
    <2>3. /\ f \in lFiles /\ lLast'[f] = Log!Blame(k) /\ DOMAIN lLocal' = lFiles /\ DOMAIN lLast' = lFiles
          /\ \A g \in lFiles \ {f} : lLast'[g] = lLast[g]
          /\ CopiedWhole' /\ GoneWhole'
      BY <1>1, <1>4, <2>2, CopyBreaks
    <2>4. ASSUME NEW j \in Log!Stoppers, lStopper'[j].at = "remove", lStopper'[j].file \in lFiles
          PROVE  lLast'[lStopper'[j].file] \in {"whole", "growing", "offload", "both"}
      <3>1. j # k /\ lStopper'[j] = lStopper[j]
        BY <2>1, <2>4
      <3>2. CASE lStopper[j].file = f
        <4>1. Log!Blame(k) = "both"
          BY <3>1, <3>2 DEF Log!Blame, f
        <4> QED
          BY <2>3, <3>1, <3>2, <4>1
      <3>3. CASE lStopper[j].file # f
        BY <2>3, <2>4, <3>1, <3>3 DEF FileInv, RemovesCopied
      <3> QED
        BY <3>2, <3>3
    <2>5. RemovesCopied'
      BY <2>4 DEF RemovesCopied
    <2>6. FileTypes'
      BY <1>1, <2>1, <2>3 DEF FileInv, FileTypes
    <2> QED
      BY <2>3, <2>5, <2>6 DEF FileInv
  <1>5. CASE Log!Gone(f) /\ lStopper' = [lStopper EXCEPT ![k].at = "end"]
    <2>1. UNCHANGED <<lLocal, lLast>>
      BY <1>5 DEF Log!Gone
    <2>2. /\ lStopper' \in [Log!Stoppers -> StopStates] /\ lStopper'[k].at = "end"
          /\ \A j \in Log!Stoppers \ {k} : lStopper'[j] = lStopper[j]
      BY <1>2, <1>5, StopTurns
    <2>3. lSession' \in lSessions \cup {None}
      BY <1>1 DEF FileInv, FileTypes
    <2> QED
      BY <1>1, <2>1, <2>2, <2>3, FilesAside
  <1> QED
    BY <1>1, <1>3, <1>4, <1>5

(* A stop removes what it has copied.                                      *)
LEMMA StopRemovesKeeps ==
  ASSUME FileInv, NEW k \in Log!Stoppers, Log!StopRemoves(k)
  PROVE  FileInv'
  <1> DEFINE f == lStopper[k].file
  <1>1. /\ lStopper[k].at = "remove" /\ lRemote' = lRemote \ {f}
        /\ lCareless' = IF lLast[f] \in {"growing", "offload", "both"} THEN lCareless \cup {f} ELSE lCareless
        /\ lStopper' = [lStopper EXCEPT ![k].at = "end"]
        /\ UNCHANGED <<lSession, lRows, lWriting, lLocal, lLast>>
    BY DEF Log!StopRemoves
  <1> HIDE DEF f
  <1>2. lStopper \in [Log!Stoppers -> StopStates] /\ "end" \in StopSteps
    BY DEF FileInv, FileTypes, StopSteps
  <1>3. /\ lStopper' \in [Log!Stoppers -> StopStates] /\ lStopper'[k].at = "end"
        /\ \A j \in Log!Stoppers \ {k} : lStopper'[j] = lStopper[j]
    BY <1>1, <1>2, StopTurns
  <1>4. f \in lFiles \ lCareless' => lLast[f] = "whole"
    BY <1>1 DEF FileInv, RemovesCopied, f
  <1>5. GoneWhole'
    BY <1>1, <1>4 DEF FileInv, GoneWhole
  <1>6. FileTypes' /\ CopiedWhole'
    BY <1>1, <1>3 DEF FileInv, FileTypes, CopiedWhole
  <1>7. RemovesCopied'
    BY <1>1, <1>3 DEF FileInv, RemovesCopied
  <1> QED
    BY <1>5, <1>6, <1>7 DEF FileInv

(* The offload copies.                                                     *)
LEMMA OffloadCopiesKeeps ==
  ASSUME FileInv, Log!OffloadCopies
  PROVE  FileInv'
  <1> DEFINE f == Log!Min(lOffload.todo)
  <1>1. /\ UNCHANGED <<lStopper, lSession, lRows, lWriting, lRemote, lCareless>>
        /\ Log!Copies(f) \/ Log!CopyFails(f, "offload") \/ Log!Gone(f)
    BY DEF Log!OffloadCopies, Log!loggerVars, Log!piVars
  <1> HIDE DEF f
  <1>2. CASE Log!Copies(f) \/ Log!CopyFails(f, "offload")
    <2>1. /\ f \in lFiles /\ lLast'[f] \in {"whole", "growing", "offload", "both"}
          /\ DOMAIN lLocal' = lFiles /\ DOMAIN lLast' = lFiles
          /\ \A g \in lFiles \ {f} : lLast'[g] = lLast[g]
          /\ CopiedWhole' /\ GoneWhole'
      <3>1. CASE Log!Copies(f)
        BY <1>1, <3>1, CopyWorks
      <3>2. CASE Log!CopyFails(f, "offload")
        BY <1>1, <3>2, CopyBreaks
      <3> QED
        BY <1>2, <3>1, <3>2
    <2>2. RemovesCopied'
      BY <1>1, <2>1 DEF FileInv, RemovesCopied
    <2>3. FileTypes'
      BY <1>1, <2>1 DEF FileInv, FileTypes
    <2> QED
      BY <2>1, <2>2, <2>3 DEF FileInv
  <1>3. CASE Log!Gone(f)
    BY <1>1, <1>3, FilesAside DEF Log!Gone, FileInv, FileTypes
  <1> QED
    BY <1>1, <1>2, <1>3

(* The offload deletes.                                                    *)
LEMMA OffloadDeletesKeeps ==
  ASSUME FileInv, Log!OffloadDeletes
  PROVE  FileInv'
  <1> DEFINE f == Log!Min(lOffload.todo)
  <1>1. /\ lRemote' = lRemote \ {f}
        /\ lCareless' = IF f \in lRemote /\ lLast[f] # "whole" THEN lCareless \cup {f} ELSE lCareless
        /\ UNCHANGED <<lStopper, lSession, lRows, lWriting, lLocal, lLast>>
    BY DEF Log!OffloadDeletes, Log!loggerVars
  <1> HIDE DEF f
  <1>2. GoneWhole'
    BY <1>1 DEF FileInv, GoneWhole
  <1>3. FileTypes' /\ CopiedWhole' /\ RemovesCopied'
    BY <1>1 DEF FileInv, FileTypes, CopiedWhole, RemovesCopied
  <1> QED
    BY <1>2, <1>3 DEF FileInv
(* The invariant of the files is inductive.                                *)
LEMMA FileStep ==
  ASSUME FileInv, None \notin Nat, [Log!Next]_Log!vars
  PROVE  FileInv'
  <1>0. /\ lStopper \in [Log!Stoppers -> StopStates] /\ lSession \in lSessions \cup {None}
        /\ {"idle", "begin", "tell", "list", "copy", "remove", "join", "end"} = StopSteps
    BY DEF FileInv, FileTypes, StopSteps
  <1> USE DEF Log!loggerVars, Log!macVars, Log!piVars, Log!copyVars
  <1>1. CASE Log!StartPi
    <2>1. UNCHANGED <<lStopper, lSession, lLocal, lLast, lCareless>>
      BY <1>1 DEF Log!StartPi
    <2>2. Log!PiBegins \/ UNCHANGED <<lRows, lWriting, lRemote>>
      BY <1>1 DEF Log!StartPi
    <2> QED
      BY <1>0, <2>1, <2>2, PiBeginsKeeps, FilesAside
  <1>2. CASE Log!OtherClientStarts
    <2>1. Log!PiBegins /\ UNCHANGED <<lStopper, lSession, lLocal, lLast, lCareless>>
      BY <1>2 DEF Log!OtherClientStarts
    <2> QED
      BY <1>0, <2>1, PiBeginsKeeps
  <1>3. CASE Log!PiWrites
    BY <1>3, PiWritesKeeps
  <1>4. CASE Log!StartMac
    <2>1. /\ UNCHANGED <<lStopper, lRows, lWriting, lRemote, lLocal, lLast, lCareless>>
          /\ lSession' \in lSessions
      BY <1>4 DEF Log!StartMac
    <2> QED
      BY <1>0, <2>1, FilesAside
  <1>5. CASE Log!ToggleOff \/ Log!PiDone
    <2>1. Log!AskStop /\ UNCHANGED <<lSession, lRows, lWriting, lRemote, lLocal, lLast, lCareless>>
      BY <1>5 DEF Log!ToggleOff, Log!PiDone
    <2> QED
      BY <1>0, <2>1, StopAsked, FilesAside
  <1>6. CASE Log!Row
    <2>1. UNCHANGED <<lStopper, lSession, lRows, lWriting, lRemote, lLocal, lLast, lCareless>>
      BY <1>6 DEF Log!Row
    <2> QED
      BY <1>0, <2>1, FilesAside
  <1>7. CASE Log!PutRow
    <2>1. /\ Log!AskStop \/ UNCHANGED lStopper
          /\ UNCHANGED <<lSession, lRows, lWriting, lRemote, lLocal, lLast, lCareless>>
      BY <1>7 DEF Log!PutRow
    <2> QED
      BY <1>0, <2>1, StopAsked, FilesAside
  <1>8. CASE Log!OffloadLists \/ Log!OffloadCopied
    <2>1. UNCHANGED <<lStopper, lSession, lRows, lWriting, lRemote, lLocal, lLast, lCareless>>
      BY <1>8 DEF Log!OffloadLists, Log!OffloadCopied
    <2> QED
      BY <1>0, <2>1, FilesAside
  <1>9. CASE Log!OffloadCopies \/ Log!OffloadDeletes
    BY <1>9, OffloadCopiesKeeps, OffloadDeletesKeeps
  <1>10. ASSUME NEW s \in lSessions, Log!WriterTakes(s)
         PROVE  FileInv'
    <2>1. UNCHANGED <<lStopper, lSession, lRows, lWriting, lRemote, lLocal, lLast, lCareless>>
      BY <1>10 DEF Log!WriterTakes
    <2> QED
      BY <1>0, <2>1, FilesAside
  <1>11. ASSUME NEW k \in Log!Stoppers, Log!StopBegins(k)
         PROVE  FileInv'
    <2>1. UNCHANGED <<lSession, lRows, lWriting, lRemote, lLocal, lLast, lCareless>>
      BY <1>11 DEF Log!StopBegins
    <2>2. \/ lStopper' = [lStopper EXCEPT ![k].at = "tell"]
          \/ lStopper' = [lStopper EXCEPT ![k] = [at |-> "join", session |-> lSession, file |-> None]]
          \/ lStopper' = [lStopper EXCEPT ![k].at = "end"]
      BY <1>11 DEF Log!StopBegins
    <2>3. [at |-> "join", session |-> lSession, file |-> None] \in StopStates
      BY <1>0 DEF StopStates
    <2>4. /\ lStopper' \in [Log!Stoppers -> StopStates]
          /\ \A j \in Log!Stoppers : lStopper'[j].at = "remove" => lStopper'[j] = lStopper[j]
      <3>1. CASE lStopper' = [lStopper EXCEPT ![k] = [at |-> "join", session |-> lSession, file |-> None]]
        BY <1>0, <2>3, <3>1, StopMoves
      <3>2. CASE lStopper' = [lStopper EXCEPT ![k].at = "tell"]
        BY <1>0, <3>2, StopTurns
      <3>3. CASE lStopper' = [lStopper EXCEPT ![k].at = "end"]
        BY <1>0, <3>3, StopTurns
      <3> QED
        BY <2>2, <3>1, <3>2, <3>3
    <2> QED
      BY <1>0, <2>1, <2>4, FilesAside
  <1>12. ASSUME NEW k \in Log!Stoppers, Log!StopJoins(k)
         PROVE  FileInv'
    <2>1. /\ UNCHANGED <<lSession, lRows, lWriting, lRemote, lLocal, lLast, lCareless>>
          /\ lStopper' = [lStopper EXCEPT ![k].at = "end"]
      BY <1>12 DEF Log!StopJoins
    <2> QED
      BY <1>0, <2>1, StopTurns, FilesAside
  <1>13. ASSUME NEW k \in Log!Stoppers, Log!StopTells(k)
         PROVE  FileInv'
    <2>1. /\ UNCHANGED <<lSession, lRows, lRemote, lLocal, lLast, lCareless>> /\ lWriting' \in {lWriting, None}
          /\ lStopper' = [lStopper EXCEPT ![k].at = "list"]
      BY <1>13 DEF Log!StopTells
    <2>2. /\ lStopper' \in [Log!Stoppers -> StopStates] /\ lStopper'[k].at = "list"
          /\ \A j \in Log!Stoppers \ {k} : lStopper'[j] = lStopper[j]
      BY <1>0, <2>1, StopTurns
    <2>3. None \notin lFiles
      BY PartsAssumption DEF PartsAssumption, Log!LogTransferAssumption
    <2>4. FileTypes'
      BY <2>1, <2>2 DEF FileInv, FileTypes
    <2>5. CopiedWhole' /\ GoneWhole'
      BY <2>1, <2>3 DEF FileInv, CopiedWhole, GoneWhole
    <2>6. RemovesCopied'
      BY <2>1, <2>2 DEF FileInv, RemovesCopied
    <2> QED
      BY <2>4, <2>5, <2>6 DEF FileInv
  <1>14. ASSUME NEW k \in Log!Stoppers, Log!StopLists(k)
         PROVE  FileInv'
    <2>1. /\ UNCHANGED <<lSession, lRows, lWriting, lRemote, lLocal, lLast, lCareless>>
          /\ \E at \in {"copy", "end"}, f \in {None, Log!Max(lRemote)} \cup lRemote :
                lStopper' = [lStopper EXCEPT ![k] = [Log!IdleStop EXCEPT !.at = at, !.file = f]]
      BY <1>14 DEF Log!StopLists
    <2>2. lRemote \subseteq lFiles
      BY DEF FileInv, FileTypes
    <2>3. PICK at \in {"copy", "end"}, f \in {None, Log!Max(lRemote)} \cup lRemote :
            lStopper' = [lStopper EXCEPT ![k] = [Log!IdleStop EXCEPT !.at = at, !.file = f]]
      BY <2>1
    <2>4. PICK r : /\ r = [Log!IdleStop EXCEPT !.at = at, !.file = f]
                   /\ lStopper' = [lStopper EXCEPT ![k] = r]
      BY <2>3
    <2>5. f \in lFiles \cup {None} \cup {Log!Max(S) : S \in SUBSET lFiles}
      BY <2>2
    <2>6. r = [at |-> at, session |-> None, file |-> f]
      BY <2>4 DEF Log!IdleStop
    <2>7. r \in StopStates /\ r.at # "remove"
      BY <1>0, <2>5, <2>6 DEF StopStates
    <2> QED
      BY <1>0, <2>1, <2>4, <2>7, StopMoves, FilesAside
  <1>15. ASSUME NEW k \in Log!Stoppers, Log!StopCopies(k) \/ Log!StopRemoves(k)
         PROVE  FileInv'
    BY <1>15, StopCopiesKeeps, StopRemovesKeeps
  <1>16. ASSUME NEW k \in Log!Stoppers, Log!StopEnds(k)
         PROVE  FileInv'
    <2>1. /\ UNCHANGED <<lSession, lRows, lWriting, lRemote, lLocal, lLast, lCareless>>
          /\ lStopper' = [lStopper EXCEPT ![k] = Log!IdleStop]
      BY <1>16 DEF Log!StopEnds
    <2>2. Log!IdleStop \in StopStates /\ Log!IdleStop.at # "remove"
      BY <1>0 DEF StopStates, Log!IdleStop
    <2> QED
      BY <1>0, <2>1, <2>2, StopMoves, FilesAside
  <1>17. CASE UNCHANGED Log!vars
    BY <1>0, <1>17, FilesAside DEF Log!vars
  <1> QED
    BY <1>1, <1>2, <1>3, <1>4, <1>5, <1>6, <1>7, <1>8, <1>9, <1>10, <1>11, <1>12, <1>13, <1>14, <1>15, <1>16, <1>17
       DEF Log!Next, Log!Ui, Log!Offload, Log!Stop

(* It holds before anything is recorded.                                  *)
LEMMA FilesBegin == Log!Init => FileInv
  <1> SUFFICES ASSUME Log!Init
               PROVE  FileInv
    OBVIOUS
  <1>1. /\ lSession = None /\ lStopper = [k \in Log!Stoppers |-> Log!IdleStop]
        /\ lRows = [f \in lFiles |-> None] /\ lWriting = None /\ lRemote = {}
        /\ lLocal = [f \in lFiles |-> None] /\ lLast = [f \in lFiles |-> "none"]
    BY DEF Log!Init
  <1>2. Log!IdleStop \in StopStates /\ Log!IdleStop.at # "remove"
    BY DEF StopStates, StopSteps, Log!IdleStop
  <1>3. FileTypes
    BY <1>1, <1>2 DEF FileTypes
  <1> QED
    BY <1>1, <1>2, <1>3 DEF FileInv, CopiedWhole, GoneWhole, RemovesCopied

(* What a stop removes from the Pi is whole on the laptop.                 *)
THEOREM RemovalIsSafe == PartsSpec => []RemovedIsWhole
  <1>1. None \notin Nat
    BY PartsAssumption DEF PartsAssumption, Log!LogTransferAssumption
  <1>2. Log!Init => FileInv
    BY FilesBegin
  <1>3. FileInv /\ [Log!Next]_Log!vars => FileInv'
    BY <1>1, FileStep
  <1>4. FileInv => RemovedIsWhole
    BY DEF FileInv, CopiedWhole, GoneWhole, RemovedIsWhole, Log!RemovedIsWhole, Log!Whole
  <1> QED
    BY <1>2, <1>3, <1>4, LogMoves, PTL DEF Log!Spec
(* A recording that takes a row, or the marker.                            *)
LEMMA Enqueued ==
  ASSUME NEW m \in Recordings
  PROVE  /\ \A n : n = [m EXCEPT !.queue = Append(@, "row"), !.accepted = @ + 1] =>
              /\ n \in Recordings /\ n.writer = m.writer /\ n.overlaps = m.overlaps
              /\ Open(m) => Open(n)
         /\ \A n : n = [m EXCEPT !.queue = Append(@, "stop")] =>
              /\ n \in Recordings /\ n.writer = m.writer /\ n.overlaps = m.overlaps
              /\ Open(m) => Closing(n)
  <1>0. /\ m.queue \in Seq({"row", "stop"}) /\ m.file \in Nat /\ m.accepted \in Nat
        /\ m.writer \in {"none", "runs", "done"} /\ m.overlaps \in BOOLEAN
    BY DEF Recordings
  <1>1. ASSUME NEW n, n = [m EXCEPT !.queue = Append(@, "row"), !.accepted = @ + 1]
        PROVE  /\ n \in Recordings /\ n.writer = m.writer /\ n.overlaps = m.overlaps
               /\ Open(m) => Open(n)
    <2> DEFINE q == Append(m.queue, "row")
               a == m.accepted + 1
    <2>1. q \in Seq({"row", "stop"}) /\ a \in Nat /\ n = [m EXCEPT !.queue = q, !.accepted = a]
      BY <1>0, <1>1 DEF Recordings
    <2> HIDE DEF q, a
    <2>2. n \in Recordings
      BY <2>1 DEF Recordings
    <2>3. /\ n.writer = m.writer /\ n.overlaps = m.overlaps /\ n.queue = Append(m.queue, "row")
          /\ n.file = m.file /\ n.accepted = m.accepted + 1
      BY <1>1 DEF Recordings
    <2>4. ASSUME Open(m)
          PROVE  Open(n)
      <3>1. m.queue \in Seq({"row"}) /\ m.file + Len(m.queue) = m.accepted /\ m.writer = "runs"
        BY <2>4 DEF Open
      <3>2. Append(m.queue, "row") \in Seq({"row"}) /\ Len(Append(m.queue, "row")) = Len(m.queue) + 1
        BY <3>1
      <3>3. Len(m.queue) \in Nat
        BY <1>0
      <3>4. Len(n.queue) = Len(m.queue) + 1
        BY <2>3, <3>2
      <3> DEFINE x == m.file
                 y == Len(m.queue)
                 z == m.accepted
      <3>5. x \in Nat /\ y \in Nat /\ z \in Nat /\ x + y = z
        BY <1>0, <3>1, <3>3
      <3>6. n.file = x /\ Len(n.queue) = y + 1 /\ n.accepted = z + 1
        BY <2>3, <3>4
      <3> HIDE DEF x, y, z
      <3>7. n.file + Len(n.queue) = n.accepted
        BY <3>5, <3>6
      <3> QED
        BY <2>3, <3>1, <3>2, <3>7 DEF Open
    <2> QED
      BY <2>2, <2>3, <2>4
  <1>2. ASSUME NEW n, n = [m EXCEPT !.queue = Append(@, "stop")]
        PROVE  /\ n \in Recordings /\ n.writer = m.writer /\ n.overlaps = m.overlaps
               /\ Open(m) => Closing(n)
    <2>1. Append(m.queue, "stop") \in Seq({"row", "stop"})
      BY <1>0
    <2>2. n \in Recordings
      BY <1>2, <2>1 DEF Recordings
    <2>3. /\ n.writer = m.writer /\ n.overlaps = m.overlaps /\ n.queue = Append(m.queue, "stop")
          /\ n.file = m.file /\ n.accepted = m.accepted
      BY <1>2 DEF Recordings
    <2> QED
      BY <2>2, <2>3 DEF Open, Closing
  <1> QED
    BY <1>1, <1>2

(* The writer takes what is first in the queue.                            *)
LEMMA Dequeued ==
  ASSUME NEW m \in Recordings, m.queue # <<>>, NEW n,
         n = [m EXCEPT !.queue = Tail(@),
                       !.file = IF Head(m.queue) = "row" THEN @ + 1 ELSE @,
                       !.writer = IF Head(m.queue) = "row" THEN @ ELSE "done"]
  PROVE  /\ n \in Recordings /\ n.overlaps = m.overlaps /\ (m.writer # "none" => n.writer # "none")
         /\ Open(m) => Open(n)
         /\ Closing(m) => Closing(n) \/ Closed(n)
  <1>0. /\ m.queue \in Seq({"row", "stop"}) /\ m.file \in Nat /\ m.accepted \in Nat
        /\ m.writer \in {"none", "runs", "done"} /\ m.overlaps \in BOOLEAN
    BY DEF Recordings
  <1>1. Tail(m.queue) \in Seq({"row", "stop"})
    BY <1>0
  <1> DEFINE t == Tail(m.queue)
             x == IF Head(m.queue) = "row" THEN m.file + 1 ELSE m.file
             w == IF Head(m.queue) = "row" THEN m.writer ELSE "done"
  <1>2. t \in Seq({"row", "stop"}) /\ x \in Nat /\ w \in {"none", "runs", "done"}
    BY <1>0, <1>1
  <1>3. n = [m EXCEPT !.queue = t, !.file = x, !.writer = w]
    BY DEF Recordings
  <1> HIDE DEF t, x, w
  <1>4. n \in Recordings
    BY <1>2, <1>3 DEF Recordings
  <1>5. n.overlaps = m.overlaps /\ n.accepted = m.accepted /\ n.queue = t /\ n.file = x /\ n.writer = w
    BY <1>3 DEF Recordings
  <1>6. ASSUME Open(m)
        PROVE  Open(n)
    <2>1. m.queue \in Seq({"row"}) /\ m.file + Len(m.queue) = m.accepted /\ m.writer = "runs"
      BY <1>6 DEF Open
    <2>2. Head(m.queue) = "row" /\ t \in Seq({"row"}) /\ Len(t) = Len(m.queue) - 1 /\ Len(m.queue) \in Nat
      BY <2>1 DEF t
    <2>3. x = m.file + 1 /\ w = "runs"
      BY <2>1, <2>2 DEF x, w
    <2>4. x + Len(t) = m.accepted
      BY <1>0, <2>1, <2>2, <2>3
    <2> QED
      BY <1>5, <2>2, <2>3, <2>4 DEF Open
  <1>7. ASSUME Closing(m)
        PROVE  Closing(n) \/ Closed(n)
    <2>1. PICK r \in Seq({"row"}) : m.queue = Append(r, "stop") /\ m.file + Len(r) = m.accepted
      BY <1>7 DEF Closing
    <2>2. m.writer = "runs"
      BY <1>7 DEF Closing
    <2>3. CASE r = <<>>
      <3>1. m.queue = <<"stop">> /\ Len(r) = 0
        BY <2>1, <2>3
      <3>2. x = m.file /\ w = "done"
        BY <3>1 DEF x, w
      <3>3. m.file = m.accepted
        BY <1>0, <2>1, <3>1
      <3> QED
        BY <1>5, <3>2, <3>3 DEF Closed
    <2>4. CASE r # <<>>
      <3>1. Head(m.queue) = Head(r) /\ t = Append(Tail(r), "stop")
        BY <2>1, <2>4, HeadTailAppend DEF t
      <3>2. Head(r) = "row" /\ Tail(r) \in Seq({"row"}) /\ Len(Tail(r)) = Len(r) - 1 /\ Len(r) \in Nat
        BY <2>4
      <3>3. x = m.file + 1 /\ w = "runs"
        BY <2>2, <3>1, <3>2 DEF x, w
      <3>4. x + Len(Tail(r)) = m.accepted
        BY <1>0, <2>1, <3>2, <3>3
      <3> QED
        BY <1>5, <3>1, <3>2, <3>3, <3>4 DEF Closing
    <2> QED
      BY <2>3, <2>4
  <1>8. m.writer # "none" => n.writer # "none"
    BY <1>5 DEF w
  <1> QED
    BY <1>4, <1>5, <1>6, <1>7, <1>8

(* A stop that is asked for once it can be is the only one.                *)
LEMMA AskedOnce ==
  ASSUME lStopper \in [Log!Stoppers -> StopStates], Log!AskStop, StoppedOnce, lLogger' = lLogger, lPutting' = None
  PROVE  StoppedOnce'
  <1>1. CASE lBusy
    BY <1>1 DEF Log!AskStop, StoppedOnce
  <1>2. CASE ~lBusy
    <2>1. PICK k \in Log!Stoppers : /\ lStopper' = [lStopper EXCEPT ![k].at = "begin"]
                                     /\ lBusy' = (\A j \in Log!Stoppers : lStopper[j].at = "idle")
      BY <1>2 DEF Log!AskStop
    <2>2. Idle
      BY <1>2 DEF StoppedOnce
    <2>3. "begin" \in StopSteps
      BY DEF StopSteps
    <2>4. /\ lStopper'[k].at = "begin" /\ \A j \in Log!Stoppers \ {k} : lStopper'[j] = lStopper[j]
      BY <2>1, <2>3, StopTurns
    <2> QED
      BY <2>1, <2>2, <2>4 DEF StoppedOnce, Idle
  <1> QED
    BY <1>1, <1>2

(* The flag stays a flag.                                                  *)
LEMMA AskedFlag ==
  ASSUME lBusy \in BOOLEAN, Log!AskStop
  PROVE  lBusy' \in BOOLEAN
  <1>1. CASE lBusy
    BY <1>1 DEF Log!AskStop
  <1>2. CASE ~lBusy
    BY <1>2 DEF Log!AskStop
  <1> QED
    BY <1>1, <1>2

(* A stop is asked for while no row is on its way.                         *)
LEMMA AskKeeps ==
  ASSUME SessionInv, lStopper \in [Log!Stoppers -> StopStates], Log!AskStop, lPutting = None,
         UNCHANGED <<lLogger, lSession, lMac, lPutting>>, None \notin lSessions
  PROVE  SessionInv'
  <1>1. MacTypes' /\ Unbegun'
    BY AskedFlag DEF SessionInv, MacTypes, Unbegun
  <1>2. StoppedOnce => StoppedOnce'
    BY AskedOnce
  <1>3. AtOpen' /\ PastOpen'
    BY <1>2 DEF SessionInv, AtOpen, PastOpen
  <1> QED
    BY <1>1, <1>3 DEF SessionInv

(* A recording on the Pi begins.                                           *)
LEMMA PiStarts ==
  ASSUME SessionInv, Log!StartPi
  PROVE  SessionInv'
  <1>1. /\ ~lLogger.mac /\ lPutting = None /\ lLogger' = [tier |-> "pi", pi |-> TRUE, mac |-> FALSE]
        /\ lBusy' = FALSE /\ UNCHANGED <<lStopper, lSession, lMac, lPutting>>
    BY DEF Log!StartPi, Log!IsLogging, Log!macVars
  <1>2. lLogger' \in [tier : {None, "pi", "mac"}, pi : BOOLEAN, mac : BOOLEAN] /\ ~lLogger'.mac
    BY <1>1
  <1>3. MacTypes'
    BY <1>1, <1>2 DEF SessionInv, MacTypes
  <1>4. Unbegun' /\ AtOpen' /\ PastOpen'
    BY <1>1, <1>2 DEF SessionInv, Unbegun, AtOpen, PastOpen
  <1> QED
    BY <1>3, <1>4 DEF SessionInv

(* A recording on the laptop begins.                                       *)
LEMMA MacStarts ==
  ASSUME SessionInv, Log!StartMac, None \notin lSessions
  PROVE  SessionInv'
  <1>1. PICK s \in lSessions :
          /\ ~lLogger.mac /\ lPutting = None /\ lLogger' = [tier |-> "mac", pi |-> FALSE, mac |-> TRUE]
          /\ lBusy' = FALSE /\ lSession' = s /\ lMac[s].writer = "none" /\ UNCHANGED <<lStopper, lPutting>>
          /\ lMac' = [lMac EXCEPT ![s].writer = "runs",
                                   ![s].overlaps = \E k \in Log!Stoppers : lStopper[k].at # "idle"]
    BY DEF Log!StartMac, Log!IsLogging
  <1> DEFINE o == \E k \in Log!Stoppers : lStopper[k].at # "idle"
             r == [lMac[s] EXCEPT !.writer = "runs", !.overlaps = o]
  <1>2. lMac \in [lSessions -> Recordings] /\ o \in BOOLEAN /\ (~o => Idle)
    BY DEF SessionInv, MacTypes, Idle
  <1>3. lMac' = [lMac EXCEPT ![s] = r]
    BY <1>1, <1>2
  <1>4. lMac[s] \in Recordings
    BY <1>2
  <1> HIDE DEF o
  <1>5. /\ r \in Recordings /\ r.writer = "runs" /\ r.overlaps = o
        /\ r.queue = lMac[s].queue /\ r.file = lMac[s].file /\ r.accepted = lMac[s].accepted
    BY <1>2, <1>4 DEF Recordings
  <1> HIDE DEF r
  <1>6. /\ lMac' \in [lSessions -> Recordings] /\ lMac'[s] = r
        /\ \A q \in lSessions \ {s} : lMac'[q] = lMac[q]
    BY <1>2, <1>3, <1>5
  <1>7. /\ lLogger' \in [tier : {None, "pi", "mac"}, pi : BOOLEAN, mac : BOOLEAN]
        /\ lLogger'.tier = "mac" /\ ~lLogger'.pi /\ lLogger'.mac
    BY <1>1
  <1>8. MacTypes'
    BY <1>1, <1>5, <1>6, <1>7 DEF SessionInv, MacTypes
  <1>9. Open(r)
    <2>1. r.queue = <<>> /\ r.file = 0 /\ r.accepted = 0
      BY <1>1, <1>5 DEF SessionInv, Unbegun
    <2>2. <<>> \in Seq({"row"}) /\ Len(<<>>) = 0
      OBVIOUS
    <2> QED
      BY <1>5, <2>1, <2>2 DEF Open
  <1>10. ~o => StoppedOnce' /\ Idle'
    BY <1>1, <1>2, <1>7 DEF StoppedOnce, Idle
  <1>11. Unbegun'
    BY <1>5, <1>6 DEF SessionInv, Unbegun
  <1>12. AtOpen'
    BY <1>1, <1>5, <1>6, <1>9, <1>10 DEF AtOpen
  <1>13. PastOpen'
    BY <1>1, <1>6, <1>7 DEF SessionInv, PastOpen
  <1> QED
    BY <1>8, <1>11, <1>12, <1>13 DEF SessionInv

(* A row is on its way.                                                    *)
LEMMA RowComes ==
  ASSUME SessionInv, Log!Row
  PROVE  SessionInv'
  <1>1. /\ lLogger.mac /\ ~lBusy /\ lPutting' = lSession
        /\ UNCHANGED <<lLogger, lBusy, lStopper, lSession, lMac>>
    BY DEF Log!Row, Log!loggerVars
  <1>2. lSession \in lSessions /\ lMac[lSession].writer # "none"
    BY <1>1 DEF SessionInv, MacTypes
  <1>3. MacTypes' /\ Unbegun'
    BY <1>1, <1>2 DEF SessionInv, MacTypes, Unbegun
  <1>4. StoppedOnce => StoppedOnce' /\ Idle'
    BY <1>1 DEF StoppedOnce, Idle
  <1>5. AtOpen' /\ PastOpen'
    BY <1>1, <1>4 DEF SessionInv, AtOpen, PastOpen
  <1> QED
    BY <1>3, <1>5 DEF SessionInv

(* A row is put into the queue.                                            *)
LEMMA RowIsPut ==
  ASSUME SessionInv, lStopper \in [Log!Stoppers -> StopStates], Log!PutRow, None \notin lSessions
  PROVE  SessionInv'
  <1> DEFINE s == lPutting
  <1>1. /\ s # None /\ lPutting' = None /\ UNCHANGED <<lLogger, lSession>>
        /\ lMac' = [lMac EXCEPT ![s].queue = Append(@, "row"), ![s].accepted = @ + 1]
        /\ Log!AskStop \/ UNCHANGED <<lBusy, lStopper>>
    BY DEF Log!PutRow
  <1>2. s \in lSessions /\ lMac[s].writer # "none" /\ lMac \in [lSessions -> Recordings] /\ lMac[s] \in Recordings
    BY <1>1 DEF SessionInv, MacTypes
  <1>3. PICK r : /\ r = [lMac[s] EXCEPT !.queue = Append(@, "row"), !.accepted = @ + 1]
                 /\ lMac' = [lMac EXCEPT ![s] = r]
    BY <1>1, <1>2
  <1> HIDE DEF s
  <1>4. /\ r \in Recordings /\ r.writer = lMac[s].writer /\ r.overlaps = lMac[s].overlaps
        /\ Open(lMac[s]) => Open(r)
    BY <1>2, <1>3, Enqueued, ZenonT(60)
  <1>5. /\ lMac' \in [lSessions -> Recordings] /\ lMac'[s] = r
        /\ \A q \in lSessions \ {s} : lMac'[q] = lMac[q]
    BY <1>2, <1>3, <1>4
  <1>6. lBusy' \in BOOLEAN
    BY <1>1, AskedFlag DEF SessionInv, MacTypes
  <1>7. MacTypes'
    BY <1>1, <1>2, <1>4, <1>5, <1>6 DEF SessionInv, MacTypes
  <1>8. Unbegun'
    BY <1>2, <1>4, <1>5 DEF SessionInv, Unbegun
  <1>9. StoppedOnce => StoppedOnce'
    <2>1. CASE Log!AskStop
      BY <1>1, <2>1, AskedOnce
    <2>2. CASE UNCHANGED <<lBusy, lStopper>>
      BY <1>1, <2>2 DEF StoppedOnce, Idle
    <2> QED
      BY <1>1, <2>1, <2>2
  <1>10. ASSUME NEW q \in lSessions, lMac'[q].writer # "none", ~lMac'[q].overlaps
         PROVE  /\ lMac[q].writer # "none" /\ ~lMac[q].overlaps
                /\ Open(lMac[q]) => Open(lMac'[q])
                /\ q # s => lMac'[q] = lMac[q]
    <2>1. CASE q = s
      BY <1>2, <1>4, <1>5, <1>10, <2>1
    <2>2. CASE q # s
      BY <1>5, <1>10, <2>2
    <2> QED
      BY <2>1, <2>2
  <1>11. AtOpen'
    BY <1>1, <1>9, <1>10 DEF SessionInv, AtOpen
  <1>12. PastOpen'
    BY <1>1, <1>10 DEF SessionInv, PastOpen, s
  <1> QED
    BY <1>7, <1>8, <1>11, <1>12 DEF SessionInv
(* The writer of a recording goes on.                                      *)
LEMMA WriterGoes ==
  ASSUME SessionInv, NEW s \in lSessions, Log!WriterTakes(s)
  PROVE  SessionInv'
  <1>1. /\ lMac[s].writer = "runs" /\ lMac[s].queue # <<>>
        /\ UNCHANGED <<lLogger, lBusy, lStopper, lSession, lPutting>>
        /\ lMac' = [lMac EXCEPT ![s].queue = Tail(@),
                               ![s].file = IF Head(lMac[s].queue) = "row" THEN @ + 1 ELSE @,
                               ![s].writer = IF Head(lMac[s].queue) = "row" THEN @ ELSE "done"]
    BY DEF Log!WriterTakes, Log!loggerVars
  <1>2. lMac \in [lSessions -> Recordings] /\ lMac[s] \in Recordings
    BY DEF SessionInv, MacTypes
  <1>3. PICK r : /\ r = [lMac[s] EXCEPT !.queue = Tail(@),
                                        !.file = IF Head(lMac[s].queue) = "row" THEN @ + 1 ELSE @,
                                        !.writer = IF Head(lMac[s].queue) = "row" THEN @ ELSE "done"]
                 /\ lMac' = [lMac EXCEPT ![s] = r]
    BY <1>1, <1>2
  <1>4. /\ r \in Recordings /\ r.overlaps = lMac[s].overlaps /\ r.writer # "none"
        /\ Open(lMac[s]) => Open(r)
        /\ Closing(lMac[s]) => Closing(r) \/ Closed(r)
    <2> DEFINE m == lMac[s]
    <2>1. m \in Recordings /\ m.queue # <<>> /\ m.writer # "none"
      BY <1>1, <1>2
    <2>2. r = [m EXCEPT !.queue = Tail(@),
                        !.file = IF Head(m.queue) = "row" THEN @ + 1 ELSE @,
                        !.writer = IF Head(m.queue) = "row" THEN @ ELSE "done"]
      BY <1>3
    <2> HIDE DEF m
    <2>3. /\ r \in Recordings /\ r.overlaps = m.overlaps /\ r.writer # "none"
          /\ Open(m) => Open(r)
          /\ Closing(m) => Closing(r) \/ Closed(r)
      BY <2>1, <2>2, Dequeued, ZenonT(60)
    <2> QED
      BY <2>3 DEF m
  <1>5. /\ lMac' \in [lSessions -> Recordings] /\ lMac'[s] = r
        /\ \A q \in lSessions \ {s} : lMac'[q] = lMac[q]
    BY <1>2, <1>3, <1>4
  <1>6. MacTypes'
    BY <1>1, <1>4, <1>5 DEF SessionInv, MacTypes
  <1>7. Unbegun'
    BY <1>4, <1>5 DEF SessionInv, Unbegun
  <1>8. ~Closed(lMac[s])
    BY <1>1 DEF Closed
  <1>9. (StoppedOnce => StoppedOnce') /\ (Idle => Idle')
    BY <1>1 DEF StoppedOnce, Idle
  <1>10. AtOpen'
    BY <1>1, <1>4, <1>5, <1>9 DEF SessionInv, AtOpen
  <1>11. PastOpen'
    BY <1>1, <1>4, <1>5, <1>8 DEF SessionInv, PastOpen
  <1> QED
    BY <1>6, <1>7, <1>10, <1>11 DEF SessionInv

(* A stop tells the writer, or the Pi.                                     *)
LEMMA StopGoes ==
  ASSUME SessionInv, lStopper \in [Log!Stoppers -> StopStates], NEW k \in Log!Stoppers, Log!StopBegins(k),
         None \notin lSessions
  PROVE  SessionInv'
  <1>1. lStopper[k].at = "begin" /\ UNCHANGED <<lBusy, lSession, lPutting>>
    BY DEF Log!StopBegins
  <1>2. ~Idle
    BY <1>1 DEF Idle
  <1>3. \A s \in lSessions : lMac[s].writer # "none" /\ ~lMac[s].overlaps => lPutting # s
    <2> SUFFICES ASSUME NEW s \in lSessions, lMac[s].writer # "none", ~lMac[s].overlaps, lPutting = s
                 PROVE  FALSE
      OBVIOUS
    <2> QED
      BY <1>2 DEF SessionInv, AtOpen, PastOpen
  <1>4. CASE lLogger.mac /\ ~(lLogger.tier = "pi" /\ lLogger.pi)
    <2> DEFINE s == lSession
    <2>1. /\ lLogger' = [lLogger EXCEPT !.mac = FALSE]
          /\ lMac' = [lMac EXCEPT ![s].queue = Append(@, "stop")]
      BY <1>4 DEF Log!StopBegins
    <2>2. s \in lSessions /\ lMac[s].writer # "none" /\ lMac \in [lSessions -> Recordings] /\ lMac[s] \in Recordings
      BY <1>4 DEF SessionInv, MacTypes
    <2>3. PICK r : r = [lMac[s] EXCEPT !.queue = Append(@, "stop")] /\ lMac' = [lMac EXCEPT ![s] = r]
      BY <2>1, <2>2
    <2> HIDE DEF s
    <2>4. /\ r \in Recordings /\ r.writer = lMac[s].writer /\ r.overlaps = lMac[s].overlaps
          /\ Open(lMac[s]) => Closing(r)
      BY <2>2, <2>3, Enqueued, ZenonT(60)
    <2>5. /\ lMac' \in [lSessions -> Recordings] /\ lMac'[s] = r
          /\ \A q \in lSessions \ {s} : lMac'[q] = lMac[q]
      BY <2>2, <2>3, <2>4
    <2>6. lLogger' \in [tier : {None, "pi", "mac"}, pi : BOOLEAN, mac : BOOLEAN] /\ ~lLogger'.mac
      BY <2>1 DEF SessionInv, MacTypes
    <2>7. MacTypes'
      BY <1>1, <2>2, <2>4, <2>5, <2>6 DEF SessionInv, MacTypes
    <2>8. Unbegun'
      BY <2>2, <2>4, <2>5 DEF SessionInv, Unbegun
    <2>9. AtOpen'
      BY <2>6 DEF AtOpen
    <2>10. ASSUME NEW q \in lSessions, lMac'[q].writer # "none", ~lMac'[q].overlaps
           PROVE  (Closing(lMac'[q]) \/ Closed(lMac'[q])) /\ lPutting' # q
      <3>1. CASE q = s
        <4>1. lMac[s].writer # "none" /\ ~lMac[s].overlaps
          BY <2>4, <2>5, <2>10, <3>1
        <4>2. Open(lMac[s])
          BY <1>4, <2>2, <4>1 DEF SessionInv, AtOpen, s
        <4> QED
          BY <1>1, <1>3, <2>2, <2>4, <2>5, <3>1, <4>1, <4>2
      <3>2. CASE q # s
        <4>1. lMac'[q] = lMac[q]
          BY <2>5, <3>2
        <4>2. lSession # q
          BY <3>2 DEF s
        <4> QED
          BY <1>1, <1>3, <2>10, <4>1, <4>2 DEF SessionInv, PastOpen
      <3> QED
        BY <3>1, <3>2
    <2>11. PastOpen'
      BY <2>10 DEF PastOpen
    <2> QED
      BY <2>7, <2>8, <2>9, <2>11 DEF SessionInv
  <1>5. CASE ~(lLogger.mac /\ ~(lLogger.tier = "pi" /\ lLogger.pi))
    <2>1. UNCHANGED <<lLogger, lMac>>
      BY <1>5 DEF Log!StopBegins
    <2>2. MacTypes' /\ Unbegun'
      BY <1>1, <2>1 DEF SessionInv, MacTypes, Unbegun
    <2>3. ~(lLogger.mac /\ StoppedOnce)
      BY <1>5 DEF StoppedOnce
    <2>4. AtOpen' /\ PastOpen'
      BY <1>1, <2>1, <2>3 DEF SessionInv, AtOpen, PastOpen
    <2> QED
      BY <2>2, <2>4 DEF SessionInv
  <1> QED
    BY <1>4, <1>5

(* A stop that has begun goes on, and leaves nothing behind.               *)
LEMMA StopKeeps ==
  ASSUME SessionInv, NEW k \in Log!Stoppers, lStopper[k].at \notin {"idle", "begin"},
         UNCHANGED <<lSession, lMac, lPutting>>, lBusy' \in BOOLEAN, lLogger' \in {lLogger, Log!NoLogger}
  PROVE  SessionInv'
  <1>1. ~StoppedOnce
    BY DEF StoppedOnce, Idle
  <1>2. Log!NoLogger \in [tier : {None, "pi", "mac"}, pi : BOOLEAN, mac : BOOLEAN] /\ ~Log!NoLogger.mac
    BY DEF Log!NoLogger
  <1>3. MacTypes'
    BY <1>2 DEF SessionInv, MacTypes
  <1>4. Unbegun'
    BY DEF SessionInv, Unbegun
  <1>5. AtOpen' /\ PastOpen'
    BY <1>1, <1>2 DEF SessionInv, AtOpen, PastOpen
  <1> QED
    BY <1>3, <1>4, <1>5 DEF SessionInv

(* What moves neither the logger nor its recordings keeps them.            *)
LEMMA SessionAside ==
  ASSUME SessionInv, UNCHANGED <<lLogger, lBusy, lStopper, lSession, lMac, lPutting>>
  PROVE  SessionInv'
  BY DEF SessionInv, MacTypes, Unbegun, AtOpen, PastOpen, StoppedOnce, Idle

(* The invariant of the recordings on the laptop is inductive.             *)
LEMMA SessionStep ==
  ASSUME FileInv, SessionInv, [Log!Next]_Log!vars
  PROVE  SessionInv'
  <1>0. lStopper \in [Log!Stoppers -> StopStates] /\ None \notin lSessions
    BY PartsAssumption DEF PartsAssumption, Log!LogTransferAssumption, FileInv, FileTypes
  <1> USE DEF Log!loggerVars, Log!macVars
  <1>1. CASE Log!StartPi \/ Log!StartMac \/ Log!Row \/ Log!PutRow
    BY <1>0, <1>1, PiStarts, MacStarts, RowComes, RowIsPut
  <1>2. CASE Log!ToggleOff \/ Log!PiDone
    <2>1. Log!AskStop /\ lPutting = None /\ UNCHANGED <<lLogger, lSession, lMac, lPutting>>
      BY <1>2 DEF Log!ToggleOff, Log!PiDone
    <2> QED
      BY <1>0, <2>1, AskKeeps
  <1>3. CASE Log!Offload \/ Log!OtherClientStarts \/ Log!PiWrites
    <2>1. UNCHANGED <<lLogger, lBusy, lStopper, lSession, lMac, lPutting>>
      BY <1>3 DEF Log!Offload, Log!OffloadLists, Log!OffloadCopies, Log!OffloadCopied, Log!OffloadDeletes,
         Log!OtherClientStarts, Log!PiWrites
    <2> QED
      BY <2>1, SessionAside
  <1>4. ASSUME NEW s \in lSessions, Log!WriterTakes(s)
        PROVE  SessionInv'
    BY <1>4, WriterGoes
  <1>5. ASSUME NEW k \in Log!Stoppers, Log!StopBegins(k)
        PROVE  SessionInv'
    BY <1>0, <1>5, StopGoes
  <1>6. ASSUME NEW k \in Log!Stoppers, \/ Log!StopJoins(k) \/ Log!StopTells(k) \/ Log!StopLists(k)
                                     \/ Log!StopCopies(k) \/ Log!StopRemoves(k)
        PROVE  SessionInv'
    <2>1. /\ lStopper[k].at \notin {"idle", "begin"}
          /\ UNCHANGED <<lLogger, lBusy, lSession, lMac, lPutting>>
      BY <1>6 DEF Log!StopJoins, Log!StopTells, Log!StopLists, Log!StopCopies, Log!StopRemoves
    <2>2. lBusy' \in BOOLEAN
      BY <2>1 DEF SessionInv, MacTypes
    <2> QED
      BY <2>1, <2>2, StopKeeps
  <1>7. ASSUME NEW k \in Log!Stoppers, Log!StopEnds(k)
        PROVE  SessionInv'
    <2>1. /\ lStopper[k].at \notin {"idle", "begin"} /\ lLogger' = Log!NoLogger /\ lBusy' \in BOOLEAN
          /\ UNCHANGED <<lSession, lMac, lPutting>>
      BY <1>7 DEF Log!StopEnds
    <2> QED
      BY <2>1, StopKeeps
  <1>8. CASE UNCHANGED Log!vars
    BY <1>8, SessionAside DEF Log!vars
  <1> QED
    BY <1>1, <1>2, <1>3, <1>4, <1>5, <1>6, <1>7, <1>8 DEF Log!Next, Log!Ui, Log!Stop

(* What holds of the recordings in every state.                            *)
LEMMA LogInvariance == Log!Spec => [](FileInv /\ SessionInv)
  <1>1. Log!Init => FileInv /\ SessionInv
    <2> SUFFICES ASSUME Log!Init
                 PROVE  SessionInv
      BY FilesBegin
    <2>1. /\ lLogger = Log!NoLogger /\ lBusy = FALSE /\ lPutting = None
          /\ lMac = [s \in lSessions |-> [queue |-> <<>>, file |-> 0, accepted |-> 0, writer |-> "none",
                                          overlaps |-> FALSE]]
      BY DEF Log!Init
    <2>2. [queue |-> <<>>, file |-> 0, accepted |-> 0, writer |-> "none", overlaps |-> FALSE] \in Recordings
      BY DEF Recordings
    <2>3. \A s \in lSessions : /\ lMac[s] \in Recordings /\ lMac[s].writer = "none" /\ lMac[s].queue = <<>>
                               /\ lMac[s].file = 0 /\ lMac[s].accepted = 0
      BY <2>1, <2>2
    <2>4. Log!NoLogger \in [tier : {None, "pi", "mac"}, pi : BOOLEAN, mac : BOOLEAN] /\ ~Log!NoLogger.mac
      BY DEF Log!NoLogger
    <2>5. MacTypes
      BY <2>1, <2>2, <2>4 DEF MacTypes
    <2> QED
      BY <2>3, <2>5 DEF SessionInv, Unbegun, AtOpen, PastOpen
  <1>2. FileInv /\ SessionInv /\ [Log!Next]_Log!vars => FileInv' /\ SessionInv'
    <2>1. None \notin Nat
      BY PartsAssumption DEF PartsAssumption, Log!LogTransferAssumption
    <2> QED
      BY <2>1, FileStep, SessionStep
  <1> QED
    BY <1>1, <1>2, PTL DEF Log!Spec

(* A recording on the laptop holds every row that was accepted for it.     *)
THEOREM SessionsAreKept == PartsSpec => []SessionIsKept
  <1>1. SessionInv => SessionIsKept
    <2> SUFFICES ASSUME SessionInv, NEW s \in lSessions, lMac[s].writer # "none", ~lMac[s].overlaps
                 PROVE  /\ lMac[s].writer = "done" => lMac[s].file = lMac[s].accepted
                        /\ lMac[s].writer = "runs" /\ "stop" \notin Log!Range(lMac[s].queue)
                              => lLogger.mac /\ lSession = s
      BY DEF SessionIsKept, Log!SessionIsKept
    <2>1. CASE lLogger.mac /\ lSession = s
      BY <2>1 DEF SessionInv, AtOpen, Open
    <2>2. CASE ~(lLogger.mac /\ lSession = s)
      <3>1. Closing(lMac[s]) \/ Closed(lMac[s])
        BY <2>2 DEF SessionInv, PastOpen
      <3>2. CASE Closed(lMac[s])
        BY <3>2 DEF Closed
      <3>3. CASE Closing(lMac[s])
        <4>1. PICK r \in Seq({"row"}) : lMac[s].queue = Append(r, "stop")
          BY <3>3 DEF Closing
        <4>2. Len(r) + 1 \in DOMAIN Append(r, "stop") /\ Append(r, "stop")[Len(r) + 1] = "stop"
          OBVIOUS
        <4>3. "stop" \in Log!Range(lMac[s].queue)
          BY <4>1, <4>2 DEF Log!Range
        <4> QED
          BY <3>3, <4>3 DEF Closing
      <3> QED
        BY <3>1, <3>2, <3>3
    <2> QED
      BY <2>1, <2>2
  <1> QED
    BY <1>1, LogMoves, LogInvariance, PTL

-----------------------------------------------------------------------------
(* The types of the other parts, and of all.                                *)

(* When the parts move, the dashboard moves as its module says.             *)
LEMMA DashboardMoves == PartsSpec => Spec
  <1>1. PartsInit => Init
    BY DEF PartsInit
  <1>2. [PartsNext]_allVars => [Next]_vars
    BY DEF PartsNext, allVars
  <1> QED
    BY <1>1, <1>2, PTL DEF PartsSpec, Spec

(* The network: its invariant holds more than its type.                     *)
LEMMA NetTyped == PartsSpec => []Net!TypeOK
  <1>1. NetInv => Net!TypeOK
    BY DEF NetInv, NetTypes, NetWorker, Net!TypeOK
  <1> QED
    BY <1>1, NetMoves, NetInvariance, PTL

(* The knob: the selection is a remainder, the offset a place of the dial.  *)
DialRange ==
  /\ DialTypes
  /\ kSteps \in -kMaxTurns..kMaxTurns /\ kPolled \in -kMaxTurns..kMaxTurns /\ kOffset \in -kMaxTurns..kMaxTurns
  /\ kModeBase \in Int /\ kSequence \in 0..kNumSequences - 1 /\ kSel \in 1..kNumSequences
  /\ kDetailed \in BOOLEAN /\ kCalm \in BOOLEAN
  /\ kDown \in {"up", "short", "long"} /\ kHeld \in {"no", "rebase"} /\ kPresses \in 0..kMaxPresses

(* A poll: the frequency is within its limits, the selection among the      *)
(* sequences.                                                               *)
LEMMA PolledRange ==
  ASSUME Dial!KnobAssumption, DialRange, Dial!Poll
  PROVE  DialRange'
  <1>1. /\ UNCHANGED <<kSteps, kOffset, kFreqBase, kModeBase, kSelecting, kCoarse, kDetailed, kDown, kHeld, kCalm,
                       kPresses, kRetuned>>
        /\ kTurned' = 0 /\ kPolled' = kSteps
    BY DEF Dial!Poll, Dial!bases, Dial!button
  <1>2. CASE kSelecting
    <2> DEFINE x == kSteps - kOffset - kModeBase
    <2>1. kSel' = 1 + (x % kNumSequences) /\ kSequence' = kSel' - 1 /\ kFreq' = kFreq
      BY <1>2 DEF Dial!Poll
    <2>2. x \in Int /\ kNumSequences \in Nat \ {0}
      BY DEF DialRange, Dial!KnobAssumption, DialTypes
    <2>3. PICK r \in 0..kNumSequences - 1 : r = x % kNumSequences
      BY <2>2, DivMod
    <2>4. kSel' = 1 + r /\ kSequence' = r
      BY <2>1, <2>3
    <2>5. kSel' \in 1..kNumSequences /\ kSequence' \in 0..kNumSequences - 1
      BY <2>2, <2>4
    <2> QED
      BY <1>1, <2>1, <2>5 DEF DialRange, DialTypes
  <1>3. CASE ~kSelecting
    <2>1. kFreq' = Aim /\ UNCHANGED <<kSel, kSequence>>
      BY <1>3 DEF Dial!Poll, Aim
    <2>2. kFreqBase + (kSteps - kOffset) * Dial!Detent \in Int
      <3>1. kSteps - kOffset \in Int /\ kFreqBase \in Int
        BY DEF DialRange, DialTypes, Dial!KnobAssumption
      <3>2. (kSteps - kOffset) * Dial!Detent \in Int
        BY <3>1, Detents
      <3> QED
        BY <3>1, <3>2
    <2>3. Aim \in kMinFreq..kMaxFreq
      BY <2>2 DEF Aim, Dial!Clamp, Dial!KnobAssumption
    <2> QED
      BY <1>1, <2>1, <2>3 DEF DialRange, DialTypes
  <1> QED
    BY <1>2, <1>3

(* A step of the knob keeps its ranges.                                     *)
LEMMA DialRangeKept ==
  ASSUME Dial!KnobAssumption, DialRange, [Dial!Next]_Dial!vars
  PROVE  DialRange'
  <1> USE DEF DialRange, DialTypes, Dial!dial, Dial!bases, Dial!engine, Dial!shown, Dial!button
  <1>1. CASE Dial!Turn
    BY <1>1 DEF Dial!Turn
  <1>2. CASE Dial!Press
    BY <1>2 DEF Dial!Press, Dial!KnobAssumption
  <1>3. CASE Dial!Release
    BY <1>3 DEF Dial!Release, Dial!Rebase
  <1>4. CASE Dial!CalmAgain
    BY <1>4 DEF Dial!CalmAgain
  <1>5. CASE Dial!HoldBegins
    <2>1. /\ kDown' = "long" /\ kSelecting' = ~kSelecting /\ kHeld \in {"no", "rebase"}
          /\ UNCHANGED <<kSteps, kPolled, kTurned, kFreq, kSequence, kSel, kCoarse, kDetailed, kCalm, kPresses>>
      BY <1>5 DEF Dial!HoldBegins
    <2>2. CASE kSelecting
      BY <1>5, <2>1, <2>2 DEF Dial!HoldBegins, Dial!Rebase
    <2>3. CASE ~kSelecting
      <3>1. kModeBase' = kSteps - kOffset - (kSel - 1) /\ kHeld' = "rebase" /\ UNCHANGED <<kFreqBase, kOffset, kRetuned>>
        BY <1>5, <2>3 DEF Dial!HoldBegins
      <3>2. kSel \in Int
        BY DEF Dial!KnobAssumption
      <3>3. kModeBase' \in Int
        BY <3>1, <3>2
      <3> QED
        BY <2>1, <3>1, <3>3
    <2> QED
      BY <2>2, <2>3
  <1>6. CASE Dial!HoldEnds
    BY <1>6 DEF Dial!HoldEnds, Dial!Rebase
  <1>7. CASE Dial!ClientRetunes
    BY <1>7 DEF Dial!ClientRetunes, Dial!KnobAssumption
  <1>8. CASE UNCHANGED Dial!vars
    BY <1>8 DEF Dial!vars
  <1>9. CASE Dial!Poll
    BY <1>9, PolledRange
  <1> QED
    BY <1>1, <1>2, <1>3, <1>4, <1>5, <1>6, <1>7, <1>8, <1>9 DEF Dial!Next

(* The type of the knob.                                                    *)
LEMMA DialTyped == PartsSpec => []Dial!TypeOK
  <1>1. Dial!KnobAssumption
    BY PartsAssumption DEF PartsAssumption
  <1>2. Dial!Init => DialRange
    <2> SUFFICES ASSUME Dial!Init PROVE DialRange
      OBVIOUS
    <2>1. /\ kSteps = 0 /\ kPolled = 0 /\ kOffset = 0 /\ kModeBase = 0 /\ kTurned = 0 /\ kSequence = 0 /\ kSel = 1
          /\ kFreq \in {kMinFreq, kMaxFreq} /\ kFreqBase = kFreq /\ kPresses = 0
          /\ kSelecting = FALSE /\ kCoarse = FALSE /\ kDetailed = FALSE /\ kRetuned = FALSE /\ kCalm = TRUE
          /\ kDown = "up" /\ kHeld = "no"
      BY DEF Dial!Init
    <2>2. /\ kSelecting \in BOOLEAN /\ kCoarse \in BOOLEAN /\ kDetailed \in BOOLEAN /\ kRetuned \in BOOLEAN
          /\ kCalm \in BOOLEAN
      BY <2>1, Zenon
    <2>3. kFreq \in kMinFreq..kMaxFreq /\ kFreqBase \in kMinFreq..kMaxFreq
      BY <1>1, <2>1 DEF Dial!KnobAssumption
    <2>4. kSteps \in Int /\ kOffset \in Int /\ kTurned \in Nat /\ kModeBase \in Int
      BY <2>1
    <2>5. DialTypes
      BY <2>2, <2>3, <2>4, Zenon DEF DialTypes
    <2>6. /\ 0 \in -kMaxTurns..kMaxTurns /\ 0 \in 0..kNumSequences - 1 /\ 1 \in 1..kNumSequences
          /\ 0 \in 0..kMaxPresses
      BY <1>1 DEF Dial!KnobAssumption
    <2> QED
      BY <2>1, <2>5, <2>6, <2>2, <2>4, Zenon DEF DialRange
  <1>3. DialRange /\ [Dial!Next]_Dial!vars => DialRange'
    BY <1>1, DialRangeKept
  <1>4. DialRange => Dial!TypeOK
    BY DEF DialRange, DialTypes, Dial!TypeOK
  <1> QED
    BY <1>2, <1>3, <1>4, DialMoves, PTL DEF Dial!Spec

(* The schedule and the detector: what is fed is the state just confirmed,  *)
(* and nothing runs without a schedule.                                     *)
WatchRange ==
  /\ wSchedule \in wFiles \cup {None} /\ wRunning \in BOOLEAN /\ wElapsed \in 0..wMaxElapsed
  /\ wRunning => wSchedule # None
  /\ wLatest \in StateNames /\ (wFed # None => wFed = wDetector.confirmed)

(* A step of the schedule or the detector keeps their ranges.               *)
LEMMA WatchRangeKept ==
  ASSUME Watch!CycleWatchAssumption, WatchInv, WatchRange, [Watch!Next]_Watch!vars
  PROVE  WatchRange'
  <1> USE DEF WatchRange
  <1>0. 0 \in 0..wMaxElapsed /\ None \notin wFiles
    BY DEF Watch!CycleWatchAssumption
  <1>1. ASSUME NEW f \in wFiles, Watch!Load(f) PROVE WatchRange'
    <2>1. UNCHANGED <<wDetector, wFed, wLatest>>
      BY <1>1 DEF Watch!Load
    <2>2. CASE Watch!Valid(f)
      <3>1. wSchedule' = f /\ wRunning' = TRUE /\ wElapsed' = 0
        BY <1>1, <2>2 DEF Watch!Load
      <3> QED
        BY <1>0, <2>1, <3>1
    <2>3. CASE ~Watch!Valid(f)
      <3>1. UNCHANGED <<wSchedule, wRunning, wElapsed>>
        BY <1>1, <2>3 DEF Watch!Load
      <3> QED
        BY <2>1, <3>1
    <2> QED
      BY <2>2, <2>3
  <1>2. CASE Watch!Restart \/ Watch!Stop
    <2>1. /\ UNCHANGED <<wSchedule, wDetector, wFed, wLatest>>
          /\ \/ wSchedule # None /\ wRunning' = TRUE /\ wElapsed' = 0
             \/ wRunning' = FALSE /\ wElapsed' = wElapsed
      BY <1>2 DEF Watch!Restart, Watch!Stop
    <2> QED
      BY <1>0, <2>1
  <1>3. CASE Watch!Clock
    BY <1>3 DEF Watch!Clock, Watch!CycleWatchAssumption
  <1>4. CASE Watch!Publish
    <2>1. wDetector.confirmed \in StateNames
      BY DEF WatchInv, Detectors
    <2> QED
      BY <1>4, <2>1 DEF Watch!Publish
  <1>5. ASSUME NEW s \in wSamples, Watch!Feed(s) PROVE WatchRange'
    BY <1>5 DEF Watch!Feed
  <1>6. CASE UNCHANGED Watch!vars
    BY <1>6 DEF Watch!vars
  <1> QED
    BY <1>1, <1>2, <1>3, <1>4, <1>5, <1>6 DEF Watch!Next

(* The type of the schedule and the detector.                               *)
LEMMA WatchTyped == PartsSpec => []Watch!TypeOK
  <1>1. Watch!CycleWatchAssumption
    BY PartsAssumption DEF PartsAssumption
  <1>2. Watch!Init => WatchRange
    <2> SUFFICES ASSUME Watch!Init PROVE WatchRange
      OBVIOUS
    <2>1. wSchedule = None /\ wRunning = FALSE /\ wElapsed = 0 /\ wFed = None /\ wLatest = "unknown"
      BY DEF Watch!Init
    <2>2. 0 \in 0..wMaxElapsed
      BY <1>1 DEF Watch!CycleWatchAssumption
    <2> QED
      BY <2>1, <2>2 DEF WatchRange, StateNames
  <1>3. WatchInv /\ WatchRange /\ [Watch!Next]_Watch!vars => WatchRange'
    BY <1>1, WatchRangeKept
  <1>4. WatchInv /\ WatchRange => Watch!TypeOK
    <2> SUFFICES ASSUME WatchInv, WatchRange PROVE Watch!TypeOK
      OBVIOUS
    <2>1. wDetector.count \in 0..wDebounce /\ wDetector.inCv = (wDetector.confirmed = "cv_charge")
      BY Zenon DEF WatchInv, Detectors
    <2>2. wLatest \in {"unknown", "cc_charge", "cv_charge", "rest", "discharge"}
      BY DEF WatchRange, StateNames
    <2> QED
      BY <2>1, <2>2, Zenon DEF WatchRange, Watch!TypeOK
  <1> QED
    BY <1>2, <1>3, <1>4, WatchMoves, WatchInvariance, PTL DEF Watch!Spec

-----------------------------------------------------------------------------
(* The recordings on the Pi and their copies have no more rows than a       *)
(* recording takes.                                                         *)
RowCounts == 0..lMaxRows \cup {None}

FilesRange ==
  /\ \A f \in lFiles : lRows[f] \in RowCounts /\ lLocal[f] \in RowCounts
  /\ DOMAIN lOffload = {"at", "all", "todo", "copied"} /\ lOffload.at \in {"idle", "copy", "delete"}

(* A copy, whole or not, has no more rows than the recording.               *)
LEMMA CopiesRange ==
  ASSUME Log!LogTransferAssumption, FileInv, FilesRange, NEW f, UNCHANGED lRows,
         \/ Log!Copies(f) \/ Log!Gone(f) \/ \E who \in {"stop", "offload", "both"} : Log!CopyFails(f, who)
  PROVE  \A g \in lFiles : lRows'[g] \in RowCounts /\ lLocal'[g] \in RowCounts
  <1>0. DOMAIN lLocal = lFiles /\ \A g \in lFiles : lRows[g] \in RowCounts /\ lLocal[g] \in RowCounts
    BY DEF FileInv, FileTypes, FilesRange
  <1>1. CASE UNCHANGED lLocal
    BY <1>0, <1>1
  <1>2. CASE ~UNCHANGED lLocal
    <2>1. f \in lRemote
      BY <1>2 DEF Log!Copies, Log!CopyFails, Log!Gone
    <2>2. f \in lFiles /\ lRows[f] # None
      BY <2>1 DEF FileInv, FileTypes
    <2>3. lRows[f] \in 0..lMaxRows
      BY <1>0, <2>2 DEF RowCounts
    <2>4. lLocal' = [lLocal EXCEPT ![f] = lRows[f]] \/ \E n \in 0..lRows[f] : lLocal' = [lLocal EXCEPT ![f] = n]
      BY <1>2 DEF Log!Copies, Log!CopyFails, Log!Gone
    <2>5. PICK n \in 0..lMaxRows : lLocal' = [lLocal EXCEPT ![f] = n]
      <3>1. CASE lLocal' = [lLocal EXCEPT ![f] = lRows[f]]
        BY <2>3, <3>1
      <3>2. ASSUME NEW n \in 0..lRows[f], lLocal' = [lLocal EXCEPT ![f] = n]
            PROVE  \E m \in 0..lMaxRows : lLocal' = [lLocal EXCEPT ![f] = m]
        <4>1. n \in 0..lMaxRows
          BY <2>3, <3>2 DEF Log!LogTransferAssumption
        <4> QED
          BY <3>2, <4>1
      <3> QED
        BY <2>4, <3>1, <3>2
    <2>6. n \in RowCounts
      BY DEF RowCounts
    <2> QED
      BY <1>0, <2>2, <2>5, <2>6
  <1> QED
    BY <1>1, <1>2

(* The offload at rest.                                                     *)
LEMMA ShapeOfOffload ==
  DOMAIN Log!NoOffload = {"at", "all", "todo", "copied"} /\ Log!NoOffload.at = "idle"
  BY DEF Log!NoOffload

(* A step keeps them.                                                       *)
LEMMA FilesRangeKept ==
  ASSUME Log!LogTransferAssumption, FileInv, FilesRange, [Log!Next]_Log!vars
  PROVE  FilesRange'
  <1> USE DEF Log!loggerVars, Log!macVars, Log!piVars, Log!copyVars
  <1>0. /\ lRows \in [lFiles -> Nat \cup {None}] /\ None \notin Nat /\ 0 \in RowCounts
        /\ \A g \in lFiles : lRows[g] \in RowCounts /\ lLocal[g] \in RowCounts
        /\ DOMAIN lOffload = {"at", "all", "todo", "copied"} /\ lOffload.at \in {"idle", "copy", "delete"}
    BY DEF FileInv, FileTypes, FilesRange, RowCounts, Log!LogTransferAssumption
  <1>1. CASE UNCHANGED <<lRows, lLocal, lOffload>>
    BY <1>1 DEF FilesRange, RowCounts
  <1>2. CASE Log!PiBegins /\ UNCHANGED <<lLocal, lOffload>>
    <2>1. PICK f \in lFiles : lRows' = [lRows EXCEPT ![f] = 0]
      BY <1>2 DEF Log!PiBegins
    <2> QED
      BY <1>0, <1>2, <2>1 DEF FilesRange
  <1>3. CASE Log!PiWrites
    <2>1. /\ lWriting # None /\ lRows[lWriting] < lMaxRows /\ lRows' = [lRows EXCEPT ![lWriting] = @ + 1]
          /\ UNCHANGED <<lLocal, lOffload>>
      BY <1>3 DEF Log!PiWrites
    <2>2. lWriting \in lFiles /\ lRows[lWriting] \in Nat
      BY <2>1 DEF FileInv, FileTypes
    <2>3. lRows[lWriting] + 1 \in RowCounts
      BY <2>1, <2>2 DEF RowCounts, Log!LogTransferAssumption
    <2> QED
      BY <1>0, <2>1, <2>2, <2>3 DEF FilesRange
  <1>4. ASSUME NEW k \in Log!Stoppers, Log!StopCopies(k)
        PROVE  FilesRange'
    <2> DEFINE f == lStopper[k].file
    <2>1. /\ UNCHANGED <<lRows, lOffload>>
          /\ Log!Copies(f) \/ Log!Gone(f) \/ Log!CopyFails(f, Log!Blame(k))
      BY <1>4 DEF Log!StopCopies
    <2>2. Log!Blame(k) \in {"stop", "offload", "both"}
      BY DEF Log!Blame
    <2> HIDE DEF f
    <2>3. \A g \in lFiles : lRows'[g] \in RowCounts /\ lLocal'[g] \in RowCounts
      BY <2>1, <2>2, CopiesRange
    <2> QED
      BY <1>0, <2>1, <2>3 DEF FilesRange
  <1>5. CASE Log!OffloadCopies
    <2> DEFINE f == Log!Min(lOffload.todo)
    <2>1. /\ UNCHANGED lRows
          /\ Log!Copies(f) \/ Log!Gone(f) \/ Log!CopyFails(f, "offload")
      BY <1>5 DEF Log!OffloadCopies
    <2> HIDE DEF f
    <2>2. \A g \in lFiles : lRows'[g] \in RowCounts /\ lLocal'[g] \in RowCounts
      BY <2>1, CopiesRange
    <2>3. DOMAIN lOffload' = {"at", "all", "todo", "copied"} /\ lOffload'.at \in {"idle", "copy", "delete"}
      <3>1. \/ lOffload' = Log!NoOffload
            \/ \E ok \in BOOLEAN :
                 lOffload' = [lOffload EXCEPT !.todo = @ \ {Log!Min(lOffload.todo)},
                                              !.copied = IF ok THEN @ \cup {Log!Min(lOffload.todo)} ELSE @]
        BY <1>5 DEF Log!OffloadCopies
      <3>2. CASE lOffload' = Log!NoOffload
        BY <3>2, ShapeOfOffload
      <3>3. CASE lOffload' # Log!NoOffload
        <4>1. \E S, C : lOffload' = [lOffload EXCEPT !.todo = S, !.copied = C]
          BY <3>1, <3>3
        <4> QED
          BY <1>0, <4>1
      <3> QED
        BY <3>2, <3>3
    <2> QED
      BY <2>2, <2>3 DEF FilesRange
  <1>6. CASE Log!OffloadLists \/ Log!OffloadCopied \/ Log!OffloadDeletes
    <2>1. UNCHANGED <<lRows, lLocal>>
      BY <1>6 DEF Log!OffloadLists, Log!OffloadCopied, Log!OffloadDeletes
    <2>2. DOMAIN lOffload' = {"at", "all", "todo", "copied"} /\ lOffload'.at \in {"idle", "copy", "delete"}
      <3>1. CASE Log!OffloadLists
        BY <3>1 DEF Log!OffloadLists
      <3>2. CASE Log!OffloadCopied
        <4>1. CASE lOffload' = Log!NoOffload
          BY <4>1, ShapeOfOffload
        <4>2. CASE lOffload' # Log!NoOffload
          <5>1. \E S : lOffload' = [lOffload EXCEPT !.at = "delete", !.todo = S]
            BY <3>2, <4>2 DEF Log!OffloadCopied
          <5> QED
            BY <1>0, <5>1
        <4> QED
          BY <4>1, <4>2
      <3>3. CASE Log!OffloadDeletes
        <4>1. CASE lOffload' = Log!NoOffload
          BY <4>1, ShapeOfOffload
        <4>2. CASE lOffload' # Log!NoOffload
          <5>1. \E S : lOffload' = [lOffload EXCEPT !.todo = S]
            BY <3>3, <4>2 DEF Log!OffloadDeletes
          <5> QED
            BY <1>0, <5>1
        <4> QED
          BY <4>1, <4>2
      <3> QED
        BY <1>6, <3>1, <3>2, <3>3
    <2> QED
      BY <1>0, <2>1, <2>2 DEF FilesRange
  <1>7. CASE Log!StartPi \/ Log!OtherClientStarts
    <2>1. UNCHANGED <<lLocal, lOffload>> /\ (Log!PiBegins \/ UNCHANGED lRows)
      BY <1>7 DEF Log!StartPi, Log!OtherClientStarts
    <2> QED
      BY <1>1, <1>2, <2>1
  <1>8. CASE Log!StartMac \/ Log!ToggleOff \/ Log!Row \/ Log!PutRow \/ Log!PiDone
    BY <1>1, <1>8 DEF Log!StartMac, Log!ToggleOff, Log!Row, Log!PutRow, Log!PiDone
  <1>9. ASSUME NEW k \in Log!Stoppers,
               \/ Log!StopBegins(k) \/ Log!StopJoins(k) \/ Log!StopTells(k) \/ Log!StopLists(k)
               \/ Log!StopRemoves(k) \/ Log!StopEnds(k)
        PROVE  FilesRange'
    BY <1>1, <1>9 DEF Log!StopBegins, Log!StopJoins, Log!StopTells, Log!StopLists, Log!StopRemoves, Log!StopEnds
  <1>10. ASSUME NEW s \in lSessions, Log!WriterTakes(s)
         PROVE  FilesRange'
    BY <1>1, <1>10 DEF Log!WriterTakes
  <1>11. CASE UNCHANGED Log!vars
    BY <1>1, <1>11 DEF Log!vars
  <1> QED
    BY <1>3, <1>4, <1>5, <1>6, <1>7, <1>8, <1>9, <1>10, <1>11 DEF Log!Next, Log!Ui, Log!Offload, Log!Stop

(* The rows in a queue are numbered in the order in which they were         *)
(* accepted: those that are there come after the ones in the file.          *)
Numbers(n, m) ==
  /\ n \in Seq(Nat) /\ Len(n) = Len(m.queue)
  /\ \A i \in 1..Len(n) : m.queue[i] = "row" => m.file < n[i] /\ n[i] <= m.accepted
  /\ \A i, j \in 1..Len(n) : i < j /\ m.queue[i] = "row" /\ m.queue[j] = "row" => n[i] < n[j]

Numbered(m) == m.file <= m.accepted /\ m.accepted <= lMaxRows /\ \E n \in Seq(Nat) : Numbers(n, m)

SessionsCounted ==
  \A s \in lSessions : Numbered(lMac[s]) /\ (lPutting = s => lMac[s].accepted < lMaxRows)

(* One more entry: a row is accepted, a marker is not.                      *)
LEMMA EntryNumbered ==
  ASSUME NEW m \in Recordings, Numbered(m), NEW e \in {"row", "stop"}, NEW m2 \in Recordings,
         lMaxRows \in Nat, m2.queue = Append(m.queue, e), m2.file = m.file,
         m2.accepted = IF e = "row" THEN m.accepted + 1 ELSE m.accepted, m2.accepted <= lMaxRows
  PROVE  Numbered(m2)
  <1>1. PICK n \in Seq(Nat) : Numbers(n, m)
    BY DEF Numbered
  <1>2. m.queue \in Seq({"row", "stop"}) /\ m.file \in Nat /\ m.accepted \in Nat /\ m.file <= m.accepted
    BY DEF Recordings, Numbered
  <1> DEFINE q == m.queue
             a == m2.accepted
             n2 == Append(n, a)
  <1>3. a \in Nat /\ m.accepted <= a /\ m.file <= a /\ (e = "row" => m.accepted < a /\ m.file < a)
    BY <1>2
  <1> HIDE DEF a
  <1>4. /\ n2 \in Seq(Nat) /\ Len(n2) = Len(n) + 1 /\ n2[Len(n) + 1] = a /\ \A i \in 1..Len(n) : n2[i] = n[i]
        /\ Len(m2.queue) = Len(n) + 1 /\ m2.queue[Len(n) + 1] = e /\ \A i \in 1..Len(n) : m2.queue[i] = q[i]
    BY <1>1, <1>2, <1>3 DEF Numbers
  <1>5. \A i \in 1..Len(n) : n[i] \in Nat
    OBVIOUS
  <1> HIDE DEF n2, q
  <1>6. ASSUME NEW i \in 1..Len(n) + 1, m2.queue[i] = "row" PROVE m.file < n2[i] /\ n2[i] <= a
    <2>1. CASE i = Len(n) + 1
      BY <1>3, <1>4, <1>6, <2>1
    <2>2. CASE i \in 1..Len(n)
      <3>1. q[i] = "row" /\ n2[i] = n[i]
        BY <1>4, <1>6, <2>2
      <3>2. m.file < n[i] /\ n[i] <= m.accepted
        BY <1>1, <2>2, <3>1 DEF Numbers, q
      <3>3. n[i] <= a
        BY <1>2, <1>3, <1>5, <2>2, <3>2
      <3> QED
        BY <3>1, <3>2, <3>3
    <2> QED
      BY <2>1, <2>2
  <1>7. ASSUME NEW i \in 1..Len(n) + 1, NEW j \in 1..Len(n) + 1, i < j, m2.queue[i] = "row", m2.queue[j] = "row"
        PROVE  n2[i] < n2[j]
    <2>1. i \in 1..Len(n)
      BY <1>7
    <2>2. CASE j = Len(n) + 1
      <3>1. q[i] = "row" /\ n2[i] = n[i] /\ n2[j] = a /\ e = "row"
        BY <1>4, <1>7, <2>1, <2>2
      <3>2. n[i] <= m.accepted
        BY <1>1, <2>1, <3>1 DEF Numbers, q
      <3>3. n[i] < a
        BY <1>2, <1>3, <1>5, <2>1, <3>1, <3>2
      <3> QED
        BY <3>1, <3>3
    <2>3. CASE j \in 1..Len(n)
      BY <1>1, <1>4, <1>7, <2>1, <2>3 DEF Numbers, q
    <2> QED
      BY <2>2, <2>3
  <1>8. Numbers(n2, m2)
    BY <1>4, <1>6, <1>7 DEF Numbers, a
  <1> QED
    BY <1>3, <1>4, <1>8 DEF Numbered, a

(* The first entry is taken: a row goes to the file.                        *)
LEMMA TakenNumbered ==
  ASSUME NEW m \in Recordings, Numbered(m), m.queue # <<>>, NEW m2 \in Recordings,
         m2.queue = Tail(m.queue), m2.accepted = m.accepted,
         m2.file = IF Head(m.queue) = "row" THEN m.file + 1 ELSE m.file
  PROVE  Numbered(m2)
  <1>1. PICK n \in Seq(Nat) : Numbers(n, m)
    BY DEF Numbered
  <1>2. /\ m.queue \in Seq({"row", "stop"}) /\ m.file \in Nat /\ m.accepted \in Nat /\ m.file <= m.accepted
        /\ m.accepted <= lMaxRows
    BY DEF Recordings, Numbered
  <1> DEFINE q == m.queue
             n2 == Tail(n)
  <1>3. /\ n2 \in Seq(Nat) /\ Len(n2) = Len(n) - 1 /\ \A i \in 1..Len(n) - 1 : n2[i] = n[i + 1]
        /\ Len(m2.queue) = Len(n) - 1 /\ \A i \in 1..Len(n) - 1 : m2.queue[i] = q[i + 1]
        /\ Head(q) = q[1] /\ Len(n) \in Nat \ {0}
    BY <1>1, <1>2 DEF Numbers
  <1>4. \A i \in 1..Len(n) : n[i] \in Nat
    OBVIOUS
  <1> HIDE DEF n2, q
  <1>5. m2.file <= m.accepted /\ m2.file \in Nat
    <2>1. 1 \in 1..Len(n) /\ n[1] \in Nat
      BY <1>3, <1>4
    <2>2. q[1] = "row" => m.file < n[1] /\ n[1] <= m.accepted
      BY <1>1, <2>1, Zenon DEF Numbers, q
    <2>3. m2.file = IF q[1] = "row" THEN m.file + 1 ELSE m.file
      BY <1>3 DEF q
    <2> QED
      BY <1>2, <2>1, <2>2, <2>3
  <1>6. ASSUME NEW i \in 1..Len(n) - 1, m2.queue[i] = "row" PROVE m2.file < n2[i] /\ n2[i] <= m.accepted
    <2>1. i + 1 \in 1..Len(n) /\ 1 \in 1..Len(n) /\ 1 < i + 1
      <3>1. Len(n) \in Nat \ {0} /\ i \in 1..Len(n) - 1
        BY <1>3
      <3> QED
        BY <3>1
    <2>2. q[i + 1] = "row" /\ n2[i] = n[i + 1]
      BY <1>3, <1>6
    <2>3. m.file < n[i + 1] /\ n[i + 1] <= m.accepted
      BY <1>1, <2>1, <2>2 DEF Numbers, q
    <2>4. q[1] = "row" => m.file < n[1] /\ n[1] < n[i + 1]
      BY <1>1, <2>1, <2>2 DEF Numbers, q
    <2>5. m2.file = IF q[1] = "row" THEN m.file + 1 ELSE m.file
      BY <1>3 DEF q
    <2> QED
      BY <1>2, <1>4, <2>1, <2>2, <2>3, <2>4, <2>5
  <1>7. ASSUME NEW i \in 1..Len(n) - 1, NEW j \in 1..Len(n) - 1, i < j, m2.queue[i] = "row", m2.queue[j] = "row"
        PROVE  n2[i] < n2[j]
    <2>1. i + 1 \in 1..Len(n) /\ j + 1 \in 1..Len(n) /\ i + 1 < j + 1
      <3>1. i < j
        BY <1>7
      <3>2. Len(n) \in Nat
        BY <1>3
      <3> QED
        BY <3>1, <3>2
    <2>2. q[i + 1] = "row" /\ q[j + 1] = "row" /\ n2[i] = n[i + 1] /\ n2[j] = n[j + 1]
      BY <1>3, <1>7
    <2> QED
      BY <1>1, <2>1, <2>2 DEF Numbers, q
  <1>8. Numbers(n2, m2)
    BY <1>3, <1>6, <1>7 DEF Numbers
  <1> QED
    BY <1>2, <1>3, <1>5, <1>8 DEF Numbered

(* One session changes, the others do not.                                  *)
LEMMA SessionCounts ==
  ASSUME SessionsCounted, NEW s \in lSessions, NEW m, Numbered(m),
         lMac' = [lMac EXCEPT ![s] = m], DOMAIN lMac = lSessions,
         \A r \in lSessions : lPutting' = r => lMac'[r].accepted < lMaxRows
  PROVE  SessionsCounted'
  <1>1. ASSUME NEW r \in lSessions PROVE Numbered(lMac'[r])
    <2>1. CASE r = s
      BY <2>1
    <2>2. CASE r # s
      BY <2>2 DEF SessionsCounted
    <2> QED
      BY <2>1, <2>2
  <1> QED
    BY <1>1 DEF SessionsCounted, Numbered, Numbers

(* A step keeps the count.                                                  *)
LEMMA CountKept ==
  ASSUME Log!LogTransferAssumption, SessionInv, SessionInv', SessionsCounted, [Log!Next]_Log!vars
  PROVE  SessionsCounted'
  <1> USE DEF Log!loggerVars, Log!macVars, Log!piVars, Log!copyVars
  <1>0. /\ lMac \in [lSessions -> Recordings] /\ lMac' \in [lSessions -> Recordings]
        /\ None \notin lSessions /\ lMaxRows \in Nat
        /\ (lLogger.mac => lSession \in lSessions) /\ (lPutting # None => lPutting \in lSessions)
        /\ \A r \in lSessions : Numbered(lMac[r]) /\ (lPutting = r => lMac[r].accepted < lMaxRows)
    BY DEF SessionInv, MacTypes, Log!LogTransferAssumption, SessionsCounted
  <1>1. CASE UNCHANGED <<lMac, lPutting>>
    BY <1>1 DEF SessionsCounted, Numbered, Numbers
  <1>2. ASSUME NEW s \in lSessions, NEW w, NEW o,
               lMac' = [lMac EXCEPT ![s].writer = w, ![s].overlaps = o], UNCHANGED lPutting
        PROVE  SessionsCounted'
    <2>1. PICK m : m = [lMac[s] EXCEPT !.writer = w, !.overlaps = o]
      OBVIOUS
    <2>2. lMac' = [lMac EXCEPT ![s] = m] /\ m.queue = lMac[s].queue /\ m.file = lMac[s].file /\ m.accepted = lMac[s].accepted
      BY <1>0, <1>2, <2>1 DEF Recordings
    <2>3. Numbered(m)
      BY <1>0, <2>2 DEF Numbered, Numbers
    <2>4. \A r \in lSessions : lMac'[r].accepted = lMac[r].accepted
      BY <1>0, <2>2
    <2> QED
      BY <1>0, <1>2, <2>2, <2>3, <2>4, SessionCounts
  <1>3. CASE Log!StartMac
    <2>1. PICK s \in lSessions : lMac' = [lMac EXCEPT ![s].writer = "runs",
                             ![s].overlaps = \E k \in Log!Stoppers : lStopper[k].at # "idle"]
      BY <1>3 DEF Log!StartMac
    <2>2. UNCHANGED lPutting
      BY <1>3 DEF Log!StartMac
    <2> QED
      BY <1>2, <2>1, <2>2
  <1>4. CASE Log!Row
    <2>1. lLogger.mac /\ lMac[lSession].accepted < lMaxRows /\ lPutting' = lSession /\ lMac' = lMac
      BY <1>4 DEF Log!Row
    <2> QED
      <3>1. ASSUME NEW r \in lSessions PROVE Numbered(lMac'[r])
        BY <1>0, <2>1, Zenon
      <3>2. ASSUME NEW r \in lSessions, lPutting' = r PROVE lMac'[r].accepted < lMaxRows
        BY <2>1, <3>2, Zenon
      <3> QED
        BY <3>1, <3>2, Zenon DEF SessionsCounted
  <1>5. CASE Log!PutRow
    <2>1. /\ lPutting \in lSessions /\ lPutting' = None
          /\ lMac' = [lMac EXCEPT ![lPutting].queue = Append(@, "row"), ![lPutting].accepted = @ + 1]
      BY <1>0, <1>5 DEF Log!PutRow
    <2>2. PICK m0 \in Recordings : m0 = lMac[lPutting]
      BY <1>0, <2>1
    <2>3. PICK m : m = [m0 EXCEPT !.queue = Append(@, "row"), !.accepted = @ + 1]
      OBVIOUS
    <2>4. /\ lMac' = [lMac EXCEPT ![lPutting] = m] /\ m.queue = Append(m0.queue, "row") /\ m.file = m0.file
          /\ m.accepted = m0.accepted + 1
      BY <1>0, <2>1, <2>2, <2>3 DEF Recordings
    <2>5. m \in Recordings
      <3>1. lMac'[lPutting] = m
        BY <1>0, <2>1, <2>4
      <3> QED
        BY <1>0, <2>1, <3>1
    <2>6. m0.accepted < lMaxRows /\ m0.accepted \in Nat /\ Numbered(m0)
      BY <1>0, <2>1, <2>2 DEF Recordings
    <2>7. m.accepted <= lMaxRows
      BY <1>0, <2>4, <2>6
    <2>8. Numbered(m)
      BY <1>0, <2>4, <2>5, <2>6, <2>7, EntryNumbered
    <2> QED
      BY <1>0, <2>1, <2>4, <2>8, SessionCounts, ZenonT(60)
  <1>6. ASSUME NEW k \in Log!Stoppers, Log!StopBegins(k)
        PROVE  SessionsCounted'
    <2>1. UNCHANGED lPutting /\ \/ UNCHANGED lMac
                                \/ lLogger.mac /\ lMac' = [lMac EXCEPT ![lSession].queue = Append(@, "stop")]
      BY <1>6 DEF Log!StopBegins
    <2>2. CASE lLogger.mac /\ lMac' = [lMac EXCEPT ![lSession].queue = Append(@, "stop")]
      <3>1. PICK m0 \in Recordings : m0 = lMac[lSession] /\ Numbered(m0)
        BY <1>0, <2>2
      <3>2. PICK m : m = [m0 EXCEPT !.queue = Append(@, "stop")]
        OBVIOUS
      <3>3. /\ lMac' = [lMac EXCEPT ![lSession] = m] /\ m.queue = Append(m0.queue, "stop") /\ m.file = m0.file
            /\ m.accepted = m0.accepted
        BY <1>0, <2>2, <3>1, <3>2 DEF Recordings
      <3>4. m \in Recordings
        <4>1. Append(m0.queue, "stop") \in Seq({"row", "stop"})
          BY <3>1 DEF Recordings
        <4> QED
          BY <3>1, <3>2, <4>1 DEF Recordings
      <3>5. m.accepted <= lMaxRows
        BY <3>1, <3>3 DEF Numbered
      <3>6. Numbered(m)
        BY <1>0, <3>1, <3>3, <3>4, <3>5, EntryNumbered
      <3>7. \A r \in lSessions : lMac'[r].accepted = lMac[r].accepted
        BY <1>0, <2>2, <3>1, <3>3
      <3> QED
        BY <1>0, <2>1, <2>2, <3>3, <3>6, <3>7, SessionCounts
    <2> QED
      BY <1>1, <2>1, <2>2
  <1>7. ASSUME NEW s \in lSessions, Log!WriterTakes(s)
        PROVE  SessionsCounted'
    <2>1. /\ lMac[s].queue # <<>> /\ UNCHANGED lPutting
          /\ lMac' = [lMac EXCEPT ![s].queue = Tail(@),
                                  ![s].file = IF Head(lMac[s].queue) = "row" THEN @ + 1 ELSE @,
                                  ![s].writer = IF Head(lMac[s].queue) = "row" THEN @ ELSE "done"]
      BY <1>7 DEF Log!WriterTakes
    <2>2. PICK m0 \in Recordings : m0 = lMac[s] /\ Numbered(m0)
      BY <1>0
    <2>3. PICK m : m = [m0 EXCEPT !.queue = Tail(@),
                                  !.file = IF Head(m0.queue) = "row" THEN @ + 1 ELSE @,
                                  !.writer = IF Head(m0.queue) = "row" THEN @ ELSE "done"]
      OBVIOUS
    <2>4. /\ lMac' = [lMac EXCEPT ![s] = m] /\ m.queue = Tail(m0.queue) /\ m.accepted = m0.accepted
          /\ m.file = IF Head(m0.queue) = "row" THEN m0.file + 1 ELSE m0.file
      BY <1>0, <2>1, <2>2, <2>3 DEF Recordings
    <2>5. m \in Recordings
      BY <1>0, <2>4
    <2>6. Numbered(m)
      BY <2>1, <2>2, <2>4, <2>5, TakenNumbered
    <2>7. \A r \in lSessions : lMac'[r].accepted = lMac[r].accepted
      BY <1>0, <2>2, <2>4
    <2> QED
      BY <1>0, <2>1, <2>4, <2>6, <2>7, SessionCounts
  <1>8. CASE Log!StartPi \/ Log!ToggleOff \/ Log!PiDone \/ Log!OtherClientStarts \/ Log!PiWrites \/ Log!Offload
    BY <1>1, <1>8 DEF Log!StartPi, Log!ToggleOff, Log!PiDone, Log!OtherClientStarts, Log!PiWrites, Log!Offload,
       Log!OffloadLists, Log!OffloadCopies, Log!OffloadCopied, Log!OffloadDeletes
  <1>9. ASSUME NEW k \in Log!Stoppers,
               \/ Log!StopJoins(k) \/ Log!StopTells(k) \/ Log!StopLists(k)
               \/ Log!StopCopies(k) \/ Log!StopRemoves(k) \/ Log!StopEnds(k)
        PROVE  SessionsCounted'
    BY <1>1, <1>9 DEF Log!StopJoins, Log!StopTells, Log!StopLists, Log!StopCopies, Log!StopRemoves, Log!StopEnds
  <1>10. CASE UNCHANGED Log!vars
    BY <1>1, <1>10 DEF Log!vars
  <1> QED
    BY <1>3, <1>4, <1>5, <1>6, <1>7, <1>8, <1>9, <1>10 DEF Log!Next, Log!Ui, Log!Stop

(* The type of the recordings.                                              *)
LEMMA LogTyped == PartsSpec => []Log!TypeOK
  <1>1. Log!LogTransferAssumption
    BY PartsAssumption DEF PartsAssumption
  <1>2. Log!Init => FilesRange /\ SessionsCounted
    <2> SUFFICES ASSUME Log!Init PROVE FilesRange /\ SessionsCounted
      OBVIOUS
    <2>1. /\ lRows = [f \in lFiles |-> None] /\ lLocal = [f \in lFiles |-> None] /\ lOffload = Log!NoOffload
          /\ lPutting = None
      BY DEF Log!Init
    <2>2. \A s \in lSessions : lMac[s].queue = <<>> /\ lMac[s].file = 0 /\ lMac[s].accepted = 0
      BY DEF Log!Init
    <2>3. None \notin lSessions /\ lMaxRows \in Nat
      BY <1>1 DEF Log!LogTransferAssumption
    <2>4. <<>> \in Seq(Nat) /\ Len(<<>>) = 0
      OBVIOUS
    <2>5. ASSUME NEW s \in lSessions PROVE Numbered(lMac[s])
      <3>1. Numbers(<<>>, lMac[s])
        BY <2>2, <2>4 DEF Numbers
      <3>2. \E n \in Seq(Nat) : Numbers(n, lMac[s])
        BY <2>4, <3>1, Zenon
      <3>3. lMac[s].file <= lMac[s].accepted /\ lMac[s].accepted <= lMaxRows
        BY <2>2, <2>3
      <3> QED
        BY <3>2, <3>3, Zenon DEF Numbered
    <2> QED
      BY <2>1, <2>3, <2>5 DEF FilesRange, RowCounts, Log!NoOffload, SessionsCounted
  <1>3. FileInv /\ SessionInv /\ SessionInv' /\ FilesRange /\ SessionsCounted /\ [Log!Next]_Log!vars
          => FilesRange' /\ SessionsCounted'
    BY <1>1, FilesRangeKept, CountKept
  <1>4. FileInv /\ SessionInv /\ FilesRange /\ SessionsCounted => Log!TypeOK
    <2> SUFFICES ASSUME FileInv, SessionInv, FilesRange, SessionsCounted PROVE Log!TypeOK
      OBVIOUS
    <2>1. /\ lLogger \in [tier : {None, "pi", "mac"}, pi : BOOLEAN, mac : BOOLEAN]
          /\ lBusy \in BOOLEAN /\ lSession \in lSessions \cup {None} /\ lPutting \in lSessions \cup {None}
      BY DEF FileInv, FileTypes, SessionInv, MacTypes
    <2>2. ASSUME NEW s \in lSessions PROVE lMac[s].file \in 0..lMaxRows /\ lMac[s].accepted \in 0..lMaxRows
      <3>1. lMac[s] \in Recordings
        BY DEF SessionInv, MacTypes
      <3>2. lMac[s].file \in Nat /\ lMac[s].accepted \in Nat
        BY <3>1 DEF Recordings
      <3>3. lMac[s].file <= lMac[s].accepted /\ lMac[s].accepted <= lMaxRows /\ lMaxRows \in Nat
        BY <1>1 DEF SessionsCounted, Numbered, Log!LogTransferAssumption
      <3> QED
        BY <3>2, <3>3
    <2>3. lWriting \in lFiles \cup {None} /\ lRemote \subseteq {f \in lFiles : lRows[f] # None}
      BY DEF FileInv, FileTypes
    <2>4. \A f \in lFiles : {lRows[f], lLocal[f]} \subseteq 0..lMaxRows \cup {None}
      BY DEF FilesRange, RowCounts
    <2>5. lOffload.at \in {"idle", "copy", "delete"}
      BY DEF FilesRange
    <2> QED
      BY <2>1, <2>2, <2>3, <2>4, <2>5, Zenon DEF Log!TypeOK
  <1> QED
    BY <1>2, <1>3, <1>4, LogMoves, LogInvariance, PTL DEF Log!Spec

-----------------------------------------------------------------------------
(* The calibration: numbers stay numbers of the field.                      *)
Values == [Cal!Channels -> F]
Pairs  == Cal!Channels \X F \X F

Numeric ==
  /\ cS_cal \in [Cal!Channels -> F \X F]
  /\ cWizard.low \in F /\ cWizard.high \in F /\ cWizard.lowRaw \in Values /\ cWizard.highRaw \in Values
  /\ cWizard.samples \in Seq(Values) /\ Len(cWizard.samples) <= cSampleTarget
  /\ Capturing => Len(cWizard.samples) < cSampleTarget
  /\ cWizard.results \in Seq(Pairs) /\ Len(cWizard.results) <= 2
  /\ cSending \in Seq(Pairs) /\ Len(cSending) <= 2
  /\ cRuns \in 0..cMaxRuns /\ cFaults \in 0..cMaxFaults

(* What the assumption says of the bounds.                                  *)
LEMMA BoundsOfWizard ==
  /\ cSampleTarget \in Nat \ {0} /\ cSampleTarget % cPrime \in F \ {0}
  /\ cMaxRuns \in Nat /\ cMaxFaults \in Nat
  <1>1. cSampleTarget \in Nat \ {0} /\ cSampleTarget % cPrime # 0 /\ cMaxRuns \in Nat /\ cMaxFaults \in Nat
    BY PartsAssumption DEF PartsAssumption, Cal!CalibrationAssumption
  <1>2. cSampleTarget % cPrime \in F
    BY <1>1, PrimeIs, RemainderOf
  <1> QED
    BY <1>1, <1>2

(* The mean of any numbers is a number: its running sum exists, and stays   *)
(* in the field.                                                            *)
LEMMA MeanTyped ==
  ASSUME NEW s \in Seq(F), Len(s) = cSampleTarget
  PROVE  Cal!Mean(s) \in F
  <1> DEFINE n == cSampleTarget
             Running(h, k) == h[0] = 0 /\ \A i \in 1..k : h[i] = Cal!Plus(h[i - 1], s[i])
             Summable(k) == \E h \in [0..k -> F] : Running(h, k)
             P == {k \in Nat : k <= n => Summable(k)}
             f == CHOOSE h : h = [i \in 0..n |-> IF i = 0 THEN 0 ELSE Cal!Plus(h[i - 1], s[i])]
  <1>1. n \in Nat \ {0} /\ \A i \in 1..n : s[i] \in F
    BY BoundsOfWizard
  <1>2. 0 \in P
    <2>1. [i \in 0..0 |-> 0] \in [0..0 -> F] /\ Running([i \in 0..0 |-> 0], 0)
      BY PrimeIs
    <2> QED
      BY <2>1
  <1>3. \A k \in Nat : k \in P => k + 1 \in P
    <2> HIDE DEF Summable
    <2> SUFFICES ASSUME NEW k \in Nat, k \in P, k + 1 <= n PROVE Summable(k + 1)
      OBVIOUS
    <2>a. Summable(k)
      BY <1>1
    <2> USE DEF Summable
    <2>0. k <= n /\ k + 1 \in 1..n
      BY <1>1
    <2>1. PICK h \in [0..k -> F] : Running(h, k)
      BY <2>a
    <2>2. PICK x \in F : x = Cal!Plus(h[k], s[k + 1])
      <3>1. h[k] \in F /\ s[k + 1] \in F
        BY <1>1, <2>0, <2>1
      <3> QED
        BY <3>1, Summed
    <2> DEFINE g == [i \in 0..k + 1 |-> IF i = k + 1 THEN x ELSE h[i]]
    <2>3. g \in [0..k + 1 -> F]
      <3>1. \A i \in 0..k + 1 : i # k + 1 => h[i] \in F
        BY <2>1
      <3> QED
        BY <3>1
    <2>4. g[0] = 0
      BY <2>1
    <2>5. ASSUME NEW i \in 1..k + 1 PROVE g[i] = Cal!Plus(g[i - 1], s[i])
      <3>1. CASE i = k + 1
        <4>1. g[i] = x /\ g[i - 1] = h[k] /\ s[i] = s[k + 1]
          BY <3>1
        <4> QED
          BY <2>2, <4>1
      <3>2. CASE i # k + 1
        <4>1. i \in 1..k /\ i - 1 \in 0..k /\ i - 1 # k + 1 /\ i \in 0..k + 1 /\ i - 1 \in 0..k + 1
          BY <3>2
        <4>2. g[i] = h[i] /\ g[i - 1] = h[i - 1]
          BY <3>2, <4>1
        <4> QED
          BY <2>1, <4>1, <4>2
      <3> QED
        BY <3>1, <3>2
    <2> HIDE DEF g
    <2> QED
      BY <2>3, <2>4, <2>5
  <1>4. PICK g \in [0..n -> F] : Running(g, n)
    <2> HIDE DEF Summable
    <2>1. n \in P
      BY <1>1, <1>2, <1>3, Inductive
    <2>2. Summable(n)
      BY <1>1, <2>1
    <2> USE DEF Summable
    <2> QED
      BY <2>2
  <1>5. g = [i \in 0..n |-> IF i = 0 THEN 0 ELSE Cal!Plus(g[i - 1], s[i])]
    <2>1. \A i \in 0..n : g[i] = IF i = 0 THEN 0 ELSE Cal!Plus(g[i - 1], s[i])
      BY <1>1, <1>4
    <2>2. g = [i \in 0..n |-> g[i]]
      BY <1>4
    <2> QED
      BY <2>1, <2>2
  <1>6. f = [i \in 0..n |-> IF i = 0 THEN 0 ELSE Cal!Plus(f[i - 1], s[i])]
    BY <1>5
  <1>7. Cal!Mean(s) = Cal!Over(f[n], n % cPrime)
    BY Zenon DEF Cal!Mean
  <1> HIDE DEF f
  <1> DEFINE Q == {k \in Nat : k <= n => f[k] \in F}
  <1>8. 0 \in Q
    BY <1>1, <1>6, PrimeIs
  <1>9. \A k \in Nat : k \in Q => k + 1 \in Q
    <2> SUFFICES ASSUME NEW k \in Nat, k \in Q, k + 1 <= n PROVE f[k + 1] \in F
      OBVIOUS
    <2>1. k + 1 \in 0..n /\ k + 1 # 0 /\ (k + 1) - 1 = k /\ k <= n /\ k + 1 \in 1..n
      BY <1>1
    <2>2. f[k + 1] = Cal!Plus(f[k], s[k + 1])
      BY <1>6, <2>1
    <2>3. f[k] \in F /\ s[k + 1] \in F
      BY <1>1, <2>1
    <2> QED
      BY <2>2, <2>3, Summed, ZenonT(60)
  <1>10. n \in Q
    BY <1>1, <1>8, <1>9, Inductive
  <1>11. f[n] \in F
    BY <1>1, <1>10
  <1> QED
    BY <1>7, <1>11, BoundsOfWizard, Divides

(* What is streamed is a number, whatever was written as a correction.      *)
LEMMA ReadingTyped ==
  ASSUME WizardTypes, Numeric, NEW ch \in Cal!Channels
  PROVE  Cal!Reading(ch) \in F
  <1>1. PICK x \in F : x = Cal!Uncorrected(ch)
    <2>1. cAmps \in F
      BY DEF WizardTypes
    <2>2. Measured(cAmps)[ch] \in F /\ Measured(cAmps)[ch] = Cal!Uncorrected(ch)
      BY <2>1, MeasuredIs DEF Cal!Uncorrected
    <2> QED
      BY <2>2
  <1>2. cS_cal[ch] \in F \X F
    BY DEF Numeric
  <1>3. cS_cal[ch][1] \in F /\ cS_cal[ch][2] \in F
    BY <1>2
  <1>4. PICK y \in F : y = Cal!Times(cS_cal[ch][1], x)
    BY <1>3, Multiplied
  <1>5. Cal!Reading(ch) = Cal!Plus(y, cS_cal[ch][2])
    BY <1>1, <1>4 DEF Cal!Reading, Cal!Apply
  <1> QED
    BY <1>3, <1>5, Summed, ZenonT(60)

(* One more sample, true or not.                                            *)
LEMMA SampleTyped ==
  ASSUME WizardTypes, Numeric, cWizard.sink, NEW v \in Values, Cal!OnSample(v),
         UNCHANGED <<cS_cal, cSending, cRuns>>, cFaults' \in 0..cMaxFaults
  PROVE  Numeric'
  <1> DEFINE more == Append(cWizard.samples, v)
             mean == [ch \in Cal!Channels |-> Cal!Mean([i \in DOMAIN more |-> more[i][ch]])]
             full == Len(more) = cSampleTarget
  <1>1. Capturing /\ Len(cWizard.samples) < cSampleTarget /\ cWizard.samples \in Seq(Values)
    BY DEF WizardTypes, Numeric
  <1>2. more \in Seq(Values) /\ Len(more) = Len(cWizard.samples) + 1 /\ Len(more) \in Nat
    BY <1>1
  <1>3. Len(more) <= cSampleTarget /\ (~full => Len(more) < cSampleTarget)
    BY <1>1, <1>2, BoundsOfWizard
  <1>4. cWizard' = [cWizard EXCEPT
          !.samples = more, !.sink = ~full,
          !.lowRaw  = IF full /\ cWizard.step = "low capture" THEN mean ELSE @,
          !.highRaw = IF full /\ cWizard.step # "low capture" THEN mean ELSE @,
          !.step    = IF ~full THEN @
                      ELSE IF cWizard.step = "low capture" THEN "high entry" ELSE "compute"]
    BY DEF Cal!OnSample
  <1>5. full => mean \in Values
    <2> SUFFICES ASSUME full PROVE mean \in Values
      OBVIOUS
    <2>1. ASSUME NEW ch \in Cal!Channels PROVE Cal!Mean([i \in DOMAIN more |-> more[i][ch]]) \in F
      <3> DEFINE s == [i \in DOMAIN more |-> more[i][ch]]
      <3>1. cSampleTarget \in Nat /\ DOMAIN more = 1..cSampleTarget
        BY <1>2, BoundsOfWizard
      <3> HIDE DEF more, full
      <3>2. \A i \in 1..cSampleTarget : more[i] \in Values
        BY <1>2, <3>1
      <3>3. \A i \in 1..cSampleTarget : more[i][ch] \in F
        BY <3>2 DEF Values
      <3>4. s \in Seq(F) /\ Len(s) = cSampleTarget
        BY <3>1, <3>3
      <3> QED
        BY <3>4, MeanTyped
    <2> QED
      BY <2>1 DEF Values
  <1> HIDE DEF mean, more, full
  <1>6. /\ cWizard'.samples = more /\ cWizard'.low = cWizard.low /\ cWizard'.high = cWizard.high
        /\ cWizard'.results = cWizard.results
        /\ cWizard'.lowRaw = (IF full /\ cWizard.step = "low capture" THEN mean ELSE cWizard.lowRaw)
        /\ cWizard'.highRaw = (IF full /\ cWizard.step # "low capture" THEN mean ELSE cWizard.highRaw)
        /\ full => cWizard'.step \in {"high entry", "compute"}
    BY <1>4 DEF WizardTypes
  <1>7. cWizard'.lowRaw \in Values /\ cWizard'.highRaw \in Values
    BY <1>5, <1>6 DEF Numeric
  <1>8. Capturing' => Len(cWizard'.samples) < cSampleTarget
    BY <1>3, <1>6 DEF Capturing
  <1> QED
    BY <1>2, <1>3, <1>6, <1>7, <1>8 DEF Numeric

(* What the wizard computes of any readings.                                *)
LEMMA ResultTyped ==
  ASSUME Numeric, NEW ch \in Cal!Channels,
         Cal!Minus(cWizard.highRaw[ch], cWizard.lowRaw[ch]) # 0
  PROVE  LET gain == Cal!Over(Cal!Minus(cWizard.high, cWizard.low),
                              Cal!Minus(cWizard.highRaw[ch], cWizard.lowRaw[ch]))
         IN  <<ch, gain, Cal!Minus(cWizard.low, Cal!Times(gain, cWizard.lowRaw[ch]))>> \in Pairs
  <1>1. PICK hr \in F, lr \in F, hi \in F, lo \in F :
          hr = cWizard.highRaw[ch] /\ lr = cWizard.lowRaw[ch] /\ hi = cWizard.high /\ lo = cWizard.low
    BY DEF Numeric, Values
  <1>2. PICK d \in F \ {0}, t \in F : d = Cal!Minus(hr, lr) /\ t = Cal!Minus(hi, lo)
    BY <1>1, Subtracted
  <1>3. PICK g \in F : g = Cal!Over(t, d)
    BY Divides
  <1>4. Cal!Times(g, lr) \in F
    BY Multiplied
  <1>5. Cal!Minus(lo, Cal!Times(g, lr)) \in F
    BY <1>4, Subtracted
  <1> QED
    BY <1>1, <1>2, <1>3, <1>5 DEF Pairs

(* Both results, or none.                                                   *)
LEMMA ComputeTyped ==
  ASSUME WizardTypes, Numeric, Cal!ComputeAndShow
  PROVE  Numeric'
  <1> DEFINE delta(ch) == Cal!Minus(cWizard.highRaw[ch], cWizard.lowRaw[ch])
             gain(ch) == Cal!Over(Cal!Minus(cWizard.high, cWizard.low), delta(ch))
             offset(ch) == Cal!Minus(cWizard.low, Cal!Times(gain(ch), cWizard.lowRaw[ch]))
             result(ch) == <<ch, gain(ch), offset(ch)>>
             results == IF \E ch \in Cal!Channels : delta(ch) = 0 THEN <<>>
                        ELSE <<result("a"), result("b")>>
  <1>1. /\ UNCHANGED <<cS_cal, cSending, cRuns, cFaults>>
        /\ cWizard' = [cWizard EXCEPT !.step = "confirm", !.results = results]
    BY DEF Cal!ComputeAndShow
  <1>2. results \in Seq(Pairs) /\ Len(results) <= 2
    <2>1. CASE \E ch \in Cal!Channels : delta(ch) = 0
      <3>1. results = <<>>
        BY <2>1
      <3> HIDE DEF results
      <3> QED
        BY <3>1
    <2>2. CASE ~\E ch \in Cal!Channels : delta(ch) = 0
      <3>1. "a" \in Cal!Channels /\ "b" \in Cal!Channels
        BY DEF Cal!Channels
      <3>2. result("a") \in Pairs /\ result("b") \in Pairs
        BY <2>2, <3>1, ResultTyped
      <3>3. PICK r, q : r = result("a") /\ q = result("b")
        OBVIOUS
      <3>4. results = <<r, q>>
        BY <2>2, <3>3
      <3> HIDE DEF results, result
      <3>5. r \in Pairs /\ q \in Pairs
        BY <3>2, <3>3
      <3> QED
        BY <3>4, <3>5
    <2> QED
      BY <2>1, <2>2
  <1> HIDE DEF results
  <1>3. /\ cWizard'.samples = cWizard.samples /\ cWizard'.low = cWizard.low /\ cWizard'.high = cWizard.high
        /\ cWizard'.lowRaw = cWizard.lowRaw /\ cWizard'.highRaw = cWizard.highRaw
        /\ cWizard'.step = "confirm" /\ cWizard'.results = results
    BY <1>1 DEF WizardTypes
  <1> QED
    BY <1>1, <1>2, <1>3 DEF Numeric, Capturing

(* A wizard that is closed has zeros only.                                  *)
LEMMA ClosedNumeric ==
  /\ Cal!Closed.low \in F /\ Cal!Closed.high \in F /\ Cal!Closed.lowRaw \in Values
  /\ Cal!Closed.highRaw \in Values /\ Cal!Closed.samples = <<>> /\ Cal!Closed.results = <<>>
  /\ Cal!Closed.step = "closed"
  BY PrimeIs DEF Cal!Closed, Values

(* Every step keeps them numbers.                                           *)
LEMMA NumericKept ==
  ASSUME WizardTypes, Numeric, [Cal!Next]_Cal!vars
  PROVE  Numeric'
  <1>0. /\ <<>> \in Seq(Values) /\ Len(<<>>) = 0 /\ 0 < cSampleTarget /\ 0 <= cSampleTarget
        /\ <<>> \in Seq(Pairs) /\ 0 <= 2 /\ cMaxRuns \in Nat /\ cMaxFaults \in Nat
    BY BoundsOfWizard
  <1>a. Cal!Fault => cFaults' \in 0..cMaxFaults
    BY <1>0 DEF Cal!Fault, Numeric
  <1>b. [ch \in Cal!Channels |-> Cal!Identity] \in [Cal!Channels -> F \X F]
    BY PrimeIs DEF Cal!Identity
  <1>1. CASE Cal!Open
    <2>1. cWizard' = [Cal!Closed EXCEPT !.step = "low entry"] /\ UNCHANGED <<cS_cal, cSending, cFaults>>
      BY <1>1 DEF Cal!Open
    <2>3. cRuns' \in 0..cMaxRuns
      <3>1. cRuns \in 0..cMaxRuns /\ cMaxRuns \in Nat
        BY BoundsOfWizard DEF Numeric
      <3>2. cRuns < cMaxRuns /\ cRuns' = cRuns + 1
        BY <1>1 DEF Cal!Open
      <3> QED
        BY <3>1, <3>2
    <2>2. /\ cWizard'.low \in F /\ cWizard'.high \in F /\ cWizard'.lowRaw \in Values
          /\ cWizard'.highRaw \in Values /\ cWizard'.samples = <<>> /\ cWizard'.results = <<>>
          /\ cWizard'.step = "low entry"
      BY <2>1, PrimeIs DEF Cal!Closed, Values
    <2> QED
      BY <1>0, <2>1, <2>2, <2>3 DEF Numeric, Capturing
  <1>2. CASE Cal!Entry
    <2>1. UNCHANGED <<cS_cal, cSending, cRuns, cFaults>>
      BY <1>2 DEF Cal!Entry
    <2>2. cAmps \in F
      BY DEF WizardTypes
    <2>3. /\ cWizard'.low \in F /\ cWizard'.high \in F /\ cWizard'.samples = <<>>
          /\ cWizard'.lowRaw = cWizard.lowRaw /\ cWizard'.highRaw = cWizard.highRaw
          /\ cWizard'.results = cWizard.results
      BY <1>2, <2>2 DEF Cal!Entry, Numeric, WizardTypes
    <2> QED
      BY <1>0, <2>1, <2>3 DEF Numeric
  <1>3. CASE Cal!SetCurrent
    <2>1. UNCHANGED <<cS_cal, cWizard, cSending, cRuns>> /\ cFaults' \in 0..cMaxFaults
      BY <1>3, <1>a DEF Cal!SetCurrent, Numeric
    <2> QED
      BY <2>1 DEF Numeric, Capturing
  <1>4. CASE Cal!Sample
    <2>1. cWizard.sink /\ UNCHANGED <<cS_cal, cSending, cRuns>>
      BY <1>4 DEF Cal!Sample
    <2>2. CASE Cal!OnSample([ch \in Cal!Channels |-> Cal!Reading(ch)]) /\ UNCHANGED cFaults
      <3>1. [ch \in Cal!Channels |-> Cal!Reading(ch)] \in Values
        BY ReadingTyped DEF Values
      <3>2. cFaults' \in 0..cMaxFaults
        BY <2>2 DEF Numeric
      <3> QED
        BY <2>1, <2>2, <3>1, <3>2, SampleTyped
    <2>3. CASE Cal!Fault /\ \E bad \in Cal!Channels :
                 Cal!OnSample([ch \in Cal!Channels |-> IF ch = bad THEN 0 ELSE Cal!Reading(ch)])
      <3>1. PICK bad \in Cal!Channels :
              Cal!OnSample([ch \in Cal!Channels |-> IF ch = bad THEN 0 ELSE Cal!Reading(ch)])
        BY <2>3
      <3>2. [ch \in Cal!Channels |-> IF ch = bad THEN 0 ELSE Cal!Reading(ch)] \in Values
        BY ReadingTyped, PrimeIs DEF Values
      <3> QED
        BY <1>a, <2>1, <2>3, <3>1, <3>2, SampleTyped
    <2> QED
      BY <1>4, <2>2, <2>3 DEF Cal!Sample
  <1>5. CASE Cal!ComputeAndShow
    BY <1>5, ComputeTyped
  <1>6. CASE Cal!Confirm
    <2>1. cWizard' = Cal!Closed /\ cSending' = cWizard.results /\ UNCHANGED <<cS_cal, cRuns, cFaults>>
      BY <1>6 DEF Cal!Confirm
    <2> QED
      BY <1>0, <2>1, ClosedNumeric DEF Numeric, Capturing
  <1>7. CASE Cal!Cancel
    <2>1. cWizard' = Cal!Closed /\ UNCHANGED <<cS_cal, cSending, cRuns, cFaults>>
      BY <1>7 DEF Cal!Cancel
    <2> QED
      BY <1>0, <2>1, ClosedNumeric DEF Numeric, Capturing
  <1>8. CASE Cal!SetCalibration
    <2>1. cSending # <<>> /\ cSending' = Tail(cSending) /\ UNCHANGED <<cWizard, cRuns>>
      BY <1>8 DEF Cal!SetCalibration
    <2>2. /\ cSending \in Seq(Pairs) /\ Len(cSending) <= 2
          /\ cSending' \in Seq(Pairs) /\ Len(cSending') <= 2 /\ Head(cSending) \in Pairs
      BY <2>1 DEF Numeric
    <2>3. PICK ch \in Cal!Channels, g \in F, o \in F : Head(cSending) = <<ch, g, o>>
      BY <2>2 DEF Pairs
    <2>4. PICK p : p = Tail(<<ch, g, o>>)
      OBVIOUS
    <2>5. p = <<g, o>>
      BY <2>4
    <2>6. p \in F \X F
      BY <2>5
    <2>7. /\ cS_cal' = [cS_cal EXCEPT ![Head(cSending)[1]] = p] \/ cS_cal' = cS_cal
          /\ cFaults' \in 0..cMaxFaults
      BY <1>8, <1>a, <2>3, <2>4 DEF Cal!SetCalibration, Numeric
    <2>8. cS_cal' \in [Cal!Channels -> F \X F]
      BY <2>6, <2>7 DEF Numeric
    <2> QED
      BY <2>1, <2>2, <2>7, <2>8 DEF Numeric, Capturing
  <1>9. CASE Cal!Reset
    <2>1. /\ cS_cal' = [ch \in Cal!Channels |-> Cal!Identity] /\ UNCHANGED <<cWizard, cSending, cRuns>>
          /\ cFaults' \in 0..cMaxFaults
      BY <1>9, <1>a DEF Cal!Reset, Numeric
    <2> QED
      BY <1>b, <2>1 DEF Numeric, Capturing
  <1>10. CASE UNCHANGED Cal!vars
    BY <1>10 DEF Cal!vars, Numeric, Capturing
  <1> QED
    BY <1>1, <1>2, <1>3, <1>4, <1>5, <1>6, <1>7, <1>8, <1>9, <1>10 DEF Cal!Next

(* The calibration has its type.                                            *)
LEMMA CalTyped == PartsSpec => []Cal!TypeOK
  <1>1. Cal!Init => Numeric
    <2> SUFFICES ASSUME Cal!Init PROVE Numeric
      OBVIOUS
    <2>1. cS_cal \in [Cal!Channels -> F \X F]
      BY PrimeIs DEF Cal!Init, Cal!Identity
    <2>2. /\ cWizard = Cal!Closed /\ cSending = <<>> /\ cRuns = 0 /\ cFaults = 0
          /\ cSampleTarget \in Nat \ {0} /\ cMaxRuns \in Nat /\ cMaxFaults \in Nat
      BY BoundsOfWizard DEF Cal!Init
    <2> QED
      BY <2>1, <2>2, ClosedNumeric DEF Numeric, Capturing
  <1>2. WizardInv /\ Numeric => Cal!TypeOK
    <2>1. Cal!Cardinality(Cal!Channels) = 2
      <3>1. Cardinality(Cal!Channels) = 2
        <4>1. {"a", "b"} = {"a"} \cup {"b"} /\ "b" \notin {"a"}
          OBVIOUS
        <4>2. IsFiniteSet({"a"}) /\ Cardinality({"a"}) = 1
          BY FS_Singleton
        <4> QED
          BY <4>1, <4>2, FS_AddElement DEF Cal!Channels
      <3> QED
        BY <3>1 DEF Cardinality, Cal!Cardinality
    <2> QED
      BY <2>1 DEF WizardInv, WizardTypes, Numeric, Capturing, Cal!TypeOK, F
  <1>3. Numeric /\ WizardInv /\ [Cal!Next]_Cal!vars => Numeric'
    BY NumericKept DEF WizardInv
  <1> QED
    BY <1>1, <1>2, <1>3, WizardBegins, WizardKept, WizardMoves, PTL DEF Cal!Spec

-----------------------------------------------------------------------------
(* PartsTypeOK, for every value of the constants: of the dashboard's pages,*)
(* the firmware's steps, the knob, the detector and the schedule, the      *)
(* network, the recordings, the wizard and the dialogs, each in every state*)
(* the parts reach together.                                               *)
THEOREM PartsTypes == PartsSpec => []PartsTypeOK
  <1>1. FleetAssumption
    BY PartsAssumption DEF PartsAssumption
  <1>2. PartsSpec => []TypeOK
    BY <1>1, FleetTypes, DashboardMoves, PTL
  <1>3. /\ TypeOK /\ Micro!TypeOK /\ Watch!TypeOK /\ Net!TypeOK /\ Dial!TypeOK /\ Log!TypeOK
        /\ Cal!TypeOK /\ Find!TypeOK
        => PartsTypeOK
    BY DEF PartsTypeOK
  <1> QED
    BY <1>2, <1>3, MicroTyped, WatchTyped, NetTyped, DialTyped, LogTyped, CalTyped, FindTyped, PTL
===============================================================================
