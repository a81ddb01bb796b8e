---------------------------- MODULE VirtioProofs ----------------------------
(***************************************************************************)
(* Proofs about VirtioDisk, for any number of processes and descriptors    *)
(* and any size of the ring indices that is a multiple of it.              *)
(***************************************************************************)
EXTENDS VirtioDisk, FiniteSetTheorems, TLAPS

\* p has a chain of descriptors.
busy(p) == pc[p] \in {"ring", "sleep", "woken"}

\* p's request is submitted and not yet seen by virtio_disk_intr().
waits(p) == pc[p] \in {"sleep", "woken"} /\ bdisk[p] = 1

\* Heads of chains in the avail ring and in the used ring.
inAvail == Pending(avail, taken_idx, avail_idx)
inUsed == Pending(used, seen_idx, used_idx)

\* The k-th entry of a ring from index i.
entry(ring, i, k) == ring[add(i, k) % NUM]

\* No entry of a ring from index i to index j occurs twice.
Distinct(ring, i, j) ==
  \A h, k \in 0..(((j - i) % UINT16) - 1) : entry(ring, i, h) = entry(ring, i, k) => h = k

\* The descriptors of p, linked into a chain that leads back to p.
own(p) == {idx[p][1], idx[p][2], idx[p][3]}

Chained(p) ==
  /\ idx[p] \in Desc \X Desc \X Desc
  /\ idx[p][1] # idx[p][2] /\ idx[p][2] # idx[p][3] /\ idx[p][1] # idx[p][3]
  /\ next[idx[p][1]] = idx[p][2] /\ next[idx[p][2]] = idx[p][3] /\ next[idx[p][3]] = None
  /\ infob[idx[p][1]] = p

\* A process has a chain from submit() to finish(), and the chains and the free
\* descriptors partition the descriptors.
ChainInv ==
  /\ \A p \in Procs : IF busy(p) THEN Chained(p) /\ own(p) \cap free = {} ELSE idx[p] = <<>>
  /\ \A p, q \in Procs : busy(p) /\ busy(q) /\ p # q => own(p) \cap own(q) = {}
  /\ \A i \in Desc \ free : \E p \in Procs : busy(p) /\ i \in own(p)

\* Who holds the lock, and what b->disk says.
LockInv ==
  /\ \A p \in Procs : vdisk_lock = p <=> pc[p] = "ring"
  /\ \A p \in Procs :
       /\ pc[p] = "ring" => bdisk[p] = 1 /\ avail[avail_idx % NUM] = idx[p][1] /\ p \notin served
       /\ pc[p] = "sleep" => bdisk[p] = 1
       /\ pc[p] = "woken" /\ bdisk[p] = 0 => p \in served
       /\ ~ busy(p) => bdisk[p] = 0
  /\ \A p \in Procs : pc[p] = "sleep_desc" => Cardinality(free) < 3
  /\ ~ panicked
  /\ seen_idx # used_idx => raise \/ irq \/ vdisk_lock = Intr

\* The requests under way are in the avail ring, in the device or in the used
\* ring, each in exactly one place and there once.
PlaceInv ==
  /\ Distinct(avail, taken_idx, avail_idx) /\ Distinct(used, seen_idx, used_idx)
  /\ inAvail \cap working = {} /\ inAvail \cap inUsed = {} /\ working \cap inUsed = {}
  /\ \A i \in inAvail \cup working \cup inUsed : \E p \in Procs : waits(p) /\ idx[p][1] = i
  /\ \A p \in Procs : waits(p) => idx[p][1] \in inAvail \cup working \cup inUsed
  /\ \A i \in inUsed : status[i] = 0
  /\ \A p \in Procs : waits(p) /\ idx[p][1] \in inUsed => p \in served

\* The inductive invariant.
DiskInv == TypeOK /\ ChainInv /\ LockInv /\ PlaceInv

---------------------------------------------------------------------------
(* Arithmetic of the ring indices.                                         *)

\* A remainder, near to the modulus.
LEMMA ModType == \A a \in Int, m \in Nat \ {0} : a % m \in 0..(m - 1)
  OBVIOUS

\* A number is its own remainder ...
LEMMA ModSmall == \A a \in Int, m \in Nat \ {0} : 0 <= a /\ a < m => a % m = a
  OBVIOUS

\* ... one turn below ...
LEMMA ModNegative == \A a \in Int, m \in Nat \ {0} : a < 0 /\ 0 <= a + m => a % m = a + m
  OBVIOUS

\* ... and one turn above.
LEMMA ModBig == \A a \in Int, m \in Nat \ {0} : a >= m /\ a < m + m => a % m = a - m
  OBVIOUS

\* Quotient and remainder.
LEMMA DivMod ==
  ASSUME NEW m \in Int, m > 0, NEW a \in Int
  PROVE  a = m * (a \div m) + (a % m)
  BY Z3

\* The quotient is an integer.
LEMMA DivType == \A a \in Int, m \in Nat \ {0} : (a \div m) \in Int
  OBVIOUS

\* The only multiple of m nearer to 0 than m is 0.
LEMMA MultipleZero ==
  ASSUME NEW m \in Nat \ {0}, NEW z \in Int, 0 - m < m * z, m * z < m
  PROVE  m * z = 0
<1>1. z >= 1 => m * z >= m
  OBVIOUS
<1>2. z <= 0 - 1 => m * z <= 0 - m
  OBVIOUS
<1>3. z = 0
  BY <1>1, <1>2
<1>4. QED
  BY <1>3

\* What is known of the constants.
LEMMA Consts ==
  ASSUME VirtioAssumption
  PROVE  /\ NUM \in Nat \ {0} /\ UINT16 \in Nat \ {0} /\ NUM >= 3 /\ NUM <= UINT16
         /\ None \notin Procs /\ Intr \notin Procs /\ None # Intr /\ None \notin Desc
         /\ \A i \in 0..(UINT16 - 1) : i % NUM \in Desc
<1>1. NUM \in Nat \ {0} /\ UINT16 \in Nat \ {0} /\ NUM >= 3 /\ NUM <= UINT16
  BY DEF VirtioAssumption
<1>2. \A i \in 0..(UINT16 - 1) : i % NUM \in Desc
  BY <1>1, ModType DEF Desc
<1>3. QED
  BY <1>1, <1>2 DEF VirtioAssumption, Desc

Index == 0..(UINT16 - 1)

\* add() and the distance of two indices, without remainders.
LEMMA IndexFacts ==
  ASSUME VirtioAssumption, NEW i \in Index, NEW j \in Index
  PROVE  /\ add(i, j) = IF i + j < UINT16 THEN i + j ELSE i + j - UINT16
         /\ add(i, j) \in Index
         /\ (j - i) % UINT16 = IF j >= i THEN j - i ELSE j - i + UINT16
         /\ (j - i) % UINT16 \in Index
<1>0. UINT16 \in Nat \ {0}
  BY Consts
<1>1. add(i, j) = IF i + j < UINT16 THEN i + j ELSE i + j - UINT16
  <2>1. CASE i + j < UINT16
    BY <1>0, <2>1, ModSmall DEF add, Index
  <2>2. CASE i + j >= UINT16
    <3> DEFINE t == i + j
    <3>1. t \in Int /\ t < UINT16 + UINT16 /\ t >= UINT16
      BY <1>0, <2>2 DEF Index
    <3> HIDE DEF t
    <3>2. t % UINT16 = t - UINT16
      BY <1>0, <3>1, ModBig, Zenon
    <3>3. add(i, j) = t % UINT16
      BY DEF add, t
    <3>4. ~ (i + j < UINT16)
      BY <1>0, <2>2 DEF Index
    <3>5. add(i, j) = t - UINT16
      BY <3>2, <3>3
    <3>6. add(i, j) = i + j - UINT16
      BY <1>0, <3>5 DEF t, Index
    <3>7. QED
      BY <3>4, <3>6
  <2>3. QED
    BY <1>0, <2>1, <2>2 DEF Index
<1>2. (j - i) % UINT16 = IF j >= i THEN j - i ELSE j - i + UINT16
  <2>1. CASE j >= i
    BY <1>0, <2>1, ModSmall DEF Index
  <2>2. CASE j < i
    BY <1>0, <2>2, ModNegative DEF Index
  <2>3. QED
    BY <1>0, <2>1, <2>2 DEF Index
<1>3. QED
  BY <1>0, <1>1, <1>2 DEF Index

\* Positions of a ring do not coincide within one turn.
LEMMA PosDiffer ==
  ASSUME VirtioAssumption, NEW i \in Index, NEW j \in 0..(NUM - 1), NEW k \in 0..(NUM - 1),
         add(i, j) % NUM = add(i, k) % NUM
  PROVE  j = k
<1>0. NUM \in Nat \ {0} /\ UINT16 \in Nat \ {0} /\ NUM <= UINT16 /\ j \in Index /\ k \in Index
  BY Consts DEF Index
<1> DEFINE a == add(i, j)
           b == add(i, k)
           x == a \div NUM
           y == b \div NUM
           q == UINT16 \div NUM
<1>1. /\ a = IF i + j < UINT16 THEN i + j ELSE i + j - UINT16
      /\ b = IF i + k < UINT16 THEN i + k ELSE i + k - UINT16
      /\ a \in Int /\ b \in Int
  BY <1>0, IndexFacts DEF Index
<1> HIDE DEF a, b
<1>2. x \in Int /\ y \in Int /\ a = NUM * x + (a % NUM) /\ b = NUM * y + (b % NUM)
  <2>1. NUM \in Int /\ NUM > 0
    BY <1>0
  <2>2. a = NUM * x + (a % NUM) /\ b = NUM * y + (b % NUM)
    BY <1>1, <2>1, DivMod, Zenon
  <2>3. x \in Int /\ y \in Int
    BY <1>0, <1>1, DivType
  <2>4. QED
    BY <2>2, <2>3
<1>3. q \in Int /\ UINT16 = NUM * q
  <2>1. UINT16 = NUM * q + (UINT16 % NUM)
    BY <1>0, DivMod
  <2>2. q \in Int /\ UINT16 % NUM = 0
    BY <1>0, DivType DEF VirtioAssumption
  <2> HIDE DEF q
  <2>3. QED
    BY <1>0, <2>1, <2>2
<1>4. a % NUM = b % NUM /\ a % NUM \in Int
  BY <1>0, <1>1, ModType DEF a, b
<1> HIDE DEF x, y, q
<1>5. a - b = NUM * x - NUM * y
  <2> DEFINE r == a % NUM
  <2>1. r \in Int /\ a = NUM * x + r /\ b = NUM * y + r
    BY <1>2, <1>4
  <2> HIDE DEF r
  <2>2. NUM * x \in Int /\ NUM * y \in Int
    BY <1>0, <1>2
  <2>3. QED
    BY <2>1, <2>2
<1>6. NUM * x - NUM * y = NUM * (x - y)
  BY <1>0, <1>2
<1>7. PICK z \in Int : j - k = NUM * z
  <2>1. a - b \in {j - k, j - k - UINT16, j - k + UINT16}
    BY <1>0, <1>1 DEF Index
  <2>2. CASE a - b = j - k
    BY <1>2, <1>5, <1>6, <2>2
  <2>3. CASE a - b = j - k - UINT16
    <3>1. j - k = NUM * (x - y) + NUM * q
      BY <1>0, <1>1, <1>3, <1>5, <1>6, <2>3
    <3>2. NUM * (x - y) + NUM * q = NUM * (x - y + q)
      BY <1>0, <1>2, <1>3
    <3>3. QED
      BY <1>2, <1>3, <3>1, <3>2
  <2>4. CASE a - b = j - k + UINT16
    <3>1. j - k = NUM * (x - y) - NUM * q
      BY <1>0, <1>1, <1>3, <1>5, <1>6, <2>4
    <3>2. NUM * (x - y) - NUM * q = NUM * (x - y - q)
      BY <1>0, <1>2, <1>3
    <3>3. QED
      BY <1>2, <1>3, <3>1, <3>2
  <2>5. QED
    BY <2>1, <2>2, <2>3, <2>4
<1>8. 0 - NUM < j - k /\ j - k < NUM
  BY <1>0
<1>9. NUM * z = 0
  BY <1>0, <1>7, <1>8, MultipleZero
<1>10. QED
  BY <1>0, <1>7, <1>9

---------------------------------------------------------------------------
(* The rings.                                                              *)

\* A ring between the indices i and j, with room for two entries more.
Ring(ring, i, j) ==
  /\ ring \in [Desc -> Desc] /\ i \in Index /\ j \in Index
  /\ (j - i) % UINT16 <= NUM - 2
  /\ Distinct(ring, i, j)

\* new is the ring with x at index j.
Written(new, ring, j, x) == x \in Desc /\ new = [ring EXCEPT ![j % NUM] = x]

\* Writing the entry at index j leaves those from i to j alone.
LEMMA WriteSet ==
  ASSUME VirtioAssumption, NEW ring, NEW i, NEW j, NEW x, NEW new,
         Ring(ring, i, j), Written(new, ring, j, x)
  PROVE  /\ new[j % NUM] = x /\ Pending(new, i, j) = Pending(ring, i, j) /\ Ring(new, i, j)
<1> USE DEF Ring, Written
<1> DEFINE n == (j - i) % UINT16
<1>0. NUM \in Nat \ {0} /\ UINT16 \in Nat \ {0} /\ NUM <= UINT16 /\ NUM >= 3 /\ j % NUM \in Desc
  BY Consts DEF Index
<1>1. n \in Index /\ add(i, n) = j /\ n <= NUM - 2
  <2>1. n = IF j >= i THEN j - i ELSE j - i + UINT16
    BY IndexFacts
  <2>2. n \in Index /\ n <= NUM - 2
    BY IndexFacts
  <2> HIDE DEF n
  <2>3. add(i, n) = IF i + n < UINT16 THEN i + n ELSE i + n - UINT16
    BY <2>2, IndexFacts
  <2>4. QED
    BY <1>0, <2>1, <2>2, <2>3 DEF Index
<1>2. /\ Pending(new, i, j) = {entry(new, i, k) : k \in 0..(n - 1)}
      /\ Pending(ring, i, j) = {entry(ring, i, k) : k \in 0..(n - 1)}
      /\ \A h, k \in 0..(n - 1) : entry(ring, i, h) = entry(ring, i, k) => h = k
      /\ Distinct(new, i, j) <=> \A h, k \in 0..(n - 1) : entry(new, i, h) = entry(new, i, k) => h = k
  BY DEF Pending, entry, Distinct
<1> HIDE DEF n
<1>3. ASSUME NEW k \in 0..(n - 1) PROVE entry(new, i, k) = entry(ring, i, k)
  <2>1. k \in 0..(NUM - 1) /\ n \in 0..(NUM - 1) /\ k # n /\ k \in Index
    BY <1>0, <1>1 DEF Index
  <2>2. add(i, k) \in Index
    BY <2>1, IndexFacts
  <2>3. add(i, k) % NUM \in Desc /\ add(i, k) % NUM # j % NUM
    BY <1>1, <2>1, <2>2, PosDiffer, Consts DEF Index
  <2>4. QED
    BY <1>0, <2>3 DEF entry
<1>4. {entry(new, i, k) : k \in 0..(n - 1)} = {entry(ring, i, k) : k \in 0..(n - 1)}
  BY <1>3, Zenon
<1>5. \A h, k \in 0..(n - 1) : entry(new, i, h) = entry(new, i, k) => h = k
  BY <1>2, <1>3, Zenon
<1>6. new \in [Desc -> Desc] /\ new[j % NUM] = x
  BY <1>0
<1>7. QED
  BY <1>2, <1>4, <1>5, <1>6, Zenon

\* Moving the end j of a ring adds the entry there.
LEMMA PutSet ==
  ASSUME VirtioAssumption, NEW ring, NEW i, NEW j, NEW j2,
         Ring(ring, i, j), ring[j % NUM] \notin Pending(ring, i, j), j2 = add(j, 1)
  PROVE  /\ Distinct(ring, i, j2)
         /\ Pending(ring, i, j2) = Pending(ring, i, j) \cup {ring[j % NUM]}
<1> DEFINE n == (j - i) % UINT16
           m == (j2 - i) % UINT16
<1> USE DEF Ring
<1>0. NUM \in Nat \ {0} /\ UINT16 \in Nat \ {0} /\ NUM <= UINT16 /\ NUM >= 3 /\ 1 \in Index
  BY Consts DEF Index
<1>1. n = (IF j >= i THEN j - i ELSE j - i + UINT16) /\ n \in Index /\ n <= NUM - 2
  BY IndexFacts
<1>2. j2 \in Index /\ j2 = IF j + 1 < UINT16 THEN j + 1 ELSE j + 1 - UINT16
  BY <1>0, IndexFacts
<1>3. m = IF j2 >= i THEN j2 - i ELSE j2 - i + UINT16
  BY <1>2, IndexFacts
<1>4. /\ Pending(ring, i, j) = {entry(ring, i, k) : k \in 0..(n - 1)}
      /\ Pending(ring, i, j2) = {entry(ring, i, k) : k \in 0..(m - 1)}
      /\ \A h, k \in 0..(n - 1) : entry(ring, i, h) = entry(ring, i, k) => h = k
      /\ Distinct(ring, i, j2) <=> \A h, k \in 0..(m - 1) : entry(ring, i, h) = entry(ring, i, k) => h = k
  BY DEF Pending, entry, Distinct
<1> HIDE DEF n, m
<1>5. m = n + 1 /\ n \in Nat
  BY <1>0, <1>1, <1>2, <1>3 DEF Index
<1>6. add(i, n) = IF i + n < UINT16 THEN i + n ELSE i + n - UINT16
  BY <1>1, IndexFacts
<1>7. add(i, n) = j
  BY <1>0, <1>1, <1>6 DEF Index
<1>8. entry(ring, i, n) = ring[j % NUM]
  BY <1>7 DEF entry
<1>9. 0..(m - 1) = (0..(n - 1)) \cup {n}
  BY <1>5
<1>10. Pending(ring, i, j2) = Pending(ring, i, j) \cup {ring[j % NUM]}
  BY <1>4, <1>8, <1>9
<1>11. \A k \in 0..(n - 1) : entry(ring, i, k) # entry(ring, i, n)
  BY <1>4, <1>8
<1>12. QED
  BY <1>2, <1>4, <1>9, <1>10, <1>11

\* Taking the entry at index i and clearing it removes it.
LEMMA TakeSet ==
  ASSUME VirtioAssumption, NEW ring, NEW i, NEW j, NEW i2, NEW new,
         Ring(ring, i, j), i # j, Written(new, ring, i, 0), i2 = add(i, 1)
  PROVE  /\ new[j % NUM] = ring[j % NUM]
         /\ ring[i % NUM] \in Pending(ring, i, j)
         /\ Pending(new, i2, j) = Pending(ring, i, j) \ {ring[i % NUM]}
         /\ Distinct(new, i2, j)
<1> DEFINE n == (j - i) % UINT16
           m == (j - i2) % UINT16
<1> USE DEF Ring, Written
<1>0. /\ NUM \in Nat \ {0} /\ UINT16 \in Nat \ {0} /\ NUM <= UINT16 /\ NUM >= 3
      /\ 1 \in Index /\ 0 \in Index /\ i % NUM \in Desc /\ j % NUM \in Desc /\ 0 \in Desc
  BY Consts, SMTT(30) DEF Index, Desc
<1>1. n = (IF j >= i THEN j - i ELSE j - i + UINT16) /\ n \in Index /\ n <= NUM - 2
  BY IndexFacts
<1>2. i2 \in Index /\ i2 = IF i + 1 < UINT16 THEN i + 1 ELSE i + 1 - UINT16
  BY <1>0, IndexFacts
<1>3. m = IF j >= i2 THEN j - i2 ELSE j - i2 + UINT16
  BY <1>2, IndexFacts
<1>4. /\ Pending(ring, i, j) = {entry(ring, i, k) : k \in 0..(n - 1)}
      /\ Pending(new, i2, j) = {entry(new, i2, k) : k \in 0..(m - 1)}
      /\ \A h, k \in 0..(n - 1) : entry(ring, i, h) = entry(ring, i, k) => h = k
      /\ Distinct(new, i2, j) <=> \A h, k \in 0..(m - 1) : entry(new, i2, h) = entry(new, i2, k) => h = k
  BY DEF Pending, entry, Distinct
<1> HIDE DEF n, m
<1>5. n >= 1 /\ m = n - 1 /\ n \in Nat
  BY <1>0, <1>1, <1>2, <1>3 DEF Index
<1>6. add(i, 0) = i
  <2>1. add(i, 0) = IF i + 0 < UINT16 THEN i + 0 ELSE i + 0 - UINT16
    BY <1>0, IndexFacts
  <2>2. QED
    BY <1>0, <2>1 DEF Index
<1>7. ASSUME NEW k \in 1..n
      PROVE  add(i, k) % NUM \in Desc /\ add(i, k) % NUM # i % NUM
  <2>1. k \in 0..(NUM - 1) /\ 0 \in 0..(NUM - 1) /\ k # 0 /\ k \in Index
    BY <1>0, <1>1 DEF Index
  <2>2. add(i, k) \in Index
    BY <2>1, IndexFacts
  <2>3. QED
    BY <1>6, <2>1, <2>2, PosDiffer, Consts DEF Index
<1>8. add(i, n) = j
  <2>1. add(i, n) = IF i + n < UINT16 THEN i + n ELSE i + n - UINT16
    BY <1>1, IndexFacts
  <2>2. QED
    BY <1>0, <1>1, <2>1 DEF Index
<1>9. j % NUM # i % NUM
  BY <1>5, <1>7, <1>8
<1>10. ASSUME NEW k \in 0..(n - 2)
       PROVE  entry(new, i2, k) = entry(ring, i, k + 1)
  <2>1. k \in Index /\ k + 1 \in Index /\ k + 1 \in 1..n
    BY <1>0, <1>1, <1>5 DEF Index
  <2>2. /\ add(i2, k) = IF i2 + k < UINT16 THEN i2 + k ELSE i2 + k - UINT16
        /\ add(i, k + 1) = IF i + (k + 1) < UINT16 THEN i + (k + 1) ELSE i + (k + 1) - UINT16
    BY <1>2, <2>1, IndexFacts
  <2>3. add(i2, k) = add(i, k + 1)
    BY <1>0, <1>1, <1>2, <2>1, <2>2 DEF Index
  <2>4. QED
    BY <1>0, <1>7, <2>1, <2>3 DEF entry
<1>11. m - 1 = n - 2 /\ \A k \in 0..(n - 2) : k + 1 \in 0..(n - 1) /\ k + 1 # 0
  BY <1>5
<1>12. Pending(new, i2, j) = {entry(ring, i, k) : k \in 1..(n - 1)}
  <2>1. \A k \in 1..(n - 1) : k - 1 \in 0..(n - 2) /\ (k - 1) + 1 = k
    BY <1>5
  <2>2. \A k \in 0..(n - 2) : k + 1 \in 1..(n - 1)
    BY <1>5
  <2>3. {entry(ring, i, k + 1) : k \in 0..(n - 2)} = {entry(ring, i, k) : k \in 1..(n - 1)}
    BY <2>1, <2>2
  <2>4. {entry(new, i2, k) : k \in 0..(m - 1)} = {entry(ring, i, k + 1) : k \in 0..(n - 2)}
    BY <1>10, <1>11, Zenon
  <2>5. QED
    BY <1>4, <2>3, <2>4, Zenon
<1>13. 0..(n - 1) = {0} \cup (1..(n - 1)) /\ \A k \in 1..(n - 1) : entry(ring, i, k) # entry(ring, i, 0)
  BY <1>4, <1>5
<1>14. entry(ring, i, 0) = ring[i % NUM]
  BY <1>6 DEF entry
<1>15. Pending(new, i2, j) = Pending(ring, i, j) \ {ring[i % NUM]} /\ ring[i % NUM] \in Pending(ring, i, j)
  <2>1. Pending(ring, i, j) = {entry(ring, i, 0)} \cup {entry(ring, i, k) : k \in 1..(n - 1)}
    BY <1>4, <1>13
  <2>2. entry(ring, i, 0) \notin {entry(ring, i, k) : k \in 1..(n - 1)}
    BY <1>13
  <2>3. QED
    BY <1>12, <1>14, <2>1, <2>2, Zenon
<1>16. ASSUME NEW h \in 0..(m - 1), NEW k \in 0..(m - 1), entry(new, i2, h) = entry(new, i2, k)
       PROVE  h = k
  <2>1. h \in 0..(n - 2) /\ k \in 0..(n - 2)
    BY <1>11
  <2>2. entry(ring, i, h + 1) = entry(ring, i, k + 1)
    BY <1>10, <1>16, <2>1
  <2>3. h + 1 \in 0..(n - 1) /\ k + 1 \in 0..(n - 1)
    BY <1>11, <2>1
  <2>4. h + 1 = k + 1
    BY <1>4, <2>2, <2>3
  <2>5. QED
    BY <1>5, <2>1, <2>4
<1>17. QED
  BY <1>0, <1>2, <1>4, <1>9, <1>15, <1>16, Zenon

---------------------------------------------------------------------------
(* The number of requests under way.                                       *)

\* Different heads of chains, two descriptors being no heads of them.
LEMMA HeadsBound ==
  ASSUME VirtioAssumption, NEW n \in Nat, NEW f \in [0..(n - 1) -> Desc],
         \A j, k \in 0..(n - 1) : f[j] = f[k] => j = k,
         NEW x \in Desc, NEW y \in Desc, x # y, \A k \in 0..(n - 1) : f[k] \notin {x, y}
  PROVE  n <= NUM - 2
<1>0. NUM \in Nat /\ NUM >= 3
  BY Consts
<1>1. IsFiniteSet(Desc) /\ Cardinality(Desc) = NUM
  BY <1>0, FS_Interval DEF Desc
<1>2. IsFiniteSet(Desc \ {x}) /\ Cardinality(Desc \ {x}) = NUM - 1
  BY <1>1, FS_RemoveElement
<1> DEFINE T == (Desc \ {x}) \ {y}
<1>3. IsFiniteSet(T) /\ Cardinality(T) = NUM - 2
  <2>1. y \in Desc \ {x}
    OBVIOUS
  <2>2. IsFiniteSet(T) /\ Cardinality(T) = Cardinality(Desc \ {x}) - 1
    BY <1>2, <2>1, FS_RemoveElement, Zenon
  <2>3. QED
    BY <1>0, <1>2, <2>2
<1>4. f \in Injection(0..(n - 1), T)
  BY DEF Injection, IsInjective
<1>5. Cardinality(0..(n - 1)) <= NUM - 2
  BY <1>3, <1>4, FS_Injection
<1>6. Cardinality(0..(n - 1)) = n
  BY FS_Interval
<1>7. QED
  BY <1>5, <1>6

\* The same for the entries of a ring.
LEMMA RingBound ==
  ASSUME VirtioAssumption, NEW ring \in [Desc -> Desc], NEW i \in Index, NEW j \in Index,
         Distinct(ring, i, j), NEW x \in Desc, NEW y \in Desc, x # y,
         x \notin Pending(ring, i, j), y \notin Pending(ring, i, j)
  PROVE  (j - i) % UINT16 <= NUM - 2
<1> DEFINE n == (j - i) % UINT16
           f == [k \in 0..(n - 1) |-> entry(ring, i, k)]
<1>1. n \in Index /\ n \in Nat
  BY IndexFacts, Consts DEF Index
<1>2. \A h, k \in 0..(n - 1) : entry(ring, i, h) = entry(ring, i, k) => h = k
  BY DEF Distinct
<1>3. Pending(ring, i, j) = {entry(ring, i, k) : k \in 0..(n - 1)}
  BY DEF Pending, entry
<1> HIDE DEF n
<1>4. ASSUME NEW k \in 0..(n - 1) PROVE entry(ring, i, k) \in Desc
  <2>1. k \in Index
    BY <1>1, Consts DEF Index
  <2>2. add(i, k) \in Index
    BY <2>1, IndexFacts
  <2>3. QED
    BY <2>2, Consts DEF entry, Index
<1>5. f \in [0..(n - 1) -> Desc] /\ \A k \in 0..(n - 1) : f[k] = entry(ring, i, k)
  BY <1>4
<1> HIDE DEF f
<1>6. /\ \A h, k \in 0..(n - 1) : f[h] = f[k] => h = k
      /\ \A k \in 0..(n - 1) : f[k] \notin {x, y}
  BY <1>2, <1>3, <1>5
<1>7. n <= NUM - 2
  BY <1>1, <1>5, <1>6, HeadsBound, Zenon
<1>8. QED
  BY <1>7 DEF n

\* An empty ring.
LEMMA RingEmpty ==
  ASSUME VirtioAssumption, NEW ring, NEW i \in Index, NEW j \in Index, Pending(ring, i, j) = {}
  PROVE  (j - i) % UINT16 <= NUM - 2
<1>1. (j - i) % UINT16 \in Index
  BY IndexFacts
<1>2. NUM \in Nat /\ NUM >= 3 /\ UINT16 \in Nat
  BY Consts
<1>3. CASE (j - i) % UINT16 >= 1
  <2>1. 0 \in 0..(((j - i) % UINT16) - 1)
    BY <1>1, <1>2, <1>3 DEF Index
  <2>2. QED
    BY <2>1, Zenon DEF Pending
<1>4. CASE (j - i) % UINT16 = 0
  BY <1>2, <1>4
<1>5. QED
  BY <1>1, <1>2, <1>3, <1>4 DEF Index

\* A triple is not empty.
LEMMA Triple ==
  \A t \in Desc \X Desc \X Desc : t # <<>> /\ t[1] \in Desc /\ t[2] \in Desc /\ t[3] \in Desc
<1>1. TAKE t \in Desc \X Desc \X Desc
<1>2. PICK a \in Desc, b \in Desc, c \in Desc : t = <<a, b, c>>
  BY <1>1
<1>3. QED
  BY <1>2

\* The head of a chain belongs to one process only and is nobody's second or
\* third descriptor.
LEMMA Heads ==
  ASSUME ChainInv, NEW p \in Procs, NEW q \in Procs, busy(p), busy(q)
  PROVE  /\ idx[p] # <<>> /\ own(p) \subseteq Desc /\ idx[p][1] \in Desc
         /\ idx[p][2] \in Desc /\ idx[p][3] \in Desc /\ idx[p][2] # idx[p][3]
         /\ infob[idx[p][1]] = p
         /\ idx[p][1] = idx[q][1] => p = q
         /\ idx[p][1] # idx[q][2] /\ idx[p][1] # idx[q][3]
<1>1. Chained(p) /\ Chained(q) /\ (p # q => own(p) \cap own(q) = {})
  BY DEF ChainInv
<1>2. idx[p] # <<>> /\ idx[p][1] \in Desc /\ idx[p][2] \in Desc /\ idx[p][3] \in Desc
  BY <1>1, Triple DEF Chained
<1>3. QED
  BY <1>1, <1>2, Zenon DEF Chained, own

\* The rings never hold more than NUM - 2 requests.
LEMMA Bounds ==
  ASSUME VirtioAssumption, DiskInv
  PROVE  /\ (avail_idx - taken_idx) % UINT16 <= NUM - 2
         /\ (used_idx - seen_idx) % UINT16 <= NUM - 2
<1>1. /\ avail \in [Desc -> Desc] /\ used \in [Desc -> Desc]
      /\ avail_idx \in Index /\ taken_idx \in Index /\ used_idx \in Index /\ seen_idx \in Index
  BY DEF DiskInv, TypeOK, Index
<1>2. Distinct(avail, taken_idx, avail_idx) /\ Distinct(used, seen_idx, used_idx)
  BY DEF DiskInv, PlaceInv
<1>3. ASSUME NEW i \in inAvail \cup inUsed
      PROVE  \E x, y \in Desc : x # y /\ x \notin inAvail \cup inUsed /\ y \notin inAvail \cup inUsed
  <2>1. PICK p \in Procs : waits(p) /\ idx[p][1] = i
    BY Zenon DEF DiskInv, PlaceInv
  <2>2. ASSUME NEW k \in inAvail \cup inUsed PROVE k # idx[p][2] /\ k # idx[p][3]
    <3>1. PICK q \in Procs : waits(q) /\ idx[q][1] = k
      BY Zenon DEF DiskInv, PlaceInv
    <3>2. QED
      BY <2>1, <3>1, Heads DEF DiskInv, waits, busy
  <2>3. idx[p][2] \in Desc /\ idx[p][3] \in Desc /\ idx[p][2] # idx[p][3]
    BY <2>1, Heads DEF DiskInv, waits, busy
  <2>4. QED
    BY <2>2, <2>3, Zenon
<1>4. (avail_idx - taken_idx) % UINT16 <= NUM - 2
  <2>1. CASE inAvail = {}
    BY <1>1, <2>1, RingEmpty DEF inAvail
  <2>2. CASE inAvail # {}
    <3>1. PICK x \in Desc, y \in Desc : x # y /\ x \notin inAvail \cup inUsed /\ y \notin inAvail \cup inUsed
      BY <1>3, <2>2
    <3>2. x \notin Pending(avail, taken_idx, avail_idx) /\ y \notin Pending(avail, taken_idx, avail_idx)
      BY <3>1 DEF inAvail
    <3>3. QED
      BY <1>1, <1>2, <3>1, <3>2, RingBound
  <2>3. QED
    BY <2>1, <2>2
<1>5. (used_idx - seen_idx) % UINT16 <= NUM - 2
  <2>1. CASE inUsed = {}
    BY <1>1, <2>1, RingEmpty, Zenon DEF inUsed
  <2>2. CASE inUsed # {}
    <3>1. PICK x \in Desc, y \in Desc : x # y /\ x \notin inAvail \cup inUsed /\ y \notin inAvail \cup inUsed
      BY <1>3, <2>2
    <3>2. x \notin Pending(used, seen_idx, used_idx) /\ y \notin Pending(used, seen_idx, used_idx)
      BY <3>1, Zenon DEF inUsed
    <3>3. QED
      BY <1>1, <1>2, <3>1, <3>2, RingBound
  <2>3. QED
    BY <2>1, <2>2
<1>6. QED
  BY <1>4, <1>5

---------------------------------------------------------------------------
(* What the steps do.                                                      *)

\* Both rings have room.
LEMMA RingsOK ==
  ASSUME VirtioAssumption, DiskInv
  PROVE  Ring(avail, taken_idx, avail_idx) /\ Ring(used, seen_idx, used_idx)
  BY Bounds, Zenon DEF DiskInv, TypeOK, PlaceInv, Index, Ring

\* The invariant holds initially.
LEMMA DiskInvInit == ASSUME VirtioAssumption, Init PROVE DiskInv
<1>1. NUM \in Nat \ {0} /\ UINT16 \in Nat \ {0} /\ NUM >= 3 /\ 0 \in Desc /\ 0 \in Index
  BY Consts DEF Desc, Index
<1>2. (0 - 0) % UINT16 = 0
  BY <1>1, ModSmall
<1>3. irq \in BOOLEAN /\ raise \in BOOLEAN /\ panicked \in BOOLEAN /\ ~ panicked
  BY Zenon DEF Init
<1>4. TypeOK
  BY <1>1, <1>3 DEF Init, TypeOK, PCs, Index
<1>5. \A p \in Procs : pc[p] = "idle" /\ ~ busy(p) /\ ~ waits(p) /\ bdisk[p] = 0 /\ idx[p] = <<>>
  BY DEF Init, busy, waits
<1>6. ChainInv
  BY <1>5 DEF Init, ChainInv
<1>7. LockInv
  BY <1>3, <1>5, Consts DEF Init, LockInv
<1>8. inAvail = {} /\ inUsed = {} /\ Distinct(avail, taken_idx, avail_idx) /\ Distinct(used, seen_idx, used_idx)
  BY <1>2 DEF Init, inAvail, inUsed, Pending, Distinct
<1>9. PlaceInv
  BY <1>5, <1>8 DEF Init, PlaceInv
<1>10. QED
  BY <1>4, <1>6, <1>7, <1>9 DEF DiskInv

\* An entry of the used ring is a request the device has done, and its owner
\* waits for it: virtio_disk_intr() has nothing to panic about.
LEMMA UsedEntry ==
  ASSUME VirtioAssumption, DiskInv, intr_entry
  PROVE  \E q \in Procs :
           /\ waits(q) /\ idx[q][1] = used[seen_idx % NUM] /\ q \in served
           /\ used[seen_idx % NUM] \in inUsed
           /\ bdisk' = [bdisk EXCEPT ![q] = 0]
           /\ pc' = [pc EXCEPT ![q] = IF @ = "sleep" THEN "woken" ELSE @]
           /\ UNCHANGED panicked
<1> DEFINE id == used[seen_idx % NUM]
<1>1. /\ Ring(used, seen_idx, used_idx) /\ seen_idx # used_idx
      /\ Written(used', used, seen_idx, 0) /\ seen_idx' = add(seen_idx, 1)
  BY RingsOK, Consts DEF intr_entry, Written, Desc
<1>2. id \in inUsed
  <2>1. id \in Pending(used, seen_idx, used_idx)
    BY <1>1, TakeSet
  <2>2. QED
    BY <2>1 DEF inUsed
<1> HIDE DEF id
<1>3. PICK q \in Procs : waits(q) /\ idx[q][1] = id
  BY <1>2 DEF DiskInv, PlaceInv
<1>4. status[id] = 0 /\ q \in served
  BY <1>2, <1>3 DEF DiskInv, PlaceInv
<1>5. infob[id] = q /\ infob[id] # None
  BY <1>3, Heads, Consts DEF DiskInv, waits, busy
<1>6. complete(id)
  BY Zenon DEF intr_entry, id
<1>7. /\ bdisk' = [bdisk EXCEPT ![q] = 0]
      /\ pc' = [pc EXCEPT ![q] = IF @ = "sleep" THEN "woken" ELSE @]
      /\ UNCHANGED panicked
  BY <1>4, <1>5, <1>6, Zenon DEF complete
<1>8. QED
  BY <1>2, <1>3, <1>4, <1>7, Zenon DEF id

\* free_chain() gives back the three descriptors of p.
LEMMA ChainOfOwn ==
  ASSUME VirtioAssumption, NEW p \in Procs, Chained(p)
  PROVE  chain(idx[p][1]) = own(p)
  BY Triple, Consts, Zenon DEF Chained, chain, own

---------------------------------------------------------------------------
(* The inductive step.                                                     *)

\* The types are preserved.
LEMMA TypeNext == ASSUME VirtioAssumption, DiskInv, Next PROVE TypeOK'
<1> USE DEF TypeOK, PCs
<1>t. /\ TypeOK /\ NUM \in Nat \ {0} /\ UINT16 \in Nat \ {0}
      /\ {avail_idx, used_idx, seen_idx, taken_idx} \subseteq Index /\ 1 \in Index /\ 0 \in Desc
      /\ \A i \in Index : add(i, 1) \in Index /\ i % NUM \in Desc
  <2>1. NUM \in Nat \ {0} /\ UINT16 \in Nat \ {0} /\ NUM >= 3 /\ UINT16 >= NUM
    BY Consts
  <2>2. 1 \in Index /\ 0 \in Desc
    BY <2>1 DEF Index, Desc
  <2>3. \A i \in Index : add(i, 1) \in Index /\ i % NUM \in Desc
    BY <2>2, IndexFacts, Consts DEF Index
  <2>4. QED
    BY <2>1, <2>2, <2>3, Zenon DEF DiskInv, Index
<1>1. ASSUME NEW p \in Procs, Call(p) \/ alloc_fail(p) \/ Kill(p) PROVE TypeOK'
  <2>1. pc' \in [Procs -> PCs]
    BY <1>t, <1>1 DEF Call, alloc_fail, Kill, goto, wakeFree
  <2>2. QED
    BY <1>t, <1>1, <2>1, SMTT(30) DEF Call, alloc_fail, Kill, driver, device
<1>2. ASSUME NEW p \in Procs, submit(p) PROVE TypeOK'
  <2>1. PICK t \in free \X free \X free :
          /\ alloc3_desc(t)
          /\ idx' = [idx EXCEPT ![p] = t]
          /\ free' = free \ {t[1], t[2], t[3]}
          /\ next' = [next EXCEPT ![t[1]] = t[2], ![t[2]] = t[3], ![t[3]] = None]
          /\ status' = [status EXCEPT ![t[1]] = 255]
          /\ infob' = [infob EXCEPT ![t[1]] = p]
          /\ avail' = [avail EXCEPT ![avail_idx % NUM] = t[1]]
    BY <1>2, Zenon DEF submit
  <2>2. t \in Desc \X Desc \X Desc /\ t[1] \in Desc /\ t[2] \in Desc /\ t[3] \in Desc
    BY <1>t
  <2>3. /\ idx' \in [Procs -> {<<>>} \cup (Desc \X Desc \X Desc)] /\ free' \subseteq Desc
        /\ status' \in [Desc -> {0, 255}] /\ infob' \in [Desc -> Procs \cup {None}]
    BY <1>t, <2>1, <2>2
  <2>4. next' \in [Desc -> Desc \cup {None}] /\ avail' \in [Desc -> Desc]
    BY <1>t, <2>1, <2>2, Zenon
  <2>5. /\ vdisk_lock' \in Procs /\ bdisk' \in [Procs -> 0..1] /\ served' \subseteq Procs
        /\ pc' \in [Procs -> PCs]
    BY <1>t, <1>2 DEF submit, goto
  <2>6. QED
    BY <1>t, <1>2, <2>3, <2>4, <2>5, Zenon DEF submit, device
<1>3. ASSUME NEW p \in Procs, notify(p) PROVE TypeOK'
  BY <1>t, <1>3, SMTT(30) DEF notify, goto, device, Index
<1>4. ASSUME NEW p \in Procs, finish(p) PROVE TypeOK'
  <2>1. CASE bdisk[p] = 1
    BY <1>t, <1>4, <2>1 DEF finish, goto, device
  <2>2. CASE bdisk[p] # 1
    <3>1. busy(p) /\ Chained(p)
      BY <1>4, Zenon DEF finish, busy, DiskInv, ChainInv
    <3>2. chain(idx[p][1]) = own(p) /\ own(p) \subseteq Desc
      BY <3>1, ChainOfOwn, Triple, Zenon DEF Chained, own
    <3>3. /\ infob' = [infob EXCEPT ![idx[p][1]] = None]
          /\ panicked' = (own(p) \cap free # {})
          /\ free' = free \cup own(p)
          /\ next' = [i \in Desc |-> IF i \in own(p) THEN None ELSE next[i]]
          /\ idx' = [idx EXCEPT ![p] = <<>>]
          /\ wakeFree(p, "idle")
      BY <1>4, <2>2, <3>2, ZenonT(30) DEF finish
    <3>4. pc' \in [Procs -> PCs] /\ idx' \in [Procs -> {<<>>} \cup (Desc \X Desc \X Desc)]
      BY <1>t, <3>3, Zenon DEF wakeFree
    <3>5. free' \subseteq Desc /\ next' \in [Desc -> Desc \cup {None}] /\ infob' \in [Desc -> Procs \cup {None}]
      BY <1>t, <3>2, <3>3, Zenon
    <3>6. panicked' \in BOOLEAN
      BY <3>3, SMTT(30)
    <3>7. QED
      BY <1>t, <1>4, <3>4, <3>5, <3>6, Zenon DEF finish, device
  <2>3. QED
    BY <2>1, <2>2
<1>5. ASSUME intr \/ intr_done \/ DeviceRaise PROVE TypeOK'
  <2>1. irq' \in BOOLEAN /\ raise' \in BOOLEAN /\ panicked' \in BOOLEAN
    <3>1. irq \in BOOLEAN /\ raise \in BOOLEAN /\ panicked \in BOOLEAN
      BY <1>t
    <3>2. QED
      BY <1>5, <3>1, Zenon DEF intr, intr_done, DeviceRaise, device
  <2>2. CASE intr \/ intr_done
    BY <1>t, <2>1, <2>2 DEF intr, intr_done, device
  <2>3. CASE DeviceRaise
    BY <1>t, <2>1, <2>3, Zenon DEF DeviceRaise, driver
  <2>4. QED
    BY <1>5, <2>2, <2>3, Zenon
<1>6. ASSUME intr_entry PROVE TypeOK'
  <2>1. pc' \in [Procs -> PCs] /\ bdisk' \in [Procs -> 0..1] /\ panicked' \in BOOLEAN
    <3>1. PICK q \in Procs :
            /\ waits(q) /\ idx[q][1] = used[seen_idx % NUM] /\ q \in served
            /\ used[seen_idx % NUM] \in inUsed
            /\ bdisk' = [bdisk EXCEPT ![q] = 0]
            /\ pc' = [pc EXCEPT ![q] = IF @ = "sleep" THEN "woken" ELSE @]
            /\ UNCHANGED panicked
      BY <1>6, UsedEntry, Zenon
    <3>2. bdisk \in [Procs -> 0..1] /\ pc \in [Procs -> PCs] /\ panicked \in BOOLEAN
      BY <1>t
    <3>3. pc[q] \in PCs
      BY <3>2, Zenon
    <3>4. pc' \in [Procs -> PCs]
      BY <3>1, <3>2, <3>3, Zenon
    <3>5. bdisk' \in [Procs -> 0..1]
      BY <3>1, <3>2
    <3>6. QED
      BY <3>1, <3>2, <3>4, <3>5
  <2>2. QED
    BY <1>t, <1>6, <2>1, SMTT(30) DEF intr_entry, Index
<1>7. ASSUME DeviceTake PROVE TypeOK'
  <2>1. taken_idx % NUM \in Desc /\ avail[taken_idx % NUM] \in Desc
    BY <1>t, Zenon
  <2>2. avail' \in [Desc -> Desc] /\ working' \subseteq Desc /\ taken_idx' \in Index
    BY <1>t, <1>7, <2>1 DEF DeviceTake
  <2>3. {avail_idx', used_idx', seen_idx', taken_idx'} \subseteq 0..(UINT16 - 1)
    BY <1>t, <1>7, <2>2 DEF DeviceTake, Index
  <2>4. {irq', raise', panicked'} \subseteq BOOLEAN
    BY <1>t, <1>7, Zenon DEF DeviceTake
  <2>5. /\ vdisk_lock' \in Procs \cup {None, Intr} /\ free' \subseteq Desc /\ next' \in [Desc -> Desc \cup {None}]
        /\ infob' \in [Desc -> Procs \cup {None}] /\ status' \in [Desc -> {0, 255}] /\ used' \in [Desc -> Desc]
    BY <1>t, <1>7, Zenon DEF DeviceTake
  <2>6. /\ bdisk' \in [Procs -> 0..1] /\ pc' \in [Procs -> PCs] /\ served' \subseteq Procs
        /\ idx' \in [Procs -> {<<>>} \cup (Desc \X Desc \X Desc)]
    BY <1>t, <1>7, Zenon DEF DeviceTake
  <2>7. QED
    BY <2>2, <2>3, <2>4, <2>5, <2>6, Zenon
<1>8. ASSUME NEW i \in Desc, DeviceFinish(i) PROVE TypeOK'
  BY <1>t, <1>8, SMTT(30) DEF DeviceFinish, driver, Index
<1>9. QED
  BY <1>1, <1>2, <1>3, <1>4, <1>5, <1>6, <1>7, <1>8, ZenonT(30) DEF Next, virtio_disk_rw, virtio_disk_intr, Device

\* No descriptor is lost or owned twice.
LEMMA ChainNext == ASSUME VirtioAssumption, DiskInv, Next PROVE ChainInv'
<1>t. TypeOK /\ ChainInv
  BY Zenon DEF DiskInv
<1>s. ASSUME UNCHANGED <<free, next, infob, idx>>, \A p \in Procs : busy(p)' <=> busy(p)
      PROVE  ChainInv'
  <2>1. \A p \in Procs : own(p)' = own(p) /\ (Chained(p)' <=> Chained(p)) /\ idx'[p] = idx[p]
    BY <1>s, Zenon DEF own, Chained
  <2>2. QED
    <3>1. \A p \in Procs : IF busy(p)' THEN Chained(p)' /\ own(p)' \cap free' = {} ELSE idx'[p] = <<>>
      BY <1>t, <1>s, <2>1, ZenonT(30) DEF ChainInv
    <3>2. \A p, q \in Procs : busy(p)' /\ busy(q)' /\ p # q => own(p)' \cap own(q)' = {}
      BY <1>t, <1>s, <2>1, ZenonT(30) DEF ChainInv
    <3>3. \A i \in Desc \ free' : \E p \in Procs : busy(p)' /\ i \in own(p)'
      <4>1. TAKE i \in Desc \ free'
      <4>2. i \in Desc \ free
        BY <1>s, <4>1, Zenon
      <4>3. PICK p \in Procs : busy(p) /\ i \in own(p)
        BY <1>t, <4>2, Zenon DEF ChainInv
      <4>4. QED
        BY <1>s, <2>1, <4>3, Zenon
    <3>4. QED
      BY <3>1, <3>2, <3>3, Zenon DEF ChainInv
<1>1. ASSUME NEW p \in Procs, Call(p) \/ alloc_fail(p) \/ Kill(p) \/ notify(p) PROVE ChainInv'
  <2>1. \A q \in Procs : busy(q)' <=> busy(q)
    <3>1. CASE Call(p)
      BY <1>t, <3>1 DEF Call, goto, busy, TypeOK
    <3>2. CASE alloc_fail(p)
      <4>1. CASE free = {}
        BY <1>t, <3>2, <4>1 DEF alloc_fail, goto, busy, TypeOK
      <4>2. CASE free # {}
        BY <1>t, <3>2, <4>2 DEF alloc_fail, wakeFree, busy, TypeOK
      <4>3. QED
        BY <4>1, <4>2, Zenon
    <3>3. CASE Kill(p)
      BY <1>t, <3>3 DEF Kill, goto, busy, TypeOK
    <3>4. CASE notify(p)
      BY <1>t, <3>4 DEF notify, goto, busy, TypeOK
    <3>5. QED
      BY <1>1, <3>1, <3>2, <3>3, <3>4, Zenon
  <2>2. QED
    BY <1>s, <1>1, <2>1, Zenon DEF Call, alloc_fail, Kill, notify, driver
<1>2. ASSUME NEW p \in Procs, submit(p) PROVE ChainInv'
  <2>1. PICK t \in free \X free \X free :
          /\ alloc3_desc(t)
          /\ idx' = [idx EXCEPT ![p] = t]
          /\ free' = free \ {t[1], t[2], t[3]}
          /\ next' = [next EXCEPT ![t[1]] = t[2], ![t[2]] = t[3], ![t[3]] = None]
          /\ status' = [status EXCEPT ![t[1]] = 255]
          /\ infob' = [infob EXCEPT ![t[1]] = p]
          /\ avail' = [avail EXCEPT ![avail_idx % NUM] = t[1]]
    BY <1>2, Zenon DEF submit
  <2>2. /\ t \in Desc \X Desc \X Desc /\ t[1] \in Desc /\ t[2] \in Desc /\ t[3] \in Desc
        /\ t[1] \in free /\ t[2] \in free /\ t[3] \in free
        /\ t[1] # t[2] /\ t[2] # t[3] /\ t[1] # t[3]
    BY <1>t, <2>1, Zenon DEF alloc3_desc, alloc_desc, TypeOK
  <2>3. ~ busy(p) /\ busy(p)' /\ \A q \in Procs \ {p} : busy(q)' <=> busy(q)
    <3>1. pc \in [Procs -> PCs] /\ pc[p] = "rw" /\ pc' = [pc EXCEPT ![p] = "ring"]
      BY <1>t, <1>2, Zenon DEF submit, goto, TypeOK
    <3>2. QED
      BY <3>1 DEF busy
  <2>4. idx'[p] = t /\ \A q \in Procs \ {p} : idx'[q] = idx[q]
    <3>1. idx \in [Procs -> {<<>>} \cup (Desc \X Desc \X Desc)]
      BY <1>t, Zenon DEF TypeOK
    <3>2. DOMAIN idx = Procs /\ idx' = [idx EXCEPT ![p] = t]
      BY <2>1, <3>1, Zenon
    <3>3. QED
      BY <3>2, Zenon
  <2>5. Chained(p)' /\ own(p)' = {t[1], t[2], t[3]}
    BY <1>t, <2>1, <2>2, <2>4, ZenonT(30) DEF Chained, own, TypeOK
  <2>6. ASSUME NEW q \in Procs \ {p}, busy(q)
        PROVE  Chained(q)' /\ own(q)' = own(q) /\ own(q) \cap {t[1], t[2], t[3]} = {} /\ own(q) \cap free = {}
    <3>1. Chained(q) /\ own(q) \cap free = {}
      BY <1>t, <2>6, Zenon DEF ChainInv
    <3>2. own(q)' = own(q) /\ own(q) \cap {t[1], t[2], t[3]} = {}
      BY <2>2, <2>4, <3>1, ZenonT(30) DEF own
    <3>3. \A i \in own(q) : i \in Desc /\ next'[i] = next[i] /\ infob'[i] = infob[i]
      <4>1. next \in [Desc -> Desc \cup {None}] /\ infob \in [Desc -> Procs \cup {None}]
        BY <1>t, Zenon DEF TypeOK
      <4>2. TAKE i \in own(q)
      <4>3. i \in Desc
        BY <3>1, <4>2, Triple, Zenon DEF Chained, own
      <4>4. i # t[1] /\ i # t[2] /\ i # t[3]
        BY <3>2, <4>2, Zenon
      <4>5. next'[i] = next[i] /\ infob'[i] = infob[i]
        BY <2>1, <4>1, <4>3, <4>4
      <4>6. QED
        BY <4>3, <4>5, Zenon
    <3>4. QED
      BY <2>4, <3>1, <3>2, <3>3, Zenon DEF Chained, own
  <2>7. \A q \in Procs \ {p} : ~ busy(q) => idx[q] = <<>>
    BY <1>t DEF ChainInv
  <2>8. \A q \in Procs : IF busy(q)' THEN Chained(q)' /\ own(q)' \cap free' = {} ELSE idx'[q] = <<>>
    BY <2>1, <2>3, <2>4, <2>5, <2>6, <2>7
  <2>9. \A q, r \in Procs : busy(q)' /\ busy(r)' /\ q # r => own(q)' \cap own(r)' = {}
    <3>1. \A q, r \in Procs : busy(q) /\ busy(r) /\ q # r => own(q) \cap own(r) = {}
      BY <1>t DEF ChainInv
    <3>2. QED
      BY <2>3, <2>5, <2>6, <3>1
  <2>10. \A i \in Desc \ free' : \E q \in Procs : busy(q)' /\ i \in own(q)'
    <3>1. \A i \in Desc \ free : \E q \in Procs : busy(q) /\ i \in own(q)
      BY <1>t DEF ChainInv
    <3>2. QED
      BY <2>1, <2>3, <2>5, <2>6, <3>1, SMTT(30)
  <2>11. QED
    BY <2>8, <2>9, <2>10, Zenon DEF ChainInv
<1>3. ASSUME NEW p \in Procs, finish(p) PROVE ChainInv'
  <2>1. CASE bdisk[p] = 1
    <3>1. \A q \in Procs : busy(q)' <=> busy(q)
      BY <1>t, <1>3, <2>1 DEF finish, goto, busy, TypeOK
    <3>2. QED
      BY <1>s, <1>3, <2>1, <3>1, ZenonT(30) DEF finish
  <2>2. CASE bdisk[p] # 1
    <3>1. busy(p) /\ Chained(p)
      BY <1>t, <1>3, Zenon DEF finish, busy, ChainInv
    <3>2. chain(idx[p][1]) = own(p) /\ own(p) \subseteq Desc /\ idx[p][1] \in own(p)
      BY <3>1, ChainOfOwn, Triple, Zenon DEF Chained, own
    <3>3. /\ infob' = [infob EXCEPT ![idx[p][1]] = None]
          /\ free' = free \cup own(p)
          /\ next' = [i \in Desc |-> IF i \in own(p) THEN None ELSE next[i]]
          /\ idx' = [idx EXCEPT ![p] = <<>>]
          /\ wakeFree(p, "idle")
      BY <1>3, <2>2, <3>2, ZenonT(30) DEF finish
    <3>4. ~ busy(p)' /\ \A q \in Procs \ {p} : busy(q)' <=> busy(q)
      BY <1>t, <3>3, Zenon DEF wakeFree, busy, TypeOK
    <3>5. idx'[p] = <<>> /\ \A q \in Procs \ {p} : idx'[q] = idx[q]
      BY <1>t, <3>3 DEF TypeOK
    <3>6. ASSUME NEW q \in Procs \ {p}, busy(q)
          PROVE  Chained(q)' /\ own(q)' = own(q) /\ own(q) \cap free' = {}
      <4>1. Chained(q) /\ own(q) \cap free = {} /\ own(q) \cap own(p) = {}
        BY <1>t, <3>1, <3>6, Zenon DEF ChainInv
      <4>2. own(q)' = own(q) /\ own(q) \cap free' = {}
        BY <3>3, <3>5, <4>1, Zenon DEF own
      <4>3. \A i \in own(q) : i \in Desc /\ next'[i] = next[i] /\ infob'[i] = infob[i]
        <5>1. own(q) \subseteq Desc
          BY <4>1, Triple DEF Chained, own
        <5>2. next \in [Desc -> Desc \cup {None}] /\ infob \in [Desc -> Procs \cup {None}]
          BY <1>t, Zenon DEF TypeOK
        <5>3. idx[p][1] \notin own(q)
          BY <3>2, <4>1, Zenon
        <5>4. QED
          BY <3>3, <4>1, <5>1, <5>2, <5>3
      <4>4. QED
        BY <3>5, <4>1, <4>2, <4>3, ZenonT(30) DEF Chained, own
    <3>7. \A q \in Procs \ {p} : ~ busy(q) => idx[q] = <<>>
      BY <1>t, Zenon DEF ChainInv
    <3>8. \A q \in Procs : IF busy(q)' THEN Chained(q)' /\ own(q)' \cap free' = {} ELSE idx'[q] = <<>>
      BY <3>4, <3>5, <3>6, <3>7
    <3>9. \A q, r \in Procs : busy(q)' /\ busy(r)' /\ q # r => own(q)' \cap own(r)' = {}
      <4>1. \A q, r \in Procs : busy(q) /\ busy(r) /\ q # r => own(q) \cap own(r) = {}
        BY <1>t, Zenon DEF ChainInv
      <4>2. QED
        BY <3>4, <3>6, <4>1, Zenon
    <3>10. \A i \in Desc \ free' : \E q \in Procs : busy(q)' /\ i \in own(q)'
      <4>1. \A i \in Desc \ free : \E q \in Procs : busy(q) /\ i \in own(q)
        BY <1>t, Zenon DEF ChainInv
      <4>2. QED
        BY <3>3, <3>4, <3>6, <4>1, Zenon
    <3>11. QED
      BY <3>8, <3>9, <3>10, Zenon DEF ChainInv
  <2>3. QED
    BY <2>1, <2>2, Zenon
<1>4. ASSUME intr \/ intr_done \/ DeviceRaise \/ DeviceTake \/ \E i \in Desc : DeviceFinish(i) PROVE ChainInv'
  <2>1. \A q \in Procs : busy(q)' <=> busy(q)
    BY <1>4, Zenon DEF intr, intr_done, DeviceRaise, DeviceTake, DeviceFinish, busy
  <2>2. QED
    BY <1>s, <1>4, <2>1, Zenon DEF intr, intr_done, DeviceRaise, DeviceTake, DeviceFinish, driver
<1>5. ASSUME intr_entry PROVE ChainInv'
  <2>1. \A q \in Procs : busy(q)' <=> busy(q)
    BY <1>t, <1>5, UsedEntry DEF busy, TypeOK
  <2>2. QED
    BY <1>s, <1>5, <2>1, Zenon DEF intr_entry
<1>6. QED
  BY <1>1, <1>2, <1>3, <1>4, <1>5 DEF Next, virtio_disk_rw, virtio_disk_intr, Device

\* A set of descriptors is finite, and a part of it no bigger.
LEMMA FewFree ==
  ASSUME VirtioAssumption, NEW S \in SUBSET Desc, NEW T \in SUBSET S, Cardinality(S) < 3
  PROVE  Cardinality(T) < 3
<1>1. IsFiniteSet(Desc)
  BY Consts, FS_Interval DEF Desc
<1>2. IsFiniteSet(S)
  BY <1>1, FS_Subset
<1>3. IsFiniteSet(T) /\ Cardinality(T) <= Cardinality(S)
  BY <1>2, FS_Subset
<1>4. Cardinality(T) \in Nat /\ Cardinality(S) \in Nat
  BY <1>2, <1>3, FS_CardinalityType, Zenon
<1>5. QED
  BY <1>3, <1>4

\* The lock, b->disk, the sleepers for descriptors and the interrupt.
LEMMA LockNext == ASSUME VirtioAssumption, DiskInv, Next PROVE LockInv'
<1>t. /\ TypeOK /\ ChainInv /\ LockInv /\ PlaceInv
      /\ pc \in [Procs -> PCs] /\ bdisk \in [Procs -> 0..1] /\ served \subseteq Procs
      /\ idx \in [Procs -> {<<>>} \cup (Desc \X Desc \X Desc)] /\ free \subseteq Desc
      /\ None \notin Procs /\ Intr \notin Procs /\ None # Intr
  BY Consts, Zenon DEF DiskInv, TypeOK
<1>u. /\ \A q \in Procs : vdisk_lock = q <=> pc[q] = "ring"
      /\ \A q \in Procs :
           /\ pc[q] = "ring" => bdisk[q] = 1 /\ avail[avail_idx % NUM] = idx[q][1] /\ q \notin served
           /\ pc[q] = "sleep" => bdisk[q] = 1
           /\ pc[q] = "woken" /\ bdisk[q] = 0 => q \in served
           /\ ~ busy(q) => bdisk[q] = 0
      /\ \A q \in Procs : pc[q] = "sleep_desc" => Cardinality(free) < 3
      /\ ~ panicked
      /\ seen_idx # used_idx => raise \/ irq \/ vdisk_lock = Intr
  BY <1>t DEF LockInv
<1>1. ASSUME NEW p \in Procs, Call(p) \/ alloc_fail(p) \/ Kill(p) PROVE LockInv'
  <2>1. /\ \A q \in Procs : (pc'[q] = "ring" <=> pc[q] = "ring") /\ (pc'[q] = "sleep" => pc[q] = "sleep")
        /\ \A q \in Procs : pc'[q] = "woken" => pc[q] \in {"woken", "sleep"}
        /\ \A q \in Procs : busy(q)' <=> busy(q)
    BY <1>t, <1>1, ZenonT(30) DEF Call, alloc_fail, Kill, goto, wakeFree, busy, PCs
  <2>2. \A q \in Procs : pc'[q] = "sleep_desc" => Cardinality(free) < 3
    BY <1>t, <1>u, <1>1, Zenon DEF Call, alloc_fail, Kill, goto, wakeFree
  <2>3. UNCHANGED <<vdisk_lock, free, bdisk, avail, avail_idx, idx, served, panicked, seen_idx, used_idx, raise, irq>>
    BY <1>1 DEF Call, alloc_fail, Kill, driver, device
  <2>4. \A q \in Procs : bdisk[q] = 0 => bdisk[q] # 1
    OBVIOUS
  <2>5. QED
    BY <1>u, <2>1, <2>2, <2>3, <2>4, Zenon DEF LockInv
<1>2. ASSUME NEW p \in Procs, submit(p) PROVE LockInv'
  <2>1. PICK t \in free \X free \X free :
          /\ alloc3_desc(t)
          /\ idx' = [idx EXCEPT ![p] = t]
          /\ free' = free \ {t[1], t[2], t[3]}
          /\ next' = [next EXCEPT ![t[1]] = t[2], ![t[2]] = t[3], ![t[3]] = None]
          /\ status' = [status EXCEPT ![t[1]] = 255]
          /\ infob' = [infob EXCEPT ![t[1]] = p]
          /\ avail' = [avail EXCEPT ![avail_idx % NUM] = t[1]]
    BY <1>2, Zenon DEF submit
  <2>2. /\ pc[p] = "rw" /\ vdisk_lock = None /\ vdisk_lock' = p
        /\ bdisk' = [bdisk EXCEPT ![p] = 1] /\ served' = served \ {p}
        /\ pc' = [pc EXCEPT ![p] = "ring"]
        /\ UNCHANGED <<avail_idx, seen_idx, used_idx, raise, irq, panicked>>
    BY <1>2, Zenon DEF submit, goto, device
  <2>3. avail'[avail_idx' % NUM] = t[1] /\ idx'[p][1] = t[1]
    <3>1. avail \in [Desc -> Desc] /\ avail_idx \in 0..(UINT16 - 1)
      BY <1>t, Zenon DEF TypeOK
    <3>2. avail_idx % NUM \in Desc
      BY <3>1, Consts DEF Desc
    <3>3. DOMAIN avail = Desc /\ DOMAIN idx = Procs
      BY <1>t, <3>1, Zenon
    <3>4. avail' = [avail EXCEPT ![avail_idx % NUM] = t[1]] /\ idx' = [idx EXCEPT ![p] = t] /\ avail_idx' = avail_idx
      BY <2>1, <2>2, Zenon
    <3>5. QED
      BY <3>2, <3>3, <3>4, Zenon
  <2>4. \A q \in Procs : pc[q] # "ring"
    BY <1>t, <1>u, <2>2, Zenon
  <2>5. /\ pc'[p] = "ring" /\ bdisk'[p] = 1 /\ p \notin served'
        /\ \A q \in Procs \ {p} : /\ pc'[q] = pc[q] /\ bdisk'[q] = bdisk[q] /\ (busy(q)' <=> busy(q))
                                  /\ (q \in served => q \in served')
    <3>1. DOMAIN pc = Procs /\ DOMAIN bdisk = Procs
      BY <1>t, Zenon DEF TypeOK
    <3>2. pc'[p] = "ring" /\ bdisk'[p] = 1 /\ p \notin served'
      BY <2>2, <3>1, Zenon
    <3>3. \A q \in Procs \ {p} : pc'[q] = pc[q] /\ bdisk'[q] = bdisk[q]
      BY <2>2, <3>1, Zenon
    <3>4. \A q \in Procs \ {p} : busy(q)' <=> busy(q)
      BY <3>3, Zenon DEF busy
    <3>5. \A q \in Procs \ {p} : q \in served => q \in served'
      BY <2>2, Zenon
    <3>6. QED
      BY <3>2, <3>3, <3>4, <3>5, Zenon
  <2>6. \A q \in Procs : pc'[q] = "sleep_desc" => Cardinality(free') < 3
    BY <1>t, <1>u, <2>1, <2>5, FewFree, ZenonT(30)
  <2>7. \A q \in Procs : vdisk_lock' = q <=> pc'[q] = "ring"
    BY <2>2, <2>4, <2>5, Zenon
  <2>8. ASSUME NEW q \in Procs
        PROVE  /\ pc'[q] = "ring" => bdisk'[q] = 1 /\ avail'[avail_idx' % NUM] = idx'[q][1] /\ q \notin served'
               /\ pc'[q] = "sleep" => bdisk'[q] = 1
               /\ pc'[q] = "woken" /\ bdisk'[q] = 0 => q \in served'
               /\ ~ busy(q)' => bdisk'[q] = 0
    <3>1. CASE q = p
      BY <2>3, <2>5, <3>1, Zenon DEF busy
    <3>2. CASE q # p
      BY <1>u, <2>4, <2>5, <3>2, ZenonT(30)
    <3>3. QED
      BY <3>1, <3>2, Zenon
  <2>9. QED
    BY <1>t, <1>u, <2>2, <2>6, <2>7, <2>8, Zenon DEF LockInv
<1>3. ASSUME NEW p \in Procs, notify(p) PROVE LockInv'
  <2>1. /\ pc[p] = "ring" /\ vdisk_lock' = None /\ pc' = [pc EXCEPT ![p] = "sleep"]
        /\ UNCHANGED <<free, bdisk, avail, idx, served, panicked, seen_idx, used_idx, raise, irq>>
    BY <1>3, Zenon DEF notify, goto, device
  <2>2. /\ vdisk_lock = p /\ pc'[p] = "sleep" /\ bdisk[p] = 1
        /\ \A q \in Procs \ {p} : pc'[q] = pc[q] /\ pc[q] # "ring" /\ (busy(q)' <=> busy(q))
    BY <1>t, <1>u, <2>1 DEF busy
  <2>3. \A q \in Procs : pc'[q] # "ring" /\ vdisk_lock' # q
    BY <1>t, <2>1, <2>2, Zenon
  <2>4. \A q \in Procs : /\ pc'[q] = "sleep" => bdisk'[q] = 1
                         /\ pc'[q] = "woken" /\ bdisk'[q] = 0 => q \in served'
                         /\ ~ busy(q)' => bdisk'[q] = 0
                         /\ pc'[q] = "sleep_desc" => Cardinality(free') < 3
    BY <1>u, <2>1, <2>2, ZenonT(30) DEF busy
  <2>5. QED
    BY <1>t, <1>u, <2>1, <2>2, <2>3, <2>4, Zenon DEF LockInv
<1>4. ASSUME NEW p \in Procs, finish(p) PROVE LockInv'
  <2>1. /\ pc[p] = "woken" /\ UNCHANGED <<vdisk_lock, avail, avail_idx, bdisk, served, seen_idx, used_idx, raise, irq>>
    BY <1>4, Zenon DEF finish, device
  <2>2. CASE bdisk[p] = 1
    <3>1. pc' = [pc EXCEPT ![p] = "sleep"] /\ UNCHANGED <<free, idx, panicked>>
      BY <1>4, <2>2, Zenon DEF finish, goto
    <3>2. pc'[p] = "sleep" /\ \A q \in Procs \ {p} : pc'[q] = pc[q] /\ (busy(q)' <=> busy(q))
      BY <1>t, <3>1, Zenon DEF busy
    <3>3. QED
      BY <1>u, <2>1, <2>2, <3>1, <3>2 DEF LockInv, busy
  <2>3. CASE bdisk[p] # 1
    <3>1. busy(p) /\ Chained(p) /\ own(p) \cap free = {}
      BY <1>t, <2>1, Zenon DEF busy, ChainInv
    <3>2. chain(idx[p][1]) = own(p)
      BY <3>1, ChainOfOwn, Zenon
    <3>3. /\ panicked' = (own(p) \cap free # {}) /\ idx' = [idx EXCEPT ![p] = <<>>]
          /\ pc' = [q \in Procs |-> IF q = p THEN "idle" ELSE IF pc[q] = "sleep_desc" THEN "rw" ELSE pc[q]]
      BY <1>4, <2>3, <3>2, Zenon DEF finish, wakeFree
    <3>4. ~ panicked'
      BY <3>1, <3>3, Zenon
    <3>5. /\ pc'[p] = "idle" /\ bdisk[p] = 0
          /\ \A q \in Procs : pc'[q] # "sleep_desc"
          /\ \A q \in Procs \ {p} : /\ pc'[q] \in {"ring", "sleep", "woken"} => pc'[q] = pc[q]
                                    /\ pc[q] \in {"ring", "sleep", "woken"} => pc'[q] = pc[q]
                                    /\ (busy(q)' <=> busy(q)) /\ idx'[q] = idx[q]
      BY <1>t, <2>3, <3>3, SMTT(30) DEF busy
    <3>6. ASSUME NEW q \in Procs
          PROVE  /\ vdisk_lock' = q <=> pc'[q] = "ring"
                 /\ pc'[q] = "ring" => bdisk'[q] = 1 /\ avail'[avail_idx' % NUM] = idx'[q][1] /\ q \notin served'
                 /\ pc'[q] = "sleep" => bdisk'[q] = 1
                 /\ pc'[q] = "woken" /\ bdisk'[q] = 0 => q \in served'
                 /\ ~ busy(q)' => bdisk'[q] = 0
      <4>1. CASE q = p
        <5>1. vdisk_lock # p /\ bdisk' = bdisk /\ vdisk_lock' = vdisk_lock
          BY <1>u, <2>1, Zenon
        <5>2. pc'[p] = "idle" /\ bdisk'[p] = 0
          BY <3>5, <5>1, Zenon
        <5>3. QED
          BY <4>1, <5>1, <5>2, Zenon
      <4>2. CASE q # p
        BY <1>u, <2>1, <3>5, <4>2, ZenonT(30)
      <4>3. QED
        BY <4>1, <4>2
    <3>7. QED
      BY <1>u, <2>1, <3>4, <3>5, <3>6, Zenon DEF LockInv
  <2>4. QED
    BY <2>2, <2>3
<1>5. ASSUME intr PROVE LockInv'
  <2>1. \A q \in Procs : pc[q] # "ring" /\ (busy(q)' <=> busy(q))
    BY <1>t, <1>u, <1>5, Zenon DEF intr, busy
  <2>2. QED
    BY <1>t, <1>u, <1>5, <2>1, Zenon DEF intr, LockInv
<1>6. ASSUME intr_done PROVE LockInv'
  <2>1. \A q \in Procs : pc[q] # "ring" /\ (busy(q)' <=> busy(q))
    BY <1>t, <1>u, <1>6, Zenon DEF intr_done, busy
  <2>2. QED
    BY <1>t, <1>u, <1>6, <2>1, Zenon DEF intr_done, device, LockInv
<1>7. ASSUME intr_entry PROVE LockInv'
  <2>1. PICK p \in Procs :
          /\ waits(p) /\ idx[p][1] = used[seen_idx % NUM] /\ p \in served
          /\ used[seen_idx % NUM] \in inUsed
          /\ bdisk' = [bdisk EXCEPT ![p] = 0]
          /\ pc' = [pc EXCEPT ![p] = IF @ = "sleep" THEN "woken" ELSE @]
          /\ UNCHANGED panicked
    BY <1>7, UsedEntry
  <2>2. pc'[p] = "woken" /\ bdisk'[p] = 0 /\ busy(p)'
    BY <1>t, <2>1, Zenon DEF waits, busy
  <2>3. \A q \in Procs \ {p} : pc'[q] = pc[q] /\ bdisk'[q] = bdisk[q] /\ (busy(q)' <=> busy(q))
    BY <1>t, <2>1, Zenon DEF busy
  <2>4. vdisk_lock = Intr /\ UNCHANGED <<vdisk_lock, free, avail, avail_idx, idx, served>>
    BY <1>7, Zenon DEF intr_entry
  <2>5. ASSUME NEW q \in Procs
        PROVE  /\ pc'[q] # "ring" /\ vdisk_lock' # q
               /\ pc'[q] = "sleep" => bdisk'[q] = 1
               /\ pc'[q] = "woken" /\ bdisk'[q] = 0 => q \in served'
               /\ ~ busy(q)' => bdisk'[q] = 0
               /\ pc'[q] = "sleep_desc" => Cardinality(free') < 3
    <3>1. CASE q = p
      BY <1>t, <2>1, <2>2, <2>4, <3>1, ZenonT(30)
    <3>2. CASE q # p
      <4>1. /\ vdisk_lock = q <=> pc[q] = "ring"
            /\ pc[q] = "sleep" => bdisk[q] = 1
            /\ pc[q] = "woken" /\ bdisk[q] = 0 => q \in served
            /\ ~ busy(q) => bdisk[q] = 0
            /\ pc[q] = "sleep_desc" => Cardinality(free) < 3
        BY <1>u, Zenon
      <4>2. pc'[q] = pc[q] /\ bdisk'[q] = bdisk[q] /\ (busy(q)' <=> busy(q)) /\ q # Intr
        BY <1>t, <2>3, <3>2, Zenon
      <4>3. QED
        BY <2>4, <4>1, <4>2, Zenon
    <3>3. QED
      BY <3>1, <3>2, Zenon
  <2>6. QED
    BY <1>u, <2>1, <2>4, <2>5, Zenon DEF LockInv
<1>8. ASSUME DeviceTake PROVE LockInv'
  <2>1. avail'[avail_idx % NUM] = avail[avail_idx % NUM]
    <3>1. /\ Ring(avail, taken_idx, avail_idx) /\ taken_idx # avail_idx
          /\ Written(avail', avail, taken_idx, 0) /\ taken_idx' = add(taken_idx, 1)
      BY <1>8, RingsOK, Consts DEF Written, Desc, DeviceTake
    <3>2. QED
      BY <3>1, TakeSet
  <2>2. \A q \in Procs : busy(q)' <=> busy(q)
    BY <1>8, Zenon DEF DeviceTake, busy
  <2>3. UNCHANGED <<vdisk_lock, free, pc, bdisk, avail_idx, idx, served, panicked, seen_idx, used_idx, raise, irq>>
    BY <1>8, Zenon DEF DeviceTake
  <2>4. QED
    BY <1>u, <2>1, <2>2, <2>3 DEF LockInv
<1>9. ASSUME NEW i \in Desc, DeviceFinish(i) PROVE LockInv'
  <2>1. PICK p \in Procs : waits(p) /\ idx[p][1] = i
    BY <1>t, <1>9, Zenon DEF PlaceInv, DeviceFinish
  <2>2. \A q \in Procs : pc[q] = "ring" => idx[q][1] # i
    BY <1>t, <2>1, Heads, Zenon DEF waits, busy
  <2>3. \A q \in Procs : (busy(q)' <=> busy(q)) /\ (pc[q] = "ring" /\ q \notin served => q \notin served')
    BY <1>9, <2>2, Zenon DEF DeviceFinish, busy
  <2>4. raise' /\ served \subseteq served'
    BY <1>9, Zenon DEF DeviceFinish
  <2>5. UNCHANGED <<vdisk_lock, free, pc, bdisk, avail, avail_idx, idx, panicked>>
    BY <1>9, Zenon DEF DeviceFinish, driver
  <2>6. QED
    BY <1>u, <2>3, <2>4, <2>5, Zenon DEF LockInv
<1>10. ASSUME DeviceRaise PROVE LockInv'
  <2>1. irq' /\ \A q \in Procs : busy(q)' <=> busy(q)
    BY <1>10 DEF DeviceRaise, busy
  <2>2. UNCHANGED <<vdisk_lock, free, pc, bdisk, avail, avail_idx, idx, served, panicked, seen_idx, used_idx>>
    BY <1>10, Zenon DEF DeviceRaise, driver
  <2>3. QED
    BY <1>u, <2>1, <2>2, Zenon DEF LockInv
<1>11. QED
  BY <1>1, <1>2, <1>3, <1>4, <1>5, <1>6, <1>7, <1>8, <1>9, <1>10, ZenonT(30) DEF Next, virtio_disk_rw, virtio_disk_intr, Device

\* Each request is in one place, and the place moves from the avail ring through
\* the device to the used ring.
LEMMA PlaceNext == ASSUME VirtioAssumption, DiskInv, Next PROVE PlaceInv'
<1>t. /\ TypeOK /\ ChainInv /\ LockInv /\ PlaceInv
      /\ pc \in [Procs -> PCs] /\ bdisk \in [Procs -> 0..1] /\ status \in [Desc -> {0, 255}]
  BY DEF DiskInv, TypeOK
<1>r. Ring(avail, taken_idx, avail_idx) /\ Ring(used, seen_idx, used_idx) /\ 0 \in Desc
  BY RingsOK, Consts DEF Desc
<1>u. /\ Distinct(avail, taken_idx, avail_idx) /\ Distinct(used, seen_idx, used_idx)
      /\ inAvail \cap working = {} /\ inAvail \cap inUsed = {} /\ working \cap inUsed = {}
      /\ \A i \in inAvail \cup working \cup inUsed : \E p \in Procs : waits(p) /\ idx[p][1] = i
      /\ \A p \in Procs : waits(p) => idx[p][1] \in inAvail \cup working \cup inUsed
      /\ \A i \in inUsed : status[i] = 0
      /\ \A p \in Procs : waits(p) /\ idx[p][1] \in inUsed => p \in served
  BY <1>t, Zenon DEF PlaceInv
<1>a. UNCHANGED <<avail, taken_idx, avail_idx>> =>
        inAvail' = inAvail /\ Distinct(avail', taken_idx', avail_idx')
  BY <1>u, Zenon DEF inAvail
<1>b. UNCHANGED <<used, seen_idx, used_idx>> =>
        inUsed' = inUsed /\ Distinct(used', seen_idx', used_idx')
  BY <1>u, ZenonT(30) DEF inUsed
<1>s. ASSUME inAvail' = inAvail, Distinct(avail', taken_idx', avail_idx'),
             inUsed' = inUsed, Distinct(used', seen_idx', used_idx'), working' = working,
             \A i \in inUsed : status'[i] = status[i],
             \A q \in Procs : /\ waits(q)' <=> waits(q)
                              /\ waits(q) => idx'[q] = idx[q] /\ (q \in served => q \in served')
      PROVE  PlaceInv'
  BY <1>u, <1>s, ZenonT(30) DEF PlaceInv
<1>1. ASSUME NEW p \in Procs, Call(p) \/ alloc_fail(p) \/ Kill(p) PROVE PlaceInv'
  <2>1. \A q \in Procs : waits(q)' <=> waits(q)
    BY <1>t, <1>1 DEF Call, alloc_fail, Kill, goto, wakeFree, waits, driver
  <2>2. UNCHANGED <<avail, taken_idx, avail_idx, used, seen_idx, used_idx, working, status, idx, served>>
    BY <1>1, Zenon DEF Call, alloc_fail, Kill, driver, device
  <2>3. QED
    BY <1>a, <1>b, <1>s, <2>1, <2>2, SMTT(30)
<1>2. ASSUME NEW p \in Procs, submit(p) PROVE PlaceInv'
  <2>1. PICK t \in free \X free \X free :
          /\ alloc3_desc(t)
          /\ idx' = [idx EXCEPT ![p] = t]
          /\ free' = free \ {t[1], t[2], t[3]}
          /\ next' = [next EXCEPT ![t[1]] = t[2], ![t[2]] = t[3], ![t[3]] = None]
          /\ status' = [status EXCEPT ![t[1]] = 255]
          /\ infob' = [infob EXCEPT ![t[1]] = p]
          /\ avail' = [avail EXCEPT ![avail_idx % NUM] = t[1]]
    BY <1>2, Zenon DEF submit
  <2>2. t[1] \in free /\ t[1] \in Desc /\ idx \in [Procs -> {<<>>} \cup (Desc \X Desc \X Desc)]
    BY <1>t, Zenon DEF TypeOK
  <2>3. /\ pc[p] = "rw" /\ served' = served \ {p}
        /\ bdisk' = [bdisk EXCEPT ![p] = 1] /\ pc' = [pc EXCEPT ![p] = "ring"]
        /\ UNCHANGED <<taken_idx, avail_idx, used, seen_idx, used_idx, working>>
    BY <1>2, Zenon DEF submit, goto, device
  <2>4. Pending(avail', taken_idx, avail_idx) = inAvail /\ Distinct(avail', taken_idx, avail_idx)
    <3>1. /\ Pending(avail', taken_idx, avail_idx) = Pending(avail, taken_idx, avail_idx)
          /\ Distinct(avail', taken_idx, avail_idx)
      <4>1. Written(avail', avail, avail_idx, t[1])
        BY <2>1, <2>2, Zenon DEF Written
      <4>2. Ring(avail', taken_idx, avail_idx) /\ Pending(avail', taken_idx, avail_idx) = Pending(avail, taken_idx, avail_idx)
        BY <1>r, <4>1, WriteSet
      <4>3. QED
        BY <4>2, Zenon DEF Ring
    <3>2. QED
      BY <3>1, Zenon DEF inAvail
  <2>5. inAvail' = inAvail /\ Distinct(avail', taken_idx', avail_idx')
    BY <2>3, <2>4, Zenon DEF inAvail
  <2>6. ASSUME NEW i \in inUsed PROVE status'[i] = status[i]
    <3>1. PICK q \in Procs : waits(q) /\ idx[q][1] = i
      BY <1>u, Zenon
    <3>2. i \in own(q) /\ own(q) \cap free = {}
      BY <1>t, <3>1, Zenon DEF own, ChainInv, waits, busy
    <3>3. QED
      BY <1>t, <2>1, <2>2, <3>2
  <2>7. ASSUME NEW q \in Procs
        PROVE  /\ waits(q)' <=> waits(q)
               /\ waits(q) => idx'[q] = idx[q] /\ (q \in served => q \in served')
    BY <1>t, <2>1, <2>2, <2>3, ZenonT(30) DEF waits
  <2>8. QED
    BY <1>b, <1>s, <2>3, <2>5, <2>6, <2>7, Zenon
<1>3. ASSUME NEW p \in Procs, notify(p) PROVE PlaceInv'
  <2>1. /\ pc[p] = "ring" /\ bdisk[p] = 1 /\ avail[avail_idx % NUM] = idx[p][1]
        /\ avail_idx' = add(avail_idx, 1) /\ pc' = [pc EXCEPT ![p] = "sleep"]
        /\ UNCHANGED <<avail, taken_idx, used, seen_idx, used_idx, working, bdisk, idx, status, served>>
    BY <1>t, <1>3, Zenon DEF notify, goto, device, LockInv
  <2>2. waits(p)' /\ ~ waits(p) /\ \A q \in Procs \ {p} : waits(q)' <=> waits(q)
    BY <1>t, <2>1, ZenonT(30) DEF waits
  <2>3. idx[p][1] \notin inAvail \cup working \cup inUsed
    <3>1. SUFFICES ASSUME idx[p][1] \in inAvail \cup working \cup inUsed PROVE FALSE
      OBVIOUS
    <3>2. PICK q \in Procs : waits(q) /\ idx[q][1] = idx[p][1]
      BY <1>u, <3>1, Zenon
    <3>3. busy(p) /\ busy(q)
      BY <2>1, <3>2, Zenon DEF busy, waits
    <3>4. p = q
      BY <1>t, <3>2, <3>3, Heads, Zenon
    <3>5. QED
      BY <2>2, <3>2, <3>4, Zenon
  <2>4. /\ Distinct(avail, taken_idx, avail_idx')
        /\ Pending(avail, taken_idx, avail_idx') = inAvail \cup {idx[p][1]}
    <3>1. avail[avail_idx % NUM] \notin Pending(avail, taken_idx, avail_idx)
      BY <2>1, <2>3, Zenon DEF inAvail
    <3>2. /\ Distinct(avail, taken_idx, avail_idx')
          /\ Pending(avail, taken_idx, avail_idx') = Pending(avail, taken_idx, avail_idx) \cup {avail[avail_idx % NUM]}
      BY <1>r, <2>1, <3>1, PutSet, Zenon
    <3>3. QED
      BY <2>1, <3>2, Zenon DEF inAvail
  <2>5. inAvail' = inAvail \cup {idx[p][1]} /\ Distinct(avail', taken_idx', avail_idx')
    BY <2>1, <2>4, Zenon DEF inAvail
  <2>6. inUsed' = inUsed /\ Distinct(used', seen_idx', used_idx')
    BY <1>b, <2>1, Zenon
  <2>7. QED
    <3>1. inAvail' \cap working' = {} /\ inAvail' \cap inUsed' = {} /\ working' \cap inUsed' = {}
      <4>1. inAvail \cap working = {} /\ inAvail \cap inUsed = {} /\ working \cap inUsed = {}
        BY <1>u, Zenon
      <4>2. inAvail' = inAvail \cup {idx[p][1]} /\ working' = working /\ inUsed' = inUsed
        BY <2>1, <2>5, <2>6, Zenon
      <4>3. QED
        BY <2>3, <4>1, <4>2
    <3>2. \A i \in inAvail' \cup working' \cup inUsed' : \E q \in Procs : waits(q)' /\ idx'[q][1] = i
      BY <1>u, <2>1, <2>2, <2>5, <2>6, Zenon
    <3>3. \A q \in Procs : waits(q)' => idx'[q][1] \in inAvail' \cup working' \cup inUsed'
      BY <1>u, <2>1, <2>2, <2>5, <2>6, Zenon
    <3>4. \A q \in Procs : waits(q)' /\ idx'[q][1] \in inUsed' => q \in served'
      BY <1>u, <2>1, <2>2, <2>3, <2>6, Zenon
    <3>5. \A i \in inUsed' : status'[i] = 0
      BY <1>u, <2>1, <2>6, Zenon
    <3>6. QED
      BY <2>5, <2>6, <3>1, <3>2, <3>3, <3>4, <3>5, Zenon DEF PlaceInv
<1>4. ASSUME NEW p \in Procs, finish(p) PROVE PlaceInv'
  <2>1. /\ pc[p] = "woken" /\ UNCHANGED <<avail, taken_idx, avail_idx, used, seen_idx, used_idx, working, bdisk, status, served>>
    BY <1>4, Zenon DEF finish, device
  <2>2. ASSUME NEW q \in Procs PROVE (waits(q)' <=> waits(q)) /\ (waits(q) => idx'[q] = idx[q])
    <3>1. CASE bdisk[p] = 1
      BY <1>t, <1>4, <2>1, <3>1, ZenonT(30) DEF finish, goto, waits
    <3>2. CASE bdisk[p] # 1
      <4>1. /\ pc' = [r \in Procs |-> IF r = p THEN "idle" ELSE IF pc[r] = "sleep_desc" THEN "rw" ELSE pc[r]]
            /\ idx' = [idx EXCEPT ![p] = <<>>]
        BY <1>4, <3>2, Zenon DEF finish, wakeFree
      <4>2. idx \in [Procs -> {<<>>} \cup (Desc \X Desc \X Desc)]
        BY <1>t, Zenon DEF TypeOK
      <4>3. QED
        BY <1>t, <2>1, <3>2, <4>1, <4>2, Zenon DEF waits
    <3>3. QED
      BY <3>1, <3>2, Zenon
  <2>3. QED
    BY <1>a, <1>b, <1>s, <2>1, <2>2, Zenon
<1>5. ASSUME intr \/ intr_done \/ DeviceRaise PROVE PlaceInv'
  <2>1. UNCHANGED <<avail, taken_idx, avail_idx, used, seen_idx, used_idx, working, bdisk, pc, status, idx, served>>
    BY <1>5, Zenon DEF intr, intr_done, DeviceRaise, driver, device
  <2>2. \A q \in Procs : waits(q)' <=> waits(q)
    BY <2>1, ZenonT(30) DEF waits
  <2>3. QED
    BY <1>a, <1>b, <1>s, <2>1, <2>2, Zenon
<1>6. ASSUME intr_entry PROVE PlaceInv'
  <2>1. PICK p \in Procs :
          /\ waits(p) /\ idx[p][1] = used[seen_idx % NUM] /\ p \in served
          /\ used[seen_idx % NUM] \in inUsed
          /\ bdisk' = [bdisk EXCEPT ![p] = 0]
          /\ pc' = [pc EXCEPT ![p] = IF @ = "sleep" THEN "woken" ELSE @]
          /\ UNCHANGED panicked
    BY <1>6, UsedEntry
  <2>2. /\ seen_idx # used_idx /\ used' = [used EXCEPT ![seen_idx % NUM] = 0] /\ seen_idx' = add(seen_idx, 1)
        /\ UNCHANGED <<avail, taken_idx, avail_idx, used_idx, working, status, idx, served>>
    BY <1>6 DEF intr_entry
  <2>3. Pending(used', seen_idx', used_idx) = inUsed \ {idx[p][1]} /\ Distinct(used', seen_idx', used_idx)
    <3>1. /\ Pending(used', seen_idx', used_idx) = Pending(used, seen_idx, used_idx) \ {used[seen_idx % NUM]}
          /\ Distinct(used', seen_idx', used_idx)
      <4>1. Written(used', used, seen_idx, 0)
        BY <1>r, <2>2, Zenon DEF Written
      <4>2. QED
        BY <1>r, <2>2, <4>1, TakeSet
    <3>2. QED
      BY <2>1, <3>1 DEF inUsed
  <2>4. inUsed' = inUsed \ {idx[p][1]} /\ Distinct(used', seen_idx', used_idx')
    BY <2>2, <2>3, Zenon DEF inUsed
  <2>5. ~ waits(p)' /\ \A q \in Procs \ {p} : waits(q)' <=> waits(q)
    BY <1>t, <2>1, SMTT(30) DEF waits
  <2>6. \A q \in Procs : waits(q) /\ idx[q][1] = idx[p][1] => q = p
    BY <1>t, <2>1, Heads DEF waits, busy
  <2>7. inAvail' = inAvail /\ Distinct(avail', taken_idx', avail_idx')
    BY <1>a, <2>2
  <2>8. idx[p][1] \in inUsed
    BY <2>1, ZenonT(30)
  <2>9. QED
    <3>1. inAvail' \cap working' = {} /\ inAvail' \cap inUsed' = {} /\ working' \cap inUsed' = {}
      <4>1. inAvail \cap working = {} /\ inAvail \cap inUsed = {} /\ working \cap inUsed = {}
        BY <1>u, Zenon
      <4>2. inAvail' = inAvail /\ working' = working /\ inUsed' = inUsed \ {idx[p][1]}
        BY <2>2, <2>4, <2>7, Zenon
      <4>3. QED
        BY <4>1, <4>2, Zenon
    <3>2. \A k \in inAvail' \cup working' \cup inUsed' : \E q \in Procs : waits(q)' /\ idx'[q][1] = k
      <4>1. TAKE k \in inAvail' \cup working' \cup inUsed'
      <4>2. k \in inAvail \cup working \cup inUsed /\ k # idx[p][1]
        BY <1>u, <2>2, <2>4, <2>7, <2>8, <4>1, Zenon
      <4>3. PICK q \in Procs : waits(q) /\ idx[q][1] = k
        BY <1>u, <4>2, Zenon
      <4>4. QED
        BY <2>2, <2>5, <4>2, <4>3, Zenon
    <3>3. \A q \in Procs : waits(q)' => idx'[q][1] \in inAvail' \cup working' \cup inUsed'
      <4>1. SUFFICES ASSUME NEW q \in Procs, waits(q)' PROVE idx'[q][1] \in inAvail' \cup working' \cup inUsed'
        BY Zenon
      <4>2. q # p /\ waits(q) /\ idx[q][1] # idx[p][1]
        BY <2>5, <2>6, <4>1, Zenon
      <4>3. idx[q][1] \in inAvail \cup working \cup inUsed
        BY <1>u, <4>2, Zenon
      <4>4. QED
        BY <2>2, <2>4, <2>7, <4>2, <4>3, Zenon
    <3>4. \A k \in inUsed' : status'[k] = 0
      BY <1>u, <2>2, <2>4, Zenon
    <3>5. \A q \in Procs : waits(q)' /\ idx'[q][1] \in inUsed' => q \in served'
      BY <1>u, <2>2, <2>4, <2>5, Zenon
    <3>6. QED
      BY <2>4, <2>7, <3>1, <3>2, <3>3, <3>4, <3>5, ZenonT(30) DEF PlaceInv
<1>7. ASSUME DeviceTake PROVE PlaceInv'
  <2> DEFINE h == avail[taken_idx % NUM]
  <2>1. /\ taken_idx # avail_idx /\ avail' = [avail EXCEPT ![taken_idx % NUM] = 0]
        /\ working' = working \cup {h} /\ taken_idx' = add(taken_idx, 1)
        /\ UNCHANGED <<avail_idx, used, seen_idx, used_idx, bdisk, pc, status, idx, served>>
    BY <1>7, Zenon DEF DeviceTake
  <2>2. /\ Pending(avail', taken_idx', avail_idx) = Pending(avail, taken_idx, avail_idx) \ {h}
        /\ h \in Pending(avail, taken_idx, avail_idx)
        /\ Distinct(avail', taken_idx', avail_idx)
    <3>1. Written(avail', avail, taken_idx, 0)
      BY <1>r, <2>1, Zenon DEF Written
    <3>2. QED
      BY <1>r, <2>1, <3>1, TakeSet
  <2> HIDE DEF h
  <2>3. inAvail' = inAvail \ {h} /\ h \in inAvail /\ Distinct(avail', taken_idx', avail_idx')
    BY <2>1, <2>2, Zenon DEF inAvail
  <2>4. \A q \in Procs : waits(q)' <=> waits(q)
    BY <2>1 DEF waits
  <2>5. inUsed' = inUsed /\ Distinct(used', seen_idx', used_idx')
    BY <1>b, <2>1, ZenonT(30)
  <2>6. QED
    <3>1. inAvail' \cap working' = {} /\ inAvail' \cap inUsed' = {} /\ working' \cap inUsed' = {}
      <4>1. inAvail \cap working = {} /\ inAvail \cap inUsed = {} /\ working \cap inUsed = {}
        BY <1>u, Zenon
      <4>2. inAvail' = inAvail \ {h} /\ h \in inAvail /\ working' = working \cup {h} /\ inUsed' = inUsed
        BY <2>1, <2>3, <2>5, Zenon
      <4>3. QED
        BY <4>1, <4>2
    <3>2. inAvail' \cup working' \cup inUsed' = inAvail \cup working \cup inUsed
      BY <2>1, <2>3, <2>5
    <3>3. \A i \in inAvail' \cup working' \cup inUsed' : \E q \in Procs : waits(q)' /\ idx'[q][1] = i
      BY <1>u, <2>1, <2>4, <3>2, Zenon
    <3>4. \A q \in Procs : waits(q)' => idx'[q][1] \in inAvail' \cup working' \cup inUsed'
      BY <1>u, <2>1, <2>4, <3>2, Zenon
    <3>5. \A q \in Procs : waits(q)' /\ idx'[q][1] \in inUsed' => q \in served'
      BY <1>u, <2>1, <2>4, <2>5, Zenon
    <3>6. \A i \in inUsed' : status'[i] = 0
      BY <1>u, <2>1, <2>5, Zenon
    <3>7. QED
      BY <2>3, <2>5, <3>1, <3>3, <3>4, <3>5, <3>6, ZenonT(30) DEF PlaceInv
<1>8. ASSUME NEW i \in Desc, DeviceFinish(i) PROVE PlaceInv'
  <2>1. /\ i \in working /\ working' = working \ {i} /\ status' = [status EXCEPT ![i] = 0]
        /\ used' = [used EXCEPT ![used_idx % NUM] = i] /\ used_idx' = add(used_idx, 1)
        /\ served' = served \cup {p \in Procs : idx[p] # <<>> /\ idx[p][1] = i}
        /\ UNCHANGED <<avail, taken_idx, avail_idx, seen_idx, bdisk, pc, idx>>
    BY <1>8, Zenon DEF DeviceFinish, driver
  <2>2. /\ used'[used_idx % NUM] = i
        /\ Pending(used', seen_idx, used_idx) = Pending(used, seen_idx, used_idx)
        /\ Ring(used', seen_idx, used_idx)
    <3>1. Written(used', used, used_idx, i)
      BY <2>1, Zenon DEF Written
    <3>2. QED
      BY <1>r, <3>1, WriteSet
  <2>3. i \notin inUsed /\ i \notin inAvail
    BY <1>u, <2>1, Zenon
  <2>4. used'[used_idx % NUM] \notin Pending(used', seen_idx, used_idx)
    BY <2>2, <2>3, Zenon DEF inUsed
  <2>5. /\ Distinct(used', seen_idx, used_idx')
        /\ Pending(used', seen_idx, used_idx') = Pending(used', seen_idx, used_idx) \cup {used'[used_idx % NUM]}
    BY <2>1, <2>2, <2>4, PutSet, ZenonT(30)
  <2>6. inUsed' = inUsed \cup {i} /\ Distinct(used', seen_idx', used_idx')
    BY <2>1, <2>2, <2>5, Zenon DEF inUsed
  <2>7. \A q \in Procs : waits(q)' <=> waits(q)
    BY <2>1, ZenonT(30) DEF waits
  <2>8. \A q \in Procs : waits(q) /\ idx[q][1] = i => q \in served'
    BY <1>t, <2>1, Heads, ZenonT(30) DEF waits, busy
  <2>9. inAvail' = inAvail /\ Distinct(avail', taken_idx', avail_idx')
    BY <1>a, <2>1, Zenon
  <2>10. \A k \in inUsed' : status'[k] = 0
    <3>1. status \in [Desc -> {0, 255}] /\ status' = [status EXCEPT ![i] = 0]
      BY <1>t, <2>1, Zenon
    <3>2. \A k \in inUsed : status[k] = 0
      BY <1>u, Zenon
    <3>3. QED
      BY <2>6, <3>1, <3>2
  <2>11. QED
    <3>1. inAvail' \cap working' = {} /\ inAvail' \cap inUsed' = {} /\ working' \cap inUsed' = {}
      <4>1. inAvail \cap working = {} /\ inAvail \cap inUsed = {} /\ working \cap inUsed = {}
        BY <1>u, Zenon
      <4>2. inAvail' = inAvail /\ working' = working \ {i} /\ inUsed' = inUsed \cup {i}
        BY <2>1, <2>6, <2>9, Zenon
      <4>3. QED
        BY <2>3, <4>1, <4>2
    <3>2. inAvail' \cup working' \cup inUsed' = inAvail \cup working \cup inUsed
      BY <2>1, <2>6, <2>9
    <3>3. \A j \in inAvail' \cup working' \cup inUsed' : \E q \in Procs : waits(q)' /\ idx'[q][1] = j
      BY <1>u, <2>1, <2>7, <3>2, Zenon
    <3>4. \A q \in Procs : waits(q)' => idx'[q][1] \in inAvail' \cup working' \cup inUsed'
      BY <1>u, <2>1, <2>7, <3>2, Zenon
    <3>5. \A q \in Procs : waits(q)' /\ idx'[q][1] \in inUsed' => q \in served'
      <4> SUFFICES ASSUME NEW q \in Procs, waits(q)', idx'[q][1] \in inUsed' PROVE q \in served'
        BY Zenon
      <4>1. waits(q) /\ idx[q][1] \in inUsed \cup {i}
        BY <2>1, <2>6, <2>7, Zenon
      <4>2. CASE idx[q][1] = i
        BY <2>8, <4>1, <4>2, Zenon
      <4>3. CASE idx[q][1] \in inUsed
        BY <1>u, <2>1, <4>1, <4>3, Zenon
      <4>4. QED
        BY <4>1, <4>2, <4>3, Zenon
    <3>6. QED
      BY <2>6, <2>9, <2>10, <3>1, <3>3, <3>4, <3>5, ZenonT(30) DEF PlaceInv
<1>9. QED
  BY <1>1, <1>2, <1>3, <1>4, <1>5, <1>6, <1>7, <1>8, ZenonT(30) DEF Next, virtio_disk_rw, virtio_disk_intr, Device

\* The invariant is inductive.
LEMMA DiskInvNext == ASSUME VirtioAssumption, DiskInv, [Next]_vars PROVE DiskInv'
<1>1. CASE Next
  BY <1>1, TypeNext, ChainNext, LockNext, PlaceNext DEF DiskInv
<1>2. CASE UNCHANGED vars
  <2>1. UNCHANGED <<vdisk_lock, free, next, infob, avail, avail_idx, seen_idx, bdisk, used, used_idx,
                    taken_idx, working, irq, raise, status, pc, idx, panicked, served>>
    BY <1>2, Zenon DEF vars, driver, device
  <2>2. /\ inAvail' = inAvail /\ inUsed' = inUsed
        /\ Distinct(avail', taken_idx', avail_idx') <=> Distinct(avail, taken_idx, avail_idx)
        /\ Distinct(used', seen_idx', used_idx') <=> Distinct(used, seen_idx, used_idx)
        /\ \A p \in Procs : (waits(p)' <=> waits(p)) /\ (busy(p)' <=> busy(p))
        /\ \A p \in Procs : own(p)' = own(p) /\ (Chained(p)' <=> Chained(p))
    BY <2>1, Zenon DEF inAvail, inUsed, waits, busy, own, Chained
  <2>3. TypeOK'
    BY <2>1, ZenonT(30) DEF DiskInv, TypeOK
  <2>4. ChainInv'
    <3>1. /\ \A p \in Procs : IF busy(p) THEN Chained(p) /\ own(p) \cap free = {} ELSE idx[p] = <<>>
          /\ \A p, q \in Procs : busy(p) /\ busy(q) /\ p # q => own(p) \cap own(q) = {}
          /\ \A i \in Desc \ free : \E p \in Procs : busy(p) /\ i \in own(p)
      BY Zenon DEF DiskInv, ChainInv
    <3>2. \A p \in Procs : IF busy(p)' THEN Chained(p)' /\ own(p)' \cap free' = {} ELSE idx'[p] = <<>>
      BY <2>1, <2>2, <3>1, Zenon
    <3>3. \A p, q \in Procs : busy(p)' /\ busy(q)' /\ p # q => own(p)' \cap own(q)' = {}
      BY <2>2, <3>1, Zenon
    <3>4. ASSUME NEW i \in Desc \ free' PROVE \E p \in Procs : busy(p)' /\ i \in own(p)'
      <4>1. i \in Desc \ free
        BY <2>1, <3>4, Zenon
      <4>2. PICK p \in Procs : busy(p) /\ i \in own(p)
        BY <3>1, <4>1, Zenon
      <4>3. QED
        BY <2>2, <4>2, Zenon
    <3>5. QED
      BY <3>2, <3>3, <3>4, Zenon DEF ChainInv
  <2>5. LockInv'
    BY <2>1, <2>2, Zenon DEF DiskInv, LockInv
  <2>6. PlaceInv'
    BY <2>1, <2>2, Zenon DEF DiskInv, PlaceInv
  <2>7. QED
    BY <2>3, <2>4, <2>5, <2>6, Zenon DEF DiskInv
<1>3. QED
  BY <1>1, <1>2

---------------------------------------------------------------------------
(* The theorems.                                                           *)

\* Each descriptor is free or has one owner.
LEMMA OwnedOnce == ASSUME VirtioAssumption, DiskInv PROVE DescOwned
<1> DEFINE owners(i) == {o \in Procs \X (1..3) : idx[o[1]] # <<>> /\ idx[o[1]][o[2]] = i}
<1> SUFFICES ASSUME NEW i \in Desc PROVE Cardinality(owners(i)) = IF i \in free THEN 0 ELSE 1
  BY DEF DescOwned
<1>1. ChainInv
  BY Zenon DEF DiskInv
<1>2. ASSUME NEW p \in Procs, NEW k \in 1..3, idx[p] # <<>>, idx[p][k] = i
      PROVE  busy(p) /\ i \in own(p) /\ i \notin free /\ Chained(p)
  <2>1. busy(p) /\ Chained(p) /\ own(p) \cap free = {}
    BY <1>1, <1>2 DEF ChainInv
  <2>2. k = 1 \/ k = 2 \/ k = 3
    OBVIOUS
  <2>3. QED
    BY <1>2, <2>1, <2>2, ZenonT(30) DEF own
<1>3. CASE i \in free
  <2>1. owners(i) = {}
    BY <1>2, <1>3
  <2>2. QED
    BY <1>3, <2>1, FS_EmptySet, ZenonT(30)
<1>4. CASE i \notin free
  <2>1. PICK p \in Procs : busy(p) /\ i \in own(p)
    BY <1>1, <1>4 DEF ChainInv
  <2>2. Chained(p) /\ idx[p] # <<>>
    BY <1>1, <2>1, Triple, Zenon DEF ChainInv, Chained
  <2>3. PICK k \in 1..3 : idx[p][k] = i
    BY <2>1 DEF own
  <2>4. ASSUME NEW q \in Procs, NEW j \in 1..3, idx[q] # <<>>, idx[q][j] = i
        PROVE  q = p /\ j = k
    <3>1. q = p
      BY <1>1, <1>2, <2>1, <2>4, Zenon DEF ChainInv
    <3>2. (j = 1 \/ j = 2 \/ j = 3) /\ (k = 1 \/ k = 2 \/ k = 3)
      OBVIOUS
    <3>3. j = k
      <4>1. idx[p][1] # idx[p][2] /\ idx[p][2] # idx[p][3] /\ idx[p][1] # idx[p][3]
        BY <2>2, Zenon DEF Chained
      <4>2. idx[p][j] = idx[p][k]
        BY <2>3, <2>4, <3>1, Zenon
      <4>3. QED
        BY <3>2, <4>1, <4>2
    <3>4. QED
      BY <3>1, <3>3, Zenon
  <2>5. owners(i) = {<<p, k>>}
    BY <2>2, <2>3, <2>4
  <2>6. QED
    BY <1>4, <2>5, FS_Singleton, ZenonT(30)
<1>5. QED
  BY <1>3, <1>4, ZenonT(30)

\* What virtio_disk_rw() and virtio_disk_intr() keep, whatever the processes, the
\* device and the killers do: each descriptor is free or in the chain of exactly
\* one request, and neither free_desc() nor virtio_disk_intr() panics.
THEOREM DriverSound == ASSUME VirtioAssumption PROVE Spec => []DriverConsistent
<1>1. Init => DiskInv
  BY DiskInvInit
<1>2. DiskInv /\ [Next]_vars => DiskInv'
  BY DiskInvNext, Zenon
<1>3. DiskInv => DriverConsistent
  BY OwnedOnce DEF DiskInv, LockInv, DriverConsistent, NoPanic
<1>4. QED
  BY <1>1, <1>2, <1>3, PTL DEF Spec

\* No wakeup of kernel/virtio_disk.c is missed: who sleeps for descriptors finds
\* fewer than three free, and who sleeps for its request will be interrupted for.
THEOREM NothingIsMissed == ASSUME VirtioAssumption PROVE Spec => []NothingMissed
<1>1. Init => DiskInv
  BY DiskInvInit
<1>2. DiskInv /\ [Next]_vars => DiskInv'
  BY DiskInvNext
<1>3. ASSUME DiskInv PROVE NothingMissed
  <2>1. NoMissedFree
    BY <1>3, Zenon DEF DiskInv, LockInv, NoMissedFree
  <2>2. ASSUME NEW p \in Procs, pc[p] = "sleep"
        PROVE  \/ idx[p][1] \in Pending(avail, taken_idx, avail_idx) \cup working
               \/ /\ idx[p][1] \in Pending(used, seen_idx, used_idx)
                  /\ raise \/ irq \/ vdisk_lock = Intr
    <3>1. idx[p][1] \in inAvail \cup working \cup inUsed
      BY <1>3, <2>2, Zenon DEF DiskInv, LockInv, PlaceInv, waits
    <3>2. ASSUME idx[p][1] \in inUsed PROVE seen_idx # used_idx
      <4>1. SUFFICES ASSUME seen_idx = used_idx PROVE FALSE
        OBVIOUS
      <4>2. (used_idx - seen_idx) % UINT16 = 0
        <5>1. used_idx \in Int /\ seen_idx \in Int /\ UINT16 \in Nat \ {0}
          BY <1>3, Consts DEF DiskInv, TypeOK
        <5>2. used_idx - seen_idx = 0
          BY <4>1, <5>1
        <5>3. QED
          BY <5>1, <5>2, ModSmall
      <4>3. QED
        BY <3>2, <4>2 DEF inUsed, Pending
    <3>3. seen_idx # used_idx => raise \/ irq \/ vdisk_lock = Intr
      BY <1>3 DEF DiskInv, LockInv
    <3>4. QED
      BY <3>1, <3>2, <3>3, Zenon DEF inAvail, inUsed
  <2>3. QED
    BY <2>1, <2>2, Zenon DEF NothingMissed, NoLostInterrupt
<1>4. QED
  BY <1>1, <1>2, <1>3, PTL DEF Spec

\* virtio_disk_rw() returns only after the device has done this very request.
THEOREM ReturnsWhenServed == ASSUME VirtioAssumption PROVE Spec => ReturnsServed
<1>1. Init => DiskInv
  BY DiskInvInit
<1>2. DiskInv /\ [Next]_vars => DiskInv'
  BY DiskInvNext
<1>3. ASSUME DiskInv, [Next]_vars
      PROVE  [\A p \in Procs : pc[p] = "woken" /\ pc'[p] = "idle" => p \in served]_vars
  <2>1. SUFFICES ASSUME Next, NEW p \in Procs, pc[p] = "woken", pc'[p] = "idle" PROVE p \in served
    BY <1>3, Zenon
  <2>2. pc \in [Procs -> PCs] /\ bdisk[p] \in 0..1 /\ (bdisk[p] = 0 => p \in served)
    BY <1>3, <2>1, Zenon DEF DiskInv, TypeOK, LockInv
  <2>3. ASSUME NEW q \in Procs, Call(q) \/ alloc_fail(q) \/ Kill(q) \/ submit(q) \/ notify(q) PROVE FALSE
    BY <2>1, <2>2, <2>3, Zenon DEF Call, alloc_fail, Kill, submit, notify, goto, wakeFree
  <2>4. ASSUME NEW q \in Procs, finish(q) PROVE bdisk[p] # 1
    <3>1. CASE q = p
      BY <2>1, <2>2, <2>4, <3>1, Zenon DEF finish, goto
    <3>2. CASE q # p
      BY <2>1, <2>2, <2>4, <3>2, Zenon DEF finish, goto, wakeFree
    <3>3. QED
      BY <3>1, <3>2, Zenon
  <2>5. ASSUME intr_entry PROVE FALSE
    <3>1. PICK q \in Procs :
            /\ waits(q) /\ idx[q][1] = used[seen_idx % NUM] /\ q \in served
            /\ used[seen_idx % NUM] \in inUsed
            /\ bdisk' = [bdisk EXCEPT ![q] = 0]
            /\ pc' = [pc EXCEPT ![q] = IF @ = "sleep" THEN "woken" ELSE @]
            /\ UNCHANGED panicked
      BY <1>3, <2>5, UsedEntry, ZenonT(30)
    <3>2. QED
      BY <2>1, <2>2, <3>1, Zenon
  <2>6. ASSUME intr \/ intr_done \/ DeviceRaise \/ DeviceTake \/ \E i \in Desc : DeviceFinish(i) PROVE FALSE
    BY <2>1, <2>6 DEF intr, intr_done, DeviceRaise, DeviceTake, DeviceFinish
  <2>7. QED
    BY <2>1, <2>2, <2>3, <2>4, <2>5, <2>6, SMTT(30) DEF Next, virtio_disk_rw, virtio_disk_intr, Device
<1>4. QED
  BY <1>1, <1>2, <1>3, PTL DEF Spec, ReturnsServed
=============================================================================
