---------------------------- MODULE WorkPathProofs --------------------------
(***************************************************************************)
(* Solutions are paired with the right work for every number of midstates, *)
(* every width of the identifiers, every depth of the FIFOs and every      *)
(* number of works and responses.                                          *)
(***************************************************************************)
EXTENDS WorkPath, TLAPS

-----------------------------------------------------------------------------
(* Division.                                                               *)

LEMMA DivMod ==
  ASSUME NEW i \in Nat, NEW d \in Nat \ {0}
  PROVE  \E q \in Nat, r \in 0 .. d - 1 : i = d * q + r /\ i \div d = q /\ i % d = r
  <1>1. i = d * (i \div d) + (i % d) OBVIOUS
  <1>2. i % d \in 0 .. d - 1 OBVIOUS
  <1>3. i \div d \in Nat OBVIOUS
  <1> QED BY <1>1, <1>2, <1>3

LEMMA DivModUnique ==
  ASSUME NEW d \in Nat \ {0}, NEW q \in Int, NEW r \in 0 .. d - 1,
         NEW n \in Int, n = d * q + r
  PROVE  n \div d = q /\ n % d = r
  OBVIOUS

\* A multiple of d strictly between -d and 2d is 0 or d.
LEMMA SmallMultiple ==
  ASSUME NEW d \in Nat \ {0}, NEW k \in Int, 0 - d < d * k, d * k < 2 * d
  PROVE  k = 0 \/ k = 1
  <1>1. k <= -1 => d * k <= 0 - d OBVIOUS
  <1>2. k >= 2 => d * k >= 2 * d OBVIOUS
  <1> QED BY <1>1, <1>2

\* Two numbers less than d apart leave remainders as far apart, or d further.
LEMMA ModDifference ==
  ASSUME NEW d \in Nat \ {0}, NEW a \in Nat, NEW s \in Nat, s <= a, a - s < d
  PROVE  (a % d) - (s % d) = a - s \/ (a % d) - (s % d) = a - s - d
  <1>1. PICK q \in Nat, x \in 0 .. d - 1 : a = d * q + x /\ a \div d = q /\ a % d = x
    BY DivMod
  <1>2. PICK p \in Nat, y \in 0 .. d - 1 : s = d * p + y /\ s \div d = p /\ s % d = y
    BY DivMod
  <1>3. d * (q - p) = (a - s) - (x - y) /\ q - p \in Int BY <1>1, <1>2
  <1>4. q - p = 0 \/ q - p = 1 BY <1>3, SmallMultiple
  <1>5. CASE q - p = 0 BY <1>1, <1>2, <1>3, <1>5
  <1>6. CASE q - p = 1 BY <1>1, <1>2, <1>3, <1>6
  <1> QED BY <1>4, <1>5, <1>6

LEMMA ModUnique ==
  ASSUME NEW d \in Nat \ {0}, NEW a \in Nat, NEW b \in Nat, NEW n \in Nat,
         a < n, b < n, n - a <= d, n - b <= d, a % d = b % d
  PROVE  a = b
  <1>0. (a % d) \in Int /\ (b % d) \in Int OBVIOUS
  <1>1. CASE b <= a
    <2>1. (a % d) - (b % d) = a - b \/ (a % d) - (b % d) = a - b - d 
      <3>1. b <= a /\ a - b < d BY <1>1
      <3> QED BY <3>1, ModDifference, Zenon
    <2> QED BY <1>0, <1>1, <2>1
  <1>2. CASE a <= b
    <2>1. (b % d) - (a % d) = b - a \/ (b % d) - (a % d) = b - a - d 
      <3>1. a <= b /\ b - a < d BY <1>2
      <3> QED BY <3>1, ModDifference, Zenon
    <2> QED BY <1>0, <1>2, <2>1
  <1> QED BY <1>1, <1>2

LEMMA ModRound ==
  ASSUME NEW d \in Nat \ {0}, NEW a \in Nat
  PROVE  (a + d) % d = a % d
  <1>1. PICK q \in Nat, x \in 0 .. d - 1 : a = d * q + x /\ a \div d = q /\ a % d = x
    BY DivMod
  <1>2. PICK z \in Int : z = q + 1 OBVIOUS
  <1>3. PICK n \in Int : n = a + d OBVIOUS
  <1>4. n = d * z + x BY <1>1, <1>2, <1>3
  <1>5. n % d = x BY <1>4, DivModUnique
  <1> QED BY <1>1, <1>3, <1>5

LEMMA ModNext ==
  ASSUME NEW d \in Nat \ {0}, NEW a \in Nat
  PROVE  ((a % d) + 1) % d = (a + 1) % d
  <1>1. PICK q \in Nat, x \in 0 .. d - 1 : a = d * q + x /\ a \div d = q /\ a % d = x
    BY DivMod
  <1>2. CASE x + 1 < d
    <2>1. a + 1 = d * q + (x + 1) BY <1>1
    <2>2. (a + 1) % d = x + 1
      <3>1. PICK z \in 0 .. d - 1 : z = x + 1 BY <1>2
      <3>2. a + 1 = d * q + z /\ q \in Int /\ a + 1 \in Int BY <2>1, <3>1
      <3>3. (a + 1) % d = z BY <3>2, DivModUnique, Zenon
      <3> QED BY <3>1, <3>3
    <2>3. (x + 1) % d = x + 1 BY <1>2
    <2> QED BY <1>1, <2>2, <2>3
  <1>3. CASE x + 1 = d
    <2>1. a + 1 = d * (q + 1) + 0 BY <1>1, <1>3
    <2>2. (a + 1) % d = 0
      <3>1. PICK z \in Int : z = q + 1 OBVIOUS
      <3>2. PICK n \in Int : n = a + 1 OBVIOUS
      <3>3. PICK o \in 0 .. d - 1 : o = 0 OBVIOUS
      <3>4. n = d * z + o BY <2>1, <3>1, <3>2, <3>3
      <3>5. n % d = o BY <3>4, DivModUnique
      <3> QED BY <3>2, <3>3, <3>5
    <2>3. (x + 1) % d = 0
      <3>1. x + 1 = d * 1 + 0 /\ 0 \in 0 .. d - 1 /\ x + 1 \in Int BY <1>3
      <3> QED BY <3>1, DivModUnique
    <2> QED BY <1>1, <2>2, <2>3
  <1> QED BY <1>2, <1>3

\* p_work_id_calc completes an identifier from the last one sent, when they are
\* less than a round of truncated identifiers apart.
LEMMA Completes ==
  ASSUME NEW c \in Nat \ {0}, NEW k \in Nat \ {0}, NEW X \in Nat, NEW Y \in Nat,
         NEW D \in 0 .. c - 1
  PROVE  X < c * k /\ Y < c * k /\ (X - Y = D \/ X - Y = D - c * k) =>
           ((X \div c - (IF Y % c > X % c THEN 1 ELSE 0)) % k) * c + (Y % c) = Y
  <1> SUFFICES ASSUME X < c * k, Y < c * k, X - Y = D \/ X - Y = D - c * k
               PROVE  ((X \div c - (IF Y % c > X % c THEN 1 ELSE 0)) % k) * c + (Y % c) = Y
    OBVIOUS
  <1>1. PICK q \in Nat, x \in 0 .. c - 1 : X = c * q + x /\ X \div c = q /\ X % c = x
    BY DivMod
  <1>2. PICK p \in Nat, y \in 0 .. c - 1 : Y = c * p + y /\ Y \div c = p /\ Y % c = y
    BY DivMod
  <1>3. p < k
    <2>1. p >= k => c * p >= c * k OBVIOUS
    <2> QED BY <1>2, <2>1
  <1> DEFINE b == IF y > x THEN 1 ELSE 0
  <1>4. b \in {0, 1} OBVIOUS
  <1>5. (q - b) % k = p
    <2>1. CASE X - Y = D
      <3>1. c * (q - p) = D - x + y /\ q - p \in Int BY <1>1, <1>2, <2>1
      <3>2. q - p = 0 \/ q - p = 1 BY <3>1, SmallMultiple
      <3>3. q - b = p BY <3>1, <3>2
      <3> QED BY <1>3, <3>3
    <2>2. CASE X - Y = D - c * k
      <3>1. c * (q - p + k) = D - x + y /\ q - p + k \in Int BY <1>1, <1>2, <2>2
      <3>2. q - p + k = 0 \/ q - p + k = 1 BY <3>1, SmallMultiple
      <3>3. q - b = p - k BY <3>1, <3>2
      <3>4. q - b = k * (0 - 1) + p BY <3>3
      <3> QED BY <1>3, <3>4, DivModUnique
    <2> QED BY <2>1, <2>2
  <1> QED BY <1>1, <1>2, <1>5

\* The bits of the midstate drop out of the comparison.
Masked(M, c, i, p, y, m) == i * M = (M * c) * p + y => (y + m) - ((y + m) % M) = y

LEMMA Masks ==
  ASSUME NEW M \in Nat \ {0}, NEW c \in Nat, NEW i \in Nat, NEW p \in Nat,
         NEW y \in Nat, NEW m \in 0 .. M - 1
  PROVE  Masked(M, c, i, p, y, m)
  <1>0. SUFFICES ASSUME i * M = (M * c) * p + y PROVE (y + m) - ((y + m) % M) = y
    BY DEF Masked
  <1>1. PICK j \in Int : j = i - c * p OBVIOUS
  <1>2. M * (i - c * p) = i * M - (M * c) * p OBVIOUS
  <1>3. PICK t \in Int : t = (M * c) * p OBVIOUS
  <1>4. PICK u \in Int : u = i * M OBVIOUS
  <1>5. y = M * j BY <1>0, <1>1, <1>2, <1>3, <1>4
  <1>6. PICK n \in Int : n = y + m OBVIOUS
  <1>7. n = M * j + m BY <1>5, <1>6
  <1>8. n % M = m BY <1>7, DivModUnique
  <1> QED BY <1>6, <1>8

\* Identifiers of works that are less than L works apart, in words.
Apart(M, R, c, L, a, s) ==
  L * M <= c /\ L <= R /\ s <= a /\ a - s < L =>
    \E D \in 0 .. c - 1 :
      \/ (a % R) * M - (s % R) * M = D
      \/ (a % R) * M - (s % R) * M = D - R * M

LEMMA WordDifference ==
  ASSUME NEW M \in Nat \ {0}, NEW R \in Nat \ {0}, NEW c \in Nat \ {0}, NEW L \in Nat,
         NEW a \in Nat, NEW s \in Nat
  PROVE  Apart(M, R, c, L, a, s)
  <1> SUFFICES ASSUME L * M <= c, L <= R, s <= a, a - s < L
               PROVE  \E D \in 0 .. c - 1 :
                        \/ (a % R) * M - (s % R) * M = D
                        \/ (a % R) * M - (s % R) * M = D - R * M
    BY DEF Apart
  <1>1. PICK d \in Nat : d = a - s /\ d <= L - 1 /\ d < R OBVIOUS
  <1>2. d * M <= (L - 1) * M BY <1>1
  <1>3. (L - 1) * M = L * M - M OBVIOUS
  <1>4. d * M \in 0 .. c - 1
    <2>1. d * M \in Nat /\ L * M \in Nat OBVIOUS
    <2> QED BY <1>2, <1>3, <2>1
  <1>5. (a % R) - (s % R) = a - s \/ (a % R) - (s % R) = a - s - R
    <2>1. a - s < R OBVIOUS
    <2> QED BY <2>1, ModDifference, Zenon
  <1>6. PICK x \in Int, y \in Int : x = a % R /\ y = s % R OBVIOUS
  <1>7. x * M - y * M = (x - y) * M OBVIOUS
  <1>8. CASE x - y = d BY <1>4, <1>6, <1>7, <1>8
  <1>9. CASE x - y = d - R
    <2>1. (d - R) * M = d * M - R * M OBVIOUS
    <2> QED BY <1>4, <1>6, <1>7, <1>9, <2>1
  <1> QED BY <1>1, <1>5, <1>6, <1>8, <1>9

-----------------------------------------------------------------------------
(* The identifiers of this system.                                         *)

LEMMA Constants ==
  /\ Midstates \in Nat \ {0} /\ ChipIds \in Nat \ {0} /\ ExtIds \in Nat \ {0}
  /\ ChipIds % Midstates = 0 /\ ExtIds % ChipIds = 0
  /\ FifoWorks \in Nat /\ RxFifo \in Nat /\ ChipLag \in Nat /\ InitWork \in Nat
  /\ MaxWork \in Nat /\ MaxResponses \in Nat
  BY WidthAssumption, TimingAssumption

LEMMA MidstatesNat == Midstates \in Nat \ {0}
  BY WidthAssumption

LEMMA ChipIdsNat == ChipIds \in Nat \ {0}
  BY WidthAssumption

LEMMA Widths ==
  /\ registry_size \in Nat \ {0}
  /\ registry_size * Midstates = ExtIds
  /\ \E k \in Nat \ {0} : k = ExtIds \div ChipIds /\ ChipIds * k = ExtIds
  /\ \E c \in Nat \ {0} : ChipIds = Midstates * c
  <1>1. PICK c \in Nat, r \in 0 .. Midstates - 1 :
          ChipIds = Midstates * c + r /\ ChipIds \div Midstates = c /\ ChipIds % Midstates = r
    BY MidstatesNat, ChipIdsNat, DivMod
  <1>2. ChipIds = Midstates * c /\ c # 0 BY <1>1, Constants
  <1>3. PICK k \in Nat, e \in 0 .. ChipIds - 1 :
          ExtIds = ChipIds * k + e /\ ExtIds \div ChipIds = k /\ ExtIds % ChipIds = e
    BY Constants, DivMod
  <1>4. ExtIds = ChipIds * k /\ k # 0
    <2>1. e = 0 BY <1>3, Constants
    <2>2. ExtIds = ChipIds * k BY <1>3, <2>1, ChipIdsNat
    <2>3. ExtIds # 0 BY Constants
    <2> QED BY <2>2, <2>3, ChipIdsNat
  <1>5. PICK z \in Nat : z = c * k OBVIOUS
  <1>6. (Midstates * c) * k = Midstates * (c * k) BY MidstatesNat
  <1>7. ExtIds = Midstates * z + 0 BY <1>2, <1>4, <1>5, <1>6, MidstatesNat
  <1>8. ExtIds \div Midstates = z
    <2>1. 0 \in 0 .. Midstates - 1 /\ z \in Int /\ ExtIds \in Int BY Constants
    <2> QED BY <1>7, <2>1, MidstatesNat, DivModUnique, Zenon
  <1>9. z # 0 BY <1>7, Constants
  <1>10. registry_size = z BY <1>8 DEF registry_size
  <1>11. registry_size \in Nat \ {0} BY <1>9, <1>10
  <1>12. registry_size * Midstates = ExtIds BY <1>7, <1>10, MidstatesNat
  <1>13. \E k_1 \in Nat \ {0} : k_1 = ExtIds \div ChipIds /\ ChipIds * k_1 = ExtIds
    BY <1>3, <1>4, Zenon
  <1>14. \E c_1 \in Nat \ {0} : ChipIds = Midstates * c_1 BY <1>2, Zenon
  <1> QED BY <1>11, <1>12, <1>13, <1>14

LEMMA IdOfType == \A s \in Nat : IdOf(s) \in WorkId /\ IdOf(s) \in Nat
  BY Widths DEF IdOf, WorkId

\* A word divides into the identifier and the midstate it was made of.
LEMMA FromHw ==
  ASSUME NEW i \in Nat, NEW m \in Midstate, NEW word
  PROVE  word = i * Midstates + m => word \div Midstates = i /\ word % Midstates = m
  <1>0. HAVE word = i * Midstates + m
  <1>1. word = Midstates * i + m BY <1>0, MidstatesNat DEF Midstate
  <1>2. word \in Int BY <1>1, MidstatesNat DEF Midstate
  <1>3. i \in Int OBVIOUS
  <1>4. m \in 0 .. Midstates - 1 BY DEF Midstate
  <1> QED BY <1>1, <1>2, <1>3, <1>4, MidstatesNat, DivModUnique

\* An identifier in range times the midstates fits the core's width.
LEMMA WordFits ==
  ASSUME NEW i \in WorkId, NEW m \in Midstate
  PROVE  i * Midstates \in Nat /\ i * Midstates + m \in 0 .. ExtIds - 1
  <1>1. i \in Nat /\ i <= registry_size - 1 BY Widths DEF WorkId
  <1>2. (registry_size - 1) * Midstates = ExtIds - Midstates BY Widths, Constants
  <1>3. i * Midstates <= (registry_size - 1) * Midstates BY <1>1, Widths, Constants
  <1> QED BY <1>1, <1>2, <1>3, Constants DEF Midstate

\* The core reconstructs the identifier of a work among the last ChipLag sent.
LEMMA ExtendRight ==
  ASSUME NEW last \in Nat, NEW s \in Nat, NEW m \in Midstate
  PROVE  s <= last /\ last - s < ChipLag /\ work_id_tx = IdOf(last) * Midstates =>
           /\ Extend(((IdOf(s) * Midstates) % ChipIds) + m) = IdOf(s) * Midstates + m
           /\ (IdOf(s) * Midstates) % ChipIds \in 0 .. ChipIds - 1
  <1>h. HAVE s <= last /\ last - s < ChipLag /\ work_id_tx = IdOf(last) * Midstates
  <1>i. s <= last BY <1>h
  <1>j. last - s < ChipLag BY <1>h
  <1>l. work_id_tx = IdOf(last) * Midstates BY <1>h
  <1>a. registry_size \in Nat \ {0} BY Widths
  <1>b. ChipLag \in Nat BY Constants
  <1>0. Midstates \in Nat \ {0} /\ ChipIds \in Nat \ {0} BY Constants
  <1>k. PICK k \in Nat \ {0} : k = ExtIds \div ChipIds /\ ChipIds * k = ExtIds BY Widths
  <1>1. PICK c \in Nat \ {0} : ChipIds = Midstates * c BY Widths
  <1>z. 0 \in Midstate BY <1>0 DEF Midstate
  <1>2. PICK X \in Nat : X = IdOf(last) * Midstates /\ X < ChipIds * k
    <2>1. IdOf(last) * Midstates + 0 \in 0 .. ExtIds - 1 BY <1>z, IdOfType, WordFits, Zenon
    <2> QED BY <1>0, <1>k, <2>1, IdOfType, WordFits, <1>z
  <1>3. PICK Y \in Nat : Y = IdOf(s) * Midstates /\ Y < ChipIds * k
    <2>1. IdOf(s) * Midstates + 0 \in 0 .. ExtIds - 1 BY <1>z, IdOfType, WordFits, Zenon
    <2> QED BY <1>0, <1>k, <2>1, IdOfType, WordFits, <1>z
  <1>4. PICK D \in 0 .. ChipIds - 1 : X - Y = D \/ X - Y = D - ChipIds * k
    <2>1. ChipLag * Midstates <= ChipIds /\ ChipLag <= registry_size
      BY TimingAssumption, Constants, Widths DEF registry_size
    <2>2. Apart(Midstates, registry_size, ChipIds, ChipLag, last, s)
      BY <1>a, <1>b, MidstatesNat, ChipIdsNat, WordDifference, Zenon
    <2>3. registry_size * Midstates = ChipIds * k BY <1>k, Widths
    <2>4. \E D \in 0 .. ChipIds - 1 :
            \/ (last % registry_size) * Midstates - (s % registry_size) * Midstates = D
            \/ (last % registry_size) * Midstates - (s % registry_size) * Midstates
                 = D - registry_size * Midstates
      BY <1>i, <1>j, <2>1, <2>2, Zenon DEF Apart
    <2> QED BY <1>2, <1>3, <2>3, <2>4, Zenon DEF IdOf
  <1>5. ((X \div ChipIds - (IF Y % ChipIds > X % ChipIds THEN 1 ELSE 0)) % k) * ChipIds
          + (Y % ChipIds) = Y
    <2>1. X < ChipIds * k /\ Y < ChipIds * k /\ (X - Y = D \/ X - Y = D - ChipIds * k) =>
            ((X \div ChipIds - (IF Y % ChipIds > X % ChipIds THEN 1 ELSE 0)) % k) * ChipIds
               + (Y % ChipIds) = Y
      BY ChipIdsNat, Completes, Zenon
    <2> QED BY <1>2, <1>3, <1>4, <2>1, Zenon
  <1>6. PICK p \in Nat, y \in 0 .. ChipIds - 1 :
          Y = ChipIds * p + y /\ Y \div ChipIds = p /\ Y % ChipIds = y
    BY <1>0, DivMod
  <1>7. (y + m) - ((y + m) % Midstates) = y
    <2>1. PICK i \in Nat : i = IdOf(s) BY IdOfType
    <2>2. i * Midstates = (Midstates * c) * p + y BY <1>1, <1>3, <1>6, <2>1
    <2>3. y \in Nat BY ChipIdsNat
    <2>4. m \in 0 .. Midstates - 1 BY DEF Midstate
    <2>5. c \in Nat OBVIOUS
    <2>6. Masked(Midstates, c, i, p, y, m)
      BY <2>3, <2>4, <2>5, MidstatesNat, Masks, Zenon
    <2> QED BY <2>2, <2>6, Zenon DEF Masked
  <1> DEFINE z == ((X \div ChipIds - (IF y > X % ChipIds THEN 1 ELSE 0)) % k) * ChipIds
  <1>8. Extend(y + m) = z + (y + m) BY <1>k, <1>l, <1>2, <1>7 DEF Extend
  <1>9. z + y = Y BY <1>5, <1>6
  <1>10. z \in Int /\ m \in Int /\ y \in Int BY <1>0 DEF Midstate
  <1> HIDE DEF z
  <1>11. Extend(y + m) = Y + m BY <1>8, <1>9, <1>10
  <1> QED BY <1>3, <1>6, <1>11

-----------------------------------------------------------------------------
(* The inductive invariant.                                                *)

LEMMA InitIInv == Init => IInv
  <1> SUFFICES ASSUME Init PROVE IInv OBVIOUS
  <1> USE Constants, Widths
  <1>1. TypeOK BY DEF Init, TypeOK, WorkId
  <1>2. transmitted = 0
    <2>1. stored = 0 /\ Len(work_tx_fifo) = 0 /\ storing = {} BY DEF Init
    <2> QED BY <2>1 DEF transmitted
  <1>3. RegistryInv
    <2>1. IdOf(0) = 0 BY DEF IdOf
    <2> QED BY <2>1 DEF Init, RegistryInv
  <1> QED BY <1>1, <1>2, <1>3 DEF Init, IInv, FifoInv, ChipInv, ResponseInv, SentInv, RightWork, SentOnce

LEMMA Elements ==
  ASSUME TypeOK
  PROVE  /\ \A k \in 1 .. Len(work_tx_fifo) : work_tx_fifo[k] \in Written
         /\ \A k \in 1 .. Len(work_rx_fifo) : work_rx_fifo[k] \in Response
         /\ \A k \in 1 .. Len(sent) : sent[k] \in Solution
  BY DEF TypeOK

\* One more work is stored: a work not yet a registry old is at most that old.
LEMMA StillYoung ==
  ASSUME NEW n \in Nat, NEW k \in Nat, NEW r \in Nat, k < n, n - k <= r, n - k # r
  PROVE  k < n + 1 /\ (n + 1) - k <= r
  OBVIOUS

LEMMA StoreIInv == ASSUME IInv, StoreWork PROVE IInv'
  <1> USE Constants
  <1>0. registry_size \in Nat \ {0} BY Widths
  <1>t. TypeOK BY DEF IInv
  <1>1. /\ stored \in Nat /\ stored' = stored + 1 /\ next_work_id = IdOf(stored)
        /\ next_work_id \in WorkId /\ storing = {}
        /\ UNCHANGED <<work_tx_fifo, work_id_tx, chips, work_rx_fifo, sent, responses>>
    BY DEF IInv, TypeOK, RegistryInv, StoreWork
  <1> DEFINE new == [serial |-> stored, initial_work |-> stored < InitWork, solutions |-> {}]
  <1>2. new \in Item
    <2>1. (stored < InitWork) \in BOOLEAN BY <1>1
    <2> QED BY <1>1, <2>1 DEF Item
  <1>3. \A i \in WorkId : pending'[i] = {new} \/ pending'[i] = {} \/ pending'[i] = pending[i]
    BY DEF StoreWork
  <1>4. \A i \in WorkId : pending'[i] = {new} => i = next_work_id
    <2>1. SUFFICES ASSUME NEW i \in WorkId, pending'[i] = {new}, i # next_work_id PROVE FALSE
      OBVIOUS
    <2>2. new \in pending[i] BY <2>1 DEF StoreWork
    <2>3. new.serial < stored BY <2>2 DEF IInv, RegistryInv
    <2> QED BY <1>1, <2>3
  <1>5. pending' \in [WorkId -> SUBSET Item]
    <2>1. \A i \in WorkId : pending'[i] \in SUBSET Item
      <3>1. pending \in [WorkId -> SUBSET Item] BY <1>t DEF TypeOK
      <3>2. {new} \in SUBSET Item /\ {} \in SUBSET Item BY <1>2, Zenon
      <3>3. SUFFICES ASSUME NEW i \in WorkId PROVE pending'[i] \in SUBSET Item OBVIOUS
      <3>4. pending[i] \in SUBSET Item BY <3>1, Zenon
      <3>5. pending'[i] = {new} \/ pending'[i] = {} \/ pending'[i] = pending[i] BY <1>3, Zenon
      <3> QED BY <3>2, <3>4, <3>5, Zenon
    <2>2. pending' = [i \in WorkId |-> pending'[i]] BY DEF StoreWork
    <2> QED BY <2>1, <2>2
  <1>6. next_work_id' = IdOf(stored + 1) /\ next_work_id' \in WorkId
    <2>1. ((stored % registry_size) + 1) % registry_size = (stored + 1) % registry_size
      BY <1>0, <1>1, ModNext, Zenon
    <2>2. next_work_id' = IdOf(stored + 1) BY <1>1, <2>1 DEF StoreWork, NextId, IdOf
    <2> QED BY <1>1, <2>2, IdOfType
  <1>7. storing' = {[serial |-> stored, id |-> next_work_id]} BY DEF StoreWork
  <1>8. TypeOK'
    <2>1. \A i \in WorkId : \A x, y \in pending'[i] : x = y
      <3>1. \A i \in WorkId : \A x, y \in pending[i] : x = y BY <1>t DEF TypeOK
      <3> HIDE DEF new
      <3> QED BY <1>3, <3>1, Zenon
    <2>2. storing' \subseteq Written BY <1>1, <1>7 DEF Written
    <2> QED BY <1>1, <1>5, <1>6, <1>7, <1>t, <2>1, <2>2 DEF TypeOK
  <1>9. RegistryInv'
    <2>1. SUFFICES ASSUME NEW i \in WorkId, NEW item \in pending'[i]
          PROVE /\ item.serial < stored' /\ stored' - item.serial <= registry_size
                /\ i = IdOf(item.serial)
                /\ item.initial_work <=> item.serial < InitWork
      BY <1>1, <1>6 DEF RegistryInv
    <2>2. CASE pending'[i] = {new}
      <3>1. item = new /\ i = next_work_id BY <1>4, <2>2
      <3>2. item.initial_work <=> item.serial < InitWork BY <3>1, Zenon
      <3> QED BY <1>0, <1>1, <3>1, <3>2
    <2>3. CASE pending'[i] = pending[i] /\ pending'[i] # {new}
      <3>1. item \in pending[i] /\ i # next_work_id BY <2>3 DEF StoreWork
      <3>2. /\ item.serial < stored /\ stored - item.serial <= registry_size
            /\ i = IdOf(item.serial)
            /\ item.initial_work <=> item.serial < InitWork
        BY <3>1 DEF IInv, RegistryInv
      <3>3. item.serial \in Nat BY <1>t, <3>1 DEF TypeOK, Item
      <3>4. stored - item.serial # registry_size
        <4>1. SUFFICES ASSUME stored - item.serial = registry_size PROVE IdOf(stored) = IdOf(item.serial)
          BY <1>1, <3>1, <3>2
        <4>2. stored = item.serial + registry_size BY <1>0, <1>1, <3>3, <4>1
        <4>3. (item.serial + registry_size) % registry_size = item.serial % registry_size
          BY <1>0, <3>3, ModRound, Zenon
        <4> QED BY <4>2, <4>3, Zenon DEF IdOf
      <3>5. item.serial < stored + 1 /\ (stored + 1) - item.serial <= registry_size
        BY <1>0, <1>1, <3>2, <3>3, <3>4, StillYoung
      <3>6. stored' = stored + 1 BY <1>1
      <3>7. item.serial < stored' /\ stored' - item.serial <= registry_size BY <3>5, <3>6, Zenon
      <3> QED BY <3>2, <3>7
    <2> QED BY <1>3, <2>2, <2>3
  <1>10. transmitted' = transmitted /\ transmitted \in Nat
    <2>1. PICK n \in Nat : n = Len(work_tx_fifo) BY <1>t DEF TypeOK
    <2>2. transmitted = stored - n BY <1>1, <2>1 DEF transmitted
    <2>3. storing' # {} /\ work_tx_fifo' = work_tx_fifo /\ stored' = stored + 1 BY <1>1, <1>7
    <2>4. transmitted' = (stored + 1) - n - 1 BY <2>1, <2>3 DEF transmitted
    <2>5. transmitted \in Nat BY DEF IInv, FifoInv
    <2> QED BY <1>1, <2>2, <2>4, <2>5
  <1>11. FifoInv' BY <1>1, <1>7, <1>10 DEF IInv, FifoInv
  <1>12. ChipInv' BY <1>1, <1>10 DEF IInv, ChipInv
  <1>13. ResponseInv'
    <2>1. SUFFICES ASSUME NEW k \in 1 .. Len(work_rx_fifo)
          PROVE /\ work_rx_fifo[k].serial < stored' /\ stored' - work_rx_fifo[k].serial <= registry_size
                /\ work_rx_fifo[k].word = IdOf(work_rx_fifo[k].serial) * Midstates + work_rx_fifo[k].midstate
      BY <1>1 DEF ResponseInv
    <2>2. work_rx_fifo[k].serial \in Nat BY <1>t, Elements DEF Response
    <2>3. stored - work_rx_fifo[k].serial < registry_size BY DEF StoreWork
    <2>4. /\ work_rx_fifo[k].serial < stored
          /\ work_rx_fifo[k].word = IdOf(work_rx_fifo[k].serial) * Midstates + work_rx_fifo[k].midstate
      BY DEF IInv, ResponseInv
    <2> QED BY <1>0, <1>1, <2>2, <2>3, <2>4
  <1>14. SentInv'
    <2>1. SUFFICES ASSUME NEW k \in 1 .. Len(sent)
          PROVE /\ sent[k].work < stored'
                /\ \A i \in WorkId : \A item \in pending'[i] :
                     item.serial = sent[k].work => sent[k].nonce \in item.solutions
      BY <1>1 DEF SentInv
    <2>2. sent[k].work \in Nat BY <1>t, Elements DEF Solution
    <2>3. /\ sent[k].work < stored
          /\ \A i \in WorkId : \A item \in pending[i] :
               item.serial = sent[k].work => sent[k].nonce \in item.solutions
      BY DEF IInv, SentInv
    <2>4. new.serial # sent[k].work BY <1>1, <2>2, <2>3
    <2>5. ASSUME NEW i \in WorkId, NEW item \in pending'[i], item.serial = sent[k].work
          PROVE  sent[k].nonce \in item.solutions
      <3> HIDE DEF new
      <3>1. CASE pending'[i] = {new} BY <2>4, <2>5, <3>1, Zenon
      <3>2. CASE pending'[i] = {} BY <2>5, <3>2, Zenon
      <3>3. CASE pending'[i] = pending[i] BY <2>3, <2>5, <3>3, Zenon
      <3> QED BY <1>3, <3>1, <3>2, <3>3, Zenon
    <2>6. sent[k].work < stored' BY <1>1, <2>2, <2>3
    <2> QED BY <2>5, <2>6, Zenon
  <1>15. RightWork' /\ SentOnce' BY <1>1 DEF IInv, RightWork, SentOnce
  <1> QED BY <1>8, <1>9, <1>11, <1>12, <1>13, <1>14, <1>15 DEF IInv

LEMMA WriteIInv == ASSUME IInv, WriteWork PROVE IInv'
  <1>t. TypeOK BY DEF IInv
  <1>1. PICK w \in storing : work_tx_fifo' = Append(work_tx_fifo, w) BY DEF WriteWork
  <1>2. /\ storing' = {} /\ storing # {}
        /\ UNCHANGED <<stored, next_work_id, pending, work_id_tx, chips, work_rx_fifo, sent, responses>>
    BY <1>1 DEF WriteWork
  <1>3. w \in Written /\ w.serial = stored - 1 /\ w.id = IdOf(w.serial) /\ stored \in Nat
    BY <1>t, <1>1 DEF TypeOK, IInv, FifoInv
  <1>4. PICK n \in Nat : n = Len(work_tx_fifo) /\ n < FifoWorks
    BY <1>t DEF TypeOK, WriteWork, HasRoom
  <1>5. /\ work_tx_fifo' \in Seq(Written) /\ Len(work_tx_fifo') = n + 1
        /\ \A k \in 1 .. n : work_tx_fifo'[k] = work_tx_fifo[k]
        /\ work_tx_fifo'[n + 1] = w
    BY <1>t, <1>1, <1>3, <1>4 DEF TypeOK
  <1>6. TypeOK'
    <2>1. Len(work_tx_fifo') <= FifoWorks BY <1>4, <1>5, Constants
    <2>2. work_tx_fifo' \in Seq(Written) BY <1>5, Zenon
    <2>3. storing' \subseteq Written /\ \A x, y \in storing' : x = y BY <1>2, Zenon
    <2> QED BY <1>t, <1>2, <2>1, <2>2, <2>3, Zenon DEF TypeOK
  <1>7. transmitted = stored - n - 1 /\ transmitted \in Nat
    <2>1. transmitted = stored - n - 1 BY <1>2, <1>4 DEF transmitted
    <2> QED BY <2>1 DEF IInv, FifoInv
  <1>8. transmitted' = transmitted
    <2>1. transmitted' = stored - (n + 1) - 0 BY <1>2, <1>5 DEF transmitted
    <2> QED BY <1>3, <1>7, <2>1
  <1>9. FifoInv'
    <2>1. SUFFICES ASSUME NEW k \in 1 .. n + 1
          PROVE /\ work_tx_fifo'[k].serial = transmitted + k - 1
                /\ work_tx_fifo'[k].id = IdOf(work_tx_fifo'[k].serial)
      BY <1>2, <1>5, <1>7, <1>8 DEF FifoInv
    <2>2. CASE k \in 1 .. n
      BY <1>4, <1>5, <2>2 DEF IInv, FifoInv
    <2>3. CASE k = n + 1
      <3>1. work_tx_fifo'[k] = w BY <1>5, <2>3
      <3> QED BY <1>3, <1>7, <2>3, <3>1
    <2> QED BY <2>2, <2>3
  <1>10. RegistryInv' /\ ChipInv' /\ ResponseInv' /\ SentInv' /\ RightWork' /\ SentOnce'
    BY <1>2, <1>8 DEF IInv, RegistryInv, ChipInv, ResponseInv, SentInv, RightWork, SentOnce
  <1> QED BY <1>6, <1>9, <1>10 DEF IInv

LEMMA SendIInv == ASSUME IInv, SendWork PROVE IInv'
  <1>t. TypeOK BY DEF IInv
  <1> DEFINE w == Head(work_tx_fifo)
  <1>1. /\ work_tx_fifo # <<>> /\ work_tx_fifo' = Tail(work_tx_fifo)
        /\ work_id_tx' = w.id * Midstates
        /\ UNCHANGED <<stored, next_work_id, pending, storing, work_rx_fifo, sent, responses>>
    BY DEF SendWork
  <1>2. PICK n \in Nat : Len(work_tx_fifo) = n + 1 /\ n + 1 <= FifoWorks
    <2>1. Len(work_tx_fifo) \in Nat /\ Len(work_tx_fifo) # 0 BY <1>t, <1>1 DEF TypeOK
    <2> QED BY <2>1, <1>t DEF TypeOK
  <1>3. /\ work_tx_fifo' \in Seq(Written) /\ Len(work_tx_fifo') = n
        /\ \A k \in 1 .. n : work_tx_fifo'[k] = work_tx_fifo[k + 1]
        /\ w = work_tx_fifo[1]
    BY <1>t, <1>1, <1>2 DEF TypeOK
  <1>4. transmitted \in Nat BY DEF IInv, FifoInv
  <1>5. stored \in Nat BY <1>t DEF TypeOK
  <1>6. transmitted' = transmitted + 1
    <2> DEFINE b == IF storing = {} THEN 0 ELSE 1
    <2>1. b \in Nat OBVIOUS
    <2>2. transmitted = stored - (n + 1) - b BY <1>2 DEF transmitted
    <2>3. transmitted' = stored - n - b BY <1>1, <1>3 DEF transmitted
    <2> HIDE DEF b
    <2> QED BY <1>5, <2>1, <2>2, <2>3
  <1>7. w \in Written /\ w.serial = transmitted /\ w.id = IdOf(transmitted)
    <2>1. 1 \in 1 .. Len(work_tx_fifo) BY <1>2
    <2>2. w \in Written BY <1>3, <1>t, <2>1, Elements
    <2>3. work_tx_fifo[1].serial = transmitted + 1 - 1
          /\ work_tx_fifo[1].id = IdOf(work_tx_fifo[1].serial)
      BY <2>1 DEF IInv, FifoInv
    <2> QED BY <1>3, <1>4, <2>2, <2>3
  <1>8. FifoInv'
    <2>1. SUFFICES ASSUME NEW k \in 1 .. n
          PROVE /\ work_tx_fifo'[k].serial = transmitted' + k - 1
                /\ work_tx_fifo'[k].id = IdOf(work_tx_fifo'[k].serial)
      BY <1>1, <1>3, <1>4, <1>6 DEF IInv, FifoInv
    <2>2. k + 1 \in 1 .. Len(work_tx_fifo) BY <1>2
    <2>3. work_tx_fifo[k + 1].serial = transmitted + (k + 1) - 1
          /\ work_tx_fifo[k + 1].id = IdOf(work_tx_fifo[k + 1].serial)
      BY <2>2 DEF IInv, FifoInv
    <2> QED BY <1>3, <1>4, <1>6, <2>3
  <1> HIDE DEF w
  <1>9. IdOf(transmitted) \in WorkId /\ IdOf(transmitted) * Midstates \in 0 .. ExtIds - 1
    <2>1. 0 \in Midstate BY MidstatesNat DEF Midstate
    <2>2. IdOf(transmitted) \in WorkId /\ IdOf(transmitted) \in Nat BY <1>4, IdOfType
    <2>3. IdOf(transmitted) * Midstates + 0 \in 0 .. ExtIds - 1 BY <2>1, <2>2, WordFits
    <2> QED BY <2>2, <2>3, MidstatesNat
  <1>10. (IdOf(transmitted) * Midstates) % ChipIds \in 0 .. ChipIds - 1
    BY <1>9, ChipIdsNat, Constants
  <1>11. chips' \subseteq {c \in chips : transmitted - c.serial < ChipLag} \cup
           {[serial |-> transmitted, id |-> (IdOf(transmitted) * Midstates) % ChipIds]}
    BY <1>7 DEF SendWork, w
  <1>12. ChipLag = 0 => chips' \subseteq {c \in chips : transmitted - c.serial < ChipLag}
    BY <1>7 DEF SendWork, w
  <1>13. TypeOK'
    <2>1. chips' \subseteq [serial : Nat, id : 0 .. ChipIds - 1]
      BY <1>4, <1>10, <1>11, <1>t DEF TypeOK
    <2>2. work_id_tx' \in 0 .. ExtIds - 1 BY <1>1, <1>7, <1>9
    <2>3. Len(work_tx_fifo') <= FifoWorks BY <1>2, <1>3, Constants
    <2> QED BY <1>t, <1>1, <1>3, <2>1, <2>2, <2>3 DEF TypeOK
  <1>14. ChipInv'
    <2>1. work_id_tx' = IdOf(transmitted' - 1) * Midstates BY <1>1, <1>4, <1>6, <1>7
    <2>2. SUFFICES ASSUME NEW c \in chips'
          PROVE /\ c.serial < transmitted' /\ transmitted' - c.serial <= ChipLag
                /\ c.id = (IdOf(c.serial) * Midstates) % ChipIds
      BY <2>1 DEF ChipInv
    <2>3. CASE c \in chips /\ transmitted - c.serial < ChipLag
      <3>1. c.serial \in Nat BY <1>t, <2>3 DEF TypeOK
      <3>2. c.serial < transmitted /\ c.id = (IdOf(c.serial) * Midstates) % ChipIds
        BY <2>3 DEF IInv, ChipInv
      <3> QED BY <1>4, <1>6, <2>3, <3>1, <3>2, Constants
    <2>4. CASE ChipLag # 0 /\ c = [serial |-> transmitted, id |-> (IdOf(transmitted) * Midstates) % ChipIds]
      BY <1>4, <1>6, <2>4, Constants
    <2> QED BY <1>11, <1>12, <2>3, <2>4
  <1>15. RegistryInv' /\ ResponseInv' /\ SentInv' /\ RightWork' /\ SentOnce'
    BY <1>1 DEF IInv, RegistryInv, ResponseInv, SentInv, RightWork, SentOnce
  <1> QED BY <1>8, <1>13, <1>14, <1>15 DEF IInv

LEMMA RespondIInv ==
  ASSUME IInv, NEW w \in chips, NEW m \in Midstate, NEW n \in Nonce, Respond(w, m, n)
  PROVE  IInv'
  <1>t. TypeOK BY DEF IInv
  <1>1. /\ responses' = responses + 1
        /\ UNCHANGED <<stored, next_work_id, pending, storing, work_tx_fifo, work_id_tx, chips, sent>>
    BY DEF Respond
  <1>2. /\ transmitted \in Nat /\ w.serial \in Nat /\ stored \in Nat
        /\ w.serial < transmitted /\ transmitted - w.serial <= ChipLag
        /\ w.id = (IdOf(w.serial) * Midstates) % ChipIds
        /\ work_id_tx = IdOf(transmitted - 1) * Midstates
    <2>1. transmitted \in Nat BY DEF IInv, FifoInv
    <2>2. w.serial \in Nat /\ stored \in Nat BY <1>t DEF TypeOK
    <2>3. /\ w.serial < transmitted /\ transmitted - w.serial <= ChipLag
          /\ w.id = (IdOf(w.serial) * Midstates) % ChipIds
          /\ (transmitted > 0 => work_id_tx = IdOf(transmitted - 1) * Midstates)
      BY Zenon DEF IInv, ChipInv
    <2>4. transmitted > 0 BY <2>1, <2>2, <2>3
    <2> QED BY <2>1, <2>2, <2>3, <2>4
  <1>3. PICK last \in Nat : last = transmitted - 1 BY <1>2
  <1>4. Extend(w.id + m) = IdOf(w.serial) * Midstates + m
    <2>1. w.serial <= last /\ last - w.serial < ChipLag /\ work_id_tx = IdOf(last) * Midstates
      BY <1>2, <1>3, Constants
    <2>2. Extend(((IdOf(w.serial) * Midstates) % ChipIds) + m) = IdOf(w.serial) * Midstates + m
      BY <1>2, <2>1, ExtendRight
    <2> QED BY <1>2, <2>2
  <1>5. stored - w.serial <= registry_size /\ w.serial < stored
    <2> DEFINE b == IF storing = {} THEN 0 ELSE 1
    <2>1. b \in {0, 1} OBVIOUS
    <2>2. PICK l \in Nat : l = Len(work_tx_fifo) /\ l <= FifoWorks BY <1>t DEF TypeOK
    <2>3. transmitted = stored - l - b BY <2>2 DEF transmitted
    <2>4. FifoWorks + 1 + ChipLag <= registry_size BY TimingAssumption DEF registry_size
    <2> HIDE DEF b
    <2>5. FifoWorks \in Nat /\ ChipLag \in Nat BY Constants
    <2>6. registry_size \in Nat BY Widths
    <2>7. PICK x \in Nat : x = w.serial /\ x < transmitted /\ transmitted - x <= ChipLag BY <1>2
    <2>8. stored \in Nat BY <1>2
    <2> QED BY <2>1, <2>2, <2>3, <2>4, <2>5, <2>6, <2>7, <2>8
  <1> DEFINE r == [serial |-> w.serial, midstate |-> m, nonce |-> n,
                   word |-> IdOf(w.serial) * Midstates + m]
  <1>6. r \in Response
    <2>1. IdOf(w.serial) * Midstates + m \in 0 .. ExtIds - 1 BY <1>2, IdOfType, WordFits
    <2> QED BY <1>2, <2>1 DEF Response
  <1>7. transmitted' = transmitted BY <1>1 DEF transmitted
  <1>8. work_rx_fifo' = work_rx_fifo
          \/ (Len(work_rx_fifo) # RxFifo /\ work_rx_fifo' = Append(work_rx_fifo, r))
    BY <1>4 DEF Respond
  <1> HIDE DEF r
  <1>9. TypeOK' /\ ResponseInv'
    <2>1. CASE work_rx_fifo' = work_rx_fifo
      <3>1. responses' \in Nat BY <1>1, <1>t DEF TypeOK
      <3>2. TypeOK' BY <1>1, <1>t, <2>1, <3>1, Zenon DEF TypeOK
      <3>3. ResponseInv' BY <1>1, <2>1 DEF IInv, ResponseInv
      <3> QED BY <3>2, <3>3
    <2>2. CASE Len(work_rx_fifo) # RxFifo /\ work_rx_fifo' = Append(work_rx_fifo, r)
      <3>1. PICK l \in Nat : l = Len(work_rx_fifo) /\ l < RxFifo BY <1>t, <2>2, Constants DEF TypeOK
      <3>2. /\ work_rx_fifo' \in Seq(Response) /\ Len(work_rx_fifo') = l + 1
            /\ \A k \in 1 .. l : work_rx_fifo'[k] = work_rx_fifo[k]
            /\ work_rx_fifo'[l + 1] = r
        BY <1>t, <1>6, <2>2, <3>1 DEF TypeOK
      <3>3. TypeOK'
        <4>1. RxFifo \in Nat BY Constants
        <4>2. Len(work_rx_fifo') <= RxFifo BY <3>1, <3>2, <4>1
        <4>3. responses \in Nat BY <1>t DEF TypeOK
        <4>4. responses' \in Nat BY <1>1, <4>3
        <4>5. work_rx_fifo' \in Seq(Response) BY <3>2, Zenon
        <4> QED BY <1>1, <1>t, <4>2, <4>4, <4>5, Zenon DEF TypeOK
      <3>4. ResponseInv'
        <4>1. SUFFICES ASSUME NEW k \in 1 .. l + 1
              PROVE LET x == work_rx_fifo'[k] IN
                    /\ x.serial < stored /\ stored - x.serial <= registry_size
                    /\ x.word = IdOf(x.serial) * Midstates + x.midstate
          BY <1>1, <3>2 DEF ResponseInv
        <4>2. CASE k \in 1 .. l BY <3>1, <3>2, <4>2 DEF IInv, ResponseInv
        <4>3. CASE k = l + 1
          <5>1. work_rx_fifo'[k] = r BY <3>2, <4>3
          <5> QED BY <1>5, <5>1 DEF r
        <4> QED BY <4>2, <4>3
      <3> QED BY <3>3, <3>4
    <2> QED BY <1>8, <2>1, <2>2
  <1>10. RegistryInv' /\ FifoInv' /\ ChipInv' /\ SentInv' /\ RightWork' /\ SentOnce'
    BY <1>1, <1>7 DEF IInv, RegistryInv, FifoInv, ChipInv, SentInv, RightWork, SentOnce
  <1> QED BY <1>9, <1>10 DEF IInv

\* What solution_rx_task finds under a response's identifier is the response's work.
LEMMA FindsWork ==
  ASSUME IInv, work_rx_fifo # <<>>
  PROVE  LET r == Head(work_rx_fifo) IN
         /\ r \in Response /\ r.serial < stored
         /\ r.word \div Midstates \in WorkId
         /\ r.word % Midstates = r.midstate
         /\ \A item \in pending[r.word \div Midstates] : item.serial = r.serial
  <1>t. TypeOK BY DEF IInv
  <1> DEFINE r == Head(work_rx_fifo)
  <1>1. r = work_rx_fifo[1] /\ 1 \in 1 .. Len(work_rx_fifo) BY <1>t DEF TypeOK
  <1>2. r \in Response BY <1>1, <1>t, Elements
  <1>3. /\ r.serial < stored /\ stored - r.serial <= registry_size
        /\ r.word = IdOf(r.serial) * Midstates + r.midstate
    BY <1>1 DEF IInv, ResponseInv
  <1> HIDE DEF r
  <1>4. r.serial \in Nat /\ r.midstate \in Midstate /\ stored \in Nat
    BY <1>2, <1>t DEF Response, TypeOK
  <1>5. PICK i \in Nat : i = IdOf(r.serial) /\ i \in WorkId BY <1>4, IdOfType
  <1>6. r.word \div Midstates = i /\ r.word % Midstates = r.midstate
    BY <1>3, <1>4, <1>5, FromHw
  <1>7. ASSUME NEW item \in pending[i] PROVE item.serial = r.serial
    <2>1. item.serial \in Nat BY <1>t, <1>5, <1>7 DEF TypeOK, Item
    <2>2. /\ item.serial < stored /\ stored - item.serial <= registry_size
          /\ i = IdOf(item.serial)
      BY <1>5, <1>7 DEF IInv, RegistryInv
    <2>3. item.serial % registry_size = r.serial % registry_size BY <1>5, <2>2 DEF IdOf
    <2>4. registry_size \in Nat \ {0} BY Widths
    <2> QED BY <1>3, <1>4, <2>1, <2>2, <2>3, <2>4, ModUnique, Zenon
  <1> QED BY <1>2, <1>3, <1>5, <1>6, <1>7 DEF r

LEMMA ReceiveIInv == ASSUME IInv, ReceiveSolution PROVE IInv'
  <1>t. TypeOK BY DEF IInv
  <1> DEFINE r == Head(work_rx_fifo)
             id == r.word \div Midstates
  <1>1. /\ work_rx_fifo # <<>> /\ work_rx_fifo' = Tail(work_rx_fifo)
        /\ UNCHANGED <<stored, next_work_id, storing, work_tx_fifo, work_id_tx, chips, responses>>
    BY DEF ReceiveSolution
  <1>2. /\ r \in Response /\ r.serial < stored /\ id \in WorkId
        /\ r.word % Midstates = r.midstate
        /\ \A item \in pending[id] : item.serial = r.serial
    BY <1>1, FindsWork, Zenon
  <1>3. PICK n \in Nat : Len(work_rx_fifo) = n + 1 /\ n + 1 <= RxFifo
    <2>1. PICK l \in Nat : l = Len(work_rx_fifo) /\ l # 0 BY <1>t, <1>1 DEF TypeOK
    <2>2. l <= RxFifo BY <1>t, <2>1 DEF TypeOK
    <2>3. l - 1 \in Nat /\ l = (l - 1) + 1 BY <2>1
    <2> QED BY <2>1, <2>2, <2>3
  <1>4. /\ work_rx_fifo' \in Seq(Response) /\ Len(work_rx_fifo') = n
        /\ \A k \in 1 .. n : work_rx_fifo'[k] = work_rx_fifo[k + 1]
    BY <1>t, <1>1, <1>3 DEF TypeOK
  <1>5. Len(work_rx_fifo') <= RxFifo BY <1>3, <1>4, Constants
  <1>6. ResponseInv'
    <2>1. SUFFICES ASSUME NEW k \in 1 .. n
          PROVE LET x == work_rx_fifo'[k] IN
                /\ x.serial < stored /\ stored - x.serial <= registry_size
                /\ x.word = IdOf(x.serial) * Midstates + x.midstate
      BY <1>1, <1>4 DEF ResponseInv
    <2>2. k + 1 \in 1 .. Len(work_rx_fifo) BY <1>3
    <2> QED BY <1>4, <2>2, Zenon DEF IInv, ResponseInv
  <1>7. transmitted' = transmitted BY <1>1 DEF transmitted
  <1>8. FifoInv' /\ ChipInv' BY <1>1, <1>7 DEF IInv, FifoInv, ChipInv
  <1>9. CASE UNCHANGED <<pending, sent>>
    <2>1. TypeOK' BY <1>t, <1>1, <1>4, <1>5, <1>9 DEF TypeOK
    <2>2. RegistryInv' /\ SentInv' /\ RightWork' /\ SentOnce'
      BY <1>1, <1>9 DEF IInv, RegistryInv, SentInv, RightWork, SentOnce
    <2> QED BY <1>6, <1>8, <2>1, <2>2 DEF IInv
  <1>10. ASSUME NEW item \in pending[id], ~item.initial_work, r.nonce \notin item.solutions,
                pending' = [pending EXCEPT ![id] = {[item EXCEPT !.solutions = @ \cup {r.nonce}]}],
                sent' = Append(sent, [serial |-> r.serial, midstate |-> r.midstate,
                  nonce |-> r.nonce, work |-> item.serial, midstate_idx |-> r.word % Midstates])
         PROVE  IInv'
    <2> DEFINE new == [item EXCEPT !.solutions = @ \cup {r.nonce}]
               s == [serial |-> r.serial, midstate |-> r.midstate, nonce |-> r.nonce,
                     work |-> item.serial, midstate_idx |-> r.word % Midstates]
    <2> HIDE DEF r, id
    <2>1. item \in Item /\ item.serial = r.serial /\ item.serial < stored
      BY <1>t, <1>2, <1>10 DEF TypeOK
    <2>2. /\ new \in Item /\ new.serial = item.serial
          /\ (new.initial_work <=> item.initial_work)
          /\ new.solutions = item.solutions \cup {r.nonce}
      BY <1>2, <2>1 DEF Item, Response
    <2>3. s \in Solution /\ s.work = s.serial /\ s.midstate_idx = s.midstate
          /\ s.work = item.serial /\ s.nonce = r.nonce
      BY <1>2, <2>1 DEF Solution, Response, Item
    <2> HIDE DEF new, s
    <2>4. /\ pending' \in [WorkId -> SUBSET Item] /\ pending'[id] = {new}
          /\ \A i \in WorkId : i # id => pending'[i] = pending[i]
      BY <1>2, <1>10, <1>t, <2>2 DEF TypeOK, new
    <2>5. PICK l \in Nat : l = Len(sent) BY <1>t DEF TypeOK
    <2>6. /\ sent' \in Seq(Solution) /\ Len(sent') = l + 1
          /\ \A k \in 1 .. l : sent'[k] = sent[k]
          /\ sent'[l + 1] = s
      BY <1>10, <1>t, <2>3, <2>5 DEF TypeOK, s
    <2>7. TypeOK'
      <3>1. \A i \in WorkId : \A x, y \in pending'[i] : x = y BY <1>t, <2>4 DEF TypeOK
      <3> QED BY <1>t, <1>1, <1>4, <1>5, <2>4, <2>6, <3>1 DEF TypeOK
    <2>8. RegistryInv'
      <3>1. /\ new.serial < stored /\ stored - new.serial <= registry_size
            /\ id = IdOf(new.serial)
            /\ (new.initial_work <=> new.serial < InitWork)
        BY <1>2, <1>10, <2>2 DEF IInv, RegistryInv
      <3> QED BY <1>1, <2>4, <3>1, Zenon DEF IInv, RegistryInv
    <2>9. SentInv'
      <3>1. SUFFICES ASSUME NEW k \in 1 .. l + 1
            PROVE /\ sent'[k].work < stored
                  /\ \A i \in WorkId : \A x \in pending'[i] :
                       x.serial = sent'[k].work => sent'[k].nonce \in x.solutions
        BY <1>1, <2>6 DEF SentInv
      <3>2. CASE k \in 1 .. l
        <4>1. sent'[k] = sent[k] BY <2>6, <3>2
        <4>2. /\ sent[k].work < stored
              /\ \A i \in WorkId : \A x \in pending[i] :
                   x.serial = sent[k].work => sent[k].nonce \in x.solutions
          BY <2>5, <3>2 DEF IInv, SentInv
        <4>3. ASSUME NEW i \in WorkId, NEW x \in pending'[i], x.serial = sent[k].work
              PROVE  sent[k].nonce \in x.solutions
          <5>1. CASE i = id
            <6>1. x = new BY <2>4, <4>3, <5>1, Zenon
            <6>2. sent[k].nonce \in item.solutions BY <1>2, <1>10, <2>2, <4>2, <4>3, <6>1, Zenon
            <6> QED BY <2>2, <6>1, <6>2, Zenon
          <5>2. CASE i # id BY <2>4, <4>2, <4>3, <5>2, Zenon
          <5> QED BY <5>1, <5>2, Zenon
        <4> QED BY <4>1, <4>2, <4>3, Zenon
      <3>3. CASE k = l + 1
        <4>1. sent'[k] = s BY <2>6, <3>3
        <4>2. ASSUME NEW i \in WorkId, NEW x \in pending'[i], x.serial = s.work
              PROVE  s.nonce \in x.solutions
          <5>1. CASE i = id BY <2>2, <2>3, <2>4, <4>2, <5>1
          <5>2. CASE i # id
            <6>1. x \in pending[i] BY <2>4, <4>2, <5>2
            <6>2. i = IdOf(x.serial) /\ id = IdOf(item.serial)
              BY <1>2, <1>10, <6>1 DEF IInv, RegistryInv
            <6> QED BY <2>3, <4>2, <5>2, <6>2
          <5> QED BY <5>1, <5>2, Zenon
        <4> QED BY <2>1, <2>3, <4>1, <4>2, Zenon
      <3> QED BY <3>2, <3>3
    <2>10. RightWork'
      <3>1. \A k \in 1 .. l : sent[k].work = sent[k].serial /\ sent[k].midstate_idx = sent[k].midstate
        BY <2>5 DEF IInv, RightWork
      <3>2. \A k \in 1 .. l + 1 : k \in 1 .. l \/ k = l + 1 OBVIOUS
      <3> QED BY <2>3, <2>6, <3>1, <3>2, Zenon DEF RightWork
    <2>11. SentOnce'
      <3>1. s.work >= InitWork
        <4>1. ~(item.serial < InitWork) BY <1>2, <1>10 DEF IInv, RegistryInv
        <4>2. item.serial \in Nat /\ InitWork \in Nat BY <2>1, Constants DEF Item
        <4> QED BY <2>3, <4>1, <4>2
      <3>2. ASSUME NEW k \in 1 .. l PROVE <<sent[k].work, sent[k].nonce>> # <<s.work, s.nonce>>
        <4>1. item.serial = sent[k].work => sent[k].nonce \in item.solutions
          BY <1>2, <1>10, <2>5 DEF IInv, SentInv
        <4> QED BY <1>10, <2>3, <4>1
      <3>3. /\ \A i, j \in 1 .. l :
                 i # j => <<sent[i].work, sent[i].nonce>> # <<sent[j].work, sent[j].nonce>>
            /\ \A i \in 1 .. l : sent[i].work >= InitWork
        BY <2>5 DEF IInv, SentOnce
      <3>4. \A i \in 1 .. l + 1 : i \in 1 .. l \/ i = l + 1 OBVIOUS
      <3> QED BY <2>6, <3>1, <3>2, <3>3, <3>4 DEF SentOnce
    <2> QED BY <1>6, <1>8, <2>7, <2>8, <2>9, <2>10, <2>11 DEF IInv
  <1> QED BY <1>9, <1>10, Zenon DEF ReceiveSolution

LEMMA NextIInv == ASSUME IInv, [Next]_vars PROVE IInv'
  <1>1. CASE UNCHANGED vars
    <2>1. transmitted' = transmitted BY <1>1 DEF vars, transmitted
    <2>2. TypeOK' /\ RegistryInv' BY <1>1, Zenon DEF vars, IInv, TypeOK, RegistryInv
    <2>3. FifoInv' /\ ChipInv' BY <1>1, <2>1, Zenon DEF vars, IInv, FifoInv, ChipInv
    <2>4. UNCHANGED <<stored, pending, work_rx_fifo, sent>> BY <1>1, Zenon DEF vars
    <2>5. ResponseInv' BY <2>4 DEF IInv, ResponseInv
    <2>6. SentInv' BY <2>4 DEF IInv, SentInv
    <2>7. RightWork' /\ SentOnce' BY <2>4 DEF IInv, RightWork, SentOnce
    <2> QED BY <2>2, <2>3, <2>5, <2>6, <2>7 DEF IInv
  <1> QED BY <1>1, StoreIInv, WriteIInv, SendIInv, RespondIInv, ReceiveIInv DEF Next

\* Every reachable state satisfies the inductive invariant.
THEOREM Invariance == Spec => []IInv
  BY InitIInv, NextIInv, PTL DEF Spec

\* solution_rx_task pairs a solution with the work and the midstate the chip
\* found it for, for every width and every depth that meet the timing assumption.
THEOREM SolutionsFindTheirWork == Spec => []RightWork
  <1>1. IInv => RightWork BY DEF IInv
  <1> QED BY <1>1, Invariance, PTL

\* insert_solution's duplicates and the solutions of open-core work stay in the driver.
THEOREM SolutionsAreSentOnce == Spec => []SentOnce
  <1>1. IInv => SentOnce BY DEF IInv
  <1> QED BY <1>1, Invariance, PTL
=============================================================================
