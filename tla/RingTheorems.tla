---------------------------- MODULE RingTheorems ----------------------------
(***************************************************************************)
(* Ring buffers with counters that wrap, as kernel/pipe.c, console.c and   *)
(* virtio_disk.c use them: a ring of n slots, and two unsigned counters    *)
(* that wrap at w, a multiple of n, and are taken modulo n to name a slot. *)
(* The lemmas say when such a ring is a first-in first-out queue, for      *)
(* every n and w.                                                          *)
(***************************************************************************)
EXTENDS RingSteps, TLAPS

(* The length and the elements of a sequence with one more.                *)
LEMMA AppendIs ==
  ASSUME NEW S, NEW s \in Seq(S), NEW e \in S
  PROVE  /\ Append(s, e) \in Seq(S)
         /\ Len(Append(s, e)) = Len(s) + 1
         /\ \A k \in 1..Len(s) : Append(s, e)[k] = s[k]
         /\ Append(s, e)[Len(s) + 1] = e
  OBVIOUS

(* The length and the elements of a sequence without its first.            *)
LEMMA TailIs ==
  ASSUME NEW S, NEW s \in Seq(S), s # <<>>
  PROVE  /\ Tail(s) \in Seq(S)
         /\ Len(Tail(s)) = Len(s) - 1
         /\ \A k \in 1..Len(s) - 1 : Tail(s)[k] = s[k + 1]
  <1>1. Len(s) \in Nat \ {0}
    OBVIOUS
  <1>. QED BY <1>1

(* Sequences of one length with the same elements are the same.            *)
LEMMA SameSeq ==
  ASSUME NEW S, NEW s \in Seq(S), NEW t \in Seq(S), Len(s) = Len(t),
         \A k \in 1..Len(s) : s[k] = t[k]
  PROVE  s = t
  OBVIOUS

(* The quotient and the remainder of a division by a positive number.      *)
LEMMA DivMod ==
  ASSUME NEW n \in Nat \ {0}, NEW x \in Int
  PROVE  x % n \in 0..n - 1 /\ \E q \in Int : x = n * q + (x % n)
  <1>1. x % n \in 0..n - 1 /\ x \div n \in Int
    OBVIOUS
  <1>2. x = n * (x \div n) + (x % n)
    OBVIOUS
  <1>. QED BY <1>1, <1>2, Zenon

(* A multiple of n smaller than n on both sides is 0.                      *)
LEMMA Multiple ==
  ASSUME NEW n \in Nat \ {0}, NEW d \in Int, n * d < n, -n < n * d
  PROVE  d = 0
  <1>1. d >= 1 => n * d >= n
    OBVIOUS
  <1>2. d <= -1 => n * d <= -n
    OBVIOUS
  <1>. QED BY <1>1, <1>2

(* A number written as a multiple of n and a remainder has that            *)
(* remainder.                                                              *)
LEMMA ModUnique ==
  ASSUME NEW n \in Nat \ {0}, NEW q \in Int, NEW r \in 0..n - 1
  PROVE  (n * q + r) % n = r
  <1>1. n * q + r \in Int
    OBVIOUS
  <1>2. PICK p \in Int : n * q + r = n * p + ((n * q + r) % n)
    BY <1>1, DivMod, Zenon
  <1>3. (n * q + r) % n \in 0..n - 1
    BY <1>1, DivMod
  <1>4. n * (q - p) = ((n * q + r) % n) - r
    BY <1>2, <1>3
  <1>5. q - p = 0
    BY <1>3, <1>4, Multiple
  <1>. QED BY <1>2, <1>3, <1>5

(* % leaves the numbers in its range alone.                                *)
LEMMA ModSmall ==
  ASSUME NEW n \in Nat \ {0}, NEW x \in 0..n - 1
  PROVE  x % n = x
  OBVIOUS

(* % of a number one period below its range.                               *)
LEMMA ModNeg ==
  ASSUME NEW n \in Nat \ {0}, NEW x \in Int, -n <= x, x < 0
  PROVE  x % n = x + n
  <1>1. (n * (-1) + (x + n)) % n = x + n
    BY ModUnique
  <1>. QED BY <1>1

(* % of a number one period above its range.                               *)
LEMMA ModOver ==
  ASSUME NEW n \in Nat \ {0}, NEW x \in Int, n <= x, x < 2 * n
  PROVE  x % n = x - n
  <1>1. (n * 1 + (x - n)) % n = x - n
    BY ModUnique
  <1>. QED BY <1>1

(* A sum may be reduced before it is complete.                             *)
LEMMA ModSum ==
  ASSUME NEW n \in Nat \ {0}, NEW x \in Int, NEW y \in Int
  PROVE  ((x % n) + y) % n = (x + y) % n
  <1>1. PICK q \in Int : x = n * q + (x % n)
    BY DivMod, Zenon
  <1>2. PICK a \in 0..n - 1 : a = x % n
    BY DivMod
  <1>3. a + y \in Int
    OBVIOUS
  <1>4. PICK p \in Int : a + y = n * p + ((a + y) % n)
    BY <1>3, DivMod, Zenon
  <1>5. PICK b \in 0..n - 1 : b = (a + y) % n
    BY <1>3, DivMod
  <1>6. x + y = n * (q + p) + b
    BY <1>1, <1>2, <1>4, <1>5
  <1>7. (n * (q + p) + b) % n = b
    BY ModUnique
  <1>. QED BY <1>2, <1>5, <1>6, <1>7

(* Counters that wrap at a multiple of n index a ring of n slots as the    *)
(* counters that never wrap would: what lets pipe.c, console.c and         *)
(* virtio_disk.c take a wrapped uint modulo the size of their ring.        *)
LEMMA ModMod ==
  ASSUME NEW n \in Nat \ {0}, NEW w \in Nat \ {0}, w % n = 0, NEW x \in Int
  PROVE  (x % w) % n = x % n
  <1>1. PICK k \in Int : w = n * k
    BY DivMod
  <1>2. PICK a \in 0..w - 1 : a = x % w
    BY DivMod
  <1>3. PICK q \in Int : x = w * q + a
    BY <1>2, DivMod, Zenon
  <1>4. PICK b \in 0..n - 1 : b = a % n
    BY DivMod
  <1>5. PICK p \in Int : a = n * p + (a % n)
    <2>1. a \in Int
      OBVIOUS
    <2>. QED BY <2>1, DivMod, Zenon
  <1>6. x = n * (k * q + p) + b /\ k * q + p \in Int
    BY <1>1, <1>3, <1>4, <1>5
  <1>7. (n * (k * q + p) + b) % n = b
    BY <1>6, ModUnique
  <1>. QED BY <1>2, <1>4, <1>6, <1>7, Zenon

(* Fewer than n slots from one on are different slots.                     *)
LEMMA ModInj ==
  ASSUME NEW n \in Nat \ {0}, NEW x \in Int, NEW j \in Int, NEW k \in Int,
         j - k < n, k - j < n, (x + j) % n = (x + k) % n
  PROVE  j = k
  <1>1. PICK a \in 0..n - 1 : a = (x + j) % n
    BY DivMod
  <1>2. PICK p \in Int : x + j = n * p + ((x + j) % n)
    <2>1. x + j \in Int
      OBVIOUS
    <2>. QED BY <2>1, DivMod, Zenon
  <1>3. PICK q \in Int : x + k = n * q + ((x + k) % n)
    <2>1. x + k \in Int
      OBVIOUS
    <2>. QED BY <2>1, DivMod, Zenon
  <1>4. n * (p - q) = j - k /\ p - q \in Int
    BY <1>1, <1>2, <1>3
  <1>5. p - q = 0
    BY <1>4, Multiple
  <1>. QED BY <1>1, <1>2, <1>3, <1>5

-----------------------------------------------------------------------------
(* Counters.                                                               *)

(* Where ++ takes a counter that wraps at w.                               *)
LEMMA AdvanceIs ==
  ASSUME NEW w \in Nat \ {0}, NEW a \in 0..w - 1
  PROVE  /\ Advance(a, w) \in 0..w - 1
         /\ a + 1 = w => Advance(a, w) = 0
         /\ a + 1 # w => Advance(a, w) = a + 1
  <1>1. CASE a + 1 = w
    BY <1>1, ModOver DEF Advance
  <1>2. CASE a + 1 # w
    BY <1>2, ModSmall DEF Advance
  <1>. QED BY <1>1, <1>2

(* The unsigned difference of two counters.                                *)
LEMMA DistanceIs ==
  ASSUME NEW w \in Nat \ {0}, NEW a \in 0..w - 1, NEW b \in 0..w - 1
  PROVE  /\ Distance(a, b, w) \in 0..w - 1
         /\ b <= a => Distance(a, b, w) = a - b
         /\ a < b => Distance(a, b, w) = a - b + w
  <1>1. CASE b <= a
    BY <1>1, ModSmall DEF Distance
  <1>2. CASE a < b
    <2>1. a - b \in Int /\ -w <= a - b /\ a - b < 0
      BY <1>2
    <2>2. (a - b) % w = a - b + w
      BY <2>1, ModNeg
    <2>. QED BY <1>2, <2>2 DEF Distance
  <1>. QED BY <1>1, <1>2

(* Advancing the last counter makes the distance longer by one, unless     *)
(* the distance is all that a counter can count.                           *)
LEMMA DistancePut ==
  ASSUME NEW w \in Nat \ {0}, NEW a \in 0..w - 1, NEW b \in 0..w - 1,
         Distance(a, b, w) + 1 < w
  PROVE  Distance(Advance(a, w), b, w) = Distance(a, b, w) + 1
  <1>1. PICK c \in 0..w - 1 : /\ c = Advance(a, w)
                              /\ a + 1 = w => c = 0
                              /\ a + 1 # w => c = a + 1
    BY AdvanceIs
  <1>2. /\ b <= c => Distance(c, b, w) = c - b
        /\ c < b => Distance(c, b, w) = c - b + w
    BY DistanceIs, Zenon
  <1>3. /\ b <= a => Distance(a, b, w) = a - b
        /\ a < b => Distance(a, b, w) = a - b + w
    BY DistanceIs
  <1>. QED BY <1>1, <1>2, <1>3

(* Advancing the first counter makes the distance shorter by one.          *)
LEMMA DistanceGet ==
  ASSUME NEW w \in Nat \ {0}, NEW a \in 0..w - 1, NEW b \in 0..w - 1, a # b
  PROVE  /\ Distance(a, b, w) \in 1..w - 1
         /\ Distance(a, Advance(b, w), w) = Distance(a, b, w) - 1
  <1>1. PICK c \in 0..w - 1 : /\ c = Advance(b, w)
                              /\ b + 1 = w => c = 0
                              /\ b + 1 # w => c = b + 1
    BY AdvanceIs
  <1>2. /\ c <= a => Distance(a, c, w) = a - c
        /\ a < c => Distance(a, c, w) = a - c + w
    BY DistanceIs
  <1>3. /\ b <= a => Distance(a, b, w) = a - b
        /\ a < b => Distance(a, b, w) = a - b + w
    BY DistanceIs
  <1>. QED BY <1>1, <1>2, <1>3

(* Slots: a counter which wraps at w names the same slot as one that does  *)
(* not wrap.                                                               *)

(* A counter names a slot of the ring.                                     *)
LEMMA SlotType ==
  ASSUME NEW n \in Nat \ {0}, NEW x \in Int
  PROVE  Slot(x, n) \in 0..n - 1
  BY DivMod DEF Slot

(* Fewer than n counters in a row name different slots.                    *)
LEMMA SlotInj ==
  ASSUME NEW n \in Nat \ {0}, NEW x \in Int, NEW j \in Int, NEW k \in Int,
         j - k < n, k - j < n, j # k
  PROVE  Slot(x + j, n) # Slot(x + k, n)
  BY ModInj, Zenon DEF Slot

(* Wrapping does not change the slot.                                      *)
LEMMA SlotWrap ==
  ASSUME NEW n \in Nat \ {0}, NEW w \in Nat \ {0}, Divides(n, w), NEW x \in Int
  PROVE  Slot(x % w, n) = Slot(x, n)
  <1>1. w % n = 0
    BY DEF Divides
  <1>. QED BY <1>1, ModMod, Zenon DEF Slot

(* The slot that the last counter names is the one after the content,      *)
(* whether or not it has wrapped.                                          *)
LEMMA SlotOfLast ==
  ASSUME NEW n \in Nat \ {0}, NEW w \in Nat \ {0}, Divides(n, w),
         NEW a \in 0..w - 1, NEW b \in 0..w - 1
  PROVE  Slot(b + Distance(a, b, w), n) = Slot(a, n)
  <1>1. PICK d \in 0..w - 1 : /\ d = Distance(a, b, w)
                              /\ b <= a => d = a - b
                              /\ a < b => d = a - b + w
    <2>1. /\ Distance(a, b, w) \in 0..w - 1
          /\ b <= a => Distance(a, b, w) = a - b
          /\ a < b => Distance(a, b, w) = a - b + w
      BY DistanceIs, Zenon
    <2>. QED BY <2>1
  <1>2. b + d = a \/ b + d = a + w
    BY <1>1
  <1>3. Slot(a + w, n) = Slot(a, n)
    <2>1. a + w \in Int /\ w <= a + w /\ a + w < 2 * w /\ (a + w) - w = a
      OBVIOUS
    <2>2. (a + w) % w = a
      BY <2>1, ModOver, Zenon
    <2>3. Slot((a + w) % w, n) = Slot(a + w, n)
      BY <2>1, SlotWrap, Zenon
    <2>. QED BY <2>2, <2>3
  <1>. QED BY <1>1, <1>2, <1>3

(* The slots seen from the first counter and from the one after it.        *)
LEMMA SlotAfterFirst ==
  ASSUME NEW n \in Nat \ {0}, NEW w \in Nat \ {0}, Divides(n, w),
         NEW b \in 0..w - 1, NEW k \in Int
  PROVE  Slot(Advance(b, w) + k, n) = Slot(b + (k + 1), n)
  <1>1. b + 1 \in Int
    OBVIOUS
  <1>2. PICK c \in Int : c = Advance(b, w)
    BY AdvanceIs
  <1>3. (c + k) % n = ((c % n) + k) % n
    BY ModSum, Zenon
  <1>4. c % n = (b + 1) % n
    <2>1. Slot((b + 1) % w, n) = Slot(b + 1, n)
      BY <1>1, SlotWrap
    <2>. QED BY <1>2, <2>1 DEF Advance, Slot
  <1>5. (((b + 1) % n) + k) % n = ((b + 1) + k) % n
    BY <1>1, ModSum, Zenon
  <1>6. (b + 1) + k = b + (k + 1)
    OBVIOUS
  <1>. QED BY <1>2, <1>3, <1>4, <1>5, <1>6 DEF Slot

(* What a content is, element by element.                                  *)
Describes(s, ring, n, w, first, last, V) ==
    /\ s \in Seq(V)
    /\ Len(s) = Distance(last, first, w)
    /\ \A k \in 1..Len(s) : s[k] = ring[Slot(first + k - 1, n)]

(* Content is a sequence of values with the elements of the ring.          *)
LEMMA ContentIs ==
  ASSUME NEW n \in Nat \ {0}, NEW w \in Nat \ {0}, NEW V,
         NEW ring \in [0..n - 1 -> V], NEW a \in 0..w - 1, NEW b \in 0..w - 1
  PROVE  Describes(Content(ring, n, w, b, a), ring, n, w, b, a, V)
  <1>1. PICK d \in Nat : d = Distance(a, b, w)
    BY DistanceIs
  <1>2. ASSUME NEW k \in 1..d PROVE ring[Slot(b + k - 1, n)] \in V
    <2>1. b + k - 1 \in Int
      OBVIOUS
    <2>. QED BY <2>1, SlotType
  <1>3. Content(ring, n, w, b, a) = [k \in 1..d |-> ring[Slot(b + k - 1, n)]]
    BY <1>1 DEF Content
  <1>4. [k \in 1..d |-> ring[Slot(b + k - 1, n)]] \in [1..d -> V]
    BY <1>2, Zenon
  <1>5. PICK f \in [1..d -> V] : f = [k \in 1..d |-> ring[Slot(b + k - 1, n)]]
    BY <1>4, Zenon
  <1>6. f \in Seq(V) /\ Len(f) = d
    OBVIOUS
  <1>. QED BY <1>1, <1>3, <1>5, <1>6 DEF Describes

(* What storing a value and what reading one should do to the content, and *)
(* that storing a value in the slot of counter x leaves the content alone. *)
Puts(ring, n, w, b, a, v) ==
    Content([ring EXCEPT ![Slot(a, n)] = v], n, w, b, Advance(a, w)) =
    Append(Content(ring, n, w, b, a), v)
Gets(ring, n, w, b, a) ==
    /\ Content(ring, n, w, b, a) # <<>>
    /\ Head(Content(ring, n, w, b, a)) = ring[Slot(b, n)]
    /\ Content(ring, n, w, Advance(b, w), a) = Tail(Content(ring, n, w, b, a))
Keeps(ring, n, w, x, b, a, v) ==
    Content([ring EXCEPT ![Slot(x, n)] = v], n, w, b, a) = Content(ring, n, w, b, a)

(* Storing a value in the slot of the last counter and advancing that      *)
(* counter appends the value to the content and disturbs nothing else, as  *)
(* long as the ring is not full: ring[a++ % n] = v.                        *)
THEOREM ContentPut ==
  ASSUME NEW n \in Nat \ {0}, NEW w \in Nat \ {0}, Divides(n, w), NEW V, NEW v \in V,
         NEW ring \in [0..n - 1 -> V], NEW a \in 0..w - 1, NEW b \in 0..w - 1,
         Distance(a, b, w) < n, Distance(a, b, w) + 1 < w
  PROVE  Puts(ring, n, w, b, a, v)
  <1>1. PICK d \in Nat : d = Distance(a, b, w) /\ d < n /\ d + 1 < w
    BY DistanceIs, SMTT(30)
  <1>2. PICK r \in [0..n - 1 -> V] : r = [ring EXCEPT ![Slot(a, n)] = v]
    BY Zenon
  <1>3. PICK c \in 0..w - 1 : c = Advance(a, w)
    BY AdvanceIs, Zenon
  <1>4. Distance(c, b, w) = d + 1
    BY <1>1, <1>3, DistancePut
  <1>5. Slot(b + d, n) = Slot(a, n) /\ Slot(a, n) \in 0..n - 1
    <2>1. a \in Int
      OBVIOUS
    <2>2. Slot(b + Distance(a, b, w), n) = Slot(a, n)
      BY SlotOfLast
    <2>. QED BY <1>1, <2>1, <2>2, SlotType
  <1>6. PICK s \in Seq(V) : s = Content(ring, n, w, b, a) /\ Len(s) = d
                            /\ \A k \in 1..d : s[k] = ring[Slot(b + k - 1, n)]
    <2>1. Describes(Content(ring, n, w, b, a), ring, n, w, b, a, V)
      BY ContentIs
    <2>. QED BY <1>1, <2>1 DEF Describes
  <1>7. PICK t \in Seq(V) : t = Content(r, n, w, b, c) /\ Len(t) = d + 1
                            /\ \A k \in 1..d + 1 : t[k] = r[Slot(b + k - 1, n)]
    <2>1. Describes(Content(r, n, w, b, c), r, n, w, b, c, V)
      BY ContentIs
    <2>. QED BY <1>4, <2>1 DEF Describes
  <1>8. PICK u \in Seq(V) : u = Append(s, v) /\ Len(u) = d + 1 /\ u[d + 1] = v
                            /\ \A k \in 1..d : u[k] = s[k]
    <2>1. /\ Append(s, v) \in Seq(V)
          /\ Len(Append(s, v)) = Len(s) + 1
          /\ \A k \in 1..Len(s) : Append(s, v)[k] = s[k]
          /\ Append(s, v)[Len(s) + 1] = v
      BY AppendIs
    <2>. QED BY <1>6, <2>1, Zenon
  <1>9. ASSUME NEW k \in 1..d PROVE t[k] = s[k]
    <2>1. b + (k - 1) = b + k - 1 /\ k - 1 \in Int /\ b \in Int /\ d \in Int
          /\ b + (k - 1) \in Int
      OBVIOUS
    <2>2. (k - 1) - d < n /\ d - (k - 1) < n /\ k - 1 # d
      BY <1>1, SMTT(30)
    <2>3. Slot(b + (k - 1), n) # Slot(b + d, n)
      BY <2>1, <2>2, SlotInj, Zenon
    <2>4. Slot(b + (k - 1), n) \in 0..n - 1
      BY <2>1, SlotType, Zenon
    <2>5. r[Slot(b + k - 1, n)] = ring[Slot(b + k - 1, n)]
      BY <1>2, <1>5, <2>1, <2>3, <2>4
    <2>. QED BY <1>6, <1>7, <2>5
  <1>10. t[d + 1] = v
    <2>1. b + (d + 1) - 1 = b + d /\ d + 1 \in 1..d + 1
      OBVIOUS
    <2>2. t[d + 1] = r[Slot(b + d, n)]
      BY <1>7, <2>1
    <2>. QED BY <1>2, <1>5, <2>2
  <1>11. \A k \in 1..Len(t) : t[k] = u[k]
    BY <1>7, <1>8, <1>9, <1>10
  <1>12. t = u
    BY <1>7, <1>8, <1>11, SameSeq
  <1>. QED BY <1>2, <1>3, <1>6, <1>7, <1>8, <1>12, Zenon DEF Puts

(* Reading the slot of the first counter and advancing that counter takes  *)
(* the first value off the content: v = ring[b++ % n].                     *)
THEOREM ContentGet ==
  ASSUME NEW n \in Nat \ {0}, NEW w \in Nat \ {0}, Divides(n, w), NEW V,
         NEW ring \in [0..n - 1 -> V], NEW a \in 0..w - 1, NEW b \in 0..w - 1, a # b
  PROVE  Gets(ring, n, w, b, a)
  <1>1. PICK d \in Nat : d = Distance(a, b, w) /\ d >= 1
    <2>1. Distance(a, b, w) \in 1..w - 1
      BY DistanceGet
    <2>. QED BY <2>1
  <1>2. PICK c \in 0..w - 1 : c = Advance(b, w)
    BY AdvanceIs
  <1>3. Distance(a, c, w) = d - 1
    BY <1>1, <1>2, DistanceGet
  <1>4. PICK s \in Seq(V) : s = Content(ring, n, w, b, a) /\ Len(s) = d
                            /\ \A k \in 1..d : s[k] = ring[Slot(b + k - 1, n)]
    <2>1. Describes(Content(ring, n, w, b, a), ring, n, w, b, a, V)
      BY ContentIs
    <2>. QED BY <1>1, <2>1 DEF Describes
  <1>5. PICK t \in Seq(V) : t = Content(ring, n, w, c, a) /\ Len(t) = d - 1
                            /\ \A k \in 1..d - 1 : t[k] = ring[Slot(c + k - 1, n)]
    <2>1. Describes(Content(ring, n, w, c, a), ring, n, w, c, a, V)
      BY ContentIs
    <2>. QED BY <1>3, <2>1 DEF Describes
  <1>6. s # <<>>
    BY <1>1, <1>4
  <1>7. PICK u \in Seq(V) : u = Tail(s) /\ Len(u) = d - 1
                            /\ \A k \in 1..d - 1 : u[k] = s[k + 1]
    <2>1. /\ Tail(s) \in Seq(V) /\ Len(Tail(s)) = Len(s) - 1
          /\ \A k \in 1..Len(s) - 1 : Tail(s)[k] = s[k + 1]
      BY <1>6, TailIs, Zenon
    <2>. QED BY <1>4, <2>1, Zenon
  <1>8. ASSUME NEW k \in 1..d - 1 PROVE t[k] = u[k]
    <2>1. PICK j \in Int : j = k - 1
      OBVIOUS
    <2>2. Slot(c + j, n) = Slot(b + (j + 1), n)
      BY <1>2, SlotAfterFirst, Zenon
    <2>3. c + j = c + k - 1 /\ b + (j + 1) = b + (k + 1) - 1 /\ k + 1 \in 1..d
      BY <2>1
    <2>4. s[k + 1] = ring[Slot(b + (j + 1), n)]
      BY <1>4, <2>3, Zenon
    <2>5. t[k] = ring[Slot(c + j, n)]
      BY <1>5, <2>3, Zenon
    <2>. QED BY <1>7, <2>2, <2>4, <2>5
  <1>9. t = u
    <2>1. Len(t) = Len(u) /\ \A k \in 1..Len(t) : t[k] = u[k]
      BY <1>5, <1>7, <1>8
    <2>. QED BY <2>1, SameSeq
  <1>10. Head(s) = ring[Slot(b, n)]
    <2>1. b + 1 - 1 = b /\ 1 \in 1..d
      BY <1>1
    <2>. QED BY <1>4, <2>1
  <1>. QED BY <1>2, <1>4, <1>5, <1>6, <1>7, <1>9, <1>10, Zenon DEF Gets

-----------------------------------------------------------------------------
(* The values in a ring, and that each is there once.                      *)
Elements(s, d) == {s[k] : k \in 1..d}
AllDifferent(s, d) == \A j, k \in 1..d : s[j] = s[k] => j = k
Held(ring, n, w, first, last) ==
    Elements(Content(ring, n, w, first, last), Distance(last, first, w))
Distinct(ring, n, w, first, last) ==
    AllDifferent(Content(ring, n, w, first, last), Distance(last, first, w))

(* Writing to the slot after the content leaves the content alone.         *)
LEMMA ContentFrame ==
  ASSUME NEW n \in Nat \ {0}, NEW w \in Nat \ {0}, Divides(n, w), NEW V, NEW v \in V,
         NEW ring \in [0..n - 1 -> V], NEW a \in 0..w - 1, NEW b \in 0..w - 1,
         Distance(a, b, w) < n
  PROVE  Keeps(ring, n, w, a, b, a, v)
  <1>1. PICK d \in Nat : d = Distance(a, b, w) /\ d < n
    BY DistanceIs, SMTT(30)
  <1>2. PICK r \in [0..n - 1 -> V] : r = [ring EXCEPT ![Slot(a, n)] = v]
    BY Zenon
  <1>3. Slot(b + d, n) = Slot(a, n)
    BY <1>1, SlotOfLast, Zenon
  <1>4. ASSUME NEW k \in 1..d PROVE r[Slot(b + k - 1, n)] = ring[Slot(b + k - 1, n)]
    <2>1. b + (k - 1) = b + k - 1 /\ k - 1 \in Int /\ b \in Int /\ d \in Int
          /\ b + (k - 1) \in Int
      OBVIOUS
    <2>2. (k - 1) - d < n /\ d - (k - 1) < n /\ k - 1 # d
      BY <1>1
    <2>3. Slot(b + (k - 1), n) # Slot(b + d, n)
      BY <2>1, <2>2, SlotInj, Zenon
    <2>4. Slot(b + (k - 1), n) \in 0..n - 1
      BY <2>1, SlotType, Zenon
    <2>. QED BY <1>2, <1>3, <2>1, <2>3, <2>4
  <1>5. Content(r, n, w, b, a) = [k \in 1..d |-> r[Slot(b + k - 1, n)]]
    BY <1>1 DEF Content
  <1>6. Content(ring, n, w, b, a) = [k \in 1..d |-> ring[Slot(b + k - 1, n)]]
    BY <1>1 DEF Content
  <1>7. Content(r, n, w, b, a) = Content(ring, n, w, b, a)
    BY <1>4, <1>5, <1>6, Zenon
  <1>. QED BY <1>2, <1>7, Zenon DEF Keeps

(* Writing to the slot of the first element is safe once that element has  *)
(* been taken.                                                             *)
LEMMA ContentClear ==
  ASSUME NEW n \in Nat \ {0}, NEW w \in Nat \ {0}, Divides(n, w), NEW V, NEW v \in V,
         NEW ring \in [0..n - 1 -> V], NEW a \in 0..w - 1, NEW b \in 0..w - 1,
         a # b, Distance(a, b, w) <= n
  PROVE  Keeps(ring, n, w, b, Advance(b, w), a, v)
  <1>1. PICK d \in Nat : d = Distance(a, b, w) /\ d >= 1 /\ d <= n
    <2>1. Distance(a, b, w) \in 1..w - 1
      BY DistanceGet
    <2>. QED BY <2>1
  <1>2. PICK r \in [0..n - 1 -> V] : r = [ring EXCEPT ![Slot(b, n)] = v]
    BY Zenon
  <1>3. PICK c \in 0..w - 1 : c = Advance(b, w)
    BY AdvanceIs, Zenon
  <1>4. Distance(a, c, w) = d - 1
    BY <1>1, <1>3, DistanceGet
  <1>5. ASSUME NEW k \in 1..d - 1 PROVE r[Slot(c + k - 1, n)] = ring[Slot(c + k - 1, n)]
    <2>1. PICK j \in Int : j = k - 1
      OBVIOUS
    <2>2. Slot(c + j, n) = Slot(b + (j + 1), n)
      BY <1>3, SlotAfterFirst
    <2>3. /\ c + j = c + k - 1 /\ j + 1 \in Int /\ b + (j + 1) \in Int /\ b \in Int
          /\ 0 \in Int /\ b + 0 = b /\ j + 1 # 0
          /\ (j + 1) - 0 < n /\ 0 - (j + 1) < n
      BY <1>1, <2>1
    <2>4. Slot(b + (j + 1), n) # Slot(b + 0, n)
      BY <2>3, SlotInj, Zenon
    <2>5. Slot(b + (j + 1), n) \in 0..n - 1
      BY <2>3, SlotType, Zenon
    <2>. QED BY <1>2, <2>2, <2>3, <2>4, <2>5
  <1>6. Content(r, n, w, c, a) = [k \in 1..d - 1 |-> r[Slot(c + k - 1, n)]]
    BY <1>4 DEF Content
  <1>7. Content(ring, n, w, c, a) = [k \in 1..d - 1 |-> ring[Slot(c + k - 1, n)]]
    BY <1>4 DEF Content
  <1>8. Content(r, n, w, c, a) = Content(ring, n, w, c, a)
    BY <1>5, <1>6, <1>7, Zenon
  <1>. QED BY <1>2, <1>3, <1>8, Zenon DEF Keeps

(* The same three effects, on what is held.                                *)
HeldAdds(ring, n, w, b, a, v) ==
    /\ Held([ring EXCEPT ![Slot(a, n)] = v], n, w, b, Advance(a, w)) =
       Held(ring, n, w, b, a) \cup {v}
    /\ Distinct([ring EXCEPT ![Slot(a, n)] = v], n, w, b, Advance(a, w))
HeldLoses(ring, n, w, b, a, v) ==
    /\ ring[Slot(b, n)] \in Held(ring, n, w, b, a)
    /\ Held([ring EXCEPT ![Slot(b, n)] = v], n, w, Advance(b, w), a) =
       Held(ring, n, w, b, a) \ {ring[Slot(b, n)]}
    /\ Distinct([ring EXCEPT ![Slot(b, n)] = v], n, w, Advance(b, w), a)
HeldKeeps(ring, n, w, b, a, v) ==
    /\ Held([ring EXCEPT ![Slot(a, n)] = v], n, w, b, a) = Held(ring, n, w, b, a)
    /\ Distinct(ring, n, w, b, a) => Distinct([ring EXCEPT ![Slot(a, n)] = v], n, w, b, a)

(* A write to the slot after the content changes neither what the ring     *)
(* holds nor that it is distinct.                                          *)
LEMMA HeldFrame ==
  ASSUME NEW n \in Nat \ {0}, NEW w \in Nat \ {0}, Divides(n, w), NEW V, NEW v \in V,
         NEW ring \in [0..n - 1 -> V], NEW a \in 0..w - 1, NEW b \in 0..w - 1,
         Distance(a, b, w) < n
  PROVE  HeldKeeps(ring, n, w, b, a, v)
  <1>1. Keeps(ring, n, w, a, b, a, v)
    BY ContentFrame, Zenon
  <1>. QED BY <1>1, Zenon DEF Keeps, Held, Distinct, HeldKeeps

(* t is s with v at its end; t is s without its first element.             *)
Appends(t, s, d, v) == (\A k \in 1..d : t[k] = s[k]) /\ t[d + 1] = v
Shifts(t, s, d) == \A k \in 1..d - 1 : t[k] = s[k + 1]

(* The elements of a list of distinct values with one more at its end.     *)
LEMMA Appended ==
  ASSUME NEW d \in Nat, NEW s, NEW t, NEW v,
         Appends(t, s, d, v), AllDifferent(s, d), v \notin Elements(s, d)
  PROVE  Elements(t, d + 1) = Elements(s, d) \cup {v} /\ AllDifferent(t, d + 1)
  <1>1. /\ \A k \in 1..d + 1 : k \in 1..d \/ k = d + 1
        /\ \A k \in 1..d : k \in 1..d + 1
        /\ d + 1 \in 1..d + 1
    OBVIOUS
  <1>. USE DEF Appends, AllDifferent, Elements
  <1>2. AllDifferent(t, d + 1)
    BY <1>1
  <1>3. ASSUME NEW k \in 1..d + 1 PROVE t[k] \in Elements(s, d) \cup {v}
    BY <1>1
  <1>4. ASSUME NEW k \in 1..d PROVE s[k] \in Elements(t, d + 1)
    BY <1>1
  <1>5. v \in Elements(t, d + 1)
    BY <1>1
  <1>. QED BY <1>2, <1>3, <1>4, <1>5

(* The elements of a list of distinct values without its first.            *)
LEMMA Shifted ==
  ASSUME NEW d \in Nat, d >= 1, NEW s, NEW t, Shifts(t, s, d), AllDifferent(s, d)
  PROVE  /\ s[1] \in Elements(s, d)
         /\ Elements(t, d - 1) = Elements(s, d) \ {s[1]}
         /\ AllDifferent(t, d - 1)
  <1>1. /\ \A k \in 1..d - 1 : k + 1 \in 1..d /\ k + 1 # 1
        /\ \A j, k \in 1..d - 1 : j + 1 = k + 1 => j = k
        /\ \A k \in 1..d : k = 1 \/ (k - 1 \in 1..d - 1 /\ (k - 1) + 1 = k)
        /\ 1 \in 1..d
    OBVIOUS
  <1>. USE DEF Shifts, AllDifferent, Elements
  <1>2. AllDifferent(t, d - 1)
    BY <1>1
  <1>3. ASSUME NEW k \in 1..d - 1 PROVE t[k] \in Elements(s, d) /\ t[k] # s[1]
    BY <1>1
  <1>4. ASSUME NEW k \in 1..d, s[k] # s[1] PROVE s[k] \in Elements(t, d - 1)
    <2>1. PICK i \in 1..d - 1 : i + 1 = k
      BY <1>1, <1>4
    <2>2. t[i] = s[k]
      BY <2>1
    <2>. QED BY <2>2
  <1>5. s[1] \in Elements(s, d)
    BY <1>1
  <1>. QED BY <1>2, <1>3, <1>4, <1>5

(* Advancing over a slot whose value is new adds the value.                *)
LEMMA HeldPut ==
  ASSUME NEW n \in Nat \ {0}, NEW w \in Nat \ {0}, Divides(n, w), NEW V, NEW v \in V,
         NEW ring \in [0..n - 1 -> V], NEW a \in 0..w - 1, NEW b \in 0..w - 1,
         Distance(a, b, w) < n, Distance(a, b, w) + 1 < w,
         Distinct(ring, n, w, b, a), v \notin Held(ring, n, w, b, a)
  PROVE  HeldAdds(ring, n, w, b, a, v)
  <1>1. PICK d \in Nat : d = Distance(a, b, w)
    BY DistanceIs
  <1>2. Distance(Advance(a, w), b, w) = d + 1
    BY <1>1, DistancePut
  <1>3. PICK s \in Seq(V) : s = Content(ring, n, w, b, a) /\ Len(s) = d
    <2>1. Describes(Content(ring, n, w, b, a), ring, n, w, b, a, V)
      BY ContentIs
    <2>. QED BY <1>1, <2>1 DEF Describes
  <1>4. PICK t : t = Content([ring EXCEPT ![Slot(a, n)] = v], n, w, b, Advance(a, w))
    BY Zenon
  <1>5. Appends(t, s, d, v)
    <2>1. t = Append(s, v)
      <3>1. Puts(ring, n, w, b, a, v)
        BY ContentPut, Zenon
      <3>. QED BY <1>3, <1>4, <3>1, Zenon DEF Puts
    <2>2. /\ \A k \in 1..Len(s) : Append(s, v)[k] = s[k]
          /\ Append(s, v)[Len(s) + 1] = v
      BY AppendIs
    <2>. QED BY <1>3, <2>1, <2>2, Zenon DEF Appends
  <1>6. AllDifferent(s, d) /\ v \notin Elements(s, d)
    BY <1>1, <1>3, Zenon DEF Held, Distinct
  <1>7. Elements(t, d + 1) = Elements(s, d) \cup {v} /\ AllDifferent(t, d + 1)
    BY <1>5, <1>6, Appended, Zenon
  <1>. QED BY <1>1, <1>2, <1>3, <1>4, <1>7, Zenon DEF HeldAdds, Held, Distinct

(* Taking the first value and clearing its slot removes that value.        *)
LEMMA HeldTake ==
  ASSUME NEW n \in Nat \ {0}, NEW w \in Nat \ {0}, Divides(n, w), NEW V, NEW v \in V,
         NEW ring \in [0..n - 1 -> V], NEW a \in 0..w - 1, NEW b \in 0..w - 1,
         a # b, Distance(a, b, w) <= n, Distinct(ring, n, w, b, a)
  PROVE  HeldLoses(ring, n, w, b, a, v)
  <1>1. PICK d \in Nat : d = Distance(a, b, w) /\ d >= 1
    <2>1. Distance(a, b, w) \in 1..w - 1
      BY DistanceGet
    <2>. QED BY <2>1
  <1>2. Distance(a, Advance(b, w), w) = d - 1
    BY <1>1, DistanceGet
  <1>3. PICK s \in Seq(V) : s = Content(ring, n, w, b, a) /\ Len(s) = d
    <2>1. Describes(Content(ring, n, w, b, a), ring, n, w, b, a, V)
      BY ContentIs
    <2>. QED BY <1>1, <2>1 DEF Describes
  <1>4. s # <<>> /\ Head(s) = ring[Slot(b, n)]
        /\ Content(ring, n, w, Advance(b, w), a) = Tail(s)
    <2>1. Gets(ring, n, w, b, a)
      BY ContentGet, Zenon
    <2>. QED BY <1>3, <2>1, Zenon DEF Gets
  <1>5. PICK t : t = Content([ring EXCEPT ![Slot(b, n)] = v], n, w, Advance(b, w), a)
    BY Zenon
  <1>6. Shifts(t, s, d)
    <2>1. t = Tail(s)
      <3>1. Keeps(ring, n, w, b, Advance(b, w), a, v)
        BY ContentClear, Zenon
      <3>. QED BY <1>4, <1>5, <3>1, Zenon DEF Keeps
    <2>2. \A k \in 1..Len(s) - 1 : Tail(s)[k] = s[k + 1]
      BY <1>4, TailIs
    <2>. QED BY <1>3, <2>1, <2>2, Zenon DEF Shifts
  <1>7. s[1] = ring[Slot(b, n)]
    BY <1>3, <1>4
  <1>8. AllDifferent(s, d)
    BY <1>1, <1>3, Zenon DEF Distinct
  <1>9. /\ s[1] \in Elements(s, d)
        /\ Elements(t, d - 1) = Elements(s, d) \ {s[1]}
        /\ AllDifferent(t, d - 1)
    BY <1>1, <1>6, <1>8, Shifted, Zenon
  <1>. QED BY <1>1, <1>2, <1>3, <1>5, <1>7, <1>9, Zenon DEF HeldLoses, Held, Distinct

-----------------------------------------------------------------------------
(* Rings with a third counter between the first and the last.              *)

(* The slots seen from the middle counter and from the first; that two     *)
(* rings have the same content; that a content is made of two parts; that  *)
(* the content of one ring is the beginning of the other's.                *)
Seen(n, u, r, w, j) == Slot(w + j, n) = Slot(r + (Distance(w, r, u) + j), n)
Same(other, ring, n, u, b, a) == Content(other, n, u, b, a) = Content(ring, n, u, b, a)
Joins(ring, n, u, r, w, e) ==
    Content(ring, n, u, r, e) = Content(ring, n, u, r, w) \o Content(ring, n, u, w, e)
Begins(other, ring, n, u, b, c, a, d) ==
    Content(other, n, u, b, c) = SubSeq(Content(ring, n, u, b, a), 1, d)

(* A slot after the middle counter, counted from the first.                *)
LEMMA SlotFrom ==
  ASSUME NEW n \in Nat \ {0}, NEW u \in Nat \ {0}, Divides(n, u),
         NEW r \in 0..u - 1, NEW w \in 0..u - 1, NEW j \in Int
  PROVE  Seen(n, u, r, w, j)
  <1>1. PICK d \in Int : d = Distance(w, r, u)
    BY DistanceIs
  <1>2. Slot(r + d, n) = Slot(w, n)
    BY <1>1, SlotOfLast, Zenon
  <1>3. w \in Int /\ r + d \in Int /\ (r + d) + j = r + (d + j)
    OBVIOUS
  <1>4. ((w % n) + j) % n = (w + j) % n
    BY <1>3, ModSum, Zenon
  <1>5. (((r + d) % n) + j) % n = ((r + d) + j) % n
    BY <1>3, ModSum, Zenon
  <1>. QED BY <1>1, <1>2, <1>3, <1>4, <1>5, Zenon DEF Slot, Seen

(* The counter k before the last one, and its slot.                        *)
Before(u, a, b, k) ==
    /\ Distance(a, k, u) \in 0..u - 1
    /\ Distance(Distance(a, k, u), b, u) = Distance(a, b, u) - k
SlotBefore(n, u, a, b, k) == Slot(Distance(a, k, u), n) = Slot(b + (Distance(a, b, u) - k), n)

(* Stepping back from the last counter.                                    *)
LEMMA DistanceBack ==
  ASSUME NEW u \in Nat \ {0}, NEW a \in 0..u - 1, NEW b \in 0..u - 1,
         NEW k \in 0..Distance(a, b, u)
  PROVE  Before(u, a, b, k)
  <1>1. PICK d \in 0..u - 1 : /\ d = Distance(a, b, u)
                              /\ b <= a => d = a - b
                              /\ a < b => d = a - b + u
    <2>1. /\ Distance(a, b, u) \in 0..u - 1
          /\ b <= a => Distance(a, b, u) = a - b
          /\ a < b => Distance(a, b, u) = a - b + u
      BY DistanceIs, Zenon
    <2>. QED BY <2>1, Zenon
  <1>2. k \in 0..u - 1 /\ k <= d
    BY <1>1
  <1>3. PICK c \in 0..u - 1 : /\ c = Distance(a, k, u)
                              /\ k <= a => c = a - k
                              /\ a < k => c = a - k + u
    <2>1. /\ Distance(a, k, u) \in 0..u - 1
          /\ k <= a => Distance(a, k, u) = a - k
          /\ a < k => Distance(a, k, u) = a - k + u
      BY <1>2, DistanceIs, Zenon
    <2>. QED BY <2>1, Zenon
  <1>4. /\ b <= c => Distance(c, b, u) = c - b
        /\ c < b => Distance(c, b, u) = c - b + u
    BY DistanceIs, Zenon
  <1>5. Distance(c, b, u) = d - k
    BY <1>1, <1>2, <1>3, <1>4
  <1>. QED BY <1>1, <1>3, <1>5, Zenon DEF Before

(* The slot that is k before the last counter.                             *)
LEMMA SlotBack ==
  ASSUME NEW n \in Nat \ {0}, NEW u \in Nat \ {0}, Divides(n, u),
         NEW a \in 0..u - 1, NEW b \in 0..u - 1, NEW k \in Int
  PROVE  SlotBefore(n, u, a, b, k)
  <1>1. PICK d \in Int : d = Distance(a, b, u)
    BY DistanceIs
  <1>2. a - k \in Int /\ a - k = a + (-k) /\ -k \in Int /\ d + (-k) = d - k
    OBVIOUS
  <1>3. Slot((a - k) % u, n) = Slot(a - k, n)
    BY <1>2, SlotWrap, Zenon
  <1>4. Slot(a + (-k), n) = Slot(b + (d + (-k)), n)
    <2>1. Seen(n, u, b, a, -k)
      BY <1>2, SlotFrom, Zenon
    <2>. QED BY <1>1, <2>1, Zenon DEF Seen
  <1>. QED BY <1>1, <1>2, <1>3, <1>4, Zenon DEF Distance, SlotBefore

(* Rings that agree on the slots of a content have the same content.       *)
LEMMA ContentSame ==
  ASSUME NEW n, NEW u, NEW a, NEW b, NEW ring, NEW other,
         \A k \in 1..Distance(a, b, u) : other[Slot(b + k - 1, n)] = ring[Slot(b + k - 1, n)]
  PROVE  Same(other, ring, n, u, b, a)
  BY Zenon DEF Content, Same

(* Between a counter and itself there is nothing.                          *)
LEMMA ContentNone ==
  ASSUME NEW n, NEW u \in Nat \ {0}, NEW b \in 0..u - 1, NEW ring
  PROVE  Content(ring, n, u, b, b) = <<>> /\ Distance(b, b, u) = 0
  <1>1. Distance(b, b, u) = 0
    BY DistanceIs
  <1>. QED BY <1>1 DEF Content

(* The content up to the last counter is the one up to the middle counter, *)
(* and after it the rest.                                                  *)
LEMMA ContentConcat ==
  ASSUME NEW n \in Nat \ {0}, NEW u \in Nat \ {0}, Divides(n, u), NEW V,
         NEW ring \in [0..n - 1 -> V], NEW r \in 0..u - 1, NEW w \in 0..u - 1,
         NEW e \in 0..u - 1, Distance(w, r, u) + Distance(e, w, u) = Distance(e, r, u)
  PROVE  Joins(ring, n, u, r, w, e)
  <1>1. PICK c \in Nat, d \in Nat : c = Distance(w, r, u) /\ d = Distance(e, w, u)
                                    /\ c + d = Distance(e, r, u)
    <2>1. Distance(w, r, u) \in 0..u - 1 /\ Distance(e, w, u) \in 0..u - 1
      BY DistanceIs, Zenon
    <2>2. 0..u - 1 \subseteq Nat
      OBVIOUS
    <2>. QED BY <2>1, <2>2, Zenon
  <1>2. PICK s \in Seq(V) : s = Content(ring, n, u, r, w) /\ Len(s) = c
                            /\ \A k \in 1..c : s[k] = ring[Slot(r + k - 1, n)]
    <2>1. Describes(Content(ring, n, u, r, w), ring, n, u, r, w, V)
      BY ContentIs, Zenon
    <2>2. Distance(w, r, u) = c
      BY <1>1, Zenon
    <2>. QED BY <2>1, <2>2, Zenon DEF Describes
  <1>3. PICK t \in Seq(V) : t = Content(ring, n, u, w, e) /\ Len(t) = d
                            /\ \A k \in 1..d : t[k] = ring[Slot(w + k - 1, n)]
    <2>1. Describes(Content(ring, n, u, w, e), ring, n, u, w, e, V)
      BY ContentIs, Zenon
    <2>2. Distance(e, w, u) = d
      BY <1>1, Zenon
    <2>. QED BY <2>1, <2>2, Zenon DEF Describes
  <1>4. PICK x \in Seq(V) : x = Content(ring, n, u, r, e) /\ Len(x) = c + d
                            /\ \A k \in 1..c + d : x[k] = ring[Slot(r + k - 1, n)]
    <2>1. Describes(Content(ring, n, u, r, e), ring, n, u, r, e, V)
      BY ContentIs, Zenon
    <2>2. Distance(e, r, u) = c + d
      BY <1>1, Zenon
    <2>. QED BY <2>1, <2>2, Zenon DEF Describes
  <1>5. PICK y \in Seq(V) : y = s \o t /\ Len(y) = c + d
                            /\ (\A k \in 1..c : y[k] = s[k])
                            /\ \A k \in 1..d : y[c + k] = t[k]
    <2>1. /\ s \o t \in Seq(V) /\ Len(s \o t) = Len(s) + Len(t)
          /\ \A k \in 1..Len(s) : (s \o t)[k] = s[k]
          /\ \A k \in 1..Len(t) : (s \o t)[Len(s) + k] = t[k]
      OBVIOUS
    <2>2. Len(s) = c /\ Len(t) = d
      BY <1>2, <1>3, Zenon
    <2>. QED BY <2>1, <2>2, Zenon
  <1>6. ASSUME NEW k \in 1..d PROVE x[c + k] = y[c + k]
    <2>1. k - 1 \in Int /\ w + (k - 1) = w + k - 1 /\ c + k \in 1..c + d
          /\ r + (c + (k - 1)) = r + (c + k) - 1
      OBVIOUS
    <2>2. Slot(w + (k - 1), n) = Slot(r + (c + (k - 1)), n)
      <3>1. Seen(n, u, r, w, k - 1)
        BY <2>1, SlotFrom, Zenon
      <3>. QED BY <1>1, <3>1, Zenon DEF Seen
    <2>3. x[c + k] = ring[Slot(r + (c + k) - 1, n)]
      BY <1>4, <2>1, Zenon
    <2>4. y[c + k] = ring[Slot(w + k - 1, n)]
      BY <1>3, <1>5, Zenon
    <2>. QED BY <2>1, <2>2, <2>3, <2>4, Zenon
  <1>7. ASSUME NEW k \in 1..c PROVE x[k] = y[k]
    <2>1. k \in 1..c + d
      OBVIOUS
    <2>. QED BY <1>2, <1>4, <1>5, <2>1, Zenon
  <1>8. \A k \in 1..c + d : x[k] = y[k]
    <2>. TAKE k \in 1..c + d
    <2>1. CASE k \in 1..c
      BY <1>7, <2>1, Zenon
    <2>2. CASE k \notin 1..c
      <3>1. k - c \in 1..d /\ c + (k - c) = k
        BY <2>2
      <3>2. x[c + (k - c)] = y[c + (k - c)]
        BY <1>6, <3>1, Zenon
      <3>. QED BY <3>1, <3>2, Zenon
    <2>. QED BY <2>1, <2>2
  <1>9. x = y
    <2>1. Len(x) = Len(y) /\ \A k \in 1..Len(x) : x[k] = y[k]
      BY <1>4, <1>5, <1>8, Zenon
    <2>. QED BY <2>1, SameSeq, Zenon
  <1>. QED BY <1>2, <1>3, <1>4, <1>5, <1>9, Zenon DEF Joins

(* A ring that agrees on the beginning of the content, and a last counter  *)
(* that is nearer.                                                         *)
LEMMA ContentPrefix ==
  ASSUME NEW n \in Nat \ {0}, NEW u \in Nat \ {0}, NEW V, NEW ring \in [0..n - 1 -> V],
         NEW other \in [0..n - 1 -> V], NEW a \in 0..u - 1, NEW b \in 0..u - 1,
         NEW c \in 0..u - 1, NEW d \in Nat, d = Distance(c, b, u), d <= Distance(a, b, u),
         \A k \in 1..d : other[Slot(b + k - 1, n)] = ring[Slot(b + k - 1, n)]
  PROVE  Begins(other, ring, n, u, b, c, a, d)
  <1>1. PICK s \in Seq(V) : s = Content(ring, n, u, b, a) /\ Len(s) = Distance(a, b, u)
                            /\ \A k \in 1..Len(s) : s[k] = ring[Slot(b + k - 1, n)]
    <2>1. Describes(Content(ring, n, u, b, a), ring, n, u, b, a, V)
      BY ContentIs, Zenon
    <2>. QED BY <2>1, Zenon DEF Describes
  <1>2. PICK t \in Seq(V) : t = Content(other, n, u, b, c) /\ Len(t) = d
                            /\ \A k \in 1..d : t[k] = other[Slot(b + k - 1, n)]
    <2>1. Describes(Content(other, n, u, b, c), other, n, u, b, c, V)
      BY ContentIs, Zenon
    <2>. QED BY <2>1, Zenon DEF Describes
  <1>3. d \in 0..Len(s)
    BY <1>1
  <1>4. PICK x \in Seq(V) : x = SubSeq(s, 1, d) /\ Len(x) = d /\ \A k \in 1..d : x[k] = s[k]
    <2>1. /\ SubSeq(s, 1, d) \in Seq(V) /\ Len(SubSeq(s, 1, d)) = d
          /\ \A k \in 1..d : SubSeq(s, 1, d)[k] = s[k]
      BY <1>3
    <2>. QED BY <2>1, Zenon
  <1>5. \A k \in 1..d : k \in 1..Len(s)
    BY <1>3
  <1>6. t = x
    <2>1. \A k \in 1..Len(t) : t[k] = x[k]
      <3>. TAKE k \in 1..Len(t)
      <3>1. k \in 1..d /\ k \in 1..Len(s)
        BY <1>2, <1>5, Zenon
      <3>2. t[k] = other[Slot(b + k - 1, n)] /\ x[k] = s[k]
        BY <1>2, <1>4, <3>1, Zenon
      <3>3. s[k] = ring[Slot(b + k - 1, n)]
        BY <1>1, <3>1, Zenon
      <3>. QED BY <3>1, <3>2, <3>3, Zenon
    <2>2. Len(t) = Len(x)
      BY <1>2, <1>4, Zenon
    <2>. QED BY <2>1, <2>2, SameSeq, Zenon
  <1>. QED BY <1>1, <1>2, <1>4, <1>6, Zenon DEF Begins

(* Storing a value at the last counter: it is appended to what is after    *)
(* the middle counter, and what is before it stays.                        *)
LEMMA TypeAtEnd ==
  ASSUME NEW n \in Nat \ {0}, NEW u \in Nat \ {0}, Divides(n, u), n < u, NEW V, NEW v \in V,
         NEW ring \in [0..n - 1 -> V], NEW r \in 0..u - 1, NEW w \in 0..u - 1,
         NEW e \in 0..u - 1, Between3(n, u, r, w, e), Distance(e, r, u) < n,
         NEW f \in 0..u - 1, f = Advance(e, u),
         NEW other \in [0..n - 1 -> V], other = [ring EXCEPT ![Slot(e, n)] = v]
  PROVE  Types(ring, other, n, u, r, w, e, f, v)
  <1>1. PICK c \in Nat, d \in Nat : c = Distance(w, r, u) /\ d = Distance(e, w, u)
                                    /\ c + d = Distance(e, r, u)
    <2>1. Distance(w, r, u) \in 0..u - 1 /\ Distance(e, w, u) \in 0..u - 1
      BY DistanceIs, Zenon
    <2>2. 0..u - 1 \subseteq Nat
      OBVIOUS
    <2>. QED BY <2>1, <2>2, Zenon DEF Between3
  <1>2. c + d < n /\ c < n /\ d < n /\ c + d + 1 < u /\ d + 1 < u
    <2>1. c + d < n
      BY <1>1, Zenon
    <2>. QED BY <2>1
  <1>3. Distance(f, r, u) = c + d + 1
    BY <1>1, <1>2, DistancePut, Zenon
  <1>4. Distance(f, w, u) = d + 1
    BY <1>1, <1>2, DistancePut, Zenon
  <1>5. Between3(n, u, r, w, f)
    <2>1. c + (d + 1) = c + d + 1 /\ c + d + 1 <= n
      BY <1>2
    <2>. QED BY <1>1, <1>3, <1>4, <2>1, Zenon DEF Between3
  <1>6. Content(other, n, u, w, f) = Append(Content(ring, n, u, w, e), v)
    <2>1. Puts(ring, n, u, w, e, v)
      BY <1>1, <1>2, ContentPut, Zenon
    <2>. QED BY <2>1, Zenon DEF Puts
  <1>7. Content(other, n, u, r, w) = Content(ring, n, u, r, w)
    <2>1. Slot(r + (c + d), n) = Slot(e, n)
      <3>1. Slot(r + Distance(e, r, u), n) = Slot(e, n)
        BY SlotOfLast, Zenon
      <3>. QED BY <1>1, <3>1, Zenon
    <2>2. ASSUME NEW k \in 1..c
          PROVE  other[Slot(r + k - 1, n)] = ring[Slot(r + k - 1, n)]
      <3>1. r + (k - 1) = r + k - 1 /\ k - 1 \in Int /\ r \in Int /\ c + d \in Int
            /\ r + (k - 1) \in Int
        OBVIOUS
      <3>2. (k - 1) - (c + d) < n /\ (c + d) - (k - 1) < n /\ k - 1 # c + d
        BY <1>2
      <3>3. Slot(r + (k - 1), n) # Slot(r + (c + d), n)
        BY <3>1, <3>2, SlotInj, Zenon
      <3>4. Slot(r + (k - 1), n) \in 0..n - 1
        BY <3>1, SlotType, Zenon
      <3>. QED BY <2>1, <3>1, <3>3, <3>4, Zenon
    <2>3. \A k \in 1..Distance(w, r, u) : other[Slot(r + k - 1, n)] = ring[Slot(r + k - 1, n)]
      BY <1>1, <2>2, Zenon
    <2>9. Same(other, ring, n, u, r, w)
      BY <2>3, ContentSame, Zenon
    <2>. QED BY <2>9, Zenon DEF Same
  <1>8. Distance(f, r, u) = Distance(e, r, u) + 1
    BY <1>1, <1>3, Zenon
  <1>. QED BY <1>5, <1>6, <1>7, <1>8, Zenon DEF Types

(* Moving the middle counter up to the last hands over everything.         *)
LEMMA CommitAll ==
  ASSUME NEW n \in Nat \ {0}, NEW u \in Nat \ {0}, Divides(n, u), NEW V,
         NEW ring \in [0..n - 1 -> V], NEW r \in 0..u - 1, NEW w \in 0..u - 1,
         NEW e \in 0..u - 1, Between3(n, u, r, w, e)
  PROVE  Commits(ring, n, u, r, w, e)
  <1>1. Content(ring, n, u, e, e) = <<>> /\ Distance(e, e, u) = 0
    BY ContentNone, Zenon
  <1>2. Distance(e, r, u) + 0 = Distance(e, r, u)
    BY DistanceIs
  <1>3. Between3(n, u, r, e, e)
    BY <1>1, <1>2, Zenon DEF Between3
  <1>4. Content(ring, n, u, r, e) = Content(ring, n, u, r, w) \o Content(ring, n, u, w, e)
    <2>1. Distance(w, r, u) + Distance(e, w, u) = Distance(e, r, u)
      BY Zenon DEF Between3
    <2>2. Joins(ring, n, u, r, w, e)
      BY <2>1, ContentConcat, Zenon
    <2>. QED BY <2>2, Zenon DEF Joins
  <1>. QED BY <1>1, <1>3, <1>4, Zenon DEF Commits

(* Taking the value at the first counter, and clearing its slot.           *)
LEMMA TakeFirst ==
  ASSUME NEW n \in Nat \ {0}, NEW u \in Nat \ {0}, Divides(n, u), NEW V, NEW v \in V,
         NEW ring \in [0..n - 1 -> V], NEW r \in 0..u - 1, NEW w \in 0..u - 1,
         NEW e \in 0..u - 1, Between3(n, u, r, w, e), r # w,
         NEW f \in 0..u - 1, f = Advance(r, u),
         NEW other \in [0..n - 1 -> V], other = [ring EXCEPT ![Slot(r, n)] = v]
  PROVE  Takes(ring, other, n, u, r, w, e, f)
  <1>1. PICK c \in Nat, d \in Nat : c = Distance(w, r, u) /\ d = Distance(e, w, u)
                                    /\ c + d = Distance(e, r, u)
    <2>1. Distance(w, r, u) \in 0..u - 1 /\ Distance(e, w, u) \in 0..u - 1
      BY DistanceIs, Zenon
    <2>2. 0..u - 1 \subseteq Nat
      OBVIOUS
    <2>. QED BY <2>1, <2>2, Zenon DEF Between3
  <1>a. c + d <= n
    BY <1>1, Zenon DEF Between3
  <1>2. c \in 1..u - 1 /\ Distance(w, f, u) = c - 1
    BY <1>1, DistanceGet, Zenon
  <1>3. e # r
    <2>1. SUFFICES ASSUME e = r PROVE FALSE
      OBVIOUS
    <2>2. Distance(r, r, u) = 0
      BY DistanceIs
    <2>. QED BY <1>1, <1>2, <2>1, <2>2
  <1>4. Distance(e, f, u) = (c + d) - 1
    <2>1. Distance(e, f, u) = Distance(e, r, u) - 1
      BY <1>3, DistanceGet, Zenon
    <2>. QED BY <1>1, <2>1, Zenon
  <1>5. Between3(n, u, f, w, e) /\ Distance(e, f, u) < n
    <2>1. (c - 1) + d = (c + d) - 1 /\ (c + d) - 1 <= n /\ (c + d) - 1 < n
      BY <1>a
    <2>. QED BY <1>1, <1>2, <1>4, <2>1, Zenon DEF Between3
  <1>6. /\ Content(ring, n, u, r, w) # <<>>
        /\ Head(Content(ring, n, u, r, w)) = ring[Slot(r, n)]
        /\ Content(other, n, u, f, w) = Tail(Content(ring, n, u, r, w))
    <2>1. Gets(ring, n, u, r, w)
      BY ContentGet, Zenon
    <2>2. Distance(w, r, u) <= n
      <3>1. c <= n
        BY <1>a
      <3>. QED BY <1>1, <3>1, Zenon
    <2>3. Keeps(ring, n, u, r, Advance(r, u), w, v)
      BY <2>2, ContentClear, Zenon
    <2>. QED BY <2>1, <2>3, Zenon DEF Gets, Keeps
  <1>7. Content(other, n, u, w, e) = Content(ring, n, u, w, e)
    <2>1. ASSUME NEW k \in 1..d
          PROVE  other[Slot(w + k - 1, n)] = ring[Slot(w + k - 1, n)]
      <3>1. /\ w + (k - 1) = w + k - 1 /\ k - 1 \in Int /\ r \in Int /\ c + (k - 1) \in Int
            /\ 0 \in Int /\ r + (c + (k - 1)) \in Int /\ r + 0 = r
        OBVIOUS
      <3>2. (c + (k - 1)) - 0 < n /\ 0 - (c + (k - 1)) < n /\ c + (k - 1) # 0
        <4>1. c >= 1
          BY <1>2
        <4>. QED BY <1>a, <4>1
      <3>3. Slot(r + (c + (k - 1)), n) # Slot(r + 0, n)
        BY <3>1, <3>2, SlotInj, Zenon
      <3>4. Slot(r + (c + (k - 1)), n) \in 0..n - 1
        BY <3>1, SlotType, Zenon
      <3>5. Slot(w + (k - 1), n) = Slot(r + (c + (k - 1)), n)
        <4>1. Seen(n, u, r, w, k - 1)
          BY <3>1, SlotFrom, Zenon
        <4>. QED BY <1>1, <4>1, Zenon DEF Seen
      <3>. QED BY <3>1, <3>3, <3>4, <3>5, Zenon
    <2>2. \A k \in 1..Distance(e, w, u) : other[Slot(w + k - 1, n)] = ring[Slot(w + k - 1, n)]
      BY <1>1, <2>1, Zenon
    <2>9. Same(other, ring, n, u, w, e)
      BY <2>2, ContentSame, Zenon
    <2>. QED BY <2>9, Zenon DEF Same
  <1>. QED BY <1>5, <1>6, <1>7, Zenon DEF Takes

(* Moving the last counter back by k, and clearing the slots it leaves.    *)
LEMMA EraseEnd ==
  ASSUME NEW n \in Nat \ {0}, NEW u \in Nat \ {0}, Divides(n, u), NEW V, NEW v \in V,
         NEW ring \in [0..n - 1 -> V], NEW r \in 0..u - 1, NEW w \in 0..u - 1,
         NEW e \in 0..u - 1, Between3(n, u, r, w, e), NEW k \in 0..Distance(e, w, u),
         NEW f \in 0..u - 1, f = Distance(e, k, u),
         NEW other \in [0..n - 1 -> V],
         \A j \in 0..n - 1 : (\A m \in 1..k : j # Slot(Distance(e, m, u), n)) => other[j] = ring[j]
  PROVE  Erases(ring, other, n, u, r, w, e, f, k)
  <1>1. PICK c \in Nat, d \in Nat : c = Distance(w, r, u) /\ d = Distance(e, w, u)
                                    /\ c + d = Distance(e, r, u)
    <2>1. Distance(w, r, u) \in 0..u - 1 /\ Distance(e, w, u) \in 0..u - 1
      BY DistanceIs, Zenon
    <2>2. 0..u - 1 \subseteq Nat
      OBVIOUS
    <2>. QED BY <2>1, <2>2, Zenon DEF Between3
  <1>a. c + d <= n
    BY <1>1, Zenon DEF Between3
  <1>2. k \in Nat /\ k <= d /\ k \in 0..c + d /\ d - k \in Nat /\ d - k <= d
    <2>1. k \in 0..d
      BY <1>1, Zenon
    <2>. QED BY <2>1
  <1>3. Distance(f, w, u) = d - k
    <2>1. Before(u, e, w, k)
      BY DistanceBack, Zenon
    <2>. QED BY <1>1, <2>1, Zenon DEF Before
  <1>4. Distance(f, r, u) = (c + d) - k
    <2>1. k \in 0..Distance(e, r, u)
      BY <1>1, <1>2, Zenon
    <2>2. Distance(f, r, u) = Distance(e, r, u) - k
      <3>1. Before(u, e, r, k)
        BY <2>1, DistanceBack, Zenon
      <3>. QED BY <3>1, Zenon DEF Before
    <2>. QED BY <1>1, <2>2, Zenon
  <1>5. Between3(n, u, r, w, f) /\ Distance(f, r, u) <= Distance(e, r, u)
    <2>1. c + (d - k) = (c + d) - k /\ (c + d) - k <= n /\ (c + d) - k <= c + d
      BY <1>a, <1>2
    <2>. QED BY <1>1, <1>3, <1>4, <2>1, Zenon DEF Between3
  <1>6. ASSUME NEW i \in 0..c + (d - k) - 1
        PROVE  other[Slot(r + i, n)] = ring[Slot(r + i, n)]
    <2>1. i \in Int /\ r \in Int /\ r + i \in Int
      OBVIOUS
    <2>2. Slot(r + i, n) \in 0..n - 1
      BY <2>1, SlotType, Zenon
    <2>3. ASSUME NEW m \in 1..k PROVE Slot(r + i, n) # Slot(Distance(e, m, u), n)
      <3>1. m \in Int /\ (c + d) - m \in Int
        OBVIOUS
      <3>2. i - ((c + d) - m) < n /\ ((c + d) - m) - i < n /\ i # (c + d) - m
        BY <1>a, <1>2
      <3>3. Slot(r + i, n) # Slot(r + ((c + d) - m), n)
        BY <2>1, <3>1, <3>2, SlotInj, Zenon
      <3>4. Slot(Distance(e, m, u), n) = Slot(r + ((c + d) - m), n)
        <4>1. Slot(Distance(e, m, u), n) = Slot(r + (Distance(e, r, u) - m), n)
          <5>1. SlotBefore(n, u, e, r, m)
            BY <3>1, SlotBack, Zenon
          <5>. QED BY <5>1, Zenon DEF SlotBefore
        <4>. QED BY <1>1, <4>1, Zenon
      <3>. QED BY <3>3, <3>4, Zenon
    <2>. QED BY <2>2, <2>3, Zenon
  <1>7. Content(other, n, u, r, w) = Content(ring, n, u, r, w)
    <2>1. ASSUME NEW j \in 1..c
          PROVE  other[Slot(r + j - 1, n)] = ring[Slot(r + j - 1, n)]
      <3>1. j - 1 \in 0..c + (d - k) - 1 /\ r + (j - 1) = r + j - 1
        BY <1>2
      <3>. QED BY <1>6, <3>1, Zenon
    <2>2. \A j \in 1..Distance(w, r, u) : other[Slot(r + j - 1, n)] = ring[Slot(r + j - 1, n)]
      BY <1>1, <2>1, Zenon
    <2>9. Same(other, ring, n, u, r, w)
      BY <2>2, ContentSame, Zenon
    <2>. QED BY <2>9, Zenon DEF Same
  <1>8. Content(other, n, u, w, f) = SubSeq(Content(ring, n, u, w, e), 1, d - k)
    <2>1. ASSUME NEW j \in 1..d - k
          PROVE  other[Slot(w + j - 1, n)] = ring[Slot(w + j - 1, n)]
      <3>1. /\ w + (j - 1) = w + j - 1 /\ j - 1 \in Int
            /\ c + (j - 1) \in 0..c + (d - k) - 1
        BY <1>2
      <3>2. Slot(w + (j - 1), n) = Slot(r + (c + (j - 1)), n)
        <4>1. Seen(n, u, r, w, j - 1)
          BY <3>1, SlotFrom, Zenon
        <4>. QED BY <1>1, <4>1, Zenon DEF Seen
      <3>. QED BY <1>6, <3>1, <3>2, Zenon
    <2>2. d - k <= Distance(e, w, u)
      BY <1>1, <1>2, Zenon
    <2>3. Begins(other, ring, n, u, w, f, e, d - k)
      BY <1>2, <1>3, <2>1, <2>2, ContentPrefix, Zenon
    <2>. QED BY <2>3, Zenon DEF Begins
  <1>9. d - k = Distance(e, w, u) - k
    BY <1>1, Zenon
  <1>. QED BY <1>5, <1>7, <1>8, <1>9, Zenon DEF Erases

(* The value k before the last counter is the k-th last of the content.    *)
Last(ring, n, u, b, a, k) ==
    ring[Slot(Distance(a, k, u), n)] = Content(ring, n, u, b, a)[Distance(a, b, u) - k + 1]

(* Reading a ring backwards from its last counter.                         *)
LEMMA LastIs ==
  ASSUME NEW n \in Nat \ {0}, NEW u \in Nat \ {0}, Divides(n, u), NEW V, NEW ring \in [0..n - 1 -> V],
         NEW a \in 0..u - 1, NEW b \in 0..u - 1, NEW k \in 1..Distance(a, b, u)
  PROVE  Last(ring, n, u, b, a, k)
  <1>1. PICK d \in Nat : d = Distance(a, b, u)
    BY DistanceIs
  <1>2. PICK j \in 1..d : j = d - k + 1 /\ j = Distance(a, b, u) - k + 1 /\ b + j - 1 = b + (Distance(a, b, u) - k)
    <2>1. k \in 1..d
      BY <1>1, Zenon
    <2>2. d - k + 1 \in 1..d /\ b + (d - k + 1) - 1 = b + (d - k)
      BY <2>1
    <2>. QED BY <1>1, <2>2, Zenon
  <1>3. Describes(Content(ring, n, u, b, a), ring, n, u, b, a, V)
    BY ContentIs, Zenon
  <1>4. j \in 1..Len(Content(ring, n, u, b, a))
    BY <1>1, <1>3, Zenon DEF Describes
  <1>5. Content(ring, n, u, b, a)[j] = ring[Slot(b + j - 1, n)]
    BY <1>3, <1>4, Zenon DEF Describes
  <1>6. Slot(Distance(a, k, u), n) = Slot(b + (Distance(a, b, u) - k), n)
    <2>1. k \in Int
      OBVIOUS
    <2>2. SlotBefore(n, u, a, b, k)
      BY <2>1, SlotBack, Zenon
    <2>. QED BY <2>2, Zenon DEF SlotBefore
  <1>. QED BY <1>2, <1>5, <1>6, Zenon DEF Last

-----------------------------------------------------------------------------
(* The characters of one writer in a queue.                                *)

(* What appending x does to the characters of p, and what taking the first *)
(* one off does.                                                           *)
Adds(s, x, p) ==
    /\ x[1] # p => Numbers(Append(s, x), p) = Numbers(s, p)
    /\ x[1] = p => Numbers(Append(s, x), p) = Numbers(s, p) \cup {x[2]}
    /\ InOrder(s, p) /\ (x[1] = p => \A y \in Numbers(s, p) : y < x[2])
       => InOrder(Append(s, x), p)
Removes(s, p) ==
    /\ Head(s)[1] # p => Numbers(Tail(s), p) = Numbers(s, p)
    /\ Head(s)[1] = p => Numbers(s, p) = Numbers(Tail(s), p) \cup {Head(s)[2]}
    /\ InOrder(s, p) => /\ InOrder(Tail(s), p)
                        /\ Head(s)[1] = p => \A y \in Numbers(Tail(s), p) : Head(s)[2] < y

(* Appending a character to a queue.                                       *)
LEMMA NumbersPut ==
  ASSUME NEW S, NEW s \in Seq(S), NEW x \in S, NEW p
  PROVE  Adds(s, x, p)
  <1>1. PICK t \in Seq(S) : t = Append(s, x) /\ Len(t) = Len(s) + 1 /\ t[Len(s) + 1] = x
                            /\ \A k \in 1..Len(s) : t[k] = s[k]
    <2>1. /\ Append(s, x) \in Seq(S) /\ Len(Append(s, x)) = Len(s) + 1
          /\ \A k \in 1..Len(s) : Append(s, x)[k] = s[k]
          /\ Append(s, x)[Len(s) + 1] = x
      BY AppendIs
    <2>. QED BY <2>1, Zenon
  <1>2. DOMAIN s = 1..Len(s) /\ DOMAIN t = 1..Len(s) + 1 /\ Len(s) \in Nat
    BY <1>1
  <1>3. /\ 1..Len(s) + 1 = (1..Len(s)) \cup {Len(s) + 1}
        /\ \A k \in 1..Len(s) : k < Len(s) + 1 /\ ~(Len(s) + 1 < k)
        /\ ~(Len(s) + 1 < Len(s) + 1)
    BY <1>2
  <1>4. PICK d : d = Len(s) + 1
    OBVIOUS
  <1>5. /\ DOMAIN t = DOMAIN s \cup {d} /\ t[d] = x /\ \A k \in DOMAIN s : t[k] = s[k]
        /\ (\A k \in DOMAIN s : k < d /\ ~(d < k)) /\ ~(d < d)
    BY <1>1, <1>2, <1>3, <1>4, Zenon
  <1>6. ASSUME NEW y \in Numbers(s, p) PROVE y \in Numbers(t, p)
    <2>1. PICK k \in DOMAIN s : s[k][1] = p /\ y = s[k][2]
      BY <1>6, Zenon DEF Numbers
    <2>2. k \in DOMAIN t /\ t[k] = s[k]
      BY <1>5, Zenon
    <2>. QED BY <2>1, <2>2, Zenon DEF Numbers
  <1>7. ASSUME NEW y \in Numbers(t, p) PROVE y \in Numbers(s, p) \/ (x[1] = p /\ y = x[2])
    <2>1. PICK k \in DOMAIN t : t[k][1] = p /\ y = t[k][2]
      BY <1>7, Zenon DEF Numbers
    <2>2. CASE k = d
      BY <1>5, <2>1, <2>2, Zenon
    <2>3. CASE k # d
      <3>1. k \in DOMAIN s /\ t[k] = s[k]
        BY <1>5, <2>3, Zenon
      <3>. QED BY <2>1, <3>1, Zenon DEF Numbers
    <2>. QED BY <2>2, <2>3, Zenon
  <1>8. x[1] = p => x[2] \in Numbers(t, p)
    <2>1. d \in DOMAIN t /\ t[d] = x
      BY <1>5, Zenon
    <2>. QED BY <2>1, Zenon DEF Numbers
  <1>9. ASSUME InOrder(s, p), x[1] = p => \A y \in Numbers(s, p) : y < x[2] PROVE InOrder(t, p)
    <2>. SUFFICES ASSUME NEW j \in DOMAIN t, NEW k \in DOMAIN t, j < k, t[j][1] = p, t[k][1] = p
                  PROVE  t[j][2] < t[k][2]
      BY Zenon DEF InOrder
    <2>1. j \in DOMAIN s /\ t[j] = s[j]
      BY <1>5, Zenon
    <2>2. CASE k = d
      <3>1. t[j][2] \in Numbers(s, p)
        BY <2>1, Zenon DEF Numbers
      <3>. QED BY <1>5, <1>9, <2>2, <3>1, Zenon
    <2>3. CASE k # d
      <3>1. k \in DOMAIN s /\ t[k] = s[k]
        BY <1>5, <2>3, Zenon
      <3>. QED BY <1>9, <2>1, <3>1, Zenon DEF InOrder
    <2>. QED BY <2>2, <2>3, Zenon
  <1>10. (x[1] # p => Numbers(t, p) = Numbers(s, p))
         /\ (x[1] = p => Numbers(t, p) = Numbers(s, p) \cup {x[2]})
    BY <1>6, <1>7, <1>8, Zenon
  <1>. QED BY <1>1, <1>9, <1>10, Zenon DEF Adds

(* Taking the first character off a queue.                                 *)
LEMMA NumbersGet ==
  ASSUME NEW S, NEW s \in Seq(S), s # <<>>, NEW p
  PROVE  Removes(s, p)
  <1>1. PICK t \in Seq(S) : t = Tail(s) /\ Len(t) = Len(s) - 1
                            /\ \A k \in 1..Len(s) - 1 : t[k] = s[k + 1]
    <2>1. /\ Tail(s) \in Seq(S) /\ Len(Tail(s)) = Len(s) - 1
          /\ \A k \in 1..Len(s) - 1 : Tail(s)[k] = s[k + 1]
      BY TailIs, Zenon
    <2>. QED BY <2>1, Zenon
  <1>2. DOMAIN s = 1..Len(s) /\ DOMAIN t = 1..Len(s) - 1 /\ Len(s) \in Nat \ {0}
        /\ Head(s) = s[1]
    BY <1>1
  <1>3. /\ \A k \in DOMAIN t : k + 1 \in DOMAIN s /\ t[k] = s[k + 1] /\ 1 < k + 1
        /\ \A j, k \in DOMAIN t : j < k => j + 1 < k + 1
        /\ \A k \in DOMAIN s : k = 1 \/ \E j \in DOMAIN t : k = j + 1
        /\ 1 \in DOMAIN s
    <2>1. \A k \in DOMAIN t : k + 1 \in DOMAIN s /\ t[k] = s[k + 1] /\ 1 < k + 1
      BY <1>1, <1>2
    <2>2. \A j, k \in DOMAIN t : j < k => j + 1 < k + 1
      BY <1>2
    <2>3. ASSUME NEW k \in DOMAIN s, k # 1 PROVE \E j \in DOMAIN t : k = j + 1
      <3>1. k - 1 \in DOMAIN t /\ k = (k - 1) + 1
        BY <1>2, <2>3
      <3>. QED BY <3>1, Zenon
    <2>4. 1 \in DOMAIN s
      BY <1>2
    <2>. QED BY <2>1, <2>2, <2>3, <2>4, Zenon
  <1>4. PICK h : h = Head(s) /\ h = s[1]
    BY <1>2, Zenon
  <1>5. h[1] # p => Numbers(t, p) = Numbers(s, p)
    <2>1. ASSUME NEW y \in Numbers(t, p) PROVE y \in Numbers(s, p)
      <3>1. PICK k \in DOMAIN t : t[k][1] = p /\ y = t[k][2]
        BY <2>1, Zenon DEF Numbers
      <3>. QED BY <1>3, <3>1, Zenon DEF Numbers
    <2>2. ASSUME NEW y \in Numbers(s, p), h[1] # p PROVE y \in Numbers(t, p)
      <3>1. PICK k \in DOMAIN s : s[k][1] = p /\ y = s[k][2]
        BY <2>2, Zenon DEF Numbers
      <3>2. PICK j \in DOMAIN t : k = j + 1
        BY <1>3, <1>4, <2>2, <3>1, Zenon
      <3>. QED BY <1>3, <3>1, <3>2, Zenon DEF Numbers
    <2>. QED BY <2>1, <2>2, Zenon
  <1>6. h[1] = p => Numbers(s, p) = Numbers(t, p) \cup {h[2]}
    <2>1. ASSUME NEW y \in Numbers(t, p) PROVE y \in Numbers(s, p)
      <3>1. PICK k \in DOMAIN t : t[k][1] = p /\ y = t[k][2]
        BY <2>1, Zenon DEF Numbers
      <3>. QED BY <1>3, <3>1, Zenon DEF Numbers
    <2>2. ASSUME NEW y \in Numbers(s, p) PROVE y \in Numbers(t, p) \cup {h[2]}
      <3>1. PICK k \in DOMAIN s : s[k][1] = p /\ y = s[k][2]
        BY <2>2, Zenon DEF Numbers
      <3>2. CASE k = 1
        BY <1>4, <3>1, <3>2, Zenon
      <3>3. CASE k # 1
        <4>1. PICK j \in DOMAIN t : k = j + 1
          BY <1>3, <3>3, Zenon
        <4>. QED BY <1>3, <3>1, <4>1, Zenon DEF Numbers
      <3>. QED BY <3>2, <3>3, Zenon
    <2>3. h[1] = p => h[2] \in Numbers(s, p)
      BY <1>3, <1>4, Zenon DEF Numbers
    <2>. QED BY <2>1, <2>2, <2>3, Zenon
  <1>7. ASSUME InOrder(s, p) PROVE InOrder(t, p)
    <2>. SUFFICES ASSUME NEW j \in DOMAIN t, NEW k \in DOMAIN t, j < k, t[j][1] = p, t[k][1] = p
                  PROVE  t[j][2] < t[k][2]
      BY Zenon DEF InOrder
    <2>1. /\ j + 1 \in DOMAIN s /\ k + 1 \in DOMAIN s /\ j + 1 < k + 1
          /\ t[j] = s[j + 1] /\ t[k] = s[k + 1]
      BY <1>3, Zenon
    <2>. QED BY <1>7, <2>1, Zenon DEF InOrder
  <1>8. ASSUME InOrder(s, p), h[1] = p, NEW y \in Numbers(t, p) PROVE h[2] < y
    <2>1. PICK k \in DOMAIN t : t[k][1] = p /\ y = t[k][2]
      BY <1>8, Zenon DEF Numbers
    <2>2. k + 1 \in DOMAIN s /\ 1 \in DOMAIN s /\ 1 < k + 1 /\ t[k] = s[k + 1]
      BY <1>3, Zenon
    <2>. QED BY <1>4, <1>8, <2>1, <2>2, Zenon DEF InOrder
  <1>. QED BY <1>1, <1>4, <1>5, <1>6, <1>7, <1>8, Zenon DEF Removes

(* One queue after another.                                                *)
LEMMA NumbersJoin ==
  ASSUME NEW S, NEW s \in Seq(S), NEW t \in Seq(S), NEW p
  PROVE  /\ Numbers(s \o t, p) = Numbers(s, p) \cup Numbers(t, p)
         /\ InOrder(s, p) /\ InOrder(t, p)
            /\ (\A x \in Numbers(s, p), y \in Numbers(t, p) : x < y) => InOrder(s \o t, p)
  <1>1. PICK u \in Seq(S) : u = s \o t /\ Len(u) = Len(s) + Len(t)
                            /\ (\A k \in 1..Len(s) : u[k] = s[k])
                            /\ \A k \in 1..Len(t) : u[Len(s) + k] = t[k]
    <2>1. /\ s \o t \in Seq(S) /\ Len(s \o t) = Len(s) + Len(t)
          /\ \A k \in 1..Len(s) : (s \o t)[k] = s[k]
          /\ \A k \in 1..Len(t) : (s \o t)[Len(s) + k] = t[k]
      OBVIOUS
    <2>. QED BY <2>1, Zenon
  <1>2. PICK d \in Nat : d = Len(s)
    OBVIOUS
  <1>3. DOMAIN s = 1..d /\ DOMAIN t = 1..Len(t) /\ DOMAIN u = 1..d + Len(t) /\ Len(t) \in Nat
    BY <1>1, <1>2
  <1>4. /\ \A k \in DOMAIN s : k \in DOMAIN u /\ u[k] = s[k]
        /\ \A k \in DOMAIN t : d + k \in DOMAIN u /\ u[d + k] = t[k]
    <2>1. ASSUME NEW k \in DOMAIN s PROVE k \in DOMAIN u
      BY <1>3
    <2>2. ASSUME NEW k \in DOMAIN t PROVE d + k \in DOMAIN u
      BY <1>3
    <2>. QED BY <1>1, <1>2, <1>3, <2>1, <2>2, Zenon
  <1>5. \A k \in DOMAIN u : k \in DOMAIN s \/ \E j \in DOMAIN t : k = d + j
    <2>. SUFFICES ASSUME NEW k \in DOMAIN u, k \notin DOMAIN s
                  PROVE  \E j \in DOMAIN t : k = d + j
      BY Zenon
    <2>1. k - d \in DOMAIN t /\ k = d + (k - d)
      BY <1>3
    <2>. QED BY <2>1, Zenon
  <1>6. /\ \A j, k \in DOMAIN t : d + j < d + k => j < k
        /\ \A j \in DOMAIN s, k \in DOMAIN t : ~(d + k < j)
    BY <1>3
  <1>7. Numbers(u, p) = Numbers(s, p) \cup Numbers(t, p)
    <2>1. ASSUME NEW y \in Numbers(u, p) PROVE y \in Numbers(s, p) \cup Numbers(t, p)
      <3>1. PICK k \in DOMAIN u : u[k][1] = p /\ y = u[k][2]
        BY <2>1, Zenon DEF Numbers
      <3>2. CASE k \in DOMAIN s
        BY <1>4, <3>1, <3>2, Zenon DEF Numbers
      <3>3. CASE k \notin DOMAIN s
        <4>1. PICK j \in DOMAIN t : k = d + j
          BY <1>5, <3>3, Zenon
        <4>2. t[j][1] = p /\ y = t[j][2]
          BY <1>4, <3>1, <4>1, Zenon
        <4>. QED BY <4>2, Zenon DEF Numbers
      <3>. QED BY <3>2, <3>3, Zenon
    <2>2. ASSUME NEW y \in Numbers(s, p) PROVE y \in Numbers(u, p)
      <3>1. PICK k \in DOMAIN s : s[k][1] = p /\ y = s[k][2]
        BY <2>2, Zenon DEF Numbers
      <3>. QED BY <1>4, <3>1, Zenon DEF Numbers
    <2>3. ASSUME NEW y \in Numbers(t, p) PROVE y \in Numbers(u, p)
      <3>1. PICK k \in DOMAIN t : t[k][1] = p /\ y = t[k][2]
        BY <2>3, Zenon DEF Numbers
      <3>2. d + k \in DOMAIN u /\ u[d + k] = t[k]
        BY <1>4, Zenon
      <3>. QED BY <3>1, <3>2, Zenon DEF Numbers
    <2>. QED BY <2>1, <2>2, <2>3, Zenon
  <1>8. ASSUME InOrder(s, p), InOrder(t, p), \A x \in Numbers(s, p), y \in Numbers(t, p) : x < y
        PROVE  InOrder(u, p)
    <2>. SUFFICES ASSUME NEW j \in DOMAIN u, NEW k \in DOMAIN u, j < k, u[j][1] = p, u[k][1] = p
                  PROVE  u[j][2] < u[k][2]
      BY Zenon DEF InOrder
    <2>1. CASE k \in DOMAIN s /\ j \in DOMAIN s
      BY <1>4, <1>8, <2>1, Zenon DEF InOrder
    <2>2. CASE k \in DOMAIN s /\ j \notin DOMAIN s
      <3>1. PICK i \in DOMAIN t : j = d + i
        BY <1>5, <2>2, Zenon
      <3>. QED BY <1>6, <2>2, <3>1, Zenon
    <2>3. CASE k \notin DOMAIN s
      <3>1. PICK m \in DOMAIN t : k = d + m
        BY <1>5, <2>3, Zenon
      <3>2. u[k] = t[m]
        BY <1>4, <3>1, Zenon
      <3>3. CASE j \in DOMAIN s
        <4>1. u[j] = s[j]
          BY <1>4, <3>3, Zenon
        <4>2. u[j][2] \in Numbers(s, p) /\ u[k][2] \in Numbers(t, p)
          BY <3>2, <3>3, <4>1, Zenon DEF Numbers
        <4>. QED BY <1>8, <4>2, Zenon
      <3>4. CASE j \notin DOMAIN s
        <4>1. PICK i \in DOMAIN t : j = d + i
          BY <1>5, <3>4, Zenon
        <4>2. u[j] = t[i] /\ i < m
          BY <1>4, <1>6, <3>1, <4>1, Zenon
        <4>. QED BY <1>8, <3>2, <4>2, Zenon DEF InOrder
      <3>. QED BY <3>3, <3>4, Zenon
    <2>. QED BY <2>1, <2>2, <2>3, Zenon
  <1>. QED BY <1>1, <1>7, <1>8, Zenon

(* The transmitter sends a character.                                      *)
LEMMA QueueSend ==
  ASSUME NEW S, NEW F \in Seq(S), F # <<>>, NEW R, NEW p, NEW a \in Nat, NEW w \in Int,
         Queue(F, R, p, a, w)
  PROVE  /\ Head(F)[1] = p => Queue(Tail(F), R, p, Head(F)[2], w)
         /\ Head(F)[1] # p => Queue(Tail(F), R, p, a, w)
  <1>1. PICK h, G : h = Head(F) /\ G = Tail(F)
    BY Zenon
  <1>2. /\ h[1] # p => Numbers(G, p) = Numbers(F, p)
        /\ h[1] = p => Numbers(F, p) = Numbers(G, p) \cup {h[2]}
        /\ InOrder(G, p)
        /\ h[1] = p => \A y \in Numbers(G, p) : h[2] < y
    <2>1. Removes(F, p)
      BY NumbersGet, Zenon
    <2>. QED BY <1>1, <2>1, Zenon DEF Queue, Removes
  <1>3. ASSUME h[1] # p PROVE Queue(G, R, p, a, w)
    BY <1>2, <1>3, Zenon DEF Queue
  <1>4. ASSUME h[1] = p PROVE Queue(G, R, p, h[2], w)
    <2>1. PICK N, M : N = Numbers(G, p) /\ M = Numbers(R, p)
      BY Zenon
    <2>2. PICK b : b = h[2]
      OBVIOUS
    <2>3. /\ N \cup {b} \cup M = a + 1..w /\ a <= w
          /\ \A y \in N : b < y
          /\ \A x \in N, y \in M : x < y
          /\ \A y \in M : b < y
      BY <1>2, <1>4, <2>1, <2>2, Zenon DEF Queue
    <2>4. b \in a + 1..w
      BY <2>3, Zenon
    <2>5. b = a + 1
      <3>1. a + 1 \in a + 1..w
        BY <2>4
      <3>2. a + 1 = b \/ b < a + 1
        BY <2>3, <3>1, Zenon
      <3>. QED BY <2>4, <3>2
    <2>6. N \cup M = b + 1..w
      <3>1. ASSUME NEW y \in N \cup M PROVE y \in b + 1..w
        <4>1. y \in a + 1..w /\ b < y
          BY <2>3, Zenon
        <4>. QED BY <2>4, <4>1
      <3>2. ASSUME NEW y \in b + 1..w PROVE y \in N \cup M
        <4>1. y \in a + 1..w /\ y # b
          BY <2>5
        <4>. QED BY <2>3, <4>1, Zenon
      <3>. QED BY <3>1, <3>2, Zenon
    <2>7. b <= w
      BY <2>4
    <2>. QED BY <1>2, <2>1, <2>2, <2>3, <2>6, <2>7, Zenon DEF Queue
  <1>. QED BY <1>1, <1>3, <1>4, Zenon

(* uartstart moves a character from the buffer to the transmitter.         *)
LEMMA QueueMove ==
  ASSUME NEW S, NEW F \in Seq(S), NEW R \in Seq(S), R # <<>>, NEW p, NEW a, NEW w,
         Queue(F, R, p, a, w)
  PROVE  Queue(Append(F, Head(R)), Tail(R), p, a, w)
  <1>1. PICK h, Q : h \in S /\ h = Head(R) /\ Q = Tail(R)
    <2>1. Head(R) \in S
      OBVIOUS
    <2>. QED BY <2>1, Zenon
  <1>2. /\ h[1] # p => Numbers(Q, p) = Numbers(R, p)
        /\ h[1] = p => Numbers(R, p) = Numbers(Q, p) \cup {h[2]}
        /\ InOrder(Q, p)
        /\ h[1] = p => \A y \in Numbers(Q, p) : h[2] < y
    <2>1. Removes(R, p)
      BY NumbersGet, Zenon
    <2>. QED BY <1>1, <2>1, Zenon DEF Queue, Removes
  <1>3. PICK G : G = Append(F, h)
    BY Zenon
  <1>4. /\ h[1] # p => Numbers(G, p) = Numbers(F, p)
        /\ h[1] = p => Numbers(G, p) = Numbers(F, p) \cup {h[2]}
        /\ InOrder(F, p) /\ (h[1] = p => \A y \in Numbers(F, p) : y < h[2]) => InOrder(G, p)
    <2>1. Adds(F, h, p)
      BY <1>1, NumbersPut, Zenon
    <2>. QED BY <1>3, <2>1, Zenon DEF Adds
  <1>5. CASE h[1] # p
    BY <1>1, <1>2, <1>3, <1>4, <1>5, Zenon DEF Queue
  <1>6. CASE h[1] = p
    <2>1. PICK N, M, K, L : N = Numbers(F, p) /\ M = Numbers(R, p) /\ K = Numbers(G, p)
                            /\ L = Numbers(Q, p)
      BY Zenon
    <2>2. /\ K = N \cup {h[2]} /\ M = L \cup {h[2]}
          /\ \A y \in L : h[2] < y
      BY <1>2, <1>4, <1>6, <2>1, Zenon
    <2>3. (\A x \in N, y \in M : x < y) /\ N \cup M = a + 1..w /\ a <= w
      BY <2>1, Zenon DEF Queue
    <2>4. K \cup L = a + 1..w /\ \A x \in K, y \in L : x < y
      BY <2>2, <2>3, Zenon
    <2>5. InOrder(G, p)
      BY <1>4, <1>6, <2>1, <2>2, <2>3, Zenon DEF Queue
    <2>. QED BY <1>1, <1>2, <1>3, <2>1, <2>3, <2>4, <2>5, Zenon DEF Queue
  <1>. QED BY <1>5, <1>6, Zenon

(* A character of somebody else.                                           *)
LEMMA QueueOther ==
  ASSUME NEW S, NEW F \in Seq(S), NEW R \in Seq(S), NEW p, NEW a, NEW w, Queue(F, R, p, a, w),
         NEW x \in S, x[1] # p
  PROVE  Queue(Append(F, x), R, p, a, w) /\ Queue(F, Append(R, x), p, a, w)
  <1>1. Numbers(Append(F, x), p) = Numbers(F, p) /\ InOrder(Append(F, x), p)
    <2>1. Adds(F, x, p)
      BY NumbersPut, Zenon
    <2>. QED BY <2>1, Zenon DEF Queue, Adds
  <1>2. Numbers(Append(R, x), p) = Numbers(R, p) /\ InOrder(Append(R, x), p)
    <2>1. Adds(R, x, p)
      BY NumbersPut, Zenon
    <2>. QED BY <2>1, Zenon DEF Queue, Adds
  <1>. QED BY <1>1, <1>2, Zenon DEF Queue

(* p puts its next character into the buffer.                              *)
LEMMA QueuePut ==
  ASSUME NEW S, NEW F \in Seq(S), NEW R \in Seq(S), NEW p, NEW a \in Nat, NEW w \in Int,
         Queue(F, R, p, a, w), NEW x \in S, x[1] = p, x[2] = w + 1
  PROVE  Queue(F, Append(R, x), p, a, w + 1)
  <1>1. PICK Q : Q = Append(R, x)
    BY Zenon
  <1>2. /\ Numbers(Q, p) = Numbers(R, p) \cup {w + 1}
        /\ InOrder(R, p) /\ (\A y \in Numbers(R, p) : y < w + 1) => InOrder(Q, p)
    <2>1. Adds(R, x, p)
      BY NumbersPut, Zenon
    <2>. QED BY <1>1, <2>1, Zenon DEF Adds
  <1>3. PICK N, M : N = Numbers(F, p) /\ M = Numbers(R, p)
    BY Zenon
  <1>4. (\A y \in N, z \in M : y < z) /\ N \cup M = a + 1..w /\ a <= w
    BY <1>3, Zenon DEF Queue
  <1>5. /\ \A y \in a + 1..w : y < w + 1
        /\ (a + 1..w) \cup {w + 1} = a + 1..w + 1 /\ a <= w + 1
    BY <1>4
  <1>6. (\A y \in N : y < w + 1) /\ (\A y \in M : y < w + 1)
    BY <1>4, <1>5, Zenon
  <1>7. N \cup (M \cup {w + 1}) = a + 1..w + 1
    BY <1>4, <1>5, Zenon
  <1>8. \A y \in N, z \in M \cup {w + 1} : y < z
    BY <1>4, <1>6, Zenon
  <1>9. InOrder(F, p) /\ InOrder(Q, p)
    BY <1>2, <1>3, <1>6, Zenon DEF Queue
  <1>. QED BY <1>1, <1>2, <1>3, <1>5, <1>7, <1>8, <1>9, Zenon DEF Queue

(* Counters stay counters.                                                 *)
LEMMA CounterFactsHold ==
  ASSUME NEW u \in Nat \ {0}
  PROVE  CounterFacts(u)
  <1>1. ASSUME NEW a \in 0..u - 1, NEW b \in 0..u - 1
        PROVE  /\ Advance(a, u) \in 0..u - 1 /\ Distance(a, a, u) = 0
               /\ Distance(a, b, u) \in Nat /\ Distance(a, b, u) < u
    <2>1. Advance(a, u) \in 0..u - 1 /\ Distance(a, b, u) \in 0..u - 1
      BY AdvanceIs, DistanceIs, Zenon
    <2>2. Distance(a, a, u) = 0
      BY ContentNone, Zenon
    <2>3. \A d \in 0..u - 1 : d \in Nat /\ d < u
      OBVIOUS
    <2>. QED BY <2>1, <2>2, <2>3, Zenon
  <1>. QED BY <1>1, Zenon DEF CounterFacts

(* A ring with two counters.                                               *)
LEMMA RingFactsHold ==
  ASSUME NEW n \in Nat \ {0}, NEW u \in Nat \ {0}, Divides(n, u), n < u, NEW V
  PROVE  RingFacts(n, u, V)
  <1>1. ASSUME NEW b \in [0..n - 1 -> V], NEW r \in 0..u - 1, NEW w \in 0..u - 1
        PROVE  Content(b, n, u, r, w) \in Seq(V)
    BY <1>1, ContentIs, Zenon DEF Describes
  <1>2. ASSUME NEW b \in [0..n - 1 -> V], NEW r \in 0..u - 1, NEW w \in 0..u - 1, NEW v \in V,
               Distance(w, r, u) < n
        PROVE  RingPuts(n, u, b, r, w, v)
    <2>1. Distance(w, r, u) + 1 < u
      <3>1. PICK d \in Nat : d = Distance(w, r, u)
        BY CounterFactsHold, Zenon DEF CounterFacts
      <3>2. d + 1 < u
        BY <1>2, <3>1
      <3>. QED BY <3>1, <3>2, Zenon
    <2>2. Puts(b, n, u, r, w, v)
      BY <1>2, <2>1, ContentPut, Zenon
    <2>3. Distance(Advance(w, u), r, u) = Distance(w, r, u) + 1
      BY <2>1, DistancePut, Zenon
    <2>. QED BY <2>2, <2>3, Zenon DEF Puts, RingPuts
  <1>3. ASSUME NEW b \in [0..n - 1 -> V], NEW r \in 0..u - 1, NEW w \in 0..u - 1, NEW v \in V,
               r # w, Distance(w, r, u) <= n
        PROVE  RingTakes(n, u, b, r, w, v)
    <2>1. Gets(b, n, u, r, w)
      BY <1>3, ContentGet, Zenon
    <2>2. Keeps(b, n, u, r, Advance(r, u), w, v)
      BY <1>3, ContentClear, Zenon
    <2>3. Distance(w, Advance(r, u), u) = Distance(w, r, u) - 1
      BY <1>3, DistanceGet, Zenon
    <2>. QED BY <2>1, <2>2, <2>3, Zenon DEF Gets, Keeps, RingTakes
  <1>. QED BY <1>1, <1>2, <1>3, Zenon DEF RingFacts

(* The queues of characters.                                               *)
LEMMA QueueFactsHold ==
  ASSUME NEW S, NEW W
  PROVE  QueueFacts(S, W)
  <1>1. ASSUME NEW F \in Seq(S), NEW R \in Seq(S), NEW p \in W,
               NEW a \in Nat, NEW w \in Int, Queue(F, R, p, a, w)
        PROVE  /\ F # <<>> => Sends(F, R, p, a, w)
               /\ \A x \in S : x[1] = p /\ x[2] = w + 1 => Queue(F, Append(R, x), p, a, w + 1)
    BY <1>1, QueueSend, QueuePut, Zenon DEF Sends
  <1>2. ASSUME NEW F \in Seq(S), NEW R \in Seq(S), NEW p \in W,
               NEW a, NEW w, Queue(F, R, p, a, w)
        PROVE  /\ Joined(F \o R, p, a, w)
               /\ R # <<>> => Queue(Append(F, Head(R)), Tail(R), p, a, w)
               /\ \A x \in S : x[1] # p =>
                    Queue(Append(F, x), R, p, a, w) /\ Queue(F, Append(R, x), p, a, w)
    <2>1. /\ Numbers(F \o R, p) = Numbers(F, p) \cup Numbers(R, p)
          /\ InOrder(F, p) /\ InOrder(R, p)
             /\ (\A x \in Numbers(F, p), y \in Numbers(R, p) : x < y) => InOrder(F \o R, p)
      BY NumbersJoin, Zenon
    <2>2. Joined(F \o R, p, a, w)
      BY <1>2, <2>1, Zenon DEF Queue, Joined
    <2>. QED BY <1>2, <2>2, QueueMove, QueueOther, Zenon
  <1>. QED BY <1>1, <1>2, Zenon DEF QueueFacts

(* A ring with three counters.                                             *)
LEMMA LineFactsHold ==
  ASSUME NEW n \in Nat \ {0}, NEW u \in Nat \ {0}, Divides(n, u), n < u, NEW V
  PROVE  LineFacts(n, u, V)
  <1>1. ASSUME NEW b \in [0..n - 1 -> V], NEW r \in 0..u - 1, NEW w \in 0..u - 1
        PROVE  Described(n, u, V, b, r, w)
    <2>1. Describes(Content(b, n, u, r, w), b, n, u, r, w, V)
      BY ContentIs, Zenon
    <2>. QED BY <2>1, Zenon DEF Describes, Described
  <1>2. ASSUME NEW b \in [0..n - 1 -> V], NEW w \in 0..u - 1, NEW e \in 0..u - 1, NEW k \in 1..Distance(e, w, u)
        PROVE  Backwards(n, u, b, w, e, k)
    <2>1. Last(b, n, u, w, e, k)
      BY LastIs, Zenon
    <2>. QED BY <2>1, Zenon DEF Last, Backwards
  <1>3. ASSUME NEW b \in [0..n - 1 -> V], NEW r \in 0..u - 1, NEW w \in 0..u - 1, NEW e \in 0..u - 1,
               Between3(n, u, r, w, e)
        PROVE  Commits(b, n, u, r, w, e)
    BY <1>3, CommitAll, Zenon
  <1>4. ASSUME NEW b \in [0..n - 1 -> V], NEW r \in 0..u - 1, NEW w \in 0..u - 1, NEW e \in 0..u - 1,
               Between3(n, u, r, w, e), NEW v \in V, Distance(e, r, u) < n
        PROVE  Typing(n, u, b, r, w, e, v)
    <2>1. PICK d \in [0..n - 1 -> V] : d = [b EXCEPT ![Slot(e, n)] = v]
      BY Zenon
    <2>2. PICK f \in 0..u - 1 : f = Advance(e, u)
      BY CounterFactsHold, Zenon DEF CounterFacts
    <2>3. Types(b, d, n, u, r, w, e, f, v)
      BY <1>4, <2>1, <2>2, TypeAtEnd, Zenon
    <2>. QED BY <2>1, <2>2, <2>3, Zenon DEF Typing
  <1>5. ASSUME NEW b \in [0..n - 1 -> V], NEW r \in 0..u - 1, NEW w \in 0..u - 1, NEW e \in 0..u - 1,
               Between3(n, u, r, w, e), NEW v \in V, r # w
        PROVE  Taking(n, u, b, r, w, e, v)
    <2>1. PICK d \in [0..n - 1 -> V] : d = [b EXCEPT ![Slot(r, n)] = v]
      BY Zenon
    <2>2. PICK f \in 0..u - 1 : f = Advance(r, u)
      BY CounterFactsHold, Zenon DEF CounterFacts
    <2>3. Takes(b, d, n, u, r, w, e, f)
      BY <1>5, <2>1, <2>2, TakeFirst, Zenon
    <2>. QED BY <2>1, <2>2, <2>3, Zenon DEF Taking
  <1>6. ASSUME NEW b \in [0..n - 1 -> V], NEW r \in 0..u - 1, NEW w \in 0..u - 1, NEW e \in 0..u - 1,
               Between3(n, u, r, w, e), NEW k \in 0..Distance(e, w, u), NEW d \in [0..n - 1 -> V],
               Without(n, u, b, d, e, k)
        PROVE  /\ Distance(e, k, u) \in 0..u - 1
               /\ Erases(b, d, n, u, r, w, e, Distance(e, k, u), k)
    <2>1. PICK f \in 0..u - 1 : f = Distance(e, k, u)
      <3>1. Before(u, e, w, k)
        BY DistanceBack, Zenon
      <3>. QED BY <3>1, Zenon DEF Before
    <2>2. \A j \in 0..n - 1 : (\A m \in 1..k : j # Slot(Distance(e, m, u), n)) => d[j] = b[j]
      BY <1>6, Zenon DEF Without
    <2>4. Erases(b, d, n, u, r, w, e, f, k)
      BY <1>6, <2>1, <2>2, EraseEnd, Zenon
    <2>. QED BY <2>1, <2>4, Zenon
  <1>7. ASSUME NEW b \in [0..n - 1 -> V], NEW r \in 0..u - 1, NEW w \in 0..u - 1,
               NEW e \in 0..u - 1, Between3(n, u, r, w, e)
        PROVE  \A k \in 0..Distance(e, w, u) : \A d \in [0..n - 1 -> V] :
                  Without(n, u, b, d, e, k) =>
                      /\ Distance(e, k, u) \in 0..u - 1
                      /\ Erases(b, d, n, u, r, w, e, Distance(e, k, u), k)
    BY <1>6, <1>7, Zenon
  <1>8. ASSUME NEW b \in [0..n - 1 -> V], NEW r \in 0..u - 1, NEW w \in 0..u - 1,
               NEW e \in 0..u - 1, Between3(n, u, r, w, e)
        PROVE  \A v \in V : /\ Distance(e, r, u) < n => Typing(n, u, b, r, w, e, v)
                            /\ r # w => Taking(n, u, b, r, w, e, v)
    BY <1>4, <1>5, <1>8, Zenon
  <1>9. ASSUME NEW b \in [0..n - 1 -> V], NEW r \in 0..u - 1, NEW w \in 0..u - 1, NEW e \in 0..u - 1
        PROVE  LineFact(n, u, V, b, r, w, e)
    <2>1. Described(n, u, V, b, r, w) /\ \A k \in 1..Distance(e, w, u) : Backwards(n, u, b, w, e, k)
      BY <1>1, <1>2, Zenon
    <2>. QED BY <1>3, <1>7, <1>8, <2>1, Zenon DEF LineFact
  <1>. QED BY <1>9, Zenon DEF LineFacts
=============================================================================
