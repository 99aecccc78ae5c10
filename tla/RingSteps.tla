----------------------------- MODULE RingSteps -----------------------------
(***************************************************************************)
(* What a step does to a ring of n slots and counters that wrap at u, and  *)
(* to the queues of numbered characters: the facts that proofs about such  *)
(* code use, named so that they can be cited.  RingTheorems proves them.   *)
(***************************************************************************)
EXTENDS Rings

(* A ring of n slots suits counters that wrap at w.                        *)
Divides(n, w) == w % n = 0

(* The first counter is at r, the last at e, and w is between them.        *)
Between3(n, u, r, w, e) ==
    /\ Distance(w, r, u) + Distance(e, w, u) = Distance(e, r, u)
    /\ Distance(e, r, u) <= n

(* What the steps of the console do to a ring with three counters: v is    *)
(* stored at the last counter, everything is handed over, the first value  *)
(* is taken, the last k values are erased.                                 *)
Types(ring, other, n, u, r, w, e, f, v) ==
    /\ Between3(n, u, r, w, f) /\ Distance(f, r, u) = Distance(e, r, u) + 1
    /\ Content(other, n, u, r, w) = Content(ring, n, u, r, w)
    /\ Content(other, n, u, w, f) = Append(Content(ring, n, u, w, e), v)
Commits(ring, n, u, r, w, e) ==
    /\ Between3(n, u, r, e, e)
    /\ Content(ring, n, u, r, e) = Content(ring, n, u, r, w) \o Content(ring, n, u, w, e)
    /\ Content(ring, n, u, e, e) = <<>> /\ Distance(e, e, u) = 0
Takes(ring, other, n, u, r, w, e, f) ==
    /\ Between3(n, u, f, w, e) /\ Distance(e, f, u) < n
    /\ Content(ring, n, u, r, w) # <<>>
    /\ Head(Content(ring, n, u, r, w)) = ring[Slot(r, n)]
    /\ Content(other, n, u, f, w) = Tail(Content(ring, n, u, r, w))
    /\ Content(other, n, u, w, e) = Content(ring, n, u, w, e)
Erases(ring, other, n, u, r, w, e, f, k) ==
    /\ Between3(n, u, r, w, f) /\ Distance(f, r, u) <= Distance(e, r, u)
    /\ Content(other, n, u, r, w) = Content(ring, n, u, r, w)
    /\ Content(other, n, u, w, f) = SubSeq(Content(ring, n, u, w, e), 1, Distance(e, w, u) - k)

(* F is the transmitter, R the buffer; a characters of p have been sent    *)
(* and w have been put.                                                    *)
Queue(F, R, p, a, w) ==
    /\ InOrder(F, p) /\ InOrder(R, p)
    /\ \A x \in Numbers(F, p), y \in Numbers(R, p) : x < y
    /\ Numbers(F, p) \cup Numbers(R, p) = a + 1..w
    /\ a <= w

(* Counters stay counters.                                                 *)
CounterFacts(u) == \A a, b \in 0..u - 1 :
    /\ Advance(a, u) \in 0..u - 1 /\ Distance(a, a, u) = 0
    /\ Distance(a, b, u) \in Nat /\ Distance(a, b, u) < u

(* A ring with two counters: storing a value at the last, and taking the   *)
(* first value and clearing its slot.                                      *)
RingPuts(n, u, b, r, w, v) ==
    /\ Content([b EXCEPT ![Slot(w, n)] = v], n, u, r, Advance(w, u)) =
            Append(Content(b, n, u, r, w), v)
    /\ Distance(Advance(w, u), r, u) = Distance(w, r, u) + 1
RingTakes(n, u, b, r, w, v) ==
    /\ Content(b, n, u, r, w) # <<>>
    /\ Head(Content(b, n, u, r, w)) = b[Slot(r, n)]
    /\ Content([b EXCEPT ![Slot(r, n)] = v], n, u, Advance(r, u), w) =
            Tail(Content(b, n, u, r, w))
    /\ Distance(w, Advance(r, u), u) = Distance(w, r, u) - 1
RingFacts(n, u, V) == \A b \in [0..n - 1 -> V] : \A r, w \in 0..u - 1 :
    /\ Content(b, n, u, r, w) \in Seq(V)
    /\ \A v \in V :
        /\ Distance(w, r, u) < n => RingPuts(n, u, b, r, w, v)
        /\ r # w /\ Distance(w, r, u) <= n => RingTakes(n, u, b, r, w, v)

(* The characters of one writer in the transmitter and the buffer.         *)
Sends(F, R, p, a, w) ==
    /\ Head(F)[1] = p => Queue(Tail(F), R, p, Head(F)[2], w)
    /\ Head(F)[1] # p => Queue(Tail(F), R, p, a, w)
Joined(s, p, a, w) == InOrder(s, p) /\ Numbers(s, p) = a + 1..w /\ a <= w
QueueFacts(S, W) == \A F, R \in Seq(S) : \A p \in W :
    /\ \A a \in Nat : \A w \in Int : Queue(F, R, p, a, w) =>
        /\ F # <<>> => Sends(F, R, p, a, w)
        /\ \A x \in S : x[1] = p /\ x[2] = w + 1 => Queue(F, Append(R, x), p, a, w + 1)
    /\ \A a, w : Queue(F, R, p, a, w) =>
        /\ Joined(F \o R, p, a, w)
        /\ R # <<>> => Queue(Append(F, Head(R)), Tail(R), p, a, w)
        /\ \A x \in S : x[1] # p =>
            Queue(Append(F, x), R, p, a, w) /\ Queue(F, Append(R, x), p, a, w)

(* A ring with three counters; the counters at its end, read backwards;    *)
(* that d differs from b in the last k slots only.                         *)
Described(n, u, V, b, r, w) ==
    /\ Content(b, n, u, r, w) \in Seq(V)
    /\ Len(Content(b, n, u, r, w)) = Distance(w, r, u)
Backwards(n, u, b, w, e, k) ==
    b[Slot(Distance(e, k, u), n)] =
        Content(b, n, u, w, e)[Distance(e, w, u) - k + 1]
Without(n, u, b, d, e, k) == \A j \in 0..n - 1 :
    (\A m \in 1..k : j # Slot(Distance(e, m, u), n)) => d[j] = b[j]
Typing(n, u, b, r, w, e, v) ==
    Types(b, [b EXCEPT ![Slot(e, n)] = v], n, u, r, w, e, Advance(e, u), v)
Taking(n, u, b, r, w, e, v) ==
    Takes(b, [b EXCEPT ![Slot(r, n)] = v], n, u, r, w, e, Advance(r, u))
LineFact(n, u, V, b, r, w, e) ==
    /\ Described(n, u, V, b, r, w)
    /\ \A k \in 1..Distance(e, w, u) : Backwards(n, u, b, w, e, k)
    /\ Between3(n, u, r, w, e) =>
        /\ Commits(b, n, u, r, w, e)
        /\ \A v \in V :
            /\ Distance(e, r, u) < n => Typing(n, u, b, r, w, e, v)
            /\ r # w => Taking(n, u, b, r, w, e, v)
        /\ \A k \in 0..Distance(e, w, u) : \A d \in [0..n - 1 -> V] :
            Without(n, u, b, d, e, k) =>
                /\ Distance(e, k, u) \in 0..u - 1
                /\ Erases(b, d, n, u, r, w, e, Distance(e, k, u), k)
LineFacts(n, u, V) == \A b \in [0..n - 1 -> V] : \A r, w, e \in 0..u - 1 :
    LineFact(n, u, V, b, r, w, e)
=============================================================================
