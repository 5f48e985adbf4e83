--------------------------- MODULE Subnets_proofs ---------------------------
(***************************************************************************)
(* Proofs about the subnets of the instances, for any width of addresses,  *)
(* any base network but /0 and any number of instances.                    *)
(***************************************************************************)
EXTENDS Subnets, InductionBySets, SequenceTheorems, TLAPS

-----------------------------------------------------------------------------
(***************************************************************************)
(* Powers of two.                                                          *)
(***************************************************************************)

\* g holds the powers of two up to n.
Powers(n, g) ==
  /\ g \in [0 .. n -> Nat]
  /\ g[0] = 1
  /\ \A i \in 1 .. n : g[i] = 2 * g[i - 1]

\* There are such functions, and they agree.
LEMMA PowersExist == \A n \in Nat : \E g : Powers(n, g)
<1> DEFINE T == {n \in Nat : \E g : Powers(n, g)}
<1>1. 0 \in T
  <2>1. Powers(0, [i \in 0 .. 0 |-> 1])
    BY DEF Powers
  <2> QED BY <2>1
<1>2. ASSUME NEW n \in T PROVE n + 1 \in T
  <2>1. PICK g : Powers(n, g)
    OBVIOUS
  <2> DEFINE h == [i \in 0 .. n + 1 |-> IF i <= n THEN g[i] ELSE 2 * g[n]]
  <2>2. h \in [0 .. n + 1 -> Nat] /\ h[0] = 1
    BY <2>1 DEF Powers
  <2>3. \A i \in 1 .. n + 1 : h[i] = 2 * h[i - 1]
    BY <2>1 DEF Powers
  <2>4. Powers(n + 1, h)
    BY <2>2, <2>3 DEF Powers
  <2> QED BY <2>4
<1>3. T = Nat
  BY <1>1, <1>2, SetInduction
<1> QED BY <1>3

\* Two tables of powers agree as far as both go.
LEMMA PowersAgree ==
  ASSUME NEW m \in Nat, NEW n \in Nat, NEW g, NEW h, Powers(m, g), Powers(n, h)
  PROVE  \A i \in Nat : i <= m /\ i <= n => g[i] = h[i]
<1> DEFINE T == {i \in Nat : i <= m /\ i <= n => g[i] = h[i]}
<1>1. 0 \in T
  BY DEF Powers
<1>2. ASSUME NEW i \in T PROVE i + 1 \in T
  <2>1. CASE i + 1 <= m /\ i + 1 <= n
    <3>1. g[i] = h[i]
      BY <2>1
    <3>2. i + 1 \in 1 .. m /\ i + 1 \in 1 .. n /\ (i + 1) - 1 = i
      BY <2>1
    <3>3. g[i + 1] = 2 * g[(i + 1) - 1] /\ h[i + 1] = 2 * h[(i + 1) - 1]
      BY <3>2 DEF Powers
    <3> QED BY <3>1, <3>2, <3>3
  <2>2. CASE ~(i + 1 <= m /\ i + 1 <= n)
    BY <2>2
  <2> QED BY <2>1, <2>2
<1>3. T = Nat
  BY <1>1, <1>2, SetInduction
<1> QED BY <1>3

\* So the recursive definition of Pow2 defines a function.
LEMMA Pow2Def ==
  /\ Pow2 = [k \in Nat |-> IF k = 0 THEN 1 ELSE 2 * Pow2[k - 1]]
  /\ \A k \in Nat : Pow2[k] \in Nat
<1> DEFINE G(n) == CHOOSE g : Powers(n, g)
           f == [k \in Nat |-> G(k)[k]]
<1>1. \A n \in Nat : Powers(n, G(n))
  BY PowersExist
<1>2. \A n \in Nat : G(n)[n] \in Nat
  BY <1>1 DEF Powers
<1>3. G(0)[0] = 1
  BY <1>1 DEF Powers
<1>4. ASSUME NEW k \in Nat, k # 0 PROVE G(k)[k] = 2 * G(k - 1)[k - 1]
  <2>1. k - 1 \in Nat /\ k \in 1 .. k /\ k - 1 <= k
    BY <1>4
  <2>2. Powers(k, G(k)) /\ Powers(k - 1, G(k - 1))
    BY <1>1, <2>1
  <2> HIDE DEF G
  <2>3. G(k)[k] = 2 * G(k)[k - 1]
    BY <2>1, <2>2 DEF Powers
  <2>4. G(k)[k - 1] = G(k - 1)[k - 1]
    BY <2>1, <2>2, PowersAgree
  <2> QED BY <2>3, <2>4
<1> HIDE DEF G
<1>5. \A k \in Nat : f[k] = IF k = 0 THEN 1 ELSE 2 * f[k - 1]
  <2> SUFFICES ASSUME NEW k \in Nat PROVE f[k] = IF k = 0 THEN 1 ELSE 2 * f[k - 1]
    OBVIOUS
  <2>1. CASE k = 0
    BY <1>3, <2>1
  <2>2. CASE k # 0
    <3>1. k - 1 \in Nat
      BY <2>2
    <3> QED BY <1>4, <2>2, <3>1
  <2> QED BY <2>1, <2>2
<1>6. f = [k \in Nat |-> IF k = 0 THEN 1 ELSE 2 * f[k - 1]]
  BY <1>5
<1> HIDE DEF f
<1>7. Pow2 = [k \in Nat |-> IF k = 0 THEN 1 ELSE 2 * Pow2[k - 1]]
  BY <1>6 DEF Pow2
<1>8. \A k \in Nat : Pow2[k] \in Nat
  <2> DEFINE T == {k \in Nat : Pow2[k] \in Nat}
  <2>1. 0 \in T
    BY <1>7
  <2>2. ASSUME NEW k \in T PROVE k + 1 \in T
    <3>1. k + 1 \in Nat /\ k + 1 # 0 /\ (k + 1) - 1 = k
      OBVIOUS
    <3>2. Pow2[k + 1] = 2 * Pow2[(k + 1) - 1]
      BY <1>7, <3>1
    <3> QED BY <3>1, <3>2
  <2>3. T = Nat
    BY <2>1, <2>2, SetInduction
  <2> QED BY <2>3
<1> QED BY <1>7, <1>8

\* Powers of two double, ...
LEMMA Pow2Doubles ==
  /\ Pow2[0] = 1
  /\ \A k \in Nat : Pow2[k] \in Nat /\ Pow2[k + 1] = 2 * Pow2[k]
<1>1. Pow2[0] = 1
  BY Pow2Def
<1>2. ASSUME NEW k \in Nat PROVE Pow2[k + 1] = 2 * Pow2[k]
  <2>1. k + 1 \in Nat /\ k + 1 # 0 /\ (k + 1) - 1 = k
    OBVIOUS
  <2>2. Pow2[k + 1] = 2 * Pow2[(k + 1) - 1]
    BY <2>1, Pow2Def
  <2> QED BY <2>1, <2>2
<1> QED BY <1>1, <1>2, Pow2Def

\* ... are larger than their exponent ...
LEMMA Pow2Grows == \A k \in Nat : Pow2[k] \in Nat /\ Pow2[k] > k
<1> DEFINE T == {k \in Nat : Pow2[k] > k}
<1>1. 0 \in T
  BY Pow2Doubles
<1>2. ASSUME NEW k \in T PROVE k + 1 \in T
  <2>1. Pow2[k] \in Nat /\ Pow2[k] > k /\ Pow2[k + 1] = 2 * Pow2[k]
    BY Pow2Doubles
  <2> QED BY <2>1
<1>3. T = Nat
  BY <1>1, <1>2, SetInduction
<1> QED BY <1>3, Pow2Doubles

\* ... and turn sums into products.
LEMMA Pow2Sum == \A a, b \in Nat : Pow2[a + b] = Pow2[a] * Pow2[b]
<1> SUFFICES ASSUME NEW a \in Nat PROVE \A b \in Nat : Pow2[a + b] = Pow2[a] * Pow2[b]
  OBVIOUS
<1> DEFINE T == {b \in Nat : Pow2[a + b] = Pow2[a] * Pow2[b]}
<1>1. 0 \in T
  BY Pow2Doubles
<1>2. ASSUME NEW b \in T PROVE b + 1 \in T
  <2>1. a + b \in Nat /\ a + (b + 1) = (a + b) + 1
    OBVIOUS
  <2>2. Pow2[a + (b + 1)] = 2 * Pow2[a + b]
    BY <2>1, Pow2Doubles
  <2>3. Pow2[b + 1] = 2 * Pow2[b] /\ Pow2[a] \in Nat /\ Pow2[b] \in Nat
    BY Pow2Doubles
  <2>4. Pow2[a + b] = Pow2[a] * Pow2[b]
    OBVIOUS
  <2>5. Pow2[a + (b + 1)] = Pow2[a] * Pow2[b + 1]
    BY <2>2, <2>3, <2>4
  <2> QED BY <2>5
<1>3. T = Nat
  BY <1>1, <1>2, SetInduction
<1> QED BY <1>3

\* The smallest subnet leaves three bits.
LEMMA EightAddresses == Pow2[3] = 8
<1>1. Pow2[0 + 1] = 2 /\ Pow2[1 + 1] = 2 * Pow2[1] /\ Pow2[2 + 1] = 2 * Pow2[2]
  BY Pow2Doubles
<1> QED BY <1>1

-----------------------------------------------------------------------------
(***************************************************************************)
(* The class Netmask.                                                      *)
(***************************************************************************)

\* The size of a subnet that fits into a base network: 8 addresses or more, a
\* power of two of them in the network, and of networks in the address space.
LEMMA Sizes ==
  ASSUME NEW bm \in 1 .. Smallest, NEW mask \in bm .. Smallest
  PROVE  /\ Size(mask) \in Nat /\ Size(mask) >= 8
         /\ Pow2[mask - bm] \in Nat \ {0} /\ Size(bm) = Pow2[mask - bm] * Size(mask)
         /\ Size(bm) \in Nat \ {0}
         /\ Pow2[bm] \in Nat /\ Pow2[bm] >= 2 /\ Pow2[Width] = Pow2[bm] * Size(bm)
<1> USE SubnetsAssumption DEF Smallest
<1>1. Pow2[3] = 8
  BY EightAddresses
<1>2. Size(mask) \in Nat /\ Size(mask) >= 8
  <2>1. Width - mask - 3 \in Nat /\ Width - mask = 3 + (Width - mask - 3)
    OBVIOUS
  <2>2. Pow2[3 + (Width - mask - 3)] = Pow2[3] * Pow2[Width - mask - 3]
    BY <2>1, Pow2Sum
  <2>3. Size(mask) = 8 * Pow2[Width - mask - 3]
    BY <1>1, <2>1, <2>2 DEF Size
  <2>4. Pow2[Width - mask - 3] \in Nat /\ Pow2[Width - mask - 3] > 0
    BY <2>1, Pow2Grows
  <2> QED BY <2>3, <2>4
<1>3. Pow2[mask - bm] \in Nat \ {0} /\ Size(bm) = Pow2[mask - bm] * Size(mask)
  <2>1. mask - bm \in Nat /\ Width - mask \in Nat /\ Width - bm = (mask - bm) + (Width - mask)
    OBVIOUS
  <2>2. Pow2[(mask - bm) + (Width - mask)] = Pow2[mask - bm] * Pow2[Width - mask]
    BY <2>1, Pow2Sum
  <2>3. Pow2[mask - bm] \in Nat /\ Pow2[mask - bm] > mask - bm
    BY <2>1, Pow2Grows
  <2>4. Size(bm) = Pow2[mask - bm] * Size(mask)
    BY <2>1, <2>2 DEF Size
  <2> QED BY <2>1, <2>3, <2>4
<1>4. Size(bm) \in Nat \ {0}
  <2>1. Width - bm \in Nat
    OBVIOUS
  <2> QED BY <2>1, Pow2Grows DEF Size
<1>5. Pow2[bm] \in Nat /\ Pow2[bm] >= 2
  BY Pow2Grows
<1>6. Pow2[Width] = Pow2[bm] * Size(bm)
  <2>1. bm \in Nat /\ Width - bm \in Nat /\ Width = bm + (Width - bm)
    OBVIOUS
  <2> QED BY <2>1, Pow2Sum DEF Size
<1> QED BY <1>2, <1>3, <1>4, <1>5, <1>6

\* The base of the network of an address is a multiple of its size, and the
\* network ends in the address space.
LEMMA Aligned ==
  ASSUME NEW B \in Nat \ {0}, NEW D \in Nat \ {0}, NEW ip \in 0 .. D * B - 1
  PROVE  /\ ip \div B \in 0 .. D - 1
         /\ ip - (ip % B) = B * (ip \div B)
         /\ B * (ip \div B) + B <= D * B
<1> DEFINE q == ip \div B
<1>1. ip = B * q + (ip % B) /\ ip % B \in 0 .. B - 1 /\ q \in Nat /\ ip \in Nat
  OBVIOUS
<1> HIDE DEF q
<1>2. q < D
  <2> SUFFICES ASSUME q >= D PROVE FALSE
    BY <1>1
  <2>1. B * q >= B * D
    BY <1>1
  <2> QED BY <1>1, <2>1
<1>3. B * q + B <= D * B
  <2>1. B * (q + 1) <= B * D
    BY <1>1, <1>2
  <2> QED BY <1>1, <2>1
<1> QED BY <1>1, <1>2, <1>3 DEF q

\* Arithmetic modulo 2^Width, for D networks of B addresses and C subnets of P
\* addresses in each: inside network q nothing wraps around, and the address
\* after it is outside.
Fits(P, C, D, B, q) ==
  /\ \A k \in 0 .. C - 1 : /\ (B * q + P * k) % (D * B) = B * q + P * k
                           /\ (B * q + P * k) % P = 0
                           /\ P * k >= 0 /\ P * k + P <= B
  /\ (B * q + P * C) % (D * B) \notin B * q .. B * q + B - 1
  /\ ((B * q + P * C) % (D * B)) % P = 0
  /\ (B * q) % P = 0

\* A base network is cut into C subnets of size P each, at any place q of the
\* address space.
LEMMA NoWrap ==
  ASSUME NEW P \in Nat \ {0}, NEW C \in Nat \ {0}, NEW D \in Nat, D >= 2,
         NEW q \in 0 .. D - 1, NEW B \in Nat \ {0}, B = C * P
  PROVE  Fits(P, C, D, B, q)
<1>1. B * q \in Nat /\ B * q + B <= D * B /\ D * B \in Nat \ {0}
  <2>1. B * (q + 1) <= B * D
    OBVIOUS
  <2>2. B * (q + 1) = B * q + B /\ B * D = D * B
    OBVIOUS
  <2>3. B * q \in Nat /\ D * B \in Nat \ {0}
    OBVIOUS
  <2> QED BY <2>1, <2>2, <2>3
<1>2. ASSUME NEW k \in 0 .. C - 1
      PROVE  /\ (B * q + P * k) % (D * B) = B * q + P * k
             /\ (B * q + P * k) % P = 0
             /\ P * k >= 0 /\ P * k + P <= B
  <2>1. P * k \in Nat /\ P * k + P <= B
    <3>1. P * (k + 1) <= P * C
      OBVIOUS
    <3> QED BY <3>1
  <2>2. (B * q + P * k) % (D * B) = B * q + P * k
    <3> DEFINE x == B * q + P * k
               M == D * B
    <3>1. x \in Nat /\ x < M /\ M \in Nat \ {0}
      BY <1>1, <2>1
    <3> HIDE DEF x, M
    <3>2. x % M = x
      BY <3>1
    <3> QED BY <3>2 DEF x, M
  <2>3. B * q + P * k = P * (C * q + k)
    OBVIOUS
  <2>4. (P * (C * q + k)) % P = 0
    <3>1. C * q + k \in Nat
      OBVIOUS
    <3> QED BY <3>1
  <2> QED BY <2>1, <2>2, <2>3, <2>4
<1>3. (B * q) % P = 0
  <2>1. B * q = P * (C * q)
    OBVIOUS
  <2>2. C * q \in Nat
    OBVIOUS
  <2>3. (P * (C * q)) % P = 0
    BY <2>2
  <2> QED BY <2>1, <2>3
<1>4. /\ (B * q + P * C) % (D * B) \notin B * q .. B * q + B - 1
      /\ ((B * q + P * C) % (D * B)) % P = 0
  <2>1. B * q + P * C = B * q + B
    OBVIOUS
  <2>2. CASE q < D - 1
    <3>1. B * q + B < D * B
      <4>1. B * (q + 1) < B * D
        BY <2>2
      <4> QED BY <4>1
    <3>2. (B * q + B) % (D * B) = B * q + B
      BY <1>1, <3>1
    <3>3. B * q + B = P * (C * (q + 1))
      OBVIOUS
    <3>4. (P * (C * (q + 1))) % P = 0
      <4>1. C * (q + 1) \in Nat
        OBVIOUS
      <4> QED BY <4>1
    <3> QED BY <1>1, <2>1, <3>2, <3>3, <3>4
  <2>3. CASE q = D - 1
    <3>1. B * q + B = D * B
      BY <2>3
    <3>2. (D * B) % (D * B) = 0
      BY <1>1
    <3>3. B * q > 0
      BY <2>3
    <3>4. 0 % P = 0
      OBVIOUS
    <3> QED BY <1>1, <2>1, <3>1, <3>2, <3>3, <3>4
  <2> QED BY <2>2, <2>3
<1> QED BY <1>2, <1>3, <1>4 DEF Fits

\* The network of the base address, aligned and inside the address space.
LEMMA BaseNetwork ==
  ASSUME NEW ip \in 0 .. Pow2[Width] - 1, NEW bm \in 1 .. Smallest
  PROVE  \E q \in 0 .. Pow2[bm] - 1 : Netmask(ip, bm) = [base |-> Size(bm) * q, mask |-> bm]
<1>1. bm \in bm .. Smallest
  BY SubnetsAssumption DEF Smallest
<1>2. Size(bm) \in Nat \ {0} /\ Pow2[bm] \in Nat \ {0} /\ Pow2[Width] = Pow2[bm] * Size(bm)
  BY <1>1, Sizes
<1> DEFINE B == Size(bm)
           D == Pow2[bm]
<1>3. B \in Nat \ {0} /\ D \in Nat \ {0} /\ ip \in 0 .. D * B - 1
  BY <1>2
<1> HIDE DEF B, D
<1>4. ip \div B \in 0 .. D - 1 /\ ip - (ip % B) = B * (ip \div B)
  BY <1>3, Aligned
<1> QED BY <1>4 DEF B, D, Netmask

\* split() returns the subnets of the network from the first to the last one,
\* one after the other: Pow2[mask - bm] of them.
LEMMA SplitIs ==
  ASSUME NEW bm \in 1 .. Smallest, NEW mask \in bm .. Smallest, NEW q \in 0 .. Pow2[bm] - 1
  PROVE  split([base |-> Size(bm) * q, mask |-> bm], mask) =
           [k \in 1 .. Pow2[mask - bm] |->
              [base |-> Size(bm) * q + Size(mask) * (k - 1), mask |-> mask]]
<1> DEFINE P == Size(mask)
           B == Size(bm)
           C == Pow2[mask - bm]
           D == Pow2[bm]
           net == [base |-> B * q, mask |-> bm]
           start == Netmask(net.base, mask)
           N(k) == ~contains(net, next(start, k))
           L(k) == /\ N(k)
                   /\ \A j \in 0 .. k - 1 : contains(net, next(start, j))
           n == CHOOSE k \in 0 .. Pow2[Width] : L(k)
<1>1. /\ P \in Nat \ {0} /\ B \in Nat \ {0} /\ C \in Nat \ {0} /\ D \in Nat /\ D >= 2
      /\ B = C * P /\ Pow2[Width] = D * B /\ q \in 0 .. D - 1
  BY Sizes
<1>2. split(net, mask) = [k \in 1 .. n |-> next(start, k - 1)]
  BY DEF split
<1>3. start.base = B * q - ((B * q) % P) /\ start.mask = mask
  BY DEF Netmask
<1>4. \A k : next(start, k) =
        [base |-> ((start.base + P * k) % Pow2[Width])
                  - (((start.base + P * k) % Pow2[Width]) % P), mask |-> mask]
  BY DEF next, Netmask
<1>5. \A r : contains(net, r) <=> {r.base, r.base + Size(r.mask) - 1} \subseteq B * q .. B * q + B - 1
  BY DEF contains, Within, broadcast
<1> HIDE DEF P, B, C, D
<1>6. Fits(P, C, D, B, q)
  BY <1>1, NoWrap
<1>7. B * q \in Nat
  BY <1>1
<1>8. start.base = B * q
  BY <1>3, <1>6, <1>7 DEF Fits
<1> HIDE DEF start
<1>9. ASSUME NEW k \in 0 .. C - 1
      PROVE  next(start, k) = [base |-> B * q + P * k, mask |-> mask] /\ ~N(k)
  <2>1. /\ (B * q + P * k) % (D * B) = B * q + P * k
        /\ (B * q + P * k) % P = 0
        /\ P * k >= 0 /\ P * k + P <= B /\ P * k \in Int
    BY <1>1, <1>6 DEF Fits
  <2>2. next(start, k) = [base |-> (B * q + P * k) - ((B * q + P * k) % P), mask |-> mask]
    BY <1>1, <1>4, <1>8, <2>1
  <2>3. next(start, k) = [base |-> B * q + P * k, mask |-> mask]
    BY <1>7, <2>1, <2>2
  <2>4. {B * q + P * k, B * q + P * k + P - 1} \subseteq B * q .. B * q + B - 1
    BY <1>1, <1>7, <2>1
  <2>5. contains(net, next(start, k))
    BY <1>5, <2>3, <2>4 DEF P
  <2> QED BY <2>3, <2>5
<1>10. N(C)
  <2> DEFINE y == (B * q + P * C) % (D * B)
  <2>1. y \notin B * q .. B * q + B - 1 /\ y % P = 0 /\ y \in Int
    BY <1>1, <1>6, <1>7 DEF Fits
  <2>2. next(start, C) = [base |-> y - (y % P), mask |-> mask]
    BY <1>1, <1>4, <1>8
  <2> HIDE DEF y
  <2>3. next(start, C).base = y
    BY <2>1, <2>2
  <2> QED BY <1>5, <2>1, <2>3
<1>11. C \in 0 .. Pow2[Width]
  <2>1. Pow2[Width] = C * (P * D) /\ P * D \in Nat \ {0}
    BY <1>1
  <2> DEFINE z == P * D
  <2>2. z \in Nat \ {0} /\ Pow2[Width] = C * z
    BY <2>1
  <2> HIDE DEF z
  <2>3. C * z >= C
    BY <1>1, <2>2
  <2> QED BY <1>1, <2>2, <2>3
<1> HIDE DEF net
<1>12. L(C)
  BY <1>9, <1>10
<1>13. ASSUME NEW k \in 0 .. Pow2[Width], L(k) PROVE k = C
  <2>1. k \in Nat /\ C \in Nat
    BY <1>1, <1>11
  <2>2. ~(k < C)
    BY <1>9, <1>13, <2>1
  <2>3. ~(C < k)
    BY <1>10, <1>13, <2>1
  <2> QED BY <2>1, <2>2, <2>3
<1> HIDE DEF L, N
<1>14. n = C
  BY <1>11, <1>12, <1>13
<1> HIDE DEF n
<1>15. \A k \in 1 .. C : next(start, k - 1) = [base |-> B * q + P * (k - 1), mask |-> mask]
  BY <1>1, <1>9
<1>16. split(net, mask) = [k \in 1 .. C |-> [base |-> B * q + P * (k - 1), mask |-> mask]]
  BY <1>2, <1>14, <1>15
<1> QED BY <1>16 DEF net, B, C, P

-----------------------------------------------------------------------------
(***************************************************************************)
(* The configuration.                                                      *)
(***************************************************************************)

\* Math.ceil(Math.log2(n)): the first power of two that is not below n.
LEMMA CeilLog2Is ==
  ASSUME NEW n \in Nat \ {0}
  PROVE  /\ CeilLog2(n) \in Nat
         /\ Pow2[CeilLog2(n)] >= n
         /\ \A j \in 0 .. CeilLog2(n) - 1 : Pow2[j] < n
<1> DEFINE T == {k \in Nat : Pow2[k] >= n}
           c == CHOOSE k \in 0 .. n : Pow2[k] >= n /\ \A j \in 0 .. k - 1 : Pow2[j] < n
<1>1. n \in T
  BY Pow2Grows
<1>2. PICK m \in T : \A k \in T : m <= k
  BY <1>1, LeastElement
<1>3. m \in 0 .. n /\ Pow2[m] >= n
  BY <1>1, <1>2
<1>4. \A j \in 0 .. m - 1 : Pow2[j] < n
  <2> SUFFICES ASSUME NEW j \in 0 .. m - 1 PROVE Pow2[j] < n
    OBVIOUS
  <2>1. j \in Nat /\ Pow2[j] \in Nat /\ j \notin T
    BY <1>2, <1>3, Pow2Grows
  <2> QED BY <2>1
<1>5. c \in 0 .. n /\ Pow2[c] >= n /\ \A j \in 0 .. c - 1 : Pow2[j] < n
  BY <1>3, <1>4
<1>6. CeilLog2(n) = c
  BY DEF CeilLog2
<1> HIDE DEF c
<1> QED BY <1>5, <1>6

\* Larger powers of two have larger exponents.
LEMMA Pow2Monotone == \A a, b \in Nat : a <= b <=> Pow2[a] <= Pow2[b]
<1>1. ASSUME NEW a \in Nat, NEW b \in Nat, a <= b PROVE Pow2[a] <= Pow2[b]
  <2>1. b - a \in Nat /\ b = a + (b - a)
    BY <1>1
  <2>2. Pow2[a + (b - a)] = Pow2[a] * Pow2[b - a]
    BY <2>1, Pow2Sum
  <2>3. Pow2[a] \in Nat /\ Pow2[b - a] \in Nat \ {0}
    BY <2>1, Pow2Grows
  <2> DEFINE x == Pow2[a]
             y == Pow2[b - a]
  <2> HIDE DEF x, y
  <2>4. x * y >= x
    BY <2>3 DEF x, y
  <2> QED BY <2>1, <2>2, <2>4 DEF x, y
<1>2. ASSUME NEW a \in Nat, NEW b \in Nat, ~(a <= b) PROVE ~(Pow2[a] <= Pow2[b])
  <2>1. b + 1 \in Nat /\ b + 1 <= a
    BY <1>2
  <2>2. Pow2[b + 1] <= Pow2[a]
    BY <1>1, <2>1
  <2>3. Pow2[b + 1] = 2 * Pow2[b] /\ Pow2[b] \in Nat \ {0} /\ Pow2[a] \in Nat
    BY Pow2Doubles, Pow2Grows
  <2> QED BY <2>2, <2>3
<1> QED BY <1>1, <1>2

\* The number of instances is a number, set or not.
LEMMA CountIsNat ==
  ASSUME env \in Envs PROVE getInstanceCount \in Nat
BY SubnetsAssumption DEF Envs, getInstanceCount, NotSet

\* The bits of an instance's network.
LEMMA BitmaskIs ==
  ASSUME env \in Envs
  PROVE  /\ InstanceBitmask \in Int /\ InstanceBitmask >= Largest
         /\ env.bitmask = NotSet =>
              /\ \/ InstanceBitmask = Largest
                 \/ InstanceBitmask = env.baseMask + CeilLog2(getInstanceCount)
              /\ InstanceBitmask >= env.baseMask + CeilLog2(getInstanceCount)
<1> DEFINE n == getInstanceCount
           c == CeilLog2(n)
           bits == IF env.bitmask # NotSet THEN env.bitmask ELSE env.baseMask + c
<1>1. n \in Nat
  BY CountIsNat
<1>2. Width \in Nat /\ Largest \in Nat
  BY SubnetsAssumption DEF Smallest
<1>3. c \in Int
  <2>1. CASE n = 0
    BY <1>2, <2>1 DEF CeilLog2
  <2>2. CASE n # 0
    BY <1>1, <2>2, CeilLog2Is
  <2> QED BY <2>1, <2>2
<1>4. env.baseMask \in Int /\ env.bitmask \in Int
  BY SubnetsAssumption DEF Envs, Smallest, NotSet
<1>5. InstanceBitmask = IF bits > Largest THEN bits ELSE Largest
  BY DEF InstanceBitmask
<1> HIDE DEF c, n
<1>6. bits \in Int /\ (env.bitmask = NotSet => bits = env.baseMask + c)
  BY <1>3, <1>4
<1> HIDE DEF bits
<1>7. /\ InstanceBitmask \in Int /\ InstanceBitmask >= Largest
      /\ env.bitmask = NotSet =>
           /\ InstanceBitmask = Largest \/ InstanceBitmask = env.baseMask + c
           /\ InstanceBitmask >= env.baseMask + c
  BY <1>2, <1>5, <1>6
<1> QED BY <1>7 DEF c, n

\* The worker's subnet, if its number is one of those that split() returns.
HasSubnet(i) ==
  /\ env.baseMask <= Smallest /\ InstanceBitmask \in env.baseMask .. Smallest
  /\ i \in 1 .. Pow2[InstanceBitmask - env.baseMask]

\* getInstanceSubnet as a formula of the instance number.
LEMMA InstanceSubnetIs ==
  ASSUME env \in Envs
  PROVE  \E q \in Nat :
           /\ env.baseMask <= Smallest =>
                /\ q \in 0 .. Pow2[env.baseMask] - 1
                /\ Netmask(env.baseIp, env.baseMask) =
                     [base |-> Size(env.baseMask) * q, mask |-> env.baseMask]
           /\ \A i \in Nat :
                getInstanceSubnet(i) =
                  IF HasSubnet(i)
                  THEN [base |-> Size(env.baseMask) * q + Size(InstanceBitmask) * (i - 1),
                        mask |-> InstanceBitmask]
                  ELSE Fails
<1> DEFINE bm == env.baseMask
           mask == InstanceBitmask
<1>1. /\ bm \in Int /\ bm >= 1 /\ env.baseIp \in 0 .. Pow2[Width] - 1 /\ mask \in Int
      /\ Smallest \in Int
  <2>1. Smallest \in Int /\ BaseIps \subseteq 0 .. Pow2[Width] - 1
    BY SubnetsAssumption DEF Smallest
  <2>2. env.baseIp \in BaseIps /\ env.baseMask \in 1 .. Smallest + 1
    BY DEF Envs
  <2>3. mask \in Int
    BY BitmaskIs
  <2>4. bm \in Int /\ bm >= 1
    BY <2>1, <2>2
  <2> QED BY <2>1, <2>2, <2>3, <2>4
<1>2. CASE bm > Smallest
  <2>1. \A i : getInstanceSubnet(i) = Fails
    BY <1>2 DEF getInstanceSubnet
  <2>2. ~(bm <= Smallest)
    BY <1>1, <1>2
  <2>3. \A i : ~HasSubnet(i)
    BY <2>2 DEF HasSubnet
  <2>4. 0 \in Nat
    OBVIOUS
  <2> HIDE DEF bm, mask
  <2> QED BY <2>1, <2>2, <2>3, <2>4 DEF bm
<1>3. CASE bm <= Smallest
  <2>1. bm \in 1 .. Smallest
    BY <1>1, <1>3
  <2>2. PICK q \in 0 .. Pow2[bm] - 1 :
          Netmask(env.baseIp, bm) = [base |-> Size(bm) * q, mask |-> bm]
    BY <1>1, <2>1, BaseNetwork
  <2>3. q \in Nat
    <3>1. Pow2[bm] \in Nat
      BY <2>1, Pow2Grows
    <3> QED BY <3>1
  <2>4. ASSUME NEW i \in Nat
        PROVE  getInstanceSubnet(i) =
                 IF HasSubnet(i)
                 THEN [base |-> Size(bm) * q + Size(mask) * (i - 1), mask |-> mask]
                 ELSE Fails
    <3>1. CASE ~(mask \in bm .. Smallest)
      <4>1. mask < bm \/ mask > Smallest
        BY <1>1, <2>1, <3>1
      <4> QED BY <4>1, <3>1 DEF getInstanceSubnet, HasSubnet
    <3>2. CASE mask \in bm .. Smallest
      <4> DEFINE all == split(Netmask(env.baseIp, bm), mask)
      <4>1. ~(bm > Smallest) /\ ~(mask < bm) /\ ~(mask > Smallest)
        BY <1>1, <2>1, <3>2
      <4>2. getInstanceSubnet(i) = IF i \in DOMAIN all THEN all[i] ELSE Fails
        BY <4>1 DEF getInstanceSubnet
      <4>3. all = [k \in 1 .. Pow2[mask - bm] |->
                     [base |-> Size(bm) * q + Size(mask) * (k - 1), mask |-> mask]]
        BY <2>1, <2>2, <3>2, SplitIs
      <4>4. HasSubnet(i) <=> i \in 1 .. Pow2[mask - bm]
        BY <1>3, <3>2 DEF HasSubnet
      <4> HIDE DEF all, bm, mask
      <4> QED BY <4>2, <4>3, <4>4
    <3> QED BY <3>1, <3>2
  <2> QED BY <2>2, <2>3, <2>4
<1> QED BY <1>1, <1>2, <1>3

\* What an instance gets: the subnets have 8 addresses or more, lie in the base
\* network, and those of two instances are apart.
LEMMA InstanceSubnetsFit ==
  ASSUME env \in Envs, NEW q \in 0 .. Pow2[env.baseMask] - 1, NEW i \in Nat, HasSubnet(i)
  PROVE  LET B == Size(env.baseMask)
             P == Size(InstanceBitmask)
         IN /\ P \in Nat /\ P >= 8 /\ B \in Nat /\ B * q \in Nat /\ P * (i - 1) \in Nat
            /\ P * (i - 1) + P <= B
            /\ B * q + B <= Pow2[Width]
            /\ Pow2[Width] \in Nat
            /\ \A j \in Nat : i < j => P * (i - 1) + P <= P * (j - 1)
<1> DEFINE bm == env.baseMask
           mask == InstanceBitmask
           P == Size(mask)
           B == Size(bm)
           C == Pow2[mask - bm]
           D == Pow2[bm]
<1>1. bm \in 1 .. Smallest /\ mask \in bm .. Smallest /\ i \in 1 .. C
  BY BitmaskIs, SubnetsAssumption DEF Envs, HasSubnet, Smallest
<1>2. /\ P \in Nat /\ P >= 8 /\ B \in Nat \ {0} /\ C \in Nat \ {0} /\ D \in Nat
      /\ B = C * P /\ Pow2[Width] = D * B /\ q \in 0 .. D - 1
  BY <1>1, Sizes
<1> HIDE DEF P, B, C, D
<1>3. B * q \in Nat /\ B * q + B <= D * B /\ D * B \in Nat
  <2>1. B * (q + 1) <= B * D
    BY <1>2
  <2> QED BY <1>2, <2>1
<1>4. P * (i - 1) \in Nat /\ P * (i - 1) + P <= B
  <2>1. P * i <= P * C
    BY <1>1, <1>2
  <2>2. P * (i - 1) + P = P * i /\ B = P * C
    BY <1>1, <1>2
  <2>3. i - 1 \in Nat
    BY <1>1
  <2> QED BY <1>2, <2>1, <2>2, <2>3
<1>5. ASSUME NEW j \in Nat, i < j PROVE P * (i - 1) + P <= P * (j - 1)
  <2>1. P * i <= P * (j - 1)
    BY <1>2, <1>5
  <2> QED BY <1>2, <2>1
<1> QED BY <1>2, <1>3, <1>4, <1>5 DEF P, B

-----------------------------------------------------------------------------
(***************************************************************************)
(* The workers.                                                            *)
(***************************************************************************)

\* It returns a subnet in the address space, or fails.
LEMMA InstanceSubnetType ==
  ASSUME env \in Envs, NEW i \in Nat
  PROVE  getInstanceSubnet(i)
           \in [base : 0 .. Pow2[Width] - 1, mask : Largest .. Smallest] \cup {Fails}
<1> DEFINE B == Size(env.baseMask)
           P == Size(InstanceBitmask)
<1>1. PICK q \in Nat :
        /\ env.baseMask <= Smallest => q \in 0 .. Pow2[env.baseMask] - 1
        /\ \A j \in Nat : getInstanceSubnet(j) =
             IF HasSubnet(j) THEN [base |-> B * q + P * (j - 1), mask |-> InstanceBitmask]
                             ELSE Fails
  BY InstanceSubnetIs
<1>2. CASE ~HasSubnet(i)
  BY <1>1, <1>2
<1>3. CASE HasSubnet(i)
  <2>1. q \in 0 .. Pow2[env.baseMask] - 1
    BY <1>1, <1>3 DEF HasSubnet
  <2>2. /\ P \in Nat /\ P >= 8 /\ B \in Nat /\ B * q \in Nat /\ P * (i - 1) \in Nat
        /\ P * (i - 1) + P <= B /\ B * q + B <= Pow2[Width] /\ Pow2[Width] \in Nat
    BY <1>3, <2>1, InstanceSubnetsFit
  <2> HIDE DEF B, P
  <2>3. B * q + P * (i - 1) \in 0 .. Pow2[Width] - 1
    BY <2>2
  <2>4. InstanceBitmask \in Largest .. Smallest
    BY <1>3, BitmaskIs, SubnetsAssumption DEF HasSubnet, Smallest
  <2> QED BY <1>1, <1>3, <2>3, <2>4
<1> QED BY <1>2, <1>3

\* At first no worker has a subnet.
LEMMA SubnetsInvInit == SubnetsInit => SubnetsInv
<1> SUFFICES ASSUME SubnetsInit PROVE SubnetsInv
  OBVIOUS
<1>1. env \in Envs /\ subnets = <<>>
  BY DEF SubnetsInit
<1>2. getInstanceCount \in Nat
  BY <1>1, CountIsNat
<1> QED BY <1>1, <1>2 DEF SubnetsInv, SubnetsTypeOK

\* Forking a worker gives it what getInstanceSubnet returns.
LEMMA SubnetsInvStep == SubnetsInv /\ [ForkNext]_subnetVars => SubnetsInv'
<1> SUFFICES ASSUME SubnetsInv, [ForkNext]_subnetVars PROVE SubnetsInv'
  OBVIOUS
<1> DEFINE V == [base : 0 .. Pow2[Width] - 1, mask : Largest .. Smallest] \cup {Fails}
<1>1. env' = env
  BY DEF ForkNext, subnetVars
<1>2. env \in Envs /\ subnets \in Seq(V) /\ Len(subnets) <= getInstanceCount
  BY DEF SubnetsInv, SubnetsTypeOK
<1>3. \A i \in DOMAIN subnets : subnets[i] = getInstanceSubnet(i)
  BY DEF SubnetsInv
<1>4. getInstanceCount \in Nat
  BY <1>2, CountIsNat
<1>5. getInstanceCount' = getInstanceCount
  BY <1>1 DEF getInstanceCount
<1>6. InstanceBitmask' = InstanceBitmask
  BY <1>1, <1>5 DEF InstanceBitmask
<1>7. \A i : getInstanceSubnet(i)' = getInstanceSubnet(i)
  BY <1>1, <1>6 DEF getInstanceSubnet
<1>8. CASE ForkNext
  <2> DEFINE n == Len(subnets)
             s == getInstanceSubnet(n + 1)
  <2>1. n < getInstanceCount /\ subnets' = Append(subnets, s)
    BY <1>8 DEF ForkNext
  <2>2. n \in Nat /\ n + 1 \in Nat /\ DOMAIN subnets = 1 .. n
    BY <1>2
  <2>3. s \in V
    BY <1>2, <2>2, InstanceSubnetType
  <2> HIDE DEF V, s
  <2>4. /\ subnets' \in Seq(V) /\ Len(subnets') = n + 1 /\ subnets'[n + 1] = s
        /\ \A i \in 1 .. n : subnets'[i] = subnets[i]
    BY <1>2, <2>1, <2>2, <2>3
  <2>5. DOMAIN subnets' = 1 .. n + 1
    BY <2>4
  <2>6. \A i \in DOMAIN subnets' : subnets'[i] = getInstanceSubnet(i)
    BY <1>3, <2>2, <2>4, <2>5 DEF s
  <2>7. Len(subnets') <= getInstanceCount
    BY <1>4, <2>1, <2>2, <2>4
  <2> QED BY <1>1, <1>2, <1>5, <1>7, <2>4, <2>6, <2>7 DEF SubnetsInv, SubnetsTypeOK, V
<1>9. CASE UNCHANGED subnetVars
  <2>1. subnets' = subnets
    BY <1>9 DEF subnetVars
  <2> QED BY <1>1, <1>2, <1>3, <1>5, <1>7, <2>1 DEF SubnetsInv, SubnetsTypeOK
<1> QED BY <1>8, <1>9

\* Every worker keeps what getInstanceSubnet() returned for its number, a subnet
\* or a failure.
THEOREM SubnetsInvariant == SubnetsSpec => []SubnetsInv
BY SubnetsInvInit, SubnetsInvStep, PTL DEF SubnetsSpec

\* What the workers that are served have.
LEMMA ServedIs ==
  ASSUME SubnetsInv
  PROVE  /\ DOMAIN subnets = 1 .. Len(subnets) /\ Len(subnets) \in Nat
         /\ Served = {i \in DOMAIN subnets : HasSubnet(i)}
         /\ Served \subseteq Nat
         /\ \E q \in Nat :
              /\ env.baseMask <= Smallest =>
                   /\ q \in 0 .. Pow2[env.baseMask] - 1
                   /\ Netmask(env.baseIp, env.baseMask) =
                        [base |-> Size(env.baseMask) * q, mask |-> env.baseMask]
              /\ \A i \in Served : subnets[i] =
                   [base |-> Size(env.baseMask) * q + Size(InstanceBitmask) * (i - 1),
                    mask |-> InstanceBitmask]
<1> DEFINE B == Size(env.baseMask)
           P == Size(InstanceBitmask)
<1>1. env \in Envs
  BY DEF SubnetsInv
<1>2. DOMAIN subnets = 1 .. Len(subnets) /\ Len(subnets) \in Nat
  BY DEF SubnetsInv, SubnetsTypeOK
<1>3. \A i \in DOMAIN subnets : subnets[i] = getInstanceSubnet(i) /\ i \in Nat
  BY <1>2 DEF SubnetsInv
<1>4. PICK q \in Nat :
        /\ env.baseMask <= Smallest =>
             /\ q \in 0 .. Pow2[env.baseMask] - 1
             /\ Netmask(env.baseIp, env.baseMask) = [base |-> B * q, mask |-> env.baseMask]
        /\ \A j \in Nat : getInstanceSubnet(j) =
             IF HasSubnet(j) THEN [base |-> B * q + P * (j - 1), mask |-> InstanceBitmask]
                             ELSE Fails
  BY <1>1, InstanceSubnetIs
<1>5. InstanceBitmask \in Int /\ InstanceBitmask >= Largest /\ Largest \in Nat
  BY <1>1, BitmaskIs, SubnetsAssumption DEF Smallest
<1> HIDE DEF B, P
<1>6. ASSUME NEW i \in DOMAIN subnets PROVE i \in Served <=> HasSubnet(i)
  <2>1. CASE HasSubnet(i)
    <3>1. subnets[i].mask = InstanceBitmask
      BY <1>3, <1>4, <2>1
    <3>2. subnets[i] # Fails
      BY <1>5, <3>1 DEF Fails, NotSet
    <3> QED BY <2>1, <3>2 DEF Served
  <2>2. CASE ~HasSubnet(i)
    BY <1>3, <1>4, <2>2 DEF Served
  <2> QED BY <2>1, <2>2
<1>7. Served = {i \in DOMAIN subnets : HasSubnet(i)}
  BY <1>6 DEF Served
<1>8. \A i \in Served : subnets[i] = [base |-> B * q + P * (i - 1), mask |-> InstanceBitmask]
  BY <1>3, <1>4, <1>7
<1> QED BY <1>2, <1>4, <1>7, <1>8 DEF B, P

\* What the workers keep has sound addresses.
LEMMA SoundBySubnets == SubnetsInv => AddressesAreSound
<1> SUFFICES ASSUME SubnetsInv PROVE AddressesAreSound
  OBVIOUS
<1> DEFINE bm == env.baseMask
           mask == InstanceBitmask
           B == Size(bm)
           P == Size(mask)
<1>1. env \in Envs
  BY DEF SubnetsInv
<1>2. Served \subseteq Nat /\ \A i \in Served : HasSubnet(i)
  BY ServedIs
<1>3. PICK q \in Nat :
        /\ bm <= Smallest => /\ q \in 0 .. Pow2[bm] - 1
                             /\ Netmask(env.baseIp, bm) = [base |-> B * q, mask |-> bm]
        /\ \A i \in Served : subnets[i] = [base |-> B * q + P * (i - 1), mask |-> mask]
  BY ServedIs
<1>4. ASSUME NEW i \in Served
      PROVE  /\ P \in Nat /\ P >= 8 /\ B \in Nat /\ B * q \in Nat /\ P * (i - 1) \in Nat
             /\ P * (i - 1) + P <= B
             /\ \A j \in Nat : i < j => P * (i - 1) + P <= P * (j - 1)
             /\ Netmask(env.baseIp, bm) = [base |-> B * q, mask |-> bm]
  <2>1. HasSubnet(i) /\ i \in Nat
    BY <1>2
  <2>2. q \in 0 .. Pow2[bm] - 1 /\ Netmask(env.baseIp, bm) = [base |-> B * q, mask |-> bm]
    BY <1>3, <2>1 DEF HasSubnet
  <2> QED BY <1>1, <2>1, <2>2, InstanceSubnetsFit
<1> SUFFICES ASSUME NEW i \in Served
             PROVE  /\ subnets[i].base < first(subnets[i])
                    /\ first(subnets[i]) < second(subnets[i])
                    /\ second(subnets[i]) < third(subnets[i])
                    /\ third(subnets[i]) <= last(subnets[i])
                    /\ last(subnets[i]) < broadcast(subnets[i])
                    /\ Within(subnets[i]) \subseteq Within(Netmask(env.baseIp, env.baseMask))
                    /\ \A j \in Served \ {i} : Within(subnets[i]) \cap Within(subnets[j]) = {}
  BY DEF AddressesAreSound
<1> DEFINE a(k) == B * q + P * (k - 1)
<1>5. \A k \in Served : /\ subnets[k].base = a(k)
                        /\ broadcast(subnets[k]) = a(k) + P - 1
                        /\ Within(subnets[k]) = a(k) .. a(k) + P - 1
  <2> SUFFICES ASSUME NEW k \in Served
               PROVE  /\ subnets[k].base = a(k)
                      /\ broadcast(subnets[k]) = a(k) + P - 1
                      /\ Within(subnets[k]) = a(k) .. a(k) + P - 1
    OBVIOUS
  <2>1. subnets[k] = [base |-> a(k), mask |-> mask]
    BY <1>3
  <2> HIDE DEF a, mask
  <2>2. subnets[k].base = a(k) /\ subnets[k].mask = mask
    BY <2>1
  <2>3. broadcast(subnets[k]) = a(k) + P - 1
    BY <2>2 DEF broadcast
  <2> QED BY <2>2, <2>3 DEF Within
<1>6. Within(Netmask(env.baseIp, bm)) = B * q .. B * q + B - 1
  BY <1>4 DEF Within, broadcast
<1> HIDE DEF B, P, bm, mask
<1>7. \A k \in Served : a(k) \in Nat
  BY <1>4
<1>8. /\ subnets[i].base < first(subnets[i])
      /\ first(subnets[i]) < second(subnets[i])
      /\ second(subnets[i]) < third(subnets[i])
      /\ third(subnets[i]) <= last(subnets[i])
      /\ last(subnets[i]) < broadcast(subnets[i])
  <2>1. P \in Nat /\ P >= 8 /\ a(i) \in Nat
    BY <1>4, <1>7
  <2>2. subnets[i].base = a(i) /\ broadcast(subnets[i]) = a(i) + P - 1
    BY <1>5
  <2> HIDE DEF a
  <2>3. first(subnets[i]) = a(i) + 1
    BY <2>2 DEF first
  <2>4. second(subnets[i]) = a(i) + 1 + 1 /\ third(subnets[i]) = a(i) + 1 + 2
    BY <2>3 DEF second, third
  <2>5. last(subnets[i]) = a(i) + P - 1 - 1
    BY <2>1, <2>2 DEF last
  <2> QED BY <2>1, <2>2, <2>3, <2>4, <2>5
<1>9. Within(subnets[i]) \subseteq Within(Netmask(env.baseIp, bm))
  BY <1>4, <1>5, <1>6
<1>10. ASSUME NEW j \in Served \ {i} PROVE Within(subnets[i]) \cap Within(subnets[j]) = {}
  <2>1. i \in Nat /\ j \in Nat /\ (i < j \/ j < i)
    BY <1>2
  <2>2. /\ i < j => P * (i - 1) + P <= P * (j - 1)
        /\ j < i => P * (j - 1) + P <= P * (i - 1)
    BY <1>4, <2>1
  <2>3. /\ P * (i - 1) \in Nat /\ P * (j - 1) \in Nat /\ P \in Nat /\ B * q \in Nat
    BY <1>4
  <2>4. a(i) + P <= a(j) \/ a(j) + P <= a(i)
    BY <2>1, <2>2, <2>3
  <2>5. a(i) \in Nat /\ a(j) \in Nat
    BY <1>7
  <2> HIDE DEF a
  <2>6. (a(i) .. a(i) + P - 1) \cap (a(j) .. a(j) + P - 1) = {}
    BY <2>3, <2>4, <2>5
  <2> QED BY <1>5, <2>6
<1> QED BY <1>8, <1>9, <1>10 DEF bm

\* The arguments of every OpenVPN server: addresses and pool are apart from each
\* other, from the base and broadcast addresses and from those of the other
\* instances, for any base address and any number of bits.
THEOREM AddressesSound == SubnetsSpec => []AddressesAreSound
BY SubnetsInvariant, SoundBySubnets, PTL

\* With the default bitmask no worker is left without.
LEMMA DefaultBySubnets == SubnetsInv => DefaultServesEveryone
<1> SUFFICES ASSUME SubnetsInv, env.bitmask = NotSet, subnets # <<>>
             PROVE  LET n == getInstanceCount IN
                    /\ 8 * Pow2[CeilLog2(n)] <= Size(env.baseMask) => Served = DOMAIN subnets
                    /\ \A i \in Served : \/ subnets[i].mask = Largest
                                         \/ 2 * n * Size(subnets[i].mask) > Size(env.baseMask)
  BY DEF DefaultServesEveryone
<1> DEFINE n == getInstanceCount
           c == CeilLog2(n)
           bm == env.baseMask
           mask == InstanceBitmask
<1>1. env \in Envs /\ Len(subnets) <= n /\ n \in Nat
  BY CountIsNat DEF SubnetsInv
<1>2. DOMAIN subnets = 1 .. Len(subnets) /\ Len(subnets) \in Nat
  BY ServedIs
<1>3. n \in Nat \ {0}
  <2>1. Len(subnets) # 0
    BY EmptySeq DEF SubnetsInv, SubnetsTypeOK
  <2> QED BY <1>1, <1>2, <2>1
<1>4. c \in Nat /\ Pow2[c] >= n /\ \A j \in 0 .. c - 1 : Pow2[j] < n
  BY <1>3, CeilLog2Is
<1>5. mask \in Int /\ mask >= Largest /\ mask >= bm + c /\ (mask = Largest \/ mask = bm + c)
  BY <1>1, BitmaskIs
<1>6. bm \in 1 .. Smallest + 1 /\ Width \in Nat /\ Width >= 3 /\ Largest \in 0 .. Smallest
  BY <1>1, SubnetsAssumption DEF Envs, Smallest
<1>7. Served = {i \in DOMAIN subnets : HasSubnet(i)}
  BY ServedIs
<1> HIDE DEF n, c, bm, mask
<1>8. ASSUME 8 * Pow2[c] <= Size(bm) PROVE Served = DOMAIN subnets
  <2>1. Pow2[3] = 8
    BY EightAddresses
  <2>2. 3 + c \in Nat /\ Width - bm \in Nat
    BY <1>4, <1>6 DEF Smallest
  <2>3. Pow2[3 + c] = 8 * Pow2[c]
    BY <1>4, <2>1, Pow2Sum
  <2>4. Pow2[3 + c] <= Pow2[Width - bm]
    BY <1>8, <2>3 DEF Size
  <2>5. 3 + c <= Width - bm
    BY <2>2, <2>4, Pow2Monotone
  <2>6. bm <= Smallest /\ bm + c <= Smallest
    BY <1>4, <1>6, <2>5 DEF Smallest
  <2>7. mask \in bm .. Smallest /\ mask - bm \in Nat /\ c <= mask - bm
    BY <1>4, <1>5, <1>6, <2>6 DEF Smallest
  <2>8. Pow2[c] <= Pow2[mask - bm] /\ Pow2[mask - bm] \in Nat /\ Pow2[c] \in Nat
    BY <1>4, <2>7, Pow2Monotone, Pow2Grows
  <2>9. \A i \in DOMAIN subnets : i \in 1 .. Pow2[mask - bm]
    BY <1>1, <1>2, <1>4, <2>8
  <2>10. \A i \in DOMAIN subnets : HasSubnet(i)
    BY <2>6, <2>7, <2>9 DEF HasSubnet, bm, mask
  <2> QED BY <1>7, <2>10
<1>9. ASSUME NEW i \in Served, subnets[i].mask # Largest
      PROVE  2 * n * Size(subnets[i].mask) > Size(bm)
  <2>1. subnets[i].mask = mask
    <3>1. \E q \in Nat : \A j \in Served :
            subnets[j] = [base |-> Size(env.baseMask) * q + Size(InstanceBitmask) * (j - 1),
                          mask |-> InstanceBitmask]
      BY ServedIs
    <3>2. PICK q \in Nat : subnets[i] =
            [base |-> Size(env.baseMask) * q + Size(InstanceBitmask) * (i - 1),
             mask |-> InstanceBitmask]
      BY <3>1
    <3> DEFINE b == Size(env.baseMask) * q + Size(InstanceBitmask) * (i - 1)
    <3>3. subnets[i] = [base |-> b, mask |-> mask]
      BY <3>2 DEF mask
    <3> HIDE DEF b
    <3> QED BY <3>3
  <2>2. mask = bm + c /\ mask - bm = c
    BY <1>4, <1>5, <1>6, <1>9, <2>1
  <2>3. bm \in 1 .. Smallest /\ mask \in bm .. Smallest
    BY <1>6, <1>7 DEF HasSubnet, bm, mask, Smallest
  <2> DEFINE P == Size(mask)
             p == Pow2[c]
  <2>4. P \in Nat /\ P >= 8 /\ Size(bm) = p * P
    BY <2>2, <2>3, Sizes
  <2>5. p \in Nat /\ p < 2 * n
    <3>1. CASE c = 0
      BY <1>3, <3>1, Pow2Doubles
    <3>2. CASE c # 0
      <4>1. c - 1 \in 0 .. c - 1 /\ c - 1 \in Nat /\ (c - 1) + 1 = c
        BY <1>4, <3>2
      <4>2. Pow2[c - 1] < n /\ Pow2[c - 1] \in Nat
        BY <1>4, <4>1, Pow2Grows
      <4>3. Pow2[(c - 1) + 1] = 2 * Pow2[c - 1]
        BY <4>1, Pow2Doubles
      <4> QED BY <1>3, <4>1, <4>2, <4>3
    <3> QED BY <3>1, <3>2
  <2> HIDE DEF P, p
  <2>6. p * P < 2 * n * P
    BY <1>3, <2>4, <2>5
  <2> QED BY <2>1, <2>4, <2>6 DEF P
<1> QED BY <1>8, <1>9 DEF n, c, bm

\* "Default to assigning as much of the subnet per openvpn process as possible",
\* for every number of instances and every base network.
THEOREM DefaultIsEnough == SubnetsSpec => []DefaultServesEveryone
BY SubnetsInvariant, DefaultBySubnets, PTL

=============================================================================
