------------------------- MODULE RateLimiter_proofs -------------------------
(***************************************************************************)
(* Proofs about the throttle, for any rules, windows, clients and room for *)
(* keys: what a client can get through within a window, which keys are     *)
(* remembered, and that Retry-After is the least wait that helps.          *)
(***************************************************************************)
EXTENDS RateLimiter, Data_proofs

-----------------------------------------------------------------------------
(* The clock.                                                              *)

\* The remainder is the number below b that differs from a by a multiple of b.
LEMMA RemainderIs ==
  ASSUME NEW a \in Nat, NEW b \in Nat \ {0}, NEW q \in Int, NEW r \in 0..(b - 1), a = q * b + r
  PROVE  a % b = r
<1> DEFINE d == a \div b
           m == a % b
<1>1. d \in Int /\ m \in 0..(b - 1) /\ a = d * b + m
  OBVIOUS
<1> HIDE DEF d, m
<1>2. (q - d) * b = m - r
  BY <1>1
<1>3. m - r < b /\ r - m < b
  BY <1>1
<1>4. ~ (q - d >= 1)
  <2>1. q - d >= 1 => (q - d) * b >= b
    BY <1>1
  <2>. QED BY <2>1, <1>1, <1>2, <1>3
<1>5. ~ (q - d <= -1)
  <2>1. q - d <= -1 => (q - d) * b <= -b
    BY <1>1
  <2>. QED BY <2>1, <1>1, <1>2, <1>3
<1>6. q - d = 0
  BY <1>1, <1>4, <1>5
<1>7. m = r
  BY <1>1, <1>2, <1>6
<1>. QED BY <1>7 DEF m

\* A number is a multiple of b and its remainder.
LEMMA Division ==
  ASSUME NEW a \in Nat, NEW b \in Nat \ {0}
  PROVE  \E q \in Int : a = q * b + (a % b) /\ (a % b) \in 0..(b - 1)
<1> DEFINE d == a \div b
           m == a % b
<1>1. d \in Int /\ m \in 0..(b - 1) /\ a = d * b + m
  OBVIOUS
<1>. QED BY <1>1

\* Counting on, the remainder counts on and starts again at b.
LEMMA NextRemainder ==
  ASSUME NEW a \in Nat, NEW b \in Nat \ {0}
  PROVE  (a + 1) % b = IF a % b = b - 1 THEN 0 ELSE (a % b) + 1
<1>1. PICK q \in Int : a = q * b + (a % b) /\ (a % b) \in 0..(b - 1)
  BY Division
<1> DEFINE m == a % b
<1>2. a = q * b + m /\ m \in 0..(b - 1)
  BY <1>1
<1> HIDE DEF m
<1>3. CASE m = b - 1
  <2>1. a + 1 = (q + 1) * b + 0 /\ 0 \in 0..(b - 1) /\ q + 1 \in Int /\ a + 1 \in Nat
    BY <1>2, <1>3
  <2>2. (a + 1) % b = 0
    BY <2>1, RemainderIs
  <2>. QED BY <1>3, <2>2 DEF m
<1>4. CASE m # b - 1
  <2>1. a + 1 = q * b + (m + 1) /\ m + 1 \in 0..(b - 1) /\ a + 1 \in Nat
    BY <1>2, <1>4
  <2>2. (a + 1) % b = m + 1
    BY <2>1, RemainderIs
  <2>. QED BY <1>4, <2>2 DEF m
<1>. QED BY <1>3, <1>4

W(k) == Window[RuleOf(k)]
M(k) == MaxRequests[RuleOf(k)]

\* The rule of a key.
LEMMA KeyFacts ==
  ASSUME NEW k \in Keys
  PROVE  RuleOf(k) \in Rules /\ W(k) \in Nat \ {0} /\ M(k) \in Nat \ {0} /\ Cycle % W(k) = 0
<1>1. RuleOf(k) \in Rules
  BY DEF Keys, RuleOf
<1>. QED BY <1>1, LimiterAssumption DEF W, M

\* How far the window of a key has got, and how a second moves it.
LEMMA Second ==
  ASSUME NEW k \in Keys, clock \in 0..(Cycle - 1)
  PROVE  /\ Elapsed(k) \in 0..(W(k) - 1)
         /\ clock' = (clock + 1) % Cycle =>
              /\ clock' \in 0..(Cycle - 1)
              /\ Elapsed(k)' = IF Elapsed(k) = W(k) - 1 THEN 0 ELSE Elapsed(k) + 1
<1> DEFINE w == W(k)
<1>0. w \in Nat \ {0} /\ Cycle \in Nat \ {0} /\ Cycle % w = 0 /\ clock \in Nat
  BY KeyFacts, LimiterAssumption
<1>1. Elapsed(k) = clock % w /\ Elapsed(k)' = clock' % w
  BY DEF Elapsed, W
<1> HIDE DEF w
<1>2. clock % w \in 0..(w - 1)
  BY <1>0
<1>3. ASSUME clock' = (clock + 1) % Cycle
      PROVE  /\ clock' \in 0..(Cycle - 1)
             /\ clock' % w = IF clock % w = w - 1 THEN 0 ELSE (clock % w) + 1
  <2>1. clock % Cycle = clock
    <3>1. clock = 0 * Cycle + clock
      BY <1>0
    <3>. QED BY <1>0, <3>1, RemainderIs
  <2>2. (clock + 1) % Cycle = IF clock = Cycle - 1 THEN 0 ELSE clock + 1
    <3>1. (clock + 1) % Cycle =
            IF clock % Cycle = Cycle - 1 THEN 0 ELSE (clock % Cycle) + 1
      BY <1>0, NextRemainder
    <3>. QED BY <2>1, <3>1
  <2>3. CASE clock = Cycle - 1
    <3>1. clock' = 0
      BY <1>3, <2>2, <2>3
    <3>2. PICK q \in Int : Cycle = q * w + 0
      BY <1>0, Division
    <3>3. clock = (q - 1) * w + (w - 1) /\ w - 1 \in 0..(w - 1) /\ q - 1 \in Int
      BY <1>0, <2>3, <3>2
    <3>4. clock % w = w - 1
      BY <1>0, <3>3, RemainderIs
    <3>5. 0 = 0 * w + 0 /\ 0 \in 0..(w - 1)
      BY <1>0
    <3>6. 0 % w = 0
      BY <1>0, <3>5, RemainderIs
    <3>. QED BY <1>0, <3>1, <3>4, <3>6
  <2>4. CASE clock # Cycle - 1
    <3>1. clock' = clock + 1
      BY <1>3, <2>2, <2>4
    <3>2. (clock + 1) % w = IF clock % w = w - 1 THEN 0 ELSE (clock % w) + 1
      BY <1>0, NextRemainder
    <3>. QED BY <1>0, <2>4, <3>1, <3>2
  <2>. QED BY <2>3, <2>4
<1>. QED BY <1>1, <1>2, <1>3 DEF w

-----------------------------------------------------------------------------
(* Retry-After.                                                            *)

\* Ceil is the least integer that is not below the quotient.
LEMMA CeilFacts ==
  ASSUME NEW a \in Int, NEW b \in Nat \ {0}
  PROVE  Ceil(a, b) \in Int /\ Ceil(a, b) * b >= a /\ (Ceil(a, b) - 1) * b < a
<1> DEFINE d == (-a) \div b
<1>1. d \in Int /\ d * b <= -a /\ -a < (d + 1) * b
  OBVIOUS
<1>2. Ceil(a, b) = -d
  BY DEF Ceil
<1> HIDE DEF d
<1>3. (-d) * b = -(d * b) /\ (-d - 1) * b = -((d + 1) * b)
  BY <1>1
<1>. QED BY <1>1, <1>2, <1>3

\* Products keep the order of their factors.
LEMMA ProductOrder ==
  ASSUME NEW a \in Int, NEW b \in Int, NEW c \in Nat
  PROVE  /\ a <= b => a * c <= b * c
         /\ a < b /\ c > 0 => a * c < b * c
  OBVIOUS

\* Where there is headroom, the estimate reaches the limit n seconds into the
\* window: from then on it is no more, before it is above.
LEMMA WaitForHeadroom ==
  ASSUME NEW w \in Nat \ {0}, NEW max \in Nat \ {0}, NEW p \in Nat \ {0}, NEW c \in Nat,
         c < max, NEW e \in 0..(w - 1), p * (w - e) + c * w >= max * w,
         NEW n \in Int, n * p >= (p - (max - c)) * w, (n - 1) * p < (p - (max - c)) * w
  PROVE  /\ e <= n /\ n <= w
         /\ \A at \in 0..w : /\ at >= n => p * (w - at) + c * w <= max * w
                             /\ at > n => p * (w - at) + c * w < max * w
                             /\ at < n => p * (w - at) + c * w > max * w
<1> DEFINE x == (p - (max - c)) * w
<1>1. x = p * w - max * w + c * w
  BY ProductOrder
<1>2. \A at \in 0..w : p * (w - at) = p * w - at * p
  OBVIOUS
<1>3. x \in Int /\ p * w \in Int /\ max * w \in Int /\ c * w \in Int /\ n * p \in Int
      /\ (n - 1) * p = n * p - p
  OBVIOUS
<1>4. c * w < max * w
  BY ProductOrder
<1>5. x >= e * p /\ x < p * w
  BY <1>1, <1>2, <1>3, <1>4
<1>6. e <= n
  <2>1. n < e => n * p < e * p
    BY ProductOrder
  <2>. QED BY <1>3, <1>5, <2>1
<1>7. n <= w
  <2>1. w <= n - 1 => w * p <= (n - 1) * p
    BY ProductOrder
  <2>2. w * p = p * w
    OBVIOUS
  <2>. QED BY <1>3, <1>5, <2>1, <2>2
<1>8. ASSUME NEW at \in 0..w
      PROVE  /\ at >= n => p * (w - at) + c * w <= max * w
             /\ at > n => p * (w - at) + c * w < max * w
             /\ at < n => p * (w - at) + c * w > max * w
  <2>1. (at >= n => n * p <= at * p) /\ (at > n => n * p < at * p)
        /\ (at < n => at * p <= (n - 1) * p)
    BY ProductOrder
  <2>2. p * (w - at) + c * w - max * w = x - at * p
    BY <1>1, <1>2
  <2>3. at * p \in Int /\ p * (w - at) \in Int
    OBVIOUS
  <2> HIDE DEF x
  <2>. QED BY <1>3, <2>1, <2>2, <2>3 DEF x
<1>. QED BY <1>6, <1>7, <1>8

\* The integer that follows the quotient rounded down is the least one not below
\* it, unless the quotient is whole.
LEMMA NextInteger ==
  ASSUME NEW a \in Int, NEW b \in Nat \ {0}, NEW n \in Int, n * b >= a, (n - 1) * b < a
  PROVE  /\ a \div b + 1 \in Int
         /\ a \div b + 1 = n \/ (a \div b + 1 = n + 1 /\ n * b = a)
<1> DEFINE d == a \div b
<1>1. d \in Int /\ d * b <= a /\ a < (d + 1) * b
  OBVIOUS
<1> HIDE DEF d
<1>2. n * b \in Int /\ d * b \in Int /\ (n - 1) * b \in Int /\ (d + 1) * b \in Int
  BY <1>1
<1>3. n - 1 < d + 1
  <2>1. d + 1 <= n - 1 => (d + 1) * b <= (n - 1) * b
    BY <1>1, ProductOrder
  <2>. QED BY <1>1, <1>2, <2>1
<1>4. d <= n
  <2>1. n < d => n * b < d * b
    BY <1>1, ProductOrder
  <2>. QED BY <1>1, <1>2, <2>1
<1>5. d = n => n * b = a
  BY <1>1, <1>2
<1>. QED BY <1>1, <1>3, <1>4, <1>5 DEF d

\* The three parts of the estimate of a key left alone.
LEMMA EstimateLater ==
  ASSUME NEW k \in Keys, NEW seconds \in Int, Elapsed(k) \in Int
  PROVE  LET s == StateFor(k)
             at == Elapsed(k) + seconds
         IN  /\ at < W(k) =>
                  EstimatedAfter(k, seconds) = s.previous * (W(k) - at) + s.current * W(k)
             /\ at \in W(k)..(2 * W(k) - 1) =>
                  EstimatedAfter(k, seconds) = s.current * (2 * W(k) - at)
             /\ at > 2 * W(k) - 1 => EstimatedAfter(k, seconds) = 0
<1> DEFINE w == W(k)
           at == Elapsed(k) + seconds
           s == StateFor(k)
<1>1. w \in Nat \ {0}
  BY KeyFacts
<1>2. EstimatedAfter(k, seconds) =
        CASE at < w -> s.previous * (w - at) + s.current * w
          [] at \in w..(2 * w - 1) -> s.current * (2 * w - at)
          [] OTHER -> 0
  BY DEF EstimatedAfter, W
<1> HIDE DEF w, s
<1>3. at < w => EstimatedAfter(k, seconds) = s.previous * (w - at) + s.current * w
  BY <1>1, <1>2
<1>4. at \in w..(2 * w - 1) => EstimatedAfter(k, seconds) = s.current * (2 * w - at)
  BY <1>1, <1>2
<1>5. at > 2 * w - 1 => EstimatedAfter(k, seconds) = 0
  BY <1>1, <1>2
<1>. QED BY <1>3, <1>4, <1>5 DEF w, s

\* A second into the next window and later a key left alone is below the limit.
LEMMA NextWindow ==
  ASSUME NEW w \in Nat \ {0}, NEW max \in Nat \ {0}, NEW c \in 0..max,
         NEW at \in w..(2 * w - 1)
  PROVE  /\ c * (2 * w - at) \in Int /\ max * w \in Int /\ 0 < max * w
         /\ at > w => c * (2 * w - at) < max * w
         /\ c < max => c * (2 * w - at) < max * w
<1> DEFINE r == 2 * w - at
<1>1. r \in 0..w /\ (at > w => r < w)
  OBVIOUS
<1> HIDE DEF r
<1>2. /\ c * r \in Int /\ max * r \in Int /\ max * w \in Int /\ c * w \in Int /\ r \in Nat
      /\ r * c = c * r /\ r * max = max * r /\ w * max = max * w /\ w * c = c * w
  BY <1>1
<1>3. c * r <= max * r /\ max * r <= max * w
  <2>1. r * max <= w * max
    BY <1>1, <1>2, ProductOrder
  <2>2. c * r <= max * r
    BY <1>1, <1>2, ProductOrder
  <2>. QED BY <1>2, <2>1, <2>2
<1>4. r < w => max * r < max * w
  <2>1. r < w => r * max < w * max
    BY <1>1, <1>2, ProductOrder
  <2>. QED BY <1>2, <2>1
<1>5. c < max => c * r < max * w
  <2>1. c * r <= c * w
    <3>1. r * c <= w * c
      BY <1>1, <1>2, ProductOrder
    <3>. QED BY <1>2, <3>1
  <2>2. c < max => c * w < max * w
    BY ProductOrder
  <2>. QED BY <1>2, <2>1, <2>2
<1>6. 0 < max * w
  OBVIOUS
<1>. QED BY <1>1, <1>2, <1>3, <1>4, <1>5, <1>6 DEF r

\* Neither a second too early nor more than one too late, whatever a key has
\* counted and however the answer was rounded.
LEMMA RetryIsTight ==
  ASSUME NEW k \in Keys, Elapsed(k) \in 0..(W(k) - 1),
         StateFor(k).current \in 0..M(k), StateFor(k).previous \in 0..M(k),
         Over(k, StateFor(k)), NEW wait \in SecondsUntilAllowed(k, StateFor(k))
  PROVE  /\ EstimatedAfter(k, wait + 1) < M(k) * W(k)
         /\ wait > 1 => ~ (EstimatedAfter(k, wait - 1) < M(k) * W(k))
<1> DEFINE w == W(k)
           max == M(k)
           s == StateFor(k)
           c == s.current
           p == s.previous
           e == Elapsed(k)
           x == (p - (max - c)) * w
           room == max - c > 0 /\ p > 0
           After(t) == EstimatedAfter(k, t)
           \* the first second of the window at which the estimate is no more
           \* than the limit
           first == IF room THEN Ceil(x, p) ELSE w
           second == IF room THEN x \div p + 1 ELSE w + 1
<1>0. /\ w \in Nat \ {0} /\ max \in Nat \ {0} /\ c \in Nat /\ p \in Nat
      /\ c <= max /\ p <= max /\ e \in 0..(w - 1) /\ w * 1 = w
      /\ x \in Int /\ max * w \in Int
  BY KeyFacts
<1>1. p * (w - e) + c * w >= max * w
  BY DEF Over, Estimated, W, M
<1>2. wait \in {AtLeastOneSecond(first - e), AtLeastOneSecond(second - e)}
  <2>1. SecondsUntilAllowed(k, s) = IF room THEN Rounded(x, p, e) ELSE Rounded(w, 1, e)
    BY DEF SecondsUntilAllowed, W, M
  <2>2. Ceil(w, 1) = w /\ w \div 1 = w
    <3> HIDE DEF w
    <3> DEFINE v == Ceil(w, 1)
    <3>1. v \in Int /\ v * 1 >= w /\ (v - 1) * 1 < w
      BY <1>0, CeilFacts
    <3>2. w \div 1 = w
      BY <1>0
    <3> HIDE DEF v
    <3>3. v = w
      BY <1>0, <3>1
    <3>. QED BY <3>2, <3>3 DEF v
  <2>3. wait \in IF room THEN Rounded(x, p, e) ELSE Rounded(w, 1, e)
    BY <2>1
  <2>4. CASE room
    <3>1. first = Ceil(x, p) /\ second = x \div p + 1
      BY <2>4
    <3> HIDE DEF w, x, p, e, room, first, second
    <3>2. wait \in Rounded(x, p, e)
      BY <2>3, <2>4
    <3>3. Rounded(x, p, e) =
            {AtLeastOneSecond(Ceil(x, p) - e), AtLeastOneSecond((x \div p + 1) - e)}
      BY DEF Rounded
    <3>4. Rounded(x, p, e) = {AtLeastOneSecond(first - e), AtLeastOneSecond(second - e)}
      BY <3>1, <3>3
    <3>. QED BY <3>2, <3>4
  <2>5. CASE ~ room
    <3>1. first = w /\ second = w + 1
      BY <2>5
    <3> HIDE DEF w, x, p, e, room, first, second
    <3>2. wait \in Rounded(w, 1, e)
      BY <2>3, <2>5
    <3>3. Rounded(w, 1, e) =
            {AtLeastOneSecond(Ceil(w, 1) - e), AtLeastOneSecond((w \div 1 + 1) - e)}
      BY DEF Rounded
    <3>4. Rounded(w, 1, e) = {AtLeastOneSecond(first - e), AtLeastOneSecond(second - e)}
      BY <2>2, <3>1, <3>3
    <3>. QED BY <3>2, <3>4
  <2>. QED BY <2>4, <2>5
<1>3. \A t \in Int :
        /\ e + t < w => After(t) = p * (w - (e + t)) + c * w
        /\ e + t \in w..(2 * w - 1) => After(t) = c * (2 * w - (e + t))
        /\ e + t > 2 * w - 1 => After(t) = 0
  <2>1. e \in Int
    BY <1>0
  <2>. QED BY <2>1, EstimateLater
<1> HIDE DEF w, max, s, c, p, e, After, x
<1>4. /\ first \in Int /\ second \in Int /\ e <= first /\ first <= w
      /\ second = first \/ (second = first + 1 /\ (room => first * p = x))
      /\ room => \A at \in 0..w :
                    /\ at > first => p * (w - at) + c * w < max * w
                    /\ at < first => p * (w - at) + c * w > max * w
      /\ room => c < max
      /\ ~ room => c = max
  <2>1. CASE room
    <3>1. first \in Int /\ first * p >= x /\ (first - 1) * p < x
      BY <1>0, <2>1, CeilFacts
    <3>0. second = x \div p + 1
      BY <2>1
    <3> HIDE DEF first, second
    <3>2. second \in Int /\ (second = first \/ (second = first + 1 /\ first * p = x))
      <4> HIDE DEF room
      <4> DEFINE d == x \div p + 1
      <4>1. p \in Nat \ {0}
        BY <1>0, <2>1 DEF room
      <4>2. d \in Int /\ (d = first \/ (d = first + 1 /\ first * p = x))
        BY <1>0, <3>1, <4>1, NextInteger
      <4>. QED BY <3>0, <4>2
    <3>3. x = (p - (max - c)) * w
      BY DEF x
    <3>4. /\ e <= first /\ first <= w
          /\ \A at \in 0..w : /\ at > first => p * (w - at) + c * w < max * w
                              /\ at < first => p * (w - at) + c * w > max * w
      BY <1>0, <1>1, <2>1, <3>1, <3>3, WaitForHeadroom
    <3>. QED BY <1>0, <2>1, <3>1, <3>2, <3>4
  <2>2. CASE ~ room
    <3>1. first = w /\ second = w + 1
      BY <2>2
    <3>2. c = max
      <4>1. CASE max - c > 0
        <5>1. p = 0 /\ c * w < max * w /\ p * (w - e) = 0
          BY <1>0, <2>2, <4>1, ProductOrder
        <5>. QED BY <1>0, <1>1, <5>1
      <4>. QED BY <1>0, <4>1
    <3>. QED BY <1>0, <2>2, <3>1, <3>2
  <2>. QED BY <2>1, <2>2
<1> HIDE DEF first, second
\* Later than that second the key is below the limit,
<1>5. ASSUME NEW t \in Int, e + t > first PROVE After(t) < max * w
  <2>1. CASE e + t < w
    <3>1. room /\ e + t \in 0..w
      BY <1>0, <1>4, <1>5, <2>1 DEF first
    <3>. QED BY <1>3, <1>4, <1>5, <2>1, <3>1
  <2>2. CASE e + t \in w..(2 * w - 1)
    <3>1. c < max \/ e + t > w
      BY <1>0, <1>4, <1>5, <2>2 DEF first
    <3>2. c \in 0..max
      BY <1>0
    <3>3. c * (2 * w - (e + t)) < max * w
      BY <1>0, <2>2, <3>1, <3>2, NextWindow
    <3>. QED BY <1>3, <2>2, <3>3
  <2>3. CASE e + t > 2 * w - 1
    <3>1. 0 < max * w
      BY <1>0
    <3>. QED BY <1>3, <2>3, <3>1
  <2>. QED BY <1>0, <2>1, <2>2, <2>3
\* before it above, and at it not below if it is whole.
<1>6. ASSUME NEW t \in Nat, e + t < first \/ (second = first + 1 /\ e + t = first)
      PROVE  ~ (After(t) < max * w)
  <2>1. CASE e + t < w
    <3>0. e + t \in 0..w
      BY <1>0, <2>1
    <3>1. After(t) = p * (w - (e + t)) + c * w
      BY <1>3, <2>1
    <3>2. p * (w - (e + t)) + c * w \in Int
      BY <1>0
    <3>3. p * (w - (e + t)) + c * w >= max * w
      <4>1. CASE ~ room
        <5>1. p * (w - (e + t)) >= 0 /\ c * w = max * w
          <6>1. w - (e + t) \in Nat
            BY <1>0, <2>1
          <6>2. p * (w - (e + t)) \in Nat
            BY <1>0, <6>1
          <6>. QED BY <1>4, <4>1, <6>2
        <5>. QED BY <1>0, <3>2, <5>1
      <4>2. CASE room /\ e + t < first
        BY <1>0, <1>4, <3>0, <3>2, <4>2
      <4>3. CASE room /\ second = first + 1 /\ e + t = first
        <5>1. first * p = x
          BY <1>4, <4>3
        <5>2. x = p * w - max * w + c * w
          <6>1. x = (p - (max - c)) * w
            BY DEF x
          <6>. QED BY <1>0, <6>1
        <5>3. p * (w - first) = p * w - first * p
          BY <1>0, <1>4
        <5>4. p * w \in Int /\ c * w \in Int /\ first * p \in Int
          BY <1>0, <1>4
        <5>. QED BY <1>0, <4>3, <5>1, <5>2, <5>3, <5>4
      <4>. QED BY <1>6, <4>1, <4>2, <4>3
    <3>. QED BY <1>0, <3>1, <3>2, <3>3
  <2>2. CASE ~ (e + t < w)
    <3>1. e + t = w /\ first = w /\ second = first + 1
      BY <1>0, <1>4, <1>6, <2>2
    <3>2. ~ room
      <4>1. room => w * p = x /\ w \in 0..w
        BY <1>0, <1>4, <3>1
      <4>2. x = p * w - max * w + c * w
        <5>1. x = (p - (max - c)) * w
          BY DEF x
        <5>. QED BY <1>0, <5>1
      <4>3. c < max => c * w < max * w
        BY <1>0, ProductOrder
      <4>4. w * p = p * w /\ p * w \in Int /\ c * w \in Int
        BY <1>0
      <4>. QED BY <1>0, <1>4, <4>1, <4>2, <4>3, <4>4
    <3>3. After(t) = c * (2 * w - (e + t)) /\ 2 * w - (e + t) = w
      BY <1>0, <1>3, <3>1
    <3>. QED BY <1>0, <1>4, <3>2, <3>3
  <2>. QED BY <2>1, <2>2
<1>7. /\ wait \in Nat /\ e + (wait + 1) > first
      /\ wait > 1 => wait - 1 \in Nat /\
            (e + (wait - 1) < first \/ (second = first + 1 /\ e + (wait - 1) = first))
  BY <1>0, <1>2, <1>4 DEF AtLeastOneSecond
<1>8. After(wait + 1) < max * w
  <2>1. wait + 1 \in Int
    BY <1>7
  <2>. QED BY <1>5, <1>7, <2>1
<1>9. wait > 1 => ~ (After(wait - 1) < max * w)
  BY <1>6, <1>7
<1>. QED BY <1>8, <1>9 DEF w, max, After

-----------------------------------------------------------------------------
(* The order the keys were used in.                                        *)

\* The keys of a sequence behind its i-th.
Later(s, i) == {s[j] : j \in (i + 1)..Len(s)}

Distinct(s) == \A i, j \in 1..Len(s) : s[i] = s[j] => i = j

\* So many keys follow the i-th.
LEMMA LaterCount ==
  ASSUME NEW s \in Seq(Keys), Distinct(s), NEW i \in 0..Len(s)
  PROVE  IsFiniteSet(Later(s, i)) /\ Cardinality(Later(s, i)) = Len(s) - i
<1> DEFINE I == (i + 1)..Len(s)
           T == Later(s, i)
           f == [j \in I |-> s[j]]
<1>1. IsFiniteSet(I) /\ Cardinality(I) = Len(s) - i
  <2>1. i + 1 \in Int /\ Len(s) \in Int /\ i \in Nat /\ i <= Len(s)
    OBVIOUS
  <2>2. \A a, b \in Int : IsFiniteSet(a..b) /\ Cardinality(a..b) = IF a > b THEN 0 ELSE b - a + 1
    BY FS_Interval
  <2>3. IsFiniteSet(I) /\ Cardinality(I) = IF i + 1 > Len(s) THEN 0 ELSE Len(s) - (i + 1) + 1
    BY <2>1, <2>2
  <2>. QED BY <2>1, <2>3
<1>2. f \in [I -> T] /\ (\A y \in T : \E j \in I : f[j] = y)
      /\ \A x, y \in I : f[x] = f[y] => x = y
  BY DEF Later, Distinct
<1> HIDE DEF I, T, f
<1>3. f \in Bijection(I, T)
  BY <1>2, Zenon DEF Bijection, Injection, Surjection, IsInjective
<1>. QED BY <1>1, <1>3, FS_Bijection, Zenon DEF ExistsBijection, T

\* What is left without k: the other keys, in their order.
LEMMA Removed ==
  ASSUME NEW s \in Seq(Keys), Distinct(s), NEW k \in Keys
  PROVE  LET q == RemoveFirst(s, k)
         IN  /\ q \in Seq(Keys)
             /\ Len(q) = IF k \in ToSet(s) THEN Len(s) - 1 ELSE Len(s)
             /\ \E up \in [1..Len(q) -> 1..Len(s)] :
                  /\ \A i, j \in 1..Len(q) : i < j => up[i] < up[j]
                  /\ \A i \in 1..Len(q) : q[i] = s[up[i]] /\ q[i] # k
                  /\ \A i \in 1..Len(s) : s[i] # k => \E j \in 1..Len(q) : up[j] = i
<1> DEFINE q == RemoveFirst(s, k)
<1>1. CASE k \in ToSet(s)
  <2>1. PICK p \in 1..Len(s) : s[p] = k
    BY <1>1 DEF ToSet
  <2>2. \A i \in 1..Len(s) : s[i] = k => i = p
    BY <2>1 DEF Distinct
  <2>3. {i \in 1..Len(s) : s[i] = k} = {p}
    BY <2>1, <2>2
  <2>4. Min({p}) = p
    BY DEF Min
  <2>5. SelectInSeq(s, LAMBDA v : v = k) = p
    BY <2>3, <2>4 DEF SelectInSeq
  <2>6. q = SubSeq(s, 1, p - 1) \o SubSeq(s, p + 1, Len(s))
    BY <2>1, <2>5 DEF RemoveFirst, RemoveAt
  <2>7. q \in Seq(Keys) /\ Len(q) = Len(s) - 1
        /\ \A i \in 1..Len(q) : q[i] = IF i < p THEN s[i] ELSE s[i + 1]
    <3> DEFINE A == SubSeq(s, 1, p - 1)
               B == SubSeq(s, p + 1, Len(s))
    <3>1. A \in Seq(Keys) /\ Len(A) = p - 1 /\ \A i \in 1..(p - 1) : A[i] = s[i]
      OBVIOUS
    <3>2. B \in Seq(Keys) /\ Len(B) = Len(s) - p /\ \A i \in 1..(Len(s) - p) : B[i] = s[p + i]
      OBVIOUS
    <3>3. q = A \o B
      BY <2>6
    <3> HIDE DEF A, B, q
    <3>4. q \in Seq(Keys) /\ Len(q) = Len(s) - 1
          /\ \A i \in 1..(Len(s) - 1) : q[i] = IF i <= p - 1 THEN A[i] ELSE B[i - (p - 1)]
      <4>1. /\ A \o B \in Seq(Keys) /\ Len(A \o B) = Len(A) + Len(B)
            /\ \A i \in 1..(Len(A) + Len(B)) :
                  (A \o B)[i] = IF i <= Len(A) THEN A[i] ELSE B[i - Len(A)]
        BY <3>1, <3>2, ConcatProperties
      <4>2. Len(A) + Len(B) = Len(s) - 1
        BY <3>1, <3>2
      <4>. QED BY <3>1, <3>3, <4>1, <4>2
    <3>5. ASSUME NEW i \in 1..(Len(s) - 1) PROVE q[i] = IF i < p THEN s[i] ELSE s[i + 1]
      <4>1. CASE i < p
        BY <3>1, <3>4, <4>1
      <4>2. CASE i >= p
        <5>1. i - (p - 1) \in 1..(Len(s) - p) /\ p + (i - (p - 1)) = i + 1 /\ ~ (i <= p - 1)
          BY <4>2
        <5>. QED BY <3>2, <3>4, <4>2, <5>1
      <4>. QED BY <4>1, <4>2
    <3>. QED BY <3>4, <3>5
  <2> HIDE DEF q
  <2> DEFINE up == [i \in 1..Len(q) |-> IF i < p THEN i ELSE i + 1]
  <2>8. up \in [1..Len(q) -> 1..Len(s)] /\ \A i, j \in 1..Len(q) : i < j => up[i] < up[j]
    BY <2>7
  <2>9. \A i \in 1..Len(q) : q[i] = s[up[i]] /\ up[i] # p
    BY <2>7
  <2>10. \A i \in 1..Len(q) : q[i] # k
    <3>1. ASSUME NEW i \in 1..Len(q), q[i] = k PROVE FALSE
      <4>1. up[i] \in 1..Len(s) /\ s[up[i]] = k /\ up[i] # p
        <5> HIDE DEF up
        <5>. QED BY <2>8, <2>9, <3>1
      <4>. QED BY <2>2, <4>1
    <3>. QED BY <3>1
  <2>11. \A i \in 1..Len(s) : s[i] # k => \E j \in 1..Len(q) : up[j] = i
    <3>1. ASSUME NEW i \in 1..Len(s), s[i] # k PROVE \E j \in 1..Len(q) : up[j] = i
      <4>1. i # p
        BY <2>1, <3>1
      <4>2. CASE i < p
        BY <2>1, <2>7, <4>2
      <4>3. CASE i > p
        <5>1. i - 1 \in 1..Len(q) /\ up[i - 1] = i
          BY <2>1, <2>7, <4>3
        <5>. QED BY <5>1
      <4>. QED BY <2>1, <4>1, <4>2, <4>3
    <3>. QED BY <3>1
  <2> HIDE DEF up
  <2>. QED BY <1>1, <2>7, <2>8, <2>9, <2>10, <2>11 DEF q
<1>2. CASE k \notin ToSet(s)
  <2>1. q = s /\ \A i \in 1..Len(s) : s[i] # k
    BY <1>2 DEF ToSet, RemoveFirst
  <2> DEFINE up == [i \in 1..Len(s) |-> i]
  <2>2. /\ up \in [1..Len(s) -> 1..Len(s)]
        /\ \A i, j \in 1..Len(s) : i < j => up[i] < up[j]
        /\ \A i \in 1..Len(s) : s[i] = s[up[i]] /\ up[i] = i
    OBVIOUS
  <2> HIDE DEF up, q
  <2>. QED BY <1>2, <2>1, <2>2 DEF q
<1>. QED BY <1>1, <1>2

\* With k at the end: k follows all the others, which follow each other as before.
LEMMA Moved ==
  ASSUME order \in Seq(Keys), Distinct(order), NEW k \in Keys
  PROVE  LET r == MovedToEnd(k)
         IN  /\ r \in Seq(Keys) /\ Distinct(r) /\ ToSet(r) = Tracked \cup {k}
             /\ Len(r) >= 1 /\ Len(r) <= Len(order) + 1 /\ r[Len(r)] = k
             /\ \A i \in 1..(Len(r) - 1) :
                  \E n \in 1..Len(order) :
                    r[i] = order[n] /\ r[i] # k /\ Later(r, i) = Later(order, n) \cup {k}
<1> DEFINE q == RemoveFirst(order, k)
           r == MovedToEnd(k)
<1>1. /\ q \in Seq(Keys)
      /\ Len(q) = IF k \in ToSet(order) THEN Len(order) - 1 ELSE Len(order)
      /\ \E up \in [1..Len(q) -> 1..Len(order)] :
                  /\ \A i, j \in 1..Len(q) : i < j => up[i] < up[j]
                  /\ \A i \in 1..Len(q) : q[i] = order[up[i]] /\ q[i] # k
                  /\ \A i \in 1..Len(order) : order[i] # k => \E j \in 1..Len(q) : up[j] = i
  BY Removed
<1>2. PICK up \in [1..Len(q) -> 1..Len(order)] :
                  /\ \A i, j \in 1..Len(q) : i < j => up[i] < up[j]
                  /\ \A i \in 1..Len(q) : q[i] = order[up[i]] /\ q[i] # k
                  /\ \A i \in 1..Len(order) : order[i] # k => \E j \in 1..Len(q) : up[j] = i
  BY <1>1
<1>3. r = Append(q, k)
  BY DEF MovedToEnd
<1> HIDE DEF q, r
<1>4. /\ r \in Seq(Keys) /\ Len(r) = Len(q) + 1 /\ r[Len(r)] = k
      /\ \A i \in 1..Len(q) : r[i] = order[up[i]] /\ r[i] # k
  BY <1>1, <1>2, <1>3
<1>5. Distinct(r)
  <2>1. ASSUME NEW i \in 1..Len(r), NEW j \in 1..Len(r), r[i] = r[j], i < j PROVE FALSE
    <3>1. i \in 1..Len(q) /\ r[i] # k
      BY <1>1, <1>4, <2>1
    <3>2. j \in 1..Len(q)
      BY <1>1, <1>4, <2>1, <3>1
    <3>3. up[i] = up[j] /\ up[i] < up[j]
      BY <1>2, <1>4, <2>1, <3>1, <3>2 DEF Distinct
    <3>4. up[i] \in 1..Len(order) /\ Len(order) \in Nat
      BY <1>2, <3>1
    <3>5. up[i] \in Int
      BY <3>4
    <3>. QED BY <3>3, <3>5
  <2>. QED BY <2>1, <1>4 DEF Distinct
<1>6. ToSet(r) = Tracked \cup {k}
  <2>1. ASSUME NEW x, x \in ToSet(r) PROVE x \in Tracked \cup {k}
    <3>1. PICK i \in 1..Len(r) : x = r[i]
      BY <1>4, <2>1 DEF ToSet
    <3>2. i \in 1..Len(q) \/ i = Len(r)
      BY <1>1, <1>4
    <3>3. ASSUME i \in 1..Len(q) PROVE x \in Tracked
      <4>1. up[i] \in 1..Len(order) /\ x = order[up[i]]
        BY <1>2, <1>4, <3>1, <3>3
      <4>. QED BY <4>1 DEF Tracked, ToSet
    <3>. QED BY <1>4, <3>1, <3>2, <3>3
  <2>2. ASSUME NEW x, x \in Tracked, x # k PROVE x \in ToSet(r)
    <3>1. PICK i \in 1..Len(order) : x = order[i]
      BY <2>2 DEF Tracked, ToSet
    <3>2. PICK j \in 1..Len(q) : up[j] = i
      BY <1>2, <2>2, <3>1
    <3>3. j \in 1..Len(r)
      BY <1>1, <1>4, <3>2
    <3>. QED BY <1>4, <3>1, <3>2, <3>3 DEF ToSet
  <2>3. k \in ToSet(r)
    BY <1>1, <1>4 DEF ToSet
  <2>. QED BY <2>1, <2>2, <2>3
<1>7. ASSUME NEW i \in 1..(Len(r) - 1)
      PROVE  \E n \in 1..Len(order) :
                r[i] = order[n] /\ r[i] # k /\ Later(r, i) = Later(order, n) \cup {k}
  <2> DEFINE n == up[i]
  <2>0. i \in 1..Len(q) /\ n \in 1..Len(order) /\ r[i] = order[n] /\ r[i] # k
    <3>1. i \in 1..Len(q)
      BY <1>1, <1>4
    <3>. QED BY <1>2, <1>4, <3>1
  <2> HIDE DEF n
  <2>1. ASSUME NEW x, x \in Later(r, i) PROVE x \in Later(order, n) \cup {k}
    <3>1. PICK j \in (i + 1)..Len(r) : x = r[j]
      BY <2>1 DEF Later
    <3>2. CASE j = Len(r)
      BY <1>4, <3>1, <3>2
    <3>3. CASE j # Len(r)
      <4>1. j \in 1..Len(q) /\ i < j
        BY <1>1, <1>4, <2>0, <3>1, <3>3
      <4>2. up[j] \in 1..Len(order) /\ n < up[j] /\ x = order[up[j]]
        BY <1>2, <1>4, <2>0, <3>1, <4>1 DEF n
      <4>3. up[j] \in (n + 1)..Len(order)
        BY <2>0, <4>2
      <4>. QED BY <4>2, <4>3 DEF Later
    <3>. QED BY <3>2, <3>3
  <2>2. ASSUME NEW x, x \in Later(order, n), x # k PROVE x \in Later(r, i)
    <3>1. PICK m \in (n + 1)..Len(order) : x = order[m]
      BY <2>2 DEF Later
    <3>2. m \in 1..Len(order) /\ n < m
      BY <2>0, <3>1
    <3>3. PICK j \in 1..Len(q) : up[j] = m
      BY <1>2, <2>2, <3>1, <3>2
    <3>4. i < j
      <4>1. CASE j < i
        BY <1>2, <2>0, <3>2, <3>3, <4>1 DEF n
      <4>2. CASE j = i
        BY <2>0, <3>2, <3>3, <4>2 DEF n
      <4>. QED BY <2>0, <3>3, <4>1, <4>2
    <3>5. j \in (i + 1)..Len(r)
      BY <1>1, <1>4, <2>0, <3>3, <3>4
    <3>6. r[j] = x
      BY <1>4, <3>1, <3>3
    <3>. QED BY <3>5, <3>6 DEF Later
  <2>3. k \in Later(r, i)
    <3>1. Len(r) \in (i + 1)..Len(r)
      BY <1>1, <1>4, <2>0
    <3>. QED BY <1>4, <3>1 DEF Later
  <2>4. Later(r, i) = Later(order, n) \cup {k}
    BY <2>1, <2>2, <2>3
  <2>. QED BY <2>0, <2>4
<1>8. Len(r) >= 1 /\ Len(r) <= Len(order) + 1
  BY <1>1, <1>4
<1>. QED BY <1>4, <1>5, <1>6, <1>7, <1>8 DEF r

\* Where there is a key too many the first goes, and the rest stay as they are.
LEMMA WithinCapacity ==
  ASSUME NEW r \in Seq(Keys), Distinct(r), Len(r) >= 1, Len(r) <= MaxTrackedKeys + 1
  PROVE  LET kept == Capped(r)
         IN  /\ kept \in Seq(Keys) /\ Distinct(kept)
             /\ Len(kept) >= 1 /\ Len(kept) <= MaxTrackedKeys
             /\ kept[Len(kept)] = r[Len(r)] /\ ToSet(kept) \subseteq ToSet(r)
             /\ \A i \in 1..Len(kept) :
                  \E n \in 1..Len(r) :
                    /\ kept[i] = r[n] /\ Later(kept, i) = Later(r, n)
                    /\ n = Len(r) <=> i = Len(kept)
             /\ ToSet(r) # ToSet(kept) =>
                  Len(r) = MaxTrackedKeys + 1 /\ ToSet(r) \subseteq ToSet(kept) \cup {r[1]}
<1> DEFINE kept == Capped(r)
<1>0. MaxTrackedKeys \in Nat \ {0}
  BY LimiterAssumption
<1>1. CASE Len(r) <= MaxTrackedKeys
  <2>1. kept = r
    BY <1>0, <1>1 DEF Capped
  <2>2. \A i \in 1..Len(r) : r[i] = r[i] /\ Later(r, i) = Later(r, i) /\ (i = Len(r) <=> i = Len(r))
    OBVIOUS
  <2> HIDE DEF kept
  <2>. QED BY <1>1, <2>1, <2>2 DEF kept
<1>2. CASE Len(r) = MaxTrackedKeys + 1
  <2>1. kept = Tail(r)
    BY <1>0, <1>2 DEF Capped
  <2>2. /\ kept \in Seq(Keys) /\ Len(kept) = MaxTrackedKeys
        /\ \A i \in 1..Len(kept) : i + 1 \in 1..Len(r) /\ kept[i] = r[i + 1]
    BY <1>0, <1>2, <2>1
  <2> HIDE DEF kept
  <2>3. Distinct(kept)
    <3>1. ASSUME NEW i \in 1..Len(kept), NEW j \in 1..Len(kept), kept[i] = kept[j] PROVE i = j
      <4>1. i + 1 \in 1..Len(r) /\ j + 1 \in 1..Len(r) /\ r[i + 1] = r[j + 1]
        BY <2>2, <3>1
      <4>2. i + 1 = j + 1
        BY <4>1 DEF Distinct
      <4>. QED BY <2>2, <4>2
    <3>. QED BY <3>1 DEF Distinct
  <2>4. Len(kept) >= 1 /\ Len(r) = Len(kept) + 1 /\ kept[Len(kept)] = r[Len(r)]
    BY <1>0, <1>2, <2>2
  <2>5. ToSet(kept) \subseteq ToSet(r)
    BY <2>2 DEF ToSet
  <2>6. ASSUME NEW x \in ToSet(r), x # r[1] PROVE x \in ToSet(kept)
    <3>1. PICK i \in 1..Len(r) : x = r[i]
      BY DEF ToSet
    <3>2. i - 1 \in 1..Len(kept) /\ kept[i - 1] = x
      BY <2>2, <2>4, <2>6, <3>1
    <3>. QED BY <2>2, <3>2 DEF ToSet
  <2>7. ASSUME NEW i \in 1..Len(kept) PROVE Later(kept, i) = Later(r, i + 1)
    <3>1. ASSUME NEW x, x \in Later(kept, i) PROVE x \in Later(r, i + 1)
      <4>1. PICK j \in (i + 1)..Len(kept) : x = kept[j]
        BY <3>1 DEF Later
      <4>2. j + 1 \in ((i + 1) + 1)..Len(r) /\ x = r[j + 1]
        BY <2>2, <2>4, <4>1
      <4>. QED BY <4>2 DEF Later
    <3>2. ASSUME NEW x, x \in Later(r, i + 1) PROVE x \in Later(kept, i)
      <4>1. PICK j \in ((i + 1) + 1)..Len(r) : x = r[j]
        BY <3>2 DEF Later
      <4>2. j - 1 \in (i + 1)..Len(kept) /\ x = kept[j - 1]
        BY <2>2, <2>4, <4>1
      <4>. QED BY <4>2 DEF Later
    <3>. QED BY <3>1, <3>2
  <2>8. ASSUME NEW i \in 1..Len(kept)
        PROVE  \E n \in 1..Len(r) :
                  /\ kept[i] = r[n] /\ Later(kept, i) = Later(r, n)
                  /\ n = Len(r) <=> i = Len(kept)
    <3>1. i + 1 \in 1..Len(r) /\ kept[i] = r[i + 1] /\ (i + 1 = Len(r) <=> i = Len(kept))
      BY <2>2, <2>4
    <3>. QED BY <2>7, <3>1
  <2>9. Len(kept) <= MaxTrackedKeys
    BY <1>0, <2>2
  <2>. QED BY <1>2, <2>2, <2>3, <2>4, <2>5, <2>6, <2>8, <2>9 DEF kept
<1>. QED BY <1>0, <1>1, <1>2

-----------------------------------------------------------------------------
(* What has been let through.                                              *)

\* One request more among those of this second counts in the window, and
\* leaves those before the window.
LEMMA OneMore ==
  ASSUME NEW w \in Nat \ {0}, NEW e \in 0..(w - 1), NEW f \in [0..(w - 1) -> Nat]
  PROVE  LET g == [f EXCEPT ![0] = @ + 1]
         IN  /\ g \in [0..(w - 1) -> Nat]
             /\ Partial(g, 0, e) = Partial(f, 0, e) + 1
             /\ Partial(g, e + 1, w - 1) = Partial(f, e + 1, w - 1)
<1> DEFINE g == [f EXCEPT ![0] = @ + 1]
           S == 0..e
           T == (e + 1)..(w - 1)
<1>1. 0 \in 0..(w - 1) /\ 0 \in S /\ S \subseteq 0..(w - 1) /\ T \subseteq 0..(w - 1) /\ 0 \notin T
      /\ IsFiniteSet(S) /\ e + 1 \in Int /\ w - 1 \in Int
  BY IntervalFinite
<1>2. /\ g \in [0..(w - 1) -> Nat] /\ g[0] = f[0] + 1
      /\ \A i \in 0..(w - 1) : f[i] \in Nat /\ (i # 0 => g[i] = f[i])
  BY <1>1
<1>3. /\ \A i \in S : f[i] \in Nat /\ (i # 0 => g[i] = f[i])
      /\ \A i \in T : f[i] \in Nat /\ g[i] = f[i]
  BY <1>1, <1>2
<1> HIDE DEF g, S
<1>4. SumFunctionOnSet(g, S) = SumFunctionOnSet(f, S) + 1
  BY <1>1, <1>2, <1>3, SumOneMore
<1>5. Partial(g, e + 1, w - 1) = Partial(f, e + 1, w - 1)
  BY <1>1, <1>3, PartialSame
<1>. QED BY <1>2, <1>4, <1>5 DEF Partial, g, S

\* A second later nothing is new, and the oldest second is forgotten.
LEMMA Older ==
  ASSUME NEW w \in Nat \ {0}, NEW e \in 0..(w - 1), NEW f \in [0..(w - 1) -> Nat]
  PROVE  LET g == [i \in 0..(w - 1) |-> IF i = 0 THEN 0 ELSE f[i - 1]]
         IN  /\ g \in [0..(w - 1) -> Nat]
             /\ e < w - 1 => /\ Partial(g, 0, e + 1) = Partial(f, 0, e)
                             /\ Partial(g, e + 2, w - 1) <= Partial(f, e + 1, w - 1)
             /\ e = w - 1 => /\ Partial(g, 0, 0) = 0
                             /\ Partial(g, 1, w - 1) <= Partial(f, 0, w - 1)
<1> DEFINE g == [i \in 0..(w - 1) |-> IF i = 0 THEN 0 ELSE f[i - 1]]
<1>1. /\ g \in [0..(w - 1) -> Nat] /\ 0 \in 0..(w - 1) /\ g[0] = 0
      /\ \A i \in 0..(w - 2) : f[i] \in Nat /\ g[i + 1] = f[i]
      /\ \A i \in 0..(w - 1) : f[i] \in Nat /\ g[i] \in Nat
  OBVIOUS
<1> HIDE DEF g
<1>2. Partial(g, 0, 0) = 0 /\ Partial(g, 1, 0) = 0
  <2>1. g[0] \in Nat /\ 0 \in Int /\ 0 + 1 = 1
    BY <1>1
  <2>2. Partial(g, 0, 0) = g[0] /\ Partial(g, 0 + 1, 0) = 0
    BY <2>1, PartialShort
  <2>. QED BY <1>1, <2>1, <2>2
<1>3. ASSUME NEW a \in 0..w
      PROVE  Partial(g, a + 1, w - 1) <= Partial(f, a, w - 1)
  <2>1. \A i \in a..(w - 2) : f[i] \in Nat /\ g[i + 1] = f[i]
    BY <1>1, <1>3
  <2>2. Partial(g, a + 1, (w - 2) + 1) = Partial(f, a, w - 2)
    <3>1. a \in Int /\ w - 2 \in Int
      BY <1>3
    <3>. QED BY <2>1, <3>1, PartialShift
  <2>3. SumFunctionOnSet(f, a..(w - 2)) <= SumFunctionOnSet(f, a..(w - 1))
    <3> DEFINE S == a..(w - 1)
               P == a..(w - 2)
    <3>1. IsFiniteSet(S) /\ P \in SUBSET S /\ \A i \in S : f[i] \in Nat
      BY <1>1, <1>3, IntervalFinite
    <3> HIDE DEF S, P
    <3>2. SumFunctionOnSet(f, P) <= SumFunctionOnSet(f, S)
      BY <3>1, SumPart
    <3>. QED BY <3>2 DEF S, P
  <2>4. (w - 2) + 1 = w - 1
    OBVIOUS
  <2>. QED BY <2>2, <2>3, <2>4 DEF Partial
<1>4. ASSUME e < w - 1
      PROVE  /\ Partial(g, 0, e + 1) = Partial(f, 0, e)
             /\ Partial(g, e + 2, w - 1) <= Partial(f, e + 1, w - 1)
  <2>1. Partial(g, 0 + 1, e + 1) = Partial(f, 0, e)
    <3>1. 0 \in Int /\ e \in Int /\ \A i \in 0..e : f[i] \in Nat /\ g[i + 1] = f[i]
      BY <1>1, <1>4
    <3>. QED BY <3>1, PartialShift
  <2>2. Partial(g, 0, e + 1) = Partial(g, 0, 0) + Partial(g, 0 + 1, e + 1)
    <3>1. 0 \in Int /\ e + 1 \in Int /\ 0 <= 0 + 1 /\ 0 <= e + 1
          /\ \A i \in 0..(e + 1) : g[i] \in Nat
      BY <1>1, <1>4
    <3>. QED BY <3>1, PartialSplit
  <2>3. Partial(f, 0, e) \in Nat
    <3>1. 0 \in Int /\ e \in Int /\ \A i \in 0..e : f[i] \in Nat
      BY <1>1
    <3>. QED BY <3>1, PartialNat
  <2>4. e + 1 \in 0..w /\ (e + 1) + 1 = e + 2
    OBVIOUS
  <2>5. Partial(g, (e + 1) + 1, w - 1) <= Partial(f, e + 1, w - 1)
    BY <1>3, <2>4
  <2>. QED BY <1>2, <2>1, <2>2, <2>3, <2>4, <2>5
<1>5. Partial(g, 1, w - 1) <= Partial(f, 0, w - 1)
  <2>1. 0 \in 0..w /\ 0 + 1 = 1
    OBVIOUS
  <2>2. Partial(g, 0 + 1, w - 1) <= Partial(f, 0, w - 1)
    BY <1>3, <2>1
  <2>. QED BY <2>1, <2>2
<1>. QED BY <1>1, <1>2, <1>4, <1>5 DEF g

\* In silence nothing adds up.
LEMMA Silent ==
  ASSUME NEW k \in Keys, NEW a \in 0..W(k), NEW b \in Int, b < W(k)
  PROVE  Silence(k) \in [Ages(k) -> Nat] /\ Partial(Silence(k), a, b) = 0
<1> DEFINE f == Silence(k)
           S == a..b
<1>1. IsFiniteSet(S) /\ S \subseteq Ages(k)
  BY KeyFacts, IntervalFinite DEF Ages, W
<1>2. f \in [Ages(k) -> Nat] /\ \A i \in Ages(k) : f[i] = 0
  BY DEF Silence
<1> HIDE DEF f, S
<1>3. SumFunctionOnSet(f, S) = 0
  BY <1>1, <1>2, SumZero
<1>. QED BY <1>2, <1>3 DEF Partial, f, S

-----------------------------------------------------------------------------
(* The invariant.                                                          *)

KeyState == [age : 0..2, current : Nat, previous : Nat]

TypeOK ==
  /\ clock \in 0..(Cycle - 1)
  /\ order \in Seq(Keys)
  /\ DOMAIN state = Tracked /\ \A k \in Tracked : state[k] \in KeyState
  /\ DOMAIN burst = Keys /\ \A k \in Keys : burst[k] \in [Ages(k) -> Nat]
  /\ since \in [Keys -> SUBSET Keys]

\* The keys are in the order they were used in, and those that are gone had
\* enough of the others behind them.
InOrder ==
  /\ Distinct(order) /\ Len(order) <= MaxTrackedKeys
  /\ \A i \in 1..Len(order) : since[order[i]] = Later(order, i)
  /\ \A k \in Keys \ Tracked : k \in since[k] \/ Cardinality(since[k]) >= MaxTrackedKeys

\* What was let through since the window began is counted as current, what was
\* in front of it is no more than previous, and there was room for the last one.
Accounted(k, s, f, e) ==
  /\ s.current \in 0..M(k) /\ s.previous \in 0..M(k)
  /\ Partial(f, 0, e) = s.current
  /\ Partial(f, e + 1, W(k) - 1) <= s.previous
  /\ s.current > 0 => (s.current - 1) * W(k) + s.previous * (W(k) - e) < M(k) * W(k)

AllAccounted == \A k \in Keys : Accounted(k, StateFor(k), burst[k], Elapsed(k))

Inv == TypeOK /\ InOrder /\ AllAccounted

\* A rolled state is one of the window that runs.
LEMMA RolledFacts ==
  ASSUME NEW s \in KeyState
  PROVE  /\ Rolled(s) \in KeyState /\ Rolled(s).age = 0 /\ (s.age = 0 => Rolled(s) = s)
         /\ s.age = 1 => Rolled(s).current = 0 /\ Rolled(s).previous = s.current
         /\ s.age = 2 => Rolled(s).current = 0 /\ Rolled(s).previous = 0
  BY DEF KeyState, Rolled

\* The state found for a key has the fields of one.
LEMMA StateForFacts ==
  ASSUME TypeOK, NEW k \in Keys
  PROVE  StateFor(k) \in KeyState /\ StateFor(k).age = 0
<1>1. NoState \in KeyState /\ NoState.age = 0
  BY DEF NoState, KeyState
<1>2. k \in Tracked => state[k] \in KeyState
  BY DEF TypeOK
<1>. QED BY <1>1, <1>2, RolledFacts DEF StateFor

\* Nothing is accounted for a key that is not there.
LEMMA NothingAccounted ==
  ASSUME NEW k \in Keys, NEW e \in 0..(W(k) - 1)
  PROVE  Accounted(k, NoState, Silence(k), e)
<1>1. W(k) \in Nat \ {0} /\ M(k) \in Nat \ {0}
  BY KeyFacts
<1>2. Partial(Silence(k), 0, e) = 0 /\ Partial(Silence(k), e + 1, W(k) - 1) = 0
  <2>1. 0 \in 0..W(k) /\ e + 1 \in 0..W(k) /\ e \in Int /\ W(k) - 1 \in Int
        /\ e < W(k) /\ W(k) - 1 < W(k)
    BY <1>1
  <2>. QED BY <2>1, Silent
<1>. QED BY <1>1, <1>2 DEF Accounted, NoState

\* A request that is not over the limit is accounted for.
LEMMA OneMoreAccounted ==
  ASSUME NEW k \in Keys, NEW s \in KeyState, NEW e \in 0..(W(k) - 1),
         NEW f \in [Ages(k) -> Nat], Accounted(k, s, f, e),
         s.previous * (W(k) - e) + s.current * W(k) < M(k) * W(k)
  PROVE  Accounted(k, [s EXCEPT !.current = @ + 1], [f EXCEPT ![0] = @ + 1], e)
<1> DEFINE w == W(k)
           max == M(k)
           t == [s EXCEPT !.current = @ + 1]
           g == [f EXCEPT ![0] = @ + 1]
           c == s.current
           p == s.previous
<1>1. w \in Nat \ {0} /\ max \in Nat \ {0} /\ c \in 0..max /\ p \in 0..max
  BY KeyFacts DEF Accounted
<1>2. Partial(g, 0, e) = Partial(f, 0, e) + 1
      /\ Partial(g, e + 1, w - 1) = Partial(f, e + 1, w - 1)
  <2>1. e \in 0..(w - 1) /\ f \in [0..(w - 1) -> Nat]
    BY DEF Ages, W
  <2>. QED BY <1>1, <2>1, OneMore
<1>3. t.current = c + 1 /\ t.previous = p
  BY DEF KeyState
<1>4. c * w < max * w
  <2>1. p * (w - e) \in Nat
    BY <1>1
  <2>2. c * w \in Nat /\ max * w \in Nat /\ p * (w - e) + c * w < max * w
    BY <1>1
  <2>. QED BY <2>1, <2>2
<1>5. c < max
  <2>1. max <= c => max * w <= c * w
    BY <1>1, ProductOrder
  <2>2. c * w \in Nat /\ max * w \in Nat
    BY <1>1
  <2>. QED BY <1>1, <1>4, <2>1, <2>2
<1>6. (t.current - 1) * w + t.previous * (w - e) < max * w
  <2>1. t.current - 1 = c
    BY <1>1, <1>3
  <2>2. c * w \in Nat /\ p * (w - e) \in Nat /\ max * w \in Nat
    BY <1>1
  <2>3. p * (w - e) + c * w < max * w
    OBVIOUS
  <2> HIDE DEF t, c, p, w, max
  <2>. QED BY <1>3, <2>1, <2>2, <2>3
<1>7. t.current \in 0..max /\ t.previous \in 0..max
  BY <1>1, <1>3, <1>5
<1>8. Partial(f, 0, e) = c /\ Partial(f, e + 1, w - 1) <= p
  BY DEF Accounted
<1>. QED BY <1>2, <1>3, <1>6, <1>7, <1>8 DEF Accounted

\* A second passes in the window, or the window after it begins.
LEMMA LaterAccounted ==
  ASSUME NEW k \in Keys, NEW s \in KeyState, NEW t \in KeyState, NEW e \in 0..(W(k) - 1),
         NEW f \in [Ages(k) -> Nat], Accounted(k, s, f, e)
  PROVE  LET g == [i \in Ages(k) |-> IF i = 0 THEN 0 ELSE f[i - 1]]
         IN  /\ e < W(k) - 1 /\ t.current = s.current /\ t.previous = s.previous
                => Accounted(k, t, g, e + 1)
             /\ e = W(k) - 1 /\ t.current = 0 /\ t.previous = s.current => Accounted(k, t, g, 0)
<1> DEFINE w == W(k)
           max == M(k)
           g == [i \in Ages(k) |-> IF i = 0 THEN 0 ELSE f[i - 1]]
           c == s.current
           p == s.previous
<1>1. w \in Nat \ {0} /\ max \in Nat \ {0} /\ c \in 0..max /\ p \in 0..max
  BY KeyFacts DEF Accounted
<1>2. /\ g \in [0..(w - 1) -> Nat]
      /\ e < w - 1 => /\ Partial(g, 0, e + 1) = Partial(f, 0, e)
                      /\ Partial(g, e + 2, w - 1) <= Partial(f, e + 1, w - 1)
      /\ e = w - 1 => /\ Partial(g, 0, 0) = 0
                      /\ Partial(g, 1, w - 1) <= Partial(f, 0, w - 1)
  <2>1. e \in 0..(w - 1) /\ f \in [0..(w - 1) -> Nat] /\ Ages(k) = 0..(w - 1)
    BY DEF Ages, W
  <2> DEFINE h == [i \in 0..(w - 1) |-> IF i = 0 THEN 0 ELSE f[i - 1]]
  <2>2. g = h
    BY <2>1
  <2>3. /\ h \in [0..(w - 1) -> Nat]
        /\ e < w - 1 => /\ Partial(h, 0, e + 1) = Partial(f, 0, e)
                        /\ Partial(h, e + 2, w - 1) <= Partial(f, e + 1, w - 1)
        /\ e = w - 1 => /\ Partial(h, 0, 0) = 0
                        /\ Partial(h, 1, w - 1) <= Partial(f, 0, w - 1)
    BY <1>1, <2>1, Older
  <2> HIDE DEF g, h
  <2>. QED BY <2>2, <2>3
<1>3. /\ Partial(f, 0, e) = c /\ Partial(f, e + 1, w - 1) <= p
      /\ c > 0 => (c - 1) * w + p * (w - e) < max * w
  BY DEF Accounted
<1>4. /\ \A i \in 0..(w - 1) : f[i] \in Nat /\ g[i] \in Nat
      /\ Partial(f, e + 1, w - 1) \in Nat
      /\ e < w - 1 => Partial(g, e + 2, w - 1) \in Nat
      /\ Partial(g, 1, w - 1) \in Nat
  <2>1. \A i \in 0..(w - 1) : f[i] \in Nat /\ g[i] \in Nat
    BY <1>2 DEF Ages, W
  <2> HIDE DEF g
  <2>2. /\ e + 1 \in Int /\ e + 2 \in Int /\ w - 1 \in Int /\ 1 \in Int
        /\ (e + 1)..(w - 1) \subseteq 0..(w - 1) /\ (e + 2)..(w - 1) \subseteq 0..(w - 1)
        /\ 1..(w - 1) \subseteq 0..(w - 1)
    BY <1>1
  <2>. QED BY <2>1, <2>2, PartialNat
<1> HIDE DEF g
<1>5. ASSUME e < w - 1, t.current = c, t.previous = p
      PROVE  Accounted(k, t, g, e + 1)
  <2>1. (e + 1) + 1 = e + 2
    BY <1>1
  <2>2. Partial(g, e + 2, w - 1) <= p
    BY <1>1, <1>2, <1>3, <1>4, <1>5
  <2>3. c > 0 => (c - 1) * w + p * (w - (e + 1)) < max * w
    <3>1. p * (w - (e + 1)) = p * (w - e) - p
      BY <1>1
    <3>2. (c - 1) * w \in Int /\ p * (w - e) \in Int /\ max * w \in Int
      BY <1>1
    <3>. QED BY <1>1, <1>3, <3>1, <3>2
  <2>. QED BY <1>1, <1>2, <1>3, <1>5, <2>1, <2>2, <2>3 DEF Accounted
<1>6. ASSUME e = w - 1, t.current = 0, t.previous = c
      PROVE  Accounted(k, t, g, 0)
  <2>1. Partial(g, 1, w - 1) <= c /\ Partial(g, 0, 0) = 0
    BY <1>2, <1>3, <1>6
  <2>. QED BY <1>1, <1>6, <2>1 DEF Accounted
<1>. QED BY <1>5, <1>6 DEF g

\* The first states.
LEMMA InitInv == Init => Inv
<1> SUFFICES ASSUME Init PROVE Inv
  OBVIOUS
<1>1. order = <<>> /\ Tracked = {} /\ Len(order) = 0
  BY DEF Init, Tracked, ToSet
<1>2. TypeOK
  <2>1. \A k \in Keys : Silence(k) \in [Ages(k) -> Nat]
    BY DEF Silence
  <2>2. clock \in 0..(Cycle - 1)
    BY LimiterAssumption DEF Init
  <2>3. DOMAIN state = {} /\ DOMAIN burst = Keys /\ since \in [Keys -> SUBSET Keys]
    BY DEF Init
  <2>. QED BY <1>1, <2>1, <2>2, <2>3 DEF Init, TypeOK
<1>3. InOrder
  BY <1>1, LimiterAssumption DEF Init, InOrder, Distinct
<1>4. AllAccounted
  <2>1. ASSUME NEW k \in Keys PROVE Accounted(k, StateFor(k), burst[k], Elapsed(k))
    <3>1. StateFor(k) = NoState /\ burst[k] = Silence(k)
      BY <1>1 DEF StateFor, Init
    <3>2. Elapsed(k) \in 0..(W(k) - 1)
      BY <1>2, Second DEF TypeOK
    <3>. QED BY <3>1, <3>2, NothingAccounted
  <2>. QED BY <2>1 DEF AllAccounted
<1>. QED BY <1>2, <1>3, <1>4 DEF Inv

\* The route of a request has a rule.
LEMMA RuleForType == \A route : RuleFor(route) \in Rules
  BY DEF RuleFor, Rules

\* There are finitely many keys.
LEMMA KeysFinite == IsFiniteSet(Keys)
<1>1. IsFiniteSet({"auth"}) /\ IsFiniteSet({"jobs"}) /\ IsFiniteSet({"read"})
  BY FS_Singleton
<1>2. IsFiniteSet({"auth"} \cup {"jobs"})
  BY <1>1, FS_Union
<1>3. IsFiniteSet(({"auth"} \cup {"jobs"}) \cup {"read"})
  BY <1>1, <1>2, FS_Union
<1>4. ({"auth"} \cup {"jobs"}) \cup {"read"} = Rules
  BY DEF Rules
<1>5. IsFiniteSet(Rules) /\ IsFiniteSet(Clients)
  BY <1>3, <1>4, LimiterAssumption
<1>. QED BY <1>5, FS_Product DEF Keys

\* A request: its key goes to the end, and is counted unless it is over the limit.
LEMMA RequestKeeps ==
  ASSUME Inv, NEW route \in Routes, NEW client \in Clients, Request(route, client)
  PROVE  Inv'
<1> DEFINE k == <<RuleFor(route), client>>
           r == MovedToEnd(k)
           kept == Capped(r)
           s == StateFor(k)
<1>1. k \in Keys
  BY RuleForType DEF Keys
<1>2. /\ order' = kept /\ clock' = clock
      /\ state' = [j \in ToSet(kept) |-> IF j = k THEN Counted(k) ELSE state[j]]
      /\ burst' = [j \in Keys |->
                        IF j \notin ToSet(kept) THEN Silence(j)
                        ELSE IF j = k /\ ~Over(k, s) THEN [burst[j] EXCEPT ![0] = @ + 1]
                        ELSE burst[j]]
      /\ since' = [j \in Keys |-> IF j = k THEN {} ELSE since[j] \cup {k}]
  BY DEF Request
<1>3. TypeOK /\ InOrder /\ AllAccounted
  BY DEF Inv
<1> HIDE DEF k
<1>4. /\ r \in Seq(Keys) /\ Distinct(r) /\ ToSet(r) = Tracked \cup {k}
      /\ Len(r) >= 1 /\ Len(r) <= Len(order) + 1 /\ r[Len(r)] = k
      /\ \A i \in 1..(Len(r) - 1) :
            \E n \in 1..Len(order) :
              r[i] = order[n] /\ r[i] # k /\ Later(r, i) = Later(order, n) \cup {k}
  BY <1>1, <1>3, Moved DEF TypeOK, InOrder
<1> HIDE DEF r
<1>5. /\ kept \in Seq(Keys) /\ Distinct(kept)
      /\ Len(kept) >= 1 /\ Len(kept) <= MaxTrackedKeys
      /\ kept[Len(kept)] = r[Len(r)] /\ ToSet(kept) \subseteq ToSet(r)
      /\ \A i \in 1..Len(kept) :
            \E n \in 1..Len(r) :
              /\ kept[i] = r[n] /\ Later(kept, i) = Later(r, n)
              /\ n = Len(r) <=> i = Len(kept)
      /\ ToSet(r) # ToSet(kept) =>
            Len(r) = MaxTrackedKeys + 1 /\ ToSet(r) \subseteq ToSet(kept) \cup {r[1]}
  <2>1. Len(r) <= MaxTrackedKeys + 1
    <3>1. Len(r) \in Nat /\ Len(order) \in Nat /\ Len(order) <= MaxTrackedKeys
          /\ MaxTrackedKeys \in Nat
      BY <1>3, <1>4, LimiterAssumption DEF InOrder, TypeOK
    <3>. QED BY <1>4, <3>1
  <2>. QED BY <1>4, <2>1, WithinCapacity
<1> HIDE DEF kept
<1>6. Tracked' = ToSet(kept) /\ k \in ToSet(kept)
  <2>1. Tracked' = ToSet(kept)
    BY <1>2 DEF Tracked
  <2>2. Len(kept) \in DOMAIN kept /\ kept[Len(kept)] = k
    BY <1>4, <1>5
  <2>. QED BY <2>1, <2>2 DEF ToSet
<1>7. s \in KeyState /\ s.age = 0
  BY <1>1, <1>3, StateForFacts
<1>8. Counted(k) = (IF Over(k, s) THEN s ELSE [s EXCEPT !.current = @ + 1])
      /\ Counted(k) \in KeyState /\ Counted(k).age = 0
  <2>1. Counted(k) = IF Over(k, s) THEN s ELSE [s EXCEPT !.current = @ + 1]
    BY DEF Counted
  <2>2. [s EXCEPT !.current = @ + 1] \in KeyState /\ [s EXCEPT !.current = @ + 1].age = 0
    BY <1>7 DEF KeyState
  <2> HIDE DEF s
  <2>. QED BY <1>7, <2>1, <2>2
<1>9. \A j \in ToSet(kept) : j # k => j \in Tracked
  BY <1>4, <1>5
<1>10. TypeOK'
  <2>1. clock' \in 0..(Cycle - 1) /\ order' \in Seq(Keys)
    BY <1>2, <1>3, <1>5 DEF TypeOK
  <2>2. DOMAIN state' = Tracked' /\ \A j \in Tracked' : state'[j] \in KeyState
    <3>1. \A j \in Tracked : state[j] \in KeyState
      BY <1>3 DEF TypeOK
    <3>. QED BY <1>2, <1>6, <1>8, <1>9, <3>1
  <2>3. DOMAIN burst' = Keys /\ \A j \in Keys : burst'[j] \in [Ages(j) -> Nat]
    <3>1. ASSUME NEW j \in Keys PROVE burst'[j] \in [Ages(j) -> Nat]
      <4>1. burst[j] \in [Ages(j) -> Nat] /\ Silence(j) \in [Ages(j) -> Nat]
        BY <1>3 DEF TypeOK, Silence
      <4>2. 0 \in Ages(j)
        BY KeyFacts DEF Ages, W
      <4>3. [burst[j] EXCEPT ![0] = @ + 1] \in [Ages(j) -> Nat]
        BY <4>1, <4>2
      <4>. QED BY <1>2, <4>1, <4>3
    <3>. QED BY <1>2, <3>1
  <2>4. since' \in [Keys -> SUBSET Keys]
    <3>1. \A j \in Keys : since[j] \subseteq Keys
      BY <1>3 DEF TypeOK
    <3>2. \A j \in Keys : (IF j = k THEN {} ELSE since[j] \cup {k}) \in SUBSET Keys
      BY <1>1, <3>1
    <3>. QED BY <1>2, <3>2
  <2>. QED BY <2>1, <2>2, <2>3, <2>4 DEF TypeOK
<1>11. InOrder'
  <2>1. Distinct(order') /\ Len(order') <= MaxTrackedKeys
    BY <1>2, <1>5
  <2>2. ASSUME NEW i \in 1..Len(kept) PROVE since'[kept[i]] = Later(kept, i)
    <3>1. CASE i = Len(kept)
      <4>1. kept[i] = k /\ since'[k] = {}
        BY <1>1, <1>2, <1>4, <1>5, <3>1
      <4>2. (i + 1)..Len(kept) = {}
        BY <1>5, <3>1
      <4>3. Later(kept, i) = {}
        BY <4>2 DEF Later
      <4>. QED BY <4>1, <4>3
    <3>2. CASE i # Len(kept)
      <4>1. PICK n \in 1..Len(r) : kept[i] = r[n] /\ Later(kept, i) = Later(r, n) /\ n # Len(r)
        BY <1>5, <3>2
      <4>2. n \in 1..(Len(r) - 1)
        BY <1>4, <4>1
      <4>3. PICK m \in 1..Len(order) :
              r[n] = order[m] /\ r[n] # k /\ Later(r, n) = Later(order, m) \cup {k}
        BY <1>4, <4>2
      <4>4. order[m] \in Keys /\ since[order[m]] = Later(order, m)
        BY <1>3 DEF TypeOK, InOrder
      <4>5. since'[order[m]] = since[order[m]] \cup {k}
        BY <1>2, <4>3, <4>4
      <4>. QED BY <4>1, <4>3, <4>4, <4>5
    <3>. QED BY <3>1, <3>2
  <2>3. ASSUME NEW j \in Keys, j \notin ToSet(kept)
        PROVE  j \in since'[j] \/ Cardinality(since'[j]) >= MaxTrackedKeys
    <3>1. j # k /\ since'[j] = since[j] \cup {k}
      BY <1>2, <1>6, <2>3
    <3>2. CASE j \in Tracked
      <4>1. j \in ToSet(r) /\ Len(r) = MaxTrackedKeys + 1 /\ j = r[1]
        BY <1>4, <1>5, <2>3, <3>2
      <4>2. 1 \in 1..(Len(r) - 1) /\ 1 \in 0..Len(r)
        BY <4>1, LimiterAssumption
      <4>3. PICK m \in 1..Len(order) :
              r[1] = order[m] /\ r[1] # k /\ Later(r, 1) = Later(order, m) \cup {k}
        BY <1>4, <4>2
      <4>4. since[order[m]] = Later(order, m)
        BY <1>3 DEF InOrder
      <4>5. since'[j] = Later(r, 1)
        BY <3>1, <4>1, <4>3, <4>4
      <4>6. Cardinality(Later(r, 1)) = Len(r) - 1
        BY <1>4, <4>2, LaterCount
      <4>. QED BY <4>1, <4>5, <4>6, LimiterAssumption
    <3>3. CASE j \notin Tracked
      <4>1. j \in since[j] \/ Cardinality(since[j]) >= MaxTrackedKeys
        BY <1>3, <3>3 DEF InOrder
      <4>2. since[j] \subseteq Keys /\ since[j] \cup {k} \in SUBSET Keys
        BY <1>1, <1>3 DEF TypeOK
      <4>3. IsFiniteSet(since[j] \cup {k})
        BY <4>2, KeysFinite, FS_Subset
      <4>4. since[j] \in SUBSET (since[j] \cup {k})
        OBVIOUS
      <4>5. Cardinality(since[j]) <= Cardinality(since[j] \cup {k}) /\ IsFiniteSet(since[j])
        BY <4>3, <4>4, FS_Subset
      <4>6. Cardinality(since[j]) \in Nat /\ Cardinality(since[j] \cup {k}) \in Nat
            /\ MaxTrackedKeys \in Nat
        BY <4>3, <4>5, FS_CardinalityType, LimiterAssumption
      <4>. QED BY <3>1, <4>1, <4>5, <4>6
    <3>. QED BY <3>2, <3>3
  <2>. QED BY <1>2, <1>6, <2>1, <2>2, <2>3 DEF InOrder
<1>12. ASSUME NEW j \in Keys PROVE Accounted(j, StateFor(j)', burst'[j], Elapsed(j)')
  <2>1. Elapsed(j)' = Elapsed(j) /\ Elapsed(j) \in 0..(W(j) - 1)
    BY <1>2, <1>3, Second DEF TypeOK, Elapsed
  <2>2. StateFor(j)' = IF j \in ToSet(kept) THEN Rolled(state'[j]) ELSE NoState
    BY <1>6 DEF StateFor
  <2>3. Accounted(j, StateFor(j), burst[j], Elapsed(j)) /\ burst[j] \in [Ages(j) -> Nat]
    BY <1>3 DEF AllAccounted, TypeOK
  <2>4. CASE j \notin ToSet(kept)
    <3>1. burst'[j] = Silence(j) /\ StateFor(j)' = NoState
      BY <1>2, <2>2, <2>4
    <3>. QED BY <2>1, <3>1, NothingAccounted
  <2>5. CASE j \in ToSet(kept) /\ j # k
    <3>1. state'[j] = state[j] /\ burst'[j] = burst[j] /\ j \in Tracked
      BY <1>2, <1>9, <2>5
    <3>2. StateFor(j)' = StateFor(j)
      BY <2>2, <2>5, <3>1 DEF StateFor
    <3>. QED BY <2>1, <2>3, <3>1, <3>2
  <2>6. CASE j = k
    <3>1. StateFor(j)' = Counted(k)
      <4>1. state'[j] = Counted(k) /\ Rolled(Counted(k)) = Counted(k)
        BY <1>2, <1>6, <1>8, <2>6, RolledFacts
      <4>. QED BY <1>6, <2>2, <2>6, <4>1
    <3>2. CASE Over(k, s)
      <4>1. burst'[j] = burst[j] /\ Counted(k) = s
        BY <1>1, <1>2, <1>6, <1>8, <2>6, <3>2
      <4>. QED BY <2>1, <2>3, <2>6, <3>1, <4>1
    <3>3. CASE ~Over(k, s)
      <4>1. burst'[j] = [burst[j] EXCEPT ![0] = @ + 1]
        BY <1>1, <1>2, <1>6, <2>6, <3>3
      <4>2. Counted(k) = [s EXCEPT !.current = @ + 1]
        BY <1>8, <3>3
      <4>3. s.previous * (W(k) - Elapsed(k)) + s.current * W(k) < M(k) * W(k)
        <5>1. /\ W(k) \in Nat /\ M(k) \in Nat /\ Elapsed(k) \in Nat
              /\ s.previous \in Nat /\ s.current \in Nat
          BY <1>1, <1>7, <2>1, <2>6, KeyFacts DEF KeyState
        <5>2. ~ (s.previous * (W(k) - Elapsed(k)) + s.current * W(k) >= M(k) * W(k))
          BY <3>3 DEF Over, Estimated, W, M
        <5> HIDE DEF s
        <5>. QED BY <5>1, <5>2
      <4> HIDE DEF s
      <4>4. Accounted(k, s, burst[k], Elapsed(k)) /\ burst[k] \in [Ages(k) -> Nat]
            /\ Elapsed(k) \in 0..(W(k) - 1)
        BY <2>1, <2>3, <2>6 DEF s
      <4>5. Accounted(k, [s EXCEPT !.current = @ + 1], [burst[k] EXCEPT ![0] = @ + 1], Elapsed(k))
        BY <1>1, <1>7, <4>3, <4>4, OneMoreAccounted
      <4>. QED BY <2>1, <2>6, <3>1, <4>1, <4>2, <4>5
    <3>. QED BY <3>2, <3>3
  <2>. QED BY <1>6, <2>4, <2>5, <2>6
<1>. QED BY <1>10, <1>11, <1>12 DEF Inv, AllAccounted

\* A second: the states grow old where their window ends.
LEMMA TickKeeps ==
  ASSUME Inv, Tick
  PROVE  Inv'
<1>1. TypeOK /\ InOrder /\ AllAccounted
  BY DEF Inv
<1>2. /\ clock' = (clock + 1) % Cycle /\ order' = order /\ since' = since
      /\ Tracked' = Tracked
      /\ state' = [k \in Tracked |->
                     IF Elapsed(k) = W(k) - 1 /\ state[k].age < 2
                     THEN [state[k] EXCEPT !.age = @ + 1] ELSE state[k]]
      /\ burst' = [k \in Keys |-> [i \in Ages(k) |-> IF i = 0 THEN 0 ELSE burst[k][i - 1]]]
  BY DEF Tick, Tracked, W
<1>3. TypeOK'
  <2>1. clock' \in 0..(Cycle - 1)
    BY <1>1, <1>2, LimiterAssumption DEF TypeOK
  <2>2. DOMAIN state' = Tracked' /\ \A k \in Tracked' : state'[k] \in KeyState
    <3>1. ASSUME NEW k \in Tracked PROVE state'[k] \in KeyState
      <4>1. state[k] \in KeyState
        BY <1>1 DEF TypeOK
      <4>2. state[k].age < 2 => [state[k] EXCEPT !.age = @ + 1] \in KeyState
        BY <4>1 DEF KeyState
      <4>. QED BY <1>2, <4>1, <4>2
    <3>. QED BY <1>2, <3>1
  <2>3. DOMAIN burst' = Keys /\ \A k \in Keys : burst'[k] \in [Ages(k) -> Nat]
    <3>1. ASSUME NEW k \in Keys PROVE burst'[k] \in [Ages(k) -> Nat]
      <4>1. burst[k] \in [Ages(k) -> Nat] /\ W(k) \in Nat \ {0} /\ Ages(k) = 0..(W(k) - 1)
        BY <1>1, KeyFacts DEF TypeOK, Ages, W
      <4>2. \A i \in Ages(k) : i # 0 => i - 1 \in Ages(k)
        BY <4>1
      <4>. QED BY <1>2, <4>1, <4>2
    <3>. QED BY <1>2, <3>1
  <2>. QED BY <1>1, <1>2, <2>1, <2>2, <2>3 DEF TypeOK
<1>4. InOrder'
  BY <1>1, <1>2 DEF InOrder
<1>5. ASSUME NEW k \in Keys PROVE Accounted(k, StateFor(k)', burst'[k], Elapsed(k)')
  <2> DEFINE w == W(k)
             e == Elapsed(k)
             s == StateFor(k)
             t == IF k \in Tracked THEN Rolled(state'[k]) ELSE NoState
             g == [i \in Ages(k) |-> IF i = 0 THEN 0 ELSE burst[k][i - 1]]
  <2>1. e \in 0..(w - 1) /\ Elapsed(k)' = IF e = w - 1 THEN 0 ELSE e + 1
    BY <1>1, <1>2, Second DEF TypeOK
  <2>2. StateFor(k)' = t /\ burst'[k] = g
    BY <1>2 DEF StateFor
  <2>3. Accounted(k, s, burst[k], e) /\ burst[k] \in [Ages(k) -> Nat] /\ s \in KeyState
    BY <1>1, StateForFacts DEF AllAccounted, TypeOK
  <2>4. /\ t \in KeyState
        /\ e # w - 1 => t.current = s.current /\ t.previous = s.previous
        /\ e = w - 1 => t.current = 0 /\ t.previous = s.current
    <3>1. CASE k \notin Tracked
      BY <3>1 DEF StateFor, NoState, KeyState
    <3>2. CASE k \in Tracked
      <4> DEFINE old == state[k]
                 new == state'[k]
      <4>1. old \in KeyState
            /\ new = IF e = w - 1 /\ old.age < 2 THEN [old EXCEPT !.age = @ + 1] ELSE old
        BY <1>1, <1>2, <3>2 DEF TypeOK
      <4>2. s = Rolled(old) /\ t = Rolled(new)
        BY <3>2 DEF StateFor
      <4> HIDE DEF old, new, s, t, e, w
      <4>3. CASE e # w - 1
        BY <4>1, <4>2, <4>3, RolledFacts
      <4>4. CASE e = w - 1 /\ old.age = 0
        <5>1. new.age = 1 /\ new.current = old.current /\ new \in KeyState
          BY <4>1, <4>4 DEF KeyState
        <5>. QED BY <4>1, <4>2, <4>4, <5>1, RolledFacts
      <4>5. CASE e = w - 1 /\ old.age = 1
        <5>1. new.age = 2 /\ new \in KeyState
          BY <4>1, <4>5 DEF KeyState
        <5>. QED BY <4>1, <4>2, <4>5, <5>1, RolledFacts
      <4>6. CASE e = w - 1 /\ old.age = 2
        <5>1. new.age = 2 /\ new \in KeyState
          BY <4>1, <4>6 DEF KeyState
        <5>. QED BY <4>1, <4>2, <4>6, <5>1, RolledFacts
      <4>7. old.age \in 0..2
        BY <4>1 DEF KeyState
      <4>. QED BY <4>3, <4>4, <4>5, <4>6, <4>7
    <3>. QED BY <3>1, <3>2
  <2> HIDE DEF s, t, e
  <2>5. /\ e < w - 1 /\ t.current = s.current /\ t.previous = s.previous
             => Accounted(k, t, g, e + 1)
        /\ e = w - 1 /\ t.current = 0 /\ t.previous = s.current => Accounted(k, t, g, 0)
    BY <2>1, <2>3, <2>4, LaterAccounted
  <2>6. w \in Nat
    BY KeyFacts
  <2> HIDE DEF w, g
  <2>. QED BY <2>1, <2>2, <2>4, <2>5, <2>6
<1>. QED BY <1>3, <1>4, <1>5 DEF Inv, AllAccounted

-----------------------------------------------------------------------------
(* The theorems.                                                           *)

\* In every state the keys are in the order of their last use, and what is
\* counted for a key is what was let through.
THEOREM LimiterInvariant == Spec => []Inv
<1>1. Inv /\ [Next]_vars => Inv'
  <2> SUFFICES ASSUME Inv, [Next]_vars PROVE Inv'
    OBVIOUS
  <2>1. CASE Tick
    BY <2>1, TickKeeps
  <2>2. CASE \E route \in Routes : \E client \in Clients : Request(route, client)
    BY <2>2, RequestKeeps
  <2>3. CASE UNCHANGED vars
    <3>1. /\ clock' = clock /\ order' = order /\ state' = state
          /\ burst' = burst /\ since' = since
      BY <2>3 DEF vars
    <3>. QED BY <3>1 DEF Inv, TypeOK, InOrder, AllAccounted, Tracked, StateFor, Elapsed
  <2>4. CASE \E route \in Routes : Pass(route)
    BY <2>3, <2>4 DEF Pass
  <2>. QED BY <2>1, <2>2, <2>3, <2>4 DEF Next
<1>. QED BY <1>1, InitInv, PTL DEF Spec

\* Within the length of a window no more goes through than the allowance and
\* the share of it that the seconds since the window began are worth.
THEOREM NeverADoubleBurst == Spec => []NoDoubleBurst
<1>1. Inv => NoDoubleBurst
  <2> SUFFICES ASSUME Inv, NEW k \in Keys
               PROVE  (SumFunction(burst[k]) - 1) * W(k) < M(k) * (W(k) + Elapsed(k))
    BY DEF NoDoubleBurst, W, M
  <2> DEFINE w == W(k)
             max == M(k)
             e == Elapsed(k)
             f == burst[k]
             c == StateFor(k).current
             p == StateFor(k).previous
             rest == Partial(f, e + 1, w - 1)
  <2>1. /\ w \in Nat \ {0} /\ max \in Nat \ {0} /\ e \in 0..(w - 1)
        /\ f \in [0..(w - 1) -> Nat]
    BY KeyFacts, Second DEF Inv, TypeOK, Ages, W
  <2>2. /\ c \in 0..max /\ p \in 0..max /\ Partial(f, 0, e) = c /\ rest <= p
        /\ c > 0 => (c - 1) * w + p * (w - e) < max * w
    BY DEF Inv, AllAccounted, Accounted
  <2>3. SumFunction(f) = c + rest /\ rest \in Nat
    <3>1. SumFunction(f) = Partial(f, 0, w - 1)
      BY <2>1 DEF SumFunction, Partial
    <3>2. /\ 0 \in Int /\ w - 1 \in Int /\ e \in Int /\ e + 1 \in Int /\ 0 <= e + 1 /\ e <= w - 1
          /\ \A i \in 0..(w - 1) : f[i] \in Nat
          /\ \A i \in (e + 1)..(w - 1) : f[i] \in Nat
      BY <2>1
    <3> HIDE DEF f, w, e
    <3>3. Partial(f, 0, w - 1) = Partial(f, 0, e) + Partial(f, e + 1, w - 1)
      BY <3>2, PartialSplit
    <3>4. Partial(f, e + 1, w - 1) \in Nat
      BY <3>2, PartialNat
    <3>. QED BY <2>2, <3>1, <3>3, <3>4
  <2> HIDE DEF w, max, e, f, c, p, rest
  <2>4. (c + rest - 1) * w < max * (w + e)
    <3>1. (c + rest - 1) * w <= (c + p - 1) * w
      <4>1. c + rest - 1 \in Int /\ c + p - 1 \in Int /\ c + rest - 1 <= c + p - 1 /\ w \in Nat
        BY <2>1, <2>2, <2>3
      <4>. QED BY <4>1, ProductOrder
    <3>2. (c + p - 1) * w = (c - 1) * w + p * w /\ max * (w + e) = max * w + max * e
          /\ p * (w - e) = p * w - p * e
      BY <2>1, <2>2
    <3>3. p * e <= max * e
      BY <2>1, <2>2, ProductOrder
    <3>4. /\ (c - 1) * w \in Int /\ p * w \in Int /\ max * w \in Int /\ max * e \in Nat
          /\ p * e \in Int /\ (c + rest - 1) * w \in Int /\ p * (w - e) \in Int
      BY <2>1, <2>2, <2>3
    <3>5. CASE c > 0
      BY <2>2, <3>1, <3>2, <3>3, <3>4, <3>5
    <3>6. CASE c = 0
      <4>1. c + p - 1 \in Int /\ c + p - 1 < max /\ max \in Int /\ w \in Nat /\ w > 0
        BY <2>1, <2>2, <3>6
      <4>2. (c + p - 1) * w < max * w
        BY <4>1, ProductOrder
      <4>3. max * w <= max * (w + e)
        BY <3>2, <3>4
      <4>4. (c + p - 1) * w \in Int /\ max * (w + e) \in Int
        BY <2>1, <2>2
      <4>. QED BY <3>1, <3>4, <4>2, <4>3, <4>4
    <3>. QED BY <2>2, <3>5, <3>6
  <2>5. (SumFunction(f) - 1) * w < max * (w + e)
    BY <2>2, <2>3, <2>4
  <2>. QED BY <2>5 DEF w, max, e, f
<1>. QED BY <1>1, LimiterInvariant, PTL

\* The keys that are remembered are those used last.
THEOREM TheLastUsedAreRemembered == Spec => []Remembered
<1>1. Inv => Remembered
  <2> SUFFICES ASSUME Inv PROVE Remembered
    OBVIOUS
  <2>1. TypeOK /\ InOrder /\ MaxTrackedKeys \in Nat
    BY LimiterAssumption DEF Inv
  <2>2. ASSUME NEW k \in Tracked
        PROVE  k \in Keys /\ k \notin since[k] /\ Cardinality(since[k]) < MaxTrackedKeys
    <3>1. PICK i \in 1..Len(order) : k = order[i]
      BY <2>1 DEF TypeOK, Tracked, ToSet
    <3>2. k \in Keys /\ since[k] = Later(order, i) /\ i \in 0..Len(order) /\ Len(order) \in Nat
      BY <2>1, <3>1 DEF TypeOK, InOrder
    <3>3. k \notin Later(order, i)
      <4>1. ASSUME NEW j \in (i + 1)..Len(order), order[j] = k PROVE FALSE
        <5>1. j \in 1..Len(order) /\ j # i
          BY <4>1
        <5>. QED BY <2>1, <3>1, <4>1, <5>1 DEF InOrder, Distinct
      <4>. QED BY <4>1 DEF Later
    <3>4. Cardinality(Later(order, i)) = Len(order) - i
      BY <2>1, <3>2, LaterCount DEF TypeOK, InOrder
    <3>5. Len(order) <= MaxTrackedKeys
      BY <2>1 DEF InOrder
    <3>6. Len(order) - i < MaxTrackedKeys
      BY <2>1, <3>1, <3>2, <3>5
    <3>. QED BY <3>2, <3>3, <3>4, <3>6
  <2>3. ASSUME NEW k \in Keys, k \notin Tracked
        PROVE  k \in since[k] \/ ~ (Cardinality(since[k]) < MaxTrackedKeys)
    <3>1. k \in since[k] \/ Cardinality(since[k]) >= MaxTrackedKeys
      BY <2>1, <2>3 DEF InOrder
    <3>2. since[k] \in SUBSET Keys
      BY <2>1 DEF TypeOK
    <3>3. Cardinality(since[k]) \in Nat
      BY <3>2, KeysFinite, FS_Subset, FS_CardinalityType
    <3>. QED BY <2>1, <3>1, <3>3
  <2>. QED BY <2>2, <2>3 DEF Remembered
<1>. QED BY <1>1, LimiterInvariant, PTL

\* A second less than Retry-After and the client is refused, a second more and it
\* is let through, for any rules and whatever was asked before.
THEOREM RetryAfterHolds == Spec => []RetryAfterIsTight
<1>1. Inv => RetryAfterIsTight
  <2> SUFFICES ASSUME Inv, NEW k \in Refused, NEW wait \in SecondsUntilAllowed(k, StateFor(k))
               PROVE  /\ EstimatedAfter(k, wait + 1) < M(k) * W(k)
                      /\ wait > 1 => ~ (EstimatedAfter(k, wait - 1) < M(k) * W(k))
    BY DEF RetryAfterIsTight, Allowed, M, W
  <2>1. k \in Keys /\ Over(k, StateFor(k))
    BY DEF Inv, TypeOK, Tracked, ToSet, Refused
  <2>2. Elapsed(k) \in 0..(W(k) - 1)
    BY <2>1, Second DEF Inv, TypeOK
  <2>3. StateFor(k).current \in 0..M(k) /\ StateFor(k).previous \in 0..M(k)
    BY <2>1 DEF Inv, AllAccounted, Accounted
  <2>. QED BY <2>1, <2>2, <2>3, RetryIsTight
<1>. QED BY <1>1, LimiterInvariant, PTL
=============================================================================
