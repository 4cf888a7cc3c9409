------------------------- MODULE TimeWindowsProofs -------------------------
(* Theorems of TimeWindows for every width, home network and sequence of   *)
(* flows.                                                                  *)
EXTENDS TimeWindows, FiniteSetTheorems, TLAPS

-----------------------------------------------------------------------------
(* Arithmetic *)

(* \div rounds down, as // of the code does.                               *)
LEMMA DivBounds ==
    ASSUME NEW a \in Int, NEW w \in Nat \ {0}
    PROVE  /\ a \div w \in Int
           /\ (a \div w) * w <= a
           /\ a < (a \div w) * w + w
BY SMTT(60)

(* Multiples of a width are a width apart.                                 *)
LEMMA Steps ==
    ASSUME NEW i \in Int, NEW j \in Int, NEW w \in Nat \ {0}
    PROVE  /\ i * w \in Int
           /\ (i + 1) * w = i * w + w
           /\ (i - j) * w = i * w - j * w
           /\ (i + j) * w = i * w + j * w
           /\ i < j => i * w + w <= j * w
           /\ i * w < j * w + w => i <= j
<1>1. (i + 1) * w = i * w + w /\ (i - j) * w = i * w - j * w
        /\ (i + j) * w = i * w + j * w /\ i * w \in Int /\ j * w \in Int
  BY SMTT(60)
<1>2. i < j => i * w + w <= j * w
  <2> SUFFICES ASSUME i < j PROVE i * w + w <= j * w
    OBVIOUS
  <2>1. (j - i - 1) * w >= 0
    BY SMTT(60)
  <2> QED
    BY <2>1
<1>3. i * w < j * w + w => i <= j
  <2> SUFFICES ASSUME i * w < j * w + w, j < i PROVE FALSE
    OBVIOUS
  <2>1. (i - j - 1) * w >= 0
    BY SMTT(60)
  <2> QED
    BY <2>1
<1> QED
  BY <1>1, <1>2, <1>3

(* An interval and the one that follows it                                 *)
LEMMA Split ==
    ASSUME NEW lo \in Int, NEW hi \in Int, NEW n \in Int, lo <= hi + 1, 0 <= n
    PROVE  (lo .. hi) \cup (hi + 1 .. hi + n) = lo .. hi + n
<1>1. \A i : i \in (lo .. hi) \cup (hi + 1 .. hi + n) <=> i \in lo .. hi + n
  <2> TAKE i
  <2>1. CASE i \in Int
    BY <2>1
  <2>2. CASE i \notin Int
    BY <2>2
  <2> QED
    BY <2>1, <2>2
<1> QED
  BY <1>1

-----------------------------------------------------------------------------
(* The windows of a profile are b + i * w for the i of an interval *)

Windows(b, lo, hi, w) == [i \in lo .. hi |-> b + i * w]

(* What getLastTWforProfile and getFirstTWforProfile find among them       *)
LEMMA LastOfWindows ==
    ASSUME NEW b \in Int, NEW lo \in Int, NEW hi \in Int, lo <= hi,
           NEW w \in Nat \ {0}
    PROVE  LET f == Windows(b, lo, hi, w)
           IN  /\ DOMAIN f = lo .. hi
               /\ \A i \in lo .. hi : f[i] = b + i * w
               /\ LastTW(f) = hi
               /\ FirstTW(f) = lo
               /\ End(f, w) = b + hi * w + w
               /\ f # NoWindows
               /\ Cardinality(DOMAIN f) = hi - lo + 1
<1> DEFINE f == Windows(b, lo, hi, w)
<1>1. DOMAIN f = lo .. hi /\ \A i \in lo .. hi : f[i] = b + i * w
  BY DEF Windows
<1> HIDE DEF f
<1>2. ASSUME NEW i \in lo .. hi, NEW j \in lo .. hi, i < j
      PROVE  f[i] < f[j]
  <2> DEFINE x == i * w
             y == j * w
  <2>1. x + w <= y /\ x \in Int /\ y \in Int
    BY <1>2, Steps
  <2>2. f[i] = b + x /\ f[j] = b + y
    BY <1>1
  <2> HIDE DEF x, y
  <2> QED
    BY <2>1, <2>2
<1>3. \A i \in lo .. hi : f[i] \in Int
  BY <1>1, Steps
<1>4. lo \in lo .. hi /\ hi \in lo .. hi
  OBVIOUS
<1>5. LastTW(f) = hi
  <2>1. \A j \in lo .. hi : f[j] <= f[hi]
    BY <1>2, <1>3, <1>4
  <2>2. \A i \in lo .. hi : (\A j \in lo .. hi : f[j] <= f[i]) => i = hi
    BY <1>2, <1>3, <1>4
  <2> QED
    BY <1>1, <1>4, <2>1, <2>2 DEF LastTW
<1>6. FirstTW(f) = lo
  <2>1. \A j \in lo .. hi : f[lo] <= f[j]
    BY <1>2, <1>3, <1>4
  <2>2. \A i \in lo .. hi : (\A j \in lo .. hi : f[i] <= f[j]) => i = lo
    BY <1>2, <1>3, <1>4
  <2> QED
    BY <1>1, <1>4, <2>1, <2>2 DEF FirstTW
<1>7. End(f, w) = b + hi * w + w
  BY <1>1, <1>4, <1>5 DEF End
<1>8. f # NoWindows
  <2>1. DOMAIN NoWindows = {}
    BY DEF NoWindows
  <2> QED
    BY <1>1, <1>4, <2>1
<1>9. Cardinality(DOMAIN f) = hi - lo + 1
  BY <1>1, FS_Interval
<1> QED
  BY <1>1, <1>5, <1>6, <1>7, <1>8, <1>9 DEF f

(* What one flow does to the windows of a profile: the sorted set stays    *)
(* regular, keeps its windows, and has one for the flow.                   *)
Regular(f, w) ==
    f # NoWindows =>
        \E b, lo, hi \in Int : lo <= 1 /\ 1 <= hi /\ f = Windows(b, lo, hi, w)

Placed(f, g, i, t, w) ==
    /\ Regular(g, w)
    /\ \A j \in DOMAIN f : j \in DOMAIN g /\ g[j] = f[j]
    /\ i \in Int
    /\ Covers(g, i, t, w)

(* The first window of a profile begins with its first flow, or a century  *)
(* before it.                                                              *)
LEMMA PlaceFirst ==
    ASSUME NEW t \in Int, NEW w \in Nat \ {0}
    PROVE  Placed(NoWindows, TWsWith(NoWindows, t, w),
                  GetTimewindow(NoWindows, t, w), t, w)
<1> DEFINE s == FirstStart(t, w)
           g == Windows(s - w, 1, 1, w)
<1>1. s \in Int /\ s <= t /\ t < s + w
  BY TimeWindowsAssumption DEF FirstStart
<1> HIDE DEF s
<1>2. /\ DOMAIN g = {1}
      /\ g[1] = s
  BY <1>1 DEF Windows
<1>3. TWsWith(NoWindows, t, w) = g
  BY <1>1 DEF TWsWith, Windows, s
<1>4. GetTimewindow(NoWindows, t, w) = 1
  BY DEF GetTimewindow
<1>5. Regular(g, w)
  BY <1>1 DEF Regular
<1> QED
  BY <1>1, <1>2, <1>3, <1>4, <1>5 DEF Placed, Covers, NoWindows

(* A flow after the end of the last window: the windows up to it follow.   *)
LEMMA PlaceNewer ==
    ASSUME NEW b \in Int, NEW lo \in Int, NEW hi \in Int, lo <= hi,
           lo <= 1, 1 <= hi, NEW w \in Nat \ {0}, NEW t \in Int,
           b + hi * w + w <= t
    PROVE  LET f == Windows(b, lo, hi, w)
           IN  Placed(f, TWsWith(f, t, w), GetTimewindow(f, t, w), t, w)
<1> DEFINE f == Windows(b, lo, hi, w)
           q == (t - (b + hi * w + w)) \div w
           n == q + 1
           g == Windows(b, lo, hi + n, w)
<1>1. /\ DOMAIN f = lo .. hi
      /\ \A i \in lo .. hi : f[i] = b + i * w
      /\ LastTW(f) = hi
      /\ End(f, w) = b + hi * w + w
      /\ f # NoWindows
  BY LastOfWindows
<1>2. hi * w \in Int
  OBVIOUS
<1>3. /\ q \in Int
      /\ q * w <= t - (b + hi * w + w)
      /\ t - (b + hi * w + w) < q * w + w
  BY <1>2, DivBounds
<1>4. NewerAmount(f, t, w) = n
  BY <1>1 DEF NewerAmount
<1> HIDE DEF f, q
<1>5. 0 <= q
  <2>1. 0 * w < q * w + w
    BY <1>2, <1>3
  <2> QED
    BY <2>1, <1>3, Steps
<1>6. n \in Int /\ lo <= hi + n /\ 1 <= hi + n
  BY <1>3, <1>5
<1>7. DOMAIN g = lo .. hi + n /\ \A i \in lo .. hi + n : g[i] = b + i * w
  BY DEF Windows
<1> HIDE DEF g
<1>8. Zadd(f, NewerTWs(f, t, w)) = g
  <2> DEFINE z == Zadd(f, NewerTWs(f, t, w))
  <2>1. NewerTWs(f, t, w) = [i \in hi + 1 .. hi + n |->
                               b + hi * w + w + (i - hi - 1) * w]
    BY <1>1, <1>4 DEF NewerTWs
  <2>2. \A i \in hi + 1 .. hi + n :
           b + hi * w + w + (i - hi - 1) * w = b + i * w
    <3> SUFFICES ASSUME NEW i \in hi + 1 .. hi + n
                 PROVE  b + hi * w + w + (i - hi - 1) * w = b + i * w
      OBVIOUS
    <3>1. i \in Int /\ hi + 1 \in Int
      BY <1>6
    <3>2. (i - (hi + 1)) * w = i * w - (hi + 1) * w
      BY <3>1, Steps
    <3>3. (hi + 1) * w = hi * w + w
      BY Steps
    <3>4. i - hi - 1 = i - (hi + 1) /\ i * w \in Int
      BY <3>1, Steps
    <3> QED
      BY <3>2, <3>3, <3>4, <1>2
  <2>3. (lo .. hi) \cup (hi + 1 .. hi + n) = lo .. hi + n
    BY <1>3, <1>5, Split
  <2>4. z = [i \in lo .. hi + n |->
               IF i \in hi + 1 .. hi + n
               THEN b + hi * w + w + (i - hi - 1) * w ELSE f[i]]
    BY <1>1, <2>1, <2>3 DEF Zadd
  <2>5. \A i \in lo .. hi + n : z[i] = b + i * w
    BY <1>1, <2>2, <2>3, <2>4
  <2> QED
    BY <2>4, <2>5 DEF g, Windows
<1>9. TWsWith(f, t, w) = g
  BY <1>1, <1>8 DEF TWsWith
<1>10. GetTimewindow(f, t, w) = hi + n
  BY <1>1, <1>4 DEF GetTimewindow
<1>11. (hi + n) * w = hi * w + q * w + w
  BY <1>3, Steps
<1>12. hi + n \in lo .. hi + n
  BY <1>6
<1>13. g[hi + n] <= t /\ t < g[hi + n] + w
  BY <1>2, <1>3, <1>7, <1>11, <1>12
<1>14. Regular(g, w)
  BY <1>6 DEF Regular, g
<1>15. \A j \in DOMAIN f : j \in DOMAIN g /\ g[j] = f[j]
  <2>1. lo .. hi \subseteq lo .. hi + n
    BY <1>3, <1>5
  <2> QED
    BY <2>1, <1>1, <1>7
<1>16. Placed(f, g, hi + n, t, w)
  BY <1>6, <1>7, <1>12, <1>13, <1>14, <1>15 DEF Placed, Covers
<1> QED
  BY <1>9, <1>10, <1>16 DEF f

(* A flow before the first window: the windows down to it precede.         *)
LEMMA PlaceOlder ==
    ASSUME NEW b \in Int, NEW lo \in Int, NEW hi \in Int, lo <= hi,
           lo <= 1, 1 <= hi, NEW w \in Nat \ {0}, NEW t \in Int,
           t < b + lo * w
    PROVE  LET f == Windows(b, lo, hi, w)
           IN  Placed(f, TWsWith(f, t, w), GetTimewindow(f, t, w), t, w)
<1> DEFINE f == Windows(b, lo, hi, w)
           e == b + hi * w + w
           q == (e - t) \div w
           k == q - (hi - lo)
           g == Windows(b, lo - k, hi, w)
<1>1. /\ DOMAIN f = lo .. hi
      /\ \A i \in lo .. hi : f[i] = b + i * w
      /\ LastTW(f) = hi
      /\ FirstTW(f) = lo
      /\ End(f, w) = e
      /\ f # NoWindows
      /\ Cardinality(DOMAIN f) = hi - lo + 1
  BY LastOfWindows
<1>2. hi * w \in Int /\ lo * w \in Int /\ e \in Int
  OBVIOUS
<1>3. q \in Int /\ q * w <= e - t /\ e - t < q * w + w
  BY <1>2, DivBounds
<1>4. OlderAmount(f, t, w) = k
  BY <1>1, <1>3 DEF OlderAmount
<1> HIDE DEF f, q
<1>5. 1 <= k /\ k \in Int
  <2>1. (hi - lo) * w = hi * w - lo * w
    BY Steps
  <2>2. (hi - lo + 1) * w = (hi - lo) * w + w
    BY Steps
  <2>3. (hi - lo + 1) * w < q * w + w
    BY <2>1, <2>2, <1>2, <1>3
  <2>4. hi - lo + 1 <= q
    BY <2>3, <1>3, Steps
  <2> QED
    BY <2>4, <1>3
<1>6. lo * w <= hi * w
  BY Steps
<1>7. StartedBy(f, t) = {} /\ ~ (e <= t) /\ ~ (f[hi] <= t)
  <2>1. ASSUME NEW i \in lo .. hi PROVE ~ (f[i] <= t)
    <3> DEFINE x == i * w
    <3>1. lo * w <= x /\ x \in Int
      BY Steps
    <3>2. f[i] = b + x
      BY <1>1
    <3> HIDE DEF x
    <3> QED
      BY <3>1, <3>2, <1>2
  <2>2. hi \in lo .. hi
    OBVIOUS
  <2>3. ~ (e <= t)
    BY <1>2, <1>6
  <2> QED
    BY <1>1, <2>1, <2>2, <2>3 DEF StartedBy
<1>8. DOMAIN g = lo - k .. hi /\ \A i \in lo - k .. hi : g[i] = b + i * w
  BY DEF Windows
<1>9. Regular(g, w)
  BY <1>5 DEF Regular
<1> HIDE DEF g
<1>10. Zadd(f, OlderTWs(f, t, w)) = g
  <2>1. OlderTWs(f, t, w) = [i \in lo - k .. lo - 1 |->
                               f[lo] - (lo - i) * w]
    BY <1>1, <1>4 DEF OlderTWs
  <2>2. ASSUME NEW i \in lo - k .. lo - 1
        PROVE  f[lo] - (lo - i) * w = b + i * w
    <3>1. f[lo] = b + lo * w
      BY <1>1
    <3>2. (lo - i) * w = lo * w - i * w /\ i * w \in Int
      BY <1>5, Steps
    <3> QED
      BY <3>1, <3>2, <1>2
  <2>3. (lo - k .. lo - 1) \cup (lo .. hi) = lo - k .. hi
    <3>1. lo - 1 \in Int /\ hi - lo + 1 \in Int /\ lo - k <= lo
      BY <1>5
    <3>2. lo - 1 + 1 = lo /\ lo - 1 + (hi - lo + 1) = hi
      OBVIOUS
    <3> QED
      BY <1>5, <3>1, <3>2, Split
  <2>4. Zadd(f, OlderTWs(f, t, w)) =
          [i \in lo - k .. hi |->
             IF i \in lo - k .. lo - 1 THEN f[lo] - (lo - i) * w ELSE f[i]]
    BY <1>1, <2>1, <2>3 DEF Zadd
  <2>5. \A i \in lo - k .. hi :
           (IF i \in lo - k .. lo - 1 THEN f[lo] - (lo - i) * w ELSE f[i])
             = b + i * w
    BY <1>1, <2>2, <2>3
  <2> QED
    BY <2>4, <2>5 DEF g, Windows
<1>11. TWsWith(f, t, w) = g
  BY <1>1, <1>7, <1>10 DEF TWsWith
<1>12. GetTimewindow(f, t, w) = lo - k
  BY <1>1, <1>4, <1>7 DEF GetTimewindow, TWofOldFlow
<1>13. lo - k \in lo - k .. hi
  BY <1>5
<1>14. Covers(g, lo - k, t, w)
  <2>1. lo - k = hi - q /\ (hi - q) * w = hi * w - q * w /\ q * w \in Int
    BY <1>3, Steps
  <2>2. g[lo - k] = b + hi * w - q * w
    BY <1>8, <1>13, <1>2, <2>1
  <2>3. g[lo - k] <= t /\ t <= g[lo - k] + w
    BY <2>1, <2>2, <1>2, <1>3
  <2>4. ASSUME t = g[lo - k] + w PROVE lo - k < 0
    <3>1. e - t = q * w
      BY <2>1, <2>2, <2>4, <1>2
    <3>2. (hi - lo + 1) * w = hi * w - lo * w + w
      BY Steps
    <3>3. (hi - lo + 1) * w < q * w
      BY <3>1, <3>2, <1>2
    <3>4. ~ (q <= hi - lo + 1)
      BY <3>3, <2>1, <1>3, Steps
    <3> QED
      BY <3>4, <1>3
  <2>5. g[lo - k] \in Int
    BY <2>1, <2>2, <1>2
  <2>6. t < g[lo - k] + w \/ t = g[lo - k] + w
    BY <2>3, <2>5
  <2> QED
    BY <2>3, <2>4, <2>6, <1>8, <1>13, Zenon DEF Covers
<1>15. \A j \in DOMAIN f : j \in DOMAIN g /\ g[j] = f[j]
  <2>1. lo .. hi \subseteq lo - k .. hi
    BY <1>5
  <2> QED
    BY <2>1, <1>1, <1>8
<1>16. Placed(f, g, lo - k, t, w)
  BY <1>5, <1>8, <1>9, <1>13, <1>14, <1>15 DEF Placed
<1> QED
  BY <1>11, <1>12, <1>16 DEF f

(* A flow between the first start and the last end: its window exists.     *)
LEMMA PlaceInside ==
    ASSUME NEW b \in Int, NEW lo \in Int, NEW hi \in Int, lo <= hi,
           lo <= 1, 1 <= hi, NEW w \in Nat \ {0}, NEW t \in Int,
           b + lo * w <= t, t < b + hi * w + w
    PROVE  LET f == Windows(b, lo, hi, w)
           IN  Placed(f, TWsWith(f, t, w), GetTimewindow(f, t, w), t, w)
<1> DEFINE f == Windows(b, lo, hi, w)
           i == (t - b) \div w
<1>1. /\ DOMAIN f = lo .. hi
      /\ \A j \in lo .. hi : f[j] = b + j * w
      /\ LastTW(f) = hi
      /\ End(f, w) = b + hi * w + w
      /\ f # NoWindows
  BY LastOfWindows
<1>2. Regular(f, w)
  BY DEF Regular
<1> HIDE DEF f
<1>3. hi * w \in Int /\ lo * w \in Int
  OBVIOUS
<1>4. i \in Int /\ i * w <= t - b /\ t - b < i * w + w
  BY DivBounds
<1> HIDE DEF i
<1>5. i * w \in Int
  BY <1>4
<1>6. i \in lo .. hi
  <2>1. i * w < hi * w + w /\ lo * w < i * w + w
    BY <1>3, <1>4, <1>5
  <2>2. i <= hi /\ lo <= i
    BY <2>1, <1>4, Steps
  <2> QED
    BY <2>2, <1>4
<1>7. f[i] = b + i * w /\ f[i] <= t /\ t < f[i] + w
  BY <1>1, <1>4, <1>5, <1>6
<1>8. \A j \in lo .. hi : f[j] <= t <=> j <= i
  <2> SUFFICES ASSUME NEW j \in lo .. hi PROVE f[j] <= t <=> j <= i
    OBVIOUS
  <2> DEFINE x == j * w
             y == i * w
  <2>1. /\ x \in Int /\ y \in Int
        /\ i < j => y + w <= x
        /\ j < i => x + w <= y
        /\ y <= t - b /\ t - b < y + w
    BY <1>4, Steps
  <2>2. f[j] = b + x
    BY <1>1
  <2>3. j = i => x = y
    OBVIOUS
  <2> HIDE DEF x, y
  <2> QED
    BY <2>1, <2>2, <2>3, <1>4
<1>9. \A j, m \in lo .. hi : f[j] <= f[m] <=> j <= m
  <2> SUFFICES ASSUME NEW j \in lo .. hi, NEW m \in lo .. hi
               PROVE  f[j] <= f[m] <=> j <= m
    OBVIOUS
  <2> DEFINE x == j * w
             y == m * w
  <2>1. /\ x \in Int /\ y \in Int
        /\ m < j => y + w <= x
        /\ j < m => x + w <= y
        /\ j = m => x = y
    BY Steps
  <2>2. f[j] = b + x /\ f[m] = b + y
    BY <1>1
  <2> HIDE DEF x, y
  <2> QED
    BY <2>1, <2>2
<1>10. StartedBy(f, t) = lo .. i
  <2>1. \A j : j \in StartedBy(f, t) <=> j \in lo .. hi /\ j <= i
    BY <1>1, <1>8 DEF StartedBy
  <2>2. \A j : j \in lo .. i <=> j \in lo .. hi /\ j <= i
    BY <1>6
  <2> QED
    BY <2>1, <2>2
<1>11. TWofTime(f, t) = i
  <2>1. i \in lo .. i /\ \A j \in lo .. i : j \in lo .. hi /\ j <= i
    BY <1>6
  <2>2. \A j \in lo .. i : f[j] <= f[i]
    BY <2>1, <1>6, <1>9
  <2>3. ASSUME NEW m \in lo .. i, \A j \in lo .. i : f[j] <= f[m]
        PROVE  m = i
    <3>1. i <= m
      BY <2>1, <2>3, <1>6, <1>9
    <3> QED
      BY <3>1, <2>1, <1>6
  <2> QED
    BY <2>1, <2>2, <2>3, <1>10 DEF TWofTime
<1>12. TWsWith(f, t, w) = f
  <2>1. StartedBy(f, t) # {}
    <3>1. i \in lo .. i
      BY <1>6
    <3> QED
      BY <3>1, <1>10
  <2> QED
    BY <2>1, <1>1, <1>3 DEF TWsWith
<1>13. GetTimewindow(f, t, w) = i
  <2>1. StartedBy(f, t) # {}
    <3>1. i \in lo .. i
      BY <1>6
    <3> QED
      BY <3>1, <1>10
  <2>2. f[hi] <= t => hi = i
    BY <1>6, <1>8
  <2> QED
    BY <2>1, <2>2, <1>1, <1>3, <1>11 DEF GetTimewindow, TWofOldFlow
<1>14. Placed(f, f, i, t, w)
  BY <1>1, <1>2, <1>4, <1>6, <1>7 DEF Placed, Covers
<1> QED
  BY <1>12, <1>13, <1>14 DEF f

(* get_timewindow in any case.                                             *)
LEMMA Place ==
    ASSUME NEW f, NEW w \in Nat \ {0}, NEW t \in Int, Regular(f, w)
    PROVE  Placed(f, TWsWith(f, t, w), GetTimewindow(f, t, w), t, w)
<1>1. CASE f = NoWindows
  BY <1>1, PlaceFirst
<1>2. CASE f # NoWindows
  <2>1. PICK b \in Int, lo \in Int, hi \in Int :
          lo <= 1 /\ 1 <= hi /\ f = Windows(b, lo, hi, w)
    BY <1>2 DEF Regular
  <2>2. lo * w \in Int /\ hi * w \in Int
    OBVIOUS
  <2>3. CASE b + hi * w + w <= t
    BY <2>1, <2>3, PlaceNewer
  <2>4. CASE t < b + lo * w
    BY <2>1, <2>4, PlaceOlder
  <2>5. CASE b + lo * w <= t /\ t < b + hi * w + w
    BY <2>1, <2>5, PlaceInside
  <2> QED
    BY <2>2, <2>3, <2>4, <2>5
<1> QED
  BY <1>1, <1>2

-----------------------------------------------------------------------------
(* The invariant: the windows of every profile are regular, and what is    *)
(* stored stays where it was placed.                                       *)

AllRegular ==
    /\ DOMAIN tws = Address
    /\ \A a \in Address : Regular(tws[a], config.width)

IInv ==
    /\ config \in Config
    /\ AllRegular
    /\ profiles \subseteq Address
    /\ flows \subseteq Flow
    /\ FlowInWindow
    /\ FlowsOfProfiles

(* From g the windows of f are never lost or moved. *)
Keeps(f, g) == \A i \in DOMAIN f : i \in DOMAIN g /\ g[i] = f[i]

(* The widths and times the rest of the proof computes with.               *)
LEMMA Typed ==
    ASSUME IInv
    PROVE  /\ config.width \in Nat \ {0}
           /\ config.homeNet \subseteq Address
           /\ \A t \in Time : t \in Int
BY TimeWindowsAssumption DEF IInv, Config

(* The two insertions of a flow, the source's and then the destination's:  *)
(* each leaves the sets regular and the windows that were there in place.  *)
LEMMA AddFlowPlaces ==
    ASSUME IInv, NEW s \in Address, NEW d \in Address, NEW t \in Time,
           AddFlow(s, d, t)
    PROVE  /\ AllRegular'
           /\ \A a \in Address : Keeps(tws[a], tws'[a])
           /\ flows' \subseteq Flow
           /\ \A x \in flows' \ flows :
                 Covers(tws'[x.profile], x.tw, x.time, config.width)
<1> DEFINE w == config.width
           out == [tws EXCEPT ![s] = TWsWith(tws[s], t, w)]
           in == [out EXCEPT ![d] = TWsWith(out[d], t, w)]
           fs == Stored(s, tws[s], t)
           fd == Stored(d, out[d], t)
<1>1. w \in Nat \ {0} /\ t \in Int
  BY Typed
<1>2. /\ DOMAIN tws = Address
      /\ \A a \in Address : Regular(tws[a], w)
  BY DEF IInv, AllRegular
<1>3. /\ tws' = IF StoresIn(d) THEN in ELSE out
      /\ flows' = flows \cup ((IF StoresOut(s) THEN {fs} ELSE {})
                               \cup (IF StoresIn(d) THEN {fd} ELSE {}))
      /\ config' = config
  BY DEF AddFlow
<1>4. /\ fs.profile = s /\ fs.time = t /\ fs.tw = GetTimewindow(tws[s], t, w)
      /\ fd.profile = d /\ fd.time = t /\ fd.tw = GetTimewindow(out[d], t, w)
      /\ fs.tw \in Int => fs \in Flow
      /\ fd.tw \in Int => fd \in Flow
  BY DEF Stored, Flow
<1> HIDE DEF fs, fd, w
<1>5. Placed(tws[s], TWsWith(tws[s], t, w), fs.tw, t, w)
  BY <1>1, <1>2, <1>4, Place
<1>6. /\ DOMAIN out = Address
      /\ out[s] = TWsWith(tws[s], t, w)
      /\ \A a \in Address : a # s => out[a] = tws[a]
  BY <1>2
<1> HIDE DEF out
<1>7. \A a \in Address : Regular(out[a], w) /\ Keeps(tws[a], out[a])
  BY <1>2, <1>5, <1>6 DEF Placed, Keeps
<1>8. fs.tw \in Int /\ Covers(out[s], fs.tw, t, w)
  BY <1>5, <1>6 DEF Placed
<1>9. Placed(out[d], TWsWith(out[d], t, w), fd.tw, t, w)
  BY <1>1, <1>4, <1>7, Place
<1>10. /\ DOMAIN in = Address
       /\ in[d] = TWsWith(out[d], t, w)
       /\ \A a \in Address : a # d => in[a] = out[a]
  BY <1>6
<1> HIDE DEF in
<1>11. \A a \in Address : Regular(in[a], w) /\ Keeps(out[a], in[a])
  BY <1>7, <1>9, <1>10 DEF Placed, Keeps
<1>12. fd.tw \in Int /\ Covers(in[d], fd.tw, t, w)
  BY <1>9, <1>10 DEF Placed
<1>13. \A a \in Address : Keeps(tws[a], in[a])
  BY <1>7, <1>11 DEF Keeps
<1>14. Covers(in[s], fs.tw, t, w)
  BY <1>8, <1>11 DEF Keeps, Covers
<1>15. AllRegular'
  BY <1>3, <1>6, <1>7, <1>10, <1>11 DEF AllRegular, w
<1>16. \A a \in Address : Keeps(tws[a], tws'[a])
  BY <1>3, <1>7, <1>13
<1>17. flows' \subseteq Flow
  BY <1>3, <1>4, <1>8, <1>12 DEF IInv
<1>18. ASSUME NEW x \in flows' \ flows
       PROVE  Covers(tws'[x.profile], x.tw, x.time, w)
  <2>1. x = fs \/ (x = fd /\ StoresIn(d))
    BY <1>3
  <2>2. CASE x = fs
    BY <2>2, <1>3, <1>4, <1>8, <1>14
  <2>3. CASE x = fd /\ StoresIn(d)
    BY <2>3, <1>3, <1>4, <1>12
  <2> QED
    BY <2>1, <2>2, <2>3
<1> QED
  BY <1>15, <1>16, <1>17, <1>18 DEF w

(* Flows stay in their windows, since these do not move.                   *)
LEMMA AddFlowKeepsFlows ==
    ASSUME IInv, NEW s \in Address, NEW d \in Address, NEW t \in Time,
           AddFlow(s, d, t)
    PROVE  FlowInWindow'
<1>1. SUFFICES ASSUME NEW x \in flows'
               PROVE  Covers(tws'[x.profile], x.tw, x.time, config.width)
  BY DEF FlowInWindow, AddFlow
<1>2. CASE x \in flows
  <2>1. x.profile \in Address
    BY <1>2 DEF IInv, Flow
  <2> QED
    BY <1>2, <2>1, AddFlowPlaces DEF IInv, FlowInWindow, Keeps, Covers
<1>3. CASE x \notin flows
  BY <1>3, AddFlowPlaces
<1> QED
  BY <1>2, <1>3

(* Features are stored only after addProfile has let the address in.       *)
LEMMA AddFlowRegisters ==
    ASSUME IInv, NEW s \in Address, NEW d \in Address, NEW t \in Time,
           AddFlow(s, d, t)
    PROVE  profiles' \subseteq Address /\ FlowsOfProfiles'
<1> DEFINE out == [tws EXCEPT ![s] = TWsWith(tws[s], t, config.width)]
           fs == Stored(s, tws[s], t)
           fd == Stored(d, out[d], t)
<1>1. /\ flows' = flows \cup ((IF StoresOut(s) THEN {fs} ELSE {})
                               \cup (IF StoresIn(d) THEN {fd} ELSE {}))
      /\ profiles' = profiles
                       \cup (IF StoresOut(s) THEN Addable({s}) ELSE {})
                       \cup (IF StoresIn(d) THEN Addable({d}) ELSE {})
      /\ config' = config
  BY DEF AddFlow
<1>2. fs.profile = s /\ fd.profile = d
  BY DEF Stored
<1> HIDE DEF fs, fd
<1>3. Addable({s}) \subseteq {s} /\ Addable({d}) \subseteq {d}
  BY DEF Addable
<1>4. /\ StoresOut(s) => InHome(s) /\ s \in Addable({s})
      /\ StoresIn(d) => InHome(d) /\ d \in Addable({d})
  BY DEF StoresOut, StoresIn, Addable
<1>5. \A a : InHome(a)' <=> InHome(a)
  BY <1>1 DEF InHome
<1>6. profiles' \subseteq Address
  BY <1>1, <1>3 DEF IInv
<1>7. ASSUME NEW x \in flows'
      PROVE  x.profile \in profiles' /\ InHome(x.profile)
  <2>1. CASE x \in flows
    BY <2>1, <1>1 DEF IInv, FlowsOfProfiles
  <2>2. CASE x = fs /\ StoresOut(s)
    BY <2>2, <1>1, <1>2, <1>4
  <2>3. CASE x = fd /\ StoresIn(d)
    BY <2>3, <1>1, <1>2, <1>4
  <2> QED
    BY <1>1, <2>1, <2>2, <2>3
<1> QED
  BY <1>5, <1>6, <1>7 DEF FlowsOfProfiles

(* IInv is inductive.                                                      *)
THEOREM Invariance == Spec => []IInv
<1>1. Init => IInv
  BY DEF Init, IInv, AllRegular, Regular, FlowInWindow, FlowsOfProfiles
<1>2. IInv /\ [Next]_vars => IInv'
  <2> SUFFICES ASSUME IInv, [Next]_vars PROVE IInv'
    OBVIOUS
  <2>1. ASSUME NEW s \in Address, NEW d \in Address, NEW t \in Time,
               AddFlow(s, d, t)
        PROVE  IInv'
    <3>1. config' = config
      BY <2>1 DEF AddFlow
    <3>2. config' \in Config
      BY <3>1 DEF IInv
    <3>3. AllRegular' /\ flows' \subseteq Flow
      BY <2>1, AddFlowPlaces
    <3>4. FlowInWindow'
      BY <2>1, AddFlowKeepsFlows
    <3>5. profiles' \subseteq Address /\ FlowsOfProfiles'
      BY <2>1, AddFlowRegisters
    <3> QED
      BY <3>2, <3>3, <3>4, <3>5 DEF IInv
  <2>2. CASE UNCHANGED vars
    BY <2>2 DEF vars, IInv, AllRegular, FlowInWindow, FlowsOfProfiles, InHome
  <2> QED
    BY <2>1, <2>2 DEF Next
<1> QED
  BY <1>1, <1>2, PTL DEF Spec

-----------------------------------------------------------------------------
(* What follows from it *)

(* The variables have their types: the numbers and the starts of all       *)
(* windows are integers, however many are created before the first one.    *)
THEOREM TypeCorrect == Spec => []TypeOK
<1>1. IInv => TypeOK
  <2> SUFFICES ASSUME IInv PROVE TypeOK
    OBVIOUS
  <2>1. ASSUME NEW a \in Address
        PROVE  /\ DOMAIN tws[a] \subseteq Int
               /\ \A i \in DOMAIN tws[a] : tws[a][i] \in Int
    <3>1. CASE tws[a] = NoWindows
      BY <3>1 DEF NoWindows
    <3>2. CASE tws[a] # NoWindows
      <4>1. PICK b \in Int, lo \in Int, hi \in Int :
              lo <= 1 /\ 1 <= hi /\ tws[a] = Windows(b, lo, hi, config.width)
        BY <3>2 DEF IInv, AllRegular, Regular
      <4>2. config.width \in Nat \ {0}
        BY Typed
      <4>3. \A i \in lo .. hi : i * config.width \in Int
        BY <4>1, <4>2, Steps
      <4> QED
        BY <4>1, <4>3 DEF Windows
    <3> QED
      BY <3>1, <3>2
  <2> QED
    BY <2>1 DEF TypeOK, IInv, AllRegular
<1> QED
  BY <1>1, Invariance, PTL

(* Whatever the order in which flows arrive, the windows of a profile have *)
(* no gap, no overlap and numbers in the order of time.                    *)
THEOREM WindowsAreContiguous == Spec => []Contiguous
<1>1. IInv => Contiguous
  <2> SUFFICES ASSUME IInv, NEW a \in Address,
                      NEW i \in DOMAIN tws[a], NEW j \in DOMAIN tws[a]
               PROVE  /\ i .. j \subseteq DOMAIN tws[a]
                      /\ tws[a][j] - tws[a][i] = (j - i) * config.width
    BY DEF Contiguous
  <2>1. tws[a] # NoWindows
    BY DEF NoWindows
  <2>2. PICK b \in Int, lo \in Int, hi \in Int :
          lo <= 1 /\ 1 <= hi /\ tws[a] = Windows(b, lo, hi, config.width)
    BY <2>1 DEF IInv, AllRegular, Regular
  <2>3. config.width \in Nat \ {0}
    BY Typed
  <2>4. /\ DOMAIN tws[a] = lo .. hi
        /\ tws[a][i] = b + i * config.width
        /\ tws[a][j] = b + j * config.width
    BY <2>2 DEF Windows
  <2>5. i .. j \subseteq lo .. hi
    BY <2>4
  <2>6. i \in Int /\ j \in Int
    BY <2>4
  <2>7. /\ (j - i) * config.width = j * config.width - i * config.width
        /\ i * config.width \in Int
        /\ j * config.width \in Int
    BY ONLY <2>3, <2>6, Steps, Zenon
  <2>8. ASSUME NEW x \in Int, NEW y \in Int
        PROVE  (b + y) - (b + x) = y - x
    OBVIOUS
  <2>9. tws[a][j] - tws[a][i] = (j - i) * config.width
    BY ONLY <2>4, <2>7, <2>8, Zenon
  <2> QED
    BY <2>4, <2>5, <2>9
<1> QED
  BY <1>1, Invariance, PTL

(* Every stored flow is in a window that exists and covers its time; at    *)
(* the end of a window only if the window was made two or more before the  *)
(* first, where get_timewindow makes one window too many.                  *)
THEOREM FlowsAreInTheirWindows == Spec => []FlowInWindow
<1>1. IInv => FlowInWindow
  BY DEF IInv
<1> QED
  BY <1>1, Invariance, PTL

(* Features are stored for registered profiles of the home network only.   *)
THEOREM FlowsHaveProfiles == Spec => []FlowsOfProfiles
<1>1. IInv => FlowsOfProfiles
  BY DEF IInv
<1> QED
  BY <1>1, Invariance, PTL

(* No flow ever renames or moves a window other flows are stored in.       *)
THEOREM WindowsStay == Spec => WindowsNeverMove
<1>1. IInv /\ [Next]_vars =>
        [\A a \in Address : \A i \in DOMAIN tws[a] :
           i \in DOMAIN tws'[a] /\ tws'[a][i] = tws[a][i]]_vars
  <2> SUFFICES ASSUME IInv, Next
               PROVE  \A a \in Address : \A i \in DOMAIN tws[a] :
                        i \in DOMAIN tws'[a] /\ tws'[a][i] = tws[a][i]
    OBVIOUS
  <2> QED
    BY AddFlowPlaces DEF Next, Keeps
<1> QED
  BY <1>1, Invariance, PTL DEF Spec, WindowsNeverMove
=============================================================================
