-------------------------- MODULE ScanReportsProofs --------------------------
(***************************************************************************)
(* What follows from the promise of portscan_detector, for any number of   *)
(* ports and addresses and any threshold.  PortScan implements ScanReports *)
(* twice, for ports and for addresses, so each of these holds of both      *)
(* kinds of scan as far as that refinement does.                           *)
(***************************************************************************)
EXTENDS ScanReports, FiniteSetTheorems, TLAPS

(* A multiple of w above m is at least the next one after a multiple below *)
(* m.                                                                      *)
LEMMA NextMultiple ==
    ASSUME NEW w \in Nat \ {0}, NEW n \in Nat, NEW i \in Nat,
           NEW m \in Nat, n % w = 0, i * w <= m, m < n
    PROVE  (i + 1) * w <= n
<1> DEFINE q == n \div w
<1>1. q \in Int /\ n = (q * w) + (n % w)
  BY SMTT(60)
<1>2. n = q * w
  BY <1>1
<1> HIDE DEF q
<1>3. i * w < q * w
  <2>1. i * w \in Int
    BY SMTT(60)
  <2> QED
    BY <1>2, <2>1
<1>4. ~ (q <= i)
  <2>1. q <= i => q * w <= i * w
    BY <1>1, SMTT(60)
  <2>2. i * w \in Int /\ q * w \in Int
    BY <1>1, SMTT(60)
  <2> QED
    BY <1>3, <2>1, <2>2
<1>5. i + 1 <= q
  BY <1>1, <1>4
<1>6. (i + 1) * w <= q * w
  BY <1>1, <1>5, SMTT(60)
<1> QED
  BY <1>2, <1>6

(* The amounts reported for a key are at least as far apart as multiples   *)
(* of the threshold, and none is above what was tried.                     *)
Amounts(k) ==
    \A i \in 1..Len(reported[k]) :
        /\ i * Threshold <= reported[k][i]
        /\ reported[k][i] <= Cardinality(targets[k])

ScanInv ==
    /\ targets \in [Key -> SUBSET Target]
    /\ reported \in [Key -> Seq(Nat)]
    /\ \A k \in Key : IsFiniteSet(targets[k]) /\ Amounts(k)

(* A new target leaves every amount below the number of those tried.       *)
LEMMA TryKeeps ==
    ASSUME Threshold \in Nat \ {0}, ScanInv, NEW k \in Key, NEW t \in Target, Try(k, t)
    PROVE  ScanInv'
<1>1. /\ targets' \in [Key -> SUBSET Target]
      /\ reported' = reported
      /\ reported' \in [Key -> Seq(Nat)]
  BY DEF ScanInv, Try
<1>2. ASSUME NEW j \in Key
      PROVE  IsFiniteSet(targets'[j]) /\ Amounts(j)'
  <2>1. IsFiniteSet(targets[j]) /\ Cardinality(targets[j]) \in Nat
    BY FS_CardinalityType DEF ScanInv
  <2>2. /\ IsFiniteSet(targets'[j])
        /\ Cardinality(targets'[j]) \in Nat
        /\ Cardinality(targets[j]) <= Cardinality(targets'[j])
    <3>1. CASE j = k
      <4>1. targets'[j] = targets[j] \cup {t}
        BY <3>1 DEF ScanInv, Try
      <4>2. /\ IsFiniteSet(targets'[j])
            /\ Cardinality(targets'[j]) = IF t \in targets[j] THEN Cardinality(targets[j])
                                         ELSE Cardinality(targets[j]) + 1
        BY <2>1, <4>1, FS_AddElement
      <4> QED
        BY <2>1, <4>2
    <3>2. CASE j # k
      <4>1. targets'[j] = targets[j]
        BY <3>2 DEF ScanInv, Try
      <4> QED
        BY <2>1, <4>1
    <3> QED
      BY <3>1, <3>2
  <2>3. ASSUME NEW i \in 1..Len(reported'[j])
        PROVE  /\ i * Threshold <= reported'[j][i]
               /\ reported'[j][i] <= Cardinality(targets'[j])
    <3>1. reported[j] \in Seq(Nat) /\ i \in 1..Len(reported[j])
      BY <1>1, <2>3 DEF ScanInv
    <3>2. reported[j][i] \in Nat
      BY <3>1
    <3>3. /\ i * Threshold <= reported[j][i]
          /\ reported[j][i] <= Cardinality(targets[j])
      BY <3>1 DEF ScanInv, Amounts
    <3> QED
      BY <1>1, <2>1, <2>2, <3>2, <3>3
  <2> QED
    BY <2>2, <2>3 DEF Amounts
<1> QED
  BY <1>1, <1>2 DEF ScanInv

(* What is reported is a multiple above the last one.                      *)
LEMMA ReportKeeps ==
    ASSUME Threshold \in Nat \ {0}, ScanInv, NEW k \in Key, NEW n \in Nat, n > 0,
           Report(k, n)
    PROVE  ScanInv'
<1> DEFINE last == Len(reported[k])
<1>1. /\ reported[k] \in Seq(Nat) /\ last \in Nat
      /\ reported' = [reported EXCEPT ![k] = Append(reported[k], n)]
      /\ reported' \in [Key -> Seq(Nat)]
      /\ targets' = targets
  BY DEF ScanInv, Report
<1>2. (last + 1) * Threshold <= n
  <2>1. CASE last = 0
    <3>1. 0 * Threshold <= 0
      BY SMTT(60)
    <3> QED
      BY <2>1, <3>1, NextMultiple DEF Report
  <2>2. CASE last # 0
    <3>1. last \in 1..last
      BY <1>1, <2>2
    <3>2. reported[k][last] \in Nat /\ reported[k][last] < n
      BY <1>1, <3>1 DEF Report
    <3>3. last * Threshold <= reported[k][last]
      BY <3>1 DEF ScanInv, Amounts
    <3> QED
      BY <1>1, <3>2, <3>3, NextMultiple DEF Report
  <2> QED
    BY <2>1, <2>2
<1>3. ASSUME NEW j \in Key
      PROVE  IsFiniteSet(targets'[j]) /\ Amounts(j)'
  <2>1. CASE j # k
    <3>1. reported'[j] = reported[j]
      BY <1>1, <2>1 DEF ScanInv
    <3> QED
      BY <1>1, <3>1 DEF ScanInv, Amounts
  <2>2. CASE j = k
    <3>1. reported'[k] = Append(reported[k], n)
      BY <1>1 DEF ScanInv
    <3>2. ASSUME NEW i \in 1..Len(reported'[k])
          PROVE  /\ i * Threshold <= reported'[k][i]
                 /\ reported'[k][i] <= Cardinality(targets[k])
      <4>1. Len(reported'[k]) = last + 1 /\ i \in 1..(last + 1)
        BY <1>1, <3>1, <3>2
      <4>2. CASE i = last + 1
        <5>1. reported'[k][i] = n
          BY <1>1, <3>1, <4>2
        <5> QED
          BY <1>2, <4>2, <5>1 DEF Report
      <4>3. CASE i # last + 1
        <5>1. i \in 1..last /\ reported'[k][i] = reported[k][i]
          BY <1>1, <3>1, <4>1, <4>3
        <5> QED
          BY <5>1 DEF ScanInv, Amounts
      <4> QED
        BY <4>2, <4>3
    <3> QED
      BY <1>1, <2>2, <3>2 DEF ScanInv, Amounts
  <2> QED
    BY <2>1, <2>2
<1> QED
  BY <1>1, <1>3 DEF ScanInv

LEMMA ScanInvariance ==
    ASSUME Threshold \in Nat \ {0}
    PROVE  ScanSpec => []ScanInv
<1>1. ScanInit => ScanInv
  <2>1. ASSUME ScanInit, NEW k \in Key
        PROVE  IsFiniteSet(targets[k]) /\ Amounts(k)
    BY <2>1, FS_EmptySet DEF ScanInit, Amounts
  <2> QED
    BY <2>1 DEF ScanInit, ScanInv
<1>2. ScanInv /\ [ScanNext]_scanVars => ScanInv'
  <2> SUFFICES ASSUME ScanInv, [ScanNext]_scanVars PROVE ScanInv'
    OBVIOUS
  <2>1. ASSUME NEW k \in Key, NEW t \in Target, Try(k, t) PROVE ScanInv'
    BY <2>1, TryKeeps
  <2>2. ASSUME NEW k \in Key, NEW n \in 1..Cardinality(Target), Report(k, n) PROVE ScanInv'
    BY <2>2, ReportKeeps
  <2>3. CASE UNCHANGED scanVars
    BY <2>3 DEF scanVars, ScanInv, Amounts
  <2> QED
    BY <2>1, <2>2, <2>3 DEF ScanNext
<1> QED
  BY <1>1, <1>2, PTL DEF ScanSpec

(* SeldomReported: n reports about one port or address in one window need  *)
(* n times the threshold of targets, however the features grow.            *)
THEOREM ReportsAreSeldom ==
    ASSUME Threshold \in Nat \ {0}
    PROVE  ScanSpec => []SeldomReported
<1>1. ScanInv => SeldomReported
  <2> SUFFICES ASSUME ScanInv, NEW k \in Key
               PROVE  Len(reported[k]) * Threshold <= Cardinality(targets[k])
    BY DEF SeldomReported
  <2> DEFINE last == Len(reported[k])
  <2>1. /\ reported[k] \in Seq(Nat) /\ last \in Nat
        /\ Cardinality(targets[k]) \in Nat
    BY FS_CardinalityType DEF ScanInv
  <2>2. CASE last = 0
    <3>1. 0 * Threshold = 0
      BY SMTT(60)
    <3> QED
      BY <2>1, <2>2, <3>1
  <2>3. CASE last # 0
    <3>1. last \in 1..last
      BY <2>1, <2>3
    <3>2. /\ last * Threshold <= reported[k][last]
          /\ reported[k][last] <= Cardinality(targets[k])
      BY <3>1 DEF ScanInv, Amounts
    <3>3. last * Threshold \in Int /\ reported[k][last] \in Nat
      <4>1. last * Threshold \in Int
        BY <2>1, SMTT(60)
      <4> QED
        BY <2>1, <3>1, <4>1
    <3> QED
      BY <2>1, <3>2, <3>3
  <2> QED
    BY <2>2, <2>3
<1> QED
  BY <1>1, ScanInvariance, PTL
=============================================================================
