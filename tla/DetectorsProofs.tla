-------------------------- MODULE DetectorsProofs --------------------------
(***************************************************************************)
(* The detectors that keep state of their own, for any addresses, flows,   *)
(* messages, feeds and thresholds: that flowalerts misses no series of bad *)
(* logins, forgets no flow to an unknown port and reports no connection at *)
(* the first look, that arp backs each scan by requests of its own, and    *)
(* that the database mirrors the feeds.  Each of these is about one module *)
(* and none of the others; at the end, that whatever all of them keep is   *)
(* of its type.                                                            *)
(***************************************************************************)
EXTENDS Detectors, SequenceTheorems, FiniteSetTheorems, TLAPS

-----------------------------------------------------------------------------
(* FlowThresholds: bad SMTP logins *)

(* s is what a longer sequence of numbers ends with.                        *)
IsEnd(s, all) ==
    /\ Len(s) <= Len(all)
    /\ \A i \in 1..Len(s) : s[i] = all[Len(all) - Len(s) + i]

LEMMA AppendedNat ==
    ASSUME NEW s \in Seq(Nat), NEW t \in Nat
    PROVE  /\ Append(s, t) \in Seq(Nat) /\ Len(Append(s, t)) = Len(s) + 1
           /\ Append(s, t)[Len(s) + 1] = t
           /\ \A i \in 1..Len(s) : Append(s, t)[i] = s[i]
OBVIOUS

(* An end grows with the whole, and loses its first without it.            *)
LEMMA EndGrows ==
    ASSUME NEW s \in Seq(Nat), NEW all \in Seq(Nat), NEW t \in Nat, IsEnd(s, all)
    PROVE  IsEnd(Append(s, t), Append(all, t))
<1> DEFINE s1 == Append(s, t)
           all1 == Append(all, t)
           m == Len(s)
           n == Len(all)
<1>1. m \in Nat /\ n \in Nat /\ m <= n
  BY DEF IsEnd
<1>2. /\ Len(s1) = m + 1 /\ s1[m + 1] = t
      /\ \A i \in 1..m : s1[i] = s[i]
  BY AppendedNat
<1>3. /\ Len(all1) = n + 1 /\ all1[n + 1] = t
      /\ \A i \in 1..n : all1[i] = all[i]
  BY AppendedNat
<1>4. \A i \in 1..m : s[i] = all[n - m + i]
  BY DEF IsEnd
<1> HIDE DEF s1, all1, m, n
<1>5. ASSUME NEW i \in 1..(m + 1)
      PROVE  s1[i] = all1[(n + 1) - (m + 1) + i]
  <2>1. CASE i = m + 1
    <3>1. (n + 1) - (m + 1) + i = n + 1
      BY <1>1, <2>1
    <3> QED
      BY <2>1, <3>1, <1>2, <1>3
  <2>2. CASE i \in 1..m
    <3>1. (n + 1) - (m + 1) + i = n - m + i /\ n - m + i \in 1..n
      BY <1>1, <2>2
    <3> QED
      BY <2>2, <3>1, <1>2, <1>3, <1>4
  <2> QED
    BY <1>1, <2>1, <2>2
<1>6. m + 1 <= n + 1
  BY <1>1
<1> QED
  BY <1>2, <1>3, <1>5, <1>6 DEF IsEnd, s1, all1

LEMMA EndShortens ==
    ASSUME NEW s \in Seq(Nat), NEW all \in Seq(Nat), IsEnd(s, all), s # <<>>
    PROVE  /\ IsEnd(Tail(s), all) /\ Len(Tail(s)) = Len(s) - 1
           /\ Tail(s) \in Seq(Nat)
<1> DEFINE r == Tail(s)
           m == Len(s)
           n == Len(all)
<1>1. m \in Nat /\ n \in Nat /\ 0 < m /\ m <= n
  BY DEF IsEnd
<1>2. /\ r \in Seq(Nat) /\ Len(r) = m - 1
      /\ \A i \in 1..(m - 1) : r[i] = s[i + 1]
  BY HeadTailProperties
<1>3. \A i \in 1..m : s[i] = all[n - m + i]
  BY DEF IsEnd
<1> HIDE DEF r, m, n
<1>4. ASSUME NEW i \in 1..(m - 1)
      PROVE  r[i] = all[n - (m - 1) + i]
  <2>1. i + 1 \in 1..m /\ n - m + (i + 1) = n - (m - 1) + i
    BY <1>1
  <2> QED
    BY <2>1, <1>2, <1>3
<1>5. m - 1 <= n
  BY <1>1
<1> QED
  BY <1>2, <1>4, <1>5 DEF IsEnd, r, m, n

LoginsTyped ==
    /\ now \in Nat
    /\ logins \in [Profile -> Seq(Nat)]
    /\ smtp_bruteforce_cache \in [Profile -> Seq(Nat)]

AlertedAt(p, i) == Evidence("SMTPLoginBruteforce", p, p, logins[p][i]) \in evidence

(* The login before those in the cache                                     *)
Cut(p) == Len(logins[p]) - Len(smtp_bruteforce_cache[p])

(* The cache holds the last logins.  One that could take a login without   *)
(* becoming full begins with the first login of all, or with the one after *)
(* an alert.                                                               *)
CacheIsEnd ==
    \A p \in Profile :
        /\ Len(smtp_bruteforce_cache[p]) < SmtpThreshold
        /\ IsEnd(smtp_bruteforce_cache[p], logins[p])
        /\ \/ Len(smtp_bruteforce_cache[p]) = SmtpThreshold - 1
           \/ Cut(p) = 0
           \/ AlertedAt(p, Cut(p))

LoginInv == LoginsTyped /\ CacheIsEnd /\ NoBruteforceMissed

(* No other message touches the logins or takes evidence back.             *)
LEMMA OthersKeepLogins ==
    ASSUME LoginInv, [ThresholdNext]_thresholdVars,
           ~ \E p \in Profile : NewSmtp(p)
    PROVE  LoginInv'
<1>1. /\ logins' = logins /\ smtp_bruteforce_cache' = smtp_bruteforce_cache
      /\ now' \in Nat /\ evidence \subseteq evidence'
  <2>1. CASE FlowStep
    BY <2>1 DEF FlowStep, StoreFlow, NewFlow, ServicesRead, NewService, LoginInv,
                LoginsTyped, counters
  <2>2. CASE DnsStep
    BY <2>2 DEF DnsStep, AgeStored, NewDns, LoginInv, LoginsTyped, counters
  <2>3. CASE LoginStep
    <3>1. CASE Later
      BY <3>1, FlowThresholdsAssumption DEF Later, LoginInv, LoginsTyped, counters
    <3>2. ASSUME NEW p \in Profile, check_dns_arpa_scan(p)
          PROVE  /\ logins' = logins /\ smtp_bruteforce_cache' = smtp_bruteforce_cache
                 /\ now' = now /\ evidence \subseteq evidence'
      BY <3>2 DEF check_dns_arpa_scan
    <3> QED
      BY <2>3, <3>1, <3>2 DEF LoginStep, LoginInv, LoginsTyped
  <2>4. CASE SoftwareStep
    BY <2>4 DEF SoftwareStep, add_software_to_profile, check_multiple_ssh_clients,
                LoginInv, LoginsTyped, counters
  <2>5. CASE MessageStep
    BY <2>5 DEF MessageStep, NewNotice, NewSsl, NewDownloadedFile, Reported, LoginInv,
                LoginsTyped, counters
  <2>6. CASE UNCHANGED thresholdVars
    BY <2>6 DEF thresholdVars, counters, LoginInv, LoginsTyped
  <2> QED
    BY <2>1, <2>2, <2>3, <2>4, <2>5, <2>6 DEF ThresholdNext
<1>2. LoginsTyped'
  BY <1>1 DEF LoginInv, LoginsTyped
<1>3. CacheIsEnd'
  BY <1>1 DEF LoginInv, CacheIsEnd, Cut, AlertedAt
<1>4. NoBruteforceMissed'
  BY <1>1 DEF LoginInv, NoBruteforceMissed
<1> QED
  BY <1>2, <1>3, <1>4 DEF LoginInv

(* A bad login lengthens the cache, cuts it, or uses it up.                *)
LEMMA LoginKeepsInv ==
    ASSUME LoginInv, NEW p \in Profile, NewSmtp(p)
    PROVE  LoginInv'
<1> DEFINE old == smtp_bruteforce_cache[p]
           new == smtp_bruteforce_cache'[p]
           cached == Append(old, now)
           log == logins[p]
           log1 == logins'[p]
           m == Len(log)
           c == Len(old)
           full == c + 1 = SmtpThreshold
           soon == cached[c + 1] - cached[1] <= SmtpSeconds
           alert == Evidence("SMTPLoginBruteforce", p, p, now)
<1>1. /\ SmtpThreshold \in Nat \ {0, 1} /\ SmtpSeconds \in Nat
      /\ now \in Nat /\ old \in Seq(Nat) /\ log \in Seq(Nat)
  BY FlowThresholdsAssumption DEF LoginInv, LoginsTyped
<1>2. IsEnd(old, log) /\ c < SmtpThreshold
  BY DEF LoginInv, CacheIsEnd
<1>3. m \in Nat /\ c \in Nat /\ c <= m
  BY <1>1, <1>2 DEF IsEnd
<1>4. cached \in Seq(Nat) /\ Len(cached) = c + 1
  BY <1>1, AppendedNat
<1>5. /\ logins' = [logins EXCEPT ![p] = Append(@, now)]
      /\ smtp_bruteforce_cache' = [smtp_bruteforce_cache EXCEPT ![p] =
             IF full /\ soon THEN <<>> ELSE IF full THEN Tail(cached) ELSE cached]
      /\ evidence \subseteq evidence' /\ (full /\ soon => alert \in evidence')
      /\ now' = now
  BY <1>4 DEF NewSmtp, WithoutOldest, OnlyIf
<1>6. /\ log1 = Append(log, now)
      /\ new = IF full /\ soon THEN <<>> ELSE IF full THEN Tail(cached) ELSE cached
      /\ \A q \in Profile \ {p} :
            /\ logins'[q] = logins[q]
            /\ smtp_bruteforce_cache'[q] = smtp_bruteforce_cache[q]
  BY <1>5 DEF LoginInv, LoginsTyped
<1>7. /\ log1 \in Seq(Nat) /\ Len(log1) = m + 1 /\ log1[m + 1] = now
      /\ \A i \in 1..m : log1[i] = log[i]
  BY <1>1, <1>6, AppendedNat
<1>8. IsEnd(cached, log1)
  BY <1>1, <1>2, <1>6, EndGrows
<1>9. full => cached # <<>> /\ IsEnd(Tail(cached), log1) /\ Len(Tail(cached)) = c
              /\ Tail(cached) \in Seq(Nat)
  <2>1. cached # <<>>
    BY <1>3, <1>4
  <2>2. IsEnd(Tail(cached), log1) /\ Tail(cached) \in Seq(Nat)
        /\ Len(Tail(cached)) = (c + 1) - 1
    BY <1>4, <1>7, <1>8, <2>1, EndShortens
  <2> QED
    BY <1>3, <2>1, <2>2
<1>10. IsEnd(<<>>, log1)
  BY <1>3, <1>7 DEF IsEnd
<1>11. new \in Seq(Nat) /\ IsEnd(new, log1)
       /\ Len(new) = IF full /\ soon THEN 0 ELSE IF full THEN c ELSE c + 1
  <2>1. <<>> \in Seq(Nat) /\ Len(<<>>) = 0
    BY EmptySeq
  <2> HIDE DEF full, soon, cached, c, new, log1
  <2> QED
    BY <1>4, <1>6, <1>8, <1>9, <1>10, <2>1
<1>12. LoginsTyped'
  BY <1>1, <1>5, <1>7, <1>11 DEF LoginInv, LoginsTyped
<1> HIDE DEF old, new, cached, log, log1, m, c, soon
<1>13. full /\ soon => Evidence("SMTPLoginBruteforce", p, p, log1[m + 1]) \in evidence'
  BY <1>5, <1>7
<1>14. Cut(p) = m - c /\ Cut(p)' = (m + 1) - Len(new)
  BY <1>7 DEF Cut, m, c, new, old, log, log1
<1>15. CacheIsEnd'
  <2>1. ASSUME NEW q \in Profile, q # p
        PROVE  (/\ Len(smtp_bruteforce_cache[q]) < SmtpThreshold
                /\ IsEnd(smtp_bruteforce_cache[q], logins[q])
                /\ \/ Len(smtp_bruteforce_cache[q]) = SmtpThreshold - 1
                   \/ Cut(q) = 0
                   \/ AlertedAt(q, Cut(q)))'
    BY <2>1, <1>5, <1>6 DEF LoginInv, CacheIsEnd, Cut, AlertedAt
  <2>2. Len(new) < SmtpThreshold /\ IsEnd(new, log1)
    BY <1>1, <1>2, <1>3, <1>11
  <2>3. Len(new) = SmtpThreshold - 1 \/ Cut(p)' = 0 \/ AlertedAt(p, Cut(p))'
    <3>1. CASE full /\ soon
      <4>1. Cut(p)' = m + 1
        BY <3>1, <1>3, <1>11, <1>14
      <4> QED
        BY <3>1, <4>1, <1>13 DEF AlertedAt, log1
    <3>2. CASE full /\ ~soon
      BY <3>2, <1>3, <1>11
    <3>3. CASE ~full
      <4>1. Cut(p)' = Cut(p) /\ Cut(p) \in 0..m
        BY <3>3, <1>3, <1>11, <1>14
      <4>2. Cut(p) = 0 \/ AlertedAt(p, Cut(p))
        <5>1. c # SmtpThreshold - 1
          BY <3>3, <1>1, <1>3
        <5> QED
          BY <5>1 DEF LoginInv, CacheIsEnd, c, old
      <4>3. CASE Cut(p) = 0
        BY <4>1, <4>3
      <4>4. CASE Cut(p) \in 1..m /\ AlertedAt(p, Cut(p))
        <5> DEFINE k == Cut(p)
        <5>1. k \in 1..m /\ AlertedAt(p, k)
          BY <4>4
        <5>2. Cut(p)' = k
          BY <4>1
        <5> HIDE DEF k
        <5>3. Evidence("SMTPLoginBruteforce", p, p, log1[k]) \in evidence'
          BY <5>1, <1>5, <1>7 DEF AlertedAt, log
        <5> QED
          BY <5>2, <5>3 DEF AlertedAt, log1
      <4> QED
        BY <4>1, <4>2, <4>3, <4>4, <1>3
    <3> QED
      BY <3>1, <3>2, <3>3
  <2> QED
    BY <2>1, <2>2, <2>3 DEF CacheIsEnd, new, log1
<1>16. NoBruteforceMissed'
  <2> SUFFICES ASSUME NEW q \in Profile, NEW i \in DOMAIN logins'[q],
                      i >= SmtpThreshold,
                      logins'[q][i] - logins'[q][i - SmtpThreshold + 1] <= SmtpSeconds
               PROVE  \E k \in (i - SmtpThreshold + 1)..i :
                         Evidence("SMTPLoginBruteforce", q, q, logins'[q][k]) \in evidence'
    BY DEF NoBruteforceMissed
  <2>1. CASE q # p
    <3>1. logins'[q] = logins[q]
      BY <2>1, <1>6
    <3>2. PICK k \in (i - SmtpThreshold + 1)..i :
             Evidence("SMTPLoginBruteforce", q, q, logins[q][k]) \in evidence
      BY <3>1 DEF LoginInv, NoBruteforceMissed
    <3> QED
      BY <3>1, <3>2, <1>5
  <2>2. CASE q = p
    <3>1. i \in 1..(m + 1) /\ log1 = logins'[q] /\ log = logins[q]
      BY <2>2, <1>7 DEF log1, log
    <3>2. CASE i \in 1..m
      <4> DEFINE j == i - SmtpThreshold + 1
      <4>1. j \in 1..m
        BY <3>2, <1>1, <1>3
      <4>2. log1[i] = log[i] /\ log1[j] = log[j]
        BY <3>2, <4>1, <1>7
      <4>3. DOMAIN log = 1..m
        BY <1>1 DEF m
      <4>4. PICK k \in j..i :
               Evidence("SMTPLoginBruteforce", p, p, logins[p][k]) \in evidence
        BY <2>2, <3>1, <3>2, <4>2, <4>3 DEF LoginInv, NoBruteforceMissed
      <4>5. k \in 1..m
        BY <3>2, <4>1, <1>3
      <4>6. log1[k] = log[k]
        BY <4>5, <1>7
      <4> QED
        BY <2>2, <3>1, <4>4, <4>6, <1>5
    <3>3. CASE i = m + 1 /\ full
      <4>1. /\ Len(cached) = SmtpThreshold
            /\ \A k \in 1..SmtpThreshold : cached[k] = log1[(m + 1) - SmtpThreshold + k]
        BY <3>3, <1>4, <1>7, <1>8 DEF IsEnd
      <4>2. /\ (m + 1) - SmtpThreshold + 1 = i - SmtpThreshold + 1
            /\ (m + 1) - SmtpThreshold + SmtpThreshold = i
            /\ 1 \in 1..SmtpThreshold /\ SmtpThreshold \in 1..SmtpThreshold
        BY <3>3, <1>1, <1>3
      <4>3. cached[SmtpThreshold] = log1[i]
        BY <4>1, <4>2
      <4>4. cached[1] = log1[i - SmtpThreshold + 1]
        BY <4>1, <4>2
      <4>5. soon
        BY <3>1, <3>3, <4>3, <4>4 DEF soon
      <4>6. Evidence("SMTPLoginBruteforce", p, p, log1[i]) \in evidence'
        BY <3>3, <4>5, <1>5, <1>7
      <4>7. i \in (i - SmtpThreshold + 1)..i
        BY <3>3, <1>1, <1>3
      <4> QED
        BY <2>2, <3>1, <4>6, <4>7
    <3>4. CASE i = m + 1 /\ ~full
      <4>1. c <= SmtpThreshold - 2
        BY <3>4, <1>1, <1>2, <1>3
      <4>2. Cut(p) # 0 /\ c # SmtpThreshold - 1
        BY <3>4, <4>1, <1>1, <1>3, <1>14
      <4> DEFINE k == Cut(p)
      <4>3. AlertedAt(p, k)
        BY <4>2 DEF LoginInv, CacheIsEnd, c, old
      <4>4. k \in 1..m /\ k \in (i - SmtpThreshold + 1)..i
        BY <3>4, <4>1, <4>2, <1>1, <1>3, <1>14
      <4> HIDE DEF k
      <4>5. Evidence("SMTPLoginBruteforce", p, p, log1[k]) \in evidence'
        BY <4>3, <4>4, <1>5, <1>7 DEF AlertedAt, log
      <4> QED
        BY <2>2, <3>1, <4>4, <4>5
    <3> QED
      BY <3>1, <3>2, <3>3, <3>4, <1>3
  <2> QED
    BY <2>1, <2>2
<1> QED
  BY <1>12, <1>15, <1>16 DEF LoginInv

LEMMA LoginInvInit == ThresholdInit => LoginInv
<1> SUFFICES ASSUME ThresholdInit PROVE LoginInv
  OBVIOUS
<1>1. \A p \in Profile : logins[p] = <<>> /\ smtp_bruteforce_cache[p] = <<>>
  BY DEF ThresholdInit
<1>2. LoginsTyped
  BY EmptySeq DEF ThresholdInit, LoginsTyped
<1>3. IsEnd(<<>>, <<>>) /\ Len(<<>>) = 0
  <2>1. Len(<<>>) = 0
    BY EmptySeq
  <2> QED
    BY <2>1 DEF IsEnd
<1>4. CacheIsEnd
  <2>1. \A p \in Profile : Cut(p) = 0
    BY <1>1, <1>3 DEF Cut
  <2>2. 0 < SmtpThreshold
    BY FlowThresholdsAssumption
  <2> QED
    BY <1>1, <1>3, <2>1, <2>2 DEF CacheIsEnd
<1>5. NoBruteforceMissed
  BY <1>1 DEF NoBruteforceMissed
<1> QED
  BY <1>2, <1>4, <1>5 DEF LoginInv

LEMMA LoginInvStep == LoginInv /\ [ThresholdNext]_thresholdVars => LoginInv'
BY OthersKeepLogins, LoginKeepsInv

(* Whatever bad logins arrive and whenever, SmtpThreshold of them in a row *)
(* within SmtpSeconds never pass without an alert among them.              *)
THEOREM BruteforceNeverMissed == ThresholdSpec => []NoBruteforceMissed
<1>1. LoginInv => NoBruteforceMissed
  BY DEF LoginInv
<1> QED
  BY <1>1, LoginInvInit, LoginInvStep, PTL DEF ThresholdSpec

-----------------------------------------------------------------------------
(* FlowThresholds: unknown ports *)

(* A set of numbers has a least one.                                       *)
LEMMA HasLeast ==
    ASSUME NEW P \in SUBSET Nat, P # {}
    PROVE  \E m \in P : \A q \in P : m <= q
<1>1. PICK m \in P : \A q \in P : <<q, m>> \notin OpToRel(<, Nat)
  BY NatLessThanWellFounded, WFMin
<1>2. \A q \in P : ~ (q < m)
  BY <1>1 DEF OpToRel
<1> QED
  BY <1>2

(* Positions have a last one: its distance from the end is the least.      *)
LEMMA MaxOfPositions ==
    ASSUME NEW n \in Nat, NEW P \in SUBSET (1..n), P # {}
    PROVE  Max(P) \in P
<1> DEFINE D == {n - q : q \in P}
<1>1. D \subseteq Nat /\ D # {}
  <2>1. \A q \in P : n - q \in Nat
    OBVIOUS
  <2>2. PICK q \in P : TRUE
    OBVIOUS
  <2>3. n - q \in D
    BY <2>2
  <2> QED
    BY <2>1, <2>3
<1>2. PICK d \in D : \A c \in D : d <= c
  <2> HIDE DEF D
  <2> QED
    BY <1>1, HasLeast
<1>3. PICK m \in P : d = n - m
  OBVIOUS
<1>4. ASSUME NEW q \in P PROVE m >= q
  <2>1. n - q \in D
    OBVIOUS
  <2>2. n - m <= n - q
    BY <1>2, <1>3, <2>1
  <2>3. m \in Int /\ q \in Int
    OBVIOUS
  <2> QED
    BY <2>2, <2>3
<1>5. \E x \in P : \A y \in P : x >= y
  BY <1>4
<1> QED
  BY <1>5 DEF Max

(* g looks at the flows of a queue as FoldLeft does: after all others at   *)
(* the last one.                                                           *)
NothingYet == [daddrs |-> p2p_daddrs, found |-> {}]

LooksAt(g, line, s) ==
    IF s = {} THEN NothingYet
    ELSE LET i == Max(s) IN check_unknown_port(g[s \ {i}], line[i])

SmallParts(line, n) == {s \in SUBSET DOMAIN line : Cardinality(s) <= n}
Looks(g, line) == g = [s \in SUBSET DOMAIN line |-> LooksAt(g, line, s)]
LooksUpTo(g, line, n) == g = [s \in SmallParts(line, n) |-> LooksAt(g, line, s)]

(* Some of the positions of a queue, and those without the last of them    *)
LEMMA PartsOfQueue ==
    ASSUME NEW line \in Seq(Flow), NEW s \in SUBSET DOMAIN line
    PROVE  /\ Cardinality(s) \in Nat /\ Cardinality(s) <= Len(line)
           /\ Cardinality(s) = 0 <=> s = {}
           /\ s # {} => Max(s) \in s /\ Cardinality(s \ {Max(s)}) = Cardinality(s) - 1
<1>1. DOMAIN line = 1..Len(line) /\ Len(line) \in Nat
  OBVIOUS
<1>2. IsFiniteSet(1..Len(line)) /\ Cardinality(1..Len(line)) = Len(line)
  <2>1. 1 \in Int /\ Len(line) \in Int
    BY <1>1
  <2>2. /\ IsFiniteSet(1..Len(line))
        /\ Cardinality(1..Len(line)) = IF 1 > Len(line) THEN 0 ELSE Len(line) - 1 + 1
    BY <2>1, FS_Interval
  <2> QED
    BY <1>1, <2>2
<1>3. IsFiniteSet(s) /\ Cardinality(s) <= Len(line)
  BY <1>1, <1>2, FS_Subset
<1>4. s # {} => Max(s) \in s
  BY <1>1, MaxOfPositions
<1>5. Cardinality(s) \in Nat /\ (Cardinality(s) = 0 <=> s = {})
  BY <1>3, FS_CardinalityType, FS_EmptySet
<1>6. \A x \in s : Cardinality(s \ {x}) = Cardinality(s) - 1
  BY <1>3, FS_RemoveElement
<1> QED
  BY <1>3, <1>4, <1>5, <1>6

(* Such a g exists, by the size of the part.                               *)
LEMMA LookingExists ==
    ASSUME NEW line \in Seq(Flow)
    PROVE  \E g : Looks(g, line)
<1> DEFINE P == {n \in Nat : ~ \E g : LooksUpTo(g, line, n)}
<1>1. ASSUME P # {} PROVE FALSE
  <2>1. PICK n \in P : \A q \in P : n <= q
    <3> HIDE DEF P
    <3>1. P \subseteq Nat
      BY DEF P
    <3> QED
      BY <1>1, <3>1, HasLeast
  <2>2. CASE n = 0
    <3> DEFINE g == [s \in SmallParts(line, 0) |-> NothingYet]
    <3>1. \A s \in SmallParts(line, 0) : LooksAt(g, line, s) = NothingYet
      BY PartsOfQueue DEF LooksAt, SmallParts
    <3>2. g = [s \in SmallParts(line, 0) |-> LooksAt(g, line, s)]
      BY <3>1
    <3> QED
      BY <2>1, <2>2, <3>2 DEF LooksUpTo
  <2>3. CASE n # 0
    <3>1. n - 1 \in Nat /\ n - 1 \notin P
      BY <2>1, <2>3
    <3>2. PICK g : LooksUpTo(g, line, n - 1)
      BY <3>1
    <3> DEFINE h == [s \in SmallParts(line, n) |-> LooksAt(g, line, s)]
    <3>3. ASSUME NEW s \in SmallParts(line, n)
          PROVE  LooksAt(g, line, s) = LooksAt(h, line, s)
      <4>1. CASE s = {}
        BY <4>1 DEF LooksAt
      <4>2. CASE s # {}
        <5> DEFINE r == s \ {Max(s)}
        <5>1. /\ r \in SUBSET DOMAIN line /\ Cardinality(r) = Cardinality(s) - 1
              /\ Cardinality(s) \in Nat /\ Cardinality(s) <= n
          BY <4>2, PartsOfQueue DEF SmallParts
        <5>2. Cardinality(r) <= n - 1 /\ Cardinality(r) <= n
          BY <2>1, <5>1
        <5>3. r \in SmallParts(line, n - 1) /\ r \in SmallParts(line, n)
          BY <5>1, <5>2 DEF SmallParts
        <5>4. g[r] = LooksAt(g, line, r)
          <6> HIDE DEF r
          <6> QED
            BY <3>2, <5>3 DEF LooksUpTo
        <5>5. h[r] = LooksAt(g, line, r)
          <6> HIDE DEF r
          <6> QED
            BY <5>3
        <5>6. /\ LooksAt(g, line, s) = check_unknown_port(g[r], line[Max(s)])
              /\ LooksAt(h, line, s) = check_unknown_port(h[r], line[Max(s)])
          <6> HIDE DEF h
          <6> QED
            BY <4>2 DEF LooksAt
        <5> HIDE DEF h, r
        <5> QED
          BY <5>4, <5>5, <5>6
      <4> QED
        BY <4>1, <4>2
    <3>4. h = [s \in SmallParts(line, n) |-> LooksAt(h, line, s)]
      BY <3>3
    <3>5. LooksUpTo(h, line, n)
      <4> HIDE DEF h
      <4> QED
        BY <3>4 DEF LooksUpTo
    <3> QED
      BY <2>1, <3>5
  <2> QED
    BY <2>2, <2>3
<1>2. Len(line) \in Nat
  OBVIOUS
<1>3. PICK g : LooksUpTo(g, line, Len(line))
  BY <1>1, <1>2
<1>4. SmallParts(line, Len(line)) = SUBSET DOMAIN line
  BY PartsOfQueue DEF SmallParts
<1> QED
  BY <1>3, <1>4 DEF LooksUpTo, Looks

(* FoldLeft is such a g.                                                   *)
LEMMA FoldLooks ==
    ASSUME NEW line \in Seq(Flow)
    PROVE  \E g : /\ Looks(g, line)
                  /\ FoldLeft(check_unknown_port, NothingYet, line) = g[DOMAIN line]
<1> DEFINE g == CHOOSE g : g = [s \in SUBSET DOMAIN line |->
                    IF s = {} THEN NothingYet
                    ELSE LET i == Max(s) IN check_unknown_port(g[s \ {i}], line[i])]
<1>1. FoldLeft(check_unknown_port, NothingYet, line) = g[DOMAIN line]
  BY DEF FoldLeft, MapThenFoldSet
<1>2. Looks(g, line)
  <2>1. PICK h : Looks(h, line)
    BY LookingExists
  <2>2. h = [s \in SUBSET DOMAIN line |->
               IF s = {} THEN NothingYet
               ELSE LET i == Max(s) IN check_unknown_port(h[s \ {i}], line[i])]
    BY <2>1 DEF Looks, LooksAt
  <2>3. g = [s \in SUBSET DOMAIN line |->
               IF s = {} THEN NothingYet
               ELSE LET i == Max(s) IN check_unknown_port(g[s \ {i}], line[i])]
    BY <2>2
  <2> QED
    BY <2>3 DEF Looks, LooksAt
<1> QED
  BY <1>1, <1>2

(* A flow that check_unknown_port has no excuse for                        *)
Unexcused(f) ==
    /\ f.dport \notin portinfo /\ ~port_belongs_to_an_org(f)
    /\ f.dport \notin HighPort /\ f.dport \notin FtpPort

Report(f) == Evidence("UnknownPort", f.profile, f.daddr, f.dport)

(* check_unknown_port takes nothing back, and reports what it cannot excuse. *)
LEMMA CheckReports ==
    ASSUME NEW acc, NEW f
    PROVE  /\ acc.found \subseteq check_unknown_port(acc, f).found
           /\ Unexcused(f) => Report(f) \in check_unknown_port(acc, f).found
<1>1. CASE f.dport \in portinfo \/ port_belongs_to_an_org(f)
  BY <1>1 DEF check_unknown_port, Unexcused
<1>2. CASE ~ (f.dport \in portinfo \/ port_belongs_to_an_org(f))
  <2> DEFINE p2p == is_p2p(f, acc.daddrs)
             new == OnlyIf(~p2p[1] /\ f.dport \notin FtpPort, {Report(f)})
  <2>1. check_unknown_port(acc, f) = [daddrs |-> p2p[2], found |-> acc.found \cup new]
    BY <1>2 DEF check_unknown_port, Report
  <2>2. check_unknown_port(acc, f).found = acc.found \cup new
    <3> HIDE DEF new, p2p
    <3> QED
      BY <2>1
  <2>3. Unexcused(f) => Report(f) \in new
    BY DEF Unexcused, is_p2p, OnlyIf
  <2> HIDE DEF new
  <2> QED
    BY <2>2, <2>3
<1> QED
  BY <1>1, <1>2

(* Every flow of the queue that nothing excuses is reported.               *)
LEMMA AllReported ==
    ASSUME NEW line \in Seq(Flow), NEW i \in DOMAIN line, Unexcused(line[i])
    PROVE  Report(line[i]) \in FoldLeft(check_unknown_port, NothingYet, line).found
<1>1. PICK g : /\ Looks(g, line)
               /\ FoldLeft(check_unknown_port, NothingYet, line) = g[DOMAIN line]
  BY FoldLooks
<1> DEFINE P == {Cardinality(s) : s \in {s \in SUBSET DOMAIN line :
                                           i \in s /\ Report(line[i]) \notin g[s].found}}
<1>2. ASSUME P # {} PROVE FALSE
  <2>1. PICK n \in P : \A q \in P : n <= q
    <3>1. P \subseteq Nat
      BY PartsOfQueue
    <3> HIDE DEF P
    <3> QED
      BY <1>2, <3>1, HasLeast
  <2>2. PICK s \in SUBSET DOMAIN line :
           i \in s /\ Report(line[i]) \notin g[s].found /\ n = Cardinality(s)
    BY <2>1
  <2> DEFINE x == Max(s)
             r == s \ {x}
  <2>3. g[s] = check_unknown_port(g[r], line[x])
    BY <1>1, <2>2 DEF Looks, LooksAt
  <2>4. x \in s /\ Cardinality(r) = n - 1 /\ n \in Nat /\ r \in SUBSET DOMAIN line
    BY <2>2, PartsOfQueue
  <2> HIDE DEF x
  <2>5. CASE x = i
    <3> HIDE DEF r
    <3> QED
      BY <2>2, <2>3, <2>5, CheckReports
  <2>6. CASE x # i
    <3>1. i \in r
      BY <2>2, <2>6
    <3> HIDE DEF r
    <3>2. n - 1 \notin P
      <4> HIDE DEF P
      <4> QED
        BY <2>1, <2>4
    <3>3. Report(line[i]) \in g[r].found
      BY <2>4, <3>1, <3>2
    <3> QED
      BY <2>2, <2>3, <3>3, CheckReports
  <2> QED
    BY <2>5, <2>6
<1> QED
  BY <1>1, <1>2

(* No flow is put aside once services.csv is read and the queue taken.     *)
QueueInv ==
    /\ stored \in [Profile -> Seq(Flow)] /\ new_flow \in Seq(Flow) /\ handled \subseteq Flow
    /\ unknown_ports_queue \in Seq(Flow)
    /\ is_known_ports_read \in BOOLEAN /\ ran_once \in BOOLEAN
    /\ ran_once => is_known_ports_read
    /\ UnknownPortNotForgotten

(* What the other messages leave alone, and what they add to               *)
LEMMA OthersKeepQueue ==
    ASSUME QueueInv, [ThresholdNext]_thresholdVars, ~NewFlow
    PROVE  QueueInv'
<1>1. ASSUME UNCHANGED <<handled, unknown_ports_queue, ran_once>>,
             portinfo \subseteq portinfo', evidence \subseteq evidence'
      PROVE  UnknownPortNotForgotten'
  BY <1>1 DEF QueueInv, UnknownPortNotForgotten, port_belongs_to_an_org
<1>2. ASSUME NEW f \in Flow, StoreFlow(f)
      PROVE  QueueInv'
  <2>1. /\ UNCHANGED <<handled, unknown_ports_queue, ran_once, is_known_ports_read>>
        /\ portinfo' = portinfo /\ evidence' = evidence
        /\ new_flow' = Append(new_flow, f)
    BY <1>2 DEF StoreFlow, ports, feed
  <2>2. stored' = [stored EXCEPT ![f.profile] = Append(@, f)]
    BY <1>2 DEF StoreFlow
  <2>3. stored' \in [Profile -> Seq(Flow)] /\ new_flow' \in Seq(Flow)
    <3>1. stored \in [Profile -> Seq(Flow)] /\ new_flow \in Seq(Flow)
      BY DEF QueueInv
    <3>2. \A q \in Profile : Append(stored[q], f) \in Seq(Flow)
      BY <3>1
    <3>3. stored' = [q \in Profile |-> IF q = f.profile THEN Append(stored[q], f) ELSE stored[q]]
      BY <2>2, <3>1
    <3>4. stored' \in [Profile -> Seq(Flow)]
      BY <3>1, <3>2, <3>3
    <3>5. new_flow' \in Seq(Flow)
      BY <2>1, <3>1
    <3> QED
      BY <3>4, <3>5
  <2> QED
    BY <1>1, <2>1, <2>3 DEF QueueInv
<1>3. CASE ServicesRead
  <2>1. /\ UNCHANGED <<stored, new_flow, handled, unknown_ports_queue, ran_once>>
        /\ is_known_ports_read' = TRUE
        /\ portinfo \subseteq portinfo' /\ evidence' = evidence
    BY <1>3 DEF ServicesRead, flowVars
  <2> QED
    BY <1>1, <2>1 DEF QueueInv
<1>4. ASSUME UNCHANGED <<stored, new_flow, handled, unknown_ports_queue, ran_once,
                         is_known_ports_read>>,
             portinfo \subseteq portinfo', evidence \subseteq evidence'
      PROVE  QueueInv'
  BY <1>1, <1>4 DEF QueueInv
<1>5. ASSUME NEW port \in Port, NewService(port)
      PROVE  QueueInv'
  BY <1>4, <1>5 DEF NewService, flowVars, feed
<1>6. CASE DnsStep
  BY <1>4, <1>6 DEF DnsStep, AgeStored, NewDns, flowVars, feed, ports
<1>7. CASE LoginStep
  <2>1. CASE Later
    BY <1>4, <2>1 DEF Later, flowVars, feed, ports
  <2>2. ASSUME NEW p \in Profile, NewSmtp(p) \/ check_dns_arpa_scan(p)
        PROVE  QueueInv'
    BY <1>4, <2>2 DEF NewSmtp, check_dns_arpa_scan, flowVars, feed, ports
  <2> QED
    BY <1>7, <2>1, <2>2 DEF LoginStep
<1>8. CASE SoftwareStep
  BY <1>4, <1>8 DEF SoftwareStep, add_software_to_profile, check_multiple_ssh_clients,
                    flowVars, feed, ports
<1>9. CASE MessageStep
  BY <1>4, <1>9 DEF MessageStep, NewNotice, NewSsl, NewDownloadedFile, Reported,
                    flowVars, feed, ports
<1>10. CASE UNCHANGED thresholdVars
  BY <1>4, <1>10 DEF thresholdVars, flowVars, feed, ports
<1> QED
  BY <1>2, <1>3, <1>5, <1>6, <1>7, <1>8, <1>9, <1>10 DEF ThresholdNext, FlowStep

(* Before services.csv is read a flow joins the queue; the first flow      *)
(* afterwards takes the queue along, and later ones go alone.              *)
LEMMA NewFlowKeepsQueue ==
    ASSUME QueueInv, NewFlow
    PROVE  QueueInv'
<1> DEFINE f == Head(new_flow)
           queue == IF ran_once THEN <<>> ELSE unknown_ports_queue
           line == Append(queue, f)
<1>1. f \in Flow /\ Tail(new_flow) \in Seq(Flow)
  BY DEF NewFlow, QueueInv
<1>2. /\ handled' = handled \cup {f}
      /\ unknown_ports_queue' = QueueAfter(f)
      /\ ran_once' = (ran_once \/ (f.dport # 0 /\ is_known_ports_read))
      /\ evidence \subseteq evidence' /\ PortChecks(f).found \subseteq evidence'
      /\ new_flow' = Tail(new_flow)
      /\ UNCHANGED <<stored, is_known_ports_read, portinfo>>
  BY DEF NewFlow, feed
<1>3. queue \in Seq(Flow) /\ \A g \in ToSet(queue) : \E i \in DOMAIN queue : queue[i] = g
  BY DEF QueueInv, ToSet
<1>4. /\ line \in Seq(Flow) /\ Len(line) = Len(queue) + 1 /\ Len(queue) \in Nat
      /\ line[Len(queue) + 1] = f /\ \A i \in 1..Len(queue) : line[i] = queue[i]
  <2> HIDE DEF queue, f
  <2> QED
    BY <1>1, <1>3
<1>5. \A g \in ToSet(queue) \cup {f} : \E i \in DOMAIN line : line[i] = g
  <2>1. DOMAIN line = 1..(Len(queue) + 1) /\ DOMAIN queue = 1..Len(queue)
    <3> HIDE DEF queue, line
    <3> QED
      BY <1>3, <1>4
  <2>2. \E i \in DOMAIN line : line[i] = f
    <3>1. Len(queue) + 1 \in DOMAIN line
      BY <1>4, <2>1
    <3> HIDE DEF line, queue, f
    <3> QED
      BY <1>4, <3>1
  <2>3. ASSUME NEW g \in ToSet(queue) PROVE \E i \in DOMAIN line : line[i] = g
    <3>1. PICK i \in DOMAIN queue : queue[i] = g
      BY <1>3
    <3> HIDE DEF line, queue
    <3>2. i \in DOMAIN line /\ i \in 1..Len(queue)
      BY <1>4, <2>1
    <3> QED
      BY <1>4, <3>1, <3>2
  <2> HIDE DEF line, queue, f
  <2> QED
    BY <2>2, <2>3
<1> HIDE DEF f, line
<1>6. CASE f.dport # 0 /\ is_known_ports_read
  <2>1. PortChecks(f).found = FoldLeft(check_unknown_port, NothingYet, line).found
    BY <1>6 DEF PortChecks, NothingYet, line
  <2>2. \A g \in ToSet(queue) \cup {f} : Unexcused(g) => Report(g) \in evidence'
    BY <1>2, <1>4, <1>5, <2>1, AllReported
  <2>3. ASSUME NEW g \in handled'
        PROVE  \/ g.dport = 0 \/ ~Unexcused(g)
               \/ Report(g) \in evidence'
    <3>1. CASE g = f
      BY <2>2, <3>1
    <3>2. CASE g \in handled /\ ran_once
      BY <1>2, <3>2 DEF QueueInv, UnknownPortNotForgotten, Unexcused, Report
    <3>3. CASE g \in handled /\ ~ran_once
      BY <1>2, <2>2, <3>3 DEF QueueInv, UnknownPortNotForgotten, Unexcused, Report
    <3> QED
      BY <1>2, <3>1, <3>2, <3>3
  <2>4. UnknownPortNotForgotten'
    BY <1>2, <2>3 DEF UnknownPortNotForgotten, Unexcused, Report, port_belongs_to_an_org
  <2>5. unknown_ports_queue' \in Seq(Flow)
    BY <1>2, <1>6 DEF QueueAfter, QueueInv
  <2> QED
    BY <1>1, <1>2, <2>4, <2>5, <1>6 DEF QueueInv
<1>7. CASE f.dport = 0
  <2>1. unknown_ports_queue' = unknown_ports_queue /\ ran_once' = ran_once
    BY <1>2, <1>7 DEF QueueAfter, QueueInv
  <2>2. UnknownPortNotForgotten'
    BY <1>2, <1>7, <2>1 DEF QueueInv, UnknownPortNotForgotten, port_belongs_to_an_org
  <2> QED
    BY <1>1, <1>2, <2>1, <2>2 DEF QueueInv
<1>8. CASE f.dport # 0 /\ ~is_known_ports_read
  <2>1. unknown_ports_queue' = Append(unknown_ports_queue, f) /\ ~ran_once /\ ~ran_once'
    BY <1>2, <1>8 DEF QueueAfter, QueueInv
  <2>2. ToSet(unknown_ports_queue') = ToSet(unknown_ports_queue) \cup {f}
    <3>1. queue = unknown_ports_queue /\ unknown_ports_queue' = line
      BY <2>1 DEF line
    <3> HIDE DEF queue
    <3>2. \A g \in ToSet(unknown_ports_queue) \cup {f} : g \in ToSet(line)
      BY <1>5, <3>1 DEF ToSet
    <3>3. ASSUME NEW i \in DOMAIN line
          PROVE  line[i] \in ToSet(unknown_ports_queue) \cup {f}
      <4>1. i \in 1..(Len(queue) + 1)
        BY <1>4
      <4>2. CASE i = Len(queue) + 1
        BY <1>4, <4>2
      <4>3. CASE i # Len(queue) + 1
        <5>1. i \in 1..Len(queue) /\ i \in DOMAIN queue
          BY <1>3, <1>4, <4>1, <4>3
        <5> QED
          BY <1>4, <3>1, <5>1 DEF ToSet
      <4> QED
        BY <4>2, <4>3
    <3>4. \A g \in ToSet(line) : \E i \in DOMAIN line : line[i] = g
      BY DEF ToSet
    <3>5. ToSet(unknown_ports_queue') = ToSet(line)
      BY <3>1
    <3> QED
      BY <3>2, <3>3, <3>4, <3>5
  <2>3. unknown_ports_queue' \in Seq(Flow)
    BY <1>1, <2>1 DEF QueueInv
  <2>4. UnknownPortNotForgotten'
    BY <1>2, <2>1, <2>2 DEF QueueInv, UnknownPortNotForgotten, port_belongs_to_an_org
  <2> QED
    BY <1>1, <1>2, <2>1, <2>3, <2>4 DEF QueueInv
<1> QED
  BY <1>6, <1>7, <1>8

LEMMA QueueInvInit == ThresholdInit => QueueInv
<1> SUFFICES ASSUME ThresholdInit PROVE QueueInv
  OBVIOUS
<1>1. <<>> \in Seq(Flow)
  BY EmptySeq
<1>2. stored \in [Profile -> Seq(Flow)]
  BY <1>1 DEF ThresholdInit
<1>3. UnknownPortNotForgotten
  BY DEF ThresholdInit, UnknownPortNotForgotten
<1> QED
  BY <1>1, <1>2, <1>3 DEF ThresholdInit, QueueInv

LEMMA QueueInvStep == QueueInv /\ [ThresholdNext]_thresholdVars => QueueInv'
BY OthersKeepQueue, NewFlowKeepsQueue

(* No flow to an unknown port is forgotten (see UnknownPortNotForgotten),  *)
(* whenever services.csv is read and however long the queue is by then.    *)
THEOREM PortsAreReported == ThresholdSpec => []UnknownPortNotForgotten
<1>1. QueueInv => UnknownPortNotForgotten
  BY DEF QueueInv
<1> QED
  BY <1>1, QueueInvInit, QueueInvStep, PTL DEF ThresholdSpec

-----------------------------------------------------------------------------
(* Arp: scans *)

ArpEntry == [daddr : V4, ts : {f.ts : f \in ArpFlow}]

Distinct(s) == \A i, j \in 1..Len(s) : s[i].daddr = s[j].daddr => i = j

(* A cache c shows the requests r: an entry for each address asked for,    *)
(* with the time of its latest request, in the order in which the          *)
(* addresses joined.                                                       *)
Latest(r, j) == \A l \in 1..Len(r) : r[l].daddr = r[j].daddr => l <= j
Joined(r, d, e) ==
    \E j \in 1..Len(r) : r[j].daddr = d /\ \A l \in 1..Len(r) : r[l].daddr = e => j < l

Shows(c, r) ==
    /\ Distinct(c)
    /\ \A i \in 1..Len(c) : \E j \in 1..Len(r) : r[j] = c[i] /\ Latest(r, j)
    /\ \A j \in 1..Len(r) : \E i \in 1..Len(c) : c[i].daddr = r[j].daddr
    /\ \A h, i \in 1..Len(c) : h < i => Joined(r, c[h].daddr, c[i].daddr)

ArpTyped ==
    /\ new_arp \in Seq(ArpFlow)
    /\ requests \in [Keys -> Seq(ArpEntry)]
    /\ cache_arp_requests \in [Keys -> Seq(ArpEntry)]

ArpInv ==
    /\ ArpTyped
    /\ \A k \in Keys : Shows(cache_arp_requests[k], requests[k])
    /\ ScanIsBacked

(* Images of finite sets, and numbered things that differ                  *)
LEMMA FiniteImage ==
    ASSUME NEW S, IsFiniteSet(S), NEW g
    PROVE  IsFiniteSet({g[x] : x \in S})
<1> DEFINE h == [x \in S |-> g[x]]
           T == {g[x] : x \in S}
<1>1. h \in Surjection(S, T)
  BY DEF Surjection
<1> QED
  BY <1>1, FS_Surjection

LEMMA Numbered ==
    ASSUME NEW n \in Nat, NEW T, IsFiniteSet(T), NEW g \in [1..n -> T],
           \A i, j \in 1..n : g[i] = g[j] => i = j
    PROVE  n <= Cardinality(T)
<1>1. g \in Injection(1..n, T)
  BY DEF Injection, IsInjective
<1>2. Cardinality(1..n) <= Cardinality(T)
  BY <1>1, FS_Injection
<1>3. Cardinality(1..n) = n
  BY FS_Interval
<1> QED
  BY <1>2, <1>3

(* The greatest and the least of a set of numbers, when it is known        *)
LEMMA Extremes ==
    ASSUME NEW S \in SUBSET Nat, NEW m \in S
    PROVE  /\ (\A x \in S : x <= m) => Max(S) = m
           /\ (\A x \in S : m <= x) => Min(S) = m
<1>1. ASSUME \A x \in S : x <= m
      PROVE  Max(S) = m
  <2>1. \E x \in S : \A y \in S : x >= y
    BY <1>1
  <2>2. Max(S) \in S /\ \A y \in S : Max(S) >= y
    BY <2>1 DEF Max
  <2>3. Max(S) \in Nat /\ m \in Nat /\ Max(S) >= m
    BY <2>2
  <2>4. Max(S) <= m
    BY <1>1, <2>2
  <2> QED
    BY <2>3, <2>4
<1>2. ASSUME \A x \in S : m <= x
      PROVE  Min(S) = m
  <2>1. \E x \in S : \A y \in S : x <= y
    BY <1>2
  <2>2. Min(S) \in S /\ \A y \in S : Min(S) <= y
    BY <2>1 DEF Min
  <2>3. Min(S) \in Nat /\ m \in Nat /\ Min(S) <= m
    BY <2>2
  <2>4. m <= Min(S)
    BY <1>2, <2>2
  <2> QED
    BY <2>3, <2>4
<1> QED
  BY <1>1, <1>2

(* What a cache that shows the requests r makes a scan of is backed.       *)
LEMMA ShownIsBacked ==
    ASSUME NEW c \in Seq(ArpEntry), NEW r \in Seq(ArpEntry), Shows(c, r),
           Len(c) >= arp_scan_threshold, diff(c) <= ScanSeconds
    PROVE  Backed(r)
<1> DEFINE New == Joining(r)
           n == Len(c)
<1>1. /\ n \in Nat /\ n >= 2 /\ DOMAIN c = 1..n
      /\ Len(r) \in Nat /\ DOMAIN r = 1..Len(r)
  BY ArpAssumption
<1>2. /\ New = {i \in 1..Len(r) : \A j \in To(r, r[i].daddr) : i <= j}
      /\ New \subseteq 1..Len(r) /\ New \subseteq Nat
  BY <1>1 DEF Joining
<1>3. ASSUME NEW d
      PROVE  To(r, d) \subseteq Nat /\ To(r, d) = {i \in 1..Len(r) : r[i].daddr = d}
  BY <1>1 DEF To
<1>a. ASSUME NEW x \in New, NEW j \in 1..Len(r), r[j].daddr = r[x].daddr
      PROVE  x <= j
  BY <1>2, <1>3, <1>a
<1> HIDE DEF New
(* The first request for each address                                      *)
<1>4. ASSUME NEW i \in 1..n
      PROVE  \E j \in New : r[j].daddr = c[i].daddr
  <2>1. \E j \in 1..Len(r) : r[j].daddr = c[i].daddr
    BY DEF Shows
  <2>2. PICK j \in To(r, c[i].daddr) : \A l \in To(r, c[i].daddr) : j <= l
    BY <1>3, <2>1, HasLeast
  <2>3. j \in 1..Len(r) /\ r[j].daddr = c[i].daddr
    BY <1>3, <2>2
  <2> QED
    BY <1>2, <2>2, <2>3
<1>5. Cardinality(New) >= arp_scan_threshold
  <2> DEFINE g == [i \in 1..n |-> CHOOSE j \in New : r[j].daddr = c[i].daddr]
  <2>1. ASSUME NEW i \in 1..n
        PROVE  g[i] \in New /\ r[g[i]].daddr = c[i].daddr
    BY <1>4
  <2>2. g \in [1..n -> New]
    BY <2>1
  <2> HIDE DEF g
  <2>3. ASSUME NEW i \in 1..n, NEW j \in 1..n, g[i] = g[j]
        PROVE  i = j
    <3>1. c[i].daddr = c[j].daddr
      BY <2>1, <2>3
    <3> QED
      BY <3>1 DEF Shows, Distinct
  <2>4. IsFiniteSet(New)
    <3>1. IsFiniteSet(1..Len(r))
      BY <1>1, FS_Interval
    <3> QED
      BY <1>2, <3>1, FS_Subset
  <2>5. n <= Cardinality(New) /\ Cardinality(New) \in Nat
    BY <1>1, <2>2, <2>3, <2>4, Numbered, FS_CardinalityType
  <2> QED
    BY <1>1, <2>5, ArpAssumption
<1>6. ASSUME NEW i \in 1..n, NEW j \in 1..Len(r), r[j].daddr = c[i].daddr
      PROVE  LastTime(r, j) = c[i].ts
  <2>1. PICK l \in 1..Len(r) : r[l] = c[i] /\ Latest(r, l)
    BY DEF Shows
  <2>2. l \in To(r, c[i].daddr) /\ \A x \in To(r, c[i].daddr) : x <= l
    BY <1>3, <2>1 DEF Latest
  <2>3. Max(To(r, c[i].daddr)) = l
    BY <1>3, <2>2, Extremes
  <2> QED
    BY <1>6, <2>1, <2>3 DEF LastTime
(* The address asked for first is the first of the cache.                  *)
<1>7. LastTime(r, Min(New)) = c[1].ts
  <2>1. PICK m \in New : r[m].daddr = c[1].daddr
    BY <1>1, <1>4
  <2>2. ASSUME NEW x \in New
        PROVE  m <= x
    <3>1. PICK i \in 1..n : c[i].daddr = r[x].daddr
      BY <1>2 DEF Shows
    <3>2. CASE i = 1
      BY <1>1, <1>2, <1>3, <2>1, <3>1, <3>2
    <3>3. CASE i # 1
      <4>0. Joined(r, c[1].daddr, c[i].daddr)
        BY <1>1, <3>3 DEF Shows
      <4>1. PICK j \in 1..Len(r) :
               r[j].daddr = c[1].daddr /\ \A l \in 1..Len(r) : r[l].daddr = c[i].daddr => j < l
        BY <4>0 DEF Joined
      <4>2. j < x
        BY <1>2, <3>1, <4>1
      <4>3. m <= j
        BY <1>a, <2>1, <4>1
      <4> QED
        BY <1>1, <1>2, <4>2, <4>3
    <3> QED
      BY <3>2, <3>3
  <2>3. Min(New) = m
    BY <1>2, <2>2, Extremes
  <2> QED
    BY <1>1, <1>2, <1>6, <2>1, <2>3
(* The address that joined last is the last of the cache.                  *)
<1>8. LastTime(r, Max(New)) = c[n].ts
  <2>1. PICK m \in New : r[m].daddr = c[n].daddr
    BY <1>1, <1>4
  <2>2. ASSUME NEW x \in New
        PROVE  x <= m
    <3>1. PICK i \in 1..n : c[i].daddr = r[x].daddr
      BY <1>2 DEF Shows
    <3>2. CASE i = n
      BY <1>1, <1>2, <1>3, <2>1, <3>1, <3>2
    <3>3. CASE i # n
      <4>0. Joined(r, c[i].daddr, c[n].daddr)
        <5>0. n \in Nat /\ n >= 2
          BY <1>1
        <5>1. i < n /\ n \in 1..n
          BY <3>3, <5>0
        <5> QED
          BY <5>1 DEF Shows
      <4>1. PICK j \in 1..Len(r) :
               r[j].daddr = c[i].daddr /\ \A l \in 1..Len(r) : r[l].daddr = c[n].daddr => j < l
        BY <4>0 DEF Joined
      <4>2. j < m
        BY <1>2, <2>1, <4>1
      <4>3. x <= j
        BY <1>a, <3>1, <4>1
      <4> QED
        BY <1>1, <1>2, <4>2, <4>3
    <3> QED
      BY <3>2, <3>3
  <2>3. Max(New) = m
    BY <1>2, <2>2, Extremes
  <2> QED
    BY <1>1, <1>2, <1>6, <2>1, <2>3
<1>9. (LastTime(r, Max(New)) - LastTime(r, Min(New))) % Minute <= ScanSeconds
  BY <1>7, <1>8 DEF diff
<1> QED
  BY <1>5, <1>9 DEF Backed, New

(* A cache updated by a flow shows the requests with that of the flow.     *)
LEMMA UpdatedShows ==
    ASSUME NEW c \in Seq(ArpEntry), NEW r \in Seq(ArpEntry), NEW f \in ArpFlow,
           Shows(c, r)
    PROVE  LET new == [daddr |-> f.daddr, ts |-> f.ts]
           IN  /\ Updated(c, f) \in Seq(ArpEntry) /\ Append(r, new) \in Seq(ArpEntry)
               /\ Shows(Updated(c, f), Append(r, new))
<1> DEFINE u == Updated(c, f)
           new == [daddr |-> f.daddr, ts |-> f.ts]
           q == Append(r, new)
           n == Len(c)
           m == Len(r)
<1>1. new \in ArpEntry /\ new.daddr = f.daddr
  BY ArpAssumption DEF ArpEntry
<1>2. /\ n \in Nat /\ DOMAIN c = 1..n /\ \A i \in 1..n : c[i] \in ArpEntry
      /\ m \in Nat /\ \A j \in 1..m : r[j] \in ArpEntry
  OBVIOUS
<1>3. /\ q \in Seq(ArpEntry) /\ Len(q) = m + 1 /\ q[m + 1] = new
      /\ \A j \in 1..m : q[j] = r[j]
  BY <1>1, <1>2
<1> HIDE DEF new, q
<1>4. ASSUME NEW j \in 1..(m + 1)
      PROVE  j \in 1..m \/ j = m + 1
  BY <1>2
(* An entry of another address stays true, and so does an order.           *)
<1>5. Latest(q, m + 1)
  BY <1>2, <1>3 DEF Latest
<1>6. ASSUME NEW j \in 1..m, Latest(r, j), r[j].daddr # f.daddr
      PROVE  q[j] = r[j] /\ Latest(q, j)
  BY <1>1, <1>2, <1>3, <1>4, <1>6 DEF Latest
<1>7. ASSUME NEW d, NEW e, Joined(r, d, e)
      PROVE  Joined(q, d, e)
  <2>1. PICK j \in 1..m : r[j].daddr = d /\ \A l \in 1..m : r[l].daddr = e => j < l
    BY <1>7 DEF Joined
  <2>2. j \in 1..(m + 1) /\ q[j].daddr = d
    BY <1>2, <1>3, <2>1
  <2>3. ASSUME NEW l \in 1..(m + 1), q[l].daddr = e
        PROVE  j < l
    BY <1>2, <1>3, <1>4, <2>1, <2>3
  <2> QED
    BY <1>3, <2>2, <2>3 DEF Joined
<1>8. CASE \E i \in DOMAIN c : c[i].daddr = f.daddr
  <2>0. u = [i \in DOMAIN c |-> IF c[i].daddr = f.daddr
                                THEN [c[i] EXCEPT !.ts = f.ts] ELSE c[i]]
    BY <1>8 DEF Updated
  <2>1. u = [i \in 1..n |-> IF c[i].daddr = f.daddr
                            THEN [c[i] EXCEPT !.ts = f.ts] ELSE c[i]]
    <3>1. DOMAIN c = 1..n
      OBVIOUS
    <3> HIDE DEF u
    <3> QED
      BY <2>0, <3>1
  <2>2. ASSUME NEW i \in 1..n
        PROVE  /\ u[i] \in ArpEntry /\ u[i].daddr = c[i].daddr
               /\ IF c[i].daddr = f.daddr THEN u[i] = new ELSE u[i] = c[i]
    <3>1. c[i] \in ArpEntry
      BY <1>2
    <3>2. [c[i] EXCEPT !.ts = f.ts] = [daddr |-> c[i].daddr, ts |-> f.ts]
      BY <3>1 DEF ArpEntry
    <3>3. CASE c[i].daddr = f.daddr
      <4>1. u[i] = [daddr |-> c[i].daddr, ts |-> f.ts]
        BY <2>1, <3>2, <3>3
      <4> QED
        BY <4>1, <1>1, <3>1, <3>3 DEF ArpEntry, new
    <3>4. CASE c[i].daddr # f.daddr
      BY <2>1, <3>1, <3>4
    <3> QED
      BY <3>3, <3>4
  <2>3. DOMAIN u = 1..n
    BY <2>1
  <2> HIDE DEF u
  <2>4. u \in Seq(ArpEntry) /\ Len(u) = n
    <3>1. u = [i \in 1..n |-> u[i]]
      BY <2>1
    <3>2. u \in [1..n -> ArpEntry]
      BY <2>2, <3>1
    <3> QED
      BY <1>2, <2>3, <3>2
  <2>5. Distinct(u)
    BY <2>2, <2>4 DEF Distinct, Shows
  <2>6. ASSUME NEW i \in 1..n
        PROVE  \E j \in 1..(m + 1) : q[j] = u[i] /\ Latest(q, j)
    <3>1. CASE c[i].daddr = f.daddr
      BY <1>2, <1>3, <1>5, <2>2, <3>1
    <3>2. CASE c[i].daddr # f.daddr
      <4>1. PICK j \in 1..m : r[j] = c[i] /\ Latest(r, j)
        BY DEF Shows
      <4>2. j \in 1..(m + 1) /\ q[j] = u[i] /\ Latest(q, j)
        BY <1>2, <1>6, <2>2, <3>2, <4>1
      <4> QED
        BY <4>2
    <3> QED
      BY <3>1, <3>2
  <2>7. ASSUME NEW j \in 1..(m + 1)
        PROVE  \E i \in 1..n : u[i].daddr = q[j].daddr
    <3>1. CASE j \in 1..m
      <4>1. PICK i \in 1..n : c[i].daddr = r[j].daddr
        BY <3>1 DEF Shows
      <4> QED
        BY <1>3, <2>2, <3>1, <4>1
    <3>2. CASE j = m + 1
      BY <1>1, <1>2, <1>3, <1>8, <2>2, <3>2
    <3> QED
      BY <1>4, <3>1, <3>2
  <2>8. ASSUME NEW h \in 1..n, NEW i \in 1..n, h < i
        PROVE  Joined(q, u[h].daddr, u[i].daddr)
    <3>1. Joined(r, c[h].daddr, c[i].daddr)
      BY <2>8 DEF Shows
    <3> QED
      BY <3>1, <1>7, <2>2
  <2>9. Shows(u, q)
    BY <1>3, <2>4, <2>5, <2>6, <2>7, <2>8 DEF Shows
  <2> QED
    BY <1>3, <2>4, <2>9 DEF u, q, new
<1>9. CASE ~ \E i \in DOMAIN c : c[i].daddr = f.daddr
  <2>1. u = Append(c, new)
    BY <1>9 DEF Updated, new
  <2> HIDE DEF u
  <2>2. /\ u \in Seq(ArpEntry) /\ Len(u) = n + 1 /\ u[n + 1] = new
        /\ \A i \in 1..n : u[i] = c[i]
    BY <1>1, <2>1
  <2>3. ASSUME NEW i \in 1..(n + 1)
        PROVE  i \in 1..n \/ i = n + 1
    BY <1>2
  <2>4. \A i \in 1..n : c[i].daddr # f.daddr
    BY <1>2, <1>9
  <2>5. \A j \in 1..m : r[j].daddr # f.daddr
    BY <2>4 DEF Shows
  <2>6. Distinct(u)
    <3> SUFFICES ASSUME NEW i \in 1..(n + 1), NEW j \in 1..(n + 1),
                        u[i].daddr = u[j].daddr
                 PROVE  i = j
      BY <2>2 DEF Distinct
    <3>1. CASE i \in 1..n /\ j \in 1..n
      BY <3>1, <2>2 DEF Distinct, Shows
    <3>2. CASE i = n + 1 /\ j \in 1..n
      BY <3>2, <1>1, <2>2, <2>4
    <3>3. CASE i \in 1..n /\ j = n + 1
      BY <3>3, <1>1, <2>2, <2>4
    <3> QED
      BY <2>3, <3>1, <3>2, <3>3
  <2>7. ASSUME NEW i \in 1..(n + 1)
        PROVE  \E j \in 1..(m + 1) : q[j] = u[i] /\ Latest(q, j)
    <3>1. CASE i = n + 1
      BY <1>2, <1>3, <1>5, <2>2, <3>1
    <3>2. CASE i \in 1..n
      <4>1. PICK j \in 1..m : r[j] = c[i] /\ Latest(r, j)
        BY <3>2 DEF Shows
      <4>2. j \in 1..(m + 1) /\ q[j] = u[i] /\ Latest(q, j)
        BY <1>2, <1>6, <2>2, <2>5, <3>2, <4>1
      <4> QED
        BY <4>2
    <3> QED
      BY <2>3, <3>1, <3>2
  <2>8. ASSUME NEW j \in 1..(m + 1)
        PROVE  \E i \in 1..(n + 1) : u[i].daddr = q[j].daddr
    <3>1. CASE j \in 1..m
      <4>1. PICK i \in 1..n : c[i].daddr = r[j].daddr
        BY <3>1 DEF Shows
      <4>2. i \in 1..(n + 1)
        BY <1>2
      <4> QED
        BY <1>3, <2>2, <3>1, <4>1, <4>2
    <3>2. CASE j = m + 1
      BY <1>2, <1>3, <2>2, <3>2
    <3> QED
      BY <1>4, <3>1, <3>2
  <2>9. ASSUME NEW h \in 1..(n + 1), NEW i \in 1..(n + 1), h < i
        PROVE  Joined(q, u[h].daddr, u[i].daddr)
    <3>1. h \in 1..n
      BY <1>2, <2>9
    <3>2. CASE i \in 1..n
      <4>1. Joined(r, c[h].daddr, c[i].daddr)
        BY <2>9, <3>1, <3>2 DEF Shows
      <4> QED
        BY <4>1, <1>7, <2>2, <3>1, <3>2
    <3>3. CASE i = n + 1
      <4>1. PICK j \in 1..m : r[j] = c[h]
        BY <3>1 DEF Shows
      <4>2. j \in 1..(m + 1) /\ q[j].daddr = u[h].daddr
        BY <1>2, <1>3, <2>2, <3>1, <4>1
      <4>3. ASSUME NEW l \in 1..(m + 1), q[l].daddr = f.daddr
            PROVE  j < l
        BY <1>2, <1>3, <1>4, <2>5, <4>3
      <4> QED
        BY <1>1, <1>3, <2>2, <3>3, <4>2, <4>3 DEF Joined
    <3> QED
      BY <2>3, <3>2, <3>3
  <2>10. Shows(u, q)
    BY <1>3, <2>2, <2>6, <2>7, <2>8, <2>9 DEF Shows
  <2> QED
    BY <1>3, <2>2, <2>10 DEF u, q, new
<1> QED
  BY <1>8, <1>9

LEMMA NothingShown == <<>> \in Seq(ArpEntry) /\ Shows(<<>>, <<>>)
<1>1. <<>> \in Seq(ArpEntry) /\ Len(<<>>) = 0
  BY EmptySeq
<1> QED
  BY <1>1 DEF Shows, Distinct

(* A request is looked at: it is cached, or with the cache makes a scan.   *)
LEMMA ScanKeepsInv ==
    ASSUME ArpInv, NEW f \in ArpFlow, check_arp_scan(f), new_arp' \in Seq(ArpFlow)
    PROVE  ArpInv'
<1> DEFINE k == KeyOf(f)
           old == cache_arp_requests[k]
           cached == Updated(old, f)
           counted == Append(requests[k], [daddr |-> f.daddr, ts |-> f.ts])
           scan == /\ old # <<>>
                   /\ Len(cached) >= arp_scan_threshold
                   /\ diff(cached) <= ScanSeconds
<1>1. CASE f.saddr \in {gateway, Unspecified}
  BY <1>1 DEF check_arp_scan, scanVars, ArpInv, ArpTyped, ScanIsBacked
<1>2. CASE f.saddr \notin {gateway, Unspecified}
  <2>1. /\ k \in Keys /\ old \in Seq(ArpEntry) /\ requests[k] \in Seq(ArpEntry)
        /\ Shows(old, requests[k])
    BY ArpAssumption DEF KeyOf, Keys, ArpIp, ArpInv, ArpTyped
  <2>2. /\ cache_arp_requests' = [cache_arp_requests EXCEPT ![k] =
                                      IF scan THEN <<>> ELSE cached]
        /\ requests' = [requests EXCEPT ![k] = IF scan THEN <<>> ELSE counted]
        /\ scans' = IF scan THEN scans \cup {[key |-> k, counted |-> counted]} ELSE scans
    BY <1>2 DEF check_arp_scan
  <2>3. cached \in Seq(ArpEntry) /\ counted \in Seq(ArpEntry) /\ Shows(cached, counted)
    BY <2>1, UpdatedShows
  <2>4. scan => Backed(counted)
    <3> HIDE DEF cached, counted
    <3> QED
      BY <2>3, ShownIsBacked DEF scan
  <2> HIDE DEF k, old, cached, counted, scan
  <2>5. ArpTyped'
    BY <2>1, <2>2, <2>3, NothingShown DEF ArpInv, ArpTyped
  <2>6. ASSUME NEW h \in Keys
        PROVE  Shows(cache_arp_requests'[h], requests'[h])
    <3>1. CASE h = k /\ scan
      BY <2>1, <2>2, <3>1, NothingShown DEF ArpInv, ArpTyped
    <3>2. CASE h = k /\ ~ scan
      BY <2>1, <2>2, <2>3, <3>2 DEF ArpInv, ArpTyped
    <3>3. CASE h # k
      BY <2>1, <2>2, <3>3 DEF ArpInv, ArpTyped
    <3> QED
      BY <3>1, <3>2, <3>3
  <2>7. ScanIsBacked'
    <3> SUFFICES ASSUME NEW s \in scans' PROVE Backed(s.counted)
      BY DEF ScanIsBacked
    <3>1. s \in scans \/ (scan /\ s.counted = counted)
      BY <2>2
    <3> QED
      BY <2>4, <3>1 DEF ArpInv, ScanIsBacked
  <2> QED
    BY <2>5, <2>6, <2>7 DEF ArpInv
<1> QED
  BY <1>1, <1>2

(* Nothing else adds to a cache, and a closed window empties what is kept  *)
(* of some keys.                                                           *)
LEMMA OthersKeepScans ==
    ASSUME ArpInv, new_arp' \in Seq(ArpFlow), scans' = scans,
           cache_arp_requests' \in [Keys -> Seq(ArpEntry)],
           requests' \in [Keys -> Seq(ArpEntry)],
           \A k \in Keys :
              \/ /\ cache_arp_requests'[k] = cache_arp_requests[k]
                 /\ requests'[k] = requests[k]
              \/ cache_arp_requests'[k] = <<>> /\ requests'[k] = <<>>
    PROVE  ArpInv'
<1>1. ArpTyped'
  BY DEF ArpTyped
<1>2. \A k \in Keys : Shows(cache_arp_requests'[k], requests'[k])
  BY NothingShown DEF ArpInv
<1>3. ScanIsBacked'
  BY DEF ArpInv, ScanIsBacked
<1> QED
  BY <1>1, <1>2, <1>3 DEF ArpInv

LEMMA ArpInvStep == ArpInv /\ [ArpNext]_arpVars => ArpInv'
<1> SUFFICES ASSUME ArpInv, [ArpNext]_arpVars
             PROVE  ArpInv'
  OBVIOUS
<1>0. /\ new_arp \in Seq(ArpFlow) /\ cache_arp_requests \in [Keys -> Seq(ArpEntry)]
      /\ requests \in [Keys -> Seq(ArpEntry)]
  BY DEF ArpInv, ArpTyped
<1>1. ASSUME NEW f \in ArpFlow, PublishArp(f)
      PROVE  ArpInv'
  BY <1>0, <1>1, OthersKeepScans DEF PublishArp, scanVars
<1>2. ASSUME NEW f \in ArpFlow, PublishClosed(KeyOf(f))
      PROVE  ArpInv'
  BY <1>0, <1>2, OthersKeepScans DEF PublishClosed, scanVars
<1>3. CASE NewArp
  <2> DEFINE f == Head(new_arp)
  <2>1. f \in ArpFlow /\ new_arp' \in Seq(ArpFlow)
    BY <1>0, <1>3, HeadTailProperties DEF NewArp
  <2>2. UNCHANGED scanVars \/ check_arp_scan(f)
    BY <1>3 DEF NewArp
  <2>3. CASE UNCHANGED scanVars
    BY <1>0, <2>1, <2>3, OthersKeepScans DEF scanVars
  <2> QED
    BY <2>1, <2>2, <2>3, ScanKeepsInv
<1>4. CASE TwClosed
  <2>1. new_arp' = new_arp /\ scans' = scans
    BY <1>4 DEF TwClosed
  <2>2. /\ cache_arp_requests' = [k \in Keys |-> IF IsIn(Head(tw_closed), k) THEN <<>>
                                                  ELSE cache_arp_requests[k]]
        /\ requests' = [k \in Keys |-> IF IsIn(Head(tw_closed), k) THEN <<>>
                                        ELSE requests[k]]
    BY <1>4 DEF TwClosed, Dropped
  <2>3. /\ cache_arp_requests' \in [Keys -> Seq(ArpEntry)]
        /\ requests' \in [Keys -> Seq(ArpEntry)]
    BY <1>0, <2>2, NothingShown
  <2> QED
    BY <1>0, <2>1, <2>2, <2>3, OthersKeepScans
<1>5. CASE MacStep
  BY <1>0, <1>5, OthersKeepScans DEF MacStep, PublishMac, NewMac, scanVars
<1>6. CASE UNCHANGED arpVars
  BY <1>0, <1>6, OthersKeepScans DEF arpVars, channels, scanVars
<1> QED
  BY <1>1, <1>2, <1>3, <1>4, <1>5, <1>6 DEF ArpNext, ArpStep

LEMMA ArpInvInit == ArpInit => ArpInv
<1> SUFFICES ASSUME ArpInit PROVE ArpInv
  OBVIOUS
<1>1. <<>> \in Seq(ArpFlow)
  BY EmptySeq
<1> QED
  BY <1>1, NothingShown DEF ArpInit, ArpInv, ArpTyped, ScanIsBacked

(* Every ARP scan stands on arp_scan_threshold different addresses, asked  *)
(* for in its window, after the scan reported last for it and after the    *)
(* last closing that names it; and the time from the address asked for     *)
(* first to the one that joined last, minutes not counted, is within       *)
(* ScanSeconds; however the flows and the closings of windows interleave   *)
(* (check_arp_scan, tw_closed).                                            *)
THEOREM ScansAreBacked == ArpSpec => []ScanIsBacked
<1>1. ArpInv => ScanIsBacked
  BY DEF ArpInv
<1> QED
  BY <1>1, ArpInvInit, ArpInvStep, PTL DEF ArpSpec

-----------------------------------------------------------------------------
(* FlowAlerts: connections without DNS resolution *)

news == channel["new_flow"]

MainOn(c) == main.check = "conn" /\ main.id = c
TimerOn(c) == \E t \in timers : t.check = "conn" /\ t.id = c
Past(c) == c \in cache["conn"] \/ TimerOn(c)

JobsTyped ==
    /\ news \in Seq(Conn)
    /\ DOMAIN channel = {"new_flow", "new_dns_flow", "new_ssh"}
    /\ DOMAIN cache = Checks
    /\ main = [check |-> main.check, id |-> main.id, pc |-> main.pc]
    /\ main.check \in Checks \/ (main.check = "none" /\ main.pc \in {"idle", "ended"})
    /\ main.check = "conn" => main.pc # "found"
    /\ \A t \in timers : /\ t = [check |-> t.check, id |-> t.id, pc |-> t.pc]
                         /\ t.check \in Checks

(* A connection is stored, then waits for the main loop, then is worked on *)
(* by it, once each, and only then is in the cache or has a timer.         *)
EachOnce ==
    /\ \A i, j \in 1..Len(news) : news[i] = news[j] => i = j
    /\ \A i \in 1..Len(news) : /\ news[i] \in flows
                               /\ ~MainOn(news[i]) /\ ~Past(news[i])
    /\ main.check = "conn" => main.id \in flows /\ ~Past(main.id)
    /\ cache["conn"] \subseteq flows
    /\ \A t \in timers : t.check = "conn" => t.id \in flows

LookInv == JobsTyped /\ EachOnce

(* The other messages, and what only other processes write                 *)
LEMMA ElsewhereKeepsLook ==
    ASSUME LookInv, news' = news, DOMAIN channel' = DOMAIN channel,
           flows' = flows, UNCHANGED <<main, timers, cache>>
    PROVE  LookInv'
<1>1. JobsTyped'
  BY DEF LookInv, JobsTyped
<1>2. EachOnce'
  BY DEF LookInv, EachOnce, MainOn, Past, TimerOn
<1> QED
  BY <1>1, <1>2 DEF LookInv

LEMMA AddFlowKeepsLook ==
    ASSUME LookInv, NEW c \in Conn, add_flow(c)
    PROVE  LookInv'
<1>1. /\ c \notin flows /\ flows' = flows \cup {c}
      /\ UNCHANGED <<main, timers, cache>>
      /\ channel' = [channel EXCEPT !["new_flow"] = Append(@, c)]
  BY DEF add_flow, Publish
<1>2. news' = Append(news, c) /\ DOMAIN channel' = DOMAIN channel
  BY <1>1 DEF LookInv, JobsTyped, news
<1> DEFINE n == Len(news)
<1>3. /\ n \in Nat /\ news' \in Seq(Conn) /\ Len(news') = n + 1 /\ news'[n + 1] = c
      /\ \A i \in 1..n : news'[i] = news[i]
  BY <1>2 DEF LookInv, JobsTyped
<1>4. JobsTyped'
  BY <1>1, <1>2, <1>3 DEF LookInv, JobsTyped
<1>5. ~MainOn(c) /\ ~Past(c) /\ \A i \in 1..n : news[i] \in flows
  BY <1>1 DEF LookInv, EachOnce, MainOn, Past, TimerOn
<1> HIDE DEF n
<1>6. \A i \in 1..(n + 1) : i \in 1..n \/ i = n + 1
  BY <1>3
<1>7. \A i, j \in 1..(n + 1) : news'[i] = news'[j] => i = j
  BY <1>1, <1>3, <1>5, <1>6 DEF LookInv, EachOnce, n
<1>8. \A i \in 1..(n + 1) : news'[i] \in flows' /\ ~MainOn(news'[i]) /\ ~Past(news'[i])
  BY <1>1, <1>3, <1>5, <1>6 DEF LookInv, EachOnce, n
<1>9. EachOnce'
  BY <1>1, <1>3, <1>7, <1>8 DEF LookInv, EachOnce, MainOn, Past, TimerOn
<1> QED
  BY <1>4, <1>9 DEF LookInv

(* What the main loop worked on may pass on to the cache or to a timer.    *)
LEMMA PassesOn ==
    ASSUME LookInv, news' = news, flows' = flows,
           main'.check = "conn" => main.check = "conn" /\ main'.id = main.id,
           \A c : (c \in cache'["conn"] \/ \E t \in timers' : t.check = "conn" /\ t.id = c)
                  => Past(c) \/ (MainOn(c) /\ main'.check # "conn")
    PROVE  EachOnce'
<1>1. \A c : MainOn(c) => ~Past(c) /\ c \in flows
  BY DEF LookInv, EachOnce, MainOn
<1>2. \A c : Past(c) => c \in flows
  BY DEF LookInv, EachOnce, Past, TimerOn
<1>3. \A i \in 1..Len(news) : news[i] \in flows /\ ~MainOn(news[i]) /\ ~Past(news[i])
  BY DEF LookInv, EachOnce
<1>4. \A i, j \in 1..Len(news) : news[i] = news[j] => i = j
  BY DEF LookInv, EachOnce
<1> QED
  BY <1>1, <1>2, <1>3, <1>4 DEF EachOnce, MainOn, Past, TimerOn

LEMMA Fields ==
    ASSUME NEW x, NEW k, NEW i, NEW p, x = [check |-> k, id |-> i, pc |-> p]
    PROVE  /\ x.check = k /\ x.id = i /\ x.pc = p
           /\ x = [check |-> x.check, id |-> x.id, pc |-> x.pc]
OBVIOUS

LEMMA ReceiveKeepsLook ==
    ASSUME LookInv, NEW k \in Checks, Receive(k)
    PROVE  LookInv'
<1> DEFINE c == Head(news)
<1>1. /\ main = Idle /\ channel[ChannelOf[k]] # <<>>
      /\ main' \in {Idle, Job(k, Head(channel[ChannelOf[k]]), "look")}
      /\ channel' = [channel EXCEPT ![ChannelOf[k]] = Tail(@)]
      /\ UNCHANGED <<flows, timers, cache>>
  BY DEF Receive, database
<1>2. Idle.check = "none" /\ "none" \notin Checks
  BY DEF Idle, Checks
<1>3. ChannelOf[k] \in {"new_flow", "new_dns_flow", "new_ssh"}
      /\ (ChannelOf[k] = "new_flow" <=> k = "conn")
  BY DEF ChannelOf, Checks
<1>4. CASE k # "conn"
  <2>1. news' = news /\ DOMAIN channel' = DOMAIN channel
    BY <1>1, <1>3, <1>4 DEF news, LookInv, JobsTyped
  <2>2. main'.check # "conn"
    BY <1>1, <1>2, <1>4 DEF Job
  <2>3. JobsTyped'
    <3>1. /\ main' = [check |-> main'.check, id |-> main'.id, pc |-> main'.pc]
          /\ main'.check \in Checks \/ (main'.check = "none" /\ main'.pc \in {"idle", "ended"})
      <4>1. CASE main' = Idle
        BY <4>1, Fields DEF Idle
      <4>2. CASE main' = Job(k, Head(channel[ChannelOf[k]]), "look")
        BY <4>2, Fields DEF Job
      <4> QED
        BY <1>1, <4>1, <4>2
    <3> QED
      BY <1>1, <2>1, <2>2, <3>1 DEF LookInv, JobsTyped
  <2>4. EachOnce'
    BY <1>1, <2>1, <2>2, PassesOn DEF Past, TimerOn
  <2> QED
    BY <2>3, <2>4 DEF LookInv
<1>5. CASE k = "conn"
  <2> DEFINE n == Len(news)
  <2>1. news \in Seq(Conn) /\ news # <<>> /\ n \in Nat
    BY <1>1, <1>5 DEF LookInv, JobsTyped, news, ChannelOf
  <2>2. news' = Tail(news) /\ DOMAIN channel' = DOMAIN channel
    BY <1>1, <1>3, <1>5 DEF news, LookInv, JobsTyped, ChannelOf
  <2>3. /\ news' \in Seq(Conn) /\ Len(news') = n - 1 /\ c = news[1] /\ n > 0
        /\ \A i \in 1..(n - 1) : news'[i] = news[i + 1]
    BY <2>1, <2>2
  <2>4. main' = Idle \/ main' = Job("conn", c, "look")
    BY <1>1, <1>5 DEF ChannelOf, news
  <2>5. /\ main' = [check |-> main'.check, id |-> main'.id, pc |-> main'.pc]
        /\ main'.check \in Checks \/ (main'.check = "none" /\ main'.pc \in {"idle", "ended"})
        /\ main'.check = "conn" => main'.pc # "found" /\ main'.id = c
    <3>1. CASE main' = Idle
      BY <3>1, Fields DEF Idle
    <3>2. CASE main' = Job("conn", c, "look")
      BY <3>2, Fields DEF Job, Checks
    <3> QED
      BY <2>4, <3>1, <3>2
  <2>6. JobsTyped'
    BY <1>1, <2>2, <2>3, <2>5 DEF LookInv, JobsTyped
  <2> HIDE DEF n, c
  <2>7. \A i \in 1..(n - 1) : i + 1 \in 1..n /\ 1 \in 1..n /\ i + 1 # 1
    BY <2>1
  <2>8. 1 \in 1..n
    BY <2>1, <2>3
  <2>9. \A i, j \in 1..n : news[i] = news[j] => i = j
    BY DEF LookInv, EachOnce, n
  <2>10. \A i \in 1..n : news[i] \in flows /\ ~Past(news[i])
    BY DEF LookInv, EachOnce, n
  <2>11. \A i, j \in 1..(n - 1) : news'[i] = news'[j] => i = j
    <3> SUFFICES ASSUME NEW i \in 1..(n - 1), NEW j \in 1..(n - 1), news'[i] = news'[j]
                 PROVE  i = j
      OBVIOUS
    <3>1. news[i + 1] = news[j + 1]
      BY <2>3
    <3>2. i + 1 = j + 1
      BY <2>7, <2>9, <3>1
    <3> QED
      BY <3>2
  <2>12. \A i \in 1..(n - 1) : news'[i] \in flows /\ ~Past(news'[i]) /\ news'[i] # c
    BY <2>3, <2>7, <2>8, <2>9, <2>10
  <2>13. c \in flows /\ ~Past(c)
    BY <2>3, <2>8, <2>10
  <2>14. EachOnce'
    BY <1>1, <2>3, <2>5, <2>11, <2>12, <2>13
       DEF LookInv, EachOnce, MainOn, Past, TimerOn
  <2> QED
    BY <2>6, <2>14 DEF LookInv
<1> QED
  BY <1>4, <1>5

LEMMA SeenWhat == \A j : Seen(j) \in {"done", "missing", "found"}
                         /\ (Seen(j) = "found" => j.check = "ssh")
BY DEF Seen

LEMMA LooksKeepLook ==
    ASSUME LookInv, Look \/ (\E t \in timers : TimerLook(t)) \/ Stop
    PROVE  LookInv'
<1>0. /\ main = [check |-> main.check, id |-> main.id, pc |-> main.pc]
      /\ \A t \in timers : /\ t = [check |-> t.check, id |-> t.id, pc |-> t.pc]
                           /\ t.check \in Checks
  BY DEF LookInv, JobsTyped
<1>1. CASE Look
  <2>1. /\ main.pc = "look" /\ UNCHANGED <<flows, channel, timers, cache>>
        /\ main' = IF Seen(main) = "done" THEN Idle ELSE [main EXCEPT !.pc = Seen(main)]
    BY <1>1 DEF Look, database
  <2>2. news' = news
    BY <2>1 DEF news
  <2>3. main.check \in Checks
    BY <2>1 DEF LookInv, JobsTyped
  <2>4. \/ main' = Idle
        \/ /\ main' = [check |-> main.check, id |-> main.id, pc |-> Seen(main)]
           /\ Seen(main) = "found" => main.check = "ssh"
    BY <1>0, <2>1, SeenWhat
  <2>5. /\ main' = [check |-> main'.check, id |-> main'.id, pc |-> main'.pc]
        /\ main'.check \in Checks \/ (main'.check = "none" /\ main'.pc \in {"idle", "ended"})
        /\ main'.check = "conn" => /\ main'.pc # "found"
                                   /\ main.check = "conn" /\ main'.id = main.id
    <3>1. CASE main' = Idle
      BY <3>1, Fields DEF Idle
    <3>2. CASE main' = [check |-> main.check, id |-> main.id, pc |-> Seen(main)]
      BY <2>3, <2>4, <3>1, <3>2, Fields
    <3> QED
      BY <2>4, <3>1, <3>2
  <2>6. JobsTyped'
    BY <2>1, <2>2, <2>5 DEF LookInv, JobsTyped
  <2>7. EachOnce'
    BY <2>1, <2>2, <2>5, PassesOn DEF Past, TimerOn
  <2> QED
    BY <2>6, <2>7 DEF LookInv
<1>2. ASSUME NEW t \in timers, TimerLook(t)
      PROVE  LookInv'
  <2>1. /\ timers' = (timers \ {t}) \cup
              (IF Seen(t) = "done" THEN {} ELSE {[t EXCEPT !.pc = Seen(t)]})
        /\ UNCHANGED <<flows, channel, main, cache>>
    BY <1>2 DEF TimerLook, database
  <2>2. news' = news
    BY <2>1 DEF news
  <2>3. [t EXCEPT !.pc = Seen(t)] = [check |-> t.check, id |-> t.id, pc |-> Seen(t)]
    BY <1>0
  <2>4. \A u \in timers' : \/ u \in timers
                           \/ u = [check |-> t.check, id |-> t.id, pc |-> Seen(t)]
    BY <2>1, <2>3
  <2>5. JobsTyped'
    BY <1>0, <2>1, <2>2, <2>4 DEF LookInv, JobsTyped
  <2>6. EachOnce'
    BY <2>1, <2>2, <2>4, PassesOn DEF Past, TimerOn
  <2> QED
    BY <2>5, <2>6 DEF LookInv
<1>3. CASE Stop
  <2>1. /\ main' = [Idle EXCEPT !.pc = "ended"]
        /\ UNCHANGED <<flows, channel, timers, cache>>
    BY <1>3 DEF Stop, database
  <2>2. news' = news
    BY <2>1 DEF news
  <2>3. /\ main' = [check |-> main'.check, id |-> main'.id, pc |-> main'.pc]
        /\ main'.check = "none" /\ main'.pc = "ended"
    BY <2>1, Fields DEF Idle
  <2>4. JobsTyped'
    BY <2>1, <2>2, <2>3 DEF LookInv, JobsTyped
  <2>5. EachOnce'
    BY <2>1, <2>2, <2>3, PassesOn DEF Past, TimerOn
  <2> QED
    BY <2>4, <2>5 DEF LookInv
<1> QED
  BY <1>1, <1>2, <1>3

(* What a decision about a job changes of the caches and of the timers     *)
LEMMA DecidedWhat ==
    ASSUME LookInv, NEW j, j.check \in Checks, Decided(j),
           j = [check |-> j.check, id |-> j.id, pc |-> j.pc]
    PROVE  /\ DOMAIN cache' = Checks
           /\ \A c : c \in cache'["conn"] =>
                        c \in cache["conn"] \/ (j.check = "conn" /\ c = j.id)
           /\ \A u \in NewTimers(j) : u = [check |-> j.check, id |-> j.id, pc |-> "wait"]
<1>1. cache' = [cache EXCEPT ![j.check] =
            IF FirstTime(j) THEN @ \cup {Key(j)}
            ELSE IF Alerts(j) THEN @ \ {Key(j)} ELSE @]
  BY DEF Decided
<1>2. DOMAIN cache = Checks /\ "conn" \in Checks
  BY DEF LookInv, JobsTyped, Checks
<1>3. j.check = "conn" => Key(j) = j.id
  BY DEF Key
<1>4. \A c : c \in cache'["conn"] => c \in cache["conn"] \/ (j.check = "conn" /\ c = j.id)
  <2>1. CASE j.check = "conn"
    BY <1>1, <1>2, <1>3, <2>1
  <2>2. CASE j.check # "conn"
    BY <1>1, <1>2, <2>2
  <2> QED
    BY <2>1, <2>2
<1>5. \A u \in NewTimers(j) : u = [check |-> j.check, id |-> j.id, pc |-> "wait"]
  BY DEF NewTimers
<1> QED
  BY <1>1, <1>2, <1>4, <1>5

LEMMA DecisionsKeepLook ==
    ASSUME LookInv, Decide \/ (\E t \in timers : TimerDecide(t))
    PROVE  LookInv'
<1>0. /\ main = [check |-> main.check, id |-> main.id, pc |-> main.pc]
      /\ \A t \in timers : /\ t = [check |-> t.check, id |-> t.id, pc |-> t.pc]
                           /\ t.check \in Checks
  BY DEF LookInv, JobsTyped
<1>1. CASE Decide
  <2>1. /\ main.pc \in {"missing", "found"} /\ Decided(main) /\ main' = Idle
        /\ timers' = timers \cup NewTimers(main)
        /\ UNCHANGED <<flows, channel>>
    BY <1>1 DEF Decide, database
  <2>2. news' = news
    BY <2>1 DEF news
  <2>3. main.check \in Checks
    BY <2>1 DEF LookInv, JobsTyped
  <2>4. /\ DOMAIN cache' = Checks
        /\ \A c : c \in cache'["conn"] =>
                     c \in cache["conn"] \/ (main.check = "conn" /\ c = main.id)
        /\ \A u \in NewTimers(main) :
              u = [check |-> main.check, id |-> main.id, pc |-> "wait"]
    BY <1>0, <2>1, <2>3, DecidedWhat
  <2>5. \A u \in timers' : \/ u \in timers
                           \/ u = [check |-> main.check, id |-> main.id, pc |-> "wait"]
    BY <2>1, <2>4
  <2>6. JobsTyped'
    BY <1>0, <2>1, <2>2, <2>3, <2>4, <2>5 DEF LookInv, JobsTyped, Idle
  <2>7. main'.check # "conn"
    BY <2>1 DEF Idle
  <2>8. \A c : (c \in cache'["conn"] \/ \E t \in timers' : t.check = "conn" /\ t.id = c)
               => Past(c) \/ MainOn(c)
    BY <2>4, <2>5 DEF Past, TimerOn, MainOn
  <2>9. EachOnce'
    BY <2>1, <2>2, <2>7, <2>8, PassesOn
  <2> QED
    BY <2>6, <2>9 DEF LookInv
<1>2. ASSUME NEW t \in timers, TimerDecide(t)
      PROVE  LookInv'
  <2>1. /\ Decided(t) /\ timers' = (timers \ {t}) \cup NewTimers(t)
        /\ UNCHANGED <<flows, channel, main>>
    BY <1>2 DEF TimerDecide, database
  <2>2. news' = news
    BY <2>1 DEF news
  <2>3. /\ DOMAIN cache' = Checks
        /\ \A c : c \in cache'["conn"] =>
                     c \in cache["conn"] \/ (t.check = "conn" /\ c = t.id)
        /\ \A u \in NewTimers(t) : u = [check |-> t.check, id |-> t.id, pc |-> "wait"]
    BY <1>0, <2>1, DecidedWhat
  <2>4. \A u \in timers' : \/ u \in timers
                           \/ u = [check |-> t.check, id |-> t.id, pc |-> "wait"]
    BY <2>1, <2>3
  <2>5. JobsTyped'
    BY <1>0, <2>1, <2>2, <2>3, <2>4 DEF LookInv, JobsTyped
  <2>6. \A c : (c \in cache'["conn"] \/ \E u \in timers' : u.check = "conn" /\ u.id = c)
               => Past(c)
    BY <2>3, <2>4 DEF Past, TimerOn
  <2>7. EachOnce'
    BY <2>1, <2>2, <2>6, PassesOn
  <2> QED
    BY <2>5, <2>7 DEF LookInv
<1> QED
  BY <1>1, <1>2

LEMMA LookInvStep == LookInv /\ [Next]_vars => LookInv'
<1> SUFFICES ASSUME LookInv, [Next]_vars
             PROVE  LookInv'
  OBVIOUS
<1>1. ASSUME NEW q \in Query, add_out_dns(q)
      PROVE  LookInv'
  BY <1>1, ElsewhereKeepsLook DEF add_out_dns, Publish, news, LookInv, JobsTyped
<1>2. ASSUME NEW c \in Login, add_out_ssh(c)
      PROVE  LookInv'
  BY <1>2, ElsewhereKeepsLook DEF add_out_ssh, Publish, news, LookInv, JobsTyped
<1>3. CASE Learn
  BY <1>3, ElsewhereKeepsLook DEF Learn, news
<1>4. CASE Tick
  BY <1>4, ElsewhereKeepsLook DEF Tick, database, news
<1>5. CASE UNCHANGED vars
  BY <1>5, ElsewhereKeepsLook DEF vars, database, news
<1>6. ASSUME NEW c \in Conn, add_flow(c)
      PROVE  LookInv'
  BY <1>6, AddFlowKeepsLook
<1>7. ASSUME NEW k \in Checks, Receive(k)
      PROVE  LookInv'
  BY <1>7, ReceiveKeepsLook
<1> QED
  BY <1>1, <1>2, <1>3, <1>4, <1>5, <1>6, <1>7, LooksKeepLook, DecisionsKeepLook DEF Next

LEMMA LookInvInit == Init => LookInv
<1> SUFFICES ASSUME Init PROVE LookInv
  OBVIOUS
<1>1. news = <<>> /\ DOMAIN channel = {"new_flow", "new_dns_flow", "new_ssh"}
  BY DEF Init, news
<1>2. <<>> \in Seq(Conn) /\ Len(<<>>) = 0
  BY EmptySeq
<1>3. JobsTyped
  BY <1>1, <1>2 DEF Init, JobsTyped, Idle, Checks
<1>4. cache["conn"] = {} /\ timers = {} /\ main.check = "none"
  BY DEF Init, Idle, Checks
<1>5. EachOnce
  BY <1>1, <1>2, <1>4 DEF EachOnce
<1> QED
  BY <1>3, <1>5 DEF LookInv

(* No connection is reported while the main loop works on it, however its  *)
(* steps interleave with those of the timers and with what is stored: the  *)
(* main loop never finds the uid of a connection in the cache, for it gets *)
(* each connection once and before any timer knows it.                     *)
THEOREM ConnReportedByTimer == Spec => ConnLookedAtTwice
<1>1. LookInv /\ [Next]_vars =>
         [\A c \in Conn : <<"conn", c>> \in alerts' \ alerts => main' = main]_vars
  <2> SUFFICES ASSUME LookInv, [Next]_vars, NEW c \in Conn, <<"conn", c>> \in alerts' \ alerts
               PROVE  main' = main
    OBVIOUS
  <2>1. CASE Decide
    <3>1. alerts' = alerts \cup (IF Alerts(main) THEN {<<main.check, main.id>>} ELSE {})
      BY <2>1 DEF Decide, Decided
    <3>2. Alerts(main) /\ main.check = "conn" /\ main.pc \in {"missing", "found"}
      BY <2>1, <3>1 DEF Decide
    <3>3. main.pc = "missing" /\ Key(main) \notin cache["conn"]
      BY <3>2 DEF LookInv, JobsTyped, EachOnce, Past, Key
    <3> QED
      BY <3>2, <3>3 DEF Alerts, FirstTime
  <2>2. ASSUME NEW t \in timers, TimerDecide(t)
        PROVE  main' = main
    BY <2>2 DEF TimerDecide
  <2>3. CASE alerts' = alerts
    BY <2>3
  <2>4. \/ alerts' = alerts \/ Decide \/ \E t \in timers : TimerDecide(t)
    BY DEF Next, add_flow, add_out_dns, add_out_ssh, Learn, Tick, Receive, Look, Stop,
           TimerLook, vars
  <2> QED
    BY <2>1, <2>2, <2>3, <2>4
<1> QED
  BY <1>1, LookInvInit, LookInvStep, PTL DEF Spec, ConnLookedAtTwice
-----------------------------------------------------------------------------
(* ThreatFeeds *)

Tasks == {t \in [feed : Feed, lines : Seq(Line)] :
             \E v \in Versions[t.feed] : t.lines = v.lines}

Rounds == [at : {"check", "task", "delete", "load", "info"}, todo : Seq(Feed),
           tasks : Seq(Tasks), old : SUBSET Hashed]

Messages ==
    {AskIp(p, ip, proto, state) : p \in ThreatProfile, ip \in IocIp,
                                  proto \in {"tcp", "icmp"}, state \in {"srcip", "dstip"}}
    \cup [kind : {"name"}, profile : ThreatProfile, name : LookedUp]

FeedsTyped ==
    /\ disk \in LocalVersions
    /\ ioc \in [Indicator -> Source]
    /\ DOMAIN TI_files_info = Source /\ DOMAIN attempted = Feed
    /\ parsed \in [Source -> SUBSET Indicator]
    /\ removed \subseteq Feed /\ shadowed \subseteq Feed \X Indicator
    /\ give_threat_intelligence \in Seq(Messages)
    /\ updater \in Rounds
    /\ updater.at \in {"delete", "load", "info"} => updater.tasks # <<>>

(* What was read of the feed of the task is all that is stored of it, and  *)
(* none of it has become that of another feed.                             *)
OldDataRead ==
    updater.at = "delete" =>
        /\ OldData(Task.feed) \subseteq updater.old
        /\ \A i \in updater.old : ioc[i] \notin Feed \ {Task.feed}

OldDataDeleted ==
    updater.at = "load" => OldData(Task.feed) = {} /\ Task.feed \in removed

Mirrored == \A f \in Feed : NothingStale(f) /\ FeedKept(f)

FeedsInv == FeedsTyped /\ OldDataRead /\ OldDataDeleted /\ Mirrored

LEMMA FeedSources ==
    \A f \in Feed : f \in Source /\ f # LocalFile /\ f # Nobody
BY FeedsAssumption DEF Source

(* What a file gives are indicators.                                       *)
LEMMA IocsListed ==
    ASSUME NEW f \in Feed, NEW lines
    PROVE  Iocs(f, lines) \subseteq Indicator
<1>1. Format[f] \in {"text", "json", "hashes"}
  BY FeedsAssumption
<1>2. Supported(f) \subseteq Indicator
  BY <1>1 DEF Supported, Indicator
<1> QED
  BY <1>2 DEF Iocs

(* Steps that store nothing for a feed, and take only what another source  *)
(* takes over from one that is loaded, keep the mirror.                    *)
LEMMA MirrorKept ==
    ASSUME Mirrored, ioc \in [Indicator -> Source], parsed \in [Source -> SUBSET Indicator],
           removed \subseteq removed', shadowed \subseteq shadowed',
           \A f \in removed' \ removed : \A i \in Hashed : ioc'[i] # f,
           \A f \in Feed : parsed'[f] = parsed[f],
           \A i \in Indicator :
              \/ ioc'[i] = ioc[i]
              \/ /\ ioc'[i] \notin Feed
                 /\ \A f \in Feed : ioc[i] = f /\ i \in parsed[f] =>
                                       f \in removed' \/ <<f, i>> \in shadowed'
    PROVE  Mirrored'
<1> SUFFICES ASSUME NEW f \in Feed
             PROVE  NothingStale(f)' /\ FeedKept(f)'
  BY DEF Mirrored
<1>1. NothingStale(f) /\ FeedKept(f)
  BY DEF Mirrored
<1>2. NothingStale(f)'
  <2> SUFFICES ASSUME NEW i \in Hashed, ioc'[i] = f
               PROVE  i \in parsed'[f] /\ f \notin removed'
    BY DEF NothingStale
  <2>1. i \in Indicator
    BY DEF Hashed, Indicator
  <2>2. ioc[i] = f
    BY <2>1
  <2> QED
    BY <1>1, <2>2 DEF NothingStale
<1>3. FeedKept(f)'
  <2> SUFFICES ASSUME f \notin removed', NEW i \in parsed'[f]
               PROVE  ioc'[i] = f \/ <<f, i>> \in shadowed'
    BY DEF FeedKept
  <2>1. i \in Indicator /\ i \in parsed[f] /\ f \notin removed
    BY FeedSources
  <2> QED
    BY <1>1, <2>1 DEF FeedKept
<1> QED
  BY <1>2, <1>3

LEMMA TaskTyped ==
    ASSUME FeedsTyped, updater.tasks # <<>>
    PROVE  /\ Task \in Tasks /\ Task.feed \in Feed /\ Task.lines \in Seq(Line)
           /\ Tail(updater.tasks) \in Seq(Tasks)
<1>1. updater.tasks \in Seq(Tasks)
  BY DEF FeedsTyped, Rounds
<1>2. Task \in Tasks /\ Tail(updater.tasks) \in Seq(Tasks)
  BY <1>1 DEF Task
<1> QED
  BY <1>2 DEF Tasks

(* Choosing what is downloaded                                             *)
LEMMA CheckingKeepsFeeds ==
    ASSUME FeedsInv, NotDownloaded \/ UpToDate \/ Downloaded,
           UNCHANGED <<disk, give_threat_intelligence>>
    PROVE  FeedsInv'
<1> DEFINE f == Head(updater.todo)
<1>1. /\ updater.at = "check" /\ updater.todo # <<>>
      /\ UNCHANGED <<ioc, parsed, removed, shadowed>>
  BY DEF NotDownloaded, UpToDate, Downloaded, CheckNext, historyVars, cacheDb
<1>2. updater.todo \in Seq(Feed) /\ updater.tasks \in Seq(Tasks) /\ updater.old \subseteq Hashed
  BY DEF FeedsInv, FeedsTyped, Rounds
<1>3. f \in Feed /\ Tail(updater.todo) \in Seq(Feed)
  BY <1>1, <1>2
<1>4. updater' = Checked
      \/ \E v \in Versions[f] : updater' = [Checked EXCEPT !.tasks =
                                               Append(@, [feed |-> f, lines |-> v.lines])]
  BY DEF NotDownloaded, UpToDate, Downloaded
<1>5. \A v \in Versions[f] : [feed |-> f, lines |-> v.lines] \in Tasks
  BY <1>3, FeedsAssumption DEF Tasks
<1>6. /\ updater' \in Rounds /\ updater'.at = "check"
  <2>1. /\ Checked \in Rounds
        /\ Checked.at = "check" /\ Checked.tasks \in Seq(Tasks)
    BY <1>1, <1>2, <1>3 DEF FeedsInv, FeedsTyped, Checked, Rounds
  <2>2. CASE updater' = Checked
    BY <2>1, <2>2
  <2>3. ASSUME NEW v \in Versions[f],
               updater' = [Checked EXCEPT !.tasks = Append(@, [feed |-> f, lines |-> v.lines])]
        PROVE  updater' \in Rounds /\ updater'.at = "check"
    <3>1. Append(Checked.tasks, [feed |-> f, lines |-> v.lines]) \in Seq(Tasks)
      BY <2>1, <1>5
    <3> QED
      BY <2>1, <2>3, <3>1 DEF Rounds
  <2> QED
    BY <1>4, <2>2, <2>3
<1>7. DOMAIN TI_files_info' = Source /\ DOMAIN attempted' = Feed
  BY DEF FeedsInv, FeedsTyped, NotDownloaded, UpToDate, Downloaded, cacheDb, historyVars
<1>8. FeedsTyped'
  BY <1>1, <1>6, <1>7 DEF FeedsInv, FeedsTyped
<1>9. OldDataRead' /\ OldDataDeleted'
  BY <1>6 DEF OldDataRead, OldDataDeleted
<1>10. Mirrored'
  BY <1>1, MirrorKept DEF FeedsInv, FeedsTyped
<1> QED
  BY <1>8, <1>9, <1>10 DEF FeedsInv

LEMMA RiskiqKeepsFeeds ==
    ASSUME FeedsInv, update_riskiq_feed, UNCHANGED <<disk, give_threat_intelligence>>
    PROVE  FeedsInv'
<1>1. /\ updater' = [updater EXCEPT !.at = "task"]
      /\ UNCHANGED <<ioc, TI_files_info, parsed, removed, shadowed, attempted>>
  BY DEF update_riskiq_feed, cacheDb, historyVars
<1>2. /\ updater' \in Rounds /\ updater'.at = "task"
  BY <1>1 DEF FeedsInv, FeedsTyped, Rounds
<1>3. FeedsTyped'
  BY <1>1, <1>2 DEF FeedsInv, FeedsTyped
<1>4. OldDataRead' /\ OldDataDeleted'
  BY <1>2 DEF OldDataRead, OldDataDeleted
<1>5. Mirrored'
  BY <1>1, MirrorKept DEF FeedsInv, FeedsTyped
<1> QED
  BY <1>3, <1>4, <1>5 DEF FeedsInv

(* Reading and deleting the old data of a feed                             *)
LEMMA DeletingKeepsFeeds ==
    ASSUME FeedsInv, ReadOldData \/ DeleteOldData \/ set_TI_file_info,
           UNCHANGED <<disk, give_threat_intelligence>>
    PROVE  FeedsInv'
<1>1. updater.tasks # <<>>
  BY DEF ReadOldData, DeleteOldData, set_TI_file_info, FeedsInv, FeedsTyped
<1>2. Task.feed \in Feed /\ Tail(updater.tasks) \in Seq(Tasks)
  BY <1>1, TaskTyped DEF FeedsInv
<1>3. OldData(Task.feed) \subseteq Hashed
  BY DEF OldData
<1>4. CASE ReadOldData
  <2>1. /\ updater' = [updater EXCEPT !.at = "delete", !.old = OldData(Task.feed)]
        /\ UNCHANGED <<ioc, TI_files_info, parsed, removed, shadowed, attempted>>
    BY <1>4 DEF ReadOldData, cacheDb, historyVars
  <2>2. /\ updater' \in Rounds /\ updater'.at = "delete" /\ updater'.tasks = updater.tasks
        /\ updater'.old = OldData(Task.feed)
    BY <2>1, <1>3 DEF FeedsInv, FeedsTyped, Rounds
  <2>3. FeedsTyped'
    BY <1>1, <2>1, <2>2 DEF FeedsInv, FeedsTyped
  <2>4. OldDataRead' /\ OldDataDeleted'
    <3>1. Task' = Task /\ updater'.old = OldData(Task.feed)
      BY <2>2 DEF Task
    <3>2. \A i \in updater'.old : i \in Hashed /\ ioc[i] = Task.feed
      BY <3>1 DEF OldData
    <3>3. OldData(Task.feed)' = updater'.old
      BY <2>1, <3>1 DEF OldData
    <3> QED
      BY <2>1, <2>2, <3>1, <3>2, <3>3 DEF OldDataRead, OldDataDeleted
  <2>5. Mirrored'
    BY <2>1, MirrorKept DEF FeedsInv, FeedsTyped
  <2> QED
    BY <2>3, <2>4, <2>5 DEF FeedsInv
<1>5. CASE DeleteOldData
  <2>1. /\ updater.at = "delete" /\ ioc' = Undone(updater.old)
        /\ removed' = removed \cup {Task.feed}
        /\ UNCHANGED <<TI_files_info, parsed, shadowed, attempted>>
        /\ updater' = [updater EXCEPT !.at = "load", !.old = {}]
    BY <1>5 DEF DeleteOldData
  <2>2. /\ updater' \in Rounds /\ updater'.at = "load" /\ updater'.tasks = updater.tasks
    BY <2>1 DEF FeedsInv, FeedsTyped, Rounds
  <2>3. ioc' \in [Indicator -> Source]
    BY <2>1 DEF FeedsInv, FeedsTyped, Undone, Source
  <2>4. FeedsTyped'
    BY <1>1, <1>2, <2>1, <2>2, <2>3 DEF FeedsInv, FeedsTyped
  <2>5. \A i \in Indicator : \/ ioc'[i] = ioc[i] /\ i \notin updater.old
                             \/ i \in updater.old /\ ioc'[i] = Nobody
    BY <2>1 DEF Undone
  <2>6. /\ OldData(Task.feed) \subseteq updater.old
        /\ \A i \in updater.old : ioc[i] \notin Feed \ {Task.feed}
    BY <2>1 DEF FeedsInv, OldDataRead
  <2>7. Task.feed # Nobody /\ Nobody \notin Feed
    BY <1>2, FeedSources
  <2>8. \A i \in Hashed : ioc'[i] # Task.feed
    BY <2>5, <2>6, <2>7 DEF OldData, Hashed, Indicator
  <2>9. OldDataDeleted'
    BY <2>1, <2>2, <2>8 DEF OldDataDeleted, OldData, Task
  <2>10. OldDataRead'
    BY <2>2 DEF OldDataRead
  <2>11. Mirrored'
    <3>1. \A g \in removed' \ removed : \A i \in Hashed : ioc'[i] # g
      BY <2>1, <2>8
    <3>2. \A i \in Indicator :
             \/ ioc'[i] = ioc[i]
             \/ ioc'[i] \notin Feed /\ \A g \in Feed : ioc[i] = g => g \in removed'
      BY <2>1, <2>5, <2>6, <2>7
    <3> QED
      BY <2>1, <3>1, <3>2, MirrorKept DEF FeedsInv, FeedsTyped
  <2> QED
    BY <2>4, <2>9, <2>10, <2>11 DEF FeedsInv
<1>6. CASE set_TI_file_info
  <2>1. /\ updater' = NextTask /\ UNCHANGED <<ioc, parsed, removed, shadowed, attempted>>
        /\ DOMAIN TI_files_info' = DOMAIN TI_files_info
    BY <1>6 DEF set_TI_file_info, historyVars
  <2>2. /\ updater' \in Rounds /\ updater'.at = "task"
    BY <2>1, <1>2 DEF FeedsInv, FeedsTyped, NextTask, Rounds
  <2>3. FeedsTyped'
    BY <2>1, <2>2 DEF FeedsInv, FeedsTyped
  <2>4. OldDataRead' /\ OldDataDeleted'
    BY <2>2 DEF OldDataRead, OldDataDeleted
  <2>5. Mirrored'
    BY <2>1, MirrorKept DEF FeedsInv, FeedsTyped
  <2> QED
    BY <2>3, <2>4, <2>5 DEF FeedsInv
<1> QED
  BY <1>4, <1>5, <1>6

(* Loading a feed                                                          *)
LEMMA LoadingKeepsFeeds ==
    ASSUME FeedsInv, LoadFeed, UNCHANGED <<disk, give_threat_intelligence>>
    PROVE  FeedsInv'
<1>1. updater.tasks # <<>> /\ updater.at = "load"
  BY DEF LoadFeed, FeedsInv, FeedsTyped
<1>0. PICK f \in Feed : f = Task.feed
  BY <1>1, TaskTyped DEF FeedsInv
<1> DEFINE iocs == Iocs(f, Task.lines)
<1>2. Tail(updater.tasks) \in Seq(Tasks)
  BY <1>0, <1>1, TaskTyped DEF FeedsInv
<1>3. iocs \subseteq Indicator
  BY IocsListed
<1>4. OldData(f) = {} /\ f \in removed
  BY <1>0, <1>1 DEF FeedsInv, OldDataDeleted
<1>5. CASE ~Parses(f, Task.lines)
  <2>1. /\ updater' = NextTask
        /\ UNCHANGED <<ioc, TI_files_info, parsed, removed, shadowed, attempted>>
    BY <1>0, <1>5 DEF LoadFeed, AfterFailure
  <2>2. updater' \in Rounds /\ updater'.at = "task"
    BY <2>1, <1>2 DEF FeedsInv, FeedsTyped, NextTask, Rounds
  <2>3. FeedsTyped'
    BY <2>1, <2>2 DEF FeedsInv, FeedsTyped
  <2>4. OldDataRead' /\ OldDataDeleted'
    BY <2>2 DEF OldDataRead, OldDataDeleted
  <2>5. Mirrored'
    BY <2>1, MirrorKept DEF FeedsInv, FeedsTyped
  <2> QED
    BY <2>3, <2>4, <2>5 DEF FeedsInv
<1>6. CASE Parses(f, Task.lines)
  <2>1. /\ ioc' = StoredFrom(f, iocs) /\ parsed' = [parsed EXCEPT ![f] = iocs]
        /\ removed' = removed \ {f} /\ updater' = [updater EXCEPT !.at = "info"]
        /\ shadowed' = Shadowing(f, iocs) /\ UNCHANGED <<TI_files_info, attempted>>
    BY <1>0, <1>6 DEF LoadFeed
  <2>2. updater' \in Rounds /\ updater'.at = "info" /\ updater'.tasks = updater.tasks
    BY <2>1 DEF FeedsInv, FeedsTyped, Rounds
  <2>3. f \in Source
    BY FeedSources
  <2>4. ioc' \in [Indicator -> Source] /\ parsed' \in [Source -> SUBSET Indicator]
    BY <1>3, <2>1, <2>3 DEF FeedsInv, FeedsTyped, StoredFrom
  <2>5. FeedsTyped'
    <3>1. shadowed' \subseteq Feed \X Indicator
      BY <1>3, <2>1 DEF FeedsInv, FeedsTyped, Shadowing
    <3> QED
      BY <1>1, <2>1, <2>2, <2>4, <3>1 DEF FeedsInv, FeedsTyped
  <2>6. OldDataRead' /\ OldDataDeleted'
    BY <2>2 DEF OldDataRead, OldDataDeleted
  <2>7. \A i \in Indicator : ioc'[i] = IF i \in iocs THEN f ELSE ioc[i]
    BY <2>1 DEF StoredFrom
  <2>8. /\ parsed'[f] = iocs /\ f \notin removed'
        /\ \A g \in Feed \ {f} : /\ parsed'[g] = parsed[g] /\ parsed[g] \subseteq Indicator
                                 /\ (g \in removed' <=> g \in removed)
    BY <2>1, <2>3, FeedSources DEF FeedsInv, FeedsTyped
  <2> HIDE DEF iocs
  <2>9. Hashed \subseteq Indicator
    BY DEF Hashed, Indicator
  <2>10. NothingStale(f)' /\ FeedKept(f)'
    <3>1. \A i \in Hashed : ioc'[i] = f => i \in parsed'[f]
      BY <1>4, <2>7, <2>8, <2>9 DEF OldData
    <3>2. \A i \in parsed'[f] : ioc'[i] = f
      BY <1>3, <2>7, <2>8
    <3> QED
      BY <2>8, <3>1, <3>2 DEF NothingStale, FeedKept
  <2>11. ASSUME NEW g \in Feed \ {f}
         PROVE  NothingStale(g)' /\ FeedKept(g)'
    <3>1. NothingStale(g) /\ FeedKept(g)
      BY DEF FeedsInv, Mirrored
    <3>2. \A i \in parsed[g] : i \in iocs \/ <<g, i>> \in shadowed => <<g, i>> \in shadowed'
      BY <2>1 DEF Shadowing
    <3>3. NothingStale(g)'
      BY <2>7, <2>8, <2>9, <3>1 DEF NothingStale
    <3>4. FeedKept(g)'
      BY <2>7, <2>8, <3>1, <3>2 DEF FeedKept
    <3> QED
      BY <3>3, <3>4
  <2>12. Mirrored'
    BY <2>10, <2>11 DEF Mirrored
  <2> QED
    BY <2>5, <2>6, <2>12 DEF FeedsInv
<1> QED
  BY <1>5, <1>6

(* What is deleted or stored without a feed, when the round does not move  *)
LEMMA BesidesKeepsFeeds ==
    ASSUME FeedsInv, UNCHANGED <<updater, removed>>, disk' \in LocalVersions,
           give_threat_intelligence' \in Seq(Messages),
           ioc' \in [Indicator -> Source], parsed' \in [Source -> SUBSET Indicator],
           DOMAIN TI_files_info' = Source, attempted' = attempted,
           shadowed \subseteq shadowed', shadowed' \subseteq Feed \X Indicator,
           \A f \in Feed : parsed'[f] = parsed[f],
           \A i \in Indicator : \/ ioc'[i] = ioc[i]
                                \/ /\ ioc'[i] \notin Feed
                                   /\ \A f \in Feed : ioc[i] = f /\ i \in parsed[f] =>
                                                         <<f, i>> \in shadowed'
    PROVE  FeedsInv'
<1>1. FeedsTyped'
  BY DEF FeedsInv, FeedsTyped
<1>2. updater.at \in {"delete", "load"} => Task.feed \in Feed
  BY TaskTyped DEF FeedsInv, FeedsTyped
<1>3. \A i \in Hashed : ioc'[i] \in Feed => ioc'[i] = ioc[i]
  BY DEF Hashed, Indicator
<1>4. OldDataRead'
  <2> SUFFICES ASSUME updater.at = "delete"
               PROVE  OldDataRead'
    BY DEF OldDataRead
  <2>1. /\ OldData(Task.feed) \subseteq updater.old /\ updater.old \subseteq Hashed
        /\ \A i \in updater.old : ioc[i] \notin Feed \ {Task.feed}
    BY DEF FeedsInv, FeedsTyped, OldDataRead, Rounds
  <2>2. /\ \A i \in Hashed : ioc'[i] = Task.feed => i \in updater.old
        /\ \A i \in updater.old : ioc'[i] \notin Feed \ {Task.feed}
    BY <1>2, <1>3, <2>1 DEF OldData
  <2> QED
    BY <2>2 DEF OldDataRead, OldData, Task
<1>5. OldDataDeleted'
  <2> SUFFICES ASSUME updater.at = "load"
               PROVE  OldDataDeleted'
    BY DEF OldDataDeleted
  <2>1. OldData(Task.feed) = {} /\ Task.feed \in removed
    BY DEF FeedsInv, OldDataDeleted
  <2>2. \A i \in Hashed : ioc'[i] # Task.feed
    BY <1>2, <1>3, <2>1 DEF OldData
  <2> QED
    BY <2>1, <2>2 DEF OldDataDeleted, OldData, Task
<1>6. Mirrored'
  BY MirrorKept DEF FeedsInv, FeedsTyped
<1> QED
  BY <1>1, <1>4, <1>5, <1>6 DEF FeedsInv

(* threat_intelligence: its local file and the look-ups                    *)
LEMMA IntelligenceKeepsFeeds ==
    ASSUME FeedsInv, Intelligence
    PROVE  FeedsInv'
<1>1. /\ UNCHANGED <<updater, removed, attempted>> /\ disk' = disk /\ disk \in LocalVersions
      /\ DOMAIN TI_files_info = Source /\ shadowed \subseteq Feed \X Indicator
      /\ ioc \in [Indicator -> Source] /\ parsed \in [Source -> SUBSET Indicator]
      /\ give_threat_intelligence \in Seq(Messages)
  BY DEF Intelligence, FeedsInv, FeedsTyped
<1>2. CASE check_local_ti_files
  <2> DEFINE known == TI_files_info[LocalFile].tag
             kept == IF known = "none" THEN ioc ELSE Undone(OldData(LocalFile))
  <2>1. /\ give_threat_intelligence' = give_threat_intelligence
        /\ TI_files_info' = TI_files_info
        /\ \/ UNCHANGED <<ioc, parsed, shadowed>>
           \/ ioc' = kept /\ UNCHANGED <<parsed, shadowed>>
           \/ /\ ioc' = [i \in Indicator |-> IF i \in LocalIocs THEN LocalFile ELSE kept[i]]
              /\ parsed' = [parsed EXCEPT ![LocalFile] = LocalIocs]
              /\ shadowed' = Shadowing(LocalFile, LocalIocs)
    BY <1>2 DEF check_local_ti_files
  <2>2. kept \in [Indicator -> Source]
        /\ \A i \in Indicator : \/ kept[i] = ioc[i]
                                \/ kept[i] = Nobody /\ ioc[i] = LocalFile
    BY <1>1 DEF Undone, OldData, Source
  <2> HIDE DEF kept
  <2>3. LocalIocs \subseteq Indicator
    BY DEF LocalIocs, Hashed, Indicator
  <2>4. LocalFile \in Source /\ LocalFile \notin Feed /\ Nobody \notin Feed
    BY FeedSources DEF Source
  <2>5. ioc' \in [Indicator -> Source] /\ parsed' \in [Source -> SUBSET Indicator]
    BY <1>1, <2>1, <2>2, <2>3, <2>4
  <2>6. \A f \in Feed : parsed'[f] = parsed[f]
    BY <1>1, <2>1, <2>4 DEF Source
  <2>7. shadowed \subseteq shadowed' /\ shadowed' \subseteq Feed \X Indicator
    BY <1>1, <2>1, <2>3, <2>4 DEF Shadowing
  <2>8. \A i \in Indicator : \/ ioc'[i] = ioc[i]
                             \/ ioc'[i] = Nobody /\ ioc[i] = LocalFile
                             \/ /\ ioc'[i] = LocalFile /\ i \in LocalIocs
                                /\ shadowed' = Shadowing(LocalFile, LocalIocs)
    BY <2>1, <2>2
  <2>9. \A i \in Indicator : \/ ioc'[i] = ioc[i]
                             \/ /\ ioc'[i] \notin Feed
                                /\ \A f \in Feed : ioc[i] = f /\ i \in parsed[f] =>
                                                      <<f, i>> \in shadowed'
    BY <2>4, <2>8 DEF Shadowing
  <2> QED
    BY <1>1, <2>1, <2>5, <2>6, <2>7, <2>9, BesidesKeepsFeeds
<1>3. CASE StoreLocalHash
  <2>1. /\ UNCHANGED <<ioc, parsed, shadowed, give_threat_intelligence>>
        /\ DOMAIN TI_files_info' = DOMAIN TI_files_info
    BY <1>3 DEF StoreLocalHash
  <2> QED
    BY <1>1, <2>1, BesidesKeepsFeeds
<1>4. CASE LookUp
  <2>1. /\ give_threat_intelligence # <<>> /\ UNCHANGED <<ioc, TI_files_info, parsed, shadowed>>
        /\ give_threat_intelligence' = Tail(give_threat_intelligence)
    BY <1>4 DEF LookUp, cacheDb
  <2>2. give_threat_intelligence' \in Seq(Messages)
    BY <1>1, <2>1
  <2> QED
    BY <1>1, <2>1, <2>2, BesidesKeepsFeeds
<1> QED
  BY <1>2, <1>3, <1>4 DEF Intelligence

LEMMA AskedInMessages ==
    ASSUME NEW p \in ThreatProfile
    PROVE  /\ \A a, b \in IocIp, proto \in {"tcp", "icmp"} :
                 <<AskIp(p, b, proto, "dstip"), AskIp(p, a, proto, "srcip")>> \in Seq(Messages)
           /\ \A n \in LookedUp :
                 <<[kind |-> "name", profile |-> p, name |-> n]>> \in Seq(Messages)
BY DEF Messages

LEMMA FeedsInvStep == FeedsInv /\ [FeedsNext]_feedVars => FeedsInv'
<1> SUFFICES ASSUME FeedsInv, [FeedsNext]_feedVars
             PROVE  FeedsInv'
  OBVIOUS
<1>0. /\ disk \in LocalVersions /\ give_threat_intelligence \in Seq(Messages)
      /\ ioc \in [Indicator -> Source] /\ parsed \in [Source -> SUBSET Indicator]
      /\ DOMAIN TI_files_info = Source /\ shadowed \subseteq Feed \X Indicator
  BY DEF FeedsInv, FeedsTyped
<1>1. CASE Update
  <2>1. UNCHANGED <<disk, give_threat_intelligence>>
    BY <1>1 DEF Update
  <2> QED
    BY <1>1, <2>1, CheckingKeepsFeeds, RiskiqKeepsFeeds, DeletingKeepsFeeds, LoadingKeepsFeeds
       DEF Update
<1>2. CASE Intelligence
  BY <1>2, IntelligenceKeepsFeeds
<1>3. CASE update_TI_files \/ NextDay \/ UNCHANGED feedVars
  <2>1. UNCHANGED <<updater, removed, disk, give_threat_intelligence, ioc, parsed,
                    TI_files_info, shadowed, attempted>>
    BY <1>3 DEF update_TI_files, NextDay, feedVars, cacheDb, historyVars
  <2> QED
    BY <1>0, <2>1, BesidesKeepsFeeds
<1>4. CASE AskForFlow \/ AskForName
  <2>1. \E ms \in Seq(Messages) :
           give_threat_intelligence' = give_threat_intelligence \o ms
    BY <1>4, AskedInMessages DEF AskForFlow, AskForName, Ask
  <2>2. give_threat_intelligence' \in Seq(Messages)
    BY <1>0, <2>1
  <2>3. UNCHANGED <<updater, removed, disk, ioc, parsed, TI_files_info, shadowed, attempted>>
    BY <1>4 DEF AskForFlow, AskForName, Ask, cacheDb, historyVars
  <2> QED
    BY <1>0, <2>2, <2>3, BesidesKeepsFeeds
<1>5. CASE Restart
  <2>1. /\ updater' = Started /\ disk' \in LocalVersions /\ give_threat_intelligence' = <<>>
        /\ UNCHANGED <<ioc, TI_files_info, parsed, removed, shadowed, attempted>>
    BY <1>5 DEF Restart, cacheDb, historyVars
  <2>2. Started \in Rounds /\ Started.at = "check"
    BY FeedsAssumption DEF Started, Rounds
  <2>3. FeedsTyped'
    BY <2>1, <2>2 DEF FeedsInv, FeedsTyped
  <2>4. OldDataRead' /\ OldDataDeleted'
    BY <2>1, <2>2 DEF OldDataRead, OldDataDeleted
  <2>5. Mirrored'
    BY <1>0, <2>1, MirrorKept DEF FeedsInv
  <2> QED
    BY <2>3, <2>4, <2>5 DEF FeedsInv
<1> QED
  BY <1>1, <1>2, <1>3, <1>4, <1>5 DEF FeedsNext, FeedStep, LookupStep

LEMMA FeedsInvInit == FeedsInit => FeedsInv
<1> SUFFICES ASSUME FeedsInit
             PROVE  FeedsInv
  OBVIOUS
<1>1. Started \in Rounds /\ Started.at = "check"
  BY FeedsAssumption DEF Started, Rounds
<1>2. FeedsTyped
  BY <1>1 DEF FeedsInit, FeedsTyped, Source
<1>3. OldDataRead /\ OldDataDeleted
  BY <1>1 DEF FeedsInit, OldDataRead, OldDataDeleted
<1>4. Mirrored
  BY FeedSources DEF FeedsInit, Mirrored, NothingStale, FeedKept, Hashed, Indicator
<1> QED
  BY <1>2, <1>3, <1>4 DEF FeedsInv

(* A feed is to be checked or has a task, once; whatever has a task, or    *)
(* was emptied, does not have the tag that was downloaded last, which only *)
(* a feed that is loaded gets.                                             *)
RoundOnce ==
    /\ IsInjective(updater.todo)
    /\ \A j, k \in 1..Len(updater.tasks) :
          updater.tasks[j].feed = updater.tasks[k].feed => j = k
    /\ \A j \in 1..Len(updater.tasks), k \in 1..Len(updater.todo) :
          updater.tasks[j].feed # updater.todo[k]

InRound(f) == \E k \in 1..Len(updater.tasks) : updater.tasks[k].feed = f

Untagged ==
    \A f \in Feed : f \in removed \/ InRound(f) => TI_files_info[f].tag # attempted[f]

InfoLoaded == updater.at = "info" => Task.feed \notin removed

RetryInv == RoundOnce /\ Untagged /\ InfoLoaded

LEMMA TailOf ==
    ASSUME NEW S, NEW s \in Seq(S), s # <<>>
    PROVE  /\ Tail(s) \in Seq(S) /\ Len(Tail(s)) = Len(s) - 1 /\ Len(s) \in Nat \ {0}
           /\ Head(s) = s[1] /\ \A k \in 1..Len(Tail(s)) : Tail(s)[k] = s[k + 1]
OBVIOUS

(* A round from which a feed or a task is taken                            *)
LEMMA RoundShortens ==
    ASSUME FeedsTyped, RoundOnce,
           \/ updater'.todo = updater.todo
           \/ updater.todo # <<>> /\ updater'.todo = Tail(updater.todo),
           \/ updater'.tasks = updater.tasks
           \/ updater.tasks # <<>> /\ updater'.tasks = Tail(updater.tasks)
    PROVE  RoundOnce' /\ \A f : InRound(f)' => InRound(f)
<1> DEFINE todo == updater.todo
           tasks == updater.tasks
           todo1 == updater'.todo
           tasks1 == updater'.tasks
<1>1. todo \in Seq(Feed) /\ tasks \in Seq(Tasks)
  BY DEF FeedsTyped, Rounds
<1>2. PICK d \in {0, 1} : /\ todo1 \in Seq(Feed) /\ Len(todo1) = Len(todo) - d
                          /\ \A k \in 1..Len(todo1) : todo1[k] = todo[k + d]
  <2>1. CASE todo1 = todo
    BY <1>1, <2>1
  <2>2. CASE todo # <<>> /\ todo1 = Tail(todo)
    BY <1>1, <2>2, TailOf
  <2> QED
    BY <2>1, <2>2
<1>3. PICK e \in {0, 1} : /\ Len(tasks1) = Len(tasks) - e
                          /\ \A k \in 1..Len(tasks1) : tasks1[k] = tasks[k + e]
  <2>1. CASE tasks1 = tasks
    BY <1>1, <2>1
  <2>2. CASE tasks # <<>> /\ tasks1 = Tail(tasks)
    BY <1>1, <2>2, TailOf
  <2> QED
    BY <2>1, <2>2
<1>4. Len(todo) \in Nat /\ Len(tasks) \in Nat /\ DOMAIN todo = 1..Len(todo)
      /\ DOMAIN todo1 = 1..Len(todo1)
  BY <1>1, <1>2
<1>5. /\ \A k \in 1..Len(todo1) : k + d \in 1..Len(todo)
      /\ \A k \in 1..Len(tasks1) : k + e \in 1..Len(tasks)
  BY <1>2, <1>3, <1>4
<1>6. /\ \A j, k \in 1..Len(todo) : todo[j] = todo[k] => j = k
      /\ \A j, k \in 1..Len(tasks) : tasks[j].feed = tasks[k].feed => j = k
      /\ \A j \in 1..Len(tasks), k \in 1..Len(todo) : tasks[j].feed # todo[k]
  BY <1>4 DEF RoundOnce, IsInjective
<1> HIDE DEF todo, tasks, todo1, tasks1
<1>7. \A j, k \in 1..Len(todo1) : todo1[j] = todo1[k] => j = k
  <2> SUFFICES ASSUME NEW j \in 1..Len(todo1), NEW k \in 1..Len(todo1), todo1[j] = todo1[k]
               PROVE  j = k
    OBVIOUS
  <2>1. j + d = k + d
    BY <1>2, <1>5, <1>6
  <2> QED
    BY <2>1, <1>2, <1>4
<1>8. \A j, k \in 1..Len(tasks1) : tasks1[j].feed = tasks1[k].feed => j = k
  <2> SUFFICES ASSUME NEW j \in 1..Len(tasks1), NEW k \in 1..Len(tasks1),
                      tasks1[j].feed = tasks1[k].feed
               PROVE  j = k
    OBVIOUS
  <2>1. j + e = k + e
    BY <1>3, <1>5, <1>6
  <2> QED
    BY <2>1, <1>3, <1>4
<1>9. \A j \in 1..Len(tasks1), k \in 1..Len(todo1) : tasks1[j].feed # todo1[k]
  BY <1>2, <1>3, <1>5, <1>6
<1>10. \A f : (\E k \in 1..Len(tasks1) : tasks1[k].feed = f) =>
                 \E k \in 1..Len(tasks) : tasks[k].feed = f
  BY <1>3, <1>5
<1> QED
  BY <1>4, <1>7, <1>8, <1>9, <1>10
     DEF RoundOnce, IsInjective, InRound, todo, tasks, todo1, tasks1

(* Steps that neither empty a feed without a task nor tag one              *)
LEMMA UntaggedKept ==
    ASSUME Untagged, \A f : InRound(f)' => InRound(f),
           \A f \in removed' : f \in removed \/ InRound(f),
           attempted' = attempted, \A f \in Feed : TI_files_info'[f].tag = TI_files_info[f].tag
    PROVE  Untagged'
BY DEF Untagged

(* Choosing what is downloaded                                             *)
LEMMA CheckingRetries ==
    ASSUME FeedsInv, RetryInv, NotDownloaded \/ UpToDate \/ Downloaded
    PROVE  RetryInv'
<1> DEFINE f == Head(updater.todo)
           todo == updater.todo
           tasks == updater.tasks
<1>1. updater.at = "check" /\ todo # <<>> /\ removed' = removed
  BY DEF NotDownloaded, UpToDate, Downloaded, CheckNext, historyVars
<1>2. todo \in Seq(Feed) /\ tasks \in Seq(Tasks) /\ updater \in Rounds
      /\ DOMAIN TI_files_info = Source /\ DOMAIN attempted = Feed
  BY DEF FeedsInv, FeedsTyped, Rounds
<1>3. f \in Feed /\ f \in Source /\ f = todo[1]
  BY <1>1, <1>2, FeedSources
<1>4. Checked.at = "check" /\ Checked.todo = Tail(todo) /\ Checked.tasks = tasks
      /\ Checked \in Rounds
  <2>1. Tail(todo) \in Seq(Feed)
    BY <1>1, <1>2
  <2> QED
    BY <1>1, <1>2, <2>1 DEF Checked, Rounds
<1>5. CASE NotDownloaded \/ UpToDate
  <2>1. updater' = Checked /\ attempted' = attempted
    BY <1>5 DEF NotDownloaded, UpToDate, historyVars
  <2>2. \A g \in Feed : TI_files_info'[g].tag = TI_files_info[g].tag
    <3>1. \/ TI_files_info' = TI_files_info
          \/ TI_files_info' = [TI_files_info EXCEPT ![f] = [tag |-> @.tag, time |-> day]]
      BY <1>5 DEF NotDownloaded, UpToDate, cacheDb
    <3> QED
      BY <3>1, <1>2, <1>3, FeedSources
  <2>3. RoundOnce' /\ \A g : InRound(g)' => InRound(g)
    BY <1>1, <1>4, <2>1, RoundShortens DEF FeedsInv, RetryInv
  <2>4. Untagged'
    BY <1>1, <2>1, <2>2, <2>3, UntaggedKept DEF RetryInv
  <2>5. InfoLoaded'
    BY <1>4, <2>1 DEF InfoLoaded
  <2> QED
    BY <2>3, <2>4, <2>5 DEF RetryInv
<1>6. CASE Downloaded
  <2>1. PICK v \in Versions[f] :
           /\ TI_files_info[f].tag # v.tag
           /\ updater' = [Checked EXCEPT !.tasks =
                             Append(@, [feed |-> f, lines |-> v.lines])]
           /\ attempted' = [attempted EXCEPT ![f] = v.tag]
    BY <1>6 DEF Downloaded
  <2>2. TI_files_info' = TI_files_info
    BY <1>6 DEF Downloaded, cacheDb
  <2> DEFINE task == [feed |-> f, lines |-> v.lines]
             tasks1 == Append(tasks, task)
  <2>3. updater'.at = "check" /\ updater'.todo = Tail(todo) /\ updater'.tasks = tasks1
    BY <1>4, <2>1 DEF Rounds
  <2>4. /\ Len(tasks) \in Nat /\ Len(tasks1) = Len(tasks) + 1 /\ tasks1[Len(tasks) + 1] = task
        /\ \A k \in 1..Len(tasks) : tasks1[k] = tasks[k]
    BY <1>2
  <2>5. /\ Len(todo) \in Nat /\ Len(Tail(todo)) = Len(todo) - 1
        /\ \A k \in 1..Len(Tail(todo)) : Tail(todo)[k] = todo[k + 1]
        /\ DOMAIN todo = 1..Len(todo) /\ DOMAIN Tail(todo) = 1..Len(Tail(todo))
    BY <1>1, <1>2, TailOf
  <2>6. /\ \A j, k \in 1..Len(todo) : todo[j] = todo[k] => j = k
        /\ \A j, k \in 1..Len(tasks) : tasks[j].feed = tasks[k].feed => j = k
        /\ \A j \in 1..Len(tasks), k \in 1..Len(todo) : tasks[j].feed # todo[k]
    BY <2>5 DEF RetryInv, RoundOnce, IsInjective
  <2>7. task.feed = f /\ 1 \in 1..Len(todo)
    BY <1>1, <1>2, <2>5
  <2> HIDE DEF todo, tasks, tasks1, task, f
  <2>8. \A k \in 1..Len(Tail(todo)) : k + 1 \in 1..Len(todo) /\ k + 1 # 1
    BY <2>5
  <2>9. \A j, k \in 1..Len(Tail(todo)) : Tail(todo)[j] = Tail(todo)[k] => j = k
    <3> SUFFICES ASSUME NEW j \in 1..Len(Tail(todo)), NEW k \in 1..Len(Tail(todo)),
                        Tail(todo)[j] = Tail(todo)[k]
                 PROVE  j = k
      OBVIOUS
    <3>1. j + 1 = k + 1
      BY <2>5, <2>6, <2>8
    <3> QED
      BY <3>1, <2>5
  <2>10. \A j \in 1..Len(tasks1) : \/ j \in 1..Len(tasks) /\ tasks1[j] = tasks[j]
                                   \/ j = Len(tasks) + 1 /\ tasks1[j].feed = f
    BY <2>4, <2>7
  <2>11. \A j, k \in 1..Len(tasks1) : tasks1[j].feed = tasks1[k].feed => j = k
    BY <1>3, <2>6, <2>7, <2>10
  <2>12. \A j \in 1..Len(tasks1), k \in 1..Len(Tail(todo)) : tasks1[j].feed # Tail(todo)[k]
    <3> SUFFICES ASSUME NEW j \in 1..Len(tasks1), NEW k \in 1..Len(Tail(todo))
                 PROVE  tasks1[j].feed # Tail(todo)[k]
      OBVIOUS
    <3>1. Tail(todo)[k] = todo[k + 1] /\ todo[k + 1] # f
      BY <1>3, <2>5, <2>6, <2>7, <2>8
    <3> QED
      BY <3>1, <2>6, <2>8, <2>10
  <2>13. RoundOnce'
    BY <2>3, <2>5, <2>9, <2>11, <2>12 DEF RoundOnce, IsInjective
  <2>14. \A g : InRound(g)' => g = f \/ InRound(g)
    BY <2>3, <2>10 DEF InRound, tasks
  <2>15. Untagged'
    <3> SUFFICES ASSUME NEW g \in Feed, g \in removed' \/ InRound(g)'
                 PROVE  TI_files_info'[g].tag # attempted'[g]
      BY DEF Untagged
    <3>1. CASE g = f
      BY <1>2, <1>3, <2>1, <2>2, <3>1 DEF f
    <3>2. CASE g # f
      <4>1. attempted'[g] = attempted[g]
        BY <1>2, <2>1, <3>2 DEF f
      <4> QED
        BY <1>1, <2>2, <2>14, <3>2, <4>1 DEF RetryInv, Untagged
    <3> QED
      BY <3>1, <3>2
  <2> QED
    BY <2>3, <2>13, <2>15 DEF RetryInv, InfoLoaded
<1> QED
  BY <1>5, <1>6

(* The tasks                                                               *)
LEMMA TasksRetry ==
    ASSUME FeedsInv, RetryInv,
           update_riskiq_feed \/ ReadOldData \/ DeleteOldData \/ LoadFeed \/ set_TI_file_info
    PROVE  RetryInv'
<1>1. updater \in Rounds
  BY DEF FeedsInv, FeedsTyped
<1>2. updater = [at |-> updater.at, todo |-> updater.todo, tasks |-> updater.tasks,
                 old |-> updater.old]
  BY <1>1 DEF Rounds
<1>3. /\ updater'.todo = updater.todo
      /\ \/ updater'.tasks = updater.tasks
         \/ updater.tasks # <<>> /\ updater'.tasks = Tail(updater.tasks)
  BY <1>2 DEF update_riskiq_feed, ReadOldData, DeleteOldData, LoadFeed, set_TI_file_info,
     NextTask, AfterFailure, FeedsInv, FeedsTyped
<1>4. RoundOnce' /\ \A f : InRound(f)' => InRound(f)
  BY <1>3, RoundShortens DEF FeedsInv, RetryInv
<1>5. update_riskiq_feed \/ updater.tasks # <<>>
  BY DEF ReadOldData, DeleteOldData, LoadFeed, set_TI_file_info, FeedsInv, FeedsTyped
<1>6. updater.tasks # <<>> => /\ Task = updater.tasks[1] /\ 1 \in 1..Len(updater.tasks)
                              /\ Len(updater.tasks) \in Nat /\ Task.feed \in Feed
  BY <1>1, TaskTyped DEF Rounds, Task, FeedsInv
<1>7. CASE ~set_TI_file_info
  <2>1. TI_files_info' = TI_files_info /\ attempted' = attempted
    BY <1>7 DEF update_riskiq_feed, ReadOldData, DeleteOldData, LoadFeed, cacheDb, historyVars
  <2>2. \A f \in removed' : f \in removed \/ InRound(f)
    BY <1>5, <1>6, <1>7 DEF update_riskiq_feed, ReadOldData, DeleteOldData, LoadFeed,
       historyVars, InRound
  <2>3. Untagged'
    BY <1>4, <2>1, <2>2, UntaggedKept DEF RetryInv
  <2>4. InfoLoaded'
    <3>1. ASSUME updater'.at = "info"
          PROVE  LoadFeed /\ Parses(Task.feed, Task.lines)
      BY <1>2, <1>7, <3>1 DEF update_riskiq_feed, ReadOldData, DeleteOldData, LoadFeed,
         NextTask, AfterFailure
    <3>2. ASSUME LoadFeed, Parses(Task.feed, Task.lines)
          PROVE  Task' = Task /\ Task.feed \notin removed'
      BY <1>2, <3>2 DEF LoadFeed, Task
    <3> QED
      BY <3>1, <3>2 DEF InfoLoaded
  <2> QED
    BY <1>4, <2>3, <2>4 DEF RetryInv
<1>8. CASE set_TI_file_info
  <2>1. /\ updater.at = "info" /\ updater' = NextTask /\ UNCHANGED <<removed, attempted>>
        /\ TI_files_info' = [TI_files_info EXCEPT ![Task.feed] = [tag |-> new_e_tag, time |-> day]]
    BY <1>8 DEF set_TI_file_info, historyVars
  <2>2. updater.tasks # <<>> /\ Task.feed \notin removed /\ Task.feed \in Feed
    BY <1>6, <2>1 DEF FeedsInv, FeedsTyped, RetryInv, InfoLoaded
  <2>3. updater'.at = "task" /\ updater'.tasks = Tail(updater.tasks)
    BY <1>2, <2>1 DEF NextTask
  <2>0. PICK f \in Feed : f = Task.feed
    BY <2>2
  <2>4. ~InRound(f)'
    <3> SUFFICES ASSUME NEW k \in 1..Len(Tail(updater.tasks)),
                        Tail(updater.tasks)[k].feed = f
                 PROVE  FALSE
      BY <2>3 DEF InRound
    <3>0. updater.tasks \in Seq(Tasks)
      BY <1>1 DEF Rounds
    <3>1. /\ Tail(updater.tasks)[k] = updater.tasks[k + 1]
          /\ Len(Tail(updater.tasks)) = Len(updater.tasks) - 1
      BY <2>2, <3>0, TailOf
    <3>2. k + 1 \in 1..Len(updater.tasks) /\ k + 1 # 1
      BY <1>6, <2>2, <3>1
    <3> QED
      BY <1>6, <2>0, <2>2, <3>1, <3>2 DEF RetryInv, RoundOnce
  <2>5. Untagged'
    <3> SUFFICES ASSUME NEW g \in Feed, g \in removed' \/ InRound(g)'
                 PROVE  TI_files_info'[g].tag # attempted'[g]
      BY DEF Untagged
    <3>1. g # f
      BY <2>0, <2>1, <2>2, <2>4
    <3>2. TI_files_info'[g] = TI_files_info[g]
      BY <2>0, <2>1, <3>1, FeedSources DEF FeedsInv, FeedsTyped
    <3> QED
      BY <1>4, <2>1, <3>2 DEF RetryInv, Untagged
  <2> QED
    BY <1>4, <2>3, <2>5 DEF RetryInv, InfoLoaded
<1> QED
  BY <1>7, <1>8

LEMMA RetryInvStep == FeedsInv /\ RetryInv /\ [FeedsNext]_feedVars => RetryInv'
<1> SUFFICES ASSUME FeedsInv, RetryInv, [FeedsNext]_feedVars
             PROVE  RetryInv'
  OBVIOUS
<1>1. CASE Update
  BY <1>1, CheckingRetries, TasksRetry DEF Update
<1>2. CASE Restart
  <2>1. updater' = Started /\ UNCHANGED <<TI_files_info, removed, attempted>>
    BY <1>2 DEF Restart, cacheDb, historyVars
  <2>2. /\ Started.at = "check" /\ Started.todo = Feeds /\ Started.tasks = <<>>
        /\ Len(Started.tasks) = 0 /\ IsInjective(Feeds)
    BY FeedsAssumption DEF Started
  <2>3. \A k : k \notin 1..0
    OBVIOUS
  <2>4. RoundOnce' /\ \A f : ~InRound(f)'
    BY <2>1, <2>2, <2>3 DEF RoundOnce, InRound
  <2>5. Untagged'
    BY <2>1, <2>4 DEF RetryInv, Untagged
  <2> QED
    BY <2>1, <2>2, <2>4, <2>5 DEF RetryInv, InfoLoaded
<1>3. CASE Intelligence \/ update_TI_files \/ NextDay \/ AskForFlow \/ AskForName
           \/ UNCHANGED feedVars
  <2>1. UNCHANGED <<updater, removed, attempted>>
    BY <1>3 DEF Intelligence, update_TI_files, NextDay, AskForFlow, AskForName, Ask, feedVars,
       historyVars
  <2>2. \/ TI_files_info' = TI_files_info
        \/ \E x : TI_files_info' = [TI_files_info EXCEPT ![LocalFile] = x]
    BY <1>3 DEF Intelligence, check_local_ti_files, StoreLocalHash, LookUp, update_TI_files,
       NextDay, AskForFlow, AskForName, Ask, feedVars, cacheDb
  <2>3. \A f \in Feed : TI_files_info'[f] = TI_files_info[f]
    BY <2>2, FeedSources DEF FeedsInv, FeedsTyped
  <2>4. RoundOnce' /\ InfoLoaded' /\ \A f : InRound(f)' <=> InRound(f)
    BY <2>1 DEF RetryInv, RoundOnce, InfoLoaded, InRound, Task
  <2>5. Untagged'
    BY <2>1, <2>3, <2>4 DEF RetryInv, Untagged
  <2> QED
    BY <2>4, <2>5 DEF RetryInv
<1> QED
  BY <1>1, <1>2, <1>3 DEF FeedsNext, FeedStep, LookupStep

LEMMA RetryInvInit == FeedsInit => RetryInv
<1> SUFFICES ASSUME FeedsInit
             PROVE  RetryInv
  OBVIOUS
<1>1. /\ updater.at = "check" /\ updater.todo = Feeds /\ updater.tasks = <<>>
      /\ Len(updater.tasks) = 0 /\ IsInjective(Feeds) /\ removed = {}
  BY FeedsAssumption DEF FeedsInit, Started
<1>2. \A k : k \notin 1..0
  OBVIOUS
<1>3. RoundOnce /\ \A f : ~InRound(f)
  BY <1>1, <1>2 DEF RoundOnce, InRound
<1> QED
  BY <1>1, <1>3 DEF RetryInv, Untagged, InfoLoaded

(* The database mirrors each feed (see FeedsMirrored), for any feeds,      *)
(* versions and files, and although Slips may be killed between any two    *)
(* steps of update_TI_file and threat_intelligence stores its own file at  *)
(* the same time: the addresses and names that are stored of a feed are    *)
(* those of its last version but for what another source took over, or     *)
(* there are none and its tag is not that of the version that was tried.   *)
THEOREM DatabaseMirrorsFeeds == FeedsSpec => []FeedsMirrored
<1>1. FeedsInv /\ RetryInv => FeedsMirrored
  BY DEF FeedsInv, Mirrored, RetryInv, Untagged, FeedsMirrored, RetriedIfEmptied
<1> QED
  BY <1>1, FeedsInvInit, FeedsInvStep, RetryInvInit, RetryInvStep, PTL DEF FeedsSpec

LEMMA StartsCounted == starts \in Nat /\ [FeedsNext]_feedVars => (starts \in Nat)'
<1> SUFFICES ASSUME starts \in Nat, [FeedsNext]_feedVars
             PROVE  starts' \in Nat
  OBVIOUS
<1>1. starts' = starts \/ starts' = starts + 1
  BY DEF FeedsNext, FeedStep, LookupStep, Update, Intelligence, update_TI_files, NextDay,
     AskForFlow, AskForName, Ask, Restart, feedVars
<1> QED
  BY <1>1

(* A range that a feed listed stays.                                       *)
RangesStay == \A f \in Feed : \A r \in parsed[f] \cap IocRange : ioc[r] # Nobody

LEMMA RangesStayStep == FeedsInv /\ RangesStay /\ [FeedsNext]_feedVars => RangesStay'
<1> SUFFICES ASSUME FeedsInv, RangesStay, [FeedsNext]_feedVars
             PROVE  RangesStay'
  OBVIOUS
<1>1. /\ ioc \in [Indicator -> Source] /\ parsed \in [Source -> SUBSET Indicator]
      /\ updater \in Rounds
  BY DEF FeedsInv, FeedsTyped
<1>2. IocRange \subseteq Indicator /\ IocRange \cap Hashed = {}
      /\ \A f \in Feed : f \in Source /\ f # Nobody
  BY FeedsAssumption, FeedSources DEF Indicator
<1>3. ASSUME \A r \in IocRange : ioc'[r] = ioc[r], \A f \in Feed : parsed'[f] = parsed[f]
      PROVE  RangesStay'
  BY <1>3 DEF RangesStay
<1>4. CASE LoadFeed
  <2> DEFINE f == Task.feed
             iocs == Iocs(f, Task.lines)
  <2>1. \/ UNCHANGED <<ioc, parsed>>
        \/ ioc' = StoredFrom(f, iocs) /\ parsed' = [parsed EXCEPT ![f] = iocs]
    BY <1>4 DEF LoadFeed
  <2>2. f \in Feed
    BY <1>4, TaskTyped DEF LoadFeed, FeedsInv, FeedsTyped
  <2> HIDE DEF f, iocs
  <2>3. CASE UNCHANGED <<ioc, parsed>>
    BY <1>3, <2>3
  <2>4. CASE ioc' = StoredFrom(f, iocs) /\ parsed' = [parsed EXCEPT ![f] = iocs]
    <3>1. \A r \in IocRange : ioc'[r] = IF r \in iocs THEN f ELSE ioc[r]
      BY <1>2, <2>4 DEF StoredFrom
    <3>2. \A g \in Feed : parsed'[g] = IF g = f THEN iocs ELSE parsed[g]
      BY <1>1, <1>2, <2>4
    <3> QED
      BY <1>2, <2>2, <3>1, <3>2 DEF RangesStay
  <2> QED
    BY <2>1, <2>3, <2>4
<1>5. CASE DeleteOldData
  <2>1. updater.old \subseteq Hashed /\ ioc' = Undone(updater.old) /\ parsed' = parsed
    BY <1>1, <1>5 DEF DeleteOldData, Rounds
  <2> QED
    BY <1>2, <1>3, <2>1 DEF Undone
<1>6. CASE check_local_ti_files
  <2>1. OldData(LocalFile) \subseteq Hashed /\ LocalIocs \subseteq Hashed
    BY DEF OldData, LocalIocs
  <2>2. \A r \in IocRange : Undone(OldData(LocalFile))[r] = ioc[r]
    BY <1>2, <2>1 DEF Undone
  <2>3. \A r \in IocRange : ioc'[r] = ioc[r]
    BY <1>2, <1>6, <2>1, <2>2 DEF check_local_ti_files
  <2>4. \A g \in Feed : parsed'[g] = parsed[g]
    BY <1>1, <1>6, FeedSources DEF check_local_ti_files
  <2> QED
    BY <1>3, <2>3, <2>4
<1>7. CASE \/ NotDownloaded \/ UpToDate \/ Downloaded \/ update_riskiq_feed \/ ReadOldData
           \/ set_TI_file_info \/ StoreLocalHash \/ LookUp \/ update_TI_files \/ NextDay
           \/ AskForFlow \/ AskForName \/ Restart \/ UNCHANGED feedVars
  <2>1. UNCHANGED <<ioc, parsed>>
    BY <1>7 DEF NotDownloaded, UpToDate, Downloaded, update_riskiq_feed, ReadOldData,
       set_TI_file_info, StoreLocalHash, LookUp, update_TI_files, NextDay, AskForFlow,
       AskForName, Ask, Restart, feedVars, cacheDb, historyVars
  <2> QED
    BY <1>3, <2>1
<1> QED
  BY <1>4, <1>5, <1>6, <1>7 DEF FeedsNext, FeedStep, LookupStep, Update, Intelligence

(* What is looked up is the head of the channel, and nothing else finds    *)
(* anything.                                                               *)
LEMMA LookedUpFinds ==
    ASSUME FeedsInv, LookUp
    PROVE  LET m == Head(give_threat_intelligence)
           IN  /\ m \in Messages
               /\ threats' \subseteq
                     threats \cup (IF m.kind = "name" THEN {Threat(m, m.name)}
                                   ELSE IF FoundIp(m) THEN {Threat(m, m.ip)} ELSE {})
               /\ m.kind = "ip" /\ ~is_outgoing_icmp_packet(m) /\ FoundIp(m) =>
                     Threat(m, m.ip) \in threats'
<1> DEFINE m == Head(give_threat_intelligence)
<1>1. m \in Messages
  BY DEF FeedsInv, FeedsTyped, LookUp
<1>2. m.kind \in {"ip", "name"}
  BY <1>1 DEF Messages, AskIp
<1>3. threats' = IF m.kind = "name" /\ FoundDomain(m)
                 THEN threats \cup {Threat(m, m.name)}
                 ELSE IF m.kind = "ip" /\ ~is_outgoing_icmp_packet(m) /\ FoundIp(m)
                 THEN threats \cup {Threat(m, m.ip)}
                 ELSE threats
  BY DEF LookUp
<1> HIDE DEF m
<1>4. CASE m.kind = "name"
  BY <1>1, <1>3, <1>4 DEF m
<1>5. CASE m.kind = "ip"
  BY <1>1, <1>3, <1>5 DEF m
<1> QED
  BY <1>2, <1>4, <1>5

(* An address that a loaded feed lists, or that is in a range, is reported *)
(* when it is looked up, and no address is reported that no feed lists     *)
(* (see ReportedWhileListed), whichever other feed is being deleted or     *)
(* loaded just then.                                                       *)
THEOREM ListedIsReported == FeedsSpec => ReportedWhileListed
<1>1. FeedsInv /\ RangesStay /\ starts \in Nat /\ [FeedsNext]_feedVars =>
         [ListedAreReported /\ ReportedAreListed]_feedVars
  <2> SUFFICES ASSUME FeedsInv, RangesStay, starts \in Nat, [FeedsNext]_feedVars
               PROVE  ListedAreReported /\ ReportedAreListed
    OBVIOUS
  <2> DEFINE gti == give_threat_intelligence
  <2>1. gti \in Seq(Messages)
    BY DEF FeedsInv, FeedsTyped
  <2>2. ListedAreReported
    <3> SUFFICES ASSUME NEW m \in Range(gti), LooksUp(m), m.kind = "ip", Listed(m.ip),
                        ~(m.proto = "icmp" /\ m.state = "dstip")
                 PROVE  Threat(m, m.ip) \in threats'
      BY DEF ListedAreReported
    <3>1. gti # <<>> /\ m = Head(gti) /\ gti' = Tail(gti) /\ starts' = starts
      BY DEF LooksUp
    <3>2. LookUp
      <4>1. Len(gti') = Len(gti) - 1 /\ Len(gti) \in Nat
        BY <2>1, <3>1
      <4>2. gti' # gti
        BY <4>1
      <4>3. ASSUME NEW ms \in Seq(Messages)
            PROVE  ~Ask(ms)
        <5>1. Len(gti \o ms) = Len(gti) + Len(ms) /\ Len(ms) \in Nat
          BY <2>1
        <5> QED
          BY <4>1, <5>1 DEF Ask
      <4>4. ~AskForFlow /\ ~AskForName
        BY <4>3, AskedInMessages DEF AskForFlow, AskForName
      <4>5. ~Restart
        BY <3>1 DEF Restart
      <4> QED
        BY <4>2, <4>4, <4>5 DEF FeedsNext, FeedStep, LookupStep, Update, Intelligence,
           update_TI_files, check_local_ti_files, StoreLocalHash, NextDay, feedVars
    <3>3. FoundIp(m)
      <4>1. ASSUME NEW f \in Feed \ removed, m.ip \in parsed[f], <<f, m.ip>> \notin shadowed
            PROVE  ioc[m.ip] # Nobody
        BY <4>1, FeedSources DEF FeedsInv, Mirrored, FeedKept
      <4>2. ASSUME NEW f \in Feed, NEW r \in parsed[f] \cap IocRange, m.ip \in InRange[r]
            PROVE  r \in RangesOf(m.ip)
        BY <4>2 DEF RangesStay, RangesOf
      <4> QED
        BY <4>1, <4>2 DEF Listed, FoundIp
    <3> QED
      BY <3>1, <3>2, <3>3, LookedUpFinds DEF is_outgoing_icmp_packet
  <2>3. ReportedAreListed
    <3> SUFFICES ASSUME NEW t \in threats' \ threats, t.ioc \in IocIp
                 PROVE  \/ \E f \in Feed \ removed : t.ioc \in parsed[f]
                        \/ ioc[t.ioc] = LocalFile
                        \/ RangesOf(t.ioc) # {}
      BY DEF ReportedAreListed
    <3>1. LookUp
      BY DEF FeedsNext, FeedStep, LookupStep, Update, Intelligence, update_TI_files,
         check_local_ti_files, StoreLocalHash, NextDay, AskForFlow, AskForName, Ask, Restart,
         feedVars
    <3> DEFINE m == Head(gti)
    <3>2. m \in Messages /\ t \in IF m.kind = "name" THEN {Threat(m, m.name)}
                                  ELSE IF FoundIp(m) THEN {Threat(m, m.ip)} ELSE {}
      BY <3>1, LookedUpFinds
    <3> HIDE DEF m
    <3>3. m.kind # "name"
      <4> SUFFICES ASSUME m.kind = "name" PROVE FALSE
        OBVIOUS
      <4>1. t.ioc = m.name /\ m.name \in LookedUp
        BY <3>2 DEF Threat, Messages, AskIp
      <4> QED
        BY <4>1, FeedsAssumption
    <3>4. FoundIp(m) /\ t.ioc = m.ip
      BY <3>2, <3>3 DEF Threat
    <3>5. CASE RangesOf(m.ip) # {}
      BY <3>4, <3>5
    <3>6. CASE ioc[m.ip] # Nobody
      <4>1. m.ip \in Hashed /\ m.ip \in Indicator
        BY <3>4 DEF Hashed, Indicator
      <4>2. ioc[m.ip] \in Feed \cup {LocalFile}
        BY <3>6, <4>1 DEF FeedsInv, FeedsTyped, Source
      <4> QED
        BY <3>4, <4>1, <4>2 DEF FeedsInv, Mirrored, NothingStale
    <3> QED
      BY <3>4, <3>5, <3>6 DEF FoundIp
  <2> QED
    BY <2>2, <2>3
<1>2. FeedsInit => starts \in Nat /\ RangesStay
  BY FeedSources DEF FeedsInit, RangesStay
<1> QED
  BY <1>1, <1>2, StartsCounted, RangesStayStep, FeedsInvInit, FeedsInvStep, PTL
     DEF FeedsSpec, ReportedWhileListed

-----------------------------------------------------------------------------
(* FlowAlerts: types *)

(* What a check is about, and a thread that is about it                    *)
Subject(k) == IF k = "dns" THEN Query ELSE Conn

AtWork(j, pcs) == \E k \in Checks : \E i \in Subject(k), pc \in pcs : j = Job(k, i, pc)

Busy == {"look", "missing", "found"}
Waiting == {"wait", "missing", "found"}

KnownTyped ==
    /\ interface \in BOOLEAN /\ internal \in Nat /\ young \in BOOLEAN
    /\ flows \subseteq Conn /\ asked \subseteq Query \cup Login
    /\ DNSresolution \in [Ip -> SUBSET Host]
    /\ DomainsInfo \in [Domain -> SUBSET Ip]
    /\ paired \in BOOLEAN /\ identified \subseteq WellKnown

ChannelTyped ==
    /\ DOMAIN channel = {"new_flow", "new_dns_flow", "new_ssh"}
    /\ \A k \in Checks : channel[ChannelOf[k]] \in
            Seq(CASE k = "conn" -> Conn [] k = "dns" -> Query [] OTHER -> Login)

MainTyped == AtWork(main, Busy) \/ main = Idle \/ main = [Idle EXCEPT !.pc = "ended"]

CachesTyped ==
    /\ \A t \in timers : AtWork(t, Waiting)
    /\ cache \in [Checks -> SUBSET Uids]
    /\ alerts \subseteq Checks \X Ids

(* A job is of a check, and its id of what that check is about: with the   *)
(* type alone a DNS check could be about a connection, which has no answer.*)
AlertsTyped == KnownTyped /\ ChannelTyped /\ MainTyped /\ CachesTyped

LEMMA ChannelsAre ==
    /\ ChannelOf["conn"] = "new_flow" /\ ChannelOf["dns"] = "new_dns_flow"
    /\ ChannelOf["ssh"] = "new_ssh"
    /\ Checks = {"conn", "dns", "ssh"}
BY DEF ChannelOf, Checks

LEMMA AtWorkFields ==
    ASSUME NEW pcs, NEW j, AtWork(j, pcs)
    PROVE  /\ j.check \in Checks /\ j.id \in Subject(j.check) /\ j.id \in Ids /\ j.pc \in pcs
           /\ j = Job(j.check, j.id, j.pc) /\ Key(j) \in Uids
           /\ \A pc : [j EXCEPT !.pc = pc] = Job(j.check, j.id, pc)
<1>1. PICK k \in Checks : \E i \in Subject(k), pc \in pcs : j = Job(k, i, pc)
  BY DEF AtWork
<1>2. PICK i \in Subject(k), pc \in pcs : j = Job(k, i, pc)
  BY <1>1
<1>3. j.check = k /\ j.id = i /\ j.pc = pc
  BY <1>2 DEF Job
<1>4. i \in Ids
  BY DEF Subject, Ids
<1>5. (IF k = "dns" THEN UidOf[i] ELSE i) \in Uids
  BY DEF Subject, Uids
<1>6. Key(j) \in Uids
  BY <1>3, <1>5 DEF Key
<1>7. \A q : [j EXCEPT !.pc = q] = Job(k, i, q)
  BY <1>2 DEF Job
<1> QED
  BY <1>2, <1>3, <1>4, <1>6, <1>7

LEMMA JobAtWork ==
    ASSUME NEW k \in Checks, NEW i \in Subject(k), NEW pcs, NEW pc \in pcs
    PROVE  AtWork(Job(k, i, pc), pcs)
BY DEF AtWork

LEMMA AlertsTypedRight == AlertsTyped => FlowAlertsTypeOK
<1> SUFFICES ASSUME AlertsTyped PROVE FlowAlertsTypeOK
  OBVIOUS
<1>1. /\ channel["new_flow"] \in Seq(Conn) /\ channel["new_dns_flow"] \in Seq(Query)
      /\ channel["new_ssh"] \in Seq(Login)
  <2>1. \A k \in {"conn", "dns", "ssh"} : channel[ChannelOf[k]] \in
            Seq(CASE k = "conn" -> Conn [] k = "dns" -> Query [] OTHER -> Login)
    BY ChannelsAre DEF AlertsTyped, ChannelTyped
  <2> QED
    BY <2>1, ChannelsAre
<1>2. /\ main.check \in Checks \cup {"none"}
      /\ main.pc \in {"idle", "look", "missing", "found", "ended"}
  <2>1. CASE AtWork(main, Busy)
    BY <2>1, AtWorkFields DEF Busy
  <2>2. CASE main = Idle \/ main = [Idle EXCEPT !.pc = "ended"]
    BY <2>2 DEF Idle
  <2> QED
    BY <2>1, <2>2 DEF AlertsTyped, MainTyped
<1>3. timers \subseteq Jobs
  <2> SUFFICES ASSUME NEW t \in timers PROVE t \in Jobs
    OBVIOUS
  <2>1. AtWork(t, Waiting)
    BY DEF AlertsTyped, CachesTyped
  <2>2. t.check \in Checks /\ t.id \in Ids /\ t.pc \in Waiting /\ t = Job(t.check, t.id, t.pc)
    BY <2>1, AtWorkFields
  <2> QED
    BY <2>2 DEF Jobs, Job, Waiting
<1> QED
  BY <1>1, <1>2, <1>3 DEF AlertsTyped, KnownTyped, CachesTyped, FlowAlertsTypeOK

(* The other processes store and publish.                                  *)
LEMMA PublishedTyped ==
    ASSUME ChannelTyped, NEW k \in Checks,
           NEW m \in (CASE k = "conn" -> Conn [] k = "dns" -> Query [] OTHER -> Login),
           Publish(ChannelOf[k], m)
    PROVE  ChannelTyped'
<1>1. channel' = [channel EXCEPT ![ChannelOf[k]] = Append(@, m)]
  BY DEF Publish
<1> DEFINE S(l) == CASE l = "conn" -> Conn [] l = "dns" -> Query [] OTHER -> Login
<1>2. DOMAIN channel' = DOMAIN channel
  BY <1>1
<1>3. \A l \in Checks : ChannelOf[l] \in DOMAIN channel /\ channel[ChannelOf[l]] \in Seq(S(l))
  BY ChannelsAre DEF ChannelTyped
<1>4. m \in S(k)
  OBVIOUS
<1>5. \A l \in Checks : l # k => ChannelOf[l] # ChannelOf[k]
  BY ChannelsAre
<1> HIDE DEF S
<1>6. ASSUME NEW l \in Checks
      PROVE  channel'[ChannelOf[l]] \in Seq(S(l))
  <2>1. CASE l = k
    BY <1>1, <1>3, <1>4, <2>1
  <2>2. CASE l # k
    BY <1>1, <1>3, <1>5, <2>2
  <2> QED
    BY <2>1, <2>2
<1> QED
  BY <1>2, <1>6 DEF ChannelTyped, S

LEMMA StoringTyped ==
    ASSUME AlertsTyped,
           \/ \E c \in Conn : add_flow(c)
           \/ \E q \in Query : add_out_dns(q)
           \/ \E c \in Login : add_out_ssh(c)
           \/ Learn \/ Tick
    PROVE  AlertsTyped'
<1>1. UNCHANGED <<main, timers, cache, alerts>>
  BY DEF add_flow, add_out_dns, add_out_ssh, Learn, Tick
<1>2. MainTyped' /\ CachesTyped'
  BY <1>1 DEF AlertsTyped, MainTyped, CachesTyped
<1>3. KnownTyped
  BY DEF AlertsTyped
<1>4. ASSUME NEW c \in Conn, add_flow(c)
      PROVE  KnownTyped' /\ ChannelTyped'
  <2>1. KnownTyped'
    BY <1>3, <1>4 DEF KnownTyped, add_flow, clock
  <2>2. Publish(ChannelOf["conn"], c)
    BY <1>4, ChannelsAre DEF add_flow
  <2> QED
    BY <2>1, <2>2, PublishedTyped, ChannelsAre DEF AlertsTyped
<1>5. ASSUME NEW q \in Query, add_out_dns(q)
      PROVE  KnownTyped' /\ ChannelTyped'
  <2>1. Asker[q] \in Host /\ DomainOf[q] \in Domain /\ Answers[q] \subseteq Ip
    BY FlowAlertsAssumption
  <2>2. /\ UNCHANGED <<interface, internal, young, flows, paired, identified>>
        /\ asked' = asked \cup {q}
        /\ DNSresolution' = [a \in Ip |->
              DNSresolution[a] \cup IF a \in Answers[q] THEN {Asker[q]} ELSE {}]
        /\ DomainsInfo' = [DomainsInfo EXCEPT ![DomainOf[q]] = @ \cup Answers[q]]
        /\ Publish("new_dns_flow", q)
    BY <1>5 DEF add_out_dns, clock
  <2>3. DNSresolution' \in [Ip -> SUBSET Host]
    BY <1>3, <2>1, <2>2 DEF KnownTyped
  <2>4. DomainsInfo' \in [Domain -> SUBSET Ip]
    BY <1>3, <2>1, <2>2 DEF KnownTyped
  <2>5. KnownTyped'
    BY <1>3, <2>2, <2>3, <2>4 DEF KnownTyped
  <2>6. Publish(ChannelOf["dns"], q)
    BY <2>2, ChannelsAre
  <2> QED
    BY <2>5, <2>6, PublishedTyped, ChannelsAre DEF AlertsTyped
<1>6. ASSUME NEW c \in Login, add_out_ssh(c)
      PROVE  KnownTyped' /\ ChannelTyped'
  <2>1. KnownTyped'
    BY <1>3, <1>6 DEF KnownTyped, add_out_ssh, clock
  <2>2. Publish(ChannelOf["ssh"], c)
    BY <1>6, ChannelsAre DEF add_out_ssh
  <2> QED
    BY <2>1, <2>2, PublishedTyped, ChannelsAre DEF AlertsTyped
<1>7. channel' = channel => ChannelTyped'
  <2> SUFFICES ASSUME channel' = channel PROVE ChannelTyped'
    OBVIOUS
  <2>1. ChannelTyped
    BY DEF AlertsTyped
  <2> QED
    BY <2>1, Zenon DEF ChannelTyped
<1>8. CASE Learn
  <2>1. KnownTyped'
    BY <1>3, <1>8 DEF KnownTyped, Learn, clock
  <2>2. channel' = channel
    BY <1>8 DEF Learn
  <2> QED
    BY <1>2, <1>7, <2>1, <2>2 DEF AlertsTyped
<1>9. CASE Tick
  <2>1. /\ UNCHANGED <<interface, database, channel>>
        /\ internal' = internal \/ internal' = internal + 1
        /\ young' = young \/ young' = ~young
    BY <1>9 DEF Tick
  <2>2. internal' \in Nat
    BY <1>3, <2>1 DEF KnownTyped
  <2>3. young' \in BOOLEAN
    BY <1>3, <2>1, Zenon DEF KnownTyped
  <2>4. KnownTyped'
    BY <1>3, <2>1, <2>2, <2>3 DEF KnownTyped, database
  <2> QED
    BY <1>2, <1>7, <2>1, <2>4 DEF AlertsTyped
<1> QED
  BY <1>2, <1>4, <1>5, <1>6, <1>8, <1>9 DEF AlertsTyped

(* What is decided, by the main loop or by a timer                         *)
LEMMA DecidedTyped ==
    ASSUME AlertsTyped, NEW pcs, NEW j, AtWork(j, pcs), Decided(j)
    PROVE  /\ cache' \in [Checks -> SUBSET Uids] /\ alerts' \subseteq Checks \X Ids
           /\ \A t \in NewTimers(j) : AtWork(t, Waiting)
<1>1. /\ j.check \in Checks /\ j.id \in Subject(j.check) /\ j.id \in Ids /\ Key(j) \in Uids
      /\ [j EXCEPT !.pc = "wait"] = Job(j.check, j.id, "wait")
  BY AtWorkFields
<1>2. cache \in [Checks -> SUBSET Uids] /\ alerts \subseteq Checks \X Ids
  BY DEF AlertsTyped, CachesTyped
<1>3. cache' \in [Checks -> SUBSET Uids]
  BY <1>1, <1>2 DEF Decided
<1>4. alerts' \subseteq Checks \X Ids
  BY <1>1, <1>2 DEF Decided
<1>5. \A t \in NewTimers(j) : AtWork(t, Waiting)
  <2> SUFFICES ASSUME NEW t \in NewTimers(j) PROVE AtWork(t, Waiting)
    OBVIOUS
  <2>1. t = Job(j.check, j.id, "wait")
    BY <1>1 DEF NewTimers
  <2>2. "wait" \in Waiting
    BY DEF Waiting
  <2> QED
    BY <1>1, <2>1, <2>2, JobAtWork
<1> QED
  BY <1>3, <1>4, <1>5

LEMMA SeenIs == \A j : Seen(j) \in {"done", "missing", "found"}
BY DEF Seen

(* The steps of the module leave the database and the clock alone.         *)
LEMMA ModuleTyped ==
    ASSUME AlertsTyped,
           \/ \E k \in Checks : Receive(k)
           \/ Look \/ Decide \/ Stop
           \/ \E t \in timers : TimerLook(t) \/ TimerDecide(t)
    PROVE  AlertsTyped'
<1>1. UNCHANGED <<interface, internal, young>>
      /\ UNCHANGED <<flows, asked, DNSresolution, DomainsInfo, paired, identified>>
  BY DEF Receive, Look, Decide, Stop, TimerLook, TimerDecide, clock, database
<1>2. KnownTyped'
  BY <1>1 DEF AlertsTyped, KnownTyped
<1>3. channel' = channel => ChannelTyped'
  <2> SUFFICES ASSUME channel' = channel PROVE ChannelTyped'
    OBVIOUS
  <2>1. ChannelTyped
    BY DEF AlertsTyped
  <2> QED
    BY <2>1, Zenon DEF ChannelTyped
<1>4. main' = Idle => MainTyped'
  BY DEF MainTyped
<1>5. (timers' = timers /\ cache' = cache /\ alerts' = alerts) => CachesTyped'
  BY DEF AlertsTyped, CachesTyped
<1>6. ASSUME NEW k \in Checks, Receive(k)
      PROVE  AlertsTyped'
  <2> DEFINE c == ChannelOf[k]
             S == CASE k = "conn" -> Conn [] k = "dns" -> Query [] OTHER -> Login
  <2>1. /\ channel[c] # <<>> /\ channel' = [channel EXCEPT ![c] = Tail(@)]
        /\ main' = Idle \/ main' = Job(k, Head(channel[c]), "look")
        /\ timers' = timers /\ cache' = cache /\ alerts' = alerts
    BY <1>6 DEF Receive
  <2>2. channel[c] \in Seq(S)
    BY DEF AlertsTyped, ChannelTyped
  <2>3. S \subseteq Subject(k)
    BY FlowAlertsAssumption DEF Subject
  <2> HIDE DEF S
  <2>4. Head(channel[c]) \in Subject(k) /\ Tail(channel[c]) \in Seq(S)
    <3> HIDE DEF c
    <3> QED
      BY <2>1, <2>2, <2>3
  <2>5. MainTyped'
    <3>1. "look" \in Busy
      BY DEF Busy
    <3> QED
      BY <2>1, <2>4, <3>1, JobAtWork DEF MainTyped
  <2>6. ChannelTyped'
    <3> DEFINE T(l) == CASE l = "conn" -> Conn [] l = "dns" -> Query [] OTHER -> Login
    <3>1. \A l \in Checks : ChannelOf[l] \in DOMAIN channel /\ channel[ChannelOf[l]] \in Seq(T(l))
      BY ChannelsAre DEF AlertsTyped, ChannelTyped
    <3>2. \A l \in Checks : l # k => ChannelOf[l] # c
      BY ChannelsAre
    <3>3. T(k) = S
      BY DEF S
    <3>4. DOMAIN channel' = {"new_flow", "new_dns_flow", "new_ssh"}
      BY <2>1 DEF AlertsTyped, ChannelTyped
    <3> HIDE DEF T
    <3>5. ASSUME NEW l \in Checks
          PROVE  channel'[ChannelOf[l]] \in Seq(T(l))
      <4>1. CASE l = k
        BY <2>1, <2>4, <3>1, <3>3, <4>1
      <4>2. CASE l # k
        BY <2>1, <3>1, <3>2, <4>2
      <4> QED
        BY <4>1, <4>2
    <3> QED
      BY <3>4, <3>5 DEF ChannelTyped, T
  <2> QED
    BY <1>2, <1>5, <2>1, <2>5, <2>6 DEF AlertsTyped
<1>7. CASE Look
  <2>1. /\ main.pc = "look" /\ UNCHANGED <<channel, timers, cache, alerts>>
        /\ main' = Idle \/ (main' = [main EXCEPT !.pc = Seen(main)] /\ Seen(main) # "done")
    BY <1>7 DEF Look
  <2>2. AtWork(main, Busy)
    BY <2>1 DEF AlertsTyped, MainTyped, Idle
  <2>3. Seen(main) # "done" => Seen(main) \in Busy
    BY SeenIs DEF Busy
  <2>4. MainTyped'
    <3>1. CASE main' = Idle
      BY <3>1, <1>4
    <3>2. CASE main' = [main EXCEPT !.pc = Seen(main)] /\ Seen(main) # "done"
      <4>1. /\ main' = Job(main.check, main.id, Seen(main))
            /\ main.check \in Checks /\ main.id \in Subject(main.check)
        BY <2>2, <3>2, AtWorkFields
      <4>2. AtWork(main', Busy)
        BY <2>3, <3>2, <4>1, JobAtWork
      <4> QED
        BY <4>2 DEF MainTyped
    <3> QED
      BY <2>1, <3>1, <3>2
  <2> QED
    BY <1>2, <1>3, <1>5, <2>1, <2>4 DEF AlertsTyped
<1>8. CASE Decide
  <2>1. /\ main.pc \in {"missing", "found"} /\ Decided(main) /\ main' = Idle
        /\ timers' = timers \cup NewTimers(main) /\ channel' = channel
    BY <1>8 DEF Decide
  <2>2. AtWork(main, Busy)
    BY <2>1 DEF AlertsTyped, MainTyped, Idle
  <2>3. CachesTyped'
    BY <2>1, <2>2, DecidedTyped DEF AlertsTyped, CachesTyped
  <2> QED
    BY <1>2, <1>3, <1>4, <2>1, <2>3 DEF AlertsTyped
<1>9. CASE Stop
  BY <1>2, <1>3, <1>5, <1>9 DEF Stop, AlertsTyped, MainTyped
<1>10. ASSUME main' = main
       PROVE  MainTyped'
  BY <1>10 DEF AlertsTyped, MainTyped
<1>11. ASSUME NEW t \in timers, TimerLook(t)
       PROVE  AlertsTyped'
  <2>1. /\ timers' = (timers \ {t}) \cup
              (IF Seen(t) = "done" THEN {} ELSE {[t EXCEPT !.pc = Seen(t)]})
        /\ UNCHANGED <<channel, main, cache, alerts>>
    BY <1>11 DEF TimerLook
  <2>2. AtWork(t, Waiting)
    BY DEF AlertsTyped, CachesTyped
  <2>3. Seen(t) # "done" => AtWork([t EXCEPT !.pc = Seen(t)], Waiting)
    <3>1. Seen(t) # "done" => Seen(t) \in Waiting
      BY SeenIs DEF Waiting
    <3>2. /\ [t EXCEPT !.pc = Seen(t)] = Job(t.check, t.id, Seen(t))
          /\ t.check \in Checks /\ t.id \in Subject(t.check)
      BY <2>2, AtWorkFields
    <3> QED
      BY <3>1, <3>2, JobAtWork
  <2>4. CachesTyped'
    BY <2>1, <2>3 DEF AlertsTyped, CachesTyped
  <2> QED
    BY <1>2, <1>3, <1>10, <2>1, <2>4 DEF AlertsTyped
<1>12. ASSUME NEW t \in timers, TimerDecide(t)
       PROVE  AlertsTyped'
  <2>1. /\ Decided(t) /\ timers' = (timers \ {t}) \cup NewTimers(t)
        /\ UNCHANGED <<channel, main>>
    BY <1>12 DEF TimerDecide
  <2>2. AtWork(t, Waiting)
    BY DEF AlertsTyped, CachesTyped
  <2>3. CachesTyped'
    BY <2>1, <2>2, DecidedTyped DEF AlertsTyped, CachesTyped
  <2> QED
    BY <1>2, <1>3, <1>10, <2>1, <2>3 DEF AlertsTyped
<1> QED
  BY <1>6, <1>7, <1>8, <1>9, <1>11, <1>12

LEMMA AlertsTypedStep == AlertsTyped /\ [Next]_vars => AlertsTyped'
<1> SUFFICES ASSUME AlertsTyped, [Next]_vars PROVE AlertsTyped'
  OBVIOUS
<1>1. CASE Next
  BY <1>1, StoringTyped, ModuleTyped DEF Next
<1>2. CASE UNCHANGED vars
  <2>1. ChannelTyped'
    <3>1. ChannelTyped /\ channel' = channel
      BY <1>2 DEF AlertsTyped, vars
    <3> QED
      BY <3>1, Zenon DEF ChannelTyped
  <2>2. MainTyped' /\ CachesTyped' /\ KnownTyped'
    BY <1>2 DEF AlertsTyped, vars, clock, database, MainTyped, CachesTyped, KnownTyped
  <2> QED
    BY <2>1, <2>2 DEF AlertsTyped
<1> QED
  BY <1>1, <1>2

LEMMA AlertsTypedInit == Init => AlertsTyped
<1> SUFFICES ASSUME Init PROVE AlertsTyped
  OBVIOUS
<1>1. KnownTyped
  BY DEF Init, KnownTyped
<1>2. ChannelTyped
  <2>1. DOMAIN channel = {"new_flow", "new_dns_flow", "new_ssh"}
    BY DEF Init
  <2>2. \A k \in Checks : channel[ChannelOf[k]] = <<>>
    BY ChannelsAre DEF Init
  <2>3. \A k \in Checks : channel[ChannelOf[k]] \in
            Seq(CASE k = "conn" -> Conn [] k = "dns" -> Query [] OTHER -> Login)
    BY <2>2, EmptySeq
  <2> QED
    BY <2>1, <2>3 DEF ChannelTyped
<1>3. MainTyped
  BY DEF Init, MainTyped
<1>4. CachesTyped
  BY DEF Init, CachesTyped
<1> QED
  BY <1>1, <1>2, <1>3, <1>4 DEF AlertsTyped

-----------------------------------------------------------------------------
(* FlowThresholds: types *)

Tries == [Address -> 0..P2pTries]

(* is_p2p stops counting at P2pTries.                                      *)
LEMMA CheckCounts ==
    ASSUME NEW acc, acc.daddrs \in Tries, NEW f \in Flow
    PROVE  check_unknown_port(acc, f).daddrs \in Tries
<1>1. P2pTries \in Nat /\ f.daddr \in Address
  BY FlowThresholdsAssumption
<1>2. CASE f.dport \in portinfo \/ port_belongs_to_an_org(f)
  BY <1>2 DEF check_unknown_port
<1>3. CASE ~ (f.dport \in portinfo \/ port_belongs_to_an_org(f))
  <2> DEFINE d == acc.daddrs
             p2p == is_p2p(f, d)
             new == OnlyIf(~p2p[1] /\ f.dport \notin FtpPort,
                           {Evidence("UnknownPort", f.profile, f.daddr, f.dport)})
  <2>1. check_unknown_port(acc, f) = [daddrs |-> p2p[2], found |-> acc.found \cup new]
    BY <1>3 DEF check_unknown_port
  <2>2. check_unknown_port(acc, f).daddrs = p2p[2]
    <3> HIDE DEF new, p2p
    <3> QED
      BY <2>1
  <2>3. p2p[2] \in Tries
    <3>1. \/ p2p[2] = d
          \/ ~(d[f.daddr] >= P2pTries) /\ p2p[2] = [d EXCEPT ![f.daddr] = @ + 1]
      BY DEF is_p2p
    <3> HIDE DEF p2p, d
    <3>2. d \in Tries
      BY DEF d
    <3>3. ~(d[f.daddr] >= P2pTries) => d[f.daddr] + 1 \in 0..P2pTries
      BY <1>1, <3>2 DEF Tries
    <3> QED
      BY <1>1, <3>1, <3>2, <3>3 DEF Tries
  <2> HIDE DEF p2p
  <2> QED
    BY <2>2, <2>3
<1> QED
  BY <1>2, <1>3

(* After the whole queue too                                               *)
LEMMA AllCounted ==
    ASSUME NEW line \in Seq(Flow), p2p_daddrs \in Tries
    PROVE  FoldLeft(check_unknown_port, NothingYet, line).daddrs \in Tries
<1>1. PICK g : /\ Looks(g, line)
               /\ FoldLeft(check_unknown_port, NothingYet, line) = g[DOMAIN line]
  BY FoldLooks
<1> DEFINE P == {Cardinality(s) : s \in {s \in SUBSET DOMAIN line : g[s].daddrs \notin Tries}}
<1>2. ASSUME P # {} PROVE FALSE
  <2>1. PICK n \in P : \A q \in P : n <= q
    <3>1. P \subseteq Nat
      BY PartsOfQueue
    <3> HIDE DEF P
    <3> QED
      BY <1>2, <3>1, HasLeast
  <2>2. PICK s \in SUBSET DOMAIN line : g[s].daddrs \notin Tries /\ n = Cardinality(s)
    BY <2>1
  <2>3. g[s] = LooksAt(g, line, s)
    BY <1>1, <2>2 DEF Looks
  <2>4. CASE s = {}
    <3>1. g[s] = NothingYet
      BY <2>3, <2>4 DEF LooksAt
    <3> QED
      BY <2>2, <3>1 DEF NothingYet
  <2>5. CASE s # {}
    <3> DEFINE x == Max(s)
               r == s \ {x}
    <3>1. g[s] = check_unknown_port(g[r], line[x])
      BY <2>3, <2>5 DEF LooksAt
    <3>2. x \in s /\ Cardinality(r) = n - 1 /\ n \in Nat /\ r \in SUBSET DOMAIN line
      BY <2>2, <2>5, PartsOfQueue
    <3>3. line[x] \in Flow
      BY <2>2, <3>2
    <3> HIDE DEF x
    <3>4. n - 1 \notin P
      <4> HIDE DEF P, r
      <4> QED
        BY <2>1, <3>2
    <3>5. g[r].daddrs \in Tries
      <4> HIDE DEF r
      <4> QED
        BY <3>2, <3>4
    <3> HIDE DEF r
    <3> QED
      BY <2>2, <3>1, <3>3, <3>5, CheckCounts
  <2> QED
    BY <2>4, <2>5
<1>3. DOMAIN line \in SUBSET DOMAIN line
  OBVIOUS
<1>4. g[DOMAIN line].daddrs \in Tries
  BY <1>2, <1>3
<1> QED
  BY <1>1, <1>4

LEMMA MembersOf == \A S, s : s \in Seq(S) => ToSet(s) \subseteq S
BY DEF ToSet

Times == 0..MaxNow

(* What the counters hold; the logins and the queue have invariants of     *)
(* their own (LoginInv, QueueInv).                                         *)
CountersTyped ==
    /\ now \in Times
    /\ used_software \in [Profile -> SUBSET Version] /\ aged \subseteq Name
    /\ portinfo \subseteq Port
    /\ p2p_daddrs \in Tries
    /\ Reconnections \in [Profile -> [Address -> Nat]]
    /\ nxdomains \in [Profile -> SUBSET Name]
    /\ smtp_bruteforce_cache \in [Profile -> Seq(Times)]
    /\ dns_arpa_queries \in [Profile -> Seq(Times)]

ThresholdInv == LoginInv /\ QueueInv /\ CountersTyped

LEMMA ThresholdInvRight == ThresholdInv => ThresholdsTypeOK
<1> SUFFICES ASSUME ThresholdInv PROVE ThresholdsTypeOK
  OBVIOUS
<1>2. /\ stored \in [Profile -> Seq(Flow)] /\ new_flow \in Seq(Flow) /\ handled \subseteq Flow
      /\ unknown_ports_queue \in Seq(Flow)
      /\ is_known_ports_read \in BOOLEAN /\ ran_once \in BOOLEAN
  BY DEF ThresholdInv, QueueInv
<1>3. /\ \A p \in Profile : ToSet(stored[p]) \subseteq Flow
      /\ ToSet(new_flow) \cup handled \cup ToSet(unknown_ports_queue) \subseteq Flow
  BY <1>2, MembersOf
<1>4. \A p \in Profile : Len(smtp_bruteforce_cache[p]) < SmtpThreshold
  BY DEF ThresholdInv, LoginInv, CacheIsEnd
<1>5. \A p \in Profile :
         ToSet(smtp_bruteforce_cache[p]) \cup ToSet(dns_arpa_queries[p]) \subseteq Times
  BY MembersOf DEF ThresholdInv, CountersTyped
<1> QED
  BY <1>2, <1>3, <1>4, <1>5 DEF ThresholdInv, CountersTyped, ThresholdsTypeOK, Times, Tries

LEMMA CountersTypedInit == ThresholdInit => CountersTyped
<1> SUFFICES ASSUME ThresholdInit PROVE CountersTyped
  OBVIOUS
<1>1. <<>> \in Seq(Times) /\ 0 \in Times /\ 0 \in 0..P2pTries
  BY EmptySeq, FlowThresholdsAssumption DEF Times
<1> QED
  BY <1>1 DEF ThresholdInit, CountersTyped, Tries

(* The flows                                                               *)
LEMMA FlowsKeepCounters ==
    ASSUME QueueInv, CountersTyped, FlowStep
    PROVE  CountersTyped'
<1>1. CASE NewFlow
  <2> DEFINE f == Head(new_flow)
             queue == IF ran_once THEN <<>> ELSE unknown_ports_queue
             line == Append(queue, f)
  <2>1. f \in Flow /\ queue \in Seq(Flow)
    BY <1>1 DEF NewFlow, QueueInv
  <2>2. line \in Seq(Flow)
    <3> HIDE DEF f, queue
    <3> QED
      BY <2>1
  <2>3. /\ p2p_daddrs' = PortChecks(f).daddrs
        /\ Reconnections' = IF Rejected(f)
                            THEN [Reconnections EXCEPT ![f.profile][f.daddr] = @ + 1]
                            ELSE Reconnections
        /\ UNCHANGED <<now, used_software, aged, portinfo, nxdomains,
                       smtp_bruteforce_cache, dns_arpa_queries>>
    BY <1>1 DEF NewFlow, feed
  <2>4. p2p_daddrs' \in Tries
    <3>1. PortChecks(f).daddrs \in
             {p2p_daddrs, FoldLeft(check_unknown_port, NothingYet, line).daddrs}
      BY DEF PortChecks, NothingYet
    <3> HIDE DEF line
    <3> QED
      BY <2>2, <2>3, <3>1, AllCounted DEF CountersTyped
  <2>5. Reconnections' \in [Profile -> [Address -> Nat]]
    <3>1. f.profile \in Profile /\ f.daddr \in Address
      BY <2>1, FlowThresholdsAssumption
    <3>2. Reconnections \in [Profile -> [Address -> Nat]]
      BY DEF CountersTyped
    <3> HIDE DEF f
    <3> QED
      BY <2>3, <3>1, <3>2
  <2> QED
    BY <2>3, <2>4, <2>5 DEF CountersTyped
<1>2. ASSUME NEW f \in Flow, StoreFlow(f)
      PROVE  CountersTyped'
  BY <1>2 DEF StoreFlow, feed, ports, counters, CountersTyped
<1>3. CASE ServicesRead
  <2>1. NamedPort \subseteq Port
    BY FlowThresholdsAssumption
  <2> QED
    BY <1>3, <2>1 DEF ServicesRead, counters, CountersTyped
<1>4. ASSUME NEW port \in Port, NewService(port)
      PROVE  CountersTyped'
  BY <1>4 DEF NewService, feed, counters, CountersTyped
<1> QED
  BY <1>1, <1>2, <1>3, <1>4 DEF FlowStep

(* The other messages                                                      *)
LEMMA MessagesKeepCounters ==
    ASSUME CountersTyped, DnsStep \/ LoginStep \/ SoftwareStep \/ MessageStep
    PROVE  CountersTyped'
<1>1. ASSUME NEW d \in Name, AgeStored(d)
      PROVE  CountersTyped'
  BY <1>1 DEF AgeStored, ports, counters, CountersTyped
<1>2. ASSUME NEW p \in Profile, NEW d \in Name, NEW nxdomain \in BOOLEAN, NewDns(p, d, nxdomain)
      PROVE  CountersTyped'
  <2>1. nxdomains' \in [Profile -> SUBSET Name]
    BY <1>2 DEF NewDns, CountersTyped
  <2> QED
    BY <1>2, <2>1 DEF NewDns, feed, ports, CountersTyped
<1>3. CASE Later
  <2>1. now' \in Times
    BY <1>3, FlowThresholdsAssumption DEF Later, CountersTyped, Times
  <2> QED
    BY <1>3, <2>1 DEF Later, feed, ports, counters, CountersTyped
<1>4. ASSUME NEW s \in Seq(Times)
      PROVE  Append(s, now) \in Seq(Times) /\ Tail(Append(s, now)) \in Seq(Times)
  <2>1. now \in Times
    BY DEF CountersTyped
  <2>2. Append(s, now) \in Seq(Times) /\ Append(s, now) # <<>>
    BY <2>1, AppendProperties
  <2> QED
    BY <2>2
<1>5. <<>> \in Seq(Times)
  BY EmptySeq
<1>6. ASSUME NEW p \in Profile, NewSmtp(p)
      PROVE  CountersTyped'
  <2> DEFINE old == smtp_bruteforce_cache[p]
  <2>1. \E new \in {<<>>, Tail(Append(old, now)), Append(old, now)} :
           smtp_bruteforce_cache' = [smtp_bruteforce_cache EXCEPT ![p] = new]
    BY <1>6 DEF NewSmtp, WithoutOldest
  <2>2. smtp_bruteforce_cache \in [Profile -> Seq(Times)] /\ old \in Seq(Times)
    BY DEF CountersTyped
  <2> HIDE DEF old
  <2>3. smtp_bruteforce_cache' \in [Profile -> Seq(Times)]
    BY <1>4, <1>5, <2>1, <2>2
  <2> QED
    BY <1>6, <2>3 DEF NewSmtp, feed, ports, CountersTyped
<1>7. ASSUME NEW p \in Profile, check_dns_arpa_scan(p)
      PROVE  CountersTyped'
  <2> DEFINE old == dns_arpa_queries[p]
  <2>1. \E new \in {<<>>, Append(old, now)} :
           dns_arpa_queries' = [dns_arpa_queries EXCEPT ![p] = new]
    BY <1>7 DEF check_dns_arpa_scan
  <2>2. dns_arpa_queries \in [Profile -> Seq(Times)] /\ old \in Seq(Times)
    BY DEF CountersTyped
  <2> HIDE DEF old
  <2>3. dns_arpa_queries' \in [Profile -> Seq(Times)]
    BY <1>4, <1>5, <2>1, <2>2
  <2>4. UNCHANGED <<now, feed, ports, Reconnections, nxdomains, smtp_bruteforce_cache>>
    BY <1>7 DEF check_dns_arpa_scan
  <2> QED
    BY <2>3, <2>4 DEF feed, ports, CountersTyped
<1>8. ASSUME NEW p \in Profile, NEW v \in Version, add_software_to_profile(p, v)
      PROVE  CountersTyped'
  BY <1>8 DEF add_software_to_profile, ports, counters, CountersTyped
<1>9. CASE check_multiple_ssh_clients
  BY <1>9 DEF check_multiple_ssh_clients, ports, counters, CountersTyped
<1>10. CASE MessageStep
  BY <1>10 DEF MessageStep, NewNotice, NewSsl, NewDownloadedFile, Reported, feed, ports,
               counters, CountersTyped
<1> QED
  BY <1>1, <1>2, <1>3, <1>6, <1>7, <1>8, <1>9, <1>10 DEF DnsStep, LoginStep, SoftwareStep

LEMMA ThresholdInvStep == ThresholdInv /\ [ThresholdNext]_thresholdVars => ThresholdInv'
<1> SUFFICES ASSUME ThresholdInv, [ThresholdNext]_thresholdVars PROVE ThresholdInv'
  OBVIOUS
<1>1. LoginInv'
  BY LoginInvStep DEF ThresholdInv
<1>2. QueueInv'
  BY QueueInvStep DEF ThresholdInv
<1>3. CountersTyped'
  <2>1. CASE ThresholdNext
    BY <2>1, FlowsKeepCounters, MessagesKeepCounters DEF ThresholdInv, ThresholdNext
  <2>2. CASE UNCHANGED thresholdVars
    BY <2>2 DEF thresholdVars, feed, ports, counters, ThresholdInv, CountersTyped
  <2> QED
    BY <2>1, <2>2
<1> QED
  BY <1>1, <1>2, <1>3 DEF ThresholdInv

-----------------------------------------------------------------------------
(* Arp: types *)

ArpMessage == [mac : Mac, ip : ArpIp]

(* What ip_info keeps, and its channel                                     *)
MacTyped ==
    /\ new_MAC \in Seq(ArpMessage)
    /\ tw_closed \in Seq(Keys)
    /\ MAC \in [Mac -> Seq(ArpIp)] /\ Vendor \subseteq ArpIp
    /\ IPv4 \in [ArpIp -> SUBSET V4] /\ IPv6 \in [ArpIp -> SUBSET V6]
    /\ ip_info \in {"running", "ended"}

ArpTypeInv == ArpInv /\ MacTyped

LEMMA ArpTypeInvRight == ArpTypeInv => ArpTypeOK
<1> SUFFICES ASSUME ArpTypeInv PROVE ArpTypeOK
  OBVIOUS
<1>1. new_arp \in Seq(ArpFlow) /\ cache_arp_requests \in [Keys -> Seq(ArpEntry)]
  BY DEF ArpTypeInv, ArpInv, ArpTyped
<1>2. new_MAC \in Seq(ArpMessage) /\ tw_closed \in Seq(Keys)
  BY DEF ArpTypeInv, MacTyped
<1>3. ToSet(new_arp) \subseteq ArpFlow /\ ToSet(tw_closed) \subseteq Keys
  BY <1>1, <1>2, MembersOf
<1>4. \A i \in DOMAIN new_MAC : new_MAC[i].mac \in Mac /\ new_MAC[i].ip \in ArpIp
  <2>1. \A i \in DOMAIN new_MAC : new_MAC[i] \in ArpMessage
    BY <1>2
  <2> QED
    BY <2>1 DEF ArpMessage
<1>5. ASSUME NEW k \in Keys
      PROVE  IsInjective([i \in DOMAIN cache_arp_requests[k] |-> cache_arp_requests[k][i].daddr])
  <2>1. Distinct(cache_arp_requests[k]) /\ cache_arp_requests[k] \in Seq(ArpEntry)
    BY <1>1 DEF ArpTypeInv, ArpInv, Shows
  <2> QED
    BY <2>1 DEF Distinct, IsInjective
<1> QED
  BY <1>3, <1>4, <1>5 DEF ArpTypeInv, MacTyped, ArpTypeOK

LEMMA MacTypedInit == ArpInit => MacTyped
<1> SUFFICES ASSUME ArpInit PROVE MacTyped
  OBVIOUS
<1>1. <<>> \in Seq(ArpMessage) /\ <<>> \in Seq(Keys) /\ <<>> \in Seq(ArpIp)
  BY EmptySeq
<1> QED
  BY <1>1 DEF ArpInit, MacTyped

(* The pairs of a flow that are of computers                               *)
LEMMA NewMacsTyped ==
    ASSUME NEW f \in ArpFlow
    PROVE  NewMacs(f) \in Seq(ArpMessage)
<1>1. f.daddr \in ArpIp /\ f.saddr \in ArpIp
  BY ArpAssumption DEF ArpIp
<1>2. ASSUME NEW m, NEW a \in ArpIp
      PROVE  publish_to_new_MAC(m, a) \in Seq(ArpMessage)
  <2>1. CASE m \in Mac
    <3>1. [mac |-> m, ip |-> a] \in ArpMessage
      BY <2>1 DEF ArpMessage
    <3> QED
      BY <2>1, <3>1 DEF publish_to_new_MAC
  <2>2. CASE m \notin Mac
    BY <2>2 DEF publish_to_new_MAC
  <2> QED
    BY <2>1, <2>2
<1> QED
  BY <1>1, <1>2 DEF NewMacs

(* ip_info                                                                 *)
LEMMA NewMacTyped ==
    ASSUME MacTyped, NewMac
    PROVE  MacTyped'
<1> DEFINE m == Head(new_MAC)
<1>1. m \in ArpMessage /\ new_MAC' \in Seq(ArpMessage) /\ tw_closed' = tw_closed
  BY DEF NewMac, MacTyped
<1>2. UNCHANGED macVars \/ add_mac_addr_to_profile(m.mac, m.ip)
  BY DEF NewMac
<1>3. m.mac \in Mac /\ m.ip \in ArpIp
  BY <1>1 DEF ArpMessage
<1> HIDE DEF m
<1>4. CASE UNCHANGED macVars
  BY <1>1, <1>4 DEF MacTyped, macVars
<1>5. CASE add_mac_addr_to_profile(m.mac, m.ip)
  <2> DEFINE ips == MAC[m.mac]
             found == Last(ips)
  <2>1. /\ MAC \in [Mac -> Seq(ArpIp)] /\ Vendor \subseteq ArpIp
        /\ IPv4 \in [ArpIp -> SUBSET V4] /\ IPv6 \in [ArpIp -> SUBSET V6]
        /\ ip_info \in {"running", "ended"}
    BY DEF MacTyped
  <2>2. ips \in Seq(ArpIp) /\ (ips # <<>> => found \in ArpIp)
    BY <1>3, <2>1 DEF Last
  <2>3. <<m.ip>> \in Seq(ArpIp) /\ Append(ips, m.ip) \in Seq(ArpIp)
    <3> HIDE DEF ips
    <3> QED
      BY <1>3, <2>2
  <2>4. /\ MAC' \in {MAC, [MAC EXCEPT ![m.mac] = <<m.ip>>],
                     [MAC EXCEPT ![m.mac] = Append(ips, m.ip)]}
        /\ Vendor' \in {Vendor, Vendor \cup {m.ip}}
        /\ ip_info' \in {ip_info, "ended"}
        /\ \/ UNCHANGED <<IPv4, IPv6>>
           \/ /\ m.ip \in V6 /\ found \in V4
              /\ IPv4' = [IPv4 EXCEPT ![m.ip] = {found}]
              /\ IPv6' = [IPv6 EXCEPT ![found] = {m.ip}]
           \/ /\ m.ip \in V4 /\ found \in V6
              /\ IPv6' = [IPv6 EXCEPT ![m.ip] = {found}]
              /\ IPv4' = [IPv4 EXCEPT ![found] = {m.ip}]
    BY <1>5 DEF add_mac_addr_to_profile, macVars
  <2> HIDE DEF ips, found
  <2>5. MAC' \in [Mac -> Seq(ArpIp)]
    BY <1>3, <2>1, <2>3, <2>4
  <2>6. Vendor' \subseteq ArpIp
    BY <1>3, <2>1, <2>4
  <2>7. ASSUME NEW a \in V4, NEW b \in V6
        PROVE  /\ [IPv4 EXCEPT ![b] = {a}] \in [ArpIp -> SUBSET V4]
               /\ [IPv6 EXCEPT ![a] = {b}] \in [ArpIp -> SUBSET V6]
    BY <2>1
  <2>8. IPv4' \in [ArpIp -> SUBSET V4] /\ IPv6' \in [ArpIp -> SUBSET V6]
    BY <2>1, <2>4, <2>7
  <2> QED
    BY <1>1, <2>1, <2>4, <2>5, <2>6, <2>8 DEF MacTyped
<1> QED
  BY <1>2, <1>4, <1>5

LEMMA MacTypedStep ==
    ASSUME MacTyped, [ArpNext]_arpVars
    PROVE  MacTyped'
<1>1. ASSUME NEW f \in ArpFlow, PublishArp(f)
      PROVE  MacTyped'
  <2>1. new_MAC \in Seq(ArpMessage) /\ NewMacs(f) \in Seq(ArpMessage)
    BY NewMacsTyped DEF MacTyped
  <2>2. new_MAC' \in Seq(ArpMessage)
    BY <1>1, <2>1 DEF PublishArp
  <2> QED
    BY <1>1, <2>2 DEF PublishArp, macVars, MacTyped
<1>2. ASSUME NEW f \in ArpFlow, PublishClosed(KeyOf(f))
      PROVE  MacTyped'
  <2>1. KeyOf(f) \in Keys
    BY ArpAssumption DEF KeyOf, Keys, ArpIp
  <2>2. tw_closed' \in Seq(Keys)
    BY <1>2, <2>1 DEF PublishClosed, MacTyped
  <2> QED
    BY <1>2, <2>2 DEF PublishClosed, macVars, MacTyped
<1>3. CASE NewArp
  BY <1>3 DEF NewArp, macVars, MacTyped
<1>4. CASE TwClosed
  <2>1. tw_closed' \in Seq(Keys)
    BY <1>4 DEF TwClosed, MacTyped
  <2> QED
    BY <1>4, <2>1 DEF TwClosed, macVars, MacTyped
<1>5. ASSUME NEW n \in Mac, NEW a \in ArpIp, PublishMac(n, a)
      PROVE  MacTyped'
  <2>1. [mac |-> n, ip |-> a] \in ArpMessage /\ new_MAC \in Seq(ArpMessage)
    BY DEF ArpMessage, MacTyped
  <2>2. new_MAC' \in Seq(ArpMessage)
    BY <1>5, <2>1 DEF PublishMac
  <2> QED
    BY <1>5, <2>2 DEF PublishMac, macVars, MacTyped
<1>6. CASE UNCHANGED arpVars
  BY <1>6 DEF arpVars, channels, macVars, MacTyped
<1> QED
  BY <1>1, <1>2, <1>3, <1>4, <1>5, <1>6, NewMacTyped DEF ArpNext, ArpStep, MacStep

-----------------------------------------------------------------------------
(* ThreatFeeds: types *)

Threats == [profile : ThreatProfile, ioc : IocIp \cup LookedUp]

(* What FeedsInv says nothing about: the clock, the state of the module,   *)
(* the files with a tag and the evidence.  The round is over its feeds     *)
(* before it begins its tasks.                                             *)
RoundTyped ==
    /\ day \in 1..MaxDay /\ starts \in 1..MaxStarts
    /\ updater.at # "check" => updater.todo = <<>>
    /\ timer \in 0..MaxDay
    /\ intel \in {"local", "info", "running", "ended"}
    /\ threats \subseteq Threats

FeedsTypeInv == FeedsInv /\ RoundTyped

LEMMA FeedsTypeInvRight == FeedsTypeInv => FeedsTypeOK
<1> SUFFICES ASSUME FeedsTypeInv PROVE FeedsTypeOK
  OBVIOUS
<1>1. updater.at \in {"check", "task", "delete", "load", "info"}
  BY DEF FeedsTypeInv, FeedsInv, FeedsTyped, Rounds
<1> QED
  BY <1>1 DEF FeedsTypeInv, FeedsInv, FeedsTyped, RoundTyped, FeedsTypeOK, Threats

LEMMA RoundTypedInit == FeedsInit => RoundTyped
<1> SUFFICES ASSUME FeedsInit PROVE RoundTyped
  OBVIOUS
<1>1. 1 \in 1..MaxDay /\ 1 \in 1..MaxStarts /\ 0 \in 0..MaxDay
  BY FeedsAssumption
<1>2. updater.at = "check"
  BY DEF FeedsInit, Started
<1> QED
  BY <1>1, <1>2 DEF FeedsInit, RoundTyped

(* The round                                                               *)
LEMMA UpdateTyped ==
    ASSUME FeedsTypeInv, Update
    PROVE  RoundTyped'
<1>1. UNCHANGED <<day, starts, timer, intel, threats>>
  BY DEF Update
<1>2. updater \in Rounds
  BY DEF FeedsTypeInv, FeedsInv, FeedsTyped
<1>3. updater = [at |-> updater.at, todo |-> updater.todo, tasks |-> updater.tasks,
                 old |-> updater.old]
  BY <1>2 DEF Rounds
<1>4. updater.at # "check" => updater.todo = <<>>
  BY DEF FeedsTypeInv, RoundTyped
<1>6. updater'.at = "check" \/ updater'.todo = <<>>
  <2>1. CASE NotDownloaded \/ UpToDate
    <3>1. updater' = Checked /\ updater.at = "check"
      BY <2>1 DEF NotDownloaded, UpToDate, CheckNext
    <3>2. updater'.at = "check"
      BY <1>3, <3>1 DEF Checked
    <3> QED
      BY <3>2
  <2>2. CASE Downloaded
    <3>1. PICK new : updater' = [Checked EXCEPT !.tasks = new] /\ updater.at = "check"
      BY <2>2 DEF Downloaded, CheckNext
    <3>2. updater'.at = "check"
      BY <1>3, <3>1 DEF Checked
    <3> QED
      BY <3>2
  <2>3. CASE update_riskiq_feed
    <3>1. updater' = [updater EXCEPT !.at = "task"] /\ updater.todo = <<>>
      BY <2>3 DEF update_riskiq_feed
    <3> QED
      BY <1>3, <3>1
  <2>4. CASE ReadOldData \/ DeleteOldData \/ LoadFeed \/ set_TI_file_info
    <3>1. updater.at # "check"
      BY <2>4 DEF ReadOldData, DeleteOldData, LoadFeed, set_TI_file_info
    <3>2. updater'.todo = updater.todo
      BY <1>3, <2>4 DEF ReadOldData, DeleteOldData, LoadFeed, set_TI_file_info, NextTask,
         AfterFailure
    <3> QED
      BY <1>4, <3>1, <3>2
  <2> QED
    BY <2>1, <2>2, <2>3, <2>4 DEF Update
<1> QED
  BY <1>1, <1>6 DEF FeedsTypeInv, RoundTyped

(* What is found is about the profile and the address or name asked for.   *)
LEMMA LookUpTyped ==
    ASSUME FeedsTypeInv, LookUp
    PROVE  threats' \subseteq Threats /\ intel' \in {"running", "ended"}
<1> DEFINE m == Head(give_threat_intelligence)
<1>1. give_threat_intelligence \in Seq(Messages) /\ give_threat_intelligence # <<>>
      /\ intel = "running" /\ threats \subseteq Threats
  BY DEF LookUp, FeedsTypeInv, FeedsInv, FeedsTyped, RoundTyped
<1>2. m \in Messages
  BY <1>1
<1>3. /\ intel' = intel
      /\ threats' \subseteq threats \cup (IF m.kind = "name" THEN {Threat(m, m.name)}
                                          ELSE IF FoundIp(m) THEN {Threat(m, m.ip)} ELSE {})
  BY LookedUpFinds DEF LookUp, FeedsTypeInv
<1> HIDE DEF m
<1>4. /\ m.profile \in ThreatProfile
      /\ m.kind = "name" => m.name \in LookedUp
      /\ m.kind # "name" => m.ip \in IocIp
  BY <1>2 DEF Messages, AskIp
<1>5. /\ m.kind = "name" => Threat(m, m.name) \in Threats
      /\ m.kind # "name" => Threat(m, m.ip) \in Threats
  BY <1>4 DEF Threat, Threats
<1> QED
  BY <1>1, <1>3, <1>5

LEMMA FeedsTypeInvStep == FeedsTypeInv /\ [FeedsNext]_feedVars => FeedsTypeInv'
<1> SUFFICES ASSUME FeedsTypeInv, [FeedsNext]_feedVars PROVE FeedsTypeInv'
  OBVIOUS
<1>1. FeedsInv'
  BY FeedsInvStep DEF FeedsTypeInv
<1>2. RoundTyped
  BY DEF FeedsTypeInv
<1>3. CASE Intelligence
  <2>1. UNCHANGED <<day, starts, updater, timer>>
    BY <1>3 DEF Intelligence
  <2>3. intel' \in {"local", "info", "running", "ended"} /\ threats' \subseteq Threats
    <3>1. CASE LookUp
      BY <3>1, LookUpTyped
    <3>2. CASE check_local_ti_files
      BY <1>2, <3>2 DEF check_local_ti_files, RoundTyped
    <3>3. CASE StoreLocalHash
      BY <1>2, <3>3 DEF StoreLocalHash, RoundTyped
    <3> QED
      BY <1>3, <3>1, <3>2, <3>3 DEF Intelligence
  <2>4. RoundTyped'
    BY <1>2, <2>1, <2>3 DEF RoundTyped
  <2> QED
    BY <1>1, <2>4 DEF FeedsTypeInv
<1>4. CASE update_TI_files
  <2>1. timer' \in 0..MaxDay
    <3>1. timer' = timer + 1 /\ timer + 1 < day
      BY <1>4 DEF update_TI_files
    <3>2. timer \in 0..MaxDay /\ day \in 1..MaxDay
      BY <1>2 DEF RoundTyped
    <3> QED
      BY <3>1, <3>2, FeedsAssumption
  <2>2. RoundTyped'
    BY <1>2, <1>4, <2>1 DEF update_TI_files, cacheDb, RoundTyped
  <2> QED
    BY <1>1, <2>2 DEF FeedsTypeInv
<1>5. CASE NextDay
  <2>1. day' \in 1..MaxDay
    BY <1>2, <1>5, FeedsAssumption DEF NextDay, RoundTyped
  <2>2. RoundTyped'
    BY <1>2, <1>5, <2>1 DEF NextDay, cacheDb, RoundTyped
  <2> QED
    BY <1>1, <2>2 DEF FeedsTypeInv
<1>6. CASE Restart
  <2>1. starts' \in 1..MaxStarts /\ 0 \in 0..MaxDay
    BY <1>2, <1>6, FeedsAssumption DEF Restart, RoundTyped
  <2>2. updater'.at = "check"
    BY <1>6 DEF Restart, Started
  <2>3. RoundTyped'
    BY <1>2, <1>6, <2>1, <2>2 DEF Restart, cacheDb, RoundTyped
  <2> QED
    BY <1>1, <2>3 DEF FeedsTypeInv
<1>7. CASE AskForFlow \/ AskForName \/ UNCHANGED feedVars
  <2>1. UNCHANGED <<day, starts, TI_files_info, updater, timer, intel, threats>>
    BY <1>7 DEF AskForFlow, AskForName, Ask, feedVars, cacheDb
  <2>2. RoundTyped'
    BY <1>2, <2>1 DEF RoundTyped
  <2> QED
    BY <1>1, <2>2 DEF FeedsTypeInv
<1>8. CASE Update
  BY <1>1, <1>8, UpdateTyped DEF FeedsTypeInv
<1> QED
  BY <1>3, <1>4, <1>5, <1>6, <1>7, <1>8 DEF FeedsNext, FeedStep, LookupStep

-----------------------------------------------------------------------------
(* All of them *)

DetectorsInv == AlertsTyped /\ ThresholdInv /\ ArpTypeInv /\ FeedsTypeInv

(* However the steps of the detectors interleave, with each other and with *)
(* the processes that feed them, what they keep is of its type: among the  *)
(* rest that the cache of bad logins never reaches its threshold, that no  *)
(* address is twice in a cache of ARP requests and counts of p2p tries end *)
(* at their limit.                                                         *)
THEOREM DetectorsTyped == DetectorsSpec => []DetectorsTypeOK
<1>1. DetectorsInit => DetectorsInv
  BY AlertsTypedInit, LoginInvInit, QueueInvInit, CountersTypedInit, ArpInvInit, MacTypedInit,
     FeedsInvInit, RoundTypedInit
  DEF DetectorsInit, DetectorsInv, ThresholdInv, ArpTypeInv, FeedsTypeInv
<1>2. DetectorsInv /\ [DetectorsNext]_detectorVars => DetectorsInv'
  <2>1. [DetectorsNext]_detectorVars =>
           /\ [Next]_vars /\ [ThresholdNext]_thresholdVars
           /\ [ArpNext]_arpVars /\ [FeedsNext]_feedVars
    BY DEF DetectorsNext, detectorVars
  <2>2. ArpTypeInv /\ [ArpNext]_arpVars => ArpTypeInv'
    BY ArpInvStep, MacTypedStep DEF ArpTypeInv
  <2> QED
    BY <2>1, <2>2, AlertsTypedStep, ThresholdInvStep, FeedsTypeInvStep DEF DetectorsInv
<1>3. DetectorsInv => DetectorsTypeOK
  BY AlertsTypedRight, ThresholdInvRight, ArpTypeInvRight, FeedsTypeInvRight
  DEF DetectorsInv, DetectorsTypeOK
<1> QED
  BY <1>1, <1>2, <1>3, PTL DEF DetectorsSpec

=============================================================================
