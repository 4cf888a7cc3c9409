------------------------ MODULE InputPipelineProofs ------------------------
(***************************************************************************)
(* How lines are read, for any logs, timestamps and kinds of input: types, *)
(* that a folder is merged in the order of time, that the renaming of logs *)
(* sends no line more often than its generation allows, and that the       *)
(* dictionary that is put again and again never falls behind; and what is  *)
(* made of the lines, for any input and any whitelist.conf: that what is   *)
(* stored is of the line it says, that a line of a known form leaves what  *)
(* it should, and that the whitelist is what the file says.                *)
(***************************************************************************)
EXTENDS Input, SequenceTheorems, FunctionTheorems, FiniteSetTheorems, TLAPS

-----------------------------------------------------------------------------
(* Minima *)

LEMMA HasLeast ==
    ASSUME NEW P \in SUBSET Nat, P # {}
    PROVE  \E p \in P : \A q \in P : p <= q
<1>1. PICK p \in P : \A q \in P : <<q, p>> \notin OpToRel(<, Nat)
  BY NatLessThanWellFounded, WFMin
<1>2. \A q \in P : ~ (q < p)
  BY <1>1 DEF OpToRel
<1> QED
  BY <1>2

(* A position no other comes before, by the numbers and then by itself     *)
LEMMA HasFirst ==
    ASSUME NEW n \in Nat, n > 0, NEW s \in [1 .. n -> Int]
    PROVE  \E i \in 1 .. n : \A j \in 1 .. n :
              s[i] < s[j] \/ (s[i] = s[j] /\ i <= j)
<1> DEFINE Before(i) == {j \in 1 .. n : s[j] < s[i] \/ (s[j] = s[i] /\ j < i)}
           P == {Cardinality(Before(i)) : i \in 1 .. n}
<1>1. \A i \in 1 .. n : IsFiniteSet(Before(i))
  <2>1. IsFiniteSet(1 .. n)
    BY FS_Interval
  <2>2. \A i \in 1 .. n : Before(i) \subseteq 1 .. n
    OBVIOUS
  <2> HIDE DEF Before
  <2> QED
    BY <2>1, <2>2, FS_Subset
<1>2. \A i \in 1 .. n : Cardinality(Before(i)) \in Nat
  <2> HIDE DEF Before
  <2> QED
    BY <1>1, FS_CardinalityType
<1>3. P \subseteq Nat /\ P # {}
  <2>1. 1 \in 1 .. n
    OBVIOUS
  <2> HIDE DEF Before
  <2> QED
    BY <1>2, <2>1
<1>4. PICK p \in P : \A q \in P : p <= q
  <2> HIDE DEF P
  <2> QED
    BY <1>3, HasLeast
<1>5. PICK i \in 1 .. n : p = Cardinality(Before(i))
  OBVIOUS
<1>6. ASSUME NEW j \in 1 .. n, j \in Before(i)
      PROVE  FALSE
  <2>1. Before(j) \subseteq Before(i)
    <3> SUFFICES ASSUME NEW k \in Before(j) PROVE k \in Before(i)
      OBVIOUS
    <3>1. s[i] \in Int /\ s[j] \in Int /\ s[k] \in Int /\ i \in Int /\ j \in Int /\ k \in Int
      OBVIOUS
    <3>2. /\ s[j] < s[i] \/ (s[j] = s[i] /\ j < i)
          /\ s[k] < s[j] \/ (s[k] = s[j] /\ k < j)
      BY <1>6
    <3>3. s[k] < s[i] \/ (s[k] = s[i] /\ k < i)
      BY <3>1, <3>2
    <3> QED
      BY <3>3
  <2>2. j \notin Before(j)
    OBVIOUS
  <2> HIDE DEF Before
  <2>3. Cardinality(Before(j)) \in P
    OBVIOUS
  <2> HIDE DEF P
  <2>4. Before(j) # Before(i)
    BY <1>6, <2>2
  <2>5. Before(j) \in SUBSET Before(i) /\ IsFiniteSet(Before(i))
    BY <1>1, <2>1
  <2>6. /\ Cardinality(Before(j)) <= Cardinality(Before(i))
        /\ Cardinality(Before(j)) # Cardinality(Before(i))
    BY <2>4, <2>5, FS_Subset
  <2>7. p <= Cardinality(Before(j))
    BY <1>4, <2>3
  <2>8. Cardinality(Before(i)) \in Nat /\ Cardinality(Before(j)) \in Nat
    BY <1>2
  <2> QED
    BY <1>5, <2>6, <2>7, <2>8
<1>7. ASSUME NEW j \in 1 .. n
      PROVE  s[i] < s[j] \/ (s[i] = s[j] /\ i <= j)
  <2>1. s[j] \in Int /\ s[i] \in Int /\ i \in Int /\ j \in Int
    OBVIOUS
  <2>2. ~ (s[j] < s[i] \/ (s[j] = s[i] /\ j < i))
    BY <1>6
  <2> QED
    BY <2>1, <2>2
<1> QED
  BY <1>7

-----------------------------------------------------------------------------
(* Types *)

Record == [gen : 1 .. MaxGen, ts : Stamp \cup Captured \cup {Skip}]

Exists(l) == l.n \in DOMAIN disk[l.file]

(* What zeek may still do to a log is within the bounds.                   *)
LogsOK ==
    \A f \in File : /\ Len(disk[f]) <= MaxLines
                    /\ f \in live => disk[f] # <<>>
                    /\ f \notin live => Gen(f) < MaxGen

(* Lines on their way have been written; what a text has sent is not       *)
(* beyond the line in the dictionary, and that not beyond the reader.      *)
OnTheWay ==
    /\ \A k \in DOMAIN cache_lines : Exists(cache_lines[k])
    /\ \A k \in DOMAIN put : put[k] = Stop \/ Exists(put[k])
    /\ Len(received) <= Len(put)
    /\ remover = "forget" => renamed # <<>>

OneThread ==
    /\ kind \in Zeek => reader.pc # "text"
    /\ kind \in Text =>
          /\ reader.pc \in {"text", "done"}
          /\ events = <<>> /\ renamed = <<>> /\ cache_lines = <<>>
          /\ data < handle[Given].next
          /\ \A k \in DOMAIN put :
                put[k] = Stop \/ (put[k].file = Given /\ put[k].n <= data)

Base == TypeOK /\ LogsOK /\ OnTheWay /\ OneThread

LEMMA Numbers == MaxLines \in Nat /\ MaxGen \in Nat /\ 1 <= MaxGen /\ Given \in File
BY InputAssumption

LEMMA StopIsNoLine == Stop \notin Line
BY DEF Stop, Line

(* The number of the last generation                                       *)
LEMMA GenType ==
    ASSUME TypeOK, NEW f \in File
    PROVE  Gen(f) \in 0 .. MaxGen
<1>1. disk[f] \in Seq(Record)
  BY DEF TypeOK, Record
<1>2. disk[f] # <<>> => disk[f][Len(disk[f])] \in Record
  BY <1>1
<1> QED
  BY <1>2, Numbers DEF Gen, Record

(* A log is opened at a line of its last generation.                       *)
LEMMA OpenedType ==
    ASSUME TypeOK, NEW f \in File, disk[f] # <<>>
    PROVE  /\ Opened(f).gen = Gen(f)
           /\ Opened(f).next \in DOMAIN disk[f]
           /\ disk[f][Opened(f).next].gen = Gen(f)
           /\ \A j \in DOMAIN disk[f] : disk[f][j].gen = Gen(f) => Opened(f).next <= j
<1> DEFINE P == {i \in DOMAIN disk[f] : disk[f][i].gen = Gen(f)}
<1>1. disk[f] \in Seq(Record)
  BY DEF TypeOK, Record
<1>2. P \subseteq Nat /\ P # {}
  BY <1>1 DEF Gen
<1>3. PICK p \in P : \A q \in P : p <= q
  <2> HIDE DEF P
  <2> QED
    BY <1>2, HasLeast
<1>4. \E i \in DOMAIN disk[f] :
         /\ disk[f][i].gen = Gen(f)
         /\ \A j \in DOMAIN disk[f] : disk[f][j].gen = Gen(f) => i <= j
  BY <1>3
<1> HIDE DEF P
<1> QED
  BY <1>4 DEF Opened

LEMMA BaseInit == Init => Base
<1> SUFFICES ASSUME Init PROVE Base
  OBVIOUS
<1> USE Numbers, InputAssumption
<1>1. disk \in [File -> Contents \cup {<<>>}]
  BY DEF Init
<1>2. \A c \in Contents \cup {<<>>} :
         /\ c \in Seq(Record) /\ Len(c) <= MaxLines
         /\ c # <<>> => c[Len(c)].gen = 1
  <2> SUFFICES ASSUME NEW c \in Contents \cup {<<>>}
               PROVE  /\ c \in Seq(Record) /\ Len(c) <= MaxLines
                      /\ c # <<>> => c[Len(c)].gen = 1
    OBVIOUS
  <2>1. CASE c = <<>>
    BY <2>1
  <2>2. CASE c \in Contents
    <3>1. PICK n \in 0 .. MaxLines : c \in [1 .. n -> [gen : {1}, ts : Stamp \cup {Skip}]]
      BY <2>2 DEF Contents
    <3>2. c \in [1 .. n -> Record]
      BY <3>1 DEF Record
    <3>3. c \in Seq(Record) /\ Len(c) = n
      BY <3>2
    <3>4. c # <<>> => Len(c) \in 1 .. n
      BY <3>3
    <3> QED
      BY <3>1, <3>3, <3>4
  <2> QED
    BY <2>1, <2>2
<1>3. TypeOK
  <2>1. disk \in [File -> Seq(Record)]
    BY <1>1, <1>2
  <2>2. handle \in [File -> [gen : 0 .. MaxGen, next : 0 .. MaxLines + 1]]
    <3>1. Closed \in [gen : 0 .. MaxGen, next : 0 .. MaxLines + 1]
      BY DEF Closed
    <3>2. [gen |-> 1, next |-> 1] \in [gen : 0 .. MaxGen, next : 0 .. MaxLines + 1]
      OBVIOUS
    <3> QED
      BY <3>1, <3>2 DEF Init
  <2>3. reader \in [pc : {"for", "store", "read", "text", "done"},
                    todo : SUBSET File, file : File, quiet : BOOLEAN]
    BY DEF Init
  <2>4. zeekfiles \subseteq File /\ live \subseteq File /\ data \in 0 .. MaxLines
    BY DEF Init
  <2>5. /\ events \in Seq([type : {"created", "moved"}, file : File])
        /\ renamed \in Seq(File) /\ cache_lines \in Seq(Line)
        /\ put \in Seq(Line \cup {Stop}) /\ received \in Seq(Line \cup {Stop})
    BY DEF Init
  <2> QED
    BY <2>1, <2>2, <2>3, <2>4, <2>5 DEF Init, TypeOK, Record
<1>4. LogsOK
  BY <1>1, <1>2 DEF Init, LogsOK, Gen
<1>5. OnTheWay /\ OneThread
  BY DEF Init, OnTheWay, OneThread, Zeek, Text
<1> QED
  BY <1>3, <1>4, <1>5 DEF Base

(* Only zeek writes.                                                       *)
LEMMA OthersWriteNothing ==
    Next => UNCHANGED <<kind, disk>> \/ \E f \in File, t \in Captured : ZeekWrites(f, t)
<1> SUFFICES ASSUME Next
             PROVE  UNCHANGED <<kind, disk>> \/ \E f \in File, t \in Captured : ZeekWrites(f, t)
  OBVIOUS
<1>1. CASE \E f \in File : ZeekRotates(f)
  BY <1>1 DEF ZeekRotates
<1>2. CASE Observe \/ RemoverStep
  BY <1>2 DEF Observe, RemoverStep, RemoverCloses, RemoverForgets, logs
<1>3. CASE ReaderStep
  BY <1>3 DEF ReaderStep, TakeFile, StoreHandle, ReadLine, SendEarliest,
     NothingToSend, ReadText, TextEnds, logs
<1>4. CASE ReaderEnds \/ Feed
  BY <1>4 DEF ReaderEnds, Feed, logs
<1> QED
  BY <1>1, <1>2, <1>3, <1>4 DEF Next

(* Lines stay as they are written.                                         *)
LEMMA Grows ==
    ASSUME TypeOK, [Next]_vars
    PROVE  /\ kind' = kind
           /\ \A f \in File : /\ Len(disk[f]) <= Len(disk'[f])
                              /\ \A i \in DOMAIN disk[f] : /\ i \in DOMAIN disk'[f]
                                                           /\ disk'[f][i] = disk[f][i]
<1>1. disk \in [File -> Seq(Record)]
  BY DEF TypeOK, Record
<1>2. CASE \E f \in File, t \in Captured : ZeekWrites(f, t)
  <2>1. PICK f \in File, t \in Captured : ZeekWrites(f, t)
    BY <1>2
  <2>2. PICK r : disk' = [disk EXCEPT ![f] = Append(@, r)]
    BY <2>1 DEF ZeekWrites
  <2>3. ASSUME NEW g \in File
        PROVE  disk'[g] = disk[g] \/ disk'[g] = Append(disk[g], r)
    BY <1>1, <2>2
  <2>4. \A g \in File : disk[g] \in Seq(Record \cup {r})
    BY <1>1
  <2>5. ASSUME NEW g \in File
        PROVE  /\ Len(disk[g]) <= Len(disk'[g])
               /\ \A i \in DOMAIN disk[g] : /\ i \in DOMAIN disk'[g]
                                            /\ disk'[g][i] = disk[g][i]
    <3>1. CASE disk'[g] = disk[g]
      BY <2>4, <3>1
    <3>2. CASE disk'[g] = Append(disk[g], r)
      BY <2>4, <3>2
    <3> QED
      BY <2>3, <3>1, <3>2
  <2> QED
    BY <2>1, <2>5 DEF ZeekWrites
<1>3. CASE UNCHANGED <<kind, disk>>
  BY <1>1, <1>3
<1>4. Next => UNCHANGED <<kind, disk>> \/ \E f \in File, t \in Captured : ZeekWrites(f, t)
  BY OthersWriteNothing
<1> QED
  BY <1>2, <1>3, <1>4 DEF vars, logs

(* The line sent is one of those that wait, and the others go on waiting.  *)
LEMMA EarliestExists ==
    ASSUME TypeOK, OnTheWay, cache_lines # <<>>
    PROVE  LET i == Earliest(cache_lines)
           IN  /\ i \in DOMAIN cache_lines
               /\ \A j \in DOMAIN cache_lines :
                     StampOf(cache_lines[i]) <= StampOf(cache_lines[j])
<1> DEFINE c == cache_lines
           n == Len(cache_lines)
           s == [k \in 1 .. n |-> StampOf(c[k])]
<1>1. c \in Seq(Line) /\ n \in Nat /\ n > 0 /\ DOMAIN c = 1 .. n
  BY DEF TypeOK
<1>2. \A k \in 1 .. n : StampOf(c[k]) \in Int
  <2> SUFFICES ASSUME NEW k \in 1 .. n PROVE StampOf(c[k]) \in Int
    OBVIOUS
  <2>1. c[k].file \in File /\ c[k].n \in DOMAIN disk[c[k].file]
    <3>1. c[k] \in Line
      BY <1>1
    <3> QED
      BY <1>1, <3>1 DEF OnTheWay, Exists, Line
  <2>2. disk[c[k].file] \in Seq(Record)
    BY <2>1 DEF TypeOK, Record
  <2>3. disk[c[k].file][c[k].n] \in Record
    BY <2>1, <2>2
  <2> QED
    BY <2>3, InputAssumption DEF StampOf, Record
<1>3. s \in [1 .. n -> Int]
  BY <1>2
<1>4. PICK i \in 1 .. n : \A j \in 1 .. n : s[i] < s[j] \/ (s[i] = s[j] /\ i <= j)
  <2> HIDE DEF s, n
  <2> QED
    BY <1>1, <1>3, HasFirst
<1>5. \A j \in DOMAIN c : \/ StampOf(c[i]) < StampOf(c[j])
                          \/ StampOf(c[i]) = StampOf(c[j]) /\ i <= j
  BY <1>1, <1>4
<1>6. /\ Earliest(c) \in DOMAIN c
      /\ \A j \in DOMAIN c : \/ StampOf(c[Earliest(c)]) < StampOf(c[j])
                             \/ StampOf(c[Earliest(c)]) = StampOf(c[j]) /\ Earliest(c) <= j
  <2> HIDE DEF s, n, c
  <2> QED
    BY <1>1, <1>4, <1>5 DEF Earliest
<1>7. \A j \in DOMAIN c : StampOf(c[Earliest(c)]) \in Int /\ StampOf(c[j]) \in Int
  BY <1>1, <1>2, <1>6
<1> HIDE DEF s, n, c
<1> QED
  <2>1. \A j \in DOMAIN c : StampOf(c[Earliest(c)]) <= StampOf(c[j])
    BY <1>6, <1>7
  <2> QED
    BY <1>6, <2>1 DEF c

LEMMA WithoutType ==
    ASSUME NEW S, NEW s \in Seq(S), NEW i \in DOMAIN s
    PROVE  /\ Without(s, i) \in Seq(S)
           /\ Len(Without(s, i)) = Len(s) - 1
           /\ \A k \in 1 .. Len(s) - 1 :
                 Without(s, i)[k] = IF k < i THEN s[k] ELSE s[k + 1]
<1>1. i \in 1 .. Len(s) /\ Len(s) \in Nat
  OBVIOUS
<1>2. SubSeq(s, 1, i - 1) \in Seq(S) /\ Len(SubSeq(s, 1, i - 1)) = i - 1
  BY <1>1
<1>3. SubSeq(s, i + 1, Len(s)) \in Seq(S) /\ Len(SubSeq(s, i + 1, Len(s))) = Len(s) - i
  BY <1>1
<1>4. \A k \in 1 .. i - 1 : SubSeq(s, 1, i - 1)[k] = s[k]
  BY <1>1
<1>5. \A k \in 1 .. Len(s) - i : SubSeq(s, i + 1, Len(s))[k] = s[i + k]
  BY <1>1
<1> DEFINE a == SubSeq(s, 1, i - 1)
           b == SubSeq(s, i + 1, Len(s))
<1> HIDE DEF a, b
<1>6. /\ a \o b \in Seq(S) /\ Len(a \o b) = Len(s) - 1
      /\ \A k \in 1 .. Len(s) - 1 : (a \o b)[k] = IF k < i THEN a[k] ELSE b[k - (i - 1)]
  <2>1. /\ a \in Seq(S) /\ b \in Seq(S)
        /\ Len(a) = i - 1 /\ Len(b) = Len(s) - i
    BY <1>2, <1>3 DEF a, b
  <2>2. (i - 1) + (Len(s) - i) = Len(s) - 1 /\ i - 1 \in Nat /\ Len(s) - i \in Nat
    BY <1>1
  <2>3. /\ a \o b \in Seq(S) /\ Len(a \o b) = Len(a) + Len(b)
        /\ \A k \in 1 .. Len(a) + Len(b) :
              (a \o b)[k] = IF k <= Len(a) THEN a[k] ELSE b[k - Len(a)]
    BY <2>1, ConcatProperties
  <2>4. a \o b \in Seq(S) /\ Len(a \o b) = Len(s) - 1
    BY <2>1, <2>2, <2>3
  <2>5. ASSUME NEW k \in 1 .. Len(s) - 1
        PROVE  (a \o b)[k] = IF k < i THEN a[k] ELSE b[k - (i - 1)]
    <3>1. k \in 1 .. Len(a) + Len(b) /\ (k <= Len(a) <=> k < i)
      BY <1>1, <2>1, <2>2
    <3>2. (a \o b)[k] = IF k <= Len(a) THEN a[k] ELSE b[k - Len(a)]
      BY <2>3, <3>1
    <3> QED
      BY <2>1, <3>1, <3>2
  <2> QED
    BY <2>4, <2>5
<1>7. ASSUME NEW k \in 1 .. Len(s) - 1
      PROVE  (a \o b)[k] = IF k < i THEN s[k] ELSE s[k + 1]
  <2>1. CASE k < i
    BY <1>1, <1>4, <1>6, <2>1 DEF a
  <2>2. CASE ~ (k < i)
    <3>1. k - (i - 1) \in 1 .. Len(s) - i /\ i + (k - (i - 1)) = k + 1
      BY <1>1, <2>2
    <3> QED
      BY <1>5, <1>6, <2>2, <3>1 DEF b
  <2> QED
    BY <2>1, <2>2
<1> QED
  BY <1>6, <1>7 DEF Without, a, b

(* What is on its way exists after any step that sends and reads nothing.  *)
LEMMA StillExists ==
    ASSUME TypeOK, [Next]_vars, NEW l \in Line, Exists(l)
    PROVE  /\ Exists(l)' /\ StampOf(l)' = StampOf(l) /\ GenOf(l)' = GenOf(l)
<1>1. l.file \in File
  BY DEF Line
<1> QED
  BY <1>1, Grows DEF Exists, StampOf, GenOf

LEMMA BaseStep == Base /\ [Next]_vars => Base'
<1> SUFFICES ASSUME Base, [Next]_vars PROVE Base'
  OBVIOUS
<1> USE Numbers
<1>1. TypeOK /\ LogsOK /\ OnTheWay /\ OneThread
  BY DEF Base
<1>2. /\ kind \in Kind /\ disk \in [File -> Seq(Record)]
      /\ kind \in Zeek \cup Text /\ (kind \in Zeek => kind \notin Text)
  BY <1>1, InputAssumption DEF TypeOK, Record, Zeek, Text
<1>3. ASSUME NEW f \in File, NEW t \in Captured, ZeekWrites(f, t)
      PROVE  Base'
  <2>1. PICK g \in 1 .. MaxGen :
          /\ g \in {Gen(f), Gen(f) + 1}
          /\ disk' = [disk EXCEPT ![f] = Append(@, [gen |-> g, ts |-> t])]
    <3>1. CASE f \in live
      <4>1. disk[f] \in Seq(Record) /\ disk[f] # <<>>
        BY <1>1, <1>2, <3>1 DEF LogsOK
      <4>2. disk[f][Len(disk[f])] \in Record
        BY <4>1
      <4>3. Gen(f) \in 1 .. MaxGen
        BY <4>1, <4>2 DEF Gen, Record
      <4> QED
        BY <1>3, <3>1, <4>3 DEF ZeekWrites
    <3>2. CASE f \notin live
      <4>1. Gen(f) \in 0 .. MaxGen /\ Gen(f) < MaxGen
        BY <1>1, <3>2, GenType DEF LogsOK
      <4>2. Gen(f) + 1 \in 1 .. MaxGen
        BY <4>1
      <4> QED
        BY <1>3, <3>2, <4>2 DEF ZeekWrites
    <3> QED
      BY <3>1, <3>2
  <2> DEFINE r == [gen |-> g, ts |-> t]
  <2>2. r \in Record
    BY DEF Record
  <2>3. /\ disk'[f] = Append(disk[f], r)
        /\ \A h \in File \ {f} : disk'[h] = disk[h]
    BY <1>2, <2>1
  <2>4. disk' \in [File -> Seq(Record)]
    BY <1>2, <2>1, <2>2
  <2>5. /\ live' \in {live, live \cup {f}} /\ f \in live'
        /\ events' \in {events, Append(events, [type |-> "created", file |-> f])}
        /\ UNCHANGED <<kind, zeekfiles, renamed, remover, dict, reader,
                       cache_lines, queue>>
        /\ kind \notin Text /\ Len(disk[f]) < MaxLines
    BY <1>3 DEF ZeekWrites, Text
  <2>6. TypeOK'
    <3>1. events' \in Seq([type : {"created", "moved"}, file : File])
      <4> DEFINE E == [type : {"created", "moved"}, file : File]
                 e == [type |-> "created", file |-> f]
      <4>1. e \in E /\ events \in Seq(E) /\ events' \in {events, Append(events, e)}
        BY <1>1, <2>5 DEF TypeOK
      <4> HIDE DEF E, e
      <4>2. events' \in Seq(E)
        BY <4>1
      <4> QED
        BY <4>2 DEF E
    <3> HIDE DEF r
    <3>2. disk' \in [File -> Seq([gen : 1 .. MaxGen, ts : Stamp \cup Captured \cup {Skip}])]
      BY <2>4 DEF Record
    <3>3. live' \subseteq File
      BY <1>1, <2>5 DEF TypeOK
    <3>4. /\ UNCHANGED <<kind, zeekfiles, renamed, remover, handle>>
          /\ UNCHANGED <<open_file_handlers, reader, cache_lines, data, put, received>>
      BY <2>5 DEF dict, queue
    <3> QED
      BY <1>1, <3>1, <3>2, <3>3, <3>4 DEF TypeOK
  <2>7. LogsOK'
    <3>1. ASSUME NEW h \in File \ {f}
          PROVE  (Len(disk'[h]) <= MaxLines) /\ (h \in live' => disk'[h] # <<>>)
                 /\ (h \notin live' => Gen(h)' < MaxGen)
      BY <1>1, <2>3, <2>5 DEF LogsOK, Gen
    <3>2. /\ Len(disk'[f]) <= MaxLines /\ disk'[f] # <<>>
      <4>1. disk[f] \in Seq(Record) /\ Len(disk[f]) + 1 <= MaxLines
        BY <1>2, <2>5
      <4> HIDE DEF r
      <4> QED
        BY <2>2, <2>3, <4>1
    <3> QED
      BY <2>5, <3>1, <3>2 DEF LogsOK
  <2>8. OnTheWay'
    <3>1. \A k \in DOMAIN cache_lines : cache_lines[k] \in Line
      BY <1>1 DEF TypeOK
    <3>2. \A k \in DOMAIN put : put[k] \in Line \cup {Stop}
      BY <1>1 DEF TypeOK
    <3>3. \A l \in Line : Exists(l) => Exists(l)'
      BY <1>1, StillExists
    <3>4. cache_lines' = cache_lines /\ put' = put
      BY <2>5 DEF queue
    <3>5. \A k \in DOMAIN cache_lines : Exists(cache_lines[k])'
      BY <1>1, <3>1, <3>3, <3>4 DEF OnTheWay, Exists
    <3>6. \A k \in DOMAIN put : put[k] = Stop \/ Exists(put[k])'
      BY <1>1, <3>2, <3>3, <3>4 DEF OnTheWay, Exists
    <3> QED
      BY <1>1, <2>5, <3>4, <3>5, <3>6 DEF OnTheWay, queue, Exists
  <2>9. OneThread'
    BY <1>1, <2>5 DEF OneThread
  <2> QED
    BY <2>6, <2>7, <2>8, <2>9 DEF Base
<1>4. CASE UNCHANGED <<kind, disk>>
  <2>1. LogsOK /\ live' = live => LogsOK'
    BY <1>4 DEF LogsOK, Gen
  <2>2. \A l \in Line : Exists(l) => Exists(l)'
    BY <1>4 DEF Exists
  <2>3. ASSUME NEW f \in File, ZeekRotates(f)
        PROVE  Base'
    <3>1. TypeOK'
      <4> DEFINE E == [type : {"created", "moved"}, file : File]
                 e == [type |-> "moved", file |-> f]
      <4>1. e \in E /\ events \in Seq(E) /\ events' = Append(events, e)
        BY <1>1, <2>3 DEF TypeOK, ZeekRotates
      <4> HIDE DEF E, e
      <4>2. events' \in Seq(E)
        BY <4>1
      <4> QED
        BY <1>1, <2>3, <4>2 DEF TypeOK, ZeekRotates, dict, queue, E
    <3>2. LogsOK'
      BY <1>1, <2>3 DEF LogsOK, ZeekRotates, Gen
    <3>3. OnTheWay' /\ OneThread'
      BY <1>1, <2>3 DEF OnTheWay, OneThread, ZeekRotates, dict, queue, Exists, Text
    <3> QED
      BY <3>1, <3>2, <3>3 DEF Base
  <2>4. CASE Observe
    <3> DEFINE f == Head(events).file
    <3>1. /\ events # <<>> /\ events' = Tail(events)
          /\ \/ zeekfiles' = zeekfiles \cup {f} /\ renamed' = renamed
             \/ renamed' = Append(renamed, f) /\ zeekfiles' = zeekfiles
          /\ UNCHANGED <<logs, remover, dict, reader, cache_lines, queue>>
      BY <2>4 DEF Observe
    <3>2. Tail(events) \in Seq([type : {"created", "moved"}, file : File]) /\ f \in File
      <4> DEFINE E == [type : {"created", "moved"}, file : File]
      <4>1. events \in Seq(E)
        BY <1>1 DEF TypeOK
      <4> HIDE DEF E
      <4>2. Tail(events) \in Seq(E) /\ Head(events) \in E
        BY <3>1, <4>1
      <4> QED
        BY <4>2 DEF E
    <3> HIDE DEF f
    <3>3. renamed' \in Seq(File) /\ (renamed # <<>> => renamed' # <<>>)
      <4>1. renamed \in Seq(File) /\ f \in File
        BY <1>1, <3>2 DEF TypeOK
      <4>2. Append(renamed, f) \in Seq(File) /\ Append(renamed, f) # <<>>
        BY <4>1, AppendProperties
      <4> QED
        BY <3>1, <4>1, <4>2
    <3>4. TypeOK'
      BY <1>1, <3>1, <3>2, <3>3 DEF TypeOK, logs, dict, queue
    <3>5. OnTheWay' /\ OneThread'
      BY <1>1, <3>1, <3>3 DEF OnTheWay, OneThread, logs, dict, queue, Exists
    <3> QED
      BY <1>1, <2>1, <3>1, <3>4, <3>5 DEF Base, logs
  <2>5. CASE RemoverStep
    <3>1. /\ renamed' \in Seq(File) /\ (remover' = "forget" => renamed' # <<>>)
          /\ renamed = <<>> => renamed' = <<>>
      <4>1. renamed \in Seq(File) /\ (renamed # <<>> => Tail(renamed) \in Seq(File))
        BY <1>1 DEF TypeOK
      <4>2. CASE RemoverCloses
        BY <4>1, <4>2 DEF RemoverCloses
      <4>3. CASE RemoverForgets
        BY <1>1, <4>1, <4>3 DEF RemoverForgets, OnTheWay
      <4> QED
        BY <2>5, <4>2, <4>3 DEF RemoverStep
    <3>2. handle' \in [File -> [gen : 0 .. MaxGen, next : 0 .. MaxLines + 1]]
      <4>1. Closed \in [gen : 0 .. MaxGen, next : 0 .. MaxLines + 1]
        BY DEF Closed
      <4> QED
        BY <1>1, <2>5, <4>1 DEF TypeOK, RemoverStep, RemoverCloses, RemoverForgets
    <3>3. /\ UNCHANGED <<logs, zeekfiles, events, reader, cache_lines, queue>>
          /\ remover' \in {"wait", "forget"} /\ open_file_handlers' \subseteq File
          /\ kind \in Text => handle' = handle
      BY <1>1, <2>5 DEF TypeOK, OnTheWay, OneThread, RemoverStep, RemoverCloses, RemoverForgets
    <3>4. TypeOK'
      BY <1>1, <3>1, <3>2, <3>3 DEF TypeOK, logs, queue
    <3>5. OnTheWay' /\ OneThread'
      BY <1>1, <3>1, <3>3 DEF OnTheWay, OneThread, logs, queue, Exists
    <3> QED
      BY <1>1, <2>1, <3>3, <3>4, <3>5 DEF Base, logs
  <2>6. ASSUME NEW f \in File, TakeFile(f)
        PROVE  Base'
    <3>1. handle' \in [File -> [gen : 0 .. MaxGen, next : 0 .. MaxLines + 1]]
      <4>1. ASSUME f \in live
            PROVE  Opened(f) \in [gen : 0 .. MaxGen, next : 0 .. MaxLines + 1]
        <5>1. disk[f] # <<>> /\ disk[f] \in Seq(Record) /\ Len(disk[f]) <= MaxLines
          BY <1>1, <1>2, <4>1 DEF LogsOK
        <5>2. /\ Gen(f) \in 0 .. MaxGen /\ Opened(f).next \in 0 .. MaxLines + 1
              /\ Opened(f).gen = Gen(f)
          BY <1>1, <5>1, GenType, OpenedType
        <5>3. Opened(f) = [gen |-> Opened(f).gen, next |-> Opened(f).next]
          BY DEF Opened
        <5> QED
          BY <5>2, <5>3
      <4> QED
        BY <1>1, <2>6, <4>1 DEF TypeOK, TakeFile
    <3>2. /\ UNCHANGED <<logs, monitor, remover, open_file_handlers, cache_lines, queue>>
          /\ reader' \in [pc : {"for", "store", "read", "text", "done"},
                          todo : SUBSET File, file : File, quiet : BOOLEAN]
          /\ kind \notin Text /\ reader'.pc # "text"
      BY <1>1, <2>6 DEF TypeOK, OneThread, TakeFile
    <3>3. TypeOK'
      BY <1>1, <3>1, <3>2 DEF TypeOK, logs, monitor, queue
    <3>4. OnTheWay' /\ OneThread'
      BY <1>1, <3>2 DEF OnTheWay, OneThread, logs, monitor, queue, Exists
    <3> QED
      BY <1>1, <2>1, <3>2, <3>3, <3>4 DEF Base, logs
  <2>7. CASE StoreHandle \/ NothingToSend
    <3>1. /\ UNCHANGED <<logs, monitor, remover, handle, cache_lines, queue>>
          /\ open_file_handlers' \subseteq File
          /\ reader' \in [pc : {"for", "store", "read", "text", "done"},
                          todo : SUBSET File, file : File, quiet : BOOLEAN]
          /\ kind \notin Text /\ reader'.pc # "text"
      BY <1>1, <2>7 DEF TypeOK, OneThread, StoreHandle, NothingToSend, dict
    <3>2. TypeOK'
      BY <1>1, <3>1 DEF TypeOK, logs, monitor, queue
    <3>3. OnTheWay' /\ OneThread'
      BY <1>1, <3>1 DEF OnTheWay, OneThread, logs, monitor, queue, Exists
    <3> QED
      BY <1>1, <2>1, <3>1, <3>2, <3>3 DEF Base, logs
  <2>8. CASE ReadLine
    <3> DEFINE f == reader.file
               l == LineOf(f, handle[f].next)
    <3>1. f \in File /\ handle[f] \in [gen : 0 .. MaxGen, next : 0 .. MaxLines + 1]
      BY <1>1 DEF TypeOK
    <3>2. More(f) => l \in Line /\ Exists(l) /\ handle[f].next + 1 \in 0 .. MaxLines + 1
      <4>1. disk[f] \in Seq(Record) /\ Len(disk[f]) <= MaxLines
        BY <1>1, <1>2, <3>1 DEF LogsOK
      <4>2. More(f) => handle[f].next \in 1 .. Len(disk[f])
        BY <4>1 DEF More
      <4> QED
        BY <3>1, <4>1, <4>2 DEF Line, LineOf, Exists
    <3>3. handle' \in [File -> [gen : 0 .. MaxGen, next : 0 .. MaxLines + 1]]
      <4>1. \/ handle' = [handle EXCEPT ![f].next = @]
            \/ More(f) /\ handle' = [handle EXCEPT ![f].next = @ + 1]
        BY <2>8 DEF ReadLine
      <4>2. handle \in [File -> [gen : 0 .. MaxGen, next : 0 .. MaxLines + 1]]
        BY <1>1 DEF TypeOK
      <4> HIDE DEF f
      <4> QED
        BY <3>1, <3>2, <4>1, <4>2
    <3>4. cache_lines' = cache_lines \/ (More(f) /\ cache_lines' = Append(cache_lines, l))
      BY <2>8 DEF ReadLine
    <3>5. /\ UNCHANGED <<logs, monitor, remover, open_file_handlers, queue>>
          /\ reader' \in [pc : {"for", "store", "read", "text", "done"},
                          todo : SUBSET File, file : File, quiet : BOOLEAN]
          /\ kind \notin Text /\ reader'.pc # "text"
      BY <1>1, <2>8 DEF TypeOK, OneThread, ReadLine
    <3>6. cache_lines' \in Seq(Line) /\ \A k \in DOMAIN cache_lines' : Exists(cache_lines'[k])
      <4>1. cache_lines \in Seq(Line) /\ \A k \in DOMAIN cache_lines : Exists(cache_lines[k])
        BY <1>1 DEF TypeOK, OnTheWay
      <4> HIDE DEF f, l
      <4> QED
        BY <3>2, <3>4, <4>1
    <3> HIDE DEF f, l
    <3>7. TypeOK'
      BY <1>1, <3>3, <3>5, <3>6 DEF TypeOK, logs, monitor, queue
    <3>8. OnTheWay' /\ OneThread'
      BY <1>1, <3>5, <3>6 DEF OnTheWay, OneThread, logs, monitor, queue, Exists
    <3> QED
      BY <1>1, <2>1, <3>5, <3>7, <3>8 DEF Base, logs
  <2>9. CASE SendEarliest
    <3> DEFINE i == Earliest(cache_lines)
               l == cache_lines[i]
    <3>1. cache_lines \in Seq(Line) /\ i \in DOMAIN cache_lines
      BY <1>1, <2>9, EarliestExists DEF TypeOK, SendEarliest
    <3>2. /\ put' = Append(put, l) /\ cache_lines' = Without(cache_lines, i)
          /\ reader' \in [pc : {"for", "store", "read", "text", "done"},
                          todo : SUBSET File, file : File, quiet : BOOLEAN]
          /\ kind \notin Text /\ reader'.pc # "text"
          /\ UNCHANGED <<logs, monitor, remover, dict, data, received>>
      BY <1>1, <2>9 DEF TypeOK, OneThread, SendEarliest
    <3> HIDE DEF i
    <3>3. l \in Line /\ Exists(l)
      BY <1>1, <3>1 DEF OnTheWay
    <3>4. put' \in Seq(Line \cup {Stop}) /\ Len(put') = Len(put) + 1
          /\ \A k \in DOMAIN put' : put'[k] = Stop \/ Exists(put'[k])
      <4>1. put \in Seq(Line \cup {Stop}) /\ \A k \in DOMAIN put : put[k] = Stop \/ Exists(put[k])
        BY <1>1 DEF TypeOK, OnTheWay
      <4> HIDE DEF l
      <4> QED
        BY <3>2, <3>3, <4>1
    <3>5. cache_lines' \in Seq(Line) /\ \A k \in DOMAIN cache_lines' : Exists(cache_lines'[k])
      <4>1. /\ cache_lines' \in Seq(Line) /\ Len(cache_lines') = Len(cache_lines) - 1
            /\ \A k \in 1 .. Len(cache_lines) - 1 :
                  cache_lines'[k] = IF k < i THEN cache_lines[k] ELSE cache_lines[k + 1]
        BY <3>1, <3>2, WithoutType
      <4>2. \A k \in DOMAIN cache_lines : Exists(cache_lines[k])
        BY <1>1 DEF OnTheWay
      <4> QED
        BY <3>1, <4>1, <4>2
    <3> HIDE DEF l
    <3>6. TypeOK'
      BY <1>1, <3>2, <3>4, <3>5 DEF TypeOK, logs, monitor, dict
    <3>7. Len(received') <= Len(put')
      <4>1. Len(received) \in Nat /\ Len(put) \in Nat /\ Len(received) <= Len(put)
        BY <1>1 DEF TypeOK, OnTheWay
      <4> QED
        BY <3>2, <3>4, <4>1
    <3>8. OnTheWay' /\ OneThread'
      BY <1>1, <3>2, <3>4, <3>5, <3>7 DEF OnTheWay, OneThread, logs, monitor, Exists
    <3> QED
      BY <1>1, <2>1, <3>2, <3>6, <3>8 DEF Base, logs
  <2>10. ASSUME NEW l \in Line \cup {Stop}, l = Stop \/ Exists(l),
                \/ put' = put
                \/ put' = Append(put, l)
         PROVE  /\ put' \in Seq(Line \cup {Stop}) /\ Len(put) <= Len(put')
                /\ \A k \in DOMAIN put' : put'[k] = Stop \/ Exists(put'[k])
                /\ \A k \in DOMAIN put' : (k \in DOMAIN put /\ put'[k] = put[k]) \/ put'[k] = l
    <3>1. put \in Seq(Line \cup {Stop}) /\ \A k \in DOMAIN put : put[k] = Stop \/ Exists(put[k])
      BY <1>1 DEF TypeOK, OnTheWay
    <3>2. CASE put' = put
      BY <3>1, <3>2
    <3>3. CASE put' = Append(put, l)
      BY <2>10, <3>1, <3>3
    <3> QED
      BY <2>10, <3>2, <3>3
  <2>11. Len(received) \in Nat /\ Len(put) \in Nat /\ Len(received) <= Len(put)
    BY <1>1 DEF TypeOK, OnTheWay
  <2>12. ASSUME put' = put \o Ends(kind)
         PROVE  put' = put \/ put' = Append(put, Stop)
    <3>1. put \in Seq(Line \cup {Stop})
      BY <1>1 DEF TypeOK
    <3>2. put \o <<>> = put /\ put \o <<Stop>> = Append(put, Stop)
      BY <3>1
    <3> QED
      BY <2>12, <3>2 DEF Ends
  <2>13. CASE TextEnds \/ ReaderEnds
    <3>1. /\ put' \in Seq(Line \cup {Stop}) /\ Len(put) <= Len(put')
          /\ \A k \in DOMAIN put' : put'[k] = Stop \/ Exists(put'[k])
          /\ \A k \in DOMAIN put' : (k \in DOMAIN put /\ put'[k] = put[k]) \/ put'[k] = Stop
      BY <2>10, <2>12, <2>13 DEF TextEnds, ReaderEnds
    <3>2. /\ UNCHANGED <<logs, monitor, remover, dict, cache_lines, data, received>>
          /\ reader' \in [pc : {"for", "store", "read", "text", "done"},
                          todo : SUBSET File, file : File, quiet : BOOLEAN]
          /\ reader'.pc = "done"
      BY <1>1, <2>13 DEF TypeOK, TextEnds, ReaderEnds
    <3>3. TypeOK'
      BY <1>1, <3>1, <3>2 DEF TypeOK, logs, monitor, dict
    <3>4. Len(received') <= Len(put')
      BY <2>11, <3>1, <3>2
    <3>5. OnTheWay' /\ OneThread'
      BY <1>1, <3>1, <3>2, <3>4 DEF OnTheWay, OneThread, logs, monitor, dict, Exists
    <3> QED
      BY <1>1, <2>1, <3>2, <3>3, <3>5 DEF Base, logs
  <2>14. CASE ReadText
    <3> DEFINE l == LineOf(Given, handle[Given].next)
    <3>1. /\ handle[Given] \in [gen : 0 .. MaxGen, next : 0 .. MaxLines + 1]
          /\ disk[Given] \in Seq(Record) /\ Len(disk[Given]) <= MaxLines
      BY <1>1, <1>2 DEF TypeOK, LogsOK
    <3>2. l \in Line /\ Exists(l) /\ l.n = handle[Given].next /\ l.file = Given
          /\ handle[Given].next + 1 \in 0 .. MaxLines + 1
      <4>1. handle[Given].next \in 1 .. Len(disk[Given])
        BY <2>14, <3>1 DEF ReadText, More
      <4> QED
        BY <3>1, <4>1 DEF Line, LineOf, Exists
    <3>3. /\ UNCHANGED <<logs, monitor, remover, open_file_handlers, reader, cache_lines, received>>
          /\ (data' = l.n /\ put' = Append(put, l)) \/ (data' \in {data, l.n} /\ put' = put)
          /\ handle' = [handle EXCEPT ![Given].next = @ + 1]
          /\ kind \in Text
      BY <1>1, <1>2, <2>14 DEF ReadText, OneThread, Assigned, Puts
    <3>4. /\ put' \in Seq(Line \cup {Stop}) /\ Len(put) <= Len(put')
          /\ \A k \in DOMAIN put' : put'[k] = Stop \/ Exists(put'[k])
          /\ \A k \in DOMAIN put' : (k \in DOMAIN put /\ put'[k] = put[k]) \/ put'[k] = l
      <4> HIDE DEF l
      <4> QED
        BY <2>10, <3>2, <3>3
    <3>5. handle' \in [File -> [gen : 0 .. MaxGen, next : 0 .. MaxLines + 1]]
          /\ handle'[Given].next = l.n + 1
      <4>1. handle \in [File -> [gen : 0 .. MaxGen, next : 0 .. MaxLines + 1]]
        BY <1>1 DEF TypeOK
      <4> QED
        BY <3>1, <3>2, <3>3, <4>1
    <3> HIDE DEF l
    <3>6. data \in 0 .. MaxLines /\ data < l.n /\ l.n \in 1 .. MaxLines
      BY <1>1, <3>2, <3>3 DEF TypeOK, OneThread, Line
    <3>7. data' \in 0 .. MaxLines /\ data <= data' /\ data' < handle'[Given].next
      BY <3>3, <3>5, <3>6
    <3>8. TypeOK'
      BY <1>1, <3>3, <3>4, <3>5, <3>7 DEF TypeOK, logs, monitor
    <3>9. Len(received') <= Len(put')
      BY <2>11, <3>3, <3>4
    <3>10. OnTheWay'
      BY <1>1, <3>3, <3>4, <3>9 DEF OnTheWay, logs, monitor, Exists
    <3>11. ASSUME NEW k \in DOMAIN put'
           PROVE  put'[k] = Stop \/ (put'[k].file = Given /\ put'[k].n <= data')
      <4>1. CASE k \in DOMAIN put /\ put'[k] = put[k] /\ put[k] # Stop
        <5>1. put[k].file = Given /\ put[k].n <= data
          BY <1>1, <3>3, <4>1 DEF OneThread
        <5>2. put[k].n \in Int
          <6>1. put[k] \in Line
            BY <1>1, <4>1 DEF TypeOK
          <6> QED
            BY <6>1 DEF Line
        <5> QED
          BY <3>6, <3>7, <4>1, <5>1, <5>2
      <4>2. CASE put'[k] = l /\ put' = Append(put, l)
        BY <3>2, <3>3, <3>6, <4>2
      <4>3. put' = put => k \in DOMAIN put /\ put'[k] = put[k]
        OBVIOUS
      <4> QED
        BY <3>3, <3>4, <4>1, <4>2, <4>3
    <3>12. OneThread'
      BY <1>1, <1>2, <3>3, <3>7, <3>11 DEF OneThread, logs, monitor
    <3> QED
      BY <1>1, <2>1, <3>3, <3>8, <3>10, <3>12 DEF Base, logs
  <2>15. CASE Feed
    <3> DEFINE l == put[Len(received) + 1]
    <3>1. /\ Len(received) < Len(put) /\ received' = Append(received, Pickled(l))
          /\ UNCHANGED <<logs, monitor, remover, dict, reader, cache_lines, data, put>>
      BY <2>15 DEF Feed
    <3>2. Len(received) + 1 \in DOMAIN put /\ l \in Line \cup {Stop}
      <4>1. put \in Seq(Line \cup {Stop})
        BY <1>1 DEF TypeOK
      <4> QED
        BY <2>11, <3>1, <4>1
    <3>3. Pickled(l) \in Line \cup {Stop}
      <4>1. CASE kind \in Text /\ l # Stop
        <5>1. l \in Line /\ l.n <= data /\ data \in 0 .. MaxLines
          BY <1>1, <3>2, <4>1 DEF OneThread, TypeOK
        <5>2. data \in 1 .. MaxLines
          BY <5>1 DEF Line
        <5> QED
          BY <4>1, <5>2 DEF Pickled, Line, LineOf
      <4>2. CASE ~ (kind \in Text /\ l # Stop)
        BY <3>2, <4>2 DEF Pickled
      <4> QED
        BY <4>1, <4>2
    <3> HIDE DEF l
    <3>4. received' \in Seq(Line \cup {Stop}) /\ Len(received') <= Len(put')
      <4>1. received \in Seq(Line \cup {Stop})
        BY <1>1 DEF TypeOK
      <4> QED
        BY <2>11, <3>1, <3>3, <4>1
    <3>5. TypeOK'
      BY <1>1, <3>1, <3>4 DEF TypeOK, logs, monitor, dict
    <3>6. OnTheWay' /\ OneThread'
      BY <1>1, <3>1, <3>4 DEF OnTheWay, OneThread, logs, monitor, dict, Exists
    <3> QED
      BY <1>1, <2>1, <3>1, <3>5, <3>6 DEF Base, logs
  <2>16. CASE UNCHANGED vars
    BY <1>1, <2>16 DEF vars, logs, monitor, dict, queue, Base, TypeOK, LogsOK,
       OnTheWay, OneThread, Exists, Gen
  <2>17. \A f \in File, t \in Captured : ZeekWrites(f, t) => Base'
    BY <1>3
  <2> QED
    BY <2>3, <2>4, <2>5, <2>6, <2>7, <2>8, <2>9, <2>13, <2>14, <2>15, <2>16, <2>17
    DEF Next, ReaderStep
<1>5. Next => UNCHANGED <<kind, disk>> \/ \E f \in File, t \in Captured : ZeekWrites(f, t)
  BY <1>1, OthersWriteNothing
<1> QED
  BY <1>3, <1>4, <1>5 DEF vars, logs

(* Files, lines, threads and dictionary are what they should be.           *)
THEOREM TypeCorrect == Spec => []TypeOK
<1>1. Init => Base
  BY BaseInit
<1>2. Base /\ [Next]_vars => Base'
  BY BaseStep
<1>3. Base => TypeOK
  BY DEF Base
<1> QED
  BY <1>1, <1>2, <1>3, PTL DEF Spec

-----------------------------------------------------------------------------
(* The dictionary *)

(* What has arrived in the place of a line, and that of the lines read     *)
(* those to be sent have been put: the dictionary holds one of them, or a  *)
(* blank one.                                                              *)
FedOK ==
    /\ \A i \in DOMAIN received :
          IF ~ Shared(i) THEN received[i] = put[i]
          ELSE /\ received[i] \in Line /\ received[i].file = Given
               /\ put[i].n <= received[i].n /\ received[i].n <= data
               /\ Puts(received[i]) \/ kind \in KeepsBlank
               /\ \A j \in DOMAIN received :
                     i <= j /\ Shared(j) => received[i].n <= received[j].n
    /\ kind \in Text =>
          /\ \A n \in 1 .. handle[Given].next - 1 :
                Puts(LineOf(Given, n)) => \E k \in DOMAIN put : put[k] = LineOf(Given, n)
          /\ data = 0 \/ kind \in KeepsBlank \/ Puts(LineOf(Given, data))

FedInv == Base /\ FedOK

LEMMA KindIsOne ==
    ASSUME Base
    PROVE  kind \in Zeek \cup Text /\ (kind \in Zeek => kind \notin Text)
BY InputAssumption DEF Base, TypeOK, Zeek, Text

(* In the text inputs only the reader and the feeder are at work.          *)
LEMMA TextSteps ==
    ASSUME Base, kind \in Text, Next
    PROVE  /\ UNCHANGED <<kind, disk>>
           /\ \/ ReadText \/ Feed \/ TextEnds
              \/ UNCHANGED <<handle, queue>>
<1>1. kind \notin {"folder", "pcap", "interface"} /\ events = <<>> /\ renamed = <<>>
        /\ reader.pc \in {"text", "done"} /\ (remover = "forget" => FALSE)
  BY DEF Base, OneThread, OnTheWay, Text
<1>2. ~ \E f \in File, t \in Captured : ZeekWrites(f, t)
  BY <1>1 DEF ZeekWrites
<1>3. ~ \E f \in File : ZeekRotates(f)
  BY <1>1 DEF ZeekRotates
<1>4. ~ Observe /\ ~ RemoverStep /\ ~ ReaderEnds
  BY <1>1 DEF Observe, RemoverStep, RemoverCloses, RemoverForgets, ReaderEnds
<1>5. ~ \E f \in File : TakeFile(f)
  BY <1>1 DEF TakeFile
<1>6. ~ StoreHandle /\ ~ ReadLine /\ ~ SendEarliest /\ ~ NothingToSend
  BY <1>1 DEF StoreHandle, ReadLine, SendEarliest, NothingToSend
<1>7. ReadText \/ Feed \/ TextEnds
  BY <1>2, <1>3, <1>4, <1>5, <1>6 DEF Next, ReaderStep
<1>8. UNCHANGED <<kind, disk>>
  BY <1>7 DEF ReadText, Feed, TextEnds, logs
<1> QED
  BY <1>7, <1>8

(* Zeek: every line is an object of its own.                               *)
LEMMA FedOfZeek ==
    ASSUME FedInv, Base', kind \in Zeek, Next
    PROVE  FedOK'
<1>1. /\ Base /\ FedOK /\ kind' = kind /\ kind \notin Text
  BY Grows, KindIsOne DEF FedInv, Base
<1>2. /\ put \in Seq(Line \cup {Stop}) /\ received \in Seq(Line \cup {Stop})
      /\ Len(received) <= Len(put)
  BY <1>1 DEF Base, TypeOK, OnTheWay
<1>3. \A i \in DOMAIN received : i \in DOMAIN put /\ received[i] = put[i]
  BY <1>1, <1>2 DEF FedOK, Shared
<1>4. ASSUME received' = received, NEW l, put' = put \/ put' = Append(put, l)
      PROVE  \A i \in DOMAIN received' : received'[i] = put'[i]
  <2>1. \A i \in DOMAIN put : i \in DOMAIN put' /\ put'[i] = put[i]
    <3>1. put \in Seq(Line \cup {Stop} \cup {l})
      BY <1>2
    <3> QED
      BY <1>4, <3>1
  <2> QED
    BY <1>3, <1>4, <2>1
<1>5. CASE Feed
  <2> DEFINE n == Len(received) + 1
  <2>1. /\ received' = Append(received, put[n]) /\ put' = put
        /\ n \in DOMAIN put
    BY <1>1, <1>2, <1>5 DEF Feed, Pickled
  <2>2. put[n] \in Line \cup {Stop}
    BY <1>2, <2>1
  <2>3. \A i \in DOMAIN received' : received'[i] = put'[i]
    BY <1>2, <1>3, <2>1, <2>2
  <2> QED
    BY <1>1, <2>3 DEF FedOK, Shared
<1>6. CASE SendEarliest \/ ReaderEnds
  <2>1. received' = received /\ \E l : put' = put \/ put' = Append(put, l)
    <3>1. put \o <<>> = put /\ put \o <<Stop>> = Append(put, Stop)
      BY <1>2
    <3> QED
      BY <1>6, <3>1 DEF SendEarliest, ReaderEnds, Ends
  <2> QED
    BY <1>1, <1>4, <2>1 DEF FedOK, Shared
<1>7. CASE UNCHANGED queue
  BY <1>1, <1>4, <1>7 DEF FedOK, Shared, queue
<1>8. UNCHANGED queue \/ Feed \/ SendEarliest \/ ReaderEnds
  <2>1. ~ ReadText /\ ~ TextEnds
    BY <1>1 DEF ReadText, TextEnds, Base, OneThread
  <2>2. CASE \E f \in File, t \in Captured : ZeekWrites(f, t)
    BY <2>2 DEF ZeekWrites
  <2>3. CASE \E f \in File : ZeekRotates(f)
    BY <2>3 DEF ZeekRotates
  <2>4. CASE Observe \/ RemoverStep
    BY <2>4 DEF Observe, RemoverStep, RemoverCloses, RemoverForgets
  <2>5. CASE \E f \in File : TakeFile(f)
    BY <2>5 DEF TakeFile
  <2>6. CASE StoreHandle \/ ReadLine \/ NothingToSend
    BY <2>6 DEF StoreHandle, ReadLine, NothingToSend
  <2> QED
    BY <2>1, <2>2, <2>3, <2>4, <2>5, <2>6 DEF Next, ReaderStep
<1> QED
  BY <1>5, <1>6, <1>7, <1>8

(* Text: a line is read, or the dictionary pickled.                        *)
LEMMA FedOfText ==
    ASSUME FedInv, Base', kind \in Text, Next
    PROVE  FedOK'
<1> USE Numbers
<1>1. /\ Base /\ FedOK /\ UNCHANGED <<kind, disk>>
  BY TextSteps DEF FedInv
<1>2. /\ put \in Seq(Line \cup {Stop}) /\ received \in Seq(Line \cup {Stop})
      /\ Len(received) \in Nat /\ Len(put) \in Nat /\ Len(received) <= Len(put)
      /\ \A i \in DOMAIN received : i \in DOMAIN put
  <2>1. /\ put \in Seq(Line \cup {Stop}) /\ received \in Seq(Line \cup {Stop})
        /\ Len(received) <= Len(put)
    BY <1>1 DEF Base, TypeOK, OnTheWay
  <2> QED
    BY <2>1
<1>3. data \in 0 .. MaxLines /\ handle[Given].next \in 0 .. MaxLines + 1
        /\ data < handle[Given].next
  BY <1>1 DEF Base, TypeOK, OneThread
<1>5. ASSUME \A i \in DOMAIN put : i \in DOMAIN put' /\ put'[i] = put[i]
      PROVE  \A i \in DOMAIN received : Shared(i)' <=> Shared(i)
  BY <1>1, <1>2, <1>5 DEF Shared
<1>6. CASE ReadText
  <2> DEFINE l == LineOf(Given, handle[Given].next)
  <2>1. /\ received' = received
        /\ data' = Assigned(l)
        /\ put' = IF Puts(l) THEN Append(put, l) ELSE put
        /\ handle' = [handle EXCEPT ![Given].next = @ + 1]
    BY <1>6 DEF ReadText
  <2>2. /\ l \in Line /\ l.n \in Nat /\ l.n = handle[Given].next
        /\ handle'[Given].next = l.n + 1
    <3>1. disk[Given] \in Seq(Record) /\ Len(disk[Given]) <= MaxLines
            /\ handle \in [File -> [gen : 0 .. MaxGen, next : 0 .. MaxLines + 1]]
      BY <1>1 DEF Base, TypeOK, LogsOK, Record
    <3>2. handle[Given].next \in 1 .. Len(disk[Given])
      BY <1>6, <3>1 DEF ReadText, More
    <3> QED
      BY <2>1, <3>1, <3>2 DEF Line, LineOf
  <2>3. l = LineOf(Given, l.n) /\ l.n = handle[Given].next
    BY <2>2
  <2> HIDE DEF l
  <2>4. /\ data <= data' /\ data' \in Int
        /\ \A i \in DOMAIN put : i \in DOMAIN put' /\ put'[i] = put[i]
    <3>1. data' \in {data, l.n}
      BY <2>1 DEF Assigned
    <3>2. put \in Seq(Line \cup {Stop}) /\ (put' = put \/ put' = Append(put, l))
      BY <1>2, <2>1
    <3>3. \A i \in DOMAIN put : i \in DOMAIN put' /\ put'[i] = put[i]
      BY <2>2, <3>2
    <3> QED
      BY <1>3, <2>2, <3>1, <3>3
  <2>5. ASSUME NEW i \in DOMAIN received'
        PROVE  IF ~ Shared(i)' THEN received'[i] = put'[i]
               ELSE /\ received'[i] \in Line /\ received'[i].file = Given
                    /\ put'[i].n <= received'[i].n /\ received'[i].n <= data'
                    /\ Puts(received'[i]) \/ kind \in KeepsBlank
                    /\ \A j \in DOMAIN received' :
                          i <= j /\ Shared(j)' => received'[i].n <= received'[j].n
    <3>1. /\ i \in DOMAIN received /\ i \in DOMAIN put /\ received'[i] = received[i]
          /\ put'[i] = put[i] /\ (Shared(i)' <=> Shared(i))
          /\ \A j \in DOMAIN received : Shared(j)' <=> Shared(j)
      BY <1>2, <1>5, <2>1, <2>4
    <3>2. CASE ~ Shared(i)
      BY <1>1, <3>1, <3>2 DEF FedOK
    <3>3. CASE Shared(i)
      <4>1. /\ received[i] \in Line /\ received[i].file = Given
            /\ put[i].n <= received[i].n /\ received[i].n <= data
            /\ Puts(received[i]) \/ kind \in KeepsBlank
            /\ \A j \in DOMAIN received :
                   i <= j /\ Shared(j) => received[i].n <= received[j].n
        BY <1>1, <3>1, <3>3 DEF FedOK
      <4>2. received[i].n <= data'
        <5>1. received[i].n \in Int
          BY <4>1 DEF Line
        <5> QED
          BY <1>3, <2>4, <4>1, <5>1
      <4> QED
        BY <1>1, <2>1, <3>1, <3>3, <4>1, <4>2
    <3> QED
      BY <3>2, <3>3
  <2>6. ASSUME NEW n \in 1 .. handle'[Given].next - 1, Puts(LineOf(Given, n))
        PROVE  \E k \in DOMAIN put' : put'[k] = LineOf(Given, n)
    <3>1. CASE n = l.n
      <4>1. put' = Append(put, l)
        BY <2>1, <2>3, <2>6, <3>1
      <4>2. Len(put) + 1 \in DOMAIN put' /\ put'[Len(put) + 1] = l
        BY <1>2, <2>2, <4>1
      <4> QED
        BY <2>3, <3>1, <4>2
    <3>2. CASE n # l.n
      <4>1. n \in 1 .. handle[Given].next - 1
        BY <1>3, <2>2, <2>3, <3>2
      <4>2. PICK k \in DOMAIN put : put[k] = LineOf(Given, n)
        BY <1>1, <2>6, <4>1 DEF FedOK
      <4> QED
        BY <2>4, <4>2
    <3> QED
      BY <3>1, <3>2
  <2>7. data' = 0 \/ kind \in KeepsBlank \/ Puts(LineOf(Given, data'))
    <3>1. CASE data' = data
      BY <1>1, <3>1 DEF FedOK
    <3>2. CASE Puts(l) \/ kind \in KeepsBlank
      BY <2>1, <2>3, <3>2 DEF Assigned
    <3> QED
      BY <2>1, <3>1, <3>2 DEF Assigned
  <2> QED
    BY <1>1, <2>5, <2>6, <2>7 DEF FedOK, Puts, StampOf, LineOf
<1>7. CASE Feed
  <2> DEFINE n == Len(received) + 1
             l == put[n]
  <2>1. /\ received' = Append(received, Pickled(l)) /\ n \in DOMAIN put
        /\ UNCHANGED <<data, put, handle>>
    BY <1>2, <1>7 DEF Feed, dict
  <2>2. l \in Line \cup {Stop}
    BY <1>2, <2>1
  <2>3. Shared(n) <=> l # Stop
    BY DEF Shared
  <2>4. l = Stop => Pickled(l) = l
    BY DEF Pickled
  <2>5. ASSUME l # Stop
        PROVE  /\ Pickled(l) \in Line /\ Pickled(l).file = Given
               /\ l.n <= Pickled(l).n /\ Pickled(l).n = data
               /\ Puts(Pickled(l)) \/ kind \in KeepsBlank
    <3>1. l.n <= data /\ l \in Line
      BY <1>1, <2>1, <2>2, <2>5 DEF Base, OneThread
    <3>2. data \in 1 .. MaxLines
      BY <1>3, <3>1 DEF Line
    <3>3. Pickled(l) = LineOf(Given, data) /\ LineOf(Given, data) = [file |-> Given, n |-> data]
      BY <2>5 DEF Pickled, LineOf
    <3>4. Puts(LineOf(Given, data)) \/ kind \in KeepsBlank
      BY <1>1, <3>2 DEF FedOK
    <3> QED
      BY <3>1, <3>2, <3>3, <3>4 DEF Line
  <2> HIDE DEF l
  <2>6. Pickled(l) \in Line \cup {Stop}
    BY <2>2, <2>4, <2>5
  <2>7. /\ \A i \in DOMAIN received' :
              \/ i \in DOMAIN received /\ i < n /\ received'[i] = received[i]
              \/ i = n /\ received'[i] = Pickled(l)
        /\ n \in Nat
    BY <1>2, <2>1, <2>6
  <2>8. \A i : Shared(i)' <=> Shared(i)
    BY <1>1, <2>1 DEF Shared
  <2>9. l = put[n]
    BY DEF l
  <2> HIDE DEF n
  <2>10. ASSUME NEW i \in DOMAIN received'
         PROVE  IF ~ Shared(i) THEN received'[i] = put[i]
                ELSE /\ received'[i] \in Line /\ received'[i].file = Given
                     /\ put[i].n <= received'[i].n /\ received'[i].n <= data
                     /\ Puts(received'[i]) \/ kind \in KeepsBlank
                     /\ \A j \in DOMAIN received' :
                           i <= j /\ Shared(j) => received'[i].n <= received'[j].n
    <3>1. CASE ~ Shared(i)
      <4>1. CASE i \in DOMAIN received /\ received'[i] = received[i]
        BY <1>1, <3>1, <4>1 DEF FedOK
      <4>2. CASE i = n /\ received'[i] = Pickled(l)
        BY <2>3, <2>4, <2>9, <3>1, <4>2
      <4> QED
        BY <2>7, <3>1, <4>1, <4>2
    <3>2. CASE Shared(i) /\ i = n /\ received'[i] = Pickled(l)
      <4>1. \A j \in DOMAIN received' : i <= j => j = n
        BY <1>2, <2>7, <3>2
      <4> QED
        BY <1>3, <2>3, <2>5, <2>9, <3>2, <4>1
    <3>3. CASE Shared(i) /\ i \in DOMAIN received /\ received'[i] = received[i]
      <4>1. /\ received[i] \in Line /\ received[i].file = Given
            /\ put[i].n <= received[i].n /\ received[i].n <= data
            /\ Puts(received[i]) \/ kind \in KeepsBlank
            /\ \A j \in DOMAIN received :
                   i <= j /\ Shared(j) => received[i].n <= received[j].n
        BY <1>1, <3>3 DEF FedOK
      <4>2. ASSUME NEW j \in DOMAIN received', i <= j, Shared(j)
            PROVE  received'[i].n <= received'[j].n
        <5>1. CASE j \in DOMAIN received /\ received'[j] = received[j]
          BY <3>3, <4>1, <4>2, <5>1
        <5>2. CASE j = n /\ received'[j] = Pickled(l)
          BY <2>3, <2>5, <3>3, <4>1, <4>2, <5>2
        <5> QED
          BY <2>7, <5>1, <5>2
      <4> QED
        BY <3>3, <4>1, <4>2
    <3> QED
      BY <2>7, <3>1, <3>2, <3>3
  <2> QED
    BY <1>1, <2>1, <2>8, <2>10 DEF FedOK, Puts, StampOf, LineOf
<1>8. CASE TextEnds \/ UNCHANGED <<handle, queue>>
  <2>1. /\ UNCHANGED <<received, data, handle>>
        /\ put' = put \/ put' = Append(put, Stop)
    <3>1. put \o <<>> = put /\ put \o <<Stop>> = Append(put, Stop)
      BY <1>2
    <3> QED
      BY <1>8, <3>1 DEF TextEnds, Ends, dict, queue
  <2>2. \A i \in DOMAIN put : i \in DOMAIN put' /\ put'[i] = put[i]
    BY <1>2, <2>1
  <2>3. \A i \in DOMAIN received : (Shared(i)' <=> Shared(i)) /\ put'[i] = put[i]
    BY <1>2, <1>5, <2>2
  <2>4. \A i \in DOMAIN received' :
           IF ~ Shared(i)' THEN received'[i] = put'[i]
           ELSE /\ received'[i] \in Line /\ received'[i].file = Given
                /\ put'[i].n <= received'[i].n /\ received'[i].n <= data'
                /\ Puts(received'[i]) \/ kind \in KeepsBlank
                /\ \A j \in DOMAIN received' :
                      i <= j /\ Shared(j)' => received'[i].n <= received'[j].n
    BY <1>1, <2>1, <2>3 DEF FedOK
  <2>5. /\ \A n \in 1 .. handle'[Given].next - 1 :
              Puts(LineOf(Given, n)) => \E k \in DOMAIN put' : put'[k] = LineOf(Given, n)
        /\ data' = 0 \/ kind \in KeepsBlank \/ Puts(LineOf(Given, data'))
    BY <1>1, <2>1, <2>2 DEF FedOK
  <2> QED
    BY <1>1, <2>4, <2>5 DEF FedOK, Puts, StampOf, LineOf
<1> QED
  BY <1>6, <1>7, <1>8, TextSteps, <1>1

LEMMA FedStep == FedInv /\ [Next]_vars => FedInv'
<1> SUFFICES ASSUME FedInv, [Next]_vars PROVE FedInv'
  OBVIOUS
<1>1. Base /\ Base' /\ FedOK
  BY BaseStep DEF FedInv
<1>2. CASE Next
  BY <1>1, <1>2, KindIsOne, FedOfZeek, FedOfText DEF FedInv
<1>3. CASE UNCHANGED vars
  BY <1>1, <1>3 DEF FedInv, FedOK, Shared, Puts, StampOf, vars, logs, dict, queue
<1> QED
  BY <1>2, <1>3

(* In the place of a line of a text ProfilerProcess receives that line or  *)
(* a later one, in order and never a skipped one, and the line put last is *)
(* not lost; lines of zeek and the stop arrive as they were put.           *)
THEOREM DictionaryNeverBehind == Spec => []NeverBehind
<1>1. Init => FedInv
  <2>1. Init => FedOK
    BY Numbers DEF Init, FedOK, Shared, Text
  <2> QED
    BY <2>1, BaseInit DEF FedInv
<1>2. FedInv => NeverBehind
  <2> SUFFICES ASSUME FedInv, NEW i \in DOMAIN received, Shared(i)
               PROVE  IsLast(i) =>
                        \A n \in put[i].n + 1 .. received[i].n : ~ Puts(LineOf(Given, n))
    BY DEF FedInv, FedOK, NeverBehind
  <2>1. /\ put \in Seq(Line \cup {Stop}) /\ i \in DOMAIN put
        /\ kind \in Text /\ put[i] # Stop
        /\ data \in 0 .. MaxLines /\ handle[Given].next \in 0 .. MaxLines + 1
        /\ data < handle[Given].next
    BY Numbers DEF FedInv, Base, TypeOK, OnTheWay, OneThread, Shared
  <2>2. /\ received[i] \in Line /\ received[i].n <= data
        /\ \A n \in 1 .. handle[Given].next - 1 :
              Puts(LineOf(Given, n)) => \E k \in DOMAIN put : put[k] = LineOf(Given, n)
    BY <2>1 DEF FedInv, FedOK
  <2>3. put[i].n \in 1 .. MaxLines /\ received[i].n \in 1 .. MaxLines
    <3>1. put[i] \in Line
      BY <2>1
    <3> QED
      BY <2>2, <3>1 DEF Line
  <2>4. ASSUME IsLast(i), NEW n \in put[i].n + 1 .. received[i].n,
               Puts(LineOf(Given, n))
        PROVE  FALSE
    <3>1. n \in 1 .. handle[Given].next - 1 /\ ~ (n <= put[i].n)
      BY <2>1, <2>2, <2>3, Numbers
    <3>2. PICK k \in DOMAIN put : put[k] = LineOf(Given, n)
      BY <2>2, <2>4, <3>1
    <3> QED
      BY <2>4, <3>1, <3>2 DEF IsLast, LineOf
  <2> QED
    BY <2>4
<1> QED
  BY <1>1, <1>2, FedStep, PTL DEF Spec

-----------------------------------------------------------------------------
(* A folder *)

AllSorted == \A f \in File : LogSorted(f)

Opening(f) == f \in open_file_handlers \/ (reader.pc = "store" /\ reader.file = f)

Unread(f) == {n \in DOMAIN disk[f] : handle[f].next <= n}

(* Nobody writes, renames or closes the logs of a folder.                  *)
FolderAtRest ==
    /\ events = <<>> /\ renamed = <<>> /\ zeekfiles = File
    /\ \A f \in File : /\ f \notin live => disk[f] = <<>>
                       /\ \A i \in DOMAIN disk[f] : disk[f][i].gen = 1

HandlesOK ==
    /\ \A f \in File : IF Opening(f) THEN handle[f].gen = 1 /\ handle[f].next >= 1
                       ELSE handle[f] = Closed
    /\ reader.pc \in {"store", "read"} => reader.file \in reader.todo
    /\ reader.pc = "read" => reader.file \in open_file_handlers

(* What is sent is not later than what waits and what is not read yet; and *)
(* of each file that is looked at one line waits, unless it is read.       *)
Merging ==
    /\ \A m \in DOMAIN cache_lines :
          cache_lines[m].n < handle[cache_lines[m].file].next
    /\ \A k \in DOMAIN put : put[k] # Stop =>
          \A m \in DOMAIN cache_lines : StampOf(put[k]) <= StampOf(cache_lines[m])
    /\ \A k \in DOMAIN put : put[k] # Stop =>
          \A f \in File : \A n \in Unread(f) : StampOf(put[k]) <= disk[f][n].ts
    /\ \A f \in File :
          reader.pc = "done" \/ f \in reader.todo \/ Waits(f) \/ Unread(f) = {}
    /\ \A i, j \in DOMAIN put : i < j /\ put[j] # Stop =>
          put[i] # Stop /\ StampOf(put[i]) <= StampOf(put[j])
    /\ \A i \in DOMAIN put : put[i] = Stop => reader.pc = "done"

MergeInv ==
    /\ Base
    /\ kind = "folder" /\ AllSorted => FolderAtRest /\ HandlesOK /\ Merging

LEMMA MergeInit == Init => MergeInv
<1> SUFFICES ASSUME Init, kind = "folder" PROVE FolderAtRest /\ HandlesOK /\ Merging
  BY BaseInit DEF MergeInv
<1> USE Numbers
<1>1. Base /\ kind \notin Text
  BY BaseInit DEF Text
<1>2. FolderAtRest
  <2>1. \A c \in Contents : \A i \in DOMAIN c : c[i].gen = 1
    BY DEF Contents
  <2>2. disk \in [File -> Contents]
    BY DEF Init
  <2> QED
    BY <2>1, <2>2 DEF Init, FolderAtRest
<1>3. HandlesOK
  BY <1>1 DEF Init, HandlesOK, Opening
<1>4. Merging
  BY <1>1 DEF Init, Merging
<1> QED
  BY <1>2, <1>3, <1>4

(* The timestamps of lines are numbers.                                    *)
LEMMA StampType ==
    ASSUME TypeOK, NEW l \in Line, Exists(l)
    PROVE  /\ StampOf(l) \in Int /\ l.file \in File /\ l.n \in DOMAIN disk[l.file]
           /\ StampOf(l) = disk[l.file][l.n].ts
<1>1. l.file \in File /\ l.n \in DOMAIN disk[l.file]
  BY DEF Line, Exists
<1>2. disk[l.file] \in Seq(Record)
  BY <1>1 DEF TypeOK, Record
<1>3. disk[l.file][l.n] \in Record
  BY <1>1, <1>2
<1> QED
  BY <1>1, <1>3, InputAssumption DEF StampOf, Record

(* A step over a folder at rest is one of the reader or of the feeder.     *)
LEMMA FolderSteps ==
    ASSUME Base, kind = "folder", FolderAtRest, Next
    PROVE  /\ UNCHANGED <<logs, monitor>>
           /\ \/ \E f \in File : TakeFile(f)
              \/ StoreHandle
              \/ ReadLine
              \/ SendEarliest
              \/ NothingToSend
              \/ ReaderEnds
              \/ Feed
<1>1. kind \notin Text /\ reader.pc # "text" /\ kind \notin {"pcap", "interface"}
  BY DEF Base, OneThread, Zeek, Text
<1>2. ~ (\E f \in File, t \in Captured : ZeekWrites(f, t))
  BY <1>1 DEF ZeekWrites
<1>3. ~ (\E f \in File : ZeekRotates(f)) /\ ~ Observe /\ ~ RemoverStep
  BY <1>1 DEF ZeekRotates, Observe, RemoverStep, RemoverCloses, RemoverForgets,
     FolderAtRest, Base, OnTheWay
<1>4. ~ ReadText /\ ~ TextEnds
  BY <1>1 DEF ReadText, TextEnds
<1>5. \/ \E f \in File : TakeFile(f)
      \/ StoreHandle \/ ReadLine \/ SendEarliest \/ NothingToSend
      \/ ReaderEnds \/ Feed
  BY <1>2, <1>3, <1>4 DEF Next, ReaderStep
<1>6. UNCHANGED <<logs, monitor>>
  BY <1>5 DEF TakeFile, StoreHandle, ReadLine, SendEarliest, NothingToSend,
     ReaderEnds, Feed
<1> QED
  BY <1>5, <1>6

LEMMA HandlesStep ==
    ASSUME Base, kind = "folder", FolderAtRest, HandlesOK, Next
    PROVE  HandlesOK'
<1> USE Numbers
<1>1. /\ TypeOK
      /\ handle \in [File -> [gen : 0 .. MaxGen, next : 0 .. MaxLines + 1]]
      /\ reader \in [pc : {"for", "store", "read", "text", "done"},
                     todo : SUBSET File, file : File, quiet : BOOLEAN]
  BY DEF Base, TypeOK
<1>2. ASSUME NEW f \in File, TakeFile(f)
      PROVE  HandlesOK'
  <2>1. f \in live => Opened(f).gen = 1 /\ Opened(f).next >= 1
    <3> SUFFICES ASSUME f \in live PROVE Opened(f).gen = 1 /\ Opened(f).next >= 1
      OBVIOUS
    <3>1. disk[f] # <<>> /\ disk[f] \in Seq(Record)
      BY DEF Base, LogsOK, TypeOK, Record
    <3>2. /\ Opened(f).gen = Gen(f) /\ Opened(f).next \in DOMAIN disk[f]
          /\ disk[f][Opened(f).next].gen = Gen(f)
      BY <1>1, <3>1, OpenedType
    <3>3. Opened(f).next \in 1 .. Len(disk[f])
      BY <3>1, <3>2
    <3> QED
      BY <3>2, <3>3 DEF FolderAtRest
  <2> QED
    BY <1>1, <1>2, <2>1 DEF TakeFile, HandlesOK, Opening
<1>3. CASE StoreHandle
  BY <1>1, <1>3 DEF StoreHandle, HandlesOK, Opening
<1>4. CASE ReadLine
  <2>1. \/ handle' = [handle EXCEPT ![reader.file].next = @ + 1]
        \/ handle' = [handle EXCEPT ![reader.file].next = @]
    BY <1>4 DEF ReadLine
  <2>2. \A f \in File : /\ handle'[f].gen = handle[f].gen
                       /\ handle'[f].next \in {handle[f].next, handle[f].next + 1}
                       /\ f # reader.file => handle'[f] = handle[f]
    BY <1>1, <2>1
  <2> QED
    BY <1>1, <1>4, <2>2 DEF ReadLine, HandlesOK, Opening
<1>5. CASE SendEarliest \/ NothingToSend \/ ReaderEnds
  BY <1>1, <1>5 DEF SendEarliest, NothingToSend, ReaderEnds, HandlesOK, Opening, dict
<1>6. CASE Feed
  BY <1>6 DEF Feed, HandlesOK, Opening, dict
<1> QED
  BY <1>2, <1>3, <1>4, <1>5, <1>6, FolderSteps

LEMMA MergingStep ==
    ASSUME Base, Base', kind = "folder", AllSorted, FolderAtRest, HandlesOK,
           Merging, Next
    PROVE  Merging'
<1> USE Numbers
<1>1. /\ TypeOK /\ OnTheWay
      /\ handle \in [File -> [gen : 0 .. MaxGen, next : 0 .. MaxLines + 1]]
      /\ reader \in [pc : {"for", "store", "read", "text", "done"},
                     todo : SUBSET File, file : File, quiet : BOOLEAN]
      /\ cache_lines \in Seq(Line) /\ put \in Seq(Line \cup {Stop})
  BY DEF Base, TypeOK
<1>2. UNCHANGED <<logs, monitor>> /\ UNCHANGED disk
  BY FolderSteps DEF logs
<1>3. \A l : StampOf(l)' = StampOf(l)
  BY <1>2 DEF StampOf
<1>4. \A f \in File : disk[f] \in Seq(Record) /\ \A n \in DOMAIN disk[f] :
         disk[f][n].ts \in Int /\ LineOf(f, n) \in Line /\ Exists(LineOf(f, n))
  <2> SUFFICES ASSUME NEW f \in File, NEW n \in DOMAIN disk[f]
               PROVE  disk[f][n].ts \in Int /\ LineOf(f, n) \in Line /\ Exists(LineOf(f, n))
    BY <1>1 DEF TypeOK, Record
  <2>1. disk[f] \in Seq(Record) /\ Len(disk[f]) <= MaxLines
    BY <1>1 DEF TypeOK, Record, Base, LogsOK
  <2>2. n \in 1 .. MaxLines
    BY <2>1
  <2>3. LineOf(f, n) \in Line /\ Exists(LineOf(f, n))
    BY <2>2 DEF LineOf, Line, Exists
  <2> QED
    BY <1>1, <2>3, StampType DEF LineOf
<1>5. \A m \in DOMAIN cache_lines : cache_lines[m] \in Line /\ Exists(cache_lines[m])
  BY <1>1 DEF OnTheWay
<1>6. \A k \in DOMAIN put : put[k] # Stop => put[k] \in Line /\ Exists(put[k])
  BY <1>1 DEF OnTheWay
<1>7. ASSUME NEW f \in File, TakeFile(f)
      PROVE  Merging'
  <2>1. UNCHANGED <<cache_lines, put>> /\ reader.pc = "for"
    BY <1>7 DEF TakeFile, queue
  <2>2. ASSUME NEW g \in File
        PROVE  \/ handle'[g] = handle[g]
               \/ g = f /\ handle[g] = Closed /\ f \in live /\ handle'[g] = Opened(g)
    BY <1>1, <1>7, <2>1 DEF TakeFile, HandlesOK, Opening
  <2>3. ASSUME NEW g \in File
        PROVE  Unread(g)' \subseteq Unread(g)
    <3>1. \A n \in DOMAIN disk[g] : n >= 0
      BY <1>4
    <3> QED
      BY <1>2, <2>2, <3>1 DEF Unread, Closed
  <2>4. \A m \in DOMAIN cache_lines :
           cache_lines[m].n < handle'[cache_lines[m].file].next
    <3> SUFFICES ASSUME NEW m \in DOMAIN cache_lines
                 PROVE  cache_lines[m].n < handle'[cache_lines[m].file].next
      OBVIOUS
    <3>1. cache_lines[m].file \in File /\ cache_lines[m].n \in 1 .. MaxLines
      BY <1>5 DEF Line
    <3>2. cache_lines[m].n < handle[cache_lines[m].file].next
      BY DEF Merging
    <3>3. handle[cache_lines[m].file] # Closed
      BY <3>1, <3>2 DEF Closed
    <3> QED
      BY <2>2, <3>1, <3>2, <3>3
  <2>5. \A g \in File : g \in reader'.todo \/ Waits(g)' \/ Unread(g)' = {}
    <3> SUFFICES ASSUME NEW g \in File, g \notin reader'.todo, ~ Waits(g)'
                 PROVE  Unread(g)' = {}
      OBVIOUS
    <3>1. ~ Waits(g)
      BY <2>1 DEF Waits
    <3>2. CASE g \in reader.todo
      <4>1. g = f /\ f \notin live
        BY <1>1, <1>7, <3>2 DEF TakeFile
      <4>2. disk[g] = <<>>
        BY <4>1 DEF FolderAtRest
      <4> QED
        BY <1>2, <4>2 DEF Unread
    <3>3. CASE g \notin reader.todo
      BY <2>1, <2>3, <3>1, <3>3 DEF Merging
    <3> QED
      BY <3>2, <3>3
  <2> QED
    BY <1>2, <1>3, <2>1, <2>3, <2>4, <2>5 DEF Merging
<1>8. CASE StoreHandle \/ NothingToSend
  <2>1. /\ UNCHANGED <<handle, cache_lines, put>>
        /\ reader'.todo = reader.todo \/ reader'.todo = File
        /\ reader.pc # "done"
    BY <1>1, <1>8 DEF StoreHandle, NothingToSend, queue, dict, FolderAtRest
  <2>2. \A f \in File : Unread(f)' = Unread(f) /\ Waits(f)' = Waits(f)
    BY <1>2, <2>1 DEF Unread, Waits
  <2> QED
    BY <1>2, <1>3, <2>1, <2>2 DEF Merging
<1>9. CASE ReaderEnds
  <2>1. /\ UNCHANGED <<handle, cache_lines>>
        /\ reader.pc = "for" /\ reader'.pc = "done"
    BY <1>1, <1>9 DEF ReaderEnds, dict
  <2>2. put' = Append(put, Stop)
    <3>1. put \o <<Stop>> = Append(put, Stop)
      BY <1>1
    <3> QED
      BY <1>9, <3>1 DEF ReaderEnds, Ends
  <2>3. \A f \in File : Unread(f)' = Unread(f)
    BY <1>2, <2>1 DEF Unread
  <2>4. /\ \A k \in DOMAIN put' : put'[k] # Stop => k \in DOMAIN put /\ put'[k] = put[k]
        /\ \A k \in DOMAIN put : k \in DOMAIN put' /\ put'[k] = put[k]
        /\ \A i, j \in DOMAIN put' : i < j => i \in DOMAIN put
    BY <1>1, <2>2
  <2> QED
    BY <1>2, <1>3, <2>1, <2>3, <2>4 DEF Merging
<1>10. CASE Feed
  BY <1>2, <1>3, <1>10 DEF Feed, Merging, Unread, Waits, dict
<1>11. CASE ReadLine
  <2> DEFINE f == reader.file
             n == handle[f].next
             l == LineOf(f, n)
             read == ~ Waits(f) /\ handle[f] # Closed /\ More(f)
  <2>1. f \in File /\ f \in reader.todo /\ reader.pc = "read"
    BY <1>1, <1>11 DEF ReadLine, HandlesOK
  <2>2. handle[f].gen = 1 /\ n \in Nat /\ n >= 1 /\ handle[f] # Closed
    BY <1>1, <2>1 DEF HandlesOK, Opening, Closed
  <2>3. More(f) <=> n \in DOMAIN disk[f]
    BY <2>1, <2>2 DEF More, FolderAtRest
  <2>4. /\ put' = put
        /\ read => handle' = [handle EXCEPT ![f].next = @ + 1]
        /\ ~ read => handle' = [handle EXCEPT ![f].next = @]
        /\ cache_lines' = IF read /\ StampOf(l) # Skip
                          THEN Append(cache_lines, l) ELSE cache_lines
        /\ reader' = [reader EXCEPT !.pc = "for", !.todo = @ \ {f},
                                    !.quiet = @ /\ ~ read]
    BY <1>11 DEF ReadLine, queue
  <2>5. /\ \A g \in File : g # f => handle'[g] = handle[g]
        /\ handle'[f].next = IF read THEN n + 1 ELSE n
    BY <1>1, <2>1, <2>4
  <2>6. reader'.todo = reader.todo \ {f} /\ reader'.pc = "for"
    BY <1>1, <2>4
  <2>7. CASE read
    <3>1. n \in DOMAIN disk[f] /\ l \in Line /\ Exists(l) /\ StampOf(l) = disk[f][n].ts
      BY <1>4, <2>1, <2>3, <2>7 DEF StampOf, LineOf
    <3>2. StampOf(l) # Skip
      BY <2>1, <3>1 DEF AllSorted, LogSorted
    <3>3. cache_lines' = Append(cache_lines, l)
      BY <2>4, <2>7, <3>2
    <3>4. /\ \A m \in DOMAIN cache_lines : m \in DOMAIN cache_lines' /\ cache_lines'[m] = cache_lines[m]
          /\ \A m \in DOMAIN cache_lines' :
                \/ m \in DOMAIN cache_lines /\ cache_lines'[m] = cache_lines[m]
                \/ cache_lines'[m] = l
          /\ \E m \in DOMAIN cache_lines' : cache_lines'[m] = l
      <4>1. cache_lines \in Seq(Line)
        BY <1>1
      <4> HIDE DEF l
      <4>2. Len(cache_lines) + 1 \in DOMAIN Append(cache_lines, l)
            /\ Append(cache_lines, l)[Len(cache_lines) + 1] = l
        BY <3>1, <4>1
      <4> QED
        BY <3>1, <3>3, <4>1, <4>2
    <3>5. l.file = f /\ l.n = n
      BY DEF LineOf
    <3>6. \A g \in File : Unread(g)' \subseteq Unread(g) /\ (Waits(g) \/ g = f => Waits(g)')
      <4>1. \A g \in File : Waits(g) => Waits(g)'
        BY <3>4 DEF Waits
      <4>2. \A g \in File : g = f => Waits(g)'
        BY <3>4, <3>5 DEF Waits
      <4>3. \A g \in File : Unread(g)' \subseteq Unread(g)
        <5> SUFFICES ASSUME NEW g \in File, NEW k \in DOMAIN disk[g], handle'[g].next <= k
                     PROVE  handle[g].next <= k
          BY <1>2 DEF Unread
        <5>1. k \in Int
          BY <1>4
        <5> QED
          BY <2>2, <2>5, <2>7, <5>1
      <4> QED
        BY <4>1, <4>2, <4>3
    <3>7. n \in Unread(f)
      BY <2>2, <3>1 DEF Unread
    <3>8. \A m \in DOMAIN cache_lines' : cache_lines'[m].n < handle'[cache_lines'[m].file].next
      <4> SUFFICES ASSUME NEW m \in DOMAIN cache_lines'
                   PROVE  cache_lines'[m].n < handle'[cache_lines'[m].file].next
        OBVIOUS
      <4>1. CASE cache_lines'[m] = l
        BY <2>2, <2>5, <2>7, <3>5, <4>1
      <4>2. CASE m \in DOMAIN cache_lines /\ cache_lines'[m] = cache_lines[m]
        <5>1. cache_lines[m].n < handle[cache_lines[m].file].next
          BY <4>2 DEF Merging
        <5>2. cache_lines[m].file \in File /\ cache_lines[m].n \in Int
          BY <1>5, <4>2 DEF Line
        <5>3. CASE cache_lines[m].file = f
          BY <2>2, <2>5, <2>7, <4>2, <5>1, <5>2, <5>3
        <5>4. CASE cache_lines[m].file # f
          BY <2>5, <4>2, <5>1, <5>2, <5>4
        <5> QED
          BY <5>3, <5>4
      <4> QED
        BY <3>4, <4>1, <4>2
    <3>9. \A k \in DOMAIN put : put[k] # Stop =>
             \A m \in DOMAIN cache_lines' : StampOf(put[k]) <= StampOf(cache_lines'[m])
      <4> SUFFICES ASSUME NEW k \in DOMAIN put, put[k] # Stop, NEW m \in DOMAIN cache_lines'
                   PROVE  StampOf(put[k]) <= StampOf(cache_lines'[m])
        OBVIOUS
      <4>1. CASE cache_lines'[m] = l
        BY <2>1, <3>1, <3>7, <4>1 DEF Merging
      <4>2. CASE m \in DOMAIN cache_lines /\ cache_lines'[m] = cache_lines[m]
        BY <4>2 DEF Merging
      <4> QED
        BY <3>4, <4>1, <4>2
    <3>10. \A g \in File : g \in reader'.todo \/ Waits(g)' \/ Unread(g)' = {}
      BY <2>1, <2>6, <3>6 DEF Merging
    <3> HIDE DEF f, n, l, read
    <3> QED
      BY <1>2, <1>3, <2>1, <2>4, <3>6, <3>8, <3>9, <3>10 DEF Merging
  <2>8. CASE ~ read
    <3>1. cache_lines' = cache_lines
      BY <2>4, <2>8
    <3>2. \A g \in File : handle'[g].next = handle[g].next /\ Unread(g)' = Unread(g) /\ Waits(g)' = Waits(g)
      BY <1>2, <2>5, <2>8, <3>1 DEF Unread, Waits
    <3>3. Waits(f) \/ Unread(f) = {}
      <4>1. CASE n \notin DOMAIN disk[f]
        <5>1. disk[f] \in Seq(Record)
          BY <1>4, <2>1
        <5> QED
          BY <2>1, <2>2, <4>1, <5>1 DEF Unread
      <4>2. CASE n \in DOMAIN disk[f]
        BY <2>2, <2>3, <2>8, <4>2
      <4> QED
        BY <4>1, <4>2
    <3>4. \A m \in DOMAIN cache_lines : cache_lines[m].file \in File
      BY <1>5 DEF Line
    <3> HIDE DEF f, n, l, read
    <3>5. \A g \in File : g \in reader'.todo \/ Waits(g)' \/ Unread(g)' = {}
      BY <2>1, <2>6, <3>2, <3>3 DEF Merging
    <3> QED
      BY <1>2, <1>3, <2>1, <2>4, <3>1, <3>2, <3>4, <3>5 DEF Merging
  <2> QED
    BY <2>7, <2>8
<1>12. CASE SendEarliest
  <2> DEFINE i == Earliest(cache_lines)
             l == cache_lines[i]
  <2>1. /\ i \in DOMAIN cache_lines
        /\ \A m \in DOMAIN cache_lines : StampOf(l) <= StampOf(cache_lines[m])
    BY <1>1, <1>12, EarliestExists DEF SendEarliest
  <2>2. /\ put' = Append(put, l) /\ cache_lines' = Without(cache_lines, i)
        /\ reader.pc = "for" /\ reader.todo = {} /\ reader'.todo = File
        /\ UNCHANGED handle
    BY <1>1, <1>12 DEF SendEarliest, dict, FolderAtRest
  <2>3. l \in Line /\ Exists(l) /\ l # Stop
    BY <1>5, <2>1, StopIsNoLine
  <2>4. \A m \in DOMAIN cache_lines' : \E k \in DOMAIN cache_lines : cache_lines'[m] = cache_lines[k]
    <3> HIDE DEF i, l
    <3>1. /\ cache_lines' \in Seq(Line) /\ Len(cache_lines') = Len(cache_lines) - 1
          /\ \A k \in 1 .. Len(cache_lines) - 1 :
                cache_lines'[k] = IF k < i THEN cache_lines[k] ELSE cache_lines[k + 1]
      <4>1. /\ cache_lines \in Seq(Line) /\ i \in DOMAIN cache_lines
            /\ cache_lines' = Without(cache_lines, i)
        BY <1>1, <2>1, <2>2
      <4> QED
        BY <4>1, WithoutType
    <3>2. i \in 1 .. Len(cache_lines) /\ Len(cache_lines) \in Nat
      BY <1>1, <2>1
    <3> SUFFICES ASSUME NEW m \in DOMAIN cache_lines'
                 PROVE  \E k \in DOMAIN cache_lines : cache_lines'[m] = cache_lines[k]
      OBVIOUS
    <3>3. m \in 1 .. Len(cache_lines) - 1
      BY <3>1, <3>2
    <3>4. m \in DOMAIN cache_lines /\ m + 1 \in DOMAIN cache_lines
      BY <1>1, <3>2, <3>3
    <3> QED
      BY <3>1, <3>3, <3>4
  <2> HIDE DEF i, l
  <2>5. /\ \A k \in DOMAIN put : k \in DOMAIN put' /\ put'[k] = put[k]
        /\ \A k \in DOMAIN put' : \/ k \in DOMAIN put /\ put'[k] = put[k]
                                  \/ k = Len(put) + 1 /\ put'[k] = l
        /\ \A j, k \in DOMAIN put' : j < k => j \in DOMAIN put
    BY <1>1, <2>2, <2>3
  <2>6. \A f \in File : Unread(f)' = Unread(f)
    BY <1>2, <2>2 DEF Unread
  <2>7. \A f \in File : \A n \in Unread(f) : StampOf(l) <= disk[f][n].ts
    <3> SUFFICES ASSUME NEW f \in File, NEW n \in Unread(f)
                 PROVE  StampOf(l) <= disk[f][n].ts
      OBVIOUS
    <3>1. Waits(f)
      BY <2>2 DEF Merging
    <3>2. PICK m \in DOMAIN cache_lines : cache_lines[m].file = f
      BY <3>1 DEF Waits
    <3>3. cache_lines[m] \in Line /\ Exists(cache_lines[m]) /\ cache_lines[m].n < handle[f].next
      BY <1>5, <3>2 DEF Merging
    <3>4. n \in DOMAIN disk[f] /\ handle[f].next <= n
      BY DEF Unread
    <3>5. cache_lines[m].n \in Int /\ handle[f].next \in Int /\ n \in Int /\ cache_lines[m].n \in DOMAIN disk[f]
      <4>1. \A k \in DOMAIN disk[f] : k \in Int
        BY <1>4
      <4>2. cache_lines[m].n \in DOMAIN disk[f]
        BY <3>2, <3>3 DEF Exists
      <4>3. handle[f].next \in 0 .. MaxLines + 1
        BY <1>1
      <4> QED
        BY <3>4, <4>1, <4>2, <4>3
    <3>6. disk[f][cache_lines[m].n].ts <= disk[f][n].ts
      BY <3>3, <3>4, <3>5 DEF AllSorted, LogSorted
    <3>7. StampOf(l) <= StampOf(cache_lines[m]) /\ StampOf(cache_lines[m]) = disk[f][cache_lines[m].n].ts
      BY <2>1, <3>2 DEF StampOf
    <3>8. StampOf(l) \in Int /\ disk[f][cache_lines[m].n].ts \in Int /\ disk[f][n].ts \in Int
      BY <1>1, <1>4, <2>3, <3>4, <3>5, StampType
    <3> QED
      BY <3>6, <3>7, <3>8
  <2>8. \A k \in DOMAIN put : put[k] # Stop /\ StampOf(put[k]) <= StampOf(l)
    BY <2>1, <2>2 DEF Merging, l
  <2>9. \A k \in DOMAIN put' : put'[k] # Stop
    BY <2>3, <2>5, <2>8
  <2>10. \A m \in DOMAIN cache_lines' :
            /\ cache_lines'[m].n < handle[cache_lines'[m].file].next
            /\ \A k \in DOMAIN put' : StampOf(put'[k]) <= StampOf(cache_lines'[m])
    <3> SUFFICES ASSUME NEW m \in DOMAIN cache_lines'
                 PROVE  /\ cache_lines'[m].n < handle[cache_lines'[m].file].next
                        /\ \A k \in DOMAIN put' : StampOf(put'[k]) <= StampOf(cache_lines'[m])
      OBVIOUS
    <3>1. PICK j \in DOMAIN cache_lines : cache_lines'[m] = cache_lines[j]
      BY <2>4
    <3>2. cache_lines[j].n < handle[cache_lines[j].file].next
      BY DEF Merging
    <3>3. \A k \in DOMAIN put : StampOf(put[k]) <= StampOf(cache_lines[j])
      BY <2>8 DEF Merging
    <3>4. StampOf(l) <= StampOf(cache_lines[j])
      BY <2>1
    <3> QED
      BY <2>5, <3>1, <3>2, <3>3, <3>4
  <2>11. \A k \in DOMAIN put' : \A f \in File : \A n \in Unread(f) : StampOf(put'[k]) <= disk[f][n].ts
    BY <2>5, <2>7, <2>8 DEF Merging
  <2>12. \A j, k \in DOMAIN put' : j < k => StampOf(put'[j]) <= StampOf(put'[k])
    <3> SUFFICES ASSUME NEW j \in DOMAIN put', NEW k \in DOMAIN put', j < k
                 PROVE  StampOf(put'[j]) <= StampOf(put'[k])
      OBVIOUS
    <3>1. j \in DOMAIN put /\ put'[j] = put[j]
      BY <2>5
    <3>2. CASE k \in DOMAIN put /\ put'[k] = put[k]
      BY <2>8, <3>1, <3>2 DEF Merging
    <3>3. CASE put'[k] = l
      BY <2>8, <3>1, <3>3
    <3> QED
      BY <2>5, <3>2, <3>3
  <2> QED
    BY <1>2, <1>3, <2>2, <2>6, <2>9, <2>10, <2>11, <2>12 DEF Merging
<1> QED
  BY <1>7, <1>8, <1>9, <1>10, <1>11, <1>12, FolderSteps

(* The sorted logs of a folder are merged into one sorted sequence.        *)
THEOREM FolderIsSorted == Spec => []FolderSorted
<1>1. MergeInv /\ [Next]_vars => MergeInv'
  <2> SUFFICES ASSUME MergeInv, [Next]_vars PROVE MergeInv'
    OBVIOUS
  <2>1. Base /\ Base' /\ kind' = kind
    BY BaseStep, Grows DEF MergeInv, Base
  <2>2. CASE UNCHANGED vars
    BY <2>1, <2>2 DEF MergeInv, vars, logs, monitor, dict, queue, AllSorted,
       LogSorted, FolderAtRest, HandlesOK, Opening, Merging, Unread, Waits, StampOf
  <2>3. ASSUME Next, kind = "folder", AllSorted'
        PROVE  FolderAtRest' /\ HandlesOK' /\ Merging'
    <3>1. UNCHANGED disk
      BY <2>3, OthersWriteNothing DEF ZeekWrites
    <3>2. AllSorted
      BY <2>3, <3>1 DEF AllSorted, LogSorted
    <3>3. FolderAtRest /\ HandlesOK /\ Merging
      BY <2>3, <3>2 DEF MergeInv
    <3>4. FolderAtRest'
      BY <2>1, <2>3, <3>3, FolderSteps DEF FolderAtRest, logs, monitor
    <3> QED
      BY <2>1, <2>3, <3>2, <3>3, <3>4, HandlesStep, MergingStep
  <2> QED
    BY <2>1, <2>2, <2>3 DEF MergeInv
<1>2. MergeInv => FolderSorted
  BY DEF MergeInv, AllSorted, Merging, FolderSorted
<1> QED
  BY <1>1, <1>2, MergeInit, PTL DEF Spec

-----------------------------------------------------------------------------
(* How often something is in a sequence *)

At(s, x) == {i \in DOMAIN s : s[i] = x}
Count(s, x) == Cardinality(At(s, x))

LEMMA CountType ==
    ASSUME NEW S, NEW s \in Seq(S), NEW x
    PROVE  /\ IsFiniteSet(At(s, x)) /\ Count(s, x) \in Nat
           /\ Count(s, x) = 0 <=> \A i \in DOMAIN s : s[i] # x
<1>1. At(s, x) \subseteq 1 .. Len(s) /\ Len(s) \in Int
  BY DEF At
<1>2. IsFiniteSet(1 .. Len(s))
  BY <1>1, FS_Interval
<1>3. IsFiniteSet(At(s, x))
  BY <1>1, <1>2, FS_Subset
<1>4. Cardinality(At(s, x)) \in Nat /\ (Cardinality(At(s, x)) = 0 <=> At(s, x) = {})
  BY <1>3, FS_CardinalityType, FS_EmptySet
<1>5. At(s, x) = {} <=> \A i \in DOMAIN s : s[i] # x
  BY DEF At
<1> QED
  BY <1>3, <1>4, <1>5 DEF Count

LEMMA CountAppend ==
    ASSUME NEW S, NEW s \in Seq(S), NEW y \in S, NEW x
    PROVE  Count(Append(s, y), x) = Count(s, x) + (IF y = x THEN 1 ELSE 0)
<1> DEFINE n == Len(s) + 1
<1>1. /\ Len(s) \in Nat /\ Append(s, y) \in Seq(S) /\ Len(Append(s, y)) = n
      /\ DOMAIN s = 1 .. Len(s) /\ DOMAIN Append(s, y) = 1 .. n
      /\ \A i \in 1 .. Len(s) : Append(s, y)[i] = s[i]
      /\ Append(s, y)[n] = y
  OBVIOUS
<1>2. n \notin 1 .. Len(s) /\ 1 .. n = (1 .. Len(s)) \cup {n}
  BY <1>1
<1> HIDE DEF n
<1>3. At(Append(s, y), x) = At(s, x) \cup (IF y = x THEN {n} ELSE {})
  BY <1>1, <1>2 DEF At
<1>4. IsFiniteSet(At(s, x)) /\ Count(s, x) \in Nat /\ n \notin At(s, x)
  BY <1>1, <1>2, CountType DEF At
<1>5. Cardinality(At(s, x) \cup {n}) = Cardinality(At(s, x)) + 1
  BY <1>4, FS_AddElement
<1>6. CASE y = x
  <2>1. At(Append(s, y), x) = At(s, x) \cup {n}
    BY <1>3, <1>6
  <2> QED
    BY <1>5, <1>6, <2>1 DEF Count
<1>7. CASE y # x
  <2>1. At(Append(s, y), x) = At(s, x)
    BY <1>3, <1>7
  <2> QED
    BY <1>4, <1>7, <2>1 DEF Count
<1> QED
  BY <1>6, <1>7

(* t is s without its element at i                                         *)
LEMMA CountDropped ==
    ASSUME NEW S, NEW s \in Seq(S), NEW t \in Seq(S), NEW i \in DOMAIN s, NEW x,
           Len(t) = Len(s) - 1,
           \A k \in 1 .. Len(s) - 1 : t[k] = IF k < i THEN s[k] ELSE s[k + 1]
    PROVE  Count(s, x) = Count(t, x) + (IF s[i] = x THEN 1 ELSE 0)
<1> DEFINE P == At(s, x) \ {i}
           Q == At(t, x)
           g == [k \in Q |-> IF k < i THEN k ELSE k + 1]
<1>1. /\ Len(s) \in Nat /\ i \in 1 .. Len(s) /\ DOMAIN s = 1 .. Len(s)
      /\ DOMAIN t = 1 .. Len(s) - 1
  OBVIOUS
<1>2. ASSUME NEW k \in Q
      PROVE  g[k] \in P
  <2>1. k \in 1 .. Len(s) - 1 /\ t[k] = x
    BY <1>1 DEF At
  <2>2. k \in 1 .. Len(s) /\ k + 1 \in 1 .. Len(s) /\ k # k + 1
    BY <1>1, <2>1
  <2>3. CASE k < i
    BY <1>1, <2>1, <2>2, <2>3 DEF At
  <2>4. CASE ~ (k < i)
    <3>1. s[k + 1] = x /\ k + 1 # i
      BY <1>1, <2>1, <2>4
    <3> QED
      BY <1>1, <2>2, <2>4, <3>1 DEF At
  <2> QED
    BY <2>3, <2>4
<1>3. \A k, m \in Q : g[k] = g[m] => k = m
  <2>1. \A k \in Q : k \in Int
    BY <1>1 DEF At
  <2> HIDE DEF Q
  <2> QED
    BY <1>1, <2>1
<1>4. ASSUME NEW p \in P
      PROVE  \E k \in Q : g[k] = p
  <2>1. p \in 1 .. Len(s) /\ s[p] = x /\ p # i
    BY <1>1 DEF At
  <2>2. CASE p < i
    <3>1. p \in 1 .. Len(s) - 1
      BY <1>1, <2>1, <2>2
    <3>2. p \in Q
      BY <1>1, <2>1, <2>2, <3>1 DEF At
    <3> QED
      BY <2>2, <3>2
  <2>3. CASE ~ (p < i)
    <3>1. p - 1 \in 1 .. Len(s) - 1 /\ ~ (p - 1 < i) /\ (p - 1) + 1 = p
      BY <1>1, <2>1, <2>3
    <3>2. p - 1 \in Q
      BY <1>1, <2>1, <3>1 DEF At
    <3> QED
      BY <3>1, <3>2
  <2> QED
    BY <2>2, <2>3
<1>5. g \in [Q -> P]
  BY <1>2
<1> HIDE DEF g, P, Q
<1>6. g \in Bijection(Q, P)
  BY <1>3, <1>4, <1>5, Fun_IsBij
<1>7. IsFiniteSet(Q) /\ Cardinality(P) = Cardinality(Q)
  <2>1. IsFiniteSet(Q)
    BY CountType DEF Q
  <2>2. ExistsBijection(Q, P)
    BY <1>6 DEF ExistsBijection
  <2> QED
    BY <2>1, <2>2, FS_Bijection
<1>8. IsFiniteSet(At(s, x)) /\ Cardinality(At(s, x)) \in Nat
  BY CountType DEF Count
<1>9. Cardinality(P) = IF i \in At(s, x) THEN Cardinality(At(s, x)) - 1 ELSE Cardinality(At(s, x))
  BY <1>8, FS_RemoveElement DEF P
<1>10. i \in At(s, x) <=> s[i] = x
  BY DEF At
<1> QED
  BY <1>7, <1>8, <1>9, <1>10 DEF Count, Q

LEMMA CountTail ==
    ASSUME NEW S, NEW s \in Seq(S), s # <<>>, NEW x
    PROVE  Count(s, x) = Count(Tail(s), x) + (IF Head(s) = x THEN 1 ELSE 0)
<1>1. /\ Tail(s) \in Seq(S) /\ 1 \in DOMAIN s /\ Len(Tail(s)) = Len(s) - 1
      /\ \A k \in 1 .. Len(s) - 1 : Tail(s)[k] = IF k < 1 THEN s[k] ELSE s[k + 1]
      /\ Head(s) = s[1]
  OBVIOUS
<1> DEFINE t == Tail(s)
<1>2. PICK i \in DOMAIN s : i = 1
  BY <1>1
<1>3. /\ t \in Seq(S) /\ Len(t) = Len(s) - 1
      /\ \A k \in 1 .. Len(s) - 1 : t[k] = IF k < i THEN s[k] ELSE s[k + 1]
      /\ Head(s) = s[i]
  BY <1>1, <1>2
<1> HIDE DEF t
<1>4. Count(s, x) = Count(t, x) + (IF s[i] = x THEN 1 ELSE 0)
  BY <1>3, CountDropped
<1> QED
  BY <1>3, <1>4 DEF t

LEMMA CountWithout ==
    ASSUME NEW S, NEW s \in Seq(S), NEW i \in DOMAIN s, NEW x
    PROVE  Count(s, x) = Count(Without(s, i), x) + (IF s[i] = x THEN 1 ELSE 0)
BY WithoutType, CountDropped

-----------------------------------------------------------------------------
(* Renamed logs *)

Moved(f) == [type |-> "moved", file |-> f]

(* Renamings that have not led to the closing of the log yet, and all      *)
Pending(f) == Count(events, Moved(f)) + Count(renamed, f)
Rotations(f) == IF f \in live THEN Gen(f) - 1 ELSE Gen(f)
Budget(f) == Rotations(f) - Pending(f)
OpenCount(f) == IF Opening(f) THEN 1 ELSE 0

(* How often a line is sent, waits, or is ahead of an open file            *)
Ahead(l) ==
    IF handle[l.file].gen = GenOf(l) /\ handle[l.file].next <= l.n THEN 1 ELSE 0
Total(l) == Count(put, l) + Count(cache_lines, l) + Ahead(l)

ThreadsOK ==
    /\ remover = "forget" =>
          Head(renamed) \in open_file_handlers /\ handle[Head(renamed)] = Closed
    /\ reader.pc = "store" => reader.file \notin open_file_handlers
    /\ \A f \in File : handle[f].gen # 0 => Opening(f)

BudgetOK == \A f \in File : Budget(f) >= 0

(* A log was opened once for every renaming that led to its closing, and   *)
(* once more if it is open.                                                *)
Balance ==
    \A l \in Line : Exists(l) =>
        /\ Total(l) <= Budget(l.file) + OpenCount(l.file)
        /\ Total(l) <= GenOf(l)

RenameInv == Base /\ (kind \in Zeek => ThreadsOK /\ BudgetOK /\ Balance)

LEMMA BudgetType ==
    ASSUME TypeOK, NEW f \in File
    PROVE  /\ Count(events, Moved(f)) \in Nat /\ Count(renamed, f) \in Nat
           /\ Pending(f) \in Nat /\ Rotations(f) \in Int /\ Budget(f) \in Int
           /\ OpenCount(f) \in {0, 1} /\ Gen(f) \in Nat
<1>1. Count(events, Moved(f)) \in Nat /\ Count(renamed, f) \in Nat
  BY CountType DEF TypeOK
<1>2. Gen(f) \in Nat
  BY GenType, Numbers
<1> QED
  BY <1>1, <1>2 DEF Pending, Rotations, Budget, OpenCount

LEMMA TotalType ==
    ASSUME TypeOK, NEW l \in Line, Exists(l)
    PROVE  /\ Count(put, l) \in Nat /\ Count(cache_lines, l) \in Nat
           /\ Ahead(l) \in {0, 1} /\ Total(l) \in Nat
           /\ GenOf(l) \in Nat /\ GenOf(l) >= 1 /\ l.file \in File
<1>1. Count(put, l) \in Nat /\ Count(cache_lines, l) \in Nat
  BY CountType DEF TypeOK
<1>2. l.file \in File /\ l.n \in DOMAIN disk[l.file]
  BY DEF Line, Exists
<1>3. disk[l.file] \in Seq(Record)
  BY <1>2 DEF TypeOK, Record
<1>4. disk[l.file][l.n] \in Record
  BY <1>2, <1>3
<1> QED
  BY <1>1, <1>2, <1>4, Numbers DEF Ahead, Total, GenOf, Record

(* The same for the next state                                             *)
Counted ==
    /\ \A f \in File : /\ Pending(f) \in Nat /\ Rotations(f) \in Int /\ Budget(f) \in Int
                       /\ OpenCount(f) \in {0, 1}
    /\ \A l \in Line : Exists(l) => /\ Total(l) \in Nat /\ Ahead(l) \in {0, 1}
                                    /\ GenOf(l) \in Nat /\ GenOf(l) >= 1 /\ l.file \in File

LEMMA AreCounted == TypeOK => Counted
BY BudgetType, TotalType DEF Counted

LEMMA AreCountedNext == TypeOK' => Counted'
BY AreCounted, PTL

LEMMA BalanceKept ==
    ASSUME Base, Base', [Next]_vars, UNCHANGED disk, BudgetOK, Balance,
           \A f \in File : Budget(f) + OpenCount(f) <= Budget(f)' + OpenCount(f)',
           \A l \in Line : Exists(l) => Total(l)' <= Total(l)
    PROVE  Balance'
<1> SUFFICES ASSUME NEW l \in Line, Exists(l)'
             PROVE  /\ Total(l)' <= Budget(l.file)' + OpenCount(l.file)'
                    /\ Total(l)' <= GenOf(l)'
  BY DEF Balance
<1>1. Exists(l) /\ GenOf(l)' = GenOf(l)
  BY DEF Exists, GenOf
<1>2. TypeOK /\ TypeOK'
  BY DEF Base
<1>3. Counted /\ Counted'
  BY <1>2, AreCounted, AreCountedNext
<1>4. /\ Total(l) \in Nat /\ GenOf(l) \in Nat /\ l.file \in File
      /\ Total(l)' \in Nat
  BY <1>1, <1>3 DEF Counted
<1>5. /\ Budget(l.file) \in Int /\ OpenCount(l.file) \in {0, 1}
      /\ Budget(l.file)' \in Int /\ OpenCount(l.file)' \in {0, 1}
  BY <1>3, <1>4 DEF Counted
<1>6. Total(l)' <= Total(l)
  BY <1>1
<1>7. Total(l) <= Budget(l.file) + OpenCount(l.file) /\ Total(l) <= GenOf(l)
  BY <1>1 DEF Balance
<1> QED
  BY <1>1, <1>4, <1>5, <1>6, <1>7

LEMMA RenameInit == Init => RenameInv
<1> SUFFICES ASSUME Init, kind \in Zeek PROVE ThreadsOK /\ BudgetOK /\ Balance
  BY BaseInit DEF RenameInv
<1>1. Base /\ TypeOK /\ kind \notin Text
  BY BaseInit, KindIsOne DEF Base
<1>2. ThreadsOK
  BY <1>1 DEF Init, ThreadsOK, Closed
<1>3. \A f \in File : Pending(f) = 0
  <2> SUFFICES ASSUME NEW f \in File PROVE Pending(f) = 0
    OBVIOUS
  <2>1. events = <<>> /\ renamed = <<>> /\ <<>> \in Seq(File)
    BY DEF Init
  <2>2. \A x : Count(<<>>, x) = 0
    <3>1. \A x : At(<<>>, x) = {}
      BY DEF At
    <3> QED
      BY <3>1, FS_EmptySet DEF Count
  <2> QED
    BY <2>1, <2>2 DEF Pending
<1>4. \A f \in File : f \in live => Gen(f) >= 1
  <2> SUFFICES ASSUME NEW f \in File, f \in live PROVE Gen(f) >= 1
    OBVIOUS
  <2>1. disk[f] # <<>> /\ disk[f] \in Seq(Record)
    BY <1>1 DEF Base, LogsOK, TypeOK, Record
  <2>2. disk[f][Len(disk[f])] \in Record
    BY <2>1
  <2> QED
    BY <2>1, <2>2, Numbers DEF Gen, Record
<1>5. BudgetOK
  BY <1>1, <1>3, <1>4, BudgetType DEF BudgetOK, Budget, Rotations
<1>6. \A l \in Line : Exists(l) => Total(l) = 0
  <2> SUFFICES ASSUME NEW l \in Line, Exists(l) PROVE Total(l) = 0
    OBVIOUS
  <2>1. GenOf(l) >= 1 /\ GenOf(l) \in Nat /\ l.file \in File
    BY <1>1, TotalType
  <2>2. handle[l.file].gen = 0
    BY <1>1, <2>1 DEF Init, Closed
  <2>3. put = <<>> /\ cache_lines = <<>>
    BY DEF Init
  <2>4. Count(put, l) = 0 /\ Count(cache_lines, l) = 0
    <3>1. At(<<>>, l) = {}
      BY DEF At
    <3> QED
      BY <2>3, <3>1, FS_EmptySet DEF Count
  <2>5. Ahead(l) = 0
    BY <2>1, <2>2 DEF Ahead
  <2> QED
    BY <2>4, <2>5 DEF Total
<1>7. Balance
  <2>1. Counted
    BY <1>1, AreCounted
  <2> QED
    BY <1>5, <1>6, <2>1 DEF Balance, BudgetOK, Counted
<1> QED
  BY <1>2, <1>5, <1>7

(* What zeek does                                                          *)
LEMMA WritesKeep ==
    ASSUME Base, Base', [Next]_vars, ThreadsOK, BudgetOK, Balance,
           NEW f \in File, NEW t \in Captured, ZeekWrites(f, t)
    PROVE  ThreadsOK' /\ BudgetOK' /\ Balance'
<1>1. /\ TypeOK /\ TypeOK' /\ LogsOK /\ OnTheWay
      /\ Counted /\ Counted'
  BY AreCounted, AreCountedNext DEF Base
<1>2. /\ UNCHANGED <<zeekfiles, renamed, remover, handle, open_file_handlers,
                     reader, cache_lines, put>>
      /\ live' \in {live, live \cup {f}} /\ f \in live'
  BY DEF ZeekWrites, dict, queue
<1>3. ThreadsOK' /\ \A g \in File : Opening(g)' = Opening(g) /\ OpenCount(g)' = OpenCount(g)
  BY <1>2 DEF ThreadsOK, Opening, OpenCount
<1>4. \A g \in File : Pending(g)' = Pending(g)
  <2> DEFINE E == [type : {"created", "moved"}, file : File]
             e == [type |-> "created", file |-> f]
  <2>1. /\ events \in Seq(E) /\ e \in E
        /\ events' = events \/ events' = Append(events, e)
        /\ \A g \in File : e # Moved(g)
    BY <1>1 DEF TypeOK, ZeekWrites, Moved
  <2> HIDE DEF E, e
  <2> SUFFICES ASSUME NEW g \in File PROVE Pending(g)' = Pending(g)
    OBVIOUS
  <2>2. Count(Append(events, e), Moved(g)) = Count(events, Moved(g)) + 0
    <3>1. Count(Append(events, e), Moved(g))
             = Count(events, Moved(g)) + (IF e = Moved(g) THEN 1 ELSE 0)
      BY <2>1, CountAppend
    <3> QED
      BY <2>1, <3>1
  <2>3. Count(events, Moved(g)) \in Nat
    BY <1>1, BudgetType
  <2>4. Moved(g)' = Moved(g)
    BY DEF Moved
  <2>5. Count(events', Moved(g)) = Count(events, Moved(g))
    <3>1. CASE events' = events
      BY <3>1
    <3>2. CASE events' = Append(events, e)
      BY <2>2, <2>3, <3>2
    <3> QED
      BY <2>1, <3>1, <3>2
  <2> QED
    BY <1>2, <2>4, <2>5 DEF Pending, Count, At
<1> DEFINE r == [gen |-> IF f \in live THEN Gen(f) ELSE Gen(f) + 1, ts |-> t]
<1>5. /\ disk' = [disk EXCEPT ![f] = Append(@, r)]
      /\ r.gen = IF f \in live THEN Gen(f) ELSE Gen(f) + 1
  BY DEF ZeekWrites
<1> HIDE DEF r
<1>6. /\ disk'[f] \in Seq(Record \cup {r}) /\ Len(disk'[f]) = Len(disk[f]) + 1
      /\ disk'[f][Len(disk[f]) + 1] = r /\ Len(disk[f]) \in Nat
      /\ DOMAIN disk[f] = 1 .. Len(disk[f]) /\ DOMAIN disk'[f] = 1 .. Len(disk[f]) + 1
      /\ disk'[f] # <<>>
  <2>1. disk[f] \in Seq(Record \cup {r}) /\ disk'[f] = Append(disk[f], r)
    <3>1. disk \in [File -> Seq(Record)]
      BY <1>1 DEF TypeOK, Record
    <3>2. disk'[f] = Append(disk[f], r) /\ disk[f] \in Seq(Record)
      BY <1>5, <3>1
    <3> QED
      BY <3>2
  <2>2. r \in Record \cup {r}
    OBVIOUS
  <2>3. Append(disk[f], r) # <<>>
    BY <2>1, <2>2, AppendProperties
  <2> QED
    BY <2>1, <2>2, <2>3
<1>7. \A g \in File : Rotations(g)' = Rotations(g)
  <2>1. Gen(f)' = r.gen
    BY <1>6 DEF Gen
  <2>2. \A g \in File \ {f} : Gen(g)' = Gen(g) /\ (g \in live' <=> g \in live)
    <3>1. disk \in [File -> Seq(Record)]
      BY <1>1 DEF TypeOK, Record
    <3>2. \A g \in File \ {f} : disk'[g] = disk[g]
      BY <1>5, <3>1
    <3> QED
      BY <1>2, <3>2 DEF Gen
  <2>3. Gen(f) \in Nat
    BY <1>1, BudgetType
  <2> QED
    BY <1>2, <1>5, <2>1, <2>2, <2>3 DEF Rotations
<1>8. \A g \in File : Budget(g)' = Budget(g)
  BY <1>4, <1>7 DEF Budget
<1>9. ASSUME NEW l \in Line, Exists(l)'
      PROVE  /\ Total(l)' <= Budget(l.file)' + OpenCount(l.file)'
             /\ Total(l)' <= GenOf(l)'
  <2>1. l.file \in File
    BY DEF Line
  <2>2. CASE Exists(l)
    <3>1. GenOf(l)' = GenOf(l)
      BY <1>1, <2>2, StillExists
    <3>2. Total(l)' = Total(l)
      BY <1>2, <3>1 DEF Total, Ahead, Count, At
    <3> QED
      BY <1>3, <1>8, <2>1, <2>2, <3>1, <3>2 DEF Balance
  <2>3. CASE ~ Exists(l)
    <3>1. Count(put', l) = 0 /\ Count(cache_lines', l) = 0
      <4>1. \A k \in DOMAIN put : put[k] # l
        BY <1>1, <2>3, StopIsNoLine DEF OnTheWay
      <4>2. \A k \in DOMAIN cache_lines : cache_lines[k] # l
        BY <1>1, <2>3 DEF OnTheWay
      <4>3. put \in Seq(Line \cup {Stop}) /\ cache_lines \in Seq(Line)
        BY <1>1 DEF TypeOK
      <4>4. Count(put, l) = 0
        BY <4>1, <4>3, CountType
      <4>5. Count(cache_lines, l) = 0
        BY <4>2, <4>3, CountType
      <4> QED
        BY <1>2, <4>4, <4>5
    <3>2. Total(l)' = Ahead(l)'
      <4>1. Ahead(l)' \in {0, 1}
        BY <1>1, <1>9 DEF Counted
      <4> QED
        BY <3>1, <4>1 DEF Total, Count, At
    <3>3. Ahead(l)' = 1 => OpenCount(l.file)' = 1
      <4> SUFFICES ASSUME Ahead(l)' = 1 PROVE OpenCount(l.file)' = 1
        OBVIOUS
      <4>1. handle'[l.file].gen = GenOf(l)' /\ GenOf(l)' >= 1 /\ GenOf(l)' \in Nat
        BY <1>1, <1>9 DEF Ahead, Counted
      <4> QED
        BY <1>3, <2>1, <4>1 DEF ThreadsOK, OpenCount
    <3>4. /\ Ahead(l)' \in {0, 1} /\ GenOf(l)' >= 1 /\ GenOf(l)' \in Nat
          /\ Budget(l.file)' >= 0 /\ Budget(l.file)' \in Int
          /\ OpenCount(l.file)' \in {0, 1}
      BY <1>1, <1>8, <1>9, <2>1 DEF Counted, BudgetOK
    <3> QED
      BY <3>2, <3>3, <3>4
  <2> QED
    BY <2>2, <2>3
<1> QED
  BY <1>3, <1>8, <1>9 DEF BudgetOK, Balance

LEMMA RotatesKeep ==
    ASSUME Base, Base', [Next]_vars, ThreadsOK, BudgetOK, Balance,
           NEW f \in File, ZeekRotates(f)
    PROVE  ThreadsOK' /\ BudgetOK' /\ Balance'
<1>1. TypeOK /\ Counted
  BY AreCounted DEF Base
<1>2. /\ UNCHANGED <<disk, renamed, remover, handle, open_file_handlers, reader,
                     cache_lines, put>>
      /\ f \in live /\ live' = live \ {f}
  BY DEF ZeekRotates, dict, queue
<1>3. ThreadsOK' /\ \A g \in File : OpenCount(g)' = OpenCount(g)
  BY <1>2 DEF ThreadsOK, Opening, OpenCount
<1>4. \A g \in File : Pending(g)' = Pending(g) + (IF g = f THEN 1 ELSE 0)
  <2> DEFINE E == [type : {"created", "moved"}, file : File]
  <2>1. events \in Seq(E) /\ Moved(f) \in E /\ events' = Append(events, Moved(f))
    BY <1>1 DEF TypeOK, ZeekRotates, Moved
  <2> HIDE DEF E
  <2> SUFFICES ASSUME NEW g \in File PROVE Pending(g)' = Pending(g) + (IF g = f THEN 1 ELSE 0)
    OBVIOUS
  <2>2. Count(events', Moved(g)) = Count(events, Moved(g)) + (IF Moved(f) = Moved(g) THEN 1 ELSE 0)
    BY <2>1, CountAppend
  <2>3. Count(events, Moved(g)) \in Nat /\ Count(renamed, g) \in Nat
    BY <1>1, BudgetType
  <2>4. Moved(f) = Moved(g) <=> f = g
    BY DEF Moved
  <2>5. Pending(g)' = Count(events', Moved(g)) + Count(renamed, g)
    BY <1>2 DEF Pending, Moved, Count, At
  <2> QED
    BY <2>2, <2>3, <2>4, <2>5 DEF Pending
<1>5. \A g \in File : Rotations(g)' = Rotations(g) + (IF g = f THEN 1 ELSE 0)
  <2>1. \A g \in File : Gen(g)' = Gen(g) /\ Gen(g) \in Nat
    BY <1>1, <1>2, BudgetType DEF Gen
  <2> QED
    BY <1>2, <2>1 DEF Rotations
<1>6. \A g \in File : Budget(g)' = Budget(g)
  BY <1>1, <1>4, <1>5 DEF Budget, Counted
<1>7. \A l \in Line : Total(l)' = Total(l)
  BY <1>2 DEF Total, Ahead, GenOf, Count, At
<1>8. BudgetOK'
  BY <1>6 DEF BudgetOK
<1>9. \A l \in Line : Exists(l) => Total(l)' <= Total(l)
  BY <1>1, <1>7 DEF Counted
<1>10. \A g \in File : Budget(g) + OpenCount(g) <= Budget(g)' + OpenCount(g)'
  BY <1>1, <1>3, <1>6 DEF Counted
<1> QED
  BY <1>2, <1>3, <1>8, <1>9, <1>10, BalanceKept

(* What filemonitor and the remover do                                     *)
LEMMA ObserveKeeps ==
    ASSUME Base, Base', [Next]_vars, ThreadsOK, BudgetOK, Balance, Observe
    PROVE  ThreadsOK' /\ BudgetOK' /\ Balance'
<1> DEFINE E == [type : {"created", "moved"}, file : File]
           e == Head(events)
<1>1. TypeOK /\ Counted /\ OnTheWay
  BY AreCounted DEF Base
<1>2. /\ events \in Seq(E) /\ events # <<>> /\ e \in E
      /\ events' = Tail(events)
      /\ \/ e.type = "created" /\ renamed' = renamed
         \/ e.type = "moved" /\ renamed' = Append(renamed, e.file)
      /\ UNCHANGED <<disk, live, remover, handle, open_file_handlers, reader,
                     cache_lines, put>>
  <2>1. events \in Seq(E) /\ events # <<>>
    BY <1>1 DEF TypeOK, Observe
  <2> HIDE DEF E
  <2>2. e \in E
    BY <2>1
  <2> QED
    BY <2>1, <2>2 DEF Observe, logs, dict, queue
<1>3. \A g \in File : e = Moved(g) <=> e.type = "moved" /\ e.file = g
  BY <1>2 DEF Moved
<1>4. e.file \in File
  BY <1>2
<1> HIDE DEF E, e
<1>5. remover = "forget" => Head(renamed') = Head(renamed)
  <2>1. renamed \in Seq(File) /\ (remover = "forget" => renamed # <<>>)
    BY <1>1 DEF TypeOK, OnTheWay
  <2>2. renamed # <<>> => Head(Append(renamed, e.file)) = Head(renamed)
    BY <1>4, <2>1
  <2> QED
    BY <1>2, <2>1, <2>2
<1>6. ThreadsOK' /\ \A g \in File : OpenCount(g)' = OpenCount(g)
  BY <1>2, <1>5 DEF ThreadsOK, Opening, OpenCount
<1>7. \A g \in File : Pending(g)' = Pending(g)
  <2> SUFFICES ASSUME NEW g \in File PROVE Pending(g)' = Pending(g)
    OBVIOUS
  <2>1. Count(events, Moved(g))
           = Count(events', Moved(g)) + (IF e = Moved(g) THEN 1 ELSE 0)
    <3>1. Count(events, Moved(g))
             = Count(Tail(events), Moved(g)) + (IF Head(events) = Moved(g) THEN 1 ELSE 0)
      BY <1>2, CountTail
    <3> QED
      BY <1>2, <3>1 DEF e
  <2>2. Count(renamed', g)
           = Count(renamed, g) + (IF e = Moved(g) THEN 1 ELSE 0)
    <3>1. renamed \in Seq(File) /\ Count(renamed, g) \in Nat
      BY <1>1, BudgetType DEF TypeOK
    <3>2. Count(Append(renamed, e.file), g) = Count(renamed, g) + (IF e.file = g THEN 1 ELSE 0)
      BY <1>4, <3>1, CountAppend
    <3>3. CASE e.type = "created" /\ renamed' = renamed
      BY <1>3, <3>1, <3>3
    <3>4. CASE e.type = "moved" /\ renamed' = Append(renamed, e.file)
      BY <1>3, <3>2, <3>4
    <3> QED
      BY <1>2, <3>3, <3>4
  <2>3. Count(events, Moved(g)) \in Nat /\ Count(renamed, g) \in Nat
    BY <1>1, BudgetType
  <2>4. Count(events', Moved(g)) \in Nat
    <3>1. events' \in Seq(E)
      BY <1>2
    <3> QED
      BY <3>1, CountType
  <2>5. Pending(g)' = Count(events', Moved(g)) + Count(renamed', g)
    BY DEF Pending, Moved, Count, At
  <2> QED
    BY <2>1, <2>2, <2>3, <2>4, <2>5 DEF Pending
<1>8. \A g \in File : Budget(g)' = Budget(g)
  BY <1>2, <1>7 DEF Budget, Rotations, Gen
<1>9. \A l \in Line : Total(l)' = Total(l)
  BY <1>2 DEF Total, Ahead, GenOf, Count, At
<1>10. BudgetOK'
  BY <1>8 DEF BudgetOK
<1>11. \A l \in Line : Exists(l) => Total(l)' <= Total(l)
  BY <1>1, <1>9 DEF Counted
<1>12. \A g \in File : Budget(g) + OpenCount(g) <= Budget(g)' + OpenCount(g)'
  BY <1>1, <1>6, <1>8 DEF Counted
<1> QED
  BY <1>2, <1>6, <1>10, <1>11, <1>12, BalanceKept

(* A message less to read                                                  *)
LEMMA MessageRead ==
    ASSUME TypeOK, renamed # <<>>, renamed' = Tail(renamed),
           UNCHANGED <<disk, live, events>>, NEW g \in File
    PROVE  Budget(g)' = Budget(g) + (IF g = Head(renamed) THEN 1 ELSE 0)
<1>1. renamed \in Seq(File)
  BY DEF TypeOK
<1>2. Count(renamed, g) = Count(renamed', g) + (IF Head(renamed) = g THEN 1 ELSE 0)
  BY <1>1, CountTail
<1>3. Count(renamed', g) \in Nat
  <2>1. renamed' \in Seq(File)
    BY <1>1
  <2> QED
    BY <2>1, CountType
<1>4. Pending(g)' = Count(events, Moved(g)) + Count(renamed', g)
  BY DEF Pending, Moved, Count, At
<1>5. Rotations(g)' = Rotations(g) /\ Rotations(g) \in Int /\ Count(events, Moved(g)) \in Nat
  BY BudgetType DEF Rotations, Gen
<1> QED
  BY <1>2, <1>3, <1>4, <1>5 DEF Budget, Pending

LEMMA RemoverKeeps ==
    ASSUME Base, Base', [Next]_vars, ThreadsOK, BudgetOK, Balance, RemoverStep
    PROVE  ThreadsOK' /\ BudgetOK' /\ Balance'
<1> DEFINE h == Head(renamed)
<1>1. TypeOK /\ Counted /\ Counted' /\ handle \in [File -> [gen : 0 .. MaxGen, next : 0 .. MaxLines + 1]]
  BY AreCounted, AreCountedNext DEF Base, TypeOK
<1>2. renamed # <<>> /\ h \in File
  <2>1. renamed \in Seq(File) /\ renamed # <<>>
    BY <1>1 DEF TypeOK, Base, OnTheWay, RemoverStep, RemoverCloses, RemoverForgets
  <2> QED
    BY <2>1
<1>3. UNCHANGED <<disk, live, events, reader, cache_lines, put>>
  BY DEF RemoverStep, RemoverCloses, RemoverForgets, logs, queue
<1>4. CASE RemoverCloses /\ h \in open_file_handlers
  <2>1. /\ handle' = [handle EXCEPT ![h] = Closed]
        /\ remover' = "forget" /\ renamed' = renamed
        /\ open_file_handlers' = open_file_handlers
    BY <1>4 DEF RemoverCloses
  <2>2. handle'[h] = Closed /\ \A g \in File : g # h => handle'[g] = handle[g]
    BY <1>1, <1>2, <2>1
  <2>3. \A g \in File : OpenCount(g)' = OpenCount(g) /\ (Opening(g)' <=> Opening(g))
    BY <1>3, <2>1 DEF OpenCount, Opening
  <2>4. ThreadsOK'
    BY <1>2, <1>3, <1>4, <2>1, <2>2, <2>3 DEF ThreadsOK, Closed
  <2>5. \A g \in File : Budget(g)' = Budget(g)
    BY <1>3, <2>1 DEF Budget, Rotations, Pending, Gen
  <2>6. ASSUME NEW l \in Line, Exists(l)
        PROVE  Total(l)' <= Total(l)
    <3>1. GenOf(l)' = GenOf(l) /\ GenOf(l) >= 1 /\ GenOf(l) \in Nat /\ l.file \in File
      BY <1>1, <1>3, <2>6 DEF Counted, GenOf
    <3>2. Ahead(l) \in {0, 1} /\ Count(put, l) \in Nat /\ Count(cache_lines, l) \in Nat
      BY <1>1, <2>6, TotalType
    <3>3. Ahead(l)' = Ahead(l) \/ Ahead(l)' = 0
      BY <2>2, <3>1 DEF Ahead, Closed
    <3>4. Total(l)' = Count(put, l) + Count(cache_lines, l) + Ahead(l)'
      BY <1>3 DEF Total, Count, At
    <3> QED
      BY <3>2, <3>3, <3>4 DEF Total
  <2>7. BudgetOK'
    BY <2>5 DEF BudgetOK
  <2>8. \A g \in File : Budget(g) + OpenCount(g) <= Budget(g)' + OpenCount(g)'
    BY <1>1, <2>3, <2>5 DEF Counted
  <2> QED
    BY <1>3, <2>4, <2>6, <2>7, <2>8, BalanceKept
<1>5. CASE (RemoverCloses /\ h \notin open_file_handlers) \/ RemoverForgets
  <2>1. /\ renamed' = Tail(renamed) /\ remover' = "wait" /\ handle' = handle
        /\ \/ open_file_handlers' = open_file_handlers
           \/ /\ open_file_handlers' = open_file_handlers \ {h}
              /\ remover = "forget"
    BY <1>5 DEF RemoverCloses, RemoverForgets
  <2>2. \A g \in File : Budget(g)' = Budget(g) + (IF g = h THEN 1 ELSE 0)
    BY <1>1, <1>2, <1>3, <2>1, MessageRead
  <2>3. \A g \in File : g # h => (Opening(g)' <=> Opening(g)) /\ OpenCount(g)' = OpenCount(g)
    BY <1>3, <2>1 DEF Opening, OpenCount
  <2>4. ThreadsOK'
    <3>1. ASSUME NEW g \in File, handle'[g].gen # 0
          PROVE  Opening(g)'
      <4>1. Opening(g)
        BY <2>1, <3>1 DEF ThreadsOK
      <4>2. g = h => open_file_handlers' = open_file_handlers
        BY <2>1, <3>1 DEF ThreadsOK, Closed
      <4>3. CASE g = h
        BY <1>3, <4>1, <4>2, <4>3 DEF Opening
      <4>4. CASE g # h
        BY <2>3, <4>1, <4>4
      <4> QED
        BY <4>3, <4>4
    <3> QED
      BY <1>3, <2>1, <3>1 DEF ThreadsOK
  <2>5. \A l \in Line : Total(l)' = Total(l)
    BY <1>3, <2>1 DEF Total, Ahead, GenOf, Count, At
  <2>6. BudgetOK'
    BY <1>1, <2>2 DEF BudgetOK, Counted
  <2>7. \A l \in Line : Exists(l) => Total(l)' <= Total(l)
    BY <1>1, <2>5 DEF Counted
  <2>8. \A g \in File : Budget(g) + OpenCount(g) <= Budget(g)' + OpenCount(g)'
    <3> SUFFICES ASSUME NEW g \in File
                 PROVE  Budget(g) + OpenCount(g) <= Budget(g)' + OpenCount(g)'
      OBVIOUS
    <3>1. /\ Budget(g) \in Int /\ OpenCount(g) \in {0, 1} /\ OpenCount(g)' \in {0, 1}
      BY <1>1 DEF Counted
    <3>2. CASE g = h
      BY <2>2, <3>1, <3>2
    <3>3. CASE g # h
      BY <2>2, <2>3, <3>1, <3>3
    <3> QED
      BY <3>2, <3>3
  <2> QED
    BY <1>3, <2>4, <2>6, <2>7, <2>8, BalanceKept
<1> QED
  BY <1>4, <1>5 DEF RemoverStep

(* What the reader does                                                    *)
LEMMA TakeFileKeeps ==
    ASSUME Base, Base', [Next]_vars, ThreadsOK, BudgetOK, Balance,
           NEW f \in File, TakeFile(f)
    PROVE  ThreadsOK' /\ BudgetOK' /\ Balance'
<1>1. /\ TypeOK /\ Counted /\ Counted' /\ LogsOK
      /\ handle \in [File -> [gen : 0 .. MaxGen, next : 0 .. MaxLines + 1]]
      /\ reader \in [pc : {"for", "store", "read", "text", "done"},
                     todo : SUBSET File, file : File, quiet : BOOLEAN]
  BY AreCounted, AreCountedNext DEF Base, TypeOK
<1>2. /\ UNCHANGED <<disk, live, events, renamed, remover, open_file_handlers,
                     cache_lines, put>>
      /\ reader.pc = "for"
  BY DEF TakeFile, logs, monitor, queue
<1>3. \A g \in File : Budget(g)' = Budget(g)
  BY <1>2 DEF Budget, Rotations, Pending, Gen
<1>4. BudgetOK'
  BY <1>3 DEF BudgetOK
<1>5. \A g \in File : Opening(g) <=> g \in open_file_handlers
  BY <1>2 DEF Opening
<1>6. CASE handle' = handle /\ reader'.pc \in {"read", "for"}
  <2>1. \A g \in File : (Opening(g)' <=> Opening(g)) /\ OpenCount(g)' = OpenCount(g)
    BY <1>2, <1>6 DEF Opening, OpenCount
  <2>2. ThreadsOK'
    BY <1>2, <1>6, <2>1 DEF ThreadsOK
  <2>3. \A l \in Line : Exists(l) => Total(l)' <= Total(l)
    <3>1. \A l \in Line : Total(l)' = Total(l)
      BY <1>2, <1>6 DEF Total, Ahead, GenOf, Count, At
    <3> QED
      BY <1>1, <3>1 DEF Counted
  <2>4. \A g \in File : Budget(g) + OpenCount(g) <= Budget(g)' + OpenCount(g)'
    BY <1>1, <1>3, <2>1 DEF Counted
  <2> QED
    BY <1>2, <1>4, <2>2, <2>3, <2>4, BalanceKept
<1>7. CASE /\ f \notin open_file_handlers /\ f \in live
           /\ handle' = [handle EXCEPT ![f] = Opened(f)]
           /\ reader'.pc = "store" /\ reader'.file = f
  <2>1. handle'[f] = Opened(f) /\ \A g \in File : g # f => handle'[g] = handle[g]
    BY <1>1, <1>7
  <2>2. \A g \in File : Opening(g)' <=> Opening(g) \/ g = f
    BY <1>2, <1>5, <1>7 DEF Opening
  <2>3. ~ Opening(f) /\ handle[f].gen = 0
    BY <1>5, <1>7 DEF ThreadsOK
  <2>4. ThreadsOK'
    <3>1. remover = "forget" => Head(renamed) \in File /\ Head(renamed) # f
      <4>1. remover = "forget" => renamed # <<>>
        BY DEF Base, OnTheWay
      <4>2. renamed \in Seq(File)
        BY <1>1 DEF TypeOK
      <4> QED
        BY <1>7, <4>1, <4>2 DEF ThreadsOK
    <3> QED
      BY <1>2, <1>7, <2>1, <2>2, <3>1 DEF ThreadsOK
  <2>5. Opened(f).gen = Gen(f)
    BY DEF Opened
  <2>6. ASSUME NEW l \in Line, Exists(l)'
        PROVE  /\ Total(l)' <= Budget(l.file)' + OpenCount(l.file)'
               /\ Total(l)' <= GenOf(l)'
    <3>1. Exists(l) /\ GenOf(l)' = GenOf(l)
      BY <1>2, <2>6 DEF Exists, GenOf
    <3>2. /\ Total(l) <= Budget(l.file) + OpenCount(l.file)
          /\ Total(l) <= GenOf(l)
      BY <3>1 DEF Balance
    <3>3. /\ Total(l) \in Nat /\ Ahead(l) \in {0, 1} /\ Ahead(l)' \in {0, 1}
          /\ GenOf(l) \in Nat /\ GenOf(l) >= 1 /\ l.file \in File
          /\ Budget(l.file) \in Int
          /\ Count(put, l) \in Nat /\ Count(cache_lines, l) \in Nat
      BY <1>1, <2>6, <3>1, TotalType DEF Counted
    <3>4. Total(l)' = Count(put, l) + Count(cache_lines, l) + Ahead(l)'
      BY <1>2 DEF Total, Count, At
    <3>5. CASE l.file # f
      <4>1. Ahead(l)' = Ahead(l)
        BY <2>1, <3>1, <3>3, <3>5 DEF Ahead
      <4>2. OpenCount(l.file)' = OpenCount(l.file)
        BY <2>2, <3>3, <3>5 DEF OpenCount
      <4>3. Total(l)' = Total(l)
        BY <3>4, <4>1 DEF Total
      <4> QED
        BY <1>3, <3>1, <3>2, <3>3, <4>2, <4>3
    <3>6. CASE l.file = f
      <4>1. Ahead(l) = 0
        BY <2>3, <3>3, <3>6 DEF Ahead
      <4>2. OpenCount(f) = 0 /\ OpenCount(f)' = 1
        BY <2>2, <2>3 DEF OpenCount
      <4>3. Total(l)' = Total(l) + Ahead(l)'
        BY <3>3, <3>4, <4>1 DEF Total
      <4>4. Total(l) <= Budget(f) /\ Budget(f)' = Budget(f) /\ Budget(f) \in Int
        BY <1>3, <3>2, <3>3, <3>6, <4>2
      <4>5. Ahead(l)' = 1 => Gen(f) = GenOf(l)
        BY <2>1, <2>5, <3>1, <3>6 DEF Ahead
      <4>6. Budget(f) <= Gen(f) - 1
        <5>1. Pending(f) \in Nat /\ Gen(f) \in Nat
          BY <1>1, BudgetType
        <5> QED
          BY <1>7, <5>1 DEF Budget, Rotations
      <4>7. Gen(f) \in Nat
        BY <1>1, BudgetType
      <4>8. Total(l)' <= Budget(f)' + OpenCount(f)'
        BY <3>3, <4>2, <4>3, <4>4
      <4>9. Total(l)' <= GenOf(l)
        <5>1. CASE Ahead(l)' = 0
          BY <3>2, <3>3, <4>3, <5>1
        <5>2. CASE Ahead(l)' = 1
          BY <3>3, <4>3, <4>4, <4>5, <4>6, <4>7, <5>2
        <5> QED
          BY <3>3, <5>1, <5>2
      <4> QED
        BY <3>1, <3>6, <4>8, <4>9
    <3> QED
      BY <3>5, <3>6
  <2> QED
    BY <1>4, <2>4, <2>6 DEF Balance
<1> QED
  BY <1>1, <1>6, <1>7 DEF TakeFile

LEMMA ReadLineKeeps ==
    ASSUME Base, Base', [Next]_vars, ThreadsOK, BudgetOK, Balance,
           ReadLine
    PROVE  ThreadsOK' /\ BudgetOK' /\ Balance'
<1> DEFINE f == reader.file
           n == handle[f].next
           line == LineOf(f, n)
           read == ~ Waits(f) /\ handle[f] # Closed /\ More(f)
<1>1. /\ TypeOK /\ Counted /\ LogsOK
      /\ handle \in [File -> [gen : 0 .. MaxGen, next : 0 .. MaxLines + 1]]
      /\ reader \in [pc : {"for", "store", "read", "text", "done"},
                     todo : SUBSET File, file : File, quiet : BOOLEAN]
  BY AreCounted DEF Base, TypeOK
<1>2. /\ UNCHANGED <<disk, live, events, renamed, remover, open_file_handlers, put>>
      /\ reader.pc = "read" /\ reader'.pc = "for" /\ f \in File
      /\ read => handle' = [handle EXCEPT ![f].next = @ + 1]
      /\ ~ read => handle' = [handle EXCEPT ![f].next = @]
      /\ cache_lines' = IF read /\ StampOf(line) # Skip
                        THEN Append(cache_lines, line) ELSE cache_lines
  BY <1>1 DEF ReadLine, logs, monitor, queue
<1>3. \A g \in File : Budget(g)' = Budget(g)
  BY <1>2 DEF Budget, Rotations, Pending, Gen
<1>4. BudgetOK'
  BY <1>3 DEF BudgetOK
<1>5. /\ n \in Nat /\ handle'[f].gen = handle[f].gen
      /\ handle'[f].next = IF read THEN n + 1 ELSE n
      /\ \A g \in File : g # f => handle'[g] = handle[g]
  <2> HIDE DEF read
  <2> QED
    BY <1>1, <1>2
<1>6. \A g \in File : (Opening(g)' <=> Opening(g)) /\ OpenCount(g)' = OpenCount(g)
  BY <1>2 DEF Opening, OpenCount
<1>7. \A g \in File : ~ read => handle'[g] = handle[g]
  <2> HIDE DEF read
  <2> QED
    BY <1>1, <1>2
<1>8. ThreadsOK'
  <2>1. \A g \in File : handle'[g].gen = handle[g].gen
    BY <1>5
  <2>2. remover = "forget" => handle'[Head(renamed)] = Closed
    <3>1. remover = "forget" => Head(renamed) \in File
      <4>1. remover = "forget" => renamed # <<>>
        BY DEF Base, OnTheWay
      <4>2. renamed \in Seq(File)
        BY <1>1 DEF TypeOK
      <4> QED
        BY <4>1, <4>2
    <3>2. CASE Head(renamed) = f
      BY <1>7, <3>1, <3>2 DEF ThreadsOK
    <3>3. CASE Head(renamed) # f
      BY <1>5, <3>1, <3>3 DEF ThreadsOK
    <3> QED
      BY <3>2, <3>3
  <2> QED
    BY <1>2, <1>6, <2>1, <2>2 DEF ThreadsOK
<1>9. ASSUME NEW l \in Line, Exists(l)
      PROVE  Total(l)' <= Total(l)
  <2>1. /\ GenOf(l)' = GenOf(l) /\ l.file \in File /\ l.n \in Int
        /\ Ahead(l) \in {0, 1} /\ Count(put, l) \in Nat /\ Count(cache_lines, l) \in Nat
    BY <1>1, <1>2, <1>9, TotalType DEF GenOf, Line
  <2>2. Total(l)' = Count(put, l) + Count(cache_lines', l) + Ahead(l)'
    BY <1>2 DEF Total, Count, At
  <2>3. Ahead(l)' <= Ahead(l) /\ Ahead(l)' \in {0, 1}
    <3> HIDE DEF read, f
    <3>1. CASE l.file = f
      BY <1>5, <2>1, <3>1 DEF Ahead
    <3>2. CASE l.file # f
      BY <1>5, <2>1, <3>2 DEF Ahead
    <3> QED
      BY <3>1, <3>2
  <2>4. CASE cache_lines' = cache_lines
    BY <2>1, <2>2, <2>3, <2>4 DEF Total
  <2>5. CASE read /\ cache_lines' = Append(cache_lines, line)
    <3>1. line \in Line /\ line.file = f /\ line.n = n
          /\ disk[f][n].gen = handle[f].gen
      <4>1. disk[f] \in Seq(Record) /\ Len(disk[f]) <= MaxLines
        BY <1>1, <1>2 DEF TypeOK, LogsOK, Record
      <4>2. n \in 1 .. Len(disk[f])
        BY <2>5, <4>1 DEF More
      <4> QED
        BY <1>2, <2>5, <4>1, <4>2, Numbers DEF More, Line, LineOf
    <3> HIDE DEF line
    <3>2. Count(cache_lines', l) = Count(cache_lines, l) + (IF line = l THEN 1 ELSE 0)
      BY <1>1, <2>5, <3>1, CountAppend DEF TypeOK
    <3>3. line = l => Ahead(l) = 1 /\ Ahead(l)' = 0
      <4> SUFFICES ASSUME line = l PROVE Ahead(l) = 1 /\ Ahead(l)' = 0
        OBVIOUS
      <4>1. l.file = f /\ l.n = n /\ GenOf(l) = handle[f].gen
        BY <3>1 DEF GenOf
      <4>2. handle'[f].next = n + 1
        BY <1>5, <2>5
      <4> HIDE DEF f, read
      <4>3. Ahead(l) = 1
        <5>1. handle[l.file].gen = GenOf(l) /\ handle[l.file].next <= l.n
          BY <1>5, <4>1 DEF n
        <5> QED
          BY <5>1 DEF Ahead
      <4>4. Ahead(l)' = 0
        <5>1. ~ (handle'[l.file].next <= l.n)
          BY <1>5, <4>1, <4>2
        <5> QED
          BY <5>1 DEF Ahead
      <4> QED
        BY <4>3, <4>4
    <3> QED
      BY <2>1, <2>2, <2>3, <3>2, <3>3 DEF Total
  <2> QED
    BY <1>2, <2>4, <2>5
<1>10. \A g \in File : Budget(g) + OpenCount(g) <= Budget(g)' + OpenCount(g)'
  BY <1>1, <1>3, <1>6 DEF Counted
<1> QED
  BY <1>2, <1>4, <1>8, <1>9, <1>10, BalanceKept

LEMMA RestKeeps ==
    ASSUME Base, Base', [Next]_vars, ThreadsOK, BudgetOK, Balance,
           \/ StoreHandle \/ SendEarliest \/ NothingToSend \/ ReaderEnds \/ Feed
           \/ UNCHANGED vars
    PROVE  ThreadsOK' /\ BudgetOK' /\ Balance'
<1>1. TypeOK /\ Counted /\ OnTheWay
  BY AreCounted DEF Base
<1>2. UNCHANGED <<disk, live, events, renamed, remover, handle>>
  BY DEF StoreHandle, SendEarliest, NothingToSend, ReaderEnds, Feed, vars, logs,
     monitor, dict
<1>3. /\ \A g \in File : Opening(g)' <=> Opening(g)
      /\ open_file_handlers \subseteq open_file_handlers'
      /\ reader'.pc = "store" => reader' = reader /\ open_file_handlers' = open_file_handlers
  <2>1. reader \in [pc : {"for", "store", "read", "text", "done"},
                    todo : SUBSET File, file : File, quiet : BOOLEAN]
    BY <1>1 DEF TypeOK
  <2>2. CASE StoreHandle
    BY <2>1, <2>2 DEF StoreHandle, Opening
  <2>3. CASE SendEarliest \/ NothingToSend \/ ReaderEnds
    BY <2>1, <2>3 DEF SendEarliest, NothingToSend, ReaderEnds, Opening, dict
  <2>4. CASE Feed \/ UNCHANGED vars
    BY <2>4 DEF Feed, Opening, vars, dict
  <2> QED
    BY <2>2, <2>3, <2>4
<1>4. ThreadsOK'
  BY <1>2, <1>3 DEF ThreadsOK
<1>5. \A g \in File : Budget(g)' = Budget(g)
  BY <1>2 DEF Budget, Rotations, Pending, Gen
<1>6. BudgetOK'
  BY <1>5 DEF BudgetOK
<1>7. \A g \in File : Budget(g) + OpenCount(g) <= Budget(g)' + OpenCount(g)'
  BY <1>1, <1>3, <1>5 DEF Counted, OpenCount
<1>8. ASSUME NEW l \in Line, Exists(l)
      PROVE  Count(put', l) + Count(cache_lines', l) = Count(put, l) + Count(cache_lines, l)
  <2>1. /\ put \in Seq(Line \cup {Stop}) /\ cache_lines \in Seq(Line)
        /\ Count(put, l) \in Nat /\ Count(cache_lines, l) \in Nat
    BY <1>1, <1>8, TotalType DEF TypeOK
  <2>2. CASE SendEarliest
    <3> DEFINE i == Earliest(cache_lines)
               c == Without(cache_lines, i)
    <3>1. i \in DOMAIN cache_lines /\ put' = Append(put, cache_lines[i]) /\ cache_lines' = c
      BY <1>1, <2>2, EarliestExists DEF SendEarliest
    <3> HIDE DEF i
    <3>2. cache_lines[i] \in Line \cup {Stop}
      BY <2>1, <3>1
    <3>3. Count(put', l) = Count(put, l) + (IF cache_lines[i] = l THEN 1 ELSE 0)
      BY <2>1, <3>1, <3>2, CountAppend
    <3>4. Count(cache_lines, l) = Count(c, l) + (IF cache_lines[i] = l THEN 1 ELSE 0)
      BY <2>1, <3>1, CountWithout
    <3>5. c \in Seq(Line)
      BY <2>1, <3>1, WithoutType
    <3>6. Count(c, l) \in Nat
      BY <3>5, CountType
    <3> HIDE DEF c
    <3> QED
      BY <2>1, <3>1, <3>3, <3>4, <3>6
  <2>3. CASE ReaderEnds
    <3>1. put' = put \/ put' = Append(put, Stop)
      <4>1. put \o <<>> = put /\ put \o <<Stop>> = Append(put, Stop)
        BY <2>1
      <4> QED
        BY <2>3, <4>1 DEF ReaderEnds, Ends
    <3>2. Count(Append(put, Stop), l) = Count(put, l) + (IF Stop = l THEN 1 ELSE 0)
      BY <2>1, CountAppend
    <3>3. Stop # l
      BY StopIsNoLine
    <3>4. Count(put', l) = Count(put, l)
      <4>1. Count(Append(put, Stop), l) = Count(put, l)
        BY <2>1, <3>2, <3>3
      <4> QED
        BY <3>1, <4>1
    <3>5. cache_lines' = cache_lines
      BY <2>3 DEF ReaderEnds
    <3> QED
      BY <3>4, <3>5
  <2>4. CASE StoreHandle \/ NothingToSend \/ Feed \/ UNCHANGED vars
    BY <2>4 DEF StoreHandle, NothingToSend, Feed, vars, queue
  <2> QED
    BY <2>2, <2>3, <2>4
<1>9. ASSUME NEW l \in Line, Exists(l)
      PROVE  Total(l)' <= Total(l)
  <2>1. Ahead(l)' = Ahead(l)
    BY <1>2 DEF Ahead, GenOf
  <2>2. Total(l)' = Count(put', l) + Count(cache_lines', l) + Ahead(l)'
    BY DEF Total, Count, At
  <2>3. Total(l)' = Total(l)
    BY <1>8, <1>9, <2>1, <2>2 DEF Total
  <2> QED
    BY <1>1, <1>9, <2>3 DEF Counted
<1> QED
  BY <1>2, <1>4, <1>6, <1>7, <1>9, BalanceKept

(* No line is sent more often than the number of its generation.           *)
THEOREM SentOncePerGeneration == Spec => []SentPerGeneration
<1>1. RenameInv /\ [Next]_vars => RenameInv'
  <2> SUFFICES ASSUME RenameInv, [Next]_vars PROVE RenameInv'
    OBVIOUS
  <2>1. Base /\ Base' /\ kind' = kind
    BY BaseStep, Grows DEF RenameInv, Base
  <2>2. ASSUME kind \in Zeek
        PROVE  ThreadsOK' /\ BudgetOK' /\ Balance'
    <3>1. ThreadsOK /\ BudgetOK /\ Balance
      BY <2>2 DEF RenameInv
    <3>2. ~ ReadText /\ ~ TextEnds
      BY <2>1, <2>2 DEF Base, OneThread, ReadText, TextEnds
    <3>3. CASE \E f \in File, t \in Captured : ZeekWrites(f, t)
      BY <2>1, <3>1, <3>3, WritesKeep
    <3>4. CASE \E f \in File : ZeekRotates(f)
      BY <2>1, <3>1, <3>4, RotatesKeep
    <3>5. CASE Observe
      BY <2>1, <3>1, <3>5, ObserveKeeps
    <3>6. CASE RemoverStep
      BY <2>1, <3>1, <3>6, RemoverKeeps
    <3>7. CASE \E f \in File : TakeFile(f)
      BY <2>1, <3>1, <3>7, TakeFileKeeps
    <3>8. CASE ReadLine
      BY <2>1, <3>1, <3>8, ReadLineKeeps
    <3>9. CASE StoreHandle \/ SendEarliest \/ NothingToSend \/ ReaderEnds \/ Feed
               \/ UNCHANGED vars
      BY <2>1, <3>1, <3>9, RestKeeps
    <3> QED
      BY <3>2, <3>3, <3>4, <3>5, <3>6, <3>7, <3>8, <3>9 DEF Next, ReaderStep
  <2> QED
    BY <2>1, <2>2 DEF RenameInv
<1>2. RenameInv => SentPerGeneration
  <2> SUFFICES ASSUME RenameInv, kind \in Zeek, NEW i \in DOMAIN put, put[i] # Stop
               PROVE  Cardinality({j \in DOMAIN put : put[j] = put[i]}) <= GenOf(put[i])
    BY DEF SentPerGeneration
  <2>1. Base /\ TypeOK /\ Balance /\ OnTheWay
    BY DEF RenameInv, Base
  <2> DEFINE l == put[i]
  <2>2. l \in Line /\ Exists(l)
    BY <2>1 DEF TypeOK, OnTheWay
  <2> HIDE DEF l
  <2>3. /\ Total(l) <= GenOf(l) /\ Total(l) \in Nat /\ GenOf(l) \in Nat
        /\ Count(put, l) \in Nat /\ Count(cache_lines, l) \in Nat /\ Ahead(l) \in {0, 1}
    BY <2>1, <2>2, TotalType DEF Balance
  <2>4. Count(put, l) <= Total(l)
    BY <2>3 DEF Total
  <2>5. Count(put, l) <= GenOf(l)
    BY <2>3, <2>4
  <2> QED
    BY <2>5 DEF Count, At, l
<1> QED
  BY <1>1, <1>2, RenameInit, PTL DEF Spec

(* Positions have a last one: its distance from the end is the least.      *)
LEMMA MaxOfPositions ==
    ASSUME NEW n \in Nat, NEW P \in SUBSET (1..n), P # {}
    PROVE  Max(P) \in P
<1> DEFINE D == {n - q : q \in P}
<1>1. D \subseteq Nat /\ D # {}
  <2>1. \A q \in P : n - q \in Nat
    OBVIOUS
  <2>2. PICK q \in P : TRUE
    OBVIOUS
  <2>3. n - q \in D
    BY <2>2
  <2> QED
    BY <2>1, <2>3
<1>2. PICK d \in D : \A c \in D : d <= c
  <2> HIDE DEF D
  <2> QED
    BY <1>1, HasLeast
<1>3. PICK m \in P : d = n - m
  OBVIOUS
<1>4. ASSUME NEW q \in P PROVE m >= q
  <2>1. n - q \in D
    OBVIOUS
  <2>2. n - m <= n - q
    BY <1>2, <1>3, <2>1
  <2>3. m \in Int /\ q \in Int
    OBVIOUS
  <2> QED
    BY <2>2, <2>3
<1>5. \E x \in P : \A y \in P : x >= y
  BY <1>4
<1> QED
  BY <1>5 DEF Max

(* g reads the lines of a file as FoldLeft does: after all others the last *)
(* one.                                                                    *)
ReadsAt(g, conf, w, s) ==
    IF s = {} THEN w
    ELSE LET i == Max(s) IN ReadLineOf(g[s \ {i}], conf[i])

SmallParts(conf, n) == {s \in SUBSET DOMAIN conf : Cardinality(s) <= n}
ReadsIn(g, conf, w) == g = [s \in SUBSET DOMAIN conf |-> ReadsAt(g, conf, w, s)]
ReadsUpTo(g, conf, w, n) == g = [s \in SmallParts(conf, n) |-> ReadsAt(g, conf, w, s)]

(* Some of the positions of a file, and those without the last of them     *)
LEMMA PartsOfFile ==
    ASSUME NEW conf \in Seq(Listed), NEW s \in SUBSET DOMAIN conf
    PROVE  /\ Cardinality(s) \in Nat /\ Cardinality(s) <= Len(conf)
           /\ Cardinality(s) = 0 <=> s = {}
           /\ s # {} => Max(s) \in s /\ Cardinality(s \ {Max(s)}) = Cardinality(s) - 1
<1>1. DOMAIN conf = 1..Len(conf) /\ Len(conf) \in Nat
  OBVIOUS
<1>2. IsFiniteSet(1..Len(conf)) /\ Cardinality(1..Len(conf)) = Len(conf)
  <2>1. 1 \in Int /\ Len(conf) \in Int
    BY <1>1
  <2>2. /\ IsFiniteSet(1..Len(conf))
        /\ Cardinality(1..Len(conf)) = IF 1 > Len(conf) THEN 0 ELSE Len(conf) - 1 + 1
    BY <2>1, FS_Interval
  <2> QED
    BY <1>1, <2>2
<1>3. IsFiniteSet(s) /\ Cardinality(s) <= Len(conf)
  BY <1>1, <1>2, FS_Subset
<1>4. s # {} => Max(s) \in s
  BY <1>1, MaxOfPositions
<1>5. Cardinality(s) \in Nat /\ (Cardinality(s) = 0 <=> s = {})
  BY <1>3, FS_CardinalityType, FS_EmptySet
<1>6. \A x \in s : Cardinality(s \ {x}) = Cardinality(s) - 1
  BY <1>3, FS_RemoveElement
<1> QED
  BY <1>3, <1>4, <1>5, <1>6

(* Such a g exists, by the size of the part.                               *)
LEMMA ReadingExists ==
    ASSUME NEW conf \in Seq(Listed), NEW w
    PROVE  \E g : ReadsIn(g, conf, w)
<1> DEFINE P == {n \in Nat : ~ \E g : ReadsUpTo(g, conf, w, n)}
<1>1. ASSUME P # {} PROVE FALSE
  <2>1. PICK n \in P : \A q \in P : n <= q
    <3> HIDE DEF P
    <3>1. P \subseteq Nat
      BY DEF P
    <3> QED
      BY <1>1, <3>1, HasLeast
  <2>2. CASE n = 0
    <3> DEFINE g == [s \in SmallParts(conf, 0) |-> w]
    <3>1. \A s \in SmallParts(conf, 0) : ReadsAt(g, conf, w, s) = w
      BY PartsOfFile DEF ReadsAt, SmallParts
    <3>2. g = [s \in SmallParts(conf, 0) |-> ReadsAt(g, conf, w, s)]
      BY <3>1
    <3> QED
      BY <2>1, <2>2, <3>2 DEF ReadsUpTo
  <2>3. CASE n # 0
    <3>1. n - 1 \in Nat /\ n - 1 \notin P
      BY <2>1, <2>3
    <3>2. PICK g : ReadsUpTo(g, conf, w, n - 1)
      BY <3>1
    <3> DEFINE h == [s \in SmallParts(conf, n) |-> ReadsAt(g, conf, w, s)]
    <3>3. ASSUME NEW s \in SmallParts(conf, n)
          PROVE  ReadsAt(g, conf, w, s) = ReadsAt(h, conf, w, s)
      <4>1. CASE s = {}
        BY <4>1 DEF ReadsAt
      <4>2. CASE s # {}
        <5> DEFINE r == s \ {Max(s)}
        <5>1. /\ r \in SUBSET DOMAIN conf /\ Cardinality(r) = Cardinality(s) - 1
              /\ Cardinality(s) \in Nat /\ Cardinality(s) <= n
          BY <4>2, PartsOfFile DEF SmallParts
        <5>2. Cardinality(r) <= n - 1 /\ Cardinality(r) <= n
          BY <2>1, <5>1
        <5>3. r \in SmallParts(conf, n - 1) /\ r \in SmallParts(conf, n)
          BY <5>1, <5>2 DEF SmallParts
        <5>4. g[r] = ReadsAt(g, conf, w, r)
          <6> HIDE DEF r
          <6> QED
            BY <3>2, <5>3 DEF ReadsUpTo
        <5>5. h[r] = ReadsAt(g, conf, w, r)
          <6> HIDE DEF r
          <6> QED
            BY <5>3
        <5>6. /\ ReadsAt(g, conf, w, s) = ReadLineOf(g[r], conf[Max(s)])
              /\ ReadsAt(h, conf, w, s) = ReadLineOf(h[r], conf[Max(s)])
          <6> HIDE DEF h
          <6> QED
            BY <4>2 DEF ReadsAt
        <5> HIDE DEF h, r
        <5> QED
          BY <5>4, <5>5, <5>6
      <4> QED
        BY <4>1, <4>2
    <3>4. h = [s \in SmallParts(conf, n) |-> ReadsAt(h, conf, w, s)]
      BY <3>3
    <3>5. ReadsUpTo(h, conf, w, n)
      <4> HIDE DEF h
      <4> QED
        BY <3>4 DEF ReadsUpTo
    <3> QED
      BY <2>1, <3>5
  <2> QED
    BY <2>2, <2>3
<1>2. Len(conf) \in Nat
  OBVIOUS
<1>3. PICK g : ReadsUpTo(g, conf, w, Len(conf))
  BY <1>1, <1>2
<1>4. SmallParts(conf, Len(conf)) = SUBSET DOMAIN conf
  BY PartsOfFile DEF SmallParts
<1> QED
  BY <1>3, <1>4 DEF ReadsUpTo, ReadsIn

(* FoldLeft is such a g.                                                   *)
LEMMA FoldReads ==
    ASSUME NEW conf \in Seq(Listed), NEW w
    PROVE  \E g : /\ ReadsIn(g, conf, w)
                  /\ ReadWhitelist(conf, w) = g[DOMAIN conf]
<1> DEFINE g == CHOOSE g : g = [s \in SUBSET DOMAIN conf |->
                    IF s = {} THEN w
                    ELSE LET i == Max(s) IN ReadLineOf(g[s \ {i}], conf[i])]
<1>1. ReadWhitelist(conf, w) = g[DOMAIN conf]
  BY DEF ReadWhitelist, FoldLeft, MapThenFoldSet
<1>2. ReadsIn(g, conf, w)
  <2>1. PICK h : ReadsIn(h, conf, w)
    BY ReadingExists
  <2>2. h = [s \in SUBSET DOMAIN conf |->
               IF s = {} THEN w
               ELSE LET i == Max(s) IN ReadLineOf(h[s \ {i}], conf[i])]
    BY <2>1 DEF ReadsIn, ReadsAt
  <2>3. g = [s \in SUBSET DOMAIN conf |->
               IF s = {} THEN w
               ELSE LET i == Max(s) IN ReadLineOf(g[s \ {i}], conf[i])]
    BY <2>2
  <2> QED
    BY <2>3 DEF ReadsIn, ReadsAt
<1> QED
  BY <1>1, <1>2

(* A file is read line by line.                                            *)
LEMMA ReadLineByLine ==
    ASSUME NEW conf \in Seq(Listed), NEW w
    PROVE  \E after :
              /\ after[0] = w
              /\ \A n \in 1..Len(conf) : after[n] = ReadLineOf(after[n - 1], conf[n])
              /\ ReadWhitelist(conf, w) = after[Len(conf)]
<1>1. PICK g : ReadsIn(g, conf, w) /\ ReadWhitelist(conf, w) = g[DOMAIN conf]
  BY FoldReads
<1> DEFINE after == [n \in 0..Len(conf) |-> g[1..n]]
<1>2. DOMAIN conf = 1..Len(conf) /\ Len(conf) \in Nat
  OBVIOUS
<1>3. \A s \in SUBSET DOMAIN conf : g[s] = ReadsAt(g, conf, w, s)
  BY <1>1 DEF ReadsIn
<1>4. after[0] = w
  <2>1. after[0] = g[{}]
    BY <1>2
  <2> QED
    BY <1>3, <2>1 DEF ReadsAt
<1>5. ASSUME NEW n \in 1..Len(conf)
      PROVE  after[n] = ReadLineOf(after[n - 1], conf[n])
  <2>1. /\ after[n] = g[1..n] /\ after[n - 1] = g[1..(n - 1)]
        /\ n \in Nat /\ n >= 1 /\ n <= Len(conf)
    BY <1>2
  <2>5. 1..n \in SUBSET DOMAIN conf /\ 1..n # {}
    <3>1. 1..n \subseteq 1..Len(conf)
      BY <1>2, <2>1
    <3>2. 1 \in 1..n
      BY <2>1
    <3> QED
      BY <1>2, <3>1, <3>2
  <2>2. Max(1..n) = n
    <3>1. Max(1..n) \in 1..n /\ n \in 1..n
      BY <2>1, <2>5, MaxOfPositions
    <3>2. \E x \in 1..n : \A y \in 1..n : x >= y
      BY <3>1
    <3>3. \A y \in 1..n : Max(1..n) >= y
      BY <3>2 DEF Max
    <3>4. Max(1..n) >= n
      BY <3>1, <3>3
    <3> QED
      BY <3>1, <3>4
  <2>3. (1..n) \ {n} = 1..(n - 1)
    BY <2>1
  <2>4. g[1..n] = ReadLineOf(g[(1..n) \ {Max(1..n)}], conf[Max(1..n)])
    BY <1>3, <2>5 DEF ReadsAt
  <2> HIDE DEF after
  <2> QED
    BY <2>1, <2>2, <2>3, <2>4
<1>6. ReadWhitelist(conf, w) = after[Len(conf)]
  BY <1>1, <1>2
<1> HIDE DEF after
<1> QED
  BY <1>4, <1>5, <1>6

-----------------------------------------------------------------------------
(* Whitelist: what one line does to the database *)

Stored == [type : {"ip", "domain", "org", "mac"}, data : STRING \ Word,
           from : Word, what : Word]

(* The entries of v are some of those of w.                                *)
Fewer(v, w) ==
    /\ v \in Seq(Stored)
    /\ KeysOnce(v)
    /\ \A e : Has(v, e) => Has(w, e)

LEMMA EntryStored ==
    ASSUME NEW l \in Listed
    PROVE  Entry(l) \in Stored /\ SameKey(Entry(l), l)
BY DEF Listed, Entry, Stored, SameKey

LEMMA PutIn ==
    ASSUME NEW w \in Seq(Stored), KeysOnce(w), NEW e \in Stored
    PROVE  /\ Put(w, e) \in Seq(Stored) /\ KeysOnce(Put(w, e))
           /\ Has(Put(w, e), e)
           /\ \A x : Has(Put(w, e), x) => x = e \/ Has(w, x)
           /\ \A x : Has(w, x) /\ ~SameKey(x, e) => Has(Put(w, e), x)
<1> DEFINE n == Len(w)
<1>1. n \in Nat /\ DOMAIN w = 1..n
  OBVIOUS
<1>2. CASE \E i \in DOMAIN w : SameKey(w[i], e)
  <2> DEFINE v == [i \in DOMAIN w |-> IF SameKey(w[i], e) THEN e ELSE w[i]]
  <2>1. Put(w, e) = v
    BY <1>2 DEF Put
  <2>2. v \in Seq(Stored) /\ DOMAIN v = DOMAIN w
    BY <1>1
  <2>3. \A i \in DOMAIN w : /\ SameKey(v[i], w[i])
                            /\ v[i] = IF SameKey(w[i], e) THEN e ELSE w[i]
    BY DEF SameKey
  <2> HIDE DEF v
  <2>4. KeysOnce(v)
    BY <2>2, <2>3 DEF KeysOnce, SameKey
  <2>5. Has(v, e)
    BY <1>2, <2>2, <2>3 DEF Has
  <2>6. \A x : Has(v, x) => x = e \/ Has(w, x)
    BY <2>2, <2>3 DEF Has
  <2>7. \A x : Has(w, x) /\ ~SameKey(x, e) => Has(v, x)
    BY <2>2, <2>3 DEF Has
  <2> QED
    BY <2>1, <2>2, <2>4, <2>5, <2>6, <2>7
<1>3. CASE ~ \E i \in DOMAIN w : SameKey(w[i], e)
  <2> DEFINE v == Append(w, e)
  <2>1. Put(w, e) = v
    BY <1>3 DEF Put
  <2>2. /\ v \in Seq(Stored) /\ DOMAIN v = 1..(n + 1)
        /\ v[n + 1] = e /\ \A i \in 1..n : v[i] = w[i]
    OBVIOUS
  <2> HIDE DEF v, n
  <2>3. \A i \in 1..(n + 1) : i \in 1..n \/ i = n + 1
    BY <1>1
  <2>4. \A i \in 1..n : i \in 1..(n + 1)
    BY <1>1
  <2>5. n + 1 \in 1..(n + 1)
    BY <1>1
  <2>6. KeysOnce(v)
    <3> SUFFICES ASSUME NEW i \in 1..(n + 1), NEW j \in 1..(n + 1), SameKey(v[i], v[j])
                 PROVE  i = j
      BY <2>2 DEF KeysOnce
    <3>1. CASE i \in 1..n /\ j \in 1..n
      BY <1>1, <2>2, <3>1 DEF KeysOnce
    <3>2. CASE i \in 1..n /\ j = n + 1
      BY <1>1, <1>3, <2>2, <3>2
    <3>3. CASE i = n + 1 /\ j \in 1..n
      BY <1>1, <1>3, <2>2, <3>3 DEF SameKey
    <3> QED
      BY <2>3, <3>1, <3>2, <3>3
  <2>7. Has(v, e)
    BY <2>2, <2>5 DEF Has
  <2>8. \A x : Has(v, x) => x = e \/ Has(w, x)
    BY <1>1, <2>2, <2>3 DEF Has
  <2>9. \A x : Has(w, x) => Has(v, x)
    BY <1>1, <2>2, <2>4 DEF Has
  <2> QED
    BY <2>1, <2>2, <2>6, <2>7, <2>8, <2>9
<1> QED
  BY <1>2, <1>3

LEMMA Removed ==
    ASSUME NEW w \in Seq(Stored), KeysOnce(w), NEW i \in DOMAIN w
    PROVE  /\ Fewer(RemoveAt(w, i), w)
           /\ ~ Has(RemoveAt(w, i), w[i])
           /\ \A x : Has(w, x) => x = w[i] \/ Has(RemoveAt(w, i), x)
<1> DEFINE n == Len(w)
           v == RemoveAt(w, i)
<1>1. n \in Nat /\ DOMAIN w = 1..n /\ i \in 1..n
  OBVIOUS
<1>2. /\ v \in Seq(Stored) /\ DOMAIN v = 1..(n - 1)
      /\ \A k \in 1..(n - 1) : v[k] = IF k < i THEN w[k] ELSE w[k + 1]
  <2> DEFINE a == SubSeq(w, 1, i - 1)
             b == SubSeq(w, i + 1, n)
  <2>1. v = a \o b
    BY DEF RemoveAt
  <2>2. a \in Seq(Stored) /\ Len(a) = i - 1 /\ \A k \in 1..(i - 1) : a[k] = w[k]
    BY <1>1
  <2>3. b \in Seq(Stored) /\ Len(b) = n - i /\ \A k \in 1..(n - i) : b[k] = w[i + k]
    BY <1>1
  <2> HIDE DEF a, b, v, n
  <2>4. /\ v \in Seq(Stored) /\ Len(v) = Len(a) + Len(b)
        /\ \A k \in 1..(Len(a) + Len(b)) :
              v[k] = IF k <= Len(a) THEN a[k] ELSE b[k - Len(a)]
    BY <2>1, <2>2, <2>3, ConcatProperties
  <2>5. v \in Seq(Stored) /\ Len(v) = n - 1
    BY <1>1, <2>2, <2>3, <2>4
  <2>6. ASSUME NEW k \in 1..(n - 1)
        PROVE  v[k] = IF k < i THEN w[k] ELSE w[k + 1]
    <3>1. CASE k < i
      BY <1>1, <2>2, <2>3, <2>4, <3>1
    <3>2. CASE ~ (k < i)
      <4>1. k - (i - 1) \in 1..(n - i) /\ i + (k - (i - 1)) = k + 1
        BY <1>1, <3>2
      <4>2. v[k] = b[k - (i - 1)]
        BY <1>1, <2>2, <2>3, <2>4, <3>2
      <4>3. b[k - (i - 1)] = w[i + (k - (i - 1))]
        BY <2>3, <4>1
      <4> QED
        BY <3>2, <4>1, <4>2, <4>3
    <3> QED
      BY <3>1, <3>2
  <2>7. DOMAIN v = 1..(n - 1)
    BY <1>1, <2>5
  <2> QED
    BY <2>5, <2>6, <2>7
<1> HIDE DEF v, n
<1> DEFINE Of(k) == IF k < i THEN k ELSE k + 1
<1>3. \A k \in 1..(n - 1) : Of(k) \in 1..n /\ Of(k) # i /\ v[k] = w[Of(k)]
  BY <1>1, <1>2
<1>4. \A j, k \in 1..(n - 1) : Of(j) = Of(k) => j = k
  BY <1>1
<1>5. \A j \in 1..n : j # i => \E k \in 1..(n - 1) : Of(k) = j
  <2> SUFFICES ASSUME NEW j \in 1..n, j # i
               PROVE  \E k \in 1..(n - 1) : Of(k) = j
    OBVIOUS
  <2>1. CASE j < i
    BY <1>1, <2>1
  <2>2. CASE j > i
    <3>1. j - 1 \in 1..(n - 1) /\ Of(j - 1) = j
      BY <1>1, <2>2
    <3> QED
      BY <3>1
  <2> QED
    BY <1>1, <2>1, <2>2
<1> HIDE DEF Of
<1>6. KeysOnce(v)
  <2> SUFFICES ASSUME NEW j \in 1..(n - 1), NEW k \in 1..(n - 1), SameKey(v[j], v[k])
               PROVE  j = k
    BY <1>2 DEF KeysOnce
  <2>1. SameKey(w[Of(j)], w[Of(k)]) /\ Of(j) \in DOMAIN w /\ Of(k) \in DOMAIN w
    BY <1>1, <1>3
  <2>2. Of(j) = Of(k)
    BY <2>1 DEF KeysOnce
  <2> QED
    BY <1>4, <2>2
<1>7. \A x : Has(v, x) => Has(w, x)
  BY <1>1, <1>2, <1>3 DEF Has
<1>8. ~ Has(v, w[i])
  <2> SUFFICES ASSUME NEW k \in 1..(n - 1), v[k] = w[i]
               PROVE  FALSE
    BY <1>2 DEF Has
  <2>1. w[Of(k)] = w[i] /\ Of(k) \in DOMAIN w /\ Of(k) # i
    BY <1>1, <1>3
  <2> QED
    BY <2>1 DEF KeysOnce, SameKey
<1>9. \A x : Has(w, x) => x = w[i] \/ Has(v, x)
  <2> SUFFICES ASSUME NEW j \in 1..n, j # i
               PROVE  Has(v, w[j])
    BY <1>1 DEF Has
  <2>1. PICK k \in 1..(n - 1) : Of(k) = j
    BY <1>5
  <2> QED
    BY <1>2, <1>3, <2>1 DEF Has
<1> QED
  BY <1>2, <1>6, <1>7, <1>8, <1>9 DEF Fewer, v

LEMMA LeastIsMin ==
    ASSUME NEW P \in SUBSET Nat, P # {}
    PROVE  Min(P) \in P
<1>1. PICK p \in P : \A q \in P : p <= q
  BY HasLeast
<1> QED
  BY <1>1 DEF Min

LEMMA NamedPopped ==
    ASSUME NEW w \in Seq(Stored), KeysOnce(w), NEW l, NEW type
    PROVE  /\ Fewer(PopNamed(w, l, type), w)
           /\ \A x : Has(w, x) /\ ~ (x.type = type /\ Named(x, l))
                        => Has(PopNamed(w, l, type), x)
           /\ \A x : x.type = type /\ Named(x, l)
                     /\ (\A y : Has(w, y) /\ y.type = type /\ Named(y, l) => SameKey(y, x))
                        => ~ Has(PopNamed(w, l, type), x)
<1> DEFINE I == {i \in 1..Len(w) : w[i].type = type /\ Named(w[i], l)}
           i == IF I # {} THEN Min(I) ELSE 0
           v == PopNamed(w, l, type)
<1>1. v = IF i = 0 THEN w ELSE RemoveAt(w, i)
  BY DEF PopNamed, SelectInSeq
<1>2. DOMAIN w = 1..Len(w) /\ Len(w) \in Nat
  OBVIOUS
<1>3. I \subseteq Nat /\ I \subseteq DOMAIN w /\ 0 \notin I
  BY <1>2
<1>4. CASE I = {}
  <2>1. v = w
    BY <1>1, <1>4
  <2>2. \A x : Has(w, x) => ~ (x.type = type /\ Named(x, l))
    BY <1>2, <1>4 DEF Has
  <2> HIDE DEF v
  <2> QED
    BY <2>1, <2>2 DEF Fewer, v
<1>5. CASE I # {}
  <2>1. Min(I) \in I
    <3> HIDE DEF I
    <3> QED
      BY <1>3, <1>5, LeastIsMin
  <2>2. i \in I
    BY <1>5, <2>1
  <2>3. /\ i \in DOMAIN w /\ i # 0 /\ w[i].type = type /\ Named(w[i], l)
    BY <1>3, <2>2
  <2> HIDE DEF i, I
  <2>4. v = RemoveAt(w, i)
    BY <1>1, <2>3
  <2> HIDE DEF v
  <2>5. /\ Fewer(v, w) /\ ~ Has(v, w[i])
        /\ \A x : Has(w, x) => x = w[i] \/ Has(v, x)
    BY <2>3, <2>4, Removed
  <2>6. ASSUME NEW x, Has(v, x),
               \A y : Has(w, y) /\ y.type = type /\ Named(y, l) => SameKey(y, x)
        PROVE  FALSE
    <3>1. SameKey(w[i], x) /\ Has(w, x)
      BY <2>3, <2>5, <2>6 DEF Has, Fewer
    <3>2. x = w[i]
      BY <2>3, <3>1 DEF Has, KeysOnce
    <3> QED
      BY <2>5, <2>6, <3>2
  <2> QED
    BY <2>3, <2>5, <2>6 DEF v
<1> QED
  BY <1>4, <1>5

LEMMA Popped ==
    ASSUME NEW w \in Seq(Stored), KeysOnce(w), NEW l \in Listed
    PROVE  /\ Fewer(Pop(w, l), w)
           /\ \A x : Has(w, x) /\ ~ Named(x, l) => Has(Pop(w, l), x)
           /\ l.type # "mac" /\ (\A pair \in Within : pair[2] # l.data)
                => ~ Has(Pop(w, l), Entry(l))
<1> DEFINE w1 == PopNamed(w, l, "ip")
           w2 == PopNamed(w1, l, "domain")
           w3 == PopNamed(w2, l, "org")
<1>1. Pop(w, l) = w3
  BY DEF Pop
<1>2. /\ Fewer(w1, w)
      /\ \A x : Has(w, x) /\ ~ (x.type = "ip" /\ Named(x, l)) => Has(w1, x)
      /\ \A x : x.type = "ip" /\ Named(x, l)
                /\ (\A y : Has(w, y) /\ y.type = "ip" /\ Named(y, l) => SameKey(y, x))
                   => ~ Has(w1, x)
  BY NamedPopped
<1> HIDE DEF w1
<1>3. w1 \in Seq(Stored) /\ KeysOnce(w1)
  BY <1>2 DEF Fewer
<1>4. /\ Fewer(w2, w1)
      /\ \A x : Has(w1, x) /\ ~ (x.type = "domain" /\ Named(x, l)) => Has(w2, x)
      /\ \A x : x.type = "domain" /\ Named(x, l)
                /\ (\A y : Has(w1, y) /\ y.type = "domain" /\ Named(y, l) => SameKey(y, x))
                   => ~ Has(w2, x)
  BY <1>3, NamedPopped
<1> HIDE DEF w2
<1>5. w2 \in Seq(Stored) /\ KeysOnce(w2)
  BY <1>4 DEF Fewer
<1>6. /\ Fewer(w3, w2)
      /\ \A x : Has(w2, x) /\ ~ (x.type = "org" /\ Named(x, l)) => Has(w3, x)
      /\ \A x : x.type = "org" /\ Named(x, l)
                /\ (\A y : Has(w2, y) /\ y.type = "org" /\ Named(y, l) => SameKey(y, x))
                   => ~ Has(w3, x)
  BY <1>5, NamedPopped
<1> HIDE DEF w3
<1>7. Fewer(w3, w)
  BY <1>2, <1>4, <1>6 DEF Fewer
<1>8. \A x : Has(w, x) /\ ~ Named(x, l) => Has(w3, x)
  BY <1>2, <1>4, <1>6
<1>9. ASSUME l.type # "mac", \A pair \in Within : pair[2] # l.data
      PROVE  ~ Has(w3, Entry(l))
  <2> DEFINE e == Entry(l)
  <2>1. e.type = l.type /\ e.data = l.data /\ e.from = l.from /\ e.what = l.what
    BY DEF Entry
  <2> HIDE DEF e
  <2>2. Named(e, l)
    BY <2>1 DEF Named, InLine
  <2>3. ASSUME NEW y \in Stored, y.type = e.type, Named(y, l)
        PROVE  SameKey(y, e)
    <3>1. y.data \notin Word /\ l.from \in Word /\ l.what \in Word
      BY DEF Stored, Listed
    <3>2. \A pair \in Within : pair[2] # l.from /\ pair[2] # l.what
      BY <3>1, WhitelistAssumption
    <3>3. PICK z \in {l.data, l.from, l.what} : y.data = z \/ <<y.data, z>> \in Within
      BY <2>3 DEF Named, InLine
    <3>4. <<y.data, z>>[2] = z
      OBVIOUS
    <3>5. z = l.data /\ y.data = l.data
      BY <1>9, <3>1, <3>2, <3>3, <3>4
    <3> QED
      BY <2>1, <2>3, <3>5 DEF SameKey
  <2>4. \A u \in Seq(Stored) : \A y : Has(u, y) => y \in Stored
    BY DEF Has
  <2>5. e.type \in {"ip", "domain", "org"}
    BY <1>9, <2>1 DEF Listed
  <2>6. /\ e.type = "ip" => ~ Has(w1, e)
        /\ e.type = "domain" => ~ Has(w2, e)
        /\ e.type = "org" => ~ Has(w3, e)
    BY <1>2, <1>3, <1>4, <1>5, <1>6, <2>2, <2>3, <2>4
  <2>7. ~ Has(w3, e)
    BY <1>4, <1>6, <2>5, <2>6 DEF Fewer
  <2> QED
    BY <2>7 DEF e
<1> QED
  BY <1>1, <1>7, <1>8, <1>9

(* What one line of the file makes of the database w                       *)
LineMakes(v, w, l) ==
    /\ v \in Seq(Stored)
    /\ KeysOnce(v)
    /\ ~ l.commented /\ Valid(l) => Has(v, Entry(l))
    /\ \A x : Has(w, x) /\ l.commented /\ ~ Named(x, l) => Has(v, x)
    /\ \A x : Has(w, x) /\ ~ l.commented /\ ~ SameKey(x, l) => Has(v, x)
    /\ \A x : Has(v, x) => Has(w, x) \/ (~ l.commented /\ x = Entry(l))
    /\ l.commented /\ l.type # "mac" /\ (\A pair \in Within : pair[2] # l.data)
         => ~ Has(v, Entry(l))

LEMMA LineRead ==
    ASSUME NEW w \in Seq(Stored), KeysOnce(w), NEW l \in Listed
    PROVE  LineMakes(ReadLineOf(w, l), w, l)
<1>1. CASE l.commented
  <2>1. ReadLineOf(w, l) = Pop(w, l)
    BY <1>1 DEF ReadLineOf
  <2>2. /\ Fewer(Pop(w, l), w) /\ \A x : Has(w, x) /\ ~ Named(x, l) => Has(Pop(w, l), x)
        /\ l.type # "mac" /\ (\A pair \in Within : pair[2] # l.data)
             => ~ Has(Pop(w, l), Entry(l))
    BY Popped
  <2> QED
    BY <1>1, <2>1, <2>2 DEF Fewer, LineMakes
<1>2. CASE ~ l.commented /\ Valid(l)
  <2>1. ReadLineOf(w, l) = Put(w, Entry(l))
    BY <1>2 DEF ReadLineOf
  <2>2. \A x : SameKey(x, Entry(l)) => SameKey(x, l)
    BY DEF SameKey, Entry
  <2>3. Entry(l) \in Stored
    BY EntryStored
  <2> DEFINE v == Put(w, Entry(l))
  <2>4. /\ v \in Seq(Stored) /\ KeysOnce(v) /\ Has(v, Entry(l))
        /\ \A x : Has(v, x) => x = Entry(l) \/ Has(w, x)
        /\ \A x : Has(w, x) /\ ~SameKey(x, Entry(l)) => Has(v, x)
    BY <2>3, PutIn
  <2>5. LineMakes(v, w, l)
    <3> HIDE DEF v
    <3> QED
      BY <1>2, <2>2, <2>4 DEF LineMakes
  <2> QED
    BY <2>1, <2>5
<1>3. CASE ~ l.commented /\ ~ Valid(l)
  <2>1. ReadLineOf(w, l) = w
    BY <1>3 DEF ReadLineOf
  <2> QED
    BY <1>3, <2>1 DEF LineMakes
<1> QED
  BY <1>1, <1>2, <1>3

(* What the whole file does, whatever the database said before             *)
LEMMA FileRead ==
    ASSUME NEW conf \in Seq(Listed), NEW w \in Seq(Stored), KeysOnce(w)
    PROVE  /\ ReadWhitelist(conf, w) \in Seq(Stored) /\ KeysOnce(ReadWhitelist(conf, w))
           /\ \A i \in DOMAIN conf :
                 /\ InForce(conf, i) => Has(ReadWhitelist(conf, w), Entry(conf[i]))
                 /\ CommentedOut(conf, i) => ~ Has(ReadWhitelist(conf, w), Entry(conf[i]))
<1>1. PICK after :
         /\ after[0] = w
         /\ \A n \in 1..Len(conf) : after[n] = ReadLineOf(after[n - 1], conf[n])
         /\ ReadWhitelist(conf, w) = after[Len(conf)]
  BY ReadLineByLine
<1>2. DOMAIN conf = 1..Len(conf) /\ Len(conf) \in Nat /\ \A i \in 1..Len(conf) : conf[i] \in Listed
  OBVIOUS
<1> DEFINE Leaves(i, j) == IF conf[j].commented THEN ~ Named(Entry(conf[i]), conf[j])
                           ELSE ~ SameKey(conf[i], conf[j])
           ForcedUpTo(i, n) == /\ ~ conf[i].commented /\ Valid(conf[i])
                               /\ \A j \in (i + 1)..n : Leaves(i, j)
           Right(n) == /\ after[n] \in Seq(Stored) /\ KeysOnce(after[n])
                       /\ \A i \in 1..n :
                             /\ ForcedUpTo(i, n) => Has(after[n], Entry(conf[i]))
                             /\ CommentedOut(conf, i) => ~ Has(after[n], Entry(conf[i]))
           P == {n \in 0..Len(conf) : ~ Right(n)}
<1>3. Right(0)
  BY <1>1
<1>4. ASSUME NEW n \in 1..Len(conf), Right(n - 1)
      PROVE  Right(n)
  <2> DEFINE u == after[n - 1]
             v == after[n]
             l == conf[n]
  <2>1. n \in Nat /\ l \in Listed /\ n - 1 \in Nat
    BY <1>2
  <2>2. v = ReadLineOf(u, l) /\ u \in Seq(Stored) /\ KeysOnce(u)
    BY <1>1, <1>4
  <2>3. LineMakes(v, u, l)
    <3> HIDE DEF u, v, l
    <3> QED
      BY <2>1, <2>2, LineRead
  <2>4. ASSUME NEW i \in 1..n, ForcedUpTo(i, n)
        PROVE  Has(v, Entry(conf[i]))
    <3>1. CASE i = n
      <4>1. ~ l.commented /\ Valid(l) /\ Entry(conf[i]) = Entry(l)
        BY <2>4, <3>1
      <4> HIDE DEF u, v, l
      <4> QED
        BY <2>3, <4>1 DEF LineMakes
    <3>2. CASE i # n
      <4>1. i \in 1..(n - 1) /\ n \in (i + 1)..n /\ \A j \in (i + 1)..(n - 1) : j \in (i + 1)..n
        BY <2>1, <3>2
      <4>2. ForcedUpTo(i, n - 1) /\ Leaves(i, n)
        BY <2>4, <4>1
      <4>3. Has(u, Entry(conf[i]))
        BY <1>4, <4>1, <4>2
      <4>4. ~ SameKey(conf[i], l) => ~ SameKey(Entry(conf[i]), l)
        BY DEF SameKey, Entry
      <4>5. IF l.commented THEN ~ Named(Entry(conf[i]), l) ELSE ~ SameKey(Entry(conf[i]), l)
        BY <4>2, <4>4
      <4> HIDE DEF u, v, l
      <4> QED
        BY <2>3, <4>3, <4>5 DEF LineMakes
    <3> QED
      BY <3>1, <3>2
  <2>5. ASSUME NEW i \in 1..n, CommentedOut(conf, i)
        PROVE  ~ Has(v, Entry(conf[i]))
    <3>1. CASE i = n
      <4>1. /\ l.commented /\ l.type # "mac" /\ Entry(conf[i]) = Entry(l)
            /\ \A pair \in Within : pair[2] # l.data
        BY <2>5, <3>1 DEF CommentedOut
      <4> HIDE DEF u, v, l
      <4> QED
        BY <2>3, <4>1 DEF LineMakes
    <3>2. CASE i # n
      <4>1. i \in 1..(n - 1)
        BY <2>1, <3>2
      <4>2. ~ Has(u, Entry(conf[i]))
        BY <1>4, <2>5, <4>1
      <4>3. Entry(conf[i]) # Entry(l)
        <5>1. ~ SameKey(conf[i], l)
          BY <1>2, <2>5, <3>2 DEF CommentedOut
        <5>2. ASSUME Entry(conf[i]) = Entry(l) PROVE FALSE
          <6>1. /\ Entry(conf[i]).type = conf[i].type /\ Entry(conf[i]).data = conf[i].data
                /\ Entry(l).type = l.type /\ Entry(l).data = l.data
            BY DEF Entry
          <6> QED
            BY <5>1, <5>2, <6>1 DEF SameKey
        <5> QED
          BY <5>2
      <4> HIDE DEF u, v, l
      <4> QED
        BY <2>3, <4>2, <4>3 DEF LineMakes
    <3> QED
      BY <3>1, <3>2
  <2> QED
    BY <2>3, <2>4, <2>5 DEF LineMakes
<1>5. ASSUME P # {} PROVE FALSE
  <2> HIDE DEF Right
  <2>1. PICK n \in P : \A q \in P : n <= q
    <3>1. P \subseteq Nat
      BY <1>2
    <3> HIDE DEF P
    <3> QED
      BY <1>5, <3>1, HasLeast
  <2>2. n # 0 /\ n \in 0..Len(conf) /\ ~ Right(n)
    BY <1>3, <2>1
  <2>3. n \in 1..Len(conf) /\ n - 1 \in 0..Len(conf) /\ ~ (n <= n - 1)
    BY <1>2, <2>2
  <2>4. Right(n - 1)
    BY <2>1, <2>3
  <2> QED
    BY <1>4, <2>2, <2>3, <2>4
<1>6. Right(Len(conf))
  <2> HIDE DEF Right
  <2> QED
    BY <1>2, <1>5
<1>7. ASSUME NEW i \in DOMAIN conf, InForce(conf, i)
      PROVE  ForcedUpTo(i, Len(conf))
  BY <1>7 DEF InForce
<1> QED
  BY <1>1, <1>2, <1>6, <1>7

-----------------------------------------------------------------------------
(* The database between the messages: when none of them is "reload", it is *)
(* what the file made of some earlier state of it.                         *)
Message == {"subscribe", "reload", "stop_process"}
Reloading == \E i \in DOMAIN reload_whitelist : reload_whitelist[i] = "reload"

FileInv ==
    /\ whitelist \in Seq(Stored)
    /\ KeysOnce(whitelist)
    /\ whitelist_conf \in Conf \cup {Missing}
    /\ reload_whitelist \in Seq(Message)
    /\ profiler # "error" /\ whitelist_conf # Missing /\ ~ Reloading =>
         \E w \in Seq(Stored) : KeysOnce(w) /\ whitelist = ReadWhitelist(whitelist_conf, w)

LEMMA FileInvRight ==
    ASSUME FileInv
    PROVE  WhitelistFollowsFile
<1> SUFFICES ASSUME profiler # "error", whitelist_conf # Missing, ~ Reloading
             PROVE  /\ KeysOnce(whitelist)
                    /\ \A i \in DOMAIN whitelist_conf :
                          /\ InForce(whitelist_conf, i)
                               => Has(whitelist, Entry(whitelist_conf[i]))
                          /\ CommentedOut(whitelist_conf, i)
                               => ~ Has(whitelist, Entry(whitelist_conf[i]))
  BY DEF WhitelistFollowsFile, Reloading
<1>1. whitelist_conf \in Seq(Listed)
  BY ReaderAssumption DEF FileInv
<1>2. PICK w \in Seq(Stored) : KeysOnce(w) /\ whitelist = ReadWhitelist(whitelist_conf, w)
  BY DEF FileInv
<1> QED
  BY <1>1, <1>2, FileRead

LEMMA FileInvInit ==
    ASSUME ReaderInit
    PROVE  FileInv
<1>1. <<>> \in Seq(Stored) /\ KeysOnce(<<>>)
  BY DEF KeysOnce
<1>2. whitelist_conf \in Seq(Listed) /\ whitelist_conf \in Conf
  BY ReaderAssumption DEF ReaderInit
<1>3. whitelist = ReadWhitelist(whitelist_conf, <<>>) /\ reload_whitelist = <<"subscribe">>
  BY DEF ReaderInit
<1>4. whitelist \in Seq(Stored) /\ KeysOnce(whitelist)
  BY <1>1, <1>2, <1>3, FileRead
<1>5. reload_whitelist \in Seq(Message)
  BY <1>3 DEF Message
<1> QED
  BY <1>1, <1>2, <1>3, <1>4, <1>5 DEF FileInv

LEMMA FileInvStep ==
    ASSUME FileInv, [ReaderNext]_readerVars
    PROVE  FileInv'
<1> USE DEF FileInv
<1>1. CASE Receive
  <2>1. UNCHANGED <<whitelist, whitelist_conf, reload_whitelist>> /\ profiler # "error"
    BY <1>1 DEF Receive, listed
  <2> QED
    BY <2>1 DEF Reloading
<1>2. CASE Poll
  <2>1. profiler # "error" /\ whitelist_conf' = whitelist_conf
    BY <1>2 DEF Poll
  <2>2. CASE reload_whitelist = <<>>
    <3>1. UNCHANGED <<whitelist, whitelist_conf, reload_whitelist>>
      BY <1>2, <2>2 DEF Poll
    <3> QED
      BY <2>1, <3>1 DEF Reloading
  <2>3. CASE reload_whitelist # <<>>
    <3> DEFINE message == Head(reload_whitelist)
               lost == message = "reload" /\ whitelist_conf = Missing
    <3>1. /\ reload_whitelist' = Tail(reload_whitelist)
          /\ lost => profiler' = "error"
          /\ whitelist' = IF message = "reload" /\ ~ lost
                          THEN ReadWhitelist(whitelist_conf, whitelist)
                          ELSE whitelist
      BY <1>2, <2>3 DEF Poll
    <3>2. /\ reload_whitelist' \in Seq(Message)
          /\ message # "reload" /\ ~ Reloading' => ~ Reloading
      <4>1. /\ reload_whitelist' \in Seq(Message)
            /\ Len(reload_whitelist') = Len(reload_whitelist) - 1
            /\ \A i \in 1 .. Len(reload_whitelist) - 1 :
                  reload_whitelist'[i] = reload_whitelist[i + 1]
        BY <2>3, <3>1
      <4>2. ASSUME NEW i \in DOMAIN reload_whitelist, reload_whitelist[i] = "reload",
                   message # "reload"
            PROVE  Reloading'
        <5>1. i \in 1 .. Len(reload_whitelist) /\ i # 1
          BY <4>2
        <5>2. i - 1 \in 1 .. Len(reload_whitelist) - 1 /\ (i - 1) + 1 = i
          BY <5>1
        <5>3. i - 1 \in DOMAIN reload_whitelist' /\ reload_whitelist'[i - 1] = "reload"
          BY <4>1, <4>2, <5>2
        <5> QED
          BY <5>3 DEF Reloading
      <4> QED
        BY <4>1, <4>2 DEF Reloading
    <3> HIDE DEF message
    <3>3. CASE lost
      <4>1. whitelist' = whitelist /\ profiler' = "error"
        BY <3>1, <3>3
      <4> QED
        BY <2>1, <3>2, <4>1
    <3>4. CASE message = "reload" /\ whitelist_conf # Missing
      <4>1. whitelist' = ReadWhitelist(whitelist_conf, whitelist)
        BY <3>1, <3>4
      <4>2. whitelist_conf \in Seq(Listed)
        BY <3>4, ReaderAssumption
      <4>3. whitelist' \in Seq(Stored) /\ KeysOnce(whitelist')
        BY <4>1, <4>2, FileRead
      <4>4. \E w \in Seq(Stored) : KeysOnce(w) /\ whitelist' = ReadWhitelist(whitelist_conf', w)
        BY <2>1, <4>1
      <4>5. KeysOnce(whitelist)'
        BY <4>3 DEF KeysOnce
      <4> QED
        BY <2>1, <3>2, <4>3, <4>4, <4>5
    <3>5. CASE message # "reload"
      <4>1. whitelist' = whitelist
        BY <3>1, <3>5
      <4> QED
        BY <2>1, <3>2, <3>5, <4>1
    <3> QED
      BY <3>3, <3>4, <3>5
  <2> QED
    BY <2>2, <2>3
<1>3. CASE \E ip \in Ip : StoreMac(ip)
  <2>1. UNCHANGED <<whitelist, whitelist_conf, reload_whitelist, profiler>>
    BY <1>3 DEF StoreMac, listed
  <2> QED
    BY <2>1 DEF Reloading
<1>4. ASSUME NEW conf \in Conf \cup {Missing}, EditWhitelist(conf)
      PROVE  FileInv'
  <2>1. /\ whitelist_conf' = conf /\ whitelist' = whitelist
        /\ reload_whitelist' = IF conf = Missing THEN reload_whitelist
                               ELSE Append(reload_whitelist, "reload")
    BY <1>4 DEF EditWhitelist
  <2>2. CASE conf = Missing
    BY <2>1, <2>2
  <2>3. CASE conf # Missing
    <3>1. reload_whitelist' = Append(reload_whitelist, "reload")
      BY <2>1, <2>3
    <3>2. /\ reload_whitelist' \in Seq(Message)
          /\ Len(reload_whitelist) + 1 \in DOMAIN reload_whitelist'
          /\ reload_whitelist'[Len(reload_whitelist) + 1] = "reload"
      BY <3>1 DEF Message
    <3>3. Reloading'
      BY <3>2 DEF Reloading
    <3> QED
      BY <2>1, <3>2, <3>3
  <2> QED
    BY <2>2, <2>3
<1>5. CASE StopReader
  <2>1. /\ UNCHANGED <<whitelist, whitelist_conf, profiler>>
        /\ reload_whitelist' = Append(reload_whitelist, "stop_process")
    BY <1>5 DEF StopReader
  <2>2. /\ reload_whitelist' \in Seq(Message)
        /\ Len(reload_whitelist') = Len(reload_whitelist) + 1
        /\ \A i \in DOMAIN reload_whitelist : /\ reload_whitelist'[i] = reload_whitelist[i]
                                              /\ i \in DOMAIN reload_whitelist'
    BY <2>1 DEF Message
  <2>3. Reloading => Reloading'
    BY <2>2 DEF Reloading
  <2> QED
    BY <2>1, <2>2, <2>3
<1>6. CASE UNCHANGED readerVars
  <2>1. UNCHANGED <<whitelist, whitelist_conf, reload_whitelist, profiler>>
    BY <1>6 DEF readerVars, listed
  <2> QED
    BY <2>1 DEF Reloading
<1> QED
  BY <1>1, <1>2, <1>3, <1>4, <1>5, <1>6 DEF ReaderNext

(* Once the last change of whitelist.conf has been read, the lines in      *)
(* force are in the database, one entry per key, and the lines that        *)
(* CommentedOut describes are not: whatever the file said before, and in   *)
(* whatever order the changes, the messages and the lines came.            *)
THEOREM WhitelistReread == ReaderSpec => []WhitelistFollowsFile
<1>1. ReaderInit => FileInv
  BY FileInvInit
<1>2. FileInv /\ [ReaderNext]_readerVars => FileInv'
  BY FileInvStep
<1>3. FileInv => WhitelistFollowsFile
  BY FileInvRight
<1> QED
  BY <1>1, <1>2, <1>3, PTL DEF ReaderSpec

-----------------------------------------------------------------------------
(* What add_flow_to_profile writes about the columns of a line *)

Once(q) == \A i, j \in DOMAIN q : q[i] = q[j] => i = j

Apart(S, T) == \A x \in S : x \notin T

LEMMA NoneOrOne ==
    ASSUME NEW S
    PROVE  /\ <<>> \in Seq(S) /\ Once(<<>>) /\ Range(<<>>) = {}
           /\ \A x \in S : <<x>> \in Seq(S) /\ Once(<<x>>) /\ Range(<<x>>) = {x}
<1>1. <<>> \in Seq(S) /\ DOMAIN <<>> = {}
  OBVIOUS
<1>2. ASSUME NEW x \in S
      PROVE  <<x>> \in Seq(S) /\ Once(<<x>>) /\ Range(<<x>>) = {x}
  <2>1. <<x>> \in Seq(S) /\ DOMAIN <<x>> = {1} /\ <<x>>[1] = x
    OBVIOUS
  <2> QED
    BY <2>1 DEF Once, Range
<1> QED
  BY <1>1, <1>2 DEF Once, Range

LEMMA Joined ==
    ASSUME NEW S, NEW T, NEW q \in Seq(S), NEW r \in Seq(T)
    PROVE  /\ q \o r \in Seq(S \cup T)
           /\ Once(q) /\ Once(r) /\ Apart(S, T) => Once(q \o r)
           /\ \A x : x \in Range(q \o r) <=> x \in Range(q) \/ x \in Range(r)
<1> DEFINE v == q \o r
<1>1. q \in Seq(S \cup T) /\ r \in Seq(S \cup T)
  OBVIOUS
<1>2. /\ v \in Seq(S \cup T) /\ Len(v) = Len(q) + Len(r)
      /\ \A i \in 1..(Len(q) + Len(r)) : v[i] = IF i <= Len(q) THEN q[i] ELSE r[i - Len(q)]
  BY <1>1, ConcatProperties
<1>3. /\ Len(q) \in Nat /\ Len(r) \in Nat
      /\ DOMAIN q = 1..Len(q) /\ DOMAIN r = 1..Len(r) /\ DOMAIN v = 1..(Len(q) + Len(r))
  BY <1>2
<1>4. /\ \A i \in DOMAIN q : q[i] \in S
      /\ \A i \in DOMAIN r : r[i] \in T
  OBVIOUS
<1> HIDE DEF v
<1>5. \A i \in DOMAIN v : \/ i \in DOMAIN q /\ v[i] = q[i]
                          \/ i - Len(q) \in DOMAIN r /\ v[i] = r[i - Len(q)] /\ i \in Nat
  BY <1>2, <1>3
<1>6. /\ \A i \in DOMAIN q : i \in DOMAIN v /\ v[i] = q[i]
      /\ \A i \in DOMAIN r : i + Len(q) \in DOMAIN v /\ v[i + Len(q)] = r[i]
  BY <1>2, <1>3
<1>7. \A x : x \in Range(v) <=> x \in Range(q) \/ x \in Range(r)
  BY <1>5, <1>6 DEF Range
<1>8. ASSUME Once(q), Once(r), Apart(S, T)
      PROVE  Once(v)
  <2> SUFFICES ASSUME NEW i \in DOMAIN v, NEW j \in DOMAIN v, v[i] = v[j]
               PROVE  i = j
    BY DEF Once
  <2>1. CASE i \in DOMAIN q /\ v[i] = q[i]
    <3>1. j \in DOMAIN q /\ v[j] = q[j]
      BY <1>4, <1>5, <1>8, <2>1 DEF Apart
    <3> QED
      BY <1>8, <2>1, <3>1 DEF Once
  <2>2. CASE i - Len(q) \in DOMAIN r /\ v[i] = r[i - Len(q)] /\ i \in Nat
    <3>1. j - Len(q) \in DOMAIN r /\ v[j] = r[j - Len(q)] /\ j \in Nat
      BY <1>4, <1>5, <1>8, <2>2 DEF Apart
    <3>2. i - Len(q) = j - Len(q)
      BY <1>8, <2>2, <3>1 DEF Once
    <3> QED
      BY <1>3, <2>2, <3>1, <3>2
  <2> QED
    BY <1>5, <2>1, <2>2
<1> QED
  BY <1>2, <1>7, <1>8 DEF v

(* The pairs AddedOf may hold, by the type of the columns                  *)
MacPair(mac, ip) == IF mac = "" THEN {} ELSE {<<"new_MAC", ip>>}
MacPairs(c) == MacPair(c.smac, c.saddr) \cup MacPair(c.dmac, c.daddr)

EarlyPairs(c) ==
    IF c.type \in FlowTypes THEN MacPairs(c)
    ELSE IF c.type = "dhcp"
    THEN MacPair(c.src_mac, c.saddr) \cup {<<"dhcp_server", c.daddr>>}
    ELSE IF c.type = "software"
    THEN {"user_agent", "software", "new_software"} \X {c.saddr}
    ELSE {}

LatePairs(c) ==
    IF c.type \in FlowTypes THEN {"features"} \X {c.saddr, c.daddr}
    ELSE IF c.type = "arp"
    THEN {<<"new_arp", c.saddr>>, <<"flow", c.saddr>>} \cup MacPairs(c)
    ELSE IF c.type \in DOMAIN Published THEN {<<Published[c.type], c.saddr>>}
    ELSE {}

(* Between one address and itself some of them are written twice.          *)
Distinct(c) == c.type \in FlowTypes \cup {"arp"} => c.saddr # c.daddr

LEMMA PairsApart ==
    ASSUME NEW a, NEW b
    PROVE  /\ a # b => \A m, n : Apart(MacPair(m, a), MacPair(n, b))
           /\ \A m, k : k # "new_MAC" => /\ Apart(MacPair(m, a), {<<k, b>>})
                                         /\ Apart({<<k, b>>}, MacPair(m, a))
           /\ \A k, l : k # l \/ a # b => Apart({<<k, a>>}, {<<l, b>>})
<1>1. \A k, l : <<k, a>> = <<l, b>> => k = l /\ a = b
  OBVIOUS
<1> QED
  BY <1>1 DEF MacPair, Apart

LEMMA ApartUnion ==
    ASSUME NEW S, NEW T, NEW U
    PROVE  /\ Apart(S, U) /\ Apart(T, U) <=> Apart(S \cup T, U)
           /\ Apart(U, S) /\ Apart(U, T) <=> Apart(U, S \cup T)
BY DEF Apart

LEMMA NewMacPair ==
    ASSUME NEW mac, NEW ip
    PROVE  NewMac(mac, ip) \in Seq(MacPair(mac, ip)) /\ Once(NewMac(mac, ip))
<1> DEFINE p == <<"new_MAC", ip>>
<1>1. NewMac(mac, ip) = <<>> \/ (NewMac(mac, ip) = <<p>> /\ p \in MacPair(mac, ip))
  BY DEF NewMac, MacPair
<1> HIDE DEF p
<1> QED
  BY <1>1, NoneOrOne

LEMMA EarlyWritten ==
    ASSUME NEW c
    PROVE  Early(c) \in Seq(EarlyPairs(c)) /\ (Distinct(c) => Once(Early(c)))
<1>1. CASE c.type \in FlowTypes
  <2> DEFINE a == NewMac(c.smac, c.saddr)
             b == IF c.smac # "" /\ c.saddr \notin Ip THEN <<>> ELSE NewMac(c.dmac, c.daddr)
             S == MacPair(c.smac, c.saddr)
             T == MacPair(c.dmac, c.daddr)
  <2>1. Early(c) = a \o b /\ EarlyPairs(c) = S \cup T
    BY <1>1 DEF Early, MacsOf, EarlyPairs, MacPairs, FlowTypes
  <2>2. a \in Seq(S) /\ Once(a) /\ b \in Seq(T) /\ Once(b)
    BY NewMacPair, NoneOrOne
  <2>3. Distinct(c) => Apart(S, T)
    BY <1>1, PairsApart DEF Distinct
  <2> HIDE DEF a, b, S, T
  <2>4. a \o b \in Seq(S \cup T) /\ (Distinct(c) => Once(a \o b))
    BY <2>2, <2>3, Joined
  <2> QED
    BY <2>1, <2>4
<1>2. CASE c.type = "dhcp"
  <2> DEFINE p == <<"new_MAC", c.saddr>>
             d == <<"dhcp_server", c.daddr>>
             a == IF c.src_mac # "" THEN <<p>> ELSE <<>>
             b == IF c.daddr \in Ip THEN <<d>> ELSE <<>>
             S == MacPair(c.src_mac, c.saddr)
  <2>1. Early(c) = a \o b /\ EarlyPairs(c) = S \cup {d}
    BY <1>2 DEF Early, EarlyPairs, FlowTypes
  <2>2. c.src_mac # "" => p \in S
    BY DEF MacPair
  <2>3. Apart(S, {d})
    BY PairsApart
  <2> HIDE DEF p, d, S
  <2>4. a \in Seq(S) /\ Once(a) /\ b \in Seq({d}) /\ Once(b)
    BY <2>2, NoneOrOne
  <2> HIDE DEF a, b
  <2>5. a \o b \in Seq(S \cup {d}) /\ Once(a \o b)
    BY <2>3, <2>4, Joined
  <2> QED
    BY <2>1, <2>5
<1>3. CASE c.type = "software"
  <2> DEFINE p == <<"user_agent", c.saddr>>
             s == <<"software", c.saddr>>
             t == <<"new_software", c.saddr>>
             b == IF c.start = "datetime" THEN <<t>> ELSE <<>>
  <2>1. Early(c) = <<p, s>> \o b /\ p # s /\ p # t /\ s # t /\ {p, s, t} \subseteq EarlyPairs(c)
    BY <1>3 DEF Early, EarlyPairs, FlowTypes
  <2> HIDE DEF p, s, t
  <2>2. b \in Seq({t}) /\ Once(b)
    BY NoneOrOne
  <2>3. <<p, s>> \in Seq({p, s}) /\ DOMAIN <<p, s>> = {1, 2} /\ <<p, s>>[1] = p /\ <<p, s>>[2] = s
    OBVIOUS
  <2>4. Once(<<p, s>>)
    BY <2>1, <2>3 DEF Once
  <2> HIDE DEF b
  <2>7. Apart({p, s}, {t})
    BY <2>1 DEF Apart
  <2>5. <<p, s>> \o b \in Seq({p, s} \cup {t}) /\ Once(<<p, s>> \o b)
    BY <2>2, <2>3, <2>4, <2>7, Joined
  <2>6. {p, s} \cup {t} \subseteq EarlyPairs(c)
    BY <2>1
  <2> HIDE DEF EarlyPairs
  <2> QED
    BY <2>1, <2>5, <2>6
<1>4. CASE c.type \notin FlowTypes \cup {"dhcp", "software"}
  <2>1. Early(c) = <<>>
    BY <1>4 DEF Early
  <2> QED
    BY <2>1, NoneOrOne
<1> QED
  BY <1>1, <1>2, <1>3, <1>4

LEMMA OutWritten ==
    ASSUME NEW c
    PROVE  /\ GoingOut(c) \in Seq(LatePairs(c))
           /\ Distinct(c) => Once(GoingOut(c))
           /\ c.type \in FlowTypes => GoingOut(c) = << <<"features", c.saddr>> >>
           /\ c.type \in FlowTypes \cup DOMAIN Published
                => \E p \in Range(GoingOut(c)) : p[1] # "new_MAC"
<1>1. CASE c.type \in FlowTypes
  <2> DEFINE p == <<"features", c.saddr>>
  <2>1. GoingOut(c) = <<p>> /\ p \in LatePairs(c) /\ p[1] # "new_MAC"
    <3>1. LatePairs(c) = {"features"} \X {c.saddr, c.daddr}
      BY <1>1 DEF LatePairs
    <3>2. GoingOut(c) = <<p>>
      BY <1>1 DEF GoingOut
    <3>3. p \in {"features"} \X {c.saddr, c.daddr} /\ p[1] # "new_MAC"
      OBVIOUS
    <3> QED
      BY <3>1, <3>2, <3>3
  <2>2. GoingOut(c) = << <<"features", c.saddr>> >>
    BY <2>1
  <2> HIDE DEF p
  <2>3. GoingOut(c) \in Seq(LatePairs(c)) /\ Once(GoingOut(c)) /\ Range(GoingOut(c)) = {p}
    BY <2>1, NoneOrOne
  <2> QED
    BY <2>1, <2>2, <2>3
<1>2. CASE c.type = "arp"
  <2> DEFINE p == <<"new_arp", c.saddr>>
             f == <<"flow", c.saddr>>
             a == NewMac(c.dmac, c.daddr)
             b == NewMac(c.smac, c.saddr)
             S == MacPair(c.dmac, c.daddr)
             T == MacPair(c.smac, c.saddr)
  <2>1. "arp" \in DOMAIN Published /\ Published["arp"] = "new_arp" /\ "arp" \notin FlowTypes
    BY DEF Published, FlowTypes
  <2>2. /\ GoingOut(c) = <<p>> \o (a \o b \o <<f>>)
        /\ LatePairs(c) = {p} \cup (S \cup T \cup {f})
    BY <1>2, <2>1 DEF GoingOut, LatePairs, MacPairs
  <2>3. a \in Seq(S) /\ Once(a) /\ b \in Seq(T) /\ Once(b)
    BY NewMacPair
  <2>4. Distinct(c) => Apart(S, T)
    BY <1>2, PairsApart DEF Distinct
  <2>10. Apart(S, {f}) /\ Apart(T, {f}) /\ Apart({p}, S) /\ Apart({p}, T) /\ Apart({p}, {f})
    BY PairsApart
  <2>5. Apart(S \cup T, {f}) /\ Apart({p}, S \cup T \cup {f}) /\ p[1] # "new_MAC"
    <3>1. p[1] = "new_arp"
      OBVIOUS
    <3> HIDE DEF p, f, S, T
    <3> QED
      BY <2>10, <3>1, ApartUnion
  <2> HIDE DEF p, f, a, b, S, T
  <2>6. /\ <<p>> \in Seq({p}) /\ Once(<<p>>) /\ Range(<<p>>) = {p}
        /\ <<f>> \in Seq({f}) /\ Once(<<f>>)
    BY NoneOrOne
  <2>7. a \o b \in Seq(S \cup T) /\ (Distinct(c) => Once(a \o b))
    BY <2>3, <2>4, Joined
  <2>8. a \o b \o <<f>> \in Seq(S \cup T \cup {f}) /\ (Distinct(c) => Once(a \o b \o <<f>>))
    BY <2>5, <2>6, <2>7, Joined
  <2> DEFINE r == a \o b \o <<f>>
  <2> HIDE DEF r
  <2>9. /\ <<p>> \o r \in Seq({p} \cup (S \cup T \cup {f}))
        /\ Distinct(c) => Once(<<p>> \o r)
        /\ p \in Range(<<p>> \o r)
    <3>1. r \in Seq(S \cup T \cup {f}) /\ (Distinct(c) => Once(r))
      BY <2>8 DEF r
    <3> QED
      BY <2>5, <2>6, <3>1, Joined
  <2> QED
    BY <1>2, <2>1, <2>2, <2>5, <2>9 DEF r
<1>3. CASE c.type \in DOMAIN Published \ {"arp"}
  <2> DEFINE p == <<Published[c.type], c.saddr>>
  <2>1. c.type \notin FlowTypes /\ Published[c.type] # "new_MAC"
    BY <1>3 DEF Published, FlowTypes
  <2>2. GoingOut(c) = <<p>> \o <<>> /\ p \in LatePairs(c) /\ p[1] # "new_MAC"
    BY <1>3, <2>1 DEF GoingOut, LatePairs
  <2> HIDE DEF p
  <2>3. <<p>> \o <<>> = <<p>>
    OBVIOUS
  <2>4. GoingOut(c) \in Seq(LatePairs(c)) /\ Once(GoingOut(c)) /\ Range(GoingOut(c)) = {p}
    BY <2>2, <2>3, NoneOrOne
  <2> QED
    BY <2>1, <2>2, <2>4
<1>4. CASE c.type \notin FlowTypes \cup DOMAIN Published
  <2>1. GoingOut(c) = <<>>
    BY <1>4 DEF GoingOut
  <2> QED
    BY <1>4, <2>1, NoneOrOne
<1> QED
  BY <1>1, <1>2, <1>3, <1>4

LEMMA LateWritten ==
    ASSUME NEW c
    PROVE  /\ Late(c) \in Seq(LatePairs(c)) /\ (Distinct(c) => Once(Late(c)))
           /\ /\ Together(c.saddr, c.daddr) /\ c.start # "unbound" /\ IsHome(c.saddr)
              /\ c.type \in FlowTypes \cup DOMAIN Published
              => \E p \in Range(Late(c)) : p[1] # "new_MAC"
<1> DEFINE a == IF IsHome(c.saddr) THEN GoingOut(c) ELSE <<>>
           b == IF direction = "all" /\ IsHome(c.daddr) THEN GoingIn(c) ELSE <<>>
           L == LatePairs(c)
<1>1. Late(c) = IF ~ Together(c.saddr, c.daddr) \/ c.start = "unbound" THEN <<>> ELSE a \o b
  BY DEF Late
<1>2. a \in Seq(L) /\ (Distinct(c) => Once(a))
  BY OutWritten, NoneOrOne
<1>3. IsHome(c.saddr) /\ c.type \in FlowTypes \cup DOMAIN Published
        => \E p \in Range(a) : p[1] # "new_MAC"
  BY OutWritten
<1>4. CASE c.type \in FlowTypes
  <2> DEFINE s == <<"features", c.saddr>>
             d == <<"features", c.daddr>>
  <2>1. /\ L = {s} \cup {d} /\ (Distinct(c) => Apart({s}, {d}))
        /\ a = <<>> \/ a = <<s>>
        /\ b = <<>> \/ b = <<d>>
    <3>1. Distinct(c) => Apart({s}, {d})
      BY <1>4, PairsApart DEF Distinct
    <3>2. L = {"features"} \X {c.saddr, c.daddr}
      BY <1>4 DEF LatePairs
    <3>3. {"features"} \X {c.saddr, c.daddr} = {s} \cup {d}
      OBVIOUS
    <3>4. a = <<>> \/ a = <<s>>
      BY <1>4, OutWritten
    <3>5. b = <<>> \/ b = <<d>>
      BY <1>4 DEF GoingIn
    <3> QED
      BY <3>1, <3>2, <3>3, <3>4, <3>5
  <2> HIDE DEF s, d, a, b, L
  <2>2. a \in Seq({s}) /\ Once(a) /\ b \in Seq({d}) /\ Once(b)
    BY <2>1, NoneOrOne
  <2>3. /\ a \o b \in Seq({s} \cup {d}) /\ (Distinct(c) => Once(a \o b))
        /\ \A x : x \in Range(a \o b) <=> x \in Range(a) \/ x \in Range(b)
    BY <2>1, <2>2, Joined
  <2>4. /\ a \o b \in Seq(L) /\ (Distinct(c) => Once(a \o b))
        /\ \A x : x \in Range(a \o b) <=> x \in Range(a) \/ x \in Range(b)
    BY <2>1, <2>3
  <2>5. <<>> \in Seq(L) /\ Once(<<>>)
    BY NoneOrOne
  <2> QED
    BY <1>1, <1>3, <2>4, <2>5 DEF L
<1>5. CASE c.type \notin FlowTypes
  <2>1. b = <<>>
    BY <1>5 DEF GoingIn
  <2> HIDE DEF a, b, L
  <2>2. a \o b = a
    BY <1>2, <2>1
  <2>3. <<>> \in Seq(L) /\ Once(<<>>)
    BY NoneOrOne
  <2> QED
    BY <1>1, <1>2, <1>3, <2>2, <2>3 DEF L
<1> QED
  BY <1>4, <1>5

LEMMA AddedWritten ==
    ASSUME NEW c
    PROVE  /\ AddedOf(c) \in Seq(EarlyPairs(c) \cup LatePairs(c))
           /\ Distinct(c) => Once(AddedOf(c))
           /\ /\ ~ Refused(c) /\ ~ RaisesEarly(c)
              /\ Together(c.saddr, c.daddr) /\ c.start # "unbound" /\ IsHome(c.saddr)
              /\ c.type \in FlowTypes \cup DOMAIN Published
              => \E p \in Range(AddedOf(c)) : p[1] # "new_MAC"
<1>1. Early(c) \in Seq(EarlyPairs(c)) /\ (Distinct(c) => Once(Early(c)))
  BY EarlyWritten
<1>2. Late(c) \in Seq(LatePairs(c)) /\ (Distinct(c) => Once(Late(c)))
  BY LateWritten
<1>3. Apart(EarlyPairs(c), LatePairs(c))
  <2>1. CASE c.type \in FlowTypes
    <3> DEFINE s == <<"features", c.saddr>>
               d == <<"features", c.daddr>>
               U == MacPair(c.smac, c.saddr)
               V == MacPair(c.dmac, c.daddr)
    <3>1. EarlyPairs(c) = U \cup V
      BY <2>1 DEF EarlyPairs, MacPairs
    <3>2. LatePairs(c) = {"features"} \X {c.saddr, c.daddr}
      BY <2>1 DEF LatePairs
    <3>3. {"features"} \X {c.saddr, c.daddr} = {s} \cup {d}
      OBVIOUS
    <3>4. Apart(U, {s}) /\ Apart(U, {d}) /\ Apart(V, {s}) /\ Apart(V, {d})
      BY PairsApart
    <3> HIDE DEF s, d, U, V
    <3> QED
      BY <3>1, <3>2, <3>3, <3>4, ApartUnion
  <2>2. CASE c.type \in {"dhcp", "software"}
    <3>1. LatePairs(c) = {}
      BY <2>2 DEF LatePairs, FlowTypes, Published
    <3> QED
      BY <3>1 DEF Apart
  <2>3. CASE c.type \notin FlowTypes \cup {"dhcp", "software"}
    BY <2>3 DEF EarlyPairs, Apart
  <2> QED
    BY <2>1, <2>2, <2>3
<1> DEFINE q == Early(c)
           r == Late(c)
           S == EarlyPairs(c)
           T == LatePairs(c)
<1> HIDE DEF q, r, S, T
<1>4. /\ q \o r \in Seq(S \cup T) /\ (Distinct(c) => Once(q \o r))
      /\ \A x : x \in Range(q \o r) <=> x \in Range(q) \/ x \in Range(r)
  BY <1>1, <1>2, <1>3, Joined DEF q, r, S, T
<1>5. <<>> \in Seq(S \cup T) /\ Once(<<>>)
  BY NoneOrOne
<1>6. AddedOf(c) = IF Refused(c) \/ RaisesEarly(c) THEN <<>> ELSE q \o r
  BY DEF AddedOf, q, r
<1>7. AddedOf(c) \in Seq(S \cup T) /\ (Distinct(c) => Once(AddedOf(c)))
  BY <1>4, <1>5, <1>6
<1>8. ~ Refused(c) /\ ~ RaisesEarly(c) => \A x \in Range(r) : x \in Range(AddedOf(c))
  BY <1>4, <1>6
<1> QED
  BY <1>7, <1>8, LateWritten DEF r, S, T

-----------------------------------------------------------------------------
(* The log of a line, and what its columns have of it *)

LEMMA FirstFound ==
    ASSUME NEW names
    PROVE  \/ FirstOf(names) = "" /\ \A i \in 1..29 : ZeekLogs[i] \notin names
           \/ \E i \in 1..29 : /\ FirstOf(names) = ZeekLogs[i] /\ ZeekLogs[i] \in names
                               /\ \A j \in 1..29 : ZeekLogs[j] \in names => i <= j
<1> DEFINE found == {i \in DOMAIN ZeekLogs : ZeekLogs[i] \in names}
           first == CHOOSE i \in found : \A j \in found : i <= j
<1>1. DOMAIN ZeekLogs = 1..29
  BY DEF ZeekLogs
<1>2. FirstOf(names) = IF found = {} THEN "" ELSE ZeekLogs[first]
  BY DEF FirstOf
<1>3. CASE found = {}
  BY <1>1, <1>2, <1>3
<1>4. CASE found # {}
  <2>1. found \subseteq Nat
    BY <1>1
  <2>2. PICK m \in found : \A j \in found : m <= j
    <3> HIDE DEF found
    <3> QED
      BY <1>4, <2>1, HasLeast
  <2>3. first \in found /\ \A j \in found : first <= j
    <3> HIDE DEF found
    <3> QED
      BY <2>2
  <2> HIDE DEF first
  <2> QED
    BY <1>1, <1>2, <1>4, <2>3
<1> QED
  BY <1>3, <1>4

(* What ReaderAssumption says of a line that is taken                      *)
TakenAs(l, first, type) ==
    /\ l \in FlowLine /\ first \in FlowLine
    /\ l.form # "stop" /\ first.form # "stop"
    /\ l.told = first.told
    /\ "suricata" \in {first.form, first.told} => \E e \in l.words : l.words = {e}
    /\ type = IF first.told # "" THEN first.told ELSE first.form

Formats == {"zeek", "zeek-tabs", "suricata", "argus", "argus-tabs", "nfdump"}

LEMMA TypeTaken ==
    ASSUME NEW l, NEW first, NEW type, TakenAs(l, first, type)
    PROVE  /\ type \in Formats
           /\ type \in {"argus", "argus-tabs", "nfdump"}
                => l.told # "" \/ first.form \in {"argus", "argus-tabs", "nfdump"}
           /\ type = "suricata" => \E e \in l.words : l.words = {e}
<1>1. /\ first.form \in {"zeek", "zeek-tabs", "suricata", "argus", "argus-tabs", "nfdump"}
      /\ first.told \in {"", "zeek", "suricata", "argus"}
  BY DEF TakenAs, FlowLine
<1> QED
  BY <1>1 DEF TakenAs, Formats

(* The log of a line is one it names, but for those of another program.    *)
LEMMA LogFound ==
    ASSUME NEW l, NEW first, NEW type, TakenAs(l, first, type)
    PROVE  LET t == LogOf(l, type)
           IN  \/ t = ""
               \/ /\ t \in FlowTypes
                  /\ \/ l.told # "" \/ first.form \in {"argus", "argus-tabs", "nfdump"}
                     \/ t = "conn" /\ "conn" \in l.words
               \/ type = "suricata" /\ l.words = {t}
               \/ /\ type \in {"zeek", "zeek-tabs"} /\ t \notin FlowTypes
                  /\ t \in l.words \/ (t \in l.dir /\ t \notin Suffixed \cup {"known_services", "software"})
<1> DEFINE t == LogOf(l, type)
<1>1. \A i \in 1..29 : ZeekLogs[i] \in FlowTypes => ZeekLogs[i] = "conn"
  BY DEF ZeekLogs, FlowTypes
<1>2. CASE type = "zeek"
  <2>1. t = JsonLog(l)
    BY <1>2 DEF LogOf
  <2>2. CASE l.told = "zeek"
    BY <2>1, <2>2 DEF JsonLog, FlowTypes
  <2>3. CASE l.told # "zeek"
    <3>1. t = "" \/ t = FirstOf(l.words)
      BY <2>1, <2>3 DEF JsonLog
    <3>2. t = "" \/ \E i \in 1..29 : t = ZeekLogs[i] /\ t \in l.words
      BY <3>1, FirstFound
    <3> HIDE DEF t
    <3>3. CASE t \in FlowTypes /\ t # ""
      <4>1. t = "conn" /\ "conn" \in l.words
        BY <1>1, <3>2, <3>3
      <4> QED
        BY <3>3, <4>1 DEF t
    <3>4. CASE t \notin FlowTypes \/ t = ""
      BY <1>2, <3>2, <3>4 DEF t
    <3> QED
      BY <3>3, <3>4
  <2> QED
    BY <2>2, <2>3
<1>3. CASE type = "zeek-tabs"
  <2> DEFINE names == (l.words \cup (l.dir \ Suffixed)) \ {"known_services", "software"}
  <2>1. t = FirstOf(names)
    BY <1>3 DEF LogOf, TabsLog
  <2>2. t = "" \/ \E i \in 1..29 : t = ZeekLogs[i] /\ t \in names
    BY <2>1, FirstFound
  <2>3. "conn" \in Suffixed
    BY DEF Suffixed
  <2> HIDE DEF t
  <2>4. t = "" \/ \/ t \in l.words
                  \/ t \in l.dir /\ t \notin Suffixed \cup {"known_services", "software"}
    BY <2>2
  <2>5. t # "" /\ t \in FlowTypes => t = "conn"
    BY <1>1, <2>2
  <2> HIDE DEF names
  <2>6. t # "" /\ t \in FlowTypes => t = "conn" /\ "conn" \in l.words
    BY <2>3, <2>4, <2>5
  <2> QED
    BY <1>3, <2>4, <2>6 DEF t
<1>4. CASE type = "suricata"
  <2>1. PICK e \in l.words : l.words = {e}
    BY <1>4, TypeTaken
  <2>2. t = CHOOSE event_type \in l.words : TRUE
    BY <1>4 DEF LogOf
  <2>3. t \in l.words
    BY <2>1, <2>2
  <2> QED
    BY <1>4, <2>1, <2>3
<1>5. CASE type \in {"argus", "argus-tabs", "nfdump"}
  <2>1. t \in {"argus", "nfdump"}
    BY <1>5 DEF LogOf
  <2>2. t \in FlowTypes
    BY <2>1 DEF FlowTypes
  <2> QED
    BY <1>5, <2>2, TypeTaken
<1> QED
  BY <1>2, <1>3, <1>4, <1>5, TypeTaken DEF Formats

ColumnsAre(c, l, type) ==
    /\ c.type = LogOf(l, type) /\ c.start = Start(l, type)
    /\ c.saddr = Saddr(l, c.type) /\ c.daddr = Daddr(l, c.type)
    /\ c.smac = l.mac /\ c.dmac = l.dmac
    /\ c.src_mac = IF c.type \in {"arp", "dhcp"} THEN l.mac ELSE ""
    /\ c.whole = HasColumns(l, type, c.type)

LEMMA ColumnsRight ==
    ASSUME NEW l, NEW type
    PROVE  ColumnsAre(Columns(l, type), l, type)
BY DEF Columns, ColumnsAre

(* What is said of a line whose log is t                                   *)
JustifiedPair(what, about, l, first) ==
    /\ about \in {l.saddr, l.daddr, l.mac}
    /\ CASE what = "features" ->
               \/ l.words \cap {"conn", "flow"} # {}
               \/ first.form \in {"argus", "argus-tabs", "nfdump"}
               \/ l.told # ""
         [] what = "new_MAC" -> l.mac # "" \/ l.dmac # ""
         [] what = "dhcp_server" -> "dhcp" \in l.words
         [] what = "flow" -> "arp" \in l.words
         [] what \in {"user_agent", "software", "new_software"} ->
               "software" \in l.words
         [] OTHER -> \E log \in DOMAIN Published :
                        /\ Published[log] = what
                        /\ \/ log \in l.words
                           \/ log = "ftp" /\ log \in l.dir

LEMMA PairJustified ==
    ASSUME NEW l, NEW first, NEW type, TakenAs(l, first, type),
           NEW c, ColumnsAre(c, l, type), ~ RaisesEarly(c),
           NEW p \in EarlyPairs(c) \cup LatePairs(c)
    PROVE  JustifiedPair(p[1], p[2], l, first)
<1> DEFINE t == c.type
<1>1. /\ t \in FlowTypes =>
            \/ l.told # "" \/ first.form \in {"argus", "argus-tabs", "nfdump"}
            \/ l.words \cap {"conn", "flow"} # {}
      /\ t \in {"arp", "dhcp", "software"} => t \in l.words
      /\ t \in DOMAIN Published => t \in l.words \/ (t = "ftp" /\ t \in l.dir)
  <2>1. CASE type = "suricata" /\ l.words = {t}
    <3>1. t \in {"flow", "http", "dns"}
      BY <2>1 DEF ColumnsAre, RaisesEarly, HasColumns
    <3> QED
      BY <2>1, <3>1 DEF FlowTypes
  <2>2. CASE t = ""
    BY <2>2 DEF FlowTypes, Published
  <2>3. CASE /\ t \in FlowTypes
             /\ \/ l.told # "" \/ first.form \in {"argus", "argus-tabs", "nfdump"}
                \/ t = "conn" /\ "conn" \in l.words
    BY <2>3 DEF FlowTypes, Published
  <2>4. CASE /\ type \in {"zeek", "zeek-tabs"} /\ t \notin FlowTypes
             /\ t \in l.words \/ (t \in l.dir /\ t \notin Suffixed \cup {"known_services", "software"})
    <3>1. CASE t \in l.words
      BY <2>4, <3>1
    <3>2. CASE t \in l.dir /\ t \notin Suffixed \cup {"known_services", "software"}
      BY <2>4, <3>2 DEF Suffixed, Published
    <3> QED
      BY <2>4, <3>1, <3>2
  <2> QED
    BY <2>1, <2>2, <2>3, <2>4, LogFound DEF ColumnsAre
<1>2. /\ c.saddr \in {l.saddr, l.mac}
      /\ t \in FlowTypes \cup {"arp", "dhcp"} => c.daddr = l.daddr
  BY DEF ColumnsAre, Saddr, Daddr, FlowTypes
<1>12. ASSUME NEW m, NEW a, p \in MacPair(m, a)
       PROVE  m # "" /\ p[1] = "new_MAC" /\ p[2] = a
  <2>1. m # "" /\ p = <<"new_MAC", a>>
    BY <1>12 DEF MacPair
  <2> QED
    BY <2>1
<1>3. CASE \/ t \in FlowTypes \cup {"arp"} /\ p \in MacPairs(c)
           \/ t = "dhcp" /\ p \in MacPair(c.src_mac, c.saddr)
  <2>1. \/ p \in MacPair(c.smac, c.saddr)
        \/ p \in MacPair(c.dmac, c.daddr) /\ t \in FlowTypes \cup {"arp"}
        \/ p \in MacPair(c.src_mac, c.saddr)
    BY <1>3 DEF MacPairs
  <2>2. /\ c.smac # "" \/ c.dmac # "" \/ c.src_mac # ""
        /\ p[1] = "new_MAC"
        /\ p[2] = c.saddr \/ (p[2] = c.daddr /\ t \in FlowTypes \cup {"arp"})
    BY <1>12, <2>1
  <2>3. l.mac # "" \/ l.dmac # ""
    BY <2>2 DEF ColumnsAre
  <2>4. p[2] \in {l.saddr, l.daddr, l.mac}
    BY <1>2, <2>2
  <2> QED
    BY <2>2, <2>3, <2>4 DEF JustifiedPair
<1>4. CASE t \in FlowTypes /\ p \in {"features"} \X {c.saddr, c.daddr}
  <2>1. p[1] = "features" /\ p[2] \in {c.saddr, c.daddr}
    BY <1>4
  <2> QED
    BY <1>1, <1>2, <1>4, <2>1 DEF JustifiedPair
<1>5. CASE t = "dhcp" /\ p = <<"dhcp_server", c.daddr>>
  <2>1. p[1] = "dhcp_server" /\ p[2] = c.daddr
    BY <1>5
  <2> QED
    BY <1>1, <1>2, <1>5, <2>1 DEF JustifiedPair
<1>6. CASE t = "software" /\ p \in {"user_agent", "software", "new_software"} \X {c.saddr}
  <2>1. p[1] \in {"user_agent", "software", "new_software"} /\ p[2] = c.saddr
    BY <1>6
  <2> QED
    BY <1>1, <1>2, <1>6, <2>1 DEF JustifiedPair
<1>7. CASE t = "arp" /\ p = <<"flow", c.saddr>>
  <2>1. p[1] = "flow" /\ p[2] = c.saddr
    BY <1>7
  <2> QED
    BY <1>1, <1>2, <1>7, <2>1 DEF JustifiedPair
<1>8. CASE t \in DOMAIN Published /\ p = <<Published[t], c.saddr>>
  <2>1. p[1] = Published[t] /\ p[2] = c.saddr
    BY <1>8
  <2>2. Published[t] \notin {"features", "new_MAC", "dhcp_server", "flow", "user_agent",
                             "software", "new_software"}
    BY <1>8 DEF Published
  <2>3. \E log \in DOMAIN Published : /\ Published[log] = p[1]
                                      /\ log \in l.words \/ (log = "ftp" /\ log \in l.dir)
    BY <1>1, <1>8, <2>1
  <2> HIDE DEF t
  <2> QED
    BY <1>2, <2>1, <2>2, <2>3 DEF JustifiedPair
<1>9. "arp" \in DOMAIN Published /\ Published["arp"] = "new_arp"
  BY DEF Published
<1>10. p \in EarlyPairs(c) =>
         \/ t \in FlowTypes \cup {"arp"} /\ p \in MacPairs(c)
         \/ t = "dhcp" /\ p \in MacPair(c.src_mac, c.saddr)
         \/ t = "dhcp" /\ p = <<"dhcp_server", c.daddr>>
         \/ t = "software" /\ p \in {"user_agent", "software", "new_software"} \X {c.saddr}
  BY DEF EarlyPairs
<1>11. p \in LatePairs(c) =>
         \/ t \in FlowTypes \cup {"arp"} /\ p \in MacPairs(c)
         \/ t \in FlowTypes /\ p \in {"features"} \X {c.saddr, c.daddr}
         \/ t = "arp" /\ p = <<"flow", c.saddr>>
         \/ t \in DOMAIN Published /\ p = <<Published[t], c.saddr>>
  BY <1>9 DEF LatePairs
<1> QED
  BY <1>3, <1>4, <1>5, <1>6, <1>7, <1>8, <1>10, <1>11

-----------------------------------------------------------------------------
(* What is stored of a line that is as it should be *)

(* The last part of WellFormed, but for the header of argus                *)
SoundForm(l) ==
    \/ \E log \in {"conn"} \cup DOMAIN Published :
          /\ l.words = {log} /\ l.dir = {} /\ l.form = "zeek"
          /\ log = "known_services" => l.saddr \in Ip4
    \/ l.form = "zeek-tabs" /\ l.words \subseteq {"conn", "dns", "http", "ssl"}
                           /\ l.words # {} /\ l.told = ""
    \/ l.form = "suricata" /\ l.words \cap {"flow", "http", "dns"} # {}
    \/ l.form \in {"argus", "argus-tabs"}
    \/ l.form = "nfdump"

LEMMA FirstNamed ==
    ASSUME NEW names, NEW i \in 1..29, ZeekLogs[i] \in names
    PROVE  \E j \in 1..29 : FirstOf(names) = ZeekLogs[j] /\ ZeekLogs[j] \in names /\ j <= i
BY FirstFound

LEMMA LogsKnown ==
    ASSUME NEW log
    PROVE  /\ log \in {"conn", "dns", "http", "ssl"} <=> \E k \in 1..4 : ZeekLogs[k] = log
           /\ log \in {"conn"} \cup DOMAIN Published => \E k \in 1..29 : ZeekLogs[k] = log
<1>1. /\ ZeekLogs[1] = "conn" /\ ZeekLogs[2] = "dns" /\ ZeekLogs[3] = "http"
      /\ ZeekLogs[4] = "ssl" /\ ZeekLogs[5] = "ssh" /\ ZeekLogs[25] = "notice"
      /\ ZeekLogs[11] = "ftp" /\ ZeekLogs[21] = "smtp" /\ ZeekLogs[26] = "files"
      /\ ZeekLogs[28] = "known_services" /\ ZeekLogs[27] = "arp"
  BY DEF ZeekLogs
<1>2. DOMAIN Published = {"dns", "http", "ssl", "ssh", "notice", "ftp", "smtp", "files",
                          "known_services", "arp"}
  BY DEF Published
<1>3. ASSUME NEW k \in 1..4
      PROVE  ZeekLogs[k] \in {"conn", "dns", "http", "ssl"}
  <2>1. k = 1 \/ k = 2 \/ k = 3 \/ k = 4
    OBVIOUS
  <2> QED
    BY <1>1, <2>1
<1>4. ASSUME log \in {"conn", "dns", "http", "ssl"}
      PROVE  \E k \in 1..4 : ZeekLogs[k] = log
  BY <1>1, <1>4
<1>5. ASSUME log \in {"conn"} \cup DOMAIN Published
      PROVE  \E k \in 1..29 : ZeekLogs[k] = log
  BY <1>1, <1>2, <1>5
<1> QED
  BY <1>3, <1>4, <1>5

LEMMA FirstOfThese ==
    ASSUME NEW names, NEW w \in {"conn", "dns", "http", "ssl"}, w \in names
    PROVE  FirstOf(names) \in {"conn", "dns", "http", "ssl"}
<1>1. PICK k \in 1..4 : ZeekLogs[k] = w
  BY LogsKnown
<1>2. k \in 1..29 /\ ZeekLogs[k] \in names
  BY <1>1
<1>3. PICK i \in 1..29 : FirstOf(names) = ZeekLogs[i] /\ i <= k
  BY <1>2, FirstNamed
<1>4. i \in 1..4
  BY <1>3
<1> QED
  BY <1>3, <1>4, LogsKnown

LEMMA LogOfSound ==
    ASSUME NEW l, NEW first, TakenAs(l, first, l.form),
           SoundForm(l), l.told \in {"", l.form}, l.whole
    PROVE  LET t == LogOf(l, l.form)
           IN  /\ t \in FlowTypes \cup DOMAIN Published
               /\ t = "known_services" => l.saddr \in Ip4
               /\ HasColumns(l, l.form, t)
<1> DEFINE t == LogOf(l, l.form)
<1>1. ASSUME NEW log \in {"conn"} \cup DOMAIN Published, l.words = {log}, l.dir = {},
             l.form = "zeek", log = "known_services" => l.saddr \in Ip4
      PROVE  /\ t \in FlowTypes \cup DOMAIN Published
             /\ t = "known_services" => l.saddr \in Ip4
  <2>1. t = JsonLog(l) /\ "conn" \in FlowTypes /\ "conn" # "known_services"
    BY <1>1 DEF LogOf, FlowTypes
  <2>2. CASE l.told = "zeek"
    BY <2>1, <2>2 DEF JsonLog
  <2>3. CASE l.told # "zeek"
    <3>1. log # "browser" /\ \E i \in 1..29 : ZeekLogs[i] = log
      BY <1>1, LogsKnown DEF Published
    <3>2. t = FirstOf(l.words)
      <4>1. "browser" \notin l.words
        BY <1>1, <3>1
      <4> HIDE DEF t
      <4> QED
        BY <2>1, <2>3, <4>1 DEF JsonLog
    <3>3. t = log
      <4>1. PICK i \in 1..29 : ZeekLogs[i] = log
        BY <3>1
      <4>2. ZeekLogs[i] \in l.words
        BY <1>1, <4>1
      <4>3. FirstOf(l.words) \in l.words
        BY <4>2, FirstNamed
      <4> QED
        BY <1>1, <3>2, <4>3
    <3> QED
      BY <1>1, <2>1, <3>3
  <2> QED
    BY <2>2, <2>3
<1>2. CASE l.form = "zeek-tabs" /\ l.words \subseteq {"conn", "dns", "http", "ssl"}
                           /\ l.words # {} /\ l.told = ""
  <2> DEFINE names == (l.words \cup (l.dir \ Suffixed)) \ {"known_services", "software"}
  <2>1. t = FirstOf(names)
    BY <1>2 DEF LogOf, TabsLog
  <2>2. PICK w \in {"conn", "dns", "http", "ssl"} : w \in names
    BY <1>2
  <2>3. FirstOf(names) \in {"conn", "dns", "http", "ssl"}
    BY <2>2, FirstOfThese
  <2>8. t \in {"conn", "dns", "http", "ssl"}
    BY <2>1, <2>3
  <2> HIDE DEF t
  <2> QED
    BY <1>2, <2>8 DEF FlowTypes, Published, HasColumns, t
<1>3. CASE l.form = "suricata" /\ l.words \cap {"flow", "http", "dns"} # {}
  <2>1. PICK e \in l.words : l.words = {e}
    BY <1>3, TypeTaken
  <2>2. t = CHOOSE event_type \in l.words : TRUE
    BY <1>3 DEF LogOf
  <2>3. t = e /\ e \in {"flow", "http", "dns"}
    BY <1>3, <2>1, <2>2
  <2> HIDE DEF t
  <2>4. t \in FlowTypes \cup DOMAIN Published /\ t # "known_services"
    BY <2>3 DEF FlowTypes, Published
  <2> QED
    BY <2>3, <2>4 DEF HasColumns, t
<1>4. CASE l.form \in {"argus", "argus-tabs", "nfdump"}
  <2>1. t \in {"argus", "nfdump"}
    BY <1>4 DEF LogOf
  <2> HIDE DEF t
  <2>2. t \in FlowTypes /\ t # "known_services"
    BY <2>1 DEF FlowTypes
  <2> QED
    BY <1>4, <2>2 DEF HasColumns, t
<1> QED
  BY <1>1, <1>2, <1>3, <1>4 DEF SoundForm, HasColumns

(* The time of a line is known when the format that is kept is its own.    *)
LEMMA StartKnown ==
    ASSUME NEW l, NEW type, Timed(l), l.time \in {"", "odd", "unixtimestamp", "date"},
           timeformat \in {"", l.time}
    PROVE  Start(l, type) \in {"datetime", "text"}
<1>1. Format(l.time) = l.time /\ l.time # ""
  BY DEF Format, Timed
<1>2. StartTime(l, type) = l.time
  BY <1>1 DEF StartTime, NoFloat
<1> QED
  BY <1>1, <1>2 DEF Start, Timed

LEMMA SoundWritten ==
    ASSUME NEW l, NEW first, TakenAs(l, first, l.form),
           SoundForm(l), l.told \in {"", l.form}, l.whole, Timed(l),
           timeformat \in {"", l.time},
           {l.saddr, l.daddr} \subseteq Ip4 \/ {l.saddr, l.daddr} \subseteq Ip6,
           IsHome(l.saddr),
           NEW c, ColumnsAre(c, l, l.form), Verdict(whitelist, c, macs) = "no"
    PROVE  \E p \in Range(AddedOf(c)) : p[1] # "new_MAC"
<1> DEFINE t == c.type
<1>1. /\ t \in FlowTypes \cup DOMAIN Published
      /\ t = "known_services" => l.saddr \in Ip4
      /\ c.whole
  BY LogOfSound DEF ColumnsAre
<1>2. c.start \in {"datetime", "text"}
  <2>1. l.time \in {"", "odd", "unixtimestamp", "date"}
    BY DEF TakenAs, FlowLine
  <2> QED
    BY <2>1, StartKnown DEF ColumnsAre
<1>3. t \notin {"dhcp", "software"} /\ t \in Supported
  BY <1>1 DEF FlowTypes, Published, Supported
<1>4. /\ c.saddr = l.saddr /\ c.saddr # "" /\ Together(c.saddr, c.daddr)
  <2>1. l.saddr # "" /\ l.daddr # ""
    BY WhitelistAssumption DEF Ip
  <2>2. c.saddr = l.saddr
    BY <1>3 DEF ColumnsAre, Saddr
  <2>3. c.daddr = IF t = "known_services" THEN "0.0.0.0" ELSE l.daddr
    BY <1>3, <2>1 DEF ColumnsAre, Daddr
  <2>4. "0.0.0.0" \in Ip4
    BY ReaderAssumption
  <2> QED
    BY <1>1, <2>1, <2>2, <2>3, <2>4 DEF Together
<1>5. ~ Refused(c)
  BY <1>2, <1>3, <1>4 DEF Refused
<1>6. ~ RaisesEarly(c) /\ c.start # "unbound"
  BY <1>1, <1>2, <1>3 DEF RaisesEarly
<1> QED
  BY <1>1, <1>4, <1>5, <1>6, AddedWritten

-----------------------------------------------------------------------------
(* ProfilerProcess between two lines *)

Kinds == {"features", "new_MAC", "dhcp_server", "flow", "user_agent", "software",
          "new_software"} \cup {Published[log] : log \in DOMAIN Published}
Result == [of : Nat, what : Kinds, about : STRING]

(* What the lines received so far have taught                              *)
LinesInv ==
    /\ lines \in Seq(FlowLine) /\ inputqueue \in Seq(FlowLine)
    /\ lines \o inputqueue \in FlowInput
    /\ profiler \in {"get", "poll", "finished", "error"}
    /\ profiler # "finished" => \A i \in DOMAIN lines : lines[i].form # "stop"

LearntInv ==
    /\ input_type \in {""} \cup Formats
    /\ lines = <<>> => input_type = ""
    /\ profiler # "finished" /\ lines # <<>> =>
         input_type = IF lines[1].told # "" THEN lines[1].told ELSE lines[1].form
    /\ timeformat \in {"", "unixtimestamp", "date"}
    /\ timeformat # "" => \E i \in DOMAIN lines : /\ Timed(lines[i])
                                                  /\ lines[i].time = timeformat
    /\ column_idx \in {"none", "bad", "set"}
    /\ /\ profiler # "finished" /\ IsArgus(input_type)
       /\ \E i \in DOMAIN lines : "StartTime" \in lines[i].words
       => column_idx = "set"

(* What it has written                                                     *)
ResultsInv ==
    /\ results \in Seq(Result)
    /\ \A i \in DOMAIN results : results[i].of \in DOMAIN lines
    /\ NothingForeign

ReaderInv ==
    /\ LinesInv
    /\ LearntInv
    /\ ResultsInv
    /\ macs \subseteq Ip
    /\ edits \in 0 .. MaxEdits
    /\ WellFormedStored

LEMMA HeadMoved ==
    ASSUME NEW s \in Seq(FlowLine), NEW q \in Seq(FlowLine), q # <<>>
    PROVE  /\ Head(q) \in FlowLine /\ Tail(q) \in Seq(FlowLine)
           /\ Append(s, Head(q)) \in Seq(FlowLine)
           /\ Append(s, Head(q)) \o Tail(q) = s \o q
           /\ Len(Append(s, Head(q))) = Len(s) + 1
           /\ \A i \in DOMAIN s : Append(s, Head(q))[i] = s[i]
           /\ Append(s, Head(q))[Len(s) + 1] = Head(q)
<1> DEFINE a == Append(s, Head(q))
           r == Tail(q)
<1>1. /\ Head(q) \in FlowLine /\ r \in Seq(FlowLine) /\ a \in Seq(FlowLine)
      /\ Len(a) = Len(s) + 1 /\ Len(r) = Len(q) - 1
      /\ \A i \in 1..Len(s) : a[i] = s[i]
      /\ a[Len(s) + 1] = Head(q)
      /\ \A i \in 1..Len(r) : r[i] = q[i + 1]
      /\ Head(q) = q[1] /\ Len(q) \in Nat /\ Len(q) # 0 /\ Len(s) \in Nat
  OBVIOUS
<1> HIDE DEF a, r
<1>2. /\ a \o r \in Seq(FlowLine) /\ Len(a \o r) = Len(a) + Len(r)
      /\ \A i \in 1..(Len(a) + Len(r)) :
            (a \o r)[i] = IF i <= Len(a) THEN a[i] ELSE r[i - Len(a)]
  BY <1>1, ConcatProperties
<1>3. /\ s \o q \in Seq(FlowLine) /\ Len(s \o q) = Len(s) + Len(q)
      /\ \A i \in 1..(Len(s) + Len(q)) :
            (s \o q)[i] = IF i <= Len(s) THEN s[i] ELSE q[i - Len(s)]
  BY ConcatProperties
<1>4. ASSUME NEW i \in 1..(Len(s) + Len(q))
      PROVE  (a \o r)[i] = (s \o q)[i]
  <2>1. CASE i <= Len(s)
    BY <1>1, <1>2, <1>3, <2>1
  <2>2. CASE i = Len(s) + 1
    BY <1>1, <1>2, <1>3, <2>2
  <2>3. CASE i > Len(s) + 1
    <3>1. i - Len(a) \in 1..Len(r) /\ i - Len(a) + 1 = i - Len(s)
      BY <1>1, <2>3
    <3>2. (a \o r)[i] = r[i - Len(a)]
      BY <1>1, <1>2, <2>3
    <3>3. r[i - Len(a)] = q[i - Len(s)]
      BY <1>1, <3>1
    <3> QED
      BY <1>1, <1>3, <2>3, <3>2, <3>3
  <2> QED
    BY <1>1, <2>1, <2>2, <2>3
<1>5. a \o r = s \o q
  <2>1. Len(a \o r) = Len(s \o q) /\ Len(s \o q) = Len(s) + Len(q)
    BY <1>1, <1>2, <1>3
  <2>2. \A i \in 1..Len(a \o r) : (a \o r)[i] = (s \o q)[i]
    BY <1>4, <2>1
  <2> QED
    BY <1>2, <1>3, <2>1, <2>2, SeqEqual
<1>6. DOMAIN s = 1..Len(s)
  OBVIOUS
<1> QED
  BY <1>1, <1>5, <1>6 DEF a, r

(* The next line                                                           *)
LEMMA NextLine ==
    ASSUME LinesInv, LearntInv, Receive,
           NEW l, l = Head(inputqueue)
    PROVE  /\ l \in FlowLine
           /\ lines' \in Seq(FlowLine) /\ inputqueue' \in Seq(FlowLine)
           /\ lines' \o inputqueue' \in FlowInput
           /\ Len(lines) \in Nat /\ DOMAIN lines = 1 .. Len(lines)
           /\ DOMAIN lines' = 1 .. Len(lines) + 1 /\ Len(lines') = Len(lines) + 1
           /\ \A i \in DOMAIN lines : i \in DOMAIN lines' /\ lines'[i] = lines[i]
           /\ lines'[Len(lines) + 1] = l
           /\ l.form # "stop" => /\ TakenAs(l, lines'[1], Typed(l))
                                 /\ "StartTime" \in l.words => l.time = "odd"
<1>1. inputqueue # <<>> /\ profiler = "get"
  BY DEF Receive, ReceiveStop, TakeHeader, TakeLine
<1>2. lines' = Append(lines, l) /\ inputqueue' = Tail(inputqueue)
  BY DEF Receive
<1>3. lines \in Seq(FlowLine) /\ inputqueue \in Seq(FlowLine) /\ lines \o inputqueue \in FlowInput
  BY DEF LinesInv
<1>4. /\ l \in FlowLine /\ inputqueue' \in Seq(FlowLine)
      /\ lines' \in Seq(FlowLine)
      /\ lines' \o inputqueue' = lines \o inputqueue
      /\ Len(lines') = Len(lines) + 1
      /\ \A i \in DOMAIN lines : lines'[i] = lines[i]
      /\ lines'[Len(lines) + 1] = l
  BY <1>1, <1>2, <1>3, HeadMoved
<1>5. /\ Len(lines) \in Nat /\ DOMAIN lines = 1 .. Len(lines)
      /\ DOMAIN lines' = 1 .. Len(lines) + 1
      /\ \A i \in DOMAIN lines : i \in DOMAIN lines'
  BY <1>3, <1>4
<1>6. ASSUME l.form # "stop"
      PROVE  /\ TakenAs(l, lines'[1], Typed(l))
             /\ "StartTime" \in l.words => l.time = "odd"
  <2> DEFINE s == lines' \o inputqueue'
             n == Len(lines) + 1
  <2>1. s \in FlowInput
    BY <1>3, <1>4
  <2>2. n \in DOMAIN s /\ s[n] = l /\ s[1] = lines'[1]
    <3>1. /\ s \in Seq(FlowLine) /\ Len(s) = Len(lines') + Len(inputqueue')
          /\ \A i \in 1..(Len(lines') + Len(inputqueue')) :
                s[i] = IF i <= Len(lines') THEN lines'[i] ELSE inputqueue'[i - Len(lines')]
      BY <1>4, ConcatProperties
    <3>2. Len(inputqueue') \in Nat
      BY <1>4
    <3>3. n \in 1..(Len(lines') + Len(inputqueue')) /\ n <= Len(lines') /\ 1 <= Len(lines')
          /\ 1 \in 1..(Len(lines') + Len(inputqueue'))
      BY <1>4, <1>5, <3>2
    <3>4. DOMAIN s = 1..Len(s)
      BY <3>1
    <3> HIDE DEF s
    <3> QED
      BY <1>4, <3>1, <3>3, <3>4
  <2> HIDE DEF s, n
  <2>3. /\ l.told = lines'[1].told
        /\ "StartTime" \in l.words => l.time = "odd"
        /\ "suricata" \in {lines'[1].form, lines'[1].told} => \E e \in l.words : l.words = {e}
    <3>1. \A t \in FlowInput : \A i \in DOMAIN t :
          t[i].form # "stop" =>
             /\ t[i].told = t[1].told
             /\ "StartTime" \in t[i].words => t[i].time = "odd"
             /\ "suricata" \in {t[1].form, t[1].told} => \E e \in t[i].words : t[i].words = {e}
      BY ReaderAssumption
    <3> QED
      BY <1>6, <2>1, <2>2, <3>1
  <2>4. /\ lines'[1] \in FlowLine /\ lines'[1].form # "stop"
        /\ Typed(l) = IF lines'[1].told # "" THEN lines'[1].told ELSE lines'[1].form
    <3> DEFINE f == lines'[1]
    <3>1. CASE lines = <<>>
      <4>1. input_type = ""
        BY <3>1 DEF LearntInv
      <4>2. f = l
        <5>1. Len(lines) = 0
          BY <3>1
        <5>2. Len(lines) + 1 = 1
          BY <5>1
        <5> QED
          BY <1>4, <5>2
      <4>3. Typed(l) = IF l.told # "" THEN l.told ELSE l.form
        BY <4>1 DEF Typed
      <4> HIDE DEF f
      <4>4. f \in FlowLine /\ f.form # "stop" /\ Typed(l) = IF f.told # "" THEN f.told ELSE f.form
        BY <1>4, <1>6, <4>2, <4>3
      <4> QED
        BY <4>4 DEF f
    <3>2. CASE lines # <<>>
      <4>1. 1 \in DOMAIN lines
        BY <1>3, <3>2
      <4> DEFINE g == lines[1]
      <4>2. f = g /\ g \in FlowLine /\ g.form # "stop"
        BY <1>1, <1>3, <1>4, <4>1 DEF LinesInv
      <4>3. input_type = IF g.told # "" THEN g.told ELSE g.form
        BY <1>1, <3>2 DEF LearntInv
      <4> HIDE DEF f, g
      <4>4. g.form \in {"zeek", "zeek-tabs", "suricata", "argus", "argus-tabs", "nfdump", "stop"}
        BY <4>2 DEF FlowLine
      <4>5. input_type # ""
        BY <4>3, <4>4
      <4>6. Typed(l) = input_type
        BY <4>5 DEF Typed
      <4>7. f \in FlowLine /\ f.form # "stop" /\ Typed(l) = IF f.told # "" THEN f.told ELSE f.form
        BY <4>2, <4>3, <4>6
      <4> QED
        BY <4>7 DEF f
    <3> QED
      BY <3>1, <3>2
  <2> QED
    BY <1>4, <1>6, <2>3, <2>4 DEF TakenAs
<1> QED
  BY <1>3, <1>4, <1>5, <1>6

LEMMA LinesInvStep ==
    ASSUME LinesInv, LearntInv, [ReaderNext]_readerVars
    PROVE  LinesInv'
<1>1. CASE Receive
  <2> DEFINE l == Head(inputqueue)
  <2>1. /\ lines' \in Seq(FlowLine) /\ inputqueue' \in Seq(FlowLine)
        /\ lines' \o inputqueue' \in FlowInput
        /\ DOMAIN lines = 1 .. Len(lines) /\ DOMAIN lines' = 1 .. Len(lines) + 1
        /\ \A i \in DOMAIN lines : lines'[i] = lines[i]
        /\ lines'[Len(lines) + 1] = l /\ Len(lines) \in Nat
    BY <1>1, NextLine
  <2>2. /\ profiler = "get" /\ profiler' \in {"get", "poll", "finished", "error"}
        /\ profiler' # "finished" => l.form # "stop"
    BY <1>1 DEF Receive, ReceiveStop, TakeHeader, TakeLine
  <2>3. ASSUME profiler' # "finished", NEW i \in DOMAIN lines'
        PROVE  lines'[i].form # "stop"
    <3>1. i \in DOMAIN lines \/ i = Len(lines) + 1
      BY <2>1
    <3> QED
      BY <2>1, <2>2, <2>3, <3>1 DEF LinesInv
  <2> HIDE DEF l
  <2> QED
    BY <2>1, <2>2, <2>3 DEF LinesInv
<1>2. CASE Poll
  <2>1. UNCHANGED <<lines, inputqueue>> /\ profiler = "poll"
        /\ profiler' \in {"get", "poll", "finished", "error"}
    BY <1>2 DEF Poll
  <2> QED
    BY <2>1 DEF LinesInv
<1>3. CASE \/ \E ip \in Ip : StoreMac(ip)
           \/ \E conf \in Conf \cup {Missing} : EditWhitelist(conf)
           \/ StopReader
           \/ UNCHANGED readerVars
  <2>1. UNCHANGED <<lines, inputqueue, profiler>>
    BY <1>3 DEF StoreMac, EditWhitelist, StopReader, readerVars
  <2> QED
    BY <2>1 DEF LinesInv
<1> QED
  BY <1>1, <1>2, <1>3 DEF ReaderNext

LEMMA LearntInvStep ==
    ASSUME LinesInv, LearntInv, [ReaderNext]_readerVars
    PROVE  LearntInv'
<1>1. CASE Receive
  <2> DEFINE l == Head(inputqueue)
             n == Len(lines) + 1
  <2>1. /\ l \in FlowLine /\ Len(lines) \in Nat
        /\ DOMAIN lines = 1 .. Len(lines) /\ DOMAIN lines' = 1 .. n
        /\ \A i \in DOMAIN lines : i \in DOMAIN lines' /\ lines'[i] = lines[i]
        /\ lines'[n] = l
        /\ l.form # "stop" => /\ TakenAs(l, lines'[1], Typed(l))
                              /\ "StartTime" \in l.words => l.time = "odd"
    BY <1>1, NextLine
  <2>2. lines' # <<>> /\ n \in DOMAIN lines' /\ profiler = "get"
    <3>1. n \in DOMAIN lines'
      BY <2>1
    <3> HIDE DEF n
    <3> QED
      BY <1>1, <3>1 DEF Receive
  <2>3. timeformat # "" => \E i \in DOMAIN lines' : /\ Timed(lines'[i])
                                                    /\ lines'[i].time = timeformat
    <3> SUFFICES ASSUME timeformat # ""
                 PROVE  \E i \in DOMAIN lines' : Timed(lines'[i]) /\ lines'[i].time = timeformat
      OBVIOUS
    <3>1. PICK i \in DOMAIN lines : Timed(lines[i]) /\ lines[i].time = timeformat
      BY DEF LearntInv
    <3>2. i \in DOMAIN lines' /\ lines'[i] = lines[i]
      BY <2>1
    <3> QED
      BY <3>1, <3>2
  <2>4. CASE ReceiveStop
    <3>1. /\ profiler' = "finished"
          /\ UNCHANGED <<input_type, timeformat, column_idx>>
      BY <2>4 DEF ReceiveStop, learnt
    <3> HIDE DEF l, n
    <3> QED
      BY <2>2, <2>3, <3>1 DEF LearntInv
  <2>5. ASSUME l.form # "stop", input_type' = Typed(l)
        PROVE  /\ input_type' \in {""} \cup Formats
               /\ input_type' = IF lines'[1].told # "" THEN lines'[1].told ELSE lines'[1].form
               /\ input_type = "" \/ input_type' = input_type
    <3>1. TakenAs(l, lines'[1], Typed(l))
      BY <2>1, <2>5
    <3>2. Typed(l) \in Formats
      BY <3>1, TypeTaken
    <3> QED
      BY <2>5, <3>1, <3>2 DEF TakenAs, Typed
  <2>6. ASSUME column_idx # "set", NEW i \in DOMAIN lines, "StartTime" \in lines[i].words,
               l.form # "stop", input_type' = Typed(l), IsArgus(input_type')
        PROVE  FALSE
    <3>1. lines # <<>>
      BY <2>1, <2>6
    <3>2. input_type = IF lines[1].told # "" THEN lines[1].told ELSE lines[1].form
      BY <2>2, <3>1 DEF LearntInv
    <3>3. lines'[1] = lines[1]
      <4>1. 1 \in DOMAIN lines
        BY <2>1, <2>6
      <4> QED
        BY <2>1, <4>1
    <3>4. input_type' = input_type
      BY <2>5, <2>6, <3>2, <3>3
    <3> QED
      BY <2>2, <2>6, <3>4 DEF LearntInv
  <2>7. CASE TakeHeader
    <3>1. /\ IsHeader(l, Typed(l)) /\ l.form # "stop" /\ input_type' = Typed(l)
          /\ column_idx' = ColumnsFrom(l) /\ timeformat' = timeformat
      BY <2>7 DEF TakeHeader
    <3>2. IsArgus(input_type') /\ column_idx # "set"
      BY <3>1 DEF IsHeader
    <3>3. ASSUME NEW i \in DOMAIN lines', "StartTime" \in lines'[i].words
          PROVE  column_idx' = "set"
      <4>1. CASE i = n
        BY <2>1, <3>1, <3>3, <4>1 DEF ColumnsFrom
      <4>2. CASE i # n
        <5>1. i \in DOMAIN lines
          BY <2>1, <4>2
        <5> QED
          BY <2>1, <2>6, <3>1, <3>2, <3>3, <5>1
      <4> QED
        BY <4>1, <4>2
    <3>4. column_idx' \in {"none", "bad", "set"}
      BY <3>1 DEF ColumnsFrom
    <3> HIDE DEF l, n
    <3> QED
      BY <2>2, <2>3, <2>5, <3>1, <3>3, <3>4 DEF LearntInv
  <2>8. CASE TakeLine
    <3>1. /\ l.form # "stop" /\ input_type' = Typed(l) /\ ~ IsHeader(l, Typed(l))
          /\ timeformat' = IF l.time = "" THEN timeformat ELSE Format(l.time)
          /\ column_idx' = IF IsArgus(Typed(l)) THEN "set" ELSE column_idx
      BY <2>8 DEF TakeLine
    <3>2. /\ timeformat' \in {"", "unixtimestamp", "date"}
          /\ timeformat' # "" /\ timeformat' # timeformat => Timed(l) /\ l.time = timeformat'
      <4>1. l.time \in {"", "odd", "unixtimestamp", "date"}
        BY <2>1 DEF FlowLine
      <4>2. "StartTime" \in l.words => l.time = "odd"
        BY <2>1, <3>1
      <4>3. timeformat \in {"", "unixtimestamp", "date"}
        BY DEF LearntInv
      <4> HIDE DEF l
      <4> QED
        BY <3>1, <4>1, <4>2, <4>3 DEF Format, Timed
    <3>3. timeformat' # "" => \E i \in DOMAIN lines' : /\ Timed(lines'[i])
                                                       /\ lines'[i].time = timeformat'
      BY <2>1, <2>2, <2>3, <3>2
    <3>4. column_idx' \in {"none", "bad", "set"} /\ (IsArgus(input_type') => column_idx' = "set")
      BY <3>1 DEF LearntInv
    <3> HIDE DEF l, n
    <3> QED
      BY <2>2, <2>5, <3>1, <3>2, <3>3, <3>4 DEF LearntInv
  <2> QED
    BY <1>1, <2>4, <2>7, <2>8 DEF Receive
<1>2. CASE Poll
  <2>1. UNCHANGED <<lines, input_type, timeformat, column_idx>> /\ profiler = "poll"
    BY <1>2 DEF Poll, learnt
  <2> QED
    BY <2>1 DEF LearntInv
<1>3. CASE \/ \E ip \in Ip : StoreMac(ip)
           \/ \E conf \in Conf \cup {Missing} : EditWhitelist(conf)
           \/ StopReader
           \/ UNCHANGED readerVars
  <2>1. UNCHANGED <<lines, profiler, input_type, timeformat, column_idx>>
    BY <1>3 DEF StoreMac, EditWhitelist, StopReader, readerVars, learnt
  <2> QED
    BY <2>1 DEF LearntInv
<1> QED
  BY <1>1, <1>2, <1>3 DEF ReaderNext

(* A result is one of a line, of the kinds there are                       *)
LEMMA PairsWritten ==
    ASSUME NEW c, NEW p \in EarlyPairs(c) \cup LatePairs(c)
    PROVE  p = <<p[1], p[2]>> /\ p[1] \in Kinds
<1>1. ASSUME NEW m, NEW a, p \in MacPair(m, a)
      PROVE  p = <<p[1], p[2]>> /\ p[1] \in Kinds
  <2>1. p = <<"new_MAC", a>>
    BY <1>1 DEF MacPair
  <2> QED
    BY <2>1 DEF Kinds
<1>2. ASSUME NEW k, k \in Kinds, NEW a, p = <<k, a>>
      PROVE  p = <<p[1], p[2]>> /\ p[1] \in Kinds
  BY <1>2
<1>3. /\ "dhcp_server" \in Kinds /\ "features" \in Kinds /\ "flow" \in Kinds
      /\ {"user_agent", "software", "new_software"} \subseteq Kinds
      /\ \A log \in DOMAIN Published : Published[log] \in Kinds
  BY DEF Kinds
<1>4. "new_arp" \in Kinds
  <2>1. "arp" \in DOMAIN Published /\ Published["arp"] = "new_arp"
    BY DEF Published
  <2> QED
    BY <1>3, <2>1
<1>5. CASE p \in EarlyPairs(c)
  <2>1. CASE p \in MacPairs(c) \/ p \in MacPair(c.src_mac, c.saddr)
    BY <1>1, <2>1 DEF MacPairs
  <2>2. CASE p = <<"dhcp_server", c.daddr>>
    BY <1>2, <1>3, <2>2
  <2>3. CASE p \in {"user_agent", "software", "new_software"} \X {c.saddr}
    <3>1. p = <<p[1], p[2]>> /\ p[1] \in {"user_agent", "software", "new_software"}
      BY <2>3
    <3> QED
      BY <1>3, <3>1
  <2> QED
    BY <1>5, <2>1, <2>2, <2>3 DEF EarlyPairs
<1>6. CASE p \in LatePairs(c)
  <2>1. CASE p \in MacPairs(c)
    BY <1>1, <2>1 DEF MacPairs
  <2>2. CASE p \in {<<"new_arp", c.saddr>>, <<"flow", c.saddr>>}
    BY <1>2, <1>3, <1>4, <2>2
  <2>3. CASE p \in {"features"} \X {c.saddr, c.daddr}
    <3>1. p = <<p[1], p[2]>> /\ p[1] = "features"
      BY <2>3
    <3> QED
      BY <1>3, <3>1
  <2>4. CASE c.type \in DOMAIN Published /\ p = <<Published[c.type], c.saddr>>
    BY <1>2, <1>3, <2>4
  <2> QED
    BY <1>6, <2>1, <2>2, <2>3, <2>4 DEF LatePairs
<1> QED
  BY <1>5, <1>6

(* NothingForeign of results rs of the lines ls                            *)
RightOf(rs, ls) ==
    /\ \A i \in DOMAIN rs :
          JustifiedPair(rs[i].what, rs[i].about, ls[rs[i].of], ls[1])
    /\ \A i, j \in DOMAIN rs :
          i < j => /\ rs[i].of <= rs[j].of
                   /\ rs[i] = rs[j] => ls[rs[i].of].saddr = ls[rs[i].of].daddr

LEMMA RightIs ==
    /\ NothingForeign <=> RightOf(results, lines)
    /\ NothingForeign' <=> RightOf(results', lines')
<1>1. \A i : Justified(results[i]) <=>
        JustifiedPair(results[i].what, results[i].about, lines[results[i].of], lines[1])
  BY DEF Justified, JustifiedPair
<1>2. \A i : Justified(results[i])' <=>
        JustifiedPair(results'[i].what, results'[i].about, lines'[results'[i].of], lines'[1])
  BY DEF Justified, JustifiedPair
<1> QED
  BY <1>1, <1>2 DEF NothingForeign, RightOf

(* They stay right when a line is added, and its own are.                  *)
LEMMA MoreLines ==
    ASSUME NEW rs \in Seq(Result), NEW ls \in Seq(FlowLine), NEW ls1 \in Seq(FlowLine),
           \A i \in DOMAIN rs : rs[i].of \in DOMAIN ls,
           \A i \in DOMAIN ls : i \in DOMAIN ls1 /\ ls1[i] = ls[i],
           RightOf(rs, ls)
    PROVE  RightOf(rs, ls1) /\ \A i \in DOMAIN rs : rs[i].of \in DOMAIN ls1
<1>1. ASSUME NEW i \in DOMAIN rs
      PROVE  /\ ls1[rs[i].of] = ls[rs[i].of] /\ ls1[1] = ls[1]
             /\ rs[i].of \in DOMAIN ls1
  <2>1. rs[i].of \in DOMAIN ls
    OBVIOUS
  <2>2. 1 \in DOMAIN ls
    BY <2>1
  <2> QED
    BY <2>1, <2>2
<1> QED
  BY <1>1 DEF RightOf

LEMMA MoreResults ==
    ASSUME NEW rs \in Seq(Result), NEW new \in Seq(Result), NEW ls \in Seq(FlowLine),
           NEW n \in DOMAIN ls,
           \A i \in DOMAIN rs : rs[i].of \in 1 .. n - 1,
           RightOf(rs, ls),
           \A i \in DOMAIN new : new[i].of = n,
           RightOf(new, ls)
    PROVE  /\ rs \o new \in Seq(Result)
           /\ \A i \in DOMAIN (rs \o new) : (rs \o new)[i].of \in DOMAIN ls
           /\ RightOf(rs \o new, ls)
<1> DEFINE v == rs \o new
<1>1. /\ v \in Seq(Result) /\ Len(v) = Len(rs) + Len(new)
      /\ \A i \in 1..(Len(rs) + Len(new)) :
            v[i] = IF i <= Len(rs) THEN rs[i] ELSE new[i - Len(rs)]
  BY ConcatProperties
<1>2. /\ Len(rs) \in Nat /\ Len(new) \in Nat /\ n \in Nat
      /\ DOMAIN rs = 1..Len(rs) /\ DOMAIN new = 1..Len(new)
      /\ DOMAIN v = 1..(Len(rs) + Len(new))
      /\ DOMAIN ls = 1..Len(ls) /\ Len(ls) \in Nat
  BY <1>1
<1> HIDE DEF v
<1>3. \A i \in DOMAIN v :
         \/ i \in DOMAIN rs /\ v[i] = rs[i]
         \/ i \in Nat /\ i > Len(rs) /\ i - Len(rs) \in DOMAIN new /\ v[i] = new[i - Len(rs)]
  BY <1>1, <1>2
<1>4. \A i \in DOMAIN v : v[i].of \in DOMAIN ls
  <2>1. \A k \in 1 .. n - 1 : k \in DOMAIN ls
    BY <1>2
  <2> QED
    BY <1>3, <2>1
<1>5. \A i \in DOMAIN v : JustifiedPair(v[i].what, v[i].about, ls[v[i].of], ls[1])
  BY <1>3 DEF RightOf
<1>6. ASSUME NEW i \in DOMAIN v, NEW j \in DOMAIN v, i < j
      PROVE  /\ v[i].of <= v[j].of
             /\ v[i] = v[j] => ls[v[i].of].saddr = ls[v[i].of].daddr
  <2>1. CASE i \in DOMAIN rs /\ v[i] = rs[i] /\ j \in DOMAIN rs /\ v[j] = rs[j]
    BY <1>6, <2>1 DEF RightOf
  <2>2. CASE /\ i \in DOMAIN rs /\ v[i] = rs[i]
             /\ j - Len(rs) \in DOMAIN new /\ v[j] = new[j - Len(rs)]
    <3>1. v[i].of \in 1 .. n - 1 /\ v[j].of = n
      BY <2>2
    <3>2. v[i].of <= v[j].of /\ v[i].of # v[j].of
      BY <1>2, <3>1
    <3> QED
      BY <3>2
  <2>3. CASE /\ i \in Nat /\ i > Len(rs) /\ j \in DOMAIN rs
    BY <1>2, <1>6, <2>3
  <2>4. CASE /\ i \in Nat /\ j \in Nat
             /\ i - Len(rs) \in DOMAIN new /\ v[i] = new[i - Len(rs)]
             /\ j - Len(rs) \in DOMAIN new /\ v[j] = new[j - Len(rs)]
    <3>1. i - Len(rs) < j - Len(rs)
      BY <1>2, <1>6, <2>4
    <3> DEFINE a == i - Len(rs)
               b == j - Len(rs)
    <3> HIDE DEF a, b
    <3>2. /\ new[a].of <= new[b].of
          /\ new[a] = new[b] => ls[new[a].of].saddr = ls[new[a].of].daddr
      BY <2>4, <3>1 DEF RightOf, a, b
    <3> QED
      BY <2>4, <3>2 DEF a, b
  <2> QED
    BY <1>3, <2>1, <2>2, <2>3, <2>4
<1>7. RightOf(v, ls)
  BY <1>5, <1>6 DEF RightOf
<1> QED
  BY <1>1, <1>4, <1>7 DEF v

(* What a line adds                                                        *)
Added(n, q) == [i \in DOMAIN q |-> [of |-> n, what |-> q[i][1], about |-> q[i][2]]]

LEMMA LineAdds ==
    ASSUME NEW ls \in Seq(FlowLine), NEW n \in DOMAIN ls, NEW type,
           TakenAs(ls[n], ls[1], type),
           NEW c, ColumnsAre(c, ls[n], type)
    PROVE  /\ Added(n, AddedOf(c)) \in Seq(Result)
           /\ \A i \in DOMAIN Added(n, AddedOf(c)) : Added(n, AddedOf(c))[i].of = n
           /\ RightOf(Added(n, AddedOf(c)), ls)
<1> DEFINE q == AddedOf(c)
           new == Added(n, q)
           l == ls[n]
           S == EarlyPairs(c) \cup LatePairs(c)
<1>1. q \in Seq(S) /\ (Distinct(c) => Once(q))
  BY AddedWritten
<1>2. q # <<>> => ~ RaisesEarly(c)
  BY DEF AddedOf
<1> HIDE DEF q, S
<1>3. /\ DOMAIN new = DOMAIN q /\ DOMAIN q = 1..Len(q) /\ Len(q) \in Nat /\ n \in Nat
      /\ \A i \in DOMAIN q : q[i] \in S
      /\ \A i \in DOMAIN q : new[i] = [of |-> n, what |-> q[i][1], about |-> q[i][2]]
  BY <1>1 DEF Added
<1> HIDE DEF new
<1>4. ASSUME NEW i \in DOMAIN q
      PROVE  /\ q[i] = <<q[i][1], q[i][2]>> /\ q[i][1] \in Kinds
             /\ JustifiedPair(q[i][1], q[i][2], l, ls[1])
             /\ q[i][2] \in STRING
  <2>1. q[i] \in EarlyPairs(c) \cup LatePairs(c)
    BY <1>3 DEF S
  <2>2. q # <<>>
    OBVIOUS
  <2>3. JustifiedPair(q[i][1], q[i][2], l, ls[1])
    BY <1>2, <2>1, <2>2, PairJustified
  <2>4. l.saddr \in STRING /\ l.daddr \in STRING /\ l.mac \in STRING
    BY DEF TakenAs, FlowLine
  <2>5. q[i][2] \in {l.saddr, l.daddr, l.mac}
    BY <2>3 DEF JustifiedPair
  <2> HIDE DEF l
  <2>6. q[i][2] \in STRING
    BY <2>4, <2>5
  <2> QED
    BY <2>1, <2>3, <2>6, PairsWritten
<1>5. new \in Seq(Result)
  <2>1. \A i \in DOMAIN q : new[i] \in Result
    BY <1>3, <1>4 DEF Result
  <2>2. new = [i \in 1..Len(q) |-> new[i]]
    BY <1>3 DEF new, Added
  <2> QED
    BY <1>3, <2>1, <2>2
<1>6. \A i \in DOMAIN new : /\ new[i].of = n /\ new[i].what = q[i][1]
                            /\ new[i].about = q[i][2]
  BY <1>3
<1>7. ASSUME NEW i \in DOMAIN new, NEW j \in DOMAIN new, i < j, new[i] = new[j]
      PROVE  l.saddr = l.daddr
  <2>1. q[i][1] = q[j][1] /\ q[i][2] = q[j][2]
    BY <1>6, <1>7
  <2>2. q[i] = q[j]
    BY <1>3, <1>4, <2>1
  <2>3. i # j
    BY <1>3, <1>7
  <2>4. ~ Distinct(c)
    BY <1>1, <1>3, <2>2, <2>3 DEF Once
  <2>5. c.type \in FlowTypes \cup {"arp"} /\ c.saddr = c.daddr
    BY <2>4 DEF Distinct
  <2> HIDE DEF l
  <2>6. c.saddr = Saddr(l, c.type) /\ c.daddr = Daddr(l, c.type)
    BY DEF ColumnsAre, l
  <2> QED
    BY <2>5, <2>6 DEF Saddr, Daddr, FlowTypes
<1>8. RightOf(new, ls)
  BY <1>3, <1>4, <1>6, <1>7 DEF RightOf
<1> QED
  BY <1>5, <1>6, <1>8 DEF new, q

(* A line that is parsed                                                   *)
LEMMA LineParsed ==
    ASSUME LinesInv, LearntInv, Receive, TakeLine, ~ ParserRaises(Head(inputqueue), Typed(Head(inputqueue))),
           NEW l, l = Head(inputqueue), NEW n, n = Len(lines) + 1,
           NEW c, c = Columns(l, Typed(l))
    PROVE  /\ l.form # "stop" /\ TakenAs(l, lines'[1], Typed(l)) /\ ColumnsAre(c, l, Typed(l))
           /\ column_values' = c
           /\ results' = results \o Added(n, AddedOf(c))
           /\ ~ IsHeader(l, Typed(l))
<1>1. /\ l.form # "stop" /\ ~ IsHeader(l, Typed(l))
      /\ column_values' = c
      /\ AddFlowToProfile(n, c)
  BY DEF TakeLine
<1>2. TakenAs(l, lines'[1], Typed(l))
  BY <1>1, NextLine
<1> QED
  BY <1>1, <1>2, ColumnsRight DEF AddFlowToProfile, Added

LEMMA ResultsInvStep ==
    ASSUME LinesInv, LearntInv, ResultsInv, [ReaderNext]_readerVars
    PROVE  ResultsInv'
<1> DEFINE Rs(rs, ls) == /\ rs \in Seq(Result)
                         /\ \A i \in DOMAIN rs : rs[i].of \in DOMAIN ls
                         /\ RightOf(rs, ls)
<1>1. ResultsInv <=> Rs(results, lines)
  BY RightIs DEF ResultsInv
<1>2. ResultsInv' <=> Rs(results', lines')
  BY RightIs DEF ResultsInv
<1>3. CASE Receive
  <2> DEFINE l == Head(inputqueue)
             n == Len(lines) + 1
  <2>1. /\ lines \in Seq(FlowLine) /\ lines' \in Seq(FlowLine)
        /\ Len(lines) \in Nat /\ DOMAIN lines = 1 .. Len(lines)
        /\ \A i \in DOMAIN lines : i \in DOMAIN lines' /\ lines'[i] = lines[i]
        /\ n \in DOMAIN lines' /\ lines'[n] = l
    <3>1. DOMAIN lines' = 1 .. n /\ Len(lines) \in Nat
      BY <1>3, NextLine
    <3>2. n \in DOMAIN lines'
      BY <3>1
    <3> QED
      BY <1>3, <3>2, NextLine DEF LinesInv
  <2>2. Rs(results, lines')
    <3> HIDE DEF l, n
    <3> QED
      BY <1>1, <2>1, MoreLines
  <2>3. CASE results' = results
    BY <1>2, <2>2, <2>3
  <2>4. CASE results' # results
    <3>1. TakeLine /\ ~ ParserRaises(l, Typed(l))
      BY <1>3, <2>4 DEF Receive, ReceiveStop, TakeHeader, TakeLine
    <3> DEFINE c == Columns(l, Typed(l))
    <3>2. /\ TakenAs(l, lines'[1], Typed(l)) /\ ColumnsAre(c, l, Typed(l))
          /\ results' = results \o Added(n, AddedOf(c))
      BY <1>3, <3>1, LineParsed
    <3> DEFINE new == Added(n, AddedOf(c))
    <3>3. /\ new \in Seq(Result)
          /\ \A i \in DOMAIN new : new[i].of = n
          /\ RightOf(new, lines')
      <4> HIDE DEF c, l, n
      <4> QED
        BY <2>1, <3>2, LineAdds
    <3>4. \A i \in DOMAIN results : results[i].of \in 1 .. n - 1
      <4>1. n - 1 = Len(lines)
        BY <2>1
      <4> QED
        BY <1>1, <2>1, <4>1
    <3> HIDE DEF new, l, n, c
    <3>5. /\ results \o new \in Seq(Result)
          /\ \A i \in DOMAIN (results \o new) : (results \o new)[i].of \in DOMAIN lines'
          /\ RightOf(results \o new, lines')
      BY <2>1, <2>2, <3>3, <3>4, MoreResults
    <3>6. results' = results \o new
      BY <3>2 DEF new
    <3> QED
      BY <1>2, <3>5, <3>6
  <2> QED
    BY <2>3, <2>4
<1>4. CASE \/ Poll
           \/ \E ip \in Ip : StoreMac(ip)
           \/ \E conf \in Conf \cup {Missing} : EditWhitelist(conf)
           \/ StopReader
           \/ UNCHANGED readerVars
  <2>1. UNCHANGED <<results, lines>>
    BY <1>4 DEF Poll, StoreMac, EditWhitelist, StopReader, readerVars
  <2> QED
    BY <1>1, <1>2, <2>1
<1> QED
  BY <1>3, <1>4 DEF ReaderNext

(* The verdict does not ask for MAC addresses when none is listed.         *)
LEMMA NoMacAsked ==
    ASSUME NEW w, NEW c, NEW m1, NEW m2, OfType(w, "mac") = <<>>
    PROVE  Verdict(w, c, m1) = Verdict(w, c, m2)
BY DEF Verdict, MacVerdict

LEMMA WellFormedTaken ==
    ASSUME LinesInv, LearntInv, Receive, profiler' = "poll",
           WellFormed(Len(lines))', Verdict(whitelist, column_values', macs) = "no",
           results \in Seq(Result)
    PROVE  WasStored(Len(lines))'
<1> DEFINE l == Head(inputqueue)
           n == Len(lines) + 1
           first == lines'[1]
<1>1. /\ l \in FlowLine /\ Len(lines) \in Nat /\ DOMAIN lines = 1 .. Len(lines)
      /\ Len(lines') = n /\ lines'[n] = l
      /\ \A i \in DOMAIN lines : i \in DOMAIN lines' /\ lines'[i] = lines[i]
      /\ l.form # "stop" => TakenAs(l, first, Typed(l))
  BY NextLine
<1>2. l.form # "stop" /\ profiler = "get"
  BY DEF Receive, ReceiveStop, TakeHeader, TakeLine
<1>3. TakenAs(l, first, Typed(l))
  BY <1>1, <1>2
<1>4. /\ IF first.told # "" THEN l.told = first.told ELSE l.form = first.form
      /\ l.told \in {"", l.form}
      /\ Timed(l) /\ l.whole
      /\ \A i \in 1 .. n - 1 : Timed(lines'[i]) => lines'[i].time = l.time
      /\ SoundForm(l)
      /\ l.form \in {"argus", "argus-tabs"} =>
           l.told # "" \/ \E i \in 1 .. n - 1 : "StartTime" \in lines'[i].words
      /\ {l.saddr, l.daddr} \subseteq Ip4 \/ {l.saddr, l.daddr} \subseteq Ip6
      /\ IsHome(l.saddr)
  <2> DEFINE m == Len(lines')
  <2>1. m = n /\ lines'[m] = l
    BY <1>1
  <2>2. /\ IF first.told # "" THEN lines'[m].told = first.told ELSE lines'[m].form = first.form
        /\ lines'[m].told \in {"", lines'[m].form}
        /\ Timed(lines'[m]) /\ lines'[m].whole
        /\ \A i \in 1 .. m - 1 : Timed(lines'[i]) => lines'[i].time = lines'[m].time
        /\ SoundForm(lines'[m])
        /\ lines'[m].form \in {"argus", "argus-tabs"} =>
             \/ lines'[m].told # ""
             \/ \E i \in 1 .. m - 1 : "StartTime" \in lines'[i].words
        /\ \/ {lines'[m].saddr, lines'[m].daddr} \subseteq Ip4
           \/ {lines'[m].saddr, lines'[m].daddr} \subseteq Ip6
        /\ IsHome(lines'[m].saddr)
    BY DEF WellFormed, SoundForm, Timed, IsHome
  <2> HIDE DEF n, l, m, first
  <2> QED
    BY <2>1, <2>2
<1>5. Typed(l) = l.form
  BY <1>3, <1>4 DEF TakenAs
<1>6. \A i \in 1 .. n - 1 : i \in DOMAIN lines /\ lines'[i] = lines[i]
  <2>1. n - 1 = Len(lines)
    BY <1>1
  <2> QED
    BY <1>1, <2>1
<1>7. timeformat \in {"", l.time}
  <2>1. CASE timeformat # ""
    <3>1. PICK i \in DOMAIN lines : Timed(lines[i]) /\ lines[i].time = timeformat
      BY <2>1 DEF LearntInv
    <3>2. i \in 1 .. n - 1 /\ lines'[i] = lines[i]
      <4>1. n - 1 = Len(lines)
        BY <1>1
      <4> QED
        BY <1>1, <4>1, <3>1
    <3>3. Timed(lines'[i]) /\ lines'[i].time = timeformat
      BY <3>1, <3>2
    <3> QED
      BY <1>4, <3>2, <3>3
  <2> QED
    BY <2>1
<1>8. ~ TakeHeader
  <2> SUFFICES ASSUME TakeHeader
               PROVE  FALSE
    OBVIOUS
  <2>1. IsArgus(l.form) /\ l.told = "" /\ column_idx # "set"
    BY <1>5 DEF TakeHeader, IsHeader
  <2>2. PICK i \in 1 .. n - 1 : "StartTime" \in lines'[i].words
    BY <1>4, <2>1 DEF IsArgus
  <2>3. i \in DOMAIN lines /\ "StartTime" \in lines[i].words
    BY <1>6, <2>2
  <2>4. lines # <<>> /\ lines'[1] = lines[1]
    <3>1. 1 \in DOMAIN lines /\ lines # <<>>
      BY <1>1, <2>3
    <3> QED
      BY <1>1, <3>1
  <2>5. input_type = Typed(l)
    BY <1>2, <1>3, <2>4 DEF LearntInv, TakenAs
  <2> QED
    BY <1>2, <1>5, <2>1, <2>3, <2>5 DEF LearntInv
<1>9. TakeLine /\ ~ ParserRaises(l, Typed(l))
  BY <1>8 DEF Receive, ReceiveStop, TakeLine
<1> DEFINE c == Columns(l, Typed(l))
           new == Added(n, AddedOf(c))
<1>10. ColumnsAre(c, l, Typed(l)) /\ column_values' = c /\ results' = results \o new
  BY <1>9, LineParsed
<1>11. \E p \in Range(AddedOf(c)) : p[1] # "new_MAC"
  <2> HIDE DEF l, c, first, n
  <2> QED
    BY <1>3, <1>4, <1>5, <1>7, <1>10, SoundWritten
<1>12. PICK k \in DOMAIN AddedOf(c) : AddedOf(c)[k][1] # "new_MAC"
  BY <1>11 DEF Range
<1>13. new \in Seq(Result)
  <2>1. lines' \in Seq(FlowLine) /\ n \in DOMAIN lines'
    <3>1. lines' \in Seq(FlowLine) /\ DOMAIN lines' = 1 .. n
      BY NextLine
    <3> QED
      BY <1>1, <3>1
  <2> HIDE DEF l, c, n
  <2> QED
    BY <1>1, <1>3, <1>10, <2>1, LineAdds
<1>14. k \in DOMAIN new /\ new[k].of = n /\ new[k].what # "new_MAC"
  BY <1>12 DEF Added
<1> HIDE DEF new, l, c, n
<1>15. PICK x \in Range(results \o new) : x.of = n /\ x.what # "new_MAC"
  <2>1. new[k] \in Range(new)
    BY <1>14 DEF Range
  <2>2. new[k] \in Range(results \o new)
    BY <1>13, <2>1, Joined
  <2> QED
    BY <1>14, <2>2
<1>16. PICK i \in DOMAIN results' : results'[i] = x
  BY <1>10, <1>15 DEF Range
<1> QED
  BY <1>1, <1>15, <1>16 DEF WasStored

LEMMA WellFormedStep ==
    ASSUME LinesInv, LearntInv, ResultsInv, WellFormedStored, [ReaderNext]_readerVars
    PROVE  WellFormedStored'
<1>1. CASE Receive
  <2>1. whitelist' = whitelist /\ macs' = macs
    BY <1>1 DEF Receive, listed
  <2> QED
    BY <1>1, <2>1, WellFormedTaken DEF WellFormedStored, ResultsInv
<1>2. CASE Poll
  <2>1. profiler' # "poll"
    BY <1>2 DEF Poll
  <2> QED
    BY <2>1 DEF WellFormedStored
<1>3. CASE \/ \E ip \in Ip : StoreMac(ip)
           \/ \E conf \in Conf \cup {Missing} : EditWhitelist(conf)
           \/ StopReader
           \/ UNCHANGED readerVars
  <2>1. UNCHANGED <<lines, profiler, column_values, results, whitelist>>
    BY <1>3 DEF StoreMac, EditWhitelist, StopReader, readerVars, listed, learnt
  <2>2. OfType(whitelist, "mac") = <<>> =>
          Verdict(whitelist, column_values, macs') = Verdict(whitelist, column_values, macs)
    BY NoMacAsked
  <2>3. (WellFormed(Len(lines))' <=> WellFormed(Len(lines)))
        /\ (WasStored(Len(lines))' <=> WasStored(Len(lines)))
    BY <2>1 DEF WellFormed, WasStored, Timed, IsHome
  <2> QED
    BY <2>1, <2>2, <2>3 DEF WellFormedStored
<1> QED
  BY <1>1, <1>2, <1>3 DEF ReaderNext

LEMMA ReaderInvInit ==
    ASSUME ReaderInit
    PROVE  ReaderInv
<1>1. /\ inputqueue \in FlowInput /\ lines = <<>> /\ profiler = "get"
      /\ input_type = "" /\ timeformat = "" /\ column_idx = "none"
      /\ results = <<>> /\ macs = {} /\ edits = 0
  BY DEF ReaderInit
<1>2. inputqueue \in Seq(FlowLine) /\ MaxEdits \in Nat
  BY <1>1, ReaderAssumption
<1>3. <<>> \o inputqueue = inputqueue /\ <<>> \in Seq(FlowLine) /\ DOMAIN <<>> = {}
  BY <1>2
<1>4. LinesInv
  BY <1>1, <1>2, <1>3 DEF LinesInv
<1>5. LearntInv
  BY <1>1, <1>3 DEF LearntInv
<1>6. ResultsInv
  <2>1. <<>> \in Seq(Result)
    OBVIOUS
  <2> QED
    BY <1>1, <1>3, <2>1 DEF ResultsInv, NothingForeign
<1>7. WellFormedStored
  BY <1>1 DEF WellFormedStored
<1>8. macs \subseteq Ip /\ edits \in 0 .. MaxEdits
  <2>1. macs = {} /\ edits = 0
    BY DEF ReaderInit
  <2>2. MaxEdits \in Nat
    BY ReaderAssumption
  <2>3. edits \in 0 .. MaxEdits
    BY <2>1, <2>2
  <2> QED
    BY <2>1, <2>3
<1> QED
  BY <1>4, <1>5, <1>6, <1>7, <1>8 DEF ReaderInv

LEMMA ReaderInvStep ==
    ASSUME ReaderInv, [ReaderNext]_readerVars
    PROVE  ReaderInv'
<1>1. LinesInv' /\ LearntInv' /\ ResultsInv' /\ WellFormedStored'
  BY LinesInvStep, LearntInvStep, ResultsInvStep, WellFormedStep DEF ReaderInv
<1>2. (macs \subseteq Ip)'
  <2>1. macs' = macs \/ \E ip \in Ip : macs' = macs \cup {ip}
    BY DEF ReaderNext, Receive, Poll, StoreMac, EditWhitelist, StopReader, readerVars
  <2> QED
    BY <2>1 DEF ReaderInv
<1>3. (edits \in 0 .. MaxEdits)'
  <2>1. edits' = edits \/ (edits < MaxEdits /\ edits' = edits + 1)
    BY DEF ReaderNext, Receive, Poll, StoreMac, EditWhitelist, StopReader, readerVars, listed
  <2> QED
    BY <2>1, ReaderAssumption DEF ReaderInv
<1> QED
  BY <1>1, <1>2, <1>3 DEF ReaderInv

LEMMA ReaderKept == ReaderSpec => []ReaderInv
<1>1. ReaderInit => ReaderInv
  BY ReaderInvInit
<1>2. ReaderInv /\ [ReaderNext]_readerVars => ReaderInv'
  BY ReaderInvStep
<1> QED
  BY <1>1, <1>2, PTL DEF ReaderSpec

(* What ProfilerProcess has learnt from the lines has its type.            *)
THEOREM ReaderTyped == ReaderSpec => []ReaderTypeOK
<1>1. ReaderInv => ReaderTypeOK
  BY DEF ReaderInv, LinesInv, LearntInv, ResultsInv, ReaderTypeOK, Formats
<1> QED
  BY <1>1, ReaderKept, PTL

(* What is stored or published is of the line it says, in the order of the *)
(* lines: whatever lines came before it, and whatever they have taught.    *)
THEOREM OfTheirLines == ReaderSpec => []NothingForeign
<1>1. ReaderInv => NothingForeign
  BY DEF ReaderInv, ResultsInv
<1> QED
  BY <1>1, ReaderKept, PTL

(* A well-formed line that the whitelist does not hold back is stored,     *)
(* whatever lines came before it.                                          *)
THEOREM SoundLinesStored == ReaderSpec => []WellFormedStored
<1>1. ReaderInv => WellFormedStored
  BY DEF ReaderInv
<1> QED
  BY <1>1, ReaderKept, PTL

-----------------------------------------------------------------------------
(* Both processes *)

(* Whatever the order in which InputProcess and ProfilerProcess run, what  *)
(* each of them keeps is of its type.                                      *)
THEOREM InputTyped == InputSpec => []InputTypeOK
<1>1. InputInit => Base /\ ReaderInv
  BY BaseInit, ReaderInvInit DEF InputInit
<1>2. Base /\ ReaderInv /\ [InputNext]_inputVars => (Base /\ ReaderInv)'
  <2>1. [InputNext]_inputVars => [Next]_vars /\ [ReaderNext]_readerVars
    BY DEF InputNext, inputVars
  <2> QED
    BY <2>1, BaseStep, ReaderInvStep
<1>3. Base /\ ReaderInv => InputTypeOK
  BY DEF Base, ReaderInv, LinesInv, LearntInv, ResultsInv, ReaderTypeOK, Formats, InputTypeOK
<1> QED
  BY <1>1, <1>2, <1>3, PTL DEF InputSpec

=============================================================================
