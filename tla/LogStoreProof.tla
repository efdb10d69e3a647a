--------------------------- MODULE LogStoreProof ---------------------------
(***************************************************************************)
(* Proofs about LogStore for every set of log messages, every size of the  *)
(* buffers and every number of failures.                                   *)
(*                                                                         *)
(* TypeCorrect and NothingLostOrDoubled need no more than StoreAssumption. *)
(* TableBounded needs what the sizes of the code (16384, 512, 50) satisfy: *)
(* a limit above zero, and no trim smaller than a batch.                   *)
(***************************************************************************)
EXTENDS LogStore, SequenceTheorems, FiniteSetTheorems, WellFoundedInduction, TLAPS

(* A batch while it is saved: how far it has come, and that what has been  *)
(* inserted since BEGIN is at the end of the table.                        *)
InBatch ==
  Saving => /\ at <= Len(buffer[Batch]) + 1
            /\ inserted < at
            /\ inserted <= Len(saved) /\ inserted <= Len(db)

TInv == TypeOK /\ InBatch

(* The rows of a buffer that have been tried, and those that have not.     *)
From(b) == IF Saving /\ b = Batch THEN at ELSE 1
Tried(b) == {buffer[b][i] : i \in 1 .. From(b) - 1}
Rest(b) == {buffer[b][i] : i \in From(b) .. Len(buffer[b])}

Distinct(s) == \A i, j \in 1 .. Len(s) : s[i] = s[j] => i = j

(* Nothing is anywhere twice ...                                           *)
NothingTwice ==
  /\ Distinct(saved)
  /\ \A b \in Buffers : Distinct(buffer[b])
  /\ Elems(buffer["A"]) \cap Elems(buffer["B"]) = {}
  /\ \A b \in Buffers : Elems(saved) \cap Rest(b) = {}
  /\ dropped \cap (Elems(saved) \cup Rest("A") \cup Rest("B")) = {}
  /\ unsent \cap Elems(accepted) = {}

(* ... and what has been accepted is somewhere.                            *)
NothingAway ==
  /\ Elems(accepted) = Elems(saved) \cup Rest("A") \cup Rest("B") \cup dropped
  /\ \A b \in Buffers : Elems(buffer[b]) \subseteq Elems(accepted)

(* What ROLLBACK takes away is the batch and nothing else.                 *)
Transaction ==
  Saving =>
    /\ \A i \in 1 .. Len(saved) :
         i > Len(saved) - inserted => saved[i] \in Tried(Batch)
    /\ \A i \in 1 .. Len(saved) - inserted : saved[i] \notin Elems(buffer[Batch])

(* Without a failure the other buffer is empty but while it is saved.      *)
InOrder ==
  failures = 0 =>
    /\ (saved \o ToSave(Other(input))) \o ToSave(input) = accepted
    /\ pc # "save" => buffer[Other(input)] = <<>>

(* How long a table without errors may be.                                 *)
Cap == IF Len(Earlier) < MaxDb + ItemCap THEN MaxDb + ItemCap ELSE Len(Earlier) + 1
Limit ==
  CASE pc = "save"              -> Cap - ItemCap + at - 1
    [] pc = "last"              -> Cap + at - 1
    [] pc \in {"leaving", "done"} -> Cap + ItemCap
    [] OTHER                    -> Cap

DInv == failures = 0 /\ Elems(db) \cap Errors = {} => Len(db) < Limit

-----------------------------------------------------------------------------
(* Sequences                                                               *)

LEMMA AppendIs ==
  ASSUME NEW T, NEW s \in Seq(T), NEW x \in T
  PROVE  /\ Append(s, x) \in Seq(T) /\ Len(Append(s, x)) = Len(s) + 1 /\ Len(s) \in Nat
         /\ \A i \in 1 .. Len(s) : Append(s, x)[i] = s[i]
         /\ Append(s, x)[Len(s) + 1] = x
BY LenProperties, AppendProperties

LEMMA ElemsEmpty == Elems(<<>>) = {}
BY EmptySeq DEF Elems

LEMMA ElemsAppend ==
  ASSUME NEW T, NEW s \in Seq(T), NEW x \in T
  PROVE  Elems(Append(s, x)) = Elems(s) \cup {x}
BY AppendIs DEF Elems

LEMMA ElemsConcat ==
  ASSUME NEW T, NEW s \in Seq(T), NEW t \in Seq(T)
  PROVE  Elems(s \o t) = Elems(s) \cup Elems(t)
<1>1. /\ Len(s) \in Nat /\ Len(t) \in Nat /\ Len(s \o t) = Len(s) + Len(t)
      /\ \A i \in 1 .. Len(s) : (s \o t)[i] = s[i]
      /\ \A i \in 1 .. Len(t) : (s \o t)[Len(s) + i] = t[i]
  BY LenProperties, ConcatProperties
<1>2. ASSUME NEW x \in Elems(s \o t) PROVE x \in Elems(s) \cup Elems(t)
  <2>1. PICK i \in 1 .. Len(s) + Len(t) : x = (s \o t)[i]
    BY <1>1 DEF Elems
  <2>2. CASE i <= Len(s)
    BY <1>1, <2>1, <2>2 DEF Elems
  <2>3. CASE i > Len(s)
    <3>1. i - Len(s) \in 1 .. Len(t) /\ Len(s) + (i - Len(s)) = i
      BY <1>1, <2>1, <2>3
    <3> QED
      BY <1>1, <2>1, <3>1 DEF Elems
  <2> QED
    BY <1>1, <2>2, <2>3
<1>3. Elems(s) \subseteq Elems(s \o t)
  BY <1>1 DEF Elems
<1>4. Elems(t) \subseteq Elems(s \o t)
  <2> SUFFICES ASSUME NEW i \in 1 .. Len(t) PROVE t[i] \in Elems(s \o t)
    BY DEF Elems
  <2>1. Len(s) + i \in 1 .. Len(s \o t) /\ (s \o t)[Len(s) + i] = t[i]
    BY <1>1
  <2> QED
    BY <2>1 DEF Elems
<1> QED
  BY <1>2, <1>3, <1>4

LEMMA DistinctAppend ==
  ASSUME NEW T, NEW s \in Seq(T), Distinct(s), NEW x \in T, x \notin Elems(s)
  PROVE  Distinct(Append(s, x))
BY AppendIs DEF Distinct, Elems

LEMMA DistinctConcat ==
  ASSUME NEW T, NEW s \in Seq(T), NEW t \in Seq(T), Distinct(s), Distinct(t),
         Elems(s) \cap Elems(t) = {}
  PROVE  Distinct(s \o t)
<1>1. /\ Len(s) \in Nat /\ Len(t) \in Nat /\ Len(s \o t) = Len(s) + Len(t)
      /\ \A i \in 1 .. Len(s) : (s \o t)[i] = s[i]
      /\ \A i \in 1 .. Len(t) : (s \o t)[Len(s) + i] = t[i]
  BY LenProperties, ConcatProperties
<1> SUFFICES ASSUME NEW i \in 1 .. Len(s) + Len(t), NEW j \in 1 .. Len(s) + Len(t),
                    (s \o t)[i] = (s \o t)[j]
             PROVE  i = j
  BY <1>1 DEF Distinct
<1>2. \A k \in 1 .. Len(s) + Len(t) :
        k > Len(s) => /\ k - Len(s) \in 1 .. Len(t)
                      /\ (s \o t)[k] = t[k - Len(s)] /\ (s \o t)[k] \in Elems(t)
  <2> SUFFICES ASSUME NEW k \in 1 .. Len(s) + Len(t), k > Len(s)
               PROVE  /\ k - Len(s) \in 1 .. Len(t)
                      /\ (s \o t)[k] = t[k - Len(s)] /\ (s \o t)[k] \in Elems(t)
    OBVIOUS
  <2>1. k - Len(s) \in 1 .. Len(t) /\ Len(s) + (k - Len(s)) = k
    BY <1>1
  <2> QED
    BY <1>1, <2>1 DEF Elems
<1>3. \A k \in 1 .. Len(s) : (s \o t)[k] = s[k] /\ (s \o t)[k] \in Elems(s)
  BY <1>1 DEF Elems
<1>4. CASE i <= Len(s) /\ j <= Len(s)
  BY <1>1, <1>3, <1>4 DEF Distinct
<1>5. CASE i > Len(s) /\ j > Len(s)
  <2>1. i - Len(s) = j - Len(s)
    BY <1>2, <1>5 DEF Distinct
  <2> QED
    BY <1>1, <2>1
<1>6. CASE i <= Len(s) /\ j > Len(s)
  BY <1>1, <1>2, <1>3, <1>6
<1>7. CASE i > Len(s) /\ j <= Len(s)
  BY <1>1, <1>2, <1>3, <1>7
<1> QED
  BY <1>1, <1>4, <1>5, <1>6, <1>7

LEMMA DistinctCount ==
  ASSUME NEW T, NEW s \in Seq(T), Distinct(s)
  PROVE  Cardinality(Elems(s)) = Len(s)
<1> DEFINE f == [i \in 1 .. Len(s) |-> s[i]]
<1>1. Len(s) \in Nat
  BY LenProperties
<1>2. f \in Bijection(1 .. Len(s), Elems(s))
  <2>1. f \in [1 .. Len(s) -> Elems(s)]
    BY DEF Elems
  <2>2. \A i, j \in 1 .. Len(s) : f[i] = f[j] => i = j
    BY DEF Distinct
  <2>3. \A t \in Elems(s) : \E i \in 1 .. Len(s) : f[i] = t
    BY DEF Elems
  <2> HIDE DEF f
  <2> QED
    BY <2>1, <2>2, <2>3 DEF Bijection, Injection, IsInjective, Surjection
<1>3. IsFiniteSet(1 .. Len(s)) /\ Cardinality(1 .. Len(s)) = Len(s)
  BY <1>1, FS_Interval
<1> HIDE DEF f
<1> QED
  BY <1>2, <1>3, FS_Bijection DEF ExistsBijection

-----------------------------------------------------------------------------
(* Induction, from the least element of a set of numbers                   *)

NatLess == {p \in Nat \X Nat : p[1] < p[2]}

LEMMA LeastElement ==
  ASSUME NEW S \in SUBSET Nat, S # {}
  PROVE  \E m \in S : \A k \in S : m <= k
<1>1. IsWellFoundedOn(NatLess, Nat)
  BY NatLessThanWellFounded DEF NatLess, OpToRel
<1>2. PICK m \in S : \A k \in S : <<k, m>> \notin NatLess
  BY <1>1, WFMin, Zenon
<1>3. \A k \in S : ~(k < m)
  <2> SUFFICES ASSUME NEW k \in S, k < m PROVE FALSE
    OBVIOUS
  <2>1. <<k, m>> \in Nat \X Nat /\ <<k, m>>[1] < <<k, m>>[2]
    OBVIOUS
  <2>2. <<k, m>> \in NatLess
    BY <2>1, Zenon DEF NatLess
  <2> QED
    BY <1>2, <2>2
<1> QED
  BY <1>3

LEMMA UpTo ==
  ASSUME NEW n \in Nat, NEW S, 0 \in S,
         \A k \in 0 .. n - 1 : k \in S => k + 1 \in S
  PROVE  0 .. n \subseteq S
<1> SUFFICES ASSUME {k \in 0 .. n : k \notin S} # {} PROVE FALSE
  OBVIOUS
<1>1. PICK m \in {k \in 0 .. n : k \notin S} :
        \A k \in {k \in 0 .. n : k \notin S} : m <= k
  <2>1. {k \in 0 .. n : k \notin S} \in SUBSET Nat
    OBVIOUS
  <2> QED
    BY <2>1, LeastElement, Zenon
<1>2. m # 0 /\ m - 1 \in 0 .. n - 1 /\ m - 1 \in S /\ (m - 1) + 1 = m
  BY <1>1
<1> QED
  BY <1>1, <1>2

-----------------------------------------------------------------------------
(* What a trim leaves                                                      *)

(* The functions ErrorsAmong chooses from.                                 *)
Among(d, n, e) ==
  e = [k \in 0 .. n |-> IF k = 0 THEN <<>>
                        ELSE IF d[k] \in Errors THEN Append(e[k - 1], d[k])
                        ELSE e[k - 1]]

ErrorsOf(d, n) == {d[i] : i \in 1 .. n} \cap Errors

(* e[k] lists the errors of the first k rows.                              *)
Lists(d, e, k) == e[k] \in Seq(Log) /\ Elems(e[k]) = ErrorsOf(d, k)

LEMMA AmongExists ==
  ASSUME NEW d, NEW n \in Nat
  PROVE  \E e : Among(d, n, e)
<1> DEFINE S == {k \in Nat : \E e : Among(d, k, e)}
<1>1. 0 \in S
  <2> DEFINE e == [k \in 0 .. 0 |-> <<>>]
  <2>1. Among(d, 0, e)
    BY DEF Among
  <2> QED
    BY <2>1
<1>2. ASSUME NEW k \in 0 .. n - 1, k \in S PROVE k + 1 \in S
  <2>1. PICK e : Among(d, k, e)
    BY <1>2
  <2> DEFINE x == IF d[k + 1] \in Errors THEN Append(e[k], d[k + 1]) ELSE e[k]
             g == [i \in 0 .. k + 1 |-> IF i = k + 1 THEN x ELSE e[i]]
  <2>2. \A i \in 0 .. k : e[i] = IF i = 0 THEN <<>>
                                 ELSE IF d[i] \in Errors THEN Append(e[i - 1], d[i])
                                 ELSE e[i - 1]
    BY <2>1, Zenon DEF Among
  <2>3. ASSUME NEW i \in 0 .. k + 1
        PROVE  g[i] = IF i = 0 THEN <<>>
                      ELSE IF d[i] \in Errors THEN Append(g[i - 1], d[i])
                      ELSE g[i - 1]
    <3>1. CASE i = k + 1
      <4>1. g[i] = x /\ g[i - 1] = e[k] /\ i # 0 /\ d[i] = d[k + 1]
        BY <3>1
      <4> QED
        BY <4>1
    <3>2. CASE i # k + 1 /\ i # 0
      <4>1. i \in 0 .. k /\ g[i] = e[i] /\ g[i - 1] = e[i - 1]
        BY <3>2
      <4> QED
        BY <2>2, <3>2, <4>1
    <3>3. CASE i = 0
      <4>1. g[i] = e[i] /\ i \in 0 .. k
        BY <3>3
      <4> QED
        BY <2>2, <3>3, <4>1
    <3> QED
      BY <3>1, <3>2, <3>3
  <2>4. Among(d, k + 1, g)
    <3>1. g = [i \in 0 .. k + 1 |-> g[i]]
      OBVIOUS
    <3> HIDE DEF g
    <3> QED
      BY <2>3, <3>1 DEF Among
  <2> QED
    BY <2>4
<1> HIDE DEF S
<1>3. n \in S
  <2>1. 0 .. n \subseteq S
    BY ONLY <1>1, <1>2, UpTo, n \in Nat
  <2> QED
    BY <2>1
<1> QED
  BY <1>3 DEF S

LEMMA AmongLists ==
  ASSUME NEW d \in Seq(Log), NEW n \in 0 .. Len(d), NEW e, Among(d, n, e)
  PROVE  Lists(d, e, n)
<1> DEFINE S == {k \in 0 .. n : Lists(d, e, k)}
<1>1. Len(d) \in Nat /\ \A i \in 1 .. Len(d) : d[i] \in Log
  BY LenProperties, ElementOfSeq
<1>2. \A i \in 0 .. n : e[i] = IF i = 0 THEN <<>>
                               ELSE IF d[i] \in Errors THEN Append(e[i - 1], d[i])
                               ELSE e[i - 1]
  BY Zenon DEF Among
<1>3. 0 \in S
  <2>1. e[0] = <<>>
    BY <1>1, <1>2
  <2>2. ErrorsOf(d, 0) = {}
    BY DEF ErrorsOf
  <2>3. <<>> \in Seq(Log)
    BY EmptySeq
  <2>4. Lists(d, e, 0)
    BY <2>1, <2>2, <2>3, ElemsEmpty, Zenon DEF Lists
  <2> QED
    BY <1>1, <2>4
<1>4. ASSUME NEW k \in 0 .. n - 1, k \in S PROVE k + 1 \in S
  <2>1. /\ e[k] \in Seq(Log) /\ Elems(e[k]) = ErrorsOf(d, k)
        /\ k + 1 \in 0 .. n /\ d[k + 1] \in Log
        /\ e[k + 1] = IF d[k + 1] \in Errors THEN Append(e[k], d[k + 1]) ELSE e[k]
    <3>1. k + 1 \in 0 .. n /\ k + 1 # 0 /\ (k + 1) - 1 = k /\ k + 1 \in 1 .. Len(d)
      BY <1>1
    <3> QED
      BY <1>1, <1>2, <1>4, <3>1 DEF Lists
  <2>2. ErrorsOf(d, k + 1) = ErrorsOf(d, k) \cup ({d[k + 1]} \cap Errors)
    <3>1. 1 .. k + 1 = (1 .. k) \cup {k + 1}
      BY <2>1
    <3> QED
      BY <3>1 DEF ErrorsOf
  <2>3. Lists(d, e, k + 1)
    <3>1. CASE d[k + 1] \in Errors
      <4>1. e[k + 1] = Append(e[k], d[k + 1])
        BY <2>1, <3>1
      <4>2. Append(e[k], d[k + 1]) \in Seq(Log)
        BY <2>1, AppendIs
      <4>3. Elems(Append(e[k], d[k + 1])) = Elems(e[k]) \cup {d[k + 1]}
        BY <2>1, ElemsAppend
      <4> QED
        BY <2>1, <2>2, <3>1, <4>1, <4>2, <4>3 DEF Lists
    <3>2. CASE d[k + 1] \notin Errors
      BY <2>1, <2>2, <3>2 DEF Lists
    <3> QED
      BY <3>1, <3>2
  <2> QED
    BY <2>1, <2>3
<1>5. n \in S
  <2>1. n \in Nat
    BY <1>1
  <2> HIDE DEF S
  <2>2. 0 .. n \subseteq S
    BY ONLY <1>3, <1>4, <2>1, UpTo
  <2> QED
    BY <2>1, <2>2
<1> QED
  BY <1>5

LEMMA ErrorsAmongLists ==
  ASSUME NEW d \in Seq(Log), NEW n \in 0 .. Len(d)
  PROVE  ErrorsAmong(d, n) \in Seq(Log) /\ Elems(ErrorsAmong(d, n)) = ErrorsOf(d, n)
<1> DEFINE e == CHOOSE x : Among(d, n, x)
<1>1. n \in Nat
  BY LenProperties
<1>2. Among(d, n, e)
  BY <1>1, AmongExists, Zenon
<1>3. Lists(d, e, n)
  <2> HIDE DEF e
  <2> QED
    BY <1>2, AmongLists
<1>4. ErrorsAmong(d, n) = e[n]
  BY Zenon DEF ErrorsAmong, Among
<1> QED
  BY <1>3, <1>4 DEF Lists

LEMMA SuffixIs ==
  ASSUME NEW T, NEW d \in Seq(T), NEW n \in 0 .. Len(d)
  PROVE  /\ SubSeq(d, n + 1, Len(d)) \in Seq(T)
         /\ Len(SubSeq(d, n + 1, Len(d))) = Len(d) - n
         /\ \A i \in 1 .. Len(d) - n : SubSeq(d, n + 1, Len(d))[i] = d[n + i]
<1> DEFINE m == n + 1
           k == Len(d)
<1>1. /\ k \in Nat /\ n \in 0 .. k /\ m \in Int /\ m \in 1 .. k + 1
      /\ \A i \in 1 .. k : d[i] \in T
  BY LenProperties, ElementOfSeq
<1>2. \A i \in m .. k : d[i] \in T
  BY <1>1
<1>3. k - m + 1 = k - n /\ (\A i \in Nat : m + i - 1 = n + i) /\ (m <= k \/ k - n = 0)
  BY <1>1
<1> HIDE DEF m, k
<1>4. /\ SubSeq(d, m, k) \in Seq(T)
      /\ Len(SubSeq(d, m, k)) = IF m <= k THEN k - m + 1 ELSE 0
      /\ \A i \in 1 .. k - m + 1 : SubSeq(d, m, k)[i] = d[m + i - 1]
  BY <1>1, <1>2, SubSeqProperties
<1>5. /\ SubSeq(d, m, k) \in Seq(T) /\ Len(SubSeq(d, m, k)) = k - n
      /\ \A i \in 1 .. k - n : SubSeq(d, m, k)[i] = d[n + i]
  BY <1>1, <1>3, <1>4
<1> QED
  BY <1>5 DEF m, k

LEMMA TrimmedIs ==
  ASSUME NEW d \in Seq(Log)
  PROVE  /\ Trimmed(d) \in Seq(Log)
         /\ Elems(d) \cap Errors \subseteq Elems(Trimmed(d))
         /\ Elems(d) \cap Errors = {} =>
              Len(Trimmed(d)) = IF Len(d) < DeleteNum THEN 0 ELSE Len(d) - DeleteNum
<1> DEFINE n == IF Len(d) < DeleteNum THEN Len(d) ELSE DeleteNum
           old == ErrorsAmong(d, n)
           new == SubSeq(d, n + 1, Len(d))
<1>1. /\ Len(d) \in Nat /\ n \in 0 .. Len(d)
      /\ \A i \in 1 .. Len(d) : d[i] \in Log
  BY StoreAssumption, LenProperties, ElementOfSeq
<1>2. Trimmed(d) = old \o new
  BY DEF Trimmed
<1> HIDE DEF n
<1>3. old \in Seq(Log) /\ Elems(old) = ErrorsOf(d, n)
  BY <1>1, ErrorsAmongLists
<1>4. /\ new \in Seq(Log) /\ Len(new) = Len(d) - n
      /\ \A i \in 1 .. Len(d) - n : new[i] = d[n + i]
  BY <1>1, SuffixIs
<1> HIDE DEF old, new
<1>5. Elems(old \o new) = Elems(old) \cup Elems(new)
  BY <1>3, <1>4, ElemsConcat
<1>6. old \o new \in Seq(Log) /\ Len(old \o new) = Len(old) + Len(new)
  BY <1>3, <1>4, ConcatProperties
<1>7. Elems(d) \cap Errors \subseteq Elems(old) \cup Elems(new)
  <2> SUFFICES ASSUME NEW i \in 1 .. Len(d), d[i] \in Errors
               PROVE  d[i] \in Elems(old) \cup Elems(new)
    BY DEF Elems
  <2>1. CASE i <= n
    BY <1>1, <1>3, <2>1 DEF ErrorsOf
  <2>2. CASE i > n
    <3>1. i - n \in 1 .. Len(new) /\ new[i - n] = d[i]
      BY <1>1, <1>4, <2>2
    <3> QED
      BY <3>1 DEF Elems
  <2> QED
    BY <1>1, <2>1, <2>2
<1>8. Elems(d) \cap Errors = {} => Len(old) = 0
  <2> SUFFICES ASSUME Elems(d) \cap Errors = {}, Len(old) # 0 PROVE FALSE
    OBVIOUS
  <2>1. Len(old) \in Nat /\ old[1] \in Elems(old)
    BY <1>3, LenProperties DEF Elems
  <2>2. ErrorsOf(d, n) \subseteq Elems(d) \cap Errors
    BY <1>1 DEF ErrorsOf, Elems
  <2> QED
    BY <1>3, <2>1, <2>2
<1> QED
  BY <1>1, <1>2, <1>4, <1>5, <1>6, <1>7, <1>8 DEF n

LEMMA RolledBackIs ==
  ASSUME NEW d \in Seq(Log), inserted \in Nat, inserted <= Len(d)
  PROVE  /\ RolledBack(d) \in Seq(Log) /\ Len(RolledBack(d)) = Len(d) - inserted
         /\ Len(d) \in Nat
         /\ \A i \in 1 .. Len(d) - inserted : RolledBack(d)[i] = d[i]
<1>1. Len(d) \in Nat /\ \A i \in 1 .. Len(d) : d[i] \in Log
  BY LenProperties, ElementOfSeq
<1>2. /\ Len(d) - inserted \in 0 .. Len(d)
      /\ \A i \in 1 .. Len(d) - inserted : d[i] \in Log
      /\ \A i \in Nat : 1 + i - 1 = i
  BY <1>1
<1> QED
  BY <1>1, <1>2, SubSeqProperties DEF RolledBack

-----------------------------------------------------------------------------
(* Type correctness                                                        *)

LEMMA Buffer ==
  /\ "A" \in Buffers /\ "B" \in Buffers
  /\ \A b \in Buffers : Other(b) \in Buffers /\ Other(b) # b /\ Other(Other(b)) = b
  /\ \A b, c \in Buffers : c = b \/ c = Other(b)
  /\ Batch = IF pc = "last" THEN input ELSE Other(input)
BY DEF Buffers, Other, Batch

LEMMA TypeInit == Init => TInv
<1> SUFFICES ASSUME Init PROVE TInv
  OBVIOUS
<1>1. <<>> \in Seq(Log) /\ Len(<<>>) = 0
  BY EmptySeq
<1>2. buffer \in [Buffers -> Seq(Log)] /\ \A b \in Buffers : Len(buffer[b]) <= ItemCap
  BY <1>1, StoreAssumption DEF Init
<1>3. db \in Seq(Log) /\ accepted \in Seq(Log) /\ saved \in Seq(Log)
  BY <1>1, StoreAssumption DEF Init
<1>4. at \in 1 .. ItemCap + 1 /\ inserted \in 0 .. ItemCap /\ failures \in 0 .. MaxFail
  BY StoreAssumption DEF Init
<1>5. /\ unsent \subseteq Log /\ dropped \subseteq Log /\ late \subseteq Log /\ input \in Buffers
      /\ cmd \in {"none", "UPLOAD_DB", "other"}
      /\ running \in BOOLEAN /\ overflow \in BOOLEAN
  BY Buffer, StoreAssumption DEF Init
<1>6. TypeOK
  BY <1>2, <1>3, <1>4, <1>5, Zenon DEF Init, TypeOK
<1> QED
  BY <1>6 DEF Init, TInv, InBatch, Saving

LEMMA HandlerTypeStep ==
  ASSUME TInv, NEW l \in Log, HandleLog(l)
  PROVE  TInv'
<1>1. /\ l \in unsent /\ unsent' = unsent \ {l} /\ pc # "last"
      /\ UNCHANGED <<input, cmd, running, pc, at, inserted, db, failures, saved, dropped>>
      /\ late' = late \/ late' = late \cup {l}
  BY DEF HandleLog, HandlerMayRun, threadVars
<1>2. TypeOK /\ buffer \in [Buffers -> Seq(Log)] /\ accepted \in Seq(Log) /\ input \in Buffers
  BY DEF TInv, TypeOK
<1>3. CASE Fits
  <2>1. /\ buffer' = [buffer EXCEPT ![input] = Append(buffer[input], l)]
        /\ accepted' = Append(accepted, l) /\ overflow' = overflow
        /\ Len(buffer[input]) < ItemCap
    BY <1>3 DEF HandleLog, Fits
  <2>2. /\ Append(buffer[input], l) \in Seq(Log)
        /\ Len(Append(buffer[input], l)) = Len(buffer[input]) + 1
        /\ Len(buffer[input]) \in Nat
    BY <1>2, AppendIs
  <2>3. /\ buffer' \in [Buffers -> Seq(Log)]
        /\ \A b \in Buffers : Len(buffer'[b]) <= ItemCap
    BY <1>2, <2>1, <2>2, StoreAssumption DEF TypeOK
  <2>4. accepted' \in Seq(Log)
    BY <1>2, <2>1, AppendIs
  <2>5. TypeOK'
    BY <1>1, <1>2, <2>1, <2>3, <2>4 DEF TypeOK
  <2>6. Saving => buffer'[Batch] = buffer[Batch] /\ Batch' = Batch
    BY <1>1, <1>2, <2>1, Buffer DEF Saving, Batch
  <2>7. InBatch'
    BY <1>1, <2>6 DEF TInv, InBatch, Saving
  <2> QED
    BY <2>5, <2>7 DEF TInv
<1>4. CASE ~Fits
  <2>1. UNCHANGED <<buffer, accepted>> /\ overflow' = TRUE
    BY <1>4 DEF HandleLog
  <2>2. TypeOK'
    BY <1>1, <1>2, <2>1 DEF TypeOK
  <2>3. InBatch'
    BY <1>1, <2>1 DEF TInv, InBatch, Saving, Batch
  <2> QED
    BY <2>2, <2>3 DEF TInv
<1> QED
  BY <1>3, <1>4

(* The thread's actions that leave buffers and table alone.                *)
LoggerMoves ==
  LoopCheck \/ LockForLastSave \/ SaveRefused \/ CheckCommand \/ Upload \/ LogDeinit

LEMMA LoggerMovesAre ==
  ASSUME TypeOK, LoggerMoves
  PROVE  /\ UNCHANGED <<unsent, running, overflow, accepted, late, buffer, input, db, saved, dropped>>
         /\ cmd' \in {cmd, "none"} /\ failures' \in {failures, failures + 1}
         /\ failures' \in 0 .. MaxFail
         /\ \/ LockForLastSave
            \/ at' = at /\ inserted' = inserted
         /\ \/ pc = "loop" /\ pc' \in {"wait", "exit"} /\ failures' = failures
            \/ /\ pc = "exit" /\ pc' = "last" /\ failures' = failures
               /\ at' = 1 /\ inserted' = 0
            \/ /\ Saving /\ pc' = AfterSave /\ at = 1 /\ failures' = failures + 1
            \/ pc = "check" /\ pc' \in {"loop", "upload"} /\ failures' = failures
            \/ pc = "upload" /\ pc' = "loop" /\ failures' = failures
            \/ pc = "leaving" /\ pc' = "done" /\ failures' = failures
<1>0. failures \in 0 .. MaxFail
  BY DEF TypeOK
<1>1. CASE LoopCheck
  BY <1>0, <1>1 DEF LoopCheck, outside, rowVars
<1>2. CASE LockForLastSave
  BY <1>0, <1>2 DEF LockForLastSave, outside, rowVars
<1>3. CASE SaveRefused
  BY <1>0, <1>3, StoreAssumption DEF SaveRefused, outside, rowVars
<1>4. CASE CheckCommand
  BY <1>0, <1>4 DEF CheckCommand, outside, rowVars
<1>5. CASE Upload
  BY <1>0, <1>5 DEF Upload, outside, rowVars
<1>6. CASE LogDeinit
  BY <1>0, <1>6 DEF LogDeinit, outside, rowVars
<1> QED
  BY <1>1, <1>2, <1>3, <1>4, <1>5, <1>6 DEF LoggerMoves

LEMMA LoggerTypeStep ==
  ASSUME TInv, LoggerStep
  PROVE  TInv'
<1>0. /\ TypeOK /\ buffer \in [Buffers -> Seq(Log)] /\ input \in Buffers
      /\ db \in Seq(Log) /\ saved \in Seq(Log)
      /\ Len(db) \in Nat /\ Len(saved) \in Nat
  BY LenProperties DEF TInv, TypeOK
<1>b. Batch \in Buffers
  BY <1>0, Buffer
<1>l. \A b \in Buffers : Len(buffer[b]) \in 0 .. ItemCap
  <2>1. \A b \in Buffers : Len(buffer[b]) \in Nat
    BY <1>0, LenProperties
  <2> QED
    BY <1>0, <2>1, StoreAssumption DEF TypeOK
<1>1. CASE LoggerMoves
  <2>1. /\ UNCHANGED <<unsent, running, overflow, accepted, late, buffer, input, db, saved, dropped>>
        /\ cmd' \in {cmd, "none"} /\ failures' \in 0 .. MaxFail
    BY <1>0, <1>1, LoggerMovesAre
  <2>2. \/ at' = at /\ inserted' = inserted
        \/ at' = 1 /\ inserted' = 0
    BY <1>0, <1>1, LoggerMovesAre DEF LockForLastSave
  <2>3. /\ pc' \in {"loop", "wait", "check", "upload", "exit", "last", "leaving", "done"}
        /\ pc' = "last" => pc = "exit" /\ at' = 1 /\ inserted' = 0
    BY <1>0, <1>1, LoggerMovesAre DEF AfterSave, Saving
  <2>4. TypeOK'
    <3>1. at' \in 1 .. ItemCap + 1 /\ inserted' \in 0 .. ItemCap
      BY <1>0, <2>2, StoreAssumption DEF TypeOK
    <3> QED
      BY <1>0, <2>1, <2>3, <3>1 DEF TypeOK
  <2>5. InBatch'
    <3> SUFFICES ASSUME pc' = "last"
                 PROVE  /\ at' <= Len(buffer[input]) + 1 /\ inserted' < at'
                        /\ inserted' <= Len(saved) /\ inserted' <= Len(db)
      BY <2>1, <2>3 DEF InBatch, Saving, Batch
    <3> QED
      BY <1>0, <1>l, <2>3
  <2> QED
    BY <2>4, <2>5 DEF TInv
<1>2. CASE TrimAndSwap
  <2>1. /\ UNCHANGED <<unsent, running, overflow, accepted, late, buffer, cmd, saved, dropped>>
        /\ input' = Other(input) /\ pc' = "save" /\ at' = 1 /\ inserted' = 0
        /\ db' \in {db, Trimmed(db)} /\ failures' \in 0 .. MaxFail
    BY <1>0, <1>2, StoreAssumption DEF TrimAndSwap, outside, TypeOK
  <2>2. db' \in Seq(Log) /\ Len(db') \in Nat
    BY <1>0, <2>1, TrimmedIs, LenProperties
  <2>3. TypeOK'
    BY <1>0, <2>1, <2>2, Buffer, StoreAssumption DEF TypeOK
  <2>4. InBatch'
    <3>1. Batch' \in Buffers
      BY <1>0, <2>1, Buffer DEF Batch
    <3>2. Len(buffer[Batch']) \in Nat
      BY <1>l, <3>1
    <3> QED
      BY <1>0, <2>1, <2>2, <3>2 DEF InBatch
  <2> QED
    BY <2>3, <2>4 DEF TInv
<1>3. CASE SaveRow
  <2>0. /\ Saving /\ at \in 1 .. Len(buffer[Batch]) /\ at' = at + 1 /\ buffer[Batch][at] \in Log
        /\ inserted \in 0 .. at - 1 /\ inserted <= Len(saved) /\ inserted <= Len(db)
    <3>1. /\ Saving /\ at \in 1 .. ItemCap + 1 /\ at <= Len(buffer[Batch]) /\ at' = at + 1
          /\ inserted \in 0 .. ItemCap
      BY <1>0, <1>3 DEF SaveRow, TypeOK
    <3>2. at \in 1 .. Len(buffer[Batch])
      BY <1>b, <1>l, <3>1
    <3>3. buffer[Batch][at] \in Log
      BY <1>0, <1>b, <3>2, ElementOfSeq
    <3> QED
      BY <3>1, <3>2, <3>3 DEF TInv, InBatch
  <2> DEFINE l == buffer[Batch][at]
  <2>1. /\ UNCHANGED <<unsent, running, overflow, accepted, late, buffer, input, cmd, pc>>
        /\ \/ /\ db' = Append(db, l) /\ saved' = Append(saved, l)
              /\ inserted' = inserted + 1 /\ UNCHANGED <<failures, dropped>>
           \/ /\ failures < MaxFail /\ failures' = failures + 1
              /\ dropped' = dropped \cup {l} /\ UNCHANGED <<inserted, db, saved>>
    BY <1>3 DEF SaveRow, outside
  <2> HIDE DEF l
  <2>2. l \in Log
    BY <2>0 DEF l
  <2>3. /\ Append(db, l) \in Seq(Log) /\ Len(Append(db, l)) = Len(db) + 1
        /\ Append(saved, l) \in Seq(Log) /\ Len(Append(saved, l)) = Len(saved) + 1
    BY <1>0, <2>2, AppendIs
  <2>4. /\ db' \in Seq(Log) /\ saved' \in Seq(Log) /\ dropped' \subseteq Log
        /\ failures' \in 0 .. MaxFail
    <3>1. failures \in 0 .. MaxFail /\ dropped \subseteq Log
      BY <1>0 DEF TypeOK
    <3>2. dropped' \subseteq Log /\ failures' \in 0 .. MaxFail
      BY <2>1, <2>2, <3>1, StoreAssumption
    <3>3. db' \in Seq(Log) /\ saved' \in Seq(Log)
      BY <1>0, <2>1, <2>3
    <3> QED
      BY <3>2, <3>3
  <2>5. /\ inserted' \in 0 .. at' - 1 /\ inserted' <= Len(saved') /\ inserted' <= Len(db')
        /\ at' <= Len(buffer[Batch]) + 1
    BY <1>0, <1>b, <1>l, <2>0, <2>1, <2>3
  <2>6. at' \in 1 .. ItemCap + 1 /\ inserted' \in 0 .. ItemCap
    BY <1>b, <1>l, <2>0, <2>5, StoreAssumption
  <2>7. TypeOK'
    BY <1>0, <2>1, <2>4, <2>6 DEF TypeOK
  <2>8. Batch' = Batch
    BY <2>1 DEF Batch
  <2>9. InBatch'
    BY <2>0, <2>1, <2>5, <2>8 DEF InBatch
  <2> QED
    BY <2>7, <2>9 DEF TInv
<1>4. CASE SaveDone
  <2>1. /\ UNCHANGED <<unsent, running, overflow, accepted, late, input, cmd, at, inserted>>
        /\ Saving /\ pc' = AfterSave
        /\ buffer' = [buffer EXCEPT ![Batch] = <<>>]
        /\ \/ UNCHANGED <<failures, db, saved, dropped>>
           \/ /\ failures < MaxFail /\ failures' = failures + 1
              /\ db' = RolledBack(db) /\ saved' = RolledBack(saved)
              /\ dropped' = dropped \cup Elems(buffer[Batch])
    BY <1>4 DEF SaveDone, outside
  <2>2. buffer' \in [Buffers -> Seq(Log)] /\ \A b \in Buffers : Len(buffer'[b]) <= ItemCap
    <3>1. <<>> \in Seq(Log) /\ Len(<<>>) = 0
      BY EmptySeq
    <3> QED
      BY <1>0, <1>b, <1>l, <2>1, <3>1, StoreAssumption
  <2>3. db' \in Seq(Log) /\ saved' \in Seq(Log)
    <3>1. inserted \in Nat /\ inserted <= Len(saved) /\ inserted <= Len(db)
      BY <1>0, <2>1 DEF TInv, InBatch, TypeOK
    <3> QED
      BY <1>0, <2>1, <3>1, RolledBackIs
  <2>4. dropped' \subseteq Log /\ failures' \in 0 .. MaxFail
    <3>1. Elems(buffer[Batch]) \subseteq Log
      BY <1>0, <1>b, ElementOfSeq DEF Elems
    <3> QED
      BY <1>0, <2>1, <3>1, StoreAssumption DEF TypeOK
  <2>5. pc' \in {"leaving", "check"}
    BY <2>1 DEF AfterSave
  <2>6. TypeOK'
    BY <1>0, <2>1, <2>2, <2>3, <2>4, <2>5 DEF TypeOK
  <2> QED
    BY <2>5, <2>6 DEF TInv, InBatch, Saving
<1> QED
  BY <1>1, <1>2, <1>3, <1>4 DEF LoggerStep, LoggerMoves

LEMMA OutsideTypeStep ==
  ASSUME TInv, (\E c \in {"UPLOAD_DB", "other"} : HandleCommand(c)) \/ StopHandler
  PROVE  TInv'
<1>1. /\ UNCHANGED <<unsent, buffer, input, pc, at, inserted, db, failures, saved, dropped>>
      /\ UNCHANGED <<overflow, accepted, late>>
      /\ cmd' \in {cmd, "UPLOAD_DB", "other"} /\ running' \in {running, FALSE}
  BY DEF HandleCommand, StopHandler, threadVars
<1>2. TypeOK'
  BY <1>1 DEF TInv, TypeOK
<1>3. InBatch'
  BY <1>1 DEF TInv, InBatch, Saving, Batch
<1> QED
  BY <1>2, <1>3 DEF TInv

LEMMA TypeStep ==
  ASSUME TInv, [Next]_vars
  PROVE  TInv'
<1>1. CASE UNCHANGED vars
  <2>1. /\ UNCHANGED <<unsent, buffer, input, cmd, running, pc, at, inserted, db, failures>>
        /\ UNCHANGED <<overflow, accepted, saved, dropped, late>>
    BY <1>1 DEF vars
  <2>2. TypeOK'
    BY <2>1 DEF TInv, TypeOK
  <2>3. InBatch'
    BY <2>1 DEF TInv, InBatch, Saving, Batch
  <2> QED
    BY <2>2, <2>3 DEF TInv
<1> QED
  BY <1>1, HandlerTypeStep, LoggerTypeStep, OutsideTypeStep DEF Next, Step

(* Type correctness; what a buffer holds stays within the array.           *)
THEOREM TypeCorrect == Spec => []TypeOK
<1>1. TInv => TypeOK
  BY DEF TInv
<1> QED
  BY <1>1, TypeInit, TypeStep, PTL DEF Spec

-----------------------------------------------------------------------------
(* Nothing twice, nothing away                                             *)

SetInv == NothingTwice /\ NothingAway /\ Transaction

LEMMA Rows ==
  ASSUME TInv, NEW b \in Buffers
  PROVE  /\ buffer[b] \in Seq(Log) /\ Len(buffer[b]) \in Nat
         /\ From(b) \in 1 .. Len(buffer[b]) + 1
         /\ Elems(buffer[b]) = Tried(b) \cup Rest(b)
         /\ Distinct(buffer[b]) => Tried(b) \cap Rest(b) = {}
<1>1. buffer[b] \in Seq(Log) /\ Len(buffer[b]) \in Nat
  <2>1. buffer[b] \in Seq(Log)
    BY DEF TInv, TypeOK
  <2> QED
    BY <2>1, LenProperties
<1>2. From(b) \in 1 .. Len(buffer[b]) + 1
  BY <1>1 DEF TInv, TypeOK, InBatch, From
<1>3. Elems(buffer[b]) = Tried(b) \cup Rest(b)
  BY <1>1, <1>2 DEF Elems, Tried, Rest
<1>4. Distinct(buffer[b]) => Tried(b) \cap Rest(b) = {}
  BY <1>1, <1>2 DEF Distinct, Tried, Rest
<1> QED
  BY <1>1, <1>2, <1>3, <1>4

(* Outside a batch nothing of a buffer has been tried.                     *)
LEMMA AllRest ==
  ASSUME TInv, NEW b \in Buffers, ~(Saving /\ b = Batch)
  PROVE  From(b) = 1 /\ Tried(b) = {} /\ Rest(b) = Elems(buffer[b])
BY Rows DEF From, Tried, Rest, Elems

LEMMA SetInit == Init => SetInv
<1> SUFFICES ASSUME Init PROVE SetInv
  OBVIOUS
<1>1. /\ saved = <<>> /\ accepted = <<>> /\ dropped = {}
      /\ Elems(<<>>) = {} /\ Len(<<>>) = 0 /\ ~Saving
      /\ \A b \in Buffers : buffer[b] = <<>>
  BY ElemsEmpty, EmptySeq DEF Init, Saving
<1>2. \A b \in Buffers : Rest(b) = {}
  BY <1>1 DEF Rest, From
<1>3. NothingTwice
  BY <1>1, <1>2, Buffer DEF NothingTwice, Distinct
<1>4. NothingAway
  BY <1>1, <1>2, Buffer DEF NothingAway
<1> QED
  BY <1>1, <1>3, <1>4 DEF SetInv, Transaction

(* Steps that move no entry.                                               *)
LEMMA NothingMoves ==
  ASSUME SetInv, UNCHANGED <<buffer, accepted, saved, dropped>>,
         unsent' \subseteq unsent, \A b \in Buffers : From(b)' = From(b)
  PROVE  NothingTwice' /\ NothingAway'
<1>1. \A b \in Buffers : Rest(b)' = Rest(b)
  BY DEF Rest
<1>2. NothingTwice'
  BY <1>1, Buffer DEF SetInv, NothingTwice
<1>3. NothingAway'
  BY <1>1, Buffer DEF SetInv, NothingAway
<1> QED
  BY <1>2, <1>3

LEMMA HandlerSetStep ==
  ASSUME TInv, SetInv, NEW l \in Log, HandleLog(l)
  PROVE  SetInv'
<1>0. /\ input \in Buffers /\ accepted \in Seq(Log) /\ NothingTwice /\ NothingAway
      /\ Transaction
  BY DEF TInv, TypeOK, SetInv
<1>1. /\ l \in unsent /\ unsent' = unsent \ {l} /\ pc # "last"
      /\ UNCHANGED <<input, pc, at, inserted, saved, dropped>>
  BY DEF HandleLog, HandlerMayRun, threadVars
<1>2. /\ \A b \in Buffers : From(b)' = From(b)
      /\ Saving' = Saving /\ Batch' = Batch
      /\ Batch \in Buffers /\ input # Batch
  BY <1>0, <1>1, Buffer DEF From, Saving, Batch
<1>3. CASE Fits
  <2>1. /\ buffer' = [buffer EXCEPT ![input] = Append(buffer[input], l)]
        /\ accepted' = Append(accepted, l)
    BY <1>3 DEF HandleLog
  <2>2. /\ buffer'[input] = Append(buffer[input], l)
        /\ \A b \in Buffers \ {input} : buffer'[b] = buffer[b]
    BY <1>0, <2>1 DEF TInv, TypeOK
  <2>3. /\ buffer[input] \in Seq(Log) /\ Distinct(buffer[input])
        /\ From(input) = 1 /\ Rest(input) = Elems(buffer[input])
    BY <1>0, <1>2, Rows, AllRest DEF NothingTwice
  <2>4. /\ Elems(Append(buffer[input], l)) = Elems(buffer[input]) \cup {l}
        /\ Elems(accepted') = Elems(accepted) \cup {l}
    BY <1>0, <2>1, <2>3, ElemsAppend
  <2>5. /\ \A b \in Buffers : Rest(b)' = IF b = input THEN Rest(b) \cup {l} ELSE Rest(b)
        /\ \A b \in Buffers :
             Elems(buffer'[b]) = IF b = input THEN Elems(buffer[b]) \cup {l}
                                             ELSE Elems(buffer[b])
    <3>1. \A b \in Buffers : b = input => Rest(b)' = Elems(buffer'[b])
      BY <1>2, <2>3 DEF Rest, Elems
    <3>2. \A b \in Buffers : b # input => Rest(b)' = Rest(b)
      BY <1>2, <2>2 DEF Rest
    <3>3. Elems(buffer'[input]) = Rest(input) \cup {l}
      BY <2>2, <2>3, <2>4
    <3> QED
      BY <2>2, <2>3, <3>1, <3>2, <3>3
  <2>6. l \notin Elems(accepted)
    BY <1>0, <1>1 DEF NothingTwice
  <2>7. /\ l \notin Elems(saved) /\ l \notin dropped
        /\ \A b \in Buffers : l \notin Rest(b) /\ l \notin Elems(buffer[b])
    BY <1>0, <2>6, Buffer DEF NothingAway, Buffers
  <2>8. Distinct(buffer'[input])
    BY <2>2, <2>3, <2>7, <1>0, DistinctAppend
  <2>9. NothingTwice'
    <3>1. \A b \in Buffers : Distinct(buffer'[b])
      BY <1>0, <2>2, <2>8 DEF NothingTwice
    <3>2. Elems(buffer'["A"]) \cap Elems(buffer'["B"]) = {}
      BY <1>0, <2>2, <2>5, <2>7 DEF NothingTwice, Buffers
    <3>3. \A b \in Buffers : Elems(saved) \cap Rest(b)' = {}
      BY <1>0, <2>5, <2>7 DEF NothingTwice
    <3>4. dropped \cap (Elems(saved) \cup Rest("A")' \cup Rest("B")') = {}
      BY <1>0, <2>5, <2>7 DEF NothingTwice, Buffers
    <3>5. unsent' \cap Elems(accepted') = {}
      BY <1>0, <1>1, <2>4 DEF NothingTwice
    <3>6. Distinct(saved)
      BY <1>0 DEF NothingTwice
    <3> QED
      BY <1>1, <3>1, <3>2, <3>3, <3>4, <3>5, <3>6 DEF NothingTwice
  <2>10. NothingAway'
    <3>1. Elems(accepted') = Elems(saved) \cup Rest("A")' \cup Rest("B")' \cup dropped
      BY <1>0, <2>4, <2>5 DEF NothingAway, Buffers
    <3>2. \A b \in Buffers : Elems(buffer'[b]) \subseteq Elems(accepted')
      BY <1>0, <2>4, <2>5 DEF NothingAway
    <3> QED
      BY <1>1, <3>1, <3>2 DEF NothingAway
  <2>11. Transaction'
    <3>1. buffer'[Batch] = buffer[Batch] /\ Tried(Batch)' = Tried(Batch)
      BY <1>2, <2>2 DEF Tried
    <3>2. \A b : b = Batch => Tried(b)' = Tried(Batch)
      BY <1>2, <3>1 DEF Tried
    <3> QED
      BY <1>0, <1>1, <1>2, <3>1 DEF Transaction
  <2> QED
    BY <2>9, <2>10, <2>11 DEF SetInv
<1>4. CASE ~Fits
  <2>1. UNCHANGED <<buffer, accepted>>
    BY <1>4 DEF HandleLog
  <2>2. NothingTwice' /\ NothingAway'
    BY <1>1, <1>2, <2>1, NothingMoves
  <2>3. Transaction'
    BY <1>0, <1>1, <1>2, <2>1 DEF Transaction, Tried
  <2> QED
    BY <2>2, <2>3 DEF SetInv
<1> QED
  BY <1>3, <1>4

LEMMA MovesSetStep ==
  ASSUME TInv, SetInv, LoggerMoves \/ TrimAndSwap
  PROVE  SetInv'
<1>0. TypeOK /\ NothingTwice /\ NothingAway /\ Transaction /\ input \in Buffers
  BY DEF TInv, TypeOK, SetInv
<1>1. UNCHANGED <<unsent, buffer, accepted, saved, dropped>>
  <2>1. CASE LoggerMoves
    BY <1>0, <2>1, LoggerMovesAre
  <2>2. CASE TrimAndSwap
    BY <2>2 DEF TrimAndSwap, outside
  <2> QED
    BY <2>1, <2>2
<1>2. /\ Saving => at = 1 /\ ~Saving'
      /\ Saving' => at' = 1 /\ inserted' = 0 /\ ~Saving
      /\ input' \in Buffers
  <2>1. CASE LoggerMoves
    BY <1>0, <2>1, LoggerMovesAre DEF Saving, AfterSave
  <2>2. CASE TrimAndSwap
    BY <1>0, <2>2, Buffer DEF TrimAndSwap, Saving
  <2> QED
    BY <2>1, <2>2
<1>3. \A b \in Buffers : From(b) = 1 /\ From(b)' = 1
  BY <1>2 DEF From
<1>4. NothingTwice' /\ NothingAway'
  BY <1>1, <1>3, NothingMoves
<1>5. Transaction'
  <2> SUFFICES ASSUME Saving'
               PROVE  \A i \in 1 .. Len(saved) - 0 : saved[i] \notin Elems(buffer[Batch'])
    <3>1. saved \in Seq(Log) /\ Len(saved) \in Nat
      BY <1>0, LenProperties DEF TypeOK
    <3> QED
      BY <1>1, <1>2, <3>1 DEF Transaction
  <2>1. Batch' \in Buffers /\ ~Saving
    BY <1>2, Buffer DEF Batch
  <2>2. Elems(saved) \cap Elems(buffer[Batch']) = {}
    BY <1>0, <2>1, AllRest DEF NothingTwice
  <2>3. Len(saved) \in Nat
    BY <1>0, LenProperties DEF TypeOK
  <2>4. \A i \in 1 .. Len(saved) - 0 : saved[i] \in Elems(saved)
    BY <2>3 DEF Elems
  <2> QED
    BY <2>2, <2>4
<1> QED
  BY <1>4, <1>5 DEF SetInv

LEMMA SaveRowSetStep ==
  ASSUME TInv, SetInv, SaveRow
  PROVE  SetInv'
<1>0. /\ input \in Buffers /\ Batch \in Buffers /\ NothingTwice /\ NothingAway
      /\ Transaction /\ saved \in Seq(Log)
  BY Buffer DEF TInv, TypeOK, SetInv
<1> DEFINE B == Batch
           l == buffer[B][at]
<1>1. /\ UNCHANGED <<unsent, accepted, buffer, input, pc>> /\ Saving /\ at' = at + 1
      /\ at <= Len(buffer[B])
      /\ \/ saved' = Append(saved, l) /\ inserted' = inserted + 1 /\ dropped' = dropped
         \/ saved' = saved /\ inserted' = inserted /\ dropped' = dropped \cup {l}
  BY DEF SaveRow, outside
<1>2. /\ Batch' = B /\ Saving'
  BY <1>1 DEF Batch, Saving
<1> HIDE DEF B
<1>b. B \in Buffers /\ Batch = B
  BY <1>0 DEF B
<1>3. From(B) = at /\ \A b \in Buffers : From(b)' = IF b = B THEN at + 1 ELSE From(b)
  BY <1>1, <1>2, <1>b DEF From
<1>4. /\ Len(buffer[B]) \in Nat /\ at \in 1 .. Len(buffer[B]) /\ l \in Log
      /\ Distinct(buffer[B])
  <2>1. buffer[B] \in Seq(Log) /\ Len(buffer[B]) \in Nat /\ Distinct(buffer[B])
    BY <1>0, <1>b, Rows DEF NothingTwice
  <2>2. at \in 1 .. Len(buffer[B])
    BY <1>1, <2>1 DEF TInv, TypeOK
  <2> QED
    BY <2>1, <2>2, ElementOfSeq
<1>5. /\ \A b \in Buffers : Rest(b)' = IF b = B THEN Rest(b) \ {l} ELSE Rest(b)
      /\ \A b \in Buffers : b = B => Tried(b)' = Tried(b) \cup {l}
      /\ l \in Rest(B) /\ l \in Elems(buffer[B])
  <2>1. Rest(B) = {buffer[B][i] : i \in at .. Len(buffer[B])}
    BY <1>3, <1>b DEF Rest
  <2>2. /\ \A b \in Buffers : b = B => Rest(b)' = {buffer[B][i] : i \in at + 1 .. Len(buffer[B])}
        /\ \A b \in Buffers : b # B => Rest(b)' = Rest(b)
    BY <1>1, <1>3 DEF Rest
  <2>3. {buffer[B][i] : i \in at + 1 .. Len(buffer[B])} = Rest(B) \ {l}
    BY <1>4, <2>1 DEF Distinct
  <2>4. \A b \in Buffers : b = B => Tried(b)' = {buffer[B][i] : i \in 1 .. at}
    <3>1. (at + 1) - 1 = at
      BY <1>4
    <3> QED
      BY <1>1, <1>3, <3>1 DEF Tried
  <2>5. {buffer[B][i] : i \in 1 .. at} = Tried(B) \cup {l}
    <3>1. Tried(B) = {buffer[B][i] : i \in 1 .. at - 1}
      BY <1>3, <1>b DEF Tried
    <3> QED
      BY <1>4, <3>1
  <2>6. l \in Rest(B) /\ l \in Elems(buffer[B])
    BY <1>4, <2>1 DEF Elems
  <2> QED
    BY <2>2, <2>3, <2>4, <2>5, <2>6
<1> HIDE DEF l
<1>6. /\ l \notin Elems(saved) /\ l \notin dropped
      /\ \A b \in Buffers : b # B => l \notin Rest(b)
  <2>1. l \notin Elems(saved) /\ l \notin dropped
    BY <1>0, <1>5, <1>b DEF NothingTwice, Buffers
  <2>2. \A b \in Buffers : b # B => Rest(b) \subseteq Elems(buffer[b])
    BY Rows
  <2> QED
    BY <1>0, <1>5, <1>b, <2>1, <2>2 DEF NothingTwice, Buffers
<1>7. \/ Elems(saved') = Elems(saved) \cup {l} /\ dropped' = dropped
      \/ Elems(saved') = Elems(saved) /\ dropped' = dropped \cup {l}
  <2>1. Elems(Append(saved, l)) = Elems(saved) \cup {l}
    BY <1>0, <1>4, ElemsAppend
  <2> QED
    BY <1>1, <2>1
<1>8. NothingTwice'
  <2>1. Distinct(saved')
    BY <1>0, <1>1, <1>4, <1>6, DistinctAppend DEF NothingTwice
  <2>2. \A b \in Buffers : Elems(saved') \cap Rest(b)' = {}
    BY <1>0, <1>5, <1>6, <1>7 DEF NothingTwice
  <2>3. dropped' \cap (Elems(saved') \cup Rest("A")' \cup Rest("B")') = {}
    <3>1. \A b \in Buffers : dropped' \cap Rest(b)' = {}
      <4>1. \A b \in Buffers : dropped \cap Rest(b) = {}
        BY <1>0 DEF NothingTwice, Buffers
      <4> QED
        BY <1>5, <1>6, <1>7, <4>1
    <3>2. dropped' \cap Elems(saved') = {}
      BY <1>0, <1>6, <1>7 DEF NothingTwice
    <3> QED
      BY <3>1, <3>2, Buffer
  <2> QED
    BY <1>0, <1>1, <2>1, <2>2, <2>3 DEF NothingTwice
<1>9. NothingAway'
  <2>1. Elems(accepted) = Elems(saved') \cup Rest("A")' \cup Rest("B")' \cup dropped'
    BY <1>0, <1>1, <1>5, <1>7, <1>b DEF NothingAway, Buffers
  <2> QED
    BY <1>0, <1>1, <2>1 DEF NothingAway
<1>10. Transaction'
  <2>1. /\ inserted \in Nat /\ inserted <= Len(saved) /\ Len(saved) \in Nat
    BY <1>0, <1>1, LenProperties DEF TInv, TypeOK, InBatch
  <2>2. /\ \A i \in 1 .. Len(saved) : i > Len(saved) - inserted => saved[i] \in Tried(B)
        /\ \A i \in 1 .. Len(saved) - inserted : saved[i] \notin Elems(buffer[B])
    BY <1>0, <1>1, <1>b DEF Transaction
  <2>3. Tried(Batch)' = Tried(B) \cup {l}
    BY <1>2, <1>5, <1>b
  <2>4. CASE saved' = saved /\ inserted' = inserted
    <3>1. \A i \in 1 .. Len(saved') :
            i > Len(saved') - inserted' => saved'[i] \in Tried(B) \cup {l}
      BY <2>2, <2>4
    <3> QED
      BY <1>1, <1>2, <2>2, <2>3, <2>4, <3>1 DEF Transaction
  <2>5. CASE saved' = Append(saved, l) /\ inserted' = inserted + 1
    <3>1. /\ Len(saved') = Len(saved) + 1 /\ saved'[Len(saved) + 1] = l
          /\ \A i \in 1 .. Len(saved) : saved'[i] = saved[i]
          /\ Len(saved') - inserted' = Len(saved) - inserted
      BY <1>0, <1>4, <2>1, <2>5, AppendIs
    <3>2. \A i \in 1 .. Len(saved') :
            i > Len(saved') - inserted' => saved'[i] \in Tried(B) \cup {l}
      BY <2>1, <2>2, <3>1
    <3>3. \A i \in 1 .. Len(saved') - inserted' : saved'[i] \notin Elems(buffer[B])
      BY <2>1, <2>2, <3>1
    <3> QED
      BY <1>1, <1>2, <1>b, <2>3, <3>2, <3>3 DEF Transaction
  <2> QED
    BY <1>1, <2>4, <2>5
<1> QED
  BY <1>8, <1>9, <1>10 DEF SetInv

LEMMA SaveDoneSetStep ==
  ASSUME TInv, SetInv, SaveDone
  PROVE  SetInv'
<1>0. /\ input \in Buffers /\ NothingTwice /\ NothingAway
      /\ Transaction /\ saved \in Seq(Log) /\ buffer \in [Buffers -> Seq(Log)]
  BY DEF TInv, TypeOK, SetInv
<1> DEFINE B == Batch
           rows == Elems(buffer[B])
<1>1. /\ UNCHANGED <<unsent, accepted, input>> /\ Saving /\ ~Saving'
      /\ at > Len(buffer[B])
      /\ buffer' = [buffer EXCEPT ![B] = <<>>]
      /\ \/ UNCHANGED <<saved, dropped>>
         \/ saved' = RolledBack(saved) /\ dropped' = dropped \cup rows
  BY DEF SaveDone, outside, AfterSave, Saving
<1>b. B \in Buffers /\ Batch = B
  BY <1>0, Buffer
<1> HIDE DEF B
<1>2. /\ buffer'[B] = <<>>
      /\ \A b \in Buffers : b # B => buffer'[b] = buffer[b]
      /\ Elems(<<>>) = {}
  BY <1>0, <1>1, <1>b, ElemsEmpty
<1>3. /\ Rest(B) = {} /\ Tried(B) = rows
      /\ \A b \in Buffers : b # B => Rest(b) = Elems(buffer[b])
  <2>1. From(B) = at
    BY <1>1, <1>b DEF From
  <2>2. Rest(B) = {}
    BY <1>1, <1>b, <2>1, Rows DEF Rest
  <2> QED
    BY <1>b, <2>2, Rows, AllRest
<1>4. \A b \in Buffers : Rest(b)' = Rest(b)
  <2>1. \A b \in Buffers : Rest(b)' = Elems(buffer'[b])
    BY <1>1 DEF Rest, From, Elems
  <2> QED
    BY <1>2, <1>3, <1>b, <2>1
<1>5. /\ \A b \in Buffers : Distinct(buffer'[b])
      /\ \A b \in Buffers : Elems(buffer'[b]) \subseteq Elems(buffer[b])
  <2>1. Distinct(<<>>)
    BY EmptySeq DEF Distinct
  <2> QED
    BY <1>0, <1>2, <1>b, <2>1 DEF NothingTwice
<1>6. CASE UNCHANGED <<saved, dropped>>
  <2>1. NothingTwice'
    <3>1. Elems(buffer'["A"]) \cap Elems(buffer'["B"]) = {}
      BY <1>0, <1>5, Buffer DEF NothingTwice
    <3> QED
      BY <1>0, <1>1, <1>4, <1>5, <1>6, <3>1, Buffer DEF NothingTwice
  <2>2. NothingAway'
    BY <1>0, <1>1, <1>4, <1>5, <1>6, Buffer DEF NothingAway
  <2> QED
    BY <1>1, <2>1, <2>2 DEF SetInv, Transaction
<1>7. CASE saved' = RolledBack(saved) /\ dropped' = dropped \cup rows
  <2>1. /\ inserted \in Nat /\ inserted <= Len(saved) /\ Len(saved) \in Nat
        /\ Len(saved') = Len(saved) - inserted
        /\ \A i \in 1 .. Len(saved) - inserted : saved'[i] = saved[i]
    <3>1. inserted \in Nat /\ inserted <= Len(saved)
      BY <1>1 DEF TInv, TypeOK, InBatch
    <3> QED
      BY <1>0, <1>7, <3>1, RolledBackIs
  <2>2. /\ \A i \in 1 .. Len(saved) : i > Len(saved) - inserted => saved[i] \in rows
        /\ \A i \in 1 .. Len(saved) - inserted : saved[i] \notin rows
    BY <1>0, <1>1, <1>3, <1>b DEF Transaction
  <2>3. Elems(saved') = Elems(saved) \ rows
    <3>1. Elems(saved') = {saved[i] : i \in 1 .. Len(saved) - inserted}
      BY <2>1 DEF Elems
    <3>2. {saved[i] : i \in 1 .. Len(saved) - inserted} = {saved[i] : i \in 1 .. Len(saved)} \ rows
      <4> HIDE DEF rows
      <4> QED
        BY <2>1, <2>2
    <3> QED
      BY <3>1, <3>2 DEF Elems
  <2>4. Distinct(saved')
    BY <1>0, <2>1 DEF NothingTwice, Distinct
  <2>5. \A b \in Buffers : Rest(b) \cap rows = {}
    BY <1>0, <1>3, <1>b, Buffer DEF NothingTwice, Buffers
  <2> HIDE DEF rows
  <2>6. NothingTwice'
    <3>1. Elems(buffer'["A"]) \cap Elems(buffer'["B"]) = {}
      BY <1>0, <1>5, Buffer DEF NothingTwice
    <3>2. \A b \in Buffers : Elems(saved') \cap Rest(b)' = {}
      BY <1>0, <1>4, <2>3 DEF NothingTwice
    <3>3. dropped' \cap (Elems(saved') \cup Rest("A")' \cup Rest("B")') = {}
      BY <1>0, <1>4, <1>7, <2>3, <2>5, Buffer DEF NothingTwice
    <3> QED
      BY <1>0, <1>1, <1>5, <2>4, <3>1, <3>2, <3>3 DEF NothingTwice
  <2>7. NothingAway'
    <3>1. rows \subseteq Elems(accepted)
      BY <1>0, <1>b DEF NothingAway, rows
    <3>2. Elems(accepted) = Elems(saved') \cup Rest("A")' \cup Rest("B")' \cup dropped'
      BY <1>0, <1>4, <1>7, <2>3, <3>1, Buffer DEF NothingAway
    <3> QED
      BY <1>0, <1>1, <1>5, <3>2 DEF NothingAway
  <2> QED
    BY <1>1, <2>6, <2>7 DEF SetInv, Transaction
<1> QED
  BY <1>1, <1>6, <1>7

LEMMA SetStep ==
  ASSUME TInv, SetInv, [Next]_vars
  PROVE  SetInv'
<1>1. CASE UNCHANGED vars \/ StopHandler \/ \E c \in {"UPLOAD_DB", "other"} : HandleCommand(c)
  <2>1. UNCHANGED <<unsent, buffer, input, pc, at, inserted, accepted, saved, dropped>>
    BY <1>1 DEF vars, StopHandler, HandleCommand, threadVars
  <2>2. NothingTwice' /\ NothingAway'
    <3>1. \A b \in Buffers : From(b)' = From(b)
      BY <2>1 DEF From, Saving, Batch
    <3> QED
      BY <2>1, <3>1, NothingMoves
  <2>3. Transaction'
    BY <2>1 DEF SetInv, Transaction, Tried, From, Saving, Batch
  <2> QED
    BY <2>2, <2>3 DEF SetInv
<1> QED
  BY <1>1, HandlerSetStep, MovesSetStep, SaveRowSetStep, SaveDoneSetStep
  DEF Next, Step, LoggerStep, LoggerMoves

-----------------------------------------------------------------------------
(* The order                                                               *)

LEMMA AppendLast ==
  ASSUME NEW T, NEW s \in Seq(T), NEW t \in Seq(T), NEW x \in T
  PROVE  s \o Append(t, x) = Append(s \o t, x)
<1>1. <<x>> \in Seq(T) /\ s \o t \in Seq(T)
  BY ConcatProperties
<1>2. \A u \in Seq(T) : Append(u, x) = u \o <<x>>
  OBVIOUS
<1>3. s \o (t \o <<x>>) = (s \o t) \o <<x>>
  BY <1>1, ConcatAssociative
<1> QED
  BY <1>1, <1>2, <1>3

(* An entry goes from the head of one sequence to the end of another.      *)
LEMMA MoveFirst ==
  ASSUME NEW T, NEW s \in Seq(T), NEW t \in Seq(T), NEW x \in T
  PROVE  s \o (<<x>> \o t) = Append(s, x) \o t
<1>1. <<x>> \in Seq(T) /\ Append(s, x) = s \o <<x>>
  OBVIOUS
<1>2. (s \o <<x>>) \o t = s \o (<<x>> \o t)
  BY <1>1, ConcatAssociative
<1> QED
  BY <1>1, <1>2

LEMMA ToSaveIs ==
  ASSUME TInv, NEW b \in Buffers
  PROVE  /\ ToSave(b) = SubSeq(buffer[b], From(b), Len(buffer[b]))
         /\ ToSave(b) \in Seq(Log) /\ Elems(ToSave(b)) = Rest(b)
         /\ Distinct(buffer[b]) => Distinct(ToSave(b))
<1> DEFINE d == buffer[b]
           n == From(b) - 1
<1>1. /\ d \in Seq(Log) /\ Len(d) \in Nat /\ From(b) \in 1 .. Len(d) + 1
      /\ n \in 0 .. Len(d) /\ n + 1 = From(b)
  BY Rows
<1>2. ToSave(b) = SubSeq(d, From(b), Len(d))
  BY <1>1, SubSeqFull DEF ToSave, From
<1>3. /\ ToSave(b) \in Seq(Log) /\ Len(ToSave(b)) = Len(d) - n
      /\ \A i \in 1 .. Len(d) - n : ToSave(b)[i] = d[n + i]
  <2>1. ToSave(b) = SubSeq(d, n + 1, Len(d))
    BY <1>1, <1>2
  <2> HIDE DEF n, d
  <2> QED
    BY <1>1, <2>1, SuffixIs
<1>4. Elems(ToSave(b)) = Rest(b)
  <2>1. Elems(ToSave(b)) = {d[n + i] : i \in 1 .. Len(d) - n}
    BY <1>3 DEF Elems
  <2>2. Rest(b) = {d[i] : i \in n + 1 .. Len(d)}
    BY <1>1 DEF Rest
  <2>3. \A i \in 1 .. Len(d) - n : n + i \in n + 1 .. Len(d)
    BY <1>1
  <2>4. \A i \in n + 1 .. Len(d) : i - n \in 1 .. Len(d) - n /\ n + (i - n) = i
    BY <1>1
  <2> HIDE DEF n, d
  <2>5. {d[n + i] : i \in 1 .. Len(d) - n} \subseteq {d[i] : i \in n + 1 .. Len(d)}
    BY <2>3
  <2>6. {d[i] : i \in n + 1 .. Len(d)} \subseteq {d[n + i] : i \in 1 .. Len(d) - n}
    <3> SUFFICES ASSUME NEW i \in n + 1 .. Len(d)
                 PROVE  d[i] \in {d[n + k] : k \in 1 .. Len(d) - n}
      OBVIOUS
    <3>1. d[i] = d[n + (i - n)] /\ i - n \in 1 .. Len(d) - n
      BY <2>4
    <3> QED
      BY <3>1
  <2> QED
    BY <2>1, <2>2, <2>5, <2>6
<1>5. Distinct(d) => Distinct(ToSave(b))
  <2> SUFFICES ASSUME Distinct(d), NEW i \in 1 .. Len(d) - n, NEW j \in 1 .. Len(d) - n,
                      d[n + i] = d[n + j]
               PROVE  i = j
    BY <1>3 DEF Distinct
  <2> HIDE DEF n, d
  <2>1. n + i \in 1 .. Len(d) /\ n + j \in 1 .. Len(d)
    BY <1>1
  <2>2. n + i = n + j
    BY <2>1 DEF Distinct
  <2> QED
    BY <1>1, <2>2
<1> QED
  BY <1>2, <1>3, <1>4, <1>5

LEMMA OrderInit == Init => InOrder
<1> SUFFICES ASSUME Init PROVE InOrder
  OBVIOUS
<1>1. ToSave(input) = <<>> /\ ToSave(Other(input)) = <<>> /\ buffer[Other(input)] = <<>>
  BY Buffer DEF Init, ToSave, Saving
<1>2. <<>> \in Seq(Log) /\ <<>> \o <<>> = <<>>
  BY EmptySeq, ConcatEmptySeq
<1> QED
  BY <1>1, <1>2 DEF Init, InOrder

LEMMA OrderStep ==
  ASSUME TInv, SetInv, InOrder, [Next]_vars, TInv'
  PROVE  InOrder'
<1> SUFFICES ASSUME failures' = 0
             PROVE  /\ (saved' \o ToSave(Other(input))') \o ToSave(input)' = accepted'
                    /\ pc' # "save" => buffer'[Other(input')] = <<>>
  BY Zenon DEF InOrder
<1>0. /\ TypeOK /\ input \in Buffers /\ Other(input) \in Buffers /\ Other(input) # input
      /\ saved \in Seq(Log) /\ accepted \in Seq(Log) /\ failures \in Nat
      /\ buffer \in [Buffers -> Seq(Log)]
  <2>1. /\ TypeOK /\ input \in Buffers
        /\ saved \in Seq(Log) /\ accepted \in Seq(Log) /\ failures \in 0 .. MaxFail
        /\ buffer \in [Buffers -> Seq(Log)]
    BY DEF TInv, TypeOK
  <2> QED
    BY <2>1, StoreAssumption, Buffer
<1>x. ToSave(input) \in Seq(Log) /\ ToSave(Other(input)) \in Seq(Log)
  BY <1>0, ToSaveIs
<1>y. saved \o ToSave(Other(input)) \in Seq(Log)
  BY <1>0, <1>x, ConcatProperties
<1>1. CASE UNCHANGED vars \/ StopHandler \/ \E c \in {"UPLOAD_DB", "other"} : HandleCommand(c)
  <2>1. UNCHANGED <<buffer, input, pc, at, accepted, saved, failures>>
    BY <1>1 DEF vars, StopHandler, HandleCommand, threadVars
  <2>2. \A b : ToSave(b)' = ToSave(b)
    BY <2>1 DEF ToSave, Saving, Batch
  <2> QED
    BY <2>1, <2>2 DEF InOrder
<1>2. CASE \E l \in Log : HandleLog(l)
  <2>1. PICK l \in Log : HandleLog(l)
    BY <1>2
  <2>2. /\ pc # "last" /\ UNCHANGED <<input, pc, at, saved, failures>>
        /\ Saving' = Saving /\ Batch' = Batch
    BY <2>1 DEF HandleLog, HandlerMayRun, threadVars, Saving, Batch
  <2>i. ~(Saving /\ input = Batch)
    BY <1>0, <2>2, Buffer DEF Saving
  <2>3. CASE Fits
    <3>1. /\ buffer' = [buffer EXCEPT ![input] = Append(buffer[input], l)]
          /\ accepted' = Append(accepted, l)
      BY <2>1, <2>3 DEF HandleLog
    <3>2. /\ buffer'[Other(input)] = buffer[Other(input)]
          /\ buffer'[input] = Append(buffer[input], l)
      BY <1>0, <3>1
    <3>3. \A b \in Buffers : b = input => ToSave(b)' = Append(ToSave(input), l)
      BY <2>2, <2>i, <3>2 DEF ToSave
    <3>4. \A b \in Buffers : b = Other(input) => ToSave(b)' = ToSave(b)
      BY <2>2, <3>2 DEF ToSave
    <3>5. ToSave(input)' = Append(ToSave(input), l) /\ ToSave(Other(input))' = ToSave(Other(input))
      BY <1>0, <2>2, <3>3, <3>4
    <3>6. (saved \o ToSave(Other(input))) \o Append(ToSave(input), l)
            = Append((saved \o ToSave(Other(input))) \o ToSave(input), l)
      BY <1>x, <1>y, AppendLast
    <3> QED
      BY <2>2, <3>1, <3>2, <3>5, <3>6 DEF InOrder
  <2>4. CASE ~Fits
    <3>1. UNCHANGED <<buffer, accepted>>
      BY <2>1, <2>4 DEF HandleLog
    <3>2. \A b : ToSave(b)' = ToSave(b)
      BY <2>2, <3>1 DEF ToSave
    <3> QED
      BY <2>2, <3>1, <3>2 DEF InOrder
  <2> QED
    BY <2>3, <2>4
<1>3. CASE LoggerMoves
  <2>1. /\ UNCHANGED <<buffer, input, accepted, saved>>
        /\ pc' # "save" /\ failures = 0 /\ ~Saving
        /\ Saving' => at' = 1
    <3>1. failures' # failures + 1
      BY <1>0
    <3> QED
      BY <1>0, <1>3, <3>1, LoggerMovesAre DEF Saving
  <2>2. \A b \in Buffers : ToSave(b)' = ToSave(b)
    <3>1. \A b \in Buffers : ToSave(b) = buffer[b]
      BY <2>1 DEF ToSave
    <3>2. \A b \in Buffers : SubSeq(buffer[b], 1, Len(buffer[b])) = buffer[b]
      BY <1>0, SubSeqFull
    <3> QED
      BY <2>1, <3>1, <3>2 DEF ToSave
  <2>3. pc # "save"
    BY <2>1 DEF Saving
  <2> QED
    BY <1>0, <2>1, <2>2, <2>3 DEF InOrder
<1>4. CASE TrimAndSwap
  <2>1. /\ UNCHANGED <<buffer, accepted, saved>> /\ input' = Other(input)
        /\ pc = "wait" /\ pc' = "save" /\ at' = 1 /\ failures = 0
    BY <1>0, <1>4 DEF TrimAndSwap, outside
  <2>2. /\ Batch' = input /\ Other(input') = input /\ Saving' /\ ~Saving
    BY <1>0, <2>1, Buffer DEF Batch, Saving
  <2>3. ToSave(input) = buffer[input] /\ ToSave(Other(input)) = <<>>
        /\ buffer[Other(input)] = <<>>
    BY <2>1, <2>2 DEF InOrder, ToSave
  <2>4. ToSave(Other(input))' = buffer[input]
    <3>1. \A b \in Buffers : b = input => ToSave(b)' = SubSeq(buffer[input], 1, Len(buffer[input]))
      BY <2>1, <2>2 DEF ToSave
    <3> QED
      BY <1>0, <2>2, <3>1, SubSeqFull
  <2>5. ToSave(input)' = <<>>
    <3>1. \A b \in Buffers : b = Other(input) => ToSave(b)' = <<>>
      BY <1>0, <2>1, <2>2, <2>3 DEF ToSave
    <3> QED
      BY <1>0, <2>1, <3>1
  <2>6. /\ saved \o <<>> = saved
        /\ (saved \o buffer[input]) \o <<>> = saved \o buffer[input]
    <3>1. saved \o buffer[input] \in Seq(Log)
      BY <1>0, ConcatProperties
    <3> QED
      BY <1>0, <3>1, ConcatEmptySeq
  <2> QED
    BY <2>1, <2>3, <2>4, <2>5, <2>6 DEF InOrder
<1>5. CASE SaveRow
  <2> DEFINE B == Batch
             l == buffer[B][at]
  <2>1. /\ UNCHANGED <<accepted, buffer, input, pc>> /\ Saving /\ at' = at + 1
        /\ at <= Len(buffer[B]) /\ failures = 0 /\ saved' = Append(saved, l)
    BY <1>0, <1>5 DEF SaveRow, outside
  <2>2. B \in Buffers /\ at \in 1 .. Len(buffer[B]) /\ l \in Log
    <3>1. B \in Buffers
      BY <1>0, Buffer
    <3>2. at \in 1 .. Len(buffer[B])
      BY <2>1, <3>1, Rows DEF TInv, TypeOK
    <3> QED
      BY <1>0, <3>1, <3>2, ElementOfSeq
  <2>3. Batch' = Batch /\ Saving'
    BY <2>1 DEF Batch, Saving
  <2>4. \A b \in Buffers : b # Batch => ToSave(b)' = ToSave(b) /\ ToSave(b) = buffer[b]
    BY <2>1, <2>3 DEF ToSave
  <2>5. \A b \in Buffers : b = Batch => ToSave(b) = <<l>> \o ToSave(b)'
    <3>1. /\ \A b \in Buffers : b = Batch => ToSave(b) = SubSeq(buffer[B], at, Len(buffer[B]))
          /\ \A b \in Buffers : b = Batch => ToSave(b)' = SubSeq(buffer[B], at + 1, Len(buffer[B]))
      BY <2>1, <2>3 DEF ToSave
    <3>2. Len(buffer[B]) \in at .. Len(buffer[B])
      BY <2>2, Rows
    <3>3. SubSeq(buffer[B], at, Len(buffer[B]))
            = <<l>> \o SubSeq(buffer[B], at + 1, Len(buffer[B]))
      BY <1>0, <2>2, <3>2, SubSeqRecursiveFirst
    <3> QED
      BY <3>1, <3>3
  <2> HIDE DEF l, B
  <2>6. \A b \in Buffers : ToSave(b)' \in Seq(Log)
    <3>1. \A b \in Buffers : ToSave(b) \in Seq(Log)
      BY ToSaveIs
    <3>2. \A b \in Buffers : b = Batch => ToSave(b)' \in Seq(Log)
      <4>1. \A b \in Buffers : b = Batch => ToSave(b)' = SubSeq(buffer[b], at + 1, Len(buffer[b]))
        BY <2>1, <2>3 DEF ToSave
      <4>2. \A b \in Buffers : b = Batch => SubSeq(buffer[b], at + 1, Len(buffer[b])) \in Seq(Log)
        <5> SUFFICES ASSUME NEW b \in Buffers, b = Batch
                     PROVE  SubSeq(buffer[b], at + 1, Len(buffer[b])) \in Seq(Log)
          OBVIOUS
        <5>1. at \in 0 .. Len(buffer[b]) /\ buffer[b] \in Seq(Log)
          BY <1>0, <2>2 DEF B
        <5> QED
          BY <5>1, SuffixIs
      <4> QED
        BY <4>1, <4>2
    <3> QED
      BY <2>4, <3>1, <3>2
  <2>7. CASE pc = "last"
    <3>1. Batch = input /\ buffer[Other(input)] = <<>>
      BY <2>1, <2>7, Buffer DEF InOrder
    <3>2. ToSave(Other(input)) = <<>> /\ ToSave(Other(input))' = <<>>
      BY <1>0, <2>1, <2>4, <3>1
    <3>3. ToSave(input) = <<l>> \o ToSave(input)' /\ ToSave(input)' \in Seq(Log)
      BY <1>0, <2>1, <2>5, <2>6, <3>1
    <3>4. saved \o (<<l>> \o ToSave(input)') = Append(saved, l) \o ToSave(input)'
      BY <1>0, <2>2, <3>3, MoveFirst
    <3>5. saved \o <<>> = saved /\ Append(saved, l) \o <<>> = Append(saved, l)
      <4>1. Append(saved, l) \in Seq(Log)
        BY <1>0, <2>2, AppendIs
      <4> QED
        BY <1>0, <4>1, ConcatEmptySeq
    <3> QED
      BY <2>1, <3>1, <3>2, <3>3, <3>4, <3>5 DEF InOrder
  <2>8. CASE pc # "last"
    <3>1. Batch = Other(input) /\ pc = "save"
      BY <2>1, <2>8, Buffer DEF Saving
    <3>2. ToSave(input)' = ToSave(input)
      BY <1>0, <2>1, <2>4, <3>1
    <3>3. ToSave(Other(input)) = <<l>> \o ToSave(Other(input))' /\ ToSave(Other(input))' \in Seq(Log)
      BY <1>0, <2>1, <2>5, <2>6, <3>1
    <3>4. saved \o (<<l>> \o ToSave(Other(input))') = Append(saved, l) \o ToSave(Other(input))'
      BY <1>0, <2>2, <3>3, MoveFirst
    <3> QED
      BY <2>1, <3>1, <3>2, <3>3, <3>4 DEF InOrder
  <2> QED
    BY <2>7, <2>8
<1>6. CASE SaveDone
  <2>1. /\ UNCHANGED <<accepted, input, at, saved>> /\ Saving /\ ~Saving' /\ failures = 0
        /\ at > Len(buffer[Batch])
        /\ buffer' = [buffer EXCEPT ![Batch] = <<>>]
    BY <1>0, <1>6 DEF SaveDone, outside, Saving, AfterSave
  <2>2. /\ Batch \in Buffers /\ buffer'[Batch] = <<>>
        /\ \A b \in Buffers : b # Batch => buffer'[b] = buffer[b]
    BY <1>0, <2>1, Buffer
  <2>3. \A b \in Buffers : ToSave(b)' = buffer'[b]
    BY <2>1 DEF ToSave
  <2>4. ToSave(Batch) = <<>>
    <3>1. Len(buffer[Batch]) \in Int /\ at \in Int
      BY <2>2, Rows DEF TInv, TypeOK
    <3> QED
      BY <2>1, <3>1, SubSeqEmpty DEF ToSave
  <2>5. \A b \in Buffers : ToSave(b)' = ToSave(b)
    BY <2>2, <2>3, <2>4 DEF ToSave
  <2>6. buffer'[Other(input)] = <<>>
    <3>1. CASE pc = "save"
      BY <1>0, <2>2, <3>1, Buffer
    <3>2. CASE pc # "save"
      BY <1>0, <2>1, <2>2, <3>2 DEF InOrder
    <3> QED
      BY <3>1, <3>2
  <2> QED
    BY <1>0, <2>1, <2>5, <2>6 DEF InOrder
<1> QED
  BY <1>1, <1>2, <1>3, <1>4, <1>5, <1>6 DEF Next, Step, LoggerStep, LoggerMoves

LEMMA SavedFollows ==
  ASSUME TInv, SetInv, InOrder
  PROVE  SavedInOrder
<1> DEFINE X == ToSave(Other(input))
           Y == ToSave(input)
           all == saved \o (X \o Y)
<1>0. /\ input \in Buffers /\ Other(input) \in Buffers /\ Other(input) # input
      /\ saved \in Seq(Log) /\ NothingTwice /\ NothingAway
  BY Buffer DEF TInv, TypeOK, SetInv
<1>1. /\ X \in Seq(Log) /\ Elems(X) = Rest(Other(input)) /\ Distinct(X)
      /\ Y \in Seq(Log) /\ Elems(Y) = Rest(input) /\ Distinct(Y)
  BY <1>0, ToSaveIs DEF NothingTwice
<1>2. Elems(X) \cap Elems(Y) = {}
  <2>1. /\ Elems(X) \subseteq Elems(buffer[Other(input)])
        /\ Elems(Y) \subseteq Elems(buffer[input])
    BY <1>0, <1>1, Rows
  <2>2. Elems(buffer[Other(input)]) \cap Elems(buffer[input]) = {}
    BY <1>0 DEF NothingTwice, Buffers
  <2> QED
    BY <2>1, <2>2
<1>3. Elems(X) \cup Elems(Y) = Rest("A") \cup Rest("B")
  BY <1>0, <1>1 DEF Buffers
<1> HIDE DEF X, Y
<1>4. X \o Y \in Seq(Log) /\ all \in Seq(Log)
  BY <1>0, <1>1, ConcatProperties
<1>5. Elems(X \o Y) = Elems(X) \cup Elems(Y) /\ Distinct(X \o Y)
  BY <1>1, <1>2, ElemsConcat, DistinctConcat
<1>6. Elems(all) = Elems(saved) \cup Rest("A") \cup Rest("B")
  <2>1. Elems(saved \o (X \o Y)) = Elems(saved) \cup Elems(X \o Y)
    <3>1. saved \in Seq(Log) /\ X \o Y \in Seq(Log)
      BY <1>0, <1>4
    <3>2. \A s, t \in Seq(Log) : Elems(s \o t) = Elems(s) \cup Elems(t)
      BY ONLY ElemsConcat, Zenon
    <3> QED
      BY ONLY <3>1, <3>2, Zenon
  <2> QED
    BY ONLY <2>1, <1>3, <1>5 DEF all
<1>7. Distinct(all)
  <2>1. Elems(saved) \cap Elems(X \o Y) = {}
    BY <1>0, <1>3, <1>5, Buffer DEF NothingTwice
  <2> QED
    BY <1>0, <1>4, <1>5, <2>1, DistinctConcat DEF NothingTwice
<1>8. failures = 0 => all = accepted
  <2>1. (saved \o X) \o Y = all
    BY <1>0, <1>1, ConcatAssociative
  <2> QED
    BY <2>1 DEF InOrder, X, Y
<1> HIDE DEF all
<1>9. Cardinality(Elems(all)) = Len(all)
  BY <1>4, <1>7, DistinctCount
<1>10. Elems(accepted) = Elems(all) \cup dropped /\ Elems(all) \cap dropped = {}
  BY <1>0, <1>6 DEF NothingTwice, NothingAway
<1> QED
  BY <1>8, <1>9, <1>10, Zenon DEF SavedInOrder, all, X, Y

(* However the handler, the exchanges, the failures of SQLite and the stop *)
(* fall together: an entry is inserted once, in the order of the handler,  *)
(* and only SQLite can keep it from the table.                             *)
THEOREM NothingLostOrDoubled == Spec => []SavedInOrder
<1>1. Init => TInv /\ SetInv /\ InOrder
  BY TypeInit, SetInit, OrderInit
<1>2. TInv /\ SetInv /\ InOrder /\ [Next]_vars => (TInv /\ SetInv /\ InOrder)'
  BY TypeStep, SetStep, OrderStep
<1>3. TInv /\ SetInv /\ InOrder => SavedInOrder
  BY SavedFollows
<1> QED
  BY <1>1, <1>2, <1>3, PTL DEF Spec

-----------------------------------------------------------------------------
(* The table                                                               *)

LEMMA Limits ==
  /\ pc = "save" => Limit = Cap - ItemCap + at - 1
  /\ pc = "last" => Limit = Cap + at - 1
  /\ pc \in {"leaving", "done"} => Limit = Cap + ItemCap
  /\ pc \notin {"save", "last", "leaving", "done"} => Limit = Cap
BY DEF Limit

LEMMA LimitsNext ==
  /\ pc' = "save" => Limit' = Cap - ItemCap + at' - 1
  /\ pc' = "last" => Limit' = Cap + at' - 1
  /\ pc' \in {"leaving", "done"} => Limit' = Cap + ItemCap
  /\ pc' \notin {"save", "last", "leaving", "done"} => Limit' = Cap
BY DEF Limit

LEMMA CapIs ==
  /\ Cap \in Nat /\ Len(Earlier) \in Nat /\ Cap < CountMod /\ MaxDb + ItemCap <= Cap
  /\ Cap = MaxDb + ItemCap \/ Cap = Len(Earlier) + 1
  /\ Len(Earlier) < Cap
<1>1. Earlier \in Seq(Log) /\ Len(Earlier) \in Nat
  BY StoreAssumption, LenProperties
<1> QED
  BY <1>1, StoreAssumption DEF Cap

LEMMA LimitStep ==
  ASSUME MaxDb > 0, ItemCap <= DeleteNum, TInv, DInv, [Next]_vars, TInv'
  PROVE  DInv'
<1> SUFFICES ASSUME failures' = 0, Elems(db') \cap Errors = {}
             PROVE  Len(db') < Limit'
  BY DEF DInv
<1>0. /\ TypeOK /\ failures \in Nat /\ at \in Nat /\ db \in Seq(Log) /\ Len(db) \in Nat
      /\ MaxDb \in Nat /\ ItemCap \in Nat /\ DeleteNum \in Nat /\ CountMod \in Nat
      /\ Cap \in Nat /\ Cap < CountMod /\ MaxDb + ItemCap <= Cap
  BY StoreAssumption, LenProperties, CapIs DEF TInv, TypeOK
<1>1. CASE UNCHANGED vars \/ StopHandler \/ (\E c \in {"UPLOAD_DB", "other"} : HandleCommand(c))
             \/ \E l \in Log : HandleLog(l)
  <2>1. UNCHANGED <<pc, at, db, failures>>
    BY <1>1 DEF vars, StopHandler, HandleCommand, HandleLog, threadVars
  <2> QED
    BY <2>1 DEF DInv, Limit
<1>2. CASE LoggerMoves
  <2>1. /\ db' = db /\ failures = 0 /\ Len(db) < Limit
        /\ \/ pc \in {"loop", "check", "upload"} /\ pc' \in {"wait", "exit", "loop", "upload"}
           \/ pc = "exit" /\ pc' = "last" /\ at' = 1
           \/ pc = "leaving" /\ pc' = "done"
    <3>1. failures' # failures + 1
      BY <1>0
    <3>2. db' = db /\ failures' = failures
      BY <1>0, <1>2, <3>1, LoggerMovesAre
    <3>3. \/ pc \in {"loop", "check", "upload"} /\ pc' \in {"wait", "exit", "loop", "upload"}
          \/ pc = "exit" /\ pc' = "last" /\ at' = 1
          \/ pc = "leaving" /\ pc' = "done"
      BY <1>0, <1>2, <3>1, LoggerMovesAre
    <3> QED
      BY <3>2, <3>3 DEF DInv
  <2> QED
    BY ONLY <1>0, <2>1, Limits, LimitsNext
<1>3. CASE TrimAndSwap
  <2>1. /\ pc = "wait" /\ pc' = "save" /\ at' = 1 /\ failures = 0
        /\ db' = IF DbCount >= MaxDb THEN Trimmed(db) ELSE db
    BY <1>0, <1>3 DEF TrimAndSwap
  <2>2. Elems(db) \cap Errors = {}
    BY <1>0, <2>1, TrimmedIs
  <2>3. Len(db) < Cap
    BY <2>1, <2>2, Limits DEF DInv
  <2>4. DbCount = Len(db)
    <3>1. Len(db) < CountMod
      BY <1>0, <2>3
    <3>2. \A n, m \in Nat : n < m => n % m = n
      OBVIOUS
    <3> QED
      BY <1>0, <3>1, <3>2 DEF DbCount
  <2>5. Len(db') < Cap - ItemCap
    <3>1. CASE Len(db) >= MaxDb
      <4>1. db' = Trimmed(db)
        BY <2>1, <2>4, <3>1
      <4>2. Len(db') = IF Len(db) < DeleteNum THEN 0 ELSE Len(db) - DeleteNum
        BY <1>0, <2>2, <4>1, TrimmedIs
      <4> QED
        BY <1>0, <2>3, <4>2
    <3>2. CASE Len(db) < MaxDb
      <4>1. db' = db
        BY <1>0, <2>1, <2>4, <3>2
      <4> QED
        BY <1>0, <3>2, <4>1
    <3> QED
      BY <1>0, <3>1, <3>2
  <2> QED
    BY ONLY <1>0, <2>1, <2>5, LimitsNext
<1>4. CASE SaveRow
  <2>1. /\ failures = 0 /\ pc' = pc /\ pc \in {"save", "last"} /\ at' = at + 1
        /\ db' = Append(db, buffer[Batch][at]) /\ at <= Len(buffer[Batch])
    BY <1>0, <1>4 DEF SaveRow, Saving
  <2>2. buffer[Batch][at] \in Log
    <3>1. Batch \in Buffers
      BY Buffer DEF TInv, TypeOK
    <3>2. at \in 1 .. Len(buffer[Batch])
      BY <2>1, <3>1, Rows DEF TInv, TypeOK
    <3> QED
      BY <3>1, <3>2, Rows, ElementOfSeq
  <2>3. Len(db') = Len(db) + 1 /\ Elems(db) \subseteq Elems(db')
    BY <1>0, <2>1, <2>2, AppendIs, ElemsAppend
  <2>4. Len(db) < Limit
    BY <2>1, <2>3 DEF DInv
  <2>5. Limit' = Limit + 1 /\ Limit \in Int
    BY ONLY <1>0, <2>1, Limits, LimitsNext
  <2> QED
    BY ONLY <1>0, <2>3, <2>4, <2>5
<1>5. CASE SaveDone
  <2>1. /\ failures = 0 /\ db' = db /\ Saving /\ pc' = AfterSave
    BY <1>0, <1>5 DEF SaveDone
  <2>2. at <= ItemCap + 1 /\ Len(db) < Limit
    BY <1>0, <2>1 DEF DInv, TypeOK
  <2> QED
    BY ONLY <1>0, <2>1, <2>2, Limits, LimitsNext DEF Saving, AfterSave
<1> QED
  BY <1>1, <1>2, <1>3, <1>4, <1>5 DEF Next, Step, LoggerStep, LoggerMoves

(* A table without errors stays below its limit plus one batch, or below   *)
(* what an earlier run has left, and one batch more at the end, though each*)
(* batch is written after the trim.                                        *)
THEOREM TableBounded ==
  ASSUME MaxDb > 0, ItemCap <= DeleteNum
  PROVE  Spec => []DbBounded
<1>1. Init => DInv
  <2> SUFFICES ASSUME Init PROVE Len(db) < Limit
    BY DEF DInv
  <2>1. db = Earlier /\ Limit = Cap
    BY DEF Init, Limit
  <2> QED
    BY <2>1, CapIs
<1>2. TInv /\ DInv /\ [Next]_vars => DInv'
  BY TypeStep, LimitStep
<1>3. TInv /\ DInv => DbBounded
  <2> SUFFICES ASSUME TInv, failures = 0, Elems(db) \cap Errors = {}, Len(db) < Limit
               PROVE  DbBounded
    BY DEF DInv, DbBounded
  <2>1. /\ Len(db) \in Nat /\ MaxDb \in Nat /\ ItemCap \in Nat
        /\ at \in 1 .. ItemCap + 1
    BY StoreAssumption, LenProperties DEF TInv, TypeOK
  <2>2. \/ pc \in {"last", "leaving", "done"} /\ Len(db) < Cap + ItemCap
        \/ Len(db) < Cap
    BY ONLY <2>1, CapIs, Limits, Len(db) < Limit
  <2> QED
    BY ONLY <2>1, <2>2, CapIs DEF DbBounded
<1> QED
  BY <1>1, <1>2, <1>3, TypeInit, TypeStep, PTL DEF Spec
=============================================================================
