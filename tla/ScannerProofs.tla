--------------------------- MODULE ScannerProofs ---------------------------
(***************************************************************************)
(* Whatever signals, deaths, execs and changes of memory the targets meet:    *)
(* borrowed registers come back, nobody stays traced, an injection stops its   *)
(* target only in the two cases that LeftAsFound names, and reports Ok only for *)
(* memory it has advised.  A cycle takes the largest candidates, advises a     *)
(* capped prefix of their regions, only memory that it read as eligible,       *)
(* collapses whole huge pages, and spaces its bursts; a dry run touches nothing. *)
(***************************************************************************)
EXTENDS Scanner, FiniteSetTheorems, SequenceTheorems, WellFoundedInduction, TLAPS

-----------------------------------------------------------------------------
(* Induction, recursive functions, and the operators of Madvise on sequences.  *)

(* A set of natural numbers that is not empty has a least element.             *)
LEMMA Least ==
  ASSUME NEW T, T \subseteq Nat, T # {}
  PROVE  \E m \in T : \A n \in T : m <= n
<1>1. PICK m \in T : \A n \in T : ~ (<<n, m>> \in OpToRel(<, Nat))
  BY NatLessThanWellFounded, WFMin, Zenon
<1>2. \A n \in T : ~(n < m)
  BY <1>1 DEF OpToRel
<1>3. QED
  BY <1>2

(* Induction, with a set for the predicate.                                    *)
LEMMA Induction ==
  ASSUME NEW n \in Nat, NEW T, 0 \in T, \A i \in 0 .. n - 1 : i \in T => i + 1 \in T
  PROVE  \A i \in 0 .. n : i \in T
<1> DEFINE U == {i \in 0 .. n : i \notin T}
<1> SUFFICES ASSUME U # {} PROVE FALSE
  OBVIOUS
<1>1. U \subseteq Nat
  OBVIOUS
<1> HIDE DEF U
<1>2. PICK m \in U : \A i \in U : m <= i
  BY <1>1, Least
<1> USE DEF U
<1>3. m - 1 \in 0 .. n - 1 /\ m - 1 \notin U
  BY <1>2
<1>4. QED
  BY <1>3

(* g is what F makes of base and of one place after the other.                 *)
Follows(g, n, base, F) == g[0] = base /\ \A i \in 1 .. n : g[i] = F[<<g[i - 1], i>>]

(* What is defined by recursion on the places of a list exists.                *)
LEMMA Recursion ==
  ASSUME NEW n \in Nat, NEW A, NEW base \in A, NEW F \in [A \X (1 .. n) -> A]
  PROVE  \E g \in [0 .. n -> A] : Follows(g, n, base, F)
<1> USE DEF Follows
<1> DEFINE Upto(g, m) == Follows(g, m, base, F)
           T == {m \in 0 .. n : \E g \in [0 .. m -> A] : Upto(g, m)}
<1>1. 0 \in T
  <2> DEFINE g == [i \in 0 .. 0 |-> base]
  <2>1. g \in [0 .. 0 -> A]
    OBVIOUS
  <2>2. Upto(g, 0)
    OBVIOUS
  <2> HIDE DEF g
  <2>3. QED
    BY <2>1, <2>2
<1>2. ASSUME NEW m \in 0 .. n - 1, m \in T PROVE m + 1 \in T
  <2>1. PICK g \in [0 .. m -> A] : Upto(g, m)
    BY <1>2
  <2> DEFINE h == [i \in 0 .. m + 1 |-> IF i = m + 1 THEN F[<<g[m], m + 1>>] ELSE g[i]]
  <2>2. h \in [0 .. m + 1 -> A]
    BY <2>1
  <2>3. h[0] = base
    BY <2>1
  <2>4. ASSUME NEW i \in 1 .. m + 1 PROVE h[i] = F[<<h[i - 1], i>>]
    <3>1. CASE i = m + 1
      <4>1. h[i] = F[<<g[m], m + 1>>] /\ h[i - 1] = g[m]
        BY <3>1
      <4>2. QED
        BY <3>1, <4>1
    <3>2. CASE i # m + 1
      <4>1. i \in 1 .. m /\ i - 1 \in 0 .. m /\ i \in 0 .. m
        BY <3>2
      <4>2. h[i] = g[i] /\ h[i - 1] = g[i - 1]
        BY <3>2, <4>1
      <4>3. QED
        BY <2>1, <4>1, <4>2
    <3>3. QED
      BY <3>1, <3>2
  <2> HIDE DEF h
  <2>5. QED
    BY <2>2, <2>3, <2>4
<1>3. n \in T
  <2> HIDE DEF T
  <2>1. \A i \in 0 .. n : i \in T
    BY <1>1, <1>2, Induction
  <2>2. QED
    BY <2>1
<1>4. QED
  BY <1>3

(* g is what a filter has let through of a list of n elements, place by place. *)
Filters(g, n, list, P) ==
  /\ g[0] = <<>> /\ Keep(list, P) = g[n]
  /\ \A i \in 1 .. n : g[i] = IF i \in P THEN Append(g[i - 1], list[i]) ELSE g[i - 1]

(* A filter, place by place.                                                   *)
LEMMA KeepSteps ==
  ASSUME NEW S, NEW list \in Seq(S), NEW P
  PROVE  \E g \in [0 .. Len(list) -> Seq(S)] : Filters(g, Len(list), list, P)
<1> DEFINE n == Len(list)
           step(a, i) == IF i \in P THEN Append(a, list[i]) ELSE a
           F == [z \in Seq(S) \X (1 .. n) |-> step(z[1], z[2])]
           eqn(keep) == keep = [i \in 0 .. n |-> IF i = 0 THEN <<>> ELSE IF i \in P THEN Append(keep[i - 1], list[i]) ELSE keep[i - 1]]
<1>1. n \in Nat /\ \A i \in 1 .. n : list[i] \in S
  OBVIOUS
<1>2. \A a \in Seq(S), i \in 1 .. n : step(a, i) \in Seq(S)
  BY <1>1, AppendProperties
<1>3. F \in [Seq(S) \X (1 .. n) -> Seq(S)]
  BY <1>2
<1>4. <<>> \in Seq(S)
  OBVIOUS
<1>5. \A a \in Seq(S), i \in 1 .. n : F[<<a, i>>] = step(a, i)
  OBVIOUS
<1>6. PICK g \in [0 .. n -> Seq(S)] : g[0] = <<>> /\ \A i \in 1 .. n : g[i] = F[<<g[i - 1], i>>]
  <2> DEFINE A == Seq(S)
             base == <<>>
  <2>a. n \in Nat /\ base \in A /\ F \in [A \X (1 .. n) -> A]
    BY <1>1, <1>3, <1>4
  <2> HIDE DEF F, n, A, base
  <2>b. \E g \in [0 .. n -> A] : Follows(g, n, base, F)
    BY <2>a, Recursion, Zenon
  <2>1. \E g \in [0 .. n -> Seq(S)] : g[0] = <<>> /\ \A i \in 1 .. n : g[i] = F[<<g[i - 1], i>>]
    BY <2>b DEF A, base, Follows
  <2>2. QED
    BY <2>1
<1>7. \A i \in 1 .. n : g[i] = step(g[i - 1], i)
  <2> HIDE DEF F, n, step
  <2>1. \A i \in 1 .. n : i - 1 \in 0 .. n
    BY <1>1
  <2>2. QED
    BY <1>5, <1>6, <2>1
<1>8. eqn(g)
  <2> HIDE DEF n, F
  <2>1. g = [i \in 0 .. n |-> g[i]]
    OBVIOUS
  <2>2. \A i \in 0 .. n : i # 0 => i \in 1 .. n
    BY <1>1
  <2>a. \A i \in 0 .. n : g[i] = IF i = 0 THEN <<>> ELSE step(g[i - 1], i)
    <3> HIDE DEF step
    <3> QED
      BY <1>6, <1>7, <2>2
  <2>3. QED
    BY <2>1, <2>a
<1>9. PICK keep : eqn(keep) /\ Keep(list, P) = keep[n]
  <2>1. eqn(CHOOSE keep : eqn(keep))
    BY <1>8
  <2>2. Keep(list, P) = (CHOOSE keep : eqn(keep))[n]
    BY DEF Keep
  <2>3. QED
    BY <2>1, <2>2
<1> DEFINE T == {i \in 0 .. n : keep[i] = g[i]}
<1>10. 0 \in T
  BY <1>1, <1>6, <1>9
<1>11. ASSUME NEW i \in 0 .. n - 1, i \in T PROVE i + 1 \in T
  <2> HIDE DEF n
  <2>1. i + 1 \in 0 .. n /\ i + 1 # 0 /\ (i + 1) - 1 = i
    BY <1>1
  <2>a. keep[i + 1] = step(keep[(i + 1) - 1], i + 1)
    BY <1>9, <2>1
  <2>2. QED
    BY <1>1, <1>7, <1>11, <2>1, <2>a
<1>12. keep[n] = g[n]
  <2> HIDE DEF T
  <2>1. \A i \in 0 .. n : i \in T
    BY <1>1, <1>10, <1>11, Induction
  <2>2. QED
    BY <1>1, <2>1 DEF T
<1>13. QED
  BY <1>6, <1>7, <1>9, <1>12 DEF Filters

(* A filter leaves elements of the list, at places that it lets through.       *)
LEMMA KeepElements ==
  ASSUME NEW S, NEW list \in Seq(S), NEW P
  PROVE  /\ Keep(list, P) \in Seq(S)
         /\ \A k \in 1 .. Len(Keep(list, P)) : \E i \in DOMAIN list : i \in P /\ Keep(list, P)[k] = list[i]
<1> DEFINE n == Len(list)
<1>1. n \in Nat /\ DOMAIN list = 1 .. n /\ \A i \in 1 .. n : list[i] \in S
  OBVIOUS
<1>a. PICK g \in [0 .. n -> Seq(S)] : Filters(g, n, list, P)
  BY KeepSteps
<1>2. /\ g[0] = <<>> /\ Keep(list, P) = g[n]
      /\ \A i \in 1 .. n : g[i] = IF i \in P THEN Append(g[i - 1], list[i]) ELSE g[i - 1]
  BY <1>a DEF Filters
<1> DEFINE From(s) == \A k \in 1 .. Len(s) : \E i \in 1 .. n : i \in P /\ s[k] = list[i]
           T == {i \in 0 .. n : From(g[i])}
<1> HIDE DEF n
<1>3. 0 \in T
  BY <1>1, <1>2
<1>4. ASSUME NEW i \in 0 .. n - 1, i \in T PROVE i + 1 \in T
  <2>1. i + 1 \in 1 .. n /\ i + 1 \in 0 .. n /\ (i + 1) - 1 = i /\ i \in 0 .. n
    BY <1>1
  <2>2. g[i + 1] = IF i + 1 \in P THEN Append(g[i], list[i + 1]) ELSE g[i]
    BY <1>2, <2>1
  <2>3. g[i] \in Seq(S) /\ list[i + 1] \in S
    BY <1>1, <2>1
  <2>4. CASE i + 1 \in P
    <3> DEFINE s == Append(g[i], list[i + 1])
    <3>1. /\ Len(s) = Len(g[i]) + 1 /\ Len(g[i]) \in Nat
          /\ \A k \in 1 .. Len(g[i]) : s[k] = g[i][k]
          /\ s[Len(g[i]) + 1] = list[i + 1]
      BY <2>3, AppendProperties
    <3> HIDE DEF s
    <3>2. From(s)
      <4> SUFFICES ASSUME NEW k \in 1 .. Len(s) PROVE \E j \in 1 .. n : j \in P /\ s[k] = list[j]
        OBVIOUS
      <4>1. CASE k = Len(g[i]) + 1
        BY <2>1, <2>4, <3>1, <4>1
      <4>2. CASE k # Len(g[i]) + 1
        <5>1. k \in 1 .. Len(g[i])
          BY <3>1, <4>2
        <5>2. QED
          BY <1>4, <3>1, <5>1
      <4>3. QED
        BY <4>1, <4>2
    <3>3. QED
      BY <2>1, <2>2, <2>4, <3>2 DEF s
  <2>5. CASE i + 1 \notin P
    BY <1>4, <2>1, <2>2, <2>5
  <2>6. QED
    BY <2>4, <2>5
<1>5. From(Keep(list, P))
  <2> HIDE DEF T, From
  <2>1. \A i \in 0 .. n : i \in T
    BY <1>1, <1>3, <1>4, Induction
  <2>2. n \in T
    BY <1>1, <2>1
  <2>3. From(g[n])
    BY <2>2 DEF T
  <2>4. QED
    BY <1>2, <2>3
<1>6. Keep(list, P) \in Seq(S)
  BY <1>1, <1>2
<1>7. QED
  BY <1>1, <1>5, <1>6

(* The running total of the lengths of a list of ranges.                       *)
LEMMA PagesSteps ==
  ASSUME NEW R, NEW n \in Nat, n = Len(R), \A i \in 1 .. n : Size(R[i]) \in Nat
  PROVE  /\ PagesUpTo(R) \in [0 .. n -> Nat]
         /\ PagesUpTo(R)[0] = 0
         /\ \A i \in 1 .. n : PagesUpTo(R)[i] = PagesUpTo(R)[i - 1] + Size(R[i])
<1> DEFINE F == [z \in Nat \X (1 .. n) |-> z[1] + Size(R[z[2]])]
           eqn(p) == p = [i \in 0 .. n |-> IF i = 0 THEN 0 ELSE p[i - 1] + Size(R[i])]
<1>1. \A a \in Nat, i \in 1 .. n : a + Size(R[i]) \in Nat /\ F[<<a, i>>] = a + Size(R[i])
  OBVIOUS
<1>2. F \in [Nat \X (1 .. n) -> Nat]
  BY <1>1
<1>3. PICK g \in [0 .. n -> Nat] : Follows(g, n, 0, F)
  <2> HIDE DEF F
  <2>1. QED
    BY <1>2, Recursion
<1> HIDE DEF F
<1>4. g[0] = 0 /\ \A i \in 1 .. n : g[i] = g[i - 1] + Size(R[i])
  <2>1. \A i \in 1 .. n : i - 1 \in 0 .. n /\ g[i - 1] \in Nat
    OBVIOUS
  <2>2. QED
    BY <1>1, <1>3, <2>1 DEF Follows
<1>5. eqn(g)
  BY <1>4
<1>6. eqn(PagesUpTo(R))
  <2>1. eqn(CHOOSE p : eqn(p))
    BY <1>5
  <2>2. QED
    BY <2>1 DEF PagesUpTo
<1> DEFINE p == PagesUpTo(R)
<1> HIDE DEF p
<1>7. p = [i \in 0 .. n |-> IF i = 0 THEN 0 ELSE p[i - 1] + Size(R[i])]
  BY <1>6 DEF p
<1> DEFINE T == {i \in 0 .. n : p[i] = g[i]}
<1>8. 0 \in T
  BY <1>4, <1>7
<1>9. ASSUME NEW i \in 0 .. n - 1, i \in T PROVE i + 1 \in T
  BY <1>4, <1>7, <1>9
<1>10. \A i \in 0 .. n : p[i] = g[i]
  <2> HIDE DEF T
  <2>1. \A i \in 0 .. n : i \in T
    BY <1>8, <1>9, Induction
  <2>2. QED
    BY <2>1 DEF T
<1>11. p = g
  BY <1>7, <1>10
<1>12. QED
  BY <1>4, <1>11 DEF p

(* It grows. *)
LEMMA Monotone ==
  ASSUME NEW n \in Nat, NEW p \in [0 .. n -> Nat], \A i \in 1 .. n : p[i - 1] <= p[i]
  PROVE  \A j \in 0 .. n : \A i \in 0 .. j : p[i] <= p[j]
<1> DEFINE T == {j \in 0 .. n : \A i \in 0 .. j : p[i] <= p[j]}
<1>1. 0 \in T
  OBVIOUS
<1>2. ASSUME NEW j \in 0 .. n - 1, j \in T PROVE j + 1 \in T
  <2>1. p[j] <= p[j + 1] /\ p[j] \in Nat /\ p[j + 1] \in Nat
    <3>1. j + 1 \in 1 .. n /\ (j + 1) - 1 = j
      OBVIOUS
    <3>2. QED
      BY <3>1
  <2>2. \A i \in 0 .. j + 1 : i \in 0 .. j \/ i = j + 1
    OBVIOUS
  <2>3. ASSUME NEW i \in 0 .. j PROVE p[i] <= p[j + 1]
    BY <1>2, <2>1
  <2>4. QED
    BY <2>1, <2>2, <2>3
<1>3. QED
  <2> HIDE DEF T
  <2>1. \A j \in 0 .. n : j \in T
    BY <1>1, <1>2, Induction
  <2>2. QED
    BY <2>1 DEF T

(* Every place of the joined list comes from one of the ranges.                *)
LEMMA Covered ==
  ASSUME NEW n \in Nat, NEW p \in [0 .. n -> Nat], p[0] = 0, NEW x \in 1 .. p[n]
  PROVE  \E i \in 1 .. n : p[i - 1] < x /\ x <= p[i]
<1> DEFINE T == {i \in 0 .. n : x <= p[i]}
<1>1. T \subseteq Nat /\ n \in T
  OBVIOUS
<1>2. PICK i \in T : \A j \in T : i <= j
  <2> HIDE DEF T
  <2> QED
    BY <1>1, Least
<1>3. i \in 1 .. n /\ i - 1 \notin T
  BY <1>2
<1>4. QED
  BY <1>2, <1>3

(* g is what joining the sequences of ss one after the other yields.           *)
Joins(g, n, ss) ==
  g[0] = <<>> /\ FlattenSeq(ss) = g[n] /\ \A i \in 1 .. n : g[i] = g[i - 1] \o ss[i]

(* FlattenSeq, sequence by sequence.                                           *)
LEMMA JoinSteps ==
  ASSUME NEW S, NEW ss \in Seq(Seq(S)), NEW n \in Nat, n = Len(ss)
  PROVE  \E g \in [0 .. n -> Seq(S)] : Joins(g, n, ss)
<1> DEFINE F == [z \in Seq(S) \X (1 .. n) |-> z[1] \o ss[z[2]]]
           eqn(f) == f = [i \in 1 .. n |-> IF i = 1 THEN ss[i] ELSE f[i - 1] \o ss[i]]
<1>1. \A i \in 1 .. n : ss[i] \in Seq(S)
  OBVIOUS
<1>2. \A a \in Seq(S), i \in 1 .. n : a \o ss[i] \in Seq(S) /\ F[<<a, i>>] = a \o ss[i]
  BY <1>1, ConcatProperties
<1>3. F \in [Seq(S) \X (1 .. n) -> Seq(S)]
  BY <1>2
<1>4. PICK g \in [0 .. n -> Seq(S)] : Follows(g, n, <<>>, F)
  <2> DEFINE A == Seq(S)
             base == <<>>
  <2>1. base \in A /\ F \in [A \X (1 .. n) -> A]
    BY <1>3
  <2> HIDE DEF A, base, F
  <2>2. \E g \in [0 .. n -> A] : Follows(g, n, base, F)
    BY <2>1, Recursion, Zenon
  <2>3. QED
    BY <2>2 DEF A, base
<1> HIDE DEF F
<1>5. \A i \in 1 .. n : i - 1 \in 0 .. n /\ g[i - 1] \in Seq(S) /\ i \in 0 .. n /\ g[i] \in Seq(S)
  <2>1. \A i \in 1 .. n : i - 1 \in 0 .. n /\ i \in 0 .. n
    OBVIOUS
  <2>2. QED
    BY <1>4, <2>1
<1>6. g[0] = <<>> /\ \A i \in 1 .. n : g[i] = g[i - 1] \o ss[i]
  BY <1>2, <1>4, <1>5 DEF Follows
<1>7. CASE n = 0
  <2>a. ss = <<>>
    <3> DEFINE A == Seq(S)
    <3>1. ss \in Seq(A) /\ Len(ss) = 0
      BY <1>7
    <3> HIDE DEF A
    <3>2. QED
      BY <3>1, EmptySeq
  <2>b. FlattenSeq(ss) = ss
    BY <1>7, SMT DEF FlattenSeq
  <2>1. ss = <<>> /\ FlattenSeq(ss) = ss
    BY <2>a, <2>b
  <2>2. QED
    BY <1>4, <1>6, <1>7, <2>1 DEF Joins
<1>8. CASE n # 0
  <2> DEFINE h == [i \in 1 .. n |-> g[i]]
  <2>1. g[1] = ss[1]
    <3>1. 1 \in 1 .. n /\ 1 - 1 = 0
      BY <1>8
    <3>2. g[1] = <<>> \o ss[1] /\ ss[1] \in Seq(S)
      BY <1>1, <1>6, <3>1
    <3>3. QED
      BY <3>2, ConcatEmptySeq
  <2>2. ASSUME NEW i \in 1 .. n PROVE h[i] = IF i = 1 THEN ss[i] ELSE h[i - 1] \o ss[i]
    <3>1. CASE i = 1
      BY <2>1, <3>1
    <3>2. CASE i # 1
      <4>1. i - 1 \in 1 .. n
        BY <3>2
      <4>2. h[i - 1] = g[i - 1] /\ h[i] = g[i]
        BY <4>1
      <4>3. QED
        BY <1>6, <3>2, <4>2
    <3>3. QED
      BY <3>1, <3>2
  <2>3. eqn(h)
    <3> HIDE DEF h
    <3>1. h = [i \in 1 .. n |-> h[i]]
      BY DEF h
    <3>2. QED
      BY <2>2, <3>1
  <2>4. PICK f : eqn(f) /\ FlattenSeq(ss) = f[n]
    <3>1. eqn(CHOOSE f : eqn(f))
      <4> HIDE DEF h
      <4> QED
        BY <2>3
    <3>2. FlattenSeq(ss) = (CHOOSE f : eqn(f))[n]
      BY <1>8 DEF FlattenSeq
    <3>3. QED
      BY <3>1, <3>2
  <2> DEFINE T == {i \in 0 .. n : i # 0 => f[i] = g[i]}
  <2>5. 0 \in T
    OBVIOUS
  <2>6. ASSUME NEW i \in 0 .. n - 1, i \in T PROVE i + 1 \in T
    <3>1. i + 1 \in 1 .. n /\ i + 1 \in 0 .. n /\ (i + 1) - 1 = i
      OBVIOUS
    <3>2. g[i + 1] = g[i] \o ss[i + 1]
      BY <1>6, <3>1
    <3>3. f[i + 1] = IF i + 1 = 1 THEN ss[i + 1] ELSE f[(i + 1) - 1] \o ss[i + 1]
      BY <2>4, <3>1
    <3>4. CASE i = 0
      BY <2>1, <3>1, <3>3, <3>4
    <3>5. CASE i # 0
      <4>1. f[i] = g[i]
        BY <2>6, <3>5
      <4>2. f[i + 1] = f[i] \o ss[i + 1]
        <5>1. i + 1 # 1
          BY <3>5
        <5>2. f[i + 1] = f[(i + 1) - 1] \o ss[i + 1]
          BY <3>3, <5>1, Zenon
        <5>3. QED
          BY <3>1, <5>2, Zenon
      <4>3. QED
        BY <3>1, <3>2, <4>1, <4>2
    <3>6. QED
      BY <3>4, <3>5
  <2>7. f[n] = g[n]
    <3> HIDE DEF T
    <3>1. \A i \in 0 .. n : i \in T
      BY <2>5, <2>6, Induction
    <3>2. n \in T
      BY <3>1
    <3>3. QED
      BY <1>8, <3>2 DEF T
  <2>8. QED
    BY <1>4, <1>6, <2>4, <2>7 DEF Joins
<1>9. QED
  BY <1>7, <1>8

(* The pages of a list of ranges: how many there are, and what stands where.   *)
LEMMA PagesAt ==
  ASSUME NEW S, NEW R \in Seq(S), NEW n \in Nat, n = Len(R),
         \A r \in S : r.start \in Nat /\ r.end \in Nat /\ r.start <= r.end
  PROVE  /\ PagesInOrder(R) \in Seq(Int) /\ Len(PagesInOrder(R)) = PagesUpTo(R)[n]
         /\ \A i \in 1 .. n : \A x \in PagesUpTo(R)[i - 1] + 1 .. PagesUpTo(R)[i] :
              PagesInOrder(R)[x] = R[i].start + x - PagesUpTo(R)[i - 1] - 1
<1> DEFINE pages(i) == [k \in 1 .. R[i].end - R[i].start |-> R[i].start + k - 1]
           ss == [i \in 1 .. n |-> pages(i)]
           p == PagesUpTo(R)
<1>1. DOMAIN R = 1 .. n /\ \A i \in 1 .. n : R[i] \in S
  OBVIOUS
<1>2. \A i \in 1 .. n :
        R[i].start \in Nat /\ R[i].end \in Nat /\ R[i].end - R[i].start \in Nat
  BY <1>1
<1>3. ASSUME NEW i \in 1 .. n
      PROVE  /\ pages(i) \in Seq(Int) /\ Len(pages(i)) = Size(R[i]) /\ Size(R[i]) \in Nat
             /\ \A k \in 1 .. Size(R[i]) : pages(i)[k] = R[i].start + k - 1
  <2>1. Size(R[i]) \in Nat /\ R[i].start \in Nat
    BY <1>2 DEF Size
  <2> DEFINE m == Size(R[i])
             a == R[i].start
             f == [k \in 1 .. m |-> a + k - 1]
  <2>2. pages(i) = f
    BY DEF Size
  <2> HIDE DEF pages, m, a
  <2>3. f \in [1 .. m -> Int]
    BY <2>1 DEF m, a
  <2>4. f \in Seq(Int) /\ Len(f) = m
    <3>1. m \in Nat
      BY <2>1 DEF m
    <3> HIDE DEF f
    <3>2. QED
      BY <2>3, <3>1
  <2>5. \A k \in 1 .. m : f[k] = a + k - 1
    OBVIOUS
  <2>6. pages(i) \in Seq(Int) /\ Len(pages(i)) = m
    BY <2>2, <2>4
  <2>7. \A k \in 1 .. m : pages(i)[k] = a + k - 1
    BY <2>2, <2>5
  <2>8. QED
    BY <2>1, <2>6, <2>7 DEF m, a
<1>4. ss \in Seq(Seq(Int)) /\ Len(ss) = n /\ \A i \in 1 .. n : ss[i] = pages(i)
  <2> HIDE DEF pages
  <2>1. \A i \in 1 .. n : pages(i) \in Seq(Int)
    BY <1>3
  <2>2. ss \in [1 .. n -> Seq(Int)]
    BY <2>1
  <2>3. QED
    BY <2>2
<1>5. PagesInOrder(R) = FlattenSeq(ss)
  BY <1>1 DEF PagesInOrder
<1>6. PICK g \in [0 .. n -> Seq(Int)] : Joins(g, n, ss)
  <2> HIDE DEF ss
  <2> QED
    BY <1>4, JoinSteps
<1>7. p \in [0 .. n -> Nat] /\ p[0] = 0 /\ \A i \in 1 .. n : p[i] = p[i - 1] + Size(R[i])
  BY <1>3, PagesSteps
<1> HIDE DEF p, ss, pages
<1>8. /\ g[0] = <<>> /\ PagesInOrder(R) = g[n]
      /\ \A i \in 1 .. n : g[i] = g[i - 1] \o pages(i)
  BY <1>4, <1>5, <1>6 DEF Joins
<1>9. \A i \in 0 .. n : g[i] \in Seq(Int) /\ p[i] \in Nat
  BY <1>6, <1>7
<1> DEFINE Right(s, i) == \A x \in p[i - 1] + 1 .. p[i] : s[x] = R[i].start + x - p[i - 1] - 1
           T == {m \in 0 .. n : Len(g[m]) = p[m] /\ \A i \in 1 .. m : Right(g[m], i)}
<1>10. 0 \in T
  BY <1>7, <1>8
<1>11. ASSUME NEW m \in 0 .. n - 1, m \in T PROVE m + 1 \in T
  <2>1. m + 1 \in 1 .. n /\ m + 1 \in 0 .. n /\ (m + 1) - 1 = m /\ m \in 0 .. n
    OBVIOUS
  <2>2. /\ g[m + 1] = g[m] \o pages(m + 1) /\ p[m + 1] = p[m] + Size(R[m + 1])
        /\ Len(g[m]) = p[m] /\ g[m] \in Seq(Int) /\ p[m] \in Nat
    BY <1>7, <1>8, <1>9, <1>11, <2>1
  <2>3. /\ pages(m + 1) \in Seq(Int) /\ Len(pages(m + 1)) = Size(R[m + 1]) /\ Size(R[m + 1]) \in Nat
        /\ \A k \in 1 .. Size(R[m + 1]) : pages(m + 1)[k] = R[m + 1].start + k - 1
    BY <1>3, <2>1
  <2>4. /\ Len(g[m + 1]) = p[m + 1]
        /\ \A x \in 1 .. p[m + 1] : g[m + 1][x] = IF x <= p[m] THEN g[m][x] ELSE pages(m + 1)[x - p[m]]
    <3> DEFINE s1 == g[m]
               s2 == pages(m + 1)
    <3>1. s1 \in Seq(Int) /\ s2 \in Seq(Int) /\ Len(s1) = p[m] /\ Len(s2) = Size(R[m + 1])
      BY <2>2, <2>3
    <3>2. g[m + 1] = s1 \o s2
      BY <2>2
    <3> HIDE DEF s1, s2
    <3>3. /\ Len(s1 \o s2) = Len(s1) + Len(s2)
          /\ \A x \in 1 .. Len(s1) + Len(s2) : (s1 \o s2)[x] = IF x <= Len(s1) THEN s1[x] ELSE s2[x - Len(s1)]
      BY <3>1, ConcatProperties
    <3>4. p[m + 1] = Len(s1) + Len(s2)
      BY <2>2, <3>1
    <3>5. Len(g[m + 1]) = p[m + 1]
      BY <3>2, <3>3, <3>4
    <3>6. \A x \in 1 .. p[m + 1] : g[m + 1][x] = IF x <= Len(s1) THEN s1[x] ELSE s2[x - Len(s1)]
      BY <3>2, <3>3, <3>4
    <3>7. QED
      BY <3>1, <3>5, <3>6 DEF s1, s2
  <2>5. ASSUME NEW i \in 1 .. m + 1 PROVE Right(g[m + 1], i)
    <3>1. CASE i = m + 1
      <4> SUFFICES ASSUME NEW x \in p[m] + 1 .. p[m + 1]
                   PROVE  g[m + 1][x] = R[m + 1].start + x - p[m] - 1
        BY <2>1, <3>1
      <4>1. x \in 1 .. p[m + 1] /\ ~(x <= p[m]) /\ x - p[m] \in 1 .. Size(R[m + 1])
        BY <2>2, <2>3
      <4>2. g[m + 1][x] = R[m + 1].start + (x - p[m]) - 1
        BY <2>3, <2>4, <4>1
      <4>3. R[m + 1].start \in Nat
        BY <1>2, <2>1
      <4>4. QED
        BY <2>2, <4>1, <4>2, <4>3
    <3>2. CASE i # m + 1
      <4>1. i \in 1 .. m /\ i \in 0 .. m /\ i - 1 \in 0 .. n /\ i \in 1 .. n
        BY <3>2
      <4>2. p[i] <= p[m] /\ p[i - 1] \in Nat /\ p[i] \in Nat
        <5>1. \A j \in 1 .. n : p[j - 1] <= p[j]
          <6> SUFFICES ASSUME NEW j \in 1 .. n PROVE p[j - 1] <= p[j]
            OBVIOUS
          <6>1. p[j] = p[j - 1] + Size(R[j]) /\ Size(R[j]) \in Nat /\ p[j - 1] \in Nat
            BY <1>3, <1>7, <1>9
          <6>2. QED
            BY <6>1
        <5>2. \A j \in 0 .. n : \A l \in 0 .. j : p[l] <= p[j]
          BY <1>7, <5>1, Monotone
        <5>3. QED
          BY <1>9, <2>1, <4>1, <5>2
      <4>3. Right(g[m], i)
        BY <1>11, <4>1
      <4> SUFFICES ASSUME NEW x \in p[i - 1] + 1 .. p[i]
                   PROVE  g[m + 1][x] = R[i].start + x - p[i - 1] - 1
        OBVIOUS
      <4>4. x \in 1 .. p[m + 1] /\ x <= p[m]
        <5>1. p[m] <= p[m + 1] /\ p[m] \in Nat /\ p[m + 1] \in Nat
          BY <2>2, <2>3
        <5>2. x \in Nat /\ 1 <= x /\ x <= p[i]
          BY <4>2
        <5>3. QED
          BY <4>2, <5>1, <5>2
      <4>5. g[m + 1][x] = g[m][x]
        BY <2>4, <4>4
      <4>6. QED
        BY <4>3, <4>5
    <3>3. QED
      BY <3>1, <3>2
  <2>6. QED
    BY <2>1, <2>4, <2>5
<1>12. n \in T
  <2> HIDE DEF T
  <2>1. \A i \in 0 .. n : i \in T
    BY <1>10, <1>11, Induction
  <2>2. QED
    BY <2>1
<1>13. QED
  <2>1. Len(g[n]) = p[n] /\ \A i \in 1 .. n : Right(g[n], i)
    BY <1>12
  <2>2. QED
    BY <1>8, <1>9, <2>1 DEF p

(* The places taken are the first ones, and all of them, or the cap is reached. *)
LEMMA TakenIsPrefix ==
  ASSUME NEW E \in Seq(MapsEntries), NEW n \in Nat, n = Len(E), NEW p, p = PagesUpTo(E)
  PROVE  \E k \in 0 .. n : /\ Taken(E) = 1 .. k
                           /\ \A i \in 1 .. k : p[i - 1] < MaxPages
                           /\ k < n => MaxPages <= p[k]
<1> DEFINE Free == {i \in 1 .. n + 1 : i \notin Taken(E)}
<1>1. DOMAIN E = 1 .. n /\ \A i \in 1 .. n : E[i] \in MapsEntries
  OBVIOUS
<1>2. ASSUME NEW i \in 1 .. n PROVE Size(E[i]) \in Nat /\ Size(E[i]) > 0
  BY <1>1 DEF MapsEntries, Size
<1>3. p \in [0 .. n -> Nat]
  BY <1>2, PagesSteps
<1>4. Taken(E) = {i \in 1 .. n : \A j \in 1 .. i : p[j - 1] < MaxPages}
  <2>1. \A i \in 1 .. n : \A j \in 1 .. i : Size(E[j]) > 0
    BY <1>2
  <2>2. QED
    BY <1>1, <2>1 DEF Taken
<1>5. PICK m \in Free : \A i \in Free : m <= i
  <2>1. Free \subseteq Nat /\ n + 1 \in Free
    BY <1>4
  <2> HIDE DEF Free
  <2>2. QED
    BY <2>1, Least
<1>6. ASSUME NEW i \in 1 .. n PROVE i \in Taken(E) <=> i < m
  <2>1. CASE i < m
    BY <1>5, <2>1
  <2>2. CASE ~(i < m)
    <3>1. m \in 1 .. n /\ m \notin Taken(E) /\ m <= i
      BY <1>5, <2>2
    <3>2. PICK j \in 1 .. m : ~(p[j - 1] < MaxPages)
      BY <1>4, <3>1
    <3>3. j \in 1 .. i
      BY <3>1, <3>2
    <3>4. QED
      BY <1>4, <2>2, <3>2, <3>3
  <2>3. QED
    BY <2>1, <2>2
<1>7. m - 1 \in 0 .. n /\ Taken(E) = 1 .. (m - 1)
  <2>1. m \in 1 .. n + 1
    BY <1>5
  <2>2. Taken(E) \subseteq 1 .. n
    BY <1>4
  <2>3. \A i : i \in 1 .. (m - 1) <=> i \in 1 .. n /\ i < m
    BY <2>1
  <2> DEFINE A == Taken(E)
             C == 1 .. (m - 1)
  <2> HIDE DEF A, C
  <2>4. \A i : i \in A <=> i \in C
    BY <1>6, <2>2, <2>3 DEF A, C
  <2>5. A = C
    BY <2>4
  <2>6. QED
    BY <2>1, <2>5 DEF A, C
<1>8. ASSUME NEW i \in 1 .. m - 1 PROVE p[i - 1] < MaxPages
  <2>1. i \in Taken(E) /\ i \in 1 .. i
    BY <1>7
  <2>2. QED
    BY <1>4, <2>1
<1>9. ASSUME m - 1 < n PROVE MaxPages <= p[m - 1]
  <2>1. m \in 1 .. n /\ m \notin Taken(E)
    BY <1>5, <1>9
  <2>2. PICK j \in 1 .. m : ~(p[j - 1] < MaxPages)
    BY <1>4, <2>1
  <2>3. j = m
    <3>1. CASE j < m
      <4>1. j \in 1 .. m - 1
        BY <2>1, <3>1
      <4>2. QED
        BY <1>8, <2>2, <4>1
    <3>2. QED
      BY <2>1, <2>2, <3>1
  <2>4. p[m - 1] \in Nat
    BY <1>3, <1>7
  <2>5. QED
    BY <2>2, <2>3, <2>4, MadviseAssumption
<1>10. QED
  BY <1>7, <1>8, <1>9

(* What build_batch keeps of its regions are the first pages of them, as many as *)
(* there are or as many as the cap allows.                                     *)
LEMMA BatchCapped ==
  ASSUME NEW E \in Seq(MapsEntries)
  PROVE  LET all == PagesInOrder(E)
         IN  PagesInOrder(BuildBatch(E)) = SubSeq(all, 1, IF Len(all) < MaxPages THEN Len(all) ELSE MaxPages)
<1> DEFINE n == Len(E)
           p == PagesUpTo(E)
           B == BuildBatch(E)
           q == PagesUpTo(B)
           lower(a, b) == IF a < b THEN a ELSE b
           all == PagesInOrder(E)
           advised == PagesInOrder(B)
           Ranges == [start : Nat, end : Nat]
<1>1. n \in Nat /\ DOMAIN E = 1 .. n /\ \A i \in 1 .. n : E[i] \in MapsEntries
  OBVIOUS
<1>2. \A r \in MapsEntries : r.start \in Nat /\ r.end \in Nat /\ r.start <= r.end
  BY DEF MapsEntries
<1>3. \A i \in 1 .. n : Size(E[i]) \in Nat /\ E[i].start \in Nat
  BY <1>1 DEF MapsEntries, Size
<1>4. p \in [0 .. n -> Nat] /\ p[0] = 0 /\ \A i \in 1 .. n : p[i] = p[i - 1] + Size(E[i])
  BY <1>3, PagesSteps
<1>5. PICK k \in 0 .. n : /\ Taken(E) = 1 .. k
                          /\ \A i \in 1 .. k : p[i - 1] < MaxPages
                          /\ k < n => MaxPages <= p[k]
  BY TakenIsPrefix
<1>6. MaxPages \in Nat
  BY MadviseAssumption
<1> DEFINE len(i) == lower(Size(E[i]), MaxPages - p[i - 1])
           cut == [i \in 1 .. k |-> [start |-> E[i].start, end |-> E[i].start + len(i)]]
<1>7. B = cut
  BY <1>5 DEF BuildBatch
<1> HIDE DEF n, p, q, B
<1>8. ASSUME NEW i \in 1 .. k
      PROVE  /\ i \in 1 .. n /\ i - 1 \in 0 .. k /\ i - 1 \in 0 .. n /\ i \in 0 .. n
             /\ p[i - 1] \in Nat /\ p[i] \in Nat /\ p[i] = p[i - 1] + Size(E[i]) /\ p[i - 1] < MaxPages
             /\ len(i) \in Nat /\ E[i].start \in Nat /\ p[i - 1] + len(i) = lower(p[i], MaxPages)
  <2>1. i \in 1 .. n /\ i - 1 \in 0 .. k /\ i - 1 \in 0 .. n /\ i \in 0 .. n
    BY <1>1, <1>5
  <2>2. p[i - 1] \in Nat /\ p[i] \in Nat /\ p[i] = p[i - 1] + Size(E[i]) /\ p[i - 1] < MaxPages
    BY <1>4, <1>5, <2>1
  <2>3. Size(E[i]) \in Nat /\ E[i].start \in Nat
    BY <1>3, <2>1
  <2>4. QED
    BY <1>6, <2>1, <2>2, <2>3
<1>9. ASSUME NEW i \in 1 .. k
      PROVE  B[i] \in Ranges /\ B[i].start = E[i].start /\ B[i].start <= B[i].end /\ Size(B[i]) = len(i)
  <2> HIDE DEF len
  <2>1. B[i] = [start |-> E[i].start, end |-> E[i].start + len(i)]
    BY <1>7
  <2>2. len(i) \in Nat /\ E[i].start \in Nat
    BY <1>8
  <2>3. QED
    BY <2>1, <2>2 DEF Size
<1>10. k \in Nat /\ k <= n
  BY <1>1, <1>5
<1> HIDE DEF len
<1>11. B \in Seq({r \in Ranges : r.start <= r.end}) /\ Len(B) = k
  <2> DEFINE S == {r \in Ranges : r.start <= r.end}
  <2>1. DOMAIN B = 1 .. k /\ B = [i \in 1 .. k |-> B[i]]
    BY <1>7
  <2>2. \A i \in 1 .. k : B[i] \in S
    BY <1>9
  <2>3. B \in [1 .. k -> S]
    BY <2>1, <2>2
  <2> HIDE DEF S
  <2>4. B \in Seq(S) /\ Len(B) = k
    BY <1>10, <2>3
  <2>5. QED
    BY <2>4 DEF S
<1>12. q \in [0 .. k -> Nat] /\ q[0] = 0 /\ \A i \in 1 .. k : q[i] = q[i - 1] + len(i)
  <2>1. \A i \in 1 .. k : Size(B[i]) \in Nat
    BY <1>8, <1>9
  <2>2. /\ q \in [0 .. k -> Nat] /\ q[0] = 0
        /\ \A i \in 1 .. k : q[i] = q[i - 1] + Size(B[i])
    BY <1>10, <1>11, <2>1, PagesSteps DEF q
  <2>3. QED
    BY <1>9, <2>2
<1>13. \A i \in 0 .. k : q[i] = lower(p[i], MaxPages)
  <2> DEFINE T == {i \in 0 .. k : q[i] = lower(p[i], MaxPages)}
  <2>1. 0 \in T
    BY <1>4, <1>6, <1>10, <1>12
  <2>2. ASSUME NEW i \in 0 .. k - 1, i \in T PROVE i + 1 \in T
    <3>1. i + 1 \in 1 .. k /\ i + 1 \in 0 .. k /\ (i + 1) - 1 = i
      BY <1>10
    <3>2. p[i] \in Nat /\ p[i] < MaxPages /\ p[i] + len(i + 1) = lower(p[i + 1], MaxPages)
      BY <1>8, <3>1
    <3>3. q[i] = p[i]
      BY <2>2, <3>2
    <3>4. q[i + 1] = q[i] + len(i + 1)
      BY <1>12, <3>1
    <3> HIDE DEF lower
    <3>5. QED
      BY <3>1, <3>2, <3>3, <3>4
  <2> HIDE DEF T
  <2>3. \A i \in 0 .. k : i \in T
    BY <1>10, <2>1, <2>2, Induction
  <2>4. QED
    BY <2>3 DEF T
<1>14. /\ all \in Seq(Int) /\ Len(all) = p[n]
       /\ \A i \in 1 .. n : \A x \in p[i - 1] + 1 .. p[i] : all[x] = E[i].start + x - p[i - 1] - 1
  BY <1>1, <1>2, PagesAt DEF n, p
<1>15. /\ advised \in Seq(Int) /\ Len(advised) = q[k]
       /\ \A i \in 1 .. k : \A x \in q[i - 1] + 1 .. q[i] : advised[x] = B[i].start + x - q[i - 1] - 1
  <2> DEFINE S == {r \in Ranges : r.start <= r.end}
  <2>1. \A r \in S : r.start \in Nat /\ r.end \in Nat /\ r.start <= r.end
    OBVIOUS
  <2>2. B \in Seq(S) /\ k = Len(B)
    BY <1>11
  <2> HIDE DEF S
  <2>3. QED
    BY <1>10, <2>1, <2>2, PagesAt DEF q
<1> HIDE DEF all, advised
<1>16. p[n] \in Nat /\ p[k] \in Nat /\ p[k] <= p[n]
  <2>1. \A i \in 1 .. n : p[i - 1] <= p[i]
    <3> SUFFICES ASSUME NEW i \in 1 .. n PROVE p[i - 1] <= p[i]
      OBVIOUS
    <3>1. i - 1 \in 0 .. n
      BY <1>1
    <3>2. p[i - 1] \in Nat /\ Size(E[i]) \in Nat /\ p[i] = p[i - 1] + Size(E[i])
      BY <1>3, <1>4, <3>1
    <3>3. QED
      BY <3>2
  <2>2. \A j \in 0 .. n : \A i \in 0 .. j : p[i] <= p[j]
    BY <1>1, <1>4, <2>1, Monotone
  <2>3. n \in 0 .. n /\ k \in 0 .. n
    BY <1>1, <1>5
  <2>4. QED
    BY <1>4, <2>2, <2>3
<1> DEFINE total == lower(Len(all), MaxPages)
<1>17. total \in Nat /\ total = q[k] /\ total <= Len(all)
  <2>1. q[k] = lower(p[k], MaxPages)
    BY <1>10, <1>13
  <2>2. k = n \/ MaxPages <= p[k]
    BY <1>5, <1>10, <1>1
  <2>3. QED
    BY <1>6, <1>14, <1>16, <2>1, <2>2
<1>18. ASSUME NEW x \in 1 .. total PROVE advised[x] = all[x]
  <2>1. PICK i \in 1 .. k : q[i - 1] < x /\ x <= q[i]
    BY <1>10, <1>12, <1>17, Covered
  <2>2. q[i - 1] = p[i - 1] /\ q[i] <= p[i] /\ q[i] \in Nat
    <3>1. q[i - 1] = lower(p[i - 1], MaxPages) /\ q[i] = lower(p[i], MaxPages) /\ q[i] \in Nat
      BY <1>12, <1>13, <1>8, <1>10
    <3>2. QED
      BY <1>6, <1>8, <3>1
  <2>3. x \in q[i - 1] + 1 .. q[i] /\ x \in p[i - 1] + 1 .. p[i]
    BY <1>8, <1>17, <2>1, <2>2
  <2>4. advised[x] = B[i].start + x - q[i - 1] - 1
    BY <1>15, <2>3
  <2>5. all[x] = E[i].start + x - p[i - 1] - 1
    BY <1>8, <1>14, <2>3
  <2>6. QED
    BY <1>9, <2>2, <2>4, <2>5
<1> DEFINE prefix == SubSeq(all, 1, total)
<1>19. prefix \in Seq(Int) /\ Len(prefix) = total /\ \A x \in 1 .. total : prefix[x] = all[x]
  <2> HIDE DEF total
  <2>1. \A x \in 1 .. total : x \in 1 .. Len(all)
    BY <1>14, <1>17
  <2>2. QED
    BY <1>14, <1>17, <2>1, SubSeqProperties
<1>20. advised = prefix
  <2> HIDE DEF prefix, total
  <2>1. QED
    BY <1>15, <1>17, <1>18, <1>19, SeqEqual
<1>21. QED
  BY <1>20 DEF all, advised, B

(* A multiple of a number leaves no remainder. *)
LEMMA MultipleOf == ASSUME NEW T \in Nat \ {0}, NEW k \in Nat PROVE k * T \in Nat /\ (k * T) % T = 0
<1> DEFINE x == k * T
           q == x \div T
           r == x % T
<1>1. x \in Nat
  OBVIOUS
<1>2. q \in Int /\ r \in 0 .. T - 1 /\ x = T * q + r
  <2> HIDE DEF x
  <2> QED
    BY <1>1
<1> HIDE DEF q, r
<1>3. k * T = T * q + r
  BY <1>2
<1>4. r = (k - q) * T
  BY <1>2, <1>3
<1>5. CASE k - q >= 1
  <2>1. (k - q) * T >= T
    BY <1>2, <1>5
  <2>2. QED
    BY <1>2, <1>4, <2>1
<1>6. CASE k - q <= 0
  <2>1. (k - q) * T <= 0
    BY <1>2, <1>6
  <2>2. r = 0
    BY <1>2, <1>4, <2>1
  <2>3. QED
    BY <1>1, <2>2 DEF r
<1>7. QED
  BY <1>2, <1>5, <1>6

(* Rounding down to whole pages of size T, and up. *)
LEMMA Rounded ==
  ASSUME NEW T \in Nat \ {0}, NEW x \in Nat
  PROVE  /\ x \div T \in Nat /\ (x \div T) * T <= x
         /\ (x + T - 1) \div T \in Nat /\ x <= ((x + T - 1) \div T) * T
<1>1. \A y \in Nat : y \div T \in Nat /\ y % T \in 0 .. T - 1 /\ y = T * (y \div T) + (y % T)
  OBVIOUS
<1>2. \A y \in Nat : y \div T \in Nat /\ (y \div T) * T <= y /\ y < (y \div T) * T + T
  <2> SUFFICES ASSUME NEW y \in Nat
               PROVE  y \div T \in Nat /\ (y \div T) * T <= y /\ y < (y \div T) * T + T
    OBVIOUS
  <2> DEFINE d == y \div T
             r == y % T
  <2>1. d \in Nat /\ r \in 0 .. T - 1 /\ y = T * d + r
    BY <1>1
  <2> HIDE DEF d, r
  <2>2. T * d = d * T /\ d * T \in Nat
    BY <2>1
  <2>3. d \in Nat /\ d * T <= y /\ y < d * T + T
    BY <2>1, <2>2
  <2>4. QED
    BY <2>3 DEF d
<1>3. x + T - 1 \in Nat
  OBVIOUS
<1> DEFINE u == (x + T - 1) \div T
<1>4. u \in Nat /\ x + T - 1 < u * T + T
  BY <1>2, <1>3
<1> HIDE DEF u
<1>5. x <= u * T
  <2>1. u * T \in Nat
    BY <1>4
  <2>2. QED
    BY <1>4, <2>1
<1>6. QED
  BY <1>2, <1>4, <1>5 DEF u

(* What collapse_regions asks for are whole huge pages of an eligible region. *)
LEMMA CollapseWhole ==
  ASSUME NEW maps \in Seq(MapsEntries), NEW g \in ToSet(CollapseRanges(maps))
  PROVE  /\ g.start \in Nat /\ g.end \in Nat
         /\ g.start % ThpSize = 0 /\ g.end % ThpSize = 0 /\ g.start < g.end
         /\ \E r \in ToSet(maps) : Eligible(r) /\ r.start <= g.start /\ g.end <= r.end
<1> DEFINE large == {i \in DOMAIN maps : Eligible(maps[i]) /\ Size(maps[i]) >= ThpSize}
           ranges == [i \in DOMAIN maps |-> IF i \in large THEN ThpRange(maps[i]) ELSE maps[i]]
           whole == {i \in large : ranges[i].start < ranges[i].end}
           S == {ranges[i] : i \in DOMAIN maps}
<1>1. CollapseRanges(maps) = Keep(ranges, whole)
  BY DEF CollapseRanges
<1>2. DOMAIN maps = 1 .. Len(maps) /\ Len(maps) \in Nat /\ \A i \in DOMAIN maps : maps[i] \in MapsEntries
  OBVIOUS
<1>3. ranges \in Seq(S) /\ DOMAIN ranges = DOMAIN maps
  <2>1. ranges \in [1 .. Len(maps) -> S]
    BY <1>2
  <2> HIDE DEF ranges, S
  <2>2. QED
    BY <1>2, <2>1
<1>4. PICK i \in DOMAIN maps : i \in whole /\ g = ranges[i]
  <2> HIDE DEF ranges, S, whole
  <2>1. /\ Keep(ranges, whole) \in Seq(S)
        /\ \A k \in 1 .. Len(Keep(ranges, whole)) :
             \E i \in DOMAIN ranges : i \in whole /\ Keep(ranges, whole)[k] = ranges[i]
    BY <1>3, KeepElements
  <2>2. PICK k \in DOMAIN Keep(ranges, whole) : g = Keep(ranges, whole)[k]
    BY <1>1 DEF ToSet
  <2>3. k \in 1 .. Len(Keep(ranges, whole))
    BY <2>1, <2>2
  <2>4. QED
    BY <1>3, <2>1, <2>2, <2>3
<1> DEFINE r == maps[i]
           T == ThpSize
           lo == (r.start + T - 1) \div T
           hi == r.end \div T
<1>5. /\ Eligible(r) /\ g = ThpRange(r) /\ g.start < g.end /\ r \in ToSet(maps) /\ r \in MapsEntries
  BY <1>2, <1>4 DEF ToSet
<1>6. g.start = lo * T /\ g.end = hi * T
  BY <1>5 DEF ThpRange
<1>7. r.start \in Nat /\ r.end \in Nat /\ T \in Nat \ {0}
  BY <1>5, MadviseAssumption DEF MapsEntries
<1> HIDE DEF r, T, large, ranges, whole, S
<1>8. lo \in Nat /\ r.start <= lo * T /\ hi \in Nat /\ hi * T <= r.end
  BY <1>7, Rounded
<1> HIDE DEF lo, hi
<1>9. lo * T \in Nat /\ (lo * T) % T = 0 /\ hi * T \in Nat /\ (hi * T) % T = 0
  BY <1>7, <1>8, MultipleOf
<1>10. QED
  BY <1>5, <1>6, <1>8, <1>9 DEF T

(* Those larger than the i-th of the sorted list stand before it, and so there are *)
(* fewer than MaxCandidates of them where the list has not been truncated.     *)
LEMMA OrderIsOnto ==
  ASSUME NEW n \in Nat, NEW o \in [1 .. n -> 1 .. n],
         \A i, j \in 1 .. n : i < j => o[i] # o[j]
  PROVE  \A y \in 1 .. n : \E i \in 1 .. n : o[i] = y
<1> SUFFICES ASSUME NEW y \in 1 .. n, \A i \in 1 .. n : o[i] # y PROVE FALSE
  OBVIOUS
<1>1. IsFiniteSet(1 .. n) /\ Cardinality(1 .. n) = n
  BY FS_Interval
<1>2. IsFiniteSet((1 .. n) \ {y}) /\ Cardinality((1 .. n) \ {y}) = n - 1
  BY <1>1, FS_RemoveElement
<1>3. o \in [1 .. n -> (1 .. n) \ {y}]
  OBVIOUS
<1>a. Cardinality((1 .. n) \ {y}) < Cardinality(1 .. n)
  BY <1>1, <1>2
<1>4. \E i, j \in 1 .. n : i # j /\ o[i] = o[j]
  BY <1>1, <1>2, <1>3, <1>a, FS_PigeonHole, Zenon
<1>5. QED
  BY <1>4

(* The pigeonhole principle. *)
LEMMA NoMoreThan ==
  ASSUME NEW S, IsFiniteSet(S), NEW T, IsFiniteSet(T), NEW f \in [S -> T],
         \A x, y \in S : f[x] = f[y] => x = y
  PROVE  ~(Cardinality(T) < Cardinality(S))
<1> SUFFICES ASSUME Cardinality(T) < Cardinality(S) PROVE FALSE
  OBVIOUS
<1>1. \E x, y \in S : x # y /\ f[x] = f[y]
  BY FS_PigeonHole, Zenon
<1>2. QED
  BY <1>1

(* What stands before place i of a list are fewer things than i. *)
LEMMA FewerBefore ==
  ASSUME NEW n \in Nat, NEW o \in [1 .. n -> 1 .. n], NEW i \in 1 .. n, NEW S,
         \A x \in S : \E l \in 1 .. i - 1 : o[l] = x
  PROVE  Cardinality(S) < i /\ IsFiniteSet(S)
<1>1. \E before \in [S -> 1 .. i - 1] : \A x \in S : o[before[x]] = x
  <2> DEFINE before == [x \in S |-> CHOOSE l \in 1 .. i - 1 : o[l] = x]
  <2>1. before \in [S -> 1 .. i - 1] /\ \A x \in S : o[before[x]] = x
    OBVIOUS
  <2>2. QED
    BY <2>1
<1>2. PICK before \in [S -> 1 .. i - 1] : \A x \in S : o[before[x]] = x
  BY <1>1
<1>3. IsFiniteSet(1 .. i - 1) /\ Cardinality(1 .. i - 1) = i - 1
  BY FS_Interval
<1>4. IsFiniteSet(1 .. n) /\ S \subseteq 1 .. n
  BY FS_Interval
<1>5. IsFiniteSet(S) /\ Cardinality(S) \in Nat
  BY <1>4, FS_Subset, FS_CardinalityType
<1>a. \A x, y \in S : before[x] = before[y] => x = y
  <2> SUFFICES ASSUME NEW x \in S, NEW y \in S, before[x] = before[y] PROVE x = y
    OBVIOUS
  <2>1. o[before[x]] = x /\ o[before[y]] = y
    BY <1>2
  <2>2. QED
    BY <2>1
<1>6. ~(Cardinality(1 .. i - 1) < Cardinality(S))
  BY <1>2, <1>3, <1>5, <1>a, NoMoreThan, Zenon
<1>7. QED
  BY <1>3, <1>5, <1>6

(* What stands in a sequence. *)
LEMMA ElementOf == ASSUME NEW S, NEW s \in Seq(S), NEW k \in 1 .. Len(s) PROVE s[k] \in S
OBVIOUS

(* A function on 1 .. n is a sequence. *)
LEMMA FunctionIsSeq ==
  ASSUME NEW S, NEW n \in Nat, NEW f \in [1 .. n -> S]
  PROVE  f \in Seq(S) /\ DOMAIN f = 1 .. n
OBVIOUS

-----------------------------------------------------------------------------
(* The injector, and the cycle as far as the injector depends on it.           *)

USE InjectorAssumption

Waiting == {"wait_attach", "wait_entry", "wait_exit"}
Holding == {"wait_failed", "inject", "resume", "finish", "give_up"}
Borrowing == {"wait_entry", "resume", "wait_exit", "finish", "give_up"}

InjectorTyped ==
  /\ image \in [Pids -> Images \cup {NoProc}]
  /\ marked = [p \in Pids |-> marked[p]]
  /\ mode \in [Pids -> Modes] /\ regs \in [Pids -> {"own", "injected"}]
  /\ halted \subseteq Pids /\ held \subseteq Pids
  /\ vdso \subseteq Pids
  /\ stage \in Stages
  /\ stage = "ready" => victim = NoPid
  /\ stage # "ready" => victim \in Pids
  /\ pend \subseteq Signals /\ report \in Reports /\ rax \in {"call", "nosys", "ok", "err"}
  /\ result \in {"none", "ok", "err"} /\ (stage # "done" => result = "none")
  /\ others \in 0 .. MaxSignals /\ events \in 0 .. MaxEvents

(* Whom the daemon traces at each stage, and who is left a zombie.             *)
TracingOK ==
  /\ stage = "wait_attach" => mode[victim] \in {"attached", "stopped", "zombie"}
  /\ stage \in {"wait_entry", "wait_exit"} => mode[victim] \in {"running", "stopped", "zombie"}
  /\ stage \in Holding => mode[victim] = "stopped" \/ (mode[victim] = "zombie" /\ victim \in held)
  /\ \A p \in Pids :
       (p = victim => stage \notin Waiting \cup Holding)
         => mode[p] = "free" \/ (mode[p] = "zombie" /\ p \in held)
  /\ \A p \in Pids : regs[p] = "injected" /\ mode[p] # "zombie" => p = victim /\ stage \in Borrowing

(* How many signals from elsewhere are pending for the victim, and whether the *)
(* SIGSTOP of the attach is, which is what a job-control stop would be left from. *)
One(condition) == IF condition THEN 1 ELSE 0
Pending == One("trap" \in pend) + One("realtime" \in pend) + One("other" \in pend)
StopLeft == "stop" \in pend /\ victim \notin halted

(* Each stage that a signal from elsewhere has brought the injection to has cost *)
(* one of them: others bounds what is pending and what has been taken.         *)
SignalsOK ==
  LET at(s, m) == stage = s /\ mode[victim] = m IN
  /\ at("wait_attach", "attached") => Pending <= others
  /\ at("wait_attach", "stopped") \/ at("inject", "stopped") \/ at("wait_entry", "running") =>
       Pending + One(StopLeft) <= others
  /\ at("wait_attach", "stopped") /\ report = "realtime" => others >= 1
  /\ at("wait_failed", "stopped") => report = "realtime" /\ others >= 1
  /\ at("wait_entry", "running") => rax = "call"
  /\ at("wait_entry", "stopped") \/ at("resume", "stopped") =>
       /\ Pending + One(StopLeft) + One(report \in {"trap", "realtime", "other"}) <= others
       /\ report \notin {"trap", "realtime", "other"} => "stop" \notin pend
       /\ rax \in {"call", "nosys"} /\ (rax = "call" <=> report # "sys")
  /\ at("resume", "stopped") => report \in {"trap", "sys"}
  /\ at("wait_exit", "running") =>
       /\ Pending + One(StopLeft) + One(rax = "call") <= others
       /\ rax \in {"call", "nosys"} /\ (rax = "nosys" => "stop" \notin pend)
  /\ at("wait_exit", "stopped") =>
       /\ rax = "call" /\ report \in {"trap", "sys"} => others >= 2
       /\ StopLeft => others >= 2
  /\ at("finish", "stopped") => (rax = "call" \/ StopLeft => others >= 2)
  /\ at("give_up", "stopped") => (StopLeft => others >= 2)

(* What the call has advised, when it has returned 0.                          *)
MarkedOK == stage \in {"wait_exit", "finish"} /\ rax = "ok" => RangePages \subseteq marked[victim]

InjectorInv == InjectorTyped /\ TracingOK /\ SignalsOK /\ MarkedOK

(* A sequence of records with pids for which P is a set that holds them.       *)
WorkOf(s, P) == \E S : s \in Seq(S) /\ \A x \in S : x.pid \in P

Candidates == [pid : Pids, rss : Nat]

CycleOK ==
  /\ phase \in Phases /\ dryRun \in BOOLEAN
  /\ phase = "idle" => kept = <<>>
  /\ phase = "status" => queue \in Seq(Pids)
  /\ phase \in {"status", "ksm_stat"} => kept \in Seq(Candidates)
  /\ phase = "ksm_stat" => queue \in Seq(Candidates)
  /\ phase = "maps" => WorkOf(queue, Pids) /\ WorkOf(kept, Pids)
  /\ phase \in {"apply", "inject", "collapse"} => WorkOf(queue, Pids) /\ WorkOf(targets, Pids)
  /\ phase \notin {"apply", "inject", "collapse"} => targets = <<>>
  /\ phase = "inject" => queue # <<>>
  /\ phase # "inject" => stage = "ready"

DryRunOK ==
  dryRun => phase # "inject" /\ collapsed = {} /\ marked = [p \in Pids |-> {}]
            /\ (phase = "collapse" => queue = <<>>)

ScannerInv == InjectorInv /\ CycleOK /\ DryRunOK

(* PTRACE_ATTACH, granted or refused. *)
LEMMA AttachSafe == InjectorInv /\ Attach => InjectorInv'
<1> SUFFICES ASSUME InjectorInv, Attach PROVE InjectorInv'
  OBVIOUS
<1>1. InjectorTyped'
  BY DEF InjectorInv, InjectorTyped, TracingOK, Waiting, Holding, Attach, Returns, At, TracerUnchanged, Alive, processVars, tracerVars, Modes, Stages, Signals, Reports
<1>2. TracingOK'
  BY DEF InjectorInv, InjectorTyped, TracingOK, Waiting, Holding, Borrowing, Modes, Attach, Returns, At, TracerUnchanged, Alive, processVars, tracerVars
<1>3. SignalsOK'
  BY DEF InjectorInv, InjectorTyped, TracingOK, Waiting, Holding, SignalsOK, Pending, StopLeft, One, Signals, Attach, Returns, At, TracerUnchanged, Alive, processVars, tracerVars
<1>4. MarkedOK'
  BY DEF InjectorInv, InjectorTyped, TracingOK, Waiting, Holding, MarkedOK, RangePages, Attach, Returns, At, TracerUnchanged, Alive, processVars, tracerVars
<1>5. QED
  BY <1>1, <1>2, <1>3, <1>4 DEF InjectorInv

(* The stop of the attach, or a victim that was killed. *)
LEMMA WaitAttachSafe == InjectorInv /\ WaitAttach => InjectorInv'
<1> SUFFICES ASSUME InjectorInv, WaitAttach PROVE InjectorInv'
  OBVIOUS
<1>1. InjectorTyped'
  BY DEF InjectorInv, InjectorTyped, TracingOK, Waiting, Holding, WaitAttach, Reaped, At, Returns, TracerUnchanged, processVars, tracerVars, Modes, Stages, Signals, Reports
<1>2. TracingOK'
  BY DEF InjectorInv, InjectorTyped, TracingOK, Waiting, Holding, Borrowing, Modes, WaitAttach, Reaped, At, Returns, TracerUnchanged, processVars, tracerVars
<1>3. SignalsOK'
  BY DEF InjectorInv, InjectorTyped, TracingOK, Waiting, Holding, SignalsOK, Pending, StopLeft, One, Signals, WaitAttach, Reaped, At, Returns, TracerUnchanged, processVars, tracerVars
<1>4. MarkedOK'
  BY DEF InjectorInv, InjectorTyped, TracingOK, Waiting, Holding, MarkedOK, RangePages, WaitAttach, Reaped, At, Returns, TracerUnchanged, processVars, tracerVars
<1>5. QED
  BY <1>1, <1>2, <1>3, <1>4 DEF InjectorInv

(* The wait for that stop has failed: detach. *)
LEMMA WaitFailedSafe == InjectorInv /\ WaitFailed => InjectorInv'
<1> SUFFICES ASSUME InjectorInv, WaitFailed PROVE InjectorInv'
  OBVIOUS
<1>1. InjectorTyped'
  BY DEF InjectorInv, InjectorTyped, TracingOK, Waiting, Holding, WaitFailed, LostVictim, Detached, Returns, TracerUnchanged, processVars, tracerVars, Modes, Stages, Signals, Reports
<1>2. TracingOK'
  BY DEF InjectorInv, InjectorTyped, TracingOK, Waiting, Holding, Borrowing, Modes, WaitFailed, LostVictim, Detached, Returns, TracerUnchanged, processVars, tracerVars
<1>3. SignalsOK'
  BY DEF InjectorInv, InjectorTyped, TracingOK, Waiting, Holding, SignalsOK, Pending, StopLeft, One, Signals, WaitFailed, LostVictim, Detached, Returns, TracerUnchanged, processVars, tracerVars
<1>4. MarkedOK'
  BY DEF InjectorInv, InjectorTyped, TracingOK, Waiting, Holding, MarkedOK, RangePages, WaitFailed, LostVictim, Detached, Returns, TracerUnchanged, processVars, tracerVars
<1>5. QED
  BY <1>1, <1>2, <1>3, <1>4 DEF InjectorInv

(* setregs and PTRACE_SYSCALL: the registers are borrowed. *)
LEMMA SetRegsSafe == InjectorInv /\ SetRegs => InjectorInv'
<1> SUFFICES ASSUME InjectorInv, SetRegs PROVE InjectorInv'
  OBVIOUS
<1>1. InjectorTyped'
  BY DEF InjectorInv, InjectorTyped, TracingOK, Waiting, Holding, SetRegs, LostVictim, At, Returns, TracerUnchanged, processVars, tracerVars, Modes, Stages, Signals, Reports
<1>2. TracingOK'
  BY DEF InjectorInv, InjectorTyped, TracingOK, Waiting, Holding, Borrowing, Modes, SetRegs, LostVictim, At, Returns, TracerUnchanged, processVars, tracerVars
<1>3. SignalsOK'
  BY DEF InjectorInv, InjectorTyped, TracingOK, Waiting, Holding, SignalsOK, Pending, StopLeft, One, Signals, SetRegs, LostVictim, At, Returns, TracerUnchanged, processVars, tracerVars
<1>4. MarkedOK'
  BY DEF InjectorInv, InjectorTyped, TracingOK, Waiting, Holding, MarkedOK, RangePages, SetRegs, LostVictim, At, Returns, TracerUnchanged, processVars, tracerVars
<1>5. QED
  BY <1>1, <1>2, <1>3, <1>4 DEF InjectorInv

(* The stop at the entry of the call, or another one. *)
LEMMA WaitEntrySafe == InjectorInv /\ WaitEntry => InjectorInv'
<1> SUFFICES ASSUME InjectorInv, WaitEntry PROVE InjectorInv'
  OBVIOUS
<1>1. InjectorTyped'
  BY DEF InjectorInv, InjectorTyped, TracingOK, Waiting, Holding, WaitEntry, WaitSyscall, Reaped, At, Returns, TracerUnchanged, processVars, tracerVars, Modes, Stages, Signals, Reports
<1>2. TracingOK'
  BY DEF InjectorInv, InjectorTyped, TracingOK, Waiting, Holding, Borrowing, Modes, WaitEntry, WaitSyscall, Reaped, At, Returns, TracerUnchanged, processVars, tracerVars
<1>3. SignalsOK'
  BY DEF InjectorInv, InjectorTyped, TracingOK, Waiting, Holding, SignalsOK, Pending, StopLeft, One, Signals, WaitEntry, WaitSyscall, Reaped, At, Returns, TracerUnchanged, processVars, tracerVars
<1>4. MarkedOK'
  BY DEF InjectorInv, InjectorTyped, TracingOK, Waiting, Holding, MarkedOK, RangePages, WaitEntry, WaitSyscall, Reaped, At, Returns, TracerUnchanged, processVars, tracerVars
<1>5. QED
  BY <1>1, <1>2, <1>3, <1>4 DEF InjectorInv

(* PTRACE_SYSCALL again. *)
LEMMA ResumeSafe == InjectorInv /\ Resume => InjectorInv'
<1> SUFFICES ASSUME InjectorInv, Resume PROVE InjectorInv'
  OBVIOUS
<1>1. InjectorTyped'
  BY DEF InjectorInv, InjectorTyped, TracingOK, Waiting, Holding, Resume, LostVictim, At, Returns, TracerUnchanged, processVars, tracerVars, Modes, Stages, Signals, Reports
<1>2. TracingOK'
  BY DEF InjectorInv, InjectorTyped, TracingOK, Waiting, Holding, Borrowing, Modes, Resume, LostVictim, At, Returns, TracerUnchanged, processVars, tracerVars
<1>3. SignalsOK'
  BY DEF InjectorInv, InjectorTyped, TracingOK, Waiting, Holding, SignalsOK, Pending, StopLeft, One, Signals, Resume, LostVictim, At, Returns, TracerUnchanged, processVars, tracerVars
<1>4. MarkedOK'
  BY DEF InjectorInv, InjectorTyped, TracingOK, Waiting, Holding, SignalsOK, MarkedOK, RangePages, Resume, LostVictim, At, Returns, TracerUnchanged, processVars, tracerVars
<1>5. QED
  BY <1>1, <1>2, <1>3, <1>4 DEF InjectorInv

(* The stop at the exit of the call, or another one. *)
LEMMA WaitExitSafe == InjectorInv /\ WaitExit => InjectorInv'
<1> SUFFICES ASSUME InjectorInv, WaitExit PROVE InjectorInv'
  OBVIOUS
<1>1. InjectorTyped'
  BY DEF InjectorInv, InjectorTyped, TracingOK, Waiting, Holding, WaitExit, WaitSyscall, Reaped, At, Returns, TracerUnchanged, processVars, tracerVars, Modes, Stages, Signals, Reports
<1>2. TracingOK'
  BY DEF InjectorInv, InjectorTyped, TracingOK, Waiting, Holding, Borrowing, Modes, WaitExit, WaitSyscall, Reaped, At, Returns, TracerUnchanged, processVars, tracerVars
<1>3. SignalsOK'
  BY DEF InjectorInv, InjectorTyped, TracingOK, Waiting, Holding, SignalsOK, Pending, StopLeft, One, Signals, WaitExit, WaitSyscall, Reaped, At, Returns, TracerUnchanged, processVars, tracerVars
<1>4. MarkedOK'
  BY DEF InjectorInv, InjectorTyped, TracingOK, Waiting, Holding, MarkedOK, RangePages, WaitExit, WaitSyscall, Reaped, At, Returns, TracerUnchanged, processVars, tracerVars
<1>5. QED
  BY <1>1, <1>2, <1>3, <1>4 DEF InjectorInv

(* The error path puts the registers back and detaches. *)
LEMMA GiveUpSafe == InjectorInv /\ GiveUp => InjectorInv'
<1> SUFFICES ASSUME InjectorInv, GiveUp PROVE InjectorInv'
  OBVIOUS
<1>1. InjectorTyped'
  BY DEF InjectorInv, InjectorTyped, TracingOK, Waiting, Holding, GiveUp, LostVictim, Detached, Returns, TracerUnchanged, processVars, tracerVars, Modes, Stages, Signals, Reports
<1>2. TracingOK'
  BY DEF InjectorInv, InjectorTyped, TracingOK, Waiting, Holding, Borrowing, Modes, GiveUp, LostVictim, Detached, Returns, TracerUnchanged, processVars, tracerVars
<1>3. SignalsOK'
  BY DEF InjectorInv, InjectorTyped, TracingOK, Waiting, Holding, SignalsOK, Pending, StopLeft, One, Signals, GiveUp, LostVictim, Detached, Returns, TracerUnchanged, processVars, tracerVars
<1>4. MarkedOK'
  BY DEF InjectorInv, InjectorTyped, TracingOK, Waiting, Holding, MarkedOK, RangePages, GiveUp, LostVictim, Detached, Returns, TracerUnchanged, processVars, tracerVars
<1>5. QED
  BY <1>1, <1>2, <1>3, <1>4 DEF InjectorInv

(* So does the other, which also looks at the result. *)
LEMMA FinishSafe == InjectorInv /\ Finish => InjectorInv'
<1> SUFFICES ASSUME InjectorInv, Finish PROVE InjectorInv'
  OBVIOUS
<1>1. InjectorTyped'
  BY DEF InjectorInv, InjectorTyped, TracingOK, Waiting, Holding, Finish, LostVictim, Detached, Returns, TracerUnchanged, processVars, tracerVars, Modes, Stages, Signals, Reports
<1>2. TracingOK'
  BY DEF InjectorInv, InjectorTyped, TracingOK, Waiting, Holding, Borrowing, Modes, Finish, LostVictim, Detached, Returns, TracerUnchanged, processVars, tracerVars
<1>3. SignalsOK'
  BY DEF InjectorInv, InjectorTyped, TracingOK, Waiting, Holding, SignalsOK, Pending, StopLeft, One, Signals, Finish, LostVictim, Detached, Returns, TracerUnchanged, processVars, tracerVars
<1>4. MarkedOK'
  BY DEF InjectorInv, InjectorTyped, TracingOK, Waiting, Holding, MarkedOK, RangePages, Finish, LostVictim, Detached, Returns, TracerUnchanged, processVars, tracerVars
<1>5. QED
  BY <1>1, <1>2, <1>3, <1>4 DEF InjectorInv

(* The victim stops for a signal before it runs any code. *)
LEMMA StopsForSignalSafe == InjectorInv /\ StopsForSignal => InjectorInv'
<1> SUFFICES ASSUME InjectorInv, StopsForSignal PROVE InjectorInv'
  OBVIOUS
<1>1. InjectorTyped'
  BY DEF InjectorInv, InjectorTyped, TracingOK, Waiting, Holding, StopsForSignal, Stops, Traced, processVars, tracerVars, Modes, Stages, Signals, Reports
<1>2. TracingOK'
  BY DEF InjectorInv, InjectorTyped, TracingOK, Waiting, Holding, Borrowing, Modes, StopsForSignal, Stops, Traced, processVars, tracerVars
<1>3. SignalsOK'
  BY DEF InjectorInv, InjectorTyped, TracingOK, Waiting, Holding, SignalsOK, Pending, StopLeft, One, Signals, StopsForSignal, Stops, Traced, processVars, tracerVars
<1>4. MarkedOK'
  BY DEF InjectorInv, InjectorTyped, TracingOK, Waiting, Holding, MarkedOK, RangePages, StopsForSignal, Stops, Traced, processVars, tracerVars
<1>5. QED
  BY <1>1, <1>2, <1>3, <1>4 DEF InjectorInv

(* The victim reaches the syscall instruction, or faults. *)
LEMMA SyscallEntrySafe == InjectorInv /\ SyscallEntry => InjectorInv'
<1> SUFFICES ASSUME InjectorInv, SyscallEntry PROVE InjectorInv'
  OBVIOUS
<1>1. InjectorTyped'
  BY DEF InjectorInv, InjectorTyped, TracingOK, Waiting, Holding, SyscallEntry, Stops, Traced, processVars, tracerVars, Modes, Stages, Signals, Reports
<1>2. TracingOK'
  BY DEF InjectorInv, InjectorTyped, TracingOK, Waiting, Holding, Borrowing, Modes, SyscallEntry, Stops, Traced, processVars, tracerVars
<1>3. SignalsOK'
  BY DEF InjectorInv, InjectorTyped, TracingOK, Waiting, Holding, SignalsOK, Pending, StopLeft, One, Signals, SyscallEntry, Stops, Traced, processVars, tracerVars
<1>4. MarkedOK'
  BY DEF InjectorInv, InjectorTyped, TracingOK, Waiting, Holding, MarkedOK, RangePages, SyscallEntry, Stops, Traced, processVars, tracerVars
<1>5. QED
  BY <1>1, <1>2, <1>3, <1>4 DEF InjectorInv

(* madvise marks pages and returns. *)
LEMMA SyscallExitSafe == InjectorInv /\ SyscallExit => InjectorInv'
<1> SUFFICES ASSUME InjectorInv, SyscallExit PROVE InjectorInv'
  OBVIOUS
<1>1. InjectorTyped'
  BY DEF InjectorInv, InjectorTyped, TracingOK, Waiting, Holding, SyscallExit, Stops, Traced, processVars, tracerVars, Modes, Stages, Signals, Reports
<1>2. TracingOK'
  BY DEF InjectorInv, InjectorTyped, TracingOK, Waiting, Holding, Borrowing, Modes, SyscallExit, Stops, Traced, processVars, tracerVars
<1>3. SignalsOK'
  BY DEF InjectorInv, InjectorTyped, TracingOK, Waiting, Holding, SignalsOK, Pending, StopLeft, One, Signals, SyscallExit, Stops, Traced, processVars, tracerVars
<1>4. MarkedOK'
  BY DEF InjectorInv, InjectorTyped, TracingOK, Waiting, Holding, MarkedOK, RangePages, SyscallExit, Stops, Traced, processVars, tracerVars
<1>5. QED
  BY <1>1, <1>2, <1>3, <1>4 DEF InjectorInv

(* A signal from elsewhere becomes pending. *)
LEMMA SignalArrivesSafe == InjectorInv /\ SignalArrives => InjectorInv'
<1> SUFFICES ASSUME InjectorInv, SignalArrives PROVE InjectorInv'
  OBVIOUS
<1>1. InjectorTyped'
  BY DEF InjectorInv, InjectorTyped, TracingOK, Waiting, Holding, SignalArrives, processVars, tracerVars, Modes, Stages, Signals, Reports
<1>2. TracingOK'
  BY DEF InjectorInv, InjectorTyped, TracingOK, Waiting, Holding, Borrowing, Modes, SignalArrives, processVars, tracerVars
<1>3. SignalsOK'
  BY DEF InjectorInv, InjectorTyped, TracingOK, Waiting, Holding, SignalsOK, Pending, StopLeft, One, Signals, SignalArrives, processVars, tracerVars
<1>4. MarkedOK'
  BY DEF InjectorInv, InjectorTyped, TracingOK, Waiting, Holding, MarkedOK, RangePages, SignalArrives, processVars, tracerVars
<1>5. QED
  BY <1>1, <1>2, <1>3, <1>4 DEF InjectorInv

(* A process dies: traced, it keeps its pid as a zombie. *)
LEMMA DiesSafe ==
  ASSUME NEW p \in Pids, InjectorInv, Dies(p)
  PROVE  InjectorInv'
<1>1. InjectorTyped'
  BY DEF InjectorInv, InjectorTyped, TracingOK, Waiting, Holding, Dies, Event, Alive, processVars, tracerVars, Modes, Stages
<1>2. TracingOK'
  BY DEF InjectorInv, InjectorTyped, TracingOK, Waiting, Holding, Borrowing, Modes, Dies, Event, Alive, processVars, tracerVars
<1>3. SignalsOK'
  BY DEF InjectorInv, InjectorTyped, TracingOK, Waiting, Holding, SignalsOK, Pending, StopLeft, One, Dies, Event, Alive, processVars, tracerVars
<1>4. MarkedOK'
  BY DEF InjectorInv, InjectorTyped, TracingOK, Waiting, Holding, MarkedOK, RangePages, Dies, Event, Alive, processVars, tracerVars
<1>5. QED
  BY <1>1, <1>2, <1>3, <1>4 DEF InjectorInv

(* An untraced process execs, or its pid is given to another. *)
LEMMA NewImageSafe ==
  ASSUME NEW p \in Pids, InjectorInv, NewImage(p)
  PROVE  InjectorInv'
<1>a. image' \in [Pids -> Images \cup {NoProc}]
  BY DEF InjectorInv, InjectorTyped, NewImage
<1>b. UNCHANGED <<mode, regs, halted, held, tracerVars, pend, report, rax, others>>
  BY DEF NewImage
<1>c. /\ marked' = [marked EXCEPT ![p] = {}] /\ vdso' = vdso \ {p}
      /\ events > 0 /\ events' = events - 1
  BY DEF NewImage, Event
<1>d. marked' = [q \in Pids |-> marked'[q]]
  BY <1>c DEF InjectorInv, InjectorTyped
<1>e. vdso' \subseteq Pids
  BY <1>c DEF InjectorInv, InjectorTyped
<1>f. events' \in 0 .. MaxEvents
  BY <1>c DEF InjectorInv, InjectorTyped
<1>1. InjectorTyped'
  BY <1>a, <1>b, <1>d, <1>e, <1>f DEF InjectorInv, InjectorTyped, tracerVars
<1>2. TracingOK'
  BY DEF InjectorInv, InjectorTyped, TracingOK, Waiting, Holding, Borrowing, Modes, NewImage, Event, processVars, tracerVars
<1>3. SignalsOK'
  BY DEF InjectorInv, InjectorTyped, TracingOK, Waiting, Holding, SignalsOK, Pending, StopLeft, One, NewImage, Event, processVars, tracerVars
<1>4. MarkedOK'
  BY DEF InjectorInv, InjectorTyped, TracingOK, Waiting, Holding, MarkedOK, RangePages, NewImage, Event, processVars, tracerVars
<1>5. QED
  BY <1>1, <1>2, <1>3, <1>4 DEF InjectorInv

(* A process changes its memory, its size, its name or its statistics. *)
LEMMA DevelopsSafe ==
  ASSUME NEW p \in Pids, InjectorInv, Develops(p)
  PROVE  InjectorInv'
<1>a. image' \in [Pids -> Images \cup {NoProc}]
  BY DEF InjectorInv, InjectorTyped, Develops
<1>b. UNCHANGED <<marked, halted, vdso, mode, regs, held, tracerVars, pend, report, rax, others>>
  BY DEF Develops
<1>c. events' \in 0 .. MaxEvents
  BY DEF InjectorInv, InjectorTyped, Develops, Event
<1>1. InjectorTyped'
  BY <1>a, <1>b, <1>c DEF InjectorInv, InjectorTyped, tracerVars
<1>2. TracingOK'
  BY <1>b DEF InjectorInv, TracingOK, tracerVars
<1>3. SignalsOK'
  BY <1>b DEF InjectorInv, SignalsOK, Pending, StopLeft, tracerVars
<1>4. MarkedOK'
  BY <1>b DEF InjectorInv, MarkedOK, RangePages, tracerVars
<1>5. QED
  BY <1>1, <1>2, <1>3, <1>4 DEF InjectorInv

(* A user stops an untraced process. *)
LEMMA HaltsSafe ==
  ASSUME NEW p \in Pids, InjectorInv, Halts(p)
  PROVE  InjectorInv'
<1>1. InjectorTyped'
  BY DEF InjectorInv, InjectorTyped, TracingOK, Waiting, Holding, Halts, Event, Alive, processVars, tracerVars, Modes, Stages
<1>2. TracingOK'
  BY DEF InjectorInv, InjectorTyped, TracingOK, Waiting, Holding, Borrowing, Modes, Halts, Event, Alive, processVars, tracerVars
<1>3. SignalsOK'
  BY DEF InjectorInv, InjectorTyped, TracingOK, Waiting, Holding, SignalsOK, Pending, StopLeft, One, Halts, Event, Alive, processVars, tracerVars
<1>4. MarkedOK'
  BY DEF InjectorInv, InjectorTyped, TracingOK, Waiting, Holding, MarkedOK, RangePages, Halts, Event, Alive, processVars, tracerVars
<1>5. QED
  BY <1>1, <1>2, <1>3, <1>4 DEF InjectorInv

(* madvise_via_ptrace is called; nothing has happened yet. *)
LEMMA InjectSafe ==
  ASSUME NEW p \in Pids, NEW r, InjectorInv, Inject(p, r)
  PROVE  InjectorInv'
<1>1. InjectorTyped'
  BY DEF InjectorInv, InjectorTyped, TracingOK, Waiting, Holding, Inject, processVars, tracerVars, Modes, Stages
<1>2. TracingOK'
  BY DEF InjectorInv, InjectorTyped, TracingOK, Waiting, Holding, Borrowing, Modes, Inject, processVars, tracerVars
<1>3. SignalsOK'
  BY DEF InjectorInv, InjectorTyped, TracingOK, Waiting, Holding, SignalsOK, Pending, StopLeft, One, Inject, processVars, tracerVars
<1>4. MarkedOK'
  BY DEF InjectorInv, InjectorTyped, TracingOK, Waiting, Holding, MarkedOK, RangePages, Inject, processVars, tracerVars
<1>5. QED
  BY <1>1, <1>2, <1>3, <1>4 DEF InjectorInv

(* madvise_via_ptrace has returned to apply_mergeable. *)
LEMMA ResultTaken ==
  ASSUME InjectorInv, InjectReturned
  PROVE  InjectorInv'
<1>1. InjectorTyped'
  BY DEF InjectorInv, InjectorTyped, InjectReturned, processVars, Stages
<1>2. TracingOK'
  BY DEF InjectorInv, InjectorTyped, TracingOK, Waiting, Holding, Borrowing, InjectReturned, processVars
<1>3. SignalsOK' /\ MarkedOK'
  BY DEF SignalsOK, MarkedOK, InjectReturned, processVars
<1>4. QED
  BY <1>1, <1>2, <1>3 DEF InjectorInv

(* A step of the cycle that leaves every process alone, but may look up a vDSO. *)
LEMMA IdleSafe ==
  ASSUME InjectorInv, NoInjection, vdso' \subseteq Pids
  PROVE  InjectorInv'
BY DEF InjectorInv, NoInjection, InjectorTyped, TracingOK, SignalsOK, MarkedOK, Pending, StopLeft, RangePages

(* ... or does nothing at all. *)
LEMMA IdleStays == ASSUME InjectorInv, InjectorIdle PROVE InjectorInv'
<1>1. vdso' \subseteq Pids
  BY DEF InjectorInv, InjectorTyped, InjectorIdle
<1>2. QED
  BY <1>1, IdleSafe DEF InjectorIdle

(* Nothing is traced at the start. *)
LEMMA InitSafe == InjectorInit /\ image \in [Pids -> Images \cup {NoProc}] => InjectorInv
BY DEF InjectorInit, InjectorInv, InjectorTyped, TracingOK, SignalsOK, MarkedOK, Waiting, Holding, Borrowing,
  Modes, Stages, Signals, Reports

(* All of these, for any of the processes. *)
LEMMA InjectorAloneSafe == InjectorInv /\ (InjectorStep \/ KernelStep \/ Disturbance) => InjectorInv'
BY AttachSafe, WaitAttachSafe, WaitFailedSafe, SetRegsSafe, WaitEntrySafe, ResumeSafe, WaitExitSafe, GiveUpSafe, FinishSafe,
  StopsForSignalSafe, SyscallEntrySafe, SyscallExitSafe, SignalArrivesSafe, DiesSafe, NewImageSafe, DevelopsSafe,
  HaltsSafe DEF InjectorStep, KernelStep, Disturbance

(* What Head, Tail and Append leave of the work of a pass.                     *)
LEMMA WorkHead ==
  ASSUME NEW s, NEW P, WorkOf(s, P), s # <<>>
  PROVE  Head(s).pid \in P /\ WorkOf(Tail(s), P)
<1>1. PICK S : s \in Seq(S) /\ \A x \in S : x.pid \in P
  BY DEF WorkOf
<1>2. Head(s) \in S /\ Tail(s) \in Seq(S)
  BY <1>1
<1>3. QED
  BY <1>1, <1>2 DEF WorkOf

(* WorkOf says that a list names processes of P only: Append keeps it ... *)
LEMMA WorkAppend ==
  ASSUME NEW s, NEW P, WorkOf(s, P), NEW x, x.pid \in P
  PROVE  WorkOf(Append(s, x), P)
<1>1. PICK S : s \in Seq(S) /\ \A y \in S : y.pid \in P
  BY DEF WorkOf
<1>2. s \in Seq(S \cup {x})
  BY <1>1
<1>3. Append(s, x) \in Seq(S \cup {x})
  BY <1>2
<1>4. QED
  BY <1>1, <1>3 DEF WorkOf

(* ... a sequence over a set of such entries has it ... *)
LEMMA WorkIn == ASSUME NEW s, NEW P, NEW S, s \in Seq(S), \A x \in S : x.pid \in P PROVE WorkOf(s, P)
BY DEF WorkOf

(* ... and the empty list. *)
LEMMA NoWork == ASSUME NEW P PROVE WorkOf(<<>>, P)
<1>1. <<>> \in Seq([pid : P]) /\ \A x \in [pid : P] : x.pid \in P
  OBVIOUS
<1>2. QED
  BY <1>1, WorkIn

(* No process is listed twice.                                                 *)
Apart(s) == \A i, j \in DOMAIN s : s[i].pid = s[j].pid => i = j

(* Whatever sort and truncate leave in the list was there, and fewer than      *)
(* MaxCandidates of those that were there are larger.                          *)
LEMMA SortedAndTruncated ==
  ASSUME NEW cands \in Seq(Candidates), NEW largest \in LargestFirst(cands)
  PROVE  /\ largest \in Seq(Candidates) /\ Len(largest) <= MaxCandidates
         /\ Apart(cands) => Apart(largest)
         /\ \A i \in DOMAIN largest : \E k \in DOMAIN cands :
              /\ largest[i] = cands[k]
              /\ Cardinality({j \in DOMAIN cands : cands[j].rss > cands[k].rss}) < MaxCandidates
<1> DEFINE n == Len(cands)
           m == IF n < MaxCandidates THEN n ELSE MaxCandidates
           before(i, j) == cands[i].rss > cands[j].rss \/ (cands[i].rss = cands[j].rss /\ i < j)
<1>1. PICK o \in [1 .. n -> 1 .. n] :
        /\ \A i, j \in 1 .. n : i < j => before(o[i], o[j])
        /\ largest = [i \in 1 .. m |-> cands[o[i]]]
  BY DEF LargestFirst
<1>2. n \in Nat /\ m \in Nat /\ m <= n /\ m <= MaxCandidates /\ DOMAIN cands = 1 .. n
  BY ScannerAssumption
<1>3. ASSUME NEW k \in 1 .. n PROVE cands[k] \in Candidates
  BY ElementOf
<1>a. \A k \in 1 .. n : cands[k].rss \in Nat
  BY <1>3 DEF Candidates
<1>b. \A k \in 1 .. n : ~before(k, k)
  BY <1>2, <1>a
<1>4. largest \in Seq(Candidates) /\ DOMAIN largest = 1 .. m
  <2>1. \A i \in 1 .. m : o[i] \in 1 .. n
    BY <1>2
  <2>2. largest \in [1 .. m -> Candidates]
    BY <1>1, <1>3, <2>1
  <2>3. QED
    BY <1>2, <2>2, FunctionIsSeq
<1>5. \A i, j \in 1 .. n : i < j => o[i] # o[j]
  <2> HIDE DEF before
  <2> QED
    BY <1>1, <1>b
<1>6. \A y \in 1 .. n : \E i \in 1 .. n : o[i] = y
  BY <1>2, <1>5, OrderIsOnto
<1>7. ASSUME NEW i \in 1 .. m
      PROVE  Cardinality({j \in DOMAIN cands : cands[j].rss > cands[o[i]].rss}) < MaxCandidates
  <2> DEFINE larger == {j \in DOMAIN cands : cands[j].rss > cands[o[i]].rss}
  <2>1. ASSUME NEW x \in larger PROVE \E l \in 1 .. i - 1 : o[l] = x
    <3>1. PICK l \in 1 .. n : o[l] = x
      BY <1>2, <1>6
    <3>2. i \in 1 .. n /\ o[i] \in 1 .. n /\ o[l] \in 1 .. n
      <4> HIDE DEF n, m, before, larger
      <4> QED
        BY <1>2
    <3>3. cands[o[l]].rss > cands[o[i]].rss
      BY <3>1
    <3>4. cands[o[l]].rss \in Nat /\ cands[o[i]].rss \in Nat
      BY <1>a, <3>2
    <3>5. ~before(o[i], o[l])
      BY <3>3, <3>4
    <3>6. l # i
      BY <3>3, <3>4
    <3>7. ~(i < l)
      <4> HIDE DEF before
      <4> QED
        BY <1>1, <3>2, <3>5
    <3>8. l < i
      BY <1>2, <3>2, <3>6, <3>7
    <3>9. QED
      BY <3>1, <3>8
  <2>2. i \in 1 .. n
    BY <1>2
  <2> HIDE DEF larger
  <2>3. Cardinality(larger) < i /\ IsFiniteSet(larger)
    BY <1>2, <2>1, <2>2, FewerBefore
  <2>4. Cardinality(larger) \in Nat
    BY <2>3, FS_CardinalityType
  <2>5. Cardinality(larger) < MaxCandidates
    BY <1>2, <2>3, <2>4, ScannerAssumption
  <2>6. QED
    BY <2>5 DEF larger
<1>8. ASSUME NEW i \in DOMAIN largest
      PROVE  \E k \in DOMAIN cands :
               /\ largest[i] = cands[k]
               /\ Cardinality({j \in DOMAIN cands : cands[j].rss > cands[k].rss}) < MaxCandidates
  <2>1. i \in 1 .. m /\ o[i] \in DOMAIN cands /\ largest[i] = cands[o[i]]
    BY <1>1, <1>2, <1>4
  <2>2. QED
    BY <2>1, <1>7
<1>9. Apart(cands) => Apart(largest)
  <2> SUFFICES ASSUME Apart(cands), NEW i \in 1 .. m, NEW j \in 1 .. m,
                      largest[i].pid = largest[j].pid
               PROVE  i = j
    BY <1>4 DEF Apart
  <2>1. i \in 1 .. n /\ j \in 1 .. n /\ o[i] \in 1 .. n /\ o[j] \in 1 .. n
    <3> HIDE DEF m, n, before
    <3>1. i \in 1 .. n /\ j \in 1 .. n
      BY <1>2
    <3>2. QED
      BY <3>1
  <2>2. largest[i] = cands[o[i]] /\ largest[j] = cands[o[j]]
    BY <1>1
  <2>3. o[i] = o[j]
    <3> HIDE DEF m, n, before
    <3>1. cands[o[i]].pid = cands[o[j]].pid
      BY <2>2
    <3>2. QED
      BY <1>2, <2>1, <3>1 DEF Apart
  <2>4. ~(i < j) /\ ~(j < i)
    <3> HIDE DEF m, n, before
    <3> QED
      BY <1>5, <2>1, <2>3
  <2>5. QED
    BY <1>2, <2>1, <2>4
<1>10. Len(largest) <= MaxCandidates
  <2> HIDE DEF m
  <2>1. largest \in Seq(Candidates) /\ DOMAIN largest = 1 .. m
    BY <1>4
  <2>2. Len(largest) = m
    BY <1>2, <2>1
  <2>3. QED
    BY <1>2, <2>2
<1>11. QED
  BY <1>4, <1>8, <1>9, <1>10

(* The daemon starts idle. *)
LEMMA InitHolds == Init => ScannerInv
<1> SUFFICES ASSUME Init PROVE ScannerInv
  OBVIOUS
<1>1. InjectorInv
  BY InitSafe, ScannerAssumption DEF Init
<1>2. CycleOK
  BY DEF Init, InjectorInit, CycleOK, Phases
<1>3. DryRunOK
  BY DEF Init, InjectorInit, DryRunOK
<1>4. QED
  BY <1>1, <1>2, <1>3 DEF ScannerInv

(* A cycle that returns leaves nothing behind.                                 *)
LEMMA ReturnSafe ==
  ASSUME ScannerInv, CycleReturns, phase # "inject"
  PROVE  ScannerInv'
<1>1. InjectorInv'
  BY IdleSafe DEF CycleReturns, ScannerInv
<1>2. CycleOK'
  BY DEF ScannerInv, CycleOK, CycleReturns, NoInjection, Phases
<1>3. DryRunOK'
  BY DEF ScannerInv, DryRunOK, CycleReturns, NoInjection
<1>4. QED
  BY <1>1, <1>2, <1>3 DEF ScannerInv

(* A tick lists the processes. *)
LEMMA TickSafe ==
  ASSUME ScannerInv, Tick
  PROVE  ScannerInv'
<1>1. InjectorInv'
  BY IdleStays DEF ScannerInv, Tick
<1>2. queue' \in Seq(Pids)
  <2> DEFINE listed == {p \in Pids : image[p] # NoProc}
  <2>1. queue' \in [1 .. Cardinality(listed) -> listed]
    BY DEF Tick, ListPids
  <2>2. IsFiniteSet(listed)
    BY ScannerAssumption, FS_Subset
  <2>3. Cardinality(listed) \in Nat
    BY <2>2, FS_CardinalityType
  <2>4. queue' \in [1 .. Cardinality(listed) -> Pids]
    BY <2>1
  <2>5. QED
    BY <2>3, <2>4, FunctionIsSeq
<1>3. CycleOK'
  BY <1>2 DEF ScannerInv, CycleOK, Tick, InjectorIdle, NoInjection, Phases
<1>4. DryRunOK'
  BY DEF ScannerInv, DryRunOK, Tick, InjectorIdle, NoInjection
<1>5. QED
  BY <1>1, <1>3, <1>4 DEF ScannerInv

(* Level 1, one process. *)
LEMMA ReadStatusSafe ==
  ASSUME ScannerInv, ReadStatus
  PROVE  ScannerInv'
<1>1. queue \in Seq(Pids) /\ queue # <<>> /\ kept \in Seq(Candidates)
  BY DEF ScannerInv, CycleOK, ReadStatus
<1>2. Head(queue) \in Pids /\ Tail(queue) \in Seq(Pids)
  BY <1>1
<1>3. InjectorInv'
  BY IdleStays DEF ScannerInv, ReadStatus
<1>4. ASSUME NEW p \in Pids, Alive(p) PROVE [pid |-> p, rss |-> AnonRssMb(p)] \in Candidates
  BY <1>4, ScannerAssumption DEF ScannerInv, InjectorInv, InjectorTyped, Candidates, AnonRssMb, ParseKb, Alive
<1>5. kept' \in Seq(Candidates)
  <2>1. ASSUME NEW c \in Candidates PROVE Append(kept, c) \in Seq(Candidates)
    BY <1>1
  <2>2. QED
    BY <1>1, <1>2, <1>4, <2>1 DEF ReadStatus
<1>6. CycleOK'
  BY <1>2, <1>5 DEF ScannerInv, CycleOK, ReadStatus, InjectorIdle, NoInjection, Phases
<1>7. DryRunOK'
  BY DEF ScannerInv, DryRunOK, ReadStatus, InjectorIdle, NoInjection
<1>8. QED
  BY <1>3, <1>6, <1>7 DEF ScannerInv

(* A pass that is over and has kept nothing ends the cycle.                    *)
LEMMA PassEmpty ==
  ASSUME ScannerInv, NEW now, NEW next, NEW work, NextPass(now, next, work), kept = <<>>, now # "inject"
  PROVE  ScannerInv'
BY ReturnSafe DEF NextPass

(* Level 1 is over. *)
LEMMA StatusReadSafe ==
  ASSUME ScannerInv, StatusRead
  PROVE  ScannerInv'
<1>1. CASE kept = <<>>
  BY <1>1, PassEmpty DEF StatusRead
<1>2. CASE kept # <<>>
  <2>1. /\ phase = "status" /\ InjectorIdle
        /\ phase' = "ksm_stat" /\ queue' = kept /\ kept' = <<>>
        /\ UNCHANGED <<targets, batch, merged, collapsed, dryRun>>
    BY <1>2 DEF StatusRead, NextPass
  <2>2. InjectorInv'
    BY <2>1, IdleStays DEF ScannerInv
  <2>3. CycleOK'
    BY <2>1 DEF ScannerInv, CycleOK, InjectorIdle, NoInjection, Phases
  <2>4. DryRunOK'
    BY <2>1 DEF ScannerInv, DryRunOK, InjectorIdle, NoInjection
  <2>5. QED
    BY <2>2, <2>3, <2>4 DEF ScannerInv
<1>3. QED
  BY <1>1, <1>2

(* Levels 2 and 2.5, one candidate. *)
LEMMA ReadKsmStatSafe ==
  ASSUME ScannerInv, ReadKsmStat
  PROVE  ScannerInv'
<1>1. queue \in Seq(Candidates) /\ queue # <<>> /\ kept \in Seq(Candidates)
  BY DEF ScannerInv, CycleOK, ReadKsmStat
<1>2. Head(queue) \in Candidates /\ Tail(queue) \in Seq(Candidates)
  BY <1>1
<1>3. InjectorInv'
  BY IdleStays DEF ScannerInv, ReadKsmStat
<1>4. kept' \in Seq(Candidates)
  <2>1. Append(kept, Head(queue)) \in Seq(Candidates)
    BY <1>1, <1>2
  <2>2. QED
    BY <1>1, <2>1 DEF ReadKsmStat
<1>5. CycleOK'
  BY <1>2, <1>4 DEF ScannerInv, CycleOK, ReadKsmStat, InjectorIdle, NoInjection, Phases
<1>6. DryRunOK'
  BY DEF ScannerInv, DryRunOK, ReadKsmStat, InjectorIdle, NoInjection
<1>7. QED
  BY <1>3, <1>5, <1>6 DEF ScannerInv

(* They are over: the largest candidates are chosen. *)
LEMMA KsmStatReadSafe ==
  ASSUME ScannerInv, KsmStatRead
  PROVE  ScannerInv'
<1>1. PICK largest \in LargestFirst(kept) : NextPass("ksm_stat", "maps", largest)
  BY DEF KsmStatRead
<1>2. CASE kept = <<>>
  BY <1>1, <1>2, PassEmpty
<1>3. CASE kept # <<>>
  <2>1. /\ phase = "ksm_stat" /\ InjectorIdle
        /\ phase' = "maps" /\ queue' = largest /\ kept' = <<>>
        /\ UNCHANGED <<targets, batch, merged, collapsed, dryRun>>
    BY <1>1, <1>3 DEF NextPass
  <2>2. kept \in Seq(Candidates)
    BY <2>1 DEF ScannerInv, CycleOK
  <2>3. InjectorInv'
    BY <2>1, IdleStays DEF ScannerInv
  <2>4. WorkOf(queue, Pids)'
    <3>1. largest \in Seq(Candidates)
      BY <2>2, SortedAndTruncated
    <3>2. \A x \in Candidates : x.pid \in Pids
      BY DEF Candidates
    <3>3. QED
      BY <2>1, <3>1, <3>2, WorkIn
  <2>5. WorkOf(kept, Pids)'
    BY <2>1, NoWork
  <2>6. CycleOK'
    BY <2>1, <2>4, <2>5 DEF ScannerInv, CycleOK, InjectorIdle, NoInjection, Phases
  <2>7. DryRunOK'
    BY <2>1 DEF ScannerInv, DryRunOK, InjectorIdle, NoInjection
  <2>8. QED
    BY <2>3, <2>6, <2>7 DEF ScannerInv
<1>4. QED
  BY <1>2, <1>3

(* Level 3, one candidate. *)
LEMMA ReadMapsSafe ==
  ASSUME ScannerInv, ReadMaps
  PROVE  ScannerInv'
<1> DEFINE p == Head(queue).pid
           found == [pid |-> p, maps |-> IF Alive(p) THEN MapsNow(p) ELSE <<>>]
<1>1. WorkOf(queue, Pids) /\ WorkOf(kept, Pids) /\ queue # <<>>
  BY DEF ScannerInv, CycleOK, ReadMaps
<1>2. p \in Pids /\ WorkOf(Tail(queue), Pids)
  BY <1>1, WorkHead
<1>4. InjectorInv'
  BY IdleStays DEF ScannerInv, ReadMaps
<1>5. WorkOf(Append(kept, found), Pids)
  <2>1. found.pid \in Pids
    BY <1>2
  <2> HIDE DEF found
  <2>2. QED
    BY <1>1, <2>1, WorkAppend
<1>6. kept' \in {kept, Append(kept, found)} /\ queue' = Tail(queue)
  BY DEF ReadMaps
<1> HIDE DEF p, found
<1>8. WorkOf(queue, Pids)' /\ WorkOf(kept, Pids)'
  BY <1>1, <1>2, <1>5, <1>6
<1>9. CycleOK'
  BY <1>8 DEF ScannerInv, CycleOK, ReadMaps, InjectorIdle, NoInjection, Phases
<1>10. DryRunOK'
  BY DEF ScannerInv, DryRunOK, ReadMaps, InjectorIdle, NoInjection
<1>11. QED
  BY <1>4, <1>9, <1>10 DEF ScannerInv

(* Level 3 is over: the targets are known. *)
LEMMA MapsReadSafe ==
  ASSUME ScannerInv, MapsRead
  PROVE  ScannerInv'
<1>1. CASE kept = <<>>
  BY <1>1, PassEmpty DEF MapsRead
<1>2. CASE kept # <<>>
  <2>1. /\ phase = "maps" /\ InjectorIdle
        /\ phase' = "apply" /\ queue' = kept /\ kept' = <<>> /\ targets' = kept
        /\ UNCHANGED <<batch, merged, collapsed, dryRun>>
    BY <1>2 DEF MapsRead, NextPass
  <2>2. InjectorInv'
    BY <2>1, IdleStays DEF ScannerInv
  <2>3. WorkOf(queue, Pids)' /\ WorkOf(targets, Pids)'
    BY <2>1 DEF ScannerInv, CycleOK
  <2>4. CycleOK'
    BY <2>1, <2>3 DEF ScannerInv, CycleOK, InjectorIdle, NoInjection, Phases
  <2>5. DryRunOK'
    BY <2>1 DEF ScannerInv, DryRunOK, InjectorIdle, NoInjection
  <2>6. QED
    BY <2>2, <2>4, <2>5 DEF ScannerInv
<1>3. QED
  BY <1>1, <1>2

(* The work of the phases after the passes, and that of their next target.     *)
LEMMA TargetWork ==
  ASSUME ScannerInv, phase \in {"apply", "inject", "collapse"}
  PROVE  /\ WorkOf(queue, Pids) /\ WorkOf(targets, Pids)
         /\ queue # <<>> => Target.pid \in Pids /\ WorkOf(Tail(queue), Pids)
<1>1. WorkOf(queue, Pids) /\ WorkOf(targets, Pids)
  BY DEF ScannerInv, CycleOK
<1>2. queue # <<>> => Target.pid \in Pids /\ WorkOf(Tail(queue), Pids)
  BY <1>1, WorkHead DEF Target
<1>3. QED
  BY <1>1, <1>2

(* apply_mergeable of one target up to its first injection. *)
LEMMA ApplyMergeableSafe ==
  ASSUME ScannerInv, ApplyMergeable
  PROVE  ScannerInv'
<1>1. phase = "apply" /\ queue # <<>> /\ NoInjection
      /\ UNCHANGED <<targets, collapsed, dryRun, kept>>
  BY DEF ApplyMergeable
<1>2. vdso' \subseteq Pids
  BY <1>1, TargetWork DEF ApplyMergeable, NextTarget, FindSyscallInVdso, ScannerInv, InjectorInv, InjectorTyped
<1>3. InjectorInv'
  BY <1>1, <1>2, IdleSafe DEF ScannerInv
<1>4. \/ phase' = "apply" /\ queue' = Tail(queue)
      \/ phase' = "inject" /\ queue' = queue /\ ~dryRun
  BY <1>1 DEF ApplyMergeable, NextTarget
<1>6. WorkOf(queue, Pids)' /\ WorkOf(targets, Pids)'
  BY <1>1, <1>4, TargetWork
<1>7. CycleOK'
  BY <1>1, <1>4, <1>6 DEF ScannerInv, CycleOK, InjectorIdle, NoInjection, Phases
<1>8. DryRunOK'
  BY <1>1, <1>4 DEF ScannerInv, DryRunOK, InjectorIdle, NoInjection
<1>9. QED
  BY <1>3, <1>7, <1>8 DEF ScannerInv

(* The next region of the batch. *)
LEMMA InjectNextSafe ==
  ASSUME ScannerInv, InjectNext
  PROVE  ScannerInv'
<1>1. phase = "inject" /\ Inject(Target.pid, Head(batch))
      /\ UNCHANGED <<phase, queue, kept, targets, merged, collapsed, dryRun>>
  BY DEF InjectNext
<1>2. queue # <<>>
  BY <1>1 DEF ScannerInv, CycleOK
<1>3. InjectorInv'
  BY <1>1, <1>2, TargetWork, InjectSafe DEF ScannerInv
<1>5. CycleOK'
  BY <1>1 DEF ScannerInv, CycleOK
<1>6. DryRunOK'
  BY <1>1 DEF ScannerInv, DryRunOK
<1>7. QED
  BY <1>3, <1>5, <1>6 DEF ScannerInv

(* Its result is counted. *)
LEMMA InjectReturnedSafe ==
  ASSUME ScannerInv, InjectReturned
  PROVE  ScannerInv'
<1>1. phase = "inject" /\ stage' = "ready" /\ UNCHANGED <<kept, targets, collapsed, dryRun>>
  BY DEF InjectReturned
<1>2. \/ phase' = "apply" /\ queue' = Tail(queue)
      \/ phase' = "inject" /\ queue' = queue
  BY DEF InjectReturned
<1>3. queue # <<>>
  BY <1>1 DEF ScannerInv, CycleOK
<1>4. InjectorInv'
  BY ResultTaken DEF ScannerInv
<1>5. WorkOf(queue, Pids)' /\ WorkOf(targets, Pids)'
  BY <1>1, <1>2, <1>3, TargetWork
<1>6. CycleOK'
  BY <1>1, <1>2, <1>3, <1>5 DEF ScannerInv, CycleOK, Phases
<1>7. DryRunOK'
  BY <1>1 DEF ScannerInv, DryRunOK
<1>8. QED
  BY <1>4, <1>6, <1>7 DEF ScannerInv

(* The last target is done; pages_volatile is read. *)
LEMMA AppliedSafe ==
  ASSUME ScannerInv, Applied
  PROVE  ScannerInv'
<1>1. /\ phase = "apply" /\ phase' = "collapse" /\ InjectorIdle
      /\ queue' \in {targets, <<>>} /\ (dryRun => queue' = <<>>)
      /\ UNCHANGED <<kept, targets, collapsed, dryRun>>
  BY DEF Applied
<1>2. InjectorInv'
  BY <1>1, IdleStays DEF ScannerInv
<1>3. WorkOf(queue, Pids)' /\ WorkOf(targets, Pids)'
  BY <1>1, TargetWork, NoWork
<1>4. CycleOK'
  BY <1>1, <1>3 DEF ScannerInv, CycleOK, InjectorIdle, NoInjection, Phases
<1>5. DryRunOK'
  BY <1>1 DEF ScannerInv, DryRunOK, InjectorIdle, NoInjection
<1>6. QED
  BY <1>2, <1>4, <1>5 DEF ScannerInv

(* Huge pages are asked for, one target. *)
LEMMA CollapseRegionsSafe ==
  ASSUME ScannerInv, CollapseRegions
  PROVE  ScannerInv'
<1>1. /\ phase = "collapse" /\ queue # <<>> /\ InjectorIdle /\ queue' = Tail(queue)
      /\ UNCHANGED <<phase, kept, targets, dryRun>>
  BY DEF CollapseRegions
<1>2. InjectorInv'
  BY <1>1, IdleStays DEF ScannerInv
<1>3. WorkOf(queue, Pids)' /\ WorkOf(targets, Pids)'
  BY <1>1, TargetWork
<1>4. CycleOK'
  BY <1>1, <1>3 DEF ScannerInv, CycleOK, InjectorIdle, NoInjection
<1>5. ~dryRun
  BY <1>1 DEF ScannerInv, DryRunOK
<1>6. DryRunOK'
  BY <1>1, <1>5 DEF DryRunOK
<1>7. QED
  BY <1>2, <1>4, <1>6 DEF ScannerInv

(* Time passes. *)
LEMMA ElapseSafe ==
  ASSUME ScannerInv, UNCHANGED <<injectorVars, cycleVars, dryRun, phase>>
  PROVE  ScannerInv'
<1>1. InjectorInv'
  BY IdleStays DEF ScannerInv, InjectorIdle, NoInjection, injectorVars
<1>2. CycleOK'
  BY DEF ScannerInv, CycleOK, injectorVars, cycleVars
<1>3. DryRunOK'
  BY DEF ScannerInv, DryRunOK, injectorVars, cycleVars
<1>4. QED
  BY <1>1, <1>2, <1>3 DEF ScannerInv

(* While no call is being made, nothing that happens to processes starts one or *)
(* marks their memory.                                                         *)
LEMMA NothingWhileReady ==
  ASSUME InjectorInv, stage = "ready", InjectorStep \/ KernelStep \/ Disturbance
  PROVE  /\ stage' = "ready"
         /\ marked = [p \in Pids |-> {}] => marked' = [p \in Pids |-> {}]
<1>1. victim = NoPid
  BY DEF InjectorInv, InjectorTyped
<1>2. ~InjectorStep
  BY DEF InjectorStep, Attach, WaitAttach, WaitFailed, SetRegs, WaitEntry, Resume, WaitExit, GiveUp, Finish
<1>3. ~KernelStep
  BY <1>1 DEF KernelStep, StopsForSignal, SyscallEntry, SyscallExit, Traced
<1>4. UNCHANGED stage
  BY <1>2, <1>3 DEF Disturbance, SignalArrives, Dies, NewImage, Develops, Halts, tracerVars
<1>5. UNCHANGED marked \/ \E p \in Pids : marked' = [marked EXCEPT ![p] = {}]
  BY <1>2, <1>3 DEF Disturbance, SignalArrives, Dies, NewImage, Develops, Halts, processVars
<1>6. QED
  BY <1>4, <1>5

(* Steps of the tracer, the kernel and the processes while the cycle waits. *)
LEMMA DisturbedSafe ==
  ASSUME ScannerInv, UNCHANGED scannerVars, InjectorStep \/ KernelStep \/ Disturbance
  PROVE  ScannerInv'
<1>1. InjectorInv'
  BY InjectorAloneSafe DEF ScannerInv
<1>2. CycleOK'
  BY NothingWhileReady DEF ScannerInv, CycleOK, scannerVars, cycleVars
<1>3. DryRunOK'
  BY NothingWhileReady DEF ScannerInv, CycleOK, DryRunOK, scannerVars, cycleVars
<1>4. QED
  BY <1>1, <1>2, <1>3 DEF ScannerInv

(* Every step keeps the invariant. *)
LEMMA NextHolds == ScannerInv /\ [Next]_vars => ScannerInv'
<1> SUFFICES ASSUME ScannerInv, [Next]_vars PROVE ScannerInv'
  OBVIOUS
<1>1. CASE Tick
  BY <1>1, TickSafe
<1>2. CASE ReadStatus \/ StatusRead \/ ReadKsmStat \/ KsmStatRead \/ ReadMaps \/ MapsRead
  BY <1>2, ReadStatusSafe, StatusReadSafe, ReadKsmStatSafe, KsmStatReadSafe, ReadMapsSafe, MapsReadSafe
<1>3. CASE ApplyMergeable \/ InjectNext \/ InjectReturned \/ Applied \/ CollapseRegions
  BY <1>3, ApplyMergeableSafe, InjectNextSafe, InjectReturnedSafe, AppliedSafe, CollapseRegionsSafe
<1>4. CASE CycleEnds
  BY <1>4, ReturnSafe DEF CycleEnds
<1>5. CASE Elapse
  BY <1>5, ElapseSafe DEF Elapse
<1>6. CASE UNCHANGED scannerVars /\ (InjectorStep \/ KernelStep \/ Disturbance)
  BY <1>6, DisturbedSafe
<1>7. CASE UNCHANGED vars
  BY <1>7, ElapseSafe DEF vars, scannerVars
<1>8. QED
  BY <1>1, <1>2, <1>3, <1>4, <1>5, <1>6, <1>7 DEF Next, ScannerStep

(* The inductive invariant of the scanner. *)
LEMMA ScannerInvHolds == Spec => []ScannerInv
BY InitHolds, NextHolds, PTL DEF Spec

-----------------------------------------------------------------------------
(* The lists of a cycle, its batch, its window and its huge pages.             *)

Targets == [pid : Pids, maps : Seq(MapsEntries)]
Late == {"apply", "inject", "collapse"}

(* What the passes and the targets' phases have still to look at, and what they *)
(* have let through, are different processes; a later list only shrinks.       *)
ListsOK ==
  /\ phase = "idle" => queue = <<>> /\ kept = <<>>
  /\ phase = "status" =>
       /\ \A i, j \in DOMAIN queue : queue[i] = queue[j] => i = j
       /\ Apart(kept) /\ \A i \in DOMAIN kept, j \in DOMAIN queue : kept[i].pid # queue[j]
  /\ phase \in {"ksm_stat", "maps"} =>
       /\ queue \in Seq(Candidates) /\ Apart(queue) /\ Apart(kept)
       /\ \A i \in DOMAIN kept, j \in DOMAIN queue : kept[i].pid # queue[j].pid
  /\ phase = "maps" => kept \in Seq(Targets) /\ Len(queue) + Len(kept) <= MaxCandidates
  /\ phase \in Late =>
       /\ targets \in Seq(Targets) /\ queue \in Seq(Targets) /\ kept = <<>>
       /\ Apart(queue) /\ Apart(targets) /\ Len(targets) <= MaxCandidates
       /\ \A i \in DOMAIN queue : \E j \in DOMAIN targets : queue[i] = targets[j]

(* A sequence whose elements are in S is one over S. *)
LEMMA Narrow ==
  ASSUME NEW A, NEW B, NEW s \in Seq(A), \A k \in 1 .. Len(s) : s[k] \in B
  PROVE  s \in Seq(B)
<1>1. Len(s) \in Nat /\ s \in [1 .. Len(s) -> B]
  OBVIOUS
<1>2. QED
  BY <1>1

(* Head and Tail, place by place. *)
LEMMA TailPlaces ==
  ASSUME NEW S, NEW s \in Seq(S), s # <<>>
  PROVE  /\ Tail(s) \in Seq(S) /\ Head(s) \in S /\ Head(s) = s[1] /\ 1 \in DOMAIN s
         /\ Len(Tail(s)) = Len(s) - 1 /\ Len(s) \in Nat
         /\ \A j \in DOMAIN Tail(s) : j + 1 \in DOMAIN s /\ j + 1 # 1 /\ Tail(s)[j] = s[j + 1]
         /\ \A i, j \in DOMAIN Tail(s) : i + 1 = j + 1 => i = j
<1>1. Tail(s) \in Seq(S) /\ Head(s) \in S /\ Head(s) = s[1] /\ Len(s) \in Nat /\ Len(s) > 0
  OBVIOUS
<1>2. Len(Tail(s)) = Len(s) - 1 /\ \A j \in 1 .. Len(Tail(s)) : Tail(s)[j] = s[j + 1]
  BY HeadTailProperties
<1>3. DOMAIN s = 1 .. Len(s) /\ DOMAIN Tail(s) = 1 .. Len(Tail(s))
  BY <1>1
<1>4. QED
  BY <1>1, <1>2, <1>3

(* Append, place by place. *)
LEMMA AppendPlaces ==
  ASSUME NEW S, NEW s \in Seq(S), NEW x \in S
  PROVE  /\ Append(s, x) \in Seq(S) /\ Len(Append(s, x)) = Len(s) + 1 /\ Len(s) \in Nat
         /\ \A j \in DOMAIN Append(s, x) : \/ j \in DOMAIN s /\ Append(s, x)[j] = s[j]
                                           \/ j = Len(s) + 1 /\ Append(s, x)[j] = x
<1>1. Append(s, x) \in Seq(S) /\ Len(Append(s, x)) = Len(s) + 1 /\ Len(s) \in Nat
  BY AppendProperties
<1>2. DOMAIN s = 1 .. Len(s) /\ DOMAIN Append(s, x) = 1 .. Len(s) + 1
  BY <1>1
<1>3. (\A j \in 1 .. Len(s) : Append(s, x)[j] = s[j]) /\ Append(s, x)[Len(s) + 1] = x
  BY AppendProperties
<1>4. QED
  BY <1>1, <1>2, <1>3

(* Nothing else is lost or changed. *)
LEMMA TailKeeps ==
  ASSUME NEW S, NEW s \in Seq(S), s # <<>>
  PROVE  \A j \in DOMAIN s : j # 1 => \E i \in DOMAIN Tail(s) : Tail(s)[i] = s[j]
<1> SUFFICES ASSUME NEW j \in DOMAIN s, j # 1 PROVE \E i \in DOMAIN Tail(s) : Tail(s)[i] = s[j]
  OBVIOUS
<1>1. Tail(s) \in Seq(S) /\ Len(Tail(s)) = Len(s) - 1 /\ Len(s) \in Nat
  BY TailPlaces
<1>2. j \in 1 .. Len(s) /\ DOMAIN Tail(s) = 1 .. Len(Tail(s))
  BY <1>1
<1>3. j - 1 \in DOMAIN Tail(s)
  BY <1>1, <1>2
<1>4. Tail(s)[j - 1] = s[(j - 1) + 1]
  BY <1>3, TailPlaces
<1>5. QED
  BY <1>2, <1>3, <1>4

(* Append, the other way round. *)
LEMMA AppendAdds ==
  ASSUME NEW S, NEW s \in Seq(S), NEW x \in S
  PROVE  /\ \A i \in DOMAIN Append(s, x) : (i \in DOMAIN s /\ Append(s, x)[i] = s[i]) \/ Append(s, x)[i] = x
         /\ \A i \in DOMAIN s : i \in DOMAIN Append(s, x) /\ Append(s, x)[i] = s[i]
         /\ \E i \in DOMAIN Append(s, x) : Append(s, x)[i] = x
<1>1. Append(s, x) \in Seq(S) /\ Len(Append(s, x)) = Len(s) + 1 /\ Len(s) \in Nat
  BY AppendPlaces
<1>2. DOMAIN s = 1 .. Len(s) /\ DOMAIN Append(s, x) = 1 .. Len(s) + 1
  BY <1>1
<1>3. (\A j \in 1 .. Len(s) : Append(s, x)[j] = s[j]) /\ Append(s, x)[Len(s) + 1] = x
  BY AppendProperties
<1>4. QED
  BY <1>1, <1>2, <1>3, AppendPlaces

(* What is left of a list names other processes than its head. *)
LEMMA TailApart ==
  ASSUME NEW S, NEW s \in Seq(S), s # <<>>, Apart(s)
  PROVE  Apart(Tail(s)) /\ \A j \in DOMAIN Tail(s) : Tail(s)[j].pid # Head(s).pid
BY TailPlaces DEF Apart

(* A process that is not in a list can be added to it. *)
LEMMA AppendApart ==
  ASSUME NEW S, NEW s \in Seq(S), NEW x \in S, Apart(s), \A i \in DOMAIN s : s[i].pid # x.pid
  PROVE  Apart(Append(s, x))
<1> SUFFICES ASSUME NEW i \in DOMAIN Append(s, x), NEW j \in DOMAIN Append(s, x),
                    Append(s, x)[i].pid = Append(s, x)[j].pid
             PROVE  i = j
  BY DEF Apart
<1>1. QED
  BY AppendPlaces DEF Apart

(* No process is listed more often than once, and so no list is longer than there *)
(* are pids.                                                                   *)
LEMMA AtMostAllPids ==
  ASSUME NEW n \in Nat, NEW f \in [1 .. n -> Pids], \A i, j \in 1 .. n : f[i] = f[j] => i = j
  PROVE  n <= Cardinality(Pids)
<1>1. IsFiniteSet(Pids) /\ Cardinality(Pids) \in Nat
  BY ScannerAssumption, FS_CardinalityType
<1>2. IsFiniteSet(1 .. n) /\ Cardinality(1 .. n) = n
  BY FS_Interval
<1>3. ~(Cardinality(Pids) < Cardinality(1 .. n))
  BY <1>1, <1>2, NoMoreThan, Zenon
<1>4. QED
  BY <1>1, <1>2, <1>3

(* The lines that read_process_maps returns are entries. *)
LEMMA MapsNowTyped ==
  ASSUME NEW p, image[p] \in Images
  PROVE  /\ MapsNow(p) \in Seq(MapsEntries)
         /\ \A k \in DOMAIN MapsNow(p) : MapsNow(p)[k] \in Regions(image[p])
<1> DEFINE lines == MapsOf[image[p]]
           P == {i \in DOMAIN lines : lines[i] # Unparsable}
           S == MapsEntries \cup {Unparsable}
           now == Keep(lines, P)
<1>1. lines \in Seq(S)
  BY MapsAssumption
<1>2. MapsNow(p) = now
  BY DEF MapsNow
<1>3. now \in Seq(S) /\ \A k \in 1 .. Len(now) : \E i \in DOMAIN lines : i \in P /\ now[k] = lines[i]
  <2> HIDE DEF lines, S, P
  <2> QED
    BY <1>1, KeepElements
<1>4. ASSUME NEW k \in 1 .. Len(now) PROVE now[k] \in MapsEntries /\ now[k] \in Regions(image[p])
  <2>1. PICK i \in DOMAIN lines : i \in P /\ now[k] = lines[i]
    <3> HIDE DEF lines, P, now
    <3> QED
      BY <1>3
  <2>2. lines[i] \in S /\ lines[i] # Unparsable /\ lines[i] \in ToSet(lines)
    <3>1. lines[i] # Unparsable
      BY <2>1
    <3> HIDE DEF lines
    <3>2. QED
      BY <1>1, <2>1, <3>1 DEF ToSet
  <2> HIDE DEF now, P
  <2>3. QED
    BY <2>1, <2>2 DEF Regions
<1> HIDE DEF now
<1>5. now \in Seq(MapsEntries) /\ DOMAIN now = 1 .. Len(now)
  BY <1>3, <1>4, Narrow
<1>6. QED
  BY <1>2, <1>4, <1>5

(* A tick lists every pid once. *)
LEMMA TickLists == ASSUME ScannerInv, ListsOK, Tick PROVE ListsOK'
<1> DEFINE listed == {p \in Pids : image[p] # NoProc}
           n == Cardinality(listed)
<1>1. phase = "idle" /\ phase' = "status" /\ kept = <<>> /\ kept' = kept
  BY DEF Tick, ListsOK
<1>2. queue' \in [1 .. n -> listed] /\ \A i, j \in 1 .. n : i < j => queue'[i] < queue'[j]
  BY DEF Tick, ListPids
<1>3. n \in Nat
  BY ScannerAssumption, FS_Subset, FS_CardinalityType
<1>4. \A i \in 1 .. n : queue'[i] \in Nat
  BY <1>2, ScannerAssumption
<1> HIDE DEF n, listed
<1>5. \A i, j \in DOMAIN queue' : queue'[i] = queue'[j] => i = j
  <2> SUFFICES ASSUME NEW i \in 1 .. n, NEW j \in 1 .. n, queue'[i] = queue'[j] PROVE i = j
    BY <1>2
  <2>1. ~(i < j) /\ ~(j < i)
    BY <1>2, <1>4
  <2>2. QED
    BY <1>3, <2>1
<1>6. QED
  BY <1>1, <1>5 DEF ListsOK, Late, Apart

(* A process whose status is read leaves the queue, and may be kept. *)
LEMMA ReadStatusLists == ASSUME ScannerInv, ListsOK, ReadStatus PROVE ListsOK'
<1> DEFINE p == Head(queue)
           c == [pid |-> p, rss |-> AnonRssMb(p)]
<1>1. /\ phase = "status" /\ phase' = phase /\ queue # <<>> /\ queue' = Tail(queue)
      /\ kept' = kept \/ (Alive(p) /\ kept' = Append(kept, c))
  BY DEF ReadStatus
<1>2. /\ queue \in Seq(Pids) /\ kept \in Seq(Candidates) /\ Apart(kept)
      /\ \A i, j \in DOMAIN queue : queue[i] = queue[j] => i = j
      /\ \A i \in DOMAIN kept, j \in DOMAIN queue : kept[i].pid # queue[j]
  BY <1>1 DEF ScannerInv, CycleOK, ListsOK
<1>3. /\ p \in Pids /\ p = queue[1] /\ 1 \in DOMAIN queue
      /\ \A j \in DOMAIN queue' : j + 1 \in DOMAIN queue /\ j + 1 # 1 /\ queue'[j] = queue[j + 1]
      /\ \A i, j \in DOMAIN queue' : i + 1 = j + 1 => i = j
  BY <1>1, <1>2, TailPlaces
<1>4. \A i, j \in DOMAIN queue' : queue'[i] = queue'[j] => i = j
  <2> HIDE DEF p
  <2> QED
    BY <1>2, <1>3
<1>5. (\A j \in DOMAIN queue' : queue'[j] # p) /\ \A i \in DOMAIN kept : kept[i].pid # p
  <2> HIDE DEF p
  <2> QED
    BY <1>2, <1>3
<1>6. \A i \in DOMAIN kept, j \in DOMAIN queue' : kept[i].pid # queue'[j]
  <2> HIDE DEF p
  <2> QED
    BY <1>2, <1>3
<1>7. CASE kept' = kept
  BY <1>1, <1>2, <1>4, <1>6, <1>7 DEF ListsOK, Late
<1>8. CASE Alive(p) /\ kept' = Append(kept, c)
  <2>1. c \in Candidates /\ c.pid = p
    BY <1>3, <1>8, ScannerAssumption DEF ScannerInv, InjectorInv, InjectorTyped, Candidates, AnonRssMb, ParseKb, Alive
  <2> HIDE DEF c, p
  <2>2. Apart(kept')
    BY <1>2, <1>5, <1>8, <2>1, AppendApart
  <2>3. \A i \in DOMAIN kept' : (i \in DOMAIN kept /\ kept'[i] = kept[i]) \/ kept'[i] = c
    BY <1>2, <1>8, <2>1, AppendPlaces
  <2>4. \A i \in DOMAIN kept', j \in DOMAIN queue' : kept'[i].pid # queue'[j]
    BY <1>5, <1>6, <2>1, <2>3
  <2>5. QED
    BY <1>1, <1>4, <2>2, <2>4 DEF ListsOK, Late
<1>9. QED
  BY <1>1, <1>7, <1>8

(* A cycle that returns lists nothing. *)
LEMMA ReturnLists == ASSUME CycleReturns PROVE ListsOK'
BY DEF CycleReturns, ListsOK, Late

(* What level 1 has kept is looked at by level 2. *)
LEMMA StatusReadLists == ASSUME ScannerInv, ListsOK, StatusRead PROVE ListsOK'
<1>1. CASE kept = <<>>
  BY <1>1, ReturnLists DEF StatusRead, NextPass
<1>2. CASE kept # <<>>
  <2>1. phase = "status" /\ phase' = "ksm_stat" /\ queue' = kept /\ kept' = <<>>
    BY <1>2 DEF StatusRead, NextPass
  <2>2. kept \in Seq(Candidates) /\ Apart(kept)
    BY <2>1 DEF ScannerInv, CycleOK, ListsOK
  <2>3. QED
    BY <2>1, <2>2 DEF ListsOK, Apart, Late
<1>3. QED
  BY <1>1, <1>2

(* A candidate whose ksm_stat is read leaves the queue, and may be kept. *)
LEMMA ReadKsmStatLists == ASSUME ScannerInv, ListsOK, ReadKsmStat PROVE ListsOK'
<1> DEFINE c == Head(queue)
<1>1. /\ phase = "ksm_stat" /\ phase' = phase /\ queue # <<>> /\ queue' = Tail(queue)
      /\ kept' = kept \/ kept' = Append(kept, c)
  BY DEF ReadKsmStat
<1>2. /\ queue \in Seq(Candidates) /\ kept \in Seq(Candidates) /\ Apart(kept) /\ Apart(queue)
      /\ \A i \in DOMAIN kept, j \in DOMAIN queue : kept[i].pid # queue[j].pid
  BY <1>1 DEF ScannerInv, CycleOK, ListsOK
<1>3. /\ c \in Candidates /\ c = queue[1] /\ 1 \in DOMAIN queue /\ queue' \in Seq(Candidates)
      /\ \A j \in DOMAIN queue' : j + 1 \in DOMAIN queue /\ queue'[j] = queue[j + 1]
  BY <1>1, <1>2, TailPlaces
<1>4. Apart(queue') /\ \A j \in DOMAIN queue' : queue'[j].pid # c.pid
  BY <1>1, <1>2, TailApart
<1> HIDE DEF c
<1>5. \A i \in DOMAIN kept, j \in DOMAIN queue' : kept[i].pid # queue'[j].pid
  BY <1>2, <1>3
<1>6. \A i \in DOMAIN kept : kept[i].pid # c.pid
  BY <1>2, <1>3
<1>7. CASE kept' = kept
  BY <1>1, <1>2, <1>3, <1>4, <1>5, <1>7 DEF ListsOK, Late
<1>8. CASE kept' = Append(kept, c)
  <2>1. Apart(kept')
    BY <1>2, <1>3, <1>6, <1>8, AppendApart
  <2>2. \A i \in DOMAIN kept' : (i \in DOMAIN kept /\ kept'[i] = kept[i]) \/ kept'[i] = c
    BY <1>2, <1>3, <1>8, AppendPlaces
  <2>3. \A i \in DOMAIN kept', j \in DOMAIN queue' : kept'[i].pid # queue'[j].pid
    BY <1>4, <1>5, <2>2
  <2>4. QED
    BY <1>1, <1>3, <1>4, <2>1, <2>3 DEF ListsOK, Late
<1>9. QED
  BY <1>1, <1>7, <1>8

(* At most MaxCandidates go on to level 3. *)
LEMMA KsmStatReadLists == ASSUME ScannerInv, ListsOK, KsmStatRead PROVE ListsOK'
<1>1. PICK largest \in LargestFirst(kept) : NextPass("ksm_stat", "maps", largest)
  BY DEF KsmStatRead
<1>2. CASE kept = <<>>
  BY <1>1, <1>2, ReturnLists DEF NextPass
<1>3. CASE kept # <<>>
  <2>1. phase = "ksm_stat" /\ phase' = "maps" /\ queue' = largest /\ kept' = <<>>
    BY <1>1, <1>3 DEF NextPass
  <2>2. kept \in Seq(Candidates) /\ Apart(kept)
    BY <2>1 DEF ScannerInv, CycleOK, ListsOK
  <2>3. largest \in Seq(Candidates) /\ Len(largest) <= MaxCandidates /\ Apart(largest)
    BY <2>2, SortedAndTruncated
  <2>4. Len(largest) + 0 <= MaxCandidates
    BY <2>3
  <2>5. QED
    BY <2>1, <2>3, <2>4 DEF ListsOK, Apart, Late
<1>4. QED
  BY <1>2, <1>3

(* A candidate whose maps are read leaves the queue, and may become a target. *)
LEMMA ReadMapsLists == ASSUME ScannerInv, ListsOK, ReadMaps PROVE ListsOK'
<1> DEFINE c == Head(queue)
           p == Head(queue).pid
           maps == IF Alive(p) THEN MapsNow(p) ELSE <<>>
           t == [pid |-> p, maps |-> maps]
<1>1. /\ phase = "maps" /\ phase' = phase /\ queue # <<>> /\ queue' = Tail(queue)
      /\ kept' = kept \/ kept' = Append(kept, t)
  BY DEF ReadMaps
<1>2. /\ queue \in Seq(Candidates) /\ kept \in Seq(Targets) /\ Apart(kept) /\ Apart(queue)
      /\ \A i \in DOMAIN kept, j \in DOMAIN queue : kept[i].pid # queue[j].pid
      /\ Len(queue) + Len(kept) <= MaxCandidates
  BY <1>1 DEF ListsOK
<1>3. /\ c \in Candidates /\ c = queue[1] /\ 1 \in DOMAIN queue /\ queue' \in Seq(Candidates)
      /\ \A j \in DOMAIN queue' : j + 1 \in DOMAIN queue /\ queue'[j] = queue[j + 1]
      /\ Len(queue') = Len(queue) - 1 /\ Len(queue) \in Nat
  BY <1>1, <1>2, TailPlaces
<1>4. Apart(queue') /\ \A j \in DOMAIN queue' : queue'[j].pid # c.pid
  BY <1>1, <1>2, TailApart
<1>5. t \in Targets /\ t.pid = c.pid
  <2>1. p \in Pids
    BY <1>3 DEF Candidates
  <2>2. maps \in Seq(MapsEntries)
    BY <2>1, MapsNowTyped DEF Alive, ScannerInv, InjectorInv, InjectorTyped
  <2> HIDE DEF maps
  <2>3. QED
    BY <2>1, <2>2 DEF Targets
<1> HIDE DEF c, t
<1>6. \A i \in DOMAIN kept, j \in DOMAIN queue' : kept[i].pid # queue'[j].pid
  BY <1>2, <1>3
<1>7. \A i \in DOMAIN kept : kept[i].pid # t.pid
  BY <1>2, <1>3, <1>5
<1>8. CASE kept' = kept
  <2>1. Len(queue') + Len(kept') <= MaxCandidates
    BY <1>2, <1>3, <1>8, ScannerAssumption
  <2>2. QED
    BY <1>1, <1>2, <1>3, <1>4, <1>6, <1>8, <2>1 DEF ListsOK, Late
<1>9. CASE kept' = Append(kept, t)
  <2>1. Apart(kept')
    BY <1>2, <1>5, <1>7, <1>9, AppendApart
  <2>2. /\ kept' \in Seq(Targets) /\ Len(kept') = Len(kept) + 1 /\ Len(kept) \in Nat
        /\ \A i \in DOMAIN kept' : (i \in DOMAIN kept /\ kept'[i] = kept[i]) \/ kept'[i] = t
    BY <1>2, <1>5, <1>9, AppendPlaces
  <2>3. \A i \in DOMAIN kept', j \in DOMAIN queue' : kept'[i].pid # queue'[j].pid
    BY <1>4, <1>5, <1>6, <2>2
  <2>4. Len(queue') + Len(kept') <= MaxCandidates
    BY <1>2, <1>3, <2>2, ScannerAssumption
  <2>5. QED
    BY <1>1, <1>3, <1>4, <2>1, <2>2, <2>3, <2>4 DEF ListsOK, Late
<1>10. QED
  BY <1>1, <1>8, <1>9

(* The targets are what level 3 has kept. *)
LEMMA MapsReadLists == ASSUME ScannerInv, ListsOK, MapsRead PROVE ListsOK'
<1>1. CASE kept = <<>>
  BY <1>1, ReturnLists DEF MapsRead, NextPass
<1>2. CASE kept # <<>>
  <2>1. /\ phase = "maps" /\ phase' = "apply" /\ queue = <<>>
        /\ queue' = kept /\ targets' = kept /\ kept' = <<>>
    BY <1>2 DEF MapsRead, NextPass
  <2>2. kept \in Seq(Targets) /\ Apart(kept) /\ 0 + Len(kept) <= MaxCandidates
    BY <2>1 DEF ListsOK
  <2>3. Len(kept) <= MaxCandidates
    BY <2>2
  <2>4. QED
    BY <2>1, <2>2, <2>3 DEF ListsOK, Late
<1>3. QED
  BY <1>1, <1>2

(* The list of targets that are left stays or shrinks, or starts anew. *)
LEMMA LateLists ==
  ASSUME ScannerInv, ListsOK, phase \in Late, phase' \in Late, UNCHANGED <<kept, targets>>,
         \/ queue' = queue
         \/ queue # <<>> /\ queue' = Tail(queue)
         \/ queue' \in {targets, <<>>}
  PROVE  ListsOK'
<1>1. /\ targets \in Seq(Targets) /\ queue \in Seq(Targets) /\ kept = <<>>
      /\ Apart(queue) /\ Apart(targets) /\ Len(targets) <= MaxCandidates
      /\ \A i \in DOMAIN queue : \E j \in DOMAIN targets : queue[i] = targets[j]
  BY DEF ListsOK
<1>2. /\ queue' \in Seq(Targets) /\ Apart(queue')
      /\ \A i \in DOMAIN queue' : \E j \in DOMAIN targets : queue'[i] = targets[j]
  <2>1. CASE queue # <<>> /\ queue' = Tail(queue)
    <3>1. Apart(Tail(queue)) /\ Tail(queue) \in Seq(Targets)
      BY <1>1, <2>1, TailApart, TailPlaces
    <3>2. \A i \in DOMAIN Tail(queue) : i + 1 \in DOMAIN queue /\ Tail(queue)[i] = queue[i + 1]
      BY <1>1, <2>1, TailPlaces
    <3>3. QED
      BY <1>1, <2>1, <3>1, <3>2
  <2>2. CASE queue' = <<>>
    <3>1. <<>> \in Seq(Targets) /\ Apart(<<>>) /\ \A i \in DOMAIN <<>> : FALSE
      BY DEF Apart
    <3>2. QED
      BY <2>2, <3>1
  <2>3. CASE queue' = targets \/ queue' = queue
    BY <1>1, <2>3
  <2>4. QED
    BY <2>1, <2>2, <2>3
<1>3. QED
  BY <1>1, <1>2 DEF ListsOK, Late

(* The lists, step by step. *)
LEMMA ListsHold == ScannerInv /\ ListsOK /\ [Next]_vars => ListsOK'
<1> SUFFICES ASSUME ScannerInv, ListsOK, [Next]_vars PROVE ListsOK'
  OBVIOUS
<1>1. CASE Tick
  BY <1>1, TickLists
<1>2. CASE ReadStatus \/ StatusRead \/ ReadKsmStat \/ KsmStatRead \/ ReadMaps \/ MapsRead
  BY <1>2, ReadStatusLists, StatusReadLists, ReadKsmStatLists, KsmStatReadLists, ReadMapsLists, MapsReadLists
<1>3. CASE ApplyMergeable
  BY <1>3, LateLists DEF ApplyMergeable, NextTarget, Late
<1>4. CASE InjectReturned
  <2>1. phase = "inject" /\ queue # <<>> /\ phase' \in Late /\ UNCHANGED <<kept, targets>>
    BY <1>4 DEF InjectReturned, Late, ScannerInv, CycleOK
  <2>2. queue' = queue \/ queue' = Tail(queue)
    BY <1>4 DEF InjectReturned
  <2>3. QED
    BY <2>1, <2>2, LateLists DEF Late
<1>5. CASE Applied
  <2>1. phase \in Late /\ phase' \in Late /\ UNCHANGED <<kept, targets>> /\ queue' \in {targets, <<>>}
    BY <1>5 DEF Applied, Late
  <2>2. QED
    BY <2>1, LateLists
<1>6. CASE CollapseRegions
  BY <1>6, LateLists DEF CollapseRegions, Late
<1>7. CASE CycleEnds
  BY <1>7, ReturnLists DEF CycleEnds
<1>8. CASE UNCHANGED <<phase, queue, kept, targets>>
  BY <1>8 DEF ListsOK
<1>9. QED
  BY <1>1, <1>2, <1>3, <1>4, <1>5, <1>6, <1>7, <1>8
    DEF Next, ScannerStep, InjectNext, Elapse, vars, scannerVars, cycleVars

AddressRanges == [start : Nat, end : Nat]

(* A range lies in one of the regions of maps that may be advised. *)
Within(g, maps) ==
  \E i \in DOMAIN maps : Eligible(maps[i]) /\ maps[i].start <= g.start /\ g.end <= maps[i].end

(* What the injector has been told to advise is part of what level 3 has found in *)
(* the maps of the target that it is told of.                                  *)
BatchOK ==
  /\ batch \in Seq(AddressRanges) /\ range \in AddressRanges
  /\ phase = "inject" => \A i \in DOMAIN batch : Within(batch[i], Target.maps)
  /\ stage # "ready" => victim = Target.pid /\ Within(range, Target.maps)
  /\ marked \in [Pids -> SUBSET Nat]

(* The ranges of a batch lie in regions that may be advised. *)
LEMMA BatchWithin ==
  ASSUME NEW maps \in Seq(MapsEntries)
  PROVE  /\ Batch(maps) \in Seq(AddressRanges)
         /\ \A i \in DOMAIN Batch(maps) : Within(Batch(maps)[i], maps)
<1> DEFINE P == {i \in DOMAIN maps : Eligible(maps[i])}
           E == EligibleRegions(maps)
           n == Len(E)
           p == PagesUpTo(E)
           B == BuildBatch(E)
<1>1. E \in Seq(MapsEntries) /\ \A k \in 1 .. n : \E i \in DOMAIN maps : i \in P /\ E[k] = maps[i]
  <2>1. E = Keep(maps, P)
    BY DEF EligibleRegions
  <2> HIDE DEF E, P
  <2>2. QED
    BY <2>1, KeepElements
<1>2. n \in Nat /\ \A i \in 1 .. n : E[i] \in MapsEntries /\ E[i].start \in Nat /\ Size(E[i]) \in Nat
  <2> HIDE DEF E
  <2>1. n \in Nat /\ \A i \in 1 .. n : E[i] \in MapsEntries
    BY <1>1
  <2>2. QED
    BY <2>1 DEF MapsEntries, Size
<1> HIDE DEF E
<1>3. PICK k \in 0 .. n : Taken(E) = 1 .. k /\ \A i \in 1 .. k : p[i - 1] < MaxPages
  BY <1>1, <1>2, TakenIsPrefix
<1>4. p \in [0 .. n -> Nat]
  BY <1>2, PagesSteps
<1> HIDE DEF p
<1> DEFINE len(i) == IF Size(E[i]) < MaxPages - p[i - 1] THEN Size(E[i]) ELSE MaxPages - p[i - 1]
           cut == [i \in 1 .. k |-> [start |-> E[i].start, end |-> E[i].start + len(i)]]
<1>5. B = cut
  BY <1>3 DEF BuildBatch, p
<1>6. ASSUME NEW i \in 1 .. k PROVE len(i) \in Nat /\ len(i) <= Size(E[i]) /\ i \in 1 .. n
  <2>1. i \in 1 .. n /\ i - 1 \in 0 .. n
    BY <1>2, <1>3
  <2>2. Size(E[i]) \in Nat /\ p[i - 1] \in Nat /\ p[i - 1] < MaxPages
    BY <1>2, <1>3, <1>4, <2>1
  <2>3. QED
    BY <2>1, <2>2, MadviseAssumption
<1> HIDE DEF len, B
<1>7. ASSUME NEW i \in 1 .. k PROVE B[i] \in AddressRanges /\ Within(B[i], maps)
  <2>1. B[i] = [start |-> E[i].start, end |-> E[i].start + len(i)]
    BY <1>5
  <2>2. E[i] \in MapsEntries /\ E[i].start \in Nat /\ len(i) \in Nat /\ len(i) <= Size(E[i]) /\ i \in 1 .. n
    BY <1>2, <1>6
  <2>3. E[i].end \in Nat /\ E[i].start + len(i) <= E[i].end
    BY <2>2 DEF MapsEntries, Size
  <2>4. PICK j \in DOMAIN maps : j \in P /\ E[i] = maps[j]
    BY <1>1, <2>2
  <2>5. Eligible(maps[j])
    BY <2>4
  <2> HIDE DEF P
  <2>6. QED
    BY <2>1, <2>2, <2>3, <2>4, <2>5 DEF AddressRanges, Within
<1>8. B \in Seq(AddressRanges) /\ DOMAIN B = 1 .. k
  <2>1. k \in Nat /\ DOMAIN B = 1 .. k /\ B = [i \in 1 .. k |-> B[i]]
    BY <1>2, <1>3, <1>5
  <2>2. B \in [1 .. k -> AddressRanges]
    BY <1>7, <2>1
  <2>3. QED
    BY <2>1, <2>2
<1>9. QED
  BY <1>7, <1>8 DEF B, Batch, E

(* What happens during a call: who is called for what stays, and memory is only *)
(* marked page by page.                                                        *)
LEMMA CallFrame ==
  ASSUME InjectorInv, BatchOK, InjectorStep \/ KernelStep \/ Disturbance
  PROVE  UNCHANGED <<victim, range>> /\ marked' \in [Pids -> SUBSET Nat]
<1>1. marked \in [Pids -> SUBSET Nat] /\ range \in AddressRanges
  BY DEF BatchOK
<1>2. CASE InjectorStep
  BY <1>1, <1>2 DEF InjectorStep, Attach, WaitAttach, WaitFailed, SetRegs, WaitEntry, Resume, WaitExit, GiveUp, Finish,
    WaitSyscall, Reaped, LostVictim, Detached, Returns, At, TracerUnchanged, processVars
<1>3. CASE KernelStep
  <2>1. UNCHANGED <<victim, range>>
    BY <1>3 DEF KernelStep, StopsForSignal, SyscallEntry, SyscallExit, Stops, tracerVars
  <2>2. UNCHANGED marked \/ marked' = [marked EXCEPT ![victim] = @ \cup (RangePages \cap Mapped(victim))]
    BY <1>3 DEF KernelStep, StopsForSignal, SyscallEntry, SyscallExit
  <2>3. RangePages \subseteq Nat
    BY <1>1 DEF RangePages, Pages, AddressRanges
  <2>4. marked' \in [Pids -> SUBSET Nat]
    BY <1>1, <2>2, <2>3
  <2>5. QED
    BY <2>1, <2>4
<1>4. CASE SignalArrives
  BY <1>1, <1>4 DEF SignalArrives, processVars, tracerVars
<1>5. CASE \E p \in Pids : Dies(p) \/ NewImage(p) \/ Develops(p) \/ Halts(p)
  BY <1>1, <1>5 DEF Dies, NewImage, Develops, Halts, tracerVars
<1>6. QED
  BY <1>2, <1>3, <1>4, <1>5 DEF Disturbance

(* The batches, step by step. *)
LEMMA BatchHolds == ScannerInv /\ ListsOK /\ BatchOK /\ [Next]_vars => BatchOK'
<1> SUFFICES ASSUME ScannerInv, ListsOK, BatchOK, [Next]_vars PROVE BatchOK'
  OBVIOUS
<1>1. CASE ApplyMergeable
  <2>1. /\ phase = "apply" /\ queue # <<>> /\ NoInjection
        /\ \/ UNCHANGED batch /\ phase' = "apply"
           \/ batch' = Batch(Target.maps) /\ UNCHANGED queue
    BY <1>1 DEF ApplyMergeable, NextTarget
  <2>2. stage = "ready"
    BY <2>1 DEF ScannerInv, CycleOK
  <2>3. CASE UNCHANGED batch /\ phase' = "apply"
    BY <2>1, <2>2, <2>3 DEF BatchOK, NoInjection
  <2>4. CASE batch' = Batch(Target.maps) /\ UNCHANGED queue
    <3>1. queue \in Seq(Targets)
      BY <2>1 DEF ListsOK, Late
    <3>2. Target \in Targets
      BY <2>1, <3>1, TailPlaces DEF Target
    <3>3. Target.maps \in Seq(MapsEntries) /\ Target' = Target
      BY <2>4, <3>2 DEF Targets, Target
    <3>4. /\ batch' \in Seq(AddressRanges)
          /\ \A i \in DOMAIN batch' : Within(batch'[i], Target'.maps)
      BY <2>4, <3>3, BatchWithin
    <3>5. QED
      BY <2>1, <2>2, <3>4 DEF BatchOK, NoInjection
  <2>5. QED
    BY <2>1, <2>3, <2>4
<1>2. CASE InjectNext
  <2>1. /\ phase = "inject" /\ batch # <<>> /\ batch' = Tail(batch) /\ range' = Head(batch)
        /\ victim' = Target.pid /\ UNCHANGED <<phase, queue, marked>>
    BY <1>2 DEF InjectNext, Inject, processVars
  <2>2. batch \in Seq(AddressRanges) /\ \A i \in DOMAIN batch : Within(batch[i], Target.maps)
    BY <2>1 DEF BatchOK
  <2>3. /\ batch' \in Seq(AddressRanges) /\ range' \in AddressRanges /\ range' = batch[1] /\ 1 \in DOMAIN batch
        /\ \A j \in DOMAIN batch' : j + 1 \in DOMAIN batch /\ batch'[j] = batch[j + 1]
    BY <2>1, <2>2, TailPlaces
  <2>4. Target' = Target
    BY <2>1 DEF Target
  <2>5. Within(range, Target.maps)' /\ \A j \in DOMAIN batch' : Within(batch'[j], Target.maps)
    BY <2>2, <2>3, <2>4 DEF Within
  <2>6. QED
    BY <2>1, <2>3, <2>4, <2>5 DEF BatchOK
<1>3. CASE InjectReturned
  <2>1. /\ phase = "inject" /\ stage' = "ready" /\ range' = NoRange
        /\ phase' \in {"apply", "inject"} /\ (phase' = "inject" => UNCHANGED queue)
        /\ UNCHANGED <<batch, marked>>
    BY <1>3 DEF InjectReturned, processVars
  <2>2. NoRange \in AddressRanges
    BY DEF NoRange, AddressRanges
  <2>3. QED
    BY <2>1, <2>2 DEF BatchOK, Target
<1>4. CASE UNCHANGED scannerVars /\ (InjectorStep \/ KernelStep \/ Disturbance)
  <2>1. /\ UNCHANGED <<victim, range>>
        /\ marked' \in [Pids -> SUBSET Nat]
    BY <1>4, CallFrame DEF ScannerInv
  <2>2. stage = "ready" => stage' = "ready"
    BY <1>4, NothingWhileReady DEF ScannerInv
  <2>3. UNCHANGED <<batch, phase, queue>>
    BY <1>4 DEF scannerVars, cycleVars
  <2>4. QED
    BY <2>1, <2>2, <2>3 DEF BatchOK, Target
<1>5. CASE \/ Tick \/ ReadStatus \/ StatusRead \/ ReadKsmStat \/ KsmStatRead \/ ReadMaps \/ MapsRead
           \/ Applied \/ CollapseRegions \/ CycleEnds
  <2>1. phase # "inject" /\ phase' # "inject" /\ NoInjection
    BY <1>5 DEF Tick, ReadStatus, StatusRead, ReadKsmStat, KsmStatRead, ReadMaps, MapsRead, NextPass, CycleReturns,
      Applied, CollapseRegions, CycleEnds, InjectorIdle
  <2>2. batch' \in {batch, <<>>}
    BY <1>5 DEF Tick, ReadStatus, StatusRead, ReadKsmStat, KsmStatRead, ReadMaps, MapsRead, NextPass, CycleReturns,
      Applied, CollapseRegions, CycleEnds
  <2>3. stage = "ready" /\ stage' = "ready" /\ UNCHANGED <<range, marked>>
    BY <2>1 DEF ScannerInv, CycleOK, NoInjection
  <2>4. batch' \in Seq(AddressRanges)
    <3>1. <<>> \in Seq(AddressRanges)
      OBVIOUS
    <3>2. QED
      BY <2>2, <3>1 DEF BatchOK
  <2>5. QED
    BY <2>1, <2>3, <2>4 DEF BatchOK
<1>6. CASE UNCHANGED <<injectorVars, cycleVars, phase>>
  BY <1>6 DEF BatchOK, Target, injectorVars, cycleVars
<1>7. QED
  BY <1>1, <1>2, <1>3, <1>4, <1>5, <1>6 DEF Next, ScannerStep, Elapse, vars, scannerVars

(* Nothing is listed at the start, and nothing is to be advised. *)
LEMMA BatchStarts == Init => ListsOK /\ BatchOK
BY DEF Init, InjectorInit, ListsOK, BatchOK, Late, AddressRanges, NoRange

(* The window that is running began no earlier than the latest merge that an ended *)
(* cycle counted; merged tells whether the present one has counted any.        *)
WindowOK ==
  /\ age \in 0 .. Stabilization /\ sinceMerge \in 0 .. Stabilization /\ merged \in Nat
  /\ phase \notin Late => merged = 0
  /\ merged = 0 => age <= sinceMerge

(* The window, step by step. *)
LEMMA WindowHolds == ScannerInv /\ ListsOK /\ WindowOK /\ [Next]_vars => WindowOK'
<1> SUFFICES ASSUME ScannerInv, ListsOK, WindowOK, [Next]_vars PROVE WindowOK'
  OBVIOUS
<1> USE ScannerAssumption
<1>1. CASE ApplyMergeable
  <2>1. /\ phase = "apply" /\ queue # <<>> /\ phase' \in Late /\ UNCHANGED age
        /\ \/ UNCHANGED <<merged, sinceMerge>>
           \/ \E n \in {Len(Batch(Target.maps)), 0} :
                merged' = merged + n /\ sinceMerge' = IF n > 0 THEN 0 ELSE sinceMerge
    BY <1>1 DEF ApplyMergeable, NextTarget, Late
  <2>2. Target \in Targets
    BY <2>1, TailPlaces DEF ListsOK, Late, Target
  <2>3. Batch(Target.maps) \in Seq(AddressRanges)
    BY <2>2, BatchWithin DEF Targets
  <2>4. Len(Batch(Target.maps)) \in Nat
    BY <2>3
  <2>5. QED
    BY <2>1, <2>4 DEF WindowOK
<1>2. CASE InjectReturned
  <2>1. phase' \in Late
    BY <1>2 DEF InjectReturned, Late
  <2>2. QED
    BY <1>2, <2>1 DEF InjectReturned, WindowOK
<1>3. CASE CycleEnds
  BY <1>3 DEF CycleEnds, CycleReturns, WindowOK
<1>4. CASE StatusRead \/ KsmStatRead \/ MapsRead
  BY <1>4 DEF StatusRead, KsmStatRead, MapsRead, NextPass, CycleReturns, WindowOK, Late
<1>5. CASE Elapse
  BY <1>5 DEF Elapse, cycleVars, WindowOK
<1>6. CASE UNCHANGED <<age, sinceMerge, merged>> /\ (phase' \in Late => phase \in Late \/ merged = 0)
           /\ (phase' \notin Late => phase \notin Late)
  BY <1>6 DEF WindowOK
<1>7. QED
  BY <1>1, <1>2, <1>3, <1>4, <1>5, <1>6
    DEF Next, ScannerStep, Tick, ReadStatus, ReadKsmStat, ReadMaps, InjectNext, Applied, CollapseRegions, Late,
      vars, scannerVars, cycleVars

(* The huge pages that were asked for belong to the targets of this cycle. *)
CollapsedOK == (phase # "collapse" => collapsed = {}) /\ CollapsesWholeHugePages

(* The requests, step by step. *)
LEMMA CollapsedHolds == ScannerInv /\ ListsOK /\ CollapsedOK /\ [Next]_vars => CollapsedOK'
<1> SUFFICES ASSUME ScannerInv, ListsOK, CollapsedOK, [Next]_vars PROVE CollapsedOK'
  OBVIOUS
<1>1. CASE CollapseRegions
  <2>1. /\ phase = "collapse" /\ phase' = phase /\ queue # <<>> /\ UNCHANGED targets
        /\ \E n \in AskedFor(Target.pid, CollapseRanges(Target.maps)) :
             collapsed' = collapsed \cup {<<Target.pid, CollapseRanges(Target.maps)[i]>> : i \in 1 .. n}
    BY <1>1 DEF CollapseRegions
  <2>2. Target \in Targets /\ Target = queue[1] /\ 1 \in DOMAIN queue /\ targets \in Seq(Targets)
    BY <2>1, TailPlaces DEF ListsOK, Late, Target
  <2>3. Target \in ToSet(targets)
    BY <2>1, <2>2 DEF ListsOK, Late, ToSet
  <2> DEFINE maps == Target.maps
             ranges == CollapseRanges(maps)
  <2>4. maps \in Seq(MapsEntries)
    BY <2>2 DEF Targets
  <2>5. ranges \in Seq({ranges[i] : i \in DOMAIN ranges}) /\ Len(ranges) \in Nat
    <3> DEFINE large == {i \in DOMAIN maps : Eligible(maps[i]) /\ Size(maps[i]) >= ThpSize}
               all == [i \in DOMAIN maps |-> IF i \in large THEN ThpRange(maps[i]) ELSE maps[i]]
               whole == {i \in large : all[i].start < all[i].end}
               S == {all[i] : i \in DOMAIN maps}
    <3>1. ranges = Keep(all, whole)
      BY DEF CollapseRanges
    <3>2. all \in Seq(S)
      <4>1. all \in [1 .. Len(maps) -> S] /\ Len(maps) \in Nat
        BY <2>4
      <4> HIDE DEF all, S
      <4>2. QED
        BY <4>1
    <3> HIDE DEF all, whole, S, ranges, maps
    <3>3. ranges \in Seq(S)
      BY <3>1, <3>2, KeepElements
    <3>4. QED
      BY <3>3
  <2> HIDE DEF ranges, maps
  <2>6. PICK n : n \in {0, 1, Len(ranges)} /\ (ranges = <<>> => n = 0)
                 /\ collapsed' = collapsed \cup {<<Target.pid, ranges[i]>> : i \in 1 .. n}
    BY <2>1 DEF AskedFor, ranges, maps
  <2>7. \A i \in 1 .. n : ranges[i] \in ToSet(ranges)
    <3>1. ranges = <<>> \/ Len(ranges) > 0
      BY <2>5
    <3>2. \A i \in 1 .. n : i \in DOMAIN ranges
      BY <2>5, <2>6, <3>1
    <3>3. QED
      BY <3>2 DEF ToSet
  <2>8. ASSUME NEW c \in collapsed'
        PROVE  /\ c[2].start % ThpSize = 0 /\ c[2].end % ThpSize = 0 /\ c[2].start < c[2].end
               /\ \E t \in ToSet(targets) : t.pid = c[1] /\
                    \E r \in ToSet(t.maps) : Eligible(r) /\ r.start <= c[2].start /\ c[2].end <= r.end
    <3>1. CASE c \in collapsed
      BY <3>1 DEF CollapsedOK, CollapsesWholeHugePages
    <3>2. CASE c \notin collapsed
      <4>1. PICK i \in 1 .. n : c = <<Target.pid, ranges[i]>>
        BY <2>6, <3>2
      <4>2. c[1] = Target.pid /\ c[2] \in ToSet(ranges)
        BY <2>7, <4>1
      <4>3. /\ c[2].start % ThpSize = 0 /\ c[2].end % ThpSize = 0 /\ c[2].start < c[2].end
            /\ \E r \in ToSet(maps) : Eligible(r) /\ r.start <= c[2].start /\ c[2].end <= r.end
        BY <2>4, <4>2, CollapseWhole DEF ranges
      <4>4. QED
        BY <2>3, <4>2, <4>3 DEF maps
    <3>3. QED
      BY <3>1, <3>2
  <2>9. QED
    BY <2>1, <2>8 DEF CollapsedOK, CollapsesWholeHugePages
<1>2. CASE \/ Tick \/ ReadStatus \/ StatusRead \/ ReadKsmStat \/ KsmStatRead \/ ReadMaps \/ MapsRead
           \/ ApplyMergeable \/ InjectNext \/ InjectReturned \/ Applied \/ CycleEnds
  <2>1. collapsed' = {}
    BY <1>2 DEF Tick, ReadStatus, StatusRead, ReadKsmStat, KsmStatRead, ReadMaps, MapsRead, NextPass, CycleReturns,
      ApplyMergeable, InjectNext, InjectReturned, Applied, CycleEnds, CollapsedOK
  <2>2. QED
    BY <2>1 DEF CollapsedOK, CollapsesWholeHugePages
<1>3. CASE UNCHANGED <<phase, collapsed, targets>>
  BY <1>3 DEF CollapsedOK, CollapsesWholeHugePages
<1>4. QED
  BY <1>1, <1>2, <1>3 DEF Next, ScannerStep, Elapse, vars, scannerVars, cycleVars

(* The invariants that build on ScannerInv. *)
CycleInv == ListsOK /\ BatchOK /\ WindowOK /\ CollapsedOK

(* They hold from the start and are kept. *)
LEMMA CycleInvHolds == Spec => []CycleInv
<1>1. Init => CycleInv
  <2>1. Init => WindowOK /\ CollapsedOK
    BY ScannerAssumption DEF Init, WindowOK, CollapsedOK, CollapsesWholeHugePages
  <2>2. QED
    BY <2>1, BatchStarts DEF CycleInv
<1>2. ScannerInv /\ CycleInv /\ [Next]_vars => CycleInv'
  BY ListsHold, BatchHolds, WindowHolds, CollapsedHolds DEF CycleInv
<1>3. QED
  BY <1>1, <1>2, ScannerInvHolds, PTL DEF Spec

-----------------------------------------------------------------------------
(* What the readings of a cycle have said about the processes.                 *)

(* Who passed level 1, and levels 2 and 2.5, by what was read of them. *)
Sized ==
  {p \in Pids : p > 2 /\ seen["status"][p] \in Images \ Blocklisted /\ SizeMb(p) >= MinRssMb}
Profitable ==
  {p \in Pids : \A i \in {seen["ksm_stat"][p]} \cap Images : KsmStat[i] # NoField =>
     KsmStat[i].merge_any \notin {"1", "yes", "true"} /\ KsmStat[i].profit \in Nat \cup {NoField}}
Passed == Sized \cap Profitable

(* A pid that may be a target: fewer than MaxCandidates of those that passed are *)
(* larger; and a target with nothing but regions that were read.               *)
LargerThan(p) == {q \in Pids : PassedFilters(q) /\ SizeMb(q) > SizeMb(p)}
Chosen == {p \in Passed : Cardinality(LargerThan(p)) < MaxCandidates}
Shown ==
  {t \in Targets : /\ seen["maps"][t.pid] \in Images
                   /\ \A i \in DOMAIN t.maps : t.maps[i] \in Regions(seen["maps"][t.pid])}

(* Whom a list names, and that it has their sizes right.                       *)
Listed(s) == {s[i].pid : i \in DOMAIN s}
Weighed(s) == \A i \in DOMAIN s : s[i].pid \in Sized /\ s[i].rss = SizeMb(s[i].pid)

(* The passes let through whom they should, and nobody else, until the largest are *)
(* chosen of them.                                                             *)
SievedOK ==
  /\ seen \in [Readings -> [Pids -> Images \cup {NoProc}]]
  /\ phase = "idle" => seen = Unread
  /\ phase = "status" => Weighed(kept) /\ Sized \subseteq Listed(kept)
  /\ phase = "ksm_stat" =>
       /\ Weighed(queue) /\ Weighed(kept) /\ Listed(kept) \subseteq Profitable
       /\ Passed \subseteq Listed(queue) \cup Listed(kept)
  /\ phase = "maps" => /\ Listed(queue) \subseteq Chosen /\ Listed(kept) \subseteq Chosen
                       /\ \A i \in DOMAIN kept : kept[i] \in Shown
  /\ phase \in Late => Listed(targets) \subseteq Chosen /\ \A i \in DOMAIN targets : targets[i] \in Shown

(* These are the filters of the property. *)
LEMMA PassedMeans == ASSUME NEW p \in Pids PROVE PassedFilters(p) <=> p \in Passed
BY DEF PassedFilters, Passed, Sized, Profitable

(* What is read changes what is known of one process in one file. *)
LEMMA ReadsFrame ==
  ASSUME InjectorInv, SievedOK, NEW p \in Pids, NEW reading \in Readings, Reads(p, reading)
  PROVE  /\ seen' \in [Readings -> [Pids -> Images \cup {NoProc}]]
         /\ seen'[reading][p] = IF Alive(p) THEN image[p] ELSE NoProc
         /\ Alive(p) => image[p] \in Images
         /\ \A q \in Pids : q # p => seen'[reading][q] = seen[reading][q]
         /\ \A other \in Readings : other # reading => seen'[other] = seen[other]
BY DEF Reads, SievedOK, InjectorInv, InjectorTyped, Alive

(* Who is known by the same status is sized as before ... *)
LEMMA SameStatus ==
  ASSUME NEW p \in Pids, seen'["status"][p] = seen["status"][p]
  PROVE  SizeMb(p)' = SizeMb(p) /\ (p \in Sized' <=> p \in Sized)
BY DEF SizeMb, Sized

(* ... and chosen as before, if nobody's ksm_stat is read either. *)
LEMMA SameChosen ==
  ASSUME seen'["status"] = seen["status"], seen'["ksm_stat"] = seen["ksm_stat"]
  PROVE  Chosen' = Chosen
<1>1. \A p \in Pids : SizeMb(p)' = SizeMb(p)
  BY DEF SizeMb
<1>2. Sized' = Sized /\ Profitable' = Profitable
  BY <1>1 DEF Sized, Profitable
<1>3. Passed' = Passed
  BY <1>2 DEF Passed
<1>4. \A p \in Pids : PassedFilters(p)' <=> PassedFilters(p)
  BY <1>1 DEF PassedFilters
<1>5. \A p \in Pids : LargerThan(p)' = LargerThan(p)
  BY <1>1, <1>4 DEF LargerThan
<1>6. QED
  BY <1>3, <1>5 DEF Chosen, Passed, Sized

(* A step that reads nothing. *)
LEMMA NothingRead ==
  ASSUME UNCHANGED seen
  PROVE  /\ Sized' = Sized /\ Profitable' = Profitable /\ Passed' = Passed
         /\ Chosen' = Chosen /\ Shown' = Shown
         /\ \A p \in Pids : SizeMb(p)' = SizeMb(p)
<1>1. \A p \in Pids : SizeMb(p)' = SizeMb(p)
  BY DEF SizeMb
<1>2. Sized' = Sized /\ Profitable' = Profitable /\ Shown' = Shown
  BY <1>1 DEF Sized, Profitable, Shown
<1>3. QED
  BY <1>1, <1>2, SameChosen DEF Passed

(* A step that reads nothing and leaves the lists that matter. *)
LEMMA SievedStays ==
  ASSUME SievedOK, UNCHANGED seen,
         \/ UNCHANGED <<phase, kept, queue, targets>>
         \/ phase \in Late /\ phase' \in Late /\ UNCHANGED targets
  PROVE  SievedOK'
<1>1. CASE UNCHANGED <<phase, kept, queue, targets>>
  <2>1. Weighed(kept)' = Weighed(kept) /\ Weighed(queue)' = Weighed(queue)
    BY <1>1 DEF Weighed, Sized, SizeMb
  <2>2. QED
    BY <1>1, <2>1, NothingRead DEF SievedOK, Listed
<1>2. CASE phase \in Late /\ phase' \in Late /\ UNCHANGED targets
  BY <1>2, NothingRead DEF SievedOK, Listed, Late
<1>3. QED
  BY <1>1, <1>2

(* A cycle that returns forgets what it has read. *)
LEMMA ReturnSieved == ASSUME CycleReturns PROVE SievedOK'
BY DEF CycleReturns, SievedOK, Late, Unread

(* A tick: nobody is kept yet, and nobody has been read. *)
LEMMA TickSieved == ASSUME ListsOK, SievedOK, Tick PROVE SievedOK'
<1>1. phase = "idle" /\ phase' = "status" /\ kept' = <<>> /\ UNCHANGED seen /\ seen = Unread
  BY DEF Tick, ListsOK, SievedOK
<1>2. Sized' = {}
  BY <1>1, InjectorAssumption DEF Sized, Unread, Readings
<1>3. QED
  BY <1>1, <1>2 DEF SievedOK, Weighed, Listed, Late

(* Level 1 lets a process through, or not; those before it are other processes. *)
LEMMA ReadStatusSieved == ASSUME ScannerInv, ListsOK, SievedOK, ReadStatus PROVE SievedOK'
<1>p. PICK p : p = Head(queue)
  OBVIOUS
<1> DEFINE c == [pid |-> p, rss |-> AnonRssMb(p)]
<1>1. /\ phase = "status" /\ phase' = phase /\ queue # <<>> /\ Reads(p, "status")
      /\ kept' = IF Alive(p) /\ L1Candidate(p) THEN Append(kept, c) ELSE kept
  BY <1>p DEF ReadStatus
<1>2. /\ queue \in Seq(Pids) /\ kept \in Seq(Candidates)
      /\ \A i \in DOMAIN kept, j \in DOMAIN queue : kept[i].pid # queue[j]
  BY <1>1 DEF ScannerInv, CycleOK, ListsOK
<1>3. p \in Pids /\ p = queue[1] /\ 1 \in DOMAIN queue
  BY <1>p, <1>1, <1>2, TailPlaces
<1>4. /\ seen' \in [Readings -> [Pids -> Images \cup {NoProc}]]
      /\ seen'["status"][p] = (IF Alive(p) THEN image[p] ELSE NoProc)
      /\ Alive(p) => image[p] \in Images
      /\ \A q \in Pids : q # p => seen'["status"][q] = seen["status"][q]
  BY <1>1, <1>3, ReadsFrame DEF ScannerInv, Readings
<1>5. \A q \in Pids : q # p => SizeMb(q)' = SizeMb(q) /\ (q \in Sized' <=> q \in Sized)
  BY <1>4, SameStatus
<1>6. Alive(p) => SizeMb(p)' = AnonRssMb(p)
  <2> SUFFICES ASSUME Alive(p) PROVE SizeMb(p)' = AnonRssMb(p)
    OBVIOUS
  <2>1. seen'["status"][p] = image[p]
    BY <1>4
  <2>2. SizeMb(p)' = IF RssKb[image[p]] = NoField THEN 0 ELSE RssKb[image[p]] \div 1024
    BY <2>1 DEF SizeMb
  <2>3. AnonRssMb(p) = (IF RssKb[image[p]] = NoField THEN 0 ELSE RssKb[image[p]]) \div 1024
    BY DEF AnonRssMb, ParseKb
  <2>4. QED
    BY <2>2, <2>3
<1>7. p \in Sized' <=> Alive(p) /\ L1Candidate(p)
  <2>1. CASE Alive(p)
    <3>1. seen'["status"][p] = image[p] /\ image[p] \in Images
      BY <1>4, <2>1
    <3>2. QED
      BY <1>3, <1>6, <2>1, <3>1 DEF Sized, L1Candidate, IsBlocklisted
  <2>2. CASE ~Alive(p)
    <3>1. seen'["status"][p] \notin Images
      BY <1>4, <2>2, InjectorAssumption
    <3>2. QED
      BY <2>2, <3>1 DEF Sized
  <2>3. QED
    BY <2>1, <2>2
<1>8. \A i \in DOMAIN kept : kept[i].pid # p /\ kept[i].pid \in Pids /\ kept[i].pid \in Sized
                             /\ kept[i].rss = SizeMb(kept[i].pid)
  BY <1>1, <1>2, <1>3 DEF SievedOK, Weighed, Sized
<1>9. \A i \in DOMAIN kept, q \in Pids : kept[i].pid = q => q \in Sized' /\ kept[i].rss = SizeMb(q)'
  BY <1>5, <1>8
<1>10. \A q \in Pids : q \in Sized' /\ q # p => q \in Listed(kept)
  BY <1>1, <1>5 DEF SievedOK
<1>11. CASE Alive(p) /\ L1Candidate(p)
  <2>1. c \in Candidates /\ c.pid = p /\ c.rss = SizeMb(p)'
    BY <1>3, <1>4, <1>6, <1>11, ScannerAssumption DEF Candidates, AnonRssMb, ParseKb
  <2>2. kept' = Append(kept, c)
    BY <1>1, <1>11
  <2> HIDE DEF c
  <2>3. /\ \A i \in DOMAIN kept' : (i \in DOMAIN kept /\ kept'[i] = kept[i]) \/ kept'[i] = c
        /\ \A i \in DOMAIN kept : i \in DOMAIN kept' /\ kept'[i] = kept[i]
        /\ \E i \in DOMAIN kept' : kept'[i] = c
    BY <1>2, <2>1, <2>2, AppendAdds
  <2>4. \A i \in DOMAIN kept' : kept'[i].pid \in Pids
    BY <1>3, <1>8, <2>1, <2>3
  <2>5. \A i \in DOMAIN kept', q \in Pids : kept'[i].pid = q => q \in Sized' /\ kept'[i].rss = SizeMb(q)'
    BY <1>7, <1>9, <1>11, <2>1, <2>3
  <2>6. Weighed(kept)'
    BY <2>4, <2>5 DEF Weighed, SizeMb
  <2>7. \A q \in Sized' : q \in Listed(kept')
    BY <1>10, <2>1, <2>3 DEF Listed, Sized
  <2>8. QED
    BY <1>1, <1>4, <2>6, <2>7 DEF SievedOK, Listed, Late
<1>12. CASE ~(Alive(p) /\ L1Candidate(p))
  <2>1. kept' = kept
    BY <1>1, <1>12
  <2>2. \A q \in Sized' : q \in Listed(kept)
    BY <1>7, <1>10, <1>12 DEF Sized
  <2>3. Weighed(kept)'
    BY <1>8, <1>9, <2>1 DEF Weighed, SizeMb
  <2>4. QED
    BY <1>1, <1>4, <2>1, <2>2, <2>3 DEF SievedOK, Listed, Late
<1>13. QED
  BY <1>11, <1>12

(* Of those that are kept, as many are larger as there are that passed. *)
LEMMA LargerAreKept ==
  ASSUME SievedOK, NEW list \in Seq(Candidates), Weighed(list), Passed \subseteq Listed(list),
         NEW k \in DOMAIN list,
         Cardinality({j \in DOMAIN list : list[j].rss > list[k].rss}) < MaxCandidates
  PROVE  Cardinality(LargerThan(list[k].pid)) < MaxCandidates
<1> DEFINE p == list[k].pid
           S == LargerThan(p)
           T == {j \in DOMAIN list : list[j].rss > list[k].rss}
           f == [q \in S |-> CHOOSE j \in T : list[j].pid = q]
<1>1. ASSUME NEW q \in S PROVE \E j \in T : list[j].pid = q
  <2>1. q \in Passed /\ SizeMb(q) > SizeMb(p)
    BY PassedMeans DEF LargerThan
  <2>2. PICK j \in DOMAIN list : list[j].pid = q
    BY <2>1 DEF Listed
  <2>3. list[j].rss = SizeMb(q) /\ list[k].rss = SizeMb(p)
    BY <2>2 DEF Weighed
  <2>4. QED
    BY <2>1, <2>2, <2>3
<1>2. f \in [S -> T] /\ \A q \in S : list[f[q]].pid = q
  BY <1>1
<1>3. \A x, y \in S : f[x] = f[y] => x = y
  <2> SUFFICES ASSUME NEW x \in S, NEW y \in S, f[x] = f[y] PROVE x = y
    OBVIOUS
  <2> HIDE DEF f, S, T
  <2>1. list[f[x]].pid = x /\ list[f[y]].pid = y
    BY <1>2
  <2>2. QED
    BY <2>1
<1>4. IsFiniteSet(S) /\ Cardinality(S) \in Nat
  <2>1. S \subseteq Pids
    BY DEF LargerThan
  <2>2. QED
    BY <2>1, ScannerAssumption, FS_Subset, FS_CardinalityType
<1>5. IsFiniteSet(T) /\ Cardinality(T) \in Nat
  <2>1. IsFiniteSet(1 .. Len(list)) /\ T \subseteq 1 .. Len(list)
    BY FS_Interval
  <2>2. QED
    BY <2>1, FS_Subset, FS_CardinalityType
<1> HIDE DEF f, S, T
<1>6. ~(Cardinality(T) < Cardinality(S))
  BY <1>2, <1>3, <1>4, <1>5, NoMoreThan, Zenon
<1>7. Cardinality(T) < MaxCandidates
  BY DEF T
<1>8. Cardinality(S) < MaxCandidates
  BY <1>4, <1>5, <1>6, <1>7, ScannerAssumption
<1>9. QED
  BY <1>8 DEF S, p

(* The passes that begin with what the last one has kept. *)
LEMMA PassSieved ==
  ASSUME ScannerInv, ListsOK, SievedOK, StatusRead \/ KsmStatRead \/ MapsRead
  PROVE  SievedOK'
<1>1. CASE CycleReturns
  BY <1>1, ReturnSieved
<1>2. CASE ~CycleReturns
  <2>1. UNCHANGED seen
    BY <1>2 DEF StatusRead, KsmStatRead, MapsRead, NextPass
  <2>2. CASE StatusRead
    <3>1. phase = "status" /\ phase' = "ksm_stat" /\ queue' = kept /\ kept' = <<>>
      BY <1>2, <2>2 DEF StatusRead, NextPass
    <3>2. Weighed(kept) /\ Sized \subseteq Listed(kept) /\ kept \in Seq(Candidates)
      BY <3>1 DEF SievedOK, ScannerInv, CycleOK
    <3>3. Weighed(queue)'
      BY <2>1, <3>1, <3>2, NothingRead DEF Weighed, Sized
    <3>4. QED
      BY <2>1, <3>1, <3>2, <3>3, NothingRead DEF SievedOK, Weighed, Listed, Passed, Late
  <2>3. CASE KsmStatRead
    <3>1. PICK largest \in LargestFirst(kept) :
            phase = "ksm_stat" /\ phase' = "maps" /\ queue = <<>> /\ queue' = largest /\ kept' = <<>>
      BY <1>2, <2>3 DEF KsmStatRead, NextPass
    <3>2. /\ kept \in Seq(Candidates) /\ Weighed(kept) /\ Listed(kept) \subseteq Profitable
          /\ Passed \subseteq Listed(kept)
      BY <3>1 DEF ScannerInv, CycleOK, SievedOK, Listed
    <3>3. \A i \in DOMAIN largest : \E k \in DOMAIN kept :
            /\ largest[i] = kept[k]
            /\ Cardinality({j \in DOMAIN kept : kept[j].rss > kept[k].rss}) < MaxCandidates
      BY <3>1, <3>2, SortedAndTruncated
    <3>4. ASSUME NEW i \in DOMAIN largest PROVE largest[i].pid \in Chosen
      <4>1. PICK k \in DOMAIN kept :
              /\ largest[i] = kept[k]
              /\ Cardinality({j \in DOMAIN kept : kept[j].rss > kept[k].rss}) < MaxCandidates
        BY <3>3
      <4>2. kept[k].pid \in Passed
        BY <3>2 DEF Weighed, Listed, Passed
      <4>3. Cardinality(LargerThan(kept[k].pid)) < MaxCandidates
        BY <3>2, <4>1, LargerAreKept
      <4>4. QED
        BY <4>1, <4>2, <4>3 DEF Chosen
    <3>5. QED
      BY <2>1, <3>1, <3>4, NothingRead DEF SievedOK, Listed, Late
  <2>4. CASE MapsRead
    <3>1. phase = "maps" /\ phase' = "apply" /\ targets' = kept /\ kept' = <<>>
      BY <1>2, <2>4 DEF MapsRead, NextPass
    <3>2. QED
      BY <2>1, <3>1, NothingRead DEF SievedOK, Listed, Late
  <2>5. QED
    BY <2>2, <2>3, <2>4
<1>3. QED
  BY <1>1, <1>2

(* What read_ksm_stat makes of the file is what the property asks of it. *)
LEMMA KsmStatMeans ==
  ASSUME NEW p \in Pids, Alive(p) => image[p] \in Images
  PROVE  KsmStatPasses(ReadKsmStatOf(p)) <=>
           (Alive(p) /\ KsmStat[image[p]] # NoField =>
              /\ KsmStat[image[p]].merge_any \notin {"1", "yes", "true"}
              /\ KsmStat[image[p]].profit \in Nat \cup {NoField})
<1>1. CASE ~Alive(p) \/ KsmStat[image[p]] = NoField
  BY <1>1 DEF ReadKsmStatOf, KsmStatPasses
<1>2. CASE Alive(p) /\ KsmStat[image[p]] # NoField
  <2> DEFINE stat == KsmStat[image[p]]
             word == stat.merge_any
             profit == stat.profit
             read == [mergeAny |-> ParseKsmBool(word), profit |-> IF profit = NoField THEN 0 ELSE profit]
  <2>1. stat \in [merge_any : STRING \cup {NoField}, profit : Int \cup {NoField}]
    BY <1>2, ScannerAssumption
  <2>2. profit \in Int \cup {NoField}
    BY <2>1
  <2>3. ReadKsmStatOf(p) = read
    BY <1>2 DEF ReadKsmStatOf
  <2> HIDE DEF stat, word, profit
  <2>4. ParseKsmBool(word) \in BOOLEAN
    BY DEF ParseKsmBool
  <2>5. read \in [mergeAny : BOOLEAN, profit : Int]
    BY <2>2, <2>4
  <2>6. read # NoField
    BY <2>5, ScannerAssumption
  <2>7. KsmStatPasses(read) <=> ~ParseKsmBool(word) /\ (IF profit = NoField THEN 0 ELSE profit) >= 0
    BY <2>6 DEF KsmStatPasses
  <2>8. (IF profit = NoField THEN 0 ELSE profit) >= 0 <=> profit \in Nat \cup {NoField}
    BY <2>2
  <2> HIDE DEF read
  <2>9. KsmStatPasses(ReadKsmStatOf(p)) <=> word \notin {"1", "yes", "true"} /\ profit \in Nat \cup {NoField}
    BY <2>3, <2>7, <2>8 DEF ParseKsmBool
  <2>10. QED
    BY <1>2, <2>9 DEF word, profit, stat
<1>3. QED
  BY <1>1, <1>2

(* Levels 2 and 2.5 let a candidate through, or not. *)
LEMMA ReadKsmStatSieved == ASSUME ScannerInv, ListsOK, SievedOK, ReadKsmStat PROVE SievedOK'
<1> DEFINE c == Head(queue)
<1>1. /\ phase = "ksm_stat" /\ phase' = phase /\ queue # <<>> /\ Reads(c.pid, "ksm_stat")
      /\ queue' = Tail(queue)
      /\ kept' = IF KsmStatPasses(ReadKsmStatOf(c.pid)) THEN Append(kept, c) ELSE kept
  BY DEF ReadKsmStat
<1>2. /\ queue \in Seq(Candidates) /\ kept \in Seq(Candidates)
      /\ \A i \in DOMAIN kept, j \in DOMAIN queue : kept[i].pid # queue[j].pid
  BY <1>1 DEF ScannerInv, CycleOK, ListsOK
<1>3. /\ c \in Candidates /\ c = queue[1] /\ 1 \in DOMAIN queue
      /\ \A j \in DOMAIN queue' : j + 1 \in DOMAIN queue /\ queue'[j] = queue[j + 1]
      /\ \A j \in DOMAIN queue : j # 1 => \E i \in DOMAIN queue' : queue'[i] = queue[j]
  BY <1>1, <1>2, TailPlaces, TailKeeps
<1> HIDE DEF c
<1>4. c.pid \in Pids
  BY <1>3 DEF Candidates
<1>5. /\ seen' \in [Readings -> [Pids -> Images \cup {NoProc}]]
      /\ seen'["ksm_stat"][c.pid] = (IF Alive(c.pid) THEN image[c.pid] ELSE NoProc)
      /\ Alive(c.pid) => image[c.pid] \in Images
      /\ \A q \in Pids : q # c.pid => seen'["ksm_stat"][q] = seen["ksm_stat"][q]
      /\ seen'["status"] = seen["status"]
  BY <1>1, <1>4, ReadsFrame DEF ScannerInv, Readings
<1>6. Sized' = Sized /\ \A q \in Pids : SizeMb(q)' = SizeMb(q)
  <2>1. \A q \in Pids : SizeMb(q)' = SizeMb(q)
    BY <1>5 DEF SizeMb
  <2>2. QED
    BY <1>5, <2>1 DEF Sized
<1>7. \A q \in Pids : q # c.pid => (q \in Profitable' <=> q \in Profitable)
  BY <1>5 DEF Profitable
<1>8. c.pid \in Profitable' <=> KsmStatPasses(ReadKsmStatOf(c.pid))
  <2>1. PICK p \in Pids : p = c.pid
    BY <1>4
  <2>2. p \in Profitable' <=> (Alive(p) /\ KsmStat[image[p]] # NoField =>
              /\ KsmStat[image[p]].merge_any \notin {"1", "yes", "true"}
              /\ KsmStat[image[p]].profit \in Nat \cup {NoField})
    <3>1. CASE Alive(p)
      <4>1. seen'["ksm_stat"][p] = image[p] /\ image[p] \in Images
        BY <1>5, <2>1, <3>1
      <4>2. {seen'["ksm_stat"][p]} \cap Images = {image[p]}
        BY <4>1
      <4>3. QED
        BY <3>1, <4>2 DEF Profitable
    <3>2. CASE ~Alive(p)
      <4>1. {seen'["ksm_stat"][p]} \cap Images = {}
        BY <1>5, <2>1, <3>2, InjectorAssumption
      <4>2. QED
        BY <3>2, <4>1 DEF Profitable
    <3>3. QED
      BY <3>1, <3>2
  <2>3. QED
    BY <1>5, <2>1, <2>2, KsmStatMeans
<1>9. Weighed(queue) /\ Weighed(kept) /\ Listed(kept) \subseteq Profitable
      /\ Passed \subseteq Listed(queue) \cup Listed(kept)
  BY <1>1 DEF SievedOK
<1>10. c.pid \in Sized /\ c.rss = SizeMb(c.pid)
  BY <1>3, <1>9 DEF Weighed
<1>11. \A i \in DOMAIN queue' : queue'[i].pid \in Sized /\ queue'[i].rss = SizeMb(queue'[i].pid)
  BY <1>3, <1>9 DEF Weighed
<1>12. Weighed(queue)'
  BY <1>6, <1>11 DEF Weighed, Sized
<1>13. \A i \in DOMAIN kept, q \in Pids :
         kept[i].pid = q => q \in Sized' /\ kept[i].rss = SizeMb(q)' /\ q \in Profitable'
  <2> SUFFICES ASSUME NEW i \in DOMAIN kept, NEW q \in Pids, kept[i].pid = q
               PROVE  q \in Sized' /\ kept[i].rss = SizeMb(q)' /\ q \in Profitable'
    OBVIOUS
  <2>1. kept[i].pid \in Sized /\ kept[i].rss = SizeMb(kept[i].pid) /\ kept[i].pid \in Profitable
    BY <1>9 DEF Weighed, Listed
  <2>2. q # c.pid
    BY <1>2, <1>3
  <2>3. QED
    BY <1>6, <1>7, <2>1, <2>2
<1>e. \A i \in DOMAIN kept : kept[i].pid \in Pids
  BY <1>9 DEF Weighed, Sized
<1>14. \A q \in Passed' : q # c.pid => q \in Listed(queue') \cup Listed(kept)
  <2> SUFFICES ASSUME NEW q \in Passed', q # c.pid PROVE q \in Listed(queue') \cup Listed(kept)
    OBVIOUS
  <2>1. q \in Passed /\ q \in Pids
    BY <1>6, <1>7 DEF Passed, Sized
  <2>2. CASE q \in Listed(kept)
    BY <2>2
  <2>3. CASE q \in Listed(queue)
    <3>1. PICK j \in DOMAIN queue : queue[j].pid = q
      BY <2>3 DEF Listed
    <3>2. j # 1
      BY <1>3, <3>1
    <3>3. QED
      BY <1>3, <3>1, <3>2 DEF Listed
  <2>4. QED
    BY <1>9, <2>1, <2>2, <2>3
<1>15. CASE KsmStatPasses(ReadKsmStatOf(c.pid))
  <2>1. kept' = Append(kept, c)
    BY <1>1, <1>15
  <2>2. /\ \A i \in DOMAIN kept' : (i \in DOMAIN kept /\ kept'[i] = kept[i]) \/ kept'[i] = c
        /\ \A i \in DOMAIN kept : i \in DOMAIN kept' /\ kept'[i] = kept[i]
        /\ \E i \in DOMAIN kept' : kept'[i] = c
    <3>1. kept \in Seq(Candidates) /\ c \in Candidates
      BY <1>2, <1>3
    <3>2. QED
      BY <2>1, <3>1, AppendAdds
  <2>3. \A i \in DOMAIN kept', q \in Pids :
          kept'[i].pid = q => q \in Sized' /\ kept'[i].rss = SizeMb(q)' /\ q \in Profitable'
    BY <1>4, <1>6, <1>8, <1>10, <1>13, <1>15, <2>2
  <2>4. \A i \in DOMAIN kept' : kept'[i].pid \in Pids
    BY <1>4, <1>e, <2>2
  <2>5. Weighed(kept)' /\ Listed(kept') \subseteq Profitable'
    BY <2>3, <2>4 DEF Weighed, Listed, SizeMb
  <2>6. \A q \in Passed' : q \in Listed(queue') \cup Listed(kept')
    BY <1>14, <2>2 DEF Listed
  <2>7. QED
    BY <1>1, <1>5, <1>12, <2>5, <2>6 DEF SievedOK, Listed, Late
<1>16. CASE ~KsmStatPasses(ReadKsmStatOf(c.pid))
  <2>1. kept' = kept
    BY <1>1, <1>16
  <2>2. \A q \in Passed' : q \in Listed(queue') \cup Listed(kept)
    BY <1>8, <1>14, <1>16 DEF Passed
  <2>3. Weighed(kept)' /\ Listed(kept') \subseteq Profitable'
    BY <1>13, <1>e, <2>1 DEF Weighed, Listed, SizeMb
  <2>4. QED
    BY <1>1, <1>5, <1>12, <2>1, <2>2, <2>3 DEF SievedOK, Listed, Late
<1>17. QED
  BY <1>15, <1>16

(* Level 3 keeps what it has read. *)
LEMMA ReadMapsSieved == ASSUME ScannerInv, ListsOK, SievedOK, ReadMaps PROVE SievedOK'
<1>p. PICK p : p = Head(queue).pid
  OBVIOUS
<1> DEFINE c == Head(queue)
           maps == IF Alive(p) THEN MapsNow(p) ELSE <<>>
           t == [pid |-> p, maps |-> maps]
<1>1. /\ phase = "maps" /\ phase' = phase /\ queue # <<>> /\ Reads(p, "maps")
      /\ queue' = Tail(queue)
      /\ kept' = IF \E r \in ToSet(maps) : Eligible(r) THEN Append(kept, t) ELSE kept
  BY <1>p DEF ReadMaps
<1>2. /\ queue \in Seq(Candidates) /\ kept \in Seq(Targets)
      /\ \A i \in DOMAIN kept, j \in DOMAIN queue : kept[i].pid # queue[j].pid
  BY <1>1 DEF ListsOK
<1>3. /\ c \in Candidates /\ c = queue[1] /\ 1 \in DOMAIN queue
      /\ \A j \in DOMAIN queue' : j + 1 \in DOMAIN queue /\ queue'[j] = queue[j + 1]
  BY <1>1, <1>2, TailPlaces
<1>4. p \in Pids /\ p = c.pid
  BY <1>p, <1>3 DEF Candidates
<1>5. /\ seen' \in [Readings -> [Pids -> Images \cup {NoProc}]]
      /\ seen'["maps"][p] = (IF Alive(p) THEN image[p] ELSE NoProc)
      /\ Alive(p) => image[p] \in Images
      /\ \A q \in Pids : q # p => seen'["maps"][q] = seen["maps"][q]
      /\ seen'["status"] = seen["status"] /\ seen'["ksm_stat"] = seen["ksm_stat"]
  BY <1>1, <1>4, ReadsFrame DEF ScannerInv, Readings
<1>6. Chosen' = Chosen
  BY <1>5, SameChosen
<1>7. Listed(queue) \subseteq Chosen /\ Listed(kept) \subseteq Chosen /\ \A i \in DOMAIN kept : kept[i] \in Shown
  BY <1>1 DEF SievedOK
<1> HIDE DEF c, t
<1>8. Listed(queue') \subseteq Chosen /\ p \in Chosen
  BY <1>3, <1>4, <1>7 DEF Listed
<1>9. \A i \in DOMAIN kept : kept[i] \in Shown'
  <2> SUFFICES ASSUME NEW i \in DOMAIN kept PROVE kept[i] \in Shown'
    OBVIOUS
  <2>1. PICK x : x = kept[i]
    OBVIOUS
  <2>2. x \in Shown /\ x \in Targets /\ x.pid \in Pids /\ x.pid # p
    BY <1>2, <1>3, <1>4, <1>7, <2>1 DEF Shown, Targets
  <2>3. x \in Shown'
    BY <1>5, <2>2 DEF Shown
  <2>4. QED
    BY <2>1, <2>3
<1>10. CASE \E r \in ToSet(maps) : Eligible(r)
  <2>1. Alive(p)
    <3>1. ToSet(<<>>) = {}
      BY DEF ToSet
    <3>2. QED
      BY <1>10, <3>1
  <2>2. MapsNow(p) \in Seq(MapsEntries) /\ \A k \in DOMAIN MapsNow(p) : MapsNow(p)[k] \in Regions(image[p])
    BY <1>5, <2>1, MapsNowTyped
  <2>3. PICK m : m = maps
    OBVIOUS
  <2>4. m \in Seq(MapsEntries) /\ \A k \in DOMAIN m : m[k] \in Regions(image[p])
    BY <2>1, <2>2, <2>3
  <2>5. t = [pid |-> p, maps |-> m]
    BY <2>3 DEF t
  <2>6. t \in Targets /\ t.pid = p /\ t.maps = m
    BY <1>4, <2>4, <2>5 DEF Targets
  <2>7. seen'["maps"][p] = image[p] /\ image[p] \in Images
    BY <1>5, <2>1
  <2>8. t \in Shown'
    BY <2>4, <2>6, <2>7 DEF Shown
  <2>9. kept' = Append(kept, t)
    BY <1>1, <1>10
  <2>10. \A i \in DOMAIN kept' : (i \in DOMAIN kept /\ kept'[i] = kept[i]) \/ kept'[i] = t
    BY <1>2, <2>6, <2>9, AppendPlaces
  <2>11. Listed(kept') \subseteq Chosen /\ \A i \in DOMAIN kept' : kept'[i] \in Shown'
    BY <1>7, <1>8, <1>9, <2>6, <2>8, <2>10 DEF Listed
  <2>12. QED
    BY <1>1, <1>5, <1>6, <1>8, <2>11 DEF SievedOK, Listed, Late
<1>11. CASE ~\E r \in ToSet(maps) : Eligible(r)
  <2>1. kept' = kept
    BY <1>1, <1>11
  <2>2. QED
    BY <1>1, <1>5, <1>6, <1>7, <1>8, <1>9, <2>1 DEF SievedOK, Listed, Late
<1>12. QED
  BY <1>10, <1>11

(* The sieve, step by step. *)
LEMMA SievedHolds == ScannerInv /\ ListsOK /\ SievedOK /\ [Next]_vars => SievedOK'
<1> SUFFICES ASSUME ScannerInv, ListsOK, SievedOK, [Next]_vars PROVE SievedOK'
  OBVIOUS
<1>1. CASE Tick \/ CycleEnds
  BY <1>1, TickSieved, ReturnSieved DEF CycleEnds
<1>2. CASE ReadStatus \/ StatusRead \/ ReadKsmStat \/ KsmStatRead \/ ReadMaps \/ MapsRead
  BY <1>2, ReadStatusSieved, PassSieved, ReadKsmStatSieved, ReadMapsSieved
<1>3. CASE ApplyMergeable \/ InjectNext \/ InjectReturned \/ Applied \/ CollapseRegions
  <2>1. phase \in Late /\ phase' \in Late /\ UNCHANGED <<targets, seen>>
    BY <1>3 DEF ApplyMergeable, NextTarget, InjectNext, InjectReturned, Applied, CollapseRegions, Late
  <2>2. QED
    BY <2>1, SievedStays
<1>4. CASE UNCHANGED <<phase, kept, queue, targets, seen>>
  BY <1>4, SievedStays
<1>5. QED
  BY <1>1, <1>2, <1>3, <1>4 DEF Next, ScannerStep, Elapse, vars, scannerVars, cycleVars

(* So it always holds. *)
LEMMA SievedAlways == Spec => []SievedOK
<1>1. Init => SievedOK
  BY DEF Init, SievedOK, Unread, Late
<1>2. CycleInv => ListsOK
  BY DEF CycleInv
<1>3. QED
  BY <1>1, <1>2, SievedHolds, ScannerInvHolds, CycleInvHolds, PTL DEF Spec

-----------------------------------------------------------------------------

(* The theorems.                                                               *)

(* The cycle begins an injection or takes its result, and stops nobody itself. *)
LEMMA CycleOnlyInjects ==
  ASSUME Tick \/ ScannerStep \/ Elapse
  PROVE  /\ UNCHANGED halted
         /\ UNCHANGED <<stage, result>> \/ (stage' \in {"attach", "ready"} /\ result' = "none")
<1>1. CASE InjectNext \/ InjectReturned
  BY <1>1 DEF InjectNext, Inject, InjectReturned, processVars
<1>2. CASE Elapse
  BY <1>2 DEF Elapse, injectorVars
<1>3. CASE Tick \/ ReadStatus \/ StatusRead \/ ReadKsmStat \/ KsmStatRead \/ ReadMaps \/ MapsRead
  BY <1>3 DEF Tick, ReadStatus, StatusRead, ReadKsmStat, KsmStatRead, ReadMaps, MapsRead, NextPass, CycleReturns,
    InjectorIdle, NoInjection
<1>4. CASE ApplyMergeable \/ Applied \/ CollapseRegions \/ CycleEnds
  BY <1>4 DEF ApplyMergeable, Applied, CollapseRegions, CycleEnds, CycleReturns, InjectorIdle, NoInjection
<1>5. QED
  BY <1>1, <1>2, <1>3, <1>4 DEF ScannerStep


(* Whatever stops, kills or interrupts a target, it executes on its own        *)
(* registers whenever madvise_via_ptrace is not in the middle of its call.     *)
THEOREM RegistersAlwaysReturned == Spec => []BorrowedRegistersReturned
<1>1. ScannerInv => BorrowedRegistersReturned
  BY DEF ScannerInv, InjectorInv, InjectorTyped, TracingOK, Waiting, Holding, Borrowing,
    BorrowedRegistersReturned, Alive
<1>2. QED
  BY <1>1, ScannerInvHolds, PTL

(* madvise_via_ptrace detaches on every path: no process stays traced after it. *)
THEOREM TargetsAlwaysReleased == Spec => []Released
<1>1. ScannerInv => Released
  BY DEF ScannerInv, InjectorInv, TracingOK, Waiting, Holding, Released
<1>2. QED
  BY <1>1, ScannerInvHolds, PTL

(* The SIGSTOP of PTRACE_ATTACH is used up before the detach, on every path and *)
(* with any one signal from elsewhere, unless that is a real-time signal and the *)
(* wait of the attach fails because of it.                                     *)
THEOREM JobControlLeftAsFound == Spec => LeftAsFound
<1>1. ASSUME ScannerInv, [Next]_vars, stage # "done", stage' = "done", ~(halted' \subseteq halted)
      PROVE  others > 1 \/ (others = 1 /\ stage = "wait_failed" /\ report = "realtime")
  <2>1. CASE UNCHANGED vars
    BY <1>1, <2>1 DEF vars, injectorVars
  <2>2. CASE Tick \/ ScannerStep \/ Elapse
    BY <1>1, <2>2, CycleOnlyInjects
  <2>3. CASE KernelStep \/ Disturbance
    BY <1>1, <2>3 DEF KernelStep, StopsForSignal, SyscallEntry, SyscallExit, Stops, Disturbance, SignalArrives,
      Dies, NewImage, Develops, Halts, tracerVars
  <2>4. CASE Attach \/ WaitAttach \/ SetRegs \/ WaitEntry \/ Resume \/ WaitExit
    BY <1>1, <2>4 DEF Attach, WaitAttach, SetRegs, WaitEntry, Resume, WaitExit, WaitSyscall, Reaped, LostVictim,
      Returns, At, TracerUnchanged, processVars
  <2>5. CASE WaitFailed \/ GiveUp \/ Finish
    <3>1. CASE LostVictim
      BY <1>1, <3>1 DEF LostVictim, TracerUnchanged, processVars
    <3>2. CASE mode[victim] = "stopped" /\ Detached
      BY <1>1, <2>5, <3>2 DEF Detached, WaitFailed, GiveUp, Finish, ScannerInv, InjectorInv, InjectorTyped, SignalsOK, StopLeft
    <3>3. QED
      BY <2>5, <3>1, <3>2 DEF WaitFailed, GiveUp, Finish
  <2>6. QED
    BY <1>1, <2>1, <2>2, <2>3, <2>4, <2>5 DEF Next, InjectorStep
<1>2. ScannerInv /\ [Next]_vars =>
        [stage # "done" /\ stage' = "done" /\ ~(halted' \subseteq halted) =>
          others > 1 \/ (others = 1 /\ stage = "wait_failed" /\ report = "realtime")]_vars
  BY <1>1
<1>3. QED
  BY <1>2, ScannerInvHolds, PTL DEF Spec, LeftAsFound

(* madvise_via_ptrace returns Ok only when its call ran and returned 0, unless two *)
(* SIGTRAPs from elsewhere have passed for the two syscall stops.              *)
THEOREM OkMeansMarked == Spec => MarkedAsReported
<1>1. ASSUME ScannerInv, [Next]_vars, stage # "done", result' = "ok", others <= 1
      PROVE  RangePages \subseteq marked[victim]
  <2>1. result = "none"
    BY <1>1 DEF ScannerInv, InjectorInv, InjectorTyped
  <2>2. CASE UNCHANGED vars
    BY <1>1, <2>1, <2>2 DEF vars, injectorVars
  <2>3. CASE Tick \/ ScannerStep \/ Elapse
    BY <1>1, <2>1, <2>3, CycleOnlyInjects
  <2>4. CASE KernelStep \/ Disturbance
    BY <1>1, <2>1, <2>4 DEF KernelStep, StopsForSignal, SyscallEntry, SyscallExit, Stops, Disturbance, SignalArrives,
      Dies, NewImage, Develops, Halts, tracerVars
  <2>5. CASE Attach \/ WaitAttach \/ WaitFailed \/ SetRegs \/ WaitEntry \/ Resume \/ WaitExit \/ GiveUp
    BY <1>1, <2>1, <2>5 DEF Attach, WaitAttach, WaitFailed, SetRegs, WaitEntry, Resume, WaitExit, GiveUp, WaitSyscall, Reaped,
      LostVictim, Returns, At
  <2>6. CASE Finish
    <3>1. stage = "finish" /\ mode[victim] = "stopped" /\ rax \notin {"nosys", "err"}
      BY <1>1, <2>6 DEF Finish, LostVictim, Returns
    <3>2. rax = "ok"
      BY <1>1, <3>1 DEF ScannerInv, InjectorInv, InjectorTyped, SignalsOK
    <3>3. QED
      BY <1>1, <3>1, <3>2 DEF ScannerInv, InjectorInv, MarkedOK
  <2>7. QED
    BY <1>1, <2>2, <2>3, <2>4, <2>5, <2>6 DEF Next, InjectorStep
<1>2. ScannerInv /\ [Next]_vars
        => [stage # "done" /\ result' = "ok" /\ others <= 1 => RangePages \subseteq marked[victim]]_vars
  BY <1>1
<1>3. QED
  BY <1>2, ScannerInvHolds, PTL DEF Spec, MarkedAsReported

(* sort_by_key and truncate pick the targets: fewer than max_candidates_per_cycle *)
(* processes that passed the filters are larger than any of them.              *)
THEOREM LargestAlwaysChosen == Spec => []LargestAreChosen
<1>1. ASSUME ScannerInv, SievedOK PROVE LargestAreChosen
  <2> SUFFICES ASSUME NEW t \in ToSet(targets) PROVE Cardinality(LargerThan(t.pid)) < MaxCandidates
    BY DEF LargestAreChosen, LargerThan
  <2>1. PICK i \in DOMAIN targets : t = targets[i]
    BY DEF ToSet
  <2>2. phase \in Late
    BY <1>1, <2>1 DEF ScannerInv, CycleOK, Late
  <2>3. t.pid \in Chosen
    BY <1>1, <2>1, <2>2 DEF SievedOK, Listed
  <2>4. QED
    BY <2>3 DEF Chosen
<1>2. QED
  BY <1>1, ScannerInvHolds, SievedAlways, PTL

(* With --dry-run no process is attached to, advised or asked huge pages for.  *)
THEOREM DryRunAlwaysHarmless == Spec => []DryRunTouchesNothing
<1>1. ScannerInv => DryRunTouchesNothing
  BY DEF ScannerInv, CycleOK, DryRunOK, DryRunTouchesNothing
<1>2. QED
  BY <1>1, ScannerInvHolds, PTL

(* Every variable keeps its type: no list of a cycle grows longer than there are *)
(* pids, because no process is listed twice, and sort and truncate bound the targets. *)
THEOREM TypesAlwaysHold == Spec => []TypeOK
<1>1. ASSUME ScannerInv, CycleInv, SievedOK PROVE TypeOK
  <2>1. InjectorTypeOK
    <3>1. stage \in Stages /\ victim \in Pids \cup {NoPid}
      BY <1>1 DEF ScannerInv, InjectorInv, InjectorTyped
    <3>2. range.start \in Nat /\ range.end \in Nat
      BY <1>1 DEF CycleInv, BatchOK, AddressRanges
    <3>3. QED
      BY <1>1, <3>1, <3>2 DEF InjectorTypeOK, ScannerInv, InjectorInv, InjectorTyped, CycleInv, BatchOK
  <2>2. ASSUME NEW S, NEW s \in Seq(S), Apart(s), \A x \in S : x.pid \in Pids PROVE Len(s) <= Cardinality(Pids)
    <3> DEFINE n == Len(s)
               f == [i \in 1 .. n |-> s[i].pid]
    <3>1. n \in Nat /\ DOMAIN s = 1 .. n /\ \A i \in 1 .. n : s[i] \in S
      BY <2>2
    <3>2. f \in [1 .. n -> Pids]
      BY <2>2, <3>1
    <3>3. \A i, j \in 1 .. n : f[i] = f[j] => i = j
      BY <2>2, <3>1 DEF Apart
    <3> HIDE DEF f, n
    <3>4. n <= Cardinality(Pids)
      BY <3>1, <3>2, <3>3, AtMostAllPids
    <3>5. QED
      BY <3>4 DEF n
  <2>3. /\ \A x \in Candidates : x.pid \in Pids
        /\ \A x \in Targets : x.pid \in Pids
    BY DEF Candidates, Targets
  <2>4. Cardinality(Pids) \in Nat /\ MaxCandidates \in Nat
    BY ScannerAssumption, FS_CardinalityType
  <2>5. Len(<<>>) = 0
    OBVIOUS
  <2>6. Len(queue) <= Cardinality(Pids)
    <3>1. CASE phase = "idle"
      BY <1>1, <2>4, <2>5, <3>1 DEF CycleInv, ListsOK
    <3>2. CASE phase = "status"
      <4>1. queue \in Seq(Pids) /\ \A i, j \in DOMAIN queue : queue[i] = queue[j] => i = j
        BY <1>1, <3>2 DEF CycleInv, ListsOK, ScannerInv, CycleOK
      <4>2. Len(queue) \in Nat /\ queue \in [1 .. Len(queue) -> Pids] /\ DOMAIN queue = 1 .. Len(queue)
        BY <4>1
      <4>3. QED
        BY <4>1, <4>2, AtMostAllPids
    <3>3. CASE phase \in {"ksm_stat", "maps"}
      BY <1>1, <2>2, <2>3, <3>3 DEF CycleInv, ListsOK
    <3>4. CASE phase \in Late
      BY <1>1, <2>2, <2>3, <3>4 DEF CycleInv, ListsOK
    <3>5. QED
      BY <1>1, <3>1, <3>2, <3>3, <3>4 DEF ScannerInv, CycleOK, Phases, Late
  <2>7. Len(kept) <= Cardinality(Pids)
    <3>1. CASE kept = <<>>
      BY <2>4, <2>5, <3>1
    <3>2. CASE phase \in {"status", "ksm_stat"}
      BY <1>1, <2>2, <2>3, <3>2 DEF CycleInv, ListsOK, ScannerInv, CycleOK
    <3>3. CASE phase = "maps"
      BY <1>1, <2>2, <2>3, <3>3 DEF CycleInv, ListsOK
    <3>4. QED
      BY <1>1, <3>1, <3>2, <3>3 DEF ScannerInv, CycleOK, Phases, Late, CycleInv, ListsOK
  <2>8. Len(targets) <= MaxCandidates
    <3>1. CASE phase \in Late
      BY <1>1, <3>1 DEF CycleInv, ListsOK
    <3>2. CASE phase \notin Late
      BY <1>1, <2>4, <2>5, <3>2 DEF ScannerInv, CycleOK, Late
    <3>3. QED
      BY <3>1, <3>2
  <2>9. QED
    BY <1>1, <2>1, <2>6, <2>7, <2>8 DEF TypeOK, ScannerInv, CycleOK, CycleInv, WindowOK, SievedOK
<1>2. QED
  BY <1>1, ScannerInvHolds, CycleInvHolds, SievedAlways, PTL

(* build_batch takes the first pages of what may be advised, in address order, all *)
(* of them or exactly as many as max_mergeable_per_process_mb allows.          *)
THEOREM BatchesAlwaysCapped == Spec => []BatchIsCappedPrefix
<1>1. ASSUME ScannerInv, CycleInv PROVE BatchIsCappedPrefix
  <2> SUFFICES ASSUME NEW t \in ToSet(targets)
               PROVE  \A all \in {PagesInOrder(regions) : regions \in {EligibleRegions(t.maps)}},
                         advised \in {PagesInOrder(ranges) : ranges \in {Batch(t.maps)}} :
                        advised = SubSeq(all, 1, IF Len(all) < MaxPages THEN Len(all) ELSE MaxPages)
    BY DEF BatchIsCappedPrefix
  <2>1. targets \in Seq(Targets)
    <3>1. <<>> \in Seq(Targets)
      OBVIOUS
    <3>2. QED
      BY <1>1, <3>1 DEF CycleInv, ListsOK, ScannerInv, CycleOK, Late
  <2>2. t \in Targets
    BY <2>1 DEF ToSet
  <2> DEFINE P == {i \in DOMAIN t.maps : Eligible(t.maps[i])}
             E == EligibleRegions(t.maps)
             whole == PagesInOrder(E)
             L == IF Len(whole) < MaxPages THEN Len(whole) ELSE MaxPages
  <2>3. E \in Seq(MapsEntries)
    <3>1. t.maps \in Seq(MapsEntries)
      BY <2>2 DEF Targets
    <3>2. E = Keep(t.maps, P)
      BY DEF EligibleRegions
    <3> HIDE DEF P, E
    <3>3. QED
      BY <3>1, <3>2, KeepElements
  <2> HIDE DEF E
  <2>4. PagesInOrder(BuildBatch(E)) = SubSeq(whole, 1, L)
    BY <2>3, BatchCapped
  <2>5. QED
    BY <2>4 DEF E, Batch
<1>2. QED
  BY <1>1, ScannerInvHolds, CycleInvHolds, PTL

(* collapse_regions rounds inwards: it asks for whole huge pages inside a region of *)
(* a target of this cycle that may be advised, and for no empty range.         *)
THEOREM CollapsesAlwaysWhole == Spec => []CollapsesWholeHugePages
<1>1. CycleInv => CollapsesWholeHugePages
  BY DEF CycleInv, CollapsedOK
<1>2. QED
  BY <1>1, CycleInvHolds, PTL

(* However cycles end, and in a dry run too, the next one to begin finds the latest *)
(* merge at least stabilization_secs ago.                                      *)
THEOREM BurstsAlwaysSpaced == Spec => BurstsSpaced
<1>1. ASSUME CycleInv, [Next]_vars, phase = "idle", phase' # "idle" PROVE sinceMerge >= Stabilization
  <2>1. Tick
    BY <1>1 DEF Next, ScannerStep, ReadStatus, StatusRead, ReadKsmStat, KsmStatRead, ReadMaps, MapsRead, NextPass,
      ApplyMergeable, InjectNext, InjectReturned, Applied, CollapseRegions, CycleEnds, Elapse, vars, scannerVars
  <2>2. merged = 0 /\ age >= Stabilization
    BY <1>1, <2>1 DEF Tick, CycleInv, WindowOK, Late
  <2>3. QED
    BY <1>1, <2>2, ScannerAssumption DEF CycleInv, WindowOK
<1>2. CycleInv /\ [Next]_vars => [phase = "idle" /\ phase' # "idle" => sinceMerge >= Stabilization]_vars
  BY <1>1
<1>3. QED
  BY <1>2, CycleInvHolds, PTL DEF Spec, BurstsSpaced

(* Whatever exits, execs, is replaced or remapped between the readings and the calls, *)
(* each call is for a process and for memory that this cycle read as eligible. *)
THEOREM OnlyAsReadAdvised == Spec => []AdvisesOnlyAsRead
<1>1. ASSUME ScannerInv, CycleInv, SievedOK, stage # "ready"
      PROVE  /\ PassedFilters(victim) /\ seen["maps"][victim] \in Images
             /\ \E r \in Regions(seen["maps"][victim]) :
                  /\ RangePages \subseteq Pages(r.start, r.end)
                  /\ r.perms = {"r", "w"} /\ r.path = "" /\ r.inode = 0
  <2>1. /\ phase = "inject" /\ queue # <<>> /\ range \in AddressRanges
        /\ victim = Target.pid /\ Within(range, Target.maps)
    BY <1>1 DEF ScannerInv, CycleOK, CycleInv, BatchOK
  <2>2. PICK j \in DOMAIN targets : Target = targets[j]
    <3>1. queue \in Seq(Targets) /\ \A i \in DOMAIN queue : \E j \in DOMAIN targets : queue[i] = targets[j]
      BY <1>1, <2>1 DEF CycleInv, ListsOK, Late
    <3>2. Target = queue[1] /\ 1 \in DOMAIN queue
      BY <2>1, <3>1, TailPlaces DEF Target
    <3>3. QED
      BY <3>1, <3>2
  <2>3. Target.pid \in Chosen /\ Target \in Shown
    BY <1>1, <2>1, <2>2 DEF SievedOK, Listed, Late
  <2>4. victim \in Passed /\ victim \in Pids
    BY <2>1, <2>3 DEF Chosen, Passed, Sized
  <2>5. PICK i \in DOMAIN Target.maps : /\ Eligible(Target.maps[i])
                                        /\ Target.maps[i].start <= range.start
                                        /\ range.end <= Target.maps[i].end
    BY <2>1 DEF Within
  <2>6. PICK r : r = Target.maps[i]
    OBVIOUS
  <2>7. Target.maps \in Seq(MapsEntries) /\ seen["maps"][victim] \in Images /\ r \in Regions(seen["maps"][victim])
    BY <2>1, <2>3, <2>5, <2>6 DEF Shown, Targets
  <2>8. r \in MapsEntries /\ Eligible(r) /\ r.start <= range.start /\ range.end <= r.end
    BY <2>5, <2>6, <2>7
  <2>9. range.start \in Nat /\ range.end \in Nat /\ r.start \in Nat /\ r.end \in Nat
    BY <2>1, <2>8 DEF AddressRanges, MapsEntries
  <2>10. RangePages \subseteq Pages(r.start, r.end)
    BY <2>8, <2>9 DEF RangePages, Pages
  <2>11. r.perms \subseteq {"r", "w", "x", "s"}
    BY <2>8 DEF MapsEntries
  <2>12. r.perms = {"r", "w"} /\ r.path = "" /\ r.inode = 0
    BY <2>8, <2>11 DEF Eligible, IsAnonRw, HasExec
  <2>13. QED
    BY <2>4, <2>7, <2>10, <2>12, PassedMeans
<1>2. ScannerInv /\ CycleInv /\ SievedOK => AdvisesOnlyAsRead
  BY <1>1 DEF AdvisesOnlyAsRead
<1>3. QED
  BY <1>2, ScannerInvHolds, CycleInvHolds, SievedAlways, PTL

=============================================================================
