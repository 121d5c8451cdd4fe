---------------------------- MODULE PartsProofs ----------------------------
(***************************************************************************)
(* Theorems about the parts of the system that compute a sequence, where   *)
(* what a loop does for every length has to be shown by induction: here    *)
(* always over the natural numbers, with a set for what has to be shown    *)
(* (Inductive).                                                            *)
(*                                                                         *)
(* DeviceCapacity: whatever devices come, go and change, several at once   *)
(* among them, when one alone is connected the core has been told of its   *)
(* keys and dials, in reading order.                                       *)
(*                                                                         *)
(* Framing: however a stream is cut into chunks, the core reads each of    *)
(* its lines once; and the client each message once, or not at all where   *)
(* a line that was no JSON came after it, whatever those lines were.       *)
(*                                                                         *)
(* OriginAllowlist: whatever the file lists, exactly the Origins it means  *)
(* are let in, after the join in the plugin and the split in the core.     *)
(***************************************************************************)
EXTENDS DeviceCapacity, Framing, OriginAllowlist, SequenceTheorems, FiniteSetTheorems, TLAPS

(* The lowest number of a set of numbers exists.                           *)
LEMMA LeastExists ==
  ASSUME NEW S, S \subseteq Nat, S # {}
  PROVE  \E d \in S : \A e \in S : d <= e
<1>1. PICK d \in S : \A e \in S : ~ (<<e, d>> \in OpToRel(<, Nat))
  BY WFMin, NatLessThanWellFounded
<1>2. ASSUME NEW e \in S, e < d PROVE FALSE
  <2>1. <<e, d>> \in Nat \X Nat /\ <<e, d>>[1] < <<e, d>>[2]
    BY <1>2
  <2>2. <<e, d>> \in OpToRel(<, Nat)
    BY <2>1, Zenon DEF OpToRel
  <2> QED
    BY <1>1, <2>2
<1> QED
  BY <1>2

(* Induction over the natural numbers, for a set of them.                  *)
LEMMA Inductive ==
  ASSUME NEW S, 0 \in S, \A n \in Nat : n \in S => n + 1 \in S
  PROVE  \A n \in Nat : n \in S
<1> SUFFICES ASSUME NEW m \in Nat, m \notin S PROVE FALSE
  OBVIOUS
<1> DEFINE T == Nat \ S
<1>1. PICK d \in T : \A e \in T : d <= e
  <2>1. T \subseteq Nat /\ T # {}
    OBVIOUS
  <2> HIDE DEF T
  <2> QED
    BY <2>1, LeastExists
<1>2. d # 0 /\ d \in Nat
  OBVIOUS
<1>3. d - 1 \in Nat /\ d - 1 < d /\ (d - 1) + 1 = d
  BY <1>2
<1>4. d - 1 \notin T
  BY <1>1, <1>2, <1>3
<1> QED
  BY <1>2, <1>3, <1>4

-----------------------------------------------------------------------------
(* DeviceCapacity: the loops over rows and columns.                        *)

LEMMA DivisionWithRest ==
  ASSUME NEW c \in Nat \ {0}, NEW q \in Nat, NEW r \in 0..(c - 1)
  PROVE  (q * c + r) \div c = q /\ (q * c + r) % c = r
  OBVIOUS

-----------------------------------------------------------------------------
(* FlattenSeq.                                                             *)

IsFlattening(f, seqs, n) ==
  f = [i \in 1..n |-> IF i = 1 THEN seqs[i] ELSE f[i - 1] \o seqs[i]]

LEMMA FlatteningExists ==
  ASSUME NEW seqs
  PROVE  \A n \in Nat : \E f : IsFlattening(f, seqs, n)
<1> DEFINE S == {n \in Nat : \E f : IsFlattening(f, seqs, n)}
<1>1. 0 \in S
  <2>1. [i \in {} |-> i] = [i \in 1..0 |->
           IF i = 1 THEN seqs[i] ELSE [k \in {} |-> k][i - 1] \o seqs[i]]
    OBVIOUS
  <2>2. IsFlattening([i \in {} |-> i], seqs, 0)
    BY <2>1 DEF IsFlattening
  <2> QED
    BY <2>2
<1>2. ASSUME NEW n \in Nat, n \in S PROVE n + 1 \in S
  <2>1. PICK f : IsFlattening(f, seqs, n)
    BY <1>2
  <2> DEFINE last == IF n + 1 = 1 THEN seqs[n + 1] ELSE f[n] \o seqs[n + 1]
             g == [i \in 1..(n + 1) |-> IF i = n + 1 THEN last ELSE f[i]]
  <2>2. ASSUME NEW i \in 1..(n + 1)
        PROVE  g[i] = IF i = 1 THEN seqs[i] ELSE g[i - 1] \o seqs[i]
    <3> HIDE DEF last
    <3>1. CASE i = n + 1
      <4>1. g[i] = last
        BY <3>1
      <4>2. i # 1 => g[i - 1] = f[n]
        BY <3>1
      <4> HIDE DEF g
      <4> QED
        BY <3>1, <4>1, <4>2 DEF last
    <3>2. CASE i # n + 1
      <4>1. i \in 1..n /\ g[i] = f[i] /\ (i # 1 => g[i - 1] = f[i - 1])
        BY <3>2
      <4>2. f[i] = IF i = 1 THEN seqs[i] ELSE f[i - 1] \o seqs[i]
        BY <2>1, <4>1 DEF IsFlattening
      <4> HIDE DEF g
      <4> QED
        BY <4>1, <4>2
    <3> QED
      BY <3>1, <3>2
  <2>3. g = [i \in 1..(n + 1) |-> g[i]]
    OBVIOUS
  <2> HIDE DEF g
  <2>4. IsFlattening(g, seqs, n + 1)
    BY <2>2, <2>3 DEF IsFlattening
  <2> QED
    BY <2>4
<1> HIDE DEF S
<1>3. \A n \in Nat : n \in S
  BY <1>1, <1>2, Inductive
<1> QED
  BY <1>3 DEF S

LEMMA FlattenSteps ==
  ASSUME NEW seqs, NEW n \in Nat \ {0}, Len(seqs) = n
  PROVE  \E f : /\ FlattenSeq(seqs) = f[n] /\ f[1] = seqs[1]
                /\ \A i \in 1..n : i # 1 => f[i] = f[i - 1] \o seqs[i]
<1> DEFINE flatten == CHOOSE f : IsFlattening(f, seqs, n)
<1>1. IsFlattening(flatten, seqs, n)
  BY FlatteningExists
<1>2. FlattenSeq(seqs) = flatten[n]
  BY DEF FlattenSeq, IsFlattening
<1> HIDE DEF flatten
<1>3. 1 \in 1..n
  OBVIOUS
<1>4. flatten[1] = seqs[1] /\ \A i \in 1..n : i # 1 => flatten[i] = flatten[i - 1] \o seqs[i]
  BY <1>1, <1>3 DEF IsFlattening
<1> QED
  BY <1>2, <1>4

(* An element of a sequence.                                               *)
Has(q, x) == \E k \in 1..Len(q) : q[k] = x

LEMMA ConcatHas ==
  ASSUME NEW A, NEW s \in Seq(A), NEW t \in Seq(A), NEW x
  PROVE  Has(s \o t, x) <=> Has(s, x) \/ Has(t, x)
<1>1. Len(s) \in Nat /\ Len(t) \in Nat
  BY LenProperties
<1>2. /\ Len(s \o t) = Len(s) + Len(t)
      /\ \A i \in 1..(Len(s) + Len(t)) :
           (s \o t)[i] = IF i <= Len(s) THEN s[i] ELSE t[i - Len(s)]
  BY ConcatProperties
<1> DEFINE q == s \o t
<1> HIDE DEF q
<1>3. ASSUME NEW k \in 1..Len(q) PROVE Has(s, q[k]) \/ Has(t, q[k])
  <2>1. CASE k <= Len(s)
    <3>1. k \in 1..Len(s) /\ q[k] = s[k]
      BY <1>1, <1>2, <1>3, <2>1 DEF q
    <3> QED
      BY <3>1 DEF Has
  <2>2. CASE ~(k <= Len(s))
    <3>1. k - Len(s) \in 1..Len(t) /\ q[k] = t[k - Len(s)]
      BY <1>1, <1>2, <1>3, <2>2 DEF q
    <3> QED
      BY <3>1 DEF Has
  <2> QED
    BY <2>1, <2>2
<1>4. ASSUME NEW k \in 1..Len(s) PROVE Has(q, s[k])
  <2>1. k \in 1..Len(q) /\ q[k] = s[k]
    BY <1>1, <1>2 DEF q
  <2> QED
    BY <2>1 DEF Has
<1>5. ASSUME NEW k \in 1..Len(t) PROVE Has(q, t[k])
  <2>1. Len(s) + k \in 1..Len(q) /\ (Len(s) + k) - Len(s) = k /\ ~(Len(s) + k <= Len(s))
    BY <1>1, <1>2 DEF q
  <2>2. q[Len(s) + k] = t[k]
    BY <1>1, <1>2, <2>1 DEF q
  <2> QED
    BY <2>1, <2>2 DEF Has
<1>6. Has(q, x) => Has(s, x) \/ Has(t, x)
  BY <1>3 DEF Has
<1>7. Has(s, x) => Has(q, x)
  BY <1>4 DEF Has
<1>8. Has(t, x) => Has(q, x)
  BY <1>5 DEF Has
<1> QED
  BY <1>6, <1>7, <1>8 DEF q

LEMMA FlattenHas ==
  ASSUME NEW A, NEW seqs, NEW n \in Nat \ {0}, Len(seqs) = n,
         \A i \in 1..n : seqs[i] \in Seq(A), NEW x
  PROVE  /\ FlattenSeq(seqs) \in Seq(A)
         /\ Has(FlattenSeq(seqs), x) <=> \E i \in 1..n : Has(seqs[i], x)
<1>1. PICK f : /\ FlattenSeq(seqs) = f[n] /\ f[1] = seqs[1]
               /\ \A i \in 1..n : i # 1 => f[i] = f[i - 1] \o seqs[i]
  BY FlattenSteps
<1> DEFINE P(k) == f[k] \in Seq(A) /\ (Has(f[k], x) <=> \E i \in 1..k : Has(seqs[i], x))
           S == {m \in Nat : m + 1 \in 1..n => P(m + 1)}
<1>2. P(1)
  <2>1. 1 \in 1..n /\ \A i \in 1..1 : i = 1
    OBVIOUS
  <2> QED
    BY <1>1, <2>1
<1>3. ASSUME NEW m \in Nat, m + 1 \in 1..n => P(m + 1), (m + 1) + 1 \in 1..n
      PROVE  P((m + 1) + 1)
  <2>1. /\ m + 1 \in 1..n /\ (m + 1) + 1 # 1 /\ ((m + 1) + 1) - 1 = m + 1
        /\ \A i : i \in 1..((m + 1) + 1) <=> i \in 1..(m + 1) \/ i = (m + 1) + 1
    BY <1>3
  <2>2. f[(m + 1) + 1] = f[m + 1] \o seqs[(m + 1) + 1]
    BY <1>1, <1>3, <2>1
  <2>3. f[m + 1] \in Seq(A) /\ (Has(f[m + 1], x) <=> \E i \in 1..(m + 1) : Has(seqs[i], x))
    BY <1>3, <2>1
  <2>4. seqs[(m + 1) + 1] \in Seq(A)
    BY <1>3
  <2>5. /\ f[(m + 1) + 1] \in Seq(A)
        /\ Has(f[(m + 1) + 1], x) <=> (Has(f[m + 1], x) \/ Has(seqs[(m + 1) + 1], x))
    BY <2>2, <2>3, <2>4, ConcatHas, ConcatProperties
  <2> QED
    BY <2>1, <2>3, <2>5
<1>4. \A m \in Nat : m \in S
  <2>1. 0 \in S
    BY <1>2
  <2>2. \A m \in Nat : m \in S => m + 1 \in S
    BY <1>3
  <2> HIDE DEF S
  <2> QED
    BY <2>1, <2>2, Inductive
<1>5. n - 1 \in Nat /\ (n - 1) + 1 = n /\ n \in 1..n
  OBVIOUS
<1>6. P(n)
  <2>1. n - 1 \in S
    BY <1>4, <1>5
  <2> HIDE DEF P
  <2> QED
    BY <1>5, <2>1
<1> QED
  BY <1>1, <1>6

(* Where all but one of the sequences are empty, that one remains.         *)
LEMMA FlattenOfOne ==
  ASSUME NEW T, NEW seqs \in Seq(Seq(T)), NEW k \in DOMAIN seqs,
         \A i \in DOMAIN seqs : i # k => seqs[i] = <<>>
  PROVE  FlattenSeq(seqs) = seqs[k]
<1> DEFINE n == Len(seqs)
<1>1. n \in Nat \ {0} /\ DOMAIN seqs = 1..n /\ k \in 1..n
  BY LenProperties
<1>2. \A i \in 1..n : seqs[i] \in Seq(T)
  BY <1>1, ElementOfSeq
<1>3. PICK f : /\ FlattenSeq(seqs) = f[n] /\ f[1] = seqs[1]
               /\ \A i \in 1..n : i # 1 => f[i] = f[i - 1] \o seqs[i]
  <2> HIDE DEF n
  <2> QED
    BY <1>1, FlattenSteps DEF n
<1> HIDE DEF n
<1> DEFINE S == {i \in Nat : i \in 1..n => f[i] = IF i < k THEN <<>> ELSE seqs[k]}
<1>4. 0 \in S
  OBVIOUS
<1>5. ASSUME NEW i \in Nat, i \in S, i + 1 \in 1..n
      PROVE  f[i + 1] = IF i + 1 < k THEN <<>> ELSE seqs[k]
  <2>1. CASE i = 0
    <3>1. i + 1 = 1 /\ (k # 1 => 1 < k /\ seqs[1] = <<>>) /\ ~(1 < 1)
      BY <1>1, <2>1
    <3> QED
      BY <1>3, <3>1
  <2>2. CASE i # 0
    <3>1. i \in 1..n /\ i + 1 # 1 /\ (i + 1) - 1 = i
      BY <1>1, <1>5, <2>2
    <3>2. f[i + 1] = f[i] \o seqs[i + 1] /\ f[i] = IF i < k THEN <<>> ELSE seqs[k]
      BY <1>3, <1>5, <3>1
    <3>3. CASE i + 1 = k
      <4>1. i < k /\ ~(i + 1 < k)
        BY <1>1, <3>3
      <4>2. f[i + 1] = <<>> \o seqs[k]
        BY <3>2, <3>3, <4>1
      <4> QED
        BY <1>1, <1>2, <4>1, <4>2, ConcatEmptySeq
    <3>4. CASE i + 1 # k
      <4>1. seqs[i + 1] = <<>> /\ (i < k <=> i + 1 < k)
        BY <1>1, <1>5, <3>4
      <4>2. f[i] \in Seq(T)
        BY <1>1, <1>2, <3>2, EmptySeq
      <4> QED
        BY <3>2, <4>1, <4>2, ConcatEmptySeq
    <3> QED
      BY <3>3, <3>4
  <2> QED
    BY <2>1, <2>2
<1>6. \A i \in Nat : i \in S
  <2>1. \A i \in Nat : i \in S => i + 1 \in S
    BY <1>5
  <2> HIDE DEF S
  <2> QED
    BY <1>4, <2>1, Inductive
<1>7. f[n] = seqs[k]
  <2>1. n \in S /\ n \in 1..n /\ ~(n < k)
    BY <1>1, <1>6
  <2> QED
    BY <2>1
<1> QED
  BY <1>3, <1>7

LEMMA FlattenOfNone ==
  ASSUME NEW T, NEW seqs \in Seq(Seq(T)), \A i \in DOMAIN seqs : seqs[i] = <<>>
  PROVE  FlattenSeq(seqs) = <<>>
<1>1. CASE Len(seqs) = 0
  BY <1>1, EmptySeq DEF FlattenSeq
<1>2. CASE Len(seqs) # 0
  <2>1. 1 \in DOMAIN seqs
    BY <1>2, LenProperties
  <2>2. FlattenSeq(seqs) = seqs[1]
    BY <2>1, FlattenOfOne
  <2> QED
    BY <2>1, <2>2
<1> QED
  BY <1>1, <1>2

-----------------------------------------------------------------------------
(* The keys of a device, in reading order.                                 *)

LEMMA KeysInReadingOrder ==
  ASSUME NEW model, model.rows \in Nat, model.columns \in Nat
  PROVE  /\ Keys(model) \in Seq(Nat \X Nat)
         /\ DOMAIN Keys(model) = 1..(model.rows * model.columns)
         /\ \A n \in DOMAIN Keys(model) :
              Keys(model)[n] = <<(n - 1) \div model.columns, (n - 1) % model.columns>>
<1> DEFINE R == model.rows
           C == model.columns
           row(r) == [c \in 1..C |-> <<r - 1, c - 1>>]
           rows == [r \in 1..R |-> row(r)]
           key(n) == <<(n - 1) \div C, (n - 1) % C>>
<1>1. R \in Nat /\ C \in Nat
  OBVIOUS
<1> HIDE DEF R, C
<1>2. ASSUME NEW r \in 1..R PROVE row(r) \in Seq(Nat \X Nat) /\ Len(row(r)) = C
  <2>1. \A c \in 1..C : <<r - 1, c - 1>> \in Nat \X Nat
    BY <1>1
  <2>2. row(r) \in Seq(Nat \X Nat)
    BY <1>1, <2>1
  <2> QED
    BY <1>1, <2>2
<1> HIDE DEF row
<1>3. rows \in Seq(Seq(Nat \X Nat)) /\ Len(rows) = R
  BY <1>1, <1>2
<1>4. Keys(model) = FlattenSeq(rows)
  BY DEF Keys, R, C, row
<1>5. CASE R = 0
  <2>1. Keys(model) = <<>>
    <3>1. \A i \in DOMAIN rows : rows[i] = <<>>
      BY <1>5
    <3> HIDE DEF rows
    <3> QED
      BY <1>3, <1>4, <3>1, FlattenOfNone
  <2>2. R * C = 0
    BY <1>1, <1>5
  <2> QED
    BY <2>1, <2>2, EmptySeq DEF R, C
<1>6. CASE R # 0
  <2>1. PICK f : /\ FlattenSeq(rows) = f[R] /\ f[1] = rows[1]
                 /\ \A i \in 1..R : i # 1 => f[i] = f[i - 1] \o rows[i]
    <3>1. R \in Nat \ {0}
      BY <1>1, <1>6
    <3> HIDE DEF rows
    <3> QED
      BY <1>3, <3>1, FlattenSteps
  <2> DEFINE Good(i) == /\ f[i] \in Seq(Nat \X Nat) /\ Len(f[i]) = i * C
                        /\ \A n \in 1..(i * C) : f[i][n] = key(n)
             S == {i \in Nat : i \in 1..R => Good(i)}
  <2>2. ASSUME NEW i \in 1..R, NEW before, before \in Seq(Nat \X Nat),
               Len(before) = (i - 1) * C, \A n \in 1..((i - 1) * C) : before[n] = key(n),
               f[i] = before \o rows[i]
        PROVE  Good(i)
    <3> DEFINE B == (i - 1) * C
    <3>1. i - 1 \in Nat /\ B \in Nat /\ i * C = B + C
      BY <1>1
    <3> HIDE DEF B
    <3>2. /\ f[i] \in Seq(Nat \X Nat) /\ Len(f[i]) = B + C
          /\ \A n \in 1..(B + C) : f[i][n] = IF n <= B THEN before[n] ELSE row(i)[n - B]
      <4>1. rows[i] = row(i) /\ row(i) \in Seq(Nat \X Nat) /\ Len(row(i)) = C
        BY <1>2
      <4>2. before \in Seq(Nat \X Nat) /\ Len(before) = B /\ f[i] = before \o row(i)
        BY <2>2, <4>1 DEF B
      <4> HIDE DEF rows, Good, S, key
      <4>3. /\ before \o row(i) \in Seq(Nat \X Nat) /\ Len(before \o row(i)) = B + C
            /\ \A n \in 1..(B + C) :
                 (before \o row(i))[n] = IF n <= B THEN before[n] ELSE row(i)[n - B]
        BY <4>1, <4>2, ConcatProperties
      <4> QED
        BY <4>2, <4>3
    <3>3. ASSUME NEW n \in 1..(B + C), ~(n <= B) PROVE row(i)[n - B] = key(n)
      <4>1. /\ n - B \in 1..C /\ C \in Nat \ {0} /\ (n - B) - 1 \in 0..(C - 1)
            /\ n - 1 = B + ((n - B) - 1)
        BY <1>1, <3>1, <3>3
      <4>2. /\ ((i - 1) * C + ((n - B) - 1)) \div C = i - 1
            /\ ((i - 1) * C + ((n - B) - 1)) % C = (n - B) - 1
        BY <3>1, <4>1, DivisionWithRest
      <4>3. (n - 1) \div C = i - 1 /\ (n - 1) % C = (n - B) - 1
        BY <4>1, <4>2 DEF B
      <4> QED
        BY <4>1, <4>3 DEF row
    <3>4. \A n \in 1..(B + C) : f[i][n] = key(n)
      <4>1. \A n \in 1..(B + C) : n <= B => n \in 1..B
        BY <3>1
      <4> QED
        BY <2>2, <3>2, <3>3, <4>1 DEF B
    <3> QED
      BY <3>1, <3>2, <3>4
  <2>3. 0 \in S
    OBVIOUS
  <2>4. ASSUME NEW i \in Nat, i \in S, i + 1 \in 1..R PROVE Good(i + 1)
    <3> HIDE DEF key
    <3>1. CASE i = 0
      <4>1. /\ i + 1 = 1 /\ ((i + 1) - 1) * C = 0 /\ 1 \in 1..R
            /\ <<>> \in Seq(Nat \X Nat) /\ Len(<<>>) = 0
        BY <1>1, <1>6, <3>1, EmptySeq
      <4>2. f[i + 1] = <<>> \o rows[i + 1]
        BY <1>2, <2>1, <4>1, ConcatEmptySeq
      <4>3. \A n \in 1..0 : <<>>[n] = key(n)
        OBVIOUS
      <4> HIDE DEF rows, Good
      <4> QED
        BY <2>2, <2>4, <4>1, <4>2, <4>3
    <3>2. CASE i # 0
      <4>1. i \in 1..R /\ i + 1 # 1 /\ (i + 1) - 1 = i
        BY <1>1, <2>4, <3>2
      <4>2. Good(i) /\ f[i + 1] = f[i] \o rows[i + 1]
        BY <2>1, <2>4, <4>1
      <4> QED
        BY <2>2, <2>4, <4>1, <4>2
    <3> QED
      BY <3>1, <3>2
  <2>5. \A i \in Nat : i \in S
    <3>1. \A i \in Nat : i \in S => i + 1 \in S
      <4> HIDE DEF Good
      <4> QED
        BY <2>4
    <3> HIDE DEF S
    <3> QED
      BY <2>3, <3>1, Inductive
  <2>6. Good(R)
    <3>1. R \in 1..R /\ R \in Nat
      BY <1>1, <1>6
    <3>2. R \in S
      <4> HIDE DEF S
      <4> QED
        BY <2>5, <3>1
    <3> HIDE DEF Good
    <3> QED
      BY <3>1, <3>2
  <2>7. DOMAIN f[R] = 1..(R * C)
    BY <2>6, LenProperties
  <2> QED
    BY <1>4, <2>1, <2>6, <2>7 DEF R, C
<1> QED
  BY <1>5, <1>6

LEMMA DialsAreCounted ==
  ASSUME NEW model
  PROVE  /\ Dials(model) \in Seq(Nat)
         /\ DOMAIN Dials(model) = 1..DialCountForDeviceType(model.type)
         /\ \A n \in DOMAIN Dials(model) : Dials(model)[n] = n - 1
<1>1. DialCountForDeviceType(model.type) \in Nat
  BY DEF DialCountForDeviceType
<1>2. \A n \in 1..DialCountForDeviceType(model.type) : n - 1 \in Nat
  BY <1>1
<1> QED
  BY <1>1, <1>2 DEF Dials

-----------------------------------------------------------------------------
(* The capacity of the devices known.                                      *)

On(known) == {d \in DOMAIN known : known[d].isConnected}

AreKnown(known) ==
  /\ DOMAIN known \subseteq ToSet(Devices)
  /\ \A d \in DOMAIN known : known[d].isConnected \in BOOLEAN /\ known[d].model \in Models

(* Of several devices the lists follow each other, of one it is its own.   *)
LEMMA OfConnectedIs ==
  ASSUME NEW T, NEW known, AreKnown(known), NEW lists,
         \A d \in On(known) : lists[d] \in Seq(T)
  PROVE  /\ OfConnected(known, lists) \in Seq(T)
         /\ On(known) = {} => OfConnected(known, lists) = <<>>
         /\ \A d : On(known) = {d} => OfConnected(known, lists) = lists[d]
<1> DEFINE seqs == [n \in DOMAIN Devices |->
                      IF Devices[n] \in DOMAIN known /\ known[Devices[n]].isConnected
                        THEN lists[Devices[n]] ELSE <<>>]
<1>1. /\ Len(Devices) \in Nat /\ DOMAIN Devices = 1..Len(Devices)
      /\ \A i, j \in DOMAIN Devices : Devices[i] = Devices[j] => i = j
  BY DevicesAssumption
<1>2. OfConnected(known, lists) = FlattenSeq(seqs)
  BY DEF OfConnected
<1>3. \A n \in DOMAIN Devices :
        seqs[n] = IF Devices[n] \in On(known) THEN lists[Devices[n]] ELSE <<>>
  BY DEF On
<1>4. seqs \in Seq(Seq(T)) /\ DOMAIN seqs = DOMAIN Devices /\ Len(seqs) = Len(Devices)
  <2>1. <<>> \in Seq(T)
    BY EmptySeq
  <2>2. DOMAIN seqs = 1..Len(Devices) /\ \A n \in 1..Len(Devices) : seqs[n] \in Seq(T)
    BY <1>1, <1>3, <2>1
  <2>3. seqs = [n \in 1..Len(Devices) |-> seqs[n]]
    BY <1>1
  <2> HIDE DEF seqs
  <2>4. seqs \in Seq(Seq(T))
    BY <1>1, <2>2, <2>3
  <2> QED
    BY <1>1, <2>2, <2>4, LenProperties
<1> HIDE DEF seqs
<1>5. ASSUME On(known) = {} PROVE OfConnected(known, lists) = <<>>
  BY <1>2, <1>3, <1>4, <1>5, FlattenOfNone
<1>6. ASSUME NEW d, On(known) = {d} PROVE OfConnected(known, lists) = lists[d]
  <2>1. PICK k \in DOMAIN Devices : Devices[k] = d
    BY <1>6 DEF AreKnown, On, ToSet
  <2>2. \A i \in DOMAIN Devices : i # k => seqs[i] = <<>>
    BY <1>1, <1>3, <1>6, <2>1
  <2>3. seqs[k] = lists[d]
    BY <1>3, <1>6, <2>1
  <2> QED
    BY <1>2, <1>4, <2>2, <2>3, FlattenOfOne
<1>7. OfConnected(known, lists) \in Seq(T)
  <2>1. CASE Len(Devices) = 0
    <3>1. On(known) = {}
      BY <1>1, <2>1 DEF AreKnown, On, ToSet
    <3> QED
      BY <1>5, <3>1, EmptySeq
  <2>2. CASE Len(Devices) # 0
    <3>1. \A i \in 1..Len(Devices) : seqs[i] \in Seq(T)
      BY <1>1, <1>4, ElementOfSeq
    <3> DEFINE n == Len(Devices)
    <3>2. n \in Nat \ {0} /\ Len(seqs) = n /\ \A i \in 1..n : seqs[i] \in Seq(T)
      BY <1>1, <1>4, <2>2, <3>1
    <3> HIDE DEF n
    <3> QED
      BY <1>2, <3>2, FlattenHas
  <2> QED
    BY <2>1, <2>2
<1> QED
  BY <1>5, <1>6, <1>7

IsCapacity(capacity) ==
  /\ capacity = [buttonPositions |-> capacity.buttonPositions,
                 dialPositions   |-> capacity.dialPositions]
  /\ capacity.buttonPositions \in Seq(Nat \X Nat)
  /\ capacity.dialPositions \in Seq(Nat)

LEMMA CapacityIs ==
  ASSUME NEW known, AreKnown(known)
  PROVE  /\ IsCapacity(ComputeDeviceCapacity(known))
         /\ On(known) = {} => ComputeDeviceCapacity(known) = Nothing
         /\ \A d : On(known) = {d} =>
              ComputeDeviceCapacity(known) = [buttonPositions |-> Keys(known[d].model),
                                              dialPositions   |-> Dials(known[d].model)]
<1> DEFINE keys == [d \in DOMAIN known |-> Keys(known[d].model)]
           dials == [d \in DOMAIN known |-> Dials(known[d].model)]
<1>1. \A d \in On(known) : keys[d] = Keys(known[d].model) /\ dials[d] = Dials(known[d].model)
  BY DEF On
<1>2. ASSUME NEW d \in On(known)
      PROVE  Keys(known[d].model) \in Seq(Nat \X Nat) /\ Dials(known[d].model) \in Seq(Nat)
  <2>1. known[d].model.rows \in Nat /\ known[d].model.columns \in Nat
    BY DevicesAssumption DEF AreKnown, On
  <2> QED
    BY <2>1, KeysInReadingOrder, DialsAreCounted
<1>3. ComputeDeviceCapacity(known) = [buttonPositions |-> OfConnected(known, keys),
                                      dialPositions   |-> OfConnected(known, dials)]
  BY DEF ComputeDeviceCapacity
<1> HIDE DEF keys, dials
<1>4. /\ \A d \in On(known) : keys[d] \in Seq(Nat \X Nat)
      /\ \A d \in On(known) : dials[d] \in Seq(Nat)
  BY <1>1, <1>2
<1>5. /\ OfConnected(known, keys) \in Seq(Nat \X Nat)
      /\ On(known) = {} => OfConnected(known, keys) = <<>>
      /\ \A d : On(known) = {d} => OfConnected(known, keys) = keys[d]
  BY <1>4, OfConnectedIs
<1>6. /\ OfConnected(known, dials) \in Seq(Nat)
      /\ On(known) = {} => OfConnected(known, dials) = <<>>
      /\ \A d : On(known) = {d} => OfConnected(known, dials) = dials[d]
  BY <1>4, OfConnectedIs
<1>7. On(known) = {} => ComputeDeviceCapacity(known) = Nothing
  BY <1>3, <1>5, <1>6 DEF Nothing
<1>8. ASSUME NEW d, On(known) = {d}
      PROVE  ComputeDeviceCapacity(known) = [buttonPositions |-> Keys(known[d].model),
                                             dialPositions   |-> Dials(known[d].model)]
  BY <1>1, <1>3, <1>5, <1>6, <1>8
<1>9. IsCapacity(ComputeDeviceCapacity(known))
  BY <1>3, <1>5, <1>6 DEF IsCapacity
<1> QED
  BY <1>7, <1>8, <1>9

(* What the comparison of reports takes for equal is equal.                *)
LEMMA EqualIsSame ==
  ASSUME NEW a, NEW b, IsCapacity(a), IsCapacity(b), DeviceCapacityEqual(a, b)
  PROVE  a = b
<1>1. a.buttonPositions = b.buttonPositions
  <2>1. \A i \in 1..Len(a.buttonPositions) : i \in DOMAIN a.buttonPositions
    BY LenProperties DEF IsCapacity
  <2> QED
    BY <2>1, SeqEqual DEF IsCapacity, DeviceCapacityEqual
<1>2. a.dialPositions = b.dialPositions
  <2>1. \A i \in 1..Len(a.dialPositions) : i \in DOMAIN a.dialPositions
    BY LenProperties DEF IsCapacity
  <2> QED
    BY <2>1, SeqEqual DEF IsCapacity, DeviceCapacityEqual
<1> QED
  BY <1>1, <1>2 DEF IsCapacity

-----------------------------------------------------------------------------
(* The core has been told of the devices as they are.                      *)

CapacityInv ==
  /\ AreKnown(devices)
  /\ registered \in BOOLEAN
  /\ lastReportedCapacity = ComputeDeviceCapacity(devices)
  /\ registered => told = lastReportedCapacity

LEMMA InitCapacityInv == CapacityInit => CapacityInv
<1> SUFFICES ASSUME CapacityInit PROVE CapacityInv
  OBVIOUS
<1>1. AreKnown(devices) /\ On(devices) = {}
  BY DEF CapacityInit, AreKnown, On
<1>2. ComputeDeviceCapacity(devices) = Nothing
  BY <1>1, CapacityIs
<1> QED
  BY <1>1, <1>2 DEF CapacityInit, CapacityInv

LEMMA ReportKeepsUp ==
  ASSUME CapacityInv, AreKnown(devices'), UNCHANGED registered,
         ReportDeviceCapacity(FALSE, devices', registered)
  PROVE  CapacityInv'
<1> DEFINE capacity == ComputeDeviceCapacity(devices')
<1>1. IsCapacity(capacity) /\ IsCapacity(lastReportedCapacity)
  BY CapacityIs DEF CapacityInv
<1>2. CASE DeviceCapacityEqual(capacity, lastReportedCapacity)
  <2>1. capacity = lastReportedCapacity
    BY <1>1, <1>2, EqualIsSame
  <2> QED
    BY <1>2, <2>1 DEF CapacityInv, ReportDeviceCapacity
<1>3. CASE ~DeviceCapacityEqual(capacity, lastReportedCapacity)
  BY <1>3 DEF CapacityInv, ReportDeviceCapacity
<1> QED
  BY <1>2, <1>3

LEMMA EventKeepsKnown ==
  ASSUME AreKnown(devices), NEW d \in ToSet(Devices), NEW device,
         device.isConnected \in BOOLEAN, device.model \in Models, DeviceEvent(d, device)
  PROVE  AreKnown(devices')
<1>1. /\ DOMAIN devices' = DOMAIN devices \union {d}
      /\ devices'[d] = device
      /\ \A e \in DOMAIN devices : e # d => devices'[e] = devices[e]
  BY DEF DeviceEvent
<1> QED
  BY <1>1 DEF AreKnown

LEMMA NextCapacityInv == CapacityInv /\ [CapacityNext]_capacityVars => CapacityInv'
<1> SUFFICES ASSUME CapacityInv, [CapacityNext]_capacityVars PROVE CapacityInv'
  OBVIOUS
<1>1. ASSUME NEW d \in ToSet(Devices), NEW device,
             device.isConnected \in BOOLEAN, device.model \in Models, DeviceEvent(d, device)
      PROVE  CapacityInv'
  <2>1. AreKnown(devices')
    BY <1>1, EventKeepsKnown DEF CapacityInv
  <2> QED
    BY <1>1, <2>1, ReportKeepsUp DEF DeviceEvent
<1>2. ASSUME NEW d \in ToSet(Devices), NEW model \in Models,
             DidConnect(d, model) \/ DidChange(d, model)
      PROVE  CapacityInv'
  <2> DEFINE device == [isConnected |-> TRUE, model |-> model]
  <2>1. DeviceEvent(d, device)
    BY <1>2 DEF DidConnect, DidChange
  <2>2. device.isConnected \in BOOLEAN /\ device.model \in Models
    OBVIOUS
  <2> HIDE DEF device
  <2> QED
    BY <1>1, <2>1, <2>2
<1>3. ASSUME NEW d \in ToSet(Devices), DidDisconnect(d)
      PROVE  CapacityInv'
  <2> DEFINE device == [devices[d] EXCEPT !.isConnected = FALSE]
  <2>1. d \in DOMAIN devices /\ DeviceEvent(d, device)
    BY <1>3 DEF DidDisconnect, Connected
  <2>2. device.isConnected \in BOOLEAN /\ device.model \in Models
    BY <2>1 DEF CapacityInv, AreKnown
  <2> HIDE DEF device
  <2> QED
    BY <1>1, <2>1, <2>2
<1>4. CASE OnRegistered
  BY <1>4 DEF OnRegistered, CapacityInv, ReportDeviceCapacity
<1>5. CASE ConnectionLost
  BY <1>5 DEF ConnectionLost, CapacityInv
<1>6. CASE UNCHANGED capacityVars
  BY <1>6 DEF capacityVars, CapacityInv
<1> QED
  BY <1>2, <1>3, <1>4, <1>5, <1>6 DEF CapacityNext

(* For any models of devices, with any number of rows and columns, in any  *)
(* order of connecting, swapping and changing devices, two at once also,   *)
(* and of losing the core: while one device is connected, label Bn is its  *)
(* n-th key in reading order and Dn its n-th dial.                         *)
THEOREM LabelsFollow == CapacitySpec => []LabelsFollowTheDevice
<1>1. CapacityInv => LabelsFollowTheDevice
  <2> SUFFICES ASSUME CapacityInv, registered PROVE LabelsFollowTheDevice
    BY DEF LabelsFollowTheDevice
  <2>1. AreKnown(devices) /\ told = ComputeDeviceCapacity(devices) /\ On(devices) = Connected
    BY DEF CapacityInv, On, Connected
  <2>2. Connected = {} => told = Nothing
    BY <2>1, CapacityIs
  <2>3. ASSUME NEW d \in DOMAIN devices, Connected = {d}
        PROVE  LET m == devices[d].model
               IN /\ DOMAIN told.buttonPositions = 1..(m.rows * m.columns)
                  /\ \A n \in DOMAIN told.buttonPositions :
                       told.buttonPositions[n] = <<(n - 1) \div m.columns, (n - 1) % m.columns>>
                  /\ DOMAIN told.dialPositions = 1..DialCountForDeviceType(m.type)
                  /\ \A n \in DOMAIN told.dialPositions : told.dialPositions[n] = n - 1
    <3>1. /\ told.buttonPositions = Keys(devices[d].model)
          /\ told.dialPositions = Dials(devices[d].model)
      BY <2>1, <2>3, CapacityIs
    <3>2. devices[d].model.rows \in Nat /\ devices[d].model.columns \in Nat
      BY <2>1, DevicesAssumption DEF AreKnown
    <3> QED
      BY <3>1, <3>2, KeysInReadingOrder, DialsAreCounted
  <2> QED
    BY <2>2, <2>3 DEF LabelsFollowTheDevice
<1>2. CapacitySpec => []CapacityInv
  BY InitCapacityInv, NextCapacityInv, PTL DEF CapacitySpec
<1> QED
  BY <1>1, <1>2, PTL

-----------------------------------------------------------------------------
(* Framing: where lines begin and end.                                     *)

Boundary(text, p) == p = 0 \/ text[p] = "LF"

Clear(text, p, q) == \A j \in (p + 1)..q : text[j] # "LF"

Stripped(line) ==
  IF line # <<>> /\ line[Len(line)] = "CR" THEN SubSeq(line, 1, Len(line) - 1) ELSE line

LEMMA IndexIs ==
  ASSUME NEW text \in Seq(Tokens)
  PROVE  LET n == IndexOfLf(text)
         IN IF \E i \in 1..Len(text) : text[i] = "LF"
              THEN n \in 1..Len(text) /\ text[n] = "LF" /\ Clear(text, 0, n - 1)
              ELSE n = 0
<1>1. DOMAIN text = 1..Len(text) /\ Len(text) \in Nat
  BY LenProperties
<1> DEFINE P(i) == text[i] = "LF" /\ \A j \in 1..(i - 1) : text[j] # "LF"
<1>2. CASE \E i \in 1..Len(text) : text[i] = "LF"
  <2> DEFINE S == {i \in 1..Len(text) : text[i] = "LF"}
  <2>1. PICK d \in S : \A e \in S : d <= e
    <3>1. S \subseteq Nat /\ S # {}
      BY <1>1, <1>2
    <3> HIDE DEF S
    <3> QED
      BY <3>1, LeastExists
  <2>2. d \in DOMAIN text /\ P(d)
    BY <1>1, <2>1
  <2>3. IndexOfLf(text) = CHOOSE i \in DOMAIN text : P(i)
    BY <1>1, <1>2 DEF IndexOfLf
  <2>4. IndexOfLf(text) \in DOMAIN text /\ P(IndexOfLf(text))
    <3> HIDE DEF P
    <3> QED
      BY <2>2, <2>3
  <2> QED
    BY <1>1, <1>2, <2>4 DEF Clear
<1>3. CASE ~\E i \in 1..Len(text) : text[i] = "LF"
  BY <1>1, <1>3 DEF IndexOfLf
<1> QED
  BY <1>2, <1>3

(* A line begins after the newline before it, or at the beginning.         *)
LEMMA LineBegins ==
  ASSUME NEW text
  PROVE  \A i \in Nat : \E p \in 0..i : Boundary(text, p) /\ Clear(text, p, i)
<1> DEFINE S == {i \in Nat : \E p \in 0..i : Boundary(text, p) /\ Clear(text, p, i)}
<1>1. 0 \in S
  BY DEF Boundary, Clear
<1>2. ASSUME NEW i \in Nat, i \in S PROVE i + 1 \in S
  <2>1. PICK p \in 0..i : Boundary(text, p) /\ Clear(text, p, i)
    BY <1>2
  <2>2. CASE text[i + 1] = "LF"
    <3>1. i + 1 \in 0..(i + 1) /\ Boundary(text, i + 1) /\ Clear(text, i + 1, i + 1)
      BY <2>2 DEF Boundary, Clear
    <3> QED
      BY <3>1
  <2>3. CASE text[i + 1] # "LF"
    <3>1. p \in 0..(i + 1) /\ Clear(text, p, i + 1)
      BY <2>1, <2>3 DEF Clear
    <3> QED
      BY <2>1, <3>1
  <2> QED
    BY <2>2, <2>3
<1> HIDE DEF S
<1>3. \A i \in Nat : i \in S
  BY <1>1, <1>2, Inductive
<1> QED
  BY <1>3 DEF S

LEMMA LineEnding ==
  ASSUME NEW text, NEW i \in Nat \ {0}, NEW p \in 0..(i - 1),
         Boundary(text, p), Clear(text, p, i - 1)
  PROVE  LineEndingAt(text, i) = Stripped(SubSeq(text, p + 1, i - 1))
<1> DEFINE P(s) == (\A j \in s..(i - 1) : text[j] # "LF") /\ (s = 1 \/ text[s - 1] = "LF")
           start == CHOOSE s \in 1..i : P(s)
<1>1. p + 1 \in 1..i /\ P(p + 1)
  BY DEF Boundary, Clear
<1>2. \A s \in 1..i : P(s) => s = p + 1
  <2> SUFFICES ASSUME NEW s \in 1..i, P(s), s # p + 1 PROVE FALSE
    OBVIOUS
  <2>1. CASE s < p + 1
    <3>1. p # 0 /\ p \in s..(i - 1)
      BY <2>1
    <3> QED
      BY <3>1 DEF Boundary
  <2>2. CASE p + 1 < s
    <3>1. s # 1 /\ s - 1 \in (p + 1)..(i - 1)
      BY <2>2
    <3> QED
      BY <3>1 DEF Clear
  <2> QED
    BY <2>1, <2>2
<1>3. start = p + 1
  <2> HIDE DEF P
  <2> QED
    BY <1>1, <1>2
<1>4. LineEndingAt(text, i) = Stripped(SubSeq(text, start, i - 1))
  BY DEF LineEndingAt, Stripped
<1> QED
  BY <1>3, <1>4
(* What of a text comes after p, up to r, is taken line by line.           *)
LEMMA SliceIs ==
  ASSUME NEW A, NEW T \in Seq(A), NEW r \in 0..Len(T), NEW p \in 0..r
  PROVE  /\ SubSeq(T, p + 1, r) \in Seq(A)
         /\ Len(SubSeq(T, p + 1, r)) = r - p
         /\ \A i \in 1..(r - p) : SubSeq(T, p + 1, r)[i] = T[p + i]
<1>1. Len(T) \in Nat /\ \A i \in (p + 1)..r : T[i] \in A
  BY ElementOfSeq, LenProperties
<1>2. p + 1 \in Int /\ r \in Int
  BY <1>1
<1>3. /\ SubSeq(T, p + 1, r) \in Seq(A)
      /\ Len(SubSeq(T, p + 1, r)) = IF p + 1 <= r THEN r - (p + 1) + 1 ELSE 0
      /\ \A i \in 1..(r - (p + 1) + 1) : SubSeq(T, p + 1, r)[i] = T[(p + 1) + i - 1]
  BY <1>1, <1>2, SubSeqProperties
<1>4. r - (p + 1) + 1 = r - p /\ (~(p + 1 <= r) => r - p = 0)
  BY <1>1
<1>5. \A i \in 1..(r - p) : (p + 1) + i - 1 = p + i
  BY <1>1
<1> QED
  BY <1>3, <1>4, <1>5

LEMMA SliceOfSlice ==
  ASSUME NEW A, NEW T \in Seq(A), NEW r \in 0..Len(T), NEW p \in 0..r,
         NEW a \in 0..(r - p), NEW b \in a..(r - p)
  PROVE  SubSeq(SubSeq(T, p + 1, r), a + 1, b) = SubSeq(T, p + a + 1, p + b)
<1> DEFINE S == SubSeq(T, p + 1, r)
<1>1. Len(T) \in Nat
  BY LenProperties
<1>2. S \in Seq(A) /\ Len(S) = r - p /\ \A i \in 1..(r - p) : S[i] = T[p + i]
  BY SliceIs
<1> HIDE DEF S
<1>3. b \in 0..Len(S) /\ a \in 0..b /\ p + b \in 0..Len(T) /\ p + a \in 0..(p + b)
  BY <1>1, <1>2
<1>4. /\ SubSeq(S, a + 1, b) \in Seq(A) /\ Len(SubSeq(S, a + 1, b)) = b - a
      /\ \A i \in 1..(b - a) : SubSeq(S, a + 1, b)[i] = S[a + i]
  BY <1>2, <1>3, SliceIs
<1>5. /\ SubSeq(T, p + a + 1, p + b) \in Seq(A)
      /\ Len(SubSeq(T, p + a + 1, p + b)) = (p + b) - (p + a)
      /\ \A i \in 1..((p + b) - (p + a)) : SubSeq(T, p + a + 1, p + b)[i] = T[p + a + i]
  BY <1>3, SliceIs
<1>6. (p + b) - (p + a) = b - a
  BY <1>1
<1>7. \A i \in 1..(b - a) : a + i \in 1..(r - p) /\ p + (a + i) = p + a + i
  BY <1>1
<1>8. \A i \in 1..(b - a) : SubSeq(S, a + 1, b)[i] = SubSeq(T, p + a + 1, p + b)[i]
  BY <1>2, <1>4, <1>5, <1>6, <1>7
<1> QED
  BY <1>4, <1>5, <1>6, <1>8, SeqEqual DEF S

LEMMA LineBeforeIs ==
  ASSUME NEW text \in Seq(Tokens), NEW n \in 1..Len(text)
  PROVE  LineBefore(text, n) = Stripped(SubSeq(text, 1, n - 1))
<1> DEFINE raw == SubSeq(text, 0 + 1, n - 1)
<1>1. Len(text) \in Nat /\ n - 1 \in 0..Len(text) /\ 0 \in 0..(n - 1) /\ (n - 1) - 0 = n - 1
  BY LenProperties
<1>2. raw \in Seq(Tokens) /\ Len(raw) = n - 1 /\ \A i \in 1..(n - 1) : raw[i] = text[0 + i]
  BY <1>1, SliceIs
<1>3. n > 1 => /\ SubSeq(raw, 0 + 1, n - 2) = SubSeq(text, 0 + 0 + 1, 0 + (n - 2))
               /\ (n - 1) - 1 = n - 2 /\ 0 + (n - 1) = n - 1 /\ n - 1 \in 1..(n - 1)
  <2> SUFFICES ASSUME n > 1
               PROVE  /\ SubSeq(raw, 0 + 1, n - 2) = SubSeq(text, 0 + 0 + 1, 0 + (n - 2))
                      /\ (n - 1) - 1 = n - 2 /\ 0 + (n - 1) = n - 1 /\ n - 1 \in 1..(n - 1)
    OBVIOUS
  <2>1. 0 \in 0..((n - 1) - 0) /\ n - 2 \in 0..((n - 1) - 0)
    BY <1>1
  <2>2. SubSeq(raw, 0 + 1, n - 2) = SubSeq(text, 0 + 0 + 1, 0 + (n - 2))
    BY <1>1, <2>1, SliceOfSlice
  <2> QED
    BY <1>1, <2>2
<1>4. raw = SubSeq(text, 1, n - 1)
  OBVIOUS
<1>5. raw # <<>> <=> n > 1
  BY <1>1, <1>2, EmptySeq
<1> HIDE DEF raw
<1>6. CASE n > 1
  <2>1. raw[Len(raw)] = text[n - 1] /\ SubSeq(raw, 1, Len(raw) - 1) = SubSeq(text, 1, n - 2)
    BY <1>2, <1>3, <1>6
  <2> QED
    BY <1>4, <1>5, <1>6, <2>1 DEF LineBefore, Stripped
<1>7. CASE ~(n > 1)
  BY <1>4, <1>5, <1>7 DEF LineBefore, Stripped
<1> QED
  BY <1>6, <1>7

LEMMA StrippedIsText ==
  ASSUME NEW line \in Seq(Tokens)
  PROVE  Stripped(line) \in Seq(Tokens)
<1>1. CASE line # <<>>
  <2>1. Len(line) \in Nat /\ Len(line) - 1 \in 0..Len(line) /\ 0 \in 0..(Len(line) - 1)
    BY <1>1, EmptySeq, LenProperties
  <2>2. SubSeq(line, 0 + 1, Len(line) - 1) \in Seq(Tokens)
    BY <2>1, SliceIs
  <2> QED
    BY <2>2 DEF Stripped
<1> QED
  BY <1>1 DEF Stripped

(* A turn of either loop: there is a newline left, or there is none.       *)
LEMMA TurnIs ==
  ASSUME NEW T \in Seq(Tokens), NEW r \in 0..Len(T), NEW p \in 0..r, Boundary(T, p)
  PROVE  LET rest == SubSeq(T, p + 1, r)
             n == IndexOfLf(rest)
         IN IF n = 0 THEN Clear(T, p, r)
            ELSE /\ n \in 1..(r - p) /\ Boundary(T, p + n) /\ T[p + n] = "LF"
                 /\ Clear(T, p, (p + n) - 1)
                 /\ LineBefore(rest, n) = LineEndingAt(T, p + n)
                 /\ LineEndingAt(T, p + n) \in Seq(Tokens)
                 /\ After(rest, n) = SubSeq(T, (p + n) + 1, r)
<1> DEFINE rest == SubSeq(T, p + 1, r)
           n == IndexOfLf(rest)
<1>1. Len(T) \in Nat
  BY LenProperties
<1>2. rest \in Seq(Tokens) /\ Len(rest) = r - p /\ \A i \in 1..(r - p) : rest[i] = T[p + i]
  BY SliceIs
<1>3. IF \E i \in 1..Len(rest) : rest[i] = "LF"
        THEN n \in 1..Len(rest) /\ rest[n] = "LF" /\ Clear(rest, 0, n - 1)
        ELSE n = 0
  BY <1>2, IndexIs
<1> HIDE DEF n
<1>4. CASE n = 0
  <2>1. \A i \in 1..(r - p) : T[p + i] # "LF"
    BY <1>1, <1>2, <1>3, <1>4
  <2>2. ASSUME NEW j \in (p + 1)..r PROVE T[j] # "LF"
    <3>1. j - p \in 1..(r - p) /\ p + (j - p) = j
      BY <1>1
    <3> QED
      BY <2>1, <3>1
  <2> QED
    BY <1>4, <2>2 DEF Clear, n
<1>5. CASE n # 0
  <2>1. n \in 1..(r - p) /\ rest[n] = "LF" /\ T[p + n] = "LF"
    BY <1>2, <1>3, <1>5
  <2>2. Clear(T, p, (p + n) - 1)
    <3>1. ASSUME NEW j \in (p + 1)..((p + n) - 1) PROVE T[j] # "LF"
      <4>1. j - p \in (0 + 1)..(n - 1) /\ j - p \in 1..(r - p) /\ p + (j - p) = j
        BY <1>1, <2>1
      <4>2. rest[j - p] # "LF"
        BY <1>3, <1>5, <4>1 DEF Clear
      <4> QED
        BY <1>2, <4>1, <4>2
    <3> QED
      BY <3>1 DEF Clear
  <2>3. LineBefore(rest, n) = Stripped(SubSeq(T, p + 1, (p + n) - 1))
    <3>1. 0 \in 0..(r - p) /\ n - 1 \in 0..(r - p) /\ n \in 1..Len(rest)
      BY <1>1, <1>2, <2>1
    <3>2. SubSeq(rest, 0 + 1, n - 1) = SubSeq(T, p + 0 + 1, p + (n - 1))
      BY <3>1, SliceOfSlice
    <3>3. p + 0 + 1 = p + 1 /\ p + (n - 1) = (p + n) - 1
      BY <1>1, <2>1
    <3>4. LineBefore(rest, n) = Stripped(SubSeq(rest, 1, n - 1))
      BY <1>2, <3>1, LineBeforeIs
    <3>5. 0 + 1 = 1
      OBVIOUS
    <3> HIDE DEF rest
    <3> QED
      BY <3>2, <3>3, <3>4, <3>5
  <2>4. p + n \in Nat \ {0} /\ p \in 0..((p + n) - 1) /\ (p + n) - 1 \in 0..Len(T)
        /\ p \in 0..((p + n) - 1)
    BY <1>1, <2>1
  <2>5. LineEndingAt(T, p + n) = Stripped(SubSeq(T, p + 1, (p + n) - 1))
    BY <2>2, <2>4, LineEnding
  <2>6. Stripped(SubSeq(T, p + 1, (p + n) - 1)) \in Seq(Tokens)
    BY <2>4, SliceIs, StrippedIsText
  <2>7. After(rest, n) = SubSeq(T, (p + n) + 1, r)
    <3>1. n \in 0..(r - p) /\ r - p \in n..(r - p) /\ p + (r - p) = r
      BY <1>1, <2>1
    <3>2. SubSeq(rest, n + 1, r - p) = SubSeq(T, p + n + 1, p + (r - p))
      BY <3>1, SliceOfSlice
    <3> QED
      BY <1>2, <3>1, <3>2 DEF After
  <2> QED
    BY <1>5, <2>1, <2>2, <2>3, <2>5, <2>6, <2>7 DEF Boundary, n
<1> QED
  BY <1>4, <1>5
-----------------------------------------------------------------------------
(* The lines of a text, in the order they end.                             *)

EndsBetween(text, p, q) == {i \in (p + 1)..q : text[i] = "LF" /\ LineEndingAt(text, i) # <<>>}

JsonBetween(text, p, q) == {i \in EndsBetween(text, p, q) : IsJson(LineEndingAt(text, i))}

Rank(ends, i) == Cardinality({j \in ends : j <= i})

LEMMA EndsAreFinite ==
  ASSUME NEW p \in Nat, NEW q \in Nat, NEW ends, ends \subseteq (p + 1)..q
  PROVE  /\ IsFiniteSet(ends) /\ Cardinality(ends) \in Nat
         /\ \A i \in ends : Rank(ends, i) \in 1..Cardinality(ends)
<1>1. IsFiniteSet((p + 1)..q)
  BY FS_Interval
<1>2. IsFiniteSet(ends) /\ Cardinality(ends) \in Nat
  BY <1>1, FS_Subset, FS_CardinalityType
<1>3. ASSUME NEW i \in ends PROVE Rank(ends, i) \in 1..Cardinality(ends)
  <2> DEFINE upTo == {j \in ends : j <= i}
  <2>1. upTo \subseteq ends /\ i \in upTo
    BY i \in (p + 1)..q
  <2> HIDE DEF upTo
  <2>2. IsFiniteSet(upTo) /\ Cardinality(upTo) <= Cardinality(ends) /\ Cardinality(upTo) \in Nat
    BY <1>2, <2>1, FS_Subset, FS_CardinalityType
  <2>3. Cardinality(upTo) # 0
    BY <2>1, <2>2, FS_EmptySet
  <2>4. Cardinality(upTo) \in 1..Cardinality(ends)
    BY <1>2, <2>2, <2>3
  <2> QED
    BY <2>4 DEF upTo, Rank
<1> QED
  BY <1>2, <1>3

LEMMA ApartAddUp ==
  ASSUME NEW E, NEW F, IsFiniteSet(E), IsFiniteSet(F), E \intersect F = {}
  PROVE  Cardinality(E \union F) = Cardinality(E) + Cardinality(F)
<1>1. Cardinality(E) \in Nat /\ Cardinality(F) \in Nat
  BY FS_CardinalityType
<1>2. Cardinality(E \union F) = Cardinality(E) + Cardinality(F) - Cardinality(E \intersect F)
  BY FS_Union
<1>3. Cardinality(E \intersect F) = 0
  BY FS_EmptySet
<1> QED
  BY <1>1, <1>2, <1>3

LEMMA LinesConcat ==
  ASSUME NEW T, NEW p \in Nat, NEW q \in Nat, NEW r \in Nat,
         NEW E, E \subseteq (p + 1)..q, NEW F, F \subseteq (q + 1)..r,
         NEW a \in Seq(Seq(Tokens)), NEW b \in Seq(Seq(Tokens)),
         AreLines(a, T, E), AreLines(b, T, F)
  PROVE  AreLines(a \o b, T, E \union F)
<1> DEFINE ends == E \union F
           m == Cardinality(E)
           n == Cardinality(F)
<1>1. m \in Nat /\ n \in Nat /\ Len(a) = m /\ Len(b) = n
  BY EndsAreFinite DEF AreLines
<1>2. Cardinality(ends) = m + n
  <2>1. IsFiniteSet(E) /\ IsFiniteSet(F)
    BY EndsAreFinite
  <2>2. E \intersect F = {}
    OBVIOUS
  <2> QED
    BY <2>1, <2>2, ApartAddUp
<1>3. /\ a \o b \in Seq(Seq(Tokens)) /\ Len(a \o b) = m + n
      /\ \A i \in 1..(m + n) : (a \o b)[i] = IF i <= m THEN a[i] ELSE b[i - m]
  <2> HIDE DEF m, n
  <2> QED
    BY <1>1, ConcatProperties
<1>4. ASSUME NEW i \in E PROVE (a \o b)[Rank(ends, i)] = LineEndingAt(T, i)
  <2>1. {j \in ends : j <= i} = {j \in E : j <= i}
    <3>1. \A j \in F : ~(j <= i)
      OBVIOUS
    <3> QED
      BY <3>1
  <2>2. Rank(ends, i) = Rank(E, i)
    BY <2>1 DEF Rank
  <2>3. Rank(E, i) \in 1..m
    BY EndsAreFinite
  <2>4. a[Rank(E, i)] = LineEndingAt(T, i)
    BY DEF AreLines, Rank
  <2> HIDE DEF m, n, ends
  <2> QED
    BY <1>1, <1>3, <2>2, <2>3, <2>4
<1>5. ASSUME NEW i \in F PROVE (a \o b)[Rank(ends, i)] = LineEndingAt(T, i)
  <2> DEFINE upTo == {j \in F : j <= i}
  <2>1. {j \in ends : j <= i} = E \union upTo
    <3>1. \A j \in E : j <= i
      OBVIOUS
    <3> QED
      BY <3>1
  <2>2. upTo \subseteq (q + 1)..r /\ E \intersect upTo = {}
    <3>1. E \intersect F = {} /\ upTo \subseteq F
      OBVIOUS
    <3> QED
      BY <3>1
  <2>3. Cardinality(E \union upTo) = m + Cardinality(upTo)
    <3> HIDE DEF upTo
    <3>1. IsFiniteSet(E) /\ IsFiniteSet(upTo)
      BY <2>2, EndsAreFinite
    <3> QED
      BY <2>2, <3>1, ApartAddUp
  <2>4. Rank(ends, i) = m + Rank(F, i)
    BY <2>1, <2>3 DEF Rank
  <2>5. Rank(F, i) \in 1..n
    BY EndsAreFinite
  <2>6. b[Rank(F, i)] = LineEndingAt(T, i)
    BY DEF AreLines, Rank
  <2>7. (m + Rank(F, i)) - m = Rank(F, i) /\ ~(m + Rank(F, i) <= m) /\ m + Rank(F, i) \in 1..(m + n)
    BY <1>1, <2>5
  <2> HIDE DEF m, n, ends, upTo
  <2> QED
    BY <1>3, <2>4, <2>6, <2>7
<1>6. \A i \in ends : (a \o b)[Cardinality({j \in ends : j <= i})] = LineEndingAt(T, i)
  BY <1>4, <1>5 DEF Rank
<1> QED
  BY <1>2, <1>3, <1>6 DEF AreLines

LEMMA NoLines ==
  ASSUME NEW T
  PROVE  AreLines(<<>>, T, {}) /\ <<>> \in Seq(Seq(Tokens))
<1>1. Cardinality({}) = 0
  BY FS_EmptySet
<1> QED
  BY <1>1, EmptySeq DEF AreLines

LEMMA OneLine ==
  ASSUME NEW T, NEW i \in Nat, LineEndingAt(T, i) \in Seq(Tokens)
  PROVE  AreLines(<<LineEndingAt(T, i)>>, T, {i}) /\ <<LineEndingAt(T, i)>> \in Seq(Seq(Tokens))
<1>1. Cardinality({i}) = 1
  BY FS_Singleton
<1>2. {j \in {i} : j <= i} = {i}
  OBVIOUS
<1> DEFINE line == LineEndingAt(T, i)
<1> HIDE DEF line
<1>3. <<line>> \in Seq(Seq(Tokens)) /\ Len(<<line>>) = 1 /\ <<line>>[1] = line
  BY DEF line
<1> QED
  BY <1>1, <1>2, <1>3 DEF AreLines, line

(* What a turn finds is the line that ends where it ends, if there is one. *)
LEMMA TurnFinds ==
  ASSUME NEW T, NEW a \in Nat, NEW p \in Nat, a <= p, NEW i \in Nat, p < i,
         T[i] = "LF", Clear(T, p, i - 1), LineEndingAt(T, i) \in Seq(Tokens)
  PROVE  LET line == LineEndingAt(T, i)
         IN /\ EndsBetween(T, p, i) = IF line = <<>> THEN {} ELSE {i}
            /\ EndsBetween(T, a, i) = EndsBetween(T, a, p) \union EndsBetween(T, p, i)
            /\ Unless(line) \in Seq(Seq(Tokens))
            /\ AreLines(Unless(line), T, EndsBetween(T, p, i))
<1>1. \A j \in (p + 1)..i : j = i \/ T[j] # "LF"
  BY DEF Clear
<1>2. EndsBetween(T, p, i) = IF LineEndingAt(T, i) = <<>> THEN {} ELSE {i}
  BY <1>1 DEF EndsBetween
<1>3. EndsBetween(T, a, i) = EndsBetween(T, a, p) \union EndsBetween(T, p, i)
  BY DEF EndsBetween
<1>4. /\ Unless(LineEndingAt(T, i)) \in Seq(Seq(Tokens))
      /\ AreLines(Unless(LineEndingAt(T, i)), T, EndsBetween(T, p, i))
  BY <1>2, NoLines, OneLine DEF Unless
<1> QED
  BY <1>2, <1>3, <1>4
-----------------------------------------------------------------------------
(* The loops of the two decoders.                                          *)

(* The loops here: a decoder's, which turns while there is a newline, and  *)
(* that of split(","), which takes the characters one by one.              *)
TurnOf(loop, s, c) ==
  CASE loop = "core" -> Turn(s) [] loop = "client" -> ParsingTurn(s) [] OTHER -> WithNext(s, c)

IsLoop(f, loop, text, s, n) ==
  f = [k \in 0..n |-> IF k = 0 THEN s ELSE TurnOf(loop, f[k - 1], text[k])]

LEMMA LoopExists ==
  ASSUME NEW loop, NEW text, NEW s
  PROVE  \A n \in Nat : \E f : IsLoop(f, loop, text, s, n)
<1> DEFINE S == {n \in Nat : \E f : IsLoop(f, loop, text, s, n)}
<1>1. 0 \in S
  <2> DEFINE f == [k \in 0..0 |-> s]
  <2>1. f = [k \in 0..0 |-> IF k = 0 THEN s ELSE TurnOf(loop, f[k - 1], text[k])]
    OBVIOUS
  <2> HIDE DEF f
  <2>2. IsLoop(f, loop, text, s, 0)
    BY <2>1 DEF IsLoop
  <2> QED
    BY <2>2
<1>2. ASSUME NEW n \in Nat, n \in S PROVE n + 1 \in S
  <2>1. PICK f : IsLoop(f, loop, text, s, n)
    BY <1>2
  <2> DEFINE g == [k \in 0..(n + 1) |-> IF k = n + 1 THEN TurnOf(loop, f[n], text[k]) ELSE f[k]]
  <2>2. ASSUME NEW k \in 0..(n + 1)
        PROVE  g[k] = IF k = 0 THEN s ELSE TurnOf(loop, g[k - 1], text[k])
    <3>1. CASE k = n + 1
      <4>1. g[k] = TurnOf(loop, f[n], text[k]) /\ g[k - 1] = f[n] /\ k # 0
        BY <3>1
      <4> HIDE DEF g
      <4> QED
        BY <4>1
    <3>2. CASE k # n + 1
      <4>1. k \in 0..n /\ g[k] = f[k] /\ (k # 0 => g[k - 1] = f[k - 1])
        BY <3>2
      <4>2. f[k] = IF k = 0 THEN s ELSE TurnOf(loop, f[k - 1], text[k])
        BY <2>1, <4>1 DEF IsLoop
      <4> HIDE DEF g
      <4> QED
        BY <4>1, <4>2
    <3> QED
      BY <3>1, <3>2
  <2>3. g = [k \in 0..(n + 1) |-> g[k]]
    OBVIOUS
  <2> HIDE DEF g
  <2>4. IsLoop(g, loop, text, s, n + 1)
    BY <2>2, <2>3 DEF IsLoop
  <2> QED
    BY <2>4
<1> HIDE DEF S
<1>3. \A n \in Nat : n \in S
  BY <1>1, <1>2, Inductive
<1> QED
  BY <1>3 DEF S

LEMMA PushTurns ==
  ASSUME NEW text \in Seq(Tokens)
  PROVE  \E f : /\ Push(text) = f[Len(text)] /\ f[0] = [found |-> <<>>, rest |-> text]
                /\ \A k \in 1..Len(text) : f[k] = Turn(f[k - 1])
<1> DEFINE s == [found |-> <<>>, rest |-> text]
           f == CHOOSE after :
                  after = [k \in 0..Len(text) |-> IF k = 0 THEN s ELSE Turn(after[k - 1])]
<1>1. Len(text) \in Nat
  BY LenProperties
<1>2. Push(text) = f[Len(text)]
  BY DEF Push
<1>3. \E g : g = [k \in 0..Len(text) |-> IF k = 0 THEN s ELSE Turn(g[k - 1])]
  <2>1. \E g : IsLoop(g, "core", text, s, Len(text))
    BY <1>1, LoopExists
  <2> QED
    BY <2>1 DEF IsLoop, TurnOf
<1>4. f = [k \in 0..Len(text) |-> IF k = 0 THEN s ELSE Turn(f[k - 1])]
  BY <1>3
<1> HIDE DEF f, s
<1>5. f[0] = s /\ \A k \in 1..Len(text) : f[k] = Turn(f[k - 1])
  BY <1>1, <1>4
<1> QED
  BY <1>2, <1>5 DEF s

LEMMA PushParsingTurns ==
  ASSUME NEW text \in Seq(Tokens)
  PROVE  \E f : /\ PushParsing(text) = f[Len(text)]
                /\ f[0] = [found |-> <<>>, rest |-> text, threw |-> FALSE]
                /\ \A k \in 1..Len(text) : f[k] = ParsingTurn(f[k - 1])
<1> DEFINE s == [found |-> <<>>, rest |-> text, threw |-> FALSE]
           f == CHOOSE after :
                  after = [k \in 0..Len(text) |-> IF k = 0 THEN s ELSE ParsingTurn(after[k - 1])]
<1>1. Len(text) \in Nat
  BY LenProperties
<1>2. PushParsing(text) = f[Len(text)]
  BY DEF PushParsing
<1>3. \E g : g = [k \in 0..Len(text) |-> IF k = 0 THEN s ELSE ParsingTurn(g[k - 1])]
  <2>1. \E g : IsLoop(g, "client", text, s, Len(text))
    BY <1>1, LoopExists
  <2> QED
    BY <2>1 DEF IsLoop, TurnOf
<1>4. f = [k \in 0..Len(text) |-> IF k = 0 THEN s ELSE ParsingTurn(f[k - 1])]
  BY <1>3
<1> HIDE DEF f, s
<1>5. f[0] = s /\ \A k \in 1..Len(text) : f[k] = ParsingTurn(f[k - 1])
  BY <1>1, <1>4
<1> QED
  BY <1>2, <1>5 DEF s
(* What a loop that began at a has come to, with the text up to p taken.   *)
HasRead(s, T, r, a, p) ==
  /\ Boundary(T, p)
  /\ s.rest = SubSeq(T, p + 1, r)
  /\ s.found \in Seq(Seq(Tokens))
  /\ AreLines(s.found, T, EndsBetween(T, a, p))

LEMMA TurnReads ==
  ASSUME NEW T \in Seq(Tokens), NEW r \in 0..Len(T), NEW a \in 0..r, NEW p \in a..r,
         NEW s, HasRead(s, T, r, a, p)
  PROVE  IF IndexOfLf(s.rest) = 0 THEN Turn(s) = s /\ Clear(T, p, r)
         ELSE ~Clear(T, p, r) /\ \E q \in (p + 1)..r : HasRead(Turn(s), T, r, a, q)
<1> DEFINE n == IndexOfLf(s.rest)
           q == p + n
           line == LineEndingAt(T, q)
<1>1. Len(T) \in Nat /\ r \in Nat /\ p \in 0..r /\ a \in Nat /\ p \in Nat /\ a <= p
  BY LenProperties
<1>2. s.rest = SubSeq(T, p + 1, r) /\ Boundary(T, p)
  BY DEF HasRead
<1>3. CASE n = 0
  BY <1>1, <1>2, <1>3, TurnIs DEF Turn
<1>4. CASE n # 0
  <2>1. /\ n \in 1..(r - p) /\ Boundary(T, q) /\ T[q] = "LF" /\ Clear(T, p, q - 1)
        /\ LineBefore(s.rest, n) = line /\ line \in Seq(Tokens)
        /\ After(s.rest, n) = SubSeq(T, q + 1, r)
    BY <1>1, <1>2, <1>4, TurnIs
  <2>2. q \in (p + 1)..r /\ q \in Nat /\ p < q
    BY <1>1, <2>1
  <2>3. ~Clear(T, p, r)
    BY <2>1, <2>2 DEF Clear
  <2>4. Turn(s) = [found |-> s.found \o Unless(line), rest |-> SubSeq(T, q + 1, r)]
    BY <1>4, <2>1 DEF Turn
  <2> HIDE DEF n, q
  <2>5. /\ EndsBetween(T, a, q) = EndsBetween(T, a, p) \union EndsBetween(T, p, q)
        /\ Unless(line) \in Seq(Seq(Tokens))
        /\ AreLines(Unless(line), T, EndsBetween(T, p, q))
    BY <1>1, <2>1, <2>2, TurnFinds
  <2> HIDE DEF line
  <2>6. EndsBetween(T, a, p) \subseteq (a + 1)..p /\ EndsBetween(T, p, q) \subseteq (p + 1)..q
    BY DEF EndsBetween
  <2>7. s.found \in Seq(Seq(Tokens)) /\ AreLines(s.found, T, EndsBetween(T, a, p))
    BY DEF HasRead
  <2>8. AreLines(s.found \o Unless(line), T, EndsBetween(T, a, q))
    <3> DEFINE E == EndsBetween(T, a, p)
               F == EndsBetween(T, p, q)
               found == s.found
               more == Unless(line)
    <3>1. /\ E \subseteq (a + 1)..p /\ F \subseteq (p + 1)..q
          /\ found \in Seq(Seq(Tokens)) /\ more \in Seq(Seq(Tokens))
          /\ AreLines(found, T, E) /\ AreLines(more, T, F)
      BY <2>5, <2>6, <2>7
    <3> HIDE DEF E, F, found, more
    <3>2. AreLines(found \o more, T, E \union F)
      BY <1>1, <2>2, <3>1, LinesConcat
    <3> QED
      BY <2>5, <3>2 DEF E, F, found, more
  <2>9. s.found \o Unless(line) \in Seq(Seq(Tokens))
    BY <2>5, <2>7, ConcatProperties
  <2>10. HasRead(Turn(s), T, r, a, q)
    <3> DEFINE found == s.found \o Unless(line)
               rest == SubSeq(T, q + 1, r)
    <3>1. Turn(s) = [found |-> found, rest |-> rest]
      BY <2>4
    <3>2. found \in Seq(Seq(Tokens)) /\ AreLines(found, T, EndsBetween(T, a, q))
      BY <2>8, <2>9
    <3> HIDE DEF found, rest
    <3>3. Turn(s).found = found /\ Turn(s).rest = rest
      BY <3>1
    <3>4. Boundary(T, q) /\ Turn(s).rest = SubSeq(T, q + 1, r)
      BY <2>1, <3>3 DEF rest
    <3>5. Turn(s).found \in Seq(Seq(Tokens)) /\ AreLines(Turn(s).found, T, EndsBetween(T, a, q))
      BY <3>2, <3>3
    <3> QED
      BY <3>4, <3>5 DEF HasRead
  <2> QED
    BY <1>4, <2>2, <2>10, <2>3 DEF n
<1> QED
  BY <1>3, <1>4

(* NdjsonDecoder.push() finds the lines that are complete, and keeps the   *)
(* text after the last newline.                                            *)
LEMMA PushReads ==
  ASSUME NEW T \in Seq(Tokens), NEW r \in 0..Len(T), NEW a \in 0..r, Boundary(T, a)
  PROVE  \E p \in a..r : HasRead(Push(SubSeq(T, a + 1, r)), T, r, a, p) /\ Clear(T, p, r)
<1> DEFINE text == SubSeq(T, a + 1, r)
           n == r - a
<1>1. Len(T) \in Nat /\ r \in Nat /\ a \in Nat /\ n \in Nat /\ a \in a..r
  BY LenProperties
<1>2. text \in Seq(Tokens) /\ Len(text) = n
  BY <1>1, SliceIs
<1>3. PICK f : /\ Push(text) = f[n] /\ f[0] = [found |-> <<>>, rest |-> text]
               /\ \A k \in 1..n : f[k] = Turn(f[k - 1])
  <2> HIDE DEF text, n
  <2> QED
    BY <1>2, PushTurns
<1> DEFINE Good(k) == \E p \in a..r : HasRead(f[k], T, r, a, p) /\ (Clear(T, p, r) \/ k <= p - a)
           S == {k \in Nat : k \in 0..n => Good(k)}
<1>4. 0 \in S
  <2>1. EndsBetween(T, a, a) = {}
    BY <1>1 DEF EndsBetween
  <2>2. HasRead(f[0], T, r, a, a)
    BY <1>3, <2>1, NoLines DEF HasRead
  <2>3. 0 <= a - a
    BY <1>1
  <2> QED
    BY <1>1, <2>2, <2>3
<1>5. ASSUME NEW k \in Nat, k \in S, k + 1 \in 0..n PROVE Good(k + 1)
  <2>1. k \in 0..n /\ k + 1 \in 1..n /\ (k + 1) - 1 = k
    BY <1>1, <1>5
  <2>2. PICK p \in a..r : HasRead(f[k], T, r, a, p) /\ (Clear(T, p, r) \/ k <= p - a)
    BY <1>5, <2>1
  <2>3. f[k + 1] = Turn(f[k])
    BY <1>3, <2>1
  <2>4. CASE IndexOfLf(f[k].rest) = 0
    <3>1. Turn(f[k]) = f[k] /\ Clear(T, p, r)
      BY <2>2, <2>4, TurnReads
    <3> QED
      BY <2>2, <2>3, <3>1
  <2>5. CASE IndexOfLf(f[k].rest) # 0
    <3>1. ~Clear(T, p, r)
      BY <2>2, <2>5, TurnReads
    <3>2. PICK q \in (p + 1)..r : HasRead(f[k + 1], T, r, a, q)
      BY <2>2, <2>3, <2>5, TurnReads
    <3>3. q \in a..r /\ k + 1 <= q - a
      BY <1>1, <2>2, <3>1
    <3> QED
      BY <3>2, <3>3
  <2> QED
    BY <2>4, <2>5
<1>6. n \in S
  <2>1. \A k \in Nat : k \in S => k + 1 \in S
    <3> HIDE DEF Good
    <3> QED
      BY <1>5
  <2> HIDE DEF S
  <2> QED
    BY <1>1, <1>4, <2>1, Inductive
<1>7. PICK p \in a..r : HasRead(f[n], T, r, a, p) /\ (Clear(T, p, r) \/ n <= p - a)
  <2>1. n \in 0..n
    BY <1>1
  <2>2. Good(n)
    <3> HIDE DEF Good, n
    <3> QED
      BY <1>6, <2>1
  <2> QED
    BY <2>2
<1>8. n <= p - a => p = r
  BY <1>1
<1>9. Clear(T, r, r)
  BY <1>1 DEF Clear
<1> QED
  BY <1>3, <1>7, <1>8, <1>9
(* What the client's loop has come to, until it throws.                    *)
HasParsed(s, T, r, a, p) ==
  /\ Boundary(T, p)
  /\ s.rest = SubSeq(T, p + 1, r)
  /\ s.found \in Seq(Seq(Tokens))
  /\ AreLines(s.found, T, JsonBetween(T, a, p))
  /\ s.threw \in BOOLEAN
  /\ (s.threw <=> JsonBetween(T, a, p) # EndsBetween(T, a, p))
  /\ s.threw => p \in EndsBetween(T, a, p) \ JsonBetween(T, a, p)

LEMMA ParsingTurnReads ==
  ASSUME NEW T \in Seq(Tokens), NEW r \in 0..Len(T), NEW a \in 0..r, NEW p \in a..r,
         NEW s, HasParsed(s, T, r, a, p)
  PROVE  IF IndexOfLf(s.rest) = 0 \/ s.threw
           THEN ParsingTurn(s) = s /\ (s.threw \/ Clear(T, p, r))
         ELSE ~Clear(T, p, r) /\ \E q \in (p + 1)..r : HasParsed(ParsingTurn(s), T, r, a, q)
<1> DEFINE n == IndexOfLf(s.rest)
           q == p + n
           line == LineEndingAt(T, q)
<1>1. Len(T) \in Nat /\ r \in Nat /\ p \in 0..r /\ a \in Nat /\ p \in Nat /\ a <= p
  BY LenProperties
<1>2. s.rest = SubSeq(T, p + 1, r) /\ Boundary(T, p)
  BY DEF HasParsed
<1>3. CASE n = 0 \/ s.threw
  <2>1. ParsingTurn(s) = s
    BY <1>3 DEF ParsingTurn
  <2>2. n = 0 => Clear(T, p, r)
    BY <1>1, <1>2, TurnIs
  <2> QED
    BY <1>3, <2>1, <2>2
<1>4. CASE n # 0 /\ ~s.threw
  <2>1. /\ n \in 1..(r - p) /\ Boundary(T, q) /\ T[q] = "LF" /\ Clear(T, p, q - 1)
        /\ LineBefore(s.rest, n) = line /\ line \in Seq(Tokens)
        /\ After(s.rest, n) = SubSeq(T, q + 1, r)
    BY <1>1, <1>2, <1>4, TurnIs
  <2>2. q \in (p + 1)..r /\ q \in Nat /\ p < q
    BY <1>1, <2>1
  <2>3. ~Clear(T, p, r)
    BY <2>1, <2>2 DEF Clear
  <2>4. ParsingTurn(s) =
          IF line # <<>> /\ ~IsJson(line)
            THEN [found |-> s.found, rest |-> SubSeq(T, q + 1, r), threw |-> TRUE]
          ELSE [found |-> s.found \o Unless(line), rest |-> SubSeq(T, q + 1, r), threw |-> FALSE]
    BY <1>4, <2>1 DEF ParsingTurn
  <2> HIDE DEF n, q
  <2>5. /\ EndsBetween(T, p, q) = IF line = <<>> THEN {} ELSE {q}
        /\ EndsBetween(T, a, q) = EndsBetween(T, a, p) \union EndsBetween(T, p, q)
        /\ Unless(line) \in Seq(Seq(Tokens))
        /\ AreLines(Unless(line), T, EndsBetween(T, p, q))
    BY <1>1, <2>1, <2>2, TurnFinds
  <2>6. /\ JsonBetween(T, a, q) = JsonBetween(T, a, p) \union JsonBetween(T, p, q)
        /\ JsonBetween(T, p, q) = IF line # <<>> /\ IsJson(line) THEN {q} ELSE {}
    BY <2>5 DEF JsonBetween
  <2>7. JsonBetween(T, a, p) = EndsBetween(T, a, p)
    BY <1>4 DEF HasParsed
  <2>8. EndsBetween(T, a, p) \subseteq (a + 1)..p /\ EndsBetween(T, p, q) \subseteq (p + 1)..q
    BY DEF EndsBetween
  <2>9. s.found \in Seq(Seq(Tokens)) /\ AreLines(s.found, T, EndsBetween(T, a, p))
    BY <2>7 DEF HasParsed
  <2>10. CASE line # <<>> /\ ~IsJson(line)
    <3>1. q \in EndsBetween(T, a, q) /\ JsonBetween(T, a, q) = JsonBetween(T, a, p)
      BY <2>5, <2>6, <2>10
    <3>2. q \notin JsonBetween(T, a, q)
      BY <2>10 DEF JsonBetween, line
    <3>3. ParsingTurn(s) = [found |-> s.found, rest |-> SubSeq(T, q + 1, r), threw |-> TRUE]
      BY <2>4, <2>10
    <3> HIDE DEF line
    <3> DEFINE found == s.found
               rest == SubSeq(T, q + 1, r)
    <3>4. ParsingTurn(s) = [found |-> found, rest |-> rest, threw |-> TRUE]
      BY <3>3
    <3>5. found \in Seq(Seq(Tokens)) /\ AreLines(found, T, JsonBetween(T, a, q))
      BY <2>7, <2>9, <3>1
    <3> HIDE DEF found, rest
    <3>6. /\ ParsingTurn(s).found = found /\ ParsingTurn(s).rest = rest
          /\ ParsingTurn(s).threw = TRUE
      BY <3>4
    <3>7. Boundary(T, q) /\ ParsingTurn(s).rest = SubSeq(T, q + 1, r)
      BY <2>1, <3>6 DEF rest
    <3>8. /\ ParsingTurn(s).found \in Seq(Seq(Tokens))
          /\ AreLines(ParsingTurn(s).found, T, JsonBetween(T, a, q))
      BY <3>5, <3>6
    <3>9. HasParsed(ParsingTurn(s), T, r, a, q)
      BY <3>1, <3>2, <3>6, <3>7, <3>8 DEF HasParsed
    <3> QED
      BY <1>4, <2>2, <2>3, <3>9 DEF n
  <2>11. CASE ~(line # <<>> /\ ~IsJson(line))
    <3>1. JsonBetween(T, a, q) = EndsBetween(T, a, q)
      BY <2>5, <2>6, <2>7, <2>11
    <3> HIDE DEF line
    <3>2. AreLines(s.found \o Unless(line), T, EndsBetween(T, a, q))
      <4> DEFINE E == EndsBetween(T, a, p)
                 F == EndsBetween(T, p, q)
                 found == s.found
                 more == Unless(line)
      <4>1. /\ E \subseteq (a + 1)..p /\ F \subseteq (p + 1)..q
            /\ found \in Seq(Seq(Tokens)) /\ more \in Seq(Seq(Tokens))
            /\ AreLines(found, T, E) /\ AreLines(more, T, F)
        BY <2>5, <2>8, <2>9
      <4> HIDE DEF E, F, found, more
      <4>2. AreLines(found \o more, T, E \union F)
        BY <1>1, <2>2, <4>1, LinesConcat
      <4> QED
        BY <2>5, <4>2 DEF E, F, found, more
    <3>3. s.found \o Unless(line) \in Seq(Seq(Tokens))
      BY <2>5, <2>9, ConcatProperties
    <3> DEFINE found == s.found \o Unless(line)
               rest == SubSeq(T, q + 1, r)
    <3>4. ParsingTurn(s) = [found |-> found, rest |-> rest, threw |-> FALSE]
      BY <2>4, <2>11
    <3>5. found \in Seq(Seq(Tokens)) /\ AreLines(found, T, JsonBetween(T, a, q))
      BY <3>1, <3>2, <3>3
    <3> HIDE DEF found, rest
    <3>6. /\ ParsingTurn(s).found = found /\ ParsingTurn(s).rest = rest
          /\ ParsingTurn(s).threw = FALSE
      BY <3>4
    <3>7. Boundary(T, q) /\ ParsingTurn(s).rest = SubSeq(T, q + 1, r)
      BY <2>1, <3>6 DEF rest
    <3>8. /\ ParsingTurn(s).found \in Seq(Seq(Tokens))
          /\ AreLines(ParsingTurn(s).found, T, JsonBetween(T, a, q))
      BY <3>5, <3>6
    <3>9. HasParsed(ParsingTurn(s), T, r, a, q)
      BY <3>1, <3>6, <3>7, <3>8 DEF HasParsed
    <3> QED
      BY <1>4, <2>2, <2>3, <3>9 DEF n
  <2> QED
    BY <2>10, <2>11
<1> QED
  BY <1>3, <1>4 DEF HasParsed

(* NdjsonLineDecoder.push() finds the messages that are complete, up to    *)
(* the first line that is none, and it throws if there is one.             *)
LEMMA PushParsingReads ==
  ASSUME NEW T \in Seq(Tokens), NEW r \in 0..Len(T), NEW a \in 0..r, Boundary(T, a)
  PROVE  LET s == PushParsing(SubSeq(T, a + 1, r))
         IN \E p \in a..r : HasParsed(s, T, r, a, p) /\ (s.threw \/ Clear(T, p, r))
<1> DEFINE text == SubSeq(T, a + 1, r)
           n == r - a
<1>1. Len(T) \in Nat /\ r \in Nat /\ a \in Nat /\ n \in Nat /\ a \in a..r
  BY LenProperties
<1>2. text \in Seq(Tokens) /\ Len(text) = n
  BY <1>1, SliceIs
<1>3. PICK f : /\ PushParsing(text) = f[n]
               /\ f[0] = [found |-> <<>>, rest |-> text, threw |-> FALSE]
               /\ \A k \in 1..n : f[k] = ParsingTurn(f[k - 1])
  <2> HIDE DEF text, n
  <2> QED
    BY <1>2, PushParsingTurns
<1> DEFINE Good(k) ==
             \E p \in a..r :
               HasParsed(f[k], T, r, a, p) /\ (f[k].threw \/ Clear(T, p, r) \/ k <= p - a)
           S == {k \in Nat : k \in 0..n => Good(k)}
<1>4. 0 \in S
  <2>1. EndsBetween(T, a, a) = {} /\ JsonBetween(T, a, a) = {}
    BY <1>1 DEF EndsBetween, JsonBetween
  <2>2. HasParsed(f[0], T, r, a, a)
    BY <1>3, <2>1, NoLines DEF HasParsed
  <2>3. 0 <= a - a
    BY <1>1
  <2> QED
    BY <1>1, <2>2, <2>3
<1>5. ASSUME NEW k \in Nat, k \in S, k + 1 \in 0..n PROVE Good(k + 1)
  <2>1. k \in 0..n /\ k + 1 \in 1..n /\ (k + 1) - 1 = k
    BY <1>1, <1>5
  <2>2. PICK p \in a..r :
         HasParsed(f[k], T, r, a, p) /\ (f[k].threw \/ Clear(T, p, r) \/ k <= p - a)
    BY <1>5, <2>1
  <2>3. f[k + 1] = ParsingTurn(f[k])
    BY <1>3, <2>1
  <2>4. CASE IndexOfLf(f[k].rest) = 0 \/ f[k].threw
    <3>1. ParsingTurn(f[k]) = f[k] /\ (f[k].threw \/ Clear(T, p, r))
      BY <2>2, <2>4, ParsingTurnReads
    <3> QED
      BY <2>2, <2>3, <3>1
  <2>5. CASE ~(IndexOfLf(f[k].rest) = 0 \/ f[k].threw)
    <3>1. ~Clear(T, p, r)
      BY <2>2, <2>5, ParsingTurnReads
    <3>2. PICK q \in (p + 1)..r : HasParsed(f[k + 1], T, r, a, q)
      BY <2>2, <2>3, <2>5, ParsingTurnReads
    <3>3. k <= p - a
      BY <2>2, <2>5, <3>1
    <3>4. q \in a..r /\ k + 1 <= q - a
      BY <1>1, <3>3
    <3> QED
      BY <3>2, <3>4
  <2> QED
    BY <2>4, <2>5
<1>6. n \in S
  <2>1. \A k \in Nat : k \in S => k + 1 \in S
    <3> HIDE DEF Good
    <3> QED
      BY <1>5
  <2> HIDE DEF S
  <2> QED
    BY <1>1, <1>4, <2>1, Inductive
<1>7. PICK p \in a..r : HasParsed(f[n], T, r, a, p) /\ (f[n].threw \/ Clear(T, p, r) \/ n <= p - a)
  <2>1. n \in 0..n
    BY <1>1
  <2>2. Good(n)
    <3> HIDE DEF Good, n
    <3> QED
      BY <1>6, <2>1
  <2> QED
    BY <2>2
<1>8. n <= p - a => p = r
  BY <1>1
<1>9. Clear(T, r, r)
  BY <1>1 DEF Clear
<1> QED
  BY <1>3, <1>7, <1>8, <1>9
-----------------------------------------------------------------------------
(* The connection: what has been delivered is read, however it is cut.     *)

CoreHasRead(T, r, rest, taken) ==
  \E p \in 0..r :
    /\ Boundary(T, p) /\ Clear(T, p, r)
    /\ rest = SubSeq(T, p + 1, r)
    /\ AreLines(taken, T, EndsBetween(T, 0, p))

(* The messages among the first p tokens, without those that are gone, and *)
(* those that are gone, each before a line that is no JSON.                *)
Accounted(T, p, taken, dropped, gone) ==
  /\ gone \subseteq JsonBetween(T, 0, p)
  /\ AreLines(taken, T, JsonBetween(T, 0, p) \ gone)
  /\ AreLines(dropped, T, gone)
  /\ \A i \in gone : \E j \in EndsBetween(T, 0, p) \ JsonBetween(T, 0, p) : i < j

ClientHasRead(T, r, rest, taken, dropped, threw) ==
  \E p \in 0..r :
    /\ Boundary(T, p) /\ (threw \/ Clear(T, p, r))
    /\ rest = SubSeq(T, p + 1, r)
    /\ JsonBetween(T, 0, p) = EndsBetween(T, 0, p) => ~threw
    /\ \E gone : Accounted(T, p, taken, dropped, gone)

LEMMA EndsAddUp ==
  ASSUME NEW T, NEW p \in Nat, NEW q \in Nat, NEW r \in Nat, p <= q, q <= r
  PROVE  \A i : /\ i \in EndsBetween(T, p, r) <=>
                     i \in EndsBetween(T, p, q) \/ i \in EndsBetween(T, q, r)
                /\ i \in JsonBetween(T, p, r) <=>
                     i \in JsonBetween(T, p, q) \/ i \in JsonBetween(T, q, r)
<1>1. (p + 1)..r = ((p + 1)..q) \union ((q + 1)..r)
  OBVIOUS
<1>2. \A i : i \in EndsBetween(T, p, r) <=>
               i \in EndsBetween(T, p, q) \/ i \in EndsBetween(T, q, r)
  BY <1>1 DEF EndsBetween
<1> QED
  BY <1>2 DEF JsonBetween

LEMMA CoreReads ==
  ASSUME NEW T \in Seq(Tokens), NEW m \in 0..Len(T), NEW r \in 0..m,
         NEW rest, NEW taken \in Seq(Seq(Tokens)), CoreHasRead(T, r, rest, taken)
  PROVE  LET s == Push(rest \o SubSeq(T, r + 1, m))
         IN /\ taken \o s.found \in Seq(Seq(Tokens))
            /\ CoreHasRead(T, m, s.rest, taken \o s.found)
<1>1. Len(T) \in Nat /\ m \in Nat /\ r \in Nat
  BY LenProperties
<1>2. PICK p \in 0..r : /\ Boundary(T, p) /\ rest = SubSeq(T, p + 1, r)
                        /\ AreLines(taken, T, EndsBetween(T, 0, p))
  BY DEF CoreHasRead
<1>3. /\ p + 1 \in 1..(Len(T) + 1) /\ r \in ((p + 1) - 1)..Len(T) /\ m \in r..Len(T)
      /\ p \in 0..m /\ p \in Nat /\ 0 <= p /\ 0 \in Nat
  BY <1>1
<1>4. rest \o SubSeq(T, r + 1, m) = SubSeq(T, p + 1, m)
  BY <1>2, <1>3, ConcatAdjacentSubSeq
<1> DEFINE s == Push(SubSeq(T, p + 1, m))
<1>5. PICK q \in p..m : HasRead(s, T, m, p, q) /\ Clear(T, q, m)
  BY <1>2, <1>3, PushReads
<1> HIDE DEF s
<1>6. /\ Boundary(T, q) /\ s.rest = SubSeq(T, q + 1, m) /\ s.found \in Seq(Seq(Tokens))
      /\ AreLines(s.found, T, EndsBetween(T, p, q))
  BY <1>5 DEF HasRead
<1>7. q \in Nat /\ p <= q /\ q \in 0..m
  BY <1>1, <1>3
<1> DEFINE E == EndsBetween(T, 0, p)
           F == EndsBetween(T, p, q)
           found == s.found
<1>8. /\ EndsBetween(T, 0, q) = E \union F
      /\ E \subseteq (0 + 1)..p /\ F \subseteq (p + 1)..q
  <2>1. EndsBetween(T, 0, q) = EndsBetween(T, 0, p) \union EndsBetween(T, p, q)
    BY <1>3, <1>7, EndsAddUp
  <2>2. E \subseteq (0 + 1)..p /\ F \subseteq (p + 1)..q
    BY DEF EndsBetween
  <2> QED
    BY <2>1, <2>2
<1>9. AreLines(taken, T, E) /\ AreLines(found, T, F) /\ found \in Seq(Seq(Tokens))
  BY <1>2, <1>6
<1> HIDE DEF E, F, found
<1>10. AreLines(taken \o found, T, E \union F) /\ taken \o found \in Seq(Seq(Tokens))
  <2>1. AreLines(taken \o found, T, E \union F)
    BY <1>3, <1>7, <1>8, <1>9, LinesConcat
  <2>2. taken \o found \in Seq(Seq(Tokens))
    BY <1>9, ConcatProperties
  <2> QED
    BY <2>1, <2>2
<1>11. CoreHasRead(T, m, s.rest, taken \o found)
  BY <1>5, <1>6, <1>7, <1>8, <1>10 DEF CoreHasRead
<1> QED
  BY <1>4, <1>10, <1>11 DEF s, found

(* What a push adds, at q, to what was accounted for at p.                 *)
LEMMA MoreIsAccounted ==
  ASSUME NEW T, NEW p \in Nat, NEW q \in Nat, p <= q,
         NEW taken \in Seq(Seq(Tokens)), NEW dropped \in Seq(Seq(Tokens)),
         NEW found \in Seq(Seq(Tokens)), AreLines(found, T, JsonBetween(T, p, q)),
         NEW gone, Accounted(T, p, taken, dropped, gone)
  PROVE  /\ Accounted(T, q, taken \o found, dropped, gone)
         /\ q \in EndsBetween(T, p, q) \ JsonBetween(T, p, q) =>
              Accounted(T, q, taken, dropped \o found, gone \union JsonBetween(T, p, q))
<1> DEFINE E == JsonBetween(T, 0, p)
           F == JsonBetween(T, p, q)
           bad == EndsBetween(T, 0, p) \ E
           worse == EndsBetween(T, 0, q) \ JsonBetween(T, 0, q)
<1>1. JsonBetween(T, 0, q) = E \union F /\ bad \subseteq worse
  <2>1. 0 \in Nat /\ 0 <= p
    OBVIOUS
  <2>2. \A i : /\ i \in EndsBetween(T, 0, q) <=>
                    i \in EndsBetween(T, 0, p) \/ i \in EndsBetween(T, p, q)
               /\ i \in JsonBetween(T, 0, q) <=> i \in E \/ i \in F
    BY <2>1, EndsAddUp
  <2>3. \A i \in bad : ~IsJson(LineEndingAt(T, i))
    BY DEF JsonBetween
  <2>4. \A i \in JsonBetween(T, 0, q) : IsJson(LineEndingAt(T, i))
    BY DEF JsonBetween
  <2> QED
    BY <2>2, <2>3, <2>4
<1>2. E \subseteq (0 + 1)..p /\ F \subseteq (p + 1)..q
  BY DEF JsonBetween, EndsBetween
<1>3. ASSUME q \in EndsBetween(T, p, q) \ F
      PROVE  q \in worse /\ \A i \in F : i < q
  <2>1. \A i \in F : i < q
    BY <1>2, <1>3
  <2>2. q \in EndsBetween(T, 0, q)
    BY <1>3 DEF EndsBetween
  <2>3. q \notin JsonBetween(T, 0, q)
    BY <1>3 DEF JsonBetween
  <2> QED
    BY <2>1, <2>2, <2>3
<1>4. /\ gone \subseteq E /\ AreLines(taken, T, E \ gone) /\ AreLines(dropped, T, gone)
      /\ \A i \in gone : \E j \in bad : i < j
  BY DEF Accounted
<1>5. AreLines(found, T, F)
  OBVIOUS
<1> HIDE DEF E, F, bad
<1>6. E \intersect F = {}
  BY <1>2
<1>7. 0 \in Nat /\ E \ gone \subseteq (0 + 1)..p /\ gone \subseteq (0 + 1)..p
  BY <1>2, <1>4
<1>8. /\ AreLines(taken \o found, T, (E \ gone) \union F)
      /\ AreLines(dropped \o found, T, gone \union F)
  <2> DEFINE these == E \ gone
  <2>1. these \subseteq (0 + 1)..p /\ AreLines(taken, T, these)
    BY <1>4, <1>7
  <2> HIDE DEF these
  <2>2. AreLines(taken \o found, T, these \union F)
    BY <1>2, <1>5, <1>7, <2>1, LinesConcat
  <2>3. AreLines(dropped \o found, T, gone \union F)
    BY <1>2, <1>4, <1>5, <1>7, LinesConcat
  <2> QED
    BY <2>2, <2>3 DEF these
<1>9. /\ (E \ gone) \union F = (E \union F) \ gone
      /\ (E \union F) \ (gone \union F) = E \ gone
      /\ gone \subseteq E \union F /\ gone \union F \subseteq E \union F
  BY <1>4, <1>6
<1>10. Accounted(T, q, taken \o found, dropped, gone)
  <2>1. \A i \in gone : \E j \in worse : i < j
    BY <1>1, <1>4
  <2> QED
    BY <1>1, <1>4, <1>8, <1>9, <2>1 DEF Accounted
<1>11. ASSUME q \in EndsBetween(T, p, q) \ F
       PROVE  Accounted(T, q, taken, dropped \o found, gone \union F)
  <2>1. \A i \in gone \union F : \E j \in worse : i < j
    BY <1>1, <1>3, <1>4, <1>11
  <2> QED
    BY <1>1, <1>4, <1>8, <1>9, <2>1 DEF Accounted
<1> QED
  BY <1>10, <1>11 DEF F

LEMMA ClientReads ==
  ASSUME NEW T \in Seq(Tokens), NEW m \in 0..Len(T), NEW r \in 0..m,
         NEW rest, NEW taken \in Seq(Seq(Tokens)), NEW dropped \in Seq(Seq(Tokens)),
         NEW threw, ClientHasRead(T, r, rest, taken, dropped, threw)
  PROVE  LET s == PushParsing(rest \o SubSeq(T, r + 1, m))
         IN /\ s.threw \in BOOLEAN
            /\ taken \o s.found \in Seq(Seq(Tokens)) /\ dropped \o s.found \in Seq(Seq(Tokens))
            /\ s.threw => ClientHasRead(T, m, s.rest, taken, dropped \o s.found, TRUE)
            /\ ~s.threw => ClientHasRead(T, m, s.rest, taken \o s.found, dropped, FALSE)
<1>1. Len(T) \in Nat /\ m \in Nat /\ r \in Nat
  BY LenProperties
<1>2. PICK p \in 0..r : /\ Boundary(T, p) /\ rest = SubSeq(T, p + 1, r)
                        /\ \E gone : Accounted(T, p, taken, dropped, gone)
  BY DEF ClientHasRead
<1>3. PICK gone : Accounted(T, p, taken, dropped, gone)
  BY <1>2
<1>4. /\ p + 1 \in 1..(Len(T) + 1) /\ r \in ((p + 1) - 1)..Len(T) /\ m \in r..Len(T)
      /\ p \in 0..m /\ p \in Nat /\ 0 <= p /\ 0 \in Nat
  BY <1>1
<1>5. rest \o SubSeq(T, r + 1, m) = SubSeq(T, p + 1, m)
  BY <1>2, <1>4, ConcatAdjacentSubSeq
<1> DEFINE s == PushParsing(SubSeq(T, p + 1, m))
           found == s.found
<1>6. PICK q \in p..m : HasParsed(s, T, m, p, q) /\ (s.threw \/ Clear(T, q, m))
  BY <1>2, <1>4, PushParsingReads
<1> HIDE DEF s
<1>7. /\ Boundary(T, q) /\ s.rest = SubSeq(T, q + 1, m)
      /\ found \in Seq(Seq(Tokens)) /\ AreLines(found, T, JsonBetween(T, p, q))
      /\ s.threw \in BOOLEAN
      /\ s.threw => q \in EndsBetween(T, p, q) \ JsonBetween(T, p, q)
  BY <1>6 DEF HasParsed
<1>8. q \in Nat /\ p <= q /\ q \in 0..m
  BY <1>1, <1>4
<1> HIDE DEF found
<1>9. taken \o found \in Seq(Seq(Tokens)) /\ dropped \o found \in Seq(Seq(Tokens))
  BY <1>7, ConcatProperties
<1>10. /\ Accounted(T, q, taken \o found, dropped, gone)
       /\ s.threw => Accounted(T, q, taken, dropped \o found, gone \union JsonBetween(T, p, q))
  BY <1>3, <1>4, <1>7, <1>8, MoreIsAccounted
<1>11. ASSUME s.threw PROVE ClientHasRead(T, m, s.rest, taken, dropped \o found, TRUE)
  <2>1. JsonBetween(T, 0, q) # EndsBetween(T, 0, q)
    <3>1. q \in EndsBetween(T, p, q) /\ q \notin JsonBetween(T, p, q)
      BY <1>7, <1>11
    <3>2. q \in EndsBetween(T, 0, q)
      BY <1>4, <1>8, <3>1, EndsAddUp
    <3>3. q \notin JsonBetween(T, 0, q)
      BY <3>1 DEF JsonBetween
    <3> QED
      BY <3>2, <3>3
  <2> QED
    BY <1>7, <1>8, <1>10, <1>11, <2>1 DEF ClientHasRead
<1>12. ASSUME ~s.threw PROVE ClientHasRead(T, m, s.rest, taken \o found, dropped, FALSE)
  <2>1. Clear(T, q, m)
    BY <1>6, <1>12
  <2> QED
    BY <1>7, <1>8, <1>10, <2>1 DEF ClientHasRead
<1> QED
  BY <1>5, <1>7, <1>9, <1>11, <1>12 DEF s, found

(* What has been written later changes nothing of what is there.           *)
LEMMA WrittenLater ==
  ASSUME NEW T \in Seq(Tokens), NEW token \in Tokens
  PROVE  LET later == Append(T, token)
         IN /\ \A p \in 0..Len(T) : Boundary(later, p) <=> Boundary(T, p)
            /\ \A p, q \in 0..Len(T) : Clear(later, p, q) <=> Clear(T, p, q)
            /\ \A q \in 0..Len(T) : \A p \in 0..q : SubSeq(later, p + 1, q) = SubSeq(T, p + 1, q)
            /\ \A i \in 1..Len(T) : LineEndingAt(later, i) = LineEndingAt(T, i)
<1> DEFINE later == Append(T, token)
           n == Len(T)
<1>1. n \in Nat
  BY LenProperties
<1>2. later \in Seq(Tokens) /\ Len(later) = n + 1 /\ \A i \in 1..n : later[i] = T[i]
  BY AppendProperties
<1> HIDE DEF later
<1>3. \A p \in 0..n : Boundary(later, p) <=> Boundary(T, p)
  <2>1. \A p \in 0..n : p # 0 => p \in 1..n
    BY <1>1
  <2> QED
    BY <1>2, <2>1 DEF Boundary
<1>4. \A p, q \in 0..n : Clear(later, p, q) <=> Clear(T, p, q)
  <2>1. \A p, q \in 0..n : \A j \in (p + 1)..q : j \in 1..n
    BY <1>1
  <2> HIDE DEF n
  <2> QED
    BY <1>2, <2>1 DEF Clear
<1>5. ASSUME NEW q \in 0..n, NEW p \in 0..q PROVE SubSeq(later, p + 1, q) = SubSeq(T, p + 1, q)
  <2>1. q \in 0..Len(later) /\ q \in 0..Len(T)
    BY <1>1, <1>2
  <2>2. /\ SubSeq(T, p + 1, q) \in Seq(Tokens) /\ Len(SubSeq(T, p + 1, q)) = q - p
        /\ \A i \in 1..(q - p) : SubSeq(T, p + 1, q)[i] = T[p + i]
    BY <2>1, SliceIs
  <2>3. /\ SubSeq(later, p + 1, q) \in Seq(Tokens) /\ Len(SubSeq(later, p + 1, q)) = q - p
        /\ \A i \in 1..(q - p) : SubSeq(later, p + 1, q)[i] = later[p + i]
    BY <1>2, <2>1, SliceIs
  <2>4. \A i \in 1..(q - p) : p + i \in 1..n
    BY <1>1
  <2>5. \A i \in 1..(q - p) : SubSeq(later, p + 1, q)[i] = SubSeq(T, p + 1, q)[i]
    BY <1>2, <2>2, <2>3, <2>4
  <2> QED
    BY <2>2, <2>3, <2>5, SeqEqual
<1>6. ASSUME NEW i \in 1..n PROVE LineEndingAt(later, i) = LineEndingAt(T, i)
  <2>1. i - 1 \in Nat /\ i \in Nat \ {0} /\ i - 1 \in 0..n
    BY <1>1
  <2>2. PICK p \in 0..(i - 1) : Boundary(T, p) /\ Clear(T, p, i - 1)
    BY <2>1, LineBegins
  <2>3. p \in 0..n
    BY <1>1, <2>1
  <2>4. Boundary(later, p) /\ Clear(later, p, i - 1)
    BY <1>3, <1>4, <2>1, <2>2, <2>3
  <2>5. LineEndingAt(T, i) = Stripped(SubSeq(T, p + 1, i - 1))
    BY <2>1, <2>2, LineEnding
  <2>6. LineEndingAt(later, i) = Stripped(SubSeq(later, p + 1, i - 1))
    BY <2>1, <2>4, LineEnding
  <2> QED
    BY <1>5, <2>1, <2>5, <2>6
<1> QED
  BY <1>3, <1>4, <1>5, <1>6 DEF later

(* What was read of a stream was read of the stream with one token more.   *)
LEMMA ReadBefore ==
  ASSUME NEW T \in Seq(Tokens), NEW token \in Tokens, NEW r \in 0..Len(T),
         NEW rest, NEW taken
  PROVE  LET later == Append(T, token)
         IN /\ CoreHasRead(T, r, rest, taken) => CoreHasRead(later, r, rest, taken)
            /\ \A dropped, threw :
                 ClientHasRead(T, r, rest, taken, dropped, threw) =>
                   ClientHasRead(later, r, rest, taken, dropped, threw)
<1> DEFINE later == Append(T, token)
<1>1. Len(T) \in Nat /\ \A i \in 1..Len(T) : later[i] = T[i]
  BY LenProperties, AppendProperties
<1>2. /\ \A p \in 0..Len(T) : Boundary(later, p) <=> Boundary(T, p)
      /\ \A p, q \in 0..Len(T) : Clear(later, p, q) <=> Clear(T, p, q)
      /\ \A q \in 0..Len(T) : \A p \in 0..q : SubSeq(later, p + 1, q) = SubSeq(T, p + 1, q)
      /\ \A i \in 1..Len(T) : LineEndingAt(later, i) = LineEndingAt(T, i)
  BY WrittenLater
<1> HIDE DEF later
<1>3. ASSUME NEW p \in 0..r
      PROVE  /\ p \in 0..Len(T)
             /\ EndsBetween(later, 0, p) = EndsBetween(T, 0, p)
             /\ JsonBetween(later, 0, p) = JsonBetween(T, 0, p)
  <2>1. p \in 0..Len(T) /\ \A i \in (0 + 1)..p : i \in 1..Len(T)
    BY <1>1
  <2>2. EndsBetween(later, 0, p) = EndsBetween(T, 0, p)
    BY <1>1, <1>2, <2>1 DEF EndsBetween
  <2>3. \A i \in EndsBetween(T, 0, p) : LineEndingAt(later, i) = LineEndingAt(T, i)
    BY <1>2, <2>1 DEF EndsBetween
  <2> QED
    BY <2>1, <2>2, <2>3 DEF JsonBetween
<1>4. ASSUME NEW p \in 0..r, NEW ends, ends \subseteq EndsBetween(T, 0, p), NEW some
      PROVE  AreLines(some, later, ends) <=> AreLines(some, T, ends)
  <2>1. \A i \in (0 + 1)..p : i \in 1..Len(T)
    BY <1>1
  <2>2. \A i \in ends : LineEndingAt(later, i) = LineEndingAt(T, i)
    BY <1>2, <1>4, <2>1 DEF EndsBetween
  <2> QED
    BY <2>2 DEF AreLines
<1>5. ASSUME CoreHasRead(T, r, rest, taken) PROVE CoreHasRead(later, r, rest, taken)
  BY <1>2, <1>3, <1>4, <1>5 DEF CoreHasRead
<1>6. ASSUME NEW dropped, NEW threw, ClientHasRead(T, r, rest, taken, dropped, threw)
      PROVE  ClientHasRead(later, r, rest, taken, dropped, threw)
  <2>1. PICK p \in 0..r :
          /\ Boundary(T, p) /\ (threw \/ Clear(T, p, r))
          /\ rest = SubSeq(T, p + 1, r)
          /\ JsonBetween(T, 0, p) = EndsBetween(T, 0, p) => ~threw
          /\ \E gone : Accounted(T, p, taken, dropped, gone)
    BY <1>6 DEF ClientHasRead
  <2>2. PICK gone : Accounted(T, p, taken, dropped, gone)
    BY <2>1
  <2>3. /\ gone \subseteq EndsBetween(T, 0, p)
        /\ JsonBetween(T, 0, p) \ gone \subseteq EndsBetween(T, 0, p)
    BY <2>2 DEF Accounted, JsonBetween
  <2>4. Accounted(later, p, taken, dropped, gone)
    <3>1. /\ AreLines(taken, later, JsonBetween(T, 0, p) \ gone)
          /\ AreLines(dropped, later, gone)
      BY <1>4, <2>2, <2>3 DEF Accounted
    <3> QED
      BY <1>3, <2>2, <3>1 DEF Accounted
  <2> QED
    BY <1>2, <1>3, <2>1, <2>4 DEF ClientHasRead
<1> QED
  BY <1>5, <1>6 DEF later

FramingInv ==
  /\ stream \in Seq(Tokens) /\ received \in 0..Len(stream)
  /\ lines \in Seq(Seq(Tokens)) /\ handled \in Seq(Seq(Tokens)) /\ lost \in Seq(Seq(Tokens))
  /\ thrown \in BOOLEAN
  /\ CoreHasRead(stream, received, buffer, lines)
  /\ ClientHasRead(stream, received, kept, handled, lost, thrown)

LEMMA NothingIsRead ==
  /\ <<>> \in Seq(Tokens) /\ 0 \in 0..Len(<<>>) /\ <<>> \in Seq(Seq(Tokens))
  /\ CoreHasRead(<<>>, 0, <<>>, <<>>)
  /\ ClientHasRead(<<>>, 0, <<>>, <<>>, <<>>, FALSE)
<1>1. <<>> \in Seq(Tokens) /\ 0 \in 0..Len(<<>>)
  BY EmptySeq
<1>2. EndsBetween(<<>>, 0, 0) = {} /\ JsonBetween(<<>>, 0, 0) = {}
  BY DEF EndsBetween, JsonBetween
<1>3. Boundary(<<>>, 0) /\ Clear(<<>>, 0, 0) /\ 0 \in 0..0
  BY DEF Boundary, Clear
<1>4. SubSeq(<<>>, 0 + 1, 0) = <<>>
  BY SubSeqEmpty
<1>6. AreLines(<<>>, <<>>, {}) /\ <<>> \in Seq(Seq(Tokens))
  BY NoLines
<1>5. Accounted(<<>>, 0, <<>>, <<>>, {})
  BY <1>2, <1>6 DEF Accounted
<1>7. CoreHasRead(<<>>, 0, <<>>, <<>>)
  BY <1>2, <1>3, <1>4, <1>6 DEF CoreHasRead
<1>8. ClientHasRead(<<>>, 0, <<>>, <<>>, <<>>, FALSE)
  BY <1>2, <1>3, <1>4, <1>5, <1>6 DEF ClientHasRead
<1> QED
  BY <1>1, <1>6, <1>7, <1>8

LEMMA DeliversKeeps ==
  ASSUME FramingInv, NEW n \in 1..MaxLength, Delivers(n)
  PROVE  FramingInv'
<1> DEFINE m == received + n
           chunk == SubSeq(stream, received + 1, m)
           s == PushParsing(kept \o chunk)
           t == Push(buffer \o chunk)
<1>1. stream \in Seq(Tokens) /\ m \in 0..Len(stream) /\ received \in 0..m
  BY LenProperties DEF FramingInv, Delivers
<1>2. stream' = stream /\ received' = m
  BY DEF Delivers
<1>3. lines' = lines \o t.found /\ buffer' = t.rest
  BY DEF Delivers, CoreData
<1>4. /\ handled' = IF s.threw THEN handled ELSE handled \o s.found
      /\ lost' = IF s.threw THEN lost \o s.found ELSE lost
      /\ kept' = s.rest /\ thrown' = s.threw
  BY DEF Delivers, ClientData
<1> HIDE DEF m
<1>5. lines \o t.found \in Seq(Seq(Tokens)) /\ CoreHasRead(stream, m, t.rest, lines \o t.found)
  BY <1>1, CoreReads DEF FramingInv
<1>6. /\ s.threw \in BOOLEAN
      /\ handled \o s.found \in Seq(Seq(Tokens)) /\ lost \o s.found \in Seq(Seq(Tokens))
      /\ s.threw => ClientHasRead(stream, m, s.rest, handled, lost \o s.found, TRUE)
      /\ ~s.threw => ClientHasRead(stream, m, s.rest, handled \o s.found, lost, FALSE)
  BY <1>1, ClientReads DEF FramingInv
<1> HIDE DEF s, t
<1>7. lines' \in Seq(Seq(Tokens)) /\ CoreHasRead(stream', received', buffer', lines')
  BY <1>2, <1>3, <1>5
<1>8. /\ handled' \in Seq(Seq(Tokens)) /\ lost' \in Seq(Seq(Tokens)) /\ thrown' \in BOOLEAN
      /\ ClientHasRead(stream', received', kept', handled', lost', thrown')
  <2>1. CASE s.threw
    BY <1>2, <1>4, <1>6, <2>1 DEF FramingInv
  <2>2. CASE ~s.threw
    BY <1>2, <1>4, <1>6, <2>2 DEF FramingInv
  <2> QED
    BY <2>1, <2>2
<1> QED
  BY <1>1, <1>2, <1>7, <1>8 DEF FramingInv

LEMMA NextFramingInv == FramingInv /\ [FramingNext]_framingVars => FramingInv'
<1> SUFFICES ASSUME FramingInv, [FramingNext]_framingVars PROVE FramingInv'
  OBVIOUS
<1>1. ASSUME NEW token \in Tokens, Writes(token) PROVE FramingInv'
  <2>1. stream' = Append(stream, token)
    BY <1>1 DEF Writes
  <2>2. UNCHANGED <<received, buffer, lines, kept, handled, lost, thrown>>
    BY <1>1 DEF Writes
  <2>3. stream' \in Seq(Tokens) /\ received \in 0..Len(stream')
    BY <2>1, AppendProperties, LenProperties DEF FramingInv
  <2>4. CoreHasRead(stream', received, buffer, lines)
    BY <2>1, ReadBefore DEF FramingInv
  <2>5. ClientHasRead(stream', received, kept, handled, lost, thrown)
    BY <2>1, ReadBefore DEF FramingInv
  <2> QED
    BY <2>2, <2>3, <2>4, <2>5 DEF FramingInv
<1>2. ASSUME NEW n \in 1..MaxLength, Delivers(n) PROVE FramingInv'
  BY <1>2, DeliversKeeps
<1>3. CASE Reconnects
  BY <1>3, NothingIsRead DEF Reconnects, FramingInv
<1>4. CASE UNCHANGED framingVars
  BY <1>4 DEF framingVars, FramingInv
<1> QED
  BY <1>1, <1>2, <1>3, <1>4 DEF FramingNext

LEMMA FramingInvHolds == FramingSpec => []FramingInv
<1>1. FramingInit => FramingInv
  BY NothingIsRead DEF FramingInit, FramingInv
<1> QED
  BY <1>1, NextFramingInv, PTL DEF FramingSpec

LEMMA AllAreRead ==
  ASSUME NEW T, NEW r \in Nat, NEW p \in 0..r, Clear(T, p, r)
  PROVE  Ends(T, r) = EndsBetween(T, 0, p) /\ JsonEnds(T, r) = JsonBetween(T, 0, p)
<1>1. \A i \in 1..r : i \in (0 + 1)..p \/ i \in (p + 1)..r
  OBVIOUS
<1>2. \A i \in (0 + 1)..p : i \in 1..r
  OBVIOUS
<1>3. Ends(T, r) = EndsBetween(T, 0, p)
  BY <1>1, <1>2 DEF Ends, EndsBetween, Clear
<1> QED
  BY <1>3 DEF JsonEnds, JsonBetween

(* However many chunks a stream is cut into, and wherever: the core has    *)
(* read exactly the lines that are complete, in their order.               *)
THEOREM EveryLineIsRead == FramingSpec => []CoreReadsEveryLine
<1>1. FramingInv => CoreReadsEveryLine
  <2> SUFFICES ASSUME FramingInv PROVE CoreReadsEveryLine
    OBVIOUS
  <2>1. stream \in Seq(Tokens) /\ received \in Nat
    BY LenProperties DEF FramingInv
  <2>2. PICK p \in 0..received : /\ Clear(stream, p, received)
                                 /\ AreLines(lines, stream, EndsBetween(stream, 0, p))
    BY DEF FramingInv, CoreHasRead
  <2>3. Ends(stream, received) = EndsBetween(stream, 0, p)
    BY <2>1, <2>2, AllAreRead
  <2> QED
    BY <2>2, <2>3 DEF CoreReadsEveryLine
<1> QED
  BY <1>1, FramingInvHolds, PTL

(* While every line was JSON, the client has handled each message that is  *)
(* complete, and lost none.                                                *)
THEOREM EveryMessageIsRead == FramingSpec => []ClientReadsEveryMessage
<1>1. FramingInv => ClientReadsEveryMessage
  <2> SUFFICES ASSUME FramingInv, JsonEnds(stream, received) = Ends(stream, received)
               PROVE  AreLines(handled, stream, Ends(stream, received)) /\ lost = <<>>
    BY DEF ClientReadsEveryMessage
  <2>1. stream \in Seq(Tokens) /\ received \in Nat
    BY LenProperties DEF FramingInv
  <2>2. PICK p \in 0..received :
          /\ thrown \/ Clear(stream, p, received)
          /\ JsonBetween(stream, 0, p) = EndsBetween(stream, 0, p) => ~thrown
          /\ \E gone : Accounted(stream, p, handled, lost, gone)
    BY DEF FramingInv, ClientHasRead
  <2>3. JsonBetween(stream, 0, p) = EndsBetween(stream, 0, p)
    <3>1. \A i \in (0 + 1)..p : i \in 1..received
      BY <2>1
    <3>2. EndsBetween(stream, 0, p) \subseteq JsonEnds(stream, received)
      BY <3>1 DEF EndsBetween, Ends
    <3> QED
      BY <3>2 DEF JsonEnds, JsonBetween
  <2>4. Ends(stream, received) = EndsBetween(stream, 0, p)
    BY <2>1, <2>2, <2>3, AllAreRead
  <2>5. PICK gone : Accounted(stream, p, handled, lost, gone)
    BY <2>2
  <2>6. gone = {} /\ AreLines(lost, stream, gone)
        /\ AreLines(handled, stream, JsonBetween(stream, 0, p) \ gone)
    BY <2>3, <2>5 DEF Accounted
  <2>7. AreLines(handled, stream, EndsBetween(stream, 0, p))
    <3>1. EndsBetween(stream, 0, p) \ gone = EndsBetween(stream, 0, p)
      BY <2>6
    <3> QED
      BY <2>3, <2>6, <3>1
  <2>8. lost = <<>>
    BY <2>6, FS_EmptySet, EmptySeq DEF AreLines, FramingInv
  <2> QED
    BY <2>4, <2>7, <2>8
<1> QED
  BY <1>1, FramingInvHolds, PTL

(* Whatever lines were no JSON: up to where its buffer begins the client   *)
(* has handled each message of the stream once and in order, but for those *)
(* lost before a line that is none, and the buffer has what comes after, a *)
(* complete line only if the last push threw.                              *)
THEOREM NoneTwice == FramingSpec => []NothingTwice
<1>1. FramingInv => NothingTwice
  <2> SUFFICES ASSUME FramingInv PROVE NothingTwice
    OBVIOUS
  <2>1. stream \in Seq(Tokens) /\ received \in 0..Len(stream) /\ received \in Nat
    BY LenProperties DEF FramingInv
  <2>2. PICK p \in 0..received :
          /\ Boundary(stream, p) /\ (thrown \/ Clear(stream, p, received))
          /\ kept = SubSeq(stream, p + 1, received)
          /\ \E gone : Accounted(stream, p, handled, lost, gone)
    BY DEF FramingInv, ClientHasRead
  <2>3. PICK gone : Accounted(stream, p, handled, lost, gone)
    BY <2>2
  <2>4. /\ Ends(stream, p) = EndsBetween(stream, 0, p)
        /\ JsonEnds(stream, p) = JsonBetween(stream, 0, p)
    <3>1. p \in Nat /\ p \in 0..p /\ Clear(stream, p, p)
      BY <2>1 DEF Clear
    <3> QED
      BY <3>1, AllAreRead
  <2>5. HandledOrLost(stream, p)
    BY <2>3, <2>4 DEF HandledOrLost, Accounted
  <2>6. ASSUME ~thrown, NEW k \in DOMAIN kept PROVE kept[k] # "LF"
    <3>1. /\ kept \in Seq(Tokens) /\ Len(kept) = received - p
          /\ \A i \in 1..(received - p) : kept[i] = stream[p + i]
      BY <2>1, <2>2, SliceIs
    <3>2. k \in 1..(received - p)
      BY <2>6, <3>1, LenProperties
    <3>3. p + k \in (p + 1)..received
      BY <2>1, <3>2
    <3> QED
      BY <2>2, <2>6, <3>1, <3>2, <3>3 DEF Clear
  <2> QED
    BY <2>2, <2>5, <2>6 DEF NothingTwice, Boundary
<1> QED
  BY <1>1, FramingInvHolds, PTL

-----------------------------------------------------------------------------
(* The text between two commas of a string, and what trim() leaves of it.  *)

LEMMA Distinct == Comma # Space /\ Comma # Star
  BY Zenon DEF Comma, Space, Star

(* The greatest number of a set of numbers up to n exists.                 *)
LEMMA GreatestExists ==
  ASSUME NEW n \in Nat, NEW S, S \subseteq 0..n, S # {}
  PROVE  \E d \in S : \A e \in S : e <= d
<1> DEFINE T == {m \in 0..n : n - m \in S}
<1>1. T \subseteq Nat /\ T # {}
  <2>1. PICK e \in S : TRUE
    OBVIOUS
  <2>2. n - e \in 0..n /\ n - (n - e) = e
    BY <2>1
  <2>3. n - e \in T
    BY <2>1, <2>2
  <2> QED
    BY <2>3
<1>2. PICK d \in T : \A e \in T : d <= e
  BY <1>1, LeastExists
<1>3. n - d \in S /\ d \in 0..n
  OBVIOUS
<1>4. ASSUME NEW e \in S PROVE e <= n - d
  <2>1. n - e \in 0..n /\ n - (n - e) = e /\ e \in 0..n
    OBVIOUS
  <2>2. n - e \in T
    BY <2>1
  <2>3. d <= n - e
    BY <1>2, <2>2
  <2> HIDE DEF T
  <2> QED
    BY <1>3, <2>1, <2>3
<1> HIDE DEF T
<1> QED
  BY <1>3, <1>4

(* The text between two positions of a string: what comes after the first  *)
(* and before the second.                                                  *)
Part(s, a, b) == SubSeq(s, a + 1, b - 1)

(* A part between two commas, or a comma and an end.                       *)
IsPart(s, a, b) ==
  /\ a \in 0..Len(s) /\ b \in (a + 1)..(Len(s) + 1)
  /\ a = 0 \/ s[a] = Comma
  /\ b = Len(s) + 1 \/ s[b] = Comma
  /\ \A k \in (a + 1)..(b - 1) : s[k] # Comma

HasPart(s, x) == \E a, b \in Nat : IsPart(s, a, b) /\ x = Part(s, a, b)

LEMMA PartIs ==
  ASSUME NEW A, NEW s \in Seq(A), NEW a \in 0..Len(s), NEW b \in (a + 1)..(Len(s) + 1)
  PROVE  /\ Part(s, a, b) \in Seq(A)
         /\ Len(Part(s, a, b)) = (b - a) - 1
         /\ \A i \in 1..((b - a) - 1) : Part(s, a, b)[i] = s[a + i]
<1>1. Len(s) \in Nat
  BY LenProperties
<1>2. b - 1 \in 0..Len(s) /\ a \in 0..(b - 1) /\ (b - 1) - a = (b - a) - 1
  BY <1>1
<1>3. ASSUME NEW r \in 0..Len(s), a \in 0..r
      PROVE  /\ SubSeq(s, a + 1, r) \in Seq(A)
             /\ Len(SubSeq(s, a + 1, r)) = r - a
             /\ \A i \in 1..(r - a) : SubSeq(s, a + 1, r)[i] = s[a + i]
  BY <1>3, SliceIs
<1> DEFINE r == b - 1
<1>4. /\ SubSeq(s, a + 1, r) \in Seq(A)
      /\ Len(SubSeq(s, a + 1, r)) = r - a
      /\ \A i \in 1..(r - a) : SubSeq(s, a + 1, r)[i] = s[a + i]
  <2> r \in 0..Len(s) /\ a \in 0..r
    BY <1>2
  <2> HIDE DEF r
  <2> QED
    BY <1>3
<1>5. Part(s, a, b) = SubSeq(s, a + 1, r) /\ r - a = (b - a) - 1
  BY <1>2 DEF Part
<1> HIDE DEF r
<1> QED
  BY <1>4, <1>5

(* What a string is without the spaces at its ends.                        *)
IsInked(x, i, j) ==
  /\ i \in 1..Len(x) /\ j \in i..Len(x)
  /\ x[i] # Space /\ x[j] # Space
  /\ \A k \in 1..(i - 1) : x[k] = Space
  /\ \A k \in (j + 1)..Len(x) : x[k] = Space

LEMMA TrimOf ==
  ASSUME NEW x \in Seq(Characters), NEW i \in Nat, NEW j \in Nat, IsInked(x, i, j)
  PROVE  Trim(x) = SubSeq(x, i, j)
<1> DEFINE inked == {k \in 1..Len(x) : x[k] # Space}
<1>1. DOMAIN x = 1..Len(x) /\ Len(x) \in Nat
  BY LenProperties
<1>2. i \in inked /\ j \in inked
  BY <1>1 DEF IsInked
<1>3. \A k \in inked : i <= k /\ k <= j
  <2> SUFFICES ASSUME NEW k \in 1..Len(x), x[k] # Space
               PROVE  i <= k /\ k <= j
    BY <1>1
  <2>1. k \notin 1..(i - 1) /\ k \notin (j + 1)..Len(x)
    BY DEF IsInked
  <2> QED
    BY <1>1, <2>1
<1>4. inked \subseteq Nat
  BY <1>1
<1> HIDE DEF inked
<1>5. Min(inked) = i
  <2>1. \A k \in inked : (\A m \in inked : k =< m) => k = i
    BY <1>2, <1>3, <1>4
  <2>2. \A m \in inked : i =< m
    BY <1>2, <1>3, <1>4
  <2> QED
    BY <1>2, <2>1, <2>2 DEF Min
<1>6. Max(inked) = j
  <2>1. \A k \in inked : (\A m \in inked : k >= m) => k = j
    BY <1>2, <1>3, <1>4
  <2>2. \A m \in inked : j >= m
    BY <1>2, <1>3, <1>4
  <2> QED
    BY <1>2, <2>1, <2>2 DEF Max
<1>7. inked # {}
  BY <1>2
<1> QED
  BY <1>1, <1>5, <1>6, <1>7 DEF Trim, inked

LEMMA TrimHas ==
  ASSUME NEW x \in Seq(Characters), Trim(x) # <<>>
  PROVE  \E i, j \in Nat : IsInked(x, i, j)
<1> DEFINE inked == {k \in 1..Len(x) : x[k] # Space}
<1>1. DOMAIN x = 1..Len(x) /\ Len(x) \in Nat
  BY LenProperties
<1>2. inked # {}
  BY <1>1 DEF Trim
<1>3. inked \subseteq Nat /\ inked \subseteq 0..Len(x)
  BY <1>1
<1>4. \A k \in inked : k \in 1..Len(x) /\ x[k] # Space
  BY <1>1
<1>5. \A k \in 1..Len(x) : k \notin inked => x[k] = Space
  BY <1>1
<1> HIDE DEF inked
<1>6. PICK i \in inked : \A k \in inked : i <= k
  BY <1>2, <1>3, LeastExists
<1>7. PICK j \in inked : \A k \in inked : k <= j
  BY <1>1, <1>2, <1>3, GreatestExists
<1>8. \A k \in 1..(i - 1) : k \in 1..Len(x) /\ k \notin inked
  BY <1>1, <1>4, <1>6
<1>9. \A k \in (j + 1)..Len(x) : k \in 1..Len(x) /\ k \notin inked
  BY <1>1, <1>4, <1>7
<1>10. i \in Nat /\ j \in Nat /\ i \in 1..Len(x) /\ j \in i..Len(x)
  BY <1>1, <1>4, <1>6
<1> QED
  BY <1>4, <1>5, <1>8, <1>9, <1>10 DEF IsInked

(* A name in an entry is what a part of it is without its spaces.          *)
LEMMA NamesAreParts ==
  ASSUME NEW s \in Seq(Characters), NEW name
  PROVE  name \in NamesIn(s) <=>
           \E a, b \in Nat : IsPart(s, a, b) /\ name = Trim(Part(s, a, b)) /\ name # <<>>
<1> DEFINE border(i) == i = 0 \/ i = Len(s) + 1 \/ s[i] = Comma
           onlySpaces(i, j) == \A k \in (i + 1)..(j - 1) : s[k] = Space
           before(i) == \E a \in 0..(i - 1) : border(a) /\ onlySpaces(a, i)
           behind(j) == \E b \in (j + 1)..(Len(s) + 1) : border(b) /\ onlySpaces(j, b)
           isName(i, j) == /\ i <= j /\ s[i] # Space /\ s[j] # Space
                           /\ \A k \in i..j : s[k] # Comma
                           /\ before(i) /\ behind(j)
<1>1. Len(s) \in Nat
  BY LenProperties
<1>2. name \in NamesIn(s) <=>
        \E i, j \in 1..Len(s) : isName(i, j) /\ name = SubSeq(s, i, j)
  <2> DEFINE bounds == {p \in (1..Len(s)) \X (1..Len(s)) : isName(p[1], p[2])}
  <2>1. NamesIn(s) = {SubSeq(s, p[1], p[2]) : p \in bounds}
    BY Zenon DEF NamesIn
  <2> HIDE DEF isName
  <2>2. \A p \in bounds : p[1] \in 1..Len(s) /\ p[2] \in 1..Len(s) /\ isName(p[1], p[2])
    OBVIOUS
  <2>3. \A i, j \in 1..Len(s) :
          isName(i, j) => /\ <<i, j>> \in bounds /\ <<i, j>>[1] = i /\ <<i, j>>[2] = j
    OBVIOUS
  <2> HIDE DEF bounds
  <2>4. name \in NamesIn(s) <=> \E p \in bounds : name = SubSeq(s, p[1], p[2])
    BY <2>1, Zenon
  <2>5. ASSUME NEW p \in bounds, name = SubSeq(s, p[1], p[2])
        PROVE  \E i, j \in 1..Len(s) : isName(i, j) /\ name = SubSeq(s, i, j)
    BY <2>2, <2>5
  <2>6. ASSUME NEW i \in 1..Len(s), NEW j \in 1..Len(s), isName(i, j), name = SubSeq(s, i, j)
        PROVE  \E p \in bounds : name = SubSeq(s, p[1], p[2])
    BY <2>3, <2>6
  <2> QED
    BY <2>4, <2>5, <2>6
<1>3. ASSUME NEW i \in 1..Len(s), NEW j \in 1..Len(s), isName(i, j)
      PROVE  \E a, b \in Nat : IsPart(s, a, b) /\ SubSeq(s, i, j) = Trim(Part(s, a, b))
                              /\ SubSeq(s, i, j) # <<>>
  <2>1. PICK a \in 0..(i - 1) : border(a) /\ onlySpaces(a, i)
    BY <1>3
  <2>2. PICK b \in (j + 1)..(Len(s) + 1) : border(b) /\ onlySpaces(j, b)
    BY <1>3
  <2>3. i <= j /\ s[i] # Space /\ s[j] # Space /\ \A k \in i..j : s[k] # Comma
    BY <1>3
  <2> HIDE DEF before, behind, isName
  <2>4. /\ a \in 0..Len(s) /\ b \in (a + 1)..(Len(s) + 1) /\ a \in Nat /\ b \in Nat
        /\ a # Len(s) + 1 /\ b # 0
    BY <1>1, <2>1, <2>2, <2>3
  <2>5. \A k \in (a + 1)..(b - 1) : s[k] # Comma
    <3> SUFFICES ASSUME NEW k \in (a + 1)..(b - 1) PROVE s[k] # Comma
      OBVIOUS
    <3>1. k \in (a + 1)..(i - 1) \/ k \in i..j \/ k \in (j + 1)..(b - 1)
      BY <1>1, <2>1, <2>2, <2>3
    <3> QED
      BY <2>1, <2>2, <2>3, <3>1, Distinct
  <2>6. IsPart(s, a, b)
    BY <2>1, <2>2, <2>4, <2>5 DEF IsPart
  <2> DEFINE x == Part(s, a, b)
  <2>7. /\ x \in Seq(Characters) /\ Len(x) = (b - a) - 1
        /\ \A k \in 1..((b - a) - 1) : x[k] = s[a + k]
    BY <2>4, PartIs
  <2>8. SubSeq(x, i - a, j - a) = SubSeq(s, i, j)
    <3>1. /\ (i - a) - 1 \in 0..((b - 1) - a) /\ j - a \in ((i - a) - 1)..((b - 1) - a)
          /\ b - 1 \in 0..Len(s) /\ a \in 0..(b - 1)
          /\ ((i - a) - 1) + 1 = i - a /\ a + ((i - a) - 1) + 1 = i /\ a + (j - a) = j
      BY <1>1, <2>1, <2>2, <2>3, <2>4
    <3> QED
      BY <3>1, SliceOfSlice DEF Part
  <2> HIDE DEF x
  <2>9. IsInked(x, i - a, j - a) /\ i - a \in Nat /\ j - a \in Nat
    <3>1. /\ i - a \in 1..((b - a) - 1) /\ j - a \in (i - a)..((b - a) - 1)
          /\ j - a \in 1..((b - a) - 1) /\ i - a \in Nat /\ j - a \in Nat
          /\ a + (i - a) = i /\ a + (j - a) = j
      BY <1>1, <2>1, <2>2, <2>3
    <3>2. i - a \in 1..Len(x) /\ j - a \in (i - a)..Len(x)
      BY <2>7, <3>1
    <3>3. x[i - a] # Space /\ x[j - a] # Space
      BY <2>3, <2>7, <3>1
    <3>4. ASSUME NEW k \in 1..((i - a) - 1) PROVE x[k] = Space
      <4>1. k \in 1..((b - a) - 1) /\ a + k \in (a + 1)..(i - 1)
        BY <1>1, <2>1, <2>2, <2>3, <2>4
      <4> QED
        BY <2>1, <2>7, <4>1
    <3>5. ASSUME NEW k \in ((j - a) + 1)..Len(x) PROVE x[k] = Space
      <4>1. k \in ((j - a) + 1)..((b - a) - 1)
        BY <2>7
      <4>2. k \in 1..((b - a) - 1) /\ a + k \in (j + 1)..(b - 1)
        BY <1>1, <2>1, <2>2, <2>3, <2>4, <4>1
      <4> QED
        BY <2>2, <2>7, <4>2
    <3> QED
      BY <3>1, <3>2, <3>3, <3>4, <3>5 DEF IsInked
  <2>10. Trim(x) = SubSeq(s, i, j)
    BY <2>7, <2>8, <2>9, TrimOf
  <2>11. SubSeq(s, i, j) # <<>>
    <3>1. i - 1 \in 0..j /\ j \in 0..Len(s) /\ (i - 1) + 1 = i /\ j - (i - 1) # 0
      BY <1>1, <2>3
    <3>2. Len(SubSeq(s, i, j)) = j - (i - 1)
      BY <3>1, SliceIs
    <3> QED
      BY <3>1, <3>2, EmptySeq
  <2> QED
    BY <2>4, <2>6, <2>10, <2>11 DEF x
<1>4. ASSUME NEW a \in Nat, NEW b \in Nat, IsPart(s, a, b), Trim(Part(s, a, b)) # <<>>
      PROVE  \E i, j \in 1..Len(s) : isName(i, j) /\ Trim(Part(s, a, b)) = SubSeq(s, i, j)
  <2> DEFINE x == Part(s, a, b)
  <2>1. a \in 0..Len(s) /\ b \in (a + 1)..(Len(s) + 1) /\ border(a) /\ border(b)
    BY <1>4 DEF IsPart
  <2>2. \A k \in (a + 1)..(b - 1) : s[k] # Comma
    BY <1>4 DEF IsPart
  <2>3. /\ x \in Seq(Characters) /\ Len(x) = (b - a) - 1
        /\ \A k \in 1..((b - a) - 1) : x[k] = s[a + k]
    BY <2>1, PartIs
  <2>4. PICK i \in Nat, j \in Nat : IsInked(x, i, j)
    BY <1>4, <2>3, TrimHas
  <2>5. Trim(x) = SubSeq(x, i, j)
    BY <2>3, <2>4, TrimOf
  <2>6. SubSeq(x, i, j) = SubSeq(s, a + i, a + j)
    <3>1. /\ i - 1 \in 0..((b - 1) - a) /\ j \in (i - 1)..((b - 1) - a)
          /\ b - 1 \in 0..Len(s) /\ a \in 0..(b - 1)
          /\ (i - 1) + 1 = i /\ a + (i - 1) + 1 = a + i
      BY <1>1, <2>1, <2>3, <2>4 DEF IsInked
    <3> QED
      BY <3>1, SliceOfSlice DEF Part
  <2> HIDE DEF x
  <2>7. /\ i \in 1..((b - a) - 1) /\ j \in i..((b - a) - 1) /\ x[i] # Space /\ x[j] # Space
        /\ \A k \in 1..(i - 1) : x[k] = Space
        /\ \A k \in (j + 1)..((b - a) - 1) : x[k] = Space
    BY <2>3, <2>4 DEF IsInked
  <2>8. /\ a + i \in 1..Len(s) /\ a + j \in 1..Len(s) /\ a + i <= a + j
        /\ j \in 1..((b - a) - 1)
        /\ a \in 0..((a + i) - 1) /\ b \in ((a + j) + 1)..(Len(s) + 1)
    BY <1>1, <2>1, <2>7
  <2>9. s[a + i] # Space /\ s[a + j] # Space
    BY <2>3, <2>7, <2>8
  <2>10. \A k \in (a + i)..(a + j) : s[k] # Comma
    <3>1. \A k \in (a + i)..(a + j) : k \in (a + 1)..(b - 1)
      BY <1>1, <2>1, <2>7
    <3> QED
      BY <2>2, <3>1
  <2>11. onlySpaces(a, a + i)
    <3> SUFFICES ASSUME NEW k \in (a + 1)..((a + i) - 1) PROVE s[k] = Space
      OBVIOUS
    <3>1. k - a \in 1..(i - 1) /\ k - a \in 1..((b - a) - 1) /\ a + (k - a) = k
      BY <1>1, <2>1, <2>7
    <3> QED
      BY <2>3, <2>7, <3>1
  <2>12. onlySpaces(a + j, b)
    <3> SUFFICES ASSUME NEW k \in ((a + j) + 1)..(b - 1) PROVE s[k] = Space
      OBVIOUS
    <3>1. k - a \in (j + 1)..((b - a) - 1) /\ k - a \in 1..((b - a) - 1) /\ a + (k - a) = k
      BY <1>1, <2>1, <2>7
    <3> QED
      BY <2>3, <2>7, <3>1
  <2> HIDE DEF border, onlySpaces
  <2>13. isName(a + i, a + j)
    BY <2>1, <2>8, <2>9, <2>10, <2>11, <2>12
  <2> HIDE DEF isName
  <2> QED
    BY <2>5, <2>6, <2>8, <2>13 DEF x
<1> HIDE DEF isName
<1> HIDE DEF before, behind, border, onlySpaces
<1>5. ASSUME name \in NamesIn(s)
      PROVE  \E a, b \in Nat : IsPart(s, a, b) /\ name = Trim(Part(s, a, b)) /\ name # <<>>
  <2>1. PICK i \in 1..Len(s), j \in 1..Len(s) : isName(i, j) /\ name = SubSeq(s, i, j)
    BY <1>2, <1>5
  <2> QED
    BY <1>3, <2>1
<1>6. ASSUME NEW a \in Nat, NEW b \in Nat, IsPart(s, a, b), name = Trim(Part(s, a, b)),
             name # <<>>
      PROVE  name \in NamesIn(s)
  BY <1>2, <1>4, <1>6
<1> QED
  BY <1>5, <1>6

-----------------------------------------------------------------------------
(* split(",").                                                             *)

(* Where the part that is growing began, when k characters are taken.      *)
IsStart(s, a, k) ==
  /\ a \in 0..k
  /\ a = 0 \/ s[a] = Comma
  /\ \A m \in (a + 1)..k : s[m] # Comma

LEMMA StartIsUnique ==
  ASSUME NEW s, NEW k \in Nat, NEW a, IsStart(s, a, k), NEW c, IsPart(s, c, k + 1),
         Len(s) \in Nat
  PROVE  c = a
<1>1. a \in Nat /\ c \in Nat /\ c <= k /\ a <= k
  BY DEF IsStart, IsPart
<1>2. CASE c < a
  <2>1. a # 0 /\ a \in (c + 1)..((k + 1) - 1)
    BY <1>1, <1>2
  <2> QED
    BY <2>1 DEF IsStart, IsPart
<1>3. CASE a < c
  <2>1. c # 0 /\ c \in (a + 1)..k
    BY <1>1, <1>3
  <2> QED
    BY <2>1 DEF IsStart, IsPart
<1> QED
  BY <1>1, <1>2, <1>3

(* The parts when k characters are taken.                                  *)
IsSplit(parts, s, a, k) ==
  /\ IsStart(s, a, k)
  /\ parts \in Seq(Seq(Characters)) /\ Len(parts) >= 1
  /\ parts[Len(parts)] = Part(s, a, k + 1)
  /\ \A n \in 1..(Len(parts) - 1) :
       \E c, d \in Nat : d <= k /\ IsPart(s, c, d) /\ parts[n] = Part(s, c, d)
  /\ \A c, d \in Nat :
       IsPart(s, c, d) /\ d <= k => \E n \in 1..(Len(parts) - 1) : parts[n] = Part(s, c, d)

LEMMA SplitTurns ==
  ASSUME NEW s \in Seq(Characters)
  PROVE  \E f : /\ Split(s) = f[Len(s)] /\ f[0] = << <<>> >>
                /\ \A k \in 1..Len(s) : f[k] = WithNext(f[k - 1], s[k])
<1> DEFINE first == << <<>> >>
           f == CHOOSE after :
                  after = [k \in 0..Len(s) |->
                             IF k = 0 THEN first ELSE WithNext(after[k - 1], s[k])]
<1>1. Len(s) \in Nat
  BY LenProperties
<1>2. Split(s) = f[Len(s)]
  BY DEF Split
<1>3. \E g : g = [k \in 0..Len(s) |-> IF k = 0 THEN first ELSE WithNext(g[k - 1], s[k])]
  <2>1. \E g : IsLoop(g, "split", s, first, Len(s))
    BY <1>1, LoopExists
  <2> QED
    BY <2>1 DEF IsLoop, TurnOf
<1>4. f = [k \in 0..Len(s) |-> IF k = 0 THEN first ELSE WithNext(f[k - 1], s[k])]
  BY <1>3
<1> HIDE DEF f, first
<1>5. f[0] = first /\ \A k \in 1..Len(s) : f[k] = WithNext(f[k - 1], s[k])
  BY <1>1, <1>4
<1> QED
  BY <1>2, <1>5 DEF first

(* At a comma a part is over and another begins, empty.                    *)
LEMMA CommaSplits ==
  ASSUME NEW s \in Seq(Characters), NEW k \in Nat, k + 1 <= Len(s), s[k + 1] = Comma,
         NEW parts, NEW a, IsSplit(parts, s, a, k)
  PROVE  IsSplit(WithNext(parts, s[k + 1]), s, k + 1, k + 1)
<1> DEFINE next == WithNext(parts, s[k + 1])
<1>1. Len(s) \in Nat /\ Len(parts) \in Nat \ {0} /\ parts \in Seq(Seq(Characters))
  BY LenProperties DEF IsSplit
<1>2. next = Append(parts, <<>>) /\ <<>> \in Seq(Characters)
  BY EmptySeq DEF WithNext
<1>3. /\ next \in Seq(Seq(Characters)) /\ Len(next) = Len(parts) + 1
      /\ \A n \in 1..Len(parts) : next[n] = parts[n]
      /\ next[Len(parts) + 1] = <<>>
  BY <1>1, <1>2, AppendProperties
<1> HIDE DEF next
<1>4. IsStart(s, k + 1, k + 1)
  BY DEF IsStart
<1>5. Part(s, k + 1, (k + 1) + 1) = <<>>
  <2>1. k + 1 \in 0..Len(s) /\ (k + 1) + 1 \in ((k + 1) + 1)..(Len(s) + 1)
        /\ (((k + 1) + 1) - (k + 1)) - 1 = 0
    BY <1>1
  <2>2. Part(s, k + 1, (k + 1) + 1) \in Seq(Characters) /\ Len(Part(s, k + 1, (k + 1) + 1)) = 0
    BY <2>1, PartIs
  <2> QED
    BY <2>2, EmptySeq
<1>6. IsPart(s, a, k + 1) /\ a \in Nat
  <2>1. IsStart(s, a, k)
    BY DEF IsSplit
  <2>2. a \in 0..Len(s) /\ k + 1 \in (a + 1)..(Len(s) + 1) /\ (k + 1) - 1 = k /\ a \in Nat
    BY <1>1, <2>1 DEF IsStart
  <2> QED
    BY <2>1, <2>2 DEF IsStart, IsPart
<1>7. ASSUME NEW n \in 1..(Len(next) - 1)
      PROVE  \E c, d \in Nat : d <= k + 1 /\ IsPart(s, c, d) /\ next[n] = Part(s, c, d)
  <2>1. n \in 1..Len(parts) /\ next[n] = parts[n]
    BY <1>1, <1>3
  <2>2. CASE n = Len(parts)
    <3>1. next[n] = Part(s, a, k + 1) /\ k + 1 \in Nat /\ k + 1 <= k + 1
      BY <2>1, <2>2 DEF IsSplit
    <3> QED
      BY <1>6, <3>1
  <2>3. CASE n # Len(parts)
    <3>1. n \in 1..(Len(parts) - 1)
      BY <1>1, <2>1, <2>3
    <3>2. PICK c \in Nat, d \in Nat : d <= k /\ IsPart(s, c, d) /\ parts[n] = Part(s, c, d)
      BY <3>1 DEF IsSplit
    <3>3. d <= k + 1
      BY <3>2
    <3> QED
      BY <2>1, <3>2, <3>3
  <2> QED
    BY <2>2, <2>3
<1>8. ASSUME NEW c \in Nat, NEW d \in Nat, IsPart(s, c, d), d <= k + 1
      PROVE  \E n \in 1..(Len(next) - 1) : next[n] = Part(s, c, d)
  <2>1. Len(next) - 1 = Len(parts) /\ Len(parts) \in 1..Len(parts)
    BY <1>1, <1>3
  <2>2. CASE d = k + 1
    <3>1. c = a
      BY <1>1, <1>8, <2>2, StartIsUnique DEF IsSplit
    <3>2. next[Len(parts)] = Part(s, a, k + 1)
      BY <1>3, <2>1 DEF IsSplit
    <3> QED
      BY <2>1, <2>2, <3>1, <3>2
  <2>3. CASE d # k + 1
    <3>1. d <= k
      BY <1>8, <2>3
    <3>2. PICK n \in 1..(Len(parts) - 1) : parts[n] = Part(s, c, d)
      BY <1>8, <3>1 DEF IsSplit
    <3>3. n \in 1..Len(parts)
      BY <1>1
    <3> QED
      BY <1>3, <2>1, <3>2, <3>3
  <2> QED
    BY <2>2, <2>3
<1>9. Len(next) >= 1 /\ next[Len(next)] = Part(s, k + 1, (k + 1) + 1)
  BY <1>1, <1>3, <1>5
<1>10. IsSplit(next, s, k + 1, k + 1)
  BY <1>3, <1>4, <1>7, <1>8, <1>9 DEF IsSplit
<1> QED
  BY <1>10 DEF next

(* Any other character goes to the part that is growing.                   *)
LEMMA OtherGoesOn ==
  ASSUME NEW s \in Seq(Characters), NEW k \in Nat, k + 1 <= Len(s), s[k + 1] # Comma,
         NEW parts, NEW a, IsSplit(parts, s, a, k)
  PROVE  IsSplit(WithNext(parts, s[k + 1]), s, a, k + 1)
<1> DEFINE next == WithNext(parts, s[k + 1])
           last == Len(parts)
           grown == Append(Part(s, a, k + 1), s[k + 1])
<1>1. /\ Len(s) \in Nat /\ last \in Nat \ {0} /\ last \in 1..last
      /\ parts \in Seq(Seq(Characters)) /\ DOMAIN parts = 1..last
      /\ k + 1 \in 1..Len(s) /\ s[k + 1] \in Characters
  BY LenProperties, ElementOfSeq DEF IsSplit
<1>2. IsStart(s, a, k) /\ IsStart(s, a, k + 1) /\ a \in Nat /\ a <= k
  <2>1. IsStart(s, a, k)
    BY DEF IsSplit
  <2>2. a \in Nat /\ a <= k /\ a \in 0..(k + 1)
    BY <2>1 DEF IsStart
  <2>3. \A m \in (a + 1)..(k + 1) : m \in (a + 1)..k \/ m = k + 1
    BY <2>2
  <2> QED
    BY <2>1, <2>2, <2>3 DEF IsStart
<1>3. grown \in Seq(Characters) /\ grown = Part(s, a, (k + 1) + 1)
  <2>1. /\ a \in 0..Len(s) /\ k + 1 \in (a + 1)..(Len(s) + 1)
        /\ (k + 1) + 1 \in (a + 1)..(Len(s) + 1)
    BY <1>1, <1>2
  <2>. /\ ((k + 1) - a) - 1 = k - a /\ (((k + 1) + 1) - a) - 1 = (k - a) + 1 /\ k - a \in Nat
       /\ a + ((k - a) + 1) = k + 1
       /\ \A i \in 1..((k - a) + 1) : i \in 1..(k - a) \/ i = (k - a) + 1
    BY <1>1, <1>2
  <2>2. /\ Part(s, a, k + 1) \in Seq(Characters) /\ Len(Part(s, a, k + 1)) = k - a
        /\ \A i \in 1..(k - a) : Part(s, a, k + 1)[i] = s[a + i]
    <3>1. /\ Part(s, a, k + 1) \in Seq(Characters)
          /\ Len(Part(s, a, k + 1)) = ((k + 1) - a) - 1
          /\ \A i \in 1..(((k + 1) - a) - 1) : Part(s, a, k + 1)[i] = s[a + i]
      BY <2>1, PartIs
    <3> QED
      BY <3>1
  <2>3. /\ Part(s, a, (k + 1) + 1) \in Seq(Characters)
        /\ Len(Part(s, a, (k + 1) + 1)) = (k - a) + 1
        /\ \A i \in 1..((k - a) + 1) : Part(s, a, (k + 1) + 1)[i] = s[a + i]
    <3>1. /\ Part(s, a, (k + 1) + 1) \in Seq(Characters)
          /\ Len(Part(s, a, (k + 1) + 1)) = (((k + 1) + 1) - a) - 1
          /\ \A i \in 1..((((k + 1) + 1) - a) - 1) : Part(s, a, (k + 1) + 1)[i] = s[a + i]
      BY <2>1, PartIs
    <3> QED
      BY <3>1
  <2>4. /\ grown \in Seq(Characters) /\ Len(grown) = (k - a) + 1
        /\ \A i \in 1..(k - a) : grown[i] = Part(s, a, k + 1)[i]
        /\ grown[(k - a) + 1] = s[k + 1]
    BY <1>1, <2>2, AppendProperties
  <2> HIDE DEF grown
  <2>5. \A i \in 1..((k - a) + 1) : grown[i] = s[a + i]
    BY <2>1, <2>2, <2>4
  <2> QED
    BY <2>3, <2>4, <2>5, SeqEqual
<1>4. next = [parts EXCEPT ![last] = grown]
  BY DEF WithNext, IsSplit
<1> HIDE DEF grown, next
<1>5. /\ next \in Seq(Seq(Characters)) /\ Len(next) = last
      /\ next[last] = grown
      /\ \A n \in 1..last : n # last => next[n] = parts[n]
  <2>1. [parts EXCEPT ![last] = grown] \in Seq(Seq(Characters))
        /\ Len([parts EXCEPT ![last] = grown]) = last
    BY <1>1, <1>3, ExceptSeq
  <2> QED
    BY <1>1, <1>4, <2>1
<1> HIDE DEF last
<1>6. ASSUME NEW n \in 1..(Len(next) - 1)
      PROVE  \E c, d \in Nat : d <= k + 1 /\ IsPart(s, c, d) /\ next[n] = Part(s, c, d)
  <2>1. n \in 1..(last - 1) /\ n \in 1..last /\ n # last /\ next[n] = parts[n]
    BY <1>1, <1>5
  <2>2. PICK c \in Nat, d \in Nat : d <= k /\ IsPart(s, c, d) /\ parts[n] = Part(s, c, d)
    BY <2>1 DEF IsSplit, last
  <2>3. d <= k + 1
    BY <2>2
  <2> QED
    BY <2>1, <2>2, <2>3
<1>7. ASSUME NEW c \in Nat, NEW d \in Nat, IsPart(s, c, d), d <= k + 1
      PROVE  \E n \in 1..(Len(next) - 1) : next[n] = Part(s, c, d)
  <2>1. d # k + 1
    BY <1>1, <1>7 DEF IsPart
  <2>2. d <= k
    BY <1>7, <2>1
  <2>3. PICK n \in 1..(last - 1) : parts[n] = Part(s, c, d)
    BY <1>7, <2>2 DEF IsSplit, last
  <2>4. n \in 1..last /\ n # last /\ n \in 1..(Len(next) - 1)
    BY <1>1, <1>5
  <2> QED
    BY <1>5, <2>3, <2>4
<1>8. Len(next) >= 1 /\ next[Len(next)] = Part(s, a, (k + 1) + 1)
  BY <1>1, <1>3, <1>5
<1>9. IsSplit(next, s, a, k + 1)
  BY <1>2, <1>5, <1>6, <1>7, <1>8 DEF IsSplit
<1> QED
  BY <1>9 DEF next

(* split(",") returns the parts between the commas, all of them.           *)
LEMMA SplitHas ==
  ASSUME NEW s \in Seq(Characters)
  PROVE  /\ Split(s) \in Seq(Seq(Characters)) /\ Len(Split(s)) >= 1
         /\ \A x : Has(Split(s), x) <=> HasPart(s, x)
<1>1. Len(s) \in Nat
  BY LenProperties
<1>2. PICK f : /\ Split(s) = f[Len(s)] /\ f[0] = << <<>> >>
               /\ \A k \in 1..Len(s) : f[k] = WithNext(f[k - 1], s[k])
  BY SplitTurns
<1> DEFINE S == {k \in Nat : k <= Len(s) => \E a : IsSplit(f[k], s, a, k)}
<1>3. 0 \in S
  <2>1. IsStart(s, 0, 0)
    BY DEF IsStart
  <2>2. Part(s, 0, 0 + 1) = <<>>
    <3>1. 0 \in 0..Len(s) /\ 0 + 1 \in (0 + 1)..(Len(s) + 1) /\ ((0 + 1) - 0) - 1 = 0
      BY <1>1
    <3>2. Part(s, 0, 0 + 1) \in Seq(Characters) /\ Len(Part(s, 0, 0 + 1)) = 0
      BY <3>1, PartIs
    <3> QED
      BY <3>2, EmptySeq
  <2>3. f[0] \in Seq(Seq(Characters)) /\ Len(f[0]) = 1 /\ f[0][1] = <<>>
    BY <1>2, EmptySeq
  <2>4. \A c, d \in Nat : ~ (IsPart(s, c, d) /\ d <= 0)
    BY DEF IsPart
  <2>5. 1..(1 - 1) = {}
    OBVIOUS
  <2>6. IsSplit(f[0], s, 0, 0)
    BY <2>1, <2>2, <2>3, <2>4, <2>5 DEF IsSplit
  <2> QED
    BY <2>6
<1>4. ASSUME NEW k \in Nat, k \in S PROVE k + 1 \in S
  <2> SUFFICES ASSUME k + 1 <= Len(s) PROVE \E a : IsSplit(f[k + 1], s, a, k + 1)
    OBVIOUS
  <2>1. k <= Len(s) /\ k + 1 \in 1..Len(s) /\ (k + 1) - 1 = k
    BY <1>1
  <2>2. PICK a : IsSplit(f[k], s, a, k)
    BY <1>4, <2>1
  <2>3. f[k + 1] = WithNext(f[k], s[k + 1])
    BY <1>2, <2>1
  <2>4. CASE s[k + 1] = Comma
    <3>1. IsSplit(f[k + 1], s, k + 1, k + 1)
      BY <2>2, <2>3, <2>4, CommaSplits
    <3> QED
      BY <3>1
  <2>5. CASE s[k + 1] # Comma
    <3>1. IsSplit(f[k + 1], s, a, k + 1)
      BY <2>2, <2>3, <2>5, OtherGoesOn
    <3> QED
      BY <3>1
  <2> QED
    BY <2>4, <2>5
<1>5. PICK a : IsSplit(Split(s), s, a, Len(s))
  <2> HIDE DEF S
  <2>1. Len(s) \in S
    BY <1>1, <1>3, <1>4, Inductive
  <2> QED
    BY <1>1, <1>2, <2>1 DEF S
<1> DEFINE parts == Split(s)
<1> HIDE DEF parts, S
<1>6. parts \in Seq(Seq(Characters)) /\ Len(parts) >= 1 /\ Len(parts) \in Nat
  BY <1>5, LenProperties DEF IsSplit, parts
<1>7. IsPart(s, a, Len(s) + 1) /\ a \in Nat
  <2>1. IsStart(s, a, Len(s))
    BY <1>5 DEF IsSplit
  <2>2. a \in 0..Len(s) /\ Len(s) + 1 \in (a + 1)..(Len(s) + 1) /\ (Len(s) + 1) - 1 = Len(s)
        /\ a \in Nat
    BY <1>1, <2>1 DEF IsStart
  <2> QED
    BY <2>1, <2>2 DEF IsStart, IsPart
<1>8. ASSUME NEW n \in 1..Len(parts) PROVE HasPart(s, parts[n])
  <2>1. CASE n = Len(parts)
    <3>1. parts[n] = Part(s, a, Len(s) + 1) /\ Len(s) + 1 \in Nat
      BY <1>1, <1>5, <2>1 DEF IsSplit, parts
    <3> QED
      BY <1>7, <3>1 DEF HasPart
  <2>2. CASE n # Len(parts)
    <3>1. n \in 1..(Len(parts) - 1)
      BY <1>6, <2>2
    <3>2. PICK c \in Nat, d \in Nat : IsPart(s, c, d) /\ parts[n] = Part(s, c, d)
      BY <1>5, <3>1 DEF IsSplit, parts
    <3> QED
      BY <3>2 DEF HasPart
  <2> QED
    BY <2>1, <2>2
<1>9. ASSUME NEW c \in Nat, NEW d \in Nat, IsPart(s, c, d) PROVE Has(parts, Part(s, c, d))
  <2>1. CASE d = Len(s) + 1
    <3>1. c = a
      BY <1>1, <1>5, <1>9, <2>1, StartIsUnique DEF IsSplit
    <3>2. Len(parts) \in 1..Len(parts) /\ parts[Len(parts)] = Part(s, a, Len(s) + 1)
      BY <1>5, <1>6 DEF IsSplit, parts
    <3> QED
      BY <2>1, <3>1, <3>2 DEF Has
  <2>2. CASE d # Len(s) + 1
    <3>1. d <= Len(s)
      BY <1>1, <1>9, <2>2 DEF IsPart
    <3>2. PICK n \in 1..(Len(parts) - 1) : parts[n] = Part(s, c, d)
      BY <1>5, <1>9, <3>1 DEF IsSplit, parts
    <3>3. n \in 1..Len(parts)
      BY <1>6
    <3> QED
      BY <3>2, <3>3 DEF Has
  <2> QED
    BY <2>1, <2>2
<1>10. ASSUME NEW x PROVE Has(parts, x) <=> HasPart(s, x)
  <2>1. ASSUME Has(parts, x) PROVE HasPart(s, x)
    <3>1. PICK n \in 1..Len(parts) : parts[n] = x
      BY <2>1 DEF Has
    <3> QED
      BY <1>8, <3>1
  <2>2. ASSUME HasPart(s, x) PROVE Has(parts, x)
    <3>1. PICK c \in Nat, d \in Nat : IsPart(s, c, d) /\ x = Part(s, c, d)
      BY <2>2 DEF HasPart
    <3> QED
      BY <1>9, <3>1
  <2> QED
    BY <2>1, <2>2
<1> QED
  BY <1>6, <1>10 DEF parts

-----------------------------------------------------------------------------
(* The parts of strings put together.                                      *)

LEMMA EmptyPart ==
  ASSUME NEW s \in Seq(Characters), NEW a \in 0..Len(s)
  PROVE  Part(s, a, a + 1) = <<>>
<1>1. a + 1 \in (a + 1)..(Len(s) + 1) /\ ((a + 1) - a) - 1 = 0
  BY LenProperties
<1>2. Part(s, a, a + 1) \in Seq(Characters) /\ Len(Part(s, a, a + 1)) = 0
  BY <1>1, PartIs
<1> QED
  BY <1>2, EmptySeq

(* Where a string lies within another, so do its parts.                    *)
LEMMA PartWithin ==
  ASSUME NEW s \in Seq(Characters), NEW q \in Seq(Characters), NEW o \in Nat,
         o + Len(s) <= Len(q), \A i \in 1..Len(s) : q[o + i] = s[i],
         NEW a \in 0..Len(s), NEW b \in (a + 1)..(Len(s) + 1)
  PROVE  /\ Part(q, o + a, o + b) = Part(s, a, b)
         /\ IsPart(q, o + a, o + b) => IsPart(s, a, b)
         /\ (/\ IsPart(s, a, b)
             /\ a = 0 => o = 0 \/ q[o] = Comma
             /\ b = Len(s) + 1 => o + b = Len(q) + 1 \/ q[o + b] = Comma)
              => IsPart(q, o + a, o + b)
<1>1. Len(s) \in Nat /\ Len(q) \in Nat
  BY LenProperties
<1>2. /\ a \in Nat /\ b \in Nat
      /\ o + a \in 0..Len(q) /\ o + b \in ((o + a) + 1)..(Len(q) + 1)
      /\ ((o + b) - (o + a)) - 1 = (b - a) - 1
  BY <1>1
<1>3. Part(q, o + a, o + b) = Part(s, a, b)
  <2>1. /\ Part(s, a, b) \in Seq(Characters) /\ Len(Part(s, a, b)) = (b - a) - 1
        /\ \A i \in 1..((b - a) - 1) : Part(s, a, b)[i] = s[a + i]
    BY PartIs
  <2>2. /\ Part(q, o + a, o + b) \in Seq(Characters)
        /\ Len(Part(q, o + a, o + b)) = ((o + b) - (o + a)) - 1
        /\ \A i \in 1..(((o + b) - (o + a)) - 1) : Part(q, o + a, o + b)[i] = q[(o + a) + i]
    BY <1>2, PartIs
  <2>3. \A i \in 1..((b - a) - 1) : a + i \in 1..Len(s) /\ (o + a) + i = o + (a + i)
    BY <1>1
  <2>4. \A i \in 1..((b - a) - 1) : Part(q, o + a, o + b)[i] = Part(s, a, b)[i]
    BY <1>2, <2>1, <2>2, <2>3
  <2> QED
    BY <1>2, <2>1, <2>2, <2>4, SeqEqual
<1>4. \A k \in (a + 1)..(b - 1) : k \in 1..Len(s) /\ o + k \in ((o + a) + 1)..((o + b) - 1)
  BY <1>1
<1>5. \A k \in ((o + a) + 1)..((o + b) - 1) :
        k - o \in (a + 1)..(b - 1) /\ k - o \in 1..Len(s) /\ o + (k - o) = k
  BY <1>1
<1>6. /\ a # 0 => a \in 1..Len(s) /\ o + a # 0
      /\ b # Len(s) + 1 => b \in 1..Len(s) /\ o + b # Len(q) + 1
  BY <1>1
<1>7. ASSUME IsPart(q, o + a, o + b) PROVE IsPart(s, a, b)
  <2>1. /\ o + a = 0 \/ q[o + a] = Comma
        /\ o + b = Len(q) + 1 \/ q[o + b] = Comma
        /\ \A k \in ((o + a) + 1)..((o + b) - 1) : q[k] # Comma
    BY <1>7 DEF IsPart
  <2>2. \A k \in (a + 1)..(b - 1) : s[k] # Comma
    BY <1>4, <2>1
  <2>3. a # 0 => s[a] = Comma
    BY <1>6, <2>1
  <2>4. b # Len(s) + 1 => s[b] = Comma
    BY <1>6, <2>1
  <2> QED
    BY <2>2, <2>3, <2>4 DEF IsPart
<1>8. ASSUME IsPart(s, a, b), a = 0 => o = 0 \/ q[o] = Comma,
             b = Len(s) + 1 => o + b = Len(q) + 1 \/ q[o + b] = Comma
      PROVE  IsPart(q, o + a, o + b)
  <2>1. /\ a = 0 \/ s[a] = Comma
        /\ b = Len(s) + 1 \/ s[b] = Comma
        /\ \A k \in (a + 1)..(b - 1) : s[k] # Comma
    BY <1>8 DEF IsPart
  <2>2. ASSUME NEW k \in ((o + a) + 1)..((o + b) - 1) PROVE q[k] # Comma
    <3>1. k - o \in (a + 1)..(b - 1) /\ k - o \in 1..Len(s) /\ o + (k - o) = k
      BY <1>5
    <3>2. q[k] = s[k - o]
      BY <3>1
    <3> QED
      BY <2>1, <3>1, <3>2
  <2>3. o + a = 0 \/ q[o + a] = Comma
    <3>1. CASE a = 0
      <4>1. o + a = o
        BY <3>1
      <4> QED
        BY <1>8, <3>1, <4>1
    <3>2. CASE a # 0
      BY <1>6, <2>1, <3>2
    <3> QED
      BY <3>1, <3>2
  <2>4. o + b = Len(q) + 1 \/ q[o + b] = Comma
    BY <1>6, <1>8, <2>1
  <2> QED
    BY <1>2, <2>2, <2>3, <2>4 DEF IsPart
<1> QED
  BY <1>3, <1>7, <1>8

LEMMA PartOfBeginning ==
  ASSUME NEW s \in Seq(Characters), NEW q \in Seq(Characters),
         Len(s) <= Len(q), \A i \in 1..Len(s) : q[i] = s[i],
         NEW a \in 0..Len(s), NEW b \in (a + 1)..(Len(s) + 1)
  PROVE  /\ Part(q, a, b) = Part(s, a, b)
         /\ IsPart(q, a, b) => IsPart(s, a, b)
         /\ (IsPart(s, a, b) /\ (b = Len(s) + 1 => q[b] = Comma)) => IsPart(q, a, b)
<1>1. Len(s) \in Nat /\ Len(q) \in Nat
  BY LenProperties
<1>2. 0 + Len(s) = Len(s) /\ 0 + a = a /\ 0 + b = b /\ \A i \in 1..Len(s) : 0 + i = i
  BY <1>1
<1>3. 0 + Len(s) <= Len(q) /\ \A i \in 1..Len(s) : q[0 + i] = s[i]
  BY <1>2
<1>4. /\ Part(q, 0 + a, 0 + b) = Part(s, a, b)
      /\ IsPart(q, 0 + a, 0 + b) => IsPart(s, a, b)
      /\ (IsPart(s, a, b) /\ (b = Len(s) + 1 => q[0 + b] = Comma)) => IsPart(q, 0 + a, 0 + b)
  BY <1>3, PartWithin
<1> QED
  BY <1>2, <1>4

(* A comma behind a string, or a string behind a comma, changes no part.   *)
LEMMA CommaBehind ==
  ASSUME NEW s \in Seq(Characters), NEW x, x # <<>>
  PROVE  HasPart(Append(s, Comma), x) <=> HasPart(s, x)
<1> DEFINE q == Append(s, Comma)
<1>1. Comma \in Characters /\ Len(s) \in Nat
  BY LenProperties DEF Characters
<1>2. /\ q \in Seq(Characters) /\ Len(q) = Len(s) + 1
      /\ \A i \in 1..Len(s) : q[i] = s[i]
      /\ q[Len(s) + 1] = Comma
  BY <1>1, AppendProperties
<1> HIDE DEF q
<1>3. Len(s) <= Len(q)
  BY <1>1, <1>2
<1>4. ASSUME NEW a \in Nat, NEW b \in Nat, IsPart(q, a, b), Part(q, a, b) # <<>>
      PROVE  HasPart(s, Part(q, a, b))
  <2>1. b # Len(q) + 1
    <3> SUFFICES ASSUME b = Len(q) + 1 PROVE FALSE
      OBVIOUS
    <3>1. a # Len(q)
      <4>1. Len(q) \in 0..Len(q)
        BY <1>1, <1>2
      <4> QED
        BY <1>2, <1>4, <4>1, EmptyPart
    <3>2. Len(q) \in (a + 1)..(b - 1)
      BY <1>1, <1>2, <1>4, <3>1 DEF IsPart
    <3> QED
      BY <1>2, <1>4, <3>2 DEF IsPart
  <2>2. a \in 0..Len(s) /\ b \in (a + 1)..(Len(s) + 1)
    BY <1>1, <1>2, <1>4, <2>1 DEF IsPart
  <2>3. Part(q, a, b) = Part(s, a, b) /\ IsPart(s, a, b)
    BY <1>2, <1>3, <1>4, <2>2, PartOfBeginning
  <2> QED
    BY <2>3 DEF HasPart
<1>5. ASSUME NEW a \in Nat, NEW b \in Nat, IsPart(s, a, b)
      PROVE  HasPart(q, Part(s, a, b))
  <2>1. a \in 0..Len(s) /\ b \in (a + 1)..(Len(s) + 1)
    BY <1>5 DEF IsPart
  <2>2. Part(q, a, b) = Part(s, a, b) /\ IsPart(q, a, b)
    BY <1>2, <1>3, <1>5, <2>1, PartOfBeginning
  <2> QED
    BY <2>2 DEF HasPart
<1>6. HasPart(q, x) => HasPart(s, x)
  BY <1>4 DEF HasPart
<1>7. HasPart(s, x) => HasPart(q, x)
  BY <1>5 DEF HasPart
<1> QED
  BY <1>6, <1>7 DEF q

LEMMA BehindComma ==
  ASSUME NEW s \in Seq(Characters), NEW t \in Seq(Characters),
         Len(s) >= 1, s[Len(s)] = Comma, NEW x, x # <<>>
  PROVE  HasPart(s \o t, x) <=> HasPart(s, x) \/ HasPart(t, x)
<1> DEFINE q == s \o t
<1>1. Len(s) \in Nat \ {0} /\ Len(t) \in Nat
  BY LenProperties
<1>2. /\ q \in Seq(Characters) /\ Len(q) = Len(s) + Len(t)
      /\ \A i \in 1..(Len(s) + Len(t)) : q[i] = IF i <= Len(s) THEN s[i] ELSE t[i - Len(s)]
  BY ConcatProperties
<1> HIDE DEF q
<1>3. q \in Seq(Characters) /\ Len(s) <= Len(q) /\ \A i \in 1..Len(s) : q[i] = s[i]
  <2>1. \A i \in 1..Len(s) : i \in 1..(Len(s) + Len(t)) /\ i <= Len(s)
    BY <1>1
  <2> QED
    BY <1>1, <1>2, <2>1
<1>4. Len(s) + Len(t) <= Len(q) /\ \A i \in 1..Len(t) : q[Len(s) + i] = t[i]
  <2>1. \A i \in 1..Len(t) : /\ Len(s) + i \in 1..(Len(s) + Len(t))
                             /\ ~(Len(s) + i <= Len(s)) /\ (Len(s) + i) - Len(s) = i
    BY <1>1
  <2> QED
    BY <1>1, <1>2, <2>1
<1>5. q[Len(s)] = Comma
  <2>1. Len(s) \in 1..Len(s)
    BY <1>1
  <2> QED
    BY <1>3, <2>1
<1>6. ASSUME NEW a \in Nat, NEW b \in Nat, IsPart(q, a, b)
      PROVE  HasPart(s, Part(q, a, b)) \/ HasPart(t, Part(q, a, b))
  <2>1. a \in 0..Len(q) /\ b \in (a + 1)..(Len(q) + 1)
    BY <1>6 DEF IsPart
  <2>2. CASE a < Len(s)
    <3>1. Len(s) \notin (a + 1)..(b - 1)
      BY <1>5, <1>6 DEF IsPart
    <3>2. a \in 0..Len(s) /\ b \in (a + 1)..(Len(s) + 1)
      BY <1>1, <2>1, <2>2, <3>1
    <3>3. Part(q, a, b) = Part(s, a, b) /\ IsPart(s, a, b)
      BY <1>3, <1>6, <3>2, PartOfBeginning
    <3> QED
      BY <3>3 DEF HasPart
  <2>3. CASE ~(a < Len(s))
    <3>1. /\ a - Len(s) \in 0..Len(t) /\ b - Len(s) \in ((a - Len(s)) + 1)..(Len(t) + 1)
          /\ Len(s) + (a - Len(s)) = a /\ Len(s) + (b - Len(s)) = b
          /\ a - Len(s) \in Nat /\ b - Len(s) \in Nat
      BY <1>1, <1>2, <2>1, <2>3
    <3>2. Part(q, a, b) = Part(t, a - Len(s), b - Len(s)) /\ IsPart(t, a - Len(s), b - Len(s))
      <4>1. /\ Part(q, Len(s) + (a - Len(s)), Len(s) + (b - Len(s)))
                 = Part(t, a - Len(s), b - Len(s))
            /\ IsPart(q, Len(s) + (a - Len(s)), Len(s) + (b - Len(s)))
                 => IsPart(t, a - Len(s), b - Len(s))
        BY <1>1, <1>2, <1>4, <3>1, PartWithin
      <4> QED
        BY <1>6, <3>1, <4>1
    <3> QED
      BY <3>1, <3>2 DEF HasPart
  <2> QED
    BY <2>2, <2>3
<1>7. ASSUME NEW a \in Nat, NEW b \in Nat, IsPart(s, a, b), Part(s, a, b) # <<>>
      PROVE  HasPart(q, Part(s, a, b))
  <2>1. a \in 0..Len(s) /\ b \in (a + 1)..(Len(s) + 1)
    BY <1>7 DEF IsPart
  <2>2. b # Len(s) + 1
    <3> SUFFICES ASSUME b = Len(s) + 1 PROVE FALSE
      OBVIOUS
    <3>1. a # Len(s)
      BY <1>7, <2>1, EmptyPart
    <3>2. Len(s) \in (a + 1)..(b - 1)
      BY <1>1, <2>1, <3>1
    <3> QED
      BY <1>7, <3>2 DEF IsPart
  <2>3. Part(q, a, b) = Part(s, a, b) /\ IsPart(q, a, b)
    BY <1>3, <1>7, <2>1, <2>2, PartOfBeginning
  <2> QED
    BY <2>3 DEF HasPart
<1>8. ASSUME NEW a \in Nat, NEW b \in Nat, IsPart(t, a, b)
      PROVE  HasPart(q, Part(t, a, b))
  <2>1. a \in 0..Len(t) /\ b \in (a + 1)..(Len(t) + 1) /\ Len(s) + a \in Nat /\ Len(s) + b \in Nat
    BY <1>1, <1>8 DEF IsPart
  <2>2. b = Len(t) + 1 => Len(s) + b = Len(q) + 1
    BY <1>1, <1>2
  <2>3. Part(q, Len(s) + a, Len(s) + b) = Part(t, a, b) /\ IsPart(q, Len(s) + a, Len(s) + b)
    BY <1>1, <1>2, <1>4, <1>5, <1>8, <2>1, <2>2, PartWithin
  <2> QED
    BY <2>1, <2>3 DEF HasPart
<1>9. HasPart(q, x) => HasPart(s, x) \/ HasPart(t, x)
  BY <1>6 DEF HasPart
<1>10. HasPart(s, x) => HasPart(q, x)
  BY <1>7 DEF HasPart
<1>11. HasPart(t, x) => HasPart(q, x)
  BY <1>8 DEF HasPart
<1> QED
  BY <1>9, <1>10, <1>11 DEF q

(* join(",") keeps the parts of the strings, and makes no other.           *)
LEMMA JoinHas ==
  ASSUME NEW list \in Seq(Seq(Characters)), list # <<>>, NEW x, x # <<>>
  PROVE  /\ Join(list) \in Seq(Characters)
         /\ HasPart(Join(list), x) <=> \E n \in DOMAIN list : HasPart(list[n], x)
<1> DEFINE len == Len(list)
           seqs == [n \in DOMAIN list |-> IF n < len THEN Append(list[n], Comma) ELSE list[n]]
<1>1. /\ len \in Nat \ {0} /\ DOMAIN list = 1..len
      /\ \A n \in 1..len : list[n] \in Seq(Characters)
  BY LenProperties, EmptySeq, ElementOfSeq
<1>2. Comma \in Characters
  BY DEF Characters
<1>3. Len(seqs) = len
  BY <1>1
<1>4. \A n \in 1..len : seqs[n] = IF n < len THEN Append(list[n], Comma) ELSE list[n]
  BY <1>1
<1>5. Join(list) = FlattenSeq(seqs)
  BY DEF Join
<1> HIDE DEF seqs
<1>6. PICK f : /\ FlattenSeq(seqs) = f[len] /\ f[1] = seqs[1]
               /\ \A i \in 1..len : i # 1 => f[i] = f[i - 1] \o seqs[i]
  <2> HIDE DEF len
  <2> QED
    BY <1>1, <1>3, FlattenSteps
<1> HIDE DEF len
(* One of the sequences that are put together.                             *)
<1>7. ASSUME NEW n \in 1..len
      PROVE  /\ seqs[n] \in Seq(Characters)
             /\ HasPart(seqs[n], x) <=> HasPart(list[n], x)
             /\ n < len => Len(seqs[n]) >= 1 /\ seqs[n][Len(seqs[n])] = Comma
  <2>1. CASE n < len
    <3>1. seqs[n] = Append(list[n], Comma) /\ list[n] \in Seq(Characters)
      BY <1>1, <1>4, <2>1
    <3>2. /\ Append(list[n], Comma) \in Seq(Characters)
          /\ Len(Append(list[n], Comma)) = Len(list[n]) + 1
          /\ Append(list[n], Comma)[Len(list[n]) + 1] = Comma
          /\ Len(list[n]) \in Nat
      BY <1>2, <3>1, AppendProperties, LenProperties
    <3>3. HasPart(Append(list[n], Comma), x) <=> HasPart(list[n], x)
      BY <3>1, CommaBehind
    <3>4. Len(seqs[n]) >= 1
      BY <3>1, <3>2
    <3> QED
      BY <3>1, <3>2, <3>3, <3>4
  <2>2. CASE ~(n < len)
    BY <1>1, <1>4, <2>2
  <2> QED
    BY <2>1, <2>2
<1> DEFINE P(k) == /\ f[k] \in Seq(Characters)
                   /\ k < len => Len(f[k]) >= 1 /\ f[k][Len(f[k])] = Comma
                   /\ (HasPart(f[k], x) <=> \E n \in 1..k : HasPart(list[n], x))
           S == {m \in Nat : m + 1 \in 1..len => P(m + 1)}
<1>8. P(1)
  <2>1. 1 \in 1..len /\ \A n \in 1..1 : n = 1
    BY <1>1
  <2> QED
    BY <1>6, <1>7, <2>1
<1>9. ASSUME NEW m \in Nat, m + 1 \in 1..len => P(m + 1), (m + 1) + 1 \in 1..len
      PROVE  P((m + 1) + 1)
  <2>1. /\ m + 1 \in 1..len /\ m + 1 < len /\ (m + 1) + 1 # 1 /\ ((m + 1) + 1) - 1 = m + 1
        /\ \A n : n \in 1..((m + 1) + 1) <=> n \in 1..(m + 1) \/ n = (m + 1) + 1
    BY <1>1, <1>9
  <2> DEFINE new == seqs[(m + 1) + 1]
             old == f[m + 1]
  <2>2. f[(m + 1) + 1] = old \o new
    BY <1>6, <1>9, <2>1
  <2>3. /\ old \in Seq(Characters) /\ Len(old) >= 1 /\ old[Len(old)] = Comma
        /\ HasPart(old, x) <=> \E n \in 1..(m + 1) : HasPart(list[n], x)
    BY <1>9, <2>1
  <2>4. /\ new \in Seq(Characters)
        /\ HasPart(new, x) <=> HasPart(list[(m + 1) + 1], x)
        /\ (m + 1) + 1 < len => Len(new) >= 1 /\ new[Len(new)] = Comma
    BY <1>7, <1>9
  <2> HIDE DEF old, new
  <2>5. /\ old \o new \in Seq(Characters)
        /\ HasPart(old \o new, x) <=> (HasPart(old, x) \/ HasPart(new, x))
    BY <2>3, <2>4, BehindComma, ConcatProperties
  <2>6. ASSUME (m + 1) + 1 < len
        PROVE  Len(old \o new) >= 1 /\ (old \o new)[Len(old \o new)] = Comma
    <3>1. /\ Len(old) \in Nat /\ Len(new) \in Nat
          /\ Len(old \o new) = Len(old) + Len(new)
          /\ \A i \in 1..(Len(old) + Len(new)) :
               (old \o new)[i] = IF i <= Len(old) THEN old[i] ELSE new[i - Len(old)]
      BY <2>3, <2>4, ConcatProperties, LenProperties
    <3>2. /\ Len(old) + Len(new) \in 1..(Len(old) + Len(new)) /\ Len(old) + Len(new) >= 1
          /\ ~(Len(old) + Len(new) <= Len(old)) /\ (Len(old) + Len(new)) - Len(old) = Len(new)
      BY <2>4, <2>6, <3>1
    <3> QED
      BY <2>4, <2>6, <3>1, <3>2
  <2>7. HasPart(old \o new, x) <=> \E n \in 1..((m + 1) + 1) : HasPart(list[n], x)
    BY <2>1, <2>3, <2>4, <2>5
  <2> HIDE DEF P
  <2>8. f[(m + 1) + 1] = old \o new => P((m + 1) + 1)
    BY <2>5, <2>6, <2>7 DEF P
  <2> QED
    BY <2>2, <2>8
<1>10. \A m \in Nat : m \in S
  <2>1. 0 \in S
    BY <1>8
  <2>2. \A m \in Nat : m \in S => m + 1 \in S
    BY <1>9
  <2> HIDE DEF S
  <2> QED
    BY <2>1, <2>2, Inductive
<1>11. P(len)
  <2>1. len - 1 \in Nat /\ (len - 1) + 1 = len /\ len \in 1..len
    BY <1>1
  <2>2. len - 1 \in S
    BY <1>10, <2>1
  <2> HIDE DEF P
  <2> QED
    BY <2>1, <2>2
<1> QED
  BY <1>1, <1>5, <1>6, <1>11

-----------------------------------------------------------------------------
(* The names of the environment, and what the core makes of them.          *)

LEMMA TrimShape ==
  ASSUME NEW x \in Seq(Characters)
  PROVE  Trim(x) \in Seq(Characters)
<1>1. CASE Trim(x) # <<>>
  <2>1. PICK i \in Nat, j \in Nat : IsInked(x, i, j)
    BY <1>1, TrimHas
  <2>2. Trim(x) = SubSeq(x, i, j)
    BY <2>1, TrimOf
  <2>3. i - 1 \in 0..j /\ j \in 0..Len(x) /\ (i - 1) + 1 = i
    BY <2>1, LenProperties DEF IsInked
  <2>4. SubSeq(x, i, j) \in Seq(Characters)
    BY <2>3, SliceIs
  <2> QED
    BY <2>2, <2>4
<1>2. CASE Trim(x) = <<>>
  BY <1>2, EmptySeq
<1> QED
  BY <1>1, <1>2

LEMMA TrimOfNothing == Trim(<<>>) = <<>>
<1>1. DOMAIN <<>> = {}
  BY EmptySeq
<1> QED
  BY <1>1 DEF Trim

LEMMA NamesHave ==
  ASSUME NEW s \in Seq(Characters), NEW name
  PROVE  name \in NamesIn(s) <=>
           name # <<>> /\ \E x \in Seq(Characters) : x # <<>> /\ HasPart(s, x) /\ name = Trim(x)
<1>1. ASSUME NEW a \in Nat, NEW b \in Nat, IsPart(s, a, b)
      PROVE  Part(s, a, b) \in Seq(Characters)
  <2>1. a \in 0..Len(s) /\ b \in (a + 1)..(Len(s) + 1)
    BY <1>1 DEF IsPart
  <2> QED
    BY <2>1, PartIs
<1>2. Trim(<<>>) = <<>>
  BY TrimOfNothing
<1>3. ASSUME name \in NamesIn(s)
      PROVE  name # <<>> /\ \E x \in Seq(Characters) : x # <<>> /\ HasPart(s, x) /\ name = Trim(x)
  <2>1. PICK a \in Nat, b \in Nat : IsPart(s, a, b) /\ name = Trim(Part(s, a, b)) /\ name # <<>>
    BY <1>3, NamesAreParts
  <2>2. HasPart(s, Part(s, a, b)) /\ Part(s, a, b) \in Seq(Characters) /\ Part(s, a, b) # <<>>
    BY <1>1, <1>2, <2>1 DEF HasPart
  <2> QED
    BY <2>1, <2>2
<1>4. ASSUME NEW x, name # <<>>, HasPart(s, x), name = Trim(x) PROVE name \in NamesIn(s)
  <2>1. PICK a \in Nat, b \in Nat : IsPart(s, a, b) /\ x = Part(s, a, b)
    BY <1>4 DEF HasPart
  <2> QED
    BY <1>4, <2>1, NamesAreParts
<1> QED
  BY <1>3, <1>4

(* What the core reads is the names in the environment.                    *)
LEMMA ParseHas ==
  ASSUME NEW s \in Seq(Characters), NEW name
  PROVE  /\ ParseAllowlist(s) \in Seq(Seq(Characters))
         /\ Has(ParseAllowlist(s), name) <=> name \in NamesIn(s)
<1> DEFINE parts == Split(s)
           seqs == [n \in DOMAIN parts |-> Kept(Trim(parts[n]))]
           len == Len(parts)
<1>1. /\ parts \in Seq(Seq(Characters)) /\ len \in Nat \ {0} /\ DOMAIN parts = 1..len
      /\ \A n \in 1..len : parts[n] \in Seq(Characters)
  BY SplitHas, LenProperties, ElementOfSeq
<1>2. \A x : Has(parts, x) <=> HasPart(s, x)
  BY SplitHas
<1>3. ParseAllowlist(s) = FlattenSeq(seqs)
  BY OriginsAssumption DEF ParseAllowlist
<1> HIDE DEF parts
<1>4. Len(seqs) = len /\ \A n \in 1..len : seqs[n] = Kept(Trim(parts[n]))
  BY <1>1
<1> HIDE DEF seqs
<1>5. ASSUME NEW n \in 1..len
      PROVE  /\ seqs[n] \in Seq(Seq(Characters))
             /\ Has(seqs[n], name) <=> name # <<>> /\ name = Trim(parts[n])
  <2> DEFINE entry == Trim(parts[n])
  <2>1. entry \in Seq(Characters) /\ seqs[n] = Kept(entry)
    BY <1>1, <1>4, TrimShape
  <2> HIDE DEF entry
  <2>2. CASE entry = <<>>
    <3>1. seqs[n] = <<>> /\ Len(<<>>) = 0 /\ 1..0 = {}
      BY <2>1, <2>2, EmptySeq DEF Kept
    <3>2. seqs[n] \in Seq(Seq(Characters)) /\ ~Has(seqs[n], name)
      BY <3>1, EmptySeq DEF Has
    <3> QED
      BY <2>2, <3>2 DEF entry
  <2>3. CASE entry # <<>>
    <3>1. seqs[n] = <<entry>>
      BY <2>1, <2>3 DEF Kept
    <3>2. <<entry>> \in Seq(Seq(Characters)) /\ Len(<<entry>>) = 1 /\ <<entry>>[1] = entry
      BY <2>1
    <3>3. Has(seqs[n], name) <=> name = entry
      BY <3>1, <3>2 DEF Has
    <3> QED
      BY <2>3, <3>1, <3>2, <3>3 DEF entry
  <2> QED
    BY <2>2, <2>3
<1> HIDE DEF len
<1>6. /\ FlattenSeq(seqs) \in Seq(Seq(Characters))
      /\ Has(FlattenSeq(seqs), name) <=> \E n \in 1..len : Has(seqs[n], name)
  BY <1>1, <1>4, <1>5, FlattenHas
<1>7. (\E n \in 1..len : Has(seqs[n], name))
        <=> name # <<>> /\ \E n \in 1..len : name = Trim(parts[n])
  BY <1>5
<1>8. ASSUME NEW n \in 1..len, name # <<>>, name = Trim(parts[n]) PROVE name \in NamesIn(s)
  <2>1. parts[n] \in Seq(Characters) /\ Has(parts, parts[n])
    BY <1>1 DEF Has, len
  <2>2. parts[n] # <<>>
    BY <1>8, TrimOfNothing
  <2> QED
    BY <1>2, <1>8, <2>1, <2>2, NamesHave
<1>9. ASSUME name \in NamesIn(s) PROVE name # <<>> /\ \E n \in 1..len : name = Trim(parts[n])
  <2>1. PICK x \in Seq(Characters) : HasPart(s, x) /\ name = Trim(x) /\ name # <<>>
    BY <1>9, NamesHave
  <2>2. PICK n \in 1..len : parts[n] = x
    BY <1>2, <2>1 DEF Has, len
  <2> QED
    BY <2>1, <2>2
<1> QED
  BY <1>3, <1>6, <1>7, <1>8, <1>9

(* The names in a list that is joined are those in its strings.            *)
LEMMA NamesOfJoin ==
  ASSUME NEW list \in Seq(Seq(Characters)), list # <<>>, NEW name
  PROVE  /\ Join(list) \in Seq(Characters)
         /\ name \in NamesIn(Join(list)) <=> \E n \in DOMAIN list : name \in NamesIn(list[n])
<1>1. \A n \in DOMAIN list : list[n] \in Seq(Characters)
  BY LenProperties, ElementOfSeq
<1>2. Join(list) \in Seq(Characters)
  <2>1. <<Comma>> # <<>>
    OBVIOUS
  <2> QED
    BY <2>1, JoinHas
<1>3. ASSUME name \in NamesIn(Join(list))
      PROVE  \E n \in DOMAIN list : name \in NamesIn(list[n])
  <2>1. PICK x \in Seq(Characters) :
          x # <<>> /\ HasPart(Join(list), x) /\ name = Trim(x) /\ name # <<>>
    BY <1>2, <1>3, NamesHave
  <2>2. PICK n \in DOMAIN list : HasPart(list[n], x)
    BY <2>1, JoinHas
  <2> QED
    BY <1>1, <2>1, <2>2, NamesHave
<1>4. ASSUME NEW n \in DOMAIN list, name \in NamesIn(list[n])
      PROVE  name \in NamesIn(Join(list))
  <2>1. PICK x \in Seq(Characters) :
          x # <<>> /\ HasPart(list[n], x) /\ name = Trim(x) /\ name # <<>>
    BY <1>1, <1>4, NamesHave
  <2>2. HasPart(Join(list), x)
    BY <2>1, JoinHas
  <2> QED
    BY <1>2, <2>1, <2>2, NamesHave
<1> QED
  BY <1>2, <1>3, <1>4

-----------------------------------------------------------------------------
(* The match of an Origin.                                                 *)

LEMMA BeginningIs ==
  ASSUME NEW A, NEW s \in Seq(A), NEW i \in 0..Len(s)
  PROVE  /\ SubSeq(s, 1, i) \in Seq(A) /\ Len(SubSeq(s, 1, i)) = i
         /\ \A k \in 1..i : SubSeq(s, 1, i)[k] = s[k]
<1>1. 0 \in 0..i /\ 0 + 1 = 1 /\ i - 0 = i /\ \A k \in 1..i : 0 + k = k
  BY LenProperties
<1>2. /\ SubSeq(s, 0 + 1, i) \in Seq(A) /\ Len(SubSeq(s, 0 + 1, i)) = i - 0
      /\ \A k \in 1..(i - 0) : SubSeq(s, 0 + 1, i)[k] = s[0 + k]
  BY <1>1, SliceIs
<1> QED
  BY <1>1, <1>2

LEMMA BeginningAndRest ==
  ASSUME NEW A, NEW s \in Seq(A), NEW i \in 0..Len(s)
  PROVE  SubSeq(s, 1, i) \o SubSeq(s, i + 1, Len(s)) = s
<1> DEFINE start == SubSeq(s, 1, i)
           rest == SubSeq(s, i + 1, Len(s))
<1>1. Len(s) \in Nat /\ i \in Nat /\ Len(s) \in 0..Len(s) /\ i <= Len(s)
  BY LenProperties
<1>2. start \in Seq(A) /\ Len(start) = i /\ \A k \in 1..i : start[k] = s[k]
  BY BeginningIs
<1>3. rest \in Seq(A) /\ Len(rest) = Len(s) - i /\ \A k \in 1..(Len(s) - i) : rest[k] = s[i + k]
  BY <1>1, SliceIs
<1> HIDE DEF start, rest
<1>4. /\ start \o rest \in Seq(A) /\ Len(start \o rest) = Len(start) + Len(rest)
      /\ \A k \in 1..(Len(start) + Len(rest)) :
           (start \o rest)[k] = IF k <= Len(start) THEN start[k] ELSE rest[k - Len(start)]
  BY <1>2, <1>3, ConcatProperties
<1>5. i + (Len(s) - i) = Len(s)
  BY <1>1
<1>6. ASSUME NEW k \in 1..Len(s) PROVE (start \o rest)[k] = s[k]
  <2>1. CASE k <= i
    <3>1. k \in 1..i
      BY <1>1, <2>1
    <3> QED
      BY <1>2, <1>3, <1>4, <1>5, <2>1, <3>1
  <2>2. CASE ~(k <= i)
    <3>1. k - i \in 1..(Len(s) - i) /\ i + (k - i) = k
      BY <1>1, <2>2
    <3> QED
      BY <1>2, <1>3, <1>4, <1>5, <2>2, <3>1
  <2> QED
    BY <2>1, <2>2
<1>7. Len(start \o rest) = Len(s)
  BY <1>2, <1>3, <1>4, <1>5
<1>8. start \o rest = s
  BY <1>4, <1>6, <1>7, SeqEqual
<1> QED
  BY <1>8 DEF start, rest

(* A name with a star is the characters before it, and the star.           *)
LEMMA FrontAndLast ==
  ASSUME NEW A, NEW e \in Seq(A), e # <<>>
  PROVE  /\ Front(e) \in Seq(A) /\ Len(e) \in Nat \ {0} /\ Len(Front(e)) = Len(e) - 1
         /\ Last(e) \in A /\ e = Append(Front(e), Last(e))
<1>1. Len(e) \in Nat \ {0} /\ Len(e) - 1 \in 0..Len(e) /\ Len(e) \in 1..Len(e)
  BY LenProperties, EmptySeq
<1>2. /\ Front(e) \in Seq(A) /\ Len(Front(e)) = Len(e) - 1
      /\ \A k \in 1..(Len(e) - 1) : Front(e)[k] = e[k]
  BY <1>1, BeginningIs DEF Front
<1>3. Last(e) = e[Len(e)] /\ Last(e) \in A
  BY <1>1, ElementOfSeq DEF Last
<1> DEFINE f == Front(e)
           l == Last(e)
<1> HIDE DEF f, l
<1>4. /\ Append(f, l) \in Seq(A) /\ Len(Append(f, l)) = Len(f) + 1
      /\ \A k \in 1..Len(f) : Append(f, l)[k] = f[k]
      /\ Append(f, l)[Len(f) + 1] = l
  BY <1>2, <1>3, AppendProperties DEF f, l
<1>5. Len(f) = Len(e) - 1 /\ Len(f) + 1 = Len(e)
  BY <1>1, <1>2 DEF f
<1>6. ASSUME NEW k \in 1..Len(e) PROVE Append(f, l)[k] = e[k]
  <2>1. k = Len(e) \/ k \in 1..(Len(e) - 1)
    BY <1>1
  <2> QED
    BY <1>2, <1>3, <1>4, <1>5, <2>1 DEF f, l
<1>7. Append(f, l) = e
  BY <1>4, <1>5, <1>6, SeqEqual
<1> QED
  BY <1>1, <1>2, <1>3, <1>7 DEF f, l

LEMMA MatchesMeans ==
  ASSUME NEW origin \in Seq(Characters), NEW name \in Seq(Characters), name # <<>>
  PROVE  Matches(origin, name) <=> Means(name, origin)
<1>1. Len(origin) \in Nat
  BY LenProperties
<1>2. /\ Front(name) \in Seq(Characters) /\ Len(name) \in Nat \ {0}
      /\ Len(Front(name)) = Len(name) - 1 /\ name = Append(Front(name), Last(name))
  BY FrontAndLast
<1>3. Means(name, origin) <=>
        \/ name = origin
        \/ \E i \in 0..Len(origin) : Append(SubSeq(origin, 1, i), Star) = name
  <2>1. ASSUME NEW i \in 0..Len(origin), Append(SubSeq(origin, 1, i), Star) = name
        PROVE  Means(name, origin)
    <3>1. SubSeq(origin, 1, i) \o SubSeq(origin, i + 1, Len(origin)) = origin
      BY BeginningAndRest
    <3>2. i + 1 \in 1..(Len(origin) + 1)
      BY <1>1
    <3> QED
      BY <2>1, <3>1, <3>2 DEF Means
  <2>2. ASSUME Means(name, origin), name # origin
        PROVE  \E i \in 0..Len(origin) : Append(SubSeq(origin, 1, i), Star) = name
    BY <2>2 DEF Means
  <2>3. name = origin => Means(name, origin)
    BY DEF Means
  <2> QED
    BY <2>1, <2>2, <2>3
<1>4. ASSUME NEW i \in 0..Len(origin), Append(SubSeq(origin, 1, i), Star) = name
      PROVE  Last(name) = Star /\ IsPrefix(Front(name), origin)
  <2> DEFINE start == SubSeq(origin, 1, i)
  <2>1. start \in Seq(Characters) /\ Len(start) = i
    BY BeginningIs
  <2>2. Star \in Characters
    BY DEF Characters
  <2>3. /\ Len(Append(start, Star)) = i + 1 /\ Append(start, Star)[i + 1] = Star
        /\ \A k \in 1..i : Append(start, Star)[k] = start[k]
    BY <2>1, <2>2, AppendProperties
  <2> HIDE DEF start
  <2>4. Len(name) = i + 1 /\ Last(name) = Star /\ \A k \in 1..i : name[k] = start[k]
    BY <1>4, <2>3 DEF Last, start
  <2>5. Len(Front(name)) = i
    BY <1>2, <2>4
  <2>6. \A k \in 1..i : Front(name)[k] = start[k]
    <3>1. i \in 0..Len(name) /\ Len(name) - 1 = i
      BY <1>1, <2>4
    <3>2. Front(name) = SubSeq(name, 1, i)
      BY <3>1 DEF Front
    <3>3. \A k \in 1..i : SubSeq(name, 1, i)[k] = name[k]
      BY <3>1, BeginningIs
    <3> QED
      BY <2>4, <3>2, <3>3
  <2>7. Front(name) = start
    BY <1>2, <2>1, <2>5, <2>6, SeqEqual
  <2>8. SubSeq(start, 1, i) = start
    <3>1. i \in 0..Len(start)
      BY <1>1, <2>1
    <3>2. /\ SubSeq(start, 1, i) \in Seq(Characters) /\ Len(SubSeq(start, 1, i)) = i
          /\ \A k \in 1..i : SubSeq(start, 1, i)[k] = start[k]
      BY <2>1, <3>1, BeginningIs
    <3> QED
      BY <2>1, <3>2, SeqEqual
  <2>9. Len(start) <= Len(origin) /\ SubSeq(start, 1, Len(start)) = SubSeq(origin, 1, Len(start))
    BY <1>1, <2>1, <2>8 DEF start
  <2> QED
    BY <2>4, <2>7, <2>9 DEF IsPrefix
<1>5. ASSUME Last(name) = Star, IsPrefix(Front(name), origin)
      PROVE  \E i \in 0..Len(origin) : Append(SubSeq(origin, 1, i), Star) = name
  <2> DEFINE front == Front(name)
             i == Len(front)
  <2>1. front \in Seq(Characters) /\ i \in Nat /\ name = Append(front, Star)
    BY <1>2, <1>5, LenProperties
  <2>2. i <= Len(origin) /\ SubSeq(front, 1, i) = SubSeq(origin, 1, i)
    BY <1>5 DEF IsPrefix
  <2> HIDE DEF front
  <2>3. SubSeq(front, 1, i) = front
    <3>1. i \in 0..Len(front)
      BY <2>1
    <3>2. /\ SubSeq(front, 1, i) \in Seq(Characters) /\ Len(SubSeq(front, 1, i)) = i
          /\ \A k \in 1..i : SubSeq(front, 1, i)[k] = front[k]
      BY <2>1, <3>1, BeginningIs
    <3> QED
      BY <2>1, <3>2, SeqEqual
  <2>4. i \in 0..Len(origin)
    BY <1>1, <2>1, <2>2
  <2> QED
    BY <2>1, <2>2, <2>3, <2>4
<1>6. ASSUME name = origin, Last(name) = Star PROVE IsPrefix(Front(name), origin)
  <2> DEFINE i == Len(name) - 1
  <2>1. i \in 0..Len(origin) /\ Front(name) = SubSeq(origin, 1, i)
    BY <1>2, <1>6 DEF Front
  <2>2. Append(SubSeq(origin, 1, i), Star) = name
    BY <1>2, <1>6, <2>1
  <2> QED
    BY <1>4, <2>1, <2>2
<1>7. Matches(origin, name) <=>
        IF Last(name) = Star THEN IsPrefix(Front(name), origin) ELSE name = origin
  BY DEF Matches
<1> QED
  BY <1>3, <1>4, <1>5, <1>6, <1>7

-----------------------------------------------------------------------------
(* What the core was told is what the plugin read.                         *)

OriginInv ==
  /\ file \in Files /\ read \in Files
  /\ childEnv = BuildCoreChildEnv(LoadAllowedOrigins(read), Unset)
  /\ allowed = ParseAllowlist(childEnv)
  /\ upgrade # NoUpgrade =>
       /\ upgrade.origin \in Origins
       /\ upgrade.granted <=> IsOriginAllowed(upgrade.origin, allowed)

LEMMA OriginInvInit == OriginInit => OriginInv
<1> SUFFICES ASSUME OriginInit PROVE OriginInv
  OBVIOUS
<1>1. LoadAllowedOrigins(read) = <<>>
  BY DEF OriginInit, LoadAllowedOrigins
<1>2. childEnv = BuildCoreChildEnv(LoadAllowedOrigins(read), Unset)
  BY <1>1 DEF OriginInit, BuildCoreChildEnv
<1>3. allowed = ParseAllowlist(childEnv)
  BY DEF OriginInit, ParseAllowlist
<1> QED
  BY <1>2, <1>3 DEF OriginInit, OriginInv, Files

LEMMA OriginInvNext == OriginInv /\ [OriginNext]_originVars => OriginInv'
<1> SUFFICES ASSUME OriginInv, [OriginNext]_originVars PROVE OriginInv'
  OBVIOUS
<1> USE DEF OriginInv
<1>1. CASE FileIsEdited
  BY <1>1 DEF FileIsEdited
<1>2. CASE PluginStarts
  <2>1. childEnv' = BuildCoreChildEnv(LoadAllowedOrigins(read'), Unset)
    BY <1>2 DEF PluginStarts, BuildCoreChildEnv
  <2> QED
    BY <1>2, <2>1 DEF PluginStarts
<1>3. CASE CoreRestarts
  BY <1>3 DEF CoreRestarts
<1>4. ASSUME NEW origin \in Origins, Upgrade(origin) PROVE OriginInv'
  <2>1. /\ upgrade'.origin = origin
        /\ upgrade'.granted <=> IsOriginAllowed(origin, allowed)
    BY <1>4 DEF Upgrade
  <2>2. UNCHANGED <<file, read, childEnv, allowed>>
    BY <1>4 DEF Upgrade
  <2> QED
    BY <2>1, <2>2
<1>5. CASE UNCHANGED originVars
  BY <1>5 DEF originVars
<1> QED
  BY <1>1, <1>2, <1>3, <1>4, <1>5 DEF OriginNext

LEMMA OriginInvHolds == OriginSpec => []OriginInv
<1> QED
  BY OriginInvInit, OriginInvNext, PTL DEF OriginSpec

(* A list of the file that is used says what it says, on the way to the    *)
(* core and back.                                                          *)
LEMMA AllowedAsConfigured ==
  ASSUME NEW list \in Seq(Seq(Characters)), list # <<>>,
         NEW origin \in Seq(Characters), origin # <<>>
  PROVE  IsOriginAllowed(origin, ParseAllowlist(Join(list)))
           <=> \E n \in DOMAIN list : \E name \in NamesIn(list[n]) : Means(name, origin)
<1> DEFINE entries == ParseAllowlist(Join(list))
<1>1. Join(list) \in Seq(Characters)
  BY NamesOfJoin
<1>2. entries \in Seq(Seq(Characters)) /\ DOMAIN entries = 1..Len(entries)
  BY <1>1, ParseHas, LenProperties
<1>3. \A name : Has(entries, name) <=> \E n \in DOMAIN list : name \in NamesIn(list[n])
  BY <1>1, ParseHas, NamesOfJoin
<1> HIDE DEF entries
<1>4. \A m \in DOMAIN entries : entries[m] \in Seq(Characters) /\ Has(entries, entries[m])
  BY <1>2, ElementOfSeq DEF Has
<1>5. \A m \in DOMAIN entries : entries[m] # <<>>
  <2> SUFFICES ASSUME NEW m \in DOMAIN entries PROVE entries[m] # <<>>
    OBVIOUS
  <2>1. PICK n \in DOMAIN list : entries[m] \in NamesIn(list[n])
    BY <1>3, <1>4
  <2>2. list[n] \in Seq(Characters)
    BY LenProperties, ElementOfSeq
  <2> QED
    BY <2>1, <2>2, NamesHave
<1>6. origin \notin {Unset, <<>>}
  BY OriginsAssumption
<1>7. IsOriginAllowed(origin, entries) <=> \E m \in DOMAIN entries : Matches(origin, entries[m])
  BY <1>6 DEF IsOriginAllowed
<1>8. ASSUME NEW m \in DOMAIN entries, Matches(origin, entries[m])
      PROVE  \E n \in DOMAIN list : \E name \in NamesIn(list[n]) : Means(name, origin)
  <2>1. Means(entries[m], origin)
    BY <1>4, <1>5, <1>8, MatchesMeans
  <2> QED
    BY <1>3, <1>4, <2>1
<1>9. ASSUME NEW n \in DOMAIN list, NEW name \in NamesIn(list[n]), Means(name, origin)
      PROVE  \E m \in DOMAIN entries : Matches(origin, entries[m])
  <2>1. PICK m \in DOMAIN entries : entries[m] = name
    BY <1>2, <1>3 DEF Has
  <2> QED
    BY <1>4, <1>5, <1>9, <2>1, MatchesMeans
<1>10. IsOriginAllowed(origin, entries)
         <=> \E n \in DOMAIN list : \E name \in NamesIn(list[n]) : Means(name, origin)
  BY <1>7, <1>8, <1>9
<1> QED
  BY <1>10 DEF entries

(* A WebSocket is let in exactly when the file, as the plugin read it,     *)
(* says so: joining, splitting, trimming and matching neither lose an      *)
(* entry, nor run two together, nor make one of nothing.                   *)
THEOREM OnlyConfiguredOrigins == OriginSpec => []GrantedAsConfigured
<1>1. OriginInv => GrantedAsConfigured
  <2> SUFFICES ASSUME OriginInv, upgrade # NoUpgrade
               PROVE  upgrade.granted <=>
                        (upgrade.origin \notin {Unset, <<>>} /\ Configured(upgrade.origin))
    BY DEF GrantedAsConfigured
  <2> DEFINE origin == upgrade.origin
  <2>1. origin \in Origins /\ (upgrade.granted <=> IsOriginAllowed(origin, allowed))
    BY DEF OriginInv
  <2>2. CASE origin \in {Unset, <<>>}
    BY <2>1, <2>2 DEF IsOriginAllowed
  <2>3. CASE origin \notin {Unset, <<>>}
    <3>1. origin \in Seq(Characters) /\ origin # <<>>
      <4>1. origin \in Seq(Pieces)
        BY <2>1, <2>3, OriginsAssumption
      <4>2. \A i \in 1..Len(origin) : origin[i] \in Characters
        BY <4>1, ElementOfSeq DEF Characters
      <4>3. origin \in Seq(Characters)
        BY <4>1, <4>2, SeqDef, LenProperties
      <4> QED
        BY <2>3, <4>3
    <3> HIDE DEF origin
    <3>2. ASSUME read # Unset, ValidateAllowedOrigins(read.list), read.list # <<>>
          PROVE  IsOriginAllowed(origin, allowed) <=> Configured(origin)
      <4>1. read.list \in Seq(Seq(Characters))
        BY <3>2, OriginsAssumption DEF OriginInv, Files
      <4>2. childEnv = Join(read.list)
        BY <3>2 DEF OriginInv, LoadAllowedOrigins, BuildCoreChildEnv
      <4>3. IsOriginAllowed(origin, allowed)
              <=> \E n \in DOMAIN read.list :
                    \E name \in NamesIn(read.list[n]) : Means(name, origin)
        BY <3>1, <3>2, <4>1, <4>2, AllowedAsConfigured DEF OriginInv
      <4> QED
        BY <3>2, <4>3 DEF Configured, ValidateAllowedOrigins
    <3>3. ASSUME ~(read # Unset /\ ValidateAllowedOrigins(read.list) /\ read.list # <<>>)
          PROVE  ~IsOriginAllowed(origin, allowed) /\ ~Configured(origin)
      <4>1. LoadAllowedOrigins(read) = <<>>
        BY <3>3 DEF LoadAllowedOrigins
      <4>2. allowed = <<>>
        BY <4>1 DEF OriginInv, BuildCoreChildEnv, ParseAllowlist
      <4>3. DOMAIN <<>> = {}
        BY EmptySeq
      <4>4. ~IsOriginAllowed(origin, allowed)
        BY <4>2, <4>3 DEF IsOriginAllowed
      <4>5. ~Configured(origin)
        BY <3>3, <4>3 DEF Configured, ValidateAllowedOrigins
      <4> QED
        BY <4>4, <4>5
    <3>4. IsOriginAllowed(origin, allowed) <=> Configured(origin)
      BY <3>2, <3>3
    <3> QED
      BY <2>1, <2>3, <3>4 DEF origin
  <2> QED
    BY <2>2, <2>3
<1> QED
  BY <1>1, OriginInvHolds, PTL
=============================================================================
