------------------------- MODULE DeckActionsProofs -------------------------
(***************************************************************************)
(* Theorems about the Key and Dial actions, for any number of placed       *)
(* instances and of overlapping renderings: what is on the deck never has  *)
(* a stale title, and once its calls are done shows what is remembered.    *)
(*                                                                         *)
(* A rendering makes its first call, the label, at once.  What it still    *)
(* has to do after that, its remainder, waits for its turn, and moves to   *)
(* the end of the row each time one of its calls is answered.              *)
(***************************************************************************)
EXTENDS DeckActions, SequenceTheorems, TLAPS

IconValues == Icons \union {Null}
StateValues == KeyStates \union {Absent}

IconCalls == [field : {"icon"}, value : IconValues]
StateCalls == [field : {"state"}, value : KeyStates]

(* What a rendering may have left to do: icon, icon and state, or state.   *)
Remainders ==
  {<<c>> : c \in IconCalls \union StateCalls} \union {<<c, d>> : c \in IconCalls, d \in StateCalls}

Appearances == [icon : IconValues, text : Texts, state : StateValues]
Faces == [label : Texts \union {DefaultLabel}, icon : IconValues, state : StateValues]

ActionsTypeOK ==
  /\ visible \subseteq Instances
  /\ \A slot \in DOMAIN store : store[slot] \in Appearances
  /\ pending \in [Instances -> Seq(Remainders)]
  /\ shown \in [Instances -> Faces]

SetsIcon(q, n) == q[n][1].field = "icon"
SetsState(q, n) == q[n][1].field = "state"
Untouched(q, n) == Len(q[n]) = 2

(* The icon that is shown once a row of remainders q is done, when `now`   *)
(* is shown now: that of the last one that sets an icon.                   *)
IconComesTo(q, now, wanted) ==
  /\ (\A n \in DOMAIN q : ~SetsIcon(q, n)) => now = wanted
  /\ \A n \in DOMAIN q :
       (SetsIcon(q, n) /\ \A k \in DOMAIN q : k > n => ~SetsIcon(q, k)) => q[n][1].value = wanted

(* The state: a remainder that has its icon still to set comes to its      *)
(* state only after all that have come to theirs.                          *)
StateComesTo(q, now, wanted) ==
  /\ \A n \in DOMAIN q :
       (Untouched(q, n) /\ \A k \in DOMAIN q : k > n => ~Untouched(q, k)) => q[n][2].value = wanted
  /\ (\A n \in DOMAIN q : ~Untouched(q, n)) =>
       /\ \A n \in DOMAIN q :
            (SetsState(q, n) /\ \A k \in DOMAIN q : k > n => ~SetsState(q, k)) =>
              q[n][1].value = wanted
       /\ (\A n \in DOMAIN q : ~SetsState(q, n)) => now = wanted

WantedIcon(i) == IF Remembered(i).icon = Absent THEN Null ELSE Remembered(i).icon

(* What is visible has its title, and comes to show the icon and the state *)
(* that are remembered for it.                                             *)
Settles(i) ==
  /\ shown[i].label = Title(i)
  /\ IconComesTo(pending[i], shown[i].icon, WantedIcon(i))
  /\ (IsKey(i) /\ Remembered(i).state # Absent) =>
       StateComesTo(pending[i], shown[i].state, Remembered(i).state)

ActionsInv == ActionsTypeOK /\ \A i \in visible : Settles(i)

-----------------------------------------------------------------------------
(* Rows of remainders.                                                     *)

LEMMA RemainderShape ==
  ASSUME NEW r \in Remainders
  PROVE  /\ Len(r) \in {1, 2}
         /\ r[1].field \in {"icon", "state"}
         /\ r[1].field = "icon" => r[1].value \in IconValues
         /\ r[1].field = "state" => r[1].value \in KeyStates /\ Len(r) = 1
         /\ Len(r) = 1 => Tail(r) = <<>>
         /\ Len(r) = 2 => /\ r[1].field = "icon"
                          /\ Tail(r) # <<>>
                          /\ Tail(r) \in Remainders
                          /\ Len(Tail(r)) = 1
                          /\ Tail(r)[1] = r[2]
                          /\ r[2] \in StateCalls
<1>1. ASSUME NEW c \in IconCalls \union StateCalls, r = <<c>>
      PROVE  /\ Len(r) = 1 /\ Tail(r) = <<>> /\ r[1] = c
  BY <1>1
<1>2. ASSUME NEW c \in IconCalls, NEW d \in StateCalls, r = <<c, d>>
      PROVE  /\ Len(r) = 2 /\ r[1] = c /\ r[2] = d
             /\ Tail(r) = <<d>> /\ <<d>> # <<>> /\ Len(<<d>>) = 1 /\ <<d>>[1] = d
             /\ <<d>> \in Remainders
  BY <1>2 DEF Remainders
<1>3. \/ \E c \in IconCalls \union StateCalls : r = <<c>>
      \/ \E c \in IconCalls, d \in StateCalls : r = <<c, d>>
  BY DEF Remainders
<1>4. CASE \E c \in IconCalls \union StateCalls : r = <<c>>
  BY <1>1, <1>4 DEF IconCalls, StateCalls
<1>5. CASE \E c \in IconCalls, d \in StateCalls : r = <<c, d>>
  BY <1>2, <1>5 DEF IconCalls, StateCalls
<1> QED
  BY <1>3, <1>4, <1>5

(* A rendering that joins the row decides what the row comes to.           *)
LEMMA LastDecides ==
  ASSUME NEW q \in Seq(Remainders), NEW r \in Remainders, NEW now
  PROVE  /\ r[1].field = "icon" => IconComesTo(Append(q, r), now, r[1].value)
         /\ Len(r) = 2 => StateComesTo(Append(q, r), now, r[2].value)
<1> DEFINE p == Append(q, r)
<1>1. /\ Len(q) \in Nat
      /\ DOMAIN p = 1..(Len(q) + 1)
      /\ p[Len(q) + 1] = r
      /\ \A n \in 1..Len(q) : p[n] = q[n]
  BY LenProperties, AppendProperties
<1> HIDE DEF p
<1>2. Len(q) + 1 \in DOMAIN p
  BY <1>1
<1>3. ASSUME r[1].field = "icon" PROVE IconComesTo(p, now, r[1].value)
  BY <1>1, <1>2, <1>3 DEF IconComesTo, SetsIcon
<1>4. ASSUME Len(r) = 2 PROVE StateComesTo(p, now, r[2].value)
  BY <1>1, <1>2, <1>4 DEF StateComesTo, Untouched
<1> QED
  BY <1>3, <1>4 DEF p

(* The row after its first remainder has made a call.                      *)
Answered(q) ==
  IF Tail(Head(q)) = <<>> THEN Tail(q) ELSE Append(Tail(q), Tail(Head(q)))

LEMMA AnsweredRow ==
  ASSUME NEW q \in Seq(Remainders), q # <<>>
  PROVE  /\ Head(q) \in Remainders /\ Head(q) = q[1]
         /\ Tail(q) \in Seq(Remainders)
         /\ Answered(q) \in Seq(Remainders)
         /\ Len(q) \in Nat \ {0} /\ DOMAIN q = 1..Len(q)
         /\ Len(Head(q)) = 1 =>
              /\ DOMAIN Answered(q) = 1..(Len(q) - 1)
              /\ \A n \in 1..(Len(q) - 1) : Answered(q)[n] = q[n + 1]
         /\ Len(Head(q)) = 2 =>
              /\ DOMAIN Answered(q) = 1..Len(q)
              /\ \A n \in 1..(Len(q) - 1) : Answered(q)[n] = q[n + 1]
              /\ Answered(q)[Len(q)] = Tail(Head(q))
<1> DEFINE t == Tail(q)
           h == Head(q)
           p == Answered(q)
<1>1. /\ h \in Remainders /\ h = q[1]
      /\ t \in Seq(Remainders)
      /\ Len(q) \in Nat \ {0} /\ DOMAIN q = 1..Len(q)
      /\ Len(t) = Len(q) - 1 /\ \A n \in 1..Len(t) : t[n] = q[n + 1]
      /\ DOMAIN t = 1..Len(t)
  BY EmptySeq, LenProperties, HeadTailProperties
<1>2. p = IF Tail(h) = <<>> THEN t ELSE Append(t, Tail(h))
  BY DEF Answered
<1> HIDE DEF t, h, p
<1>3. ASSUME Len(h) = 1
      PROVE  /\ p \in Seq(Remainders)
             /\ DOMAIN p = 1..(Len(q) - 1)
             /\ \A n \in 1..(Len(q) - 1) : p[n] = q[n + 1]
  <2>1. p = t
    BY <1>1, <1>2, <1>3, RemainderShape
  <2> QED
    BY <1>1, <2>1
<1>4. ASSUME Len(h) = 2
      PROVE  /\ p \in Seq(Remainders)
             /\ DOMAIN p = 1..Len(q)
             /\ \A n \in 1..(Len(q) - 1) : p[n] = q[n + 1]
             /\ p[Len(q)] = Tail(h)
  <2> DEFINE r == Tail(h)
  <2>1. p = Append(t, r)
    BY <1>1, <1>2, <1>4, RemainderShape
  <2>2. r \in Remainders /\ t \in Seq(Remainders)
    BY <1>1, <1>4, RemainderShape
  <2> HIDE DEF r
  <2>3. /\ Append(t, r) \in Seq(Remainders)
        /\ Len(Append(t, r)) = Len(t) + 1
        /\ Append(t, r)[Len(t) + 1] = r
        /\ \A n \in 1..Len(t) : Append(t, r)[n] = t[n]
    BY <2>2, AppendProperties
  <2>4. DOMAIN p = 1..(Len(t) + 1)
    BY <2>1, <2>3, LenProperties
  <2>5. Len(t) + 1 = Len(q) /\ 1..(Len(q) - 1) = 1..Len(t)
    BY <1>1
  <2>6. \A n \in 1..(Len(q) - 1) : p[n] = q[n + 1]
    BY <1>1, <2>1, <2>3, <2>5
  <2> QED
    BY <2>1, <2>3, <2>4, <2>5, <2>6 DEF r
<1>5. Len(h) \in {1, 2}
  BY <1>1, RemainderShape
<1> QED
  BY <1>1, <1>3, <1>4, <1>5 DEF t, h, p

(* What a row comes to does not change when its first call is made.        *)
LEMMA AnsweredIcon ==
  ASSUME NEW q \in Seq(Remainders), q # <<>>, NEW now, NEW wanted, IconComesTo(q, now, wanted)
  PROVE  IconComesTo(Answered(q),
                     IF Head(q)[1].field = "icon" THEN Head(q)[1].value ELSE now, wanted)
<1> DEFINE p == Answered(q)
           later == IF Head(q)[1].field = "icon" THEN Head(q)[1].value ELSE now
<1>1. /\ Head(q) = q[1] /\ Len(q) \in Nat \ {0} /\ DOMAIN q = 1..Len(q)
      /\ \A n \in 1..(Len(q) - 1) : p[n] = q[n + 1]
      /\ \/ DOMAIN p = 1..(Len(q) - 1)
         \/ DOMAIN p = 1..Len(q) /\ ~SetsIcon(p, Len(q))
  <2>1. Len(Head(q)) = 2 => Tail(Head(q))[1].field # "icon"
    BY AnsweredRow, RemainderShape DEF StateCalls
  <2>2. Len(Head(q)) \in {1, 2}
    BY AnsweredRow, RemainderShape
  <2> QED
    BY <2>1, <2>2, AnsweredRow DEF SetsIcon
<1> HIDE DEF p
<1>2. \A n \in 1..(Len(q) - 1) : SetsIcon(p, n) <=> SetsIcon(q, n + 1)
  BY <1>1 DEF SetsIcon
<1>3. ASSUME NEW n \in DOMAIN p, SetsIcon(p, n), \A k \in DOMAIN p : k > n => ~SetsIcon(p, k)
      PROVE  p[n][1].value = wanted
  <2>1. n \in 1..(Len(q) - 1) /\ n + 1 \in DOMAIN q /\ SetsIcon(q, n + 1)
    BY <1>1, <1>2, <1>3
  <2>2. ASSUME NEW k \in DOMAIN q, k > n + 1 PROVE ~SetsIcon(q, k)
    <3>1. k - 1 \in 1..(Len(q) - 1) /\ k - 1 \in DOMAIN p /\ k - 1 > n /\ (k - 1) + 1 = k
      BY <1>1, <2>1, <2>2
    <3> QED
      BY <1>2, <1>3, <3>1
  <2>3. q[n + 1][1].value = wanted
    BY <2>1, <2>2 DEF IconComesTo
  <2> QED
    BY <1>1, <2>1, <2>3
<1>4. ASSUME \A n \in DOMAIN p : ~SetsIcon(p, n) PROVE later = wanted
  <2>1. ASSUME NEW k \in DOMAIN q, k > 1 PROVE ~SetsIcon(q, k)
    <3>1. k - 1 \in 1..(Len(q) - 1) /\ k - 1 \in DOMAIN p /\ (k - 1) + 1 = k
      BY <1>1, <2>1
    <3> QED
      BY <1>2, <1>4, <3>1
  <2>2. 1 \in DOMAIN q /\ \A k \in DOMAIN q : k = 1 \/ k > 1
    BY <1>1
  <2>3. CASE SetsIcon(q, 1)
    BY <1>1, <2>1, <2>2, <2>3 DEF IconComesTo, SetsIcon
  <2>4. CASE ~SetsIcon(q, 1)
    <3>1. \A n \in DOMAIN q : ~SetsIcon(q, n)
      BY <2>1, <2>2, <2>4
    <3> QED
      BY <1>1, <2>4, <3>1 DEF IconComesTo, SetsIcon
  <2> QED
    BY <2>3, <2>4
<1> QED
  BY <1>3, <1>4 DEF IconComesTo, p

LEMMA AnsweredState ==
  ASSUME NEW q \in Seq(Remainders), q # <<>>, NEW now, NEW wanted, StateComesTo(q, now, wanted)
  PROVE  StateComesTo(Answered(q),
                      IF Head(q)[1].field = "state" THEN Head(q)[1].value ELSE now, wanted)
<1> DEFINE p == Answered(q)
           h == Head(q)
           later == IF h[1].field = "state" THEN h[1].value ELSE now
<1>1. /\ h = q[1] /\ h \in Remainders
      /\ Len(q) \in Nat \ {0} /\ DOMAIN q = 1..Len(q)
      /\ \A n \in 1..(Len(q) - 1) : p[n] = q[n + 1]
      /\ Len(h) = 1 => DOMAIN p = 1..(Len(q) - 1)
      /\ Len(h) = 2 => DOMAIN p = 1..Len(q) /\ p[Len(q)] = Tail(h)
  <2>1. /\ h = q[1] /\ h \in Remainders
        /\ Len(q) \in Nat \ {0} /\ DOMAIN q = 1..Len(q)
    BY AnsweredRow
  <2>2. Len(h) = 1 => /\ DOMAIN p = 1..(Len(q) - 1)
                      /\ \A n \in 1..(Len(q) - 1) : p[n] = q[n + 1]
    BY AnsweredRow
  <2>3. Len(h) = 2 => /\ DOMAIN p = 1..Len(q) /\ p[Len(q)] = Tail(h)
                      /\ \A n \in 1..(Len(q) - 1) : p[n] = q[n + 1]
    BY AnsweredRow
  <2>4. Len(h) \in {1, 2}
    BY <2>1, RemainderShape
  <2> QED
    BY <2>1, <2>2, <2>3, <2>4
<1>2. /\ Len(h) \in {1, 2}
      /\ Len(h) = 2 => /\ h[1].field = "icon" /\ Len(Tail(h)) = 1
                        /\ Tail(h)[1] = h[2] /\ h[2].field = "state"
  BY <1>1, RemainderShape DEF StateCalls
<1> HIDE DEF p, h
<1>3. /\ \A n \in 1..(Len(q) - 1) : /\ (Untouched(p, n) <=> Untouched(q, n + 1))
                                     /\ (SetsState(p, n) <=> SetsState(q, n + 1))
      /\ Len(h) = 2 => ~Untouched(p, Len(q)) /\ SetsState(p, Len(q))
      /\ (Untouched(q, 1) <=> Len(h) = 2)
      /\ (SetsState(q, 1) <=> h[1].field = "state")
  <2>1. ASSUME NEW n \in 1..(Len(q) - 1)
        PROVE  /\ (Untouched(p, n) <=> Untouched(q, n + 1))
               /\ (SetsState(p, n) <=> SetsState(q, n + 1))
    <3>1. p[n] = q[n + 1]
      BY <1>1, <2>1
    <3> QED
      BY <3>1 DEF Untouched, SetsState
  <2>2. Len(h) = 2 => ~Untouched(p, Len(q)) /\ SetsState(p, Len(q))
    BY <1>1, <1>2 DEF Untouched, SetsState
  <2>3. /\ (Untouched(q, 1) <=> Len(h) = 2)
        /\ (SetsState(q, 1) <=> h[1].field = "state")
    BY <1>1 DEF Untouched, SetsState
  <2> QED
    BY <2>1, <2>2, <2>3
<1>4. ASSUME NEW k \in DOMAIN q, k > 1
      PROVE  /\ k - 1 \in 1..(Len(q) - 1) /\ k - 1 \in DOMAIN p /\ (k - 1) + 1 = k
             /\ (Untouched(p, k - 1) <=> Untouched(q, k))
             /\ (SetsState(p, k - 1) <=> SetsState(q, k))
  <2>1. k - 1 \in 1..(Len(q) - 1) /\ (k - 1) + 1 = k
    BY <1>1, <1>4
  <2>2. k - 1 \in DOMAIN p
    BY <1>1, <1>2, <2>1
  <2> QED
    BY <1>3, <2>1, <2>2
<1>5. ASSUME NEW n \in DOMAIN p
      PROVE  \/ /\ n \in 1..(Len(q) - 1) /\ n + 1 \in DOMAIN q
                /\ \A k \in DOMAIN q : k > n + 1 => k > 1 /\ k - 1 > n
             \/ Len(h) = 2 /\ n = Len(q)
  BY <1>1, <1>2
<1>6. 1 \in DOMAIN q /\ \A k \in DOMAIN q : k = 1 \/ k > 1
  BY <1>1
<1>7. ASSUME NEW n \in DOMAIN p, Untouched(p, n), \A k \in DOMAIN p : k > n => ~Untouched(p, k)
      PROVE  p[n][2].value = wanted
  <2>1. /\ n \in 1..(Len(q) - 1) /\ n + 1 \in DOMAIN q
        /\ \A k \in DOMAIN q : k > n + 1 => k > 1 /\ k - 1 > n
    BY <1>3, <1>5, <1>7
  <2>2. Untouched(q, n + 1)
    BY <1>3, <1>7, <2>1
  <2>3. ASSUME NEW k \in DOMAIN q, k > n + 1 PROVE ~Untouched(q, k)
    BY <1>4, <1>7, <2>1, <2>3
  <2>4. q[n + 1][2].value = wanted
    BY <2>1, <2>2, <2>3 DEF StateComesTo
  <2> QED
    BY <1>1, <2>1, <2>4
<1>8. ASSUME \A n \in DOMAIN p : ~Untouched(p, n)
      PROVE  \A k \in DOMAIN q : k > 1 => ~Untouched(q, k)
  BY <1>4, <1>8
<1>9. ASSUME \A n \in DOMAIN p : ~Untouched(p, n), Len(h) = 1
      PROVE  \A k \in DOMAIN q : ~Untouched(q, k)
  BY <1>3, <1>6, <1>8, <1>9
<1>10. ASSUME \A n \in DOMAIN p : ~Untouched(p, n),
              NEW n \in DOMAIN p, SetsState(p, n), \A k \in DOMAIN p : k > n => ~SetsState(p, k)
       PROVE  p[n][1].value = wanted
  <2>1. CASE Len(h) = 2
    <3>1. n = Len(q)
      <4>1. Len(q) \in DOMAIN p /\ SetsState(p, Len(q)) /\ (n = Len(q) \/ Len(q) > n)
        BY <1>1, <1>3, <2>1
      <4> QED
        BY <1>10, <4>1
    <3>2. q[1][2].value = wanted
      BY <1>3, <1>6, <1>8, <1>10, <2>1 DEF StateComesTo
    <3> QED
      BY <1>1, <1>2, <2>1, <3>1, <3>2
  <2>2. CASE Len(h) = 1
    <3>1. /\ n \in 1..(Len(q) - 1) /\ n + 1 \in DOMAIN q
          /\ \A k \in DOMAIN q : k > n + 1 => k > 1 /\ k - 1 > n
      BY <1>5, <2>2
    <3>2. SetsState(q, n + 1)
      BY <1>3, <1>10, <3>1
    <3>3. ASSUME NEW k \in DOMAIN q, k > n + 1 PROVE ~SetsState(q, k)
      BY <1>4, <1>10, <3>1, <3>3
    <3>4. q[n + 1][1].value = wanted
      BY <1>9, <1>10, <2>2, <3>1, <3>2, <3>3 DEF StateComesTo
    <3> QED
      BY <1>1, <3>1, <3>4
  <2> QED
    BY <1>2, <2>1, <2>2
<1>11. ASSUME \A n \in DOMAIN p : ~Untouched(p, n), \A n \in DOMAIN p : ~SetsState(p, n)
       PROVE  later = wanted
  <2>1. Len(h) = 1
    <3>1. Len(h) = 2 => Len(q) \in DOMAIN p
      BY <1>1
    <3> QED
      BY <1>2, <1>3, <1>11, <3>1
  <2>2. \A k \in DOMAIN q : ~Untouched(q, k)
    BY <1>9, <1>11, <2>1
  <2>3. \A k \in DOMAIN q : k > 1 => ~SetsState(q, k)
    BY <1>4, <1>11
  <2>4. CASE SetsState(q, 1)
    <3>1. \A k \in DOMAIN q : k > 1 => ~SetsState(q, k)
      BY <2>3
    <3>2. q[1][1].value = wanted
      BY <1>6, <2>2, <2>4, <3>1 DEF StateComesTo
    <3> QED
      BY <1>1, <1>3, <2>4, <3>2
  <2>5. CASE ~SetsState(q, 1)
    <3>1. \A k \in DOMAIN q : ~SetsState(q, k)
      BY <1>6, <2>3, <2>5
    <3> QED
      BY <1>3, <2>2, <2>5, <3>1 DEF StateComesTo
  <2> QED
    BY <2>4, <2>5
<1> QED
  BY <1>7, <1>10, <1>11 DEF StateComesTo, p, h

-----------------------------------------------------------------------------
(* The calls of a rendering.                                               *)

LEMMA Pair ==
  ASSUME NEW a, NEW b
  PROVE  <<a>> \o <<b>> = <<a, b>>
<1> DEFINE S == {a, b}
           s == <<a>> \o <<b>>
<1>1. <<a>> \in Seq(S) /\ <<b>> \in Seq(S) /\ <<a, b>> \in Seq(S)
  OBVIOUS
<1>2. s \in Seq(S) /\ Len(s) = 2 /\ s[1] = a /\ s[2] = b
  BY <1>1, ConcatProperties
<1>3. \A i \in 1..2 : i = 1 \/ i = 2
  OBVIOUS
<1>4. Len(<<a, b>>) = 2 /\ <<a, b>>[1] = a /\ <<a, b>>[2] = b
  OBVIOUS
<1> HIDE DEF s
<1>5. s = <<a, b>>
  BY <1>1, <1>2, <1>3, <1>4, SeqEqual
<1> QED
  BY <1>5 DEF s

LEMMA Triple ==
  ASSUME NEW a, NEW b, NEW c
  PROVE  <<a, b>> \o <<c>> = <<a, b, c>>
<1> DEFINE S == {a, b, c}
           s == <<a, b>> \o <<c>>
<1>1. <<a, b>> \in Seq(S) /\ <<c>> \in Seq(S) /\ <<a, b, c>> \in Seq(S)
  OBVIOUS
<1>2. s \in Seq(S) /\ Len(s) = 3 /\ s[1] = a /\ s[2] = b /\ s[3] = c
  BY <1>1, ConcatProperties
<1>3. \A i \in 1..3 : i = 1 \/ i = 2 \/ i = 3
  OBVIOUS
<1>4. Len(<<a, b, c>>) = 3 /\ <<a, b, c>>[1] = a /\ <<a, b, c>>[2] = b /\ <<a, b, c>>[3] = c
  OBVIOUS
<1> HIDE DEF s
<1>5. s = <<a, b, c>>
  BY <1>1, <1>2, <1>3, <1>4, SeqEqual
<1> QED
  BY <1>5 DEF s

LEMMA Rows ==
  ASSUME NEW a, NEW b, NEW c
  PROVE  /\ (<<a>> \o <<b>>) \o <<>> = <<a, b>>
         /\ (<<a>> \o <<b>>) \o <<c>> = <<a, b, c>>
<1>1. <<a>> \o <<b>> = <<a, b>>
  BY Pair
<1>2. <<a, b>> \in Seq({a, b})
  OBVIOUS
<1>3. <<a, b>> \o <<>> = <<a, b>>
  BY <1>2, ConcatEmptySeq
<1>4. <<a, b>> \o <<c>> = <<a, b, c>>
  BY Triple
<1> QED
  BY <1>1, <1>3, <1>4

(* A rendering sets the title at once, and has the icon, and the state if  *)
(* one is remembered, still to set.                                        *)
LEMMA SettersShape ==
  ASSUME NEW i, NEW rem, rem = Store!NeverRendered \/ rem \in Appearances
  PROVE  LET calls == Setters(i, rem)
         IN /\ Head(calls).field = "label"
            /\ Head(calls).value = IF rem.text = Absent THEN DefaultLabel ELSE rem.text
            /\ Head(calls).value \in Texts \union {DefaultLabel}
            /\ Tail(calls) # <<>> /\ Tail(calls) \in Remainders
            /\ Tail(calls)[1].field = "icon"
            /\ Tail(calls)[1].value = IF rem.icon = Absent THEN Null ELSE rem.icon
            /\ (IsKey(i) /\ rem.state # Absent) =>
                 Len(Tail(calls)) = 2 /\ Tail(calls)[2].value = rem.state
<1> DEFINE calls == Setters(i, rem)
<1>1. CASE rem = Store!NeverRendered
  <2>1. calls = <<Call("label", DefaultLabel), Call("icon", Null)>>
    BY <1>1 DEF Setters, Baseline
  <2>2. Call("icon", Null) \in IconCalls
    BY DEF Call, IconCalls, IconValues
  <2>3. <<Call("icon", Null)>> \in Remainders
    BY <2>2 DEF Remainders
  <2>4. rem.text = Absent /\ rem.icon = Absent /\ rem.state = Absent
    BY <1>1 DEF Store!NeverRendered
  <2> HIDE DEF calls
  <2> QED
    BY <2>1, <2>3, <2>4, Rows DEF Call, calls
<1>2. CASE rem \in Appearances
  <2>1. rem # Store!NeverRendered /\ rem.icon # Absent /\ rem.text # Absent
    BY <1>2, ActionsAssumption DEF Appearances, IconValues, Store!NeverRendered
  <2>2. /\ rem.icon \in IconValues /\ rem.text \in Texts
        /\ rem.state # Absent => rem.state \in KeyStates
    BY <1>2 DEF Appearances, StateValues
  <2> DEFINE l == Call("label", rem.text)
             c == Call("icon", rem.icon)
             d == Call("state", rem.state)
  <2>3. c \in IconCalls /\ (rem.state # Absent => d \in StateCalls)
    BY <2>2 DEF Call, IconCalls, StateCalls
  <2>4. /\ <<c>> \in Remainders
        /\ rem.state # Absent => <<c, d>> \in Remainders
    BY <2>3 DEF Remainders
  <2>5. /\ l.field = "label" /\ l.value = rem.text
        /\ c.field = "icon" /\ c.value = rem.icon
        /\ d.value = rem.state
    BY DEF Call
  <2>6. CASE IsKey(i) /\ rem.state # Absent
    <3>1. calls = (<<l>> \o <<c>>) \o <<d>>
      BY <2>1, <2>6 DEF Setters, CallIfSet
    <3> HIDE DEF calls, l, c, d
    <3>2. (<<l>> \o <<c>>) \o <<d>> = <<l, c, d>>
      BY Rows, Zenon
    <3>3. calls = <<l, c, d>>
      BY <3>1, <3>2
    <3>4. /\ Head(<<l, c, d>>) = l /\ Tail(<<l, c, d>>) = <<c, d>> /\ <<c, d>> # <<>>
          /\ <<c, d>>[1] = c /\ <<c, d>>[2] = d /\ Len(<<c, d>>) = 2
      OBVIOUS
    <3>5. Head(calls) = l /\ Tail(calls) = <<c, d>>
      BY <3>3, <3>4
    <3> QED
      BY <2>1, <2>2, <2>4, <2>5, <2>6, <3>4, <3>5 DEF calls
  <2>7. CASE ~(IsKey(i) /\ rem.state # Absent)
    <3>1. calls = (<<l>> \o <<c>>) \o <<>>
      BY <2>1, <2>7 DEF Setters, CallIfSet
    <3> HIDE DEF calls, l, c, d
    <3>2. (<<l>> \o <<c>>) \o <<>> = <<l, c>>
      BY Rows, Zenon
    <3>3. calls = <<l, c>>
      BY <3>1, <3>2
    <3>4. /\ Head(<<l, c>>) = l /\ Tail(<<l, c>>) = <<c>> /\ <<c>> # <<>> /\ <<c>>[1] = c
      OBVIOUS
    <3>5. Head(calls) = l /\ Tail(calls) = <<c>>
      BY <3>3, <3>4
    <3> QED
      BY <2>1, <2>2, <2>4, <2>5, <2>7, <3>4, <3>5 DEF calls
  <2> QED
    BY <2>6, <2>7
<1> QED
  BY <1>1, <1>2

(* What a call does to an instance, and to no other.                       *)
LEMMA ProceedEffect ==
  ASSUME ActionsTypeOK, NEW i \in Instances, NEW field \in {"label", "icon", "state"}, NEW value,
         NEW queue, shown' = [shown EXCEPT ![i][field] = value],
         pending' = [pending EXCEPT ![i] = queue]
  PROVE  /\ shown'[i] = [label |-> IF field = "label" THEN value ELSE shown[i].label,
                         icon  |-> IF field = "icon" THEN value ELSE shown[i].icon,
                         state |-> IF field = "state" THEN value ELSE shown[i].state]
         /\ pending'[i] = queue
         /\ shown' = [j \in Instances |-> shown'[j]]
         /\ pending' = [j \in Instances |-> pending'[j]]
         /\ \A j \in Instances \ {i} : shown'[j] = shown[j] /\ pending'[j] = pending[j]
<1>1. shown \in [Instances -> Faces] /\ pending \in [Instances -> Seq(Remainders)]
  BY DEF ActionsTypeOK
<1>2. /\ shown' = [j \in Instances |-> shown'[j]]
      /\ pending' = [j \in Instances |-> pending'[j]]
      /\ pending'[i] = queue
      /\ \A j \in Instances \ {i} : shown'[j] = shown[j] /\ pending'[j] = pending[j]
  BY <1>1
<1>3. shown[i] \in Faces /\ shown'[i] = [shown[i] EXCEPT ![field] = value]
  BY <1>1
<1>4. shown'[i] = [label |-> IF field = "label" THEN value ELSE shown[i].label,
                   icon  |-> IF field = "icon" THEN value ELSE shown[i].icon,
                   state |-> IF field = "state" THEN value ELSE shown[i].state]
  <2>1. CASE field = "label"
    BY <1>3, <2>1 DEF Faces
  <2>2. CASE field = "icon"
    BY <1>3, <2>2 DEF Faces
  <2>3. CASE field = "state"
    BY <1>3, <2>3 DEF Faces
  <2> QED
    BY <2>1, <2>2, <2>3
<1> QED
  BY <1>2, <1>4

-----------------------------------------------------------------------------
(* The store.                                                              *)

LEMMA RememberedShape ==
  ASSUME ActionsTypeOK, NEW slot
  PROVE  Store!Get(store, slot) = Store!NeverRendered \/ Store!Get(store, slot) \in Appearances
  BY DEF ActionsTypeOK, Store!Get

(* An update leaves an appearance at its slot, and the others alone.       *)
LEMMA ApplyEffect ==
  ASSUME ActionsTypeOK, NEW update \in Updates
  PROVE  LET after == Store!Apply(store, update)
             slot == <<update.controller, update.position>>
         IN /\ \A s \in DOMAIN after : after[s] \in Appearances
            /\ Store!Get(after, slot) \in Appearances
            /\ \A s : s # slot => Store!Get(after, s) = Store!Get(store, s)
<1> DEFINE after == Store!Apply(store, update)
           slot == <<update.controller, update.position>>
           old == Store!Get(store, slot)
           merged == Store!Merge(old, update)
<1>1. /\ update.text \in Texts /\ update.icon \in IconValues
      /\ update.state \in StateValues
      /\ update.text # Absent /\ update.icon # Absent
  BY ActionsAssumption DEF Updates, IconValues, StateValues
<1>2. old.state \in StateValues
  BY RememberedShape DEF Appearances, StateValues, Store!NeverRendered
<1> HIDE DEF old
<1>3. merged \in Appearances
  BY <1>1, <1>2 DEF Store!Merge, Appearances
<1>4. /\ DOMAIN after = DOMAIN store \union {slot}
      /\ after[slot] = merged
      /\ \A s \in DOMAIN store : s # slot => after[s] = store[s]
  BY DEF Store!Apply, old
<1> HIDE DEF after, slot, merged
<1>5. \A s \in DOMAIN after : after[s] \in Appearances
  BY <1>3, <1>4 DEF ActionsTypeOK
<1>6. Store!Get(after, slot) \in Appearances
  BY <1>4, <1>5 DEF Store!Get
<1>7. \A s : s # slot => Store!Get(after, s) = Store!Get(store, s)
  BY <1>4 DEF Store!Get
<1> QED
  BY <1>5, <1>6, <1>7 DEF after, slot

-----------------------------------------------------------------------------
(* The steps.                                                              *)

(* A rendering makes the instance come to what it renders.                 *)
LEMMA RenderSettles ==
  ASSUME ActionsTypeOK, NEW i \in Instances,
         NEW rem, rem = Store!NeverRendered \/ rem \in Appearances,
         Render(i, rem)
  PROVE  /\ pending' \in [Instances -> Seq(Remainders)]
         /\ shown' \in [Instances -> Faces]
         /\ shown'[i].label = IF rem.text = Absent THEN DefaultLabel ELSE rem.text
         /\ IconComesTo(pending'[i], shown'[i].icon, IF rem.icon = Absent THEN Null ELSE rem.icon)
         /\ (IsKey(i) /\ rem.state # Absent) =>
              StateComesTo(pending'[i], shown'[i].state, rem.state)
         /\ \A j \in Instances \ {i} : shown'[j] = shown[j] /\ pending'[j] = pending[j]
<1> DEFINE calls == Setters(i, rem)
           r == Tail(calls)
<1>1. /\ Head(calls).field = "label"
      /\ Head(calls).value = IF rem.text = Absent THEN DefaultLabel ELSE rem.text
      /\ Head(calls).value \in Texts \union {DefaultLabel}
      /\ r # <<>> /\ r \in Remainders
      /\ r[1].field = "icon"
      /\ r[1].value = IF rem.icon = Absent THEN Null ELSE rem.icon
      /\ (IsKey(i) /\ rem.state # Absent) => Len(r) = 2 /\ r[2].value = rem.state
  BY SettersShape
<1>2. Proceed(i, calls, pending[i])
  BY DEF Render
<1> HIDE DEF calls
<1>3. /\ shown'[i] = [label |-> Head(calls).value, icon |-> shown[i].icon, state |-> shown[i].state]
      /\ pending'[i] = Append(pending[i], r)
      /\ shown' = [j \in Instances |-> shown'[j]]
      /\ pending' = [j \in Instances |-> pending'[j]]
      /\ \A j \in Instances \ {i} : shown'[j] = shown[j] /\ pending'[j] = pending[j]
  <2>1. PICK field, value, queue :
          /\ field = Head(calls).field /\ value = Head(calls).value
          /\ queue = IF Tail(calls) = <<>> THEN pending[i] ELSE Append(pending[i], Tail(calls))
    OBVIOUS
  <2>2. shown' = [shown EXCEPT ![i][field] = value] /\ pending' = [pending EXCEPT ![i] = queue]
    BY <1>2, <2>1 DEF Proceed
  <2>3. field = "label"
    BY <1>1, <2>1
  <2>4. /\ shown'[i] = [label |-> IF field = "label" THEN value ELSE shown[i].label,
                        icon  |-> IF field = "icon" THEN value ELSE shown[i].icon,
                        state |-> IF field = "state" THEN value ELSE shown[i].state]
        /\ pending'[i] = queue
        /\ shown' = [j \in Instances |-> shown'[j]]
        /\ pending' = [j \in Instances |-> pending'[j]]
        /\ \A j \in Instances \ {i} : shown'[j] = shown[j] /\ pending'[j] = pending[j]
    BY <2>2, <2>3, ProceedEffect
  <2> QED
    BY <1>1, <2>1, <2>3, <2>4
<1> HIDE DEF r
<1>4. pending[i] \in Seq(Remainders) /\ shown[i] \in Faces
  BY DEF ActionsTypeOK
<1>5. pending'[i] \in Seq(Remainders)
  BY <1>1, <1>3, <1>4, AppendProperties
<1>6. shown'[i] \in Faces
  BY <1>1, <1>3, <1>4 DEF Faces
<1>7. pending' \in [Instances -> Seq(Remainders)] /\ shown' \in [Instances -> Faces]
  <2>1. \A j \in Instances : pending'[j] \in Seq(Remainders) /\ shown'[j] \in Faces
    BY <1>3, <1>5, <1>6 DEF ActionsTypeOK
  <2> QED
    BY <1>3, <2>1
<1>8. IconComesTo(pending'[i], shown'[i].icon, IF rem.icon = Absent THEN Null ELSE rem.icon)
  BY <1>1, <1>3, <1>4, LastDecides
<1>9. (IsKey(i) /\ rem.state # Absent) => StateComesTo(pending'[i], shown'[i].state, rem.state)
  BY <1>1, <1>3, <1>4, LastDecides
<1> QED
  BY <1>1, <1>3, <1>7, <1>8, <1>9

(* What is not touched goes on settling.                                   *)
LEMMA UntouchedSettles ==
  ASSUME NEW j, Settles(j), shown'[j] = shown[j], pending'[j] = pending[j],
         Store!Get(store', SlotOf[j]) = Store!Get(store, SlotOf[j])
  PROVE  Settles(j)'
<1>1. Remembered(j)' = Remembered(j)
  BY DEF Remembered
<1> QED
  BY <1>1 DEF Settles, Title, WantedIcon

LEMMA RenderedSettles ==
  ASSUME ActionsTypeOK, NEW i \in Instances, Render(i, Store!Get(store', SlotOf[i])),
         Store!Get(store', SlotOf[i]) = Store!NeverRendered
           \/ Store!Get(store', SlotOf[i]) \in Appearances
  PROVE  Settles(i)'
<1> DEFINE rem == Store!Get(store', SlotOf[i])
<1>1. /\ shown'[i].label = IF rem.text = Absent THEN DefaultLabel ELSE rem.text
      /\ IconComesTo(pending'[i], shown'[i].icon, IF rem.icon = Absent THEN Null ELSE rem.icon)
      /\ (IsKey(i) /\ rem.state # Absent) =>
              StateComesTo(pending'[i], shown'[i].state, rem.state)
  BY RenderSettles
<1>2. Remembered(i)' = rem
  BY DEF Remembered
<1> HIDE DEF rem
<1> QED
  BY <1>1, <1>2 DEF Settles, Title, WantedIcon

LEMMA InitActionsInv == ActionsInit => ActionsInv
<1> SUFFICES ASSUME ActionsInit PROVE ActionsInv
  OBVIOUS
<1>1. pending \in [Instances -> Seq(Remainders)]
  BY EmptySeq DEF ActionsInit
<1>2. shown \in [Instances -> Faces]
  <2>1. \A i \in Instances : Fresh(i) \in Faces
    BY ActionsAssumption DEF Fresh, Faces, IconValues, StateValues
  <2> QED
    BY <2>1 DEF ActionsInit
<1> QED
  BY <1>1, <1>2 DEF ActionsInit, ActionsInv, ActionsTypeOK, Store!EmptyStore

LEMMA WillAppearInv ==
  ASSUME ActionsInv, NEW i \in Instances, WillAppear(i)
  PROVE  ActionsInv'
<1> USE DEF ActionsInv
<1>1. store' = store /\ visible' = visible \union {i}
  BY DEF WillAppear
<1>2. Render(i, Store!Get(store', SlotOf[i]))
  BY <1>1 DEF WillAppear
<1>3. Store!Get(store', SlotOf[i]) = Store!NeverRendered
        \/ Store!Get(store', SlotOf[i]) \in Appearances
  BY <1>1, RememberedShape
<1>4. ActionsTypeOK'
  BY <1>1, <1>2, <1>3, RenderSettles DEF ActionsTypeOK
<1>5. Settles(i)'
  BY <1>2, <1>3, RenderedSettles
<1>6. ASSUME NEW j \in visible, j # i PROVE Settles(j)'
  <2>1. shown'[j] = shown[j] /\ pending'[j] = pending[j]
    BY <1>2, <1>3, <1>6, RenderSettles DEF ActionsTypeOK
  <2> QED
    BY <1>1, <2>1, UntouchedSettles
<1> QED
  BY <1>1, <1>4, <1>5, <1>6

LEMMA RenderUpdateInv ==
  ASSUME ActionsInv, NEW update \in Updates, RenderUpdate(update)
  PROVE  ActionsInv'
<1> USE DEF ActionsInv
<1> DEFINE slot == <<update.controller, update.position>>
           there == {i \in visible : SlotOf[i] = slot}
<1>1. /\ \A s \in DOMAIN store' : store'[s] \in Appearances
      /\ Store!Get(store', slot) \in Appearances
      /\ \A s : s # slot => Store!Get(store', s) = Store!Get(store, s)
      /\ visible' = visible
  BY ApplyEffect DEF RenderUpdate
<1>2. /\ \A i \in there : Render(i, Store!Get(store', slot))
      /\ there = {} => UNCHANGED <<pending, shown>>
  BY DEF RenderUpdate
<1>3. there \subseteq Instances /\ \A i \in there : SlotOf[i] = slot
  BY DEF ActionsTypeOK
<1> HIDE DEF slot
<1>4. ActionsTypeOK'
  <2>1. CASE there = {}
    BY <1>1, <1>2, <2>1 DEF ActionsTypeOK
  <2>2. ASSUME NEW i \in there PROVE ActionsTypeOK'
    <3>1. pending' \in [Instances -> Seq(Remainders)] /\ shown' \in [Instances -> Faces]
      BY <1>1, <1>2, <1>3, <2>2, RenderSettles
    <3> QED
      BY <1>1, <3>1 DEF ActionsTypeOK
  <2> QED
    BY <2>1, <2>2
<1>5. ASSUME NEW j \in visible PROVE Settles(j)'
  <2>1. CASE j \in there
    BY <1>1, <1>2, <1>3, <2>1, RenderedSettles
  <2>2. CASE j \notin there
    <3>1. Store!Get(store', SlotOf[j]) = Store!Get(store, SlotOf[j])
      BY <1>1, <1>5, <2>2
    <3>2. shown'[j] = shown[j] /\ pending'[j] = pending[j]
      <4>1. CASE there = {}
        BY <1>2, <4>1
      <4>2. ASSUME NEW i \in there PROVE shown'[j] = shown[j] /\ pending'[j] = pending[j]
        <5>1. j \in Instances \ {i}
          BY <1>5, <2>2, <4>2 DEF ActionsTypeOK
        <5> QED
          BY <1>1, <1>2, <1>3, <4>2, <5>1, RenderSettles
      <4> QED
        BY <4>1, <4>2
    <3> QED
      BY <1>5, <3>1, <3>2, UntouchedSettles
  <2> QED
    BY <2>1, <2>2
<1> QED
  BY <1>1, <1>4, <1>5

LEMMA SetterAnsweredInv ==
  ASSUME ActionsInv, NEW i \in Instances, SetterAnswered(i)
  PROVE  ActionsInv'
<1> USE DEF ActionsInv
<1> DEFINE q == pending[i]
           h == Head(q)
           f == Head(h).field
           v == Head(h).value
<1>1. q \in Seq(Remainders) /\ q # <<>> /\ shown[i] \in Faces /\ UNCHANGED <<visible, store>>
  BY DEF SetterAnswered, ActionsTypeOK
<1>2. h \in Remainders /\ Answered(q) \in Seq(Remainders)
  BY <1>1, AnsweredRow
<1> HIDE DEF q
<1>3. /\ f = h[1].field /\ v = h[1].value
      /\ f \in {"icon", "state"}
      /\ f = "icon" => v \in IconValues
      /\ f = "state" => v \in StateValues
  <2>1. Head(h) = h[1]
    BY <1>2 DEF Remainders
  <2> QED
    BY <1>2, <2>1, RemainderShape DEF StateValues
<1>4. Proceed(i, h, Tail(q))
  BY DEF SetterAnswered, q
<1> HIDE DEF h, f, v
<1>5. /\ shown'[i] = [label |-> IF f = "label" THEN v ELSE shown[i].label,
                      icon  |-> IF f = "icon" THEN v ELSE shown[i].icon,
                      state |-> IF f = "state" THEN v ELSE shown[i].state]
      /\ pending'[i] = Answered(q)
      /\ shown' = [j \in Instances |-> shown'[j]]
      /\ pending' = [j \in Instances |-> pending'[j]]
      /\ \A j \in Instances \ {i} : shown'[j] = shown[j] /\ pending'[j] = pending[j]
  <2>1. PICK field, value, queue : field = f /\ value = v /\ queue = Answered(q)
    OBVIOUS
  <2>2. shown' = [shown EXCEPT ![i][field] = value] /\ pending' = [pending EXCEPT ![i] = queue]
    BY <1>4, <2>1 DEF Proceed, Answered, f, v, h
  <2>3. field \in {"label", "icon", "state"}
    BY <1>3, <2>1
  <2>4. /\ shown'[i] = [label |-> IF field = "label" THEN value ELSE shown[i].label,
                        icon  |-> IF field = "icon" THEN value ELSE shown[i].icon,
                        state |-> IF field = "state" THEN value ELSE shown[i].state]
        /\ pending'[i] = queue
        /\ shown' = [j \in Instances |-> shown'[j]]
        /\ pending' = [j \in Instances |-> pending'[j]]
        /\ \A j \in Instances \ {i} : shown'[j] = shown[j] /\ pending'[j] = pending[j]
    BY <2>2, <2>3, ProceedEffect
  <2> QED
    BY <2>1, <2>4
<1>6. shown'[i] \in Faces /\ shown'[i].label = shown[i].label
  BY <1>1, <1>3, <1>5 DEF Faces
<1>7. ActionsTypeOK'
  <2>1. \A j \in Instances : pending'[j] \in Seq(Remainders) /\ shown'[j] \in Faces
    BY <1>2, <1>5, <1>6 DEF ActionsTypeOK
  <2> QED
    BY <1>1, <1>5, <2>1 DEF ActionsTypeOK
<1>8. ASSUME i \in visible PROVE Settles(i)'
  <2>1. Settles(i) /\ Remembered(i)' = Remembered(i)
    BY <1>1, <1>8 DEF Remembered
  <2>2. shown'[i].label = Title(i)'
    BY <1>6, <2>1 DEF Settles, Title
  <2>3. IconComesTo(pending'[i], shown'[i].icon, WantedIcon(i))
    <3>1. IconComesTo(q, shown[i].icon, WantedIcon(i))
      BY <2>1 DEF Settles, q
    <3>2. shown'[i].icon = IF h[1].field = "icon" THEN h[1].value ELSE shown[i].icon
      BY <1>3, <1>5
    <3> QED
      BY <1>1, <1>5, <3>1, <3>2, AnsweredIcon DEF h
  <2>4. ASSUME IsKey(i), Remembered(i).state # Absent
        PROVE  StateComesTo(pending'[i], shown'[i].state, Remembered(i).state)
    <3>1. StateComesTo(q, shown[i].state, Remembered(i).state)
      BY <2>1, <2>4 DEF Settles, q
    <3>2. shown'[i].state = IF h[1].field = "state" THEN h[1].value ELSE shown[i].state
      BY <1>3, <1>5
    <3> QED
      BY <1>1, <1>5, <3>1, <3>2, AnsweredState DEF h
  <2> QED
    BY <2>1, <2>2, <2>3, <2>4 DEF Settles, WantedIcon
<1>9. ASSUME NEW j \in visible, j # i PROVE Settles(j)'
  <2>1. shown'[j] = shown[j] /\ pending'[j] = pending[j]
    BY <1>5, <1>9 DEF ActionsTypeOK
  <2> QED
    BY <1>1, <1>9, <2>1, UntouchedSettles
<1> QED
  BY <1>1, <1>7, <1>8, <1>9

LEMMA NextActionsInv == ActionsInv /\ [ActionsNext]_actionsVars => ActionsInv'
<1> SUFFICES ASSUME ActionsInv, [ActionsNext]_actionsVars PROVE ActionsInv'
  OBVIOUS
<1>1. ASSUME NEW i \in Instances, WillAppear(i) PROVE ActionsInv'
  BY <1>1, WillAppearInv
<1>2. ASSUME NEW i \in Instances, WillDisappear(i) PROVE ActionsInv'
  <2>1. visible' \subseteq visible /\ UNCHANGED <<store, pending, shown>>
    BY <1>2 DEF WillDisappear
  <2>2. ASSUME NEW j \in visible' PROVE Settles(j)'
    BY <2>1, <2>2, UntouchedSettles DEF ActionsInv
  <2> QED
    BY <2>1, <2>2 DEF ActionsInv, ActionsTypeOK
<1>3. ASSUME NEW i \in Instances, SetterAnswered(i) PROVE ActionsInv'
  BY <1>3, SetterAnsweredInv
<1>4. ASSUME NEW update \in Updates, RenderUpdate(update) PROVE ActionsInv'
  BY <1>4, RenderUpdateInv
<1>5. CASE PluginRestarts
  <2>1. pending' \in [Instances -> Seq(Remainders)]
    BY <1>5, EmptySeq DEF PluginRestarts
  <2> QED
    BY <1>5, <2>1 DEF PluginRestarts, ActionsInv, ActionsTypeOK, Store!EmptyStore
<1>6. CASE UNCHANGED actionsVars
  <2>1. UNCHANGED <<visible, store, pending, shown>>
    BY <1>6 DEF actionsVars
  <2>2. ASSUME NEW j \in visible' PROVE Settles(j)'
    BY <2>1, <2>2, UntouchedSettles DEF ActionsInv
  <2> QED
    BY <2>1, <2>2 DEF ActionsInv, ActionsTypeOK
<1> QED
  BY <1>1, <1>2, <1>3, <1>4, <1>5, <1>6 DEF ActionsNext

-----------------------------------------------------------------------------

(* However appearances, updates and answers overlap, what is on the deck   *)
(* has the title that is remembered for it, at every moment.               *)
THEOREM TitleFollowsStore == ActionsSpec => []TitleIsNeverStale
<1>1. ActionsInit => ActionsInv
  BY InitActionsInv
<1>2. ActionsInv /\ [ActionsNext]_actionsVars => ActionsInv'
  BY NextActionsInv
<1>3. ActionsInv => TitleIsNeverStale
  BY DEF ActionsInv, Settles, TitleIsNeverStale
<1> QED
  BY <1>1, <1>2, <1>3, PTL DEF ActionsSpec

(* An instance on the deck with no call under way shows the icon and the   *)
(* state that are remembered for it: of any number of renderings that      *)
(* overlapped, the last one has won.                                       *)
THEOREM LastRenderingHasWon == ActionsSpec => []LastRenderingWins
<1>1. ActionsInit => ActionsInv
  BY InitActionsInv
<1>2. ActionsInv /\ [ActionsNext]_actionsVars => ActionsInv'
  BY NextActionsInv
<1>3. ActionsInv => LastRenderingWins
  <2> SUFFICES ASSUME ActionsInv, NEW i \in visible, pending[i] = <<>>
               PROVE  ShowsWhatIsRemembered(i)
    BY DEF LastRenderingWins
  <2>1. Settles(i) /\ DOMAIN pending[i] = {}
    BY DEF ActionsInv
  <2>2. shown[i].icon = WantedIcon(i)
    BY <2>1 DEF Settles, IconComesTo
  <2>3. (IsKey(i) /\ Remembered(i).state # Absent) => shown[i].state = Remembered(i).state
    BY <2>1 DEF Settles, StateComesTo
  <2> QED
    BY <2>2, <2>3 DEF ShowsWhatIsRemembered, WantedIcon
<1> QED
  BY <1>1, <1>2, <1>3, PTL DEF ActionsSpec
=============================================================================
