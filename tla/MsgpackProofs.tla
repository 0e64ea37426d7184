---------------------------- MODULE MsgpackProofs ----------------------------
(***************************************************************************)
(* What the parser of Msgpack does with what its packer wrote, for values  *)
(* of any size and whatever else is in the input: it reads them back, and  *)
(* it makes no difference where the input was cut in between.              *)
(***************************************************************************)
EXTENDS Msgpack, WellFoundedInduction, TLAPS

-----------------------------------------------------------------------------
(* Numbers and sequences *)

(* A set of numbers has a least one.                                       *)
LEMMA LeastNumber ==
  ASSUME NEW S \in SUBSET Nat, S # {}
  PROVE  \E k \in S : \A j \in S : k <= j
<1>1. PICK k \in S : \A j \in S : ~(<<j, k>> \in OpToRel(<, Nat))
  BY NatLessThanWellFounded, WFMin
<1>2. \A j \in S : ~(j < k)
  BY <1>1 DEF OpToRel
<1> QED BY <1>2

(* A set with 0 that has with each number the next has all of them.        *)
LEMMA Upward ==
  ASSUME NEW S, 0 \in S, \A n \in Nat : n \in S => n + 1 \in S
  PROVE  \A n \in Nat : n \in S
<1> DEFINE T == Nat \ S
<1> SUFFICES ASSUME T # {} PROVE FALSE
  OBVIOUS
<1>1. PICK k \in T : \A j \in T : k <= j
  <2>1. T \in SUBSET Nat
    OBVIOUS
  <2> HIDE DEF T
  <2> QED BY <2>1, LeastNumber
<1>2. k \in Nat /\ k # 0
  OBVIOUS
<1>3. k - 1 \in Nat /\ ~(k <= k - 1) /\ k - 1 + 1 = k
  BY <1>2
<1>4. k - 1 \notin T
  BY <1>1, <1>3
<1> QED BY <1>3, <1>4

(* What holds of `hi' and goes from each number to the one before it holds *)
(* down to `lo'.                                                           *)
LEMMA Downward ==
  ASSUME NEW S, NEW lo \in Nat, NEW hi \in Nat, lo <= hi, hi \in S,
         \A k \in lo + 1 .. hi : k \in S => k - 1 \in S
  PROVE  \A k \in lo .. hi : k \in S
<1> DEFINE T == {n \in Nat : n <= hi - lo => hi - n \in S}
<1>1. 0 \in T
  OBVIOUS
<1>2. ASSUME NEW n \in Nat, n \in T PROVE n + 1 \in T
  <2> SUFFICES ASSUME n + 1 <= hi - lo PROVE hi - (n + 1) \in S
    OBVIOUS
  <2>1. hi - n \in lo + 1 .. hi /\ hi - n \in S /\ hi - (n + 1) = (hi - n) - 1
    BY <1>2
  <2> QED BY <2>1
<1> HIDE DEF T
<1>3. \A n \in Nat : n \in T
  BY <1>1, <1>2, Upward
<1> SUFFICES ASSUME NEW k \in lo .. hi PROVE k \in S
  OBVIOUS
<1>4. hi - k \in Nat /\ hi - k <= hi - lo /\ hi - (hi - k) = k
  OBVIOUS
<1> QED BY <1>3, <1>4 DEF T

(* A sequence of whatever members                                          *)
IsSeq(s) == Len(s) \in Nat /\ s = [i \in 1 .. Len(s) |-> s[i]]

(* A sequence of members of a set is one of what it has.                   *)
LEMMA SeqIs == ASSUME NEW S, NEW s \in Seq(S) PROVE IsSeq(s)
BY DEF IsSeq

(* A sequence is one of its own members.                                   *)
LEMMA SeqOwn == ASSUME NEW s, IsSeq(s) PROVE s \in Seq({s[i] : i \in 1 .. Len(s)})
BY DEF IsSeq

(* A sequence is one of the members of a larger set.                       *)
LEMMA SeqMore == ASSUME NEW s, IsSeq(s), NEW e
                 PROVE  s \in Seq({s[i] : i \in 1 .. Len(s)} \cup {e})
<1>1. s \in Seq({s[i] : i \in 1 .. Len(s)})
  BY SeqOwn
<1> QED BY <1>1

(* Append to a sequence of anything.                                       *)
LEMMA AppendIs ==
  ASSUME NEW s, IsSeq(s), NEW e
  PROVE  /\ IsSeq(Append(s, e))
         /\ Len(Append(s, e)) = Len(s) + 1
         /\ Append(s, e)[Len(s) + 1] = e
         /\ \A i \in 1 .. Len(s) : Append(s, e)[i] = s[i]
         /\ Append(s, e) # <<>>
<1> DEFINE S == {s[i] : i \in 1 .. Len(s)} \cup {e}
<1>1. s \in Seq(S) /\ e \in S
  BY SeqMore
<1> HIDE DEF S
<1>2. /\ Append(s, e) \in Seq(S)
      /\ Len(Append(s, e)) = Len(s) + 1
      /\ Append(s, e)[Len(s) + 1] = e
      /\ \A i \in 1 .. Len(s) : Append(s, e)[i] = s[i]
  BY <1>1
<1>3. Append(s, e) # <<>>
  BY <1>1, <1>2
<1> QED BY <1>2, <1>3, SeqIs

(* The first so many of a sequence of anything.                            *)
LEMMA FirstIs ==
  ASSUME NEW s, IsSeq(s), NEW n \in Nat, n <= Len(s)
  PROVE  /\ IsSeq(SubSeq(s, 1, n))
         /\ Len(SubSeq(s, 1, n)) = n
         /\ \A i \in 1 .. n : SubSeq(s, 1, n)[i] = s[i]
<1> DEFINE S == {s[i] : i \in 1 .. Len(s)}
<1>1. s \in Seq(S)
  BY SeqOwn
<1> HIDE DEF S
<1>2. /\ SubSeq(s, 1, n) \in Seq(S)
      /\ Len(SubSeq(s, 1, n)) = n
      /\ \A i \in 1 .. n : SubSeq(s, 1, n)[i] = s[i]
  BY <1>1
<1> QED BY <1>2, SeqIs

(* Sequences of equal length with the same elements are the same.          *)
LEMMA SameSeq ==
  ASSUME NEW s, NEW t, IsSeq(s), IsSeq(t), Len(s) = Len(t),
         \A i \in 1 .. Len(s) : s[i] = t[i]
  PROVE  s = t
<1> DEFINE F == [i \in 1 .. Len(s) |-> s[i]]
           G == [i \in 1 .. Len(s) |-> t[i]]
<1>1. s = F
  BY DEF IsSeq
<1>2. t = G
  BY DEF IsSeq
<1>3. F = G
  OBVIOUS
<1> HIDE DEF F, G
<1> QED BY <1>1, <1>2, <1>3

-----------------------------------------------------------------------------
(* The turns of the parser's loop *)

(* One turn, or none at the end                                            *)
OneTurn(d, data, len) == IF Stops(d, len) THEN d ELSE Turn(d, data)

(* The equation of Turns, up to number m.                                  *)
UpTo(f, m, c, data, len) ==
  f = [n \in 0 .. m |-> IF n = 0 THEN c ELSE OneTurn(f[n - 1], data, len)]

(* There are as many turns as one likes.                                   *)
LEMMA UpToExists ==
  ASSUME NEW c, NEW data, NEW len
  PROVE  \A m \in Nat : \E f : UpTo(f, m, c, data, len)
<1> DEFINE S == {m \in Nat : \E f : UpTo(f, m, c, data, len)}
<1>1. 0 \in S
  <2>1. UpTo([n \in 0 .. 0 |-> c], 0, c, data, len)
    BY DEF UpTo
  <2> QED BY <2>1
<1>2. ASSUME NEW m \in Nat, m \in S PROVE m + 1 \in S
  <2>1. PICK f : UpTo(f, m, c, data, len)
    BY <1>2
  <2> DEFINE new == OneTurn(f[m], data, len)
             g   == [n \in 0 .. m + 1 |-> IF n = m + 1 THEN new ELSE f[n]]
  <2>2. ASSUME NEW n \in 0 .. m + 1
        PROVE  g[n] = IF n = 0 THEN c ELSE OneTurn(g[n - 1], data, len)
    <3>1. CASE n = 0
      <4>1. n \in 0 .. m /\ n # m + 1
        BY <3>1
      <4>2. f[n] = c
        BY <4>1, <3>1, <2>1 DEF UpTo
      <4> QED BY <4>1, <4>2, <3>1
    <3>2. CASE n = m + 1
      <4>1. n - 1 = m /\ n # 0 /\ m # m + 1 /\ m \in 0 .. m + 1
        BY <3>2
      <4>2. g[m] = f[m] /\ g[n] = new
        BY <4>1, <3>2
      <4> QED BY <4>1, <4>2
    <3>3. CASE n # 0 /\ n # m + 1
      <4>1. n \in 0 .. m /\ n - 1 \in 0 .. m + 1 /\ n - 1 # m + 1
        BY <3>3
      <4>2. f[n] = OneTurn(f[n - 1], data, len)
        BY <4>1, <3>3, <2>1 DEF UpTo
      <4>3. g[n] = f[n] /\ g[n - 1] = f[n - 1]
        BY <4>1, <3>3
      <4> HIDE DEF g
      <4> QED BY <4>2, <4>3, <3>3
    <3> QED BY <3>1, <3>2, <3>3
  <2>3. UpTo(g, m + 1, c, data, len)
    <3>1. g = [n \in 0 .. m + 1 |-> g[n]]
      OBVIOUS
    <3> HIDE DEF g
    <3> QED BY <3>1, <2>2 DEF UpTo
  <2> QED BY <2>3
<1> HIDE DEF S
<1>3. \A m \in Nat : m \in S
  BY <1>1, <1>2, Upward
<1> QED BY <1>3 DEF S

(* They do not depend on how many of them are asked for.                   *)
LEMMA UpToAgree ==
  ASSUME NEW c, NEW data, NEW len, NEW m \in Nat, NEW k \in Nat, NEW f, NEW g,
         UpTo(f, m, c, data, len), UpTo(g, k, c, data, len)
  PROVE  \A n \in Nat : n <= m /\ n <= k => f[n] = g[n]
<1> DEFINE S == {n \in Nat : n <= m /\ n <= k => f[n] = g[n]}
<1>1. 0 \in S
  BY DEF UpTo
<1>2. ASSUME NEW n \in Nat, n \in S PROVE n + 1 \in S
  <2> SUFFICES ASSUME n + 1 <= m, n + 1 <= k PROVE f[n + 1] = g[n + 1]
    OBVIOUS
  <2>1. n + 1 \in 0 .. m /\ n + 1 \in 0 .. k /\ n + 1 # 0 /\ n + 1 - 1 = n
    OBVIOUS
  <2>2. f[n] = g[n]
    BY <1>2
  <2>3. f[n + 1] = OneTurn(f[n], data, len)
    BY <2>1 DEF UpTo
  <2>4. g[n + 1] = OneTurn(g[n], data, len)
    BY <2>1 DEF UpTo
  <2> QED BY <2>2, <2>3, <2>4
<1> HIDE DEF S
<1>3. \A n \in Nat : n \in S
  BY <1>1, <1>2, Upward
<1> QED BY <1>3 DEF S

(* The equation of Turns.                                                  *)
Iterates(f, c, data, len) ==
  f = [n \in Nat |-> IF n = 0 THEN c ELSE OneTurn(f[n - 1], data, len)]

(* The turns, one after the other                                          *)
Run(c, data, len) == CHOOSE f : Iterates(f, c, data, len)

(* It has a solution.                                                      *)
LEMMA RunExists ==
  ASSUME NEW c, NEW data, NEW len
  PROVE  Iterates(Run(c, data, len), c, data, len)
<1> DEFINE F(m) == CHOOSE f : UpTo(f, m, c, data, len)
           g    == [n \in Nat |-> F(n)[n]]
<1>1. ASSUME NEW m \in Nat PROVE UpTo(F(m), m, c, data, len)
  BY UpToExists
<1> HIDE DEF F
<1>2. ASSUME NEW n \in Nat
      PROVE  g[n] = IF n = 0 THEN c ELSE OneTurn(g[n - 1], data, len)
  <2>1. CASE n = 0
    <3>1. F(0)[0] = c
      BY <1>1 DEF UpTo
    <3> QED BY <2>1, <3>1
  <2>2. CASE n # 0
    <3>1. n - 1 \in Nat /\ n - 1 <= n - 1 /\ n - 1 <= n /\ n \in 0 .. n
      BY <2>2
    <3>2. F(n)[n] = OneTurn(F(n)[n - 1], data, len)
      BY <1>1, <2>2, <3>1 DEF UpTo
    <3>3. F(n - 1)[n - 1] = F(n)[n - 1]
      BY <1>1, <3>1, UpToAgree
    <3> QED BY <2>2, <3>1, <3>2, <3>3
  <2> QED BY <2>1, <2>2
<1>3. Iterates(g, c, data, len)
  <2>1. g = [n \in Nat |-> g[n]]
    OBVIOUS
  <2> HIDE DEF g
  <2> QED BY <2>1, <1>2 DEF Iterates
<1> HIDE DEF g
<1> QED BY <1>3 DEF Run

(* What Run has.                                                           *)
LEMMA RunIs ==
  ASSUME NEW c, NEW data, NEW len
  PROVE  /\ Run(c, data, len)[0] = c
         /\ \A n \in Nat : Run(c, data, len)[n + 1] = OneTurn(Run(c, data, len)[n], data, len)
<1> DEFINE r == Run(c, data, len)
<1>1. Iterates(r, c, data, len)
  BY RunExists
<1> HIDE DEF r
<1>2. r[0] = c
  BY <1>1 DEF Iterates
<1>3. ASSUME NEW n \in Nat PROVE r[n + 1] = OneTurn(r[n], data, len)
  <2>1. n + 1 \in Nat /\ n + 1 # 0 /\ n + 1 - 1 = n
    OBVIOUS
  <2> QED BY <1>1, <2>1 DEF Iterates
<1> QED BY <1>2, <1>3 DEF r

(* The element of a set of one is that element.                            *)
LEMMA TheIs == ASSUME NEW x PROVE The({x}) = x
BY DEF The

(* Turns makes as many turns as bring it to a stop.                        *)
LEMMA TurnsIs ==
  ASSUME NEW c, NEW data, NEW len
  PROVE  Turns(c, data, len) =
           Run(c, data, len)[CHOOSE n \in {Stride * k : k \in 0 .. len - c.off} :
                               Stops(Run(c, data, len)[n], len)]
<1> DEFINE F == [f |-> CHOOSE f :
                   f = [n \in Nat |->
                          IF n = 0 THEN c
                          ELSE The({IF Stops(d, len) THEN d ELSE Turn(d, data) :
                                      d \in {f[n - 1]}})]].f
<1>1. ASSUME NEW x
      PROVE  The({IF Stops(d, len) THEN d ELSE Turn(d, data) : d \in {x}})
               = OneTurn(x, data, len)
  <2>1. {IF Stops(d, len) THEN d ELSE Turn(d, data) : d \in {x}} = {OneTurn(x, data, len)}
    BY DEF OneTurn
  <2> QED BY <2>1, TheIs
<1>2. ASSUME NEW f, NEW n \in Nat
      PROVE (IF n = 0 THEN c
             ELSE The({IF Stops(d, len) THEN d ELSE Turn(d, data) : d \in {f[n - 1]}}))
            = IF n = 0 THEN c ELSE OneTurn(f[n - 1], data, len)
  BY <1>1
<1>3. ASSUME NEW f
      PROVE  [n \in Nat |-> IF n = 0 THEN c
               ELSE The({IF Stops(d, len) THEN d ELSE Turn(d, data) : d \in {f[n - 1]}})]
             = [n \in Nat |-> IF n = 0 THEN c ELSE OneTurn(f[n - 1], data, len)]
  BY <1>2
<1>4. F = Run(c, data, len)
  BY <1>3 DEF Run, Iterates
<1> QED BY <1>4 DEF Turns

-----------------------------------------------------------------------------
(* The stack of arrays *)

(* Left(open) is such a k: all arrays behind the k-th wait for their last  *)
(* item, and the k-th, if there is one, waits for more.                    *)
IsLeft(open, k) == /\ k = 0 \/ open[k].count # 1
                   /\ \A j \in k + 1 .. Len(open) : open[j].count = 1

(* There is one array, or none, that waits for more than one item and is   *)
(* behind no other such.                                                   *)
LEMMA LeftIs ==
  ASSUME NEW open, Len(open) \in Nat
  PROVE  Left(open) \in 0 .. Len(open) /\ IsLeft(open, Left(open))
<1> DEFINE N == Len(open)
           T == {j \in Nat : j <= N /\ (N - j = 0 \/ open[N - j].count # 1)}
<1>1. N \in T /\ T \in SUBSET Nat
  OBVIOUS
<1>2. PICK j \in T : \A i \in T : j <= i
  <2> HIDE DEF T
  <2> QED BY <1>1, LeastNumber
<1>3. N - j \in 0 .. N
  OBVIOUS
<1>4. ASSUME NEW i \in N - j + 1 .. N PROVE open[i].count = 1
  <2>1. N - i \in Nat /\ N - i <= N /\ ~(j <= N - i) /\ N - (N - i) = i
    OBVIOUS
  <2> QED BY <1>2, <2>1
<1>5. N - j = 0 \/ open[N - j].count # 1
  OBVIOUS
<1>6. \E k \in 0 .. N : IsLeft(open, k)
  BY <1>3, <1>4, <1>5 DEF IsLeft
<1> QED BY <1>6 DEF Left, IsLeft

(* Two numbers cannot both be that.                                        *)
LEMMA LeftOnly ==
  ASSUME NEW open, Len(open) \in Nat, NEW k \in 0 .. Len(open), IsLeft(open, k)
  PROVE  Left(open) = k
<1>1. Left(open) \in 0 .. Len(open) /\ IsLeft(open, Left(open))
  BY LeftIs
<1>2. ~(k < Left(open)) /\ ~(Left(open) < k)
  BY <1>1 DEF IsLeft
<1> QED BY <1>1, <1>2

(* The equation of Completed: what the arrays down to the left-th become   *)
(* when obj completes the last one.                                        *)
Wraps(f, open, obj, left) ==
  f = [k \in left .. Len(open) |->
         IF k = Len(open) THEN obj
         ELSE Object("array", Append(open[k + 1].items, f[k + 1]))]

(* The arrays that an object completes are wrapped around it.              *)
LEMMA WrapsExists ==
  ASSUME NEW open, NEW obj, Len(open) \in Nat, NEW left \in 0 .. Len(open)
  PROVE  \E f : Wraps(f, open, obj, left)
<1> DEFINE N == Len(open)
           S == {k \in 0 .. N : \E f : Wraps(f, open, obj, k)}
<1>1. N \in S
  <2>1. Wraps([k \in N .. N |-> obj], open, obj, N)
    BY DEF Wraps
  <2> QED BY <2>1
<1>2. ASSUME NEW k \in left + 1 .. N, k \in S PROVE k - 1 \in S
  <2>1. PICK f : Wraps(f, open, obj, k)
    BY <1>2
  <2> DEFINE new == Object("array", Append(open[k].items, f[k]))
             g   == [i \in k - 1 .. N |-> IF i = k - 1 THEN new ELSE f[i]]
  <2>2. ASSUME NEW i \in k - 1 .. N
        PROVE  g[i] = IF i = N THEN obj ELSE Object("array", Append(open[i + 1].items, g[i + 1]))
    <3>1. CASE i = k - 1
      <4>1. i # N /\ i + 1 = k /\ k # k - 1 /\ k \in k - 1 .. N
        BY <3>1
      <4>2. g[k] = f[k] /\ g[i] = new
        BY <4>1, <3>1
      <4> QED BY <4>1, <4>2
    <3>2. CASE i # k - 1
      <4>1. i \in k .. N /\ (i # N => i + 1 \in k - 1 .. N /\ i + 1 # k - 1)
        BY <3>2
      <4>2. f[i] = IF i = N THEN obj ELSE Object("array", Append(open[i + 1].items, f[i + 1]))
        BY <4>1, <2>1 DEF Wraps
      <4>3. g[i] = f[i] /\ (i # N => g[i + 1] = f[i + 1])
        BY <4>1, <3>2
      <4> HIDE DEF g
      <4> QED BY <4>2, <4>3
    <3> QED BY <3>1, <3>2
  <2>3. Wraps(g, open, obj, k - 1)
    <3>1. g = [i \in k - 1 .. N |-> g[i]]
      OBVIOUS
    <3> HIDE DEF g
    <3> QED BY <3>1, <2>2 DEF Wraps
  <2>4. k - 1 \in 0 .. N
    OBVIOUS
  <2> QED BY <2>3, <2>4
<1>3. left \in Nat /\ N \in Nat /\ left <= N
  OBVIOUS
<1> HIDE DEF S, N
<1>4. \A k \in left .. N : k \in S
  BY <1>1, <1>2, <1>3, Downward
<1>5. left \in left .. N
  BY <1>3
<1> QED BY <1>4, <1>5 DEF S, N

(* What Completed is, by any solution of its equation.                     *)
LEMMA CompletedIs ==
  ASSUME NEW open, NEW obj, Len(open) \in Nat, NEW left \in 0 .. Len(open),
         NEW f, Wraps(f, open, obj, left)
  PROVE  Completed(open, obj, left) = f[left]
<1> DEFINE N == Len(open)
           g == CHOOSE g : Wraps(g, open, obj, left)
           S == {k \in left .. N : g[k] = f[k]}
<1>1. Wraps(g, open, obj, left)
  BY WrapsExists
<1>2. Completed(open, obj, left) = g[left]
  BY DEF Completed, Wraps
<1> HIDE DEF g
<1>3. N \in S
  BY <1>1 DEF Wraps
<1>4. ASSUME NEW k \in left + 1 .. N, k \in S PROVE k - 1 \in S
  <2>1. k - 1 \in left .. N /\ k - 1 # N /\ k - 1 + 1 = k
    OBVIOUS
  <2>2. g[k - 1] = Object("array", Append(open[k].items, g[k]))
    BY <1>1, <2>1 DEF Wraps
  <2>3. f[k - 1] = Object("array", Append(open[k].items, f[k]))
    BY <2>1 DEF Wraps
  <2> QED BY <1>4, <2>1, <2>2, <2>3
<1>5. left \in Nat /\ N \in Nat /\ left <= N
  OBVIOUS
<1> HIDE DEF S, N
<1>6. \A k \in left .. N : k \in S
  BY <1>3, <1>4, <1>5, Downward
<1>7. left \in left .. N
  BY <1>5
<1> QED BY <1>2, <1>6, <1>7 DEF S

(* What is on the stack, and of the whole, when obj has been pushed        *)
Pushed(open, obj, left) ==
  IF left = 0 THEN [open |-> <<>>, data |-> <<Completed(open, obj, 0)>>]
  ELSE [open |-> Append(SubSeq(open, 1, left - 1),
                        [items |-> Append(open[left].items, Completed(open, obj, left)),
                         count |-> open[left].count - 1]),
        data |-> <<>>]

(* PushItem without the set that is there for TLC.                         *)
LEMMA PushItemIs ==
  ASSUME NEW open, NEW obj
  PROVE  PushItem(open, obj) = Pushed(open, obj, Left(open))
<1> DEFINE S == {Pushed(open, obj, left) : left \in {Left(open)}}
<1>1. PushItem(open, obj) = The(S)
  BY DEF PushItem, Pushed
<1>2. S = {Pushed(open, obj, Left(open))}
  OBVIOUS
<1> HIDE DEF S
<1> QED BY <1>1, <1>2, TheIs

(* An object that is in no array is complete.                              *)
LEMMA PushAlone ==
  ASSUME NEW obj
  PROVE  PushItem(<<>>, obj) = [open |-> <<>>, data |-> <<obj>>]
<1>1. Len(<<>>) = 0
  OBVIOUS
<1>2. Left(<<>>) = 0
  <2>1. IsLeft(<<>>, 0)
    BY <1>1 DEF IsLeft
  <2> QED BY <1>1, <2>1, LeftOnly
<1>3. Wraps([k \in 0 .. 0 |-> obj], <<>>, obj, 0)
  BY <1>1 DEF Wraps
<1>4. Completed(<<>>, obj, 0) = obj
  BY <1>1, <1>3, CompletedIs
<1> QED BY <1>2, <1>4, PushItemIs DEF Pushed

(* An array that waits for more takes the object in.                       *)
LEMMA PushMore ==
  ASSUME NEW open, NEW sp, NEW obj, IsSeq(open), sp.count # 1
  PROVE  PushItem(Append(open, sp), obj) =
           [open |-> Append(open, [items |-> Append(sp.items, obj), count |-> sp.count - 1]),
            data |-> <<>>]
<1> DEFINE stack == Append(open, sp)
           n     == Len(open) + 1
<1>1. /\ IsSeq(stack) /\ Len(stack) = n /\ stack[n] = sp
      /\ \A i \in 1 .. Len(open) : stack[i] = open[i]
  BY AppendIs
<1>2. n \in Nat /\ n # 0 /\ n - 1 = Len(open) /\ Len(open) \in Nat /\ n \in 0 .. n
  BY DEF IsSeq
<1>3. SubSeq(stack, 1, n - 1) = open
  <2>1. n - 1 <= Len(stack) /\ n - 1 \in Nat
    BY <1>1, <1>2
  <2>2. /\ IsSeq(SubSeq(stack, 1, n - 1)) /\ Len(SubSeq(stack, 1, n - 1)) = n - 1
        /\ \A i \in 1 .. n - 1 : SubSeq(stack, 1, n - 1)[i] = stack[i]
    BY <1>1, <2>1, FirstIs
  <2> HIDE DEF stack, n
  <2> QED BY <1>1, <1>2, <2>2, SameSeq
<1> HIDE DEF stack, n
<1>4. Left(stack) = n
  <2>1. IsLeft(stack, n)
    BY <1>1, <1>2 DEF IsLeft
  <2> QED BY <1>1, <1>2, <2>1, LeftOnly
<1>5. Completed(stack, obj, n) = obj
  <2>1. Wraps([k \in n .. n |-> obj], stack, obj, n)
    BY <1>1, <1>2 DEF Wraps
  <2>2. n \in n .. n
    BY <1>2
  <2> QED BY <1>1, <1>2, <2>1, <2>2, CompletedIs
<1>6. PushItem(stack, obj) =
        [open |-> Append(open, [items |-> Append(sp.items, obj), count |-> sp.count - 1]),
         data |-> <<>>]
  BY <1>1, <1>2, <1>3, <1>4, <1>5, PushItemIs DEF Pushed
<1> QED BY <1>6 DEF stack

(* An array that waits for this object only is complete with it.           *)
LEMMA PushLast ==
  ASSUME NEW open, NEW sp, NEW obj, IsSeq(open), sp.count = 1
  PROVE  PushItem(Append(open, sp), obj) =
           PushItem(open, Object("array", Append(sp.items, obj)))
<1> DEFINE stack == Append(open, sp)
           whole == Object("array", Append(sp.items, obj))
           m     == Len(open)
           n     == m + 1
           L     == Left(open)
<1>1. /\ IsSeq(stack) /\ Len(stack) = n /\ stack[n] = sp
      /\ \A i \in 1 .. m : stack[i] = open[i]
  BY AppendIs
<1>2. m \in Nat /\ n \in Nat /\ n = m + 1
  BY DEF IsSeq
<1>3. L \in 0 .. m /\ IsLeft(open, L)
  BY <1>2, LeftIs
<1> HIDE DEF stack, L
<1>4. Left(stack) = L
  <2>1. L # 0 => stack[L] = open[L]
    BY <1>1, <1>3
  <2>2. ASSUME NEW j \in L + 1 .. n PROVE stack[j].count = 1
    <3>1. CASE j = n
      BY <3>1, <1>1
    <3>2. CASE j # n
      <4>1. j \in 1 .. m /\ j \in L + 1 .. m
        BY <3>2, <1>2, <1>3
      <4> QED BY <4>1, <1>1, <1>3 DEF IsLeft
    <3> QED BY <3>1, <3>2
  <2>3. IsLeft(stack, L)
    BY <1>1, <1>3, <2>1, <2>2 DEF IsLeft
  <2>4. L \in 0 .. Len(stack) /\ Len(stack) \in Nat
    BY <1>1, <1>2, <1>3
  <2> QED BY <2>3, <2>4, LeftOnly
<1>5. Completed(stack, obj, L) = Completed(open, whole, L)
  <2>1. PICK f : Wraps(f, open, whole, L)
    BY <1>2, <1>3, WrapsExists
  <2>2. Completed(open, whole, L) = f[L]
    BY <1>2, <1>3, <2>1, CompletedIs
  <2> DEFINE g == [k \in L .. n |-> IF k = n THEN obj ELSE f[k]]
  <2>3. ASSUME NEW k \in L .. n
        PROVE  g[k] = IF k = n THEN obj ELSE Object("array", Append(stack[k + 1].items, g[k + 1]))
    <3>1. CASE k = n
      BY <3>1
    <3>2. CASE k = m
      <4>1. k # n /\ k + 1 = n /\ n \in L .. n /\ k \in L .. m
        BY <3>2, <1>2, <1>3
      <4>2. f[k] = whole
        BY <3>2, <4>1, <2>1 DEF Wraps
      <4>3. g[k] = f[k] /\ g[k + 1] = obj
        BY <4>1
      <4> HIDE DEF g
      <4> QED BY <4>1, <4>2, <4>3, <1>1
    <3>3. CASE k # n /\ k # m
      <4>1. k \in L .. m /\ k + 1 \in L .. n /\ k + 1 # n /\ k + 1 \in 1 .. m
        BY <3>3, <1>2, <1>3
      <4>2. f[k] = Object("array", Append(open[k + 1].items, f[k + 1]))
        BY <3>3, <4>1, <2>1 DEF Wraps
      <4>3. g[k] = f[k] /\ g[k + 1] = f[k + 1] /\ stack[k + 1] = open[k + 1]
        BY <3>3, <4>1, <1>1
      <4> HIDE DEF g
      <4> QED BY <3>3, <4>2, <4>3
    <3> QED BY <3>1, <3>2, <3>3
  <2>4. Wraps(g, stack, obj, L)
    <3>1. g = [k \in L .. n |-> g[k]]
      OBVIOUS
    <3> HIDE DEF g
    <3> QED BY <3>1, <2>3, <1>1 DEF Wraps
  <2>5. g[L] = f[L]
    BY <1>2, <1>3
  <2>6. L \in 0 .. Len(stack) /\ Len(stack) \in Nat
    BY <1>1, <1>2, <1>3
  <2> HIDE DEF g
  <2>7. Completed(stack, obj, L) = g[L]
    BY <2>4, <2>6, CompletedIs
  <2> QED BY <2>2, <2>5, <2>7
<1>6. L # 0 => SubSeq(stack, 1, L - 1) = SubSeq(open, 1, L - 1) /\ stack[L] = open[L]
  <2> SUFFICES ASSUME L # 0
               PROVE  SubSeq(stack, 1, L - 1) = SubSeq(open, 1, L - 1) /\ stack[L] = open[L]
    OBVIOUS
  <2>1. L - 1 \in Nat /\ L - 1 <= m /\ L - 1 <= n /\ L \in 1 .. m
    BY <1>2, <1>3
  <2>2. /\ IsSeq(SubSeq(stack, 1, L - 1)) /\ Len(SubSeq(stack, 1, L - 1)) = L - 1
        /\ \A i \in 1 .. L - 1 : SubSeq(stack, 1, L - 1)[i] = stack[i]
    BY <1>1, <2>1, FirstIs
  <2>3. /\ IsSeq(SubSeq(open, 1, L - 1)) /\ Len(SubSeq(open, 1, L - 1)) = L - 1
        /\ \A i \in 1 .. L - 1 : SubSeq(open, 1, L - 1)[i] = open[i]
    BY <2>1, FirstIs
  <2>4. \A i \in 1 .. L - 1 : i \in 1 .. m
    BY <1>2, <2>1
  <2>5. \A i \in 1 .. L - 1 : SubSeq(stack, 1, L - 1)[i] = SubSeq(open, 1, L - 1)[i]
    BY <1>1, <2>2, <2>3, <2>4
  <2>6. SubSeq(stack, 1, L - 1) = SubSeq(open, 1, L - 1)
    BY <2>2, <2>3, <2>5, SameSeq
  <2> QED BY <2>6, <2>1, <1>1
<1> HIDE DEF whole
<1>7. Pushed(stack, obj, L) = Pushed(open, whole, L)
  BY <1>5, <1>6 DEF Pushed
<1>8. PushItem(stack, obj) = PushItem(open, whole)
  BY <1>4, <1>7, PushItemIs DEF L
<1> QED BY <1>8 DEF stack, whole

(* Either the object is complete or an array waits for more.               *)
LEMMA PushKinds ==
  ASSUME NEW open, NEW obj, IsSeq(open)
  PROVE  \/ /\ Len(PushItem(open, obj).data) = 1
            /\ PushItem(open, obj).data # <<>>
         \/ /\ PushItem(open, obj).data = <<>>
            /\ IsSeq(PushItem(open, obj).open)
            /\ PushItem(open, obj).open # <<>>
<1>1. Left(open) \in 0 .. Len(open) /\ Len(open) \in Nat
  BY LeftIs DEF IsSeq
<1>2. PushItem(open, obj) = Pushed(open, obj, Left(open))
  BY PushItemIs
<1>3. CASE Left(open) = 0
  BY <1>2, <1>3 DEF Pushed
<1>4. CASE Left(open) # 0
  <2> DEFINE s  == SubSeq(open, 1, Left(open) - 1)
             sp == [items |-> Append(open[Left(open)].items, Completed(open, obj, Left(open))),
                    count |-> open[Left(open)].count - 1]
  <2>1. Left(open) - 1 \in Nat /\ Left(open) - 1 <= Len(open)
    BY <1>1, <1>4
  <2>2. IsSeq(s)
    BY <2>1, FirstIs
  <2>3. PushItem(open, obj) = [open |-> Append(s, sp), data |-> <<>>]
    BY <1>2, <1>4 DEF Pushed
  <2> HIDE DEF s, sp
  <2> QED BY <2>2, <2>3, AppendIs
<1> QED BY <1>3, <1>4

(* The state of the loop that follows                                      *)
AfterPush(ctx, pushed, off) ==
  [ctx |-> [cs |-> IF pushed.data = <<>> THEN HeaderNext ELSE ctx.cs,
            trail |-> ctx.trail, open |-> pushed.open, data |-> pushed.data],
   off |-> off, ret |-> Len(pushed.data)]

(* PushProc without the set that is there for TLC.                         *)
LEMMA PushProcIs ==
  ASSUME NEW ctx, NEW obj, NEW off
  PROVE  PushProc(ctx, obj, off) = AfterPush(ctx, PushItem(ctx.open, obj), off)
<1> DEFINE S == {AfterPush(ctx, pushed, off) : pushed \in {PushItem(ctx.open, obj)}}
<1>1. PushProc(ctx, obj, off) = The(S)
  BY DEF PushProc, AfterPush
<1>2. S = {AfterPush(ctx, PushItem(ctx.open, obj), off)}
  OBVIOUS
<1> HIDE DEF S
<1> QED BY <1>1, <1>2, TheIs

-----------------------------------------------------------------------------
(* One turn *)

(* What is awaited is a header, or a body of some bytes, or a field as long*)
(* as the header says.                                                     *)
Waits(ctx) ==
  \/ ctx.cs = HeaderNext
  \/ ctx.cs = BodyNext /\ ctx.trail \in Nat /\ ctx.trail > 0
  \/ /\ ctx.cs \in UintHeaders \cup StrHeaders \cup ArrayHeaders
     /\ ctx.trail = FieldSize(ctx.cs)

(* A state of the loop has a context, an offset and a result only.         *)
IsState(c) == c = [ctx |-> c.ctx, off |-> c.off, ret |-> c.ret]

(* A state of the loop: inside an object, the stack is one and the bytes   *)
(* that are awaited are some.                                              *)
Good(c, len) ==
  /\ IsState(c)
  /\ c.off \in 0 .. len
  /\ c.ret \in {-1, 0, 1}
  /\ c.ret = 0 => IsSeq(c.ctx.open) /\ Waits(c.ctx)

(* What a turn up to `off' leaves: something is awaited or the object is   *)
(* complete.                                                               *)
Leaves(d, off) ==
  /\ IsState(d)
  /\ d.off = off
  /\ d.ret \in {0, 1}
  /\ d.ret = 0 => /\ IsSeq(d.ctx.open) /\ Waits(d.ctx)
                  /\ d.ctx.cs # HeaderNext \/ d.ctx.open # <<>>

(* The fields behind headers have 1, 2, 4 or 8 bytes.                      *)
LEMMA FieldSizes ==
  ASSUME NEW h \in UintHeaders \cup StrHeaders \cup ArrayHeaders
  PROVE  /\ FieldSize(h) \in {1, 2, 4, 8}
         /\ h \in StrHeaders \cup ArrayHeaders => FieldSize(h) \in {1, 2, 4}
         /\ h # HeaderNext /\ h # BodyNext
BY DEF FieldSize, UintHeaders, StrHeaders, ArrayHeaders, HeaderNext, BodyNext

(* The length in a field is a number.                                      *)
LEMMA LoadNat ==
  ASSUME NEW field \in Seq(Byte), Len(field) \in {1, 2, 4}
  PROVE  Load(field) \in Nat
<1>1. \A i \in 1 .. Len(field) : field[i] \in Nat
  <2>1. \A b \in Byte : b \in Nat
    BY DEF Byte
  <2>2. \A i \in 1 .. Len(field) : field[i] \in Byte
    OBVIOUS
  <2> QED BY <2>1, <2>2
<1>2. CASE Len(field) = 1
  <2>1. field[1] \in Nat
    BY <1>1, <1>2
  <2> QED BY <2>1, <1>2 DEF Load
<1>3. CASE Len(field) = 2
  <2>1. field[1] \in Nat /\ field[2] \in Nat
    BY <1>1, <1>3
  <2>2. Load(field) = 256 * field[1] + field[2]
    BY <1>3 DEF Load
  <2> QED BY <2>1, <2>2
<1>4. CASE Len(field) = 4
  <2>1. field[1] \in Nat /\ field[2] \in Nat /\ field[3] \in Nat /\ field[4] \in Nat
    BY <1>1, <1>4
  <2>2. Load(field) = 256 * (256 * (256 * field[1] + field[2]) + field[3]) + field[4]
    BY <1>4 DEF Load
  <2>3. \A a, b \in Nat : 256 * a + b \in Nat
    OBVIOUS
  <2>4. 256 * field[1] + field[2] \in Nat
    BY <2>1, <2>3
  <2>5. 256 * (256 * field[1] + field[2]) + field[3] \in Nat
    BY <2>1, <2>3, <2>4
  <2> DEFINE x == 256 * (256 * field[1] + field[2]) + field[3]
  <2>6. Load(field) = 256 * x + field[4] /\ x \in Nat
    BY <2>2, <2>5
  <2> HIDE DEF x
  <2> QED BY <2>1, <2>3, <2>6
<1> QED BY <1>2, <1>3, <1>4

(* An object was parsed.                                                   *)
LEMMA PushProcLeaves ==
  ASSUME NEW ctx, NEW obj, NEW off, IsSeq(ctx.open)
  PROVE  Leaves(PushProc(ctx, obj, off), off)
<1> DEFINE pushed == PushItem(ctx.open, obj)
<1>1. PushProc(ctx, obj, off) = AfterPush(ctx, pushed, off)
  BY PushProcIs
<1>2. \/ Len(pushed.data) = 1 /\ pushed.data # <<>>
      \/ pushed.data = <<>> /\ IsSeq(pushed.open) /\ pushed.open # <<>>
  BY PushKinds
<1> HIDE DEF pushed
<1>3. CASE Len(pushed.data) = 1 /\ pushed.data # <<>>
  BY <1>1, <1>3 DEF AfterPush, Leaves, IsState
<1>4. CASE pushed.data = <<>> /\ IsSeq(pushed.open) /\ pushed.open # <<>>
  <2>1. Len(pushed.data) = 0
    BY <1>4
  <2> QED BY <1>1, <1>4, <2>1 DEF AfterPush, Leaves, Waits, IsState
<1> QED BY <1>2, <1>3, <1>4

(* An array begins.                                                        *)
LEMMA PushAggregateLeaves ==
  ASSUME NEW ctx, NEW n, NEW off, IsSeq(ctx.open)
  PROVE  Leaves(PushAggregate(ctx, n, off), off)
<1>1. CASE n = 0
  BY <1>1, PushProcLeaves DEF PushAggregate
<1>2. CASE n # 0
  <2> DEFINE sp == [items |-> <<>>, count |-> n]
  <2>1. PushAggregate(ctx, n, off) =
          [ctx |-> [cs |-> HeaderNext, trail |-> ctx.trail, open |-> Append(ctx.open, sp),
                    data |-> ctx.data],
           off |-> off, ret |-> 0]
    BY <1>2 DEF PushAggregate
  <2>2. IsSeq(Append(ctx.open, sp)) /\ Append(ctx.open, sp) # <<>>
    <3> HIDE DEF sp
    <3> QED BY AppendIs
  <2> DEFINE d == PushAggregate(ctx, n, off)
  <2> HIDE DEF sp, d
  <2>3. /\ d.off = off /\ d.ret = 0 /\ IsState(d)
        /\ d.ctx.cs = HeaderNext /\ d.ctx.open = Append(ctx.open, sp)
    BY <2>1 DEF d, IsState
  <2>4. Leaves(d, off)
    BY <2>2, <2>3 DEF Leaves, Waits
  <2> QED BY <2>4 DEF d
<1> QED BY <1>1, <1>2

(* A string begins.                                                        *)
LEMMA AwaitStrLeaves ==
  ASSUME NEW ctx, NEW n \in Nat, NEW off, IsSeq(ctx.open)
  PROVE  Leaves(AwaitStr(ctx, n, off), off)
<1>1. CASE n = 0
  BY <1>1, PushProcLeaves DEF AwaitStr, PushStr
<1>2. CASE n # 0
  BY <1>2 DEF AwaitStr, Await, Leaves, Waits, HeaderNext, BodyNext, IsState
<1> QED BY <1>1, <1>2

(* A header was read, or a byte that is none.                              *)
LEMMA HeaderLeaves ==
  ASSUME NEW ctx, NEW selector \in Byte, NEW off, IsSeq(ctx.open)
  PROVE  \/ Leaves(Header(ctx, selector, off), off)
         \/ Header(ctx, selector, off) = [ctx |-> ctx, off |-> off - 1, ret |-> -1]
<1> DEFINE H == UintHeaders \cup StrHeaders \cup ArrayHeaders
<1>1. CASE selector < 128
  <2>1. Header(ctx, selector, off) = PushProc(ctx, Object("uint", LoadUint(<<selector>>)), off)
    <3>1. ~(\/ selector \in H \/ selector \in 160 .. 191
            \/ selector \in 144 .. 159 \/ selector \in {194, 195})
      BY <1>1 DEF UintHeaders, StrHeaders, ArrayHeaders, Byte
    <3> QED BY <1>1, <3>1 DEF Header
  <2> QED BY <2>1, PushProcLeaves
<1>2. CASE selector \in H
  <2>1. Header(ctx, selector, off) = Await(ctx, selector, FieldSize(selector), off)
    BY <1>2 DEF Header, Byte, UintHeaders, StrHeaders, ArrayHeaders
  <2>2. selector # HeaderNext
    BY <1>2, FieldSizes
  <2> QED BY <1>2, <2>1, <2>2 DEF Await, Leaves, Waits, IsState
<1>3. CASE selector \in 160 .. 191
  <2>1. Header(ctx, selector, off) = AwaitStr(ctx, selector - 160, off)
    BY <1>3 DEF Header, UintHeaders, StrHeaders, ArrayHeaders
  <2>2. selector - 160 \in Nat
    BY <1>3
  <2> QED BY <2>1, <2>2, AwaitStrLeaves
<1>4. CASE selector \in 144 .. 159
  <2>1. Header(ctx, selector, off) = PushAggregate(ctx, selector - 144, off)
    BY <1>4 DEF Header, UintHeaders, StrHeaders, ArrayHeaders
  <2> QED BY <2>1, PushAggregateLeaves
<1>5. CASE selector \in {194, 195}
  <2>1. Header(ctx, selector, off) = PushProc(ctx, Object("bool", selector = 195), off)
    BY <1>5 DEF Header, UintHeaders, StrHeaders, ArrayHeaders
  <2> QED BY <2>1, PushProcLeaves
<1>6. CASE ~ (\/ selector < 128 \/ selector \in H \/ selector \in 160 .. 191
              \/ selector \in 144 .. 159 \/ selector \in {194, 195})
  BY <1>6 DEF Header
<1> QED BY <1>1, <1>2, <1>3, <1>4, <1>5, <1>6

(* The bytes that were awaited are there.                                  *)
LEMMA FieldLeaves ==
  ASSUME NEW ctx, NEW field \in Seq(Byte), NEW off, IsSeq(ctx.open), Waits(ctx),
         ctx.cs # HeaderNext, Len(field) = ctx.trail
  PROVE  Leaves(Field(ctx, field, off), off)
<1>1. CASE ctx.cs \in UintHeaders
  <2>1. Field(ctx, field, off) = PushProc(ctx, Object("uint", LoadUint(field)), off)
    BY <1>1 DEF Field, UintHeaders, StrHeaders, ArrayHeaders, BodyNext
  <2> QED BY <2>1, PushProcLeaves
<1>2. CASE ctx.cs \in StrHeaders
  <2>1. Field(ctx, field, off) = AwaitStr(ctx, Load(field), off)
    BY <1>2 DEF Field, UintHeaders, StrHeaders, ArrayHeaders, BodyNext
  <2>2. Len(field) \in {1, 2, 4}
    BY <1>2, FieldSizes DEF Waits, BodyNext, HeaderNext, StrHeaders
  <2> QED BY <2>1, <2>2, LoadNat, AwaitStrLeaves
<1>3. CASE ctx.cs \in ArrayHeaders
  <2>1. Field(ctx, field, off) = PushAggregate(ctx, Load(field), off)
    BY <1>3 DEF Field, UintHeaders, StrHeaders, ArrayHeaders, BodyNext
  <2> QED BY <2>1, PushAggregateLeaves
<1>4. CASE ctx.cs = BodyNext
  <2>1. Field(ctx, field, off) = PushStr(ctx, field, off)
    BY <1>4 DEF Field, UintHeaders, StrHeaders, ArrayHeaders, BodyNext
  <2> QED BY <2>1, PushProcLeaves DEF PushStr
<1> QED BY <1>1, <1>2, <1>3, <1>4 DEF Waits

(* What Taken takes.                                                       *)
LEMMA TakenIs ==
  ASSUME NEW data \in Seq(Byte), NEW off \in Nat, NEW n \in Nat, off + n <= Len(data)
  PROVE  /\ Taken(data, off, n) \in Seq(Byte)
         /\ Len(Taken(data, off, n)) = n
         /\ \A k \in 1 .. n : Taken(data, off, n)[k] = data[off + k]
<1>1. /\ off + 1 \in Nat /\ off + n \in Nat /\ Len(data) \in Nat
      /\ (off + n) - (off + 1) + 1 = n
      /\ \A k \in 1 .. n : k + (off + 1) - 1 = off + k
  OBVIOUS
<1>2. \A k \in 1 .. n : off + k \in 1 .. Len(data)
  BY <1>1
<1> DEFINE t == [k \in 1 .. n |-> data[off + k]]
<1>3. Taken(data, off, n) = t
  BY <1>1 DEF Taken
<1>4. t \in [1 .. n -> Byte]
  BY <1>2
<1> HIDE DEF t
<1>5. t \in Seq(Byte) /\ Len(t) = n
  BY <1>4
<1> QED BY <1>3, <1>5 DEF t

(* A turn takes a byte at least, unless it finds an error, and none that   *)
(* has not arrived.                                                        *)
LEMMA TurnMoves ==
  ASSUME NEW data \in Seq(Byte), NEW len \in Nat, len <= Len(data),
         NEW c, Good(c, len), ~Stops(c, len)
  PROVE  /\ Good(Turn(c, data), len)
         /\ Turn(c, data).ret = -1 \/ Turn(c, data).off > c.off
         /\ Turn(c, data).off >= c.off
         /\ Turn(c, data).ret = 0 =>
              Turn(c, data).ctx.cs # HeaderNext \/ Turn(c, data).ctx.open # <<>>
<1> DEFINE d == Turn(c, data)
<1>1. c.ret = 0 /\ c.off \in Nat /\ c.off < len /\ IsSeq(c.ctx.open) /\ Waits(c.ctx)
  BY DEF Good, Stops
<1>2. CASE c.ctx.cs = HeaderNext
  <2>1. d = Header(c.ctx, data[c.off + 1], c.off + 1)
    BY <1>2 DEF Turn
  <2>2. data[c.off + 1] \in Byte
    BY <1>1
  <2>3. CASE Leaves(d, c.off + 1)
    <3>1. c.off + 1 \in 0 .. len /\ c.off + 1 > c.off
      BY <1>1
    <3> HIDE DEF d
    <3>2. /\ Good(d, len) /\ d.off > c.off /\ d.off >= c.off
          /\ d.ret = 0 => d.ctx.cs # HeaderNext \/ d.ctx.open # <<>>
      BY <1>1, <2>3, <3>1 DEF Leaves, Good
    <3> QED BY <3>2 DEF d
  <2>4. CASE d = [ctx |-> c.ctx, off |-> c.off + 1 - 1, ret |-> -1]
    <3>1. c.off + 1 - 1 = c.off
      BY <1>1
    <3> HIDE DEF d
    <3>2. Good(d, len) /\ d.ret = -1 /\ d.off >= c.off /\ d.ret # 0
      BY <1>1, <2>4, <3>1 DEF Good, IsState
    <3> QED BY <3>2 DEF d
  <2> HIDE DEF d
  <2> QED BY <1>1, <2>1, <2>2, <2>3, <2>4, HeaderLeaves DEF d
<1>3. CASE c.ctx.cs # HeaderNext
  <2> DEFINE n == c.ctx.trail
  <2>1. n \in Nat /\ n > 0 /\ c.off + n <= len
    <3>1. n \in Nat /\ n > 0
      BY <1>1, <1>3, FieldSizes DEF Waits
    <3> QED BY <1>1, <1>3, <3>1 DEF Stops
  <2>2. d = Field(c.ctx, Taken(data, c.off, n), c.off + n)
    BY <1>3 DEF Turn
  <2>3. Taken(data, c.off, n) \in Seq(Byte) /\ Len(Taken(data, c.off, n)) = n
    <3>1. c.off + n <= Len(data)
      BY <1>1, <2>1
    <3> QED BY <1>1, <2>1, <3>1, TakenIs
  <2>4. Leaves(d, c.off + n)
    BY <1>1, <1>3, <2>2, <2>3, FieldLeaves
  <2>5. c.off + n \in 0 .. len /\ c.off + n > c.off
    BY <1>1, <2>1
  <2> HIDE DEF d, n
  <2>6. /\ Good(d, len) /\ d.off > c.off /\ d.off >= c.off
        /\ d.ret = 0 => d.ctx.cs # HeaderNext \/ d.ctx.open # <<>>
    BY <1>1, <2>4, <2>5 DEF Leaves, Good
  <2> QED BY <2>6 DEF d
<1> QED BY <1>2, <1>3

-----------------------------------------------------------------------------
(* All turns *)

(* What holds after n turns of c                                           *)
Moved(c, n, d, len) ==
  /\ Good(d, len)
  /\ d.off >= c.off
  /\ Stops(d, len) \/ d.off >= c.off + n
  /\ d.ret = 0 => d = c \/ d.ctx.cs # HeaderNext \/ d.ctx.open # <<>>

(* As long as nothing stops them, each turn takes a byte.                  *)
LEMMA RunMoves ==
  ASSUME NEW data \in Seq(Byte), NEW len \in Nat, len <= Len(data),
         NEW c, Good(c, len)
  PROVE  \A n \in Nat : Moved(c, n, Run(c, data, len)[n], len)
<1> DEFINE r == Run(c, data, len)
           S == {n \in Nat : Moved(c, n, r[n], len)}
<1>1. r[0] = c /\ \A n \in Nat : r[n + 1] = OneTurn(r[n], data, len)
  BY RunIs
<1> HIDE DEF r
<1>2. c.off \in Nat
  BY DEF Good
<1>3. 0 \in S
  <2>1. c.off >= c.off /\ c.off >= c.off + 0
    BY <1>2
  <2> QED BY <1>1, <2>1 DEF Moved
<1>4. ASSUME NEW n \in Nat, n \in S PROVE n + 1 \in S
  <2> DEFINE d == r[n]
             e == r[n + 1]
  <2>1. Moved(c, n, d, len) /\ e = OneTurn(d, data, len)
    BY <1>1, <1>4
  <2> SUFFICES Moved(c, n + 1, e, len)
    OBVIOUS
  <2> HIDE DEF S, d, e
  <2>2. Good(d, len) /\ d.off >= c.off /\ d.off \in Nat
    BY <2>1 DEF Moved, Good
  <2>3. CASE Stops(d, len)
    BY <2>1, <2>3 DEF OneTurn, Moved
  <2>4. CASE ~Stops(d, len)
    <3>1. e = Turn(d, data) /\ d.off >= c.off + n
      BY <2>1, <2>4 DEF OneTurn, Moved
    <3>2. /\ Good(e, len)
          /\ e.ret = -1 \/ e.off > d.off
          /\ e.off >= d.off
          /\ e.ret = 0 => e.ctx.cs # HeaderNext \/ e.ctx.open # <<>>
      BY <2>2, <2>4, <3>1, TurnMoves
    <3>3. e.ret = -1 => Stops(e, len)
      BY DEF Stops
    <3>4. e.off \in Nat
      BY <3>2 DEF Good
    <3>5. e.off >= c.off /\ (e.ret # -1 => e.off >= c.off + (n + 1))
      BY <1>2, <2>2, <3>1, <3>2, <3>4
    <3> QED BY <3>2, <3>3, <3>5 DEF Moved
  <2> QED BY <2>3, <2>4
<1>5. \A n \in Nat : n \in S
  <2> HIDE DEF S
  <2> QED BY <1>3, <1>4, Upward
<1> QED BY <1>5 DEF r

(* What has stopped stays as it is.                                        *)
LEMMA RunStays ==
  ASSUME NEW c, NEW data, NEW len, NEW r, r = Run(c, data, len),
         NEW n \in Nat, Stops(r[n], len)
  PROVE  \A m \in Nat : m >= n => r[m] = r[n]
<1> DEFINE S == {m \in Nat : m >= n => r[m] = r[n]}
<1>1. 0 \in S
  <2>1. 0 >= n => 0 = n
    OBVIOUS
  <2> QED BY <2>1
<1>2. ASSUME NEW m \in Nat, m \in S PROVE m + 1 \in S
  <2>1. r[m + 1] = OneTurn(r[m], data, len)
    BY RunIs
  <2>2. CASE m >= n
    <3>1. r[m + 1] = r[n]
      BY <1>2, <2>1, <2>2 DEF OneTurn
    <3> QED BY <3>1
  <2>3. CASE ~(m >= n)
    <3>1. m + 1 >= n => m + 1 = n
      BY <2>3
    <3> QED BY <3>1
  <2> QED BY <2>2, <2>3
<1> HIDE DEF S
<1>3. \A m \in Nat : m \in S
  BY <1>1, <1>2, Upward
<1> QED BY <1>3 DEF S

(* Turns is where the turns stop.                                          *)
LEMMA TurnsRun ==
  ASSUME NEW data \in Seq(Byte), NEW len \in Nat, len <= Len(data),
         NEW c, Good(c, len)
  PROVE  \E n \in Nat : /\ Turns(c, data, len) = Run(c, data, len)[n]
                        /\ Stops(Run(c, data, len)[n], len)
<1> DEFINE r == Run(c, data, len)
           T == {Stride * k : k \in 0 .. len - c.off}
           n == CHOOSE n \in T : Stops(r[n], len)
<1>1. Turns(c, data, len) = r[n]
  BY TurnsIs
<1>2. c.off \in Nat /\ c.off <= len /\ Stride = 16
  BY DEF Good, Stride
<1>3. T \subseteq Nat
  BY <1>2
<1>4. Stride * (len - c.off) \in T /\ Stride * (len - c.off) \in Nat
      /\ c.off + Stride * (len - c.off) >= len
  BY <1>2
<1> HIDE DEF T
<1>5. Stops(r[Stride * (len - c.off)], len)
  <2> DEFINE m == Stride * (len - c.off)
  <2> HIDE DEF m
  <2>1. /\ Good(r[m], len)
        /\ Stops(r[m], len) \/ r[m].off >= c.off + m
    BY <1>4, RunMoves DEF m, Moved
  <2> HIDE DEF r
  <2>2. r[m].off \in 0 .. len
    BY <2>1 DEF Good
  <2> DEFINE off == r[m].off
  <2> HIDE DEF off
  <2>3. m \in Nat /\ c.off + m >= len /\ off \in 0 .. len
    BY <1>4, <2>2 DEF m, off
  <2>4. c.off \in Nat
    BY <1>2
  <2>5. off >= c.off + m => off = len
    BY <2>3, <2>4
  <2> QED BY <2>1, <2>5 DEF Stops, m, off
<1>6. n \in T /\ Stops(r[n], len)
  BY <1>4, <1>5
<1> HIDE DEF n, r
<1> QED BY <1>1, <1>3, <1>6 DEF r

(* What Turns leaves.                                                      *)
THEOREM TurnsEnd ==
  ASSUME NEW data \in Seq(Byte), NEW len \in Nat, len <= Len(data),
         NEW c, Good(c, len), NEW e, e = Turns(c, data, len)
  PROVE  /\ Good(e, len)
         /\ Stops(e, len)
         /\ e.off >= c.off
         /\ e.ret = 0 => e = c \/ e.ctx.cs # HeaderNext \/ e.ctx.open # <<>>
<1>1. PICK n \in Nat : /\ Turns(c, data, len) = Run(c, data, len)[n]
                       /\ Stops(Run(c, data, len)[n], len)
  BY TurnsRun
<1> DEFINE r == Run(c, data, len)
<1>2. /\ Good(r[n], len)
      /\ r[n].off >= c.off
      /\ r[n].ret = 0 => r[n] = c \/ r[n].ctx.cs # HeaderNext \/ r[n].ctx.open # <<>>
  BY RunMoves DEF Moved
<1> HIDE DEF r
<1>3. e = r[n] /\ Stops(r[n], len)
  BY <1>1 DEF r
<1> QED BY <1>2, <1>3

(* It is the only place.                                                   *)
LEMMA TurnsOnly ==
  ASSUME NEW data \in Seq(Byte), NEW len \in Nat, len <= Len(data),
         NEW c, Good(c, len), NEW n \in Nat, Stops(Run(c, data, len)[n], len)
  PROVE  Turns(c, data, len) = Run(c, data, len)[n]
<1> DEFINE r == Run(c, data, len)
<1>1. PICK m \in Nat : Turns(c, data, len) = r[m] /\ Stops(r[m], len)
  BY TurnsRun
<1>2. m >= n => r[m] = r[n]
  BY RunStays
<1>3. n >= m => r[n] = r[m]
  BY <1>1, RunStays
<1> HIDE DEF r
<1> QED BY <1>1, <1>2, <1>3 DEF r

(* No turn is made where the turns stop,                                   *)
LEMMA TurnsStopped ==
  ASSUME NEW data \in Seq(Byte), NEW len \in Nat, len <= Len(data),
         NEW c, Good(c, len), Stops(c, len)
  PROVE  Turns(c, data, len) = c
<1>1. Run(c, data, len)[0] = c
  BY RunIs
<1> QED BY <1>1, TurnsOnly

(* and elsewhere they begin with one.                                      *)
LEMMA TurnsFirst ==
  ASSUME NEW data \in Seq(Byte), NEW len \in Nat, len <= Len(data),
         NEW c, Good(c, len), ~Stops(c, len)
  PROVE  /\ Good(Turn(c, data), len)
         /\ Turns(c, data, len) = Turns(Turn(c, data), data, len)
<1> DEFINE d == Turn(c, data)
           r == Run(c, data, len)
           q == Run(d, data, len)
           S == {n \in Nat : r[n + 1] = q[n]}
<1>1. Good(d, len)
  BY TurnMoves
<1>2. r[0] = c /\ \A n \in Nat : r[n + 1] = OneTurn(r[n], data, len)
  BY RunIs
<1>3. q[0] = d /\ \A n \in Nat : q[n + 1] = OneTurn(q[n], data, len)
  <2> HIDE DEF d
  <2> QED BY RunIs
<1>4. 0 \in S
  <2>1. r[0 + 1] = OneTurn(c, data, len)
    BY <1>2
  <2>2. OneTurn(c, data, len) = d
    BY DEF OneTurn
  <2> HIDE DEF r, q, d
  <2> QED BY <1>3, <2>1, <2>2
<1>5. ASSUME NEW n \in Nat, n \in S PROVE n + 1 \in S
  <2>1. r[n + 1] = q[n]
    BY <1>5
  <2>2. r[n + 1 + 1] = OneTurn(r[n + 1], data, len)
    <3>1. n + 1 \in Nat
      OBVIOUS
    <3> HIDE DEF r
    <3> QED BY <1>2, <3>1
  <2> HIDE DEF r, q
  <2>3. r[n + 1 + 1] = q[n + 1]
    BY <1>3, <2>1, <2>2
  <2> QED BY <2>3
<1>6. \A n \in Nat : n \in S
  <2> HIDE DEF S
  <2> QED BY <1>4, <1>5, Upward
<1>7. PICK n \in Nat : Turns(d, data, len) = q[n] /\ Stops(q[n], len)
  <2> HIDE DEF d
  <2> QED BY <1>1, TurnsRun
<1>8. r[n + 1] = q[n] /\ n + 1 \in Nat
  BY <1>6
<1>9. Turns(c, data, len) = r[n + 1]
  <2>1. Stops(r[n + 1], len)
    BY <1>7, <1>8
  <2> QED BY <1>8, <2>1, TurnsOnly
<1> QED BY <1>1, <1>7, <1>8, <1>9

(* A turn looks at bytes that have arrived only.                           *)
LEMMA TurnSame ==
  ASSUME NEW data \in Seq(Byte), NEW more \in Seq(Byte), NEW len \in Nat,
         len <= Len(data), len <= Len(more), \A k \in 1 .. len : data[k] = more[k],
         NEW c, Good(c, len), ~Stops(c, len)
  PROVE  Turn(c, data) = Turn(c, more)
<1>1. c.ret = 0 /\ c.off \in Nat /\ c.off < len /\ Waits(c.ctx)
  BY DEF Good, Stops
<1>2. CASE c.ctx.cs = HeaderNext
  <2>1. c.off + 1 \in 1 .. len
    BY <1>1
  <2>2. data[c.off + 1] = more[c.off + 1]
    BY <2>1
  <2> QED BY <1>2, <2>2 DEF Turn
<1>3. CASE c.ctx.cs # HeaderNext
  <2> DEFINE n == c.ctx.trail
  <2>1. n \in Nat /\ c.off + n <= len
    <3>1. n \in Nat
      BY <1>1, <1>3, FieldSizes DEF Waits
    <3> QED BY <1>1, <1>3, <3>1 DEF Stops
  <2> HIDE DEF n
  <2>2. c.off + n <= Len(data) /\ c.off + n <= Len(more)
        /\ \A k \in 1 .. n : c.off + k \in 1 .. len
    BY <1>1, <2>1
  <2>3. /\ Taken(data, c.off, n) \in Seq(Byte) /\ Len(Taken(data, c.off, n)) = n
        /\ \A k \in 1 .. n : Taken(data, c.off, n)[k] = data[c.off + k]
    BY <1>1, <2>1, <2>2, TakenIs
  <2>4. /\ Taken(more, c.off, n) \in Seq(Byte) /\ Len(Taken(more, c.off, n)) = n
        /\ \A k \in 1 .. n : Taken(more, c.off, n)[k] = more[c.off + k]
    BY <1>1, <2>1, <2>2, TakenIs
  <2>5. \A k \in 1 .. n : Taken(data, c.off, n)[k] = Taken(more, c.off, n)[k]
    BY <2>2, <2>3, <2>4
  <2>6. Taken(data, c.off, n) = Taken(more, c.off, n)
    BY <2>3, <2>4, <2>5, SeqIs, SameSeq
  <2> QED BY <1>3, <2>6 DEF Turn, n
<1> QED BY <1>2, <1>3

(* Turns that stop for want of bytes go on, when these have come, as if    *)
(* all had been there from the beginning.                                  *)
THEOREM TurnsResume ==
  ASSUME NEW data \in Seq(Byte), NEW more \in Seq(Byte),
         NEW len \in Nat, NEW all \in Nat, len <= Len(data), len <= all, all <= Len(more),
         \A k \in 1 .. len : data[k] = more[k],
         NEW c, Good(c, len)
  PROVE  Turns(c, more, all) = Turns(Turns(c, data, len), more, all)
<1> DEFINE r == Run(c, data, len)
           S == {n \in Nat : Turns(c, more, all) = Turns(r[n], more, all)}
<1>1. r[0] = c /\ \A n \in Nat : r[n + 1] = OneTurn(r[n], data, len)
  BY RunIs
<1>2. len <= Len(more)
  OBVIOUS
<1>3. \A n \in Nat : Good(r[n], len)
  BY RunMoves DEF Moved
<1> HIDE DEF r
<1>4. 0 \in S
  BY <1>1
<1>5. ASSUME NEW n \in Nat, n \in S PROVE n + 1 \in S
  <2>1. CASE Stops(r[n], len)
    <3>1. r[n + 1] = r[n]
      BY <1>1, <2>1 DEF OneTurn
    <3> QED BY <1>5, <3>1
  <2>2. CASE ~Stops(r[n], len)
    <3> DEFINE d == r[n]
    <3>1. Good(d, len)
      BY <1>3
    <3>2. r[n + 1] = Turn(d, data)
      BY <1>1, <2>2 DEF OneTurn
    <3> HIDE DEF d
    <3>3. Turn(d, data) = Turn(d, more)
      BY <1>2, <2>2, <3>1, TurnSame DEF d
    <3>4. Good(d, all)
      BY <3>1 DEF Good
    <3>5. ~Stops(d, all)
      <4>1. d.ret = 0 /\ d.off \in Nat /\ d.off < len /\ Waits(d.ctx)
        BY <2>2, <3>1 DEF Good, Stops, d
      <4>2. d.ctx.cs # HeaderNext => d.ctx.trail \in Nat
        BY <4>1, FieldSizes DEF Waits
      <4>3. d.ctx.cs # HeaderNext => ~(len - d.off < d.ctx.trail)
        BY <2>2 DEF Stops, d
      <4> QED BY <4>1, <4>2, <4>3 DEF Stops
    <3>6. Turns(d, more, all) = Turns(Turn(d, more), more, all)
      BY <3>4, <3>5, TurnsFirst
    <3>7. Turns(c, more, all) = Turns(r[n + 1], more, all)
      BY <1>5, <3>2, <3>3, <3>6 DEF d
    <3> QED BY <3>7
  <2> QED BY <2>1, <2>2
<1>6. \A n \in Nat : n \in S
  <2> HIDE DEF S
  <2> QED BY <1>4, <1>5, Upward
<1>7. PICK n \in Nat : Turns(c, data, len) = r[n]
  BY TurnsRun DEF r
<1> QED BY <1>6, <1>7
-----------------------------------------------------------------------------
(* Bytes in the input *)

(* B is in the input behind the first p bytes.                             *)
Has(data, p, B) ==
  p + Len(B) <= Len(data) /\ \A k \in 1 .. Len(B) : data[p + k] = B[k]

(* A name for it keeps the provers from looking into it.                   *)
Joins(C, A, B) == C = A \o B

(* Two sequences of bytes in a row.                                        *)
LEMMA JoinsIs ==
  ASSUME NEW A \in Seq(Byte), NEW B \in Seq(Byte), NEW C, Joins(C, A, B)
  PROVE  /\ C \in Seq(Byte)
         /\ Len(C) = Len(A) + Len(B)
         /\ \A k \in 1 .. Len(A) : C[k] = A[k]
         /\ \A k \in 1 .. Len(B) : C[Len(A) + k] = B[k]
BY DEF Joins

(* What is there of two in a row.                                          *)
LEMMA HasBoth ==
  ASSUME NEW A \in Seq(Byte), NEW B \in Seq(Byte), NEW data \in Seq(Byte), NEW p \in Nat,
         NEW C, Joins(C, A, B), Has(data, p, C)
  PROVE  /\ C \in Seq(Byte)
         /\ Len(C) = Len(A) + Len(B)
         /\ Has(data, p, A)
         /\ Has(data, p + Len(A), B)
<1>1. /\ C \in Seq(Byte) /\ Len(C) = Len(A) + Len(B)
      /\ \A k \in 1 .. Len(A) : C[k] = A[k]
      /\ \A k \in 1 .. Len(B) : C[Len(A) + k] = B[k]
  BY JoinsIs
<1>2. p + Len(C) <= Len(data) /\ \A k \in 1 .. Len(C) : data[p + k] = C[k]
  BY DEF Has
<1>3. Has(data, p, A)
  <2>1. \A k \in 1 .. Len(A) : k \in 1 .. Len(C)
    BY <1>1
  <2>2. \A k \in 1 .. Len(A) : data[p + k] = A[k]
    BY <1>1, <1>2, <2>1
  <2>3. p + Len(A) <= Len(data)
    BY <1>1, <1>2
  <2> QED BY <2>2, <2>3 DEF Has
<1>4. Has(data, p + Len(A), B)
  <2>1. \A k \in 1 .. Len(B) :
          Len(A) + k \in 1 .. Len(C) /\ p + Len(A) + k = p + (Len(A) + k)
    BY <1>1
  <2>2. \A k \in 1 .. Len(B) : data[p + Len(A) + k] = B[k]
    BY <1>1, <1>2, <2>1
  <2>3. p + Len(A) + Len(B) <= Len(data)
    BY <1>1, <1>2
  <2> QED BY <2>2, <2>3 DEF Has
<1> QED BY <1>1, <1>3, <1>4

(* What is there of a byte and more.                                       *)
LEMMA HasHeaded ==
  ASSUME NEW h \in Byte, NEW B \in Seq(Byte), NEW data \in Seq(Byte), NEW p \in Nat,
         NEW C, Joins(C, <<h>>, B), Has(data, p, C)
  PROVE  /\ Len(C) = 1 + Len(B)
         /\ data[p + 1] = h
         /\ Has(data, p + 1, B)
<1> DEFINE A == <<h>>
<1>1. A \in Seq(Byte)
  OBVIOUS
<1>2. Len(A) = 1 /\ A[1] = h
  OBVIOUS
<1>3. Joins(C, A, B)
  OBVIOUS
<1> HIDE DEF A
<1>4. Len(C) = Len(A) + Len(B) /\ Has(data, p, A) /\ Has(data, p + Len(A), B)
  BY <1>1, <1>3, HasBoth
<1>5. Len(C) = 1 + Len(B) /\ Has(data, p + 1, B)
  BY <1>2, <1>4
<1>6. data[p + 1] = h
  <2>1. 1 \in 1 .. Len(A)
    BY <1>2
  <2> QED BY <1>2, <1>4, <2>1 DEF Has
<1> QED BY <1>5, <1>6

-----------------------------------------------------------------------------
(* What the parser makes of bytes that were packed *)

(* A context with nothing parsed, and a state of the loop with no result   *)
Ctx(cs, trail, open) == [cs |-> cs, trail |-> trail, open |-> open, data |-> <<>>]

At(ctx, off) == [ctx |-> ctx, off |-> off, ret |-> 0]

(* B has arrived behind the first p bytes and is read next.                *)
Place(data, len, p, open, B) ==
  /\ data \in Seq(Byte) /\ len \in Nat /\ len <= Len(data)
  /\ p \in Nat /\ p + Len(B) <= len
  /\ Has(data, p, B)
  /\ IsSeq(open)

(* In whatever place it is, B is read as the object O.                     *)
Reads(B, O) ==
  /\ B \in Seq(Byte)
  /\ B # <<>>
  /\ \A data, len, p, open, trail : Place(data, len, p, open, B) =>
       \E cs, t : Turns(At(Ctx(HeaderNext, trail, open), p), data, len)
                    = Turns(PushProc(Ctx(cs, t, open), O, p + Len(B)), data, len)

(* First a header is read,                                                 *)
LEMMA HeaderTurn ==
  ASSUME NEW data \in Seq(Byte), NEW len \in Nat, len <= Len(data), NEW p \in Nat, p < len,
         NEW open, IsSeq(open), NEW trail
  PROVE  Turns(At(Ctx(HeaderNext, trail, open), p), data, len)
           = Turns(Header(Ctx(HeaderNext, trail, open), data[p + 1], p + 1), data, len)
<1> DEFINE ctx == Ctx(HeaderNext, trail, open)
           c   == At(ctx, p)
<1>1. ctx.cs = HeaderNext /\ ctx.open = open
  BY DEF Ctx
<1>2. c.ctx = ctx /\ c.off = p /\ c.ret = 0 /\ IsState(c)
  BY DEF At, IsState
<1> HIDE DEF ctx, c
<1>3. Good(c, len)
  BY <1>1, <1>2 DEF Good, Waits
<1>4. ~Stops(c, len)
  BY <1>1, <1>2 DEF Stops
<1>5. Turn(c, data) = Header(ctx, data[p + 1], p + 1)
  BY <1>1, <1>2 DEF Turn
<1>6. Turns(c, data, len) = Turns(Turn(c, data), data, len)
  BY <1>3, <1>4, TurnsFirst
<1> QED BY <1>5, <1>6 DEF ctx, c

(* then what is behind it.                                                 *)
LEMMA FieldTurn ==
  ASSUME NEW B \in Seq(Byte), NEW n \in Nat, n = Len(B), n > 0,
         NEW cs, cs # HeaderNext, NEW open, Waits(Ctx(cs, n, open)),
         NEW data, NEW len, NEW p, Place(data, len, p, open, B)
  PROVE  Turns(At(Ctx(cs, n, open), p), data, len)
           = Turns(Field(Ctx(cs, n, open), B, p + n), data, len)
<1> DEFINE ctx == Ctx(cs, n, open)
           c   == At(ctx, p)
<1>0. /\ data \in Seq(Byte) /\ len \in Nat /\ len <= Len(data)
      /\ p \in Nat /\ Has(data, p, B) /\ IsSeq(open) /\ p + n <= len
  BY DEF Place
<1>1. ctx.cs = cs /\ ctx.open = open /\ ctx.trail = n
  BY DEF Ctx
<1>2. c.ctx = ctx /\ c.off = p /\ c.ret = 0 /\ IsState(c)
  BY DEF At, IsState
<1>3. n \in Nat /\ n > 0 /\ p + n <= len /\ p + n <= Len(data)
  BY <1>0
<1>4. Waits(ctx) /\ (\A k \in 1 .. n : data[p + k] = B[k])
  BY <1>0 DEF Has
<1>5. Taken(data, p, n) = B
  <2>1. /\ Taken(data, p, n) \in Seq(Byte) /\ Len(Taken(data, p, n)) = n
        /\ \A k \in 1 .. n : Taken(data, p, n)[k] = data[p + k]
    BY <1>0, <1>3, TakenIs
  <2>2. \A k \in 1 .. n : Taken(data, p, n)[k] = B[k]
    BY <1>4, <2>1
  <2> QED BY <2>1, <2>2, SeqIs, SameSeq
<1> HIDE DEF ctx, c
<1>6. Good(c, len)
  BY <1>0, <1>1, <1>2, <1>3, <1>4 DEF Good
<1>7. ~Stops(c, len)
  BY <1>0, <1>1, <1>2, <1>3 DEF Stops
<1>8. Turn(c, data) = Field(ctx, B, p + n)
  BY <1>1, <1>2, <1>5 DEF Turn
<1>9. Turns(c, data, len) = Turns(Turn(c, data), data, len)
  BY <1>0, <1>6, <1>7, TurnsFirst
<1> QED BY <1>8, <1>9 DEF ctx, c

(* A header and the field behind it.                                       *)
LEMMA HeadedTurns ==
  ASSUME NEW h \in UintHeaders \cup StrHeaders \cup ArrayHeaders,
         NEW B \in Seq(Byte), Len(B) = FieldSize(h),
         NEW data, NEW len, NEW p, NEW open, NEW trail,
         NEW C, Joins(C, <<h>>, B), Place(data, len, p, open, C)
  PROVE  Turns(At(Ctx(HeaderNext, trail, open), p), data, len)
           = Turns(Field(Ctx(h, Len(B), open), B, p + Len(C)), data, len)
<1>1. /\ data \in Seq(Byte) /\ len \in Nat /\ len <= Len(data) /\ p \in Nat /\ IsSeq(open)
      /\ Has(data, p, C) /\ p + Len(C) <= len
  BY DEF Place
<1>2. h \in Byte /\ h \notin 0 .. 127 /\ h \notin 144 .. 191 /\ h \notin {194, 195}
  BY DEF UintHeaders, StrHeaders, ArrayHeaders, Byte
<1>3. /\ Len(C) = 1 + Len(B) /\ data[p + 1] = h /\ Has(data, p + 1, B)
  <2>1. h \in Byte /\ data \in Seq(Byte) /\ p \in Nat /\ Has(data, p, C)
    BY <1>1, <1>2
  <2> QED BY <2>1, HasHeaded
<1> DEFINE ctx == Ctx(HeaderNext, trail, open)
           n   == Len(B)
<1>4. n \in Nat /\ n > 0 /\ h # HeaderNext /\ n = FieldSize(h) /\ n = Len(B)
  BY FieldSizes
<1>5. Header(ctx, h, p + 1) = At(Ctx(h, n, open), p + 1)
  <2>1. ctx.open = open /\ ctx.data = <<>>
    BY DEF Ctx
  <2> HIDE DEF ctx, n
  <2>2. Header(ctx, h, p + 1) = Await(ctx, h, FieldSize(h), p + 1)
    <3>1. ~(h < 128)
      BY <1>2 DEF Byte
    <3> QED BY <1>2, <3>1 DEF Header
  <2> QED BY <1>4, <2>1, <2>2 DEF Await, At, Ctx
<1>6. p < len /\ p + 1 \in Nat /\ p + 1 + n <= len /\ p + Len(C) = p + 1 + n
  BY <1>1, <1>3, <1>4
<1>7. Waits(Ctx(h, n, open))
  BY <1>4 DEF Waits, Ctx
<1>8. Turns(At(ctx, p), data, len) = Turns(At(Ctx(h, n, open), p + 1), data, len)
  BY <1>1, <1>3, <1>5, <1>6, HeaderTurn
<1>9. Turns(At(Ctx(h, n, open), p + 1), data, len)
        = Turns(Field(Ctx(h, n, open), B, p + 1 + n), data, len)
  <2> DEFINE q == p + 1
  <2>1. q \in Nat /\ q + n <= len
    BY <1>6
  <2>2. Has(data, q, B)
    BY <1>3
  <2> HIDE DEF q, n
  <2>3. Turns(At(Ctx(h, n, open), q), data, len)
          = Turns(Field(Ctx(h, n, open), B, q + n), data, len)
    <3>1. n \in Nat /\ n > 0 /\ h # HeaderNext /\ n = Len(B)
      BY <1>4
    <3>2. Place(data, len, q, open, B)
      BY <1>1, <2>1, <2>2, <3>1 DEF Place
    <3> QED BY <1>7, <3>1, <3>2, FieldTurn
  <2> QED BY <2>3 DEF q
<1> QED BY <1>6, <1>8, <1>9
-----------------------------------------------------------------------------
(* Integers, booleans and strings *)

(* An integer is what was stored of it, without the zeros before it.       *)
LEMMA LoadUintStore ==
  ASSUME NEW d \in Seq(Byte), d # <<>> => d[1] # 0, NEW w \in Nat, Len(d) <= w
  PROVE  /\ Store(d, w) \in Seq(Byte)
         /\ Len(Store(d, w)) = w
         /\ LoadUint(Store(d, w)) = d
<1> DEFINE S == Store(d, w)
           m == Len(d)
           z == w - m
           Zeros(n) == (\A k \in 1 .. n : S[k] = 0) /\ (n < w => S[n + 1] # 0)
<1>1. m \in Nat /\ z \in 0 .. w /\ z \in Nat /\ z + m = w /\ m <= w
  OBVIOUS
<1>2. 0 \in Byte
  BY DEF Byte
<1>3. S = [k \in 1 .. w |-> IF k + m > w THEN d[k + m - w] ELSE 0]
  BY DEF Store
<1> HIDE DEF S
<1>4. S \in Seq(Byte) /\ Len(S) = w
  <2>1. \A k \in 1 .. w : k + m > w => k + m - w \in 1 .. m
    BY <1>1
  <2>2. \A k \in 1 .. w : (IF k + m > w THEN d[k + m - w] ELSE 0) \in Byte
    BY <1>2, <2>1
  <2>3. S \in [1 .. w -> Byte]
    BY <1>3, <2>2
  <2> QED BY <2>3
<1>5. \A k \in 1 .. z : S[k] = 0
  <2>1. \A k \in 1 .. z : k \in 1 .. w /\ ~(k + m > w)
    BY <1>1
  <2> QED BY <1>3, <2>1
<1>6. \A k \in 1 .. m : S[z + k] = d[k]
  <2>1. \A k \in 1 .. m : z + k \in 1 .. w /\ z + k + m > w /\ z + k + m - w = k
    BY <1>1
  <2> HIDE DEF z, m
  <2> QED BY <1>3, <2>1
<1>7. z < w => S[z + 1] # 0
  <2>1. z < w => 1 \in 1 .. m /\ d # <<>>
    BY <1>1
  <2> HIDE DEF z, m
  <2> QED BY <1>6, <2>1
<1> HIDE DEF z, m
<1>8. \A n \in 0 .. w : Zeros(n) => n = z
  <2> SUFFICES ASSUME NEW n \in 0 .. w, Zeros(n) PROVE n = z
    OBVIOUS
  <2>1. CASE n < z
    <3>1. n + 1 \in 1 .. z /\ n < w
      BY <1>1, <2>1
    <3> QED BY <1>5, <3>1
  <2>2. CASE z < n
    <3>1. z + 1 \in 1 .. n /\ z < w
      BY <1>1, <2>2
    <3> QED BY <1>7, <3>1
  <2> QED BY <1>1, <2>1, <2>2
<1>9. (CHOOSE n \in 0 .. w : Zeros(n)) = z
  <2>1. Zeros(z)
    BY <1>5, <1>7
  <2> HIDE DEF Zeros
  <2> QED BY <1>1, <1>8, <2>1
<1>10. LoadUint(S) = SubSeq(S, z + 1, w)
  <2>1. LoadUint(S) = SubSeq(S, (CHOOSE n \in 0 .. w : Zeros(n)) + 1, w)
    BY <1>4 DEF LoadUint
  <2> HIDE DEF Zeros
  <2> QED BY <1>9, <2>1
<1>11. SubSeq(S, z + 1, w) = d
  <2>1. SubSeq(S, z + 1, w) = Taken(S, z, m)
    BY <1>1 DEF Taken
  <2>2. /\ Taken(S, z, m) \in Seq(Byte) /\ Len(Taken(S, z, m)) = m
        /\ \A k \in 1 .. m : Taken(S, z, m)[k] = S[z + k]
    BY <1>1, <1>4, TakenIs
  <2>3. Len(d) = m /\ \A k \in 1 .. m : Taken(S, z, m)[k] = d[k]
    BY <1>6, <2>2 DEF m
  <2>4. Taken(S, z, m) = d
    BY <2>2, <2>3, SeqIs, SameSeq
  <2> QED BY <2>1, <2>4
<1> QED BY <1>4, <1>10, <1>11 DEF S

(* The one byte of C is h.                                                 *)
Single(C, h) == C = <<h>>

(* A header alone.                                                         *)
LEMMA HeaderTurns ==
  ASSUME NEW h \in Byte, NEW data, NEW len, NEW p, NEW open, NEW trail,
         NEW C, Single(C, h), Place(data, len, p, open, C)
  PROVE  Turns(At(Ctx(HeaderNext, trail, open), p), data, len)
           = Turns(Header(Ctx(HeaderNext, trail, open), h, p + Len(C)), data, len)
<1>1. Len(C) = 1 /\ C[1] = h
  BY DEF Single
<1>2. /\ data \in Seq(Byte) /\ len \in Nat /\ len <= Len(data) /\ p \in Nat /\ IsSeq(open)
  BY DEF Place
<1>3. p < len /\ p + Len(C) = p + 1
  BY <1>1, <1>2 DEF Place
<1>4. data[p + 1] = h
  <2>1. 1 \in 1 .. Len(C)
    BY <1>1
  <2> QED BY <1>1, <2>1 DEF Place, Has
<1>5. Turns(At(Ctx(HeaderNext, trail, open), p), data, len)
        = Turns(Header(Ctx(HeaderNext, trail, open), data[p + 1], p + 1), data, len)
  BY <1>2, <1>3, HeaderTurn
<1> QED BY <1>3, <1>4, <1>5

(* A header that is a whole object.                                        *)
LEMMA HeaderReads ==
  ASSUME NEW h \in Byte, NEW O,
         \A trail, open, off : Header(Ctx(HeaderNext, trail, open), h, off)
                                 = PushProc(Ctx(HeaderNext, trail, open), O, off)
  PROVE  Reads(<<h>>, O)
<1> DEFINE B == <<h>>
<1>1. B \in Seq(Byte) /\ B # <<>>
  OBVIOUS
<1>2. Single(B, h)
  BY DEF Single
<1> HIDE DEF B
<1>3. ASSUME NEW data, NEW len, NEW p, NEW open, NEW trail, Place(data, len, p, open, B)
      PROVE  Turns(At(Ctx(HeaderNext, trail, open), p), data, len)
               = Turns(PushProc(Ctx(HeaderNext, trail, open), O, p + Len(B)), data, len)
  <2>1. Turns(At(Ctx(HeaderNext, trail, open), p), data, len)
          = Turns(Header(Ctx(HeaderNext, trail, open), h, p + Len(B)), data, len)
    BY <1>2, <1>3, HeaderTurns
  <2> QED BY <2>1
<1> QED BY <1>1, <1>3 DEF Reads, B

(* A header and a field that are a whole object.                           *)
LEMMA FieldReads ==
  ASSUME NEW h \in UintHeaders \cup StrHeaders \cup ArrayHeaders,
         NEW B \in Seq(Byte), Len(B) = FieldSize(h), NEW C, Joins(C, <<h>>, B), NEW O,
         \A open, off : Field(Ctx(h, Len(B), open), B, off) = PushProc(Ctx(h, Len(B), open), O, off)
  PROVE  Reads(C, O)
<1>1. C \in Seq(Byte) /\ C # <<>>
  <2>1. h \in Byte
    BY DEF UintHeaders, StrHeaders, ArrayHeaders, Byte
  <2>2. <<h>> \in Seq(Byte) /\ Len(<<h>>) = 1
    BY <2>1
  <2>3. C \in Seq(Byte) /\ Len(C) = 1 + Len(B)
    BY <2>2, JoinsIs
  <2> QED BY <2>3
<1>2. ASSUME NEW data, NEW len, NEW p, NEW open, NEW trail, Place(data, len, p, open, C)
      PROVE  Turns(At(Ctx(HeaderNext, trail, open), p), data, len)
               = Turns(PushProc(Ctx(h, Len(B), open), O, p + Len(C)), data, len)
  <2>1. Turns(At(Ctx(HeaderNext, trail, open), p), data, len)
          = Turns(Field(Ctx(h, Len(B), open), B, p + Len(C)), data, len)
    BY <1>2, HeadedTurns
  <2> QED BY <2>1
<1> QED BY <1>1, <1>2 DEF Reads

(* The digits of a number do not begin with 0.                             *)
Short(d) == d # <<>> => d[1] # 0

(* Bytes are bytes.                                                        *)
LEMMA ByteAt == ASSUME NEW d \in Seq(Byte), NEW k \in 1 .. Len(d) PROVE d[k] \in Byte
OBVIOUS

(* A header and the field behind it that are an integer.                   *)
LEMMA HeadedUintReads ==
  ASSUME NEW d \in Seq(Byte), Short(d),
         NEW h \in UintHeaders, NEW w, w = FieldSize(h), Len(d) <= w
  PROVE  Reads(<<h>> \o Store(d, w), Object("uint", d))
<1> DEFINE B == Store(d, w)
           C == <<h>> \o B
           O == Object("uint", d)
<1>1. w \in Nat
  BY FieldSizes
<1>2. d # <<>> => d[1] # 0
  BY DEF Short
<1>3. B \in Seq(Byte) /\ Len(B) = w /\ LoadUint(B) = d
  BY <1>1, <1>2, LoadUintStore
<1>4. Joins(C, <<h>>, B)
  BY DEF Joins
<1> HIDE DEF B, C, O
<1>5. ASSUME NEW open, NEW off
      PROVE  Field(Ctx(h, Len(B), open), B, off) = PushProc(Ctx(h, Len(B), open), O, off)
  <2>1. Ctx(h, Len(B), open).cs = h
    BY DEF Ctx
  <2>2. h \notin StrHeaders \cup ArrayHeaders
    BY DEF UintHeaders, StrHeaders, ArrayHeaders
  <2> QED BY <1>3, <2>1, <2>2 DEF Field, O
<1>6. h \in UintHeaders \cup StrHeaders \cup ArrayHeaders /\ Len(B) = FieldSize(h)
  BY <1>3
<1>7. Reads(C, O)
  BY <1>3, <1>4, <1>5, <1>6, FieldReads
<1> QED BY <1>7 DEF B, C, O

(* A header that is an integer.                                            *)
LEMMA FixnumReads ==
  ASSUME NEW d \in Seq(Byte), Short(d), Len(d) <= 1, Store(d, 1)[1] < 128
  PROVE  Reads(Store(d, 1), Object("uint", d))
<1> DEFINE B == Store(d, 1)
           h == B[1]
<1>1. d # <<>> => d[1] # 0
  BY DEF Short
<1>2. B \in Seq(Byte) /\ Len(B) = 1 /\ LoadUint(B) = d
  BY <1>1, LoadUintStore
<1>3. h < 128
  OBVIOUS
<1> HIDE DEF B
<1>4. h \in Byte /\ B = <<h>>
  BY <1>2
<1> HIDE DEF h
<1>5. h \notin UintHeaders \cup StrHeaders \cup ArrayHeaders
  BY <1>3, <1>4 DEF UintHeaders, StrHeaders, ArrayHeaders, Byte
<1>6. h \notin 144 .. 191 /\ h # 194 /\ h # 195
  BY <1>3, <1>4 DEF Byte
<1>7. ASSUME NEW trail, NEW open, NEW off
      PROVE Header(Ctx(HeaderNext, trail, open), h, off)
              = PushProc(Ctx(HeaderNext, trail, open), Object("uint", d), off)
  <2>1. LoadUint(<<h>>) = d
    BY <1>2, <1>4
  <2> QED BY <1>3, <1>5, <1>6, <2>1 DEF Header
<1>8. Reads(<<h>>, Object("uint", d))
  BY <1>4, <1>7, HeaderReads
<1> QED BY <1>4, <1>8 DEF B

(* The formats of the integers, by their sizes.                            *)
LEMMA PackUintIs ==
  ASSUME NEW d \in Seq(Byte), NEW n \in Nat, n = Len(d)
  PROVE  /\ n = 0 => PackUint(d) = Store(d, 1)
         /\ n = 1 /\ d[1] < 128 => PackUint(d) = Store(d, 1)
         /\ n = 1 /\ ~(d[1] < 128) => PackUint(d) = <<204>> \o Store(d, 1)
         /\ n = 2 => PackUint(d) = <<205>> \o Store(d, 2)
         /\ n = 3 \/ n = 4 => PackUint(d) = <<206>> \o Store(d, 4)
         /\ n > 4 => PackUint(d) = <<207>> \o Store(d, 8)
<1>1. d = <<>> <=> n = 0
  OBVIOUS
<1>2. n = 1 /\ ~(d[1] < 128) => d[1] >= 128
  <2>1. n = 1 => d[1] \in Byte
    <3>1. n = 1 => 1 \in 1 .. Len(d)
      OBVIOUS
    <3> QED BY <3>1, ByteAt
  <2>2. \A b \in Byte : ~(b < 128) => b >= 128
    BY DEF Byte
  <2> QED BY <2>1, <2>2
<1>3. n = 1 /\ d[1] < 128 => ~(d[1] >= 128)
  <2>1. n = 1 => d[1] \in Byte
    <3>1. n = 1 => 1 \in 1 .. Len(d)
      OBVIOUS
    <3> QED BY <3>1, ByteAt
  <2>2. \A b \in Byte : b < 128 => ~(b >= 128)
    BY DEF Byte
  <2> QED BY <2>1, <2>2
<1>4. CASE n = 0
  BY <1>1, <1>4 DEF PackUint
<1>5. CASE n = 1
  BY <1>1, <1>2, <1>3, <1>5 DEF PackUint
<1>6. CASE n > 1
  <2>1. ~(d = <<>>) /\ ~(n = 1)
    BY <1>1, <1>6
  <2>2. PackUint(d) = CASE n = 2 -> <<205>> \o Store(d, 2)
                        [] n \in 3 .. 4 -> <<206>> \o Store(d, 4)
                        [] OTHER -> <<207>> \o Store(d, 8)
    BY <2>1 DEF PackUint
  <2>3. n # 0 /\ n # 1
    BY <1>6
  <2>4. n = 2 => PackUint(d) = <<205>> \o Store(d, 2)
    BY <2>2
  <2>5. n = 3 \/ n = 4 => PackUint(d) = <<206>> \o Store(d, 4)
    <3>1. \A m \in Nat : m = 3 \/ m = 4 => m # 2 /\ m \in 3 .. 4
      OBVIOUS
    <3> QED BY <2>2, <3>1
  <2>6. n > 4 => PackUint(d) = <<207>> \o Store(d, 8)
    <3>1. \A m \in Nat : m > 4 => m # 2 /\ m \notin 3 .. 4
      OBVIOUS
    <3> QED BY <2>2, <3>1
  <2> QED BY <2>3, <2>4, <2>5, <2>6
<1> QED BY <1>4, <1>5, <1>6

(* An integer is read as it was packed.                                    *)
LEMMA UintReads ==
  ASSUME NEW d \in Seq(Byte), Len(d) <= 8, Short(d)
  PROVE  Reads(PackUint(d), Object("uint", d))
<1> DEFINE n == Len(d)
           O == Object("uint", d)
<1>1. n \in Nat /\ n <= 8 /\ n = Len(d)
  OBVIOUS
<1>2. /\ FieldSize(204) = 1 /\ FieldSize(205) = 2 /\ FieldSize(206) = 4 /\ FieldSize(207) = 8
      /\ {204, 205, 206, 207} \subseteq UintHeaders
  BY DEF FieldSize, UintHeaders
<1> HIDE DEF n, O
<1>3. CASE n = 0
  <2>1. Store(d, 1)[1] < 128
    BY <1>1, <1>3 DEF Store
  <2>2. Len(d) <= 1
    BY <1>1, <1>3
  <2>3. Reads(Store(d, 1), O)
    BY <2>1, <2>2, FixnumReads DEF O
  <2> QED BY <1>1, <1>3, <2>3, PackUintIs DEF O
<1>4. CASE n = 1 /\ d[1] < 128
  <2>1. Store(d, 1)[1] < 128
    BY <1>1, <1>4 DEF Store
  <2>2. Len(d) <= 1
    BY <1>1, <1>4
  <2>3. Reads(Store(d, 1), O)
    BY <2>1, <2>2, FixnumReads DEF O
  <2> QED BY <1>1, <1>4, <2>3, PackUintIs DEF O
<1>5. CASE n = 1 /\ ~(d[1] < 128)
  <2>1. 204 \in UintHeaders /\ 1 = FieldSize(204) /\ Len(d) <= 1
    BY <1>1, <1>2, <1>5
  <2>2. Reads(<<204>> \o Store(d, 1), O)
    BY <2>1, HeadedUintReads DEF O
  <2> QED BY <1>1, <1>5, <2>2, PackUintIs DEF O
<1>6. CASE n = 2
  <2>1. 205 \in UintHeaders /\ 2 = FieldSize(205) /\ Len(d) <= 2
    BY <1>1, <1>2, <1>6
  <2>2. Reads(<<205>> \o Store(d, 2), O)
    BY <2>1, HeadedUintReads DEF O
  <2> QED BY <1>1, <1>6, <2>2, PackUintIs DEF O
<1>7. CASE n = 3 \/ n = 4
  <2>1. 206 \in UintHeaders /\ 4 = FieldSize(206) /\ Len(d) <= 4
    <3>1. n <= 4
      BY <1>7
    <3> QED BY <1>1, <1>2, <3>1
  <2>2. Reads(<<206>> \o Store(d, 4), O)
    BY <2>1, HeadedUintReads DEF O
  <2> QED BY <1>1, <1>7, <2>2, PackUintIs DEF O
<1>8. CASE n > 4
  <2>1. 207 \in UintHeaders /\ 8 = FieldSize(207) /\ Len(d) <= 8
    BY <1>1, <1>2, <1>8
  <2>2. Reads(<<207>> \o Store(d, 8), O)
    BY <2>1, HeadedUintReads DEF O
  <2> QED BY <1>1, <1>8, <2>2, PackUintIs DEF O
<1> QED BY <1>1, <1>3, <1>4, <1>5, <1>6, <1>7, <1>8 DEF O

(* A boolean is read as it was packed.                                     *)
LEMMA BoolReads ==
  ASSUME NEW v \in BOOLEAN
  PROVE  Reads(IF v THEN <<195>> ELSE <<194>>, Object("bool", v))
<1> DEFINE h == IF v THEN 195 ELSE 194
           O == Object("bool", v)
<1>1. (h = 195) = v
  OBVIOUS
<1>2. /\ h \in Byte /\ ~(h < 128) /\ h \notin 144 .. 191 /\ h \in {194, 195}
      /\ h \notin UintHeaders \cup StrHeaders \cup ArrayHeaders
  BY DEF Byte, UintHeaders, StrHeaders, ArrayHeaders
<1>3. <<h>> = IF v THEN <<195>> ELSE <<194>>
  OBVIOUS
<1> HIDE DEF h
<1>4. Object("bool", h = 195) = O
  BY <1>1
<1> HIDE DEF O
<1>5. ASSUME NEW trail, NEW open, NEW off
      PROVE Header(Ctx(HeaderNext, trail, open), h, off)
              = PushProc(Ctx(HeaderNext, trail, open), O, off)
  <2>1. Header(Ctx(HeaderNext, trail, open), h, off)
          = PushProc(Ctx(HeaderNext, trail, open), Object("bool", h = 195), off)
    BY <1>2 DEF Header
  <2> QED BY <1>4, <2>1
<1>6. Reads(<<h>>, O)
  BY <1>2, <1>5, HeaderReads
<1> QED BY <1>3, <1>6 DEF O

(* The bytes of a length are that length, with two of them                 *)
LEMMA Length16 ==
  ASSUME NEW n \in Nat, n < 65536
  PROVE  Store16(n) \in Seq(Byte) /\ Len(Store16(n)) = 2 /\ Load(Store16(n)) = n
<1> DEFINE a == n \div 256
           b == n % 256
           S == <<a, b>>
<1>1. a \in Nat /\ a < 256 /\ b \in Nat /\ b < 256 /\ 256 * a + b = n
  OBVIOUS
<1> HIDE DEF a, b
<1>2. a \in Byte /\ b \in Byte
  BY <1>1 DEF Byte
<1>3. S \in Seq(Byte) /\ Len(S) = 2 /\ S[1] = a /\ S[2] = b
  BY <1>2
<1> HIDE DEF S
<1>4. Load(S) = 256 * a + b
  BY <1>3 DEF Load
<1>5. S = Store16(n)
  BY DEF S, Store16, a, b
<1> QED BY <1>1, <1>3, <1>4, <1>5

(* and with four.                                                          *)
LEMMA Length32 ==
  ASSUME NEW n \in Nat, n \div 65536 < 65536
  PROVE  Store32(n) \in Seq(Byte) /\ Len(Store32(n)) = 4 /\ Load(Store32(n)) = n
<1> DEFINE h == n \div 65536
           l == n % 65536
           A == Store16(h)
           B == Store16(l)
           C == Store32(n)
<1>1. h \in Nat /\ h < 65536 /\ l \in Nat /\ l < 65536 /\ 65536 * h + l = n
  OBVIOUS
<1>2. C = A \o B
  BY DEF Store32
<1> HIDE DEF h, l, C
<1>3. A \in Seq(Byte) /\ Len(A) = 2 /\ Load(A) = h
  BY <1>1, Length16
<1>4. B \in Seq(Byte) /\ Len(B) = 2 /\ Load(B) = l
  BY <1>1, Length16
<1> HIDE DEF A, B
<1>5. Load(A) = 256 * A[1] + A[2] /\ Load(B) = 256 * B[1] + B[2]
  BY <1>3, <1>4 DEF Load
<1>6. /\ C \in Seq(Byte) /\ Len(C) = 4
      /\ C[1] = A[1] /\ C[2] = A[2] /\ C[3] = B[1] /\ C[4] = B[2]
  <2>1. Joins(C, A, B)
    BY <1>2 DEF Joins
  <2>2. A \in Seq(Byte) /\ B \in Seq(Byte)
    BY <1>3, <1>4
  <2>3. /\ C \in Seq(Byte) /\ Len(C) = Len(A) + Len(B)
        /\ \A k \in 1 .. Len(A) : C[k] = A[k]
        /\ \A k \in 1 .. Len(B) : C[Len(A) + k] = B[k]
    BY <2>1, <2>2, JoinsIs
  <2>4. /\ 1 \in 1 .. Len(A) /\ 2 \in 1 .. Len(A) /\ 1 \in 1 .. Len(B) /\ 2 \in 1 .. Len(B)
        /\ Len(A) + 1 = 3 /\ Len(A) + 2 = 4 /\ Len(A) + Len(B) = 4
    BY <1>3, <1>4
  <2>5. C[1] = A[1] /\ C[2] = A[2]
    BY <2>3, <2>4
  <2>6. C[3] = B[1] /\ C[4] = B[2]
    <3>1. C[Len(A) + 1] = B[1] /\ C[Len(A) + 2] = B[2]
      BY <2>3, <2>4
    <3> QED BY <2>4, <3>1
  <2> QED BY <2>3, <2>4, <2>5, <2>6
<1>7. Load(C) = 256 * (256 * (256 * C[1] + C[2]) + C[3]) + C[4]
  BY <1>6 DEF Load
<1>8. A[1] \in Byte /\ A[2] \in Byte /\ B[1] \in Byte /\ B[2] \in Byte
  BY <1>3, <1>4
<1>9. \A a, b, c, d \in Byte : 256 * a + b = h /\ 256 * c + d = l =>
        256 * (256 * (256 * a + b) + c) + d = n
  BY <1>1 DEF Byte
<1>10. 256 * A[1] + A[2] = h /\ 256 * B[1] + B[2] = l
  BY <1>3, <1>4, <1>5
<1>11. Load(C) = n
  BY <1>6, <1>7, <1>8, <1>9, <1>10
<1> QED BY <1>6, <1>11 DEF C

(* What 32 bits can say.                                                   *)
Sized(n) == n \div 65536 < 65536

(* B is the field behind h, and says n.                                    *)
Says(B, h, n) == B \in Seq(Byte) /\ Len(B) = FieldSize(h) /\ Load(B) = n

(* A header and the field behind it that says n.                           *)
Headed(C, headers, n) == \E h \in headers, B \in Seq(Byte) : Says(B, h, n) /\ Joins(C, <<h>>, B)

(* One byte says it,                                                       *)
LEMMA Says1 ==
  ASSUME NEW n \in Nat, n < 256, NEW h, FieldSize(h) = 1
  PROVE  Says(<<n>>, h, n)
<1> DEFINE B == <<n>>
<1>1. n \in Byte
  BY DEF Byte
<1>2. B \in Seq(Byte) /\ Len(B) = 1 /\ B[1] = n
  BY <1>1
<1> HIDE DEF B
<1>3. Load(B) = n
  BY <1>2 DEF Load
<1>4. Says(B, h, n)
  BY <1>2, <1>3 DEF Says
<1> QED BY <1>4 DEF B

(* two                                                                     *)
LEMMA Says2 ==
  ASSUME NEW n \in Nat, n < 65536, NEW h, FieldSize(h) = 2
  PROVE  Says(Store16(n), h, n)
BY Length16 DEF Says

(* or four.                                                                *)
LEMMA Says4 ==
  ASSUME NEW n \in Nat, Sized(n), NEW h, FieldSize(h) = 4
  PROVE  Says(Store32(n), h, n)
BY Length32 DEF Says, Sized

(* What a header that is followed by its field is.                         *)
LEMMA HeadedBy ==
  ASSUME NEW headers, NEW h \in headers, NEW B, NEW n, Says(B, h, n), NEW C, C = <<h>> \o B
  PROVE  Headed(C, headers, n)
BY Zenon DEF Headed, Says, Joins

(* The lengths of strings                                                  *)
LEMMA StrHeaderIs ==
  ASSUME NEW n \in Nat, Sized(n)
  PROVE  /\ n < 32 => Single(StrHeader(n), 160 + n)
         /\ ~(n < 32) => Headed(StrHeader(n), StrHeaders, n)
<1>1. n < 32 => StrHeader(n) = <<160 + n>>
  BY DEF StrHeader
<1>2. ~(n < 32) /\ n < 256 => StrHeader(n) = <<217, n>>
  BY DEF StrHeader
<1>3. ~(n < 256) /\ n < 65536 => StrHeader(n) = <<218>> \o Store16(n)
  BY DEF StrHeader
<1>4. ~(n < 65536) => StrHeader(n) = <<219>> \o Store32(n)
  BY DEF StrHeader
<1>5. <<217, n>> = <<217>> \o <<n>>
  OBVIOUS
<1>6. /\ 217 \in StrHeaders /\ FieldSize(217) = 1
      /\ 218 \in StrHeaders /\ FieldSize(218) = 2
      /\ 219 \in StrHeaders /\ FieldSize(219) = 4
  BY DEF StrHeaders, FieldSize
<1>7. /\ n < 256 => Says(<<n>>, 217, n)
      /\ n < 65536 => Says(Store16(n), 218, n)
      /\ Says(Store32(n), 219, n)
  <2>1. n < 256 => Says(<<n>>, 217, n)
    BY <1>6, Says1
  <2>2. n < 65536 => Says(Store16(n), 218, n)
    BY <1>6, Says2
  <2>3. Says(Store32(n), 219, n)
    BY <1>6, Says4
  <2> QED BY <2>1, <2>2, <2>3
<1>8. n < 32 => Single(StrHeader(n), 160 + n)
  BY <1>1 DEF Single
<1>9. ASSUME ~(n < 32), n < 256 PROVE Headed(StrHeader(n), StrHeaders, n)
  <2> DEFINE B == <<n>>
  <2>1. StrHeader(n) = <<217>> \o B
    BY <1>2, <1>5, <1>9
  <2>2. Says(B, 217, n)
    BY <1>7, <1>9
  <2>3. 217 \in StrHeaders
    BY <1>6
  <2> HIDE DEF B
  <2> QED BY <2>1, <2>2, <2>3, HeadedBy
<1>10. ASSUME ~(n < 256), n < 65536 PROVE Headed(StrHeader(n), StrHeaders, n)
  <2> DEFINE B == Store16(n)
  <2>1. StrHeader(n) = <<218>> \o B
    BY <1>3, <1>10
  <2>2. Says(B, 218, n)
    BY <1>7, <1>10
  <2>3. 218 \in StrHeaders
    BY <1>6
  <2> HIDE DEF B
  <2> QED BY <2>1, <2>2, <2>3, HeadedBy
<1>11. ASSUME ~(n < 65536) PROVE Headed(StrHeader(n), StrHeaders, n)
  <2> DEFINE B == Store32(n)
  <2>1. StrHeader(n) = <<219>> \o B
    BY <1>4, <1>11
  <2>2. Says(B, 219, n)
    BY <1>7
  <2>3. 219 \in StrHeaders
    BY <1>6
  <2> HIDE DEF B
  <2> QED BY <2>1, <2>2, <2>3, HeadedBy
<1> QED BY <1>8, <1>9, <1>10, <1>11

(* and of arrays.                                                          *)
LEMMA ArrayHeaderIs ==
  ASSUME NEW n \in Nat, Sized(n)
  PROVE  /\ n < 16 => Single(PackArray(n), 144 + n)
         /\ ~(n < 16) => Headed(PackArray(n), ArrayHeaders, n)
<1>1. n < 16 => PackArray(n) = <<144 + n>>
  BY DEF PackArray
<1>2. ~(n < 16) /\ n < 65536 => PackArray(n) = <<220>> \o Store16(n)
  BY DEF PackArray
<1>3. ~(n < 65536) => PackArray(n) = <<221>> \o Store32(n)
  BY DEF PackArray
<1>4. /\ 220 \in ArrayHeaders /\ FieldSize(220) = 2
      /\ 221 \in ArrayHeaders /\ FieldSize(221) = 4
  BY DEF ArrayHeaders, FieldSize
<1>5. /\ n < 65536 => Says(Store16(n), 220, n)
      /\ Says(Store32(n), 221, n)
  <2>1. n < 65536 => Says(Store16(n), 220, n)
    BY <1>4, Says2
  <2>2. Says(Store32(n), 221, n)
    BY <1>4, Says4
  <2> QED BY <2>1, <2>2
<1>6. n < 16 => Single(PackArray(n), 144 + n)
  BY <1>1 DEF Single
<1>7. ASSUME ~(n < 16), n < 65536 PROVE Headed(PackArray(n), ArrayHeaders, n)
  <2> DEFINE B == Store16(n)
  <2>1. PackArray(n) = <<220>> \o B
    BY <1>2, <1>7
  <2>2. Says(B, 220, n)
    BY <1>5, <1>7
  <2>3. 220 \in ArrayHeaders
    BY <1>4
  <2> HIDE DEF B
  <2> QED BY <2>1, <2>2, <2>3, HeadedBy
<1>8. ASSUME ~(n < 65536) PROVE Headed(PackArray(n), ArrayHeaders, n)
  <2> DEFINE B == Store32(n)
  <2>1. PackArray(n) = <<221>> \o B
    BY <1>3, <1>8
  <2>2. Says(B, 221, n)
    BY <1>5
  <2>3. 221 \in ArrayHeaders
    BY <1>4
  <2> HIDE DEF B
  <2> QED BY <2>1, <2>2, <2>3, HeadedBy
<1> QED BY <1>6, <1>7, <1>8

(* A header alone is bytes,                                                *)
LEMMA SingleIs ==
  ASSUME NEW C, NEW h \in Byte, Single(C, h)
  PROVE  C \in Seq(Byte) /\ C # <<>>
BY DEF Single

(* and so is one with its field.                                           *)
LEMMA HeadedIs ==
  ASSUME NEW C, NEW h \in Byte, NEW B \in Seq(Byte), Joins(C, <<h>>, B)
  PROVE  C \in Seq(Byte) /\ C # <<>>
<1>1. <<h>> \in Seq(Byte) /\ Len(<<h>>) = 1
  OBVIOUS
<1>2. C \in Seq(Byte) /\ Len(C) = 1 + Len(B)
  BY <1>1, JoinsIs
<1> QED BY <1>2

(* A sequence of no bytes                                                  *)
LEMMA NoBytes ==
  ASSUME NEW s \in Seq(Byte), Len(s) = 0
  PROVE  s = <<>>
OBVIOUS

(* The headers with a length in them.                                      *)
LEMMA HeaderRanges ==
  ASSUME NEW ctx, NEW off
  PROVE  /\ \A h \in 144 .. 159 :
              h \in Byte /\ Header(ctx, h, off) = PushAggregate(ctx, h - 144, off)
         /\ \A h \in 160 .. 191 :
              h \in Byte /\ Header(ctx, h, off) = AwaitStr(ctx, h - 160, off)
<1>1. ASSUME NEW h \in 144 .. 159
      PROVE  h \in Byte /\ Header(ctx, h, off) = PushAggregate(ctx, h - 144, off)
  <2>1. h \notin UintHeaders \cup StrHeaders \cup ArrayHeaders
    BY DEF UintHeaders, StrHeaders, ArrayHeaders
  <2>2. ~(h < 128) /\ h \notin 160 .. 191 /\ h # 194 /\ h # 195
    OBVIOUS
  <2>3. h \in Byte
    BY DEF Byte
  <2> QED BY <2>1, <2>2, <2>3 DEF Header
<1>2. ASSUME NEW h \in 160 .. 191
      PROVE  h \in Byte /\ Header(ctx, h, off) = AwaitStr(ctx, h - 160, off)
  <2>1. h \notin UintHeaders \cup StrHeaders \cup ArrayHeaders
    BY DEF UintHeaders, StrHeaders, ArrayHeaders
  <2>2. ~(h < 128) /\ h \notin 144 .. 159 /\ h # 194 /\ h # 195
    OBVIOUS
  <2>3. h \in Byte
    BY DEF Byte
  <2> QED BY <2>1, <2>2, <2>3 DEF Header
<1> QED BY <1>1, <1>2

(* An array begins as it was packed.                                       *)
LEMMA ArrayOpens ==
  ASSUME NEW n \in Nat, Sized(n)
  PROVE  /\ PackArray(n) \in Seq(Byte)
         /\ PackArray(n) # <<>>
         /\ \A data, len, p, open, trail : Place(data, len, p, open, PackArray(n)) =>
              \E cs, t : Turns(At(Ctx(HeaderNext, trail, open), p), data, len)
                           = Turns(PushAggregate(Ctx(cs, t, open), n, p + Len(PackArray(n))),
                                   data, len)
<1> DEFINE C == PackArray(n)
           Opens(data, len, p, open, trail) ==
             \E cs, t : Turns(At(Ctx(HeaderNext, trail, open), p), data, len)
                          = Turns(PushAggregate(Ctx(cs, t, open), n, p + Len(C)), data, len)
<1>1. /\ n < 16 => Single(C, 144 + n)
      /\ ~(n < 16) => Headed(C, ArrayHeaders, n)
  BY ArrayHeaderIs
<1> HIDE DEF C
<1>2. CASE n < 16
  <2> DEFINE h == 144 + n
  <2>1. h \in 144 .. 159 /\ h - 144 = n
    BY <1>2
  <2>2. Single(C, h)
    BY <1>1, <1>2
  <2> HIDE DEF h
  <2>3. h \in Byte
    BY <2>1, HeaderRanges
  <2>4. C \in Seq(Byte) /\ C # <<>>
    BY <2>2, <2>3, SingleIs
  <2>5. ASSUME NEW data, NEW len, NEW p, NEW open, NEW trail, Place(data, len, p, open, C)
        PROVE  Opens(data, len, p, open, trail)
    <3> DEFINE ctx == Ctx(HeaderNext, trail, open)
    <3>1. Turns(At(ctx, p), data, len) = Turns(Header(ctx, h, p + Len(C)), data, len)
      BY <2>2, <2>3, <2>5, HeaderTurns
    <3>2. Header(ctx, h, p + Len(C)) = PushAggregate(ctx, h - 144, p + Len(C))
      <4> HIDE DEF ctx
      <4> QED BY <2>1, HeaderRanges
    <3> QED BY <2>1, <3>1, <3>2
  <2> QED BY <2>4, <2>5 DEF C
<1>3. CASE ~(n < 16)
  <2>1. PICK h \in ArrayHeaders, B \in Seq(Byte) :
               Says(B, h, n) /\ Joins(C, <<h>>, B)
    <3>1. Headed(C, ArrayHeaders, n)
      BY <1>1, <1>3
    <3> QED BY <3>1 DEF Headed
  <2>5. Len(B) = FieldSize(h) /\ Load(B) = n
    BY <2>1 DEF Says
  <2>2. h \in Byte /\ h \notin UintHeaders /\ h \notin StrHeaders
    BY DEF Byte, UintHeaders, StrHeaders, ArrayHeaders
  <2>3. C \in Seq(Byte) /\ C # <<>>
    BY <2>1, <2>2, HeadedIs
  <2>4. ASSUME NEW data, NEW len, NEW p, NEW open, NEW trail, Place(data, len, p, open, C)
        PROVE  Opens(data, len, p, open, trail)
    <3> DEFINE ctx == Ctx(h, Len(B), open)
    <3>1. Turns(At(Ctx(HeaderNext, trail, open), p), data, len)
            = Turns(Field(ctx, B, p + Len(C)), data, len)
      BY <2>1, <2>4, <2>5, HeadedTurns
    <3>2. Field(ctx, B, p + Len(C)) = PushAggregate(ctx, n, p + Len(C))
      <4>1. ctx.cs = h
        BY DEF Ctx
      <4> HIDE DEF ctx
      <4> QED BY <2>5, <2>2, <4>1 DEF Field
    <3> QED BY <3>1, <3>2
  <2> QED BY <2>3, <2>4 DEF C
<1> QED BY <1>2, <1>3

(* A string begins as it was packed.                                       *)
LEMMA StrOpens ==
  ASSUME NEW n \in Nat, Sized(n)
  PROVE  /\ StrHeader(n) \in Seq(Byte)
         /\ StrHeader(n) # <<>>
         /\ \A data, len, p, open, trail : Place(data, len, p, open, StrHeader(n)) =>
              \E cs, t : Turns(At(Ctx(HeaderNext, trail, open), p), data, len)
                           = Turns(AwaitStr(Ctx(cs, t, open), n, p + Len(StrHeader(n))),
                                   data, len)
<1> DEFINE C == StrHeader(n)
           Opens(data, len, p, open, trail) ==
             \E cs, t : Turns(At(Ctx(HeaderNext, trail, open), p), data, len)
                          = Turns(AwaitStr(Ctx(cs, t, open), n, p + Len(C)), data, len)
<1>1. /\ n < 32 => Single(C, 160 + n)
      /\ ~(n < 32) => Headed(C, StrHeaders, n)
  BY StrHeaderIs
<1> HIDE DEF C
<1>2. CASE n < 32
  <2> DEFINE h == 160 + n
  <2>1. h \in 160 .. 191 /\ h - 160 = n
    BY <1>2
  <2>2. Single(C, h)
    BY <1>1, <1>2
  <2> HIDE DEF h
  <2>3. h \in Byte
    BY <2>1, HeaderRanges
  <2>4. C \in Seq(Byte) /\ C # <<>>
    BY <2>2, <2>3, SingleIs
  <2>5. ASSUME NEW data, NEW len, NEW p, NEW open, NEW trail, Place(data, len, p, open, C)
        PROVE  Opens(data, len, p, open, trail)
    <3> DEFINE ctx == Ctx(HeaderNext, trail, open)
    <3>1. Turns(At(ctx, p), data, len) = Turns(Header(ctx, h, p + Len(C)), data, len)
      BY <2>2, <2>3, <2>5, HeaderTurns
    <3>2. Header(ctx, h, p + Len(C)) = AwaitStr(ctx, h - 160, p + Len(C))
      <4> HIDE DEF ctx
      <4> QED BY <2>1, HeaderRanges
    <3> QED BY <2>1, <3>1, <3>2
  <2> QED BY <2>4, <2>5 DEF C
<1>3. CASE ~(n < 32)
  <2>1. PICK h \in StrHeaders, B \in Seq(Byte) :
               Says(B, h, n) /\ Joins(C, <<h>>, B)
    <3>1. Headed(C, StrHeaders, n)
      BY <1>1, <1>3
    <3> QED BY <3>1 DEF Headed
  <2>5. Len(B) = FieldSize(h) /\ Load(B) = n
    BY <2>1 DEF Says
  <2>2. h \in Byte /\ h \notin UintHeaders /\ h \notin ArrayHeaders
    BY DEF Byte, UintHeaders, StrHeaders, ArrayHeaders
  <2>3. C \in Seq(Byte) /\ C # <<>>
    BY <2>1, <2>2, HeadedIs
  <2>4. ASSUME NEW data, NEW len, NEW p, NEW open, NEW trail, Place(data, len, p, open, C)
        PROVE  Opens(data, len, p, open, trail)
    <3> DEFINE ctx == Ctx(h, Len(B), open)
    <3>1. Turns(At(Ctx(HeaderNext, trail, open), p), data, len)
            = Turns(Field(ctx, B, p + Len(C)), data, len)
      BY <2>1, <2>4, <2>5, HeadedTurns
    <3>2. Field(ctx, B, p + Len(C)) = AwaitStr(ctx, n, p + Len(C))
      <4>1. ctx.cs = h
        BY DEF Ctx
      <4> HIDE DEF ctx
      <4> QED BY <2>5, <2>2, <4>1 DEF Field
    <3> QED BY <3>1, <3>2
  <2> QED BY <2>3, <2>4 DEF C
<1> QED BY <1>2, <1>3

(* The bytes of a string are read.                                         *)
LEMMA BodyTurns ==
  ASSUME NEW s \in Seq(Byte), NEW n \in Nat, n = Len(s),
         NEW data, NEW len, NEW q, NEW open, Place(data, len, q, open, s), NEW cs, NEW trail
  PROVE  \E cs2, t2 : Turns(AwaitStr(Ctx(cs, trail, open), n, q), data, len)
                        = Turns(PushProc(Ctx(cs2, t2, open), Object("str", s), q + n),
                                data, len)
<1> DEFINE ctx == Ctx(cs, trail, open)
<1>2. ctx.open = open /\ ctx.data = <<>>
  BY DEF Ctx
<1>3. CASE n = 0
  <2>1. s = <<>> /\ q + n = q
    <3>1. Len(s) = 0 /\ q \in Nat
      BY <1>3 DEF Place
    <3> QED BY <3>1, <1>3, NoBytes
  <2>2. AwaitStr(ctx, n, q) = PushProc(ctx, Object("str", s), q + n)
    BY <1>3, <2>1 DEF AwaitStr, PushStr
  <2> QED BY <2>2
<1>4. CASE n # 0
  <2> DEFINE body == Ctx(BodyNext, n, open)
  <2>1. AwaitStr(ctx, n, q) = At(body, q)
    BY <1>2, <1>4 DEF AwaitStr, Await, At, Ctx
  <2>2. n > 0 /\ BodyNext # HeaderNext
    BY <1>4 DEF BodyNext, HeaderNext
  <2>3. Waits(body)
    BY <2>2 DEF Waits, Ctx
  <2>4. Turns(At(body, q), data, len) = Turns(Field(body, s, q + n), data, len)
    BY <2>2, <2>3, FieldTurn
  <2>5. Field(body, s, q + n) = PushProc(body, Object("str", s), q + n)
    <3>1. body.cs = BodyNext
      BY DEF Ctx
    <3>2. BodyNext \notin UintHeaders \cup StrHeaders \cup ArrayHeaders
      BY DEF UintHeaders, StrHeaders, ArrayHeaders, BodyNext
    <3> HIDE DEF body
    <3> QED BY <3>1, <3>2 DEF Field, PushStr
  <2> QED BY <2>1, <2>4, <2>5
<1> QED BY <1>3, <1>4

(* The places of two in a row                                              *)
LEMMA PlaceBoth ==
  ASSUME NEW A \in Seq(Byte), NEW B \in Seq(Byte), NEW C, Joins(C, A, B),
         NEW data, NEW len, NEW p, NEW open, Place(data, len, p, open, C)
  PROVE  /\ Place(data, len, p, open, A)
         /\ Place(data, len, p + Len(A), open, B)
         /\ Len(C) = Len(A) + Len(B)
<1>1. /\ data \in Seq(Byte) /\ len \in Nat /\ len <= Len(data) /\ p \in Nat /\ IsSeq(open)
      /\ Has(data, p, C) /\ p + Len(C) <= len
  BY DEF Place
<1>2. Len(C) = Len(A) + Len(B) /\ Has(data, p, A) /\ Has(data, p + Len(A), B)
  BY <1>1, HasBoth
<1>3. p + Len(A) <= len /\ p + Len(A) + Len(B) <= len /\ p + Len(A) \in Nat
  BY <1>1, <1>2
<1> QED BY <1>1, <1>2, <1>3 DEF Place

(* A string is read as it was packed.                                      *)
LEMMA StrReads ==
  ASSUME NEW s \in Seq(Byte), Sized(Len(s))
  PROVE  Reads(PackStr(s), Object("str", s))
<1> DEFINE n == Len(s)
           A == StrHeader(n)
           C == PackStr(s)
           O == Object("str", s)
<1>1. n \in Nat /\ n = Len(s) /\ Sized(n)
  OBVIOUS
<1>2. Joins(C, A, s)
  BY DEF Joins, PackStr
<1> HIDE DEF n
<1>3. /\ A \in Seq(Byte) /\ A # <<>>
      /\ \A data, len, p, open, trail : Place(data, len, p, open, A) =>
           \E cs, t : Turns(At(Ctx(HeaderNext, trail, open), p), data, len)
                        = Turns(AwaitStr(Ctx(cs, t, open), n, p + Len(A)), data, len)
  BY <1>1, StrOpens
<1> HIDE DEF A, C
<1>4. C \in Seq(Byte) /\ C # <<>>
  <2>1. C \in Seq(Byte) /\ Len(C) = Len(A) + Len(s)
    BY <1>2, <1>3, JoinsIs
  <2>2. Len(A) > 0
    BY <1>3
  <2> QED BY <2>1, <2>2
<1>5. ASSUME NEW data, NEW len, NEW p, NEW open, NEW trail, Place(data, len, p, open, C)
      PROVE  \E cs, t : Turns(At(Ctx(HeaderNext, trail, open), p), data, len)
                          = Turns(PushProc(Ctx(cs, t, open), O, p + Len(C)), data, len)
  <2>1. /\ Place(data, len, p, open, A)
        /\ Place(data, len, p + Len(A), open, s)
        /\ Len(C) = Len(A) + Len(s)
    BY <1>2, <1>3, <1>5, PlaceBoth
  <2> DEFINE q == p + Len(A)
  <2>2. PICK cs, t : Turns(At(Ctx(HeaderNext, trail, open), p), data, len)
                       = Turns(AwaitStr(Ctx(cs, t, open), n, q), data, len)
    BY <1>3, <2>1
  <2>3. q + n = p + Len(C)
    <3>1. p \in Nat /\ Len(A) \in Nat
      BY <1>3, <2>1 DEF Place
    <3> QED BY <1>1, <2>1, <3>1
  <2>4. Place(data, len, q, open, s)
    BY <2>1
  <2> HIDE DEF q
  <2>5. PICK cs2, t2 : Turns(AwaitStr(Ctx(cs, t, open), n, q), data, len)
                         = Turns(PushProc(Ctx(cs2, t2, open), O, q + n), data, len)
    BY <1>1, <2>4, BodyTurns
  <2> HIDE DEF O
  <2> QED BY <2>2, <2>3, <2>5
<1> HIDE DEF O
<1>6. Reads(C, O)
  BY <1>4, <1>5 DEF Reads
<1> QED BY <1>6 DEF C, O

-----------------------------------------------------------------------------
(* Arrays *)

(* The sequences bs one behind the other: j[k] are the first k of them.    *)
Rows(j, bs, n) ==
  /\ j[0] = <<>>
  /\ \A k \in 1 .. n : Joins(j[k], j[k - 1], bs[k])

(* They are bytes when each of bs is.                                      *)
LEMMA RowsAreBytes ==
  ASSUME NEW n \in Nat, NEW bs, \A k \in 1 .. n : bs[k] \in Seq(Byte),
         NEW j, Rows(j, bs, n)
  PROVE  \A k \in Nat : k <= n => j[k] \in Seq(Byte)
<1> DEFINE S == {k \in Nat : k <= n => j[k] \in Seq(Byte)}
<1>1. 0 \in S
  <2>1. <<>> \in Seq(Byte)
    OBVIOUS
  <2> QED BY <2>1 DEF Rows
<1>2. ASSUME NEW k \in Nat, k \in S PROVE k + 1 \in S
  <2> SUFFICES ASSUME k + 1 <= n PROVE j[k + 1] \in Seq(Byte)
    OBVIOUS
  <2>1. k + 1 \in 1 .. n /\ k + 1 - 1 = k /\ k <= n
    OBVIOUS
  <2>2. j[k] \in Seq(Byte) /\ bs[k + 1] \in Seq(Byte)
    BY <1>2, <2>1
  <2>3. Joins(j[k + 1], j[k], bs[k + 1])
    BY <2>1 DEF Rows
  <2> QED BY <2>2, <2>3, JoinsIs
<1> HIDE DEF S
<1>3. \A k \in Nat : k \in S
  BY <1>1, <1>2, Upward
<1> QED BY <1>3 DEF S

(* The equation of FlattenSeq                                              *)
Flat(f, bs, n) == f = [i \in 1 .. n |-> IF i = 1 THEN bs[i] ELSE f[i - 1] \o bs[i]]

(* The function in FlattenSeq exists.                                      *)
LEMMA FlatExists ==
  ASSUME NEW bs
  PROVE  \A n \in Nat : \E f : Flat(f, bs, n)
<1> DEFINE S == {n \in Nat : \E f : Flat(f, bs, n)}
<1>1. 0 \in S
  <2>1. Flat([i \in 1 .. 0 |-> <<>>], bs, 0)
    BY DEF Flat
  <2> QED BY <2>1
<1>2. ASSUME NEW n \in Nat, n \in S PROVE n + 1 \in S
  <2>1. PICK f : Flat(f, bs, n)
    BY <1>2
  <2> DEFINE g == [i \in 1 .. n + 1 |->
                     IF i <= n THEN f[i] ELSE IF i = 1 THEN bs[i] ELSE f[i - 1] \o bs[i]]
             h == [i \in 1 .. n + 1 |-> IF i = 1 THEN bs[i] ELSE g[i - 1] \o bs[i]]
  <2>2. ASSUME NEW i \in 1 .. n + 1
        PROVE  g[i] = IF i = 1 THEN bs[i] ELSE g[i - 1] \o bs[i]
    <3>1. i # 1 => i - 1 \in 1 .. n + 1 /\ i - 1 <= n
      OBVIOUS
    <3>2. i # 1 => g[i - 1] = f[i - 1]
      BY <3>1
    <3>3. CASE i <= n
      <4>1. i \in 1 .. n
        BY <3>3
      <4>2. f[i] = IF i = 1 THEN bs[i] ELSE f[i - 1] \o bs[i]
        BY <2>1, <4>1 DEF Flat
      <4>3. g[i] = f[i]
        BY <3>3
      <4> HIDE DEF g
      <4> QED BY <3>2, <4>2, <4>3
    <3>4. CASE ~(i <= n)
      <4>1. g[i] = IF i = 1 THEN bs[i] ELSE f[i - 1] \o bs[i]
        BY <3>4
      <4> HIDE DEF g
      <4> QED BY <3>2, <4>1
    <3> QED BY <3>3, <3>4
  <2>3. g = h
    <3>1. g = [i \in 1 .. n + 1 |-> g[i]]
      OBVIOUS
    <3> HIDE DEF g
    <3> QED BY <2>2, <3>1
  <2>4. Flat(g, bs, n + 1)
    BY <2>3 DEF Flat
  <2> HIDE DEF g
  <2> QED BY <2>4
<1> HIDE DEF S
<1>3. \A n \in Nat : n \in S
  BY <1>1, <1>2, Upward
<1> QED BY <1>3 DEF S

(* What FlattenSeq is                                                      *)
LEMMA FlattenIs ==
  ASSUME NEW bs, IsSeq(bs), \A k \in 1 .. Len(bs) : bs[k] \in Seq(Byte)
  PROVE  \E j : Rows(j, bs, Len(bs)) /\ j[Len(bs)] = FlattenSeq(bs)
<1> DEFINE n == Len(bs)
<1>1. n \in Nat
  BY DEF IsSeq
<1>2. CASE n = 0
  <2> DEFINE j == [k \in {0} |-> <<>>]
  <2>1. bs = <<>>
    BY <1>2 DEF IsSeq
  <2>2. FlattenSeq(bs) = bs
    BY <1>2 DEF FlattenSeq
  <2>3. j[0] = <<>>
    OBVIOUS
  <2>4. Rows(j, bs, n)
    BY <1>2, <2>3 DEF Rows
  <2> HIDE DEF j
  <2> QED BY <1>2, <2>1, <2>2, <2>3, <2>4 DEF Rows
<1>3. CASE n # 0
  <2> DEFINE f == CHOOSE f : Flat(f, bs, n)
             j == [k \in 0 .. n |-> IF k = 0 THEN <<>> ELSE f[k]]
  <2>1. Flat(f, bs, n)
    BY <1>1, FlatExists
  <2>2. FlattenSeq(bs) = f[n]
    BY <1>3 DEF FlattenSeq, Flat
  <2> HIDE DEF f
  <2>3. j[0] = <<>> /\ j[n] = f[n] /\ \A k \in 1 .. n : j[k] = f[k]
    BY <1>1, <1>3
  <2>4. ASSUME NEW k \in 1 .. n PROVE Joins(j[k], j[k - 1], bs[k])
    <3>1. f[k] = IF k = 1 THEN bs[k] ELSE f[k - 1] \o bs[k]
      BY <2>1 DEF Flat
    <3>2. bs[k] \in Seq(Byte)
      OBVIOUS
    <3> HIDE DEF j
    <3>3. CASE k = 1
      <4>1. bs[k] = <<>> \o bs[k]
        BY <3>2
      <4>2. j[k] = f[k] /\ j[k - 1] = <<>>
        <5>1. k - 1 = 0
          BY <3>3
        <5> QED BY <2>3, <5>1
      <4> QED BY <2>3, <3>1, <3>3, <4>1, <4>2 DEF Joins
    <3>4. CASE k # 1
      <4>1. k - 1 \in 1 .. n
        BY <1>1, <3>4
      <4>2. j[k] = f[k] /\ j[k - 1] = f[k - 1]
        BY <2>3, <4>1
      <4> QED BY <3>1, <3>4, <4>2 DEF Joins
    <3> QED BY <3>3, <3>4
  <2> HIDE DEF j
  <2>5. Rows(j, bs, n)
    BY <2>3, <2>4 DEF Rows
  <2> QED BY <2>2, <2>3, <2>5
<1> QED BY <1>2, <1>3

(* The first k of the objects os                                           *)
Firsts(os, k) == [i \in 1 .. k |-> os[i]]

(* one by one                                                              *)
LEMMA FirstsAre ==
  ASSUME NEW os, NEW k \in Nat
  PROVE  /\ IsSeq(Firsts(os, k))
         /\ Append(Firsts(os, k), os[k + 1]) = Firsts(os, k + 1)
         /\ Firsts(os, 0) = <<>>
<1>1. \A m \in Nat : /\ IsSeq(Firsts(os, m)) /\ Len(Firsts(os, m)) = m
                     /\ \A i \in 1 .. m : Firsts(os, m)[i] = os[i]
  BY DEF Firsts, IsSeq
<1>2. Firsts(os, 0) = <<>>
  BY DEF Firsts
<1>3. Append(Firsts(os, k), os[k + 1]) = Firsts(os, k + 1)
  <2> DEFINE s == Append(Firsts(os, k), os[k + 1])
             t == Firsts(os, k + 1)
  <2>1. /\ IsSeq(s) /\ Len(s) = k + 1 /\ s[k + 1] = os[k + 1]
        /\ \A i \in 1 .. k : s[i] = os[i]
    <3>1. /\ IsSeq(Firsts(os, k)) /\ Len(Firsts(os, k)) = k
          /\ \A i \in 1 .. k : Firsts(os, k)[i] = os[i]
      BY <1>1
    <3> QED BY <3>1, AppendIs
  <2>2. IsSeq(t) /\ Len(t) = k + 1 /\ \A i \in 1 .. k + 1 : t[i] = os[i]
    BY <1>1
  <2> HIDE DEF s, t
  <2>3. \A i \in 1 .. k + 1 : i = k + 1 \/ i \in 1 .. k
    OBVIOUS
  <2>4. \A i \in 1 .. Len(s) : s[i] = t[i]
    BY <2>1, <2>2, <2>3
  <2>5. s = t
    BY <2>1, <2>2, <2>4, SameSeq
  <2> QED BY <2>5 DEF s, t
<1> QED BY <1>1, <1>2, <1>3

(* The stack when k of n objects of an array have been parsed.             *)
Inside(open, os, k, n) == Append(open, [items |-> Firsts(os, k), count |-> n - k])

(* A place does not depend on the stack.                                   *)
LEMMA PlaceInside ==
  ASSUME NEW data, NEW len, NEW p, NEW open, NEW B, Place(data, len, p, open, B),
         NEW os, NEW k, NEW n
  PROVE  Place(data, len, p, Inside(open, os, k, n), B)
<1>1. IsSeq(open)
  BY DEF Place
<1>2. IsSeq(Inside(open, os, k, n))
  BY <1>1, AppendIs DEF Inside
<1> QED BY <1>2 DEF Place

(* An object is added to the array it is in,                               *)
LEMMA PushInside ==
  ASSUME NEW open, IsSeq(open), NEW os, NEW n \in Nat, NEW k \in Nat, k + 1 < n,
         NEW cs, NEW t, NEW off
  PROVE  PushProc(Ctx(cs, t, Inside(open, os, k, n)), os[k + 1], off)
           = At(Ctx(HeaderNext, t, Inside(open, os, k + 1, n)), off)
<1> DEFINE sp    == [items |-> Firsts(os, k), count |-> n - k]
           next  == [items |-> Append(sp.items, os[k + 1]), count |-> sp.count - 1]
           stack == Inside(open, os, k, n)
           ctx   == Ctx(cs, t, stack)
           obj   == os[k + 1]
<1>1. sp.items = Firsts(os, k) /\ sp.count = n - k /\ sp.count # 1 /\ n - k - 1 = n - (k + 1)
  OBVIOUS
<1>2. next = [items |-> Firsts(os, k + 1), count |-> n - (k + 1)]
  BY <1>1, FirstsAre
<1>3. stack = Append(open, sp)
  BY DEF Inside
<1>4. Inside(open, os, k + 1, n) = Append(open, next)
  BY <1>2 DEF Inside
<1>5. ctx.cs = cs /\ ctx.trail = t /\ ctx.open = stack
  BY DEF Ctx
<1> HIDE DEF sp, stack, ctx, obj
<1>6. PushItem(stack, obj) = [open |-> Append(open, next), data |-> <<>>]
  <2>1. PushItem(Append(open, sp), obj) =
          [open |-> Append(open, [items |-> Append(sp.items, obj), count |-> sp.count - 1]),
           data |-> <<>>]
    BY <1>1, PushMore
  <2> QED BY <1>3, <2>1 DEF obj
<1> HIDE DEF next
<1>7. PushProc(ctx, obj, off) = AfterPush(ctx, PushItem(stack, obj), off)
  BY <1>5, PushProcIs
<1>8. AfterPush(ctx, PushItem(stack, obj), off) = At(Ctx(HeaderNext, t, Append(open, next)), off)
  BY <1>5, <1>6 DEF AfterPush, At, Ctx
<1>9. PushProc(ctx, obj, off) = At(Ctx(HeaderNext, t, Inside(open, os, k + 1, n)), off)
  BY <1>4, <1>7, <1>8
<1> QED BY <1>9 DEF ctx, obj, stack

(* and the last one completes it.                                          *)
LEMMA PushLastInside ==
  ASSUME NEW open, IsSeq(open), NEW os, NEW n \in Nat, NEW k \in Nat, k + 1 = n,
         NEW cs, NEW t, NEW off
  PROVE  PushProc(Ctx(cs, t, Inside(open, os, k, n)), os[k + 1], off)
           = PushProc(Ctx(cs, t, open), Object("array", Firsts(os, n)), off)
<1> DEFINE sp    == [items |-> Firsts(os, k), count |-> n - k]
           stack == Inside(open, os, k, n)
           ctx   == Ctx(cs, t, stack)
           outer == Ctx(cs, t, open)
           obj   == os[k + 1]
           whole == Object("array", Firsts(os, n))
<1>1. sp.items = Firsts(os, k) /\ sp.count = 1
  OBVIOUS
<1>2. Append(sp.items, obj) = Firsts(os, n)
  BY <1>1, FirstsAre
<1>3. stack = Append(open, sp)
  BY DEF Inside
<1>4. /\ ctx.cs = cs /\ ctx.trail = t /\ ctx.open = stack
      /\ outer.cs = cs /\ outer.trail = t /\ outer.open = open
  BY DEF Ctx
<1> HIDE DEF sp, stack, ctx, obj, outer
<1>5. PushItem(stack, obj) = PushItem(open, whole)
  <2>1. PushItem(Append(open, sp), obj) = PushItem(open, Object("array", Append(sp.items, obj)))
    BY <1>1, PushLast
  <2> QED BY <1>2, <1>3, <2>1
<1> HIDE DEF whole
<1>6. PushProc(ctx, obj, off) = AfterPush(ctx, PushItem(stack, obj), off)
  BY <1>4, PushProcIs
<1>7. PushProc(outer, whole, off) = AfterPush(outer, PushItem(open, whole), off)
  BY <1>4, PushProcIs
<1>8. AfterPush(ctx, PushItem(stack, obj), off) = AfterPush(outer, PushItem(open, whole), off)
  BY <1>4, <1>5 DEF AfterPush
<1>9. PushProc(ctx, obj, off) = PushProc(outer, whole, off)
  BY <1>6, <1>7, <1>8
<1> QED BY <1>9 DEF ctx, obj, outer, whole, stack

(* Where the parser is when k of n objects have been parsed.               *)
Filled(open, os, k, n, cs, t, off) ==
  IF k = n THEN PushProc(Ctx(cs, t, open), Object("array", Firsts(os, n)), off)
  ELSE At(Ctx(HeaderNext, t, Inside(open, os, k, n)), off)

(* One more of them is read.                                               *)
LEMMA ItemTurns ==
  ASSUME NEW open, NEW os, NEW n \in Nat, NEW k \in Nat, k < n,
         NEW B, Reads(B, os[k + 1]),
         NEW data, NEW len, NEW p, Place(data, len, p, open, B), NEW trail
  PROVE  \E cs, t : Turns(At(Ctx(HeaderNext, trail, Inside(open, os, k, n)), p), data, len)
                      = Turns(Filled(open, os, k + 1, n, cs, t, p + Len(B)), data, len)
<1> DEFINE stack == Inside(open, os, k, n)
<1>1. IsSeq(open)
  BY DEF Place
<1>2. Place(data, len, p, stack, B)
  BY PlaceInside
<1> HIDE DEF stack
<1>3. PICK cs, t : Turns(At(Ctx(HeaderNext, trail, stack), p), data, len)
                     = Turns(PushProc(Ctx(cs, t, stack), os[k + 1], p + Len(B)), data, len)
  BY <1>2 DEF Reads
<1>4. PushProc(Ctx(cs, t, stack), os[k + 1], p + Len(B))
        = Filled(open, os, k + 1, n, cs, t, p + Len(B))
  <2> DEFINE off == p + Len(B)
  <2> HIDE DEF off
  <2>1. ASSUME k + 1 = n
        PROVE  PushProc(Ctx(cs, t, stack), os[k + 1], off) = Filled(open, os, k + 1, n, cs, t, off)
    BY <1>1, <2>1, PushLastInside DEF Filled, stack
  <2>2. ASSUME k + 1 # n
        PROVE  PushProc(Ctx(cs, t, stack), os[k + 1], off) = Filled(open, os, k + 1, n, cs, t, off)
    <3>1. k + 1 < n
      BY <2>2
    <3>2. PushProc(Ctx(cs, t, Inside(open, os, k, n)), os[k + 1], off)
            = At(Ctx(HeaderNext, t, Inside(open, os, k + 1, n)), off)
      BY <1>1, <3>1, PushInside
    <3>3. Filled(open, os, k + 1, n, cs, t, off)
            = At(Ctx(HeaderNext, t, Inside(open, os, k + 1, n)), off)
      BY <2>2 DEF Filled
    <3> QED BY <3>2, <3>3 DEF stack
  <2>3. PushProc(Ctx(cs, t, stack), os[k + 1], off) = Filled(open, os, k + 1, n, cs, t, off)
    BY <2>1, <2>2
  <2> QED BY <2>3 DEF off
<1> QED BY <1>3, <1>4 DEF stack

(* The k-th part of what has arrived is in its place.                      *)
InRow(j, bs, k, data, len, q, open) ==
  /\ j[k - 1] \in Seq(Byte)
  /\ Place(data, len, q + Len(j[k - 1]), open, bs[k])
  /\ Len(j[k]) = Len(j[k - 1]) + Len(bs[k])

(* So is each.                                                             *)
LEMMA RowsPlaces ==
  ASSUME NEW n \in Nat, NEW bs, \A k \in 1 .. n : bs[k] \in Seq(Byte),
         NEW j, Rows(j, bs, n),
         NEW data, NEW len, NEW q, NEW open, Place(data, len, q, open, j[n])
  PROVE  \A k \in 1 .. n : InRow(j, bs, k, data, len, q, open)
<1> DEFINE P(k) == Place(data, len, q, open, j[k])
           S    == {k \in 0 .. n : P(k)}
<1>1. \A k \in Nat : k <= n => j[k] \in Seq(Byte)
  BY RowsAreBytes
<1>2. ASSUME NEW k \in 1 .. n, P(k)
      PROVE  P(k - 1) /\ InRow(j, bs, k, data, len, q, open)
  <2> DEFINE A == j[k - 1]
             B == bs[k]
             C == j[k]
  <2>1. Joins(C, A, B)
    BY DEF Rows
  <2>2. A \in Seq(Byte) /\ B \in Seq(Byte)
    <3>1. k - 1 \in Nat /\ k - 1 <= n
      OBVIOUS
    <3> QED BY <1>1, <3>1
  <2>3. Place(data, len, q, open, C)
    BY <1>2
  <2> HIDE DEF A, B, C
  <2>4. /\ Place(data, len, q, open, A)
        /\ Place(data, len, q + Len(A), open, B)
        /\ Len(C) = Len(A) + Len(B)
    BY <2>1, <2>2, <2>3, PlaceBoth
  <2> QED BY <2>2, <2>4 DEF InRow, A, B, C
<1>3. P(n)
  OBVIOUS
<1> HIDE DEF P
<1>4. \A k \in 0 .. n : k \in S
  <2>1. n \in S
    BY <1>3
  <2>2. \A k \in 0 + 1 .. n : k \in S => k - 1 \in S
    BY <1>2
  <2>3. 0 \in Nat /\ 0 <= n
    OBVIOUS
  <2> HIDE DEF S
  <2> QED BY <2>1, <2>2, <2>3, Downward
<1>5. \A k \in 1 .. n : P(k)
  BY <1>4
<1> QED BY <1>2, <1>5

(* From c on, the parser finds O up to `off'.                              *)
Finds(c, open, O, off, data, len) ==
  \E cs, t : Turns(c, data, len) = Turns(PushProc(Ctx(cs, t, open), O, off), data, len)

(* All of them are read.                                                   *)
LEMMA ItemsTurns ==
  ASSUME NEW n \in Nat, n > 0, NEW bs, NEW os, \A k \in 1 .. n : Reads(bs[k], os[k]),
         NEW j, Rows(j, bs, n),
         NEW data, NEW len, NEW q, NEW open, Place(data, len, q, open, j[n]), NEW trail
  PROVE  Finds(At(Ctx(HeaderNext, trail, Inside(open, os, 0, n)), q), open,
               Object("array", Firsts(os, n)), q + Len(j[n]), data, len)
<1> DEFINE start == Turns(At(Ctx(HeaderNext, trail, Inside(open, os, 0, n)), q), data, len)
           Reaches(k) == \E cs, t :
             start = Turns(Filled(open, os, k, n, cs, t, q + Len(j[k])), data, len)
           S == {k \in Nat : k <= n => Reaches(k)}
<1>1. q \in Nat
  BY DEF Place
<1>2. \A k \in 1 .. n : bs[k] \in Seq(Byte)
  BY DEF Reads
<1>3. \A k \in 1 .. n : InRow(j, bs, k, data, len, q, open)
  BY <1>2, RowsPlaces
<1>4. 0 \in S
  <2>1. j[0] = <<>>
    BY DEF Rows
  <2>2. q + Len(j[0]) = q
    BY <1>1, <2>1
  <2>3. Filled(open, os, 0, n, 0, trail, q)
          = At(Ctx(HeaderNext, trail, Inside(open, os, 0, n)), q)
    BY DEF Filled
  <2>4. start = Turns(Filled(open, os, 0, n, 0, trail, q + Len(j[0])), data, len)
    BY <2>2, <2>3
  <2> HIDE DEF start
  <2> QED BY <2>4
<1> HIDE DEF start
<1>5. ASSUME NEW k \in Nat, k \in S PROVE k + 1 \in S
  <2> SUFFICES ASSUME k + 1 <= n PROVE Reaches(k + 1)
    OBVIOUS
  <2> DEFINE p == q + Len(j[k])
  <2>1. k < n /\ k <= n /\ k + 1 \in 1 .. n
    OBVIOUS
  <2>2. /\ j[k] \in Seq(Byte) /\ Place(data, len, p, open, bs[k + 1])
        /\ Len(j[k + 1]) = Len(j[k]) + Len(bs[k + 1])
    <3> DEFINE i == k + 1
    <3>1. InRow(j, bs, i, data, len, q, open)
      BY <1>3, <2>1
    <3>2. i - 1 = k
      OBVIOUS
    <3> HIDE DEF i
    <3>3. /\ j[i - 1] \in Seq(Byte) /\ Place(data, len, q + Len(j[i - 1]), open, bs[i])
          /\ Len(j[i]) = Len(j[i - 1]) + Len(bs[i])
      BY <3>1 DEF InRow
    <3> QED BY <3>2, <3>3 DEF i
  <2>3. p + Len(bs[k + 1]) = q + Len(j[k + 1])
    <3>1. bs[k + 1] \in Seq(Byte)
      BY <1>2, <2>1
    <3>2. Len(j[k]) \in Nat /\ Len(bs[k + 1]) \in Nat
      BY <2>2, <3>1
    <3>3. \A a, b \in Nat : q + a + b = q + (a + b)
      BY <1>1
    <3>4. p + Len(bs[k + 1]) = q + (Len(j[k]) + Len(bs[k + 1]))
      BY <3>2, <3>3
    <3> QED BY <2>2, <3>4
  <2>4. PICK cs, t : start = Turns(Filled(open, os, k, n, cs, t, p), data, len)
    BY <1>5, <2>1
  <2>5. Filled(open, os, k, n, cs, t, p) = At(Ctx(HeaderNext, t, Inside(open, os, k, n)), p)
    BY <2>1 DEF Filled
  <2>6. Reads(bs[k + 1], os[k + 1])
    BY <2>1
  <2> HIDE DEF p
  <2>7. PICK cs2, t2 :
          Turns(At(Ctx(HeaderNext, t, Inside(open, os, k, n)), p), data, len)
            = Turns(Filled(open, os, k + 1, n, cs2, t2, p + Len(bs[k + 1])), data, len)
    BY <2>1, <2>2, <2>6, ItemTurns
  <2> QED BY <2>3, <2>4, <2>5, <2>7
<1> HIDE DEF S
<1>6. \A k \in Nat : k \in S
  BY <1>4, <1>5, Upward
<1>7. Reaches(n)
  BY <1>6 DEF S
<1>8. \A cs, t : Filled(open, os, n, n, cs, t, q + Len(j[n]))
                   = PushProc(Ctx(cs, t, open), Object("array", Firsts(os, n)), q + Len(j[n]))
  BY DEF Filled
<1> QED BY <1>7, <1>8 DEF start, Finds

(* A sequence of n                                                         *)
HasLength(s, n) == IsSeq(s) /\ Len(s) = n

(* An array is read as it was packed.                                      *)
THEOREM ArrayReads ==
  ASSUME NEW bs, NEW os, NEW n \in Nat, HasLength(bs, n), HasLength(os, n), Sized(n),
         \A k \in 1 .. n : Reads(bs[k], os[k])
  PROVE  Reads(PackArray(n) \o FlattenSeq(bs), Object("array", os))
<1> DEFINE A == PackArray(n)
           B == FlattenSeq(bs)
           C == A \o B
           O == Object("array", os)
<1>1. \A k \in 1 .. n : bs[k] \in Seq(Byte)
  BY DEF Reads
<1>2. PICK j : Rows(j, bs, n) /\ j[n] = B
  <2> HIDE DEF B
  <2>1. IsSeq(bs) /\ Len(bs) = n
    BY DEF HasLength
  <2>2. \A k \in 1 .. Len(bs) : bs[k] \in Seq(Byte)
    BY <1>1, <2>1
  <2>3. \E j : Rows(j, bs, Len(bs)) /\ j[Len(bs)] = B
    BY <2>1, <2>2, FlattenIs DEF B
  <2> QED BY <2>1, <2>3
<1>3. B \in Seq(Byte)
  <2> HIDE DEF B
  <2>1. Rows(j, bs, n) /\ j[n] = B
    BY <1>2
  <2>2. \A k \in Nat : k <= n => j[k] \in Seq(Byte)
    BY <1>1, <2>1, RowsAreBytes
  <2>3. j[n] \in Seq(Byte)
    BY <2>2
  <2> QED BY <2>1, <2>3
<1>4. /\ A \in Seq(Byte) /\ A # <<>>
      /\ \A data, len, p, open, trail : Place(data, len, p, open, A) =>
           \E cs, t : Turns(At(Ctx(HeaderNext, trail, open), p), data, len)
                        = Turns(PushAggregate(Ctx(cs, t, open), n, p + Len(A)), data, len)
  BY ArrayOpens
<1>5. Joins(C, A, B)
  BY DEF Joins
<1>6. Firsts(os, n) = os
  BY DEF Firsts, IsSeq, HasLength
<1> HIDE DEF A, B, C, O
<1>7. C \in Seq(Byte) /\ C # <<>>
  <2>1. C \in Seq(Byte) /\ Len(C) = Len(A) + Len(B)
    BY <1>3, <1>4, <1>5, JoinsIs
  <2>2. Len(A) > 0
    BY <1>4
  <2>3. Len(B) >= 0
    BY <1>3
  <2> QED BY <2>1, <2>2, <2>3
<1>8. ASSUME NEW data, NEW len, NEW p, NEW open, NEW trail, Place(data, len, p, open, C)
      PROVE  \E cs, t : Turns(At(Ctx(HeaderNext, trail, open), p), data, len)
                          = Turns(PushProc(Ctx(cs, t, open), O, p + Len(C)), data, len)
  <2> DEFINE q == p + Len(A)
  <2>1. /\ Place(data, len, p, open, A)
        /\ Place(data, len, q, open, B)
        /\ Len(C) = Len(A) + Len(B)
    BY <1>3, <1>4, <1>5, <1>8, PlaceBoth
  <2>2. PICK cs, t : Turns(At(Ctx(HeaderNext, trail, open), p), data, len)
                       = Turns(PushAggregate(Ctx(cs, t, open), n, q), data, len)
    BY <1>4, <2>1
  <2>3. q + Len(B) = p + Len(C) /\ q \in Nat
    <3>1. p \in Nat /\ Len(A) \in Nat /\ Len(B) \in Nat
      BY <1>3, <1>4, <2>1 DEF Place
    <3> QED BY <2>1, <3>1
  <2> HIDE DEF q
  <2>4. CASE n = 0
    <3>1. B = <<>> /\ os = <<>>
      <4>1. B = <<>>
        BY <1>2, <2>4 DEF Rows
      <4>2. Firsts(os, 0) = <<>>
        BY FirstsAre
      <4> QED BY <1>6, <2>4, <4>1, <4>2
    <3>2. q + Len(B) = q
      BY <2>3, <3>1
    <3>3. PushAggregate(Ctx(cs, t, open), n, q) = PushProc(Ctx(cs, t, open), O, q)
      BY <2>4, <3>1 DEF PushAggregate, O
    <3> QED BY <2>2, <2>3, <3>2, <3>3
  <2>5. CASE n # 0
    <3>1. n > 0
      BY <2>5
    <3>2. PushAggregate(Ctx(cs, t, open), n, q)
            = At(Ctx(HeaderNext, t, Inside(open, os, 0, n)), q)
      <4>1. Firsts(os, 0) = <<>> /\ n - 0 = n
        BY FirstsAre
      <4> QED BY <2>5, <4>1 DEF PushAggregate, At, Ctx, Inside
    <3>3. Place(data, len, q, open, j[n])
      BY <1>2, <2>1
    <3>4. Finds(At(Ctx(HeaderNext, t, Inside(open, os, 0, n)), q), open,
                Object("array", Firsts(os, n)), q + Len(j[n]), data, len)
      <4>1. Rows(j, bs, n)
        BY <1>2
      <4> QED BY <3>1, <3>3, <4>1, ItemsTurns
    <3>5. PICK cs2, t2 :
            Turns(At(Ctx(HeaderNext, t, Inside(open, os, 0, n)), q), data, len)
              = Turns(PushProc(Ctx(cs2, t2, open), Object("array", Firsts(os, n)),
                               q + Len(j[n])), data, len)
      BY <3>4 DEF Finds
    <3>6. Turns(At(Ctx(HeaderNext, trail, open), p), data, len)
            = Turns(PushProc(Ctx(cs2, t2, open), O, p + Len(C)), data, len)
      BY <1>2, <1>6, <2>2, <2>3, <3>2, <3>5 DEF O
    <3> QED BY <3>6
  <2> QED BY <2>4, <2>5
<1>9. Reads(C, O)
  BY <1>7, <1>8 DEF Reads
<1> QED BY <1>9 DEF A, B, C, O

-----------------------------------------------------------------------------
(* Messages *)

(* The object that is parsed where a value was packed.                     *)
ParsedPlain(schema, v) ==
  CASE schema.kind \in {"uint", "int"} -> Object("uint", v)
    [] schema.kind = "bool" -> Object("bool", v)
    [] OTHER -> Object("str", v)

ParsedIn(Inner(_, _), schema, v) ==
  IF ~IsArray(schema) THEN ParsedPlain(schema, v)
  ELSE Object("array", [i \in DOMAIN v |-> Inner(Member(schema, i), v[i])])

(* at each depth, as Pack has it                                           *)
Parsed1(schema, v) == ParsedIn(ParsedPlain, schema, v)
Parsed2(schema, v) == ParsedIn(Parsed1, schema, v)
Parsed3(schema, v) == ParsedIn(Parsed2, schema, v)
Parsed4(schema, v) == ParsedIn(Parsed3, schema, v)
Parsed(schema, v)  == ParsedIn(Parsed4, schema, v)

(* An integer that fits is one that can be packed.                         *)
LEMMA UintFits ==
  ASSUME NEW v, NEW size \in {4, 8}, IsUint(v, size)
  PROVE  v \in Seq(Byte) /\ Len(v) <= 8 /\ Short(v)
BY DEF IsUint, Short

(* What is not an array comes back as it was sent.                         *)
LEMMA KeptPlain ==
  ASSUME NEW schema, NEW v, FitsPlain(schema, v)
  PROVE  /\ Reads(PackPlain(schema, v), ParsedPlain(schema, v))
         /\ ConvertsPlain(schema, ParsedPlain(schema, v))
         /\ \A t : ConvertPlain(schema, ParsedPlain(schema, v), t) = v
<1>1. CASE schema.kind = "uint"
  <2>1. IsUint(v, 8)
    BY <1>1 DEF FitsPlain
  <2>2. PackPlain(schema, v) = PackUint(v) /\ ParsedPlain(schema, v) = Object("uint", v)
    BY <1>1 DEF PackPlain, ParsedPlain
  <2>3. Reads(PackUint(v), Object("uint", v))
    BY <2>1, UintFits, UintReads
  <2>4. ConvertsPlain(schema, Object("uint", v))
    BY <1>1 DEF ConvertsPlain, Object
  <2> QED BY <2>2, <2>3, <2>4 DEF ConvertPlain, Object
<1>2. CASE schema.kind = "int"
  <2>1. IsUint(v, 4) /\ (Len(v) = 4 => v[1] < 128)
    BY <1>2 DEF FitsPlain
  <2>2. PackPlain(schema, v) = PackUint(v) /\ ParsedPlain(schema, v) = Object("uint", v)
    BY <1>2 DEF PackPlain, ParsedPlain
  <2>3. Reads(PackUint(v), Object("uint", v))
    BY <2>1, UintFits, UintReads
  <2>4. ConvertsPlain(schema, Object("uint", v))
    <3>1. Len(v) <= 4
      BY <2>1 DEF IsUint
    <3> QED BY <1>2, <2>1, <3>1 DEF ConvertsPlain, Object
  <2> QED BY <2>2, <2>3, <2>4 DEF ConvertPlain, Object
<1>3. CASE schema.kind = "bool"
  <2>1. v \in BOOLEAN
    BY <1>3 DEF FitsPlain
  <2>2. /\ PackPlain(schema, v) = IF v THEN <<195>> ELSE <<194>>
        /\ ParsedPlain(schema, v) = Object("bool", v)
    BY <1>3 DEF PackPlain, ParsedPlain
  <2>3. Reads(PackPlain(schema, v), Object("bool", v))
    BY <2>1, <2>2, BoolReads
  <2>4. ConvertsPlain(schema, Object("bool", v))
    BY <1>3 DEF ConvertsPlain, Object
  <2> QED BY <2>2, <2>3, <2>4 DEF ConvertPlain, Object
<1>4. CASE schema.kind = "str"
  <2>1. v \in Seq(Byte) /\ Sized(Len(v))
    BY <1>4 DEF FitsPlain, IsVector, Sized
  <2>2. PackPlain(schema, v) = PackStr(v) /\ ParsedPlain(schema, v) = Object("str", v)
    BY <1>4 DEF PackPlain, ParsedPlain
  <2>3. Reads(PackStr(v), Object("str", v))
    BY <2>1, StrReads
  <2>4. ConvertsPlain(schema, Object("str", v))
    BY <1>4 DEF ConvertsPlain, Object
  <2> QED BY <2>2, <2>3, <2>4 DEF ConvertPlain, Object
<1>5. schema.kind \in {"uint", "int", "bool", "str"}
  BY DEF FitsPlain
<1> QED BY <1>1, <1>2, <1>3, <1>4, <1>5

(* The arrays that are sent                                                *)
IsList(schema, v) ==
  /\ IsVector(v)
  /\ schema.kind \in {"list", "struct"}
  /\ schema.kind = "struct" => DOMAIN v = DOMAIN schema.of

(* f is a function on the indexes of v.                                    *)
Over(f, v) == f = [i \in DOMAIN v |-> f[i]]

(* are read when their items are,                                          *)
LEMMA ListReads ==
  ASSUME NEW schema, NEW v, IsList(schema, v), NEW bs, NEW os,
         Over(bs, v), Over(os, v),
         \A i \in DOMAIN v : Reads(bs[i], os[i])
  PROVE  Reads(PackArray(Len(v)) \o FlattenSeq(bs), Object("array", os))
<1> DEFINE n == Len(v)
<1>1. n \in Nat /\ Sized(n) /\ DOMAIN v = 1 .. n
  BY DEF IsList, IsVector, Sized
<1> HIDE DEF n
<1>2. HasLength(bs, n) /\ HasLength(os, n)
  BY <1>1 DEF HasLength, IsSeq, Over
<1>3. \A i \in 1 .. n : Reads(bs[i], os[i])
  BY <1>1
<1> QED BY <1>1, <1>2, <1>3, ArrayReads DEF n

(* and the variable gets as many items.                                    *)
LEMMA ListResized ==
  ASSUME NEW schema, NEW v, IsList(schema, v), NEW os, Over(os, v), NEW t
  PROVE  /\ DOMAIN (IF schema.kind = "list" THEN Resized(t, Len(os), schema.of.default)
                    ELSE schema.of) = DOMAIN v
         /\ v = [i \in DOMAIN v |-> v[i]]
<1> DEFINE n == Len(v)
<1>1. n \in Nat /\ DOMAIN v = 1 .. n /\ v = [i \in 1 .. n |-> v[i]]
  BY DEF IsList, IsVector
<1> HIDE DEF n
<1>2. Len(os) = n
  BY <1>1 DEF Over
<1>3. DOMAIN Resized(t, n, schema.of.default) = 1 .. n
  BY DEF Resized
<1> QED BY <1>1, <1>2, <1>3 DEF IsList

(* Nor does an array of such values change on the way,                     *)
LEMMA Kept1 ==
  ASSUME NEW schema, NEW v, Fits1(schema, v)
  PROVE  /\ Reads(Pack1(schema, v), Parsed1(schema, v))
         /\ Converts1(schema, Parsed1(schema, v))
         /\ \A t : Convert1(schema, Parsed1(schema, v), t) = v
<1>1. CASE ~IsArray(schema)
  <2>1. FitsPlain(schema, v)
    BY <1>1 DEF Fits1, FitsIn
  <2>2. Pack1(schema, v) = PackPlain(schema, v) /\ Parsed1(schema, v) = ParsedPlain(schema, v)
    BY <1>1 DEF Pack1, PackIn, Parsed1, ParsedIn
  <2>3. \A obj : Converts1(schema, obj) = ConvertsPlain(schema, obj)
    BY <1>1 DEF Converts1, ConvertsIn
  <2>4. \A obj, t : Convert1(schema, obj, t) = ConvertPlain(schema, obj, t)
    BY <1>1 DEF Convert1, ConvertIn
  <2> QED BY <2>1, <2>2, <2>3, <2>4, KeptPlain
<1>2. CASE IsArray(schema)
  <2> DEFINE bs  == [i \in DOMAIN v |-> PackPlain(Member(schema, i), v[i])]
             os  == [i \in DOMAIN v |-> ParsedPlain(Member(schema, i), v[i])]
             obj == Object("array", os)
  <2>1. /\ IsList(schema, v)
        /\ \A i \in DOMAIN v : FitsPlain(Member(schema, i), v[i])
    BY <1>2 DEF Fits1, FitsIn, IsArray, IsList
  <2>2. /\ Pack1(schema, v) = PackArray(Len(v)) \o FlattenSeq(bs)
        /\ Parsed1(schema, v) = obj
    BY <1>2 DEF Pack1, PackIn, Parsed1, ParsedIn
  <2>3. \A i \in DOMAIN v : Reads(bs[i], os[i])
    BY <2>1, KeptPlain
  <2>4. \A i \in DOMAIN v : ConvertsPlain(Member(schema, i), os[i])
    BY <2>1, KeptPlain
  <2>5. \A i \in DOMAIN v : \A t : ConvertPlain(Member(schema, i), os[i], t) = v[i]
    BY <2>1, KeptPlain
  <2>6. Over(bs, v) /\ Over(os, v) /\ DOMAIN os = DOMAIN v
    BY DEF Over
  <2>7. obj.type = "array" /\ obj.val = os
    BY DEF Object
  <2> HIDE DEF bs, os, obj
  <2>8. Reads(Pack1(schema, v), Parsed1(schema, v))
    BY <2>1, <2>2, <2>3, <2>6, ListReads DEF obj
  <2>9. Converts1(schema, obj)
    BY <1>2, <2>4, <2>6, <2>7 DEF Converts1, ConvertsIn
  <2>10. ASSUME NEW t PROVE Convert1(schema, obj, t) = v
    <3> DEFINE list == schema.kind = "list"
               old  == IF list THEN Resized(t, Len(os), schema.of.default) ELSE t
    <3>1. Convert1(schema, obj, t) =
            [i \in DOMAIN (IF list THEN old ELSE schema.of) |->
               IF i \in DOMAIN os THEN ConvertPlain(Member(schema, i), os[i], old[i]) ELSE old[i]]
      BY <1>2, <2>7 DEF Convert1, ConvertIn
    <3>2. /\ DOMAIN (IF list THEN old ELSE schema.of) = DOMAIN v
          /\ v = [i \in DOMAIN v |-> v[i]]
      BY <2>1, <2>6, ListResized
    <3> HIDE DEF list, old
    <3> QED BY <2>5, <2>6, <3>1, <3>2
  <2> QED BY <2>2, <2>8, <2>9, <2>10
<1> QED BY <1>1, <1>2

(* an array of those,                                                      *)
LEMMA Kept2 ==
  ASSUME NEW schema, NEW v, Fits2(schema, v)
  PROVE  /\ Reads(Pack2(schema, v), Parsed2(schema, v))
         /\ Converts2(schema, Parsed2(schema, v))
         /\ \A t : Convert2(schema, Parsed2(schema, v), t) = v
<1>1. CASE ~IsArray(schema)
  <2>1. FitsPlain(schema, v)
    BY <1>1 DEF Fits2, FitsIn
  <2>2. Pack2(schema, v) = PackPlain(schema, v) /\ Parsed2(schema, v) = ParsedPlain(schema, v)
    BY <1>1 DEF Pack2, PackIn, Parsed2, ParsedIn
  <2>3. \A obj : Converts2(schema, obj) = ConvertsPlain(schema, obj)
    BY <1>1 DEF Converts2, ConvertsIn
  <2>4. \A obj, t : Convert2(schema, obj, t) = ConvertPlain(schema, obj, t)
    BY <1>1 DEF Convert2, ConvertIn
  <2> QED BY <2>1, <2>2, <2>3, <2>4, KeptPlain
<1>2. CASE IsArray(schema)
  <2> DEFINE bs  == [i \in DOMAIN v |-> Pack1(Member(schema, i), v[i])]
             os  == [i \in DOMAIN v |-> Parsed1(Member(schema, i), v[i])]
             obj == Object("array", os)
  <2>1. /\ IsList(schema, v)
        /\ \A i \in DOMAIN v : Fits1(Member(schema, i), v[i])
    BY <1>2 DEF Fits2, FitsIn, IsArray, IsList
  <2>2. /\ Pack2(schema, v) = PackArray(Len(v)) \o FlattenSeq(bs)
        /\ Parsed2(schema, v) = obj
    BY <1>2 DEF Pack2, PackIn, Parsed2, ParsedIn
  <2>3. \A i \in DOMAIN v : Reads(bs[i], os[i])
    BY <2>1, Kept1
  <2>4. \A i \in DOMAIN v : Converts1(Member(schema, i), os[i])
    BY <2>1, Kept1
  <2>5. \A i \in DOMAIN v : \A t : Convert1(Member(schema, i), os[i], t) = v[i]
    BY <2>1, Kept1
  <2>6. Over(bs, v) /\ Over(os, v) /\ DOMAIN os = DOMAIN v
    BY DEF Over
  <2>7. obj.type = "array" /\ obj.val = os
    BY DEF Object
  <2> HIDE DEF bs, os, obj
  <2>8. Reads(Pack2(schema, v), Parsed2(schema, v))
    BY <2>1, <2>2, <2>3, <2>6, ListReads DEF obj
  <2>9. Converts2(schema, obj)
    BY <1>2, <2>4, <2>6, <2>7 DEF Converts2, ConvertsIn
  <2>10. ASSUME NEW t PROVE Convert2(schema, obj, t) = v
    <3> DEFINE list == schema.kind = "list"
               old  == IF list THEN Resized(t, Len(os), schema.of.default) ELSE t
    <3>1. Convert2(schema, obj, t) =
            [i \in DOMAIN (IF list THEN old ELSE schema.of) |->
               IF i \in DOMAIN os THEN Convert1(Member(schema, i), os[i], old[i]) ELSE old[i]]
      BY <1>2, <2>7 DEF Convert2, ConvertIn
    <3>2. /\ DOMAIN (IF list THEN old ELSE schema.of) = DOMAIN v
          /\ v = [i \in DOMAIN v |-> v[i]]
      BY <2>1, <2>6, ListResized
    <3> HIDE DEF list, old
    <3> QED BY <2>5, <2>6, <3>1, <3>2
  <2> QED BY <2>2, <2>8, <2>9, <2>10
<1> QED BY <1>1, <1>2

(* and so on                                                               *)
LEMMA Kept3 ==
  ASSUME NEW schema, NEW v, Fits3(schema, v)
  PROVE  /\ Reads(Pack3(schema, v), Parsed3(schema, v))
         /\ Converts3(schema, Parsed3(schema, v))
         /\ \A t : Convert3(schema, Parsed3(schema, v), t) = v
<1>1. CASE ~IsArray(schema)
  <2>1. FitsPlain(schema, v)
    BY <1>1 DEF Fits3, FitsIn
  <2>2. Pack3(schema, v) = PackPlain(schema, v) /\ Parsed3(schema, v) = ParsedPlain(schema, v)
    BY <1>1 DEF Pack3, PackIn, Parsed3, ParsedIn
  <2>3. \A obj : Converts3(schema, obj) = ConvertsPlain(schema, obj)
    BY <1>1 DEF Converts3, ConvertsIn
  <2>4. \A obj, t : Convert3(schema, obj, t) = ConvertPlain(schema, obj, t)
    BY <1>1 DEF Convert3, ConvertIn
  <2> QED BY <2>1, <2>2, <2>3, <2>4, KeptPlain
<1>2. CASE IsArray(schema)
  <2> DEFINE bs  == [i \in DOMAIN v |-> Pack2(Member(schema, i), v[i])]
             os  == [i \in DOMAIN v |-> Parsed2(Member(schema, i), v[i])]
             obj == Object("array", os)
  <2>1. /\ IsList(schema, v)
        /\ \A i \in DOMAIN v : Fits2(Member(schema, i), v[i])
    BY <1>2 DEF Fits3, FitsIn, IsArray, IsList
  <2>2. /\ Pack3(schema, v) = PackArray(Len(v)) \o FlattenSeq(bs)
        /\ Parsed3(schema, v) = obj
    BY <1>2 DEF Pack3, PackIn, Parsed3, ParsedIn
  <2>3. \A i \in DOMAIN v : Reads(bs[i], os[i])
    BY <2>1, Kept2
  <2>4. \A i \in DOMAIN v : Converts2(Member(schema, i), os[i])
    BY <2>1, Kept2
  <2>5. \A i \in DOMAIN v : \A t : Convert2(Member(schema, i), os[i], t) = v[i]
    BY <2>1, Kept2
  <2>6. Over(bs, v) /\ Over(os, v) /\ DOMAIN os = DOMAIN v
    BY DEF Over
  <2>7. obj.type = "array" /\ obj.val = os
    BY DEF Object
  <2> HIDE DEF bs, os, obj
  <2>8. Reads(Pack3(schema, v), Parsed3(schema, v))
    BY <2>1, <2>2, <2>3, <2>6, ListReads DEF obj
  <2>9. Converts3(schema, obj)
    BY <1>2, <2>4, <2>6, <2>7 DEF Converts3, ConvertsIn
  <2>10. ASSUME NEW t PROVE Convert3(schema, obj, t) = v
    <3> DEFINE list == schema.kind = "list"
               old  == IF list THEN Resized(t, Len(os), schema.of.default) ELSE t
    <3>1. Convert3(schema, obj, t) =
            [i \in DOMAIN (IF list THEN old ELSE schema.of) |->
               IF i \in DOMAIN os THEN Convert2(Member(schema, i), os[i], old[i]) ELSE old[i]]
      BY <1>2, <2>7 DEF Convert3, ConvertIn
    <3>2. /\ DOMAIN (IF list THEN old ELSE schema.of) = DOMAIN v
          /\ v = [i \in DOMAIN v |-> v[i]]
      BY <2>1, <2>6, ListResized
    <3> HIDE DEF list, old
    <3> QED BY <2>5, <2>6, <3>1, <3>2
  <2> QED BY <2>2, <2>8, <2>9, <2>10
<1> QED BY <1>1, <1>2

(* up to four arrays                                                       *)
LEMMA Kept4 ==
  ASSUME NEW schema, NEW v, Fits4(schema, v)
  PROVE  /\ Reads(Pack4(schema, v), Parsed4(schema, v))
         /\ Converts4(schema, Parsed4(schema, v))
         /\ \A t : Convert4(schema, Parsed4(schema, v), t) = v
<1>1. CASE ~IsArray(schema)
  <2>1. FitsPlain(schema, v)
    BY <1>1 DEF Fits4, FitsIn
  <2>2. Pack4(schema, v) = PackPlain(schema, v) /\ Parsed4(schema, v) = ParsedPlain(schema, v)
    BY <1>1 DEF Pack4, PackIn, Parsed4, ParsedIn
  <2>3. \A obj : Converts4(schema, obj) = ConvertsPlain(schema, obj)
    BY <1>1 DEF Converts4, ConvertsIn
  <2>4. \A obj, t : Convert4(schema, obj, t) = ConvertPlain(schema, obj, t)
    BY <1>1 DEF Convert4, ConvertIn
  <2> QED BY <2>1, <2>2, <2>3, <2>4, KeptPlain
<1>2. CASE IsArray(schema)
  <2> DEFINE bs  == [i \in DOMAIN v |-> Pack3(Member(schema, i), v[i])]
             os  == [i \in DOMAIN v |-> Parsed3(Member(schema, i), v[i])]
             obj == Object("array", os)
  <2>1. /\ IsList(schema, v)
        /\ \A i \in DOMAIN v : Fits3(Member(schema, i), v[i])
    BY <1>2 DEF Fits4, FitsIn, IsArray, IsList
  <2>2. /\ Pack4(schema, v) = PackArray(Len(v)) \o FlattenSeq(bs)
        /\ Parsed4(schema, v) = obj
    BY <1>2 DEF Pack4, PackIn, Parsed4, ParsedIn
  <2>3. \A i \in DOMAIN v : Reads(bs[i], os[i])
    BY <2>1, Kept3
  <2>4. \A i \in DOMAIN v : Converts3(Member(schema, i), os[i])
    BY <2>1, Kept3
  <2>5. \A i \in DOMAIN v : \A t : Convert3(Member(schema, i), os[i], t) = v[i]
    BY <2>1, Kept3
  <2>6. Over(bs, v) /\ Over(os, v) /\ DOMAIN os = DOMAIN v
    BY DEF Over
  <2>7. obj.type = "array" /\ obj.val = os
    BY DEF Object
  <2> HIDE DEF bs, os, obj
  <2>8. Reads(Pack4(schema, v), Parsed4(schema, v))
    BY <2>1, <2>2, <2>3, <2>6, ListReads DEF obj
  <2>9. Converts4(schema, obj)
    BY <1>2, <2>4, <2>6, <2>7 DEF Converts4, ConvertsIn
  <2>10. ASSUME NEW t PROVE Convert4(schema, obj, t) = v
    <3> DEFINE list == schema.kind = "list"
               old  == IF list THEN Resized(t, Len(os), schema.of.default) ELSE t
    <3>1. Convert4(schema, obj, t) =
            [i \in DOMAIN (IF list THEN old ELSE schema.of) |->
               IF i \in DOMAIN os THEN Convert3(Member(schema, i), os[i], old[i]) ELSE old[i]]
      BY <1>2, <2>7 DEF Convert4, ConvertIn
    <3>2. /\ DOMAIN (IF list THEN old ELSE schema.of) = DOMAIN v
          /\ v = [i \in DOMAIN v |-> v[i]]
      BY <2>1, <2>6, ListResized
    <3> HIDE DEF list, old
    <3> QED BY <2>5, <2>6, <3>1, <3>2
  <2> QED BY <2>2, <2>8, <2>9, <2>10
<1> QED BY <1>1, <1>2

(* or five in each other, as in a message: the parser reads what Pack      *)
(* wrote of a value that msgpack can write, and that converts into the     *)
(* value, whatever the target t held before.                               *)
THEOREM Kept ==
  ASSUME NEW schema, NEW v, Fits(schema, v)
  PROVE  /\ Reads(Pack(schema, v), Parsed(schema, v))
         /\ Converts(schema, Parsed(schema, v))
         /\ \A t : Convert(schema, Parsed(schema, v), t) = v
<1>1. CASE ~IsArray(schema)
  <2>1. FitsPlain(schema, v)
    BY <1>1 DEF Fits, FitsIn
  <2>2. Pack(schema, v) = PackPlain(schema, v) /\ Parsed(schema, v) = ParsedPlain(schema, v)
    BY <1>1 DEF Pack, PackIn, Parsed, ParsedIn
  <2>3. \A obj : Converts(schema, obj) = ConvertsPlain(schema, obj)
    BY <1>1 DEF Converts, ConvertsIn
  <2>4. \A obj, t : Convert(schema, obj, t) = ConvertPlain(schema, obj, t)
    BY <1>1 DEF Convert, ConvertIn
  <2> QED BY <2>1, <2>2, <2>3, <2>4, KeptPlain
<1>2. CASE IsArray(schema)
  <2> DEFINE bs  == [i \in DOMAIN v |-> Pack4(Member(schema, i), v[i])]
             os  == [i \in DOMAIN v |-> Parsed4(Member(schema, i), v[i])]
             obj == Object("array", os)
  <2>1. /\ IsList(schema, v)
        /\ \A i \in DOMAIN v : Fits4(Member(schema, i), v[i])
    BY <1>2 DEF Fits, FitsIn, IsArray, IsList
  <2>2. /\ Pack(schema, v) = PackArray(Len(v)) \o FlattenSeq(bs)
        /\ Parsed(schema, v) = obj
    BY <1>2 DEF Pack, PackIn, Parsed, ParsedIn
  <2>3. \A i \in DOMAIN v : Reads(bs[i], os[i])
    BY <2>1, Kept4
  <2>4. \A i \in DOMAIN v : Converts4(Member(schema, i), os[i])
    BY <2>1, Kept4
  <2>5. \A i \in DOMAIN v : \A t : Convert4(Member(schema, i), os[i], t) = v[i]
    BY <2>1, Kept4
  <2>6. Over(bs, v) /\ Over(os, v) /\ DOMAIN os = DOMAIN v
    BY DEF Over
  <2>7. obj.type = "array" /\ obj.val = os
    BY DEF Object
  <2> HIDE DEF bs, os, obj
  <2>8. Reads(Pack(schema, v), Parsed(schema, v))
    BY <2>1, <2>2, <2>3, <2>6, ListReads DEF obj
  <2>9. Converts(schema, obj)
    BY <1>2, <2>4, <2>6, <2>7 DEF Converts, ConvertsIn
  <2>10. ASSUME NEW t PROVE Convert(schema, obj, t) = v
    <3> DEFINE list == schema.kind = "list"
               old  == IF list THEN Resized(t, Len(os), schema.of.default) ELSE t
    <3>1. Convert(schema, obj, t) =
            [i \in DOMAIN (IF list THEN old ELSE schema.of) |->
               IF i \in DOMAIN os THEN Convert4(Member(schema, i), os[i], old[i]) ELSE old[i]]
      BY <1>2, <2>7 DEF Convert, ConvertIn
    <3>2. /\ DOMAIN (IF list THEN old ELSE schema.of) = DOMAIN v
          /\ v = [i \in DOMAIN v |-> v[i]]
      BY <2>1, <2>6, ListResized
    <3> HIDE DEF list, old
    <3> QED BY <2>5, <2>6, <3>1, <3>2
  <2> QED BY <2>2, <2>8, <2>9, <2>10
<1> QED BY <1>1, <1>2
=============================================================================
