------------------------------ MODULE WireProofs ------------------------------
(***************************************************************************)
(* Proofs about Wire, for every set of messages that msgpack can write and *)
(* every way to cut the stream: the messages are received as they were     *)
(* sent, as soon as they have arrived, wherever the pieces were cut.       *)
(***************************************************************************)
EXTENDS Wire, MsgpackProofs, FiniteSetTheorems

-----------------------------------------------------------------------------
(* The stream *)

(* Where the i-th of the messages s ends.                                  *)
EndOf(s, i) == IF i = 0 THEN 0 ELSE s[i].end

(* The bytes of a message                                                  *)
Packed(m) == Pack(m.type, m.value)

(* A message that can be sent                                              *)
IsSent(m) == m.type \in Types /\ Fits(m.type, m.value)

(* The i-th message is in the stream w, behind those before it.            *)
InStream(s, i, w) ==
  /\ IsSent(s[i])
  /\ EndOf(s, i) = EndOf(s, i - 1) + Len(Packed(s[i]))
  /\ Has(w, EndOf(s, i - 1), Packed(s[i]))

(* The stream w is the messages s, packed.                                 *)
Stream(s, w) ==
  /\ w \in Seq(Byte)
  /\ IsSeq(s)
  /\ \A i \in 1 .. Len(s) : InStream(s, i, w)
  /\ EndOf(s, Len(s)) = Len(w)

(* The parser before a message that begins behind the first p bytes        *)
Begin(p) == At(InitContext, p)

(* Such a message is some bytes.                                           *)
LEMMA PackedIs ==
  ASSUME NEW m, IsSent(m)
  PROVE  Packed(m) \in Seq(Byte) /\ Len(Packed(m)) \in Nat /\ Len(Packed(m)) > 0
<1> DEFINE B == Packed(m)
<1>1. B \in Seq(Byte) /\ B # <<>>
  BY Kept DEF IsSent, Packed, Reads
<1> HIDE DEF B
<1>2. Len(B) \in Nat /\ Len(B) > 0
  BY <1>1
<1> QED BY <1>1, <1>2 DEF B

(* The ends of messages are numbers.                                       *)
LEMMA EndsAre ==
  ASSUME NEW s, NEW w, Stream(s, w)
  PROVE  \A i \in Nat : i <= Len(s) => EndOf(s, i) \in Nat
<1> DEFINE S == {i \in Nat : i <= Len(s) => EndOf(s, i) \in Nat}
<1>1. Len(s) \in Nat
  BY DEF Stream, IsSeq
<1>2. 0 \in S
  BY DEF EndOf
<1>3. ASSUME NEW i \in Nat, i \in S PROVE i + 1 \in S
  <2> SUFFICES ASSUME i + 1 <= Len(s) PROVE EndOf(s, i + 1) \in Nat
    OBVIOUS
  <2>1. i + 1 \in 1 .. Len(s) /\ i + 1 - 1 = i /\ i <= Len(s)
    BY <1>1
  <2>2. InStream(s, i + 1, w)
    BY <2>1 DEF Stream
  <2>3. EndOf(s, i + 1) = EndOf(s, i) + Len(Packed(s[i + 1]))
    BY <2>1, <2>2 DEF InStream
  <2>4. Len(Packed(s[i + 1])) \in Nat
    BY <2>2, PackedIs DEF InStream
  <2>5. EndOf(s, i) \in Nat
    BY <1>3, <2>1
  <2> QED BY <2>3, <2>4, <2>5
<1> HIDE DEF S
<1>4. \A i \in Nat : i \in S
  BY <1>2, <1>3, Upward
<1> QED BY <1>4 DEF S

(* The next message ends later.                                            *)
LEMMA NextEnds ==
  ASSUME NEW s, NEW w, Stream(s, w), NEW k \in Nat, k < Len(s)
  PROVE  /\ EndOf(s, k) \in Nat
         /\ EndOf(s, k + 1) \in Nat
         /\ EndOf(s, k) < EndOf(s, k + 1)
         /\ EndOf(s, k + 1) <= Len(w)
         /\ EndOf(s, k + 1) = EndOf(s, k) + Len(Packed(s[k + 1]))
         /\ IsSent(s[k + 1])
         /\ Has(w, EndOf(s, k), Packed(s[k + 1]))
<1>1. Len(s) \in Nat
  BY DEF Stream, IsSeq
<1>2. k + 1 \in 1 .. Len(s) /\ k + 1 - 1 = k /\ k <= Len(s) /\ k + 1 <= Len(s)
  BY <1>1
<1>3. InStream(s, k + 1, w)
  BY <1>2 DEF Stream
<1>4. /\ EndOf(s, k + 1) = EndOf(s, k) + Len(Packed(s[k + 1]))
      /\ IsSent(s[k + 1]) /\ Has(w, EndOf(s, k), Packed(s[k + 1]))
  BY <1>2, <1>3 DEF InStream
<1>5. Len(Packed(s[k + 1])) \in Nat /\ Len(Packed(s[k + 1])) > 0
  BY <1>4, PackedIs
<1>6. EndOf(s, k) \in Nat /\ EndOf(s, k + 1) \in Nat
  BY <1>2, EndsAre
<1>7. EndOf(s, k) + Len(Packed(s[k + 1])) <= Len(w)
  BY <1>4 DEF Has
<1>8. EndOf(s, k) < EndOf(s, k + 1)
  BY <1>4, <1>5, <1>6
<1> QED BY <1>4, <1>6, <1>7, <1>8

(* A later message ends later.                                             *)
LEMMA LaterEnds ==
  ASSUME NEW s, NEW w, Stream(s, w), NEW k \in Nat
  PROVE  \A n \in Nat : k < n /\ n <= Len(s) => EndOf(s, k) < EndOf(s, n)
<1> DEFINE S == {n \in Nat : k < n /\ n <= Len(s) => EndOf(s, k) < EndOf(s, n)}
<1>1. Len(s) \in Nat
  BY DEF Stream, IsSeq
<1>2. 0 \in S
  OBVIOUS
<1>3. ASSUME NEW n \in Nat, n \in S PROVE n + 1 \in S
  <2> SUFFICES ASSUME k < n + 1, n + 1 <= Len(s) PROVE EndOf(s, k) < EndOf(s, n + 1)
    OBVIOUS
  <2>1. n < Len(s) /\ n <= Len(s) /\ (k < n \/ k = n) /\ k <= Len(s)
    BY <1>1
  <2>2. EndOf(s, n) \in Nat /\ EndOf(s, n + 1) \in Nat /\ EndOf(s, n) < EndOf(s, n + 1)
    BY <2>1, NextEnds
  <2>3. EndOf(s, k) \in Nat
    BY <2>1, EndsAre
  <2>4. k < n => EndOf(s, k) < EndOf(s, n)
    BY <1>3, <2>1
  <2> QED BY <2>1, <2>2, <2>3, <2>4
<1> HIDE DEF S
<1>4. \A n \in Nat : n \in S
  BY <1>2, <1>3, Upward
<1> QED BY <1>4 DEF S

(* The parser can begin anywhere.                                          *)
LEMMA BeginGood ==
  ASSUME NEW len \in Nat, NEW p \in Nat, p <= len
  PROVE  /\ Good(Begin(p), len)
         /\ Begin(p).off = p /\ Begin(p).ret = 0 /\ Begin(p).ctx = InitContext
         /\ Begin(p) = At(Ctx(HeaderNext, 0, <<>>), p)
<1>1. Begin(p) = At(Ctx(HeaderNext, 0, <<>>), p)
  BY DEF Begin, InitContext, Ctx
<1>2. Begin(p).off = p /\ Begin(p).ret = 0 /\ Begin(p).ctx = InitContext
  BY DEF Begin, At
<1>3. InitContext.open = <<>> /\ InitContext.cs = HeaderNext
  BY DEF InitContext
<1>4. IsSeq(<<>>)
  BY DEF IsSeq
<1>5. IsState(Begin(p))
  BY DEF IsState, Begin, At
<1> QED BY <1>1, <1>2, <1>3, <1>4, <1>5 DEF Good, Waits

(* Once all of a message has arrived, it is found, and nothing behind it   *)
(* is read.                                                                *)
THEOREM WholeMessage ==
  ASSUME NEW m, IsSent(m), NEW w \in Seq(Byte), NEW a \in Nat, a <= Len(w), NEW p \in Nat,
         Has(w, p, Packed(m)), p + Len(Packed(m)) <= a
  PROVE  /\ Turns(Begin(p), w, a).ret = 1
         /\ Turns(Begin(p), w, a).off = p + Len(Packed(m))
         /\ Turns(Begin(p), w, a).ctx.data = <<Parsed(m.type, m.value)>>
<1> DEFINE B == Packed(m)
           O == Parsed(m.type, m.value)
           q == p + Len(B)
<1>1. Reads(B, O)
  BY Kept DEF IsSent, Packed
<1>2. Len(B) \in Nat /\ q \in Nat /\ q <= a /\ p <= a
  <2>1. Len(B) \in Nat
    BY PackedIs
  <2> QED BY <2>1
<1>3. Place(w, a, p, <<>>, B)
  BY DEF Place, IsSeq
<1>4. Begin(p) = At(Ctx(HeaderNext, 0, <<>>), p)
  BY <1>2, BeginGood
<1> HIDE DEF B, O, q
<1>5. PICK cs, t : Turns(Begin(p), w, a) = Turns(PushProc(Ctx(cs, t, <<>>), O, q), w, a)
  BY <1>1, <1>3, <1>4 DEF Reads, q
<1> DEFINE e == PushProc(Ctx(cs, t, <<>>), O, q)
<1>6. e = AfterPush(Ctx(cs, t, <<>>), [open |-> <<>>, data |-> <<O>>], q)
  <2>1. Ctx(cs, t, <<>>).open = <<>>
    BY DEF Ctx
  <2> QED BY <2>1, PushProcIs, PushAlone
<1> HIDE DEF e
<1>7. IsState(e) /\ e.ret = 1 /\ e.off = q /\ e.ctx.data = <<O>>
  BY <1>6 DEF AfterPush, IsState
<1>8. Good(e, a) /\ Stops(e, a)
  BY <1>2, <1>7 DEF Good, Stops
<1>9. Turns(e, w, a) = e
  BY <1>8, TurnsStopped
<1>10. Turns(Begin(p), w, a) = e
  BY <1>5, <1>9 DEF e
<1> QED BY <1>7, <1>10 DEF O, q, B

(* The rest of the stream does not matter to what has arrived of it.       *)
LEMMA TurnsBefore ==
  ASSUME NEW w \in Seq(Byte), NEW more \in Seq(Byte), NEW len \in Nat,
         len <= Len(w), len <= Len(more), \A k \in 1 .. len : w[k] = more[k],
         NEW c, Good(c, len)
  PROVE  Turns(c, more, len) = Turns(c, w, len)
<1> DEFINE e == Turns(c, w, len)
<1>1. Good(e, len) /\ Stops(e, len)
  BY TurnsEnd
<1>2. Turns(c, more, len) = Turns(e, more, len)
  BY TurnsResume
<1> HIDE DEF e
<1>3. Turns(e, more, len) = e
  BY <1>1, TurnsStopped
<1> QED BY <1>2, <1>3 DEF e

(* A call goes on where the last one stopped.                              *)
LEMMA TurnsOn ==
  ASSUME NEW w \in Seq(Byte), NEW len \in Nat, NEW all \in Nat, len <= all, all <= Len(w),
         NEW c, Good(c, len)
  PROVE  Turns(Turns(c, w, len), w, all) = Turns(c, w, all)
<1>1. len <= Len(w) /\ \A k \in 1 .. len : w[k] = w[k]
  OBVIOUS
<1> QED BY <1>1, TurnsResume

(* Before all of a message has arrived, nothing is found.                  *)
THEOREM PartOfMessage ==
  ASSUME NEW m, IsSent(m), NEW w \in Seq(Byte), NEW a \in Nat, NEW p \in Nat, p <= a,
         Has(w, p, Packed(m)), a < p + Len(Packed(m))
  PROVE  Turns(Begin(p), w, a).ret = 0
<1> DEFINE q == p + Len(Packed(m))
           r == Turns(Begin(p), w, a)
<1>1. q \in Nat /\ a <= q /\ q <= Len(w) /\ a <= Len(w) /\ p <= q /\ a < q
  <2>1. Len(Packed(m)) \in Nat
    BY PackedIs
  <2>2. q <= Len(w)
    BY DEF Has
  <2>3. Len(w) \in Nat
    OBVIOUS
  <2> HIDE DEF Has
  <2> QED BY <2>1, <2>2, <2>3
<1>2. Turns(Begin(p), w, q).off = q
  BY <1>1, WholeMessage
<1>3. Good(Begin(p), a)
  BY BeginGood
<1>4. Turns(r, w, q) = Turns(Begin(p), w, q)
  BY <1>1, <1>3, TurnsOn
<1>5. Good(r, a)
  BY <1>1, <1>3, TurnsEnd
<1> HIDE DEF r, q
<1> SUFFICES ASSUME r.ret # 0 PROVE FALSE
  BY DEF r
<1>6. Good(r, q) /\ Stops(r, q) /\ r.off <= a
  BY <1>1, <1>5 DEF Good, Stops
<1>7. Turns(r, w, q) = r
  BY <1>1, <1>6, TurnsStopped
<1> QED BY <1>1, <1>2, <1>4, <1>5, <1>6, <1>7 DEF Good

(* At the end of the input the parser stays where it is.                   *)
LEMMA NothingToRead ==
  ASSUME NEW w \in Seq(Byte), NEW p \in Nat, p <= Len(w)
  PROVE  Turns(Begin(p), w, p) = Begin(p)
<1>1. Good(Begin(p), p) /\ Begin(p).off = p
  BY BeginGood
<1>2. Stops(Begin(p), p)
  BY <1>1 DEF Stops
<1> QED BY <1>1, <1>2, TurnsStopped

(* Of the messages s in the stream w, k have been handed over, and the     *)
(* parser has gone over the bytes behind them up to some that have arrived *)
(* - to the last one of them when there is no reason to call it.           *)
Reading(s, w, a, k, ctx, off, rdy) ==
  /\ k <= Len(s)
  /\ EndOf(s, k) <= a
  /\ ~rdy => k = Len(s) \/ a < EndOf(s, k + 1)
  /\ \E len \in Nat : /\ EndOf(s, k) <= len /\ len <= a
                      /\ ~rdy => len = a
                      /\ At(ctx, off) = Turns(Begin(EndOf(s, k)), w, len)

(* What a call makes of it                                                 *)
LEMMA CallIs ==
  ASSUME NEW s, NEW w, Stream(s, w), NEW a \in Nat, a <= Len(w), NEW k \in Nat,
         NEW ctx, NEW off, NEW rdy, Reading(s, w, a, k, ctx, off, rdy)
  PROVE  /\ EndOf(s, k) \in Nat
         /\ Execute(ctx, w, a, off) = Turns(Begin(EndOf(s, k)), w, a)
<1>1. EndOf(s, k) \in Nat /\ w \in Seq(Byte)
  BY EndsAre DEF Reading, Stream
<1>2. PICK len \in Nat : /\ EndOf(s, k) <= len /\ len <= a
                         /\ At(ctx, off) = Turns(Begin(EndOf(s, k)), w, len)
  BY DEF Reading
<1>3. Execute(ctx, w, a, off) = Turns(At(ctx, off), w, a)
  BY DEF Execute, At
<1> DEFINE p == EndOf(s, k)
<1> HIDE DEF p
<1>4. Good(Begin(p), len)
  BY <1>1, <1>2, BeginGood DEF p
<1>5. Turns(Turns(Begin(p), w, len), w, a) = Turns(Begin(p), w, a)
  BY <1>1, <1>2, <1>4, TurnsOn
<1> QED BY <1>1, <1>2, <1>3, <1>5 DEF p

(* It finds the next message when all of that has arrived,                 *)
LEMMA CallFinds ==
  ASSUME NEW s, NEW w, Stream(s, w), NEW a \in Nat, a <= Len(w), NEW k \in Nat, k < Len(s),
         EndOf(s, k + 1) <= a, NEW r, r = Turns(Begin(EndOf(s, k)), w, a)
  PROVE  /\ r.ret = 1
         /\ r.off = EndOf(s, k + 1)
         /\ r.ctx.data = <<Parsed(s[k + 1].type, s[k + 1].value)>>
<1> DEFINE m == s[k + 1]
           p == EndOf(s, k)
<1>1. /\ p \in Nat /\ EndOf(s, k + 1) = p + Len(Packed(m))
      /\ IsSent(m) /\ Has(w, p, Packed(m))
  BY NextEnds
<1>2. w \in Seq(Byte) /\ p + Len(Packed(m)) <= a
  BY <1>1 DEF Stream
<1> HIDE DEF m, p
<1>3. /\ Turns(Begin(p), w, a).ret = 1
      /\ Turns(Begin(p), w, a).off = p + Len(Packed(m))
      /\ Turns(Begin(p), w, a).ctx.data = <<Parsed(m.type, m.value)>>
  BY <1>1, <1>2, WholeMessage
<1> QED BY <1>1, <1>3 DEF m, p

(* and otherwise none, without an error.                                   *)
LEMMA CallWaits ==
  ASSUME NEW s, NEW w, Stream(s, w), NEW a \in Nat, a <= Len(w), NEW k \in Nat, k <= Len(s),
         EndOf(s, k) <= a, k = Len(s) \/ a < EndOf(s, k + 1),
         NEW r, r = Turns(Begin(EndOf(s, k)), w, a)
  PROVE  r.ret = 0 /\ r = At(r.ctx, r.off)
<1> DEFINE p == EndOf(s, k)
<1>1. p \in Nat /\ w \in Seq(Byte) /\ Len(s) \in Nat
  BY EndsAre DEF Stream, IsSeq
<1>2. Good(Begin(p), a)
  BY <1>1, BeginGood
<1>3. IsState(r)
  <2> HIDE DEF p
  <2>1. Good(Turns(Begin(p), w, a), a)
    BY <1>1, <1>2, TurnsEnd
  <2> QED BY <2>1 DEF Good, p
<1>4. CASE k = Len(s)
  <2>1. p = Len(w)
    BY <1>4 DEF Stream
  <2>2. a = p
    BY <1>1, <2>1
  <2>3. Turns(Begin(p), w, p) = Begin(p)
    BY <1>1, <2>2, NothingToRead
  <2>4. r = Begin(p)
    BY <2>2, <2>3
  <2> QED BY <2>4 DEF Begin, At
<1>5. CASE k # Len(s)
  <2> DEFINE m == s[k + 1]
  <2>1. k < Len(s) /\ a < EndOf(s, k + 1)
    BY <1>1, <1>5
  <2>2. /\ EndOf(s, k + 1) = p + Len(Packed(m))
        /\ IsSent(m) /\ Has(w, p, Packed(m))
    BY <2>1, NextEnds
  <2>3. a < p + Len(Packed(m)) /\ p <= a
    BY <2>1, <2>2
  <2> HIDE DEF m, p
  <2>4. Turns(Begin(p), w, a).ret = 0
    BY <1>1, <2>2, <2>3, PartOfMessage
  <2>5. r.ret = 0
    BY <2>4 DEF p
  <2> QED BY <1>3, <2>5 DEF IsState, At
<1> QED BY <1>4, <1>5

(* The stream w2 of the messages s2 begins with that of the messages s,    *)
(* and is one message longer.                                              *)
Grown(s, w, s2, w2) ==
  /\ Stream(s2, w2)
  /\ Len(s2) = Len(s) + 1
  /\ \A i \in 1 .. Len(s) : s2[i] = s[i]
  /\ \A k \in 1 .. Len(w) : w[k] = w2[k]
  /\ Len(w) < Len(w2)

(* One message more in the stream                                          *)
LEMMA StreamGrows ==
  ASSUME NEW s, NEW w, Stream(s, w), NEW m, IsSent(m), m.end = Len(w) + Len(Packed(m)),
         NEW w2, Joins(w2, w, Packed(m))
  PROVE  Grown(s, w, Append(s, m), w2)
<1> DEFINE s2 == Append(s, m)
<1> DEFINE B == Packed(m)
           n == Len(s)
<1>1. IsSeq(s) /\ n \in Nat /\ w \in Seq(Byte) /\ Len(w) \in Nat
  BY DEF Stream, IsSeq
<1>2. B \in Seq(Byte) /\ Len(B) \in Nat /\ Len(B) > 0
  BY PackedIs
<1>3. /\ w2 \in Seq(Byte)
      /\ Len(w2) = Len(w) + Len(B)
      /\ \A k \in 1 .. Len(w) : w2[k] = w[k]
      /\ \A k \in 1 .. Len(B) : w2[Len(w) + k] = B[k]
  <2> HIDE DEF B
  <2> QED BY <1>1, <1>2, JoinsIs DEF B
<1>4. /\ IsSeq(s2) /\ Len(s2) = n + 1 /\ s2[n + 1] = m
      /\ \A i \in 1 .. n : s2[i] = s[i]
  BY <1>1, AppendIs
<1> HIDE DEF B, n, s2
<1>5. Len(w) < Len(w2)
  BY <1>1, <1>2, <1>3
<1>6. \A i \in Nat : i <= n => EndOf(s2, i) = EndOf(s, i)
  BY <1>1, <1>4 DEF EndOf
<1>7. EndOf(s2, n) = Len(w) /\ EndOf(s2, n + 1) = Len(w) + Len(B)
  <2>1. EndOf(s2, n) = EndOf(s, n)
    BY <1>1, <1>6
  <2>2. EndOf(s2, n + 1) = m.end
    BY <1>1, <1>4 DEF EndOf
  <2>3. EndOf(s, n) = Len(w)
    BY DEF Stream, n
  <2>4. m.end = Len(w) + Len(B)
    BY DEF B
  <2> QED BY <2>1, <2>2, <2>3, <2>4
<1>8. ASSUME NEW i \in 1 .. n PROVE InStream(s2, i, w2)
  <2>1. InStream(s, i, w)
    BY DEF Stream, n
  <2>2. s2[i] = s[i] /\ EndOf(s2, i) = EndOf(s, i) /\ EndOf(s2, i - 1) = EndOf(s, i - 1)
    BY <1>1, <1>4, <1>6
  <2> DEFINE p == EndOf(s, i - 1)
             C == Packed(s[i])
  <2>3. Has(w, p, C) /\ IsSent(s[i]) /\ EndOf(s, i) = p + Len(C)
    BY <2>1 DEF InStream
  <2>4. p \in Nat
    <3>1. i - 1 \in Nat /\ i - 1 <= n
      BY <1>1
    <3> QED BY <3>1, EndsAre DEF n
  <2>5. Len(C) \in Nat
    BY <2>3, PackedIs
  <2> HIDE DEF p, C
  <2>6. Has(w2, p, C)
    <3>1. p + Len(C) <= Len(w) /\ \A k \in 1 .. Len(C) : w[p + k] = C[k]
      BY <2>3 DEF Has
    <3>2. \A k \in 1 .. Len(C) : p + k \in 1 .. Len(w)
      BY <1>1, <2>4, <2>5, <3>1
    <3>3. \A k \in 1 .. Len(C) : w2[p + k] = C[k]
      BY <1>3, <3>1, <3>2
    <3>4. p + Len(C) <= Len(w2)
      BY <1>1, <1>3, <1>5, <2>4, <2>5, <3>1
    <3> QED BY <3>3, <3>4 DEF Has
  <2> QED BY <2>2, <2>3, <2>6 DEF InStream, p, C
<1>9. InStream(s2, n + 1, w2)
  <2>1. Has(w2, Len(w), B)
    BY <1>1, <1>2, <1>3 DEF Has
  <2> DEFINE i == n + 1
  <2>2. s2[i] = m /\ EndOf(s2, i) = Len(w) + Len(B)
    BY <1>4, <1>7
  <2>3. EndOf(s2, i - 1) = Len(w)
    <3>1. i - 1 = n
      BY <1>1
    <3> QED BY <1>7, <3>1
  <2> HIDE DEF i
  <2>4. InStream(s2, i, w2)
    BY <2>1, <2>2, <2>3 DEF InStream, B
  <2> QED BY <2>4 DEF i
<1>10. Stream(s2, w2)
  <2>1. \A i \in 1 .. n + 1 : i \in 1 .. n \/ i = n + 1
    BY <1>1
  <2>2. \A i \in 1 .. Len(s2) : InStream(s2, i, w2)
    BY <1>4, <1>8, <1>9, <2>1
  <2>3. EndOf(s2, Len(s2)) = Len(w2)
    BY <1>3, <1>4, <1>7
  <2> QED BY <1>3, <1>4, <2>2, <2>3 DEF Stream
<1> QED BY <1>3, <1>4, <1>5, <1>10 DEF n, s2, Grown

(* makes no difference to what has been read.                              *)
LEMMA ReadingGrows ==
  ASSUME NEW s, NEW w, Stream(s, w), NEW a \in Nat, a <= Len(w), NEW k \in Nat,
         NEW ctx, NEW off, NEW rdy, Reading(s, w, a, k, ctx, off, rdy),
         NEW s2, NEW w2, Grown(s, w, s2, w2)
  PROVE  Reading(s2, w2, a, k, ctx, off, rdy)
<1> DEFINE p == EndOf(s, k)
<1>0. /\ Stream(s2, w2) /\ Len(s2) = Len(s) + 1
      /\ \A i \in 1 .. Len(s) : s2[i] = s[i]
      /\ \A i \in 1 .. Len(w) : w[i] = w2[i]
      /\ Len(w) < Len(w2)
  BY DEF Grown
<1>1. /\ Len(s) \in Nat /\ w \in Seq(Byte) /\ w2 \in Seq(Byte) /\ Len(w) \in Nat
      /\ EndOf(s, Len(s)) = Len(w)
  BY <1>0 DEF Stream, IsSeq
<1>2. k <= Len(s) /\ p <= a /\ (~rdy => k = Len(s) \/ a < EndOf(s, k + 1))
  BY DEF Reading
<1>3. p \in Nat
  BY <1>2, EndsAre
<1>4. \A i \in Nat : i <= Len(s) => EndOf(s2, i) = EndOf(s, i)
  BY <1>0, <1>1 DEF EndOf
<1>5. EndOf(s2, k) = p
  BY <1>2, <1>4
<1>6. ~rdy => k = Len(s2) \/ a < EndOf(s2, k + 1)
  <2>1. CASE k = Len(s)
    <3>1. k < Len(s2) /\ k = Len(s)
      BY <1>0, <1>1, <2>1
    <3>2. EndOf(s2, k) < EndOf(s2, k + 1) /\ EndOf(s2, k) \in Nat /\ EndOf(s2, k + 1) \in Nat
      BY <1>0, <3>1, NextEnds
    <3>3. EndOf(s2, k) = Len(w)
      BY <1>1, <1>4, <2>1
    <3> QED BY <1>1, <3>2, <3>3
  <2>2. CASE k # Len(s)
    <3>1. k + 1 \in Nat /\ k + 1 <= Len(s)
      BY <1>1, <1>2, <2>2
    <3>2. EndOf(s2, k + 1) = EndOf(s, k + 1)
      BY <1>4, <3>1
    <3> QED BY <1>2, <2>2, <3>2
  <2> QED BY <2>1, <2>2
<1>7. PICK len \in Nat : /\ p <= len /\ len <= a /\ (~rdy => len = a)
                         /\ At(ctx, off) = Turns(Begin(p), w, len)
  BY DEF Reading
<1>8. k <= Len(s2)
  BY <1>0, <1>1, <1>2
<1> HIDE DEF p
<1>9. Turns(Begin(p), w2, len) = Turns(Begin(p), w, len)
  <2>1. len <= Len(w) /\ len <= Len(w2)
    BY <1>0, <1>1, <1>7
  <2>2. \A i \in 1 .. len : w[i] = w2[i]
    BY <1>0, <1>1, <2>1
  <2>3. Good(Begin(p), len)
    BY <1>3, <1>7, BeginGood
  <2> QED BY <1>1, <2>1, <2>2, <2>3, TurnsBefore
<1> QED BY <1>2, <1>5, <1>6, <1>7, <1>8, <1>9 DEF Reading

-----------------------------------------------------------------------------
(* The inductive invariant *)

(* The first messages of the stream have been received as they were sent.  *)
InOrder ==
  /\ IsSeq(received)
  /\ \A i \in 1 .. Len(received) : received[i] = sent[i].value

(* The inductive invariant                                                 *)
WireInv ==
  /\ Stream(sent, wire)
  /\ arrived \in Nat /\ arrived <= Len(wire)
  /\ ready \in BOOLEAN
  /\ status = "running"
  /\ DOMAIN target = Types
  /\ InOrder
  /\ Reading(sent, wire, arrived, Len(received), m_ctx, m_off, ready)

(* It holds of the empty stream,                                           *)
LEMMA WireInit == Init => WireInv
<1> SUFFICES ASSUME Init PROVE WireInv
  OBVIOUS
<1>1. Stream(<<>>, <<>>)
  BY DEF Stream, IsSeq, EndOf
<1>2. Turns(Begin(0), <<>>, 0) = Begin(0)
  <2>1. <<>> \in Seq(Byte) /\ 0 <= Len(<<>>)
    OBVIOUS
  <2> QED BY <2>1, NothingToRead
<1>3. Reading(<<>>, <<>>, 0, 0, InitContext, 0, FALSE)
  <2>1. EndOf(<<>>, 0) = 0 /\ Len(<<>>) = 0
    BY DEF EndOf
  <2>2. At(InitContext, 0) = Begin(0)
    BY DEF Begin
  <2> QED BY <1>2, <2>1, <2>2 DEF Reading
<1>4. IsSeq(<<>>) /\ Len(<<>>) = 0
  BY DEF IsSeq
<1>5. InOrder
  BY <1>4 DEF Init, InOrder
<1>6. DOMAIN target = Types
  BY DEF Init
<1>7. /\ sent = <<>> /\ wire = <<>> /\ arrived = 0 /\ m_off = 0 /\ m_ctx = InitContext
      /\ ready = FALSE /\ received = <<>> /\ status = "running"
  BY DEF Init
<1>8. Reading(sent, wire, arrived, Len(received), m_ctx, m_off, ready)
  <2>1. Len(received) = 0
    BY <1>4, <1>7
  <2> QED BY <1>3, <1>7, <2>1
<1>9. Stream(sent, wire)
  BY <1>1, <1>7
<1>10. arrived \in Nat /\ arrived <= Len(wire)
  <2>1. Len(wire) = 0
    BY <1>4, <1>7
  <2> QED BY <1>7, <2>1
<1>11. ready \in BOOLEAN /\ status = "running"
  BY <1>7
<1> QED BY <1>5, <1>6, <1>8, <1>9, <1>10, <1>11 DEF WireInv

(* is kept when a message is sent,                                         *)
LEMMA WireSend ==
  ASSUME WireInv, NEW s \in Samples, Send(s)
  PROVE  WireInv'
<1> DEFINE m == [type |-> s.type, value |-> s.value, end |-> Len(wire')]
           B == Pack(s.type, s.value)
<1>1. /\ wire' = wire \o B /\ sent' = Append(sent, m)
      /\ UNCHANGED <<arrived, m_off, m_ctx, ready, target, received, status>>
  BY DEF Send
<1>2. m.type = s.type /\ m.value = s.value /\ m.end = Len(wire')
  OBVIOUS
<1> HIDE DEF m
<1>3. IsSent(m) /\ Packed(m) = B
  BY <1>2, SamplesAssumption DEF IsSent, Packed, Types
<1>4. Stream(sent, wire) /\ wire \in Seq(Byte)
  BY DEF WireInv, Stream
<1>5. Joins(wire', wire, Packed(m))
  BY <1>1, <1>3 DEF Joins
<1>6. Packed(m) \in Seq(Byte)
  BY <1>3, PackedIs
<1>7. m.end = Len(wire) + Len(Packed(m))
  BY <1>2, <1>4, <1>5, <1>6, JoinsIs
<1>8. Grown(sent, wire, sent', wire')
  <2>1. Grown(sent, wire, Append(sent, m), wire')
    BY <1>3, <1>4, <1>5, <1>7, StreamGrows
  <2> QED BY <1>1, <2>1
<1>9. /\ arrived \in Nat /\ arrived <= Len(wire) /\ IsSeq(received)
      /\ Reading(sent, wire, arrived, Len(received), m_ctx, m_off, ready)
  BY DEF WireInv, InOrder
<1>10. Len(received) \in Nat
  BY <1>9 DEF IsSeq
<1>11. Reading(sent', wire', arrived, Len(received), m_ctx, m_off, ready)
  BY <1>4, <1>8, <1>9, <1>10, ReadingGrows
<1>12. arrived <= Len(wire')
  <2>1. Len(wire) \in Nat /\ Len(wire') \in Nat /\ Len(wire) < Len(wire')
    BY <1>4, <1>8 DEF Grown, Stream
  <2> QED BY <1>9, <2>1
<1>13. InOrder'
  <2>1. Len(received) <= Len(sent) /\ Len(sent) \in Nat
    <3>1. Len(received) <= Len(sent)
      BY <1>9 DEF Reading
    <3>2. Len(sent) \in Nat
      BY <1>4 DEF Stream, IsSeq
    <3> QED BY <3>1, <3>2
  <2>2. \A i \in 1 .. Len(received) : i \in 1 .. Len(sent)
    BY <1>10, <2>1
  <2>3. \A i \in 1 .. Len(received) : received[i] = sent'[i].value
    BY <1>8, <2>2 DEF WireInv, InOrder, Grown
  <2> QED BY <1>1, <1>9, <2>3 DEF InOrder
<1>14. /\ arrived' = arrived /\ m_off' = m_off /\ m_ctx' = m_ctx /\ ready' = ready
       /\ target' = target /\ received' = received /\ status' = status
  BY <1>1
<1>15. ready' \in BOOLEAN /\ status' = "running" /\ DOMAIN target' = Types
  BY <1>14 DEF WireInv
<1>16. Stream(sent', wire')
  BY <1>8 DEF Grown
<1> QED BY <1>9, <1>11, <1>12, <1>13, <1>14, <1>15, <1>16 DEF WireInv

(* when bytes arrive                                                       *)
LEMMA WireArrive ==
  ASSUME WireInv, ArriveSome
  PROVE  WireInv'
<1>1. PICK n \in Pieces \cup {Len(wire) - arrived} : n > 0 /\ Arrive(n)
  BY DEF ArriveSome
<1>2. /\ arrived + n <= Len(wire) /\ arrived' = arrived + n /\ ready' = TRUE
      /\ sent' = sent /\ wire' = wire /\ m_off' = m_off /\ m_ctx' = m_ctx
      /\ target' = target /\ received' = received /\ status' = status
  BY <1>1 DEF Arrive
<1>3. /\ Stream(sent, wire) /\ arrived \in Nat /\ arrived <= Len(wire) /\ InOrder
      /\ status = "running" /\ DOMAIN target = Types
      /\ Reading(sent, wire, arrived, Len(received), m_ctx, m_off, ready)
  BY DEF WireInv
<1>4. Len(wire) \in Nat
  BY <1>3 DEF Stream
<1>5. n \in Nat
  BY <1>3, <1>4, BoundsAssumption
<1>6. arrived' \in Nat /\ arrived <= arrived' /\ arrived' <= Len(wire)
  BY <1>2, <1>3, <1>5
<1>7. Len(received) \in Nat
  BY <1>3 DEF InOrder, IsSeq
<1> DEFINE p == EndOf(sent, Len(received))
<1>8. p \in Nat /\ Len(received) <= Len(sent) /\ p <= arrived
  <2>1. Len(received) <= Len(sent) /\ p <= arrived
    BY <1>3 DEF Reading
  <2> QED BY <1>3, <1>7, <2>1, EndsAre
<1>9. PICK len \in Nat : /\ p <= len /\ len <= arrived
                         /\ At(m_ctx, m_off) = Turns(Begin(p), wire, len)
  BY <1>3 DEF Reading
<1>10. len <= arrived' /\ p <= arrived'
  BY <1>3, <1>6, <1>8, <1>9
<1>11. Reading(sent, wire, arrived', Len(received), m_ctx, m_off, TRUE)
  BY <1>8, <1>9, <1>10 DEF Reading
<1>12. InOrder'
  BY <1>2, <1>3 DEF InOrder
<1> QED BY <1>2, <1>3, <1>6, <1>11, <1>12 DEF WireInv

(* and when the receiver calls next() and converts what it gets.           *)
LEMMA WireReceive ==
  ASSUME WireInv, Receive
  PROVE  WireInv'
<1> DEFINE k == Len(received)
           p == EndOf(sent, k)
           r == Execute(m_ctx, wire, arrived, m_off)
<1>1. /\ Stream(sent, wire) /\ arrived \in Nat /\ arrived <= Len(wire) /\ InOrder
      /\ status = "running" /\ DOMAIN target = Types
      /\ Reading(sent, wire, arrived, k, m_ctx, m_off, ready)
  BY DEF WireInv
<1>2. /\ sent' = sent /\ wire' = wire /\ arrived' = arrived
      /\ m_off' = r.off /\ ready' = (r.ret = 1)
      /\ \/ /\ r.ret # 1 /\ m_ctx' = r.ctx
            /\ status' = IF r.ret = 0 THEN "running" ELSE "parse_error"
            /\ target' = target /\ received' = received
         \/ /\ r.ret = 1 /\ m_ctx' = InitContext
            /\ Take(sent[k + 1].type, r.ctx.data[1])
  BY DEF Receive
<1>3. k \in Nat /\ Len(sent) \in Nat
  BY <1>1 DEF InOrder, Stream, IsSeq
<1>4. k <= Len(sent) /\ p <= arrived
  BY <1>1 DEF Reading
<1>5. p \in Nat /\ r = Turns(Begin(p), wire, arrived)
  BY <1>1, <1>3, CallIs
<1> HIDE DEF r
<1>6. CASE k = Len(sent) \/ arrived < EndOf(sent, k + 1)
  <2>1. r.ret = 0 /\ r = At(r.ctx, r.off)
    BY <1>1, <1>3, <1>4, <1>5, <1>6, CallWaits
  <2>2. /\ m_off' = r.off /\ ready' = FALSE /\ m_ctx' = r.ctx /\ status' = "running"
        /\ target' = target /\ received' = received
    <3>1. r.ret = 0 /\ r.ret # 1
      BY <2>1
    <3>2. ready' = FALSE /\ m_off' = r.off
      BY <1>2, <3>1
    <3>3. m_ctx' = r.ctx /\ status' = "running" /\ target' = target /\ received' = received
      BY <1>2, <3>1
    <3> QED BY <3>2, <3>3
  <2>3. Reading(sent, wire, arrived, k, r.ctx, r.off, FALSE)
    BY <1>1, <1>4, <1>5, <1>6, <2>1 DEF Reading
  <2>4. InOrder'
    BY <1>1, <1>2, <2>2 DEF InOrder
  <2> QED BY <1>1, <1>2, <2>2, <2>3, <2>4 DEF WireInv
<1>7. CASE k < Len(sent) /\ EndOf(sent, k + 1) <= arrived
  <2> DEFINE q    == EndOf(sent, k + 1)
             type == sent[k + 1].type
             val  == sent[k + 1].value
             obj  == Parsed(type, val)
  <2>1. r.ret = 1 /\ r.off = q /\ r.ctx.data = <<obj>>
    BY <1>1, <1>3, <1>5, <1>7, CallFinds
  <2>2. q \in Nat /\ q <= Len(wire) /\ type \in Types /\ Fits(type, val)
    BY <1>1, <1>3, <1>7, NextEnds DEF IsSent
  <2>3. Converts(type, obj) /\ \A t : Convert(type, obj, t) = val
    BY <2>2, Kept
  <2>4. r.ctx.data[1] = obj
    BY <2>1
  <2>5. Take(type, obj) /\ m_ctx' = InitContext /\ m_off' = q /\ ready' = TRUE
    BY <1>2, <2>1, <2>4
  <2> HIDE DEF obj, type, val
  <2>6. /\ target' = [target EXCEPT ![type] = Convert(type, obj, @)]
        /\ received' = Append(received, target'[type])
        /\ status' = "running"
    BY <2>3, <2>5 DEF Take
  <2>7. DOMAIN target' = Types /\ target'[type] = val
    BY <1>1, <2>2, <2>3, <2>6
  <2>8. /\ IsSeq(received') /\ Len(received') = k + 1 /\ received'[k + 1] = val
        /\ \A i \in 1 .. k : received'[i] = received[i]
    <3>1. IsSeq(received)
      BY <1>1 DEF InOrder
    <3> QED BY <2>6, <2>7, <3>1, AppendIs
  <2>9. InOrder'
    <3>1. \A i \in 1 .. k : received'[i] = sent[i].value
      BY <1>1, <2>8 DEF InOrder
    <3>2. \A i \in 1 .. k + 1 : i \in 1 .. k \/ i = k + 1
      BY <1>3
    <3>3. \A i \in 1 .. Len(received') : received'[i] = sent[i].value
      BY <2>8, <3>1, <3>2 DEF val
    <3> QED BY <1>2, <2>8, <3>3 DEF InOrder
  <2>10. Reading(sent, wire, arrived, k + 1, InitContext, q, TRUE)
    <3>1. wire \in Seq(Byte)
      BY <1>1 DEF Stream
    <3>2. At(InitContext, q) = Turns(Begin(q), wire, q)
      BY <2>2, <3>1, NothingToRead DEF Begin
    <3>3. k + 1 <= Len(sent) /\ q <= arrived
      BY <1>3, <1>7
    <3>4. q = EndOf(sent, k + 1)
      OBVIOUS
    <3> HIDE DEF q
    <3>5. q <= q
      BY <2>2
    <3> QED BY <2>2, <3>2, <3>3, <3>4, <3>5 DEF Reading
  <2> QED BY <1>1, <1>2, <2>5, <2>6, <2>7, <2>8, <2>9, <2>10 DEF WireInv
<1>8. k = Len(sent) \/ arrived < EndOf(sent, k + 1)
        \/ (k < Len(sent) /\ EndOf(sent, k + 1) <= arrived)
  <2> SUFFICES ASSUME k # Len(sent)
               PROVE  arrived < EndOf(sent, k + 1)
                        \/ (k < Len(sent) /\ EndOf(sent, k + 1) <= arrived)
    OBVIOUS
  <2>1. k < Len(sent)
    BY <1>3, <1>4
  <2>2. EndOf(sent, k + 1) \in Nat
    BY <1>1, <1>3, <2>1, NextEnds
  <2> QED BY <1>1, <2>1, <2>2
<1> QED BY <1>6, <1>7, <1>8

(* A stream of messages, a parser that is somewhere in it and a receiver   *)
(* that has its first messages: so it is in every state.                   *)
THEOREM WireStreams == Spec => []WireInv
<1>1. Init => WireInv
  BY WireInit
<1>2. WireInv /\ [Next]_vars => WireInv'
  <2> SUFFICES ASSUME WireInv, [Next]_vars PROVE WireInv'
    OBVIOUS
  <2>1. ASSUME NEW s \in Samples, Send(s) PROVE WireInv'
    BY <2>1, WireSend
  <2>2. CASE ArriveSome
    BY <2>2, WireArrive
  <2>3. CASE Receive
    BY <2>3, WireReceive
  <2>4. CASE UNCHANGED vars
    BY <2>4 DEF vars, WireInv, InOrder
  <2>5. Done => UNCHANGED vars
    BY DEF Done
  <2> QED BY <2>1, <2>2, <2>3, <2>4, <2>5 DEF Next
<1> QED BY <1>1, <1>2, PTL DEF Spec

-----------------------------------------------------------------------------
(* The properties *)

(* What the receiver has of the messages is the first of them.             *)
LEMMA InOrderIsPrefix ==
  ASSUME WireInv
  PROVE  IsPrefix(received, Values)
<1> DEFINE k == Len(received)
           V == Values
<1>1. Stream(sent, wire) /\ InOrder /\ k <= Len(sent)
  BY DEF WireInv, Reading
<1>2. IsSeq(received) /\ k \in Nat /\ \A i \in 1 .. k : received[i] = sent[i].value
  BY <1>1 DEF InOrder, IsSeq
<1>3. IsSeq(sent) /\ Len(sent) \in Nat
  BY <1>1 DEF Stream, IsSeq
<1>4. DOMAIN sent = 1 .. Len(sent)
  BY <1>3 DEF IsSeq
<1>5. V = [i \in 1 .. Len(sent) |-> sent[i].value]
  BY <1>4 DEF Values
<1>6. IsSeq(V) /\ Len(V) = Len(sent) /\ \A i \in 1 .. k : V[i] = sent[i].value
  <2>1. Len(V) = Len(sent) /\ \A i \in 1 .. Len(sent) : V[i] = sent[i].value
    BY <1>3, <1>5
  <2> HIDE DEF V
  <2>2. V = [i \in 1 .. Len(V) |-> V[i]]
    BY <1>5, <2>1
  <2>3. IsSeq(V)
    BY <1>3, <2>1, <2>2 DEF IsSeq
  <2> QED BY <1>1, <1>2, <1>3, <2>1, <2>3
<1> HIDE DEF V, k
<1>7. k <= Len(V)
  BY <1>1, <1>6
<1>8. /\ IsSeq(SubSeq(V, 1, k)) /\ Len(SubSeq(V, 1, k)) = k
      /\ \A i \in 1 .. k : SubSeq(V, 1, k)[i] = V[i]
  BY <1>2, <1>6, <1>7, FirstIs
<1>9. /\ IsSeq(SubSeq(received, 1, k)) /\ Len(SubSeq(received, 1, k)) = k
      /\ \A i \in 1 .. k : SubSeq(received, 1, k)[i] = received[i]
  <2>1. k <= k /\ k = Len(received)
    BY <1>2 DEF k
  <2> QED BY <1>2, <2>1, FirstIs
<1>10. SubSeq(received, 1, k) = SubSeq(V, 1, k)
  <2> DEFINE F == SubSeq(received, 1, k)
             G == SubSeq(V, 1, k)
  <2>1. IsSeq(F) /\ IsSeq(G) /\ Len(F) = Len(G)
    BY <1>8, <1>9
  <2>2. \A i \in 1 .. Len(F) : F[i] = G[i]
    BY <1>2, <1>6, <1>8, <1>9
  <2> HIDE DEF F, G
  <2>3. F = G
    BY <2>1, <2>2, SameSeq
  <2> QED BY <2>3 DEF F, G
<1> QED BY <1>7, <1>10 DEF IsPrefix, k, V

(* The receiver's variables become exactly the messages that were sent, in *)
(* their order and without an exception, for every set of samples.         *)
THEOREM ReceivedAsSentHolds == Spec => []ReceivedAsSent
<1>1. WireInv => ReceivedAsSent
  BY InOrderIsPrefix DEF ReceivedAsSent, WireInv
<1> QED BY <1>1, WireStreams, PTL

(* What the parser is in the middle of                                     *)
LEMMA ParserIs ==
  ASSUME WireInv, NEW p, p = EndOf(sent, Len(received))
  PROVE  /\ p <= m_off
         /\ m_ctx = InitContext => m_off = p
<1>1. /\ Stream(sent, wire) /\ arrived \in Nat /\ arrived <= Len(wire) /\ InOrder
      /\ Reading(sent, wire, arrived, Len(received), m_ctx, m_off, ready)
  BY DEF WireInv
<1>2. Len(received) \in Nat /\ Len(received) <= Len(sent)
  BY <1>1 DEF InOrder, IsSeq, Reading
<1>3. p \in Nat /\ wire \in Seq(Byte) /\ Len(wire) \in Nat
  BY <1>1, <1>2, EndsAre DEF Stream
<1>4. PICK len \in Nat : /\ p <= len /\ len <= arrived
                         /\ At(m_ctx, m_off) = Turns(Begin(p), wire, len)
  BY <1>1 DEF Reading
<1>5. len <= Len(wire)
  BY <1>1, <1>3, <1>4
<1> DEFINE b == Begin(p)
           e == Turns(b, wire, len)
<1>6. Good(b, len) /\ b.off = p /\ b.ctx = InitContext
  BY <1>3, <1>4, BeginGood
<1> HIDE DEF b
<1>7. e.off >= b.off /\ (e.ret = 0 => e = b \/ e.ctx.cs # HeaderNext \/ e.ctx.open # <<>>)
  BY <1>3, <1>5, <1>6, TurnsEnd
<1>8. Good(e, len)
  BY <1>3, <1>5, <1>6, TurnsEnd
<1>9. e.ctx = m_ctx /\ e.off = m_off /\ e.ret = 0
  <2>1. e = At(m_ctx, m_off)
    BY <1>4 DEF b
  <2> HIDE DEF e
  <2> QED BY <2>1 DEF At
<1> HIDE DEF e
<1>10. m_off \in Nat
  BY <1>8, <1>9 DEF Good
<1>11. p <= m_off
  BY <1>3, <1>6, <1>7, <1>9, <1>10
<1>12. ASSUME m_ctx = InitContext PROVE m_off = p
  <2>1. m_ctx.cs = HeaderNext /\ m_ctx.open = <<>>
    BY <1>12 DEF InitContext
  <2>2. e = b
    BY <1>7, <1>9, <2>1
  <2> QED BY <1>6, <1>9, <2>2
<1> QED BY <1>11, <1>12

(* When there is no reason to call the parser, the messages that have      *)
(* arrived are those that have been handed over.                           *)
LEMMA ArrivedAreReceived ==
  ASSUME WireInv, ~ready
  PROVE  Len(received) = Cardinality({i \in DOMAIN sent : EndOf(sent, i) <= arrived})
<1> DEFINE k == Len(received)
           A == {i \in DOMAIN sent : EndOf(sent, i) <= arrived}
<1>1. /\ Stream(sent, wire) /\ arrived \in Nat /\ InOrder
      /\ Reading(sent, wire, arrived, k, m_ctx, m_off, ready)
  BY DEF WireInv
<1>2. EndOf(sent, k) <= arrived /\ (k = Len(sent) \/ arrived < EndOf(sent, k + 1))
  BY <1>1 DEF Reading
<1>3. k \in Nat /\ k <= Len(sent) /\ Len(sent) \in Nat
  BY <1>1 DEF InOrder, Stream, IsSeq, Reading
<1>4. DOMAIN sent = 1 .. Len(sent)
  BY <1>1 DEF Stream, IsSeq
<1> HIDE DEF k
<1>5. ASSUME NEW i \in 1 .. k PROVE i \in A
  <2>1. i \in Nat /\ i <= Len(sent) /\ (i < k \/ i = k) /\ i \in DOMAIN sent
    BY <1>4, <1>3
  <2>2. i < k => EndOf(sent, i) < EndOf(sent, k)
    BY <1>1, <1>3, <2>1, LaterEnds
  <2>3. EndOf(sent, i) \in Nat /\ EndOf(sent, k) \in Nat
    BY <1>1, <1>3, <2>1, EndsAre
  <2> QED BY <1>1, <1>2, <2>1, <2>2, <2>3
<1>6. ASSUME NEW i \in A PROVE i \in 1 .. k
  <2> SUFFICES ASSUME k < i PROVE FALSE
    BY <1>4, <1>3
  <2>1. i \in Nat /\ i <= Len(sent) /\ k < Len(sent) /\ EndOf(sent, i) <= arrived
    BY <1>4, <1>3
  <2>2. k + 1 \in Nat /\ (k + 1 = i \/ k + 1 < i) /\ k + 1 <= Len(sent)
    BY <1>3, <2>1
  <2>3. k + 1 < i => EndOf(sent, k + 1) < EndOf(sent, i)
    BY <1>1, <2>1, <2>2, LaterEnds
  <2>4. EndOf(sent, i) \in Nat /\ EndOf(sent, k + 1) \in Nat
    BY <1>1, <2>1, <2>2, EndsAre
  <2>5. arrived < EndOf(sent, k + 1)
    BY <1>2, <2>1
  <2> QED BY <1>1, <2>1, <2>2, <2>3, <2>4, <2>5
<1>7. A = 1 .. k
  <2> HIDE DEF A
  <2> QED BY <1>5, <1>6
<1>8. Cardinality(1 .. k) = k
  BY <1>3, FS_Interval
<1> QED BY <1>7, <1>8 DEF k

(* A message is handed over by the call that follows the arrival of its    *)
(* last byte, whatever the pieces are in which its bytes arrive.           *)
THEOREM PromptHolds == Spec => []Prompt
<1>1. WireInv => Prompt
  <2> SUFFICES ASSUME WireInv PROVE Prompt
    OBVIOUS
  <2>1. \A i : End(i) = EndOf(sent, i)
    BY DEF End, EndOf
  <2>2. End(Len(received)) <= m_off
    BY <2>1, ParserIs
  <2>3. m_ctx = InitContext => m_off = End(Len(received))
    BY <2>1, ParserIs
  <2>4. {i \in DOMAIN sent : End(i) <= arrived} = {i \in DOMAIN sent : EndOf(sent, i) <= arrived}
    BY <2>1
  <2>5. ~ready => Len(received) = Cardinality({i \in DOMAIN sent : End(i) <= arrived})
    BY <2>4, ArrivedAreReceived
  <2> QED BY <2>2, <2>3, <2>5 DEF Prompt
<1> QED BY <1>1, WireStreams, PTL

(* The context depends on the bytes that have arrived only, not on where   *)
(* the pieces were cut.                                                    *)
THEOREM CutsDoNotMatterHolds == Spec => []CutsDoNotMatter
<1>1. WireInv => CutsDoNotMatter
  <2> SUFFICES ASSUME WireInv, ~ready,
                      NEW whole, whole = Execute(InitContext, wire, arrived, End(Len(received)))
               PROVE  whole.ctx = m_ctx /\ whole.off = m_off
    BY DEF CutsDoNotMatter
  <2> DEFINE p == EndOf(sent, Len(received))
  <2>1. End(Len(received)) = p
    BY DEF End, EndOf
  <2>2. Reading(sent, wire, arrived, Len(received), m_ctx, m_off, ready)
    BY DEF WireInv
  <2> HIDE DEF p
  <2>3. At(m_ctx, m_off) = Turns(Begin(p), wire, arrived)
    BY <2>2 DEF Reading, p
  <2>4. whole = Turns(Begin(p), wire, arrived)
    BY <2>1 DEF Execute, Begin, At
  <2>5. whole = At(m_ctx, m_off)
    BY <2>3, <2>4
  <2> QED BY <2>5 DEF At
<1> QED BY <1>1, WireStreams, PTL
=============================================================================
