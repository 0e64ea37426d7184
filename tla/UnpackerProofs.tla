---------------------------- MODULE UnpackerProofs ----------------------------
(***************************************************************************)
(* For any number of blocks and handles, any messages and any sizes: the   *)
(* reference counts of Unpacker are exact, no object loses a string while  *)
(* it is there, unparsed bytes survive every change of the buffer, an      *)
(* object called not referenced has no string in the unpacker's buffer,    *)
(* and what the caller may write lies inside the buffer.                   *)
(***************************************************************************)
EXTENDS Unpacker, FiniteSetTheorems, WellFoundedInduction, TLAPS

One(b, S) == IF b \in S THEN 1 ELSE 0

HoldersIn(hs, b) == {h \in Handles : b \in hs[h].zone.fins}

HandleType == [zone : Zones, referenced : BOOLEAN]

Types ==
  /\ count \in [Blocks -> Int]
  /\ m_buffer \in Blocks \cup {NoBlock}
  /\ m_used \in Int /\ m_off \in Int /\ m_parsed \in Int
  /\ m_referenced \in BOOLEAN
  /\ m_z \in Zones
  /\ handles \in [Handles -> HandleType]

(* A string of an object lies in a buffer that the object's zone releases, *)
(* or in the unpacker's buffer if the flag says so.                        *)
RefsHeld ==
  /\ m_z.refs \subseteq m_z.fins \cup (IF m_referenced THEN {m_buffer} ELSE {})
  /\ \A h \in Handles : handles[h].zone.refs \subseteq handles[h].zone.fins

(* Nobody has a string in a buffer that nothing was parsed from yet.       *)
CleanStart ==
  /\ COUNTER_SIZE <= m_off
  /\ m_off = COUNTER_SIZE =>
       ~m_referenced /\ \A h \in Handles : m_buffer \notin handles[h].zone.fins

IInv ==
  /\ Types
  /\ CountIsExact
  /\ RefsHeld
  /\ CleanStart
  /\ m_buffer \notin m_z.fins
  /\ m_buffer = NoBlock => m_z.fins = {}

-----------------------------------------------------------------------------
(* The handles that hold a block can be counted.                           *)
LEMMA HoldersFinite ==
  ASSUME NEW hs, NEW b
  PROVE  IsFiniteSet(HoldersIn(hs, b)) /\ Cardinality(HoldersIn(hs, b)) \in Nat
BY FS_Subset, FS_CardinalityType, HandlesAssumption DEF HoldersIn

(* One handle changes; the number of a block's holders changes by what     *)
(* that handle held and holds.                                             *)
LEMMA HoldersOne ==
  ASSUME NEW hs \in [Handles -> HandleType], NEW h \in Handles,
         NEW v \in HandleType, NEW b
  PROVE  Cardinality(HoldersIn([hs EXCEPT ![h] = v], b)) =
           Cardinality(HoldersIn(hs, b)) - One(b, hs[h].zone.fins)
                                         + One(b, v.zone.fins)
<1> DEFINE A == HoldersIn(hs, b)
           B == HoldersIn([hs EXCEPT ![h] = v], b)
<1>1. IsFiniteSet(A) /\ Cardinality(A) \in Nat
  BY HoldersFinite
<1>2. IsFiniteSet(A \ {h}) /\ Cardinality(A \ {h}) =
        IF h \in A THEN Cardinality(A) - 1 ELSE Cardinality(A)
  BY <1>1, FS_RemoveElement
<1>3. h \in A <=> b \in hs[h].zone.fins
  BY DEF HoldersIn
<1>4. CASE b \in v.zone.fins
  <2>1. B = (A \ {h}) \cup {h}
    BY <1>4 DEF HoldersIn
  <2>2. Cardinality((A \ {h}) \cup {h}) = Cardinality(A \ {h}) + 1
    BY <1>2, FS_AddElement
  <2> HIDE DEF A, B
  <2>3. Cardinality(B) = Cardinality(A) - One(b, hs[h].zone.fins) + One(b, v.zone.fins)
    BY <2>1, <2>2, <1>1, <1>2, <1>3, <1>4 DEF One
  <2> QED BY <2>3 DEF A, B
<1>5. CASE b \notin v.zone.fins
  <2>1. B = A \ {h}
    BY <1>5 DEF HoldersIn
  <2> HIDE DEF A, B
  <2>2. Cardinality(B) = Cardinality(A) - One(b, hs[h].zone.fins) + One(b, v.zone.fins)
    BY <2>1, <1>1, <1>2, <1>3, <1>5 DEF One
  <2> QED BY <2>2 DEF A, B
<1> QED BY <1>4, <1>5

(* What a count of a block says.                                           *)
LEMMA CountMeans ==
  ASSUME IInv, NEW b \in Blocks
  PROVE  /\ count[b] = One(b, {m_buffer}) + One(b, m_z.fins)
                         + Cardinality(HoldersIn(handles, b))
         /\ Cardinality(HoldersIn(handles, b)) \in Nat
         /\ count[b] \in Nat
         /\ count[b] = 0 => /\ b # m_buffer
                            /\ b \notin m_z.fins
                            /\ \A h \in Handles : b \notin handles[h].zone.fins
         /\ count[b] = 1 /\ b = m_buffer =>
              \A h \in Handles : b \notin handles[h].zone.fins
<1>1. Cardinality(HoldersIn(handles, b)) \in Nat
  BY HoldersFinite
<1>2. count[b] = One(b, {m_buffer}) + One(b, m_z.fins)
                   + Cardinality(HoldersIn(handles, b))
  BY DEF IInv, CountIsExact, Holders, HoldersIn, One
<1>3. Cardinality(HoldersIn(handles, b)) = 0 => HoldersIn(handles, b) = {}
  BY HoldersFinite, FS_EmptySet
<1>4. HoldersIn(handles, b) = {} => \A h \in Handles : b \notin handles[h].zone.fins
  BY DEF HoldersIn
<1>5. One(b, {m_buffer}) \in {0, 1} /\ One(b, m_z.fins) \in {0, 1}
  BY DEF One
<1>6. count[b] = 0 => One(b, {m_buffer}) = 0 /\ One(b, m_z.fins) = 0
                        /\ Cardinality(HoldersIn(handles, b)) = 0
  BY <1>1, <1>2, <1>5
<1>7. count[b] = 1 /\ One(b, {m_buffer}) = 1 => Cardinality(HoldersIn(handles, b)) = 0
  BY <1>1, <1>2, <1>5
<1>8. count[b] \in Nat
  BY <1>1, <1>2, <1>5
<1>9. count[b] = 0 => /\ b # m_buffer
                      /\ b \notin m_z.fins
                      /\ \A h \in Handles : b \notin handles[h].zone.fins
  <2>1. One(b, {m_buffer}) = 0 => b # m_buffer
    BY DEF One
  <2>2. One(b, m_z.fins) = 0 => b \notin m_z.fins
    BY DEF One
  <2> QED BY <2>1, <2>2, <1>3, <1>4, <1>6
<1>10. count[b] = 1 /\ b = m_buffer =>
         \A h \in Handles : b \notin handles[h].zone.fins
  <2>1. b = m_buffer => One(b, {m_buffer}) = 1
    BY DEF One
  <2> QED BY <2>1, <1>3, <1>4, <1>7
<1> QED BY <1>1, <1>2, <1>8, <1>9, <1>10

(* The counts after a step, from the changes of each term of the sum.      *)
LEMMA CountStep ==
  ASSUME IInv, count' \in [Blocks -> Int],
         \A b \in Blocks :
           count'[b] = One(b, {m_buffer'}) + One(b, m_z'.fins)
                         + Cardinality(HoldersIn(handles', b))
  PROVE  CountIsExact'
BY DEF CountIsExact, Holders, HoldersIn, One

-----------------------------------------------------------------------------
(* The empty zone and handle have their types.                             *)
LEMMA NullTypes == NewZone \in Zones /\ NullHandle \in HandleType
<1>1. NewZone \in Zones
  BY DEF NewZone, Zones
<1> QED BY <1>1 DEF NullHandle, HandleType

(* The invariant holds of a new unpacker.                                  *)
THEOREM InitIInv == Init => IInv
<1> SUFFICES ASSUME Init PROVE IInv
  OBVIOUS
<1>1. Types
  <2>1. count \in [Blocks -> Int]
    BY DEF Init
  <2>2. m_referenced \in BOOLEAN
    BY DEF Init
  <2>3. m_used \in Int /\ m_off \in Int /\ m_parsed \in Int
    BY SizesAssumption DEF Init
  <2>4. m_z \in Zones /\ handles \in [Handles -> HandleType] /\ m_buffer \in Blocks \cup {NoBlock}
    BY NullTypes DEF Init
  <2> QED BY <2>1, <2>2, <2>3, <2>4 DEF Types
<1>2. CountIsExact
  <2> SUFFICES ASSUME NEW b \in Blocks
               PROVE  count[b] = (IF b = m_buffer THEN 1 ELSE 0)
                        + (IF b \in m_z.fins THEN 1 ELSE 0) + Cardinality(Holders(b))
    BY DEF CountIsExact
  <2>1. Holders(b) = {} /\ b \notin m_z.fins
    BY DEF Init, Holders, NullHandle, NewZone
  <2>2. Cardinality(Holders(b)) = 0
    BY <2>1, FS_EmptySet
  <2> QED BY <2>1, <2>2 DEF Init
<1>3. RefsHeld
  BY DEF Init, RefsHeld, NullHandle, NewZone
<1>4. CleanStart
  BY SizesAssumption DEF Init, CleanStart, NullHandle, NewZone
<1> QED BY <1>1, <1>2, <1>3, <1>4 DEF IInv, Init, NewZone

(* A new unpacker takes a free block.                                      *)
LEMMA ConstructStep == IInv /\ Construct => IInv'
<1> SUFFICES ASSUME IInv, Construct PROVE IInv'
  OBVIOUS
<1> USE DEF Construct, Fresh
<1>1. PICK n \in Free : Fresh(n) /\ count' = [count EXCEPT ![n] = 1]
  OBVIOUS
<1>2. n \in Blocks /\ count[n] = 0
  BY DEF Free
<1>3. \A h \in Handles : n \notin handles[h].zone.fins
  BY <1>2, CountMeans
<1>4. Types'
  <2>1. count' \in [Blocks -> Int]
    BY <1>1, <1>2 DEF IInv, Types
  <2>2. m_referenced' \in BOOLEAN
    BY <1>1
  <2>3. m_used' \in Int /\ m_off' \in Int /\ m_parsed' \in Int
    BY <1>1, SizesAssumption
  <2>4. m_z' \in Zones /\ handles' \in [Handles -> HandleType] /\ m_buffer' \in Blocks \cup {NoBlock}
    BY <1>1, <1>2, NullTypes DEF IInv, Types
  <2> QED BY <2>1, <2>2, <2>3, <2>4 DEF Types
<1>5. CountIsExact'
  <2>1. ASSUME NEW b \in Blocks
        PROVE  count'[b] = One(b, {m_buffer'}) + One(b, m_z'.fins)
                             + Cardinality(HoldersIn(handles', b))
    <3>1. /\ count[b] = One(b, {m_buffer}) + One(b, m_z.fins)
                          + Cardinality(HoldersIn(handles, b))
          /\ Cardinality(HoldersIn(handles, b)) \in Nat
      BY CountMeans
    <3>2. m_buffer = NoBlock /\ m_z.fins = {} /\ m_z'.fins = {} /\ m_buffer' = n
      BY <1>1 DEF IInv, NewZone
    <3>3. One(b, {m_buffer}) = 0 /\ One(b, m_z.fins) = 0 /\ One(b, m_z'.fins) = 0
      BY <3>2, NoBlockAssumption DEF One
    <3>4. One(b, {m_buffer'}) = IF b = n THEN 1 ELSE 0
      BY <3>2 DEF One
    <3>5. count'[b] = IF b = n THEN 1 ELSE count[b]
      BY <1>1 DEF IInv, Types
    <3> QED BY <3>1, <3>3, <3>4, <3>5, <1>2
  <2> QED BY <2>1, <1>4, CountStep DEF Types
<1>6. RefsHeld'
  BY <1>1 DEF IInv, RefsHeld, NewZone
<1>7. CleanStart'
  BY <1>1, <1>3, SizesAssumption DEF CleanStart
<1> QED BY <1>1, <1>2, <1>4, <1>5, <1>6, <1>7, NoBlockAssumption DEF IInv, NewZone

(* The end of an unpacker releases its buffer, once, and those of the zone *)
(* it was filling.                                                         *)
LEMMA DestroyStep == IInv /\ Destroy => IInv'
<1> SUFFICES ASSUME IInv, Destroy PROVE IInv'
  OBVIOUS
<1>1. Types'
  <2>1. count' \in [Blocks -> Int]
    BY DEF Destroy, Released, IInv, Types
  <2>2. m_referenced' \in BOOLEAN
    BY DEF Destroy
  <2>3. m_used' \in Int /\ m_off' \in Int /\ m_parsed' \in Int
    BY SizesAssumption DEF Destroy
  <2>4. m_z' \in Zones /\ handles' \in [Handles -> HandleType] /\ m_buffer' \in Blocks \cup {NoBlock}
    BY NullTypes DEF Destroy, IInv, Types
  <2> QED BY <2>1, <2>2, <2>3, <2>4 DEF Types
<1>2. CountIsExact'
  <2>1. ASSUME NEW b \in Blocks
        PROVE  count'[b] = One(b, {m_buffer'}) + One(b, m_z'.fins)
                             + Cardinality(HoldersIn(handles', b))
    <3>1. /\ count[b] = One(b, {m_buffer}) + One(b, m_z.fins)
                          + Cardinality(HoldersIn(handles, b))
          /\ Cardinality(HoldersIn(handles, b)) \in Nat
      BY CountMeans
    <3>2. One(b, {m_buffer'}) = 0 /\ One(b, m_z'.fins) = 0
      BY NoBlockAssumption DEF Destroy, NewZone, One
    <3>3. count'[b] = count[b] - One(b, {m_buffer}) - One(b, m_z.fins)
      BY DEF Destroy, Released, IInv, Types, One
    <3>4. One(b, {m_buffer}) \in Int /\ One(b, m_z.fins) \in Int
      BY DEF One
    <3> QED BY <3>1, <3>2, <3>3, <3>4 DEF Destroy
  <2> QED BY <2>1, <1>1, CountStep DEF Types
<1>3. RefsHeld'
  BY DEF Destroy, IInv, RefsHeld, NewZone
<1>4. CleanStart'
  <2>1. NoBlock \notin Blocks
    BY NoBlockAssumption
  <2>2. \A h \in Handles : NoBlock \notin handles[h].zone.fins
    BY <2>1 DEF IInv, Types, HandleType, Zones
  <2> QED BY <2>2, SizesAssumption DEF Destroy, CleanStart
<1> QED BY <1>1, <1>2, <1>3, <1>4 DEF IInv, Destroy, NewZone

(* The three ways to make room, and the failure to make any.               *)
LEMMA RewindStep ==
  ASSUME IInv, Rewindable, m_buffer # NoBlock,
         m_used' = COUNTER_SIZE, m_off' = COUNTER_SIZE,
         UNCHANGED <<count, m_buffer, m_parsed, m_z, m_referenced, handles>>
  PROVE  IInv'
<1>1. Types'
  BY SizesAssumption DEF IInv, Types
<1>2. CountIsExact'
  BY DEF IInv, CountIsExact, Holders
<1>3. RefsHeld'
  BY DEF IInv, RefsHeld
<1>4. CleanStart'
  <2>1. m_buffer \in Blocks /\ count[m_buffer] = 1 /\ ~m_referenced
    BY DEF Rewindable, IInv, Types
  <2>2. \A h \in Handles : m_buffer \notin handles[h].zone.fins
    BY <2>1, CountMeans
  <2> QED BY <2>1, <2>2, SizesAssumption DEF CleanStart
<1> QED BY <1>1, <1>2, <1>3, <1>4 DEF IInv

(* A failed growth changes nothing but a rewind.                           *)
LEMMA FailsStep ==
  ASSUME IInv, NEW n, m_buffer # NoBlock, FailsToExpand(n),
         UNCHANGED <<m_parsed, msg, handles>>
  PROVE  IInv'
<1>1. CASE Rewindable
  BY <1>1, RewindStep DEF FailsToExpand, Rewound, heapVars
<1>2. CASE ~Rewindable
  <2>1. UNCHANGED <<count, m_buffer, m_used, m_off, m_parsed, m_z, m_referenced, handles>>
    BY <1>2 DEF FailsToExpand, Rewound, heapVars
  <2> QED BY <2>1 DEF IInv, Types, CountIsExact, Holders, RefsHeld, CleanStart
<1> QED BY <1>1, <1>2

(* realloc moves a block only when nobody else holds it.                   *)
LEMMA ResizeStep ==
  ASSUME IInv, NEW n, m_buffer # NoBlock, Resize(n),
         UNCHANGED <<m_parsed, msg, handles>>
  PROVE  IInv'
<1>1. PICK b \in Free \cup {m_buffer} :
        /\ m_buffer' = b
        /\ count' = [[count EXCEPT ![m_buffer] = 0] EXCEPT ![b] = count[m_buffer]]
  BY DEF Resize
<1>2. /\ m_buffer \in Blocks /\ b \in Blocks
      /\ b # m_buffer => count[b] = 0
  BY <1>1 DEF Free, IInv, Types
<1>3. m_off' = COUNTER_SIZE /\ m_used' \in Int
  <2>1. Rewound.off = COUNTER_SIZE /\ Rewound.used \in Int
    BY SizesAssumption DEF Resize, Rewound, IInv, Types
  <2> QED BY <2>1 DEF Resize
<1>4. ~m_referenced /\ \A h \in Handles : m_buffer \notin handles[h].zone.fins
  <2>1. CASE Rewindable
    BY <2>1, <1>2, CountMeans DEF Rewindable
  <2>2. CASE ~Rewindable
    BY <2>2 DEF Resize, Rewound, IInv, CleanStart
  <2> QED BY <2>1, <2>2
<1>5. b \notin m_z.fins /\ \A h \in Handles : b \notin handles[h].zone.fins
  BY <1>2, <1>4, CountMeans DEF IInv
<1>6. Types'
  <2>1. count' \in [Blocks -> Int]
    BY <1>1, <1>2 DEF IInv, Types
  <2> QED BY <2>1, <1>1, <1>2, <1>3, SizesAssumption DEF Resize, IInv, Types
<1>7. CountIsExact'
  <2>1. ASSUME NEW c \in Blocks
        PROVE  count'[c] = One(c, {m_buffer'}) + One(c, m_z'.fins)
                             + Cardinality(HoldersIn(handles', c))
    <3>1. /\ count[c] = One(c, {m_buffer}) + One(c, m_z.fins)
                          + Cardinality(HoldersIn(handles, c))
          /\ Cardinality(HoldersIn(handles, c)) \in Nat
      BY CountMeans
    <3>2. c \in {b, m_buffer} =>
            One(c, m_z.fins) = 0 /\ Cardinality(HoldersIn(handles, c)) = 0
      BY <1>4, <1>5, FS_EmptySet DEF IInv, One, HoldersIn
    <3>3. count'[c] = IF c = b THEN count[m_buffer] ELSE IF c = m_buffer THEN 0 ELSE count[c]
      BY <1>1, <1>2 DEF IInv, Types
    <3>4. count[m_buffer] = 1
      <4>1. /\ count[m_buffer] = One(m_buffer, {m_buffer}) + One(m_buffer, m_z.fins)
                          + Cardinality(HoldersIn(handles, m_buffer))
        BY <1>2, CountMeans
      <4>2. HoldersIn(handles, m_buffer) = {}
        BY <1>4 DEF HoldersIn
      <4> QED BY <4>1, <4>2, FS_EmptySet DEF One, IInv
    <3>5. One(c, {m_buffer'}) = IF c = b THEN 1 ELSE 0
      BY <1>1 DEF One
    <3>6. One(c, {m_buffer}) = IF c = m_buffer THEN 1 ELSE 0
      BY DEF One
    <3>7. One(c, m_z.fins) \in Int
      BY DEF One
    <3>8. m_z' = m_z /\ handles' = handles
      BY DEF Resize
    <3> QED BY <3>1, <3>2, <3>3, <3>4, <3>5, <3>6, <3>7, <3>8
  <2> QED BY <2>1, <1>6, CountStep DEF Types
<1>8. RefsHeld'
  BY <1>4 DEF Resize, IInv, RefsHeld
<1>9. CleanStart'
  BY <1>1, <1>3, <1>4, <1>5, SizesAssumption DEF Resize, CleanStart
<1> QED BY <1>1, <1>2, <1>5, <1>6, <1>7, <1>8, <1>9, NoBlockAssumption DEF Resize, IInv

(* The old buffer goes to the zone that refers to it, with its count, or   *)
(* is released.                                                            *)
LEMMA ReplaceStep ==
  ASSUME IInv, NEW n, m_buffer # NoBlock, Replace(n),
         UNCHANGED <<m_parsed, msg, handles>>
  PROVE  IInv'
<1>1. PICK b \in Free : m_buffer' = b /\ LeaveOld(b)
  BY DEF Replace
<1>2. /\ m_buffer \in Blocks /\ b \in Blocks /\ count[b] = 0
      /\ b # m_buffer /\ b \notin m_z.fins
      /\ \A h \in Handles : b \notin handles[h].zone.fins
  BY CountMeans DEF Free, IInv, Types
<1>3. m_off' = COUNTER_SIZE /\ m_used' \in Int /\ m_referenced' = FALSE
  BY <1>1, SizesAssumption DEF Replace, Used, Unparsed, LeaveOld, IInv, Types
<1>4. m_z' \in Zones /\ m_z'.refs = m_z.refs
      /\ m_z'.fins = IF m_referenced THEN m_z.fins \cup {m_buffer} ELSE m_z.fins
  <2>1. m_z \in Zones
    BY DEF IInv, Types
  <2>2. CASE m_referenced
    BY <1>1, <1>2, <2>1, <2>2 DEF LeaveOld, Zones
  <2>3. CASE ~m_referenced
    BY <1>1, <2>1, <2>3 DEF LeaveOld
  <2> QED BY <2>2, <2>3
<1>5. count' \in [Blocks -> Int]
      /\ \A c \in Blocks : count'[c] = IF c = b THEN 1
                           ELSE IF c = m_buffer /\ ~m_referenced THEN count[c] - 1
                           ELSE count[c]
  BY <1>1, <1>2 DEF LeaveOld, Released, IInv, Types
<1>6. Types'
  <2>1. m_referenced' \in BOOLEAN
    BY <1>3
  <2>2. m_off' \in Int /\ m_used' \in Int /\ m_parsed' \in Int
    BY <1>3, SizesAssumption DEF IInv, Types
  <2> QED BY <2>1, <2>2, <1>1, <1>2, <1>4, <1>5 DEF IInv, Types
<1>7. CountIsExact'
  <2>1. ASSUME NEW c \in Blocks
        PROVE  count'[c] = One(c, {m_buffer'}) + One(c, m_z'.fins)
                             + Cardinality(HoldersIn(handles', c))
    <3>1. /\ count[c] = One(c, {m_buffer}) + One(c, m_z.fins)
                          + Cardinality(HoldersIn(handles, c))
          /\ Cardinality(HoldersIn(handles, c)) \in Nat
      BY CountMeans
    <3>2. c = b => One(c, m_z'.fins) = 0 /\ One(c, m_z.fins) = 0
      BY <1>2, <1>4 DEF One
    <3>3. One(c, {m_buffer'}) = IF c = b THEN 1 ELSE 0
      BY <1>1 DEF One
    <3>4. One(c, {m_buffer}) = IF c = m_buffer THEN 1 ELSE 0
      BY DEF One
    <3>5. One(c, m_z'.fins) = IF c = m_buffer /\ m_referenced THEN 1 ELSE One(c, m_z.fins)
      BY <1>4 DEF One
    <3>6. One(c, m_z.fins) \in Int /\ (c = m_buffer => One(c, m_z.fins) = 0)
      BY DEF One, IInv
    <3> QED BY <3>1, <3>2, <3>3, <3>4, <3>5, <3>6, <1>2, <1>5
  <2> QED BY <2>1, <1>5, CountStep
<1>8. RefsHeld'
  BY <1>3, <1>4 DEF IInv, RefsHeld
<1>9. CleanStart'
  BY <1>1, <1>2, <1>3, SizesAssumption DEF CleanStart
<1> QED BY <1>1, <1>2, <1>4, <1>6, <1>7, <1>8, <1>9, NoBlockAssumption DEF IInv

(* reserve_buffer, whichever way it makes room.                            *)
LEMMA ReserveStep ==
  ASSUME IInv, NEW n, Reserve(n)
  PROVE  IInv'
<1>1. m_buffer # NoBlock /\ UNCHANGED <<m_parsed, msg, handles>>
  BY DEF Reserve
<1>2. CASE Rewind(n)
  BY <1>1, <1>2, RewindStep DEF Rewind, Rewound, heapVars
<1>3. CASE Resize(n)
  BY <1>1, <1>3, ResizeStep
<1>4. CASE Replace(n)
  BY <1>1, <1>4, ReplaceStep
<1>5. CASE FailsToExpand(n)
  BY <1>1, <1>5, FailsStep
<1> QED BY <1>2, <1>3, <1>4, <1>5 DEF Reserve

-----------------------------------------------------------------------------
(* A handle gets another object.                                           *)
LEMMA HandleStep ==
  ASSUME IInv, NEW h \in Handles, NEW v \in HandleType, NEW counts \in [Blocks -> Int],
         handles' = [handles EXCEPT ![h] = v],
         count' = Released(counts, handles[h].zone.fins),
         \A b \in Blocks :
           counts[b] = One(b, {m_buffer'}) + One(b, m_z'.fins) + One(b, v.zone.fins)
                         + Cardinality(HoldersIn(handles, b))
  PROVE  count' \in [Blocks -> Int] /\ CountIsExact'
<1>1. count' \in [Blocks -> Int]
  BY DEF Released
<1>2. ASSUME NEW b \in Blocks
      PROVE  count'[b] = One(b, {m_buffer'}) + One(b, m_z'.fins)
                           + Cardinality(HoldersIn(handles', b))
  <2>1. Cardinality(HoldersIn(handles', b)) =
          Cardinality(HoldersIn(handles, b)) - One(b, handles[h].zone.fins)
                                             + One(b, v.zone.fins)
    BY HoldersOne DEF IInv, Types
  <2>2. Cardinality(HoldersIn(handles, b)) \in Nat
    BY HoldersFinite
  <2>3. count'[b] = counts[b] - One(b, handles[h].zone.fins)
    BY DEF Released, One
  <2>4. /\ One(b, {m_buffer'}) \in Int /\ One(b, m_z'.fins) \in Int
        /\ One(b, v.zone.fins) \in Int /\ One(b, handles[h].zone.fins) \in Int
    BY DEF One
  <2> QED BY <2>1, <2>2, <2>3, <2>4
<1> QED BY <1>1, <1>2, CountStep

(* A handle that is dropped releases what its zone held.                   *)
LEMMA DropStep ==
  ASSUME IInv, NEW h \in Handles, Drop(h)
  PROVE  IInv'
<1>1. NullHandle \in HandleType /\ NullHandle.zone.fins = {} /\ NullHandle.zone.refs = {}
  BY NullTypes DEF NullHandle, NewZone
<1>2. UNCHANGED <<m_buffer, m_used, m_off, m_parsed, m_z, m_referenced>>
  BY DEF Drop, bufferVars, parserVars
<1>3. \A b \in Blocks : One(b, NullHandle.zone.fins) = 0
  BY <1>1 DEF One
<1>4. count' \in [Blocks -> Int] /\ CountIsExact'
  <2>1. \A b \in Blocks :
          count[b] = One(b, {m_buffer'}) + One(b, m_z'.fins) + One(b, NullHandle.zone.fins)
                       + Cardinality(HoldersIn(handles, b))
    <3> SUFFICES ASSUME NEW b \in Blocks
                 PROVE  count[b] = One(b, {m_buffer}) + One(b, m_z.fins) + 0
                                     + Cardinality(HoldersIn(handles, b))
      BY <1>2, <1>3
    <3>1. One(b, {m_buffer}) \in Int /\ One(b, m_z.fins) \in Int
      BY DEF One
    <3> QED BY <3>1, CountMeans
  <2> QED BY <2>1, <1>1, HandleStep DEF Drop, IInv, Types
<1>5. handles' \in [Handles -> HandleType]
  BY <1>1 DEF Drop, IInv, Types
<1>6. Types'
  BY <1>2, <1>4, <1>5 DEF IInv, Types
<1>7. \A g \in Handles : handles'[g] = IF g = h THEN NullHandle ELSE handles[g]
  BY DEF Drop, IInv, Types
<1>8. RefsHeld' /\ CleanStart'
  BY <1>1, <1>2, <1>7 DEF IInv, RefsHeld, CleanStart
<1> QED BY <1>2, <1>4, <1>6, <1>8 DEF IInv

(* next(), whether a message is complete or not and whether its zone can   *)
(* be had or not.                                                          *)
LEMMA NextObjectStep ==
  ASSUME IInv, NEW h \in Handles, NEW m \in Messages, NEW place \in m.ends \cup {m_parsed},
         NextObject(h, m, place)
  PROVE  IInv'
<1> DEFINE refd == Referenced(m, place)
<1>1. /\ m_buffer \in Blocks
      /\ UNCHANGED <<m_buffer, m_used>>
      /\ m_off' = m_off + (place - m_parsed)
      /\ place \in Int /\ m_parsed <= place
  BY MessagesAssumption DEF NextObject, Reaches, IInv, Types
<1>2. refd \in BOOLEAN /\ (refd => m_referenced \/ m_parsed < place)
  <2>1. \A e \in m.strings : e \in Nat
    BY MessagesAssumption
  <2> QED BY <1>1, <2>1 DEF Referenced, IInv, Types
<1>3. /\ ZoneWith(m, place) \in Zones
      /\ ZoneWith(m, place).fins = m_z.fins
      /\ ZoneWith(m, place).refs = IF refd THEN m_z.refs \cup {m_buffer} ELSE m_z.refs
  BY <1>1 DEF ZoneWith, IInv, Types, Zones
<1>4. /\ Given(m, place) \in Zones
      /\ Given(m, place).fins = IF refd THEN m_z.fins \cup {m_buffer} ELSE m_z.fins
      /\ Given(m, place).refs = ZoneWith(m, place).refs
  BY <1>1, <1>3 DEF Given, Zones
<1>5. /\ NewZone \in Zones /\ NewZone.fins = {} /\ NewZone.refs = {}
      /\ NullHandle \in HandleType /\ NullHandle.zone = NewZone
  BY NullTypes DEF NewZone, NullHandle
(* What is left to prove in each case.                                     *)
<1>6. ASSUME NEW v \in HandleType, handles' = [handles EXCEPT ![h] = v],
             count' \in [Blocks -> Int], CountIsExact',
             m_z' \in Zones, m_referenced' \in BOOLEAN, m_parsed' \in Int,
             m_z'.fins = {} \/ m_z'.fins = m_z.fins,
             m_z'.refs \subseteq m_z'.fins \cup (IF m_referenced' THEN {m_buffer} ELSE {}),
             v.zone.refs \subseteq v.zone.fins,
             m_referenced' \/ m_buffer \in v.zone.fins => refd
      PROVE  IInv'
  <2>1. Types'
    BY <1>1, <1>6 DEF IInv, Types
  <2>2. \A g \in Handles : handles'[g] = IF g = h THEN v ELSE handles[g]
    BY <1>6 DEF IInv, Types
  <2>3. RefsHeld'
    BY <1>1, <1>6, <2>2 DEF IInv, RefsHeld
  <2>4. CleanStart'
    <3>1. COUNTER_SIZE <= m_off' /\ (m_off' = COUNTER_SIZE =>
                                        m_off = COUNTER_SIZE /\ place = m_parsed)
      BY <1>1, SizesAssumption DEF IInv, Types, CleanStart
    <3>2. m_off' = COUNTER_SIZE => ~refd
      BY <1>1, <1>2, <3>1 DEF IInv, Types, CleanStart
    <3> HIDE DEF refd
    <3>3. m_off' = COUNTER_SIZE => ~m_referenced' /\ m_buffer \notin v.zone.fins
      BY <3>2, <1>6
    <3>4. m_off' = COUNTER_SIZE => \A g \in Handles : m_buffer' \notin handles'[g].zone.fins
      BY <1>1, <2>2, <3>1, <3>3 DEF IInv, CleanStart
    <3> QED BY <3>1, <3>3, <3>4 DEF CleanStart
  <2> QED BY <1>1, <1>6, <2>1, <2>3, <2>4, NoBlockAssumption DEF IInv
<1>8. m_z.refs \subseteq m_z.fins \cup (IF m_referenced THEN {m_buffer} ELSE {})
      /\ m_buffer \notin m_z.fins /\ count \in [Blocks -> Int]
  BY DEF IInv, RefsHeld, Types
<1>9. CASE NotYet(h, m, place)
  <2>1. /\ handles' = [handles EXCEPT ![h] = NullHandle]
        /\ count' = Released(count, handles[h].zone.fins)
        /\ m_z' = ZoneWith(m, place) /\ m_referenced' = refd /\ m_parsed' = place
    BY <1>9 DEF NotYet
  <2> HIDE DEF refd
  <2>2. count' \in [Blocks -> Int] /\ CountIsExact'
    <3>1. \A b \in Blocks :
            count[b] = One(b, {m_buffer'}) + One(b, m_z'.fins) + One(b, NullHandle.zone.fins)
                         + Cardinality(HoldersIn(handles, b))
      <4>1. m_buffer' = m_buffer /\ m_z'.fins = m_z.fins /\ NullHandle.zone.fins = {}
        BY <1>1, <1>3, <1>5, <2>1
      <4> SUFFICES ASSUME NEW b \in Blocks
                   PROVE  count[b] = One(b, {m_buffer}) + One(b, m_z.fins) + 0
                                       + Cardinality(HoldersIn(handles, b))
        <5>1. \A b \in Blocks : One(b, {}) = 0
          BY DEF One
        <5> QED BY <4>1, <5>1
      <4>2. /\ count[b] = One(b, {m_buffer}) + One(b, m_z.fins)
                            + Cardinality(HoldersIn(handles, b))
            /\ Cardinality(HoldersIn(handles, b)) \in Nat
        BY CountMeans
      <4>3. One(b, {m_buffer}) \in Int /\ One(b, m_z.fins) \in Int
        BY DEF One
      <4> QED BY <4>2, <4>3
    <3> QED BY <1>5, <1>8, <2>1, <3>1, HandleStep
  <2>3. m_z'.refs \subseteq m_z'.fins \cup (IF m_referenced' THEN {m_buffer} ELSE {})
    BY <1>2, <1>3, <1>8, <2>1 DEF refd, Referenced
  <2>4. m_referenced' \/ m_buffer \in NullHandle.zone.fins => refd
    BY <1>5, <2>1
  <2> QED BY <1>1, <1>2, <1>3, <1>5, <1>6, <2>1, <2>2, <2>3, <2>4
<1>10. CASE HandOver(h, m, place)
  <2> DEFINE v == [zone |-> Given(m, place), referenced |-> Told(m, place)]
  <2>1. /\ handles' = [handles EXCEPT ![h] = v]
        /\ count' = Released(Shared(m, place), handles[h].zone.fins)
        /\ m_z' = NewZone /\ m_referenced' = FALSE /\ m_parsed' = 0
    BY <1>10 DEF HandOver
  <2>2. v \in HandleType /\ v.zone = Given(m, place)
    BY <1>2, <1>4 DEF HandleType, Told
  <2>3. /\ Shared(m, place) \in [Blocks -> Int]
        /\ \A b \in Blocks : Shared(m, place)[b] =
                               IF refd /\ b = m_buffer THEN count[b] + 1 ELSE count[b]
    BY <1>1, <1>8 DEF Shared
  <2>4. \A b \in Blocks : One(b, Given(m, place).fins) =
                          IF refd /\ b = m_buffer THEN 1 ELSE One(b, m_z.fins)
    BY <1>4 DEF One
  <2> HIDE DEF refd, v
  <2>5. count' \in [Blocks -> Int] /\ CountIsExact'
    <3>1. \A b \in Blocks :
            Shared(m, place)[b] = One(b, {m_buffer'}) + One(b, m_z'.fins)
                                    + One(b, v.zone.fins)
                                    + Cardinality(HoldersIn(handles, b))
      <4> SUFFICES ASSUME NEW b \in Blocks
                   PROVE  Shared(m, place)[b] = One(b, {m_buffer}) + 0
                                    + One(b, Given(m, place).fins)
                                    + Cardinality(HoldersIn(handles, b))
        <5>1. m_buffer' = m_buffer /\ m_z'.fins = {} /\ v.zone.fins = Given(m, place).fins
          BY <1>1, <1>5, <2>1, <2>2
        <5>2. \A b \in Blocks : One(b, {}) = 0
          BY DEF One
        <5> QED BY <5>1, <5>2
      <4>1. /\ count[b] = One(b, {m_buffer}) + One(b, m_z.fins)
                            + Cardinality(HoldersIn(handles, b))
            /\ Cardinality(HoldersIn(handles, b)) \in Nat
        BY CountMeans
      <4>2. One(b, {m_buffer}) \in Int /\ One(b, m_z.fins) \in Int
            /\ (b = m_buffer => One(b, m_z.fins) = 0)
        BY <1>8 DEF One
      <4>3. CASE refd /\ b = m_buffer
        <5>1. Shared(m, place)[b] = count[b] + 1 /\ One(b, Given(m, place).fins) = 1
          BY <2>3, <2>4, <4>3
        <5> QED BY <4>1, <4>2, <4>3, <5>1
      <4>4. CASE ~(refd /\ b = m_buffer)
        <5>1. Shared(m, place)[b] = count[b] /\ One(b, Given(m, place).fins) = One(b, m_z.fins)
          BY <2>3, <2>4, <4>4
        <5> QED BY <4>1, <4>2, <5>1
      <4> QED BY <4>3, <4>4
    <3> QED BY <2>1, <2>2, <2>3, <3>1, HandleStep
  <2>6. v.zone.refs \subseteq v.zone.fins
    BY <1>3, <1>4, <1>8, <2>2 DEF refd, Referenced
  <2>7. m_referenced' \/ m_buffer \in v.zone.fins => refd
    <3>1. m_buffer \in v.zone.fins => refd
      BY <1>2, <1>4, <1>8, <2>2
    <3> QED BY <2>1, <3>1
  <2>8. /\ m_z' \in Zones /\ m_z'.fins = {} /\ m_z'.refs = {}
        /\ m_referenced' \in BOOLEAN /\ m_parsed' \in Int
    <3>1. m_referenced' \in BOOLEAN
      BY <2>1
    <3>2. m_z' \in Zones /\ m_z'.fins = {} /\ m_z'.refs = {}
      BY <1>5, <2>1
    <3>3. m_parsed' \in Int
      BY <2>1
    <3> QED BY <3>1, <3>2, <3>3
  <2> QED BY <1>6, <2>1, <2>2, <2>5, <2>6, <2>7, <2>8
<1>11. CASE HandOverBare(h, m, place)
  <2> DEFINE v == [zone |-> NewZone, referenced |-> Told(m, place)]
  <2>1. /\ handles' = [handles EXCEPT ![h] = v]
        /\ count' = Released(count, handles[h].zone.fins)
        /\ m_z' = ZoneWith(m, place) /\ m_referenced' = TRUE /\ m_parsed' = 0 /\ refd
    BY <1>11 DEF HandOverBare
  <2>2. v \in HandleType /\ v.zone = NewZone
    BY <1>2, <1>5 DEF HandleType, Told
  <2> HIDE DEF refd, v
  <2>3. count' \in [Blocks -> Int] /\ CountIsExact'
    <3>1. \A b \in Blocks :
            count[b] = One(b, {m_buffer'}) + One(b, m_z'.fins) + One(b, v.zone.fins)
                         + Cardinality(HoldersIn(handles, b))
      <4>1. m_buffer' = m_buffer /\ m_z'.fins = m_z.fins /\ v.zone.fins = {}
        BY <1>1, <1>3, <1>5, <2>1, <2>2
      <4> SUFFICES ASSUME NEW b \in Blocks
                   PROVE  count[b] = One(b, {m_buffer}) + One(b, m_z.fins) + 0
                                       + Cardinality(HoldersIn(handles, b))
        <5>1. \A b \in Blocks : One(b, {}) = 0
          BY DEF One
        <5> QED BY <4>1, <5>1
      <4>2. /\ count[b] = One(b, {m_buffer}) + One(b, m_z.fins)
                            + Cardinality(HoldersIn(handles, b))
            /\ Cardinality(HoldersIn(handles, b)) \in Nat
        BY CountMeans
      <4>3. One(b, {m_buffer}) \in Int /\ One(b, m_z.fins) \in Int
        BY DEF One
      <4> QED BY <4>2, <4>3
    <3> QED BY <1>8, <2>1, <2>2, <3>1, HandleStep
  <2>4. m_z'.refs \subseteq m_z'.fins \cup (IF m_referenced' THEN {m_buffer} ELSE {})
    BY <1>3, <1>8, <2>1
  <2>5. v.zone.refs \subseteq v.zone.fins
    BY <1>5, <2>2
  <2>6. m_referenced' \in BOOLEAN /\ m_parsed' \in Int /\ m_z' \in Zones
        /\ m_z'.fins = m_z.fins
    BY <1>3, <2>1
  <2> QED BY <1>6, <2>1, <2>2, <2>3, <2>4, <2>5, <2>6
<1> QED BY <1>9, <1>10, <1>11 DEF NextObject

(* The calls that move offsets only.                                       *)
LEMMA OtherSteps ==
  ASSUME IInv, (\E n \in Sizes : Consume(n) \/ Skip(n)) \/ RemoveNonparsed \/ UNCHANGED vars
  PROVE  IInv'
<1>1. CASE \E n \in Sizes : Consume(n)
  BY <1>1, SizesAssumption
     DEF Consume, heapVars, parserVars, IInv, Types, CountIsExact, Holders, RefsHeld, CleanStart
<1>2. ASSUME NEW n \in Sizes, Skip(n) PROVE IInv'
  <2>1. /\ UNCHANGED <<count, m_buffer, m_used, m_parsed, m_z, m_referenced, handles>>
        /\ m_off' = m_off + n /\ n \in Nat
    BY <1>2, SizesAssumption DEF Skip, heapVars, parserVars
  <2>2. CleanStart'
    <3>1. COUNTER_SIZE <= m_off' /\ (m_off' = COUNTER_SIZE => m_off = COUNTER_SIZE)
      BY <2>1, SizesAssumption DEF IInv, Types, CleanStart
    <3> QED BY <2>1, <3>1 DEF IInv, CleanStart
  <2> QED BY <2>1, <2>2 DEF IInv, Types, CountIsExact, Holders, RefsHeld
<1>3. CASE RemoveNonparsed
  BY <1>3 DEF RemoveNonparsed, heapVars, parserVars, IInv, Types, CountIsExact, Holders,
              RefsHeld, CleanStart
<1>4. CASE UNCHANGED vars
  BY <1>4 DEF vars, heapVars, bufferVars, parserVars, IInv, Types, CountIsExact, Holders,
              RefsHeld, CleanStart
<1> QED
  BY <1>1, <1>2, <1>3, <1>4

(* The invariant is inductive.                                             *)
THEOREM NextIInv == IInv /\ [Next]_vars => IInv'
<1> SUFFICES ASSUME IInv, [Next]_vars PROVE IInv'
  OBVIOUS
<1>1. CASE Construct
  BY <1>1, ConstructStep
<1>2. CASE Destroy
  BY <1>2, DestroyStep
<1>3. CASE \E n \in Sizes : Reserve(n)
  BY <1>3, ReserveStep
<1>4. CASE \E h \in Handles : Drop(h)
  BY <1>4, DropStep
<1>5. CASE \E h \in Handles : \E m \in Messages :
             \E place \in m.ends \cup {m_parsed} : NextObject(h, m, place)
  BY <1>5, NextObjectStep
<1>6. CASE (\E n \in Sizes : Consume(n) \/ Skip(n)) \/ RemoveNonparsed \/ UNCHANGED vars
  BY <1>6, OtherSteps
<1> QED BY <1>1, <1>2, <1>3, <1>4, <1>5, <1>6 DEF Next

(* Each block's count is the number of those that will release it, so none *)
(* is freed twice or too early, and none is left allocated.                *)
THEOREM CountsAreExact == Spec => []CountIsExact
<1>1. IInv => CountIsExact
  BY DEF IInv
<1> QED BY <1>1, InitIInv, NextIInv, PTL DEF Spec

(* A block in which an object has a string is held by a count, or it is    *)
(* the unpacker's and some of it has been parsed.                          *)
LEMMA InUseIsHeld ==
  ASSUME IInv, NEW b \in Blocks, b \in InUse
  PROVE  count[b] > 0 /\ (b = m_buffer => m_off # COUNTER_SIZE)
<1>1. b \in m_z.fins \/ (m_referenced /\ b = m_buffer)
        \/ \E h \in Handles : b \in handles[h].zone.fins
  BY DEF InUse, IInv, RefsHeld
<1>2. count[b] # 0 /\ count[b] \in Nat
  BY <1>1, CountMeans
<1>3. b = m_buffer => m_off # COUNTER_SIZE
  BY <1>1 DEF IInv, CleanStart
<1> QED BY <1>2, <1>3

(* A buffer that the unpacker keeps goes back to its start only as a whole.*)
LEMMA BackToStart ==
  ASSUME IInv, [Next]_vars, m_off' < m_off
  PROVE  m_off' = COUNTER_SIZE
<1> USE DEF IInv, Types
<1>1. CASE Construct
  BY <1>1 DEF Construct, Fresh
<1>2. CASE Destroy
  BY <1>2 DEF Destroy
<1>3. ASSUME NEW n \in Sizes, Reserve(n) PROVE m_off' = COUNTER_SIZE
  <2>1. m_off' \in {Rewound.off, COUNTER_SIZE}
    BY <1>3 DEF Reserve, Rewind, Resize, Replace, FailsToExpand
  <2>2. Rewound.off \in {m_off, COUNTER_SIZE}
    BY DEF Rewound
  <2> QED BY <2>1, <2>2
<1>4. ASSUME NEW h \in Handles, Drop(h) PROVE FALSE
  BY <1>4 DEF Drop, bufferVars
<1>5. ASSUME NEW h \in Handles, NEW m \in Messages, NEW place \in m.ends \cup {m_parsed},
             NextObject(h, m, place)
      PROVE  FALSE
  <2>1. place \in Int /\ m_parsed <= place /\ m_off' = m_off + (place - m_parsed)
    BY <1>5, MessagesAssumption DEF NextObject, Reaches
  <2> QED BY <2>1
<1>6. ASSUME NEW n \in Sizes, Consume(n) \/ Skip(n) PROVE FALSE
  BY <1>6, SizesAssumption DEF Consume, Skip
<1>7. CASE RemoveNonparsed \/ UNCHANGED vars
  BY <1>7 DEF RemoveNonparsed, vars, bufferVars
<1> QED BY <1>1, <1>2, <1>3, <1>4, <1>5, <1>6, <1>7 DEF Next

(* No object loses a string: what a block holds is neither freed, nor      *)
(* moved, nor written over, while an object has a string in it.            *)
THEOREM NoStringIsLost == Spec => StringsStay
<1>1. IInv => \A b \in Blocks : b \in InUse =>
                count[b] > 0 /\ (b = m_buffer => m_off # COUNTER_SIZE)
  BY InUseIsHeld
<1>2. (IInv => \A b \in Blocks : b \in InUse =>
                 count[b] > 0 /\ (b = m_buffer => m_off # COUNTER_SIZE))'
  BY <1>1, PTL
<1>3. IInv /\ [Next]_vars => [\A b \in Blocks : Lost(b) => b \notin InUse']_vars
  <2> SUFFICES ASSUME IInv, [Next]_vars, NEW b \in Blocks, Lost(b), b \in InUse'
               PROVE  FALSE
    OBVIOUS
  <2>1. count'[b] > 0 /\ (b = m_buffer' => m_off' # COUNTER_SIZE)
    BY <1>2, NextIInv
  <2>2. ~(count[b] > 0 /\ count'[b] = 0)
    BY <2>1
  <2>3. ~(b = m_buffer /\ m_buffer' = b /\ m_off' < m_off)
    BY <2>1, BackToStart
  <2> QED BY <2>2, <2>3 DEF Lost
<1> QED BY <1>3, InitIInv, NextIInv, PTL DEF Spec, StringsStay

-----------------------------------------------------------------------------
(* Only reserve_buffer changes the buffer of an unpacker that lives on.    *)
LEMMA BufferChanges ==
  ASSUME IInv, [Next]_vars, m_buffer # NoBlock, m_buffer' # NoBlock,
         m_off' < m_off \/ m_buffer' # m_buffer \/ size' # size
  PROVE  \E n \in Sizes : Reserve(n)
<1> USE DEF IInv, Types
<1>1. ASSUME Construct \/ Destroy PROVE FALSE
  BY <1>1 DEF Construct, Destroy
<1>2. ASSUME NEW h \in Handles, Drop(h) PROVE FALSE
  BY <1>2 DEF Drop, bufferVars
<1>3. ASSUME NEW h \in Handles, NEW m \in Messages, NEW place \in m.ends \cup {m_parsed},
             NextObject(h, m, place)
      PROVE  FALSE
  <2>1. place \in Int /\ m_parsed <= place /\ m_off' = m_off + (place - m_parsed)
        /\ size' = size /\ m_buffer' = m_buffer
    BY <1>3, MessagesAssumption DEF NextObject, Reaches
  <2> QED BY <2>1
<1>4. ASSUME NEW n \in Sizes, Consume(n) \/ Skip(n) PROVE FALSE
  BY <1>4, SizesAssumption DEF Consume, Skip, heapVars
<1>5. ASSUME RemoveNonparsed \/ UNCHANGED vars PROVE FALSE
  BY <1>5 DEF RemoveNonparsed, vars, bufferVars, heapVars
<1> QED BY <1>1, <1>2, <1>3, <1>4, <1>5 DEF Next

(* However the buffer changes, the bytes that were not parsed come along.  *)
THEOREM UnparsedBytesStay == Spec => UnparsedKept
<1>1. IInv /\ [Next]_vars =>
        [NoBlock \notin {m_buffer, m_buffer'} =>
           (m_off' < m_off \/ m_buffer' # m_buffer \/ size' # size
              => m_used' - m_off' = Unparsed)]_vars
  <2> SUFFICES ASSUME IInv, [Next]_vars, m_buffer # NoBlock, m_buffer' # NoBlock,
                      m_off' < m_off \/ m_buffer' # m_buffer \/ size' # size
               PROVE  m_used' - m_off' = Unparsed
    OBVIOUS
  <2>1. PICK n \in Sizes : Reserve(n)
    BY BufferChanges
  <2>2. Rewound.used - Rewound.off = Unparsed
    BY SizesAssumption DEF Rewound, Rewindable, Unparsed, IInv, Types
  <2>3. CASE Rewind(n) \/ Resize(n) \/ FailsToExpand(n)
    BY <2>2, <2>3 DEF Rewind, Resize, FailsToExpand
  <2>4. CASE Replace(n)
    BY <2>4, SizesAssumption DEF Replace, Used, Unparsed, IInv, Types
  <2> QED BY <2>1, <2>3, <2>4 DEF Reserve
<1> QED BY <1>1, InitIInv, NextIInv, PTL DEF Spec, UnparsedKept

(* A buffer that the unpacker takes up is one that no handle releases.     *)
LEMMA NewBufferIsFree ==
  ASSUME IInv, [Next]_vars, m_buffer' # m_buffer, NEW h \in Handles
  PROVE  m_buffer' \notin handles[h].zone.fins
<1> USE DEF IInv, Types
<1>1. CASE m_buffer' = NoBlock
  BY <1>1, NoBlockAssumption DEF HandleType, Zones
<1>2. CASE m_buffer' # NoBlock /\ m_buffer = NoBlock
  <2>1. Construct
    <3>1. ASSUME NEW n \in Sizes, Reserve(n) \/ Consume(n) \/ Skip(n) PROVE FALSE
      BY <1>2, <3>1 DEF Reserve, Consume, Skip
    <3>2. ASSUME NEW g \in Handles, NEW m \in Messages, NEW place, NextObject(g, m, place)
          PROVE  FALSE
      BY <1>2, <3>2 DEF NextObject
    <3> QED BY <1>2, <3>1, <3>2
            DEF Next, Destroy, Drop, RemoveNonparsed, vars, bufferVars
  <2> QED BY <2>1, CountMeans DEF Construct, Fresh, Free
<1>3. CASE m_buffer' # NoBlock /\ m_buffer # NoBlock
  <2>1. PICK n \in Sizes : Reserve(n)
    BY <1>3, BufferChanges
  <2>2. m_buffer' \in Free
    BY <2>1 DEF Reserve, Rewind, Resize, Replace, FailsToExpand, heapVars
  <2> QED BY <2>2, CountMeans DEF Free
<1> QED BY <1>1, <1>2, <1>3

(* What next() says of an object holds of the buffer that the unpacker     *)
(* goes on with, as long as the object is there.                           *)
THEOREM FlagTellsOfThisBuffer == Spec => []FlagIsOfThisBuffer
<1>1. Init => FlagIsOfThisBuffer
  BY DEF Init, FlagIsOfThisBuffer, NullHandle, NewZone
<1>2. IInv /\ FlagIsOfThisBuffer /\ [Next]_vars => FlagIsOfThisBuffer'
  <2> SUFFICES ASSUME IInv, FlagIsOfThisBuffer, [Next]_vars,
                      NEW h \in Handles, ~handles'[h].referenced
               PROVE  m_buffer' \notin handles'[h].zone.refs
    BY DEF FlagIsOfThisBuffer
  <2>1. CASE handles'[h] = handles[h]
    <3>1. handles[h].zone.refs \subseteq handles[h].zone.fins
      BY DEF IInv, RefsHeld
    <3>2. CASE m_buffer' = m_buffer
      BY <2>1, <3>2 DEF FlagIsOfThisBuffer
    <3>3. CASE m_buffer' # m_buffer
      BY <2>1, <3>1, <3>3, NewBufferIsFree
    <3> QED BY <3>2, <3>3
  <2>2. CASE handles'[h].zone.refs = {}
    BY <2>2
  <2>3. ASSUME NEW g \in Handles, Drop(g)
        PROVE  handles'[h] = handles[h] \/ handles'[h].zone.refs = {}
    BY <2>3 DEF Drop, IInv, Types, NullHandle, NewZone
  <2>4. ASSUME NEW g \in Handles, NEW m \in Messages, NEW place \in m.ends \cup {m_parsed},
               NextObject(g, m, place)
        PROVE  m_buffer' \notin handles'[h].zone.refs
    <3>1. m_buffer' = m_buffer
      BY <2>4 DEF NextObject
    <3>2. CASE NotYet(g, m, place)
      BY <2>1, <2>2, <3>2 DEF NotYet, IInv, Types, NullHandle, NewZone
    <3>3. CASE HandOver(g, m, place)
      <4>1. handles' = [handles EXCEPT
              ![g] = [zone |-> Given(m, place), referenced |-> Referenced(m, place)]]
        BY <3>3 DEF HandOver, Told
      <4>2. CASE g = h
        <5>1. ~Referenced(m, place) /\ handles'[h].zone = Given(m, place)
          BY <4>1, <4>2 DEF IInv, Types
        <5>2. ~m_referenced
          BY <5>1 DEF Referenced
        <5>3. Given(m, place).refs = m_z.refs
          BY <5>1 DEF Given, ZoneWith, IInv, Types, Zones
        <5> QED BY <3>1, <5>1, <5>2, <5>3 DEF IInv, RefsHeld
      <4>3. CASE g # h
        BY <2>1, <4>1, <4>3 DEF IInv, Types
      <4> QED BY <4>2, <4>3
    <3>4. CASE HandOverBare(g, m, place)
      BY <2>1, <2>2, <3>4 DEF HandOverBare, IInv, Types, NewZone
    <3> QED BY <2>4, <3>2, <3>3, <3>4 DEF NextObject
  <2>5. CASE Construct \/ Destroy \/ RemoveNonparsed \/ UNCHANGED vars
    BY <2>1, <2>5 DEF Construct, Destroy, RemoveNonparsed, vars
  <2>6. ASSUME NEW n \in Sizes, Reserve(n) \/ Consume(n) \/ Skip(n)
        PROVE  handles' = handles
    BY <2>6 DEF Reserve, Consume, Skip
  <2> QED BY <2>1, <2>2, <2>3, <2>4, <2>5, <2>6 DEF Next
<1> QED BY <1>1, <1>2, InitIInv, NextIInv, PTL DEF Spec
-----------------------------------------------------------------------------
(* The numbers.  A set of numbers that is not empty has a least one.       *)
LEMMA LeastNumber ==
  ASSUME NEW S \in SUBSET Nat, S # {}
  PROVE  \E k \in S : \A j \in S : k <= j
<1>1. PICK k \in S : \A j \in S : ~(<<j, k>> \in OpToRel(<, Nat))
  BY NatLessThanWellFounded, WFMin
<1>2. \A j \in S : ~(j < k)
  BY <1>1 DEF OpToRel
<1> QED BY <1>2

(* What a set has at the top of a range, and has of each number below one  *)
(* that it has, it has at the bottom.                                      *)
LEMMA Downward ==
  ASSUME NEW S, NEW lo \in Nat, NEW hi \in Nat, lo <= hi, hi \in S,
         \A k \in lo + 1 .. hi : k \in S => k - 1 \in S
  PROVE  lo \in S
<1> DEFINE T == S \cap (lo .. hi)
<1>1. T \in SUBSET Nat /\ hi \in T
  OBVIOUS
<1>2. PICK k \in T : \A j \in T : k <= j
  <2> HIDE DEF T
  <2> QED BY <1>1, LeastNumber
<1>3. k = lo
  <2> SUFFICES ASSUME k # lo PROVE FALSE
    OBVIOUS
  <2>1. k - 1 \in T
    BY <1>1
  <2>2. ~(k <= k - 1)
    BY <1>1
  <2> QED BY <1>2, <2>1, <2>2
<1> QED BY <1>3

(* The equation of Grown's doubling, on the numbers from k on.             *)
Doubles(f, k, top, needed) ==
  f = [s \in k .. top |-> IF s >= needed THEN s ELSE f[2 * s]]

(* The doubling is defined.                                                *)
LEMMA DoublingExists ==
  ASSUME NEW start \in Nat \ {0}, NEW needed \in Nat
  PROVE  \E f : Doubles(f, start, start + 2 * needed, needed)
<1> DEFINE top == start + 2 * needed
           S == {k \in start .. top : \E f : Doubles(f, k, top, needed)}
<1>1. top \in S
  <2>1. Doubles([s \in top .. top |-> s], top, top, needed)
    BY DEF Doubles
  <2> QED BY <2>1
<1>2. ASSUME NEW k \in start + 1 .. top, k \in S PROVE k - 1 \in S
  <2>1. PICK f : Doubles(f, k, top, needed)
    BY <1>2
  <2> DEFINE new == IF k - 1 >= needed THEN k - 1 ELSE f[2 * (k - 1)]
             g == [s \in k - 1 .. top |-> IF s = k - 1 THEN new ELSE f[s]]
  <2>2. ASSUME NEW s \in k - 1 .. top
        PROVE  g[s] = IF s >= needed THEN s ELSE g[2 * s]
    <3>1. ~(s >= needed) => 2 * s \in k .. top /\ 2 * s # k - 1
      OBVIOUS
    <3>2. ~(s >= needed) => g[2 * s] = f[2 * s]
      BY <3>1
    <3>3. s # k - 1 => s \in k .. top
      OBVIOUS
    <3>4. s # k - 1 => f[s] = IF s >= needed THEN s ELSE f[2 * s]
      BY <3>3, <2>1 DEF Doubles
    <3> QED BY <3>2, <3>4
  <2>3. Doubles(g, k - 1, top, needed)
    <3> HIDE DEF new
    <3>1. g = [s \in k - 1 .. top |-> g[s]]
      OBVIOUS
    <3> HIDE DEF g
    <3> QED BY <2>2, <3>1 DEF Doubles
  <2> QED BY <1>2, <2>3
<1> HIDE DEF S
<1>3. start \in S
  BY <1>1, <1>2, Downward
<1> QED BY <1>3 DEF S

(* Doubling gives as much as is needed.                                    *)
LEMMA GrownIsEnough ==
  ASSUME NEW start \in Nat \ {0}, NEW needed \in Nat
  PROVE  Grown(start, needed) \in Nat /\ Grown(start, needed) >= needed
<1> DEFINE top == start + 2 * needed
           f == CHOOSE f : Doubles(f, start, top, needed)
           S == {k \in start .. top : \A s \in k .. top : f[s] \in Nat /\ f[s] >= needed}
<1>1. Grown(start, needed) = f[start]
  BY DEF Grown, Doubles
<1>2. Doubles(f, start, top, needed)
  BY DoublingExists
<1> HIDE DEF f
<1>3. \A s \in start .. top : f[s] = IF s >= needed THEN s ELSE f[2 * s]
  BY <1>2 DEF Doubles
<1>4. top \in S
  BY <1>3
<1>5. ASSUME NEW k \in start + 1 .. top, k \in S PROVE k - 1 \in S
  <2>1. ~(k - 1 >= needed) => 2 * (k - 1) \in k .. top
    OBVIOUS
  <2>2. f[k - 1] \in Nat /\ f[k - 1] >= needed
    BY <1>3, <1>5, <2>1
  <2> QED BY <1>5, <2>2
<1> HIDE DEF S
<1>6. start \in S
  BY <1>4, <1>5, Downward
<1> QED BY <1>1, <1>6 DEF S

(* What was parsed comes before what was not, and that before what may be  *)
(* written; all of it lies in the block.                                   *)
Fits ==
  /\ m_used \in Nat /\ m_free \in Nat /\ m_off \in Nat
  /\ m_parsed \in Nat /\ size \in Nat /\ room \in Nat
  /\ COUNTER_SIZE <= m_off /\ m_off <= m_used
  /\ room <= m_free
  /\ m_used + m_free <= size
  /\ msg \in Messages

(* The numbers of a new unpacker fit.                                      *)
LEMMA InitFits == Init => Fits
BY SizesAssumption DEF Init, Fits

(* The attempt to rewind keeps the numbers in order.                       *)
LEMMA RewoundFits ==
  ASSUME Fits
  PROVE  /\ Rewound.used \in Nat /\ Rewound.off \in Nat /\ Rewound.free \in Nat
         /\ COUNTER_SIZE <= Rewound.off /\ Rewound.off <= Rewound.used
         /\ Rewound.used + Rewound.free <= size
BY SizesAssumption DEF Rewound, Fits

(* What is reserved fits into the buffer that reserve_buffer makes for it. *)
LEMMA ReserveFits ==
  ASSUME Fits, NEW n \in Sizes, Reserve(n)
  PROVE  Fits'
<1>1. n \in Nat /\ m_free < n /\ msg' = msg /\ m_parsed' = m_parsed
  BY SizesAssumption DEF Reserve
<1> DEFINE R == Rewound
<1>2. /\ R.used \in Nat /\ R.off \in Nat /\ R.free \in Nat
      /\ COUNTER_SIZE <= R.off /\ R.off <= R.used
      /\ R.used + R.free <= size
  BY RewoundFits
<1>3. CASE FailsToExpand(n)
  BY <1>1, <1>2, <1>3 DEF FailsToExpand, heapVars, Fits
<1>4. ASSUME (Rewind(n) \/ Resize(n) \/ Replace(n)) /\ room' = IF n > m_free' THEN n ELSE m_free'
      PROVE  Fits'
  <2>1. CASE Rewind(n)
    BY <1>1, <1>2, <1>4, <2>1 DEF Rewind, heapVars, Fits
  <2>2. CASE Resize(n)
    <3>1. NewSize(n) \in Nat /\ NewSize(n) >= n + R.used
      <4>1. 2 * (R.used + R.free) \in Nat \ {0} /\ n + R.used \in Nat
        BY <1>1, <1>2, SizesAssumption
      <4> QED BY <2>2, <4>1, GrownIsEnough DEF NewSize, Resize
    <3>2. m_used' = R.used /\ m_off' = R.off /\ m_free' = NewSize(n) - R.used
          /\ size' = NewSize(n)
      BY <2>2 DEF Resize
    <3> HIDE DEF R
    <3> QED BY <1>1, <1>2, <1>4, <3>1, <3>2 DEF Fits
  <2>3. CASE Replace(n)
    <3>1. Used \in Nat /\ COUNTER_SIZE \in Nat \ {0} /\ COUNTER_SIZE <= Used
      BY SizesAssumption DEF Used, Unparsed, Fits
    <3>2. NewSize(n) \in Nat /\ NewSize(n) >= n + Used
      <4>1. InitialSize \in Nat \ {0} /\ n + Unparsed + COUNTER_SIZE \in Nat
            /\ n + Unparsed + COUNTER_SIZE = n + Used
        BY <1>1, SizesAssumption DEF Fits, Used, Unparsed
      <4> QED BY <2>3, <4>1, GrownIsEnough DEF NewSize, Replace
    <3>3. m_used' = Used /\ m_off' = COUNTER_SIZE /\ m_free' = NewSize(n) - Used
          /\ size' = NewSize(n)
      BY <2>3 DEF Replace
    <3> QED BY <1>1, <1>4, <3>1, <3>2, <3>3 DEF Fits
  <2> QED BY <1>4, <2>1, <2>2, <2>3
<1> QED BY <1>3, <1>4 DEF Reserve

(* No step takes the numbers out of order.                                 *)
LEMMA NextFits == Fits /\ [Next]_vars => Fits'
<1> SUFFICES ASSUME Fits, [Next]_vars PROVE Fits'
  OBVIOUS
<1>1. CASE Construct
  BY <1>1, SizesAssumption DEF Construct, Fresh, Fits
<1>2. CASE Destroy
  BY <1>2, SizesAssumption DEF Destroy, Fits
<1>3. CASE \E n \in Sizes : Reserve(n)
  BY <1>3, ReserveFits
<1>4. ASSUME NEW n \in Sizes, Consume(n) PROVE Fits'
  BY <1>4, SizesAssumption DEF Consume, heapVars, parserVars, Fits
<1>5. ASSUME NEW n \in Sizes, Skip(n) PROVE Fits'
  BY <1>5, SizesAssumption DEF Skip, heapVars, parserVars, Unparsed, Fits
<1>6. ASSUME NEW h \in Handles, Drop(h) PROVE Fits'
  BY <1>6 DEF Drop, bufferVars, parserVars, Fits
<1>7. ASSUME NEW h \in Handles, NEW m \in Messages, NEW place \in m.ends \cup {m_parsed},
             NextObject(h, m, place)
      PROVE  Fits'
  <2>1. place \in Nat /\ m_parsed <= place /\ place <= m_parsed + Unparsed
    BY <1>7, MessagesAssumption DEF NextObject, Reaches, Fits
  <2>2. m_parsed' \in {place, 0}
    BY <1>7 DEF NextObject, NotYet, HandOver, HandOverBare
  <2>3. m_off' = m_off + (place - m_parsed) /\ msg' = m
        /\ UNCHANGED <<size, m_used, m_free, room>>
    BY <1>7 DEF NextObject
  <2>4. m_parsed' \in Nat
    BY <2>1, <2>2
  <2>5. m_off' \in Nat /\ COUNTER_SIZE <= m_off' /\ m_off' <= m_used
    BY <2>1, <2>3, SizesAssumption DEF Fits, Unparsed
  <2> QED BY <2>3, <2>4, <2>5 DEF Fits
<1>8. CASE RemoveNonparsed
  BY <1>8 DEF RemoveNonparsed, heapVars, parserVars, Fits
<1>9. CASE UNCHANGED vars
  BY <1>9 DEF vars, heapVars, bufferVars, parserVars, Fits
<1> QED BY <1>1, <1>2, <1>3, <1>4, <1>5, <1>6, <1>7, <1>8, <1>9 DEF Next

(* No byte that the caller may write lies outside the block, whatever was  *)
(* reserved, parsed, skipped or removed, and whatever failed, before.      *)
THEOREM WritesFitHolds == Spec => []WritesFit
<1>1. Fits => WritesFit
  BY DEF Fits, WritesFit
<1> QED BY <1>1, InitFits, NextFits, PTL DEF Spec

(* Every variable has its type; no number falls below 0.                   *)
THEOREM UnpackerTypeCorrect == Spec => []TypeOK
<1>1. IInv /\ Fits => TypeOK
  <2> SUFFICES ASSUME IInv, Fits PROVE TypeOK
    OBVIOUS
  <2>1. count \in [Blocks -> Nat]
    <3>1. \A b \in Blocks : count[b] \in Nat
      BY CountMeans
    <3> QED BY <3>1 DEF IInv, Types
  <2> QED BY <2>1 DEF TypeOK, IInv, Types, HandleType, Fits
<1> QED BY <1>1, InitIInv, NextIInv, InitFits, NextFits, PTL DEF Spec

=============================================================================
