------------------------------- MODULE Unpacker -------------------------------
(***************************************************************************)
(* The memory of msgpack::v1::unpacker (msgpack-c, vendored in raftcore):  *)
(* its buffer, which it grows, rewinds or replaces, and the zones of the   *)
(* objects it hands over.  A string of an object is not copied; it lies in *)
(* the buffer, which a reference count in its first bytes keeps allocated. *)
(* The bytes are left out: a message is the set of places, counted from    *)
(* its start, where a turn of the parser may end (Msgpack has the parser). *)
(***************************************************************************)
EXTENDS Integers, FiniteSets

CONSTANTS
  Blocks,         \* what malloc can return; when none is left it fails
  NoBlock,        \* a null m_buffer: the unpacker has been destroyed
  Handles,        \* the caller's object_handles
  Messages,       \* records [ends, strings]: the ends of the turns, and
                  \* those of them that end a string
  COUNTER_SIZE,   \* room for the reference count
  InitialSize,    \* m_initial_buffer_size
  Sizes,          \* amounts that the caller reserves and writes
  MaxUnparsed     \* of bytes (a bound)

ASSUME NoBlockAssumption == NoBlock \notin Blocks

ASSUME SizesAssumption ==
  /\ COUNTER_SIZE \in Nat \ {0}
  /\ InitialSize \in Nat /\ InitialSize >= COUNTER_SIZE
  /\ Sizes \subseteq Nat
  /\ MaxUnparsed \in Nat

ASSUME MessagesAssumption ==
  \A m \in Messages : m.ends \subseteq Nat \ {0} /\ m.strings \subseteq m.ends

ASSUME HandlesAssumption == IsFiniteSet(Handles)

VARIABLES
  count,          \* of each block; 0 when it is not allocated
  m_buffer, m_used, m_free, m_off, m_parsed,
  m_referenced,   \* whether the object that is parsed has a string in m_buffer
  m_z,            \* the zone of the object that is parsed
  handles,        \* what next() gave last: a zone, and the flag `referenced'
  msg,            \* ghost: the message that is parsed
  size,           \* ghost: the size that m_buffer was allocated with
  room            \* ghost: the bytes that the caller takes for its own to write

heapVars   == <<count, size>>
bufferVars == <<m_buffer, m_used, m_free, m_off>>
parserVars == <<m_parsed, m_referenced, m_z, msg>>
vars == <<heapVars, bufferVars, parserVars, handles, room>>

(* A zone: the buffers that its finalizers release, and (a ghost) the      *)
(* buffers where its object has strings.                                   *)
NewZone == [fins |-> {}, refs |-> {}]

NullHandle == [zone |-> NewZone, referenced |-> FALSE]

Free == {b \in Blocks : count[b] = 0}

(* decr_count on a set of buffers; a count of 0 frees one.                 *)
Released(counts, S) == [b \in DOMAIN counts |-> IF b \in S THEN counts[b] - 1 ELSE counts[b]]

Fresh(b) ==
  /\ m_buffer' = b
  /\ m_used' = COUNTER_SIZE
  /\ m_off' = COUNTER_SIZE
  /\ m_parsed' = 0
  /\ m_referenced' = FALSE
  /\ m_z' = NewZone
  /\ m_free' = InitialSize - COUNTER_SIZE
  /\ size' = InitialSize
  /\ room' = InitialSize - COUNTER_SIZE

Init ==
  /\ m_buffer \in Blocks
  /\ count = [b \in Blocks |-> IF b = m_buffer THEN 1 ELSE 0]
  /\ m_used = COUNTER_SIZE
  /\ m_off = COUNTER_SIZE
  /\ m_parsed = 0
  /\ m_referenced = FALSE
  /\ m_z = NewZone
  /\ m_free = InitialSize - COUNTER_SIZE
  /\ size = InitialSize
  /\ room = InitialSize - COUNTER_SIZE
  /\ msg \in Messages
  /\ handles = [h \in Handles |-> NullHandle]

(* Another unpacker, when there is none.                                   *)
Construct ==
  /\ m_buffer = NoBlock
  /\ \E b \in Free : Fresh(b) /\ count' = [count EXCEPT ![b] = 1]
  /\ UNCHANGED <<msg, handles>>

(* ~unpacker: handles may live longer.                                     *)
Destroy ==
  /\ m_buffer # NoBlock
  /\ m_buffer' = NoBlock
  /\ count' = Released(Released(count, {m_buffer}), m_z.fins)
  /\ m_z' = NewZone
  /\ m_referenced' = FALSE
  /\ m_used' = COUNTER_SIZE
  /\ m_off' = COUNTER_SIZE
  /\ m_free' = 0
  /\ m_parsed' = 0
  /\ room' = 0
  /\ size' = COUNTER_SIZE
  /\ UNCHANGED <<msg, handles>>

-----------------------------------------------------------------------------
(* reserve_buffer, when m_free is not enough *)

Unparsed == m_used - m_off

Rewindable_mutant ==      \* relies on the count alone
  m_used = m_off /\ count[m_buffer] = 1

Rewindable == m_used = m_off /\ count[m_buffer] = 1 /\ ~m_referenced

(* The buffer after the attempt to rewind.                                 *)
Rewound ==
  IF Rewindable
  THEN [used |-> COUNTER_SIZE, off |-> COUNTER_SIZE,
        free |-> m_free + (m_used - COUNTER_SIZE)]
  ELSE [used |-> m_used, off |-> m_off, free |-> m_free]

(* What doubling from start on gives first that is as large as needed.     *)
Grown(start, needed) ==
  LET grown[s \in start .. start + 2 * needed] ==
        IF s >= needed THEN s ELSE grown[2 * s]
  IN  grown[start]

NewSize_mutant(n) ==      \* forgets the room for the count
  IF Rewound.off = COUNTER_SIZE
  THEN Grown(2 * (Rewound.used + Rewound.free), n + Rewound.used)
  ELSE Grown(InitialSize, n + Unparsed)

NewSize(n) ==
  IF Rewound.off = COUNTER_SIZE
  THEN Grown(2 * (Rewound.used + Rewound.free), n + Rewound.used)
  ELSE Grown(InitialSize, n + Unparsed + COUNTER_SIZE)

Rewind(n) ==
  /\ Rewindable
  /\ Rewound.free >= n
  /\ m_used' = Rewound.used /\ m_off' = Rewound.off /\ m_free' = Rewound.free
  /\ UNCHANGED <<heapVars, m_buffer, m_z, m_referenced>>

(* realloc: the block stays where it is, or moves.                         *)
Resize(n) ==
  /\ Rewound.free < n
  /\ Rewound.off = COUNTER_SIZE
  /\ \E b \in Free \cup {m_buffer} :
       /\ m_buffer' = b
       /\ count' = [[count EXCEPT ![m_buffer] = 0] EXCEPT ![b] = count[m_buffer]]
  /\ size' = NewSize(n)
  /\ m_used' = Rewound.used /\ m_off' = Rewound.off
  /\ m_free' = size' - Rewound.used
  /\ UNCHANGED <<m_z, m_referenced>>

(* The old buffer passes to the zone that refers to it, or is released.    *)
LeaveOld(b) ==
  /\ m_referenced' = FALSE
  /\ \/ /\ m_referenced
        /\ m_z' = [m_z EXCEPT !.fins = @ \cup {m_buffer}]
        /\ count' = [count EXCEPT ![b] = 1]
     \/ /\ ~m_referenced
        /\ count' = Released([count EXCEPT ![b] = 1], {m_buffer})
        /\ UNCHANGED m_z

Used_mutant == COUNTER_SIZE      \* the bytes that were copied do not count

Used == COUNTER_SIZE + Unparsed

(* malloc, and the bytes that are not parsed yet are copied.               *)
Replace(n) ==
  /\ Rewound.free < n
  /\ Rewound.off # COUNTER_SIZE
  /\ \E b \in Free : m_buffer' = b /\ LeaveOld(b)
  /\ size' = NewSize(n)
  /\ m_used' = Used
  /\ m_free' = size' - m_used'
  /\ m_off' = COUNTER_SIZE

(* realloc, malloc or push_finalizer fails: bad_alloc.                     *)
FailsToExpand(n) ==
  /\ Rewound.free < n
  /\ m_used' = Rewound.used /\ m_off' = Rewound.off /\ m_free' = Rewound.free
  /\ room' = m_free'
  /\ UNCHANGED <<heapVars, m_buffer, m_z, m_referenced>>

Reserve(n) ==
  /\ m_buffer # NoBlock
  /\ Unparsed + n <= MaxUnparsed
  /\ m_free < n
  /\ UNCHANGED <<m_parsed, msg, handles>>
  /\ \/ /\ Rewind(n) \/ Resize(n) \/ Replace(n)
        /\ room' = IF n > m_free' THEN n ELSE m_free'
     \/ FailsToExpand(n)

(* The caller writes n bytes and calls buffer_consumed(n).                 *)
Consume(n) ==
  /\ m_buffer # NoBlock
  /\ n > 0 /\ n <= room
  /\ Unparsed + n <= MaxUnparsed
  /\ m_used' = m_used + n
  /\ m_free' = m_free - n
  /\ room' = room - n
  /\ UNCHANGED <<heapVars, m_buffer, m_off, parserVars, handles>>

-----------------------------------------------------------------------------
(* next *)

(* execute gets from m_parsed to this place in message m with the bytes    *)
(* that there are.                                                         *)
Reaches(m, place) ==
  /\ place \in m.ends \cup {m_parsed}
  /\ m_parsed <= place /\ place <= m_parsed + Unparsed
  /\ \A e \in m.ends : e <= m_parsed + Unparsed => e <= place

IsComplete(m, place) == \A e \in m.ends : e <= place

Referenced(m, place) ==
  m_referenced \/ \E e \in m.strings : m_parsed < e /\ e <= place

(* What next() says of it.                                                 *)
Told_mutant(m, place) == FALSE      \* asked after flush_zone has reset it

Told(m, place) == Referenced(m, place)

ZoneWith(m, place) ==
  [m_z EXCEPT !.refs = IF Referenced(m, place) THEN @ \cup {m_buffer} ELSE @]

NotYet(h, m, place) ==
  /\ ~IsComplete(m, place)
  /\ m_parsed' = place
  /\ m_referenced' = Referenced(m, place)
  /\ m_z' = ZoneWith(m, place)
  /\ handles' = [handles EXCEPT ![h] = NullHandle]
  /\ count' = Released(count, handles[h].zone.fins)

(* flush_zone, when strings lie in the buffer: the zone shares it.         *)
Given(m, place) ==
  IF Referenced(m, place) THEN [ZoneWith(m, place) EXCEPT !.fins = @ \cup {m_buffer}]
  ELSE ZoneWith(m, place)

Shared_mutant(m, place) == count      \* without incr_count

Shared(m, place) ==
  IF Referenced(m, place) THEN [count EXCEPT ![m_buffer] = @ + 1] ELSE count

(* release_zone: the object goes with its zone, the unpacker has a new one.*)
HandOver(h, m, place) ==
  /\ IsComplete(m, place)
  /\ m_parsed' = 0
  /\ handles' = [handles EXCEPT
       ![h] = [zone |-> Given(m, place), referenced |-> Told(m, place)]]
  /\ count' = Released(Shared(m, place), handles[h].zone.fins)
  /\ m_referenced' = FALSE
  /\ m_z' = NewZone

(* push_finalizer in flush_zone fails: the object goes without its zone.   *)
HandOverBare(h, m, place) ==
  /\ IsComplete(m, place)
  /\ Referenced(m, place)
  /\ m_parsed' = 0
  /\ handles' = [handles EXCEPT
       ![h] = [zone |-> NewZone, referenced |-> Told(m, place)]]
  /\ count' = Released(count, handles[h].zone.fins)
  /\ m_referenced' = TRUE
  /\ m_z' = ZoneWith(m, place)

NextObject(h, m, place) ==
  /\ m_buffer # NoBlock
  /\ m_parsed > 0 => m = msg
  /\ Reaches(m, place)
  /\ m_off' = m_off + (place - m_parsed)
  /\ msg' = m
  /\ NotYet(h, m, place) \/ HandOver(h, m, place) \/ HandOverBare(h, m, place)
  /\ UNCHANGED <<size, m_buffer, m_used, m_free, room>>

(* The caller is done with an object.                                      *)
Drop(h) ==
  /\ handles' = [handles EXCEPT ![h] = NullHandle]
  /\ count' = Released(count, handles[h].zone.fins)
  /\ UNCHANGED <<size, bufferVars, parserVars, room>>

-----------------------------------------------------------------------------
(* Bytes between two messages that are not a message *)

(* skip_nonparsed_buffer(n) *)
Skip(n) ==
  /\ m_buffer # NoBlock
  /\ m_parsed = 0
  /\ n < Unparsed
  /\ m_off' = m_off + n
  /\ UNCHANGED <<heapVars, m_buffer, m_used, m_free, parserVars, handles, room>>

(* remove_nonparsed_buffer: m_free does not get their room back.           *)
RemoveNonparsed ==
  /\ m_buffer # NoBlock
  /\ m_parsed = 0
  /\ m_used' = m_off
  /\ UNCHANGED <<heapVars, m_buffer, m_off, m_free, parserVars, handles, room>>

Next ==
  \/ Construct
  \/ Destroy
  \/ \E n \in Sizes : Reserve(n) \/ Consume(n) \/ Skip(n)
  \/ \E h \in Handles :
       \/ Drop(h)
       \/ \E m \in Messages : \E place \in m.ends \cup {m_parsed} : NextObject(h, m, place)
  \/ RemoveNonparsed

Spec == Init /\ [][Next]_vars

-----------------------------------------------------------------------------
(* Properties *)

Zones == [fins : SUBSET Blocks, refs : SUBSET Blocks]

TypeOK ==
  /\ count \in [Blocks -> Nat]
  /\ m_buffer \in Blocks \cup {NoBlock}
  /\ {m_used, m_free, m_off, m_parsed, size, room} \subseteq Nat
  /\ m_referenced \in BOOLEAN
  /\ m_z \in Zones
  /\ handles \in [Handles -> [zone : Zones, referenced : BOOLEAN]]
  /\ msg \in Messages

(* The zones whose finalizers will release block b.                        *)
Holders(b) ==
  {h \in Handles : b \in handles[h].zone.fins}

(* A block's count is the number of those that will release it: the        *)
(* unpacker whose buffer it is, the zone it fills, and the zones that the  *)
(* caller has.  So none is freed twice, and none is never freed.           *)
CountIsExact ==
  \A b \in Blocks :
    count[b] = (IF b = m_buffer THEN 1 ELSE 0)
               + (IF b \in m_z.fins THEN 1 ELSE 0) + Cardinality(Holders(b))

(* The blocks with strings of objects that are still there.                *)
InUse == m_z.refs \cup UNION {handles[h].zone.refs : h \in Handles}

(* A block is freed, moved or rewound in this step.                        *)
Lost(b) ==
  \/ count[b] > 0 /\ count'[b] = 0
  \/ b = m_buffer /\ m_buffer' = b /\ m_off' < m_off

(* No object loses a string: a block is not freed by a count, by realloc   *)
(* or by the end of the unpacker, and is not written to again from its     *)
(* start, while an object with a zone, or the one that is parsed, has a    *)
(* string in it.                                                           *)
StringsStay == [][\A b \in Blocks : Lost(b) => b \notin InUse']_vars

(* The caller may write what it has reserved and what buffer_capacity()    *)
(* says: no byte of either lies outside the block, whatever was parsed,    *)
(* skipped, removed or failed before.                                      *)
WritesFit ==
  m_buffer # NoBlock => /\ COUNTER_SIZE <= m_off /\ m_off <= m_used
                        /\ m_used + m_free <= size
                        /\ m_used + room <= size

(* A buffer that is grown, rewound or replaced keeps the bytes that were   *)
(* not parsed.                                                             *)
UnparsedKept ==
  [][NoBlock \notin {m_buffer, m_buffer'} =>
       (m_off' < m_off \/ m_buffer' # m_buffer \/ size' # size
          => m_used' - m_off' = Unparsed)]_vars

(* An object that next() calls not referenced has no string in the buffer  *)
(* that the unpacker goes on with.  (It may have some in earlier buffers,  *)
(* which its zone keeps.)                                                  *)
FlagIsOfThisBuffer ==
  \A h \in Handles : ~handles[h].referenced => m_buffer \notin handles[h].zone.refs
=============================================================================
