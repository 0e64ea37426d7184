-------------------------------- MODULE Msgpack --------------------------------
(***************************************************************************)
(* How the msgpack-c that is vendored in raftcore writes the messages of   *)
(* protocol.h and reads them back: the packer and the adaptors (pack.hpp,  *)
(* adaptor/), the parser (detail::context in unpack.hpp) and the           *)
(* conversion of a parsed object.  Only the formats that those messages    *)
(* use are here; every other header byte is an error.                      *)
(*                                                                         *)
(* An integer is the sequence of its base-256 digits without leading       *)
(* zeros, since a uint64_t is too large for a number here; a string is the *)
(* sequence of its bytes; a struct is the sequence of its fields, in the   *)
(* order of its MSGPACK_DEFINE.  A schema says which of them a value is,   *)
(* and what a new variable of the type holds.                              *)
(*                                                                         *)
(* The templates of the packer and of the conversion are instantiated for  *)
(* each type down to its members.  So they are here: Pack1 is for what has *)
(* no nested arrays, Pack2 for arrays of those, and so on; no type of      *)
(* protocol.h has more than five arrays in each other.                     *)
(***************************************************************************)
EXTENDS Integers, Sequences, SequencesExt

Uint64          == [kind |-> "uint", default |-> <<>>]
Int32           == [kind |-> "int", default |-> <<>>]
Bool            == [kind |-> "bool", default |-> FALSE]
Str             == [kind |-> "str", default |-> <<>>]
List(schema)    == [kind |-> "list", of |-> schema, default |-> <<>>]
Struct(schemas) == [kind |-> "struct", of |-> schemas,
                    default |-> [i \in DOMAIN schemas |-> schemas[i].default]]

IsArray(schema)   == schema.kind \in {"list", "struct"}
Member(schema, i) == IF schema.kind = "list" THEN schema.of ELSE schema.of[i]

Byte == 0 .. 255

(* What a std::string or a container has, and what msgpack can write of it *)
(* (checked_get_container_size): its size has 32 bits.                     *)
IsVector(v) ==
  /\ Len(v) \in Nat /\ Len(v) \div 65536 < 65536
  /\ v = [i \in 1 .. Len(v) |-> v[i]]

IsUint(v, size) == v \in Seq(Byte) /\ Len(v) <= size /\ (v # <<>> => v[1] # 0)

(* The values of a schema; of the integers of an int, only enumerators.    *)
FitsPlain(schema, v) ==
  CASE schema.kind = "uint" -> IsUint(v, 8)
    [] schema.kind = "int" -> IsUint(v, 4) /\ (Len(v) = 4 => v[1] < 128)
    [] schema.kind = "bool" -> v \in BOOLEAN
    [] schema.kind = "str" -> IsVector(v) /\ v \in Seq(Byte)
    [] OTHER -> FALSE

FitsIn(Inner(_, _), schema, v) ==
  IF ~IsArray(schema) THEN FitsPlain(schema, v)
  ELSE /\ IsVector(v)
       /\ schema.kind = "struct" => DOMAIN v = DOMAIN schema.of
       /\ \A i \in DOMAIN v : Inner(Member(schema, i), v[i])

Fits1(schema, v) == FitsIn(FitsPlain, schema, v)
Fits2(schema, v) == FitsIn(Fits1, schema, v)
Fits3(schema, v) == FitsIn(Fits2, schema, v)
Fits4(schema, v) == FitsIn(Fits3, schema, v)
Fits(schema, v)  == FitsIn(Fits4, schema, v)

-----------------------------------------------------------------------------
(* Packing *)

(* The low `width' bytes of an integer, the highest first.                 *)
Store(digits, width) ==
  [k \in 1 .. width |->
     IF k + Len(digits) > width THEN digits[k + Len(digits) - width] ELSE 0]

Store16(n) == <<n \div 256, n % 256>>
Store32(n) == Store16(n \div 65536) \o Store16(n % 65536)

PackUint(d) ==
  CASE d = <<>> \/ (Len(d) = 1 /\ d[1] < 128) -> Store(d, 1)
    [] Len(d) = 1 /\ d[1] >= 128 -> <<204>> \o Store(d, 1)
    [] Len(d) = 2 -> <<205>> \o Store(d, 2)
    [] Len(d) \in 3 .. 4 -> <<206>> \o Store(d, 4)
    [] OTHER -> <<207>> \o Store(d, 8)

StrHeader(n) ==
  CASE n < 32 -> <<160 + n>>
    [] 32 <= n /\ n < 256 -> <<217, n>>
    [] 256 <= n /\ n < 65536 -> <<218>> \o Store16(n)
    [] OTHER -> <<219>> \o Store32(n)

PackStr(s) == StrHeader(Len(s)) \o s

PackArray(n) ==
  CASE n < 16 -> <<144 + n>>
    [] 16 <= n /\ n < 65536 -> <<220>> \o Store16(n)
    [] OTHER -> <<221>> \o Store32(n)

PackPlain(schema, v) ==
  CASE schema.kind \in {"uint", "int"} -> PackUint(v)
    [] schema.kind = "bool" -> IF v THEN <<195>> ELSE <<194>>
    [] OTHER -> PackStr(v)

PackIn(Inner(_, _), schema, v) ==
  IF ~IsArray(schema) THEN PackPlain(schema, v)
  ELSE PackArray(Len(v)) \o FlattenSeq([i \in DOMAIN v |-> Inner(Member(schema, i), v[i])])

Pack1(schema, v) == PackIn(PackPlain, schema, v)
Pack2(schema, v) == PackIn(Pack1, schema, v)
Pack3(schema, v) == PackIn(Pack2, schema, v)
Pack4(schema, v) == PackIn(Pack3, schema, v)
Pack(schema, v)  == PackIn(Pack4, schema, v)

-----------------------------------------------------------------------------
(* Parsing *)

(* MSGPACK_CS_HEADER and MSGPACK_ACS_STR_VALUE; the other values of m_cs   *)
(* are the header byte whose field is awaited.                             *)
HeaderNext == 0
BodyNext   == 1

UintHeaders  == 204 .. 207
StrHeaders   == 217 .. 219
ArrayHeaders == 220 .. 221

(* The size of the field behind a header.                                  *)
FieldSize(header) ==
  CASE header \in {204, 217} -> 1
    [] header \in {205, 218, 220} -> 2
    [] header \in {206, 219, 221} -> 4
    [] OTHER -> 8

(* A context: m_cs, m_trail, the arrays in m_stack that wait for items, and *)
(* data() once an object is complete.                                      *)
InitContext == [cs |-> HeaderNext, trail |-> 0, open |-> <<>>, data |-> <<>>]

Object(type, val) == [type |-> type, val |-> val]

(* The element of a set of one: it makes TLC evaluate that element once.   *)
The(S) == CHOOSE x \in S : TRUE

(* push_item: the object completes arrays from the innermost on, until one *)
(* is left that waits for more than this item.                             *)
Left(open) ==
  CHOOSE k \in 0 .. Len(open) : /\ k = 0 \/ open[k].count # 1
                                /\ \A j \in k + 1 .. Len(open) : open[j].count = 1

Completed(open, obj, left) ==
  LET item[k \in left .. Len(open)] ==
        IF k = Len(open) THEN obj
        ELSE Object("array", Append(open[k + 1].items, item[k + 1]))
  IN  item[left]

PushItem(open, obj) ==
  The({IF left = 0 THEN [open |-> <<>>, data |-> <<Completed(open, obj, 0)>>]
       ELSE [open |-> Append(SubSeq(open, 1, left - 1),
                             [items |-> Append(open[left].items, Completed(open, obj, left)),
                              count |-> open[left].count - 1]),
             data |-> <<>>] : left \in {Left(open)}})

(* Inside execute: the context, the position in the input and the result.  *)
(* push_proc after the last byte of an object; m_cs stays when the whole   *)
(* message is complete.                                                    *)
PushProc(ctx, obj, off) ==
  The({[ctx |-> [cs |-> IF pushed.data = <<>> THEN HeaderNext ELSE ctx.cs,
                 trail |-> ctx.trail, open |-> pushed.open, data |-> pushed.data],
        off |-> off, ret |-> Len(pushed.data)] : pushed \in {PushItem(ctx.open, obj)}})

PushAggregate(ctx, n, off) ==
  IF n = 0 THEN PushProc(ctx, Object("array", <<>>), off)
  ELSE [ctx |-> [cs |-> HeaderNext, trail |-> ctx.trail,
                 open |-> Append(ctx.open, [items |-> <<>>, count |-> n]),
                 data |-> ctx.data],
        off |-> off, ret |-> 0]

Await(ctx, cs, trail, off) ==
  [ctx |-> [cs |-> cs, trail |-> trail, open |-> ctx.open, data |-> ctx.data],
   off |-> off, ret |-> 0]

PushStr(ctx, body, off) == PushProc(ctx, Object("str", body), off)

(* The length of a string is known; one of length 0 has no more bytes.     *)
AwaitStr(ctx, n, off) ==
  IF n = 0 THEN PushStr(ctx, <<>>, off) ELSE Await(ctx, BodyNext, n, off)

(* The value of a field, and an integer from its bytes.                    *)
Load(field) ==
  CASE Len(field) = 1 -> field[1]
    [] Len(field) = 2 -> 256 * field[1] + field[2]
    [] OTHER ->
         256 * (256 * (256 * field[1] + field[2]) + field[3]) + field[4]

LoadUint(field) ==
  LET zeros == CHOOSE n \in 0 .. Len(field) :
                 /\ \A k \in 1 .. n : field[k] = 0
                 /\ n < Len(field) => field[n + 1] # 0
  IN  SubSeq(field, zeros + 1, Len(field))

(* A turn of execute's loop that finds a header, off being behind it.      *)
Header(ctx, selector, off) ==
  CASE selector < 128 -> PushProc(ctx, Object("uint", LoadUint(<<selector>>)), off)
    [] selector \in UintHeaders \cup StrHeaders \cup ArrayHeaders ->
         Await(ctx, selector, FieldSize(selector), off)
    [] selector \in 160 .. 191 -> AwaitStr(ctx, selector - 160, off)
    [] selector \in 144 .. 159 -> PushAggregate(ctx, selector - 144, off)
    [] selector \in {194, 195} -> PushProc(ctx, Object("bool", selector = 195), off)
    [] OTHER -> [ctx |-> ctx, off |-> off - 1, ret |-> -1]

(* The part of a turn that has the m_trail bytes it waited for.            *)
Field(ctx, field, off) ==
  CASE ctx.cs \in UintHeaders -> PushProc(ctx, Object("uint", LoadUint(field)), off)
    [] ctx.cs \in StrHeaders -> AwaitStr(ctx, Load(field), off)
    [] ctx.cs \in ArrayHeaders -> PushAggregate(ctx, Load(field), off)
    [] OTHER -> PushStr(ctx, field, off)

Taken(data, off, n) == SubSeq(data, off + 1, off + n)

Turn_mutant(c, data) ==    \* waits for the bytes of an empty string
  IF c.ctx.cs # HeaderNext
  THEN Field(c.ctx, Taken(data, c.off, c.ctx.trail), c.off + c.ctx.trail)
  ELSE IF data[c.off + 1] = 160
  THEN Await(c.ctx, BodyNext, 0, c.off + 1)
  ELSE Header(c.ctx, data[c.off + 1], c.off + 1)

Turn(c, data) ==
  IF c.ctx.cs = HeaderNext THEN Header(c.ctx, data[c.off + 1], c.off + 1)
  ELSE Field(c.ctx, Taken(data, c.off, c.ctx.trail), c.off + c.ctx.trail)

(* The object or the input ends here, or not all of a field has arrived.   *)
Stops(c, len) ==
  \/ c.ret # 0
  \/ c.off = len
  \/ c.ctx.cs # HeaderNext /\ len - c.off < c.ctx.trail

(* The turns of the loop.  Each takes a byte at least, so some number of   *)
(* them leads to the end, and more leave it as it is: Stride lets TLC try  *)
(* fewer numbers.                                                          *)
Stride == 16

Turns(c, data, len) ==
  LET turn[n \in Nat] ==
        IF n = 0 THEN c
        ELSE The({IF Stops(d, len) THEN d ELSE Turn(d, data) : d \in {turn[n - 1]}})
  IN  turn[CHOOSE n \in {Stride * k : k \in 0 .. len - c.off} :
             \A d \in {turn[n]} : Stops(d, len)]

Execute_mutant(ctx, data, len, off) ==     \* forgets what it awaits between calls
  Turns([ctx |-> [ctx EXCEPT !.cs = HeaderNext, !.trail = 0], off |-> off, ret |-> 0],
        data, len)

(* context::execute on data[off..len): the context it leaves, off and the  *)
(* result, 1 for a complete object, 0 for more to come, -1 for an error.   *)
Execute(ctx, data, len, off) ==
  Turns([ctx |-> ctx, off |-> off, ret |-> 0], data, len)

-----------------------------------------------------------------------------
(* Conversion *)

(* Whether no type_error is thrown.                                        *)
ConvertsPlain(schema, obj) ==
  CASE schema.kind = "uint" -> obj.type = "uint"
    [] schema.kind = "int" ->
         /\ obj.type = "uint"
         /\ Len(obj.val) <= 4
         /\ Len(obj.val) = 4 => obj.val[1] < 128
    [] OTHER -> obj.type = schema.kind

ConvertsIn(Inner(_, _), schema, obj) ==
  IF ~IsArray(schema) THEN ConvertsPlain(schema, obj)
  ELSE /\ obj.type = "array"
       /\ \A i \in DOMAIN obj.val :
            schema.kind = "list" \/ i \in DOMAIN schema.of =>
              Inner(Member(schema, i), obj.val[i])

Converts1(schema, obj) == ConvertsIn(ConvertsPlain, schema, obj)
Converts2(schema, obj) == ConvertsIn(Converts1, schema, obj)
Converts3(schema, obj) == ConvertsIn(Converts2, schema, obj)
Converts4(schema, obj) == ConvertsIn(Converts3, schema, obj)
Converts(schema, obj)  == ConvertsIn(Converts4, schema, obj)

Resized_mutant(list, n, default) ==      \* made longer, never shorter
  [i \in 1 .. (IF n < Len(list) THEN Len(list) ELSE n) |->
     IF i \in DOMAIN list THEN list[i] ELSE default]

Resized(list, n, default) ==
  [i \in 1 .. n |-> IF i \in DOMAIN list THEN list[i] ELSE default]

(* obj.convert(&target): a list is resized and keeps its elements, and     *)
(* what an array does not reach keeps its value.                           *)
ConvertPlain(schema, obj, target) == obj.val

ConvertIn(Inner(_, _, _), schema, obj, target) ==
  IF ~IsArray(schema) THEN ConvertPlain(schema, obj, target)
  ELSE LET list == schema.kind = "list"
           old  == IF list THEN Resized(target, Len(obj.val), schema.of.default)
                   ELSE target
       IN  [i \in DOMAIN (IF list THEN old ELSE schema.of) |->
              IF i \in DOMAIN obj.val
              THEN Inner(Member(schema, i), obj.val[i], old[i]) ELSE old[i]]

Convert1(schema, obj, target) == ConvertIn(ConvertPlain, schema, obj, target)
Convert2(schema, obj, target) == ConvertIn(Convert1, schema, obj, target)
Convert3(schema, obj, target) == ConvertIn(Convert2, schema, obj, target)
Convert4(schema, obj, target) == ConvertIn(Convert3, schema, obj, target)
Convert(schema, obj, target)  == ConvertIn(Convert4, schema, obj, target)
=============================================================================
