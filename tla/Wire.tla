--------------------------------- MODULE Wire ---------------------------------
(***************************************************************************)
(* Messages of protocol.h on their way from one node to another: packed    *)
(* into a buffer, sent as a stream that arrives in pieces of any size, and *)
(* parsed by an unpacker that keeps its context from one piece to the next.*)
(* The receiver converts each object into a variable of the message's type *)
(* that it uses again for the next one.  The code for the transport is not *)
(* in the repository.                                                      *)
(***************************************************************************)
EXTENDS Protocol, FiniteSets

CONSTANTS
  Samples,       \* records [type, value]: the messages to send
  MaxSent,       \* number of messages in the stream (a bound)
  Pieces         \* sizes of the pieces that arrive (a bound); the last piece
                 \* may have any size

(* A message holds values of its type that msgpack can write.              *)
ASSUME SamplesAssumption == \A s \in Samples : Fits(s.type, s.value)

ASSUME BoundsAssumption == MaxSent \in Nat /\ Pieces \subseteq Nat

VARIABLES
  sent,          \* the messages packed so far, and where each ends
  wire,          \* the bytes packed so far
  arrived,       \* how many of them the receiver has (m_used)
  m_off, m_ctx,  \* of the unpacker
  ready,         \* whether the receiver has reason to call next()
  target,        \* the receiver's variables
  received,      \* what they were, message by message
  status         \* "running", or the exception that ended it

vars == <<sent, wire, arrived, m_off, m_ctx, ready, target, received, status>>

Types == {s.type : s \in Samples}

Init ==
  /\ sent = <<>>
  /\ wire = <<>>
  /\ arrived = 0
  /\ m_off = 0
  /\ m_ctx = InitContext
  /\ ready = FALSE
  /\ target = [type \in Types |-> type.default]
  /\ received = <<>>
  /\ status = "running"

Send(s) ==
  /\ Len(sent) < MaxSent
  /\ wire' = wire \o Pack(s.type, s.value)
  /\ sent' = Append(sent, [type |-> s.type, value |-> s.value, end |-> Len(wire')])
  /\ UNCHANGED <<arrived, m_off, m_ctx, ready, target, received, status>>

Arrive(n) ==
  /\ arrived + n <= Len(wire)
  /\ arrived' = arrived + n
  /\ ready' = TRUE
  /\ UNCHANGED <<sent, wire, m_off, m_ctx, target, received, status>>

ArriveSome == \E n \in Pieces \cup {Len(wire) - arrived} : n > 0 /\ Arrive(n)

Take(type, obj) ==
  LET fits == Converts(type, obj) IN
  /\ target' = [target EXCEPT ![type] = IF fits THEN Convert(type, obj, @) ELSE @]
  /\ received' = IF fits THEN Append(received, target'[type]) ELSE received
  /\ status' = IF fits THEN "running" ELSE "type_error"

(* A call of unpacker::next() and, when it has an object, obj.convert().   *)
Receive ==
  /\ ready
  /\ status = "running"
  /\ UNCHANGED <<sent, wire, arrived>>
  /\ \E r \in {Execute(m_ctx, wire, arrived, m_off)} :
       /\ m_off' = r.off
       /\ ready' = (r.ret = 1)
       /\ \/ /\ r.ret # 1
             /\ m_ctx' = r.ctx
             /\ status' = IF r.ret = 0 THEN "running" ELSE "parse_error"
             /\ UNCHANGED <<target, received>>
          \/ /\ r.ret = 1
             /\ m_ctx' = InitContext
             /\ Take(sent[Len(received) + 1].type, r.ctx.data[1])

(* The stream ends when every message has arrived and has been taken.      *)
Done ==
  /\ Len(sent) = MaxSent
  /\ arrived = Len(wire)
  /\ ~ready
  /\ UNCHANGED vars

Next ==
  \/ \E s \in Samples : Send(s)
  \/ ArriveSome
  \/ Receive
  \/ Done

Spec == Init /\ [][Next]_vars

(* The stream goes on as long as there is something to deliver or to read. *)
FairSpec == Spec /\ WF_vars(ArriveSome \/ Receive)

-----------------------------------------------------------------------------
(* Properties *)

Values == [i \in DOMAIN sent |-> sent[i].value]

(* Where the first i messages end in the stream.                           *)
End(i) == IF i = 0 THEN 0 ELSE sent[i].end

(* The receiver's variables become exactly the messages that were sent, in *)
(* their order, whatever the sizes of fields, strings and lists are and    *)
(* whatever the variables held before, and no exception is thrown.         *)
ReceivedAsSent == status = "running" /\ IsPrefix(received, Values)

(* A message is handed over by the call that follows the arrival of its    *)
(* last byte, neither earlier nor only when bytes of the next one come;    *)
(* what is behind it in the same piece is left for later calls.            *)
Prompt ==
  /\ End(Len(received)) <= m_off
  /\ ~ready => Len(received) = Cardinality({i \in DOMAIN sent : End(i) <= arrived})
  /\ m_ctx = InitContext => m_off = End(Len(received))

(* The context depends on the bytes that have arrived only, not on where   *)
(* the pieces were cut: one call on all of them since the last message     *)
(* leaves the same context, at the same place.                             *)
CutsDoNotMatter ==
  ~ready =>
    \A whole \in {Execute(InitContext, wire, arrived, End(Len(received)))} :
      whole.ctx = m_ctx /\ whole.off = m_off

(* Every message that is sent is received.                                 *)
AllReceived == \A n \in 1 .. MaxSent : Len(sent) = n ~> Len(received) >= n
=============================================================================
