-------------------------------- MODULE MCWire --------------------------------
(* Wire for TLC: messages whose fields lie at the limits of the formats.     *)
EXTENDS Wire

Text(n) == [k \in 1 .. n |-> 144 + (k % 80)]    \* bytes that look like headers

MCEntry(index, term, n) == <<index, term, <<>>, Text(n)>>

EmptySnapshot == << << << <<>>, <<>> >>, <<>>, <<>> >>, <<>> >>

Max64 == [k \in 1 .. 8 |-> 255]

MCMessage(term, entries, commit, snapshot, reject, context) ==
  << <<3>>, <<2>>, <<127>>, term, <<128>>, <<255>>, entries, commit, snapshot,
     reject, <<1, 0>>, context >>

MCSamples ==
  { [type |-> Message, value |-> v] : v \in
      { MCMessage(<<>>, <<>>, <<>>, EmptySnapshot, FALSE, <<>>),
        MCMessage(<<255, 255>>, <<MCEntry(<<1>>, <<1>>, 0), MCEntry(<<2>>, <<1>>, 31)>>,
                  <<1, 0, 0>>, EmptySnapshot, TRUE, Text(32)),
        MCMessage(Max64, <<MCEntry(<<3>>, <<255, 255, 255, 255>>, 3)>>, <<1, 0, 0, 0, 0>>,
                  << << << [k \in 1 .. 16 |-> <<k>>], <<>> >>, <<9>>, <<8>> >>, Text(5) >>,
                  FALSE, Text(1)) } }
  \cup
  { [type |-> HardState, value |-> << <<1>>, <<>>, <<128>> >>],
    [type |-> ConfChange, value |-> << <<1>>, <<3>>, <<2>>, <<>> >>],
    [type |-> Entry, value |-> MCEntry(<<1>>, <<1>>, 256)] }
=============================================================================
