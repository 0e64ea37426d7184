------------------------------ MODULE UnstableLog ------------------------------
(***************************************************************************)
(* What the unstable part of a Raft log promises, without deques, offsets  *)
(* into them or index arithmetic on their ends: the terms of the entries   *)
(* not yet durable, the first of them at index `base', and perhaps a       *)
(* snapshot that the entries follow.                                       *)
(***************************************************************************)
EXTENDS Integers, Sequences

CONSTANTS Terms, MaxIndex, NoSnapshot

VARIABLES base, terms, snapshot

absVars == <<base, terms, snapshot>>

Init == base = 1 /\ terms = <<>> /\ snapshot = NoSnapshot

(* A log that continues a durable one starts where that one ends.          *)
StartAt(first) ==
  /\ base = 1 /\ terms = <<>> /\ snapshot = NoSnapshot
  /\ base' = first
  /\ UNCHANGED <<terms, snapshot>>

(* Entries from `first' on are replaced by the new ones and every entry    *)
(* before `first' stays; entries older than the whole log replace it.      *)
Write(first, new) ==
  /\ first <= base + Len(terms)
  /\ snapshot # NoSnapshot => first > snapshot.index
  /\ base' = IF first < base THEN first ELSE base
  /\ terms' = SubSeq(terms, 1, first - base) \o new
  /\ UNCHANGED snapshot

(* The entries up to i have become durable.  The one at i still has the    *)
(* term that was written, and no snapshot is waiting.                      *)
Stable(i, t) ==
  /\ snapshot = NoSnapshot
  /\ i \in base .. base + Len(terms) - 1
  /\ terms[i - base + 1] = t
  /\ base' = i + 1
  /\ terms' = SubSeq(terms, i - base + 2, Len(terms))
  /\ UNCHANGED snapshot

SnapshotStable ==
  /\ snapshot' = NoSnapshot
  /\ UNCHANGED <<base, terms>>

Restore(snap) ==
  /\ snapshot' = snap
  /\ terms' = <<>>
  /\ base' = IF snap = NoSnapshot THEN 1 ELSE snap.index + 1

Next ==
  \/ \E first \in 1 .. MaxIndex + 1 : StartAt(first)
  \/ \E first \in 1 .. MaxIndex, n \in 1 .. MaxIndex :
       \E new \in [1 .. n -> Terms] : Write(first, new)
  \/ \E i \in 1 .. MaxIndex, t \in Terms : Stable(i, t)
  \/ SnapshotStable
  \/ \E snap \in [index : 1 .. MaxIndex, term : Terms] \cup {NoSnapshot} :
       Restore(snap)

Spec == Init /\ [][Next]_absVars
=============================================================================
