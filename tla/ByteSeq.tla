------------------------------- MODULE ByteSeq -------------------------------
(***************************************************************************)
(* What ByteArray promises its user: one sequence of bytes with a position *)
(* at which it is written and read.                                        *)
(***************************************************************************)
EXTENDS Integers, Sequences

VARIABLES
  bytes,  \* the bytes [0, size)
  pos,    \* where the next one is written or read
  out     \* what a read has just delivered

seqVars == <<bytes, pos, out>>

\* s with d written over it from position p on
Overwrite(s, p, d) ==
  [i \in 1..(IF p + Len(d) > Len(s) THEN p + Len(d) ELSE Len(s)) |->
     IF i > p /\ i <= p + Len(d) THEN d[i - p] ELSE s[i]]

SInit == bytes = <<>> /\ pos = 0 /\ out = <<>>

\* Some bytes are written: they are the ones between the old and the new position
SWrite ==
  /\ pos' > pos
  /\ Len(bytes') >= pos'
  /\ bytes' = Overwrite(bytes, pos, SubSeq(bytes', pos + 1, pos'))
  /\ out' = <<>>

\* The bytes between the old and the new position are delivered
SRead ==
  /\ pos' \in pos..Len(bytes)
  /\ out' = SubSeq(bytes, pos + 1, pos')
  /\ bytes' = bytes

\* Beyond the end the position takes whatever memory holds into the sequence
SSetPosition ==
  /\ pos' \in Nat
  /\ Len(bytes') = (IF pos' > Len(bytes) THEN pos' ELSE Len(bytes))
  /\ SubSeq(bytes', 1, Len(bytes)) = bytes
  /\ out' = <<>>

SClear == bytes' = <<>> /\ pos' = 0 /\ out' = <<>>

SNext == SWrite \/ SRead \/ SSetPosition \/ SClear

SSpec == SInit /\ [][SNext]_seqVars
=============================================================================
