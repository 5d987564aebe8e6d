------------------------------ MODULE Session ------------------------------
(***************************************************************************)
(* What the transport promises the lobby about one accepted connection,    *)
(* whatever the order in which the io threads run: the session opens once, *)
(* is torn down once, and the batches of packets handed to the parser are  *)
(* those of the peer, in order; a batch may be missing only in front of    *)
(* the first one that was handed over or after the last.                   *)
(* Connection.tla implements this module.                                  *)
(***************************************************************************)
EXTENDS Naturals

VARIABLES
  phase,   \* "idle", "open", "closing", "closed"
  last     \* number of the last batch handed to the parser, 0 if none

sessionVars == <<phase, last>>

Init ==
  /\ phase = "idle"
  /\ last = 0

Open ==
  /\ phase = "idle"
  /\ phase' = "open"
  /\ UNCHANGED last

\* Hand a batch over.  Only the first one may follow batches that were lost.
Deliver ==
  /\ phase = "open"
  /\ last' \in Nat
  /\ last' > last
  /\ last # 0 => last' = last + 1
  /\ UNCHANGED phase

Hang ==
  /\ phase = "open"
  /\ phase' = "closing"
  /\ UNCHANGED last

Close ==
  /\ phase \in {"open", "closing"}
  /\ phase' = "closed"
  /\ UNCHANGED last

Next ==
  \/ Open
  \/ Deliver
  \/ Hang
  \/ Close

SessionSpec == Init /\ [][Next]_sessionVars
=============================================================================
