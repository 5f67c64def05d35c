---------------------------- MODULE SnapshotLine ----------------------------
(***************************************************************************)
(* What a file that is rewritten as a whole promises about the state it is *)
(* a snapshot of: whatever writes are coalesced, retried, fail or are lost *)
(* when the process ends, the file only moves forward along the states the *)
(* process went through, and a new process goes on from what the file      *)
(* holds, or afresh when it could not read it.                             *)
(***************************************************************************)
EXTENDS Naturals, Sequences

CONSTANTS
  Continues(_, _),  \* Continues(file, s): s goes on from what the file holds
  Fresh(_)          \* Fresh(s): s goes on from nothing

VARIABLES
  line,  \* the states this process went through, the one it started with first
  file,  \* the state the file holds
  at     \* which of this process's states that is, 0 when an earlier process's

\* The process moves on to another state.
Change ==
  /\ Len(line') = Len(line) + 1
  /\ SubSeq(line', 1, Len(line)) = line
  /\ UNCHANGED <<file, at>>

\* The file takes a newer one of its states.
Save == at' \in at + 1 .. Len(line) /\ file' = line[at'] /\ line' = line

\* A new process starts; the file is as the last one left it.
Restart ==
  /\ Len(line') = 1 /\ file' = file
  /\ \/ at' = 1 /\ Continues(file, line'[1])
     \/ at' = 0 /\ Fresh(line'[1])

Init == Len(line) = 1 /\ at = 1 /\ file = line[1]

Spec == Init /\ [][Change \/ Save \/ Restart]_<<line, file, at>>
=============================================================================
