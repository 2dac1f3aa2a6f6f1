---------------------------- MODULE StatusGraph ----------------------------
(***************************************************************************)
(* What ProcessStateMachineService promises of the status of a lawsuit,    *)
(* whoever calls it and however the calls interleave: the lawsuit is       *)
(* created at First; a call reads the status and holds what it read; a     *)
(* change along the table is made from a status that some call holds AND   *)
(* the lawsuit still has; a status that is only written back may be any    *)
(* one that is still held.  ProcessPipeline implements this.               *)
(***************************************************************************)
CONSTANTS
    Statuses,  \* the names of the table
    Table,     \* [Statuses -> SUBSET Statuses], ALLOWED_TRANSITIONS
    Absent,    \* before the lawsuit exists
    First,     \* the status a lawsuit is created with
    Older      \* the statuses of the records that exist at the start

VARIABLES
    status,  \* processStatus.name
    held     \* the statuses that calls have read and not yet acted on

graphVars == <<status, held>>

GraphInit == status \in Older \cup {Absent} /\ held = {}

\* A call that is done, or is gone, holds nothing any more.
Releases == held' \in SUBSET held

Create == status = Absent /\ status' = First /\ Releases

\* findById.
Read == status \in Statuses /\ held' = held \cup {status} /\ UNCHANGED status

\* A call throws, dies, or patches what is not the name.
GiveUp == Releases /\ UNCHANGED status

\* findOneAndUpdate on the status read.
CompareAndSet ==
    status \in held /\ status' \in Table[status] /\ Releases

\* findByIdAndUpdate with the name read, whatever it is by now.
WriteBack == status' \in held /\ Releases

GraphNext == Create \/ Read \/ GiveUp \/ CompareAndSet \/ WriteBack

GraphSpec == GraphInit /\ [][GraphNext]_graphVars
=============================================================================
