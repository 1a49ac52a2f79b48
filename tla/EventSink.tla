------------------------------ MODULE EventSink ------------------------------
(***************************************************************************)
(* What the database writer promises the engines that stream rows through  *)
(* it (persistence/writer.py, engines/db_writer/service.py): a LOSSY sink, *)
(* never a duplicating one.  A row goes from "unsent" to exactly one of    *)
(*                                                                         *)
(*   stored   once, under its natural key: only a row the table accepts    *)
(*   parked   in db_writer_dead_letter: only a row no table accepts        *)
(*   lost     Redis pub/sub, a full queue, a malformed frame, an outage    *)
(*            longer than the retries, or a killed process ate it          *)
(*                                                                         *)
(* and never leaves it again: a lost row does not come back, a stored one  *)
(* is not parked as well.  Several rows may move in one step: a bulk       *)
(* INSERT commits its rows together, and its last failed attempt gives up  *)
(* the rest of the batch.                                                  *)
(***************************************************************************)

CONSTANTS Rows,     \* the rows the engines publish
          Valid     \* those a table of the schema accepts

VARIABLE status     \* row -> where it is

\* Where r may be after a step.
Moves(r) ==
  CASE status[r] = "unsent"   -> {"unsent", "inflight", "lost"}
    [] status[r] = "inflight" -> {"inflight", "lost", IF r \in Valid THEN "stored" ELSE "parked"}
    [] OTHER                  -> {status[r]}

SinkInit == status = [r \in Rows |-> "unsent"]

SinkNext == /\ DOMAIN status' = Rows
            /\ \A r \in Rows : status'[r] \in Moves(r)

Spec == SinkInit /\ [][SinkNext]_status
=============================================================================
