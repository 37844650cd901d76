------------------------- MODULE MCTransitionJournal -------------------------
(***************************************************************************)
(* TransitionJournal for TLC.  The cfgs bound two deployments, their       *)
(* ordinals, positions and crashes, with a retention of one event, so that *)
(* every maintenance compacts.  TransitionJournal.cfg also trims the raw   *)
(* commits to two; TransitionJournalReopen.cfg keeps more than the bounds  *)
(* allow, so that only the wipe of compact_event_history takes one.        *)
(*                                                                         *)
(* The property below is what the documentation says of the store and the  *)
(* code does not keep.                                                     *)
(***************************************************************************)
EXTENDS TransitionJournal

\* A store left by a crash can be opened again (README.md: "Restart completes
\* unacknowledged intents").  A compaction breaks it.
StoreReopens == mode # "failed"
=============================================================================
