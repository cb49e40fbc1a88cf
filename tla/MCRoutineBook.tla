---------------------------- MODULE MCRoutineBook ----------------------------
(***************************************************************************)
(* Three routines over a book of two pages, under every assignment of      *)
(* three names: one each, as the dispatcher gives them; one for two        *)
(* routines, as when a slot is handled twice or two blocks have no         *)
(* execution payload; one for all.                                         *)
(***************************************************************************)
EXTENDS RoutineBook

RoutinesMC == 1..3
WatchersMC == {"watcher"}
KeysMC == 1..3
=============================================================================
