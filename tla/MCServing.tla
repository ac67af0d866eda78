------------------------------ MODULE MCServing ------------------------------
(***************************************************************************)
(* What leaves the server: an export job and its file; the generated rows  *)
(* of a run with the answers made of them; and the published tiles. Every  *)
(* behaviour is one of the three, while the others are idle.               *)
(***************************************************************************)
EXTENDS ExportJob, LayerAnswers, PublishedTiles, TLC

CONSTANT utm

VARIABLE side

ExportIdle == Init /\ format = "geojson" /\ backend = "local"
TilesIdle == TilesInit /\ projectCrs = utm /\ ~linked

MCInit ==
  /\ side \in {"exports", "entities", "tiles"}
  /\ IF side = "exports" THEN Init ELSE ExportIdle
  /\ EntitiesInit
  /\ IF side = "tiles" THEN TilesInit ELSE TilesIdle

MCNext ==
  /\ UNCHANGED side
  /\ \/ side = "exports" /\ Next /\ UNCHANGED <<entityVars, tileVars>>
     \/ side = "entities" /\ EntitiesNext /\ UNCHANGED <<vars, tileVars>>
     \/ side = "tiles" /\ TilesNext /\ UNCHANGED <<vars, entityVars>>

MCSpec == MCInit /\ [][MCNext]_<<side, vars, entityVars, tileVars>>

\* Neither the threads nor the classes nor the results are told apart by a rule.
MCSymmetry ==
  Permutations(Threads) \cup Permutations(ZoneClasses) \cup Permutations(Results)
=============================================================================
