----------------------------- MODULE MCMigrator -----------------------------
(* Builds for Migrator: an old and a new one, and a new one whose second    *)
(* file was edited after others may have applied it.                        *)
EXTENDS Migrator, TLC

CONSTANTS old, new, edited, plain, changed

MCFile ==
    (old :> <<plain, NoSum, NoSum>>)
    @@ (new :> <<plain, plain, plain>>)
    @@ (edited :> <<plain, changed, NoSum>>)
=============================================================================
