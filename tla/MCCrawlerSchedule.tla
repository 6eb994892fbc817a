-------------------------- MODULE MCCrawlerSchedule --------------------------
(* The crawler's schedule for TLC: the slot of a run is chosen, so no        *)
(* symmetry is declared and the liveness property is checked in the same run. *)
EXTENDS CrawlerSchedule

=============================================================================
