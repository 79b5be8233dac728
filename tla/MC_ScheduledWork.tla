-------------------------- MODULE MC_ScheduledWork --------------------------
(* Instances of ScheduledWork for TLC. *)
EXTENDS ScheduledWork

\* A one-shot, and a watch before a cron entry.
OnlyOnce == <<"once">>
WatchAndCron == <<"every", "cron">>
EveryTwo == <<2, 0>>
EveryUnitAlone == <<1>>
=============================================================================
