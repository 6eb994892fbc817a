------------------------------ MODULE Schedulers ------------------------------
(***************************************************************************)
(* How the push and the extraction scheduler are started, stopped and set  *)
(* anew (services/scheduler.rs, and the requests that do so of             *)
(* handlers/push.rs and handlers/resource.rs); what their ticks do is in   *)
(* PushEngine and Collection.                                              *)
(*                                                                         *)
(* A request saves the options, reads them, stops the scheduler and starts *)
(* it, each under a lock of its own.  Stopping cancels the worker and then *)
(* aborts it: one that was running just then and has seen the cancellation *)
(* clears the scheduler's state when it gets the lock.                     *)
(***************************************************************************)
EXTENDS Naturals, FiniteSets

CONSTANTS
  Tuners,        \* requests open at a time
  Intervals,     \* the minutes a request may ask for
  NoWorker,
  MaxWorkers, MaxTunings, MaxCuts, MaxBoots   \* bounds

ASSUME SchedulerAssumption ==
  /\ Intervals \subseteq Nat /\ NoWorker \notin Nat
  /\ MaxWorkers \in Nat \ {0} /\ {MaxTunings, MaxCuts, MaxBoots} \subseteq Nat

VARIABLES
  scheduler,   \* "push" or "extract"
  option,      \* the options: on or off, and the interval
  running,     \* SchedulerState
  handle,
  workers,     \* the tasks that were spawned
  tuning,      \* the requests
  tuned,       \* a request was answered since the start of the process
  overlapped,  \* two requests were open at a time, and none alone since
  unfinished,  \* a request ended half-way, and none was answered alone since
  cleared,     \* an old worker cleared the state of a new one, and no request came since
  strays,      \* the workers whose state was cleared
  tunings, cuts, boots

outcomes  == <<tuned, overlapped, unfinished, cleared, strays>>
counters  == <<tunings, cuts, boots>>
stateVars == <<running, handle>>
schedVars == <<scheduler, option, stateVars, workers, tuning, outcomes, counters>>

WorkerIds == 1..MaxWorkers
Unborn    == [at |-> "unborn", minutes |-> 0]
Untuned   == [at |-> "idle", on |-> FALSE, minutes |-> 0, solo |-> TRUE]

SchedulerTypeOK ==
  /\ scheduler \in {"push", "extract"}
  /\ option \in [on : BOOLEAN, minutes : Intervals]
  /\ running \in BOOLEAN /\ handle \in WorkerIds \cup {NoWorker}
  /\ \A k \in WorkerIds : workers[k].at \in {"unborn", "sleep", "tick", "leaving", "gone"}
  /\ \A r \in Tuners : tuning[r].at \in {"idle", "read", "stop", "start"}

Looping(k) == workers[k].at \in {"sleep", "tick"}

\* What the boot makes of the options: the push always, the extraction when it
\* is on, whatever its interval (main.rs).
BootStarts == scheduler = "push" \/ option.on

\* A worker: the push ticks every minute.
Born(minutes) == [at |-> "sleep", minutes |-> IF scheduler = "push" THEN 1 ELSE minutes]

SchedulerInit ==
  /\ scheduler \in {"push", "extract"}
  /\ option \in [on : BOOLEAN, minutes : Intervals]
  /\ running = BootStarts /\ handle = IF BootStarts THEN 1 ELSE NoWorker
  /\ workers = [k \in WorkerIds |-> IF k = 1 /\ BootStarts THEN Born(option.minutes) ELSE Unborn]
  /\ tuning = [r \in Tuners |-> Untuned]
  /\ tuned = FALSE /\ overlapped = FALSE /\ unfinished = FALSE /\ cleared = FALSE /\ strays = {}
  /\ tunings = 0 /\ cuts = 0 /\ boots = 0

\* The next task to be spawned.
IsNext(k) == /\ workers[k].at = "unborn"
             /\ \A j \in WorkerIds : workers[j].at = "unborn" => k <= j

\* No request is open; or the open ones meet another.
Alone   == \A r \in Tuners : tuning[r] = Untuned
Crossed == [r \in Tuners |-> IF tuning[r] = Untuned THEN Untuned ELSE [tuning[r] EXCEPT !.solo = FALSE]]

-----------------------------------------------------------------------------
(* The workers *)

Tick(k) ==
  /\ Looping(k)
  /\ workers' = [workers EXCEPT ![k].at = IF @ = "sleep" THEN "tick" ELSE "sleep"]
  /\ UNCHANGED <<scheduler, option, stateVars, tuning, outcomes, counters>>

\* The end of a worker that has seen the cancellation, whose ever the state is by now.
Exit(k) ==
  /\ workers[k].at = "leaving"
  /\ workers' = [workers EXCEPT ![k].at = "gone"]
  /\ running' = FALSE /\ handle' = NoWorker
  /\ strays' = IF handle = NoWorker THEN strays ELSE strays \cup {handle}
  /\ cleared' = (cleared \/ handle # NoWorker)
  /\ UNCHANGED <<scheduler, option, tuning, tuned, overlapped, unfinished, counters>>

\* Mutant: the flag stays.
StopStill ==
  /\ \E seen \in BOOLEAN :
       workers' = IF handle = NoWorker THEN workers
                  ELSE [workers EXCEPT ![handle].at =
                          IF seen /\ @ = "sleep" THEN "leaving" ELSE "gone"]
  /\ handle' = NoWorker
  /\ UNCHANGED running

\* stop_scheduler, stop_extract_scheduler: cancel and abort; a worker in its
\* tick does not see the one before the other.
Stop ==
  /\ \E seen \in BOOLEAN :
       workers' = IF handle = NoWorker THEN workers
                  ELSE [workers EXCEPT ![handle].at =
                          IF seen /\ @ = "sleep" THEN "leaving" ELSE "gone"]
  /\ handle' = NoWorker
  /\ running' = FALSE

-----------------------------------------------------------------------------
(* update_scheduler, update_extract_config *)

\* The keys of the request, one after the other; a later one may fail.
Save(r) ==
  /\ tuning[r] = Untuned
  /\ tunings < MaxTunings /\ tunings' = tunings + 1
  /\ \E on \in BOOLEAN, minutes \in Intervals :
       \/ /\ option' = [on |-> on, minutes |-> minutes]
          /\ tuning' = [Crossed EXCEPT ![r] = [Untuned EXCEPT !.at = "read", !.solo = Alone]]
          /\ overlapped' = (overlapped \/ ~Alone)
          /\ UNCHANGED <<unfinished, cuts>>
       \/ /\ cuts < MaxCuts /\ cuts' = cuts + 1
          /\ option' = [option EXCEPT !.on = on]
          /\ tuning' = Crossed /\ unfinished' = TRUE
          /\ UNCHANGED overlapped
  /\ UNCHANGED <<scheduler, stateVars, workers, tuned, cleared, strays, boots>>

\* What the options are by now.
ReadOptions(r) ==
  /\ tuning[r].at = "read"
  /\ tuning' = [tuning EXCEPT ![r].at = "stop", ![r].on = option.on,
                              ![r].minutes = option.minutes]
  /\ UNCHANGED <<scheduler, option, stateVars, workers, outcomes, counters>>

\* A request is answered: if it met no other, its word counts.
TuningEnds(r) ==
  /\ tuning' = [tuning EXCEPT ![r] = Untuned]
  /\ tuned' = TRUE
  /\ overlapped' = (overlapped /\ ~tuning[r].solo)
  /\ unfinished' = (unfinished /\ ~tuning[r].solo)
  /\ cleared' = (cleared /\ ~tuning[r].solo)

StopForRequest(r) ==
  /\ tuning[r].at = "stop"
  /\ Stop
  /\ IF tuning[r].on /\ tuning[r].minutes > 0
     THEN /\ tuning' = [tuning EXCEPT ![r].at = "start"]
          /\ UNCHANGED <<tuned, overlapped, unfinished, cleared>>
     ELSE TuningEnds(r)
  /\ UNCHANGED <<scheduler, option, strays, counters>>

\* start_scheduler, start_extract_scheduler: nothing if it says it runs.
StartForRequest(r) ==
  /\ tuning[r].at = "start"
  /\ \/ running /\ UNCHANGED <<stateVars, workers>>
     \/ /\ ~running /\ running' = TRUE
        /\ \E k \in WorkerIds : /\ IsNext(k) /\ handle' = k
                               /\ workers' = [workers EXCEPT ![k] = Born(tuning[r].minutes)]
  /\ TuningEnds(r)
  /\ UNCHANGED <<scheduler, option, strays, counters>>

\* The client goes away: the request ends where it waits for a lock.
CutRequest(r) ==
  /\ tuning[r] # Untuned
  /\ cuts < MaxCuts /\ cuts' = cuts + 1
  /\ tuning' = [tuning EXCEPT ![r] = Untuned]
  /\ unfinished' = TRUE
  /\ UNCHANGED <<scheduler, option, stateVars, workers, tuned, overlapped, cleared, strays, tunings,
                 boots>>

\* The process ends and starts.
BootProcess ==
  /\ boots < MaxBoots /\ boots' = boots + 1
  /\ running' = BootStarts /\ handle' = IF BootStarts THEN 1 ELSE NoWorker
  /\ workers' = [k \in WorkerIds |-> IF k = 1 /\ BootStarts THEN Born(option.minutes) ELSE Unborn]
  /\ tuning' = [r \in Tuners |-> Untuned]
  /\ tuned' = FALSE /\ overlapped' = FALSE /\ unfinished' = FALSE /\ cleared' = FALSE /\ strays' = {}
  /\ UNCHANGED <<scheduler, option, tunings, cuts>>

-----------------------------------------------------------------------------
SchedulerNext ==
  \/ BootProcess
  \/ \E k \in WorkerIds : Tick(k) \/ Exit(k)
  \/ \E r \in Tuners :
       Save(r) \/ ReadOptions(r) \/ StopForRequest(r) \/ StartForRequest(r) \/ CutRequest(r)

SchedulerSpec == SchedulerInit /\ [][SchedulerNext]_schedVars

-----------------------------------------------------------------------------
(* Properties *)

WantedOn == IF tuned THEN option.on /\ option.minutes > 0 ELSE BootStarts

\* A worker that loops is the one the state knows, but for those whose state
\* an old worker has cleared.  When no request is open the scheduler runs as
\* the options say, with their interval, or as the boot decided, unless two
\* requests overlapped, one ended half-way, or an old worker came in between
\* (update_scheduler, update_extract_config, start_scheduler, stop_scheduler).
SchedulersAccounted ==
  /\ \A k \in WorkerIds : Looping(k) => handle = k \/ k \in strays
  /\ running <=> handle # NoWorker
  /\ \/ \E r \in Tuners : tuning[r] # Untuned
     \/ overlapped \/ unfinished \/ cleared
     \/ /\ running <=> WantedOn
        /\ running => /\ Looping(handle)
                      /\ scheduler = "extract" => workers[handle].minutes = option.minutes

=============================================================================
