----------------------------- MODULE Scheduler -----------------------------
(***************************************************************************)
(* schedulerThread of ileastic.c and the SIGTERM handler: the thread wakes *)
(* up every second, calls the scheduler plugin when its time has come or   *)
(* when the job is to end, and ends the process.  The flag may be raised   *)
(* between any two steps of the thread.                                    *)
(***************************************************************************)
EXTENDS Naturals

CONSTANTS
  Plugins,   \* whether il_setSchedulerPlugin was called: a subset of BOOLEAN
  Timer      \* pConfig->schedulerTimer, below 100000 (above, Plugins = {FALSE})

ASSUME SchedulerAssumption ==
  /\ Plugins \subseteq BOOLEAN
  /\ Timer \in Nat

VARIABLES
  process,       \* "up", or why it ended: "sigterm", "off" or "failure"
  plugin,        \* pConfig->scheduler is set
  shutdownFlag,
  scheduler,     \* where schedulerThread is
  sec,           \* its counter
  gap,           \* history: seconds since the last call (or the start)
  raised,        \* history: where schedulerThread was when SIGTERM came
  finalCall      \* history: the plugin was called with shutdownFlag set

schedulerVars == <<plugin, shutdownFlag, scheduler, sec, gap, raised, finalCall>>
vars == <<process, schedulerVars>>

Up == process = "up"

Init ==
  /\ process = "up"
  /\ plugin \in Plugins
  /\ shutdownFlag = FALSE
  /\ scheduler = "sleep"
  /\ sec = 0
  /\ gap = 0
  /\ raised = "never"
  /\ finalCall = FALSE

(* The handler of SIGTERM. *)
catcher ==
  /\ Up
  /\ ~shutdownFlag
  /\ shutdownFlag' = TRUE
  /\ raised' = scheduler
  /\ UNCHANGED <<process, plugin, scheduler, sec, gap, finalCall>>

(* sleep(1) is over. *)
Tick ==
  /\ Up
  /\ scheduler = "sleep"
  /\ scheduler' = "test"
  /\ gap' = IF plugin THEN gap + 1 ELSE gap
  /\ UNCHANGED <<process, plugin, shutdownFlag, sec, raised, finalCall>>

(* The condition of the call; || leaves sec alone when the flag is set. *)
Due == plugin /\ (shutdownFlag \/ sec > Timer)

(* Mutant: the flag does not make the call due. *)
TestScheduleByTimeOnly ==
  /\ Up
  /\ scheduler = "test"
  /\ scheduler' = IF plugin /\ sec > Timer THEN "call" ELSE "exitTest"
  /\ sec' = IF plugin THEN sec + 1 ELSE sec
  /\ UNCHANGED finalCall
  /\ UNCHANGED <<process, plugin, shutdownFlag, gap, raised>>

TestSchedule ==
  /\ Up
  /\ scheduler = "test"
  /\ scheduler' = IF Due THEN "call" ELSE "exitTest"
  /\ sec' = IF plugin /\ ~shutdownFlag THEN sec + 1 ELSE sec
  /\ finalCall' = (finalCall \/ (Due /\ shutdownFlag))
  /\ UNCHANGED <<process, plugin, shutdownFlag, gap, raised>>

(* Mutant: sec is not reset. *)
PluginReturnsKeepsCounting(run) ==
  /\ Up
  /\ scheduler = "call"
  /\ IF run THEN /\ scheduler' = "exitTest"
                 /\ gap' = 0
                 /\ UNCHANGED <<process, sec>>
            ELSE /\ process' = "off"
                 /\ UNCHANGED <<scheduler, sec, gap>>
  /\ UNCHANGED <<plugin, shutdownFlag, raised, finalCall>>

(* The plugin returns; *OFF ends the process. *)
PluginReturns(run) ==
  /\ Up
  /\ scheduler = "call"
  /\ IF run THEN /\ scheduler' = "exitTest"
                 /\ sec' = 0
                 /\ gap' = 0
                 /\ UNCHANGED process
            ELSE /\ process' = "off"
                 /\ UNCHANGED <<scheduler, sec, gap>>
  /\ UNCHANGED <<plugin, shutdownFlag, raised, finalCall>>

(* Mutant: the flag is tested only where the plugin is called. *)
ExitTestForgets ==
  /\ Up
  /\ scheduler = "exitTest"
  /\ scheduler' = "sleep"
  /\ UNCHANGED <<process, plugin, shutdownFlag, sec, gap, raised, finalCall>>

ExitTest ==
  /\ Up
  /\ scheduler = "exitTest"
  /\ IF shutdownFlag THEN process' = "sigterm" /\ UNCHANGED scheduler
                     ELSE scheduler' = "sleep" /\ UNCHANGED process
  /\ UNCHANGED <<plugin, shutdownFlag, sec, gap, raised, finalCall>>

schedulerThread ==
  Tick \/ TestSchedule \/ (\E run \in BOOLEAN : PluginReturns(run)) \/ ExitTest

-----------------------------------------------------------------------------
(* Properties.                                                             *)

(* Every variable has its type, and the counter stays small. *)
SchedulerTypeOK ==
  /\ process \in {"up", "sigterm", "off", "failure"}
  /\ plugin \in BOOLEAN
  /\ shutdownFlag \in BOOLEAN
  /\ scheduler \in {"sleep", "test", "call", "exitTest"}
  /\ sec \in 0..(Timer + 2)
  /\ gap \in 0..(Timer + 2)
  /\ raised \in {"never", "sleep", "test", "call", "exitTest"}
  /\ finalCall \in BOOLEAN

(* When SIGTERM comes while the thread sleeps or before it has tested the  *)
(* flag, the plugin is called once more before the process ends.           *)
FinalCall ==
  process = "sigterm" /\ plugin /\ raised \in {"sleep", "test"} => finalCall

(* SIGTERM ends the process, whatever the plugin answers. *)
ShutdownEnds == shutdownFlag ~> ~Up

(* What an example says: examples/scheduler.rpgle:19 "handles gracefull    *)
(* termination and calls the scheduler just before termination": no second *)
(* passes between the last call and the end.                               *)
CalledBeforeTermination == process = "sigterm" /\ plugin => gap = 0
=============================================================================
