----------------------------- MODULE Maintenance -----------------------------
(***************************************************************************)
(* When maintenance runs: maintenance/scheduler.py, MaintenanceDaemon of   *)
(* maintenance/daemon.py, and the maintain commands of cli.py.             *)
(*                                                                         *)
(* The state file has the time of the last success of each routine.  It is *)
(* compared with the present day, week or month only, so that a mark is    *)
(* "never", in a "past" period, or in the "current" one.  A day ends at    *)
(* any moment, and may end its week and its month.                         *)
(***************************************************************************)
EXTENDS Structure

CONSTANTS Configs,     \* what a configuration may enable
          MaxCommands, MaxStops \* bounds

Routines == {"nightly", "weekly", "monthly"}

ASSUME CallerAssumption == "daemon" \in Callers
ASSUME ConfigAssumption == Configs \subseteq SUBSET Routines

VARIABLES
  enabled,  \* [maintenance] of the configuration
  mark,     \* maintenance_state.json
  daemon,   \* where the daemon is in its loop
  due,      \* the routines that it found to be due and has not finished
  late,     \* the callers whose routine began in an earlier period
  brief,    \* the routines whose brief of the current period is there
  overrun,  \* history: those whose mark is from a run that began in an earlier period
  calls,    \* bound: commands
  stops     \* bound: ends of the daemon

clock == <<mark, brief, late, overrun>>
process == <<enabled, daemon, due, calls, stops>>
vars == <<graphVars, clock, process>>

-----------------------------------------------------------------------------
Init ==
  /\ GraphInit
  /\ enabled \in Configs
  /\ mark = [r \in Routines |-> "never"]
  /\ daemon = "off" /\ due = <<>>
  /\ late = {} /\ brief = {} /\ overrun = {}
  /\ calls = 0 /\ stops = 0

\* A day ends, the routines whose period ends with it, and no other day's run is marked.
NewDay(ends) ==
  /\ "nightly" \in ends
  /\ mark' = [r \in Routines |-> IF r \in ends /\ mark[r] = "current" THEN "past" ELSE mark[r]]
  /\ brief' = brief \ ends
  /\ overrun' = overrun \ ends
  /\ late' = late \cup {p \in Callers : pass[p].job \in ends}
  /\ pass' = [p \in Callers |-> [pass[p] EXCEPT !.dated = FALSE]]
  /\ UNCHANGED <<knowledge, note, shown, pending, raced, bounds, process>>

(***************************************************************************)
(* The daemon's loop                                                       *)
(***************************************************************************)

\* run_forever: recovery, the daemon lock, and then the loop.
StartDaemon ==
  /\ daemon = "off"
  /\ daemon' = "inbox"
  /\ UNCHANGED <<graphVars, clock, enabled, due, calls, stops>>

\* A crash, a stop, or an exception from process_inbox, which nothing catches.
DaemonEnds ==
  /\ daemon # "off" /\ stops < MaxStops
  /\ daemon' = "off" /\ due' = <<>> /\ stops' = stops + 1
  /\ pass' = [pass EXCEPT !["daemon"] = Idle]
  /\ late' = late \ {"daemon"}
  /\ UNCHANGED <<knowledge, note, shown, pending, raced, bounds, mark, brief, overrun,
                 enabled, calls>>

ProcessInbox ==
  /\ daemon = "inbox"
  /\ daemon' = "due"
  /\ UNCHANGED <<graphVars, clock, enabled, due, calls, stops>>

\* Mutant: a routine is due only until it has run for the first time.
DueUntilRun(r) == r \in enabled /\ mark[r] = "never"

\* _nightly_due, _weekly_due and _monthly_due
IsDue(r) == r \in enabled /\ mark[r] # "current"

IfDue(r) == IF IsDue(r) THEN <<r>> ELSE <<>>

\* What is due is found once, before any of it runs.
FindDue ==
  /\ daemon = "due"
  /\ due' = IfDue("nightly") \o IfDue("weekly") \o IfDue("monthly")
  /\ daemon' = IF due' = <<>> THEN "inbox" ELSE "next"
  /\ UNCHANGED <<graphVars, clock, enabled, calls, stops>>

FirstStep(r) ==
  CASE r = "nightly" -> "read" [] r = "weekly" -> "findings" [] r = "monthly" -> "brief"

Begins(p, r) ==
  /\ pass' = [pass EXCEPT ![p] = [Idle EXCEPT !.at = FirstStep(r), !.job = r]]
  /\ late' = late \ {p}
  /\ UNCHANGED <<knowledge, note, shown, pending, raced, bounds, mark, brief, overrun>>

BeginRoutine ==
  /\ daemon = "next"
  /\ daemon' = "busy"
  /\ Begins("daemon", Head(due))
  /\ UNCHANGED <<enabled, due, calls, stops>>

\* Mutant: a routine that has failed is marked as well.
MarkedAnyway(at) == TRUE

\* mark_success, with the time of completion; a failure is only logged.
Marked(at) == at = "done"

FinishRoutine ==
  LET r == Head(due) IN
  /\ daemon = "busy" /\ pass["daemon"].at \in {"done", "failed"}
  /\ IF Marked(pass["daemon"].at)
     THEN /\ mark' = [mark EXCEPT ![r] = "current"]
          /\ overrun' = IF "daemon" \in late THEN overrun \cup {r} ELSE overrun
     ELSE UNCHANGED <<mark, overrun>>
  /\ due' = Tail(due)
  /\ daemon' = IF due' = <<>> THEN "inbox" ELSE "next"
  /\ pass' = [pass EXCEPT !["daemon"] = Idle]
  /\ late' = late \ {"daemon"}
  /\ UNCHANGED <<knowledge, note, shown, pending, raced, bounds, brief, enabled, calls, stops>>

(***************************************************************************)
(* The maintain commands, which mark nothing                               *)
(***************************************************************************)

BeginCommand(p, r) ==
  /\ p # "daemon" /\ pass[p].at = "idle" /\ calls < MaxCommands
  /\ calls' = calls + 1
  /\ Begins(p, r)
  /\ UNCHANGED <<enabled, daemon, due, stops>>

\* The command ends, or is killed.
EndCommand(p) ==
  /\ p # "daemon" /\ pass[p].at # "idle"
  /\ pass' = [pass EXCEPT ![p] = Idle]
  /\ late' = late \ {p}
  /\ UNCHANGED <<knowledge, note, shown, pending, raced, bounds, mark, brief, overrun, process>>

(***************************************************************************)
(* The steps of a routine                                                  *)
(***************************************************************************)

\* The daily brief has the date of the day when it was made.
DailyBrief(p) ==
  /\ WritePages(p)
  /\ brief' = IF pass[p].dated THEN brief \cup {"nightly"} ELSE brief
  /\ UNCHANGED <<mark, late, overrun, process>>

\* Those of a week and a month have the time at which the routine began.
PeriodBrief(p) ==
  /\ WriteBrief(p)
  /\ brief' = IF p \in late THEN brief ELSE brief \cup {pass[p].job}
  /\ UNCHANGED <<mark, late, overrun, process>>

Proceeds(p) == Works(p) /\ UNCHANGED <<clock, process>>

Advances(p) == DailyBrief(p) \/ PeriodBrief(p) \/ Proceeds(p)

DaemonLoop == ProcessInbox \/ FindDue \/ BeginRoutine \/ FinishRoutine \/ Advances("daemon")

CommandGoesOn == \E p \in Callers \ {"daemon"} : EndCommand(p) \/ Advances(p)

Next ==
  \/ \E ends \in SUBSET Routines : NewDay(ends)
  \/ StartDaemon \/ DaemonEnds \/ DaemonLoop
  \/ \E p \in Callers, r \in Routines : BeginCommand(p, r)
  \/ CommandGoesOn
  \/ \E p \in Callers : Fails(p) /\ UNCHANGED <<clock, process>>
  \/ Others /\ UNCHANGED <<clock, process>>

Spec == Init /\ [][Next]_vars

\* Time passes, the loop goes on, and so does a command; a daemon that has ended is
\* started again.
Fairness ==
  /\ WF_vars(NewDay(Routines)) /\ WF_vars(StartDaemon) /\ WF_vars(DaemonLoop)
  /\ WF_vars(CommandGoesOn)

FairSpec == Spec /\ Fairness

-----------------------------------------------------------------------------
Places == {"idle", "read", "pages", "overtaken", "graph", "texts", "hashes", "link", "maps",
           "draw", "findings", "choose", "stage", "audit", "brief", "done", "failed"}

\* The values of the variables, and what a caller does at which place.
TypeOK ==
  /\ known \subseteq Concepts /\ home \cup map \subseteq Concepts /\ rels \subseteq Relations
  /\ \A o \in Objects : /\ note[o].text \in 0 .. MaxText /\ note[o].block \subseteq Objects
                        /\ note[o] = Absent <=> o \notin known \cup Sources
  /\ \A i \in pending : i.by \in Callers
  /\ \A p \in Callers : /\ pass[p].at \in Places /\ pass[p].job \in Routines \cup {"none"}
                        /\ pass[p].staged \in 0 .. Limit
  /\ daemon \in {"off", "inbox", "due", "next", "busy"}
  /\ pass["daemon"].at # "idle" <=> daemon = "busy"
  /\ daemon \in {"next", "busy"} <=> due # <<>>
  /\ daemon = "busy" => pass["daemon"].job = Head(due)
  /\ mark \in [Routines -> {"never", "past", "current"}]
  /\ late \subseteq Callers /\ brief \cup overrun \subseteq Routines

\* mark_success: a routine whose mark is in this period has left the brief of this period,
\* unless its run began in the period before, and so the brief of this one is skipped.
SkippedOnlyByOverrun ==
  \A r \in Routines : mark[r] = "current" => r \in brief \cup overrun

\* due and run_once: however often it fails or the daemon ends, what is enabled is made up
\* for.
RoutineMadeUp == \A r \in Routines : []<>(r \in enabled => mark[r] = "current")

\* NightlyMaintenance.run: if knowledge is left alone, a note with relations links to all
\* that it is related to in the end, and to nothing else, and the brief and the maps list
\* the concepts that they are to list and none that is gone, whatever failed or conflicted.
GraphCatchesUp ==
  <>[]("nightly" \in enabled =>
         /\ home \in Briefs /\ map = Mapped
         /\ \A o \in known \cup Sources :
              LET related == {d \in known \cup Sources :
                                \E r \in rels : {From[r], To[r]} = {o, d}}
              IN  related # {} => note[o].block = related)

\* generate_proposals: the findings that stay are all pending in the end, although a run
\* stages Limit items only, as long as reviewers do not go on rejecting them.
EveryFindingProposed ==
  <>[]("weekly" \in enabled => Findings \subseteq {i.of : i \in pending})
=============================================================================
