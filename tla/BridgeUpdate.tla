---------------------------- MODULE BridgeUpdate ----------------------------
(***************************************************************************)
(* The updater of the bridge command line: it replaces the running bridge  *)
(* runtimes of a computer by a newly staged release, and rolls back to the *)
(* captured one when any step fails (update-transaction.ts activateUpdate, *)
(* with the targets of update.ts createUpdateTarget).                      *)
(*                                                                         *)
(* A target is a saved runtime.  It runs at most a process of the captured *)
(* release ("old") and one of the staged release ("new"); a process is     *)
(* starting until it has published its owner record (runtime-owner.ts),    *)
(* then up, and leaving once it was told to stop and has not exited.  The  *)
(* live owner of a target is the process that is up or leaving.  Every     *)
(* wait of the updater has a deadline, so that it may give up at any time; *)
(* runtimes may die at any time.                                           *)
(***************************************************************************)
EXTENDS Naturals

CONSTANTS Targets,   \* the saved runtimes of the update's scope
          Backend,   \* the kind of each
          Nothing    \* no release, no target

Releases == {"old", "new"}

\* UpdateResult: a state, and the reason of a failed one.
Results == {"updated", "stopped", "restored", "stop_unverified",
            "replacement_stop_unverified", "restore_unverified",
            "registration_update_unverified", "update_not_applied"}

ASSUME BackendAssumption ==
  /\ Backend \in [Targets -> {"agent", "local-model", "openclaw"}]
  /\ Nothing \notin Targets \cup Releases \cup Results

ProcessStates == {"none", "starting", "up", "leaving"}

VARIABLES
  proc,        \* of each target and release, the state of its process
  managed,     \* of an OpenClaw service: the release its manager keeps alive
  ran,         \* the targets that ran when the updater captured them
  phase,       \* where activateUpdate stands
  target,      \* the target a call is awaited for
  expected,    \* of each target, expectedEntry
  captured,    \* of each target, the `owner` its closure holds
  stopped, started, undone,     \* the targets each loop is through with
  outcome,     \* what the updater reports of each target
  \* what a reader of the report would want to know of the past
  told,        \* targets whose runtime was asked to stop
  died,        \* targets whose runtime has died unasked
  overlooked   \* targets that stop() took for gone while one was on its way

runtimes == <<proc, managed>>
updater  == <<ran, phase, target, expected, captured, stopped, started, undone, outcome>>
past     == <<told, died, overlooked>>
vars     == <<proc, managed, ran, phase, target, expected, captured, stopped,
              started, undone, outcome, told, died, overlooked>>

-----------------------------------------------------------------------------
(* Processes, records and orders.                                          *)

Lives(t, r) == proc[t][r] \in {"up", "leaving"}

\* liveOwner: the release named by a record whose process is alive.
Owner(t) == IF Lives(t, "new") THEN "new" ELSE IF Lives(t, "old") THEN "old" ELSE Nothing

Idle == [r \in Releases |-> "none"]

\* Independent agents stop first, the shared service starts last.
StopRank(t)  == IF Backend[t] = "openclaw" THEN 1 ELSE 0
StartRank(t) == IF Backend[t] = "openclaw" THEN 2 ELSE 0

FirstToStop(S)  == {t \in S : \A u \in S : StopRank(t) <= StopRank(u)}
FirstToStart(S) == {t \in S : \A u \in S : StartRank(t) <= StartRank(u)}
LastToStart(S)  == {t \in S : \A u \in S : StartRank(u) <= StartRank(t)}

\* A target whose replacement could not be stopped is left alone.
FailedStops == {t \in Targets : outcome[t] = "replacement_stop_unverified"}

ToStop    == IF phase = "stop" THEN FirstToStop(ran \ stopped)
             ELSE IF phase = "undo" THEN LastToStart(started \ undone) ELSE {}
ToStart   == IF phase = "start" THEN FirstToStart(stopped \ started) ELSE {}
ToRestoreAll == {t \in stopped : outcome[t] \notin {"restored", "restore_unverified"}}
ToRestore == {t \in stopped \ FailedStops :
                outcome[t] \notin {"restored", "restore_unverified"}}
Restoring == IF phase = "restore" THEN FirstToStart(ToRestore) ELSE {}

Init ==
  /\ ran \in SUBSET Targets
  /\ proc = [t \in Targets |->
               [r \in Releases |-> IF t \in ran /\ r = "old" THEN "up" ELSE "none"]]
  /\ managed = [t \in Targets |->
                  IF t \in ran /\ Backend[t] = "openclaw" THEN "old" ELSE Nothing]
  /\ phase = "preflight" /\ target = Nothing
  /\ expected = [t \in Targets |-> "old"]
  /\ captured = [t \in Targets |-> IF t \in ran THEN "alive" ELSE "none"]
  /\ stopped = {} /\ started = {} /\ undone = {}
  /\ outcome = [t \in Targets |-> Nothing]
  /\ told = {} /\ died = {} /\ overlooked = {}

-----------------------------------------------------------------------------
(* The runtimes.                                                           *)

\* A starting process publishes its record, or exits when its target is owned.
ComesUp(t, r) ==
  /\ proc[t][r] = "starting"
  /\ proc' = [proc EXCEPT ![t][r] = IF Owner(t) = Nothing THEN "up" ELSE "none"]
  /\ UNCHANGED <<managed, updater, past>>

Exits(t, r) ==
  /\ proc[t][r] # "none"
  /\ proc' = [proc EXCEPT ![t][r] = "none"]
  /\ captured' = IF Owner(t) = r /\ captured[t] = "alive"
                 THEN [captured EXCEPT ![t] = "dead"] ELSE captured
  /\ died' = IF proc[t][r] = "up" THEN died \cup {t} ELSE died
  /\ UNCHANGED <<managed, ran, phase, target, expected, stopped, started, undone,
                 outcome, told, overlooked>>

\* launchd, systemd: KeepAlive, Restart=always.
ManagerRestarts(t) ==
  /\ managed[t] # Nothing
  /\ proc[t] = Idle
  /\ proc' = [proc EXCEPT ![t][managed[t]] = "starting"]
  /\ UNCHANGED <<managed, updater, past>>

-----------------------------------------------------------------------------
(* The targets' stop(), in the first loop and in the rollback.             *)

StopReturns(t) ==
  \/ /\ phase \in {"stop", "stopping"}
     /\ stopped' = stopped \cup {t} /\ phase' = "stop"
     /\ UNCHANGED undone
  \/ /\ phase \in {"undo", "undoing"}
     /\ undone' = undone \cup {t} /\ phase' = "undo"
     /\ UNCHANGED stopped

StopIsRetried(t) ==
  /\ \/ phase \in {"stop", "stopping"} /\ outcome' = [outcome EXCEPT ![t] = "stop_unverified"]
     \/ phase \in {"undo", "undoing"} /\ UNCHANGED outcome
  /\ phase' = "undo" /\ target' = Nothing
  /\ UNCHANGED <<ran, expected, captured, stopped, started, undone>>
StopThrows(t) ==
  /\ \/ /\ phase \in {"stop", "stopping"}
        /\ outcome' = [outcome EXCEPT ![t] = "stop_unverified"]
        /\ UNCHANGED undone
     \/ /\ phase \in {"undo", "undoing"}
        /\ outcome' = [outcome EXCEPT ![t] = "replacement_stop_unverified"]
        /\ undone' = undone \cup {t}
  /\ phase' = "undo" /\ target' = Nothing
  /\ UNCHANGED <<ran, expected, captured, stopped, started>>

\* The owner is told to stop; a service is first taken from its manager, which
\* ends what it was starting.
Told(t, r) == IF Lives(t, r) THEN "leaving"
              ELSE IF Backend[t] = "openclaw" THEN "none" ELSE proc[t][r]

Tell(t) ==
  /\ proc' = [proc EXCEPT ![t] = [r \in Releases |-> Told(t, r)]]
  /\ managed' = [managed EXCEPT ![t] = Nothing]
  /\ told' = told \cup {t}
  /\ UNCHANGED <<died, overlooked>>

AskToStop(t) ==
  /\ t \in ToStop
  /\ Owner(t) # Nothing /\ captured[t] # "dead"
  /\ Tell(t)
  /\ phase' = IF phase = "stop" THEN "stopping" ELSE "undoing"
  /\ target' = t
  /\ UNCHANGED <<ran, expected, captured, stopped, started, undone, outcome>>

\* The control call is refused or lost before the owner has heard it; or the
\* owner is not the captured one.
AskFails(t) ==
  /\ t \in ToStop
  /\ Owner(t) # Nothing
  /\ StopThrows(t)
  /\ UNCHANGED <<runtimes, past>>

\* The owner has heard it, but its answer is lost.
AnswerIsLost(t) ==
  /\ t \in ToStop
  /\ Owner(t) # Nothing /\ captured[t] # "dead"
  /\ Tell(t)
  /\ StopThrows(t)

\* waitForExit, forgetOwner.
OwnerHasExited ==
  /\ phase \in {"stopping", "undoing"}
  /\ Owner(target) = Nothing
  /\ StopReturns(target)
  /\ captured' = [captured EXCEPT ![target] = "none"]
  /\ target' = Nothing
  /\ UNCHANGED <<runtimes, past, ran, expected, started, outcome>>

OwnerDoesNotExit ==
  /\ phase \in {"stopping", "undoing"}
  /\ Owner(target) # Nothing
  /\ StopThrows(target)
  /\ UNCHANGED <<runtimes, past>>

\* The manager may run a replacement that has not registered yet.
StopUnregistered(t) ==
  /\ t \in ToStop
  /\ Owner(t) = Nothing /\ Backend[t] = "openclaw" /\ expected[t] = "new"
  /\ proc' = [proc EXCEPT ![t] = Idle]
  /\ managed' = [managed EXCEPT ![t] = Nothing]
  /\ captured' = [captured EXCEPT ![t] = "none"]
  /\ StopReturns(t)
  /\ UNCHANGED <<past, ran, target, expected, started, outcome>>

\* The probe of a service sees its processes; those of the other runtimes
\* are refused until a runtime listens.
Answers(t) == Backend[t] = "openclaw" /\ proc[t] # Idle

Probes(t) == /\ t \in ToStop
             /\ Owner(t) = Nothing
             /\ ~(Backend[t] = "openclaw" /\ expected[t] = "new")

\* It is answered, or fails otherwise than by being refused.
ProbeThrows(t) ==
  /\ Probes(t)
  /\ StopThrows(t)
  /\ UNCHANGED <<runtimes, past>>

ProbeIsRefused(t) ==
  /\ Probes(t) /\ ~Answers(t)
  /\ StopReturns(t)
  /\ overlooked' = IF proc[t] = Idle /\ managed[t] = Nothing
                   THEN overlooked ELSE overlooked \cup {t}
  /\ UNCHANGED <<runtimes, told, died, ran, target, expected, captured, started, outcome>>

-----------------------------------------------------------------------------
(* The targets' start() and verify(), in both loops.                        *)

\* installService registers release r: launchd unloads what it runs and loads r;
\* systemd starts r, unless the unit is active, which it leaves alone.  The other
\* runtimes are spawned, beside whatever runs.
Launched(left, r) == [left EXCEPT ![r] = IF @ = "none" THEN "starting" ELSE @]
Start(t, r) ==
  /\ \/ /\ Backend[t] = "openclaw"
        /\ proc' = [proc EXCEPT ![t] = Launched([q \in Releases |-> Told(t, q)], r)]
     \/ /\ Backend[t] = "openclaw" /\ managed[t] # Nothing /\ proc[t] # Idle
        /\ UNCHANGED proc
     \/ /\ Backend[t] # "openclaw"
        /\ proc' = [proc EXCEPT ![t] = Launched(@, r)]
  /\ managed' = IF Backend[t] = "openclaw" THEN [managed EXCEPT ![t] = r] ELSE managed
  /\ expected' = [expected EXCEPT ![t] = r]
  /\ target' = t
  /\ UNCHANGED past

StartReplacement(t) ==
  /\ t \in ToStart
  /\ Start(t, "new")
  /\ started' = started \cup {t}
  /\ phase' = "verify"
  /\ UNCHANGED <<ran, captured, stopped, undone, outcome>>

StartCaptured(t) ==
  /\ t \in Restoring
  /\ Start(t, "old")
  /\ phase' = "reverify"
  /\ UNCHANGED <<ran, captured, stopped, started, undone, outcome>>

\* The record names a live process of the expected release, and it answers.
AnyOwner(t) == Owner(t) # Nothing
Verified(t) == proc[t][expected[t]] = "up" /\ Owner(t) = expected[t]

VerifySucceeds ==
  /\ phase \in {"verify", "reverify"}
  /\ Verified(target)
  /\ captured' = [captured EXCEPT ![target] = "alive"]
  /\ \/ phase = "verify" /\ phase' = "start" /\ UNCHANGED outcome
     \/ /\ phase = "reverify" /\ phase' = "restore"
        /\ outcome' = [outcome EXCEPT ![target] = "restored"]
  /\ target' = Nothing
  /\ UNCHANGED <<runtimes, past, ran, expected, stopped, started, undone>>

\* start() throws, the deadline passes, another release owns the target, or a
\* question to the right one fails.  An agent that was not ready is sent a
\* SIGTERM, whose effect nobody awaits; a service may not have been loaded.
Killed(state) == IF state = "starting" THEN "none" ELSE IF state = "up" THEN "leaving" ELSE state
VerifyFails ==
  /\ phase \in {"verify", "reverify"}
  /\ \/ UNCHANGED proc
     \/ /\ Backend[target] = "agent"
        /\ proc' = [proc EXCEPT ![target][expected[target]] = Killed(@)]
  /\ \/ UNCHANGED managed
     \/ /\ proc'[target][expected[target]] = "none"
        /\ managed' = [managed EXCEPT ![target] = Nothing]
  /\ captured' \in IF Verified(target)
                   THEN {captured, [captured EXCEPT ![target] = "alive"]} ELSE {captured}
  /\ \/ phase = "verify" /\ phase' = "undo" /\ UNCHANGED outcome
     \/ /\ phase = "reverify" /\ phase' = "restore"
        /\ outcome' = [outcome EXCEPT ![target] = "restore_unverified"]
  /\ target' = Nothing
  /\ UNCHANGED <<past, ran, expected, stopped, started, undone>>

-----------------------------------------------------------------------------
(* activateUpdate between the calls.                                        *)

Moves(from, to) ==
  /\ phase = from /\ phase' = to
  /\ UNCHANGED <<runtimes, past, ran, target, expected, captured, stopped, started, undone>>

Preflight ==
  /\ \/ Moves("preflight", "done")
     \/ (\A t \in ran : captured[t] = "alive") /\ Moves("preflight", "stop")
  /\ UNCHANGED outcome

AllStopped == ran \subseteq stopped /\ Moves("stop", "start") /\ UNCHANGED outcome

AllStarted == stopped \subseteq started /\ Moves("start", "prepare") /\ UNCHANGED outcome

\* The registration of a stopped service cannot be rewritten.
PrepareFails(t) ==
  /\ t \notin ran /\ Backend[t] = "openclaw"
  /\ Moves("prepare", "undo")
  /\ outcome' = [outcome EXCEPT ![t] = "registration_update_unverified"]

Succeeds ==
  /\ Moves("prepare", "done")
  /\ outcome' = [t \in Targets |-> IF t \in ran THEN "updated" ELSE "stopped"]

AllUndone == started \subseteq undone /\ Moves("undo", "restore") /\ UNCHANGED outcome

Reports ==
  /\ ToRestore = {}
  /\ Moves("restore", "done")
  /\ outcome' = [t \in Targets |->
                   IF outcome[t] # Nothing \/ t \in stopped THEN outcome[t]
                   ELSE IF t \in ran THEN "update_not_applied" ELSE "stopped"]

Updater ==
  \/ Preflight \/ AllStopped \/ AllStarted \/ AllUndone \/ Succeeds \/ Reports
  \/ OwnerHasExited \/ OwnerDoesNotExit \/ VerifySucceeds \/ VerifyFails
  \/ \E t \in Targets :
       \/ AskToStop(t) \/ AskFails(t) \/ AnswerIsLost(t)
       \/ StopUnregistered(t) \/ ProbeThrows(t) \/ ProbeIsRefused(t)
       \/ StartReplacement(t) \/ StartCaptured(t) \/ PrepareFails(t)

Environment ==
  \E t \in Targets :
    \/ \E r \in Releases : ComesUp(t, r) \/ Exits(t, r)
    \/ ManagerRestarts(t)

Next == Updater \/ Environment

\* Every await of the updater ends, by its own timer if nothing else: the
\* runtimes owe it nothing.
Fairness == WF_vars(Updater)

Spec == Init /\ [][Next]_vars /\ Fairness

-----------------------------------------------------------------------------
(* Properties.                                                              *)

Phases == {"preflight", "stop", "stopping", "start", "verify", "prepare",
           "undo", "undoing", "restore", "reverify", "done"}

\* The types of the variables.
TypeOK ==
  /\ proc \in [Targets -> [Releases -> ProcessStates]]
  /\ managed \in [Targets -> Releases \cup {Nothing}]
  /\ ran \subseteq Targets
  /\ phase \in Phases
  /\ target \in (IF phase \in {"stopping", "verify", "undoing", "reverify"}
                 THEN Targets ELSE {Nothing})
  /\ expected \in [Targets -> Releases]
  /\ captured \in [Targets -> {"none", "alive", "dead"}]
  /\ stopped \subseteq Targets /\ started \subseteq Targets /\ undone \subseteq Targets
  /\ outcome \in [Targets -> Results \cup {Nothing}]
  /\ told \subseteq Targets /\ died \subseteq Targets /\ overlooked \subseteq Targets

\* An uncertain stop never permits another owner: whatever fails in the
\* transition, the updater never starts a release of a target while a process
\* of that target still runs or leaves.  Two cases are excepted, where the code does
\* start beside it: the rollback, when stop() took a replacement on its way up
\* for gone, and a service that its manager restarts after stop() found it gone.
NeverTwoOwners ==
  [][\A t \in Targets :
       phase \in {"start", "restore"} /\ target' = t
         => \/ \A r \in Releases : ~Lives(t, r)
            \/ t \in overlooked /\ (phase = "restore" \/ Backend[t] = "openclaw")]_vars

\* What the report says of a target holds: an updated or restored runtime has
\* the release the report names unless it died after it was verified, one
\* reported as not changed was never asked to stop, and after a rollback no
\* replacement runs that the report does not call unverified, unless stop() has
\* overlooked it.
ReportIsTrue ==
  phase = "done" =>
    \A t \in Targets :
      /\ outcome[t] = "updated" => t \in died \/ Owner(t) = "new"
      /\ outcome[t] = "restored" => t \in died \/ Owner(t) = "old"
      /\ outcome[t] \in {Nothing, "update_not_applied"} =>
           t \notin told /\ (t \in ran \ died => Owner(t) = "old")
      /\ outcome[t] \in {"restored", "stopped", "stop_unverified", "update_not_applied"}
           => t \in overlooked \/ proc[t]["new"] # "up"
      /\ t \in stopped => outcome[t] \notin {Nothing, "stopped", "update_not_applied"}

\* However the runtimes behave, the updater ends and has reported.
UpdateEnds == <>(phase = "done")

=============================================================================
