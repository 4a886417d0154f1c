------------------------- MODULE BridgeUpdate_proofs -------------------------
(***************************************************************************)
(* What BridgeUpdate promises for any number of targets of any kinds.      *)
(*                                                                         *)
(* Control relates the loops of activateUpdate to each other, Machines     *)
(* says which processes a target can have between two of its calls, and    *)
(* Truths what the report will rest on.                                    *)
(***************************************************************************)
EXTENDS BridgeUpdate, FiniteSetTheorems, TLAPS

(* The phases before anything has failed. *)
Forward == {"preflight", "stop", "stopping", "start", "verify", "prepare"}

Loops ==
  /\ stopped \subseteq ran /\ started \subseteq stopped /\ undone \subseteq started
  /\ phase \in Forward => undone = {} /\ \A t \in Targets : outcome[t] = Nothing
  /\ phase = "preflight" => stopped = {}
  /\ phase \in {"preflight", "stop", "stopping"} => started = {}
  /\ phase \in {"start", "verify", "prepare"} => stopped = ran
  /\ phase = "prepare" => started = stopped
  /\ phase \in {"restore", "reverify"} => undone = started

Reported ==
  \A t \in Targets :
    /\ outcome[t] \in {"restored", "restore_unverified", "replacement_stop_unverified"}
         => t \in stopped
    /\ outcome[t] = "replacement_stop_unverified" => t \in undone
    /\ outcome[t] = "stop_unverified" => t \in ran \ stopped
    /\ outcome[t] = "registration_update_unverified" => t \notin ran
    /\ outcome[t] = "updated" => t \in started
    /\ phase \in {"undo", "undoing"} => outcome[t] \notin {"restored", "restore_unverified"}
    /\ phase # "done" => outcome[t] \notin {"updated", "stopped", "update_not_applied"}

Awaited ==
  /\ phase = "stopping" => target \in ran \ stopped
  /\ phase = "undoing" => target \in started \ undone
  /\ phase = "verify" => target \in started /\ expected[target] = "new"
  /\ phase = "reverify" => target \in ToRestore /\ expected[target] = "old"
  /\ phase \notin {"stopping", "undoing", "verify", "reverify"} => target = Nothing

Control == Loops /\ Reported /\ Awaited

(* A target that stop() has answered for and that was not started since. *)
Down(t) ==
  /\ t \in stopped
  /\ t \in started => t \in undone /\ outcome[t] # "replacement_stop_unverified"
  /\ outcome[t] \notin {"restored", "restore_unverified", "updated"}
  /\ ~(phase = "reverify" /\ target = t)

OneLives == \A t \in Targets : ~(Lives(t, "old") /\ Lives(t, "new"))

Unmanaged == \A t \in Targets : Backend[t] # "openclaw" => managed[t] = Nothing

Alone == \A t \in Targets :
           \/ t \in overlooked \/ Backend[t] = "openclaw"
           \/ proc[t]["old"] = "none" \/ proc[t]["new"] = "none"

Gone == \A t \in Targets :
          Down(t) /\ t \notin overlooked => proc[t] = Idle /\ managed[t] = Nothing

Asked == phase \in {"stopping", "undoing"} /\ target \notin overlooked =>
           /\ managed[target] = Nothing
           /\ \A r \in Releases : proc[target][r] \in {"none", "leaving"}

Machines == OneLives /\ Unmanaged /\ Alone /\ Gone /\ Asked

(* Only a started target has a process of the staged release. *)
Fresh == \A t \in Targets : t \notin started => proc[t]["new"] = "none" /\ managed[t] # "new"

Untouched == \A t \in Targets :
  /\ t \in ran \ stopped => t \in told \/ t \in died \/ proc[t]["old"] = "up"
  /\ t \in told => \/ t \in stopped \/ outcome[t] = "stop_unverified"
                   \/ (phase = "stopping" /\ target = t)

Renewed == \A t \in Targets :
  t \in started /\ (phase \in {"start", "prepare"} \/ (phase = "verify" /\ target # t)
                    \/ outcome[t] = "updated")
    => t \in died \/ proc[t]["new"] = "up"

Returned == \A t \in Targets :
  /\ outcome[t] = "restored" => t \in died \/ proc[t]["old"] = "up"
  /\ (outcome[t] = "restored" \/ (phase = "reverify" /\ target = t)) /\ t \notin overlooked
       => proc[t]["new"] = "none" /\ managed[t] # "new"

Ended == phase = "done" => \A t \in stopped :
           outcome[t] \in {"updated", "restored", "restore_unverified", "replacement_stop_unverified"}

(* Before the rollback nothing but a service manager starts the captured     *)
(* release, so that stop() overlooks nothing else.                         *)
Watched == phase \in Forward =>
  \A t \in Targets : Backend[t] # "openclaw" => t \notin overlooked /\ proc[t]["old"] # "starting"

Truths == Fresh /\ Untouched /\ Renewed /\ Returned /\ Ended /\ Watched

IInv == TypeOK /\ Control /\ Machines /\ Truths

-----------------------------------------------------------------------------
LEMMA TypeInit ==
  ASSUME Init PROVE TypeOK
BY BackendAssumption DEF Init, TypeOK, Releases, ProcessStates, Results, Phases

(* What start() does to the processes: it ends none at once, and what comes *)
(* up is of the release it is for.                                         *)
LEMMA StartFacts ==
  ASSUME TypeOK, NEW t \in Targets, NEW r \in Releases, Start(t, r)
  PROVE  /\ proc' \in [Targets -> [Releases -> ProcessStates]]
         /\ \A u \in Targets \ {t} : proc'[u] = proc[u] /\ managed'[u] = managed[u]
         /\ \A q \in Releases : /\ proc'[t][q] \in {"up", "leaving"} <=> Lives(t, q)
                                /\ q # r /\ proc[t][q] = "none" => proc'[t][q] = "none"
                                /\ q # r /\ proc'[t][q] = "starting" => proc[t][q] = "starting"
<1> USE BackendAssumption DEF TypeOK, Releases, ProcessStates
<1>1. ASSUME NEW left \in [Releases -> ProcessStates],
             \A q \in Releases : /\ left[q] \in {"up", "leaving"} <=> Lives(t, q)
                                 /\ left[q] \in {proc[t][q], "none", "leaving"}
                                 /\ proc[t][q] = "none" => left[q] = "none",
             proc' = [proc EXCEPT ![t] = Launched(left, r)]
      PROVE  /\ proc' \in [Targets -> [Releases -> ProcessStates]]
             /\ \A u \in Targets \ {t} : proc'[u] = proc[u]
             /\ \A q \in Releases : /\ proc'[t][q] \in {"up", "leaving"} <=> Lives(t, q)
                                    /\ q # r /\ proc[t][q] = "none" => proc'[t][q] = "none"
                                    /\ q # r /\ proc'[t][q] = "starting" => proc[t][q] = "starting"
  <2>1. \A q \in Releases : Launched(left, r)[q] =
                            IF q = r /\ left[q] = "none" THEN "starting" ELSE left[q]
    BY DEF Launched
  <2>2. Launched(left, r) \in [Releases -> ProcessStates]
    BY DEF Launched
  <2>3. proc'[t] = Launched(left, r) /\ \A u \in Targets \ {t} : proc'[u] = proc[u]
    BY <1>1
  <2>4. proc' \in [Targets -> [Releases -> ProcessStates]]
    BY <1>1, <2>2
  <2> QED BY <1>1, <2>1, <2>3, <2>4
<1>2. \A u \in Targets \ {t} : managed'[u] = managed[u]
  BY DEF Start
<1>3. CASE Backend[t] = "openclaw" /\ proc' = [proc EXCEPT ![t] = Launched([q \in Releases |-> Told(t, q)], r)]
  <2> DEFINE left == [q \in Releases |-> Told(t, q)]
  <2>1. /\ left \in [Releases -> ProcessStates]
        /\ \A q \in Releases : /\ left[q] \in {"up", "leaving"} <=> Lives(t, q)
                               /\ left[q] \in {proc[t][q], "none", "leaving"}
                               /\ proc[t][q] = "none" => left[q] = "none"
    BY DEF Told, Lives
  <2>2. proc' = [proc EXCEPT ![t] = Launched(left, r)]
    BY <1>3
  <2> HIDE DEF left
  <2> QED BY <1>1, <1>2, <2>1, <2>2
<1>4. CASE UNCHANGED proc
  BY <1>2, <1>4 DEF Lives
<1>5. CASE proc' = [proc EXCEPT ![t] = Launched(@, r)]
  <2>1. proc' = [proc EXCEPT ![t] = Launched(proc[t], r)]
    BY <1>5
  <2> QED BY <1>1, <1>2, <2>1 DEF Lives
<1> QED BY <1>3, <1>4, <1>5 DEF Start

LEMMA TypeStep ==
  ASSUME TypeOK, [Next]_vars
  PROVE  TypeOK'
<1> USE BackendAssumption DEF TypeOK, Releases, ProcessStates, Results, Phases, runtimes, past, updater
<1>1. CASE UNCHANGED vars
  BY <1>1 DEF vars
<1>2. ASSUME NEW t \in Targets, NEW r \in Releases, ComesUp(t, r)
      PROVE  TypeOK'
  <2>1. proc' \in [Targets -> [Releases -> ProcessStates]]
    BY <1>2 DEF ComesUp
  <2> QED BY <1>2, <2>1 DEF ComesUp
<1>3. ASSUME NEW t \in Targets, NEW r \in Releases, Exits(t, r)
      PROVE  TypeOK'
  <2>1. proc' \in [Targets -> [Releases -> ProcessStates]]
    BY <1>3 DEF Exits
  <2>2. captured' \in [Targets -> {"none", "alive", "dead"}]
    BY <1>3 DEF Exits
  <2> QED BY <1>3, <2>1, <2>2 DEF Exits
<1>4. ASSUME NEW t \in Targets, ManagerRestarts(t)
      PROVE  TypeOK'
  BY <1>4 DEF ManagerRestarts
<1>5. CASE Preflight \/ AllStopped \/ AllStarted \/ AllUndone
  BY <1>5 DEF Preflight, AllStopped, AllStarted, AllUndone, Moves
<1>6. CASE Succeeds \/ Reports
  BY <1>6 DEF Succeeds, Reports, Moves
<1>7. ASSUME NEW t \in Targets, StopThrows(t)
      PROVE  /\ phase' \in Phases /\ target' = Nothing /\ phase' = "undo"
             /\ outcome' \in [Targets -> Results \cup {Nothing}] /\ undone' \subseteq Targets
             /\ UNCHANGED <<ran, expected, captured, stopped, started>>
  BY <1>7 DEF StopThrows
<1>8. ASSUME NEW t \in Targets, Tell(t)
      PROVE  /\ proc' \in [Targets -> [Releases -> ProcessStates]]
             /\ managed' \in [Targets -> Releases \cup {Nothing}]
             /\ told' \subseteq Targets
             /\ UNCHANGED <<died, overlooked>>
  BY <1>8 DEF Tell, Told
<1>9. CASE OwnerHasExited
  BY <1>9 DEF OwnerHasExited, StopReturns
<1>10. CASE OwnerDoesNotExit
  BY <1>10, <1>7 DEF OwnerDoesNotExit
<1>11. CASE VerifySucceeds
  BY <1>11 DEF VerifySucceeds
<1>12. CASE VerifyFails
  <2>1. proc' \in [Targets -> [Releases -> ProcessStates]]
    <3>1. target \in Targets
      BY <1>12 DEF VerifyFails
    <3>2. CASE UNCHANGED proc
      BY <3>2
    <3>3. CASE proc' = [proc EXCEPT ![target][expected[target]] = Killed(@)]
      BY <3>1, <3>3 DEF Killed
    <3> QED BY <1>12, <3>2, <3>3 DEF VerifyFails
  <2>2. managed' \in [Targets -> Releases \cup {Nothing}]
    <3>1. managed' \in {managed, [managed EXCEPT ![target] = Nothing]}
      BY <1>12 DEF VerifyFails
    <3> QED BY <3>1
  <2> QED BY <1>12, <2>1, <2>2 DEF VerifyFails
<1>13. ASSUME NEW t \in Targets, AskToStop(t)
      PROVE  TypeOK'
  <2>1. phase \in {"stop", "undo"}
    BY <1>13 DEF AskToStop, ToStop
  <2> QED BY <1>13, <1>8, <2>1 DEF AskToStop
<1>14. ASSUME NEW t \in Targets, AskFails(t)
      PROVE  TypeOK'
  BY <1>14, <1>7 DEF AskFails
<1>15. ASSUME NEW t \in Targets, AnswerIsLost(t)
      PROVE  TypeOK'
  BY <1>15, <1>7, <1>8 DEF AnswerIsLost
<1>16. ASSUME NEW t \in Targets, StopUnregistered(t)
      PROVE  TypeOK'
  <2>1. phase \in {"stop", "undo"}
    BY <1>16 DEF StopUnregistered, ToStop
  <2> QED BY <1>16, <2>1 DEF StopUnregistered, StopReturns, Idle
<1>17. ASSUME NEW t \in Targets, ProbeThrows(t)
      PROVE  TypeOK'
  BY <1>17, <1>7 DEF ProbeThrows
<1>18. ASSUME NEW t \in Targets, ProbeIsRefused(t)
      PROVE  TypeOK'
  <2>1. phase \in {"stop", "undo"}
    BY <1>18 DEF ProbeIsRefused, Probes, ToStop
  <2> QED BY <1>18, <2>1 DEF ProbeIsRefused, StopReturns
<1>19. ASSUME NEW t \in Targets, NEW r \in Releases, Start(t, r)
      PROVE  /\ proc' \in [Targets -> [Releases -> ProcessStates]]
             /\ managed' \in [Targets -> Releases \cup {Nothing}]
             /\ expected' \in [Targets -> Releases]
             /\ target' = t /\ UNCHANGED past
  BY <1>19, StartFacts DEF Start
<1>20. ASSUME NEW t \in Targets, StartReplacement(t) \/ StartCaptured(t)
      PROVE  TypeOK'
  BY <1>20, <1>19 DEF StartReplacement, StartCaptured
<1>21. ASSUME NEW t \in Targets, PrepareFails(t)
      PROVE  TypeOK'
  BY <1>21 DEF PrepareFails, Moves
<1> QED
  BY <1>1, <1>2, <1>3, <1>4, <1>5, <1>6, <1>9, <1>10, <1>11, <1>12, <1>13, <1>14, <1>15,
     <1>16, <1>17, <1>18, <1>20, <1>21 DEF Next, Updater, Environment

(* The types of the variables hold of every behaviour. *)
THEOREM TypeCorrect == Spec => []TypeOK
<1> QED BY TypeInit, TypeStep, PTL DEF Spec

-----------------------------------------------------------------------------
(* The loops of activateUpdate.                                            *)

LEMMA ControlInit ==
  ASSUME Init PROVE Control
BY BackendAssumption DEF Init, Control, Loops, Reported, Awaited, Forward, Results

LEMMA ControlStep ==
  ASSUME TypeOK, TypeOK', Control, [Next]_vars
  PROVE  Control'
<1> USE BackendAssumption DEF Results
<1> DEFINE Frame == <<ran, phase, target, expected, stopped, started, undone, outcome>>
<1>1. CASE UNCHANGED Frame
  BY <1>1 DEF Control, Loops, Reported, Awaited, ToRestore, FailedStops
<1>2. ASSUME NEW t \in Targets, \/ \E r \in Releases : ComesUp(t, r) \/ Exits(t, r)
                                \/ ManagerRestarts(t)
      PROVE  Control'
  <2>1. UNCHANGED Frame
    BY <1>2 DEF ComesUp, Exits, ManagerRestarts, updater
  <2> QED BY <2>1, <1>1
<1>3. CASE Preflight
  BY <1>3 DEF Preflight, Moves, Control, Loops, Reported, Awaited, Forward, TypeOK
<1>4. CASE AllStopped
  <2>1. /\ phase = "stop" /\ phase' = "start" /\ ran \subseteq stopped
        /\ UNCHANGED <<ran, target, expected, stopped, started, undone, outcome>>
    BY <1>4 DEF AllStopped, Moves, past
  <2>2. stopped = ran
    BY <2>1 DEF Control, Loops
  <2>3. Loops'
    BY <2>1, <2>2 DEF Control, Loops, Forward
  <2>4. Reported'
    BY <2>1 DEF Control, Reported
  <2>5. Awaited'
    BY <2>1 DEF Control, Awaited
  <2> QED BY <2>3, <2>4, <2>5 DEF Control
<1>5. CASE AllStarted
  <2>1. /\ phase = "start" /\ phase' = "prepare" /\ stopped \subseteq started
        /\ UNCHANGED <<ran, target, expected, stopped, started, undone, outcome>>
    BY <1>5 DEF AllStarted, Moves, past
  <2>2. started = stopped
    BY <2>1 DEF Control, Loops
  <2>3. Loops'
    BY <2>1, <2>2 DEF Control, Loops, Forward
  <2>4. Reported'
    BY <2>1 DEF Control, Reported
  <2>5. Awaited'
    BY <2>1 DEF Control, Awaited
  <2> QED BY <2>3, <2>4, <2>5 DEF Control
<1>6. CASE AllUndone
  <2>1. /\ phase = "undo" /\ phase' = "restore" /\ started \subseteq undone
        /\ UNCHANGED <<ran, target, expected, stopped, started, undone, outcome>>
    BY <1>6 DEF AllUndone, Moves, past
  <2>2. undone = started
    BY <2>1 DEF Control, Loops
  <2>3. Loops'
    BY <2>1, <2>2 DEF Control, Loops, Forward
  <2>4. Reported'
    BY <2>1 DEF Control, Reported
  <2>5. Awaited'
    BY <2>1 DEF Control, Awaited
  <2> QED BY <2>3, <2>4, <2>5 DEF Control
<1>7. CASE Succeeds
  BY <1>7 DEF Succeeds, Moves, Control, Loops, Reported, Awaited, Forward, TypeOK
<1>8. CASE Reports
  BY <1>8 DEF Reports, Moves, Control, Loops, Reported, Awaited, Forward, TypeOK
<1>9. ASSUME NEW t \in Targets, StopThrows(t),
             \/ phase = "stop" /\ t \in ran \ stopped
             \/ phase = "undo" /\ t \in started \ undone
             \/ phase \in {"stopping", "undoing"} /\ t = target
      PROVE  Control'
  BY <1>9 DEF StopThrows, Control, Loops, Reported, Awaited, Forward, TypeOK
<1>10. ASSUME NEW t \in Targets, StopReturns(t),
              \/ phase = "stop" /\ t \in ran \ stopped
              \/ phase = "undo" /\ t \in started \ undone
              \/ phase \in {"stopping", "undoing"} /\ t = target,
              UNCHANGED <<ran, started, outcome>>, target' = Nothing
       PROVE  Control'
  <2>1. CASE phase \in {"stop", "stopping"}
    <3>1. t \in ran \ stopped
      BY <1>10, <2>1 DEF Control, Awaited
    <3>2. /\ phase' = "stop" /\ stopped' = stopped \cup {t}
          /\ UNCHANGED <<ran, started, undone, outcome>> /\ target' = Nothing
      BY <1>10, <2>1 DEF StopReturns
    <3> QED BY <2>1, <3>1, <3>2 DEF Control, Loops, Reported, Awaited, Forward
  <2>2. CASE phase \in {"undo", "undoing"}
    <3>1. t \in started \ undone
      BY <1>10, <2>2 DEF Control, Awaited
    <3>2. /\ phase' = "undo" /\ undone' = undone \cup {t}
          /\ UNCHANGED <<ran, started, stopped, outcome>> /\ target' = Nothing
      BY <1>10, <2>2 DEF StopReturns
    <3> QED BY <2>2, <3>1, <3>2 DEF Control, Loops, Reported, Awaited, Forward
  <2> QED BY <1>10, <2>1, <2>2
<1>11. ASSUME NEW t \in ToStop
       PROVE  \/ phase = "stop" /\ t \in ran \ stopped
              \/ phase = "undo" /\ t \in started \ undone
  BY <1>11 DEF ToStop, FirstToStop, LastToStart
<1>12. CASE OwnerHasExited
  BY <1>12, <1>10 DEF OwnerHasExited, TypeOK
<1>13. CASE OwnerDoesNotExit
  BY <1>13, <1>9 DEF OwnerDoesNotExit, TypeOK
<1>14. CASE VerifySucceeds
  BY <1>14 DEF VerifySucceeds, Control, Loops, Reported, Awaited, Forward, TypeOK, ToRestore,
     FailedStops
<1>15. CASE VerifyFails
  <2>1. CASE phase = "verify"
    <3>1. phase' = "undo" /\ UNCHANGED <<ran, stopped, started, undone, outcome>>
      BY <1>15, <2>1 DEF VerifyFails
    <3> QED BY <2>1, <3>1 DEF Control, Loops, Reported, Awaited, Forward, TypeOK
  <2>2. CASE phase = "reverify"
    <3>1. /\ phase' = "restore" /\ UNCHANGED <<ran, stopped, started, undone>>
          /\ outcome' = [outcome EXCEPT ![target] = "restore_unverified"]
      BY <1>15, <2>2 DEF VerifyFails
    <3> QED BY <2>2, <3>1 DEF Control, Loops, Reported, Awaited, Forward, TypeOK, ToRestore,
               FailedStops
  <2> QED BY <1>15, <2>1, <2>2 DEF VerifyFails
<1>16. ASSUME NEW t \in Targets, AskToStop(t)
       PROVE  Control'
  BY <1>16, <1>11 DEF AskToStop, Control, Loops, Reported, Awaited, Forward, TypeOK
<1>17. ASSUME NEW t \in Targets, AskFails(t) \/ AnswerIsLost(t) \/ ProbeThrows(t)
       PROVE  Control'
  BY <1>17, <1>9, <1>11 DEF AskFails, AnswerIsLost, ProbeThrows, Probes
<1>18. ASSUME NEW t \in Targets, StopUnregistered(t) \/ ProbeIsRefused(t)
       PROVE  Control'
  <2>1. target' = Nothing
    BY <1>18, <1>11 DEF StopUnregistered, ProbeIsRefused, Probes, Control, Awaited
  <2> QED BY <1>18, <1>10, <1>11, <2>1 DEF StopUnregistered, ProbeIsRefused, Probes
<1>19. ASSUME NEW t \in Targets, StartReplacement(t)
       PROVE  Control'
  BY <1>19 DEF StartReplacement, Start, ToStart, FirstToStart, Control, Loops, Reported,
               Awaited, Forward, TypeOK, Releases
<1>20. ASSUME NEW t \in Targets, StartCaptured(t)
       PROVE  Control'
  BY <1>20 DEF StartCaptured, Start, Restoring, FirstToStart, ToRestore, FailedStops, Control,
               Loops, Reported, Awaited, Forward, TypeOK, Releases
<1>21. ASSUME NEW t \in Targets, PrepareFails(t)
       PROVE  Control'
  BY <1>21 DEF PrepareFails, Moves, Control, Loops, Reported, Awaited, Forward, TypeOK
<1>22. CASE UNCHANGED vars
  BY <1>22, <1>1 DEF vars
<1> QED
  BY <1>2, <1>3, <1>4, <1>5, <1>6, <1>7, <1>8, <1>12, <1>13, <1>14, <1>15, <1>16, <1>17,
     <1>18, <1>19, <1>20, <1>21, <1>22 DEF Next, Updater, Environment

-----------------------------------------------------------------------------
(* The processes a target can have.                                        *)

LEMMA MachinesInit ==
  ASSUME Init PROVE Machines
BY BackendAssumption DEF Init, Machines, OneLives, Unmanaged, Alone, Gone, Asked, Down, Lives,
   Releases

(* Only ComesUp lets a process live; the others leave at most as many alive. *)
LEMMA TellKeeps ==
  ASSUME TypeOK, OneLives, Unmanaged, Alone, NEW t \in Targets, Tell(t)
  PROVE  /\ OneLives' /\ Unmanaged' /\ Alone'
         /\ \A u \in Targets \ {t} : proc'[u] = proc[u] /\ managed'[u] = managed[u]
         /\ managed'[t] = Nothing
         /\ Owner(t) # Nothing /\ t \notin overlooked =>
              \A r \in Releases : proc'[t][r] \in {"none", "leaving"}
<1> USE BackendAssumption DEF Releases, ProcessStates
<1>1. \A u \in Targets \ {t} : proc'[u] = proc[u] /\ managed'[u] = managed[u]
  BY DEF Tell, TypeOK
<1>2. managed'[t] = Nothing /\ overlooked' = overlooked
  BY DEF Tell, TypeOK
<1>3. \A r \in Releases : proc'[t][r] = Told(t, r)
  BY DEF Tell, TypeOK
<1>4. \A r \in Releases : Lives(t, r)' <=> Lives(t, r)
  BY <1>3 DEF Lives, Told
<1>5. OneLives'
  BY <1>1, <1>4 DEF OneLives, Lives
<1>6. Unmanaged'
  BY <1>1, <1>2 DEF Unmanaged
<1>7. Alone'
  BY <1>1, <1>2, <1>3 DEF Alone, Told, Lives
<1>8. Owner(t) # Nothing /\ t \notin overlooked =>
        \A r \in Releases : proc'[t][r] \in {"none", "leaving"}
  BY <1>3 DEF Told, Lives, Owner, Alone, TypeOK
<1> QED BY <1>1, <1>2, <1>5, <1>6, <1>7, <1>8

LEMMA StartKeeps ==
  ASSUME TypeOK, OneLives, Unmanaged, Alone, NEW t \in Targets, NEW r \in Releases, Start(t, r),
         t \in overlooked \/ proc[t] = Idle
  PROVE  /\ OneLives' /\ Unmanaged' /\ Alone'
         /\ \A u \in Targets \ {t} : proc'[u] = proc[u] /\ managed'[u] = managed[u]
<1> USE BackendAssumption DEF Releases, ProcessStates
<1>1. overlooked' = overlooked
  BY DEF Start, past
<1>2. OneLives'
  BY StartFacts DEF OneLives, Lives
<1>3. Unmanaged'
  BY StartFacts DEF Start, Unmanaged, TypeOK
<1>4. Alone'
  BY <1>1, StartFacts DEF Alone, Idle
<1> QED BY <1>2, <1>3, <1>4, StartFacts

LEMMA MachinesStep ==
  ASSUME TypeOK, TypeOK', Control, Control', Machines, [Next]_vars
  PROVE  Machines'
<1> USE BackendAssumption DEF Releases, ProcessStates
<1>1. ASSUME UNCHANGED <<proc, managed, overlooked>>, \A u \in Targets : Down(u)' => Down(u), Asked'
      PROVE  Machines'
  BY <1>1 DEF Machines, OneLives, Unmanaged, Alone, Gone, Lives
<1>2. ASSUME NEW t \in Targets, NEW r \in Releases, ComesUp(t, r)
      PROVE  Machines'
  <2>1. /\ UNCHANGED <<managed, phase, target, stopped, started, undone, outcome, overlooked>>
        /\ proc[t][r] = "starting"
        /\ \A u \in Targets, q \in Releases : u # t \/ q # r => proc'[u][q] = proc[u][q]
        /\ proc'[t][r] = IF Owner(t) = Nothing THEN "up" ELSE "none"
    BY <1>2 DEF ComesUp, updater, past, TypeOK
  <2>2. Down(t) => t \in overlooked
    BY <2>1 DEF Machines, Gone, Idle
  <2>3. \A u \in Targets : u # t => (proc'[u] = proc[u])
    BY <1>2 DEF ComesUp, TypeOK
  <2>4. OneLives' /\ Unmanaged' /\ Alone'
    BY <2>1 DEF Machines, OneLives, Unmanaged, Alone, Lives, Owner
  <2>5. Gone'
    BY <2>1, <2>2, <2>3 DEF Machines, Gone, Down
  <2>6. Asked'
    <3>1. phase \in {"stopping", "undoing"} => target \in Targets
      BY DEF TypeOK
    <3> QED BY <2>1, <3>1 DEF Machines, Asked
  <2> QED BY <2>4, <2>5, <2>6 DEF Machines
<1>3. ASSUME NEW t \in Targets, NEW r \in Releases, Exits(t, r)
      PROVE  Machines'
  <2>1. /\ UNCHANGED <<managed, phase, target, stopped, started, undone, outcome, overlooked>>
        /\ proc[t][r] # "none"
        /\ \A u \in Targets, q \in Releases : u # t \/ q # r => proc'[u][q] = proc[u][q]
        /\ proc'[t][r] = "none"
    BY <1>3 DEF Exits, TypeOK
  <2>2. Down(t) => t \in overlooked
    BY <2>1 DEF Machines, Gone, Idle
  <2>3. \A u \in Targets : u # t => (proc'[u] = proc[u])
    BY <1>3 DEF Exits, TypeOK
  <2>4. OneLives' /\ Unmanaged' /\ Alone'
    BY <2>1 DEF Machines, OneLives, Unmanaged, Alone, Lives
  <2>5. Gone'
    BY <2>1, <2>2, <2>3 DEF Machines, Gone, Down
  <2>6. Asked'
    <3>1. phase \in {"stopping", "undoing"} => target \in Targets
      BY DEF TypeOK
    <3> QED BY <2>1, <3>1 DEF Machines, Asked
  <2> QED BY <2>4, <2>5, <2>6 DEF Machines
<1>4. ASSUME NEW t \in Targets, ManagerRestarts(t)
      PROVE  Machines'
  <2>1. /\ UNCHANGED <<managed, phase, target, stopped, started, undone, outcome, overlooked>>
        /\ managed[t] # Nothing /\ Backend[t] = "openclaw" /\ proc[t] = Idle
        /\ \A u \in Targets \ {t} : proc'[u] = proc[u]
        /\ \A q \in Releases : proc'[t][q] \in {"none", "starting"}
    BY <1>4 DEF ManagerRestarts, updater, past, TypeOK, Machines, Unmanaged, Idle
  <2>2. OneLives' /\ Unmanaged' /\ Alone'
    BY <2>1 DEF Machines, OneLives, Unmanaged, Alone, Lives
  <2>3. Gone'
    BY <2>1 DEF Machines, Gone, Down
  <2>4. Asked'
    <3>1. phase \in {"stopping", "undoing"} => target \in Targets
      BY DEF TypeOK
    <3> QED BY <2>1, <3>1 DEF Machines, Asked
  <2> QED BY <2>2, <2>3, <2>4 DEF Machines
<1>5. CASE Preflight \/ AllStopped \/ AllStarted \/ AllUndone
  BY <1>5, <1>1 DEF Preflight, AllStopped, AllStarted, AllUndone, Moves, Asked, Down, runtimes, past
<1>6. CASE Succeeds
  BY <1>6, <1>1 DEF Succeeds, Moves, Asked, Down, runtimes, past, Control, Loops, TypeOK
<1>7. CASE Reports
  BY <1>7, <1>1 DEF Reports, Moves, Asked, Down, runtimes, past, TypeOK
<1>8. ASSUME NEW t \in Targets, PrepareFails(t)
      PROVE  Machines'
  BY <1>8, <1>1 DEF PrepareFails, Moves, Asked, Down, runtimes, past, Control, Loops, TypeOK
<1>9. ASSUME NEW t \in ToStop
      PROVE  /\ t \in Targets
             /\ \/ phase = "stop" /\ t \in ran \ stopped
                \/ phase = "undo" /\ t \in started \ undone
  BY <1>9 DEF ToStop, FirstToStop, LastToStart, TypeOK
<1>10. ASSUME NEW t \in Targets, StopThrows(t),
              \/ phase = "stop" /\ t \in ran \ stopped
              \/ phase = "undo" /\ t \in started \ undone
              \/ phase \in {"stopping", "undoing"} /\ t = target
       PROVE  (\A u \in Targets : Down(u)' => Down(u)) /\ ~Down(t)' /\ Asked'
  BY <1>10 DEF StopThrows, Down, Asked, Control, Loops, Awaited, TypeOK
<1>11. ASSUME NEW t \in Targets, StopReturns(t),
              \/ phase = "stop" /\ t \in ran \ stopped
              \/ phase = "undo" /\ t \in started \ undone
              \/ phase \in {"stopping", "undoing"} /\ t = target,
              UNCHANGED <<started, outcome>>,
              overlooked \subseteq overlooked',
              t \notin overlooked' => proc'[t] = Idle /\ managed'[t] = Nothing,
              \A u \in Targets \ {t} : proc'[u] = proc[u] /\ managed'[u] = managed[u]
       PROVE  Gone' /\ Asked'
  BY <1>11 DEF StopReturns, Down, Gone, Asked, Machines, Control, Loops, Awaited, TypeOK
<1>12. CASE OwnerHasExited
  <2>1. target \in Targets
    BY <1>12 DEF OwnerHasExited, Control, Awaited, TypeOK
  <2>2. target \notin overlooked => proc[target] = Idle /\ managed[target] = Nothing
    <3>1. \A r \in Releases : ~Lives(target, r)
      BY <1>12 DEF OwnerHasExited, Owner
    <3>2. target \notin overlooked => \A r \in Releases : proc[target][r] = "none"
      BY <1>12, <3>1 DEF OwnerHasExited, Machines, Asked, Lives
    <3> QED BY <1>12, <2>1, <3>2 DEF OwnerHasExited, Machines, Asked, Idle, TypeOK
  <2>3. Gone' /\ Asked'
    BY <1>12, <1>11, <2>1, <2>2 DEF OwnerHasExited, runtimes, past
  <2> QED BY <1>12, <2>3 DEF OwnerHasExited, runtimes, past, Machines, OneLives, Unmanaged, Alone,
             Lives
<1>13. CASE OwnerDoesNotExit
  <2>1. target \in Targets
    BY <1>13 DEF OwnerDoesNotExit, Control, Awaited, TypeOK
  <2> QED BY <1>13, <2>1, <1>10, <1>1 DEF OwnerDoesNotExit, runtimes, past
<1>14. CASE VerifySucceeds
  BY <1>14, <1>1 DEF VerifySucceeds, runtimes, past, Down, Asked, Control, Loops, Awaited, TypeOK
<1>15. CASE VerifyFails
  <2>1. /\ target \in Targets /\ overlooked' = overlooked
        /\ \A u \in Targets, q \in Releases :
             /\ Lives(u, q)' => Lives(u, q)
             /\ proc[u][q] = "none" => proc'[u][q] = "none"
        /\ \A u \in Targets : managed'[u] \in {managed[u], Nothing}
        /\ \A u \in Targets \ {target} : proc'[u] = proc[u] /\ managed'[u] = managed[u]
    BY <1>15 DEF VerifyFails, Killed, Lives, past, Control, Loops, Awaited, ToRestore, TypeOK
  <2>2. ASSUME NEW u \in Targets, Down(u)'
        PROVE  Down(u) /\ u # target
    <3>1. CASE phase = "verify"
      <4>1. phase' = "undo" /\ UNCHANGED <<stopped, started, undone, outcome>>
        BY <1>15, <3>1 DEF VerifyFails
      <4> QED BY <2>2, <3>1, <4>1 DEF Down, Control, Loops, Forward, Awaited
    <3>2. CASE phase = "reverify"
      <4>1. /\ outcome' = [outcome EXCEPT ![target] = "restore_unverified"]
            /\ UNCHANGED <<stopped, started, undone>>
        BY <1>15, <3>2 DEF VerifyFails
      <4> QED BY <2>1, <2>2, <3>2, <4>1 DEF Down, TypeOK
    <3> QED BY <1>15, <3>1, <3>2 DEF VerifyFails
  <2>3. OneLives' /\ Alone' /\ Unmanaged'
    BY <2>1 DEF Machines, OneLives, Lives, Alone, Unmanaged
  <2>4. Gone'
    BY <2>1, <2>2 DEF Machines, Gone
  <2>5. Asked'
    BY <1>15 DEF VerifyFails, Asked
  <2> QED BY <2>3, <2>4, <2>5 DEF Machines
<1>16. ASSUME NEW t \in Targets, AskToStop(t)
       PROVE  Machines'
  <2>1. Tell(t) /\ t \in ToStop /\ Owner(t) # Nothing
    BY <1>16 DEF AskToStop
  <2>2. /\ OneLives' /\ Unmanaged' /\ Alone'
        /\ \A u \in Targets \ {t} : proc'[u] = proc[u] /\ managed'[u] = managed[u]
        /\ managed'[t] = Nothing
        /\ t \notin overlooked => \A r \in Releases : proc'[t][r] \in {"none", "leaving"}
    BY <2>1, TellKeeps DEF Machines
  <2>3. (\A u \in Targets : Down(u)' => Down(u)) /\ ~Down(t)' /\ overlooked' = overlooked
    BY <1>16, <1>9, <2>1 DEF AskToStop, Tell, Down, Control, Loops, TypeOK
  <2>4. Gone'
    BY <2>2, <2>3 DEF Machines, Gone
  <2>5. Asked'
    BY <1>16, <2>2, <2>3 DEF AskToStop, Asked
  <2> QED BY <2>2, <2>4, <2>5 DEF Machines
<1>17. ASSUME NEW t \in Targets, AnswerIsLost(t)
       PROVE  Machines'
  <2>1. Tell(t) /\ t \in ToStop /\ Owner(t) # Nothing /\ StopThrows(t)
    BY <1>17 DEF AnswerIsLost
  <2>2. /\ OneLives' /\ Unmanaged' /\ Alone'
        /\ \A u \in Targets \ {t} : proc'[u] = proc[u] /\ managed'[u] = managed[u]
    BY <2>1, TellKeeps DEF Machines
  <2>3. (\A u \in Targets : Down(u)' => Down(u)) /\ ~Down(t)' /\ Asked' /\ overlooked' = overlooked
    BY <1>9, <1>10, <2>1 DEF Tell
  <2>4. Gone'
    BY <2>2, <2>3 DEF Machines, Gone
  <2> QED BY <2>2, <2>3, <2>4 DEF Machines
<1>18. ASSUME NEW t \in Targets, AskFails(t) \/ ProbeThrows(t)
       PROVE  Machines'
  BY <1>18, <1>1, <1>9, <1>10 DEF AskFails, ProbeThrows, Probes, runtimes, past
<1>19. ASSUME NEW t \in Targets, StopUnregistered(t)
       PROVE  Machines'
  <2>1. /\ t \in ToStop /\ StopReturns(t) /\ UNCHANGED <<started, outcome, overlooked>>
        /\ proc'[t] = Idle /\ managed'[t] = Nothing
        /\ \A u \in Targets \ {t} : proc'[u] = proc[u] /\ managed'[u] = managed[u]
    BY <1>19 DEF StopUnregistered, past, TypeOK
  <2>2. Gone' /\ Asked'
    BY <2>1, <1>9, <1>11
  <2>3. OneLives' /\ Unmanaged' /\ Alone'
    BY <2>1 DEF Machines, OneLives, Lives, Alone, Unmanaged, Idle
  <2> QED BY <2>2, <2>3 DEF Machines
<1>20. ASSUME NEW t \in Targets, ProbeIsRefused(t)
       PROVE  Machines'
  <2>1. /\ t \in ToStop /\ StopReturns(t) /\ UNCHANGED <<started, outcome, proc, managed>>
        /\ overlooked \subseteq overlooked'
        /\ t \notin overlooked' => proc'[t] = Idle /\ managed'[t] = Nothing
    BY <1>20 DEF ProbeIsRefused, Probes, runtimes, TypeOK
  <2>2. Gone' /\ Asked'
    BY <2>1, <1>9, <1>11
  <2>3. OneLives' /\ Unmanaged' /\ Alone'
    BY <2>1 DEF Machines, OneLives, Lives, Alone, Unmanaged
  <2> QED BY <2>2, <2>3 DEF Machines
<1>21. ASSUME NEW t \in Targets, StartReplacement(t)
       PROVE  Machines'
  <2>1. /\ Start(t, "new") /\ phase = "start" /\ t \in stopped \ started
        /\ phase' = "verify" /\ started' = started \cup {t} /\ overlooked' = overlooked
        /\ UNCHANGED <<stopped, undone, outcome>>
    BY <1>21 DEF StartReplacement, ToStart, FirstToStart, Start, past
  <2>2. Down(t)
    BY <2>1 DEF Down, Control, Loops, Forward, Results
  <2>3. t \in overlooked \/ proc[t] = Idle
    BY <2>2 DEF Machines, Gone
  <2>4. /\ OneLives' /\ Unmanaged' /\ Alone'
        /\ \A u \in Targets \ {t} : proc'[u] = proc[u] /\ managed'[u] = managed[u]
    BY <2>1, <2>3, StartKeeps DEF Machines
  <2>5. (\A u \in Targets : Down(u)' => Down(u)) /\ ~Down(t)'
    BY <2>1 DEF Down, Control, Loops
  <2> QED BY <2>1, <2>4, <2>5 DEF Machines, Gone, Asked
<1>22. ASSUME NEW t \in Targets, StartCaptured(t)
       PROVE  Machines'
  <2>1. /\ Start(t, "old") /\ phase = "restore" /\ t \in ToRestore
        /\ phase' = "reverify" /\ target' = t /\ overlooked' = overlooked
        /\ UNCHANGED <<stopped, started, undone, outcome>>
    BY <1>22 DEF StartCaptured, Restoring, FirstToStart, Start, past
  <2>2. Down(t)
    BY <2>1 DEF Down, ToRestore, FailedStops, Control, Loops, Reported
  <2>3. t \in overlooked \/ proc[t] = Idle
    BY <2>2 DEF Machines, Gone
  <2>4. /\ OneLives' /\ Unmanaged' /\ Alone'
        /\ \A u \in Targets \ {t} : proc'[u] = proc[u] /\ managed'[u] = managed[u]
    BY <2>1, <2>3, StartKeeps DEF Machines
  <2>5. (\A u \in Targets : Down(u)' => Down(u)) /\ ~Down(t)'
    BY <2>1 DEF Down
  <2> QED BY <2>1, <2>4, <2>5 DEF Machines, Gone, Asked
<1>23. CASE UNCHANGED vars
  BY <1>23, <1>1 DEF vars, Down, Asked, Machines
<1> QED
  BY <1>2, <1>3, <1>4, <1>5, <1>6, <1>7, <1>8, <1>12, <1>13, <1>14, <1>15, <1>16, <1>17,
     <1>18, <1>19, <1>20, <1>21, <1>22, <1>23 DEF Next, Updater, Environment

-----------------------------------------------------------------------------
(* What the report will rest on.                                           *)

LEMMA TruthsInit ==
  ASSUME Init PROVE Truths
BY BackendAssumption
   DEF Init, Truths, Fresh, Untouched, Renewed, Returned, Ended, Watched, Releases, Results

LEMMA FreshStep ==
  ASSUME TypeOK, TypeOK', Control, Machines, Fresh, [Next]_vars
  PROVE  Fresh'
<1> USE BackendAssumption DEF Releases, ProcessStates, Idle
<1>1. ASSUME \A u \in Targets :
               (proc[u]["new"] = "none" => proc'[u]["new"] = "none") /\ managed'[u] \in {managed[u], Nothing},
             started \subseteq started'
      PROVE  Fresh'
  BY <1>1 DEF Fresh
<1>2. ASSUME NEW t \in Targets, NEW r \in Releases, ComesUp(t, r) \/ Exits(t, r)
      PROVE  Fresh'
  <2>1. /\ proc[t][r] # "none" /\ UNCHANGED <<managed, started>>
        /\ \A u \in Targets, q \in Releases : u # t \/ q # r => proc'[u][q] = proc[u][q]
    BY <1>2 DEF ComesUp, Exits, updater, TypeOK
  <2> QED BY <2>1 DEF Fresh
<1>3. ASSUME NEW t \in Targets, ManagerRestarts(t)
      PROVE  Fresh'
  BY <1>3 DEF ManagerRestarts, updater, Fresh, TypeOK
<1>4. CASE UNCHANGED <<proc, managed, started>>
  BY <1>4 DEF Fresh
<1>5. ASSUME NEW t \in Targets, Tell(t), started' = started
      PROVE  Fresh'
  BY <1>5, <1>1 DEF Tell, Told, Lives, TypeOK
<1>6. CASE VerifyFails
  BY <1>6, <1>1 DEF VerifyFails, Killed, TypeOK
<1>7. ASSUME NEW t \in Targets, StopUnregistered(t)
      PROVE  Fresh'
  BY <1>7, <1>1 DEF StopUnregistered, TypeOK
<1>8. ASSUME NEW t \in Targets, NEW r \in Releases, Start(t, r), started \subseteq started',
             r = "new" => t \in started'
      PROVE  Fresh'
  <2>1. managed' = IF Backend[t] = "openclaw" THEN [managed EXCEPT ![t] = r] ELSE managed
    BY <1>8 DEF Start
  <2>2. proc[t]["new"] = "none" /\ r # "new" => proc'[t]["new"] = "none"
    BY <1>8, StartFacts
  <2> QED BY <1>8, <2>1, <2>2, StartFacts DEF Fresh, TypeOK
<1>9. ASSUME NEW t \in Targets, StartReplacement(t) \/ StartCaptured(t)
      PROVE  Fresh'
  BY <1>9, <1>8 DEF StartReplacement, StartCaptured
<1>10. ASSUME NEW t \in Targets, AskToStop(t) \/ AnswerIsLost(t)
       PROVE  Fresh'
  BY <1>10, <1>5 DEF AskToStop, AnswerIsLost, StopThrows
<1>11. ASSUME NEW t \in Targets, AskFails(t) \/ ProbeThrows(t) \/ ProbeIsRefused(t) \/ PrepareFails(t)
       PROVE  Fresh'
  BY <1>11, <1>4 DEF AskFails, ProbeThrows, ProbeIsRefused, PrepareFails, Moves, StopThrows,
     runtimes
<1>12. CASE Preflight \/ AllStopped \/ AllStarted \/ AllUndone \/ Succeeds \/ Reports
  BY <1>12, <1>4 DEF Preflight, AllStopped, AllStarted, AllUndone, Succeeds, Reports, Moves,
     runtimes
<1>13. CASE OwnerHasExited \/ OwnerDoesNotExit \/ VerifySucceeds \/ UNCHANGED vars
  BY <1>13, <1>4 DEF OwnerHasExited, OwnerDoesNotExit, VerifySucceeds, StopThrows, runtimes, vars
<1> QED
  BY <1>2, <1>3, <1>6, <1>7, <1>9, <1>10, <1>11, <1>12, <1>13 DEF Next, Updater, Environment

LEMMA UntouchedStep ==
  ASSUME TypeOK, TypeOK', Control, Control', Machines, Untouched, [Next]_vars
  PROVE  Untouched'
<1> USE BackendAssumption DEF Releases, ProcessStates, Results
<1>1. ASSUME NEW t \in Targets, NEW r \in Releases, ComesUp(t, r) \/ Exits(t, r)
      PROVE  Untouched'
  <2>1. /\ UNCHANGED <<ran, stopped, told, outcome, phase, target>> /\ died \subseteq died'
        /\ \A u \in Targets : proc[u]["old"] = "up" => u \in died' \/ proc'[u]["old"] = "up"
    BY <1>1 DEF ComesUp, Exits, updater, past, TypeOK
  <2> QED BY <2>1 DEF Untouched
<1>2. ASSUME NEW t \in Targets, ManagerRestarts(t)
      PROVE  Untouched'
  BY <1>2 DEF ManagerRestarts, updater, past, Untouched, Idle, TypeOK
<1>3. CASE UNCHANGED vars
  BY <1>3 DEF vars, Untouched
<1>4. ASSUME UNCHANGED <<proc, ran, told, died>>, stopped \subseteq stopped',
             \A t \in told \cap Targets :
                 \/ t \in stopped' \/ outcome'[t] = "stop_unverified"
                 \/ (phase' = "stopping" /\ target' = t)
      PROVE  Untouched'
  BY <1>4 DEF Untouched
<1>5. CASE Preflight \/ AllStopped \/ AllStarted \/ AllUndone
  BY <1>5, <1>4 DEF Preflight, AllStopped, AllStarted, AllUndone, Moves, runtimes, past, Untouched
<1>6. CASE Succeeds
  BY <1>6, <1>4 DEF Succeeds, Moves, runtimes, past, Untouched, Control, Loops, Forward
<1>7. CASE Reports
  BY <1>7, <1>4 DEF Reports, Moves, runtimes, past, Untouched
<1>8. ASSUME NEW t \in Targets, PrepareFails(t)
      PROVE  Untouched'
  BY <1>8, <1>4 DEF PrepareFails, Moves, runtimes, past, Untouched, Control, Loops, Forward
<1>9. ASSUME NEW t \in ToStop
      PROVE  /\ t \in Targets
             /\ \/ phase = "stop" /\ t \in ran \ stopped
                \/ phase = "undo" /\ t \in started \ undone
  BY <1>9 DEF ToStop, FirstToStop, LastToStart, TypeOK
<1>10. ASSUME NEW t \in Targets, AskFails(t) \/ ProbeThrows(t)
       PROVE  Untouched'
  BY <1>10, <1>9, <1>4 DEF AskFails, ProbeThrows, Probes, StopThrows, runtimes, past, Untouched,
     Control, Loops, TypeOK
<1>11. ASSUME NEW t \in Targets, ProbeIsRefused(t)
       PROVE  Untouched'
  BY <1>11, <1>9, <1>4 DEF ProbeIsRefused, Probes, StopReturns, runtimes, Untouched, TypeOK
<1>12. CASE OwnerHasExited
  BY <1>12, <1>4 DEF OwnerHasExited, StopReturns, runtimes, past, Untouched
<1>13. CASE OwnerDoesNotExit
  BY <1>13, <1>4 DEF OwnerDoesNotExit, StopThrows, runtimes, past, Untouched, Control, Awaited,
     Loops, TypeOK
<1>14. CASE VerifySucceeds
  BY <1>14, <1>4 DEF VerifySucceeds, runtimes, past, Untouched, Control, Awaited, ToRestore, TypeOK
<1>15. CASE VerifyFails
  <2>1. target \in stopped /\ target \in Targets /\ UNCHANGED <<ran, stopped, told, died>>
    BY <1>15 DEF VerifyFails, past, Control, Awaited, Loops, ToRestore, TypeOK
  <2>2. \A u \in Targets \ {target} : proc'[u] = proc[u] /\ outcome'[u] = outcome[u]
    BY <1>15, <2>1 DEF VerifyFails, TypeOK
  <2> QED BY <1>15, <2>1, <2>2 DEF VerifyFails, Untouched
<1>16. ASSUME NEW t \in Targets, Tell(t), t \in ToStop, UNCHANGED <<ran, stopped>>,
              \A u \in Targets \ {t} : outcome'[u] = outcome[u],
              phase = "stop" => \/ phase' = "stopping" /\ target' = t
                                \/ outcome'[t] = "stop_unverified"
       PROVE  Untouched'
  <2>1. told' = told \cup {t} /\ died' = died /\ \A u \in Targets \ {t} : proc'[u] = proc[u]
    BY <1>16 DEF Tell, TypeOK
  <2>2. phase \in {"stop", "undo"} /\ (phase = "undo" => t \in stopped)
    BY <1>16, <1>9 DEF Control, Loops
  <2> QED BY <1>16, <2>1, <2>2 DEF Untouched
<1>17. ASSUME NEW t \in Targets, AskToStop(t)
       PROVE  Untouched'
  BY <1>17, <1>16 DEF AskToStop
<1>18. ASSUME NEW t \in Targets, AnswerIsLost(t)
       PROVE  Untouched'
  BY <1>18, <1>16 DEF AnswerIsLost, StopThrows, TypeOK
<1>19. ASSUME NEW t \in Targets, StopUnregistered(t)
       PROVE  Untouched'
  <2>1. /\ UNCHANGED <<ran, outcome, told, died>> /\ stopped \subseteq stopped' /\ t \in stopped'
        /\ \A u \in Targets \ {t} : proc'[u] = proc[u]
    BY <1>19, <1>9 DEF StopUnregistered, StopReturns, past, Control, Loops, TypeOK
  <2>2. phase \in {"stop", "undo"}
    BY <1>19, <1>9 DEF StopUnregistered
  <2> QED BY <2>1, <2>2 DEF Untouched
<1>20. ASSUME NEW t \in Targets, StartReplacement(t) \/ StartCaptured(t)
       PROVE  Untouched'
  <2>1. /\ UNCHANGED <<ran, stopped, outcome, told, died>> /\ t \in stopped /\ phase # "stopping"
        /\ \A u \in Targets \ {t} : proc'[u] = proc[u]
    BY <1>20 DEF StartReplacement, StartCaptured, Start, ToStart, Restoring, FirstToStart,
       ToRestore,
       past, TypeOK
  <2> QED BY <2>1 DEF Untouched
<1> QED
  BY <1>1, <1>2, <1>3, <1>5, <1>6, <1>7, <1>8, <1>10, <1>11, <1>12, <1>13, <1>14, <1>15,
     <1>17, <1>18, <1>19, <1>20 DEF Next, Updater, Environment

(* What runs when a rollback or a success is reported. *)
LEMMA RenewedStep ==
  ASSUME TypeOK, TypeOK', Control, Control', Machines, Renewed, [Next]_vars
  PROVE  Renewed'
<1> USE BackendAssumption DEF Releases, ProcessStates, Results
<1>1. ASSUME NEW t \in Targets, NEW r \in Releases, ComesUp(t, r) \/ Exits(t, r)
      PROVE  Renewed'
  <2>1. /\ proc[t][r] # "none" /\ (proc[t][r] = "up" => t \in died') /\ died \subseteq died'
        /\ \A u \in Targets, q \in Releases : u # t \/ q # r => proc'[u][q] = proc[u][q]
    BY <1>1 DEF ComesUp, Exits, past, TypeOK
  <2>2. /\ UNCHANGED <<started, outcome, phase, target>> /\ died \subseteq died'
        /\ \A u \in Targets : proc[u]["new"] = "up" => u \in died' \/ proc'[u]["new"] = "up"
    BY <1>1, <2>1 DEF ComesUp, Exits, updater
  <2> QED BY <2>2 DEF Renewed
<1>2. ASSUME NEW t \in Targets, ManagerRestarts(t)
      PROVE  Renewed'
  BY <1>2 DEF ManagerRestarts, updater, past, Renewed, Idle, TypeOK
<1>3. CASE UNCHANGED vars
  BY <1>3 DEF vars, Renewed
<1>4. ASSUME phase' \notin {"start", "prepare", "verify", "done"}
      PROVE  Renewed'
  BY <1>4 DEF Renewed, Control, Reported
<1>5. CASE Preflight \/ AllStopped
  BY <1>5 DEF Preflight, AllStopped, Moves, Renewed, Control, Loops, Forward
<1>6. CASE AllStarted \/ Succeeds
  BY <1>6 DEF AllStarted, Succeeds, Moves, Renewed, runtimes, past, Control, Loops, Reported, TypeOK
<1>7. CASE AllUndone \/ Reports
  BY <1>7 DEF AllUndone, Reports, Moves, Renewed, Control, Reported, TypeOK
<1>8. ASSUME NEW t \in Targets, PrepareFails(t)
      PROVE  Renewed'
  BY <1>8, <1>4 DEF PrepareFails, Moves
<1>9. ASSUME NEW t \in Targets, AskToStop(t) \/ AskFails(t) \/ AnswerIsLost(t) \/ ProbeThrows(t)
                                \/ StopUnregistered(t) \/ ProbeIsRefused(t)
      PROVE  Renewed'
  BY <1>9, <1>4 DEF AskToStop, AskFails, AnswerIsLost, ProbeThrows, StopUnregistered,
     ProbeIsRefused,
     StopThrows, StopReturns
<1>10. CASE OwnerHasExited \/ OwnerDoesNotExit
  BY <1>10, <1>4 DEF OwnerHasExited, OwnerDoesNotExit, StopThrows, StopReturns
<1>11. CASE VerifySucceeds
  BY <1>11, <1>4 DEF VerifySucceeds, Verified, runtimes, past, Renewed, Control, Awaited, Reported,
     TypeOK
<1>12. CASE VerifyFails
  BY <1>12, <1>4 DEF VerifyFails
<1>13. ASSUME NEW t \in Targets, StartReplacement(t)
       PROVE  Renewed'
  <2>1. /\ phase = "start" /\ phase' = "verify" /\ target' = t /\ started' = started \cup {t}
        /\ UNCHANGED <<outcome, died>> /\ \A u \in Targets \ {t} : proc'[u] = proc[u]
    BY <1>13 DEF StartReplacement, Start, ToStart, past, TypeOK
  <2> QED BY <2>1 DEF Renewed, Control, Reported
<1>14. ASSUME NEW t \in Targets, StartCaptured(t)
       PROVE  Renewed'
  BY <1>14, <1>4 DEF StartCaptured
<1> QED
  BY <1>1, <1>2, <1>3, <1>5, <1>6, <1>7, <1>8, <1>9, <1>10, <1>11, <1>12, <1>13, <1>14
     DEF Next, Updater, Environment

LEMMA ReturnedStep ==
  ASSUME TypeOK, TypeOK', Control, Control', Machines, Returned, [Next]_vars
  PROVE  Returned'
<1> USE BackendAssumption DEF Releases, ProcessStates, Results, Idle
<1>1. ASSUME NEW t \in Targets, NEW r \in Releases, ComesUp(t, r) \/ Exits(t, r)
      PROVE  Returned'
  <2>1. /\ proc[t][r] # "none" /\ (proc[t][r] = "up" => t \in died') /\ died \subseteq died'
        /\ \A u \in Targets, q \in Releases : u # t \/ q # r => proc'[u][q] = proc[u][q]
    BY <1>1 DEF ComesUp, Exits, past, TypeOK
  <2>2. /\ UNCHANGED <<managed, outcome, phase, target, overlooked>> /\ died \subseteq died'
        /\ \A u \in Targets : proc[u]["old"] = "up" => u \in died' \/ proc'[u]["old"] = "up"
        /\ \A u \in Targets : proc[u]["new"] = "none" => proc'[u]["new"] = "none"
    BY <1>1, <2>1 DEF ComesUp, Exits, updater, past
  <2> QED BY <2>2 DEF Returned
<1>2. ASSUME NEW t \in Targets, ManagerRestarts(t)
      PROVE  Returned'
  BY <1>2 DEF ManagerRestarts, updater, past, Returned, TypeOK
<1>3. CASE UNCHANGED vars
  BY <1>3 DEF vars, Returned
<1>4. ASSUME phase' \notin {"restore", "reverify", "done"}
      PROVE  Returned'
  <2>1. \A t \in Targets : outcome'[t] # "restored"
    BY <1>4 DEF Control, Loops, Reported, Forward, TypeOK, Phases
  <2> QED BY <1>4, <2>1 DEF Returned
<1>5. CASE Preflight \/ AllStopped \/ AllStarted
  BY <1>5 DEF Preflight, AllStopped, AllStarted, Moves, runtimes, past, Returned
<1>6. CASE Succeeds
  BY <1>6 DEF Succeeds, Moves, Returned, TypeOK
<1>7. CASE AllUndone \/ Reports
  BY <1>7 DEF AllUndone, Reports, Moves, runtimes, past, Returned, TypeOK
<1>8. ASSUME NEW t \in Targets, PrepareFails(t)
      PROVE  Returned'
  BY <1>8, <1>4 DEF PrepareFails, Moves
<1>9. ASSUME NEW t \in Targets, AskToStop(t) \/ AskFails(t) \/ AnswerIsLost(t) \/ ProbeThrows(t)
                                \/ StopUnregistered(t) \/ ProbeIsRefused(t)
      PROVE  Returned'
  BY <1>9, <1>4 DEF AskToStop, AskFails, AnswerIsLost, ProbeThrows, StopUnregistered,
     ProbeIsRefused,
     StopThrows, StopReturns
<1>10. CASE OwnerHasExited \/ OwnerDoesNotExit
  BY <1>10, <1>4 DEF OwnerHasExited, OwnerDoesNotExit, StopThrows, StopReturns
<1>11. CASE VerifySucceeds
  BY <1>11, <1>4 DEF VerifySucceeds, Verified, runtimes, past, Returned, Control, Awaited, TypeOK
<1>12. CASE VerifyFails
  <2>1. CASE phase = "verify"
    BY <1>12, <2>1, <1>4 DEF VerifyFails
  <2>2. CASE phase = "reverify"
    <3>1. /\ phase' = "restore" /\ outcome' = [outcome EXCEPT ![target] = "restore_unverified"]
          /\ target \in Targets /\ UNCHANGED <<died, overlooked>>
          /\ \A u \in Targets \ {target} : proc'[u] = proc[u] /\ managed'[u] = managed[u]
      BY <1>12, <2>2 DEF VerifyFails, past, Control, Awaited, ToRestore, TypeOK
    <3> QED BY <2>2, <3>1 DEF Returned, TypeOK
  <2> QED BY <1>12, <2>1, <2>2 DEF VerifyFails
<1>13. ASSUME NEW t \in Targets, StartReplacement(t)
       PROVE  Returned'
  BY <1>13, <1>4 DEF StartReplacement
<1>14. ASSUME NEW t \in Targets, StartCaptured(t)
       PROVE  Returned'
  <2>1. /\ Start(t, "old") /\ phase = "restore" /\ phase' = "reverify" /\ target' = t
        /\ t \in ToRestore /\ UNCHANGED <<outcome, died, overlooked>>
        /\ \A u \in Targets \ {t} : proc'[u] = proc[u] /\ managed'[u] = managed[u]
    BY <1>14 DEF StartCaptured, Restoring, FirstToStart, Start, past, TypeOK
  <2>2. Down(t) /\ outcome[t] # "restored"
    BY <2>1 DEF Down, ToRestore, FailedStops, Control, Loops, Reported
  <2>3. t \notin overlooked => proc[t] = Idle /\ managed[t] = Nothing
    BY <2>2 DEF Machines, Gone
  <2>4. proc[t] = Idle => proc'[t]["new"] = "none"
    BY <2>1, StartFacts
  <2>5. managed'[t] = "old" \/ managed'[t] = managed[t]
    BY <2>1 DEF Start, TypeOK
  <2> QED BY <2>1, <2>2, <2>3, <2>4, <2>5 DEF Returned
<1> QED
  BY <1>1, <1>2, <1>3, <1>5, <1>6, <1>7, <1>8, <1>9, <1>10, <1>11, <1>12, <1>13, <1>14
     DEF Next, Updater, Environment

LEMMA EndedStep ==
  ASSUME TypeOK, TypeOK', Control, Control', Ended, [Next]_vars
  PROVE  Ended'
<1> USE BackendAssumption DEF Results
<1>1. CASE phase' # "done"
  BY <1>1 DEF Ended
<1>2. CASE UNCHANGED <<phase, outcome, stopped>>
  BY <1>2 DEF Ended
<1>3. CASE Preflight
  BY <1>3 DEF Preflight, Moves, Ended, Control, Loops
<1>4. CASE Succeeds
  BY <1>4 DEF Succeeds, Moves, Ended, Control, Loops, TypeOK
<1>5. CASE Reports
  BY <1>5 DEF Reports, Moves, Ended, ToRestore, FailedStops, TypeOK
<1>6. CASE AllStopped \/ AllStarted \/ AllUndone \/ OwnerHasExited \/ OwnerDoesNotExit
           \/ VerifySucceeds \/ VerifyFails
  BY <1>6, <1>1 DEF AllStopped, AllStarted, AllUndone, Moves, OwnerHasExited, OwnerDoesNotExit,
     VerifySucceeds, VerifyFails, StopReturns, StopThrows
<1>7. ASSUME NEW t \in Targets, \/ AskToStop(t) \/ AskFails(t) \/ AnswerIsLost(t)
                                \/ StopUnregistered(t) \/ ProbeThrows(t) \/ ProbeIsRefused(t)
                                \/ StartReplacement(t) \/ StartCaptured(t) \/ PrepareFails(t)
      PROVE  Ended'
  BY <1>7, <1>1 DEF AskToStop, AskFails, AnswerIsLost, StopUnregistered, ProbeThrows,
     ProbeIsRefused,
     StartReplacement, StartCaptured, PrepareFails, Moves, StopReturns, StopThrows
<1>8. CASE Environment \/ UNCHANGED vars
  BY <1>8, <1>2 DEF Environment, ComesUp, Exits, ManagerRestarts, updater, vars
<1> QED BY <1>3, <1>4, <1>5, <1>6, <1>7, <1>8 DEF Next, Updater

LEMMA WatchedStep ==
  ASSUME TypeOK, TypeOK', Control, Machines, Fresh, Watched, [Next]_vars
  PROVE  Watched'
<1> USE BackendAssumption DEF Releases, ProcessStates, Forward
<1>1. CASE phase' \notin Forward
  BY <1>1 DEF Watched
<1>2. ASSUME phase \in Forward, overlooked' = overlooked,
             \A t \in Targets : Backend[t] # "openclaw" /\ proc'[t]["old"] = "starting" =>
                              proc[t]["old"] = "starting"
      PROVE  Watched'
  BY <1>2 DEF Watched
<1>3. ASSUME NEW t \in Targets, NEW r \in Releases, ComesUp(t, r) \/ Exits(t, r), phase' \in Forward
      PROVE  Watched'
  <2>1. /\ proc'[t][r] # "starting" /\ phase' = phase /\ overlooked' = overlooked
        /\ \A u \in Targets, q \in Releases : u # t \/ q # r => proc'[u][q] = proc[u][q]
    BY <1>3 DEF ComesUp, Exits, updater, past, TypeOK
  <2> QED BY <1>2, <1>3, <2>1
<1>4. ASSUME NEW t \in Targets, ManagerRestarts(t), phase' \in Forward
      PROVE  Watched'
  <2>1. Backend[t] = "openclaw" /\ phase' = phase /\ overlooked' = overlooked
        /\ \A u \in Targets \ {t} : proc'[u] = proc[u]
    BY <1>4 DEF ManagerRestarts, updater, past, TypeOK, Machines, Unmanaged
  <2> QED BY <1>2, <1>4, <2>1
<1>5. ASSUME Preflight \/ AllStopped \/ AllStarted \/ Succeeds, phase' \in Forward
      PROVE  Watched'
  BY <1>5, <1>2 DEF Preflight, AllStopped, AllStarted, Succeeds, Moves, runtimes, past
<1>6. ASSUME AllUndone \/ Reports \/ OwnerDoesNotExit \/ VerifyFails
      PROVE  Watched'
  BY <1>6, <1>1 DEF AllUndone, Reports, Moves, OwnerDoesNotExit, VerifyFails, StopThrows
<1>7. ASSUME OwnerHasExited \/ VerifySucceeds \/ UNCHANGED vars, phase' \in Forward
      PROVE  Watched'
  BY <1>7, <1>2 DEF OwnerHasExited, StopReturns, VerifySucceeds, vars, runtimes, past
<1>8. ASSUME NEW t \in Targets, AskToStop(t), phase' \in Forward
      PROVE  Watched'
  <2>1. phase \in Forward /\ Tell(t)
    BY <1>8 DEF AskToStop, ToStop
  <2> QED BY <1>2, <2>1 DEF Tell, Told, Lives, TypeOK
<1>9. ASSUME NEW t \in Targets, AskFails(t) \/ AnswerIsLost(t) \/ ProbeThrows(t) \/ StartCaptured(t)
                                \/ PrepareFails(t)
      PROVE  Watched'
  BY <1>9, <1>1 DEF AskFails, AnswerIsLost, ProbeThrows, StopThrows, StartCaptured, PrepareFails, Moves
<1>10. ASSUME NEW t \in Targets, StopUnregistered(t), phase' \in Forward
       PROVE  Watched'
  <2>1. phase \in Forward
    BY <1>10 DEF StopUnregistered, StopReturns
  <2> QED BY <1>2, <1>10, <2>1 DEF StopUnregistered, past, Idle, TypeOK
<1>11. ASSUME NEW t \in Targets, ProbeIsRefused(t), phase' \in Forward
       PROVE  Watched'
  <2>1. /\ phase = "stop" /\ t \in ToStop /\ Owner(t) = Nothing
        /\ UNCHANGED <<proc, managed>>
        /\ overlooked' \in {overlooked, overlooked \cup {t}}
        /\ proc[t] = Idle /\ managed[t] = Nothing => overlooked' = overlooked
    BY <1>11 DEF ProbeIsRefused, Probes, ToStop, StopReturns, runtimes
  <2>2. ASSUME Backend[t] # "openclaw" PROVE proc[t] = Idle /\ managed[t] = Nothing
    <3>1. proc[t]["new"] = "none" /\ managed[t] = Nothing
      BY <2>1, <2>2 DEF Fresh, Control, Loops, Machines, Unmanaged
    <3>2. proc[t]["old"] = "none"
      BY <2>1, <2>2 DEF Watched, Owner, Lives, TypeOK
    <3> QED BY <3>1, <3>2 DEF Idle, TypeOK
  <2> QED BY <2>1, <2>2 DEF Watched
<1>12. ASSUME NEW t \in Targets, StartReplacement(t)
       PROVE  Watched'
  <2>1. phase \in Forward /\ overlooked' = overlooked /\ Start(t, "new")
    BY <1>12 DEF StartReplacement, ToStart, Start, past
  <2>2. \A u \in Targets : proc'[u]["old"] = "starting" => proc[u]["old"] = "starting"
    BY <2>1, StartFacts
  <2> QED BY <1>2, <2>1, <2>2
<1> QED
  BY <1>1, <1>3, <1>4, <1>5, <1>6, <1>7, <1>8, <1>9, <1>10, <1>11, <1>12 DEF Next, Updater, Environment

-----------------------------------------------------------------------------
(* The promises.                                                           *)

(* The inductive invariant. *)
THEOREM Invariance == Spec => []IInv
<1>1. Init => IInv
  BY TypeInit, ControlInit, MachinesInit, TruthsInit DEF IInv
<1>2. IInv /\ [Next]_vars => IInv'
  <2> SUFFICES ASSUME IInv, [Next]_vars PROVE IInv'
    OBVIOUS
  <2>1. TypeOK' /\ Control'
    BY TypeStep, ControlStep DEF IInv
  <2>2. Machines'
    BY <2>1, MachinesStep DEF IInv
  <2>3. Truths'
    BY <2>1, FreshStep, UntouchedStep, RenewedStep, ReturnedStep, EndedStep, WatchedStep
       DEF IInv, Truths
  <2> QED BY <2>1, <2>2, <2>3 DEF IInv
<1> QED BY <1>1, <1>2, PTL DEF Spec

(* What the updater reports of a target is so. *)
THEOREM Truthful == Spec => []ReportIsTrue
<1>1. IInv => ReportIsTrue
  <2> SUFFICES ASSUME IInv, phase = "done", NEW t \in Targets
               PROVE  /\ outcome[t] = "updated" => t \in died \/ Owner(t) = "new"
                      /\ outcome[t] = "restored" => t \in died \/ Owner(t) = "old"
                      /\ outcome[t] \in {Nothing, "update_not_applied"} =>
                           t \notin told /\ (t \in ran \ died => Owner(t) = "old")
                      /\ outcome[t] \in {"restored", "stopped", "stop_unverified", "update_not_applied"}
                           => t \in overlooked \/ proc[t]["new"] # "up"
                      /\ t \in stopped => outcome[t] \notin {Nothing, "stopped", "update_not_applied"}
    BY DEF ReportIsTrue
  <2> USE BackendAssumption DEF IInv, Results
  <2>1. proc[t]["new"] = "up" => Owner(t) = "new"
    BY DEF Owner, Lives
  <2>2. proc[t]["old"] = "up" => Owner(t) = "old"
    BY DEF Owner, Lives, Machines, OneLives
  <2>3. outcome[t] = "updated" => t \in died \/ Owner(t) = "new"
    BY <2>1 DEF Truths, Renewed, Control, Reported
  <2>4. outcome[t] = "restored" => /\ t \in died \/ Owner(t) = "old"
                                   /\ t \in overlooked \/ proc[t]["new"] # "up"
    BY <2>2 DEF Truths, Returned
  <2>5. t \in stopped => outcome[t] \notin {Nothing, "stopped", "update_not_applied", "stop_unverified"}
    BY DEF Truths, Ended
  <2>6. outcome[t] \in {Nothing, "update_not_applied"} =>
          t \notin told /\ (t \in ran \ died => Owner(t) = "old")
    BY <2>2, <2>5 DEF Truths, Untouched
  <2>7. t \notin stopped => proc[t]["new"] # "up"
    BY DEF Truths, Fresh, Control, Loops
  <2> QED BY <2>3, <2>4, <2>5, <2>6, <2>7
<1> QED BY <1>1, Invariance, PTL

(* No release is started beside a live owner of the same target, but for    *)
(* the captured release in the rollback, beside a replacement that was on  *)
(* its way up when stop() found nobody, and for a service that its manager *)
(* restarts after stop() found it gone.                                    *)
THEOREM OneOwner == Spec => NeverTwoOwners
<1> DEFINE Beside == \A t \in Targets :
                       phase \in {"start", "restore"} /\ target' = t
                         => \/ \A r \in Releases : ~Lives(t, r)
                            \/ t \in overlooked /\ (phase = "restore" \/ Backend[t] = "openclaw")
<1>1. IInv /\ [Next]_vars => [Beside]_vars
  <2> SUFFICES ASSUME IInv, Next, NEW t \in Targets, phase \in {"start", "restore"},
                      target' = t, ~(t \in overlooked /\ (phase = "restore" \/ Backend[t] = "openclaw"))
               PROVE  \A r \in Releases : ~Lives(t, r)
    OBVIOUS
  <2> USE BackendAssumption DEF IInv
  <2>1. target = Nothing
    BY DEF Control, Awaited
  <2>2. target' # target
    BY <2>1
  <2>3. PICK u \in Targets : StartReplacement(u) \/ StartCaptured(u) \/ AskToStop(u)
    BY <2>1, <2>2 DEF Next, Updater, Environment, ComesUp, Exits, ManagerRestarts, updater,
       Preflight,
       AllStopped, AllStarted, AllUndone, Succeeds, Reports, Moves, OwnerHasExited, OwnerDoesNotExit,
       VerifySucceeds, VerifyFails, AskFails, AnswerIsLost, StopUnregistered, ProbeThrows,
       ProbeIsRefused, PrepareFails, StopThrows
  <2>4. u = t /\ ~AskToStop(u)
    BY <2>3 DEF StartReplacement, StartCaptured, Start, AskToStop, ToStop
  <2>5. Down(t)
    <3>1. CASE StartReplacement(t)
      BY <3>1 DEF StartReplacement, ToStart, FirstToStart, Down, Control, Loops, Forward, Results
    <3>2. CASE StartCaptured(t)
      BY <3>2 DEF StartCaptured, Restoring, FirstToStart, ToRestore, FailedStops, Down, Control,
         Loops,
         Reported
    <3> QED BY <2>3, <2>4, <3>1, <3>2
  <2>6. t \notin overlooked
    BY DEF Truths, Watched, Forward
  <2>7. proc[t] = Idle
    BY <2>5, <2>6 DEF Machines, Gone
  <2> QED BY <2>7 DEF Idle, Lives
<1>2. Spec => [][Beside]_vars
  BY <1>1, Invariance, PTL DEF Spec
<1> QED BY <1>2 DEF NeverTwoOwners

-----------------------------------------------------------------------------
(* The updater ends: each of its steps uses up something that no runtime    *)
(* can give back.                                                          *)

(* The loops of activateUpdate that are still to come, the targets the      *)
(* present one has not dealt with, and whether it is between two calls:     *)
(* start() counts its target when it is called, the others when they return.*)
LoopsToGo ==
  CASE phase = "preflight" -> 6
    [] phase \in {"stop", "stopping"} -> 5
    [] phase \in {"start", "verify"} -> 4
    [] phase = "prepare" -> 3
    [] phase \in {"undo", "undoing"} -> 2
    [] phase \in {"restore", "reverify"} -> 1
    [] OTHER -> 0

Returnees == {t \in Targets : outcome[t] \in {"restored", "restore_unverified"}}

Left ==
  CASE phase \in {"stop", "stopping"} -> Targets \ stopped
    [] phase \in {"start", "verify"} -> Targets \ started
    [] phase \in {"undo", "undoing"} -> Targets \ undone
    [] phase \in {"restore", "reverify"} -> Targets \ Returnees
    [] OTHER -> {}

Half == IF phase \in {"stop", "verify", "undo", "restore"} THEN 1 ELSE 0

Remaining == LoopsToGo * (2 * Cardinality(Targets) + 2) + 2 * Cardinality(Left) + Half

(* No call of the updater is made twice, whatever fails: each of its steps  *)
(* leaves it less to do, and no runtime gives it more.                     *)
CountsDown ==
  [][/\ Remaining' \in Nat
     /\ Updater => Remaining' < Remaining
     /\ ~Updater => Remaining' = Remaining]_vars

(* The three ways a step of the updater advances. *)
NextLoop == LoopsToGo' < LoopsToGo
NextTarget == LoopsToGo' = LoopsToGo /\ \E t \in Left : Left' = Left \ {t}
NextHalf == LoopsToGo' = LoopsToGo /\ Left' = Left /\ Half = 1 /\ Half' = 0

(* A stop() that returns is through with its target, and one that throws    *)
(* ends the first loop or is through with its target in the rollback.      *)
LEMMA StopReturnsAdvances ==
  ASSUME TypeOK, NEW t \in Targets, StopReturns(t),
         phase \in {"stop", "stopping"} => t \notin stopped,
         phase \in {"undo", "undoing"} => t \notin undone
  PROVE  NextTarget
<1>1. CASE phase \in {"stop", "stopping"}
  <2>1. Left = Targets \ stopped /\ Left' = Targets \ stopped' /\ stopped' = stopped \cup {t}
    BY <1>1 DEF Left, StopReturns
  <2>2. LoopsToGo' = LoopsToGo
    BY <1>1 DEF LoopsToGo, StopReturns
  <2> QED
    BY <1>1, <2>1, <2>2 DEF NextTarget
<1>2. CASE phase \in {"undo", "undoing"}
  <2>1. Left = Targets \ undone /\ Left' = Targets \ undone' /\ undone' = undone \cup {t}
    BY <1>2 DEF Left, StopReturns
  <2>2. LoopsToGo' = LoopsToGo
    BY <1>2 DEF LoopsToGo, StopReturns
  <2> QED
    BY <1>2, <2>1, <2>2 DEF NextTarget
<1> QED
  BY <1>1, <1>2 DEF StopReturns

LEMMA StopThrowsAdvances ==
  ASSUME TypeOK, NEW t \in Targets, StopThrows(t),
         phase \in {"undo", "undoing"} => t \notin undone
  PROVE  NextLoop \/ NextTarget
<1>1. CASE phase \in {"stop", "stopping"}
  BY <1>1 DEF NextLoop, LoopsToGo, StopThrows
<1>2. CASE phase \in {"undo", "undoing"}
  <2>1. Left = Targets \ undone /\ Left' = Targets \ undone' /\ undone' = undone \cup {t}
    BY <1>2 DEF Left, StopThrows
  <2>2. LoopsToGo' = LoopsToGo
    BY <1>2 DEF LoopsToGo, StopThrows
  <2> QED
    BY <1>2, <2>1, <2>2 DEF NextTarget
<1> QED
  BY <1>1, <1>2 DEF StopThrows

(* One step per operation of the updater. *)
LEMMA UpdaterAdvances ==
  ASSUME IInv, Updater
  PROVE  NextLoop \/ NextTarget \/ NextHalf
<1> USE DEF IInv
<1>1. \A t \in ToStop : /\ phase \in {"stop", "undo"} /\ t \in Targets
                        /\ phase = "stop" => t \notin stopped
                        /\ phase = "undo" => t \notin undone
  BY DEF ToStop, FirstToStop, LastToStart, TypeOK
<1>2. phase \in {"stopping", "undoing"} => target \in Targets
  BY DEF TypeOK
<1>3. /\ phase = "stopping" => target \notin stopped
      /\ phase = "undoing" => target \notin undone
  BY DEF Control, Awaited
<1>4. CASE Preflight \/ AllStopped \/ AllStarted \/ AllUndone \/ Succeeds \/ Reports
  BY <1>4 DEF NextLoop, LoopsToGo, Preflight, AllStopped, AllStarted, AllUndone, Succeeds,
              Reports, Moves
<1>5. CASE \E t \in Targets : PrepareFails(t)
  BY <1>5 DEF NextLoop, LoopsToGo, PrepareFails, Moves
<1>6. CASE OwnerHasExited
  BY <1>2, <1>3, <1>6, StopReturnsAdvances DEF OwnerHasExited
<1>7. CASE OwnerDoesNotExit
  BY <1>2, <1>3, <1>7, StopThrowsAdvances DEF OwnerDoesNotExit
<1>8. ASSUME NEW t \in Targets, AskToStop(t) PROVE NextHalf
  <2>1. (phase = "stop" /\ phase' = "stopping") \/ (phase = "undo" /\ phase' = "undoing")
    BY <1>1, <1>8 DEF AskToStop
  <2>2. UNCHANGED <<stopped, undone>>
    BY <1>8 DEF AskToStop
  <2> QED
    BY <2>1, <2>2 DEF NextHalf, LoopsToGo, Left, Half
<1>9. ASSUME NEW t \in Targets, AskFails(t) \/ AnswerIsLost(t) \/ ProbeThrows(t)
      PROVE  NextLoop \/ NextTarget
  <2>1. t \in ToStop /\ StopThrows(t)
    BY <1>9 DEF AskFails, AnswerIsLost, ProbeThrows, Probes
  <2> QED
    BY <1>1, <2>1, StopThrowsAdvances
<1>10. ASSUME NEW t \in Targets, StopUnregistered(t) \/ ProbeIsRefused(t) PROVE NextTarget
  <2>1. t \in ToStop /\ StopReturns(t)
    BY <1>10 DEF StopUnregistered, ProbeIsRefused, Probes
  <2> QED
    BY <1>1, <2>1, StopReturnsAdvances
<1>11. ASSUME NEW t \in Targets, StartReplacement(t) PROVE NextTarget
  <2>1. phase = "start" /\ phase' = "verify" /\ t \notin started /\ started' = started \cup {t}
    BY <1>11 DEF StartReplacement, ToStart, FirstToStart
  <2>2. Left = Targets \ started /\ Left' = Targets \ started'
    BY <2>1 DEF Left
  <2>3. LoopsToGo' = LoopsToGo
    BY <2>1 DEF LoopsToGo
  <2> QED
    BY <2>1, <2>2, <2>3 DEF NextTarget
<1>12. ASSUME NEW t \in Targets, StartCaptured(t) PROVE NextHalf
  <2>1. phase = "restore" /\ phase' = "reverify" /\ outcome' = outcome
    BY <1>12 DEF StartCaptured, Restoring
  <2> QED
    BY <2>1 DEF NextHalf, LoopsToGo, Left, Half, Returnees
<1>13. CASE VerifySucceeds \/ VerifyFails
  <2>1. UNCHANGED <<started, stopped, undone>>
    BY <1>13 DEF VerifySucceeds, VerifyFails
  <2>2. CASE phase = "verify"
    <3>1. phase' \in {"start", "undo"}
      BY <1>13, <2>2 DEF VerifySucceeds, VerifyFails
    <3>2. CASE phase' = "start"
      BY <2>1, <2>2, <3>2 DEF NextHalf, LoopsToGo, Left, Half
    <3>3. CASE phase' = "undo"
      BY <2>2, <3>3 DEF NextLoop, LoopsToGo
    <3> QED
      BY <3>1, <3>2, <3>3
  <2>3. CASE phase = "reverify"
    <3>1. phase' = "restore"
      BY <1>13, <2>3 DEF VerifySucceeds, VerifyFails
    <3>2. PICK verdict \in {"restored", "restore_unverified"} :
            outcome' = [outcome EXCEPT ![target] = verdict]
      BY <1>13, <2>3 DEF VerifySucceeds, VerifyFails
    <3>3. target \in Targets \ Returnees
      BY <2>3 DEF Control, Awaited, ToRestore, Returnees, TypeOK
    <3>4. \A t \in Targets : outcome'[t] = IF t = target THEN verdict ELSE outcome[t]
      BY <3>2 DEF TypeOK
    <3>5. Returnees' = Returnees \cup {target}
      BY <3>3, <3>4 DEF Returnees
    <3>6. Left = Targets \ Returnees /\ Left' = Targets \ Returnees'
      BY <2>3, <3>1 DEF Left
    <3>7. LoopsToGo' = LoopsToGo
      BY <2>3, <3>1 DEF LoopsToGo
    <3> QED
      BY <3>3, <3>5, <3>6, <3>7 DEF NextTarget
  <2> QED
    BY <1>13, <2>2, <2>3 DEF VerifySucceeds, VerifyFails
<1> QED
  BY <1>4, <1>5, <1>6, <1>7, <1>8, <1>9, <1>10, <1>11, <1>12, <1>13 DEF Updater

(* What is left is a number. *)
LEMMA RemainingIsNatural ==
  ASSUME IsFiniteSet(Targets)
  PROVE  /\ Cardinality(Targets) \in Nat /\ LoopsToGo \in 0 .. 6 /\ Half \in {0, 1}
         /\ IsFiniteSet(Left) /\ Cardinality(Left) \in 0 .. Cardinality(Targets)
<1>1. Left \subseteq Targets
  BY DEF Left
<1>2. /\ IsFiniteSet(Left) /\ Cardinality(Targets) \in Nat /\ Cardinality(Left) \in Nat
      /\ Cardinality(Left) <= Cardinality(Targets)
  BY <1>1, FS_Subset, FS_CardinalityType
<1>3. LoopsToGo \in 0 .. 6 /\ Half \in {0, 1}
  BY DEF LoopsToGo, Half
<1> QED
  BY <1>2, <1>3

(* The arithmetic of the advances: a loop weighs more than all targets, and  *)
(* a target more than half a call.                                         *)
LEMMA LowerSum ==
  ASSUME NEW N \in Nat, NEW a \in 0 .. 6, NEW b \in 0 .. N, NEW h \in {0, 1},
         NEW c \in 0 .. 6, NEW d \in 0 .. N, NEW k \in {0, 1},
         c < a \/ (c = a /\ (d < b \/ (d = b /\ k < h)))
  PROVE  /\ c * (2 * N + 2) + 2 * d + k \in Nat
         /\ c * (2 * N + 2) + 2 * d + k < a * (2 * N + 2) + 2 * b + h
<1> DEFINE M == 2 * N + 2
<1>1. /\ M \in Nat /\ 2 * d + k \in 0 .. M - 1 /\ 2 * b + h \in 0 .. M - 1
      /\ c = a => 2 * d + k < 2 * b + h
  OBVIOUS
<1>2. c * M \in Nat /\ a * M \in Nat /\ (c < a => c * M + M <= a * M)
  <2> HIDE DEF M
  <2>1. a \in {0, 1, 2, 3, 4, 5, 6} /\ c \in {0, 1, 2, 3, 4, 5, 6}
    OBVIOUS
  <2> QED
    BY <1>1, <2>1
<1> DEFINE p == 2 * d + k
           q == 2 * b + h
           x == c * M
           y == a * M
<1>3. x \in Nat /\ y \in Nat /\ p \in Nat /\ q \in Nat /\ p < M /\ (c < a => x + M <= y)
      /\ (c = a => p < q /\ x = y)
  BY <1>1, <1>2
<1>4. x + p \in Nat /\ x + p < y + q
  <2> HIDE DEF x, y, p, q, M
  <2> QED
    BY <1>1, <1>3
<1>5. c * (2 * N + 2) + 2 * d + k = x + p /\ a * (2 * N + 2) + 2 * b + h = y + q
  BY <1>1, <1>2
<1> QED
  BY <1>4, <1>5

(* So any advance of the updater lowers what is left. *)
LEMMA AdvanceLowers ==
  ASSUME IsFiniteSet(Targets), NextLoop \/ NextTarget \/ NextHalf
  PROVE  Remaining' \in Nat /\ Remaining' < Remaining
<1> DEFINE N == Cardinality(Targets)
<1>1. /\ N \in Nat /\ LoopsToGo \in 0 .. 6 /\ Half \in {0, 1}
      /\ IsFiniteSet(Left) /\ Cardinality(Left) \in 0 .. N
  BY RemainingIsNatural
<1>2. /\ LoopsToGo' \in 0 .. 6 /\ Half' \in {0, 1} /\ Cardinality(Left') \in 0 .. N
  <2>1. IsFiniteSet(Left') /\ Cardinality(Left') \in Nat /\ Cardinality(Left') <= N
    <3>1. Left' \subseteq Targets
      BY DEF Left
    <3> QED
      BY <3>1, FS_Subset, FS_CardinalityType
  <2>2. LoopsToGo' \in 0 .. 6 /\ Half' \in {0, 1}
    BY DEF LoopsToGo, Half
  <2> QED
    BY <1>1, <2>1, <2>2
<1>3. /\ Remaining = LoopsToGo * (2 * N + 2) + 2 * Cardinality(Left) + Half
      /\ Remaining' = LoopsToGo' * (2 * N + 2) + 2 * Cardinality(Left') + Half'
  BY DEF Remaining
<1>4. CASE NextTarget
  <2>1. PICK t \in Left : Left' = Left \ {t}
    BY <1>4 DEF NextTarget
  <2>2. Cardinality(Left') = Cardinality(Left) - 1
    BY <1>1, <2>1, FS_RemoveElement
  <2>3. LoopsToGo' = LoopsToGo /\ Cardinality(Left') < Cardinality(Left)
    BY <1>1, <1>4, <2>2 DEF NextTarget
  <2> QED
    BY <1>1, <1>2, <1>3, <2>3, LowerSum
<1>5. CASE NextHalf
  <2>1. LoopsToGo' = LoopsToGo /\ Half' < Half
    BY <1>5 DEF NextHalf
  <2>2. Cardinality(Left') = Cardinality(Left)
    BY <1>5 DEF NextHalf
  <2> QED
    BY <1>1, <1>2, <1>3, <2>1, <2>2, LowerSum
<1>6. CASE NextLoop
  BY <1>1, <1>2, <1>3, <1>6, LowerSum DEF NextLoop
<1> QED
  BY <1>4, <1>5, <1>6

(* The updater takes finitely many steps: what it has left to do counts     *)
(* down with every step, from at most twelve per target and twelve, to 0.   *)
THEOREM UpdaterCountsDown ==
  ASSUME IsFiniteSet(Targets)
  PROVE  Spec => CountsDown
<1>1. ASSUME IInv, Updater
      PROVE  Remaining' \in Nat /\ Remaining' < Remaining
  BY <1>1, UpdaterAdvances, AdvanceLowers
<1>2. ASSUME IInv, Environment
      PROVE  Remaining' \in Nat /\ Remaining' = Remaining
  <2>1. UNCHANGED <<phase, stopped, started, undone, outcome>>
    BY <1>2 DEF Environment, ComesUp, Exits, ManagerRestarts, updater
  <2>2. LoopsToGo' = LoopsToGo /\ Left' = Left /\ Half' = Half
    BY <2>1 DEF LoopsToGo, Left, Half, Returnees
  <2> QED
    BY <2>2, RemainingIsNatural DEF Remaining
<1>3. IInv /\ [Next]_vars => [/\ Remaining' \in Nat
                              /\ Updater => Remaining' < Remaining
                              /\ ~Updater => Remaining' = Remaining]_vars
  BY <1>1, <1>2 DEF Next
<1> QED
  BY <1>3, Invariance, PTL DEF Spec, CountsDown

=============================================================================
