------------------------------ MODULE Monitors ------------------------------
(***************************************************************************)
(* Context::monitor and demonitor (tasks/actor.rs; threads/actor.rs does   *)
(* the same with a thread): every monitor has a task of its own that waits *)
(* for the target's completion, takes the entry out of the table, and then *)
(* looks at the active flag it shares with demonitor.                      *)
(***************************************************************************)
EXTENDS ActorLife

CONSTANTS MonitorRefs     \* 1..n: the monitors made

VARIABLES
    mon         \* per MonitorRef: the watching actor and the target; whether the
                \* table has it; the active flag; the task; Downs sent
                \* history: demonitored before the target had exited

DownMsg(ref) == <<"down", ref>>

MonitorInit ==
    mon = [ref \in MonitorRefs |-> [by |-> Idle, target |-> Idle, listed |-> FALSE,
             active |-> FALSE, task |-> "none", sent |-> 0, early |-> FALSE]]

\* MonitorRef::next gives each call a new one.
Monitor(w, x, ref) ==
    /\ "monitors" \in use /\ phase[w] = "up"
    /\ mon[ref].task = "none" /\ \A r \in MonitorRefs : r < ref => mon[r].task # "none"
    /\ mon' = [mon EXCEPT ![ref] = [@ EXCEPT !.by = w, !.target = x, !.listed = TRUE,
                                             !.active = TRUE, !.task = "waiting"]]
    /\ UNCHANGED lifeVars

ThreadsMonitor(w, x, ref) == Monitor(w, x, ref)

\* Mutant: the entry goes and the flag is forgotten.
DemonitorKeepsActive(ref) ==
    /\ mon[ref].task # "none"
    /\ mon' = [mon EXCEPT ![ref] = [@ EXCEPT !.listed = FALSE,
                 !.early = mon[ref].early \/ phase[mon[ref].target] # "dead"]]
    /\ UNCHANGED lifeVars

\* demonitor: only the flag of an entry still listed is cleared.
Demonitor(ref) ==
    /\ mon[ref].task # "none"
    /\ mon' = [mon EXCEPT ![ref] = [@ EXCEPT
                 !.active = mon[ref].active /\ ~mon[ref].listed, !.listed = FALSE,
                 !.early = mon[ref].early \/ phase[mon[ref].target] # "dead"]]
    /\ UNCHANGED lifeVars

ThreadsDemonitor(ref) == Demonitor(ref)

\* The task: wait_exit_async or wait_exit_blocking returns, the entry goes ...
TargetExited(ref) ==
    /\ mon[ref].task = "waiting" /\ phase[mon[ref].target] = "dead"
    /\ mon' = [mon EXCEPT ![ref] = [@ EXCEPT !.listed = FALSE, !.task = "woken"]]
    /\ UNCHANGED lifeVars

\* Mutant: nothing is sent once the entry has left the table.
DeliverNever(ref) ==
    /\ mon[ref].task = "woken"
    /\ mon' = [mon EXCEPT ![ref].task = IF mon[ref].listed THEN "woken" ELSE "done"]
    /\ UNCHANGED lifeVars

\* ... and a Down is sent if the monitor is still active.
DeliverDown(ref) ==
    LET m == mon[ref]
    IN  /\ m.task = "woken"
        /\ IF m.active THEN SendOrDrop(m.by, DownMsg(ref)) ELSE UNCHANGED queue
        /\ mon' = [mon EXCEPT ![ref] = [@ EXCEPT
                     !.task = "done", !.sent = IF m.active /\ CanSend(m.by) THEN m.sent + 1 ELSE m.sent]]
        /\ UNCHANGED <<phase, cancelled, handling>>

MonitorTask(ref) == TargetExited(ref) \/ DeliverDown(ref)

MonitorNext ==
    \E ref \in MonitorRefs :
        \/ \E w, x \in Actors : Monitor(w, x, ref) \/ ThreadsMonitor(w, x, ref)
        \/ Demonitor(ref) \/ ThreadsDemonitor(ref) \/ MonitorTask(ref)

-----------------------------------------------------------------------------
(* Properties.                                                             *)

\* A monitor sends at most one Down, only when its target has exited and its
\* entry has left the table, and none if demonitor() came before that exit,
\* whatever the watching task was at.
DownOnce ==
    \A ref \in MonitorRefs :
        mon[ref].sent > 0 =>
            /\ mon[ref].sent = 1 /\ phase[mon[ref].target] = "dead"
            /\ ~mon[ref].listed /\ ~mon[ref].early

\* The target of a monitor nobody cancelled exits: a Down is sent, or the
\* watching actor is gone.  Monitors of a target already dead are included.
DownArrives ==
    <>[](\A ref \in MonitorRefs :
            mon[ref].task # "none" /\ phase[mon[ref].target] = "dead" /\ mon[ref].active
                => mon[ref].sent = 1 \/ ~CanSend(mon[ref].by))
=============================================================================
